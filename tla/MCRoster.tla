------------------------------ MODULE MCRoster ------------------------------
(* Small instances of Roster: one station, two zones, a few sheets.  A run  *)
(* is one of two scenarios: submissions that overlap, or one request at a   *)
(* time, any of which may die half way.                                     *)
EXTENDS Roster, TLC

CONSTANTS call1, zoneA, zoneB, p1, p2

VARIABLE scenario

OneCallsign == {call1}
TwoZones == {zoneA, zoneB}
TwoSlots == {p1, p2}

Row(c, zone, fits) == [callsign |-> c, zone |-> zone, fits |-> fits]

\* A check-in, and an import.
RaceSheets ==
    { <<Row(call1, zoneA, TRUE)>>,
      <<Row(call1, NoZone, TRUE), Row(call1, zoneA, TRUE)>> }

\* Two zones, a row without callsign, one the database refuses.
SequenceSheets ==
    { <<Row(call1, zoneB, TRUE)>>,
      <<Row(call1, zoneA, TRUE), Row(call1, NoZone, TRUE)>>,
      <<Row(NoCallsign, NoZone, TRUE), Row(call1, zoneA, FALSE)>> }

MCSheets == RaceSheets \cup SequenceSheets

\* Two submissions in flight, on two sessions that end and go.
Overlap ==
    /\ scenario = "race"
    /\ \/ StartSession
       \/ \E s \in DOMAIN sessions :
             \/ EndSession(s) \/ DeleteSession(s)
             \/ Len(roster) < 2 /\ \E c \in Callsigns : SignOn(s, c)
             \/ \E p \in Slots, sheet \in RaceSheets :
                   Len(roster) + Len(sheet) <= 2 /\ Submit(p, s, sheet)
       \/ \E p \in Slots : Proceed(p)

\* One request at a time.
Sequence ==
    /\ scenario = "sequence"
    /\ \/ StartSession
       \/ \E s \in DOMAIN sessions : EndSession(s)
       \/ \E i \in DOMAIN roster : DeleteCheckin(i)
       \/ \E c \in Callsigns, zone \in Zones : UpdateZone(c, zone)
       \/ \E z \in DOMAIN zones : DeleteZone(z)
       \/ \E p \in Slots :
             \/ /\ \A q \in Slots : At(q, "idle")
                /\ \/ StartOffline(p)
                   \/ \E s \in DOMAIN sessions, sheet \in SequenceSheets : Submit(p, s, sheet)
             \/ Proceed(p) \/ Fail(p)

MCInit == Init /\ scenario \in {"race", "sequence"}

MCNext == UNCHANGED scenario /\ (Overlap \/ Sequence)

MCSpec == MCInit /\ [][MCNext]_<<vars, scenario>>

Symmetry == Permutations(TwoSlots)
=============================================================================
