------------------------------- MODULE Roster -------------------------------
(***************************************************************************)
(* The roster of one net (routers/checkins.py, with the routine sessions   *)
(* of routers/sessions.py and the zone list of routers/evac_zones.py):     *)
(* stations are checked in one at a time or by CSV import, each check-in   *)
(* after two SELECTs and with up to two commits.                           *)
(***************************************************************************)
EXTENDS Naturals, Sequences, FiniteSets

CONSTANTS
    Callsigns,
    NoCallsign,
    Zones,
    NoZone,
    Gmrs,           \* a GMRS net lets one callsign check in several times
    Sheets,         \* what clients submit: a sequence of rows, each to be checked in
    Slots,          \* requests that can be in flight at once
    Failures,       \* whether a request can die between two of its steps
    Ops,            \* the kinds of request clients send in this instance
    MaxSessions,    \* bounds on the rows clients ask for
    MaxCheckins,
    MaxZones

AllOps == {"start", "backfill", "submit", "signon", "end", "delete", "remove", "zones"}

\* One row of a sheet.  fits: its values fit the columns of the table.  A row
\* without a callsign is noted and skipped.
SheetRow == [callsign : Callsigns \cup {NoCallsign}, zone : Zones \cup {NoZone},
             fits : BOOLEAN]

ASSUME RosterAssumption ==
    /\ NoCallsign \notin Callsigns /\ NoZone \notin Zones
    /\ Gmrs \in BOOLEAN /\ Failures \in BOOLEAN
    /\ Sheets \subseteq Seq(SheetRow) /\ <<>> \notin Sheets
    /\ Ops \subseteq AllOps
    /\ MaxSessions \in Nat /\ MaxCheckins \in Nat /\ MaxZones \in Nat

VARIABLES
    sessions,   \* net_sessions
    roster,     \* checkins
    zones,      \* evac_zones
    req,        \* the requests in flight
    missed,     \* history: stations whose entry in zones was edited by hand, or
                \* whose report died between its two commits
    contested   \* history: stations of which two reports were on their way to
                \* zones at once

history == <<missed, contested>>

vars == <<sessions, roster, zones, req, history>>

-----------------------------------------------------------------------------
(* Tables are append-only: a row's primary key is its index, a deleted row *)
(* stays with live = FALSE, and Null is the absent key.                    *)

Null == 0

Session == [live : BOOLEAN, ended : BOOLEAN, offline : BOOLEAN, locked : BOOLEAN]

\* tactical: made by sign-on to a position, which checks nothing of this.  seen
\* is history: the length of the roster when the duplicate check was made.
Checkin == [live : BOOLEAN, session : Nat, callsign : Callsigns, tactical : BOOLEAN,
            first : BOOLEAN, zone : Zones \cup {NoZone}, seen : Nat]

ZoneRow == [live : BOOLEAN, callsign : Callsigns, zone : Zones]

Steps == {"idle", "stamp", "check", "history", "insert", "zone", "upsert"}

\* row is the row of the sheet being worked on; entry the check-in made for it,
\* then the zone row found.
Request == [step : Steps, session : Nat, sheet : Seq(SheetRow), row : Nat,
            seen : Nat, first : BOOLEAN, entry : Nat]

Idle == [step |-> "idle", session |-> Null, sheet |-> <<>>, row |-> 0,
         seen |-> 0, first |-> FALSE, entry |-> Null]

Tables ==
    /\ sessions \in Seq(Session)
    /\ roster \in Seq(Checkin)
    /\ zones \in Seq(ZoneRow)
    /\ req \in [Slots -> Request]

TypeOK == Tables /\ missed \subseteq Callsigns /\ contested \subseteq Callsigns

Live(table, id) == id \in DOMAIN table /\ table[id].live

Cascade(table, gone) ==
    [i \in DOMAIN table |->
        IF i \in gone THEN [table[i] EXCEPT !.live = FALSE] ELSE table[i]]

\* Whether a session still takes check-ins; a backfilled one is ended from the
\* start and closed by its lock instead.
Accepting(s) == IF s.offline THEN ~s.locked ELSE ~s.ended

Current(r) == r.sheet[r.row]

Entries(c) == {z \in DOMAIN zones : zones[z].live /\ zones[z].callsign = c}

At(p, step) == req[p].step = step

Continue(p, r) == req' = [req EXCEPT ![p] = r]

Reply(p) == Continue(p, Idle)

\* On to the next row of the sheet, or the answer.
NextRow(r) ==
    IF r.row = Len(r.sheet) THEN Idle
    ELSE [r EXCEPT !.step = "check", !.row = @ + 1, !.seen = 0,
                   !.first = FALSE, !.entry = Null]

-----------------------------------------------------------------------------
(* Sessions.                                                               *)

NewSession(offline) ==
    [live |-> TRUE, ended |-> FALSE, offline |-> offline, locked |-> FALSE]

\* start_session of a routine session
StartSession ==
    /\ "start" \in Ops /\ Len(sessions) < MaxSessions
    /\ sessions' = Append(sessions, NewSession(FALSE))
    /\ UNCHANGED <<roster, zones, req, history>>

\* start_session of a backfilled session: a second commit stamps ended_at.
StartOffline(p) ==
    /\ "backfill" \in Ops /\ At(p, "idle") /\ Len(sessions) < MaxSessions
    /\ sessions' = Append(sessions, NewSession(TRUE))
    /\ Continue(p, [Idle EXCEPT !.step = "stamp", !.session = Len(sessions) + 1])
    /\ UNCHANGED <<roster, zones, history>>

StampEnded(p) ==
    /\ At(p, "stamp") /\ Live(sessions, req[p].session)
    /\ sessions' = [sessions EXCEPT ![req[p].session].ended = TRUE]
    /\ Reply(p)
    /\ UNCHANGED <<roster, zones, history>>

EndSession(s) ==
    /\ "end" \in Ops /\ Live(sessions, s) /\ Accepting(sessions[s])
    /\ sessions' = IF sessions[s].offline
                   THEN [sessions EXCEPT ![s].locked = TRUE]
                   ELSE [sessions EXCEPT ![s].ended = TRUE]
    /\ UNCHANGED <<roster, zones, req, history>>

DeleteSession(s) ==
    /\ "delete" \in Ops /\ Live(sessions, s)
    /\ sessions' = Cascade(sessions, {s})
    /\ roster' = Cascade(roster, {i \in DOMAIN roster : roster[i].session = s})
    /\ UNCHANGED <<zones, req, history>>

-----------------------------------------------------------------------------
(* add_checkin and import_checkins_csv: the session is read once, then     *)
(* _create_checkin runs for each row.                                      *)

\* Mutant: no look at whether the session still takes check-ins.
SubmitUnchecked(p, s, sheet) ==
    /\ "submit" \in Ops /\ At(p, "idle")
    /\ Len(roster) + Len(sheet) <= MaxCheckins
    /\ Live(sessions, s)
    /\ Continue(p, [Idle EXCEPT !.step = "check", !.session = s,
                                !.sheet = sheet, !.row = 1])
    /\ UNCHANGED <<sessions, roster, zones, history>>

Submit(p, s, sheet) ==
    /\ "submit" \in Ops /\ At(p, "idle")
    /\ Len(roster) + Len(sheet) <= MaxCheckins
    /\ Live(sessions, s) /\ Accepting(sessions[s])
    /\ Continue(p, [Idle EXCEPT !.step = "check", !.session = s,
                                !.sheet = sheet, !.row = 1])
    /\ UNCHANGED <<sessions, roster, zones, history>>

Taken(s, c) ==
    \E i \in DOMAIN roster : roster[i].live /\ roster[i].session = s
                                            /\ roster[i].callsign = c

\* Mutant: the duplicate check is made for the first row of a sheet only.
CheckDuplicateOnce(p) ==
    LET r == req[p]
        c == Current(r).callsign
    IN  /\ At(p, "check")
        /\ Continue(p, IF c = NoCallsign \/ (~Gmrs /\ r.row = 1 /\ Taken(r.session, c))
                       THEN NextRow(r)
                       ELSE [r EXCEPT !.step = "history", !.seen = Len(roster)])
        /\ UNCHANGED <<sessions, roster, zones, history>>

\* A duplicate is refused, except on a GMRS net; the import goes on.
CheckDuplicate(p) ==
    LET r == req[p]
        c == Current(r).callsign
    IN  /\ At(p, "check")
        /\ Continue(p, IF c = NoCallsign \/ (~Gmrs /\ Taken(r.session, c))
                       THEN NextRow(r)
                       ELSE [r EXCEPT !.step = "history", !.seen = Len(roster)])
        /\ UNCHANGED <<sessions, roster, zones, history>>

\* Mutant: only this session's check-ins count as history.
KnownHere(s, c) == Taken(s, c)

\* Whether callsign c has a check-in on this net, in any session.
Known(s, c) == \E i \in DOMAIN roster : roster[i].live /\ roster[i].callsign = c

\* _is_first_checkin_for_net
ReadHistory(p) ==
    LET r == req[p]
    IN  /\ At(p, "history")
        /\ Continue(p, [r EXCEPT !.step = "insert",
                                 !.first = ~Known(r.session, Current(r).callsign)])
        /\ UNCHANGED <<sessions, roster, zones, history>>

\* The report of c is stored and on its way to the zone list.
Listing(p, c) == req[p].step \in {"zone", "upsert"} /\ Current(req[p]).callsign = c

Insertable(r) == Live(sessions, r.session) /\ Current(r).fits

Insert(p) ==
    LET r == req[p]
        row == Current(r)
    IN  /\ At(p, "insert") /\ Insertable(r)
        /\ roster' = Append(roster,
                            [live |-> TRUE, session |-> r.session,
                             callsign |-> row.callsign, tactical |-> FALSE,
                             first |-> r.first, zone |-> row.zone, seen |-> r.seen])
        /\ Continue(p, IF row.zone = NoZone THEN NextRow(r)
                       ELSE [r EXCEPT !.step = "zone", !.entry = Len(roster) + 1])
        /\ contested' = IF row.zone # NoZone /\ \E q \in Slots : Listing(q, row.callsign)
                        THEN contested \cup {row.callsign} ELSE contested
        /\ UNCHANGED <<sessions, zones, missed>>

\* The check-in was deleted before the refresh that follows its commit.
LoseCheckin(p) ==
    /\ At(p, "zone") /\ ~Live(roster, req[p].entry)
    /\ Continue(p, NextRow(req[p]))
    /\ UNCHANGED <<sessions, roster, zones, history>>

\* The zone list follows the check-in in a commit of its own.
ReadZone(p) ==
    LET r == req[p]
        c == Current(r).callsign
    IN  /\ At(p, "zone")
        /\ \E z \in IF Entries(c) = {} THEN {Null} ELSE Entries(c) :
              Continue(p, [r EXCEPT !.step = "upsert", !.entry = z])
        /\ UNCHANGED <<sessions, roster, zones, history>>

\* The entry found is still there, or none was found and there is still none.
Upsertable(r) ==
    IF r.entry = Null THEN Entries(Current(r).callsign) = {} ELSE Live(zones, r.entry)

NewEntry(c, zone) == Append(zones, [live |-> TRUE, callsign |-> c, zone |-> zone])

\* Mutant: an entry that exists is left as it is.
UpsertKeepsOld(p) ==
    LET r == req[p]
    IN  /\ At(p, "upsert") /\ Upsertable(r)
        /\ zones' = IF r.entry = Null THEN NewEntry(Current(r).callsign, Current(r).zone)
                    ELSE zones
        /\ Continue(p, NextRow(r))
        /\ UNCHANGED <<sessions, roster, history>>

UpsertZone(p) ==
    LET r == req[p]
    IN  /\ At(p, "upsert") /\ Upsertable(r)
        /\ zones' = IF r.entry = Null THEN NewEntry(Current(r).callsign, Current(r).zone)
                    ELSE [zones EXCEPT ![r.entry].zone = Current(r).zone]
        /\ Continue(p, NextRow(r))
        /\ UNCHANGED <<sessions, roster, history>>

\* A commit the database refuses (a value too long, a session that has gone, the
\* unique key of the zone list) ends the whole request: nobody rolls back, so
\* every later row of an import fails on the same broken transaction.
Refuse(p) ==
    /\ \/ At(p, "stamp") /\ ~Live(sessions, req[p].session)
       \/ At(p, "insert") /\ ~Insertable(req[p])
       \/ At(p, "upsert") /\ ~Upsertable(req[p])
    /\ Reply(p)
    /\ UNCHANGED <<sessions, roster, zones, history>>

\* The worker is stopped or loses its database connection.
Fail(p) ==
    /\ Failures /\ ~At(p, "idle")
    /\ missed' = IF req[p].step \in {"zone", "upsert"}
                 THEN missed \cup {Current(req[p]).callsign} ELSE missed
    /\ Reply(p)
    /\ UNCHANGED <<sessions, roster, zones, contested>>

-----------------------------------------------------------------------------
(* Other writers of the roster and of the zone list.                       *)

\* sign_on_tactical_position logs a check-in that takes none of these checks.
SignOn(s, c) ==
    /\ "signon" \in Ops /\ Len(roster) < MaxCheckins
    /\ Live(sessions, s) /\ ~sessions[s].ended
    /\ roster' = Append(roster, [live |-> TRUE, session |-> s, callsign |-> c,
                                 tactical |-> TRUE, first |-> FALSE,
                                 zone |-> NoZone, seen |-> Len(roster)])
    /\ UNCHANGED <<sessions, zones, req, history>>

DeleteCheckin(i) ==
    /\ "remove" \in Ops /\ Live(roster, i)
    /\ roster' = Cascade(roster, {i})
    /\ UNCHANGED <<sessions, zones, req, history>>

\* update_evac_zone, by hand
UpdateZone(c, zone) ==
    /\ "zones" \in Ops /\ Len(zones) < MaxZones
    /\ zones' = IF Entries(c) = {} THEN NewEntry(c, zone)
                ELSE [z \in DOMAIN zones |-> IF z \in Entries(c)
                                             THEN [zones[z] EXCEPT !.zone = zone]
                                             ELSE zones[z]]
    /\ missed' = missed \cup {c}
    /\ UNCHANGED <<sessions, roster, req, contested>>

DeleteZone(z) ==
    /\ "zones" \in Ops /\ Live(zones, z)
    /\ zones' = Cascade(zones, {z})
    /\ missed' = missed \cup {zones[z].callsign}
    /\ UNCHANGED <<sessions, roster, req, contested>>

-----------------------------------------------------------------------------
Init ==
    /\ sessions = <<>> /\ roster = <<>> /\ zones = <<>>
    /\ req = [p \in Slots |-> Idle] /\ missed = {} /\ contested = {}

Begin(p) ==
    \/ StartOffline(p)
    \/ \E s \in DOMAIN sessions, sheet \in Sheets : Submit(p, s, sheet)

\* What the server does by itself once a request is in flight.
Proceed(p) ==
    \/ StampEnded(p) \/ CheckDuplicate(p) \/ ReadHistory(p) \/ Insert(p)
    \/ LoseCheckin(p) \/ ReadZone(p) \/ UpsertZone(p) \/ Refuse(p)

Edit ==
    \/ StartSession
    \/ \E s \in DOMAIN sessions :
          EndSession(s) \/ DeleteSession(s) \/ \E c \in Callsigns : SignOn(s, c)
    \/ \E i \in DOMAIN roster : DeleteCheckin(i)
    \/ \E c \in Callsigns, zone \in Zones : UpdateZone(c, zone)
    \/ \E z \in DOMAIN zones : DeleteZone(z)

Next == Edit \/ \E p \in Slots : Begin(p) \/ Proceed(p) \/ Fail(p)

Spec == Init /\ [][Next]_vars

-----------------------------------------------------------------------------
(* Properties.                                                             *)

SameStation(i, j) ==
    /\ roster[i].live /\ roster[j].live
    /\ roster[i].callsign = roster[j].callsign

\* On a ham net two check-ins of one callsign to one session come only from two
\* requests that raced: the newer one looked before the older one was committed
\* (_create_checkin: "app-level, not DB-level" uniqueness).
DuplicateIsRaced ==
    \A i, j \in DOMAIN roster :
        /\ i < j /\ SameStation(i, j) /\ ~Gmrs
        /\ roster[i].session = roster[j].session
        /\ ~roster[i].tactical /\ ~roster[j].tactical
        => roster[j].seen < i

\* A check-in marked as somebody's first on the net is later than another one
\* of theirs only if it looked before that one was committed, whichever session
\* or endpoint that one came by (_is_first_checkin_for_net: "any session").
FirstIsRaced ==
    \A i, j \in DOMAIN roster :
        i < j /\ SameStation(i, j) /\ roster[j].first => roster[j].seen < i

\* With requests that do not overlap, a ham session has each callsign once,
\* within one imported sheet too.
UniqueInSession ==
    \A i, j \in DOMAIN roster :
        /\ SameStation(i, j) /\ ~Gmrs /\ roster[i].session = roster[j].session
        /\ ~roster[i].tactical /\ ~roster[j].tactical
        => i = j

\* With requests that do not overlap, nobody on the roster is welcomed as a
\* first-timer twice.
FirstOnce ==
    \A i, j \in DOMAIN roster :
        SameStation(i, j) /\ roster[i].first /\ roster[j].first => i = j

Adding(p, s) == req[p].session = s /\ req[p].step \in {"check", "history", "insert", "zone", "upsert"}

\* Once a session is closed and the submissions that had seen it open are
\* through, its roster grows no more except by tactical sign-on.
ClosedStaysQuiet ==
    [][\A s \in DOMAIN sessions :
           ~Accepting(sessions[s]) /\ (\A p \in Slots : ~Adding(p, s)) =>
               /\ \A p \in Slots : ~Adding(p, s)'
               /\ \A i \in DOMAIN roster' \ DOMAIN roster :
                     roster'[i].session = s => roster'[i].tactical]_vars

\* Every station on a roster with a zone is on the zone list, or the request
\* that reports it is about to put it there; of two first reports that race, the
\* one refused leaves the entry of the other.
ZoneIsListed ==
    \A i \in DOMAIN roster :
        roster[i].live /\ roster[i].zone # NoZone /\ roster[i].callsign \notin missed =>
            \/ Entries(roster[i].callsign) # {}
            \/ \E p \in Slots : Listing(p, roster[i].callsign)

Reports(c) == {i \in DOMAIN roster : roster[i].callsign = c /\ roster[i].zone # NoZone}

\* The list shows report i of c, or a later one, which may be deleted by now.
Shown(c, i) ==
    \E j \in Reports(c), z \in Entries(c) : i <= j /\ zones[z].zone = roster[j].zone

\* Unless two reports of a station were on their way at once, the list never falls behind
\* the roster: whatever else overlaps, no older report comes to stand for a newer one.
ZoneFollowsRoster ==
    \A c \in Callsigns \ (missed \cup contested) : \A i \in Reports(c) :
        roster[i].live => Shown(c, i) \/ \E p \in Slots : Listing(p, c)

\* The zone list keeps up with the roster (_create_checkin).
ListKeepsUp == ZoneIsListed /\ ZoneFollowsRoster
=============================================================================
