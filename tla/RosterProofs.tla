---------------------------- MODULE RosterProofs ----------------------------
(***************************************************************************)
(* Theorems about Roster, for every set of callsigns, zones, sheets and    *)
(* slots, every repertoire of requests and every bound on the tables.      *)
(***************************************************************************)
EXTENDS Roster, TLAPS, SequenceTheorems

(***************************************************************************)
(* Types.                                                                  *)
(***************************************************************************)

\* Cascade keeps the table's length and every row outside the set.
LEMMA CascadeRows ==
    ASSUME NEW S, NEW table \in Seq(S), NEW gone,
           \A r \in S : [r EXCEPT !.live = FALSE] \in S
    PROVE  /\ Cascade(table, gone) \in Seq(S)
           /\ Len(Cascade(table, gone)) = Len(table)
           /\ DOMAIN Cascade(table, gone) = DOMAIN table
           /\ \A i \in DOMAIN table : Cascade(table, gone)[i] =
                  IF i \in gone THEN [table[i] EXCEPT !.live = FALSE] ELSE table[i]
<1>1. table \in [1..Len(table) -> S] /\ Len(table) \in Nat /\ DOMAIN table = 1..Len(table)
  BY LenProperties
<1>2. Cascade(table, gone) \in [1..Len(table) -> S]
  BY <1>1 DEF Cascade
<1>3. \A n \in Nat : \A f \in [1..n -> S] : f \in Seq(S) /\ Len(f) = n /\ DOMAIN f = 1..n
  BY SeqDef
<1> QED
  BY <1>1, <1>2, <1>3 DEF Cascade

\* What a typed state says about its tables.
LEMMA TableFacts ==
    ASSUME Tables
    PROVE  /\ Len(sessions) \in Nat /\ DOMAIN sessions = 1..Len(sessions)
           /\ Len(roster) \in Nat /\ DOMAIN roster = 1..Len(roster)
           /\ Len(zones) \in Nat /\ DOMAIN zones = 1..Len(zones)
           /\ \A s \in DOMAIN sessions : sessions[s] \in Session
           /\ \A i \in DOMAIN roster : roster[i] \in Checkin
           /\ \A z \in DOMAIN zones : zones[z] \in ZoneRow
           /\ \A p \in Slots : req[p] \in Request
BY LenProperties, ElementOfSeq DEF Tables

LEMMA RowTypes ==
    /\ \A r \in Session : [r EXCEPT !.live = FALSE] \in Session
    /\ \A r \in Checkin : [r EXCEPT !.live = FALSE] \in Checkin
    /\ \A r \in ZoneRow : [r EXCEPT !.live = FALSE] \in ZoneRow
    /\ \A offline \in BOOLEAN : NewSession(offline) \in Session
BY DEF Session, Checkin, ZoneRow, NewSession

LEMMA SheetFacts ==
    ASSUME NEW sheet \in Seq(SheetRow)
    PROVE  /\ Len(sheet) \in Nat
           /\ \A n \in 1..Len(sheet) : sheet[n] \in SheetRow
BY LenProperties, ElementOfSeq

LEMMA IdleTyped == Idle \in Request
<1>1. <<>> \in Seq(SheetRow)
  BY EmptySeq
<1> QED
  BY <1>1 DEF Request, Idle, Steps, Null

\* A request at work is at a row of its sheet, has looked at no more than there
\* is, and has a callsign and a zone where it is going to store them.
RequestOK(r, n) ==
    /\ r.seen <= n
    /\ r.step \in {"check", "history", "insert", "zone", "upsert"} => r.row \in 1..Len(r.sheet)
    /\ r.step \in {"history", "insert", "zone", "upsert"} => Current(r).callsign \in Callsigns
    /\ r.step \in {"zone", "upsert"} => Current(r).zone \in Zones

TypeInv == Tables /\ \A p \in Slots : RequestOK(req[p], Len(roster))

LEMMA IdleOK ==
    ASSUME NEW n \in Nat
    PROVE  RequestOK(Idle, n)
BY DEF RequestOK, Idle

LEMMA OKGrows ==
    ASSUME NEW r \in Request, NEW n \in Nat, NEW m \in Nat, n <= m, RequestOK(r, n)
    PROVE  RequestOK(r, m)
BY DEF RequestOK, Request

LEMMA NextRowOK ==
    ASSUME NEW r \in Request, NEW n \in Nat, r.row \in 1..Len(r.sheet)
    PROVE  NextRow(r) \in Request /\ RequestOK(NextRow(r), n)
           /\ NextRow(r).step \notin {"history", "insert"}
<1>1. CASE r.row = Len(r.sheet)
  BY <1>1, IdleTyped, IdleOK DEF NextRow, Idle
<1>2. CASE r.row # Len(r.sheet)
  <2>1. Len(r.sheet) \in Nat /\ r.row \in Nat
    BY SheetFacts DEF Request
  <2>2. PICK n2 \in 1..Len(r.sheet) : n2 = r.row + 1
    BY <1>2, <2>1
  <2> DEFINE r2 == [r EXCEPT !.step = "check", !.row = n2, !.seen = 0,
                            !.first = FALSE, !.entry = Null]
  <2>3. r2 \in Request
    <3>1. n2 \in Nat
      BY <2>1, <2>2
    <3> QED
      BY <3>1 DEF Request, Steps, Null
  <2>4. r2.step = "check" /\ r2.row = n2 /\ r2.sheet = r.sheet /\ r2.seen = 0
    BY DEF Request
  <2>5. NextRow(r) = r2
    BY <1>2, <2>2 DEF NextRow
  <2> HIDE DEF r2
  <2> QED
    BY <2>2, <2>3, <2>4, <2>5 DEF RequestOK
<1> QED
  BY <1>1, <1>2

LEMMA CurrentTyped ==
    ASSUME NEW r \in Request, r.row \in 1..Len(r.sheet)
    PROVE  Current(r) \in SheetRow
BY SheetFacts DEF Request, Current

\* A step that writes one request keeps the types when the tables it leaves are
\* typed and the roster no shorter.
LEMMA TypeStep ==
    ASSUME TypeInv, NEW p \in Slots, NEW r \in Request, Continue(p, r),
           sessions' \in Seq(Session), zones' \in Seq(ZoneRow),
           roster' \in Seq(Checkin), Len(roster) <= Len(roster'),
           RequestOK(r, Len(roster'))
    PROVE  TypeInv'
<1>1. Tables
  BY DEF TypeInv
<1>2. req' \in [Slots -> Request] /\ \A q \in Slots : req'[q] = IF q = p THEN r ELSE req[q]
  BY <1>1 DEF Tables, Continue
<1>3. Len(roster) \in Nat /\ Len(roster') \in Nat
  BY <1>1, LenProperties DEF Tables
<1>4. \A q \in Slots : RequestOK(req[q], Len(roster'))
  BY <1>1, <1>3, TableFacts, OKGrows DEF TypeInv
<1>5. \A q \in Slots : RequestOK(req'[q], Len(roster'))
  BY <1>2, <1>4
<1>6. Tables'
  BY <1>2 DEF Tables
<1> QED
  BY <1>5, <1>6 DEF TypeInv

LEMMA TypeRequestOnly ==
    ASSUME TypeInv, NEW p \in Slots, NEW r \in Request, Continue(p, r),
           UNCHANGED <<sessions, roster, zones>>, RequestOK(r, Len(roster))
    PROVE  TypeInv'
<1>1. Tables
  BY DEF TypeInv
<1>2. Len(roster) \in Nat
  BY <1>1, TableFacts
<1>3. sessions' \in Seq(Session) /\ zones' \in Seq(ZoneRow) /\ roster' \in Seq(Checkin)
      /\ Len(roster) <= Len(roster') /\ RequestOK(r, Len(roster'))
  BY <1>1, <1>2 DEF Tables
<1> QED
  BY <1>3, TypeStep

LEMMA TypeReply ==
    ASSUME TypeInv, NEW p \in Slots, Reply(p), UNCHANGED <<sessions, roster, zones>>
    PROVE  TypeInv'
<1>1. Len(roster) \in Nat
  BY TableFacts DEF TypeInv
<1> QED
  BY <1>1, IdleTyped, IdleOK, TypeRequestOnly DEF Reply

\* A step that leaves the requests alone.
LEMMA TypeEdit ==
    ASSUME TypeInv, req' = req,
           sessions' \in Seq(Session), zones' \in Seq(ZoneRow),
           roster' \in Seq(Checkin), Len(roster) <= Len(roster')
    PROVE  TypeInv'
<1>1. Tables
  BY DEF TypeInv
<1>2. Len(roster) \in Nat /\ Len(roster') \in Nat
  BY <1>1, LenProperties DEF Tables
<1>3. \A q \in Slots : RequestOK(req[q], Len(roster'))
  BY <1>1, <1>2, TableFacts, OKGrows DEF TypeInv
<1>4. Tables'
  BY <1>1 DEF Tables
<1> QED
  BY <1>3, <1>4 DEF TypeInv

LEMMA TypeStarts ==
    ASSUME TypeInv, \/ StartSession
                    \/ \E p \in Slots : StartOffline(p)
    PROVE  TypeInv'
<1>1. Tables
  BY DEF TypeInv
<1>2. Len(sessions) \in Nat /\ Len(roster) \in Nat
  BY <1>1, TableFacts
<1>3. \A offline \in BOOLEAN : Append(sessions, NewSession(offline)) \in Seq(Session)
  BY <1>1, RowTypes, AppendProperties DEF Tables
<1>4. CASE StartSession
  <2>1. sessions' \in Seq(Session) /\ UNCHANGED <<roster, zones, req>>
    BY <1>3, <1>4 DEF StartSession
  <2> QED
    BY <1>1, <1>2, <2>1, TypeEdit DEF Tables
<1>5. ASSUME NEW p \in Slots, StartOffline(p)
      PROVE  TypeInv'
  <2> DEFINE r == [Idle EXCEPT !.step = "stamp", !.session = Len(sessions) + 1]
  <2>1. r \in Request /\ r.step = "stamp" /\ r.seen = 0
    <3>1. Len(sessions) + 1 \in Nat
      BY <1>2
    <3>2. Idle \in Request /\ Idle.seen = 0
      BY IdleTyped DEF Idle
    <3> QED
      BY <3>1, <3>2 DEF Request, Steps
  <2>2. RequestOK(r, Len(roster))
    <3> HIDE DEF r
    <3> QED BY <1>2, <2>1 DEF RequestOK
  <2>3. sessions' \in Seq(Session) /\ UNCHANGED <<roster, zones>> /\ Continue(p, r)
    BY <1>3, <1>5 DEF StartOffline
  <2> HIDE DEF r
  <2> QED
    BY <1>1, <1>2, <2>1, <2>2, <2>3, TypeStep DEF Tables
<1> QED
  BY <1>4, <1>5

LEMMA CascadedTables ==
    ASSUME Tables, NEW gone
    PROVE  /\ Cascade(sessions, gone) \in Seq(Session)
           /\ Cascade(zones, gone) \in Seq(ZoneRow)
           /\ Cascade(roster, gone) \in Seq(Checkin)
           /\ Len(Cascade(roster, gone)) = Len(roster)
BY RowTypes, CascadeRows DEF Tables

\* A session row that is changed in place keeps the table typed.
LEMMA SessionsChanged ==
    ASSUME Tables, NEW s, Live(sessions, s)
    PROVE  /\ [sessions EXCEPT ![s].ended = TRUE] \in Seq(Session)
           /\ [sessions EXCEPT ![s].locked = TRUE] \in Seq(Session)
<1>1. s \in 1..Len(sessions) /\ sessions[s] \in Session
  BY TableFacts DEF Live
<1>2. /\ [sessions[s] EXCEPT !.ended = TRUE] \in Session
      /\ [sessions[s] EXCEPT !.locked = TRUE] \in Session
  BY <1>1 DEF Session
<1> QED
  BY <1>1, <1>2, ExceptSeq DEF Tables

LEMMA TypeSessions ==
    ASSUME TypeInv, \/ \E p \in Slots : StampEnded(p)
                    \/ \E s \in DOMAIN sessions : EndSession(s) \/ DeleteSession(s)
    PROVE  TypeInv'
<1>1. Tables
  BY DEF TypeInv
<1>2. Len(sessions) \in Nat /\ Len(roster) \in Nat
  BY <1>1, TableFacts
<1>3. ASSUME NEW p \in Slots, StampEnded(p)
      PROVE  TypeInv'
  <2>1. sessions' \in Seq(Session) /\ UNCHANGED <<roster, zones>> /\ Continue(p, Idle)
    BY <1>1, <1>3, SessionsChanged DEF StampEnded, Reply
  <2> QED
    BY <1>1, <1>2, <2>1, IdleTyped, IdleOK, TypeStep DEF Tables
<1>4. ASSUME NEW s \in DOMAIN sessions, EndSession(s)
      PROVE  TypeInv'
  <2>1. sessions' \in Seq(Session) /\ UNCHANGED <<roster, zones, req>>
    BY <1>1, <1>4, SessionsChanged DEF EndSession
  <2> QED
    BY <1>1, <1>2, <2>1, TypeEdit DEF Tables
<1>5. ASSUME NEW s \in DOMAIN sessions, DeleteSession(s)
      PROVE  TypeInv'
  <2>1. sessions' \in Seq(Session) /\ UNCHANGED <<zones, req>>
    BY <1>1, <1>5, CascadedTables DEF DeleteSession
  <2>2. roster' \in Seq(Checkin) /\ Len(roster') = Len(roster)
    BY <1>1, <1>5, CascadedTables DEF DeleteSession
  <2> QED
    BY <1>1, <1>2, <2>1, <2>2, TypeEdit DEF Tables
<1> QED
  BY <1>3, <1>4, <1>5

LEMMA TypeSubmit ==
    ASSUME TypeInv, NEW p \in Slots, NEW s \in DOMAIN sessions, NEW sheet \in Sheets,
           Submit(p, s, sheet)
    PROVE  TypeInv'
<1> DEFINE r == [Idle EXCEPT !.step = "check", !.session = s, !.sheet = sheet, !.row = 1]
<1>1. Tables
  BY DEF TypeInv
<1>2. sheet \in Seq(SheetRow) /\ sheet # <<>>
  BY RosterAssumption
<1>3. 1 \in 1..Len(sheet)
  BY <1>2, EmptySeq, LenProperties
<1>4. s \in Nat /\ Len(roster) \in Nat
  BY <1>1, TableFacts
<1>5. Idle \in Request /\ Idle.seen = 0
  BY IdleTyped DEF Idle
<1>6. r \in Request /\ r.step = "check" /\ r.row = 1 /\ r.sheet = sheet /\ r.seen = 0
  BY <1>2, <1>4, <1>5 DEF Request, Steps
<1>7. UNCHANGED <<sessions, roster, zones>> /\ Continue(p, r)
  BY DEF Submit
<1> HIDE DEF r
<1>8. RequestOK(r, Len(roster))
  BY <1>3, <1>4, <1>6 DEF RequestOK
<1> QED
  BY <1>6, <1>7, <1>8, TypeRequestOnly

\* A request in flight, in a typed state.
LEMMA RequestFacts ==
    ASSUME TypeInv, NEW p \in Slots
    PROVE  /\ req[p] \in Request /\ RequestOK(req[p], Len(roster))
           /\ Tables /\ Len(roster) \in Nat
BY TableFacts DEF TypeInv

LEMMA TypeCheckDuplicate ==
    ASSUME TypeInv, NEW p \in Slots, CheckDuplicate(p)
    PROVE  TypeInv'
<1>1. PICK r \in Request : r = req[p]
  BY RequestFacts
<1>2. /\ RequestOK(r, Len(roster)) /\ Len(roster) \in Nat /\ r.step = "check"
      /\ r.row \in 1..Len(r.sheet) /\ UNCHANGED <<sessions, roster, zones>>
  BY <1>1, RequestFacts DEF CheckDuplicate, At, RequestOK
<1>3. NextRow(r) \in Request /\ RequestOK(NextRow(r), Len(roster))
  BY <1>2, NextRowOK
<1> DEFINE r2 == [r EXCEPT !.step = "history", !.seen = Len(roster)]
<1>4. r2 \in Request /\ r2.step = "history" /\ r2.seen = Len(roster)
      /\ r2.row = r.row /\ r2.sheet = r.sheet
  BY <1>2 DEF Request, Steps
<1>5. CASE Continue(p, NextRow(r))
  BY <1>2, <1>3, <1>5, TypeRequestOnly
<1>6. CASE Current(r).callsign # NoCallsign /\ Continue(p, r2)
  <2>1. Current(r).callsign \in Callsigns
    BY <1>2, <1>6, CurrentTyped DEF SheetRow
  <2> HIDE DEF r2
  <2>2. Current(r2) = Current(r)
    BY <1>4 DEF Current
  <2>3. RequestOK(r2, Len(roster))
    BY <1>2, <1>4, <2>1, <2>2 DEF RequestOK
  <2> QED
    BY <1>2, <1>4, <1>6, <2>3, TypeRequestOnly
<1> QED
  BY <1>1, <1>5, <1>6 DEF CheckDuplicate

LEMMA TypeReadHistory ==
    ASSUME TypeInv, NEW p \in Slots, ReadHistory(p)
    PROVE  TypeInv'
<1>1. PICK r \in Request : r = req[p]
  BY RequestFacts
<1>2. /\ RequestOK(r, Len(roster)) /\ Len(roster) \in Nat /\ r.step = "history"
      /\ UNCHANGED <<sessions, roster, zones>>
  BY <1>1, RequestFacts DEF ReadHistory, At
<1>3. PICK first \in BOOLEAN : first = ~Known(r.session, Current(r).callsign)
  BY DEF Known
<1> DEFINE r2 == [r EXCEPT !.step = "insert", !.first = first]
<1>4. Continue(p, r2)
  BY <1>1, <1>3 DEF ReadHistory
<1>5. r2 \in Request /\ r2.step = "insert" /\ r2.seen = r.seen
      /\ r2.row = r.row /\ r2.sheet = r.sheet
  BY DEF Request, Steps
<1> HIDE DEF r2
<1>6. RequestOK(r2, Len(roster))
  BY <1>2, <1>5 DEF RequestOK, Current
<1> QED
  BY <1>2, <1>4, <1>5, <1>6, TypeRequestOnly

\* The row that Insert and SignOn add.
LEMMA AppendedCheckin ==
    ASSUME Tables, NEW row \in Checkin, roster' = Append(roster, row)
    PROVE  /\ roster' \in Seq(Checkin)
           /\ Len(roster') = Len(roster) + 1
           /\ DOMAIN roster' = 1..(Len(roster) + 1)
           /\ \A i \in DOMAIN roster : roster'[i] = roster[i]
           /\ roster'[Len(roster) + 1] = row
BY TableFacts, AppendProperties, LenProperties DEF Tables

LEMMA InsertedRow ==
    ASSUME NEW r \in Request, NEW row \in SheetRow, row.callsign \in Callsigns
    PROVE  [live |-> TRUE, session |-> r.session, callsign |-> row.callsign,
            tactical |-> FALSE, first |-> r.first, zone |-> row.zone,
            seen |-> r.seen] \in Checkin
BY DEF Request, SheetRow, Checkin

LEMMA TypeInsert ==
    ASSUME TypeInv, NEW p \in Slots, Insert(p)
    PROVE  TypeInv'
<1>1. PICK r \in Request : r = req[p]
  BY RequestFacts
<1>2. /\ Tables /\ RequestOK(r, Len(roster)) /\ Len(roster) \in Nat /\ r.step = "insert"
      /\ r.row \in 1..Len(r.sheet) /\ UNCHANGED <<sessions, zones>>
  BY <1>1, RequestFacts DEF Insert, At, RequestOK
<1>3. PICK row \in SheetRow : row = Current(r) /\ row.callsign \in Callsigns
  BY <1>2, CurrentTyped DEF RequestOK
<1>4. roster' \in Seq(Checkin) /\ Len(roster') = Len(roster) + 1
  <2>1. PICK new \in Checkin :
            new = [live |-> TRUE, session |-> r.session, callsign |-> row.callsign,
                   tactical |-> FALSE, first |-> r.first, zone |-> row.zone, seen |-> r.seen]
    BY <1>3, InsertedRow
  <2>2. roster' = Append(roster, new)
    BY <1>1, <1>3, <2>1 DEF Insert
  <2> QED
    BY <1>2, <2>2, AppendedCheckin
<1>5. sessions' \in Seq(Session) /\ zones' \in Seq(ZoneRow) /\ Len(roster') \in Nat
      /\ Len(roster) <= Len(roster')
  BY <1>2, <1>4 DEF Tables
<1>6. CASE row.zone = NoZone
  <2>1. Continue(p, NextRow(r))
    BY <1>1, <1>3, <1>6 DEF Insert
  <2>2. NextRow(r) \in Request /\ RequestOK(NextRow(r), Len(roster'))
    BY <1>2, <1>5, NextRowOK
  <2> QED
    BY <1>4, <1>5, <2>1, <2>2, TypeStep
<1>7. CASE row.zone # NoZone
  <2>a. PICK n \in Nat : n = Len(roster) + 1
    BY <1>2
  <2> DEFINE r2 == [r EXCEPT !.step = "zone", !.entry = n]
  <2>1. Continue(p, r2)
    BY <1>1, <1>3, <1>7, <2>a DEF Insert
  <2>2. r2 \in Request /\ r2.step = "zone" /\ r2.seen = r.seen
        /\ r2.row = r.row /\ r2.sheet = r.sheet
    BY DEF Request, Steps
  <2> HIDE DEF r2
  <2>3. r.seen \in Nat /\ r.seen <= Len(roster) /\ Current(r2) = row /\ row.zone \in Zones
    BY <1>2, <1>3, <1>7, <2>2 DEF RequestOK, Current, Request, SheetRow
  <2>4. RequestOK(r2, Len(roster'))
    BY <1>2, <1>3, <1>4, <2>2, <2>3 DEF RequestOK
  <2> QED
    BY <1>4, <1>5, <2>1, <2>2, <2>4, TypeStep
<1> QED
  BY <1>6, <1>7

LEMMA TypeLoseCheckin ==
    ASSUME TypeInv, NEW p \in Slots, LoseCheckin(p)
    PROVE  TypeInv'
<1>1. PICK r \in Request : r = req[p]
  BY RequestFacts
<1>2. /\ Tables /\ RequestOK(r, Len(roster)) /\ Len(roster) \in Nat /\ r.step = "zone"
      /\ UNCHANGED <<sessions, roster, zones>> /\ Continue(p, NextRow(r))
  BY <1>1, RequestFacts DEF LoseCheckin, At
<1>3. NextRow(r) \in Request /\ RequestOK(NextRow(r), Len(roster))
  BY <1>2, NextRowOK DEF RequestOK
<1> QED
  BY <1>2, <1>3, TypeRequestOnly

LEMMA TypeReadZone ==
    ASSUME TypeInv, NEW p \in Slots, ReadZone(p)
    PROVE  TypeInv'
<1>1. PICK r \in Request : r = req[p]
  BY RequestFacts
<1>2. /\ Tables /\ RequestOK(r, Len(roster)) /\ Len(roster) \in Nat /\ r.step = "zone"
      /\ UNCHANGED <<sessions, roster, zones>>
  BY <1>1, RequestFacts DEF ReadZone, At
<1>3. PICK z \in {Null} \cup DOMAIN zones :
          Continue(p, [r EXCEPT !.step = "upsert", !.entry = z])
  BY <1>1 DEF ReadZone, Entries
<1>4. z \in Nat
  BY <1>2, TableFacts DEF Null
<1> DEFINE r2 == [r EXCEPT !.step = "upsert", !.entry = z]
<1>5. r2 \in Request /\ r2.step = "upsert" /\ r2.seen = r.seen
      /\ r2.row = r.row /\ r2.sheet = r.sheet
  BY <1>4 DEF Request, Steps
<1> HIDE DEF r2
<1>6. RequestOK(r2, Len(roster))
  BY <1>2, <1>5 DEF RequestOK, Current
<1> QED
  BY <1>2, <1>3, <1>5, <1>6, TypeRequestOnly DEF r2

LEMMA ZonesChanged ==
    ASSUME Tables, NEW c \in Callsigns, NEW zone \in Zones
    PROVE  /\ NewEntry(c, zone) \in Seq(ZoneRow)
           /\ \A z : Live(zones, z) => [zones EXCEPT ![z].zone = zone] \in Seq(ZoneRow)
<1>1. [live |-> TRUE, callsign |-> c, zone |-> zone] \in ZoneRow
  BY DEF ZoneRow
<1>2. NewEntry(c, zone) \in Seq(ZoneRow)
  BY <1>1, AppendProperties DEF NewEntry, Tables
<1>3. ASSUME NEW z, Live(zones, z)
      PROVE  [zones EXCEPT ![z].zone = zone] \in Seq(ZoneRow)
  <2>1. z \in 1..Len(zones) /\ zones[z] \in ZoneRow
    BY <1>3, TableFacts DEF Live
  <2>2. [zones[z] EXCEPT !.zone = zone] \in ZoneRow
    BY <2>1 DEF ZoneRow
  <2> QED
    BY <2>1, <2>2, ExceptSeq DEF Tables
<1> QED
  BY <1>2, <1>3

LEMMA TypeUpsertZone ==
    ASSUME TypeInv, NEW p \in Slots, UpsertZone(p)
    PROVE  TypeInv'
<1>1. PICK r \in Request : r = req[p]
  BY RequestFacts
<1>2. /\ Tables /\ RequestOK(r, Len(roster)) /\ Len(roster) \in Nat /\ r.step = "upsert"
      /\ UNCHANGED <<sessions, roster>>
  BY <1>1, RequestFacts DEF UpsertZone, At
<1>3. r.row \in 1..Len(r.sheet) /\ Current(r).callsign \in Callsigns /\ Current(r).zone \in Zones
  BY <1>2 DEF RequestOK
<1>4. zones' \in Seq(ZoneRow)
  <2>1. CASE r.entry = Null
    BY <1>1, <1>2, <1>3, <2>1, ZonesChanged DEF UpsertZone
  <2>2. CASE r.entry # Null
    <3>1. Live(zones, r.entry)
      BY <1>1, <2>2 DEF UpsertZone, Upsertable
    <3>2. zones' = [zones EXCEPT ![r.entry].zone = Current(r).zone]
      BY <1>1, <2>2 DEF UpsertZone
    <3> QED
      BY <1>2, <1>3, <3>1, <3>2, ZonesChanged
  <2> QED
    BY <2>1, <2>2
<1>5. NextRow(r) \in Request /\ RequestOK(NextRow(r), Len(roster))
  BY <1>2, <1>3, NextRowOK
<1>6. Continue(p, NextRow(r))
  BY <1>1 DEF UpsertZone
<1>7. sessions' \in Seq(Session) /\ roster' \in Seq(Checkin) /\ Len(roster) <= Len(roster')
      /\ RequestOK(NextRow(r), Len(roster'))
  BY <1>2, <1>5 DEF Tables
<1> QED
  BY <1>4, <1>5, <1>6, <1>7, TypeStep

LEMMA TypeOthers ==
    ASSUME TypeInv, \/ \E s \in DOMAIN sessions, c \in Callsigns : SignOn(s, c)
                    \/ \E i \in DOMAIN roster : DeleteCheckin(i)
                    \/ \E c \in Callsigns, zone \in Zones : UpdateZone(c, zone)
                    \/ \E z \in DOMAIN zones : DeleteZone(z)
    PROVE  TypeInv'
<1>1. Tables /\ Len(roster) \in Nat
  BY TableFacts DEF TypeInv
<1>2. ASSUME NEW s \in DOMAIN sessions, NEW c \in Callsigns, SignOn(s, c)
      PROVE  TypeInv'
  <2> DEFINE row == [live |-> TRUE, session |-> s, callsign |-> c, tactical |-> TRUE,
                     first |-> FALSE, zone |-> NoZone, seen |-> Len(roster)]
  <2>1. s \in Nat
    BY <1>1, TableFacts
  <2>2. row \in Checkin
    BY <1>1, <2>1 DEF Checkin
  <2>3. roster' = Append(roster, row) /\ UNCHANGED <<sessions, zones, req>>
    BY <1>2 DEF SignOn
  <2> HIDE DEF row
  <2>4. roster' \in Seq(Checkin) /\ Len(roster') = Len(roster) + 1
    BY <1>1, <2>2, <2>3, AppendedCheckin
  <2> QED
    BY <1>1, <2>3, <2>4, TypeEdit DEF Tables
<1>3. ASSUME NEW i \in DOMAIN roster, DeleteCheckin(i)
      PROVE  TypeInv'
  BY <1>1, <1>3, CascadedTables, TypeEdit DEF DeleteCheckin, Tables
<1>4. ASSUME NEW c \in Callsigns, NEW zone \in Zones, UpdateZone(c, zone)
      PROVE  TypeInv'
  <2>1. zones' \in Seq(ZoneRow)
    <3>1. CASE Entries(c) = {}
      BY <1>1, <1>4, <3>1, ZonesChanged DEF UpdateZone
    <3>2. CASE Entries(c) # {}
      <4>1. zones' = [z \in DOMAIN zones |-> IF z \in Entries(c)
                                             THEN [zones[z] EXCEPT !.zone = zone]
                                             ELSE zones[z]]
        BY <1>4, <3>2 DEF UpdateZone
      <4>2. \A z \in DOMAIN zones : [zones[z] EXCEPT !.zone = zone] \in ZoneRow
        BY <1>1, TableFacts DEF ZoneRow
      <4>3. zones' \in [1..Len(zones) -> ZoneRow] /\ Len(zones) \in Nat
        BY <1>1, <4>1, <4>2, TableFacts
      <4> QED
        BY <4>3, SeqDef
    <3> QED
      BY <3>1, <3>2
  <2>2. UNCHANGED <<sessions, roster, req>>
    BY <1>4 DEF UpdateZone
  <2> QED
    BY <1>1, <2>1, <2>2, TypeEdit DEF Tables
<1>5. ASSUME NEW z \in DOMAIN zones, DeleteZone(z)
      PROVE  TypeInv'
  BY <1>1, <1>5, CascadedTables, TypeEdit DEF DeleteZone, Tables
<1> QED
  BY <1>2, <1>3, <1>4, <1>5

LEMMA TypeInit == Init => TypeInv
<1> SUFFICES ASSUME Init PROVE TypeInv
  OBVIOUS
<1>1. Tables
  BY IdleTyped, EmptySeq DEF Init, Tables
<1>2. Len(roster) \in Nat
  BY <1>1, TableFacts
<1> QED
  BY <1>1, <1>2, IdleOK DEF Init, TypeInv

LEMMA TypeNext == TypeInv /\ [Next]_vars => TypeInv'
<1> SUFFICES ASSUME TypeInv, [Next]_vars PROVE TypeInv'
  OBVIOUS
<1>1. CASE Edit
  BY <1>1, TypeStarts, TypeSessions, TypeOthers DEF Edit
<1>2. ASSUME NEW p \in Slots, Begin(p) PROVE TypeInv'
  BY <1>2, TypeStarts, TypeSubmit DEF Begin
<1>3. ASSUME NEW p \in Slots, Proceed(p) PROVE TypeInv'
  <2>1. CASE Refuse(p)
    BY <2>1, TypeReply DEF Refuse
  <2> QED
    BY <1>3, <2>1, TypeSessions, TypeCheckDuplicate, TypeReadHistory, TypeInsert,
       TypeLoseCheckin, TypeReadZone, TypeUpsertZone DEF Proceed
<1>4. ASSUME NEW p \in Slots, Fail(p) PROVE TypeInv'
  BY <1>4, TypeReply DEF Fail
<1>5. CASE UNCHANGED vars
  BY <1>5 DEF vars, TypeInv, Tables
<1> QED
  BY <1>1, <1>2, <1>3, <1>4, <1>5 DEF Next

LEMMA TypeAlways == Spec => []TypeInv
BY TypeInit, TypeNext, PTL DEF Spec

HistoryOK == missed \subseteq Callsigns /\ contested \subseteq Callsigns

LEMMA HistoryNext ==
    TypeInv /\ HistoryOK /\ [Next]_vars => HistoryOK'
<1> SUFFICES ASSUME TypeInv, HistoryOK, [Next]_vars PROVE HistoryOK'
  OBVIOUS
<1> USE DEF HistoryOK, history
<1>1. CASE Edit
  <2>1. \A z \in DOMAIN zones : zones[z].callsign \in Callsigns
    BY TableFacts DEF TypeInv, ZoneRow
  <2> QED
    <3>1. CASE \E c \in Callsigns, zone \in Zones : UpdateZone(c, zone)
      BY <3>1 DEF UpdateZone
    <3>2. CASE \E z \in DOMAIN zones : DeleteZone(z)
      BY <2>1, <3>2 DEF DeleteZone
    <3> QED
      BY <1>1, <3>1, <3>2 DEF Edit, StartSession, EndSession, DeleteSession, SignOn,
         DeleteCheckin
<1>2. ASSUME NEW p \in Slots, Begin(p) PROVE UNCHANGED history
  BY <1>2 DEF Begin, StartOffline, Submit
<1>3. ASSUME NEW p \in Slots, Proceed(p) PROVE HistoryOK'
  <2>1. CASE Insert(p)
    <3>1. Current(req[p]).callsign \in Callsigns
      BY <2>1 DEF Insert, At, TypeInv, RequestOK
    <3> QED
      BY <2>1, <3>1 DEF Insert
  <2> QED
    BY <1>3, <2>1 DEF Proceed, StampEnded, CheckDuplicate, ReadHistory, LoseCheckin, ReadZone,
       UpsertZone, Refuse
<1>4. ASSUME NEW p \in Slots, Fail(p) PROVE HistoryOK'
  <2>1. req[p].step \in {"zone", "upsert"} => Current(req[p]).callsign \in Callsigns
    BY DEF TypeInv, RequestOK
  <2> QED
    BY <1>4, <2>1 DEF Fail
<1>5. CASE UNCHANGED vars
  BY <1>5 DEF vars
<1> QED
  BY <1>1, <1>2, <1>3, <1>4, <1>5 DEF Next

\* Tables and requests keep their types, and every request works at a row of its
\* own sheet that has a callsign by the time it is stored.
THEOREM TypeCorrect == Spec => []TypeOK
<1>1. TypeInv /\ HistoryOK => TypeOK
  BY DEF TypeInv, TypeOK, HistoryOK
<1>2. Init => HistoryOK
  BY DEF Init, HistoryOK
<1> QED
  BY <1>1, <1>2, TypeAlways, HistoryNext, PTL DEF Spec

(***************************************************************************)
(* Duplicates and first check-ins: two requests must have raced.           *)
(***************************************************************************)

\* Row i is a live check-in of callsign c.
Held(i, c) == i \in DOMAIN roster /\ roster[i].live /\ roster[i].callsign = c

\* What a request knows of the part of the roster it has looked at: a duplicate
\* is not there, and no check-in of the station if it is to be its first.
Clear(r) ==
    \A i \in DOMAIN roster : i <= r.seen /\ Held(i, Current(r).callsign) =>
        /\ r.step \in {"history", "insert"} /\ ~Gmrs =>
               roster[i].tactical \/ roster[i].session # r.session
        /\ r.step = "insert" => ~r.first

RacedInv ==
    /\ TypeInv
    /\ \A i \in DOMAIN roster : roster[i].tactical => ~roster[i].first
    /\ DuplicateIsRaced
    /\ FirstIsRaced
    /\ \A p \in Slots : \A r \in Request : req[p] = r => Clear(r)

\* Rows keep what they say, and no row comes back to life.
Kept ==
    /\ DOMAIN roster \subseteq DOMAIN roster'
    /\ \A i \in DOMAIN roster :
          /\ roster'[i].live => roster[i].live
          /\ roster'[i].session = roster[i].session
          /\ roster'[i].callsign = roster[i].callsign
          /\ roster'[i].tactical = roster[i].tactical
          /\ roster'[i].first = roster[i].first
          /\ roster'[i].seen = roster[i].seen

\* What row j added to the roster must satisfy against the rows before it.
NewRowRaced(j) ==
    /\ roster'[j].tactical => ~roster'[j].first
    /\ \A i \in DOMAIN roster : Held(i, roster'[j].callsign) =>
          /\ ~Gmrs /\ roster[i].session = roster'[j].session
             /\ ~roster[i].tactical /\ ~roster'[j].tactical => roster'[j].seen < i
          /\ roster'[j].first => roster'[j].seen < i

LEMMA ClearKept ==
    ASSUME TypeInv, TypeInv', Kept, NEW r \in Request, r.seen <= Len(roster), Clear(r)
    PROVE  Clear(r)'
<1>1. /\ Len(roster) \in Nat /\ DOMAIN roster = 1..Len(roster) /\ r.seen \in Nat
      /\ DOMAIN roster' = 1..Len(roster') /\ Len(roster') \in Nat
  BY TableFacts, LenProperties DEF TypeInv, Tables, Request
<1>2. ASSUME NEW i \in DOMAIN roster', i <= r.seen, roster'[i].live,
             roster'[i].callsign = Current(r).callsign
      PROVE  /\ r.step \in {"history", "insert"} /\ ~Gmrs =>
                    roster'[i].tactical \/ roster'[i].session # r.session
             /\ r.step = "insert" => ~r.first
  <2>1. i \in DOMAIN roster
    BY <1>1, <1>2
  <2>2. Held(i, Current(r).callsign)
    BY <1>2, <2>1 DEF Kept, Held
  <2> QED
    BY <1>2, <2>1, <2>2 DEF Clear, Kept
<1> QED
  BY <1>2 DEF Clear, Held, Current

\* A step keeps the invariant when it keeps the rows, adds one row at most, that
\* one in order, and gives every request that it changes a clear view.
LEMMA RacedStep ==
    ASSUME RacedInv, TypeInv', Kept,
           \A j \in DOMAIN roster' : j \notin DOMAIN roster =>
               j = Len(roster) + 1 /\ NewRowRaced(j),
           \A p \in Slots : \A r \in Request : req'[p] = r => req[p] = r \/ Clear(r)'
    PROVE  RacedInv'
<1>1. /\ TypeInv /\ DuplicateIsRaced /\ FirstIsRaced
      /\ \A i \in DOMAIN roster : roster[i].tactical => ~roster[i].first
  BY DEF RacedInv
<1>2. /\ Len(roster) \in Nat /\ DOMAIN roster = 1..Len(roster)
      /\ DOMAIN roster' = 1..Len(roster') /\ Len(roster') \in Nat
  BY <1>1, TableFacts, LenProperties DEF TypeInv, Tables
<1>3. ASSUME NEW i \in DOMAIN roster'
      PROVE  roster'[i].tactical => ~roster'[i].first
  <2>1. CASE i \in DOMAIN roster
    BY <1>1, <2>1 DEF Kept
  <2>2. CASE i \notin DOMAIN roster
    BY <2>2 DEF NewRowRaced
  <2> QED
    BY <2>1, <2>2
<1>4. ASSUME NEW i \in DOMAIN roster', NEW j \in DOMAIN roster', i < j,
             roster'[i].live, roster'[j].live, roster'[i].callsign = roster'[j].callsign
      PROVE  /\ ~Gmrs /\ roster'[i].session = roster'[j].session
                /\ ~roster'[i].tactical /\ ~roster'[j].tactical => roster'[j].seen < i
             /\ roster'[j].first => roster'[j].seen < i
  <2>1. i \in DOMAIN roster
    BY <1>2, <1>4
  <2>2. CASE j \in DOMAIN roster
    <3>1. SameStation(i, j)
      BY <1>4, <2>1, <2>2 DEF SameStation, Kept
    <3> QED
      BY <1>1, <1>4, <2>1, <2>2, <3>1 DEF Kept, DuplicateIsRaced, FirstIsRaced
  <2>3. CASE j \notin DOMAIN roster
    <3>1. NewRowRaced(j) /\ Held(i, roster'[j].callsign)
      BY <1>4, <2>1, <2>3 DEF Held, Kept
    <3> QED
      BY <2>1, <3>1 DEF NewRowRaced, Kept
  <2> QED
    BY <2>2, <2>3
<1>5. DuplicateIsRaced'
  BY <1>4 DEF DuplicateIsRaced, SameStation
<1>6. FirstIsRaced'
  BY <1>4 DEF FirstIsRaced, SameStation
<1>7. ASSUME NEW p \in Slots, NEW r \in Request, req'[p] = r
      PROVE  Clear(r)'
  <2>1. CASE req[p] = r
    <3>1. r.seen <= Len(roster)
      BY <1>1, <2>1, RequestFacts DEF RequestOK
    <3>2. Clear(r)
      BY <2>1 DEF RacedInv
    <3> QED
      BY <1>1, <3>1, <3>2, ClearKept
  <2> QED
    BY <1>7, <2>1
<1> QED
  BY <1>3, <1>5, <1>6, <1>7 DEF RacedInv

LEMMA RosterUnchanged ==
    ASSUME TypeInv, roster' = roster
    PROVE  Kept /\ \A j \in DOMAIN roster' : j \in DOMAIN roster
BY DEF Kept

LEMMA RosterCascaded ==
    ASSUME TypeInv, NEW gone, roster' = Cascade(roster, gone)
    PROVE  Kept /\ \A j \in DOMAIN roster' : j \in DOMAIN roster
<1>1. /\ DOMAIN roster' = DOMAIN roster
      /\ \A i \in DOMAIN roster : roster'[i] =
             IF i \in gone THEN [roster[i] EXCEPT !.live = FALSE] ELSE roster[i]
  <2>1. roster \in Seq(Checkin) /\ \A r \in Checkin : [r EXCEPT !.live = FALSE] \in Checkin
    BY RowTypes DEF TypeInv, Tables
  <2>2. /\ DOMAIN Cascade(roster, gone) = DOMAIN roster
        /\ \A i \in DOMAIN roster : Cascade(roster, gone)[i] =
               IF i \in gone THEN [roster[i] EXCEPT !.live = FALSE] ELSE roster[i]
    BY <2>1, CascadeRows
  <2> QED
    BY <2>2
<1>2. \A i \in DOMAIN roster : roster[i] \in Checkin
  BY TableFacts DEF TypeInv
<1> QED
  BY <1>1, <1>2 DEF Kept, Checkin

\* A request that is past none of the two SELECTs has nothing to be clear of.
LEMMA ClearIdle ==
    ASSUME NEW r, r.step \notin {"history", "insert"}
    PROVE  Clear(r)'
BY DEF Clear

\* Steps that touch no request but p's leave every other view as it was.
LEMMA OneRequest ==
    ASSUME Tables, NEW p \in Slots, NEW r2 \in Request, Continue(p, r2), Clear(r2)'
    PROVE  \A q \in Slots : \A r \in Request : req'[q] = r => req[q] = r \/ Clear(r)'
<1>1. \A q \in Slots : req'[q] = IF q = p THEN r2 ELSE req[q]
  BY DEF Tables, Continue
<1>2. ASSUME NEW q \in Slots, NEW r \in Request, req'[q] = r
      PROVE  req[q] = r \/ Clear(r)'
  <2>1. CASE q = p
    <3>1. r = r2
      BY <1>1, <1>2, <2>1
    <3> QED
      BY <3>1
  <2> QED
    BY <1>1, <1>2, <2>1
<1> QED
  BY <1>2

LEMMA RacedReply ==
    ASSUME RacedInv, TypeInv', NEW p \in Slots, Reply(p), roster' = roster
    PROVE  RacedInv'
<1>1. TypeInv /\ Tables
  BY DEF RacedInv, TypeInv
<1>2. Clear(Idle)'
  BY ClearIdle DEF Idle
<1>3. \A q \in Slots : \A r \in Request : req'[q] = r => req[q] = r \/ Clear(r)'
  BY <1>1, <1>2, IdleTyped, OneRequest DEF Reply
<1> QED
  BY <1>1, <1>3, RosterUnchanged, RacedStep

\* The steps that write no check-in and end in a request with nothing to check.
LEMMA RacedAside ==
    ASSUME RacedInv, TypeInv', NEW p \in Slots,
           \/ StartOffline(p) \/ StampEnded(p)
           \/ LoseCheckin(p) \/ ReadZone(p) \/ UpsertZone(p)
           \/ \E s \in DOMAIN sessions, sheet \in Sheets : Submit(p, s, sheet)
    PROVE  RacedInv'
<1>1. TypeInv /\ Tables
  BY DEF RacedInv, TypeInv
<1>2. roster' = roster
  BY DEF StartOffline, StampEnded, LoseCheckin, ReadZone, UpsertZone, Submit
<1>3. PICK r2 \in Request : r2 = req'[p]
  BY TableFacts DEF TypeInv, Tables
<1>4. Continue(p, r2) /\ r2.step \notin {"history", "insert"}
  <2>1. CASE StartOffline(p)
    <3> DEFINE t == [Idle EXCEPT !.step = "stamp", !.session = Len(sessions) + 1]
    <3>1. Continue(p, t) /\ t.step = "stamp"
      BY <2>1 DEF StartOffline, Idle
    <3> HIDE DEF t
    <3> QED
      BY <1>1, <1>3, <3>1 DEF Continue, Tables
  <2>2. CASE StampEnded(p)
    BY <1>1, <1>3, <2>2 DEF StampEnded, Reply, Continue, Tables, Idle
  <2>3. CASE ReadZone(p)
    <3>1. PICK z : Continue(p, [req[p] EXCEPT !.step = "upsert", !.entry = z])
      BY <2>3 DEF ReadZone
    <3>2. req[p] \in Request
      BY <1>1, TableFacts
    <3> DEFINE t == [req[p] EXCEPT !.step = "upsert", !.entry = z]
    <3>3. t.step = "upsert"
      BY <3>2 DEF Request
    <3> HIDE DEF t
    <3> QED
      BY <1>1, <1>3, <3>1, <3>3 DEF Continue, Tables, t
  <2>4. CASE LoseCheckin(p) \/ UpsertZone(p)
    <3>1. PICK r \in Request : r = req[p] /\ RequestOK(r, Len(roster)) /\ Len(roster) \in Nat
      BY <1>1, RequestFacts
    <3>2. Continue(p, NextRow(r)) /\ r.row \in 1..Len(r.sheet)
      BY <2>4, <3>1 DEF LoseCheckin, UpsertZone, At, RequestOK
    <3>3. NextRow(r).step \notin {"history", "insert"}
      BY <3>1, <3>2, NextRowOK
    <3> QED
      BY <1>1, <1>3, <3>2, <3>3 DEF Continue, Tables
  <2>5. ASSUME NEW s \in DOMAIN sessions, NEW sheet \in Sheets, Submit(p, s, sheet)
        PROVE  Continue(p, r2) /\ r2.step \notin {"history", "insert"}
    <3> DEFINE t == [Idle EXCEPT !.step = "check", !.session = s, !.sheet = sheet, !.row = 1]
    <3>1. Continue(p, t) /\ t.step = "check"
      BY <2>5 DEF Submit, Idle
    <3> HIDE DEF t
    <3> QED
      BY <1>1, <1>3, <3>1 DEF Continue, Tables
  <2> QED
    BY <2>1, <2>2, <2>3, <2>4, <2>5
<1>5. Clear(r2)'
  BY <1>4, ClearIdle
<1>6. \A q \in Slots : \A r \in Request : req'[q] = r => req[q] = r \/ Clear(r)'
  BY <1>1, <1>4, <1>5, OneRequest
<1> QED
  BY <1>1, <1>2, <1>6, RosterUnchanged, RacedStep

LEMMA RacedCheckDuplicate ==
    ASSUME RacedInv, TypeInv', NEW p \in Slots, CheckDuplicate(p)
    PROVE  RacedInv'
<1>1. TypeInv /\ Tables
  BY DEF RacedInv, TypeInv
<1>2. PICK r \in Request : r = req[p]
  BY <1>1, RequestFacts
<1>3. /\ Len(roster) \in Nat /\ r.row \in 1..Len(r.sheet) /\ roster' = roster
  BY <1>1, <1>2, RequestFacts DEF CheckDuplicate, At, RequestOK
<1> DEFINE t == [r EXCEPT !.step = "history", !.seen = Len(roster)]
<1>4. CASE Continue(p, NextRow(r))
  <2>1. NextRow(r) \in Request /\ NextRow(r).step \notin {"history", "insert"}
    BY <1>3, NextRowOK
  <2>2. Clear(NextRow(r))'
    <3>1. PICK r2 \in Request : r2 = NextRow(r)
      BY <2>1
    <3>2. Clear(r2)'
      BY <2>1, <3>1, ClearIdle
    <3> QED
      BY <3>1, <3>2
  <2>3. \A q \in Slots : \A r3 \in Request : req'[q] = r3 => req[q] = r3 \/ Clear(r3)'
    BY <1>1, <1>4, <2>1, <2>2, OneRequest
  <2> QED
    BY <1>1, <1>3, <2>3, RosterUnchanged, RacedStep
<1>5. CASE ~(~Gmrs /\ Taken(r.session, Current(r).callsign)) /\ Continue(p, t)
  <2>1. t \in Request
    BY <1>3 DEF Request, Steps
  <2>2. PICK r2 \in Request : r2 = t
    BY <2>1
  <2>3. r2.step = "history" /\ r2.session = r.session /\ r2.row = r.row /\ r2.sheet = r.sheet
    BY <2>2 DEF Request
  <2>4. Current(r2) = Current(r)
    BY <2>3 DEF Current
  <2>5. Gmrs \/ \A i \in DOMAIN roster :
            Held(i, Current(r).callsign) => roster[i].session # r.session
    BY <1>5 DEF Taken, Held
  <2>6. Clear(r2)
    BY <2>3, <2>4, <2>5 DEF Clear
  <2>7. Clear(r2)'
    BY <1>3, <2>6 DEF Clear, Held, Current
  <2>8. \A q \in Slots : \A r3 \in Request : req'[q] = r3 => req[q] = r3 \/ Clear(r3)'
    BY <1>1, <1>5, <2>2, <2>7, OneRequest
  <2> QED
    BY <1>1, <1>3, <2>8, RosterUnchanged, RacedStep
<1> QED
  BY <1>2, <1>4, <1>5 DEF CheckDuplicate

LEMMA RacedReadHistory ==
    ASSUME RacedInv, TypeInv', NEW p \in Slots, ReadHistory(p)
    PROVE  RacedInv'
<1>1. TypeInv /\ Tables
  BY DEF RacedInv, TypeInv
<1>2. PICK r \in Request : r = req[p]
  BY <1>1, RequestFacts
<1>3. r.step = "history" /\ roster' = roster /\ Clear(r)
  BY <1>2 DEF ReadHistory, At, RacedInv
<1>4. PICK first \in BOOLEAN : first = ~Known(r.session, Current(r).callsign)
  BY DEF Known
<1> DEFINE t == [r EXCEPT !.step = "insert", !.first = first]
<1>5. Continue(p, t) /\ t \in Request
  BY <1>2, <1>4 DEF ReadHistory, Request, Steps
<1>6. PICK r2 \in Request : r2 = t
  BY <1>5
<1>7. /\ r2.step = "insert" /\ r2.session = r.session /\ r2.row = r.row
      /\ r2.sheet = r.sheet /\ r2.seen = r.seen /\ (r2.first => first)
  BY <1>6 DEF Request
<1>8. Current(r2) = Current(r)
  BY <1>7 DEF Current
<1>9. ASSUME NEW i \in DOMAIN roster, i <= r2.seen, Held(i, Current(r2).callsign)
      PROVE  /\ r2.step \in {"history", "insert"} /\ ~Gmrs =>
                    roster[i].tactical \/ roster[i].session # r2.session
             /\ r2.step = "insert" => ~r2.first
  <2>1. ~first
    BY <1>4, <1>8, <1>9 DEF Known, Held
  <2>2. ~Gmrs => roster[i].tactical \/ roster[i].session # r.session
    BY <1>3, <1>7, <1>8, <1>9 DEF Clear
  <2> QED
    BY <1>7, <2>1, <2>2
<1>10. Clear(r2)
  BY <1>9 DEF Clear
<1>11. Clear(r2)'
  BY <1>3, <1>10 DEF Clear, Held, Current
<1>12. \A q \in Slots : \A r3 \in Request : req'[q] = r3 => req[q] = r3 \/ Clear(r3)'
  BY <1>1, <1>5, <1>6, <1>11, OneRequest
<1> QED
  BY <1>1, <1>3, <1>12, RosterUnchanged, RacedStep

\* One row was appended.
LEMMA RosterAppended ==
    ASSUME TypeInv, NEW row \in Checkin, roster' = Append(roster, row)
    PROVE  /\ Kept
           /\ \A j \in DOMAIN roster' : j \notin DOMAIN roster =>
                 j = Len(roster) + 1 /\ roster'[j] = row
<1>1. Tables
  BY DEF TypeInv
<1>2. /\ DOMAIN roster' = 1..(Len(roster) + 1)
      /\ \A i \in DOMAIN roster : roster'[i] = roster[i]
      /\ roster'[Len(roster) + 1] = row
  BY <1>1, AppendedCheckin
<1>3. Len(roster) \in Nat /\ DOMAIN roster = 1..Len(roster)
  BY <1>1, TableFacts
<1>4. Kept
  BY <1>2, <1>3 DEF Kept
<1>5. ASSUME NEW j \in DOMAIN roster', j \notin DOMAIN roster
      PROVE  j = Len(roster) + 1
  BY <1>2, <1>3, <1>5
<1> QED
  BY <1>2, <1>4, <1>5

LEMMA RacedInsert ==
    ASSUME RacedInv, TypeInv', NEW p \in Slots, Insert(p)
    PROVE  RacedInv'
<1>1. TypeInv /\ Tables
  BY DEF RacedInv, TypeInv
<1>2. PICK r \in Request : r = req[p]
  BY <1>1, RequestFacts
<1>3. /\ r.step = "insert" /\ Clear(r) /\ Len(roster) \in Nat
      /\ r.row \in 1..Len(r.sheet) /\ DOMAIN roster = 1..Len(roster) /\ r.seen \in Nat
  BY <1>1, <1>2, RequestFacts, TableFacts DEF Insert, At, RequestOK, RacedInv, Request
<1>4. PICK row \in SheetRow : row = Current(r) /\ row.callsign \in Callsigns
  BY <1>1, <1>2, <1>3, RequestFacts, CurrentTyped DEF RequestOK
<1>5. PICK new \in Checkin :
          new = [live |-> TRUE, session |-> r.session, callsign |-> row.callsign,
                 tactical |-> FALSE, first |-> r.first, zone |-> row.zone, seen |-> r.seen]
  BY <1>4, InsertedRow
<1>6. roster' = Append(roster, new)
  BY <1>2, <1>4, <1>5 DEF Insert
<1>7. /\ Kept
      /\ \A j \in DOMAIN roster' : j \notin DOMAIN roster =>
            j = Len(roster) + 1 /\ roster'[j] = new
  BY <1>1, <1>6, RosterAppended
<1>8. /\ new.session = r.session /\ new.callsign = Current(r).callsign
      /\ ~new.tactical /\ (new.first => r.first) /\ new.seen = r.seen
  BY <1>4, <1>5
<1>9. ASSUME NEW i \in DOMAIN roster, Held(i, new.callsign)
      PROVE  /\ ~Gmrs /\ roster[i].session = new.session
                 /\ ~roster[i].tactical /\ ~new.tactical => new.seen < i
             /\ new.first => new.seen < i
  <2>1. i \in Nat
    BY <1>3
  <2>2. CASE i <= r.seen
    BY <1>3, <1>8, <1>9, <2>2 DEF Clear
  <2>3. CASE r.seen < i
    BY <1>8, <2>3
  <2> QED
    BY <1>3, <2>1, <2>2, <2>3
<1>10. \A j \in DOMAIN roster' : j \notin DOMAIN roster => NewRowRaced(j)
  BY <1>7, <1>8, <1>9 DEF NewRowRaced
<1>11. PICK r2 \in Request : Continue(p, r2) /\ r2.step \notin {"history", "insert"}
  <2>1. CASE row.zone = NoZone
    <3>1. Continue(p, NextRow(r))
      BY <1>2, <1>4, <2>1 DEF Insert
    <3> QED
      BY <1>3, <3>1, NextRowOK
  <2>2. CASE row.zone # NoZone
    <3>a. PICK n \in Nat : n = Len(roster) + 1
      BY <1>3
    <3> DEFINE t == [r EXCEPT !.step = "zone", !.entry = n]
    <3>1. Continue(p, t)
      BY <1>2, <1>4, <2>2, <3>a DEF Insert
    <3>2. t \in Request /\ t.step = "zone"
      BY DEF Request, Steps
    <3> QED
      BY <3>1, <3>2
  <2> QED
    BY <2>1, <2>2
<1>12. Clear(r2)'
  BY <1>11, ClearIdle
<1>13. \A q \in Slots : \A r3 \in Request : req'[q] = r3 => req[q] = r3 \/ Clear(r3)'
  BY <1>1, <1>11, <1>12, OneRequest
<1> QED
  BY <1>7, <1>10, <1>13, RacedStep

LEMMA RacedEdit ==
    ASSUME RacedInv, TypeInv', Edit
    PROVE  RacedInv'
<1>1. TypeInv /\ Tables
  BY DEF RacedInv, TypeInv
<1>2. ASSUME req' = req, Kept, \A j \in DOMAIN roster' : j \in DOMAIN roster
      PROVE  RacedInv'
  BY <1>2, RacedStep
<1>3. CASE \/ StartSession
           \/ \E s \in DOMAIN sessions : EndSession(s)
           \/ \E c \in Callsigns, zone \in Zones : UpdateZone(c, zone)
           \/ \E z \in DOMAIN zones : DeleteZone(z)
  <2>1. req' = req /\ roster' = roster
    BY <1>3 DEF StartSession, EndSession, UpdateZone, DeleteZone
  <2> QED
    BY <1>1, <1>2, <2>1, RosterUnchanged
<1>4. CASE \/ \E s \in DOMAIN sessions : DeleteSession(s)
           \/ \E i \in DOMAIN roster : DeleteCheckin(i)
  <2>1. req' = req /\ \E gone : roster' = Cascade(roster, gone)
    BY <1>4 DEF DeleteSession, DeleteCheckin
  <2> QED
    BY <1>1, <1>2, <2>1, RosterCascaded
<1>5. ASSUME NEW s \in DOMAIN sessions, NEW c \in Callsigns, SignOn(s, c)
      PROVE  RacedInv'
  <2> DEFINE t == [live |-> TRUE, session |-> s, callsign |-> c, tactical |-> TRUE,
                   first |-> FALSE, zone |-> NoZone, seen |-> Len(roster)]
  <2>1. s \in Nat /\ Len(roster) \in Nat
    BY <1>1, TableFacts
  <2>2. t \in Checkin
    BY <2>1 DEF Checkin
  <2>3. PICK row \in Checkin : row = t
    BY <2>2
  <2>4. row.tactical /\ ~row.first
    BY <2>3
  <2>5. roster' = Append(roster, row) /\ req' = req
    BY <1>5, <2>3 DEF SignOn
  <2>6. /\ Kept
        /\ \A j \in DOMAIN roster' : j \notin DOMAIN roster =>
              j = Len(roster) + 1 /\ roster'[j] = row
    BY <1>1, <2>5, RosterAppended
  <2>7. \A j \in DOMAIN roster' : j \notin DOMAIN roster => NewRowRaced(j)
    BY <2>4, <2>6 DEF NewRowRaced
  <2> QED
    BY <2>5, <2>6, <2>7, RacedStep
<1> QED
  BY <1>3, <1>4, <1>5 DEF Edit

LEMMA RacedInit == Init => RacedInv
<1> SUFFICES ASSUME Init PROVE RacedInv
  OBVIOUS
<1>1. TypeInv
  BY TypeInit
<1>2. DOMAIN roster = {}
  BY DEF Init
<1> QED
  BY <1>1, <1>2 DEF RacedInv, DuplicateIsRaced, FirstIsRaced, Clear

LEMMA RacedNext == RacedInv /\ [Next]_vars => RacedInv'
<1> SUFFICES ASSUME RacedInv, [Next]_vars PROVE RacedInv'
  OBVIOUS
<1>1. TypeInv /\ TypeInv'
  BY TypeNext DEF RacedInv
<1>2. CASE Edit
  BY <1>1, <1>2, RacedEdit
<1>3. ASSUME NEW p \in Slots, Begin(p) PROVE RacedInv'
  BY <1>1, <1>3, RacedAside DEF Begin
<1>4. ASSUME NEW p \in Slots, Proceed(p) PROVE RacedInv'
  <2>1. CASE Refuse(p)
    BY <1>1, <2>1, RacedReply DEF Refuse
  <2> QED
    BY <1>1, <1>4, <2>1, RacedAside, RacedCheckDuplicate, RacedReadHistory,
       RacedInsert DEF Proceed
<1>5. ASSUME NEW p \in Slots, Fail(p) PROVE RacedInv'
  BY <1>1, <1>5, RacedReply DEF Fail
<1>6. CASE UNCHANGED vars
  BY <1>1, <1>6, RosterUnchanged, RacedStep DEF vars
<1> QED
  BY <1>2, <1>3, <1>4, <1>5, <1>6 DEF Next

LEMMA RacedAlways == Spec => []RacedInv
BY RacedInit, RacedNext, PTL DEF Spec

\* However many submissions interleave or die, a callsign is twice on the roster
\* of a ham session only by two of them that raced.
THEOREM DuplicateOnlyByRace == Spec => []DuplicateIsRaced
<1>1. RacedInv => DuplicateIsRaced
  BY DEF RacedInv
<1> QED
  BY <1>1, RacedAlways, PTL

\* However many submissions interleave or die, a station is marked as a
\* first-timer beside an older check-in of its own only by a race.
THEOREM FirstOnlyByRace == Spec => []FirstIsRaced
<1>1. RacedInv => FirstIsRaced
  BY DEF RacedInv
<1> QED
  BY <1>1, RacedAlways, PTL

(***************************************************************************)
(* Without overlap: nothing but tactical sign-ons comes in between.        *)
(***************************************************************************)

OneSlotAtMost == \A p, q \in Slots : p = q

\* Since the request looked, only tactical sign-ons have been added.
UpToDate(r) ==
    r.step \in {"history", "insert"} =>
        \A i \in DOMAIN roster : r.seen < i => roster[i].tactical

SoloInv ==
    /\ RacedInv
    /\ \A i, j \in DOMAIN roster :
          i < j /\ ~roster[i].tactical /\ ~roster[j].tactical => i <= roster[j].seen
    /\ \A p \in Slots : \A r \in Request : req[p] = r => UpToDate(r)

LEMMA SoloStep ==
    ASSUME SoloInv, RacedInv', Kept,
           \A j \in DOMAIN roster' : j \notin DOMAIN roster =>
               /\ j = Len(roster) + 1
               /\ \/ roster'[j].tactical
                  \/ \A i \in DOMAIN roster : ~roster[i].tactical => i <= roster'[j].seen,
           \A p \in Slots : \A r \in Request : req'[p] = r => UpToDate(r)'
    PROVE  SoloInv'
<1>1. /\ Len(roster) \in Nat /\ DOMAIN roster = 1..Len(roster)
      /\ DOMAIN roster' = 1..Len(roster') /\ Len(roster') \in Nat
  BY TableFacts, LenProperties DEF SoloInv, RacedInv, TypeInv, Tables
<1>2. ASSUME NEW i \in DOMAIN roster', NEW j \in DOMAIN roster', i < j,
             ~roster'[i].tactical, ~roster'[j].tactical
      PROVE  i <= roster'[j].seen
  <2>1. i \in DOMAIN roster
    BY <1>1, <1>2
  <2>2. CASE j \in DOMAIN roster
    BY <1>2, <2>1, <2>2 DEF SoloInv, Kept
  <2>3. CASE j \notin DOMAIN roster
    BY <1>2, <2>1, <2>3 DEF Kept
  <2> QED
    BY <2>2, <2>3
<1> QED
  BY <1>2 DEF SoloInv

\* A step that adds no row, where every request but those past neither SELECT
\* stays as it was.
LEMMA SoloQuiet ==
    ASSUME SoloInv, RacedInv', Kept, \A j \in DOMAIN roster' : j \in DOMAIN roster,
           \A p \in Slots : \A r \in Request : req'[p] = r =>
               \/ r.step \notin {"history", "insert"}
               \/ UpToDate(r)
    PROVE  SoloInv'
<1>1. ASSUME NEW p \in Slots, NEW r \in Request, req'[p] = r
      PROVE  UpToDate(r)'
  <2>1. CASE r.step \notin {"history", "insert"}
    BY <2>1 DEF UpToDate
  <2>2. CASE UpToDate(r)
    BY <2>2 DEF UpToDate, Kept
  <2> QED
    BY <1>1, <2>1, <2>2
<1> QED
  BY <1>1, SoloStep

\* With one slot, a step that writes a request writes the only one.
LEMMA OnlyRequest ==
    ASSUME OneSlotAtMost, Tables, NEW p \in Slots, NEW t, Continue(p, t)
    PROVE  \A q \in Slots : req'[q] = t
BY DEF OneSlotAtMost, Tables, Continue

LEMMA SoloNext == ASSUME OneSlotAtMost, SoloInv, [Next]_vars PROVE SoloInv'
<1>1. RacedInv /\ RacedInv' /\ TypeInv /\ Tables
  BY RacedNext DEF SoloInv, RacedInv, TypeInv
<1>2. ASSUME req' = req, Kept, \A j \in DOMAIN roster' : j \in DOMAIN roster
      PROVE  SoloInv'
  BY <1>1, <1>2, SoloQuiet DEF SoloInv
<1>3. ASSUME NEW p \in Slots, NEW t, Continue(p, t), roster' = roster,
             t.step \notin {"history", "insert"}
      PROVE  SoloInv'
  <2>1. \A q \in Slots : req'[q] = t
    BY <1>1, <1>3, OnlyRequest
  <2> QED
    BY <1>1, <1>3, <2>1, RosterUnchanged, SoloQuiet
<1>4. ASSUME NEW p \in Slots, CheckDuplicate(p) PROVE SoloInv'
  <2>1. PICK r \in Request : r = req[p] /\ r.row \in 1..Len(r.sheet) /\ Len(roster) \in Nat
    BY <1>1, <1>4, RequestFacts DEF CheckDuplicate, At, RequestOK
  <2>2. NextRow(r).step \notin {"history", "insert"}
    BY <2>1, NextRowOK
  <2> DEFINE t == [r EXCEPT !.step = "history", !.seen = Len(roster)]
  <2>3. roster' = roster /\ (Continue(p, NextRow(r)) \/ Continue(p, t))
    BY <1>4, <2>1 DEF CheckDuplicate
  <2>4. CASE Continue(p, t)
    <3>1. \A q \in Slots : req'[q] = t
      BY <1>1, <2>4, OnlyRequest
    <3>2. t \in Request /\ t.seen = Len(roster)
      BY <2>1 DEF Request, Steps
    <3>3. ASSUME NEW q \in Slots, NEW r2 \in Request, req'[q] = r2
          PROVE  UpToDate(r2)
      <4>1. r2.seen = Len(roster)
        BY <3>1, <3>2, <3>3
      <4> QED
        BY <1>1, <4>1, TableFacts DEF UpToDate
    <3> QED
      BY <1>1, <2>3, <3>3, RosterUnchanged, SoloQuiet
  <2> QED
    BY <1>3, <2>2, <2>3, <2>4
<1>5. ASSUME NEW p \in Slots, ReadHistory(p) PROVE SoloInv'
  <2>1. PICK r \in Request : r = req[p]
    BY <1>1, RequestFacts
  <2>2. PICK first \in BOOLEAN : first = ~Known(r.session, Current(r).callsign)
    BY DEF Known
  <2> DEFINE t == [r EXCEPT !.step = "insert", !.first = first]
  <2>3. roster' = roster /\ Continue(p, t) /\ r.step = "history"
    BY <1>5, <2>1, <2>2 DEF ReadHistory, At
  <2>4. UpToDate(r)
    BY <2>1 DEF SoloInv
  <2>5. t.seen = r.seen
    BY DEF Request
  <2>6. \A q \in Slots : req'[q] = t
    BY <1>1, <2>3, OnlyRequest
  <2>7. ASSUME NEW q \in Slots, NEW r2 \in Request, req'[q] = r2
        PROVE  UpToDate(r2)
    <3>1. r2.seen = r.seen
      BY <2>5, <2>6, <2>7
    <3> QED
      BY <2>3, <2>4, <3>1 DEF UpToDate
  <2> QED
    BY <1>1, <2>3, <2>7, RosterUnchanged, SoloQuiet
<1>6. ASSUME NEW p \in Slots, Insert(p) PROVE SoloInv'
  <2>1. PICK r \in Request : /\ r = req[p] /\ r.step = "insert" /\ UpToDate(r)
                             /\ r.row \in 1..Len(r.sheet)
    BY <1>1, <1>6, RequestFacts DEF Insert, At, RequestOK, SoloInv
  <2>2. PICK row \in SheetRow : row = Current(r) /\ row.callsign \in Callsigns
    BY <1>1, <2>1, RequestFacts, CurrentTyped DEF RequestOK
  <2>3. PICK new \in Checkin :
            new = [live |-> TRUE, session |-> r.session, callsign |-> row.callsign,
                   tactical |-> FALSE, first |-> r.first, zone |-> row.zone, seen |-> r.seen]
    BY <2>2, InsertedRow
  <2>4. roster' = Append(roster, new)
    BY <1>6, <2>1, <2>2, <2>3 DEF Insert
  <2>5. /\ Kept
        /\ \A j \in DOMAIN roster' : j \notin DOMAIN roster =>
              j = Len(roster) + 1 /\ roster'[j] = new
    BY <1>1, <2>4, RosterAppended
  <2>6. Len(roster) \in Nat /\ DOMAIN roster = 1..Len(roster) /\ r.seen \in Nat
    BY <1>1, TableFacts DEF Request
  <2>7. ASSUME NEW i \in DOMAIN roster, ~roster[i].tactical
        PROVE  i <= new.seen
    <3>1. ~(r.seen < i)
      BY <2>1, <2>7 DEF UpToDate
    <3>2. new.seen = r.seen /\ i \in Nat
      BY <2>3, <2>6
    <3> QED
      BY <2>6, <3>1, <3>2
  <2>8. PICK t : Continue(p, t) /\ t.step \notin {"history", "insert"}
    <3>1. CASE row.zone = NoZone
      <4>1. Continue(p, NextRow(r))
        BY <1>6, <2>1, <2>2, <3>1 DEF Insert
      <4> QED
        BY <2>1, <2>6, <4>1, NextRowOK
    <3>2. CASE row.zone # NoZone
      <4> DEFINE u == [r EXCEPT !.step = "zone", !.entry = Len(roster) + 1]
      <4>1. Continue(p, u)
        BY <1>6, <2>1, <2>2, <3>2 DEF Insert
      <4>2. u.step = "zone"
        BY DEF Request
      <4> QED
        BY <4>1, <4>2
    <3> QED
      BY <3>1, <3>2
  <2>9. \A q \in Slots : req'[q] = t
    BY <1>1, <2>8, OnlyRequest
  <2>10. \A q \in Slots : \A r2 \in Request : req'[q] = r2 => UpToDate(r2)'
    BY <2>8, <2>9 DEF UpToDate
  <2>11. \A j \in DOMAIN roster' : j \notin DOMAIN roster =>
            /\ j = Len(roster) + 1
            /\ \/ roster'[j].tactical
               \/ \A i \in DOMAIN roster : ~roster[i].tactical => i <= roster'[j].seen
    BY <2>5, <2>7
  <2> QED
    BY <1>1, <2>5, <2>10, <2>11, SoloStep
<1>7. ASSUME NEW s \in DOMAIN sessions, NEW c \in Callsigns, SignOn(s, c)
      PROVE  SoloInv'
  <2> DEFINE t == [live |-> TRUE, session |-> s, callsign |-> c, tactical |-> TRUE,
                   first |-> FALSE, zone |-> NoZone, seen |-> Len(roster)]
  <2>1. s \in Nat /\ Len(roster) \in Nat /\ DOMAIN roster = 1..Len(roster)
    BY <1>1, TableFacts
  <2>2. t \in Checkin
    BY <2>1 DEF Checkin
  <2>3. PICK row \in Checkin : row = t
    BY <2>2
  <2>4. roster' = Append(roster, row) /\ req' = req /\ row.tactical
    BY <1>7, <2>3 DEF SignOn
  <2>5. /\ Kept
        /\ \A j \in DOMAIN roster' : j \notin DOMAIN roster =>
              j = Len(roster) + 1 /\ roster'[j] = row
    BY <1>1, <2>4, RosterAppended
  <2>6. ASSUME NEW q \in Slots, NEW r \in Request, req'[q] = r
        PROVE  UpToDate(r)'
    <3>1. UpToDate(r)
      BY <2>4, <2>6 DEF SoloInv
    <3>2. ASSUME NEW i \in DOMAIN roster', r.seen < i, r.step \in {"history", "insert"}
          PROVE  roster'[i].tactical
      <4>1. CASE i \in DOMAIN roster
        BY <2>5, <3>1, <3>2, <4>1 DEF UpToDate, Kept
      <4>2. CASE i \notin DOMAIN roster
        BY <2>4, <2>5, <4>2
      <4> QED
        BY <4>1, <4>2
    <3> QED
      BY <3>2 DEF UpToDate
  <2> QED
    BY <1>1, <2>4, <2>5, <2>6, SoloStep
<1>8. CASE Edit
  <2>1. CASE \/ StartSession
             \/ \E s \in DOMAIN sessions : EndSession(s)
             \/ \E c \in Callsigns, zone \in Zones : UpdateZone(c, zone)
             \/ \E z \in DOMAIN zones : DeleteZone(z)
    <3>1. req' = req /\ roster' = roster
      BY <2>1 DEF StartSession, EndSession, UpdateZone, DeleteZone
    <3> QED
      BY <1>1, <1>2, <3>1, RosterUnchanged
  <2>2. CASE \/ \E s \in DOMAIN sessions : DeleteSession(s)
             \/ \E i \in DOMAIN roster : DeleteCheckin(i)
    <3>1. req' = req /\ \E gone : roster' = Cascade(roster, gone)
      BY <2>2 DEF DeleteSession, DeleteCheckin
    <3> QED
      BY <1>1, <1>2, <3>1, RosterCascaded
  <2> QED
    BY <1>7, <1>8, <2>1, <2>2 DEF Edit
<1>9. ASSUME NEW p \in Slots, Begin(p) PROVE SoloInv'
  <2>1. PICK t : Continue(p, t) /\ roster' = roster /\ t.step \in {"stamp", "check"}
    <3>1. CASE StartOffline(p)
      <4> DEFINE u == [Idle EXCEPT !.step = "stamp", !.session = Len(sessions) + 1]
      <4>1. Continue(p, u) /\ roster' = roster /\ u.step = "stamp"
        BY <3>1 DEF StartOffline, Idle
      <4> QED
        BY <4>1
    <3>2. ASSUME NEW s \in DOMAIN sessions, NEW sheet \in Sheets, Submit(p, s, sheet)
          PROVE  \E t : Continue(p, t) /\ roster' = roster /\ t.step \in {"stamp", "check"}
      <4> DEFINE u == [Idle EXCEPT !.step = "check", !.session = s, !.sheet = sheet, !.row = 1]
      <4>1. Continue(p, u) /\ roster' = roster /\ u.step = "check"
        BY <3>2 DEF Submit, Idle
      <4> QED
        BY <4>1
    <3> QED
      BY <1>9, <3>1, <3>2 DEF Begin
  <2> QED
    BY <1>3, <2>1
<1>10. ASSUME NEW p \in Slots, Reply(p), roster' = roster PROVE SoloInv'
  BY <1>3, <1>10 DEF Reply, Idle
<1>11. ASSUME NEW p \in Slots, ReadZone(p) PROVE SoloInv'
  <2>1. PICK r \in Request : r = req[p]
    BY <1>1, RequestFacts
  <2>2. PICK z : Continue(p, [r EXCEPT !.step = "upsert", !.entry = z])
    BY <1>11, <2>1 DEF ReadZone
  <2> DEFINE t == [r EXCEPT !.step = "upsert", !.entry = z]
  <2>3. t.step = "upsert" /\ roster' = roster
    BY <1>11 DEF ReadZone, Request
  <2> QED
    BY <1>3, <2>2, <2>3
<1>12. ASSUME NEW p \in Slots, LoseCheckin(p) \/ UpsertZone(p) PROVE SoloInv'
  <2>1. PICK r \in Request : r = req[p] /\ r.row \in 1..Len(r.sheet) /\ Len(roster) \in Nat
    BY <1>1, <1>12, RequestFacts DEF LoseCheckin, UpsertZone, At, RequestOK
  <2>2. Continue(p, NextRow(r)) /\ roster' = roster
    BY <1>12, <2>1 DEF LoseCheckin, UpsertZone
  <2> QED
    BY <1>3, <2>1, <2>2, NextRowOK
<1>13. ASSUME NEW p \in Slots, Proceed(p) PROVE SoloInv'
  <2>1. CASE StampEnded(p) \/ Refuse(p)
    BY <1>10, <2>1 DEF StampEnded, Refuse
  <2> QED
    BY <1>4, <1>5, <1>6, <1>11, <1>12, <1>13, <2>1 DEF Proceed
<1>14. ASSUME NEW p \in Slots, Fail(p) PROVE SoloInv'
  BY <1>10, <1>14 DEF Fail
<1>15. CASE UNCHANGED vars
  <2>1. req' = req /\ roster' = roster
    BY <1>15 DEF vars
  <2> QED
    BY <1>1, <1>2, <2>1, RosterUnchanged
<1> QED
  BY <1>8, <1>9, <1>13, <1>14, <1>15 DEF Next

LEMMA SoloInit == Init => SoloInv
<1> SUFFICES ASSUME Init PROVE SoloInv
  OBVIOUS
<1>1. RacedInv /\ DOMAIN roster = {}
  BY RacedInit DEF Init
<1> QED
  BY <1>1 DEF SoloInv, UpToDate

LEMMA SoloUnique == ASSUME SoloInv PROVE UniqueInSession /\ FirstOnce
<1>1. /\ DuplicateIsRaced /\ FirstIsRaced
      /\ \A i \in DOMAIN roster : roster[i].tactical => ~roster[i].first
      /\ Tables
  BY DEF SoloInv, RacedInv, TypeInv
<1>2. /\ DOMAIN roster \subseteq Nat
      /\ \A i \in DOMAIN roster : roster[i].seen \in Nat
  BY <1>1, TableFacts DEF Checkin
<1>3. ASSUME NEW i \in DOMAIN roster, NEW j \in DOMAIN roster, i < j,
             ~roster[i].tactical, ~roster[j].tactical
      PROVE  ~(roster[j].seen < i)
  <2>1. i <= roster[j].seen
    BY <1>3 DEF SoloInv
  <2> QED
    BY <1>2, <2>1
<1>4. UniqueInSession
  BY <1>1, <1>2, <1>3 DEF UniqueInSession, DuplicateIsRaced, SameStation
<1>5. FirstOnce
  BY <1>1, <1>2, <1>3 DEF FirstOnce, FirstIsRaced, SameStation
<1> QED
  BY <1>4, <1>5

LEMMA SoloAlways == ASSUME OneSlotAtMost PROVE Spec => []SoloInv
<1>1. SoloInv /\ [Next]_vars => SoloInv'
  BY SoloNext
<1> QED
  BY <1>1, SoloInit, PTL DEF Spec

\* Requests that do not overlap never put a callsign on a ham session twice,
\* whichever way sheets, tactical sign-ons, removals and failures alternate.
THEOREM UniqueWithoutOverlap == ASSUME OneSlotAtMost PROVE Spec => []UniqueInSession
<1>1. SoloInv => UniqueInSession
  BY SoloUnique
<1> QED
  BY <1>1, SoloAlways, PTL

\* Requests that do not overlap never welcome a station twice.
THEOREM FirstOnceWithoutOverlap == ASSUME OneSlotAtMost PROVE Spec => []FirstOnce
<1>1. SoloInv => FirstOnce
  BY SoloUnique
<1> QED
  BY <1>1, SoloAlways, PTL
(***************************************************************************)
(* A closed session's roster.                                              *)
(***************************************************************************)

Working == {"check", "history", "insert", "zone", "upsert"}

NobodyAdds(s) == \A p \in Slots : ~Adding(p, s)

\* The roster gets no new row of session s, unless by tactical sign-on.
NoneAdded(s) ==
    \A i \in DOMAIN roster' \ DOMAIN roster : roster'[i].session = s => roster'[i].tactical

\* A request that is not at work on session s takes a step to another one that is not.
LEMMA QuietRequest ==
    ASSUME TypeInv, NEW s, NobodyAdds(s), NEW p \in Slots, NEW r, Continue(p, r),
           ~(r.session = s /\ r.step \in Working)
    PROVE  NobodyAdds(s)'
<1>1. \A q \in Slots : req'[q] = IF q = p THEN r ELSE req[q]
  BY DEF TypeInv, Tables, Continue
<1> QED
  BY <1>1 DEF NobodyAdds, Adding, Working

LEMMA QuietReply ==
    ASSUME TypeInv, NEW s, NobodyAdds(s), NEW p \in Slots, Reply(p), roster' = roster
    PROVE  NobodyAdds(s)' /\ NoneAdded(s)
<1>1. Idle.step \notin Working
  BY DEF Idle, Working
<1> QED
  BY <1>1, QuietRequest DEF Reply, NoneAdded

\* A request at work stays with its session.
LEMMA QuietWork ==
    ASSUME TypeInv, NEW s, NobodyAdds(s), NEW p \in Slots, req[p].step \in Working,
           NEW r, Continue(p, r), r.session = req[p].session \/ r = NextRow(req[p])
    PROVE  NobodyAdds(s)'
<1>1. req[p].session # s
  BY DEF NobodyAdds, Adding, Working
<1>2. req[p] \in Request
  BY RequestFacts
<1>3. NextRow(req[p]).step = "idle" \/ NextRow(req[p]).session = req[p].session
  BY <1>2 DEF NextRow, Idle, Request
<1> QED
  BY <1>1, <1>3, QuietRequest DEF Working

LEMMA QuietProceed ==
    ASSUME TypeInv, NEW s, NobodyAdds(s), NEW p \in Slots, Proceed(p)
    PROVE  NobodyAdds(s)' /\ NoneAdded(s)
<1> DEFINE r == req[p]
<1>1. r \in Request
  BY RequestFacts
<1>2. CASE StampEnded(p) \/ Refuse(p)
  BY <1>2, QuietReply DEF StampEnded, Refuse
<1>3. CASE CheckDuplicate(p)
  <2>1. roster' = roster /\ r.step \in Working
    BY <1>3 DEF CheckDuplicate, At, Working
  <2>2. [r EXCEPT !.step = "history", !.seen = Len(roster)].session = r.session
    BY <1>1 DEF Request
  <2>3. NobodyAdds(s)'
    BY <1>3, <2>1, <2>2, QuietWork DEF CheckDuplicate
  <2> QED
    BY <2>1, <2>3 DEF NoneAdded
<1>4. CASE ReadHistory(p)
  <2>1. roster' = roster /\ r.step \in Working
    BY <1>4 DEF ReadHistory, At, Working
  <2> DEFINE r2 == [r EXCEPT !.step = "insert",
                            !.first = ~Known(r.session, Current(r).callsign)]
  <2>2. r2.session = r.session
    BY <1>1 DEF Request
  <2>3. Continue(p, r2)
    BY <1>4 DEF ReadHistory
  <2>4. NobodyAdds(s)'
    <3> HIDE DEF r2
    <3> QED BY <2>1, <2>2, <2>3, QuietWork
  <2> QED
    BY <2>1, <2>4 DEF NoneAdded
<1>5. CASE Insert(p)
  <2>1. r.step \in Working /\ r.session # s
    BY <1>5 DEF Insert, At, Working, NobodyAdds, Adding
  <2>2. [r EXCEPT !.step = "zone", !.entry = Len(roster) + 1].session = r.session
    BY <1>1 DEF Request
  <2>3. NobodyAdds(s)'
    BY <1>5, <2>1, <2>2, QuietWork DEF Insert
  <2>4. NoneAdded(s)
    <3>1. PICK row : roster' = Append(roster, row) /\ row.session = r.session
      BY <1>5 DEF Insert
    <3>2. roster \in Seq(Checkin) /\ Len(roster) \in Nat /\ DOMAIN roster = 1..Len(roster)
      BY TableFacts DEF TypeInv, Tables
    <3>3. DOMAIN roster' = 1..(Len(roster) + 1) /\ roster'[Len(roster) + 1] = row
      BY <3>1, <3>2, AppendProperties, LenProperties
    <3> QED
      BY <2>1, <3>1, <3>2, <3>3 DEF NoneAdded
  <2> QED
    BY <2>3, <2>4
<1>6. CASE LoseCheckin(p) \/ UpsertZone(p)
  <2>1. roster' = roster /\ r.step \in Working /\ Continue(p, NextRow(r))
    BY <1>6 DEF LoseCheckin, UpsertZone, At, Working
  <2> QED
    BY <2>1, QuietWork DEF NoneAdded
<1>7. CASE ReadZone(p)
  <2>1. roster' = roster /\ r.step \in Working
    BY <1>7 DEF ReadZone, At, Working
  <2>2. PICK z : Continue(p, [r EXCEPT !.step = "upsert", !.entry = z])
    BY <1>7 DEF ReadZone
  <2> DEFINE r2 == [r EXCEPT !.step = "upsert", !.entry = z]
  <2>3. r2.session = r.session /\ Continue(p, r2)
    BY <1>1, <2>2 DEF Request
  <2>4. NobodyAdds(s)'
    <3> HIDE DEF r2
    <3> QED BY <2>1, <2>3, QuietWork
  <2> QED
    BY <2>1, <2>4 DEF NoneAdded
<1> QED
  BY <1>2, <1>3, <1>4, <1>5, <1>6, <1>7 DEF Proceed

\* A submission looks whether the session is closed.
LEMMA QuietBegin ==
    ASSUME TypeInv, NEW s \in DOMAIN sessions, ~Accepting(sessions[s]), NobodyAdds(s),
           NEW p \in Slots, Begin(p)
    PROVE  NobodyAdds(s)' /\ NoneAdded(s)
<1>1. CASE StartOffline(p)
  <2>1. roster' = roster /\ Continue(p, [Idle EXCEPT !.step = "stamp", !.session = Len(sessions) + 1])
    BY <1>1 DEF StartOffline
  <2>2. [Idle EXCEPT !.step = "stamp", !.session = Len(sessions) + 1].step = "stamp"
    BY DEF Idle
  <2> QED
    BY <2>1, <2>2, QuietRequest DEF NoneAdded, Working
<1>2. ASSUME NEW t \in DOMAIN sessions, NEW sheet \in Sheets, Submit(p, t, sheet)
      PROVE  NobodyAdds(s)' /\ NoneAdded(s)
  <2>1. roster' = roster /\ t # s
    BY <1>2 DEF Submit
  <2>2. [Idle EXCEPT !.step = "check", !.session = t, !.sheet = sheet, !.row = 1].session = t
    BY DEF Idle
  <2> QED
    BY <1>2, <2>1, <2>2, QuietRequest DEF Submit, NoneAdded
<1> QED
  BY <1>1, <1>2 DEF Begin

LEMMA QuietEdit ==
    ASSUME TypeInv, NEW s, NobodyAdds(s), Edit
    PROVE  NobodyAdds(s)' /\ NoneAdded(s)
<1>1. req' = req
  BY DEF Edit, StartSession, EndSession, DeleteSession, SignOn, DeleteCheckin, UpdateZone, DeleteZone
<1>2. roster \in Seq(Checkin) /\ Len(roster) \in Nat /\ DOMAIN roster = 1..Len(roster)
  BY TableFacts DEF TypeInv, Tables
<1>3. CASE \E t \in DOMAIN sessions, c \in Callsigns : SignOn(t, c)
  <2>1. PICK row : roster' = Append(roster, row) /\ row.tactical
    BY <1>3 DEF SignOn
  <2>2. DOMAIN roster' = 1..(Len(roster) + 1) /\ roster'[Len(roster) + 1] = row
    BY <1>2, <2>1, AppendProperties, LenProperties
  <2> QED
    BY <1>1, <1>2, <2>1, <2>2 DEF NobodyAdds, Adding, NoneAdded
<1>4. CASE ~\E t \in DOMAIN sessions, c \in Callsigns : SignOn(t, c)
  <2>1. DOMAIN roster' = DOMAIN roster
    BY <1>4 DEF Edit, StartSession, EndSession, DeleteSession, DeleteCheckin, UpdateZone,
       DeleteZone, Cascade
  <2> QED
    BY <1>1, <2>1 DEF NobodyAdds, Adding, NoneAdded
<1> QED
  BY <1>3, <1>4

\* Once a session is closed and the submissions that had seen it open are through, its
\* roster grows no more except by tactical sign-on, however many requests there are.
THEOREM ClosedRostersStay == Spec => ClosedStaysQuiet
<1>1. TypeInv /\ [Next]_vars =>
        [\A s \in DOMAIN sessions :
           ~Accepting(sessions[s]) /\ (\A p \in Slots : ~Adding(p, s)) =>
               /\ \A p \in Slots : ~Adding(p, s)'
               /\ \A i \in DOMAIN roster' \ DOMAIN roster :
                     roster'[i].session = s => roster'[i].tactical]_vars
  <2> SUFFICES ASSUME TypeInv, Next, NEW s \in DOMAIN sessions, ~Accepting(sessions[s]),
                      NobodyAdds(s)
               PROVE  NobodyAdds(s)' /\ NoneAdded(s)
    BY DEF NobodyAdds, NoneAdded
  <2>1. CASE Edit
    BY <2>1, QuietEdit
  <2>2. ASSUME NEW p \in Slots, Begin(p) PROVE NobodyAdds(s)' /\ NoneAdded(s)
    BY <2>2, QuietBegin
  <2>3. ASSUME NEW p \in Slots, Proceed(p) PROVE NobodyAdds(s)' /\ NoneAdded(s)
    BY <2>3, QuietProceed
  <2>4. ASSUME NEW p \in Slots, Fail(p) PROVE NobodyAdds(s)' /\ NoneAdded(s)
    BY <2>4, QuietReply DEF Fail
  <2> QED
    BY <2>1, <2>2, <2>3, <2>4 DEF Next
<1> QED
  BY <1>1, TypeAlways, PTL DEF Spec, ClosedStaysQuiet

(***************************************************************************)
(* The zone list keeps up with the roster.                                 *)
(***************************************************************************)

\* A report on its way to the list holds the check-in it was stored as, then the entry it
\* found; a station's reports are on the list, or one of them is on its way to it.
Present(c) ==
    /\ \A p \in Slots : Listing(p, c) /\ req[p].step = "zone" =>
          req[p].entry \in Reports(c) /\ roster[req[p].entry].zone = Current(req[p]).zone
    /\ \A p \in Slots : Listing(p, c) /\ req[p].step = "upsert" /\ req[p].entry # Null =>
          req[p].entry \in Entries(c)
    /\ \A i \in Reports(c) : roster[i].live =>
          \/ Entries(c) # {}
          \/ \E p \in Slots : Listing(p, c) /\ (req[p].step = "zone" => req[p].entry = i)

Newest(c, k) == k \in Reports(c) /\ \A i \in Reports(c) : i <= k

\* While no two reports of a station were on their way at once, the one on its way is the
\* newest, finds no entry only where there is none, and all the others are shown.
Followed(c) ==
    /\ \A p, q \in Slots : Listing(p, c) /\ Listing(q, c) => p = q
    /\ \A p \in Slots : Listing(p, c) =>
          \E k \in Reports(c) : /\ Newest(c, k) /\ roster[k].zone = Current(req[p]).zone
                                /\ req[p].step = "zone" => req[p].entry = k
    /\ \A p \in Slots : Listing(p, c) /\ req[p].step = "upsert" /\ req[p].entry = Null =>
          Entries(c) = {}
    /\ \A i \in Reports(c) : roster[i].live =>
          Shown(c, i) \/ \E p \in Slots : Listing(p, c) /\ Newest(c, i)

Station(c) == (c \notin missed => Present(c))
              /\ (c \notin missed \cup contested => Followed(c))

\* The entry a request found belongs to its station, if only as a deleted row.
Named ==
    \A p \in Slots : req[p].step = "upsert" /\ req[p].entry # Null =>
        req[p].entry \in DOMAIN zones
        /\ zones[req[p].entry].callsign = Current(req[p]).callsign

ZoneInv == TypeInv /\ Named /\ \A c \in Callsigns : Station(c)

SteadyReports(c) ==
    /\ Reports(c)' = Reports(c)
    /\ \A i \in Reports(c) : roster'[i].zone = roster[i].zone
                             /\ (roster'[i].live => roster[i].live)

SteadyEntries(c) ==
    /\ Entries(c)' = Entries(c)
    /\ \A z \in Entries(c) : zones'[z].zone = zones[z].zone

SteadyListing(c) ==
    \A q \in Slots : Listing(q, c) \/ Listing(q, c)' => req'[q] = req[q]

LEMMA PresentKept ==
    ASSUME NEW c, Present(c), SteadyReports(c), SteadyEntries(c), SteadyListing(c)
    PROVE  Present(c)'
<1>1. \A q \in Slots : Listing(q, c)' => Listing(q, c) /\ req'[q] = req[q]
  BY DEF SteadyListing, Listing
<1>2. \A q \in Slots : Listing(q, c) => Listing(q, c)' /\ req'[q] = req[q]
  BY DEF SteadyListing, Listing
<1>3. \A q \in Slots : Listing(q, c)' /\ req'[q].step = "zone" =>
          req'[q].entry \in Reports(c)' /\ roster'[req'[q].entry].zone = Current(req'[q]).zone
  BY <1>1 DEF Present, SteadyReports
<1>4. \A q \in Slots : Listing(q, c)' /\ req'[q].step = "upsert" /\ req'[q].entry # Null =>
          req'[q].entry \in Entries(c)'
  BY <1>1 DEF Present, SteadyEntries
<1>5. ASSUME NEW i \in Reports(c)', roster'[i].live
      PROVE  \/ Entries(c)' # {}
             \/ \E q \in Slots : Listing(q, c)' /\ (req'[q].step = "zone" => req'[q].entry = i)
  BY <1>2, <1>5 DEF Present, SteadyReports, SteadyEntries
<1> QED
  BY <1>3, <1>4, <1>5 DEF Present, Null

LEMMA ShownKept ==
    ASSUME NEW c, NEW i, Shown(c, i), SteadyReports(c), SteadyEntries(c)
    PROVE  Shown(c, i)'
BY DEF Shown, SteadyReports, SteadyEntries

LEMMA FollowedKept ==
    ASSUME NEW c, Followed(c), SteadyReports(c), SteadyEntries(c), SteadyListing(c)
    PROVE  Followed(c)'
<1>1. \A q \in Slots : Listing(q, c)' => Listing(q, c) /\ req'[q] = req[q]
  BY DEF SteadyListing, Listing
<1>2. \A q \in Slots : Listing(q, c) => Listing(q, c)' /\ req'[q] = req[q]
  BY DEF SteadyListing, Listing
<1>3. \A k : Newest(c, k)' <=> Newest(c, k)
  BY DEF Newest, SteadyReports
<1>4. \A p, q \in Slots : Listing(p, c)' /\ Listing(q, c)' => p = q
  BY <1>1 DEF Followed
<1>5. ASSUME NEW q \in Slots, Listing(q, c)'
      PROVE  \E k \in Reports(c)' : /\ Newest(c, k)' /\ roster'[k].zone = Current(req'[q]).zone
                                    /\ req'[q].step = "zone" => req'[q].entry = k
  <2>1. PICK k \in Reports(c) : /\ Newest(c, k) /\ roster[k].zone = Current(req[q]).zone
                                /\ req[q].step = "zone" => req[q].entry = k
    BY <1>1, <1>5 DEF Followed
  <2> QED
    BY <1>1, <1>3, <1>5, <2>1 DEF SteadyReports
<1>6. \A q \in Slots : Listing(q, c)' /\ req'[q].step = "upsert" /\ req'[q].entry = Null =>
          Entries(c)' = {}
  BY <1>1 DEF Followed, SteadyEntries
<1>7. ASSUME NEW i \in Reports(c)', roster'[i].live
      PROVE  Shown(c, i)' \/ \E q \in Slots : Listing(q, c)' /\ Newest(c, i)'
  <2>1. i \in Reports(c) /\ roster[i].live
    BY <1>7 DEF SteadyReports
  <2>2. CASE Shown(c, i)
    BY <2>2, ShownKept
  <2>3. CASE \E q \in Slots : Listing(q, c) /\ Newest(c, i)
    BY <1>2, <1>3, <2>3
  <2> QED
    BY <2>1, <2>2, <2>3 DEF Followed
<1> QED
  BY <1>4, <1>5, <1>6, <1>7 DEF Followed, Null

\* A step that touches no report and no entry of a station, and no request at its reports.
LEMMA StationKept ==
    ASSUME NEW c, Station(c), c \in missed => c \in missed', c \in contested => c \in contested',
           SteadyReports(c), SteadyEntries(c), SteadyListing(c)
    PROVE  Station(c)'
BY PresentKept, FollowedKept DEF Station

LEMMA ZonesCascaded ==
    ASSUME NEW gone
    PROVE  /\ DOMAIN Cascade(zones, gone) = DOMAIN zones
           /\ \A z \in DOMAIN zones : Cascade(zones, gone)[z] =
                  IF z \in gone THEN [zones[z] EXCEPT !.live = FALSE] ELSE zones[z]
BY DEF Cascade

LEMMA RosterSteady ==
    ASSUME NEW c, roster' = roster
    PROVE  SteadyReports(c)
BY DEF SteadyReports, Reports

LEMMA ZonesSteady ==
    ASSUME NEW c, zones' = zones
    PROVE  SteadyEntries(c)
BY DEF SteadyEntries, Entries

\* Rows deleted from the roster are reports still.
LEMMA CascadeSteady ==
    ASSUME Tables, NEW c, NEW gone, roster' = Cascade(roster, gone)
    PROVE  SteadyReports(c)
<1>1. /\ DOMAIN roster' = DOMAIN roster
      /\ \A i \in DOMAIN roster : roster'[i] =
            IF i \in gone THEN [roster[i] EXCEPT !.live = FALSE] ELSE roster[i]
  <2>1. roster \in Seq(Checkin) /\ \A r \in Checkin : [r EXCEPT !.live = FALSE] \in Checkin
    BY RowTypes DEF Tables
  <2>2. /\ DOMAIN Cascade(roster, gone) = DOMAIN roster
        /\ \A i \in DOMAIN roster : Cascade(roster, gone)[i] =
               IF i \in gone THEN [roster[i] EXCEPT !.live = FALSE] ELSE roster[i]
    BY <2>1, CascadeRows
  <2> QED
    BY <2>2
<1>2. \A i \in DOMAIN roster : roster[i] \in Checkin
  BY TableFacts
<1>3. \A i \in DOMAIN roster : /\ roster'[i].callsign = roster[i].callsign
                               /\ roster'[i].zone = roster[i].zone
                               /\ roster'[i].live => roster[i].live
  BY <1>1, <1>2 DEF Checkin
<1> QED
  BY <1>1, <1>3 DEF SteadyReports, Reports

\* Nor is a check-in of another station, or one without a zone, a report of this one.
LEMMA AppendSteady ==
    ASSUME Tables, NEW c, NEW row \in Checkin, roster' = Append(roster, row),
           row.callsign # c \/ row.zone = NoZone
    PROVE  SteadyReports(c)
<1>1. /\ Len(roster) \in Nat /\ DOMAIN roster = 1..Len(roster)
      /\ DOMAIN roster' = 1..(Len(roster) + 1)
      /\ \A i \in DOMAIN roster : roster'[i] = roster[i]
      /\ roster'[Len(roster) + 1] = row
  BY AppendedCheckin, TableFacts
<1>2. \A i : i \in DOMAIN roster' <=> i \in DOMAIN roster \/ i = Len(roster) + 1
  BY <1>1
<1>3. Len(roster) + 1 \notin DOMAIN roster
  BY <1>1
<1>4. Reports(c)' = Reports(c)
  BY <1>1, <1>2, <1>3 DEF Reports
<1> QED
  BY <1>1, <1>4 DEF SteadyReports, Reports

LEMMA NextRowStep ==
    ASSUME NEW r \in Request
    PROVE  NextRow(r).step \in {"idle", "check"}
BY DEF NextRow, Idle, Request

\* A request that was on its way with no report, and is not now.
LEMMA ContinueSteady ==
    ASSUME Tables, NEW c, NEW p \in Slots, NEW r, Continue(p, r),
           ~Listing(p, c), r.step \notin {"zone", "upsert"}
    PROVE  SteadyListing(c)
<1>1. \A q \in Slots : req'[q] = IF q = p THEN r ELSE req[q]
  BY DEF Tables, Continue
<1> QED
  BY <1>1 DEF SteadyListing, Listing

\* The requests at the reports of other stations stay where they are.
LEMMA OthersSteady ==
    ASSUME Tables, NEW c, NEW p \in Slots, NEW r, Continue(p, r),
           Current(req[p]).callsign # c, Current(r).callsign # c \/ r.step \notin {"zone", "upsert"}
    PROVE  SteadyListing(c)
<1>1. \A q \in Slots : req'[q] = IF q = p THEN r ELSE req[q]
  BY DEF Tables, Continue
<1> QED
  BY <1>1 DEF SteadyListing, Listing

-----------------------------------------------------------------------------
(* The steps of a report on its way.                                       *)

\* The new check-in is the newest report, and its request the only one on its way.
LEMMA InsertStation ==
    ASSUME ZoneInv, NEW p \in Slots, Insert(p), NEW c \in Callsigns
    PROVE  Station(c)'
<1>1. PICK r \in Request : r = req[p]
  BY RequestFacts DEF ZoneInv
<1>2. /\ Tables /\ RequestOK(r, Len(roster)) /\ Len(roster) \in Nat /\ r.step = "insert"
      /\ r.row \in 1..Len(r.sheet) /\ zones' = zones /\ missed' = missed
  BY <1>1, RequestFacts DEF Insert, At, RequestOK, ZoneInv
<1>3. PICK row \in SheetRow : row = Current(r) /\ row.callsign \in Callsigns
  BY <1>2, CurrentTyped DEF RequestOK
<1>4. PICK new \in Checkin :
          new = [live |-> TRUE, session |-> r.session, callsign |-> row.callsign,
                 tactical |-> FALSE, first |-> r.first, zone |-> row.zone, seen |-> r.seen]
  BY <1>3, InsertedRow
<1>5. new.callsign = row.callsign /\ new.zone = row.zone
  BY <1>4
<1>6. roster' = Append(roster, new)
  BY <1>1, <1>3, <1>4 DEF Insert
<1>7. contested' = IF row.zone # NoZone /\ \E q \in Slots : Listing(q, row.callsign)
                   THEN contested \cup {row.callsign} ELSE contested
  BY <1>1, <1>3 DEF Insert
<1>8. SteadyEntries(c) /\ Station(c) /\ ~Listing(p, c)
  BY <1>1, <1>2, ZonesSteady DEF ZoneInv, Listing
<1>9. CASE row.zone = NoZone
  <2>1. Continue(p, NextRow(r))
    BY <1>1, <1>3, <1>9 DEF Insert
  <2>2. SteadyListing(c)
    BY <1>2, <1>8, <2>1, NextRowStep, ContinueSteady
  <2>3. SteadyReports(c)
    BY <1>2, <1>5, <1>6, <1>9, AppendSteady
  <2> QED
    BY <1>2, <1>7, <1>8, <2>2, <2>3, StationKept
<1>10. CASE row.zone # NoZone
  <2>1. PICK n \in Nat : n = Len(roster) + 1
    BY <1>2
  <2> DEFINE r2 == [r EXCEPT !.step = "zone", !.entry = n]
  <2>2. Continue(p, r2)
    BY <1>1, <1>3, <1>10, <2>1 DEF Insert
  <2>3. r2.step = "zone" /\ r2.entry = n /\ r2.row = r.row /\ r2.sheet = r.sheet
    BY DEF Request
  <2> HIDE DEF r2
  <2>4. Current(r2) = row
    BY <1>3, <2>3 DEF Current
  <2>5. CASE row.callsign # c
    <3>1. SteadyListing(c)
      BY <1>1, <1>2, <1>3, <2>2, <2>4, <2>5, OthersSteady
    <3>2. SteadyReports(c)
      BY <1>2, <1>5, <1>6, <2>5, AppendSteady
    <3> QED
      BY <1>2, <1>7, <1>8, <3>1, <3>2, StationKept
  <2>6. CASE row.callsign = c
    <3>1. \A q \in Slots : req'[q] = IF q = p THEN r2 ELSE req[q]
      BY <1>2, <2>2 DEF Tables, Continue
    <3>2. \A q \in Slots : Listing(q, c)' <=> q = p \/ Listing(q, c)
      BY <2>3, <2>4, <2>6, <3>1 DEF Listing
    <3>3. /\ DOMAIN roster' = 1..(Len(roster) + 1)
          /\ \A i \in DOMAIN roster : roster'[i] = roster[i]
          /\ roster'[n] = new /\ DOMAIN roster = 1..Len(roster)
      BY <1>2, <1>6, <2>1, AppendedCheckin, TableFacts
    <3>4. n \in DOMAIN roster' /\ \A i \in DOMAIN roster' : i = n \/ i \in DOMAIN roster
      BY <1>2, <2>1, <3>3
    <3>5. n \in Reports(c)' /\ roster'[n].zone = row.zone
      BY <1>5, <1>10, <2>6, <3>3, <3>4 DEF Reports
    <3>6. \A i \in Reports(c)' : i = n \/ i \in Reports(c)
      BY <3>3, <3>4 DEF Reports
    <3>7. \A i \in Reports(c) : i \in Reports(c)' /\ roster'[i] = roster[i] /\ i <= n
      BY <1>2, <2>1, <3>3 DEF Reports
    <3>8. Entries(c)' = Entries(c)
      BY <1>8 DEF SteadyEntries
    <3>9. ASSUME c \notin missed PROVE Present(c)'
      <4>1. Present(c)
        BY <3>9, <1>8 DEF Station
      <4>2. ASSUME NEW q \in Slots, Listing(q, c)', req'[q].step = "zone"
            PROVE  req'[q].entry \in Reports(c)' /\ roster'[req'[q].entry].zone = Current(req'[q]).zone
        <5>1. CASE q = p
          BY <5>1, <2>3, <2>4, <3>1, <3>5
        <5>2. CASE q # p
          <6>1. Listing(q, c) /\ req'[q] = req[q]
            BY <5>2, <4>2, <3>1, <3>2
          <6>2. req[q].entry \in Reports(c) /\ roster[req[q].entry].zone = Current(req[q]).zone
            BY <6>1, <4>1, <4>2 DEF Present
          <6> QED
            BY <6>1, <6>2, <3>7
        <5> QED
          BY <5>1, <5>2
      <4>3. ASSUME NEW q \in Slots, Listing(q, c)', req'[q].step = "upsert", req'[q].entry # Null
            PROVE  req'[q].entry \in Entries(c)'
        BY <4>1, <4>3, <2>3, <3>1, <3>2, <3>8 DEF Present
      <4>4. ASSUME NEW i \in Reports(c)', roster'[i].live
            PROVE  \/ Entries(c)' # {}
                   \/ \E q \in Slots : Listing(q, c)' /\ (req'[q].step = "zone" => req'[q].entry = i)
        <5>1. CASE i = n
          BY <5>1, <2>3, <3>1, <3>2
        <5>2. CASE i # n
          <6>1. i \in Reports(c) /\ roster[i].live
            BY <5>2, <4>4, <3>6, <3>7
          <6>2. CASE Entries(c) # {}
            BY <6>2, <3>8
          <6>3. CASE \E q \in Slots : Listing(q, c) /\ (req[q].step = "zone" => req[q].entry = i)
            <7>1. PICK q \in Slots : Listing(q, c) /\ (req[q].step = "zone" => req[q].entry = i)
              BY <6>3
            <7>2. q # p
              BY <7>1, <1>8
            <7> QED
              BY <7>1, <7>2, <3>1, <3>2
          <6> QED
            BY <6>1, <6>2, <6>3, <4>1 DEF Present
        <5> QED
          BY <5>1, <5>2
      <4> QED
        BY <4>2, <4>3, <4>4 DEF Present, Null
    <3>10. ASSUME c \notin missed, c \notin contested' PROVE Followed(c)'
      <4>1. \A q \in Slots : ~Listing(q, c)
        BY <3>10, <1>7, <1>10, <2>6
      <4>2. Followed(c)
        BY <3>10, <1>7, <1>8 DEF Station
      <4>3. \A q \in Slots : Listing(q, c)' => q = p /\ req'[q] = r2
        BY <3>1, <3>2, <4>1
      <4>4. Newest(c, n)'
        BY <3>5, <3>6, <3>7, <2>1 DEF Newest
      <4>5. ASSUME NEW i \in Reports(c)', roster'[i].live
            PROVE  Shown(c, i)' \/ \E q \in Slots : Listing(q, c)' /\ Newest(c, i)'
        <5>1. CASE i = n
          BY <5>1, <4>4, <3>2
        <5>2. CASE i # n
          <6>1. i \in Reports(c) /\ roster[i].live
            BY <5>2, <4>5, <3>6, <3>7
          <6>2. Shown(c, i)
            BY <6>1, <4>1, <4>2 DEF Followed
          <6>3. \A z \in Entries(c) : zones'[z].zone = zones[z].zone
            BY <1>2
          <6> QED
            BY <6>2, <6>3, <3>7, <3>8 DEF Shown
        <5> QED
          BY <5>1, <5>2
      <4>6. \A q \in Slots : Listing(q, c)' =>
              \E k \in Reports(c)' : /\ Newest(c, k)' /\ roster'[k].zone = Current(req'[q]).zone
                                     /\ req'[q].step = "zone" => req'[q].entry = k
        BY <4>3, <4>4, <3>5, <2>3, <2>4
      <4>7. \A q \in Slots : Listing(q, c)' => req'[q].step # "upsert"
        BY <4>3, <2>3
      <4> QED
        BY <4>3, <4>5, <4>6, <4>7 DEF Followed
    <3> QED
      BY <1>2, <3>9, <3>10 DEF Station
  <2> QED
    BY <2>5, <2>6
<1> QED
  BY <1>9, <1>10

LEMMA LoseStation ==
    ASSUME ZoneInv, NEW p \in Slots, LoseCheckin(p), NEW c \in Callsigns
    PROVE  Station(c)'
<1>1. PICK r \in Request : r = req[p]
  BY RequestFacts DEF ZoneInv
<1>2. /\ Tables /\ r.step = "zone" /\ ~Live(roster, r.entry) /\ Continue(p, NextRow(r))
      /\ UNCHANGED <<roster, zones, missed, contested>> /\ Station(c)
  BY <1>1, RequestFacts DEF LoseCheckin, At, ZoneInv, history
<1>3. NextRow(r).step \notin {"zone", "upsert"}
  BY NextRowStep
<1>4. SteadyReports(c) /\ SteadyEntries(c)
  BY <1>2, RosterSteady, ZonesSteady
<1>5. CASE ~Listing(p, c)
  BY <1>2, <1>3, <1>4, <1>5, ContinueSteady, StationKept
<1>6. CASE Listing(p, c)
  <2>1. \A q \in Slots : req'[q] = IF q = p THEN NextRow(r) ELSE req[q]
    BY <1>2 DEF Tables, Continue
  <2>2. \A q \in Slots : Listing(q, c)' <=> q # p /\ Listing(q, c)
    BY <1>3, <2>1 DEF Listing
  <2>3. \A q \in Slots : q # p => req'[q] = req[q]
    BY <2>1
  <2>4. Reports(c)' = Reports(c) /\ Entries(c)' = Entries(c)
    BY <1>4 DEF SteadyReports, SteadyEntries
  <2>5. ASSUME c \notin missed PROVE Present(c)'
    <3>1. Present(c)
      BY <1>2, <2>5 DEF Station
    <3>2. ASSUME NEW i \in Reports(c), roster[i].live
          PROVE  \/ Entries(c) # {}
                 \/ \E q \in Slots : Listing(q, c)' /\ (req'[q].step = "zone" => req'[q].entry = i)
      <4>1. i # r.entry
        BY <1>2, <3>2 DEF Live, Reports
      <4>2. CASE \E q \in Slots : Listing(q, c) /\ (req[q].step = "zone" => req[q].entry = i)
        <5>1. PICK q \in Slots : Listing(q, c) /\ (req[q].step = "zone" => req[q].entry = i)
          BY <4>2
        <5>2. q # p
          BY <1>1, <1>2, <4>1, <5>1
        <5> QED
          BY <2>2, <2>3, <5>1, <5>2
      <4> QED
        BY <3>1, <3>2, <4>2 DEF Present
    <3>3. \A q \in Slots : Listing(q, c)' => Listing(q, c) /\ req'[q] = req[q]
      BY <2>2, <2>3
    <3> QED
      BY <1>2, <2>4, <3>1, <3>2, <3>3 DEF Present, Null
  <2>6. ASSUME c \notin missed, c \notin contested PROVE Followed(c)'
    <3>1. Followed(c)
      BY <1>2, <2>6 DEF Station
    <3>2. \A q \in Slots : ~Listing(q, c)'
      BY <1>6, <2>2, <3>1 DEF Followed
    <3>3. PICK k \in Reports(c) : Newest(c, k) /\ r.entry = k
      BY <1>1, <1>2, <1>6, <3>1 DEF Followed
    <3>4. ASSUME NEW i \in Reports(c), roster[i].live PROVE Shown(c, i)
      <4>1. i # k
        BY <1>2, <3>3, <3>4 DEF Live, Reports
      <4>2. ~Newest(c, i)
        <5>1. i <= k /\ (Newest(c, i) => k <= i)
          BY <3>3 DEF Newest
        <5>2. i \in Nat /\ k \in Nat
          BY <1>2, TableFacts DEF Reports
        <5> QED
          BY <4>1, <5>1, <5>2
      <4> QED
        BY <3>1, <3>4, <4>2 DEF Followed
    <3>5. \A i \in Reports(c) : Shown(c, i) => Shown(c, i)'
      BY <1>4, ShownKept
    <3> QED
      BY <1>2, <2>4, <3>2, <3>4, <3>5 DEF Followed
  <2> QED
    BY <1>2, <2>5, <2>6 DEF Station
<1> QED
  BY <1>5, <1>6

LEMMA ReadZoneStation ==
    ASSUME ZoneInv, NEW p \in Slots, ReadZone(p), NEW c \in Callsigns
    PROVE  Station(c)'
<1>1. PICK r \in Request : r = req[p]
  BY RequestFacts DEF ZoneInv
<1>2. /\ Tables /\ r.step = "zone"
      /\ UNCHANGED <<roster, zones, missed, contested>> /\ Station(c)
  BY <1>1, RequestFacts DEF ReadZone, At, ZoneInv, history
<1>3. PICK z \in IF Entries(Current(r).callsign) = {} THEN {Null} ELSE Entries(Current(r).callsign) :
          Continue(p, [r EXCEPT !.step = "upsert", !.entry = z])
  BY <1>1 DEF ReadZone
<1> DEFINE r2 == [r EXCEPT !.step = "upsert", !.entry = z]
<1>4. r2.step = "upsert" /\ r2.entry = z /\ r2.row = r.row /\ r2.sheet = r.sheet
  BY DEF Request
<1>5. Continue(p, r2)
  BY <1>3
<1> HIDE DEF r2
<1>6. Current(r2) = Current(r)
  BY <1>4 DEF Current
<1>7. SteadyReports(c) /\ SteadyEntries(c)
  BY <1>2, RosterSteady, ZonesSteady
<1>8. CASE Current(r).callsign # c
  BY <1>1, <1>2, <1>5, <1>6, <1>7, <1>8, OthersSteady, StationKept
<1>9. CASE Current(r).callsign = c
  <2>1. \A q \in Slots : req'[q] = IF q = p THEN r2 ELSE req[q]
    BY <1>2, <1>5 DEF Tables, Continue
  <2>2. \A q \in Slots : Listing(q, c)' <=> Listing(q, c)
    BY <1>1, <1>2, <1>4, <1>6, <1>9, <2>1 DEF Listing
  <2>3. \A q \in Slots : q # p => req'[q] = req[q]
    BY <2>1
  <2>4. Listing(p, c) /\ req'[p] = r2
    BY <1>1, <1>2, <1>9, <2>1 DEF Listing
  <2>5. Reports(c)' = Reports(c) /\ Entries(c)' = Entries(c)
    BY <1>7 DEF SteadyReports, SteadyEntries
  <2>6. (z = Null /\ Entries(c) = {}) \/ z \in Entries(c)
    BY <1>3, <1>9
  <2>7. \A y \in Entries(c) : y # Null
    BY <1>2, TableFacts DEF Entries, Null
  <2>8. ASSUME c \notin missed PROVE Present(c)'
    <3>1. Present(c)
      BY <1>2, <2>8 DEF Station
    <3>2. ASSUME NEW q \in Slots, Listing(q, c)', req'[q].step = "zone"
          PROVE  req'[q].entry \in Reports(c)' /\ roster'[req'[q].entry].zone = Current(req'[q]).zone
      <4>1. q # p
        BY <1>4, <2>4, <3>2
      <4> QED
        BY <1>2, <2>2, <2>3, <2>5, <3>1, <3>2, <4>1 DEF Present
    <3>3. ASSUME NEW q \in Slots, Listing(q, c)', req'[q].step = "upsert", req'[q].entry # Null
          PROVE  req'[q].entry \in Entries(c)'
      <4>1. CASE q = p
        BY <1>4, <2>4, <2>5, <2>6, <3>3, <4>1
      <4>2. CASE q # p
        BY <2>2, <2>3, <2>5, <3>1, <3>3, <4>2 DEF Present
      <4> QED
        BY <4>1, <4>2
    <3>4. Listing(p, c)' /\ req'[p].step # "zone"
      BY <1>4, <2>2, <2>4
    <3> QED
      BY <2>5, <3>2, <3>3, <3>4 DEF Present, Null
  <2>9. ASSUME c \notin missed, c \notin contested PROVE Followed(c)'
    <3>1. Followed(c)
      BY <1>2, <2>9 DEF Station
    <3>2. \A q \in Slots : Listing(q, c)' <=> q = p
      BY <2>2, <2>4, <3>1 DEF Followed
    <3>3. \A i : Newest(c, i)' <=> Newest(c, i)
      BY <2>5 DEF Newest
    <3>4. PICK k \in Reports(c) : Newest(c, k) /\ roster[k].zone = Current(r).zone
      BY <1>1, <2>4, <3>1 DEF Followed
    <3>5. \A q \in Slots : Listing(q, c)' =>
              \E i \in Reports(c)' : /\ Newest(c, i)' /\ roster'[i].zone = Current(req'[q]).zone
                                     /\ req'[q].step = "zone" => req'[q].entry = i
      BY <1>2, <1>4, <1>6, <2>4, <2>5, <3>2, <3>3, <3>4
    <3>6. \A q \in Slots : Listing(q, c)' /\ req'[q].entry = Null => Entries(c)' = {}
      BY <1>4, <2>4, <2>5, <2>6, <2>7, <3>2
    <3>7. ASSUME NEW i \in Reports(c)', roster'[i].live
          PROVE  Shown(c, i)' \/ \E q \in Slots : Listing(q, c)' /\ Newest(c, i)'
      <4>1. Shown(c, i) => Shown(c, i)'
        BY <1>7, ShownKept
      <4> QED
        BY <1>2, <2>2, <2>5, <3>1, <3>3, <3>7, <4>1 DEF Followed
    <3> QED
      BY <3>2, <3>5, <3>6, <3>7 DEF Followed, Null
  <2> QED
    BY <1>2, <2>8, <2>9 DEF Station
<1> QED
  BY <1>8, <1>9

Grown(c) == Entries(c) \subseteq Entries(c)'

ShownNow(c, zone) == \E z \in Entries(c)' : zones'[z].zone = zone

\* What a station's entries become when one is added or changed for another station.
LEMMA EntryAdded ==
    ASSUME Tables, NEW d \in Callsigns, NEW zone \in Zones, zones' = NewEntry(d, zone), NEW c
    PROVE  /\ d # c => SteadyEntries(c)
           /\ d = c => Grown(c) /\ ShownNow(c, zone)
<1> DEFINE new == [live |-> TRUE, callsign |-> d, zone |-> zone]
<1>1. new \in ZoneRow /\ new.live /\ new.callsign = d /\ new.zone = zone
  BY DEF ZoneRow
<1>2. zones' = Append(zones, new) /\ zones \in Seq(ZoneRow)
  BY DEF NewEntry, Tables
<1> HIDE DEF new
<1>3. Len(zones) \in Nat /\ DOMAIN zones = 1..Len(zones)
  BY TableFacts
<1>4. /\ DOMAIN zones' = 1..(Len(zones) + 1) /\ zones'[Len(zones) + 1] = new
      /\ \A z \in DOMAIN zones : zones'[z] = zones[z]
  BY <1>1, <1>2, <1>3, AppendProperties, LenProperties
<1>5. \A z : z \in DOMAIN zones' <=> z \in DOMAIN zones \/ z = Len(zones) + 1
  BY <1>3, <1>4
<1>6. Len(zones) + 1 \notin DOMAIN zones
  BY <1>3
<1>7. ASSUME d # c PROVE SteadyEntries(c)
  <2>1. Entries(c)' = Entries(c)
    BY <1>1, <1>4, <1>5, <1>6, <1>7 DEF Entries
  <2> QED
    BY <2>1, <1>4 DEF SteadyEntries, Entries
<1>8. ASSUME d = c PROVE Grown(c) /\ ShownNow(c, zone)
  <2>1. Len(zones) + 1 \in Entries(c)' /\ Entries(c) \subseteq Entries(c)'
    BY <1>1, <1>4, <1>5, <1>8 DEF Entries
  <2> QED
    BY <1>1, <1>4, <2>1 DEF Grown, ShownNow
<1> QED
  BY <1>7, <1>8

LEMMA EntryChanged ==
    ASSUME Tables, NEW y, Live(zones, y), NEW zone \in Zones,
           zones' = [zones EXCEPT ![y].zone = zone], NEW c
    PROVE  /\ Grown(c)
           /\ zones[y].callsign = c => ShownNow(c, zone)
           /\ zones[y].callsign # c => SteadyEntries(c)
<1>1. y \in DOMAIN zones /\ DOMAIN zones' = DOMAIN zones
  BY DEF Live
<1>2. \A z \in DOMAIN zones : zones[z] \in ZoneRow
  BY TableFacts
<1>3. \A z \in DOMAIN zones : z # y => zones'[z] = zones[z]
  BY <1>1
<1>4. zones'[y] = [zones[y] EXCEPT !.zone = zone]
  BY <1>1
<1>5. zones'[y].live = zones[y].live /\ zones'[y].callsign = zones[y].callsign
      /\ zones'[y].zone = zone
  BY <1>1, <1>2, <1>4 DEF ZoneRow
<1>6. Entries(c)' = Entries(c)
  BY <1>1, <1>3, <1>5 DEF Entries
<1>7. zones[y].callsign # c => SteadyEntries(c)
  BY <1>3, <1>5, <1>6 DEF SteadyEntries, Entries
<1>8. zones[y].callsign = c => y \in Entries(c)
  BY <1>1 DEF Entries, Live
<1> QED
  BY <1>5, <1>6, <1>7, <1>8 DEF Grown, ShownNow

\* The newest report is on the list now.
LEMMA UpsertStation ==
    ASSUME ZoneInv, NEW p \in Slots, UpsertZone(p), NEW c \in Callsigns
    PROVE  Station(c)'
<1>1. PICK r \in Request : r = req[p]
  BY RequestFacts DEF ZoneInv
<1>2. /\ Tables /\ r.step = "upsert" /\ RequestOK(r, Len(roster)) /\ Continue(p, NextRow(r))
      /\ UNCHANGED <<roster, missed, contested>> /\ Station(c)
  BY <1>1, RequestFacts DEF UpsertZone, At, ZoneInv, history
<1>3. Current(r).callsign \in Callsigns /\ Current(r).zone \in Zones
  BY <1>2 DEF RequestOK
<1>4. NextRow(r).step \notin {"zone", "upsert"}
  BY NextRowStep
<1>5. SteadyReports(c)
  BY <1>2, RosterSteady
<1>6. \/ r.entry = Null /\ zones' = NewEntry(Current(r).callsign, Current(r).zone)
      \/ /\ r.entry # Null /\ Live(zones, r.entry)
         /\ zones' = [zones EXCEPT ![r.entry].zone = Current(r).zone]
  BY <1>1 DEF UpsertZone, Upsertable
<1>7. CASE Current(r).callsign = c
  <2>1. Listing(p, c)
    BY <1>1, <1>2, <1>7 DEF Listing
  <2>2. \A q \in Slots : req'[q] = IF q = p THEN NextRow(r) ELSE req[q]
    BY <1>2 DEF Tables, Continue
  <2>3. \A q \in Slots : Listing(q, c)' <=> q # p /\ Listing(q, c)
    BY <1>4, <2>2 DEF Listing
  <2>4. \A q \in Slots : q # p => req'[q] = req[q]
    BY <2>2
  <2>5. Reports(c)' = Reports(c)
    BY <1>5 DEF SteadyReports
  <2>6. Grown(c)
    BY <1>2, <1>3, <1>6, <1>7, EntryAdded, EntryChanged
  <2>7. ASSUME c \notin missed
        PROVE  Present(c)' /\ ShownNow(c, Current(r).zone)
    <3>1. Present(c)
      BY <1>2, <2>7 DEF Station
    <3>2. ASSUME r.entry = Null PROVE ShownNow(c, Current(r).zone)
      BY <1>2, <1>3, <1>6, <1>7, <3>2, EntryAdded
    <3>3. ASSUME r.entry # Null PROVE ShownNow(c, Current(r).zone)
      <4>1. r.entry \in Entries(c)
        BY <1>1, <1>2, <2>1, <3>1, <3>3 DEF Present
      <4>2. zones[r.entry].callsign = c
        BY <4>1 DEF Entries
      <4> QED
        BY <1>2, <1>3, <1>6, <3>3, <4>2, EntryChanged
    <3>4. ShownNow(c, Current(r).zone)
      BY <3>2, <3>3
    <3>5. \A q \in Slots : Listing(q, c)' => Listing(q, c) /\ req'[q] = req[q]
      BY <2>3, <2>4
    <3>6. Entries(c) \subseteq Entries(c)' /\ Entries(c)' # {}
      BY <2>6, <3>4 DEF Grown, ShownNow
    <3>7. Present(c)'
      BY <1>2, <2>5, <3>1, <3>5, <3>6 DEF Present, Null
    <3> QED
      BY <3>4, <3>7
  <2>8. ASSUME c \notin missed, c \notin contested PROVE Followed(c)'
    <3>1. Followed(c)
      BY <1>2, <2>8 DEF Station
    <3>2. \A q \in Slots : ~Listing(q, c)'
      BY <2>1, <2>3, <3>1 DEF Followed
    <3>3. PICK k \in Reports(c) : Newest(c, k) /\ roster[k].zone = Current(r).zone
      BY <1>1, <2>1, <3>1 DEF Followed
    <3>4. PICK z \in Entries(c)' : zones'[z].zone = Current(r).zone
      BY <2>7, <2>8 DEF ShownNow
    <3>5. \A i \in Reports(c)' : Shown(c, i)'
      BY <1>2, <2>5, <3>3, <3>4 DEF Shown, Newest
    <3> QED
      BY <3>2, <3>5 DEF Followed
  <2> QED
    BY <1>2, <2>7, <2>8 DEF Station
<1>8. CASE Current(r).callsign # c
  <2>1. SteadyListing(c)
    BY <1>1, <1>2, <1>4, <1>8, OthersSteady
  <2>3. CASE r.entry = Null
    <3>1. SteadyEntries(c)
      BY <1>2, <1>3, <1>6, <1>8, <2>3, EntryAdded
    <3> QED
      BY <1>2, <1>5, <2>1, <3>1, StationKept
  <2>4. CASE r.entry # Null
    <3>1. zones[r.entry].callsign # c
      BY <1>1, <1>2, <1>8, <2>4 DEF ZoneInv, Named
    <3>2. SteadyEntries(c)
      BY <1>2, <1>3, <1>6, <2>4, <3>1, EntryChanged
    <3> QED
      BY <1>2, <1>5, <2>1, <3>2, StationKept
  <2> QED
    BY <2>3, <2>4
<1> QED
  BY <1>7, <1>8

\* A commit that is refused leaves the list of an uncontested station as it should be.
LEMMA RefuseStation ==
    ASSUME ZoneInv, NEW p \in Slots, Refuse(p), NEW c \in Callsigns
    PROVE  Station(c)'
<1>1. PICK r \in Request : r = req[p]
  BY RequestFacts DEF ZoneInv
<1>2. /\ Tables /\ Continue(p, Idle) /\ Station(c)
      /\ UNCHANGED <<roster, zones, missed, contested>>
  BY RequestFacts DEF Refuse, Reply, ZoneInv, history
<1>3. Idle.step \notin {"zone", "upsert"}
  BY DEF Idle
<1>4. SteadyReports(c) /\ SteadyEntries(c)
  BY <1>2, RosterSteady, ZonesSteady
<1>5. CASE ~Listing(p, c)
  BY <1>2, <1>3, <1>4, <1>5, ContinueSteady, StationKept
<1>6. CASE Listing(p, c)
  <2>1. r.step = "upsert" /\ ~Upsertable(r) /\ Current(r).callsign = c
    BY <1>1, <1>6 DEF Refuse, At, Listing
  <2>2. \A q \in Slots : req'[q] = IF q = p THEN Idle ELSE req[q]
    BY <1>2 DEF Tables, Continue
  <2>3. \A q \in Slots : Listing(q, c)' <=> q # p /\ Listing(q, c)
    BY <1>3, <2>2 DEF Listing
  <2>4. \A q \in Slots : Listing(q, c)' => Listing(q, c) /\ req'[q] = req[q]
    BY <2>2, <2>3
  <2>5. Reports(c)' = Reports(c) /\ Entries(c)' = Entries(c)
    BY <1>4 DEF SteadyReports, SteadyEntries
  <2>6. ASSUME c \notin missed PROVE Present(c)' /\ r.entry = Null /\ Entries(c) # {}
    <3>1. Present(c)
      BY <1>2, <2>6 DEF Station
    <3>2. r.entry = Null
      <4>1. r.entry # Null => r.entry \in Entries(c)
        BY <1>1, <1>6, <2>1, <3>1 DEF Present
      <4> QED
        BY <2>1, <4>1 DEF Upsertable, Live, Entries
    <3>3. Entries(c) # {}
      BY <2>1, <3>2 DEF Upsertable
    <3> QED
      BY <1>2, <2>4, <2>5, <3>1, <3>2, <3>3 DEF Present, Null
  <2>7. ASSUME c \notin missed, c \notin contested PROVE FALSE
    <3>1. Followed(c)
      BY <1>2, <2>7 DEF Station
    <3> QED
      BY <1>1, <1>6, <2>1, <2>6, <2>7, <3>1 DEF Followed
  <2> QED
    BY <1>2, <2>6, <2>7 DEF Station
<1> QED
  BY <1>5, <1>6

-----------------------------------------------------------------------------
(* The other steps.                                                        *)

LEMMA FailStation ==
    ASSUME ZoneInv, NEW p \in Slots, Fail(p), NEW c \in Callsigns
    PROVE  Station(c)'
<1>1. /\ Tables /\ Continue(p, Idle) /\ Station(c)
      /\ UNCHANGED <<roster, zones, contested>> /\ missed \subseteq missed'
  BY RequestFacts DEF Fail, Reply, ZoneInv
<1>2. CASE Listing(p, c)
  BY <1>2 DEF Fail, Listing, Station
<1>3. CASE ~Listing(p, c)
  <2>1. Idle.step \notin {"zone", "upsert"}
    BY DEF Idle
  <2> QED
    BY <1>1, <1>3, <2>1, ContinueSteady, RosterSteady, ZonesSteady, StationKept
<1> QED
  BY <1>2, <1>3

LEMMA AsideStation ==
    ASSUME ZoneInv, NEW p \in Slots, NEW c \in Callsigns,
           Begin(p) \/ StampEnded(p) \/ CheckDuplicate(p) \/ ReadHistory(p)
    PROVE  Station(c)'
<1>1. PICK r \in Request : r = req[p]
  BY RequestFacts DEF ZoneInv
<1>2. /\ Tables /\ Station(c) /\ UNCHANGED <<roster, zones, missed, contested>>
  BY RequestFacts DEF Begin, StartOffline, Submit, StampEnded, CheckDuplicate, ReadHistory,
     ZoneInv, history
<1>3. r.step \notin {"zone", "upsert"}
  BY <1>1 DEF Begin, StartOffline, Submit, StampEnded, CheckDuplicate, ReadHistory, At
<1>4. ~Listing(p, c)
  BY <1>1, <1>3 DEF Listing
<1>5. \E r2 : Continue(p, r2) /\ r2.step \notin {"zone", "upsert"}
  <2>1. CASE StartOffline(p)
    <3>1. [Idle EXCEPT !.step = "stamp", !.session = Len(sessions) + 1].step = "stamp"
      BY DEF Idle
    <3> QED
      BY <2>1, <3>1 DEF StartOffline
  <2>2. ASSUME NEW s \in DOMAIN sessions, NEW sheet \in Sheets, Submit(p, s, sheet)
        PROVE  \E r2 : Continue(p, r2) /\ r2.step \notin {"zone", "upsert"}
    <3>1. [Idle EXCEPT !.step = "check", !.session = s, !.sheet = sheet, !.row = 1].step = "check"
      BY DEF Idle
    <3> QED
      BY <2>2, <3>1 DEF Submit
  <2>3. CASE StampEnded(p)
    BY <2>3 DEF StampEnded, Reply, Idle
  <2>4. CASE CheckDuplicate(p)
    <3>1. \/ Continue(p, NextRow(r))
          \/ Continue(p, [r EXCEPT !.step = "history", !.seen = Len(roster)])
      BY <1>1, <2>4 DEF CheckDuplicate
    <3>2. NextRow(r).step \notin {"zone", "upsert"}
      BY NextRowStep
    <3>3. [r EXCEPT !.step = "history", !.seen = Len(roster)].step = "history"
      BY DEF Request
    <3> QED
      BY <3>1, <3>2, <3>3
  <2>5. CASE ReadHistory(p)
    <3> DEFINE r2 == [r EXCEPT !.step = "insert", !.first = ~Known(r.session, Current(r).callsign)]
    <3>1. Continue(p, r2)
      BY <1>1, <2>5 DEF ReadHistory
    <3>2. r2.step = "insert"
      BY DEF Request
    <3> QED
      BY <3>1, <3>2
  <2> QED
    BY <2>1, <2>2, <2>3, <2>4, <2>5 DEF Begin
<1>6. PICK r2 : Continue(p, r2) /\ r2.step \notin {"zone", "upsert"}
  BY <1>5
<1>7. SteadyListing(c)
  BY <1>2, <1>4, <1>6, ContinueSteady
<1> QED
  BY <1>2, <1>7, RosterSteady, ZonesSteady, StationKept

LEMMA EditStation ==
    ASSUME ZoneInv, Edit \/ UNCHANGED vars, NEW c \in Callsigns
    PROVE  Station(c)'
<1>1. Tables /\ Station(c)
  BY DEF ZoneInv, TypeInv
<1>2. req' = req
  BY DEF Edit, StartSession, EndSession, DeleteSession, SignOn, DeleteCheckin, UpdateZone,
     DeleteZone, vars
<1>3. SteadyListing(c)
  BY <1>2 DEF SteadyListing
<1>4. ASSUME NEW gone, roster' = Cascade(roster, gone), zones' = zones,
             UNCHANGED <<missed, contested>>
      PROVE  Station(c)'
  BY <1>1, <1>3, <1>4, CascadeSteady, ZonesSteady, StationKept
<1>5. CASE UNCHANGED <<roster, zones, missed, contested>>
  BY <1>1, <1>3, <1>5, RosterSteady, ZonesSteady, StationKept
<1>6. ASSUME NEW s \in DOMAIN sessions, NEW d \in Callsigns, SignOn(s, d)
      PROVE  Station(c)'
  <2> DEFINE row == [live |-> TRUE, session |-> s, callsign |-> d, tactical |-> TRUE,
                     first |-> FALSE, zone |-> NoZone, seen |-> Len(roster)]
  <2>1. s \in Nat /\ Len(roster) \in Nat
    BY <1>1, TableFacts
  <2>2. row \in Checkin /\ row.zone = NoZone
    BY <2>1 DEF Checkin
  <2>3. roster' = Append(roster, row) /\ UNCHANGED <<zones, missed, contested>>
    BY <1>6 DEF SignOn, history
  <2> HIDE DEF row
  <2>4. SteadyReports(c)
    BY <1>1, <2>2, <2>3, AppendSteady
  <2> QED
    BY <1>1, <1>3, <2>3, <2>4, ZonesSteady, StationKept
<1>7. ASSUME NEW d \in Callsigns, NEW zone \in Zones, UpdateZone(d, zone)
      PROVE  Station(c)'
  <2>1. roster' = roster /\ missed' = missed \cup {d} /\ contested' = contested
    BY <1>7 DEF UpdateZone
  <2>2. CASE d = c
    BY <2>1, <2>2 DEF Station
  <2>3. CASE d # c
    <3>1. SteadyEntries(c)
      <4>1. CASE Entries(d) = {}
        BY <1>1, <1>7, <2>3, <4>1, EntryAdded DEF UpdateZone
      <4>2. CASE Entries(d) # {}
        <5>1. zones' = [z \in DOMAIN zones |-> IF z \in Entries(d)
                                               THEN [zones[z] EXCEPT !.zone = zone]
                                               ELSE zones[z]]
          BY <1>7, <4>2 DEF UpdateZone
        <5>2. \A z \in DOMAIN zones : zones[z] \in ZoneRow
          BY <1>1, TableFacts
        <5>3. \A z \in DOMAIN zones : zones'[z].live = zones[z].live
                                      /\ zones'[z].callsign = zones[z].callsign
                                      /\ (z \notin Entries(d) => zones'[z] = zones[z])
          BY <5>1, <5>2 DEF ZoneRow
        <5>4. DOMAIN zones' = DOMAIN zones
          BY <5>1
        <5>5. \A z \in Entries(c) : z \notin Entries(d)
          BY <2>3 DEF Entries
        <5> QED
          BY <5>3, <5>4, <5>5 DEF SteadyEntries, Entries
      <4> QED
        BY <4>1, <4>2
    <3> QED
      BY <1>1, <1>3, <2>1, <3>1, RosterSteady, StationKept
  <2> QED
    BY <2>2, <2>3
<1>8. ASSUME NEW y \in DOMAIN zones, DeleteZone(y)
      PROVE  Station(c)'
  <2>1. /\ roster' = roster /\ missed' = missed \cup {zones[y].callsign} /\ contested' = contested
        /\ zones' = Cascade(zones, {y})
    BY <1>8 DEF DeleteZone
  <2>2. CASE zones[y].callsign = c
    BY <2>1, <2>2 DEF Station
  <2>3. CASE zones[y].callsign # c
    <3>2. /\ DOMAIN Cascade(zones, {y}) = DOMAIN zones
          /\ \A z \in DOMAIN zones : Cascade(zones, {y})[z] =
                 IF z \in {y} THEN [zones[z] EXCEPT !.live = FALSE] ELSE zones[z]
      BY ZonesCascaded
    <3>3. DOMAIN zones' = DOMAIN zones /\ \A z \in DOMAIN zones : z # y => zones'[z] = zones[z]
      BY <2>1, <3>2
    <3>4. zones'[y].callsign = zones[y].callsign
      BY <1>1, <2>1, <3>2, TableFacts DEF ZoneRow
    <3>5. SteadyEntries(c)
      BY <2>3, <3>3, <3>4 DEF SteadyEntries, Entries
    <3> QED
      BY <1>1, <1>3, <2>1, <3>5, RosterSteady, StationKept
  <2> QED
    BY <2>2, <2>3
<1>9. CASE StartSession \/ (\E s \in DOMAIN sessions : EndSession(s)) \/ UNCHANGED vars
  BY <1>5, <1>9 DEF StartSession, EndSession, vars, history
<1>10. CASE \/ \E s \in DOMAIN sessions : DeleteSession(s)
            \/ \E i \in DOMAIN roster : DeleteCheckin(i)
  BY <1>4, <1>10 DEF DeleteSession, DeleteCheckin, history
<1> QED
  BY <1>6, <1>7, <1>8, <1>9, <1>10 DEF Edit

-----------------------------------------------------------------------------
(* Whose entry it is.                                                      *)

ZonesStable ==
    \A z \in DOMAIN zones : z \in DOMAIN zones' /\ zones'[z].callsign = zones[z].callsign

LEMMA ZonesNeverShrink == TypeInv /\ [Next]_vars => ZonesStable
<1> SUFFICES ASSUME TypeInv, [Next]_vars PROVE ZonesStable
  OBVIOUS
<1>1. Tables
  BY DEF TypeInv
<1>2. \A z \in DOMAIN zones : zones[z] \in ZoneRow
  BY <1>1, TableFacts
<1>3. CASE zones' = zones
  BY <1>3 DEF ZonesStable
<1>4. ASSUME NEW d \in Callsigns, NEW zone \in Zones, zones' = NewEntry(d, zone)
      PROVE  ZonesStable
  <2> DEFINE new == [live |-> TRUE, callsign |-> d, zone |-> zone]
  <2>1. new \in ZoneRow
    BY DEF ZoneRow
  <2>2. zones' = Append(zones, new) /\ zones \in Seq(ZoneRow)
    BY <1>1, <1>4 DEF NewEntry, Tables
  <2> HIDE DEF new
  <2>3. /\ DOMAIN zones' = 1..(Len(zones) + 1) /\ \A z \in DOMAIN zones : zones'[z] = zones[z]
        /\ Len(zones) \in Nat /\ DOMAIN zones = 1..Len(zones)
    BY <1>1, <2>1, <2>2, TableFacts, AppendProperties, LenProperties
  <2> QED
    BY <2>3 DEF ZonesStable
<1>5. ASSUME NEW y, NEW zone, zones' = [zones EXCEPT ![y].zone = zone]
      PROVE  ZonesStable
  <2>1. DOMAIN zones' = DOMAIN zones
    BY <1>5
  <2>2. \A z \in DOMAIN zones : zones'[z] = IF z = y THEN [zones[z] EXCEPT !.zone = zone] ELSE zones[z]
    BY <1>5
  <2> QED
    BY <1>2, <2>1, <2>2 DEF ZonesStable, ZoneRow
<1>6. ASSUME NEW d \in Callsigns, NEW zone \in Zones, UpdateZone(d, zone)
      PROVE  ZonesStable
  <2>1. CASE Entries(d) = {}
    BY <1>4, <1>6, <2>1 DEF UpdateZone
  <2>2. CASE Entries(d) # {}
    <3>1. zones' = [z \in DOMAIN zones |-> IF z \in Entries(d)
                                           THEN [zones[z] EXCEPT !.zone = zone]
                                           ELSE zones[z]]
      BY <1>6, <2>2 DEF UpdateZone
    <3> QED
      BY <1>2, <3>1 DEF ZonesStable, ZoneRow
  <2> QED
    BY <2>1, <2>2
<1>7. ASSUME NEW y \in DOMAIN zones, DeleteZone(y)
      PROVE  ZonesStable
  <2>2. /\ DOMAIN Cascade(zones, {y}) = DOMAIN zones
        /\ \A z \in DOMAIN zones : Cascade(zones, {y})[z] =
               IF z \in {y} THEN [zones[z] EXCEPT !.live = FALSE] ELSE zones[z]
    BY ZonesCascaded
  <2>3. zones' = Cascade(zones, {y})
    BY <1>7 DEF DeleteZone
  <2> QED
    BY <1>2, <2>2, <2>3 DEF ZonesStable, ZoneRow
<1>8. ASSUME NEW p \in Slots, UpsertZone(p)
      PROVE  ZonesStable
  <2>1. Current(req[p]).callsign \in Callsigns /\ Current(req[p]).zone \in Zones
    BY <1>8 DEF UpsertZone, At, TypeInv, RequestOK
  <2> QED
    BY <1>4, <1>5, <1>8, <2>1 DEF UpsertZone
<1>9. ASSUME NEW p \in Slots, Begin(p) \/ Proceed(p) \/ Fail(p), ~UpsertZone(p)
      PROVE  zones' = zones
  BY <1>9 DEF Begin, Proceed, StartOffline, Submit, StampEnded, CheckDuplicate, ReadHistory,
     Insert, LoseCheckin, ReadZone, Refuse, Fail
<1>10. CASE Edit
  BY <1>3, <1>6, <1>7, <1>10 DEF Edit, StartSession, EndSession, DeleteSession, SignOn,
     DeleteCheckin
<1> QED
  BY <1>3, <1>8, <1>9, <1>10 DEF Next, vars

LEMMA NamedNext == ASSUME ZoneInv, [Next]_vars PROVE Named'
<1>1. ZonesStable /\ Tables /\ Named
  BY ZonesNeverShrink DEF ZoneInv, TypeInv
<1>2. ASSUME \A q \in Slots : req'[q] = req[q] \/ req'[q].step # "upsert"
      PROVE  Named'
  BY <1>1, <1>2 DEF Named, ZonesStable, Null
<1>3. ASSUME NEW p \in Slots, NEW r, Continue(p, r), r.step # "upsert"
      PROVE  Named'
  <2>1. \A q \in Slots : req'[q] = IF q = p THEN r ELSE req[q]
    BY <1>1, <1>3 DEF Tables, Continue
  <2> QED
    BY <1>2, <1>3, <2>1
<1>4. ASSUME NEW p \in Slots, ReadZone(p)
      PROVE  Named'
  <2>1. PICK r \in Request : r = req[p]
    BY RequestFacts DEF ZoneInv
  <2>2. PICK z \in IF Entries(Current(r).callsign) = {} THEN {Null}
                   ELSE Entries(Current(r).callsign) :
          Continue(p, [r EXCEPT !.step = "upsert", !.entry = z])
    BY <1>4, <2>1 DEF ReadZone
  <2> DEFINE r2 == [r EXCEPT !.step = "upsert", !.entry = z]
  <2>3. r2.step = "upsert" /\ r2.entry = z /\ r2.row = r.row /\ r2.sheet = r.sheet
    BY DEF Request
  <2>4. Continue(p, r2)
    BY <2>2
  <2> HIDE DEF r2
  <2>5. \A q \in Slots : req'[q] = IF q = p THEN r2 ELSE req[q]
    BY <1>1, <2>4 DEF Tables, Continue
  <2>6. z # Null => z \in DOMAIN zones /\ zones[z].callsign = Current(r2).callsign
    BY <2>2, <2>3 DEF Entries, Current
  <2>7. zones' = zones
    BY <1>4 DEF ReadZone
  <2>8. ASSUME NEW q \in Slots, req'[q].step = "upsert", req'[q].entry # Null
        PROVE  req'[q].entry \in DOMAIN zones' /\ zones'[req'[q].entry].callsign = Current(req'[q]).callsign
    <3>1. CASE q = p
      BY <2>3, <2>5, <2>6, <2>7, <2>8, <3>1
    <3>2. CASE q # p
      BY <1>1, <2>5, <2>7, <2>8, <3>2 DEF Named
    <3> QED
      BY <3>1, <3>2
  <2> QED
    BY <2>8 DEF Named, Null
<1>5. ASSUME NEW p \in Slots, Begin(p) \/ Proceed(p) \/ Fail(p)
      PROVE  ReadZone(p) \/ \E r : Continue(p, r) /\ r.step # "upsert"
  <2>1. PICK r \in Request : r = req[p]
    BY RequestFacts DEF ZoneInv
  <2>2. NextRow(r).step # "upsert" /\ Idle.step # "upsert"
    BY NextRowStep DEF Idle
  <2>3. /\ \A n : [r EXCEPT !.step = "history", !.seen = n].step = "history"
        /\ \A f : [r EXCEPT !.step = "insert", !.first = f].step = "insert"
        /\ \A n : [r EXCEPT !.step = "zone", !.entry = n].step = "zone"
        /\ \A s : [Idle EXCEPT !.step = "stamp", !.session = s].step = "stamp"
    BY DEF Request, Idle
  <2>4. CASE StartOffline(p)
    <3>1. \E s : Continue(p, [Idle EXCEPT !.step = "stamp", !.session = s])
      BY <2>4 DEF StartOffline
    <3> QED
      BY <2>3, <3>1
  <2>5. CASE \E s \in DOMAIN sessions, sheet \in Sheets : Submit(p, s, sheet)
    <3>1. PICK s \in DOMAIN sessions, sheet \in Sheets : Submit(p, s, sheet)
      BY <2>5
    <3> DEFINE r2 == [Idle EXCEPT !.step = "check", !.session = s, !.sheet = sheet, !.row = 1]
    <3>2. Continue(p, r2)
      BY <3>1 DEF Submit
    <3>3. r2.step = "check"
      BY DEF Idle
    <3> HIDE DEF r2
    <3> QED
      BY <3>2, <3>3
  <2>6. CASE StampEnded(p) \/ Refuse(p) \/ Fail(p)
    BY <2>2, <2>6 DEF StampEnded, Refuse, Fail, Reply
  <2>7. CASE LoseCheckin(p) \/ UpsertZone(p)
    BY <2>1, <2>2, <2>7 DEF LoseCheckin, UpsertZone
  <2>8. CASE CheckDuplicate(p)
    <3>1. \/ Continue(p, NextRow(r))
          \/ Continue(p, [r EXCEPT !.step = "history", !.seen = Len(roster)])
      BY <2>1, <2>8 DEF CheckDuplicate
    <3> QED
      BY <2>2, <2>3, <3>1
  <2>9. CASE ReadHistory(p)
    <3> DEFINE f == ~Known(r.session, Current(r).callsign)
    <3>1. Continue(p, [r EXCEPT !.step = "insert", !.first = f])
      BY <2>1, <2>9 DEF ReadHistory
    <3> HIDE DEF f
    <3>2. [r EXCEPT !.step = "insert", !.first = f].step = "insert"
      BY DEF Request
    <3> QED
      BY <3>1, <3>2
  <2>10. CASE Insert(p)
    <3>1. \/ Continue(p, NextRow(r))
          \/ Continue(p, [r EXCEPT !.step = "zone", !.entry = Len(roster) + 1])
      BY <2>1, <2>10 DEF Insert
    <3> QED
      BY <2>2, <2>3, <3>1
  <2> QED
    BY <1>5, <2>4, <2>5, <2>6, <2>7, <2>8, <2>9, <2>10 DEF Begin, Proceed
<1>6. CASE Edit \/ UNCHANGED vars
  <2>1. req' = req
    BY <1>6 DEF Edit, StartSession, EndSession, DeleteSession, SignOn, DeleteCheckin,
       UpdateZone, DeleteZone, vars
  <2> QED
    BY <1>2, <2>1
<1> QED
  BY <1>3, <1>4, <1>5, <1>6 DEF Next

-----------------------------------------------------------------------------
LEMMA ZoneNext == ZoneInv /\ [Next]_vars => ZoneInv'
<1> SUFFICES ASSUME ZoneInv, [Next]_vars PROVE ZoneInv'
  OBVIOUS
<1>1. TypeInv' /\ Named'
  BY TypeNext, NamedNext DEF ZoneInv
<1>2. ASSUME NEW c \in Callsigns PROVE Station(c)'
  <2>1. ASSUME NEW p \in Slots, Proceed(p) PROVE Station(c)'
    BY <2>1, AsideStation, InsertStation, LoseStation, ReadZoneStation, UpsertStation,
       RefuseStation DEF Proceed
  <2>2. ASSUME NEW p \in Slots, Begin(p) \/ Fail(p) PROVE Station(c)'
    BY <2>2, AsideStation, FailStation
  <2> QED
    BY <2>1, <2>2, EditStation DEF Next
<1> QED
  BY <1>1, <1>2 DEF ZoneInv

\* However many submissions, edits by hand and failures interleave, a station that reported
\* a zone is on the zone list or about to be, and unless two of its reports were on their
\* way at once the list shows the latest (_create_checkin).
THEOREM ListFollowsRoster == Spec => []ListKeepsUp
<1>1. Init => ZoneInv
  <2> SUFFICES ASSUME Init PROVE ZoneInv
    OBVIOUS
  <2>1. /\ roster = <<>> /\ DOMAIN roster = {} /\ \A p \in Slots : req[p].step = "idle"
    BY DEF Init, Idle
  <2>2. ASSUME NEW c \in Callsigns PROVE Station(c)
    BY <2>1 DEF Station, Present, Followed, Reports, Listing
  <2> QED
    BY <2>1, <2>2, TypeInit DEF ZoneInv, Named
<1>2. ZoneInv => ListKeepsUp
  <2> SUFFICES ASSUME ZoneInv PROVE ListKeepsUp
    OBVIOUS
  <2>1. \A i \in DOMAIN roster : roster[i].callsign \in Callsigns
    BY TableFacts DEF ZoneInv, TypeInv, Checkin
  <2>2. ZoneIsListed
    BY <2>1 DEF ZoneInv, Station, Present, ZoneIsListed, Reports
  <2>3. ZoneFollowsRoster
    BY DEF ZoneInv, Station, Followed, ZoneFollowsRoster
  <2> QED
    BY <2>2, <2>3 DEF ListKeepsUp
<1> QED
  BY <1>1, <1>2, ZoneNext, PTL DEF Spec
=============================================================================
