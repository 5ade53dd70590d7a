-------------------------- MODULE ActivationProofs --------------------------
(***************************************************************************)
(* Theorems about Activation, for every set of accounts, callsigns and     *)
(* slots, every repertoire of requests and every bound on the tables.      *)
(***************************************************************************)
EXTENDS Activation, TLAPS, SequenceTheorems, FiniteSetTheorems

(***************************************************************************)
(* Tables: what appending, closing and cascading do to a sequence of rows. *)
(***************************************************************************)

\* A function over 1..n is a sequence of length n.
LEMMA FunctionIsSeq ==
    ASSUME NEW S, NEW n \in Nat, NEW f \in [1..n -> S]
    PROVE  f \in Seq(S) /\ Len(f) = n /\ DOMAIN f = 1..n
BY SeqDef

\* Cascade keeps the table's length and every row outside the set.
LEMMA CascadeRows ==
    ASSUME NEW S, NEW table \in Seq(S), NEW gone,
           \A r \in S : [r EXCEPT !.live = FALSE] \in S
    PROVE  /\ Cascade(table, gone) \in Seq(S)
           /\ Len(Cascade(table, gone)) = Len(table)
           /\ DOMAIN Cascade(table, gone) = DOMAIN table
           /\ \A i \in DOMAIN table : Cascade(table, gone)[i] =
                  IF i \in gone THEN [table[i] EXCEPT !.live = FALSE] ELSE table[i]
<1>1. table \in [1..Len(table) -> S] /\ Len(table) \in Nat /\ DOMAIN table = 1..Len(table)
  BY LenProperties
<1>2. Cascade(table, gone) \in [1..Len(table) -> S]
  BY <1>1 DEF Cascade
<1> QED
  BY <1>1, <1>2, FunctionIsSeq DEF Cascade

\* Closing keeps the log's length and every row but one, which loses open.
LEMMA ClosingRows ==
    ASSUME NEW rows \in Seq(Checkin), NEW o
    PROVE  /\ Closing(rows, o) \in Seq(Checkin)
           /\ Len(Closing(rows, o)) = Len(rows)
           /\ DOMAIN Closing(rows, o) = DOMAIN rows
           /\ \A i \in DOMAIN rows : Closing(rows, o)[i] =
                  IF i = o THEN [rows[i] EXCEPT !.open = FALSE] ELSE rows[i]
<1>1. rows \in [1..Len(rows) -> Checkin] /\ Len(rows) \in Nat /\ DOMAIN rows = 1..Len(rows)
  BY LenProperties
<1>2. \A r \in Checkin : [r EXCEPT !.open = FALSE] \in Checkin
  BY DEF Checkin
<1>3. Closing(rows, o) \in [1..Len(rows) -> Checkin]
  BY <1>1, <1>2 DEF Closing
<1> QED
  BY <1>1, <1>3, FunctionIsSeq DEF Closing

(***************************************************************************)
(* Types and keys.                                                         *)
(***************************************************************************)

\* What a typed state says about its tables.
LEMMA TableFacts ==
    ASSUME TypeOK
    PROVE  /\ Len(sessions) \in Nat /\ DOMAIN sessions = 1..Len(sessions)
           /\ Len(schedules) \in Nat /\ DOMAIN schedules = 1..Len(schedules)
           /\ Len(plan) \in Nat /\ DOMAIN plan = 1..Len(plan)
           /\ Len(log) \in Nat /\ DOMAIN log = 1..Len(log)
           /\ \A s \in DOMAIN sessions : sessions[s] \in Session
           /\ \A x \in DOMAIN plan : plan[x] \in PlanRow
           /\ \A i \in DOMAIN log : log[i] \in Checkin
           /\ \A p \in Slots : req[p] \in Request
BY LenProperties, ElementOfSeq DEF TypeOK

LEMMA RowTypes ==
    /\ \A r \in Session : [r EXCEPT !.live = FALSE] \in Session
    /\ \A r \in Schedule : [r EXCEPT !.live = FALSE] \in Schedule
    /\ \A r \in PlanRow : [r EXCEPT !.live = FALSE] \in PlanRow
    /\ \A r \in Checkin : [r EXCEPT !.live = FALSE] \in Checkin
    /\ Idle \in Request
BY DEF Session, Schedule, PlanRow, Checkin, Request, Idle, Steps, Null

\* The rows clients and handlers insert.
LEMMA InsertedRows ==
    ASSUME NEW s \in Nat, NEW k \in Nat, NEW x \in Nat, NEW seen \in Nat,
           NEW c \in Callsigns,
           NEW kind \in {"net_control", "position", "shift"}
    PROVE  Planned(kind, s, k) \in PlanRow /\ Shift(s, c, x, seen) \in Checkin
BY DEF Planned, Shift, PlanRow, Checkin

\* What a step that touches one slot does to the requests.
LEMMA RequestUpdate ==
    ASSUME TypeOK, NEW p \in Slots, NEW r \in Request, Continue(p, r)
    PROVE  /\ req' \in [Slots -> Request]
           /\ \A q \in Slots : req'[q] = IF q = p THEN r ELSE req[q]
BY DEF TypeOK, Continue

IndexInv == TypeOK /\ KnownKeys

LEMMA KeysGrow ==
    ASSUME NEW r \in Request, NEW s \in Nat, NEW x \in Nat, NEW i \in Nat,
           NEW s2 \in Nat, NEW x2 \in Nat, NEW i2 \in Nat,
           s <= s2, x <= x2, i <= i2, RequestKeys(r, s, x, i)
    PROVE  RequestKeys(r, s2, x2, i2)
<1>1. r.session \in Nat /\ r.position \in Nat /\ r.outgoing \in Nat /\ r.seen \in Nat
  BY DEF Request
<1> QED
  BY <1>1 DEF RequestKeys

\* A step that writes one request keeps types and keys when the tables it
\* leaves are typed and no shorter, and the request's own keys are issued.
LEMMA IndexStep ==
    ASSUME IndexInv, NEW p \in Slots, NEW r \in Request, Continue(p, r),
           sessions' \in Seq(Session), Len(sessions) <= Len(sessions'),
           schedules' \in Seq(Schedule),
           plan' \in Seq(PlanRow), Len(plan) <= Len(plan'),
           log' \in Seq(Checkin), Len(log) <= Len(log'),
           RequestKeys(r, Len(sessions'), Len(plan'), Len(log')),
           RowKeys'
    PROVE  IndexInv'
<1>1. TypeOK /\ KnownKeys
  BY DEF IndexInv
<1>2. req' \in [Slots -> Request] /\ \A q \in Slots : req'[q] = IF q = p THEN r ELSE req[q]
  BY <1>1, RequestUpdate
<1>3. Len(sessions') \in Nat /\ Len(plan') \in Nat /\ Len(log') \in Nat
  BY LenProperties
<1>4. ASSUME NEW q \in Slots
      PROVE  RequestKeys(req[q], Len(sessions'), Len(plan'), Len(log'))
  BY <1>1, <1>3, TableFacts, KeysGrow DEF KnownKeys
<1>5. \A q \in Slots : RequestKeys(req'[q], Len(sessions'), Len(plan'), Len(log'))
  BY <1>2, <1>4
<1>6. TypeOK'
  BY <1>2 DEF TypeOK
<1>7. KnownKeys'
  BY <1>5 DEF KnownKeys
<1> QED
  BY <1>6, <1>7 DEF IndexInv

\* The same for a step that leaves the tables alone.
LEMMA IndexRequestOnly ==
    ASSUME IndexInv, NEW p \in Slots, NEW r \in Request, Continue(p, r),
           UNCHANGED <<sessions, schedules, plan, log>>,
           RequestKeys(r, Len(sessions), Len(plan), Len(log))
    PROVE  IndexInv'
<1>1. RowKeys'
  BY DEF IndexInv, KnownKeys, RowKeys
<1> QED
  BY <1>1, IndexStep, TableFacts DEF IndexInv, TypeOK

LEMMA IdleKeys ==
    ASSUME TypeOK
    PROVE  RequestKeys(Idle, Len(sessions), Len(plan), Len(log))
BY TableFacts DEF RequestKeys, Idle, Null

LEMMA RowsUntouched ==
    ASSUME IndexInv, plan' = plan, log' = log,
           Len(sessions') \in Nat, Len(sessions) <= Len(sessions')
    PROVE  RowKeys'
<1>1. TypeOK /\ RowKeys
  BY DEF IndexInv, KnownKeys
<1>2. Len(sessions) \in Nat
  BY <1>1, TableFacts
<1>3. \A x \in DOMAIN plan : plan[x].session \in Nat
  BY <1>1, TableFacts DEF PlanRow
<1>4. \A i \in DOMAIN log : log[i].session \in Nat
  BY <1>1, TableFacts DEF Checkin
<1> QED
  BY <1>1, <1>2, <1>3, <1>4 DEF RowKeys

LEMMA IndexStartSession ==
    ASSUME IndexInv, NEW p \in Slots, NEW offline \in BOOLEAN,
           NEW duty \in Callsigns \cup {NoCallsign}, NEW k \in DOMAIN schedules \cup {Null},
           StartSession(p, offline, duty, k)
    PROVE  IndexInv'
<1> DEFINE row == [live |-> TRUE, ended |-> FALSE, offline |-> offline, locked |-> FALSE]
           step == IF offline THEN "stamp" ELSE "net_control"
           r == [Idle EXCEPT !.step = step, !.session = Len(sessions) + 1,
                             !.callsign = duty, !.schedule = k]
<1>1. TypeOK /\ KnownKeys
  BY DEF IndexInv
<1>2. k \in Nat /\ Len(sessions) + 1 \in Nat
  BY <1>1, TableFacts DEF Null
<1>3. row \in Session
  BY DEF Session
<1>4. /\ sessions' \in Seq(Session)
      /\ Len(sessions') = Len(sessions) + 1
  BY <1>1, <1>3, AppendProperties DEF StartSession, TypeOK
<1>5. step \in Steps
  BY DEF Steps
<1>6. r \in Request
  <2> HIDE DEF step
  <2> QED BY <1>2, <1>5 DEF Request, Idle, Null
<1>7. RequestKeys(r, Len(sessions'), Len(plan'), Len(log'))
  BY <1>1, <1>2, <1>4, TableFacts DEF StartSession, RequestKeys, Idle, Null
<1>8. RowKeys'
  BY <1>1, <1>2, <1>4, TableFacts, RowsUntouched DEF StartSession
<1>9. /\ schedules' = schedules /\ plan' = plan /\ log' = log
      /\ Continue(p, r)
  BY DEF StartSession
<1> HIDE DEF r
<1> QED
  BY <1>1, <1>4, <1>6, <1>7, <1>8, <1>9, TableFacts, IndexStep DEF TypeOK

\* The members of a schedule are finitely many.
LEMMA MembersCounted ==
    ASSUME TypeOK, NEW k, NEW kinds
    PROVE  Cardinality(Members(k, kinds)) \in Nat
<1>1. IsFiniteSet(1..Len(plan))
  BY TableFacts, FS_Interval
<1>2. Members(k, kinds) \subseteq 1..Len(plan)
  BY TableFacts DEF Members
<1> QED
  BY <1>1, <1>2, FS_Subset, FS_CardinalityType

\* Copies are live rows of the session and of no schedule.
LEMMA CopiesRows ==
    \A kind \in {"position", "shift"}, s \in Nat, n \in Nat :
        /\ Copies(kind, s, n) \in Seq(PlanRow) /\ Len(Copies(kind, s, n)) = n
        /\ \A i \in 1..n : Copies(kind, s, n)[i] = Planned(kind, s, Null)
        /\ \A i \in 1..n : Copies(kind, s, n)[i].session = s
<1> TAKE kind \in {"position", "shift"}, s \in Nat, n \in Nat
<1>1. Planned(kind, s, Null) \in PlanRow /\ Planned(kind, s, Null).session = s
  BY DEF Planned, PlanRow, Null
<1>2. Copies(kind, s, n) \in [1..n -> PlanRow]
  BY <1>1 DEF Copies
<1>3. \A i \in 1..n : Copies(kind, s, n)[i] = Planned(kind, s, Null)
  BY DEF Copies
<1> QED
  BY <1>1, <1>2, <1>3, FunctionIsSeq

LEMMA IndexReply ==
    ASSUME IndexInv, NEW p \in Slots, Reply(p), UNCHANGED <<sessions, schedules, plan, log>>
    PROVE  IndexInv'
BY RowTypes, IdleKeys, IndexRequestOnly DEF Reply, IndexInv

LEMMA IndexStampEnded ==
    ASSUME IndexInv, NEW p \in Slots, StampEnded(p)
    PROVE  IndexInv'
<1> DEFINE r == [req[p] EXCEPT !.step = "net_control"]
<1>1. TypeOK /\ KnownKeys /\ req[p] \in Request /\ At(p, "stamp")
  BY TableFacts DEF IndexInv, StampEnded
<1>2. req[p].session \in 1..Len(sessions) /\ sessions[req[p].session] \in Session
  BY <1>1, TableFacts DEF StampEnded, Writable, Live
<1>3. [sessions[req[p].session] EXCEPT !.ended = TRUE] \in Session
  BY <1>2 DEF Session
<1>4. sessions' = [sessions EXCEPT ![req[p].session] = [sessions[req[p].session] EXCEPT !.ended = TRUE]]
  BY DEF StampEnded
<1>5. sessions' \in Seq(Session) /\ Len(sessions') = Len(sessions)
  BY <1>1, <1>2, <1>3, <1>4, ExceptSeq DEF TypeOK
<1>6. r \in Request
  BY <1>1 DEF Request, Steps
<1>7. UNCHANGED <<schedules, plan, log>> /\ Continue(p, r)
  BY DEF StampEnded
<1>8. RequestKeys(req[p], Len(sessions), Len(plan), Len(log))
  BY <1>1 DEF KnownKeys
<1>9. RequestKeys(r, Len(sessions'), Len(plan'), Len(log'))
  BY <1>1, <1>5, <1>7, <1>8 DEF RequestKeys, Request
<1>10. RowKeys'
  BY <1>1, <1>5, <1>7, TableFacts, RowsUntouched
<1> HIDE DEF r
<1> QED
  BY <1>1, <1>5, <1>6, <1>7, <1>9, <1>10, TableFacts, IndexStep DEF TypeOK

\* Rows that were there keep their keys or lose their position; what is added
\* refers to keys already issued.
LEMMA RowKeysStep ==
    ASSUME IndexInv,
           Len(sessions') \in Nat, Len(sessions) <= Len(sessions'),
           plan' \in Seq(PlanRow), Len(plan) <= Len(plan'), log' \in Seq(Checkin),
           \A x \in DOMAIN plan' :
               \/ x \in DOMAIN plan /\ plan'[x].session = plan[x].session
               \/ plan'[x].session <= Len(sessions'),
           \A i \in DOMAIN log' :
               \/ /\ i \in DOMAIN log
                  /\ log'[i].session = log[i].session /\ log'[i].seen = log[i].seen
                  /\ log'[i].position \in {log[i].position, Null}
               \/ /\ log'[i].session <= Len(sessions')
                  /\ log'[i].position <= Len(plan') /\ log'[i].seen < i
    PROVE  RowKeys'
<1>1. TypeOK /\ RowKeys
  BY DEF IndexInv, KnownKeys
<1>2. Len(sessions) \in Nat /\ Len(plan) \in Nat /\ Len(plan') \in Nat
  BY <1>1, TableFacts, LenProperties
<1>3. ASSUME NEW x \in DOMAIN plan'
      PROVE  plan'[x].session <= Len(sessions')
  <2>1. CASE x \in DOMAIN plan /\ plan'[x].session = plan[x].session
    <3>1. plan[x].session \in Nat /\ plan[x].session <= Len(sessions)
      BY <1>1, <2>1, TableFacts DEF PlanRow, RowKeys
    <3> QED
      BY <1>2, <2>1, <3>1
  <2> QED
    BY <1>3, <2>1
<1>4. ASSUME NEW i \in DOMAIN log'
      PROVE  /\ log'[i].session <= Len(sessions')
             /\ log'[i].position <= Len(plan') /\ log'[i].seen < i
  <2>1. CASE /\ i \in DOMAIN log
             /\ log'[i].session = log[i].session /\ log'[i].seen = log[i].seen
             /\ log'[i].position \in {log[i].position, Null}
    <3>1. /\ log[i].session \in Nat /\ log[i].session <= Len(sessions)
          /\ log[i].position \in Nat /\ log[i].position <= Len(plan)
          /\ log[i].seen < i
      BY <1>1, <2>1, TableFacts DEF Checkin, RowKeys
    <3> QED
      BY <1>2, <2>1, <3>1 DEF Null
  <2> QED
    BY <1>4, <2>1
<1> QED
  BY <1>3, <1>4 DEF RowKeys

LEMMA AfterDutyShape ==
    ASSUME NEW r \in Request, NEW s \in Nat, NEW x \in Nat, NEW i \in Nat,
           RequestKeys(r, s, x, i)
    PROVE  AfterDuty(r) \in Request /\ RequestKeys(AfterDuty(r), s, x, i)
<1>1. CASE r.schedule = Null
  BY <1>1, RowTypes DEF AfterDuty, RequestKeys, Idle, Null
<1>2. CASE r.schedule # Null
  <2> DEFINE r2 == [r EXCEPT !.step = "templates", !.position = Null,
                            !.callsign = NoCallsign, !.seen = 0]
  <2>1. r2 \in Request
    BY DEF Request, Steps, Null
  <2>2. RequestKeys(r2, s, x, i)
    BY DEF Request, RequestKeys, Null
  <2>3. AfterDuty(r) = r2
    BY <1>2 DEF AfterDuty
  <2> QED
    BY <2>1, <2>2, <2>3
<1> QED
  BY <1>1, <1>2

LEMMA IndexCreateNetControl ==
    ASSUME IndexInv, NEW p \in Slots, CreateNetControl(p)
    PROVE  IndexInv'
<1> DEFINE r1 == [req[p] EXCEPT !.position = Len(plan) + 1, !.seen = Len(log)]
           r2 == [r1 EXCEPT !.step = "duty"]
           r  == IF r1.callsign = NoCallsign THEN AfterDuty(r1) ELSE r2
           row == Planned("net_control", req[p].session, Null)
<1>1. TypeOK /\ KnownKeys /\ req[p] \in Request /\ At(p, "net_control")
  BY TableFacts DEF IndexInv, CreateNetControl
<1>2. /\ Len(plan) \in Nat /\ Len(log) \in Nat /\ Len(sessions) \in Nat
      /\ Len(plan) + 1 \in Nat
  BY <1>1, TableFacts
<1>3. req[p].session \in Nat /\ req[p].session <= Len(sessions) /\ req[p].outgoing <= Len(log)
  BY <1>1 DEF KnownKeys, RequestKeys, Request
<1>4. row \in PlanRow /\ row.session = req[p].session
  BY <1>3 DEF Planned, PlanRow, Null
<1>5. UNCHANGED <<sessions, schedules, log>> /\ plan' = Append(plan, row) /\ Continue(p, r)
  BY DEF CreateNetControl
<1>6. /\ plan' \in Seq(PlanRow) /\ Len(plan') = Len(plan) + 1
      /\ \A x \in 1..Len(plan) : plan'[x] = plan[x]
      /\ plan'[Len(plan) + 1] = row
      /\ DOMAIN plan' = 1..(Len(plan) + 1)
  BY <1>1, <1>4, <1>5, AppendProperties, LenProperties DEF TypeOK
<1>7. /\ r1 \in Request /\ r1.session = req[p].session /\ r1.outgoing = req[p].outgoing
      /\ r1.position = Len(plan) + 1 /\ r1.seen = Len(log) /\ r1.callsign = req[p].callsign
      /\ r1.step = "net_control"
  <2>1. r1 \in Request
    BY <1>1, <1>2 DEF Request
  <2> QED
    BY <1>1, <2>1 DEF Request, At
<1>8. RequestKeys(r1, Len(sessions), Len(plan) + 1, Len(log))
  BY <1>2, <1>3, <1>7 DEF RequestKeys
<1>9. r2 \in Request /\ (r1.callsign # NoCallsign => RequestKeys(r2, Len(sessions), Len(plan) + 1, Len(log)))
  <2> HIDE DEF r1
  <2> QED BY <1>7, <1>8 DEF Request, RequestKeys, Steps
<1>10. r \in Request /\ RequestKeys(r, Len(sessions), Len(plan) + 1, Len(log))
  <2> HIDE DEF r1, r2
  <2>1. AfterDuty(r1) \in Request /\ RequestKeys(AfterDuty(r1), Len(sessions), Len(plan) + 1, Len(log))
    BY <1>2, <1>7, <1>8, AfterDutyShape
  <2> QED
    BY <1>9, <2>1
<1> HIDE DEF r, row
<1>11. RowKeys'
  <2>1. \A x \in DOMAIN plan' :
            \/ x \in DOMAIN plan /\ plan'[x].session = plan[x].session
            \/ plan'[x].session <= Len(sessions')
    BY <1>1, <1>2, <1>3, <1>4, <1>5, <1>6, TableFacts
  <2>2. \A i \in DOMAIN log' :
               /\ i \in DOMAIN log
               /\ log'[i].session = log[i].session /\ log'[i].seen = log[i].seen
               /\ log'[i].position \in {log[i].position, Null}
    BY <1>5
  <2> QED
    BY <1>1, <1>2, <1>5, <1>6, <2>1, <2>2, RowKeysStep DEF TypeOK
<1> QED
  BY <1>1, <1>2, <1>5, <1>6, <1>10, <1>11, IndexStep DEF TypeOK

\* A new check-in at the end of a log that may have had one row closed.
LEMMA LogAppended ==
    ASSUME IndexInv, NEW rows \in Seq(Checkin), Len(rows) = Len(log),
           \A i \in DOMAIN log : /\ rows[i].session = log[i].session
                                /\ rows[i].position = log[i].position
                                /\ rows[i].seen = log[i].seen,
           NEW row \in Checkin, row.session <= Len(sessions),
           row.position <= Len(plan), row.seen <= Len(log),
           UNCHANGED <<sessions, plan>>, log' = Append(rows, row)
    PROVE  /\ log' \in Seq(Checkin) /\ Len(log') = Len(log) + 1
           /\ RowKeys'
<1>1. TypeOK /\ Len(log) \in Nat /\ DOMAIN log = 1..Len(log) /\ Len(sessions) \in Nat
      /\ Len(plan) \in Nat
  BY TableFacts DEF IndexInv
<1>2. log' \in Seq(Checkin) /\ Len(log') = Len(log) + 1
  BY AppendProperties
<1>3. DOMAIN log' = 1..(Len(log) + 1)
  BY <1>2, LenProperties
<1>4. \A i \in 1..Len(log) : log'[i] = rows[i]
  BY AppendProperties
<1>5. log'[Len(log) + 1] = row
  BY AppendProperties
<1>6. row.seen \in Nat
  BY DEF Checkin
<1>7. ASSUME NEW i \in DOMAIN log'
      PROVE  \/ /\ i \in DOMAIN log
                /\ log'[i].session = log[i].session /\ log'[i].seen = log[i].seen
                /\ log'[i].position \in {log[i].position, Null}
             \/ /\ log'[i].session <= Len(sessions')
                /\ log'[i].position <= Len(plan') /\ log'[i].seen < i
  <2>1. CASE i \in 1..Len(log)
    BY <1>1, <1>4, <2>1
  <2>2. CASE i = Len(log) + 1
    BY <1>1, <1>5, <1>6, <2>2
  <2> QED
    BY <1>1, <1>3, <2>1, <2>2
<1>8. RowKeys'
  BY <1>1, <1>2, <1>7, RowKeysStep DEF TypeOK
<1> QED
  BY <1>2, <1>8

LEMMA IndexSignOnDuty ==
    ASSUME IndexInv, NEW p \in Slots, SignOnDuty(p)
    PROVE  IndexInv'
<1> DEFINE r == req[p]
           row == Shift(r.session, r.callsign, r.position, r.seen)
<1>1. TypeOK /\ KnownKeys /\ r \in Request /\ r.step = "duty"
  BY TableFacts DEF IndexInv, SignOnDuty, At
<1>2. /\ r.session \in Nat /\ r.position \in Nat /\ r.seen \in Nat
      /\ r.callsign \in Callsigns
      /\ RequestKeys(r, Len(sessions), Len(plan), Len(log))
  BY <1>1 DEF KnownKeys, RequestKeys, Request
<1>3. row \in Checkin /\ row.session = r.session /\ row.position = r.position /\ row.seen = r.seen
  BY <1>2 DEF Shift, Checkin
<1>4. UNCHANGED <<sessions, schedules, plan>> /\ Continue(p, AfterDuty(r)) /\ log' = Append(log, row)
  BY DEF SignOnDuty
<1>5. /\ log' \in Seq(Checkin) /\ Len(log') = Len(log) + 1
      /\ RowKeys'
  BY <1>1, <1>2, <1>3, <1>4, LogAppended DEF RequestKeys, TypeOK
<1>6. /\ Len(sessions) \in Nat /\ Len(plan) \in Nat /\ Len(log) \in Nat
      /\ Len(log) + 1 \in Nat
  BY <1>1, TableFacts
<1>7. RequestKeys(r, Len(sessions), Len(plan), Len(log) + 1)
  <2>1. Len(sessions) <= Len(sessions) /\ Len(plan) <= Len(plan) /\ Len(log) <= Len(log) + 1
    BY <1>6
  <2> HIDE DEF r
  <2> QED
    BY <1>1, <1>2, <1>6, <2>1, KeysGrow
<1>8. /\ AfterDuty(r) \in Request
      /\ RequestKeys(AfterDuty(r), Len(sessions), Len(plan), Len(log) + 1)
  BY <1>1, <1>6, <1>7, AfterDutyShape
<1> QED
  BY <1>1, <1>4, <1>5, <1>6, <1>8, IndexStep DEF TypeOK

LEMMA IndexReadTemplates ==
    ASSUME IndexInv, NEW p \in Slots, ReadTemplates(p)
    PROVE  IndexInv'
<1> DEFINE n == Cardinality(Members(req[p].schedule, {"position"}))
           r == [req[p] EXCEPT !.step = "copy", !.copies = n]
<1>1. TypeOK /\ KnownKeys /\ req[p] \in Request
  BY TableFacts DEF IndexInv
<1>2. n \in Nat
  BY <1>1, MembersCounted
<1>3. r \in Request /\ RequestKeys(r, Len(sessions), Len(plan), Len(log))
  <2> HIDE DEF n
  <2> QED BY <1>1, <1>2 DEF KnownKeys, Request, RequestKeys, Steps
<1> QED
  BY <1>3, IndexRequestOnly DEF ReadTemplates

LEMMA IndexCopyTemplates ==
    ASSUME IndexInv, NEW p \in Slots, CopyTemplates(p)
    PROVE  IndexInv'
<1> DEFINE r == req[p]
           n == Cardinality(Members(r.schedule, {"shift"}))
           a == Copies("position", r.session, r.copies)
           b == Copies("shift", r.session, n)
<1>1. TypeOK /\ KnownKeys /\ r \in Request
  BY TableFacts DEF IndexInv
<1>2. /\ r.session \in Nat /\ r.copies \in Nat /\ n \in Nat
      /\ r.session <= Len(sessions)
  BY <1>1, MembersCounted DEF Request, KnownKeys, RequestKeys
<1>3. /\ a \in Seq(PlanRow) /\ Len(a) = r.copies
      /\ \A i \in 1..Len(a) : a[i].session = r.session
  <2> HIDE DEF r
  <2>1. "position" \in {"position", "shift"}
    OBVIOUS
  <2>2. a \in Seq(PlanRow) /\ Len(a) = r.copies
    BY <1>2, <2>1, CopiesRows
  <2>3. \A i \in 1..r.copies : a[i].session = r.session
    BY <1>2, <2>1, CopiesRows
  <2> QED
    BY <2>2, <2>3
<1>4. /\ b \in Seq(PlanRow) /\ Len(b) = n
      /\ \A i \in 1..Len(b) : b[i].session = r.session
  <2> HIDE DEF r, n
  <2>1. "shift" \in {"position", "shift"}
    OBVIOUS
  <2>2. b \in Seq(PlanRow) /\ Len(b) = n
    BY <1>2, <2>1, CopiesRows
  <2>3. \A i \in 1..n : b[i].session = r.session
    BY <1>2, <2>1, CopiesRows
  <2> QED
    BY <2>2, <2>3
<1>5. UNCHANGED <<sessions, schedules, log>> /\ plan' = (plan \o a) \o b /\ Reply(p)
  BY DEF CopyTemplates
<1> HIDE DEF a, b, n
<1>6. /\ plan \o a \in Seq(PlanRow) /\ Len(plan \o a) = Len(plan) + Len(a)
      /\ \A i \in 1..(Len(plan) + Len(a)) : (plan \o a)[i] =
             IF i <= Len(plan) THEN plan[i] ELSE a[i - Len(plan)]
  BY <1>1, <1>3, ConcatProperties DEF TypeOK
<1>7. /\ plan' \in Seq(PlanRow) /\ Len(plan') = Len(plan) + Len(a) + Len(b)
      /\ \A i \in 1..(Len(plan \o a) + Len(b)) : plan'[i] =
             IF i <= Len(plan \o a) THEN (plan \o a)[i] ELSE b[i - Len(plan \o a)]
  BY <1>4, <1>5, <1>6, ConcatProperties
<1>8. /\ Len(plan) \in Nat /\ Len(a) \in Nat /\ Len(b) \in Nat /\ Len(log) \in Nat
      /\ Len(sessions) \in Nat /\ DOMAIN plan' = 1..(Len(plan) + Len(a) + Len(b))
      /\ DOMAIN plan = 1..Len(plan)
  BY <1>1, <1>3, <1>4, <1>7, TableFacts, LenProperties
<1>9. ASSUME NEW x \in DOMAIN plan'
      PROVE  \/ x \in DOMAIN plan /\ plan'[x].session = plan[x].session
             \/ plan'[x].session <= Len(sessions')
  <2>1. CASE x \in 1..Len(plan)
    BY <1>6, <1>7, <1>8, <2>1
  <2>2. CASE x \in (Len(plan) + 1)..(Len(plan) + Len(a))
    <3>1. plan'[x] = a[x - Len(plan)] /\ x - Len(plan) \in 1..Len(a)
      BY <1>6, <1>7, <1>8, <2>2
    <3> QED
      BY <1>2, <1>3, <1>5, <3>1
  <2>3. CASE x \in (Len(plan) + Len(a) + 1)..(Len(plan) + Len(a) + Len(b))
    <3>1. plan'[x] = b[x - Len(plan \o a)] /\ x - Len(plan \o a) \in 1..Len(b)
      BY <1>6, <1>7, <1>8, <2>3
    <3> QED
      BY <1>2, <1>4, <1>5, <3>1
  <2> QED
    BY <1>8, <1>9, <2>1, <2>2, <2>3
<1>10. RowKeys'
  BY <1>1, <1>5, <1>7, <1>8, <1>9, RowKeysStep DEF TypeOK
<1>11. RequestKeys(Idle, Len(sessions'), Len(plan'), Len(log'))
  BY <1>1, <1>5, <1>7, <1>8 DEF RequestKeys, Idle, Null
<1> QED
  BY <1>1, <1>5, <1>7, <1>8, <1>10, <1>11, RowTypes, IndexStep DEF Reply, TypeOK

LEMMA IndexBeginSignOn ==
    ASSUME IndexInv, NEW p \in Slots, NEW u \in Users, NEW x \in DOMAIN plan,
           NEW c \in Callsigns, BeginSignOn(p, u, x, c)
    PROVE  IndexInv'
<1> DEFINE r == [Idle EXCEPT !.step = "occupant", !.user = u, !.session = plan[x].session,
                             !.position = x, !.callsign = c]
<1>1. TypeOK /\ KnownKeys /\ RowKeys
  BY DEF IndexInv, KnownKeys
<1>2. /\ x \in Nat /\ x <= Len(plan)
      /\ plan[x].session \in Nat /\ plan[x].session <= Len(sessions)
      /\ Len(log) \in Nat
  BY <1>1, TableFacts DEF RowKeys, PlanRow
<1>3. r \in Request
  BY <1>2 DEF Request, Idle, Null, Steps
<1>4. RequestKeys(r, Len(sessions), Len(plan), Len(log))
  BY <1>2 DEF RequestKeys, Idle, Null
<1>5. Continue(p, r) /\ UNCHANGED <<sessions, schedules, plan, log>>
  BY DEF BeginSignOn
<1> HIDE DEF r
<1> QED
  BY <1>3, <1>4, <1>5, IndexRequestOnly

\* The occupant of a position is a row of the log, or nobody.
LEMMA OccupantRange ==
    ASSUME TypeOK, NEW x, NEW outgoing \in OpenRows(x) \cup {Null}
    PROVE  outgoing \in Nat /\ outgoing <= Len(log)
BY TableFacts DEF OpenRows, Null

LEMMA IndexReadOccupant ==
    ASSUME IndexInv, NEW p \in Slots, ReadOccupant(p)
    PROVE  IndexInv'
<1>1. TypeOK /\ KnownKeys /\ req[p] \in Request /\ req[p].step = "occupant"
  BY TableFacts DEF IndexInv, ReadOccupant, At
<1>2. PICK outgoing \in OpenRows(req[p].position) \cup {Null} :
         IF MaySignOn(req[p].user, req[p].callsign, outgoing)
         THEN Continue(p, [req[p] EXCEPT !.step = "sign_on", !.outgoing = outgoing,
                                         !.seen = Len(log)])
         ELSE Reply(p)
  BY DEF ReadOccupant
<1> DEFINE r == [req[p] EXCEPT !.step = "sign_on", !.outgoing = outgoing, !.seen = Len(log)]
<1>3. outgoing \in Nat /\ outgoing <= Len(log) /\ Len(log) \in Nat
  BY <1>1, OccupantRange, TableFacts
<1>4. r \in Request
  BY <1>1, <1>3 DEF Request, Steps
<1>5. RequestKeys(req[p], Len(sessions), Len(plan), Len(log))
  BY <1>1 DEF KnownKeys
<1>6. RequestKeys(r, Len(sessions), Len(plan), Len(log))
  BY <1>1, <1>3, <1>5 DEF RequestKeys, Request
<1>7. UNCHANGED <<sessions, schedules, plan, log>>
  BY DEF ReadOccupant
<1>8. CASE Continue(p, r)
  <2> HIDE DEF r
  <2> QED BY <1>4, <1>6, <1>7, <1>8, IndexRequestOnly
<1>9. CASE Reply(p)
  BY <1>7, <1>9, IndexReply
<1> QED
  BY <1>2, <1>8, <1>9

LEMMA IndexSignOn ==
    ASSUME IndexInv, NEW p \in Slots, SignOn(p)
    PROVE  IndexInv'
<1> DEFINE r == req[p]
           row == Shift(r.session, r.callsign, r.position, r.seen)
           rows == Closing(log, r.outgoing)
<1>1. TypeOK /\ KnownKeys /\ r \in Request /\ r.step = "sign_on" /\ log \in Seq(Checkin)
  BY TableFacts DEF IndexInv, SignOn, At, TypeOK
<1>2. /\ r.session \in Nat /\ r.position \in Nat /\ r.seen \in Nat
      /\ r.callsign \in Callsigns
      /\ RequestKeys(r, Len(sessions), Len(plan), Len(log))
  BY <1>1 DEF KnownKeys, RequestKeys, Request
<1>3. row \in Checkin /\ row.session = r.session /\ row.position = r.position /\ row.seen = r.seen
  BY <1>2 DEF Shift, Checkin
<1>4. UNCHANGED <<sessions, schedules, plan>> /\ Reply(p) /\ log' = Append(rows, row)
  BY DEF SignOn
<1>5. rows \in Seq(Checkin) /\ Len(rows) = Len(log)
  BY <1>1, ClosingRows
<1>6. \A i \in DOMAIN log : /\ rows[i].session = log[i].session
                            /\ rows[i].position = log[i].position
                            /\ rows[i].seen = log[i].seen
  <2>1. \A i \in DOMAIN log : rows[i] =
            IF i = r.outgoing THEN [log[i] EXCEPT !.open = FALSE] ELSE log[i]
    BY <1>1, ClosingRows
  <2>2. \A i \in DOMAIN log : log[i] \in Checkin
    BY <1>1, TableFacts
  <2> HIDE DEF rows, r
  <2> QED
    BY <2>1, <2>2 DEF Checkin
<1>7. row.session <= Len(sessions) /\ row.position <= Len(plan) /\ row.seen <= Len(log)
  BY <1>2, <1>3 DEF RequestKeys
<1> HIDE DEF rows, row
<1>8. /\ log' \in Seq(Checkin) /\ Len(log') = Len(log) + 1
      /\ RowKeys'
  BY <1>3, <1>4, <1>5, <1>6, <1>7, LogAppended
<1>9. /\ Len(sessions) \in Nat /\ Len(plan) \in Nat /\ Len(log) \in Nat
  BY <1>1, TableFacts
<1>10. RequestKeys(Idle, Len(sessions), Len(plan), Len(log) + 1)
  BY <1>9 DEF RequestKeys, Idle, Null
<1> QED
  BY <1>1, <1>4, <1>8, <1>9, <1>10, RowTypes, IndexStep DEF Reply, TypeOK

LEMMA IndexBeginSignOff ==
    ASSUME IndexInv, NEW p \in Slots, NEW u \in Users, NEW x \in DOMAIN plan,
           BeginSignOff(p, u, x)
    PROVE  IndexInv'
<1>1. TypeOK /\ KnownKeys /\ RowKeys
  BY DEF IndexInv, KnownKeys
<1>2. PICK o \in OpenRows(x) :
         Continue(p, [Idle EXCEPT !.step = "sign_off", !.user = u,
                                  !.session = log[o].session, !.outgoing = o])
  BY DEF BeginSignOff
<1> DEFINE r == [Idle EXCEPT !.step = "sign_off", !.user = u,
                             !.session = log[o].session, !.outgoing = o]
<1>3. /\ o \in DOMAIN log /\ o \in Nat /\ o <= Len(log)
      /\ Len(log) \in Nat /\ Len(plan) \in Nat
  BY <1>1, OccupantRange, TableFacts DEF OpenRows
<1>4. log[o].session \in Nat /\ log[o].session <= Len(sessions)
  BY <1>1, <1>3, TableFacts DEF RowKeys, Checkin
<1>5. r \in Request
  BY <1>3, <1>4 DEF Request, Idle, Null, Steps
<1>6. RequestKeys(r, Len(sessions), Len(plan), Len(log))
  BY <1>3, <1>4 DEF RequestKeys, Idle, Null
<1>7. UNCHANGED <<sessions, schedules, plan, log>>
  BY DEF BeginSignOff
<1> HIDE DEF r
<1> QED
  BY <1>2, <1>5, <1>6, <1>7, IndexRequestOnly DEF r

LEMMA IndexSignOff ==
    ASSUME IndexInv, NEW p \in Slots, SignOff(p)
    PROVE  IndexInv'
<1> DEFINE o == req[p].outgoing
<1>1. TypeOK /\ log \in Seq(Checkin) /\ \A i \in DOMAIN log : log[i] \in Checkin
  BY TableFacts DEF IndexInv, TypeOK
<1>2. UNCHANGED <<sessions, schedules, plan>> /\ Reply(p) /\ log' = Closing(log, o)
  BY DEF SignOff
<1> HIDE DEF o
<1>3. /\ log' \in Seq(Checkin) /\ Len(log') = Len(log) /\ DOMAIN log' = DOMAIN log
      /\ \A i \in DOMAIN log : log'[i] =
             IF i = o THEN [log[i] EXCEPT !.open = FALSE] ELSE log[i]
  BY <1>1, <1>2, ClosingRows
<1>4. \A i \in DOMAIN log' :
          /\ i \in DOMAIN log
          /\ log'[i].session = log[i].session /\ log'[i].seen = log[i].seen
          /\ log'[i].position \in {log[i].position, Null}
  BY <1>1, <1>3 DEF Checkin
<1>5. /\ Len(sessions) \in Nat /\ Len(plan) \in Nat /\ Len(log) \in Nat
      /\ plan \in Seq(PlanRow)
  BY <1>1, TableFacts DEF TypeOK
<1>6. RowKeys'
  BY <1>2, <1>3, <1>4, <1>5, RowKeysStep
<1>7. RequestKeys(Idle, Len(sessions), Len(plan), Len(log))
  BY <1>1, IdleKeys
<1> QED
  BY <1>1, <1>2, <1>3, <1>5, <1>6, <1>7, RowTypes, IndexStep DEF Reply, TypeOK

LEMMA IndexBeginEnd ==
    ASSUME IndexInv, NEW p \in Slots, NEW s \in DOMAIN sessions, BeginEnd(p, s)
    PROVE  IndexInv'
<1> DEFINE r == [Idle EXCEPT !.step = "end", !.session = s]
<1>1. /\ s \in Nat /\ s <= Len(sessions)
      /\ Len(plan) \in Nat /\ Len(log) \in Nat
  BY TableFacts DEF IndexInv
<1>2. r \in Request
  BY <1>1 DEF Request, Idle, Null, Steps
<1>3. RequestKeys(r, Len(sessions), Len(plan), Len(log))
  BY <1>1 DEF RequestKeys, Idle, Null
<1>4. Continue(p, r) /\ UNCHANGED <<sessions, schedules, plan, log>>
  BY DEF BeginEnd
<1> HIDE DEF r
<1> QED
  BY <1>2, <1>3, <1>4, IndexRequestOnly

LEMMA IndexEndSession ==
    ASSUME IndexInv, NEW p \in Slots, EndSession(p)
    PROVE  IndexInv'
<1> DEFINE s == req[p].session
           row == IF sessions[s].offline THEN [sessions[s] EXCEPT !.locked = TRUE]
                  ELSE [sessions[s] EXCEPT !.ended = TRUE]
<1>1. TypeOK /\ s \in 1..Len(sessions) /\ sessions[s] \in Session
  BY TableFacts DEF IndexInv, EndSession, Writable, Live
<1>2. row \in Session
  BY <1>1 DEF Session
<1>3. sessions' = [sessions EXCEPT ![s] = row]
  BY DEF EndSession
<1>4. UNCHANGED <<schedules, plan, log>> /\ Reply(p)
  BY DEF EndSession
<1> HIDE DEF row, s
<1>5. sessions' \in Seq(Session) /\ Len(sessions') = Len(sessions)
  BY <1>1, <1>2, <1>3, ExceptSeq DEF TypeOK
<1>6. /\ Len(sessions) \in Nat /\ Len(plan) \in Nat /\ Len(log) \in Nat
  BY <1>1, TableFacts
<1>7. RowKeys'
  BY <1>4, <1>5, <1>6, RowsUntouched
<1>8. RequestKeys(Idle, Len(sessions), Len(plan), Len(log))
  BY <1>1, IdleKeys
<1> QED
  BY <1>1, <1>4, <1>5, <1>6, <1>7, <1>8, RowTypes, IndexStep DEF Reply, TypeOK

\* A step that writes no request keeps types and keys when no table shrinks.
LEMMA IndexEdit ==
    ASSUME IndexInv, req' = req,
           sessions' \in Seq(Session), Len(sessions) <= Len(sessions'),
           schedules' \in Seq(Schedule),
           plan' \in Seq(PlanRow), Len(plan) <= Len(plan'),
           log' \in Seq(Checkin), Len(log) <= Len(log'),
           RowKeys'
    PROVE  IndexInv'
<1>1. TypeOK /\ KnownKeys
  BY DEF IndexInv
<1>2. Len(sessions') \in Nat /\ Len(plan') \in Nat /\ Len(log') \in Nat
  BY LenProperties
<1>3. ASSUME NEW q \in Slots
      PROVE  RequestKeys(req[q], Len(sessions'), Len(plan'), Len(log'))
  BY <1>1, <1>2, TableFacts, KeysGrow DEF KnownKeys
<1>4. \A q \in Slots : RequestKeys(req'[q], Len(sessions'), Len(plan'), Len(log'))
  BY <1>3
<1> QED
  BY <1>1, <1>4 DEF IndexInv, KnownKeys, TypeOK

\* What a cascade over each of the tables leaves.
LEMMA CascadedTables ==
    ASSUME TypeOK, NEW gone
    PROVE  /\ Cascade(sessions, gone) \in Seq(Session)
           /\ Len(Cascade(sessions, gone)) = Len(sessions)
           /\ Cascade(schedules, gone) \in Seq(Schedule)
           /\ Cascade(plan, gone) \in Seq(PlanRow)
           /\ Len(Cascade(plan, gone)) = Len(plan)
           /\ DOMAIN Cascade(plan, gone) = DOMAIN plan
           /\ \A x \in DOMAIN plan :
                 /\ Cascade(plan, gone)[x].session = plan[x].session
                 /\ Cascade(plan, gone)[x].schedule = plan[x].schedule
                 /\ Cascade(plan, gone)[x].kind = plan[x].kind
                 /\ Cascade(plan, gone)[x].live = (plan[x].live /\ x \notin gone)
           /\ Cascade(log, gone) \in Seq(Checkin)
           /\ Len(Cascade(log, gone)) = Len(log)
           /\ DOMAIN Cascade(log, gone) = DOMAIN log
           /\ \A i \in DOMAIN log :
                 /\ Cascade(log, gone)[i].session = log[i].session
                 /\ Cascade(log, gone)[i].position = log[i].position
                 /\ Cascade(log, gone)[i].callsign = log[i].callsign
                 /\ Cascade(log, gone)[i].open = log[i].open
                 /\ Cascade(log, gone)[i].seen = log[i].seen
                 /\ Cascade(log, gone)[i].live = (log[i].live /\ i \notin gone)
<1>1. /\ sessions \in Seq(Session) /\ schedules \in Seq(Schedule)
      /\ plan \in Seq(PlanRow) /\ log \in Seq(Checkin)
  BY DEF TypeOK
<1>2. /\ Cascade(sessions, gone) \in Seq(Session)
      /\ Len(Cascade(sessions, gone)) = Len(sessions)
  <2>1. \A r \in Session : [r EXCEPT !.live = FALSE] \in Session
    BY RowTypes
  <2> QED
    BY <1>1, <2>1, CascadeRows
<1>3. Cascade(schedules, gone) \in Seq(Schedule)
  <2>1. \A r \in Schedule : [r EXCEPT !.live = FALSE] \in Schedule
    BY RowTypes
  <2> QED
    BY <1>1, <2>1, CascadeRows
<1>4. /\ Cascade(plan, gone) \in Seq(PlanRow)
      /\ Len(Cascade(plan, gone)) = Len(plan)
      /\ DOMAIN Cascade(plan, gone) = DOMAIN plan
      /\ \A i \in DOMAIN plan : Cascade(plan, gone)[i] =
            IF i \in gone THEN [plan[i] EXCEPT !.live = FALSE] ELSE plan[i]
  <2>1. \A r \in PlanRow : [r EXCEPT !.live = FALSE] \in PlanRow
    BY RowTypes
  <2>2. /\ Cascade(plan, gone) \in Seq(PlanRow)
        /\ Len(Cascade(plan, gone)) = Len(plan)
    BY <1>1, <2>1, CascadeRows
  <2> QED
    BY <2>2 DEF Cascade
<1>5. /\ Cascade(log, gone) \in Seq(Checkin)
      /\ Len(Cascade(log, gone)) = Len(log)
      /\ DOMAIN Cascade(log, gone) = DOMAIN log
      /\ \A i \in DOMAIN log : Cascade(log, gone)[i] =
            IF i \in gone THEN [log[i] EXCEPT !.live = FALSE] ELSE log[i]
  <2>1. \A r \in Checkin : [r EXCEPT !.live = FALSE] \in Checkin
    BY RowTypes
  <2>2. /\ Cascade(log, gone) \in Seq(Checkin)
        /\ Len(Cascade(log, gone)) = Len(log)
    BY <1>1, <2>1, CascadeRows
  <2> QED
    BY <2>2 DEF Cascade
<1>6. /\ \A x \in DOMAIN plan : plan[x] \in PlanRow
      /\ \A i \in DOMAIN log : log[i] \in Checkin
  BY TableFacts
<1>7. ASSUME NEW x \in DOMAIN plan
      PROVE  /\ Cascade(plan, gone)[x].session = plan[x].session
             /\ Cascade(plan, gone)[x].schedule = plan[x].schedule
             /\ Cascade(plan, gone)[x].kind = plan[x].kind
             /\ Cascade(plan, gone)[x].live = (plan[x].live /\ x \notin gone)
  BY <1>4, <1>6 DEF PlanRow
<1>8. ASSUME NEW i \in DOMAIN log
      PROVE  /\ Cascade(log, gone)[i].session = log[i].session
             /\ Cascade(log, gone)[i].position = log[i].position
             /\ Cascade(log, gone)[i].callsign = log[i].callsign
             /\ Cascade(log, gone)[i].open = log[i].open
             /\ Cascade(log, gone)[i].seen = log[i].seen
             /\ Cascade(log, gone)[i].live = (log[i].live /\ i \notin gone)
  BY <1>5, <1>6 DEF Checkin
<1> QED
  BY <1>2, <1>3, <1>4, <1>5, <1>7, <1>8

LEMMA IndexDeleteSession ==
    ASSUME IndexInv, NEW s \in DOMAIN sessions, DeleteSession(s)
    PROVE  IndexInv'
<1> DEFINE gx == {x \in DOMAIN plan : plan[x].session = s}
           gi == {i \in DOMAIN log : log[i].session = s}
<1>1. TypeOK
  BY DEF IndexInv
<1>2. /\ sessions' = Cascade(sessions, {s}) /\ plan' = Cascade(plan, gx)
      /\ log' = Cascade(log, gi) /\ UNCHANGED <<schedules, req>>
  BY DEF DeleteSession
<1> HIDE DEF gx, gi
<1>3. /\ sessions' \in Seq(Session) /\ Len(sessions') = Len(sessions)
      /\ schedules' \in Seq(Schedule)
  BY <1>1, <1>2, CascadedTables DEF TypeOK
<1>4. /\ plan' \in Seq(PlanRow) /\ Len(plan') = Len(plan)
      /\ \A x \in DOMAIN plan' : x \in DOMAIN plan /\ plan'[x].session = plan[x].session
  BY <1>1, <1>2, CascadedTables
<1>5. /\ log' \in Seq(Checkin) /\ Len(log') = Len(log)
      /\ \A i \in DOMAIN log' :
            /\ i \in DOMAIN log
            /\ log'[i].session = log[i].session /\ log'[i].seen = log[i].seen
            /\ log'[i].position \in {log[i].position, Null}
  BY <1>1, <1>2, CascadedTables
<1>6. Len(sessions) \in Nat /\ Len(plan) \in Nat /\ Len(log) \in Nat
  BY <1>1, TableFacts
<1>7. RowKeys'
  BY <1>3, <1>4, <1>5, <1>6, RowKeysStep
<1> QED
  BY <1>2, <1>3, <1>4, <1>5, <1>6, <1>7, IndexEdit

LEMMA IndexCreateSchedule ==
    ASSUME IndexInv, CreateSchedule
    PROVE  IndexInv'
<1>1. TypeOK
  BY DEF IndexInv
<1>2. [live |-> TRUE] \in Schedule
  BY DEF Schedule
<1>3. schedules' \in Seq(Schedule)
  BY <1>1, <1>2, AppendProperties DEF CreateSchedule, TypeOK
<1>4. UNCHANGED <<sessions, plan, log, req>>
  BY DEF CreateSchedule
<1>5. Len(sessions) \in Nat /\ Len(plan) \in Nat /\ Len(log) \in Nat
  BY <1>1, TableFacts
<1>6. RowKeys'
  BY <1>4, <1>5, RowsUntouched
<1> QED
  BY <1>1, <1>3, <1>4, <1>5, <1>6, IndexEdit DEF TypeOK

LEMMA IndexDeleteSchedule ==
    ASSUME IndexInv, NEW k \in DOMAIN schedules, DeleteSchedule(k)
    PROVE  IndexInv'
<1> DEFINE gx == {x \in DOMAIN plan : plan[x].schedule = k}
<1>1. TypeOK
  BY DEF IndexInv
<1>2. /\ schedules' = Cascade(schedules, {k}) /\ plan' = Cascade(plan, gx)
      /\ UNCHANGED <<sessions, log, req>>
  BY DEF DeleteSchedule
<1> HIDE DEF gx
<1>3. schedules' \in Seq(Schedule)
  BY <1>1, <1>2, CascadedTables
<1>4. /\ plan' \in Seq(PlanRow) /\ Len(plan') = Len(plan)
      /\ \A x \in DOMAIN plan' : x \in DOMAIN plan /\ plan'[x].session = plan[x].session
  BY <1>1, <1>2, CascadedTables
<1>5. /\ Len(sessions) \in Nat /\ Len(plan) \in Nat /\ Len(log) \in Nat
      /\ sessions' \in Seq(Session) /\ log' \in Seq(Checkin)
  BY <1>1, <1>2, TableFacts DEF TypeOK
<1>6. RowKeys'
  BY <1>2, <1>4, <1>5, RowKeysStep
<1> QED
  BY <1>2, <1>3, <1>4, <1>5, <1>6, IndexEdit

\* A row added to the plan: a template member or a row of a session.
LEMMA IndexPlanned ==
    ASSUME IndexInv, NEW row \in PlanRow, row.session <= Len(sessions),
           plan' = Append(plan, row), UNCHANGED <<sessions, schedules, log, req>>
    PROVE  IndexInv'
<1>1. TypeOK
  BY DEF IndexInv
<1>2. /\ Len(sessions) \in Nat /\ Len(plan) \in Nat /\ Len(log) \in Nat
      /\ sessions' \in Seq(Session) /\ schedules' \in Seq(Schedule)
      /\ log' \in Seq(Checkin) /\ DOMAIN plan = 1..Len(plan)
  BY <1>1, TableFacts DEF TypeOK
<1>3. /\ plan' \in Seq(PlanRow) /\ Len(plan') = Len(plan) + 1
      /\ \A x \in 1..Len(plan) : plan'[x] = plan[x]
      /\ plan'[Len(plan) + 1] = row
      /\ DOMAIN plan' = 1..(Len(plan) + 1)
  BY <1>1, AppendProperties, LenProperties DEF TypeOK
<1>4. \A x \in DOMAIN plan' :
          \/ x \in DOMAIN plan /\ plan'[x].session = plan[x].session
          \/ plan'[x].session <= Len(sessions')
  BY <1>2, <1>3
<1>5. \A i \in DOMAIN log' :
            /\ i \in DOMAIN log
            /\ log'[i].session = log[i].session /\ log'[i].seen = log[i].seen
            /\ log'[i].position \in {log[i].position, Null}
  OBVIOUS
<1>6. RowKeys'
  BY <1>2, <1>3, <1>4, <1>5, RowKeysStep
<1> QED
  BY <1>2, <1>3, <1>6, IndexEdit

LEMMA IndexCreatePlanned ==
    ASSUME IndexInv, NEW kind \in {"position", "shift"},
           \/ \E k \in DOMAIN schedules : CreateMember(k, kind)
           \/ \E s \in DOMAIN sessions : CreateLive(s, kind)
    PROVE  IndexInv'
<1>1. TypeOK
  BY DEF IndexInv
<1>2. ASSUME NEW k \in DOMAIN schedules, CreateMember(k, kind)
      PROVE  IndexInv'
  <2>1. k \in Nat /\ Len(sessions) \in Nat
    BY <1>1, TableFacts
  <2>2. Planned(kind, Null, k) \in PlanRow /\ Planned(kind, Null, k).session = Null
    BY <2>1 DEF Planned, PlanRow, Null
  <2>3. Planned(kind, Null, k).session <= Len(sessions)
    BY <2>1, <2>2 DEF Null
  <2> QED
    BY <1>2, <2>2, <2>3, IndexPlanned DEF CreateMember
<1>3. ASSUME NEW s \in DOMAIN sessions, CreateLive(s, kind)
      PROVE  IndexInv'
  <2>1. s \in Nat /\ s <= Len(sessions)
    BY <1>1, TableFacts
  <2>2. Planned(kind, s, Null) \in PlanRow /\ Planned(kind, s, Null).session <= Len(sessions)
    BY <2>1 DEF Planned, PlanRow, Null
  <2> QED
    BY <1>3, <2>2, IndexPlanned DEF CreateLive
<1> QED
  BY <1>2, <1>3

LEMMA IndexDeletePlanned ==
    ASSUME IndexInv, NEW x \in DOMAIN plan, DeletePlanned(x)
    PROVE  IndexInv'
<1>1. TypeOK
  BY DEF IndexInv
<1>2. /\ plan' = Cascade(plan, {x}) /\ UNCHANGED <<sessions, schedules, req>>
      /\ log' = [i \in DOMAIN log |-> IF log[i].position = x
                                     THEN [log[i] EXCEPT !.position = Null] ELSE log[i]]
  BY DEF DeletePlanned
<1>3. /\ plan' \in Seq(PlanRow) /\ Len(plan') = Len(plan)
      /\ \A y \in DOMAIN plan' : y \in DOMAIN plan /\ plan'[y].session = plan[y].session
  BY <1>1, <1>2, CascadedTables
<1>4. /\ Len(sessions) \in Nat /\ Len(plan) \in Nat /\ Len(log) \in Nat
      /\ DOMAIN log = 1..Len(log) /\ \A i \in DOMAIN log : log[i] \in Checkin
      /\ sessions' \in Seq(Session) /\ schedules' \in Seq(Schedule)
  BY <1>1, <1>2, TableFacts DEF TypeOK
<1>5. \A i \in DOMAIN log : [log[i] EXCEPT !.position = Null] \in Checkin
  BY <1>4 DEF Checkin, Null
<1>6. log' \in [1..Len(log) -> Checkin]
  BY <1>2, <1>4, <1>5
<1>7. log' \in Seq(Checkin) /\ Len(log') = Len(log)
  BY <1>4, <1>6, FunctionIsSeq
<1>8. \A i \in DOMAIN log' :
          /\ i \in DOMAIN log
          /\ log'[i].session = log[i].session /\ log'[i].seen = log[i].seen
          /\ log'[i].position \in {log[i].position, Null}
  BY <1>2, <1>4 DEF Checkin
<1>9. sessions' = sessions /\ req' = req
  BY <1>2
<1>10. RowKeys'
  BY <1>3, <1>4, <1>7, <1>8, <1>9, RowKeysStep
<1> QED
  BY <1>3, <1>4, <1>7, <1>9, <1>10, IndexEdit

LEMMA IndexDeleteCheckin ==
    ASSUME IndexInv, NEW i \in DOMAIN log, DeleteCheckin(i)
    PROVE  IndexInv'
<1>1. TypeOK
  BY DEF IndexInv
<1>2. log' = Cascade(log, {i}) /\ UNCHANGED <<sessions, schedules, plan, req>>
  BY DEF DeleteCheckin
<1>3. /\ Len(sessions) \in Nat /\ Len(plan) \in Nat /\ Len(log) \in Nat
      /\ sessions' \in Seq(Session) /\ schedules' \in Seq(Schedule)
      /\ plan' \in Seq(PlanRow)
  BY <1>1, <1>2, TableFacts DEF TypeOK
<1>4. /\ log' \in Seq(Checkin) /\ Len(log') = Len(log)
      /\ \A j \in DOMAIN log' :
            /\ j \in DOMAIN log
            /\ log'[j].session = log[j].session /\ log'[j].seen = log[j].seen
            /\ log'[j].position \in {log[j].position, Null}
  BY <1>1, <1>2, CascadedTables
<1>5. /\ sessions' = sessions /\ plan' = plan /\ req' = req
      /\ \A x \in DOMAIN plan' : x \in DOMAIN plan /\ plan'[x].session = plan[x].session
  BY <1>2
<1>6. RowKeys'
  BY <1>3, <1>4, <1>5, RowKeysStep
<1> QED
  BY <1>3, <1>4, <1>5, <1>6, IndexEdit

LEMMA IndexInit == Init => IndexInv
<1> SUFFICES ASSUME Init PROVE IndexInv
  OBVIOUS
<1>1. TypeOK
  BY RowTypes, EmptySeq DEF Init, TypeOK
<1>2. KnownKeys
  BY IdleKeys, <1>1 DEF Init, KnownKeys, RowKeys
<1> QED
  BY <1>1, <1>2 DEF IndexInv

LEMMA IndexNext == IndexInv /\ [Next]_vars => IndexInv'
<1> SUFFICES ASSUME IndexInv, [Next]_vars PROVE IndexInv'
  OBVIOUS
<1>1. CASE Edit
  BY <1>1, IndexDeleteSession, IndexCreateSchedule, IndexDeleteSchedule,
     IndexCreatePlanned, IndexDeletePlanned, IndexDeleteCheckin DEF Edit
<1>2. ASSUME NEW p \in Slots, Begin(p) PROVE IndexInv'
  BY <1>2, IndexStartSession, IndexBeginSignOn, IndexBeginSignOff, IndexBeginEnd DEF Begin
<1>3. ASSUME NEW p \in Slots, Proceed(p) PROVE IndexInv'
  <2>1. CASE Refuse(p)
    BY <1>3, <2>1, IndexReply DEF Refuse
  <2> QED
    BY <1>3, <2>1, IndexStampEnded, IndexCreateNetControl, IndexSignOnDuty,
       IndexReadTemplates, IndexCopyTemplates, IndexReadOccupant, IndexSignOn,
       IndexSignOff, IndexEndSession DEF Proceed
<1>4. ASSUME NEW p \in Slots, Fail(p) PROVE IndexInv'
  BY <1>4, IndexReply DEF Fail
<1>5. CASE UNCHANGED vars
  BY <1>5 DEF vars, IndexInv, TypeOK, KnownKeys, RowKeys
<1> QED
  BY <1>1, <1>2, <1>3, <1>4, <1>5 DEF Next

LEMMA IndexAlways == Spec => []IndexInv
BY IndexInit, IndexNext, PTL DEF Spec

\* Every table and every request keeps its type, whatever is asked of the net
\* and however the requests interleave or die.
THEOREM TypeCorrect == Spec => []TypeOK
<1>1. IndexInv => TypeOK
  BY DEF IndexInv
<1> QED
  BY <1>1, IndexAlways, PTL

-----------------------------------------------------------------------------
(***************************************************************************)
(* Who holds the tactical positions of an activation: double occupancy,    *)
(* self-service and the Net Control position.                              *)
(***************************************************************************)


(***************************************************************************)
(* DoubleOccupancyIsRaced.  By itself it is not inductive: a request that  *)
(* is about to write a row must know that the rows it will leave open next *)
(* to its own are accounted for by an overlap already.                     *)
(***************************************************************************)

\* Of the first n rows, those of x that are open, o apart, were overlapped by o.
Accounted(x, o, n) ==
    \A i \in OpenRows(x) : i <= n /\ i # o => i < o /\ Overlapped(x, i, o)

Foreseen(r) ==
    /\ r.step = "duty" => Accounted(r.position, Null, r.seen)
    /\ r.step = "sign_on" => Accounted(r.position, r.outgoing, r.seen)

Raced(x) == \A i, j \in OpenRows(x) : i < j => Overlapped(x, i, j)

RacedInv ==
    /\ IndexInv
    /\ \A x \in Nat \ {Null} : Raced(x)
    /\ \A p \in Slots, r \in Request : req[p] = r /\ r.position # Null => Foreseen(r)

\* What no step undoes in the rows of position x already logged: none is
\* opened again, and while one is open, all keep their position.
Thins(x) ==
    /\ Len(log) <= Len(log')
    /\ \A i \in DOMAIN log :
          /\ log'[i].seen = log[i].seen
          /\ log'[i].live /\ log'[i].open /\ log'[i].position = x => i \in OpenRows(x)
    /\ \/ \A i \in DOMAIN log : log[i].position = x => log'[i].position = x
       \/ \A i \in DOMAIN log : log'[i].position # x

LEMMA ThinsOpen ==
    ASSUME TypeOK, TypeOK', NEW x, Thins(x), NEW i \in OpenRows(x)', i <= Len(log)
    PROVE  /\ i \in OpenRows(x)
           /\ \A j \in DOMAIN log : log[j].position = x => log'[j].position = x
<1>1. /\ DOMAIN log = 1..Len(log) /\ DOMAIN log' = 1..Len(log')
      /\ Len(log) \in Nat /\ Len(log') \in Nat
  BY LenProperties DEF TypeOK
<1>2. i \in DOMAIN log' /\ log'[i].live /\ log'[i].open /\ log'[i].position = x
  BY DEF OpenRows
<1>3. i \in DOMAIN log
  BY <1>1, <1>2
<1> QED
  BY <1>2, <1>3 DEF Thins

LEMMA OverlapStays ==
    ASSUME TypeOK, NEW x, NEW i \in Nat, NEW j \in Nat, j <= Len(log),
           Overlapped(x, i, j), Len(log) <= Len(log'),
           \A k \in DOMAIN log : /\ log'[k].seen = log[k].seen
                                 /\ log[k].position = x => log'[k].position = x
    PROVE  Overlapped(x, i, j)'
<1>1. PICK k \in (i + 1)..j : log[k].position = x /\ log[k].seen < i
  BY DEF Overlapped
<1>2. k \in DOMAIN log
  BY TableFacts
<1>3. log'[k].position = x /\ log'[k].seen < i
  BY <1>1, <1>2
<1> QED
  BY <1>3 DEF Overlapped

LEMMA AccountedStays ==
    ASSUME TypeOK, TypeOK', NEW x, Thins(x), NEW o \in Nat, o <= Len(log),
           NEW n \in Nat, n <= Len(log), Accounted(x, o, n)
    PROVE  Accounted(x, o, n)'
<1> SUFFICES ASSUME NEW i \in OpenRows(x)', i <= n, i # o
             PROVE  i < o /\ Overlapped(x, i, o)'
  BY DEF Accounted
<1>1. Len(log) \in Nat /\ DOMAIN log' = 1..Len(log') /\ Len(log') \in Nat
  BY LenProperties DEF TypeOK
<1>2. i \in Nat /\ i <= Len(log)
  BY <1>1 DEF OpenRows
<1>3. i \in OpenRows(x) /\ \A j \in DOMAIN log : log[j].position = x => log'[j].position = x
  BY <1>2, ThinsOpen
<1>4. i < o /\ Overlapped(x, i, o)
  BY <1>3 DEF Accounted
<1>5. Len(log) <= Len(log') /\ \A k \in DOMAIN log : log'[k].seen = log[k].seen
  BY DEF Thins
<1> QED
  BY <1>2, <1>3, <1>4, <1>5, OverlapStays

LEMMA RacedStays ==
    ASSUME TypeOK, TypeOK', NEW x, Thins(x), Len(log') = Len(log), Raced(x)
    PROVE  Raced(x)'
<1> SUFFICES ASSUME NEW i \in OpenRows(x)', NEW j \in OpenRows(x)', i < j
             PROVE  Overlapped(x, i, j)'
  BY DEF Raced
<1>1. Len(log) \in Nat /\ DOMAIN log' = 1..Len(log') /\ Len(log') \in Nat
  BY LenProperties DEF TypeOK
<1>2. i \in Nat /\ j \in Nat /\ i <= Len(log) /\ j <= Len(log)
  BY <1>1 DEF OpenRows
<1>3. /\ i \in OpenRows(x) /\ j \in OpenRows(x)
      /\ \A k \in DOMAIN log : log[k].position = x => log'[k].position = x
  BY <1>2, ThinsOpen
<1>4. Overlapped(x, i, j)
  BY <1>3 DEF Raced
<1>5. Len(log) <= Len(log') /\ \A k \in DOMAIN log : log'[k].seen = log[k].seen
  BY DEF Thins
<1> QED
  BY <1>2, <1>3, <1>4, <1>5, OverlapStays

\* A row added at the end is overlapped with every row of its position that
\* stays open: by itself, or as its request had accounted for.
LEMMA RacedAppended ==
    ASSUME TypeOK, TypeOK', NEW x \in Nat, Thins(x), Len(log') = Len(log) + 1, Raced(x),
           NEW o \in Nat, o <= Len(log), o \notin OpenRows(x)',
           log'[Len(log) + 1].position = x => Accounted(x, o, log'[Len(log) + 1].seen)
    PROVE  Raced(x)'
<1> DEFINE last == Len(log) + 1
<1>1. /\ Len(log) \in Nat /\ DOMAIN log' = 1..last /\ last \in Nat
      /\ DOMAIN log = 1..Len(log) /\ log'[last] \in Checkin
  BY LenProperties, ElementOfSeq DEF TypeOK
<1>2. Len(log) <= Len(log') /\ \A k \in DOMAIN log : log'[k].seen = log[k].seen
  BY DEF Thins
<1> SUFFICES ASSUME NEW i \in OpenRows(x)', NEW j \in OpenRows(x)', i < j
             PROVE  Overlapped(x, i, j)'
  BY DEF Raced
<1>3. i \in 1..last /\ j \in 1..last /\ i <= Len(log) /\ i # o
  BY <1>1 DEF OpenRows
<1>4. /\ i \in OpenRows(x)
      /\ \A k \in DOMAIN log : log[k].position = x => log'[k].position = x
  BY <1>3, ThinsOpen
<1>5. CASE j <= Len(log)
  <2>1. Overlapped(x, i, j)
    BY <1>5, <1>4, ThinsOpen DEF Raced
  <2> QED
    BY <1>2, <1>3, <1>4, <1>5, <2>1, OverlapStays
<1>6. CASE j = last
  <2>1. log'[last].position = x /\ log'[last].seen \in Nat
    BY <1>1, <1>6 DEF OpenRows, Checkin
  <2>2. CASE log'[last].seen < i
    BY <1>1, <1>3, <1>6, <2>1, <2>2 DEF Overlapped
  <2>3. CASE i <= log'[last].seen
    <3>1. i < o /\ Overlapped(x, i, o)
      BY <1>3, <1>4, <2>1, <2>3 DEF Accounted
    <3>2. Overlapped(x, i, o)'
      BY <1>2, <1>3, <1>4, <3>1, OverlapStays
    <3> QED
      BY <1>1, <1>6, <3>2 DEF Overlapped
  <2> QED
    BY <1>3, <2>1, <2>2, <2>3
<1> QED
  BY <1>1, <1>3, <1>5, <1>6

LEMMA OtherRequests ==
    ASSUME TypeOK, NEW p \in Slots, NEW r, Continue(p, r)
    PROVE  \A q \in Slots : req'[q] = IF q = p THEN r ELSE req[q]
BY DEF TypeOK, Continue

\* What a request foresees stays true while others move.
LEMMA ForeseenStays ==
    ASSUME RacedInv, TypeOK', \A x \in Nat \ {Null} : Thins(x),
           NEW q \in Slots, NEW r \in Request, req[q] = r, r.position # Null
    PROVE  Foreseen(r)'
<1>1. TypeOK /\ KnownKeys
  BY DEF RacedInv, IndexInv
<1>2. /\ r.position \in Nat \ {Null} /\ r.outgoing \in Nat /\ r.seen \in Nat
      /\ r.outgoing <= Len(log) /\ r.seen <= Len(log)
      /\ Null \in Nat /\ Null <= Len(log)
  BY <1>1, TableFacts DEF Request, KnownKeys, RequestKeys, Null
<1>3. Foreseen(r) /\ Thins(r.position)
  BY <1>2 DEF RacedInv
<1>4. r.step = "duty" => Accounted(r.position, Null, r.seen)'
  BY <1>1, <1>2, <1>3, AccountedStays DEF Foreseen
<1>5. r.step = "sign_on" => Accounted(r.position, r.outgoing, r.seen)'
  BY <1>1, <1>2, <1>3, AccountedStays DEF Foreseen
<1> QED
  BY <1>4, <1>5 DEF Foreseen

\* A step that adds no row keeps the invariant when every request it writes is
\* not about to log a check-in, or foresees what it will leave open.
LEMMA RacedKeep ==
    ASSUME RacedInv, IndexInv', Len(log') = Len(log), \A x \in Nat \ {Null} : Thins(x),
           \A q \in Slots, r \in Request :
               req'[q] = r => \/ req[q] = r \/ r.position = Null
                              \/ r.step \notin {"duty", "sign_on"}
                              \/ Foreseen(r)'
    PROVE  RacedInv'
<1>1. TypeOK /\ TypeOK' /\ KnownKeys
  BY DEF RacedInv, IndexInv
<1>2. \A x \in Nat \ {Null} : Raced(x)'
  BY <1>1, RacedStays DEF RacedInv
<1>3. ASSUME NEW q \in Slots, NEW r \in Request, req'[q] = r, r.position # Null
      PROVE  Foreseen(r)'
  <2>1. CASE req[q] = r
    BY <1>1, <1>3, <2>1, ForeseenStays
  <2>2. CASE r.step \notin {"duty", "sign_on"}
    BY <2>2 DEF Foreseen
  <2> QED
    BY <1>3, <2>1, <2>2
<1> QED
  BY <1>2, <1>3 DEF RacedInv

\* A row that keeps its position and is not opened again thins its position.
LEMMA KeptRowsThin ==
    ASSUME Len(log) <= Len(log'),
           \A i \in DOMAIN log :
               /\ log'[i].seen = log[i].seen /\ log'[i].position = log[i].position
               /\ log'[i].live => log[i].live
               /\ log'[i].open => log[i].open
    PROVE  \A x : Thins(x)
<1> TAKE x
<1>1. ASSUME NEW i \in DOMAIN log, log'[i].live, log'[i].open, log'[i].position = x
      PROVE  i \in OpenRows(x)
  BY <1>1 DEF OpenRows
<1>2. \A i \in DOMAIN log : log[i].position = x => log'[i].position = x
  OBVIOUS
<1> QED
  BY <1>1, <1>2 DEF Thins

LEMMA SameLogThins ==
    ASSUME TypeOK, log' = log
    PROVE  \A x : Thins(x)
BY TableFacts DEF Thins, OpenRows

\* Steps that leave the log alone and prepare no check-in.
LEMMA RacedRequest ==
    ASSUME RacedInv, IndexInv', NEW p \in Slots, NEW r, Continue(p, r), log' = log,
           r.step \notin {"duty", "sign_on"}
    PROVE  RacedInv'
<1>1. TypeOK
  BY DEF RacedInv, IndexInv
<1>2. \A q \in Slots : req'[q] = IF q = p THEN r ELSE req[q]
  BY <1>1, OtherRequests
<1>3. \A q \in Slots, s \in Request :
          req'[q] = s => req[q] = s \/ s.step \notin {"duty", "sign_on"}
  BY <1>2
<1> QED
  BY <1>1, <1>3, SameLogThins, RacedKeep

LEMMA RacedReply ==
    ASSUME RacedInv, IndexInv', NEW p \in Slots, Reply(p), log' = log
    PROVE  RacedInv'
<1>1. Idle.step \notin {"duty", "sign_on"}
  BY DEF Idle
<1> QED
  BY <1>1, RacedRequest DEF Reply

\* A request that begins leaves the log alone and is not yet to write to it.
LEMMA BeginShape ==
    ASSUME NEW p \in Slots, Begin(p)
    PROVE  log' = log /\ \E r : Continue(p, r) /\ r.step \notin {"duty", "sign_on"}
<1>1. ASSUME NEW offline \in BOOLEAN, NEW duty, NEW k, StartSession(p, offline, duty, k)
      PROVE  log' = log /\ \E r : Continue(p, r) /\ r.step \notin {"duty", "sign_on"}
  <2> DEFINE step == IF offline THEN "stamp" ELSE "net_control"
             r == [Idle EXCEPT !.step = step, !.session = Len(sessions) + 1,
                               !.callsign = duty, !.schedule = k]
  <2>1. Continue(p, r) /\ log' = log
    BY <1>1 DEF StartSession
  <2>2. step \notin {"duty", "sign_on"}
    OBVIOUS
  <2>3. r.step = step
    BY DEF Idle
  <2> HIDE DEF r, step
  <2> QED
    BY <2>1, <2>2, <2>3
<1>2. ASSUME NEW u, NEW x, NEW c, BeginSignOn(p, u, x, c)
      PROVE  log' = log /\ \E r : Continue(p, r) /\ r.step \notin {"duty", "sign_on"}
  <2> DEFINE r == [Idle EXCEPT !.step = "occupant", !.user = u, !.session = plan[x].session,
                               !.position = x, !.callsign = c]
  <2>1. Continue(p, r) /\ log' = log
    BY <1>2 DEF BeginSignOn
  <2>2. r.step \notin {"duty", "sign_on"}
    BY DEF Idle
  <2> HIDE DEF r
  <2> QED
    BY <2>1, <2>2
<1>3. ASSUME NEW u, NEW x, BeginSignOff(p, u, x)
      PROVE  log' = log /\ \E r : Continue(p, r) /\ r.step \notin {"duty", "sign_on"}
  <2>1. PICK o \in OpenRows(x) :
           Continue(p, [Idle EXCEPT !.step = "sign_off", !.user = u,
                                    !.session = log[o].session, !.outgoing = o])
    BY <1>3 DEF BeginSignOff
  <2> DEFINE r == [Idle EXCEPT !.step = "sign_off", !.user = u,
                               !.session = log[o].session, !.outgoing = o]
  <2>2. Continue(p, r) /\ log' = log
    BY <1>3, <2>1 DEF BeginSignOff
  <2>3. r.step \notin {"duty", "sign_on"}
    BY DEF Idle
  <2> HIDE DEF r
  <2> QED
    BY <2>2, <2>3
<1>4. ASSUME NEW s, BeginEnd(p, s)
      PROVE  log' = log /\ \E r : Continue(p, r) /\ r.step \notin {"duty", "sign_on"}
  <2> DEFINE r == [Idle EXCEPT !.step = "end", !.session = s]
  <2>1. Continue(p, r) /\ log' = log
    BY <1>4 DEF BeginEnd
  <2>2. r.step \notin {"duty", "sign_on"}
    BY DEF Idle
  <2> HIDE DEF r
  <2> QED
    BY <2>1, <2>2
<1> QED
  BY <1>1, <1>2, <1>3, <1>4 DEF Begin

LEMMA RacedBegin ==
    ASSUME RacedInv, IndexInv', NEW p \in Slots, Begin(p)
    PROVE  RacedInv'
BY BeginShape, RacedRequest

LEMMA AfterDutyStep ==
    ASSUME NEW r \in Request
    PROVE  AfterDuty(r).step \notin {"duty", "sign_on"}
BY DEF AfterDuty, Idle, Request

\* A Net Control position is new: nobody can hold it yet.
LEMMA RacedCreateNetControl ==
    ASSUME RacedInv, IndexInv', NEW p \in Slots, CreateNetControl(p)
    PROVE  RacedInv'
<1> DEFINE r1 == [req[p] EXCEPT !.position = Len(plan) + 1, !.seen = Len(log)]
           r2 == [r1 EXCEPT !.step = "duty"]
           r  == IF r1.callsign = NoCallsign THEN AfterDuty(r1) ELSE r2
<1>1. TypeOK /\ RowKeys /\ req[p] \in Request
  BY TableFacts DEF RacedInv, IndexInv, KnownKeys
<1>2. Len(plan) + 1 \in Nat /\ Len(plan) \in Nat /\ Len(log) \in Nat /\ log' = log
  BY <1>1, TableFacts DEF CreateNetControl
<1>3. OpenRows(Len(plan) + 1) = {}
  <2>1. \A i \in DOMAIN log : log[i].position \in Nat /\ log[i].position <= Len(plan)
    BY <1>1, TableFacts DEF RowKeys, Checkin
  <2> QED
    BY <1>2, <2>1 DEF OpenRows
<1>4. r1 \in Request /\ r1.position = Len(plan) + 1
  BY <1>1, <1>2 DEF Request
<1>5. r2.position = Len(plan) + 1 /\ r2.step = "duty"
  BY <1>4 DEF Request
<1>6. Continue(p, r)
  BY DEF CreateNetControl
<1>7. \/ r.step \notin {"duty", "sign_on"}
      \/ r.step = "duty" /\ r.position = Len(plan) + 1
  <2> HIDE DEF r1, r2
  <2> QED BY <1>4, <1>5, AfterDutyStep
<1> HIDE DEF r
<1>8. \A q \in Slots : req'[q] = IF q = p THEN r ELSE req[q]
  BY <1>1, <1>6, OtherRequests
<1>9. ASSUME NEW q \in Slots, NEW s \in Request, req'[q] = s
      PROVE  req[q] = s \/ s.step \notin {"duty", "sign_on"} \/ Foreseen(s)'
  <2>1. CASE s = r /\ r.step = "duty" /\ r.position = Len(plan) + 1
    <3>1. OpenRows(s.position) = {}
      BY <1>3, <2>1
    <3>2. OpenRows(s.position)' = {}
      BY <1>2, <3>1 DEF OpenRows
    <3> QED
      BY <2>1, <3>2 DEF Foreseen, Accounted
  <2> QED
    BY <1>7, <1>8, <1>9, <2>1
<1> QED
  BY <1>1, <1>2, <1>9, SameLogThins, RacedKeep

\* The occupant is the newest open row, and all the others are overlapped by it.
LEMMA RacedReadOccupant ==
    ASSUME RacedInv, IndexInv', NEW p \in Slots, ReadOccupant(p)
    PROVE  RacedInv'
<1>1. TypeOK /\ req[p] \in Request /\ log' = log
  BY TableFacts DEF RacedInv, IndexInv, ReadOccupant
<1>2. PICK outgoing \in OpenRows(req[p].position) \cup {Null} :
         /\ IsOccupant(outgoing, req[p].position)
         /\ IF MaySignOn(req[p].user, req[p].callsign, outgoing)
            THEN Continue(p, [req[p] EXCEPT !.step = "sign_on", !.outgoing = outgoing,
                                            !.seen = Len(log)])
            ELSE Reply(p)
  BY DEF ReadOccupant
<1> DEFINE r == [req[p] EXCEPT !.step = "sign_on", !.outgoing = outgoing, !.seen = Len(log)]
<1>3. CASE Continue(p, r)
  <2>1. r.step = "sign_on" /\ r.outgoing = outgoing /\ r.position = req[p].position
    BY <1>1 DEF Request
  <2> HIDE DEF r
  <2>2. \A q \in Slots : req'[q] = IF q = p THEN r ELSE req[q]
    BY <1>1, <1>3, OtherRequests
  <2>3. ASSUME NEW s \in Request, s = r
        PROVE  s.position # Null => Foreseen(s)'
    <3> SUFFICES ASSUME s.position # Null PROVE Foreseen(s)'
      OBVIOUS
    <3>1. /\ s.step = "sign_on" /\ s.position \in Nat \ {Null}
          /\ IsOccupant(s.outgoing, s.position)
          /\ s.outgoing \in OpenRows(s.position) \cup {Null}
      BY <1>2, <2>1, <2>3 DEF Request
    <3>2. ASSUME NEW i \in OpenRows(s.position), i # s.outgoing
          PROVE  i < s.outgoing /\ Overlapped(s.position, i, s.outgoing)
      <4>1. s.outgoing \in OpenRows(s.position) /\ i <= s.outgoing
        BY <3>1, <3>2 DEF IsOccupant
      <4>2. i \in Nat /\ s.outgoing \in Nat
        BY <1>1, <4>1, OccupantRange
      <4> QED
        BY <3>1, <3>2, <4>1, <4>2 DEF RacedInv, Raced
    <3>3. Accounted(s.position, s.outgoing, s.seen)
      BY <3>2 DEF Accounted
    <3>4. Accounted(s.position, s.outgoing, s.seen)'
      BY <1>1, <3>3 DEF Accounted, OpenRows, Overlapped
    <3> QED
      BY <3>1, <3>4 DEF Foreseen
  <2>4. \A q \in Slots, s \in Request :
            req'[q] = s => req[q] = s \/ s.position = Null \/ Foreseen(s)'
    BY <2>2, <2>3
  <2> QED
    BY <1>1, <2>4, SameLogThins, RacedKeep
<1>4. CASE Reply(p)
  BY <1>1, <1>4, RacedReply
<1> QED
  BY <1>2, <1>3, <1>4

LEMMA ClosingThins ==
    ASSUME TypeOK, NEW o, log' = Closing(log, o)
    PROVE  Len(log') = Len(log) /\ \A x : Thins(x)
<1>1. log \in Seq(Checkin) /\ Len(log) \in Nat /\ \A i \in DOMAIN log : log[i] \in Checkin
  BY TableFacts DEF TypeOK
<1>2. Len(log') = Len(log)
  BY <1>1, ClosingRows
<1>3. ASSUME NEW i \in DOMAIN log
      PROVE  /\ log'[i].seen = log[i].seen /\ log'[i].position = log[i].position
             /\ log'[i].live => log[i].live
             /\ log'[i].open => log[i].open
  BY <1>1 DEF Closing, Checkin
<1> QED
  BY <1>1, <1>2, <1>3, KeptRowsThin

LEMMA RacedSignOff ==
    ASSUME RacedInv, IndexInv', NEW p \in Slots, SignOff(p)
    PROVE  RacedInv'
<1>1. TypeOK /\ Reply(p)
  BY DEF RacedInv, IndexInv, SignOff
<1>2. Len(log') = Len(log) /\ \A x : Thins(x)
  BY <1>1, ClosingThins DEF SignOff
<1>3. \A q \in Slots : req'[q] = IF q = p THEN Idle ELSE req[q]
  BY <1>1, OtherRequests DEF Reply
<1>4. Idle.step \notin {"duty", "sign_on"}
  BY DEF Idle
<1> QED
  BY <1>2, <1>3, <1>4, RacedKeep

\* Cascades hide rows; a deleted position's rows lose it all at once.
LEMMA EditThins ==
    ASSUME TypeOK, TypeOK', Edit
    PROVE  req' = req /\ Len(log') = Len(log) /\ \A x \in Nat \ {Null} : Thins(x)
<1>1. TypeOK /\ req' = req
  BY DEF Edit, DeleteSession, CreateSchedule, DeleteSchedule,
         CreateMember, CreateLive, DeletePlanned, DeleteCheckin
<1>2. ASSUME NEW gone, log' = Cascade(log, gone)
      PROVE  Len(log') = Len(log) /\ \A x : Thins(x)
  <2>1. Len(log') = Len(log) /\ Len(log) \in Nat
    BY <1>1, <1>2, CascadedTables, TableFacts
  <2>2. \A i \in DOMAIN log :
            /\ log'[i].position = log[i].position
            /\ log'[i].open = log[i].open
            /\ log'[i].seen = log[i].seen
            /\ log'[i].live => log[i].live
    BY <1>1, <1>2, CascadedTables
  <2> QED
    BY <2>1, <2>2, KeptRowsThin
<1>3. ASSUME NEW y \in DOMAIN plan, DeletePlanned(y)
      PROVE  Len(log') = Len(log) /\ \A x \in Nat \ {Null} : Thins(x)
  <2>1. log' = [i \in DOMAIN log |-> IF log[i].position = y
                                   THEN [log[i] EXCEPT !.position = Null] ELSE log[i]]
    BY <1>3 DEF DeletePlanned
  <2>2. \A i \in DOMAIN log : log[i] \in Checkin
    BY <1>1, TableFacts
  <2>3. \A i \in DOMAIN log :
            /\ log'[i].seen = log[i].seen
            /\ log'[i].live = log[i].live /\ log'[i].open = log[i].open
            /\ log'[i].position = IF log[i].position = y THEN Null ELSE log[i].position
    BY <2>1, <2>2 DEF Checkin
  <2>4. Len(log') = Len(log) /\ Len(log) \in Nat
    <3>1. DOMAIN log' = DOMAIN log
      BY <2>1
    <3>2. log' \in Seq(Checkin) /\ log \in Seq(Checkin)
      BY DEF TypeOK
    <3> QED
      BY <3>1, <3>2, LenProperties
  <2> QED
    BY <2>3, <2>4 DEF Thins, OpenRows
<1>4. Len(log') = Len(log) /\ \A x \in Nat \ {Null} : Thins(x)
  <2>1. CASE log' = log
    BY <1>1, <2>1, SameLogThins
  <2>2. CASE \E gone : log' = Cascade(log, gone)
    BY <1>2, <2>2
  <2>3. CASE \E y \in DOMAIN plan : DeletePlanned(y)
    BY <1>3, <2>3
  <2> QED
    BY <2>1, <2>2, <2>3 DEF Edit, DeleteSession, CreateSchedule, DeleteSchedule,
       CreateMember, CreateLive, DeleteCheckin
<1> QED
  BY <1>1, <1>4

LEMMA RacedEdit ==
    ASSUME RacedInv, IndexInv', Edit
    PROVE  RacedInv'
BY EditThins, RacedKeep DEF RacedInv, IndexInv

\* A check-in at the end of a log in which row o was closed.
LEMMA RacedLogged ==
    ASSUME RacedInv, IndexInv', NEW p \in Slots, NEW r, Continue(p, r),
           r.step \notin {"duty", "sign_on"},
           NEW o \in Nat, o <= Len(log), NEW row \in Checkin,
           \/ log' = Append(Closing(log, o), row)
           \/ o = Null /\ log' = Append(log, row),
           row.position # Null => Accounted(row.position, o, row.seen)
    PROVE  RacedInv'
<1>1. TypeOK /\ TypeOK' /\ log \in Seq(Checkin)
  BY DEF RacedInv, IndexInv, TypeOK
<1>2. Len(log) \in Nat /\ DOMAIN log = 1..Len(log) /\ \A i \in DOMAIN log : log[i] \in Checkin
  BY <1>1, TableFacts
<1>3. PICK rows \in Seq(Checkin) :
         /\ log' = Append(rows, row) /\ Len(rows) = Len(log)
         /\ \A i \in DOMAIN log :
               /\ rows[i].seen = log[i].seen /\ rows[i].position = log[i].position
               /\ rows[i].live = log[i].live /\ rows[i].open = (log[i].open /\ i # o)
  <2>1. CASE log' = Append(Closing(log, o), row)
    <3>1. ASSUME NEW i \in DOMAIN log
          PROVE  LET c == Closing(log, o)[i]
                 IN  /\ c.seen = log[i].seen /\ c.position = log[i].position
                     /\ c.live = log[i].live /\ c.open = (log[i].open /\ i # o)
      BY <1>2 DEF Closing, Checkin
    <3>2. Closing(log, o) \in Seq(Checkin) /\ Len(Closing(log, o)) = Len(log)
      BY <1>1, ClosingRows
    <3> QED
      BY <2>1, <3>1, <3>2
  <2>2. CASE o = Null /\ log' = Append(log, row)
    <3>1. \A i \in DOMAIN log : i # o /\ log[i].open \in BOOLEAN
      BY <1>2, <2>2 DEF Null, Checkin
    <3> QED
      BY <1>1, <2>2, <3>1
  <2> QED
    BY <2>1, <2>2
<1>4. /\ Len(log') = Len(log) + 1 /\ log'[Len(log) + 1] = row
      /\ DOMAIN log' = 1..(Len(log) + 1)
      /\ \A i \in DOMAIN log : log'[i] = rows[i]
  BY <1>2, <1>3, AppendProperties, LenProperties
<1>5. \A i \in DOMAIN log :
          /\ log'[i].seen = log[i].seen /\ log'[i].position = log[i].position
          /\ log'[i].live = log[i].live
          /\ log'[i].open = (log[i].open /\ i # o)
  BY <1>3, <1>4
<1>6. \A x : Thins(x)
  <2>1. \A i \in DOMAIN log : log'[i].live => log[i].live
    BY <1>5
  <2>2. \A i \in DOMAIN log : log'[i].open => log[i].open
    BY <1>5
  <2>3. Len(log) <= Len(log')
    BY <1>2, <1>4
  <2> QED
    BY <1>5, <2>1, <2>2, <2>3, KeptRowsThin
<1>7. \A x : o \notin OpenRows(x)'
  <2>1. o \in DOMAIN log => ~log'[o].open
    BY <1>5
  <2>2. o \in DOMAIN log' => o \in DOMAIN log
    BY <1>2, <1>4
  <2> QED
    BY <2>1, <2>2 DEF OpenRows
<1>8. ASSUME NEW x \in Nat \ {Null} PROVE Raced(x)'
  <2>1. Raced(x)
    BY DEF RacedInv
  <2> QED
    BY <1>1, <1>4, <1>6, <1>7, <2>1, RacedAppended
<1>9. \A q \in Slots : req'[q] = IF q = p THEN r ELSE req[q]
  BY <1>1, OtherRequests
<1>10. ASSUME NEW q \in Slots, NEW s \in Request, req'[q] = s, s.position # Null
       PROVE  Foreseen(s)'
  <2>1. CASE req[q] = s
    BY <1>1, <1>6, <1>10, <2>1, ForeseenStays
  <2>2. CASE s = r
    BY <2>2 DEF Foreseen
  <2> QED
    BY <1>9, <1>10, <2>1, <2>2
<1> QED
  BY <1>8, <1>10 DEF RacedInv

LEMMA RacedSign ==
    ASSUME RacedInv, IndexInv', NEW p \in Slots, SignOnDuty(p) \/ SignOn(p)
    PROVE  RacedInv'
<1> DEFINE r == req[p]
           row == Shift(r.session, r.callsign, r.position, r.seen)
<1>1. TypeOK /\ KnownKeys /\ r \in Request /\ r.step \in {"duty", "sign_on"}
  BY TableFacts DEF RacedInv, IndexInv, SignOnDuty, SignOn, At
<1>2. /\ r.session \in Nat /\ r.position \in Nat /\ r.seen \in Nat
      /\ r.callsign \in Callsigns
      /\ r.outgoing \in Nat /\ r.outgoing <= Len(log) /\ Null \in Nat /\ Null <= Len(log)
  BY <1>1, TableFacts DEF KnownKeys, RequestKeys, Request, Null
<1>3. row \in Checkin /\ row.position = r.position /\ row.seen = r.seen
  BY <1>2 DEF Shift, Checkin
<1>4. r.position # Null => Foreseen(r)
  BY <1>1 DEF RacedInv
<1>5. CASE SignOnDuty(p)
  <2>1. /\ Continue(p, AfterDuty(r)) /\ log' = Append(log, row)
        /\ AfterDuty(r).step \notin {"duty", "sign_on"} /\ r.step = "duty"
    BY <1>1, <1>5, AfterDutyStep DEF SignOnDuty, At
  <2>2. row.position # Null => Accounted(row.position, Null, row.seen)
    BY <1>3, <1>4, <2>1 DEF Foreseen
  <2> HIDE DEF row, r
  <2> QED
    BY <1>2, <1>3, <2>1, <2>2, RacedLogged
<1>6. CASE SignOn(p)
  <2>1. /\ Continue(p, Idle) /\ log' = Append(Closing(log, r.outgoing), row)
        /\ Idle.step \notin {"duty", "sign_on"} /\ r.step = "sign_on"
    BY <1>1, <1>6 DEF SignOn, Reply, Idle, At
  <2>2. row.position # Null => Accounted(row.position, r.outgoing, row.seen)
    BY <1>3, <1>4, <2>1 DEF Foreseen
  <2> HIDE DEF row, r
  <2> QED
    BY <1>2, <1>3, <2>1, <2>2, RacedLogged
<1> QED
  BY <1>5, <1>6

\* The server's other steps leave the log alone and prepare no check-in.
LEMMA ProceedShape ==
    ASSUME TypeOK, NEW p \in Slots, Proceed(p)
    PROVE  \/ CreateNetControl(p) \/ SignOnDuty(p) \/ SignOn(p)
           \/ ReadOccupant(p) \/ SignOff(p)
           \/ log' = log /\ \E r : Continue(p, r) /\ r.step \notin {"duty", "sign_on"}
<1>1. req[p] \in Request
  BY TableFacts
<1>2. CASE StampEnded(p)
  <2> DEFINE r == [req[p] EXCEPT !.step = "net_control"]
  <2>1. Continue(p, r) /\ log' = log /\ r.step \notin {"duty", "sign_on"}
    BY <1>1, <1>2 DEF StampEnded, Request
  <2> HIDE DEF r
  <2> QED
    BY <2>1
<1>3. CASE ReadTemplates(p)
  <2> DEFINE n == Cardinality(Members(req[p].schedule, {"position"}))
             r == [req[p] EXCEPT !.step = "copy", !.copies = n]
  <2>1. Continue(p, r) /\ log' = log
    BY <1>3 DEF ReadTemplates
  <2>2. r.step \notin {"duty", "sign_on"}
    <3> HIDE DEF n
    <3> QED BY <1>1 DEF Request
  <2> HIDE DEF r
  <2> QED
    BY <2>1, <2>2
<1>4. CASE CopyTemplates(p) \/ EndSession(p) \/ Refuse(p)
  <2>1. Continue(p, Idle) /\ log' = log
    BY <1>4 DEF CopyTemplates, EndSession, Refuse, Reply
  <2>2. Idle.step \notin {"duty", "sign_on"}
    BY DEF Idle
  <2> QED
    BY <2>1, <2>2
<1> QED
  BY <1>2, <1>3, <1>4 DEF Proceed

LEMMA RacedProceed ==
    ASSUME RacedInv, IndexInv', NEW p \in Slots, Proceed(p)
    PROVE  RacedInv'
<1>1. TypeOK
  BY DEF RacedInv, IndexInv
<1> QED
  BY <1>1, ProceedShape, RacedRequest, RacedCreateNetControl, RacedSign,
     RacedReadOccupant, RacedSignOff

LEMMA RacedInit == Init => RacedInv
<1> SUFFICES ASSUME Init PROVE RacedInv
  OBVIOUS
<1>1. IndexInv
  BY IndexInit
<1>2. \A x : OpenRows(x) = {}
  BY DEF Init, OpenRows
<1>3. \A p \in Slots : req[p].step \notin {"duty", "sign_on"}
  BY DEF Init, Idle
<1> QED
  BY <1>1, <1>2, <1>3 DEF RacedInv, Raced, Foreseen

LEMMA RacedNext == RacedInv /\ [Next]_vars => RacedInv'
<1> SUFFICES ASSUME RacedInv, [Next]_vars PROVE RacedInv'
  OBVIOUS
<1>1. IndexInv'
  BY IndexNext DEF RacedInv
<1>2. CASE Edit
  BY <1>1, <1>2, RacedEdit
<1>3. ASSUME NEW p \in Slots, Fail(p) PROVE RacedInv'
  BY <1>1, <1>3, RacedReply DEF Fail
<1>4. CASE UNCHANGED vars
  <2>1. log' = log /\ req' = req /\ TypeOK
    BY <1>4 DEF vars, RacedInv, IndexInv
  <2> QED
    BY <1>1, <2>1, SameLogThins, RacedKeep
<1> QED
  BY <1>1, <1>2, <1>3, <1>4, RacedBegin, RacedProceed DEF Next

LEMMA RacedAlways == Spec => []RacedInv
BY RacedInit, RacedNext, PTL DEF Spec

\* Whoever signs on, and however the requests interleave or die: a position is
\* held twice only after a sign-on that overlapped another one.
THEOREM DoubleOccupancyOnlyByRace == Spec => []DoubleOccupancyIsRaced
<1>1. RacedInv => DoubleOccupancyIsRaced
  BY TableFacts DEF RacedInv, IndexInv, Raced, DoubleOccupancyIsRaced, Null
<1> QED
  BY <1>1, RacedAlways, PTL

(***************************************************************************)
(* SingleOccupant, when requests do not overlap: each row then sees all    *)
(* the rows before it, which leaves no room for a race.                    *)
(***************************************************************************)

OneSlotAtMost == \A p, q \in Slots : p = q

Fresh ==
    /\ RacedInv
    /\ \A i \in DOMAIN log : log[i].seen = i - 1
    /\ \A p \in Slots : req[p].step \in {"duty", "sign_on"} => req[p].seen = Len(log)

\* Fresh survives a step that keeps every row's history and, if it prepares a
\* check-in, has just seen the whole log.
LEMMA FreshKeep ==
    ASSUME Fresh, RacedInv', Len(log') = Len(log),
           \A i \in DOMAIN log : log'[i].seen = log[i].seen,
           \A p \in Slots : \/ req'[p] = req[p]
                            \/ req'[p].step \notin {"duty", "sign_on"}
                            \/ req'[p].seen = Len(log)
    PROVE  Fresh'
<1>1. DOMAIN log' = DOMAIN log
  BY LenProperties DEF Fresh, RacedInv, IndexInv, TypeOK
<1> QED
  BY <1>1 DEF Fresh

LEMMA FreshSign ==
    ASSUME OneSlotAtMost, Fresh, RacedInv', NEW p \in Slots, SignOnDuty(p) \/ SignOn(p)
    PROVE  Fresh'
<1> DEFINE r == req[p]
           row == Shift(r.session, r.callsign, r.position, r.seen)
<1>1. /\ TypeOK /\ r \in Request /\ r.seen = Len(log) /\ Len(log) \in Nat
      /\ log \in Seq(Checkin) /\ log' \in Seq(Checkin) /\ DOMAIN log = 1..Len(log)
  BY TableFacts DEF Fresh, RacedInv, IndexInv, TypeOK, SignOnDuty, SignOn, At
<1>2. row.seen = Len(log)
  BY <1>1 DEF Shift
<1>3. PICK rows \in Seq(Checkin) :
         /\ Len(rows) = Len(log) /\ \A i \in DOMAIN log : rows[i].seen = log[i].seen
         /\ log' = Append(rows, row)
  <2>1. CASE SignOnDuty(p)
    BY <1>1, <2>1 DEF SignOnDuty
  <2>2. CASE SignOn(p)
    <3>1. log' = Append(Closing(log, r.outgoing), row)
      BY <2>2 DEF SignOn
    <3>2. Closing(log, r.outgoing) \in Seq(Checkin) /\ Len(Closing(log, r.outgoing)) = Len(log)
      BY <1>1, ClosingRows
    <3>3. ASSUME NEW i \in DOMAIN log
          PROVE  Closing(log, r.outgoing)[i].seen = log[i].seen
      <4>1. log[i] \in Checkin
        BY <1>1, TableFacts
      <4> QED
        BY <4>1 DEF Closing, Checkin
    <3> HIDE DEF row, r
    <3> QED
      BY <3>1, <3>2, <3>3
  <2> QED
    BY <2>1, <2>2
<1> HIDE DEF row
<1>4. /\ Len(log') = Len(log) + 1 /\ log'[Len(log) + 1].seen = Len(log)
      /\ \A i \in 1..Len(log) : log'[i].seen = log[i].seen
      /\ DOMAIN log' = 1..(Len(log) + 1)
  <2>1. row \in Checkin
    <3>1. /\ r.session \in Nat /\ r.position \in Nat /\ r.seen \in Nat
          /\ r.callsign \in Callsigns
      BY <1>1 DEF Fresh, RacedInv, IndexInv, KnownKeys, RequestKeys, Request,
                  SignOnDuty, SignOn, At
    <3> QED
      BY <3>1 DEF row, Shift, Checkin
  <2> QED
    BY <1>1, <1>2, <1>3, <2>1, AppendProperties, LenProperties
<1>5. \A q \in Slots : req'[q].step \notin {"duty", "sign_on"}
  <2>1. \A q \in Slots : q = p
    BY DEF OneSlotAtMost
  <2>2. AfterDuty(r).step \notin {"duty", "sign_on"} /\ Idle.step \notin {"duty", "sign_on"}
    BY <1>1, AfterDutyStep DEF Idle
  <2>3. req'[p] = AfterDuty(r) \/ req'[p] = Idle
    BY <1>1, OtherRequests DEF SignOnDuty, SignOn, Reply
  <2> QED
    BY <2>1, <2>2, <2>3
<1>6. \A i \in DOMAIN log' : log'[i].seen = i - 1
  BY <1>1, <1>4 DEF Fresh
<1> QED
  BY <1>5, <1>6 DEF Fresh

LEMMA FreshQuiet ==
    ASSUME Fresh, RacedInv', NEW p \in Slots, NEW r, Continue(p, r), log' = log,
           r.step \in {"duty", "sign_on"} => r.seen = Len(log)
    PROVE  Fresh'
<1>1. \A q \in Slots : req'[q] = IF q = p THEN r ELSE req[q]
  BY OtherRequests DEF Fresh, RacedInv, IndexInv
<1> QED
  BY <1>1, FreshKeep

LEMMA FreshNext == OneSlotAtMost /\ Fresh /\ [Next]_vars => Fresh'
<1> SUFFICES ASSUME OneSlotAtMost, Fresh, [Next]_vars PROVE Fresh'
  OBVIOUS
<1>1. RacedInv /\ RacedInv' /\ TypeOK /\ TypeOK'
  BY RacedNext DEF Fresh, RacedInv, IndexInv
<1>2. CASE Edit
  <2>1. 1 \in Nat \ {Null}
    BY DEF Null
  <2>2. req' = req /\ Len(log') = Len(log) /\ \A i \in DOMAIN log : log'[i].seen = log[i].seen
    BY <1>1, <1>2, <2>1, EditThins DEF Thins
  <2> QED
    BY <1>1, <2>2, FreshKeep
<1>3. ASSUME NEW p \in Slots, Begin(p) PROVE Fresh'
  BY <1>1, <1>3, BeginShape, FreshQuiet
<1>4. ASSUME NEW p \in Slots, Proceed(p) PROVE Fresh'
  <2>1. CASE CreateNetControl(p)
    <3> DEFINE r1 == [req[p] EXCEPT !.position = Len(plan) + 1, !.seen = Len(log)]
               r2 == [r1 EXCEPT !.step = "duty"]
               r  == IF r1.callsign = NoCallsign THEN AfterDuty(r1) ELSE r2
    <3>1. req[p] \in Request /\ Len(log) \in Nat /\ Len(plan) + 1 \in Nat
      BY <1>1, TableFacts
    <3>2. r1 \in Request /\ r2.seen = Len(log)
      BY <3>1 DEF Request
    <3>3. Continue(p, r) /\ log' = log
      BY <2>1 DEF CreateNetControl
    <3>4. r.step \in {"duty", "sign_on"} => r.seen = Len(log)
      <4> HIDE DEF r1, r2
      <4> QED BY <3>2, AfterDutyStep
    <3> HIDE DEF r
    <3> QED
      BY <1>1, <3>3, <3>4, FreshQuiet
  <2>2. CASE ReadOccupant(p)
    <3>1. PICK o : \/ Continue(p, [req[p] EXCEPT !.step = "sign_on", !.outgoing = o,
                                                  !.seen = Len(log)])
                   \/ Reply(p)
      BY <2>2 DEF ReadOccupant
    <3> DEFINE r == [req[p] EXCEPT !.step = "sign_on", !.outgoing = o, !.seen = Len(log)]
    <3>2. r.seen = Len(log) /\ log' = log
      BY <1>1, <2>2, TableFacts DEF Request, ReadOccupant
    <3>3. CASE Continue(p, r)
      <4> HIDE DEF r
      <4> QED BY <1>1, <3>2, <3>3, FreshQuiet
    <3>4. CASE Reply(p)
      <4>1. Idle.step \notin {"duty", "sign_on"}
        BY DEF Idle
      <4> QED
        BY <1>1, <3>2, <3>4, <4>1, FreshQuiet DEF Reply
    <3> QED
      BY <3>1, <3>3, <3>4
  <2>3. CASE SignOff(p)
    <3>1. Len(log') = Len(log) /\ \A x : Thins(x)
      BY <1>1, <2>3, ClosingThins DEF SignOff
    <3>2. \A q \in Slots : req'[q] = IF q = p THEN Idle ELSE req[q]
      BY <1>1, <2>3, OtherRequests DEF SignOff, Reply
    <3>3. Idle.step \notin {"duty", "sign_on"}
      BY DEF Idle
    <3> QED
      BY <1>1, <3>1, <3>2, <3>3, FreshKeep DEF Thins
  <2>4. ASSUME NEW r, log' = log, Continue(p, r), r.step \notin {"duty", "sign_on"}
        PROVE  Fresh'
    BY <1>1, <2>4, FreshQuiet
  <2> QED
    BY <1>1, <1>4, <2>1, <2>2, <2>3, <2>4, ProceedShape, FreshSign
<1>5. ASSUME NEW p \in Slots, Fail(p) PROVE Fresh'
  <2>1. Idle.step \notin {"duty", "sign_on"}
    BY DEF Idle
  <2> QED
    BY <1>1, <1>5, <2>1, FreshQuiet DEF Fail, Reply
<1>6. CASE UNCHANGED vars
  BY <1>1, <1>6, FreshKeep DEF vars
<1> QED
  BY <1>2, <1>3, <1>4, <1>5, <1>6 DEF Next

Single == \A x \in Nat \ {Null} : \A i, j \in OpenRows(x) : i = j

LEMMA FreshSingle == Fresh => Single
<1> SUFFICES ASSUME Fresh, NEW x \in Nat \ {Null},
                    NEW i \in OpenRows(x), NEW j \in OpenRows(x), i # j
             PROVE  FALSE
  BY DEF Single
<1>1. TypeOK /\ DOMAIN log = 1..Len(log) /\ Len(log) \in Nat /\ Raced(x)
  BY TableFacts DEF Fresh, RacedInv, IndexInv
<1>2. i \in 1..Len(log) /\ j \in 1..Len(log)
  BY <1>1 DEF OpenRows
<1>3. ASSUME NEW a \in OpenRows(x), NEW b \in OpenRows(x), a < b,
             a \in 1..Len(log), b \in 1..Len(log)
      PROVE  FALSE
  <2>1. PICK k \in (a + 1)..b : log[k].seen < a
    BY <1>1, <1>3 DEF Raced, Overlapped
  <2>2. log[k].seen = k - 1
    BY <1>1, <1>3 DEF Fresh
  <2> QED
    BY <1>3, <2>1, <2>2
<1> QED
  BY <1>2, <1>3

LEMMA FreshSingleNext == Fresh' => Single'
BY FreshSingle, PTL

\* When one request is handled at a time, no position is ever held twice: the
\* occupant sign_on_tactical_position reads is the one it relieves.
THEOREM SingleOccupancyWithoutOverlap ==
    ASSUME OneSlotAtMost
    PROVE  Spec => []SingleOccupant
<1>1. Init => Fresh
  BY RacedInit DEF Init, Fresh, Idle
<1>2. Fresh /\ [Next]_vars => Fresh'
  BY FreshNext
<1>3. Fresh => SingleOccupant
  BY FreshSingle, TableFacts DEF Fresh, RacedInv, IndexInv, Single, SingleOccupant, Null
<1> QED
  BY <1>1, <1>2, <1>3, PTL DEF Spec

(***************************************************************************)
(* SelfServiceClosesOwn.                                                   *)
(***************************************************************************)

\* What a step may do to a row already logged.
RowStep(i) ==
    /\ i \in DOMAIN log' /\ log'[i].callsign = log[i].callsign
    /\ log[i].open /\ ~log'[i].open =>
           \E p \in Slots : (SignOn(p) \/ SignOff(p)) /\ req[p].outgoing = i

LEMMA RowStepClosing ==
    ASSUME TypeOK, NEW o, NEW i \in DOMAIN log
    PROVE  /\ i \in DOMAIN Closing(log, o) /\ Closing(log, o)[i].callsign = log[i].callsign
           /\ log[i].open /\ ~Closing(log, o)[i].open => o = i
<1>1. log[i] \in Checkin
  BY TableFacts
<1> QED
  BY <1>1 DEF Closing, Checkin

LEMMA RowStepAppend ==
    ASSUME NEW rows \in Seq(Checkin), NEW row \in Checkin, NEW i \in DOMAIN rows
    PROVE  i \in DOMAIN Append(rows, row) /\ Append(rows, row)[i] = rows[i]
BY AppendProperties, LenProperties

LEMMA RowStepNext ==
    ASSUME TypeOK, KnownKeys, [Next]_vars, NEW i \in DOMAIN log
    PROVE  RowStep(i)
<1>1. CASE log' = log
  BY <1>1 DEF RowStep
<1>2. ASSUME NEW gone, log' = Cascade(log, gone)
      PROVE  RowStep(i)
  <2>1. log'[i].callsign = log[i].callsign /\ log'[i].open = log[i].open /\ i \in DOMAIN log'
    BY <1>2, CascadedTables
  <2> QED
    BY <2>1 DEF RowStep
<1>3. ASSUME NEW y, DeletePlanned(y)
      PROVE  RowStep(i)
  <2>1. log[i] \in Checkin
    BY TableFacts
  <2>2. log'[i].callsign = log[i].callsign /\ log'[i].open = log[i].open /\ i \in DOMAIN log'
    BY <1>3, <2>1 DEF DeletePlanned, Checkin
  <2> QED
    BY <2>2 DEF RowStep
<1>4. ASSUME NEW p \in Slots, SignOff(p)
      PROVE  RowStep(i)
  BY <1>4, RowStepClosing DEF RowStep, SignOff
<1>5. ASSUME NEW p \in Slots, SignOn(p) \/ SignOnDuty(p)
      PROVE  RowStep(i)
  <2> DEFINE r == req[p]
             row == Shift(r.session, r.callsign, r.position, r.seen)
  <2>1. row \in Checkin
    <3>1. r \in Request /\ r.step \in {"duty", "sign_on"} /\ r.callsign \in Callsigns
      BY <1>5, TableFacts DEF KnownKeys, RequestKeys, SignOn, SignOnDuty, At
    <3> QED
      BY <3>1 DEF Request, Shift, Checkin
  <2>2. log \in Seq(Checkin)
    BY DEF TypeOK
  <2>3. CASE SignOnDuty(p)
    <3>1. log' = Append(log, row)
      BY <2>3 DEF SignOnDuty
    <3> HIDE DEF row
    <3> QED
      BY <2>1, <2>2, <3>1, RowStepAppend DEF RowStep
  <2>4. CASE SignOn(p)
    <3>1. log' = Append(Closing(log, r.outgoing), row)
      BY <2>4 DEF SignOn
    <3>2. Closing(log, r.outgoing) \in Seq(Checkin)
      BY <2>2, ClosingRows
    <3>3. i \in DOMAIN Closing(log, r.outgoing)
      BY RowStepClosing
    <3>4. i \in DOMAIN log' /\ log'[i] = Closing(log, r.outgoing)[i]
      <4> HIDE DEF row
      <4> QED BY <2>1, <3>1, <3>2, <3>3, RowStepAppend
    <3> QED
      BY <2>4, <3>4, RowStepClosing DEF RowStep
  <2> QED
    BY <1>5, <2>3, <2>4
<1>6. ASSUME NEW p \in Slots, Proceed(p)
      PROVE  RowStep(i)
  <2>1. CASE CreateNetControl(p) \/ ReadOccupant(p)
    BY <1>1, <2>1 DEF CreateNetControl, ReadOccupant
  <2> QED
    BY <1>1, <1>4, <1>5, <1>6, <2>1, ProceedShape
<1>7. CASE Edit
  BY <1>1, <1>2, <1>3, <1>7 DEF Edit, DeleteSession, CreateSchedule, DeleteSchedule,
     CreateMember, CreateLive, DeleteCheckin
<1>8. CASE UNCHANGED vars
  BY <1>1, <1>8 DEF vars
<1> QED
  BY <1>1, <1>6, <1>7, <1>8, BeginShape DEF Next, Fail

\* A request that is about to close a shift may close it.
Permitted(r) ==
    r.step \in {"sign_on", "sign_off"} /\ r.outgoing # Null =>
        r.user \in FullAccess \/ log[r.outgoing].callsign \in OwnCallsigns[r.user]

PermitInv ==
    IndexInv /\ \A p \in Slots, r \in Request : req[p] = r => Permitted(r)

\* A permission lasts: rows keep their callsign.
LEMMA PermitKeep ==
    ASSUME PermitInv, IndexInv', [Next]_vars,
           \A q \in Slots, r \in Request :
               req'[q] = r => req[q] = r \/ Permitted(r)'
    PROVE  PermitInv'
<1>1. TypeOK /\ KnownKeys
  BY DEF PermitInv, IndexInv
<1>2. ASSUME NEW q \in Slots, NEW r \in Request, req'[q] = r, req[q] = r, r.outgoing # Null
      PROVE  Permitted(r)'
  <2>1. r.outgoing \in DOMAIN log
    BY <1>1, <1>2, TableFacts DEF KnownKeys, RequestKeys, Request, Null
  <2>2. Permitted(r) /\ RowStep(r.outgoing)
    BY <1>1, <1>2, <2>1, RowStepNext DEF PermitInv
  <2> QED
    BY <2>2 DEF Permitted, RowStep
<1>3. ASSUME NEW q \in Slots, NEW r \in Request, req'[q] = r
      PROVE  Permitted(r)'
  <2>1. CASE r.outgoing = Null
    BY <2>1 DEF Permitted
  <2> QED
    BY <1>2, <1>3, <2>1
<1> QED
  BY <1>3 DEF PermitInv

\* A request that goes on to a step that closes nothing needs no permission.
LEMMA PermitQuiet ==
    ASSUME PermitInv, IndexInv', [Next]_vars, NEW p \in Slots, NEW r, Continue(p, r),
           r.step \notin {"sign_on", "sign_off"}
    PROVE  PermitInv'
<1>1. \A q \in Slots : req'[q] = IF q = p THEN r ELSE req[q]
  BY OtherRequests DEF PermitInv, IndexInv
<1>2. \A q \in Slots, s \in Request : req'[q] = s => req[q] = s \/ Permitted(s)'
  BY <1>1 DEF Permitted
<1> QED
  BY <1>2, PermitKeep

LEMMA EditKeepsRequests == Edit => req' = req
BY DEF Edit, DeleteSession, CreateSchedule, DeleteSchedule,
       CreateMember, CreateLive, DeletePlanned, DeleteCheckin

LEMMA BeginQuiet ==
    ASSUME NEW p \in Slots, Begin(p)
    PROVE  \/ \E u, x : BeginSignOff(p, u, x)
           \/ \E r : Continue(p, r) /\ r.step \notin {"sign_on", "sign_off"}
<1>1. ASSUME NEW offline \in BOOLEAN, NEW duty, NEW k, StartSession(p, offline, duty, k)
      PROVE  \E r : Continue(p, r) /\ r.step \notin {"sign_on", "sign_off"}
  <2> DEFINE step == IF offline THEN "stamp" ELSE "net_control"
             r == [Idle EXCEPT !.step = step, !.session = Len(sessions) + 1,
                               !.callsign = duty, !.schedule = k]
  <2>1. Continue(p, r)
    BY <1>1 DEF StartSession
  <2>2. step \notin {"sign_on", "sign_off"}
    OBVIOUS
  <2>3. r.step = step
    BY DEF Idle
  <2> HIDE DEF r, step
  <2> QED
    BY <2>1, <2>2, <2>3
<1>2. ASSUME NEW u, NEW x, NEW c, BeginSignOn(p, u, x, c)
      PROVE  \E r : Continue(p, r) /\ r.step \notin {"sign_on", "sign_off"}
  <2> DEFINE r == [Idle EXCEPT !.step = "occupant", !.user = u, !.session = plan[x].session,
                               !.position = x, !.callsign = c]
  <2>1. Continue(p, r) /\ r.step \notin {"sign_on", "sign_off"}
    BY <1>2 DEF BeginSignOn, Idle
  <2> HIDE DEF r
  <2> QED
    BY <2>1
<1>3. ASSUME NEW s, BeginEnd(p, s)
      PROVE  \E r : Continue(p, r) /\ r.step \notin {"sign_on", "sign_off"}
  <2> DEFINE r == [Idle EXCEPT !.step = "end", !.session = s]
  <2>1. Continue(p, r) /\ r.step \notin {"sign_on", "sign_off"}
    BY <1>3 DEF BeginEnd, Idle
  <2> HIDE DEF r
  <2> QED
    BY <2>1
<1> QED
  BY <1>1, <1>2, <1>3 DEF Begin

LEMMA ProceedQuiet ==
    ASSUME NEW p \in Slots, req[p] \in Request, Proceed(p)
    PROVE  \/ ReadOccupant(p)
           \/ \E r : Continue(p, r) /\ r.step \notin {"sign_on", "sign_off"}
<1>1. Idle.step \notin {"sign_on", "sign_off"}
  BY DEF Idle
<1>3. \A r \in Request : AfterDuty(r).step \notin {"sign_on", "sign_off"}
  BY <1>1 DEF AfterDuty, Request
<1>4. CASE StampEnded(p)
  <2> DEFINE r == [req[p] EXCEPT !.step = "net_control"]
  <2>1. Continue(p, r) /\ r.step \notin {"sign_on", "sign_off"}
    BY <1>4 DEF StampEnded, Request
  <2> HIDE DEF r
  <2> QED
    BY <2>1
<1>5. CASE ReadTemplates(p)
  <2> DEFINE n == Cardinality(Members(req[p].schedule, {"position"}))
             r == [req[p] EXCEPT !.step = "copy", !.copies = n]
  <2>1. Continue(p, r)
    BY <1>5 DEF ReadTemplates
  <2>2. r.step \notin {"sign_on", "sign_off"}
    <3> HIDE DEF n
    <3> QED BY DEF Request
  <2> HIDE DEF r
  <2> QED
    BY <2>1, <2>2
<1>6. CASE CreateNetControl(p)
  <2> DEFINE r1 == [req[p] EXCEPT !.position = Len(plan) + 1, !.seen = Len(log)]
             r2 == [r1 EXCEPT !.step = "duty"]
             r  == IF r1.callsign = NoCallsign THEN AfterDuty(r1) ELSE r2
  <2>1. Continue(p, r)
    BY <1>6 DEF CreateNetControl
  <2>2. r2.step = "duty" /\ r1.step = "net_control"
    BY <1>6 DEF Request, CreateNetControl, At
  <2>3. AfterDuty(r1).step \notin {"sign_on", "sign_off"}
    <3>1. CASE r1.schedule = Null
      BY <1>1, <3>1 DEF AfterDuty
    <3>2. CASE r1.schedule # Null
      BY <3>2 DEF AfterDuty, Request
    <3> QED
      BY <3>1, <3>2
  <2>4. r.step \notin {"sign_on", "sign_off"}
    <3> HIDE DEF r1, r2
    <3> QED BY <2>2, <2>3
  <2> HIDE DEF r
  <2> QED
    BY <2>1, <2>4
<1>7. CASE SignOnDuty(p)
  BY <1>3, <1>7 DEF SignOnDuty
<1>8. CASE CopyTemplates(p) \/ SignOn(p) \/ SignOff(p) \/ EndSession(p) \/ Refuse(p)
  BY <1>1, <1>8 DEF CopyTemplates, SignOn, SignOff, EndSession, Refuse, Reply
<1> QED
  BY <1>4, <1>5, <1>6, <1>7, <1>8 DEF Proceed

LEMMA PermitNext == PermitInv /\ [Next]_vars => PermitInv'
<1> SUFFICES ASSUME PermitInv, [Next]_vars PROVE PermitInv'
  OBVIOUS
<1>1. IndexInv' /\ TypeOK /\ \A p \in Slots : req[p] \in Request
  BY IndexNext, TableFacts DEF PermitInv, IndexInv
<1>2. Idle.step \notin {"sign_on", "sign_off"}
  BY DEF Idle
<1>3. CASE req' = req
  BY <1>1, <1>3, PermitKeep
<1>4. ASSUME NEW p \in Slots, Reply(p) PROVE PermitInv'
  BY <1>1, <1>2, <1>4, PermitQuiet DEF Reply
<1>5. ASSUME NEW p \in Slots, ReadOccupant(p) PROVE PermitInv'
  <2>1. PICK o \in OpenRows(req[p].position) \cup {Null} :
           \/ /\ MaySignOn(req[p].user, req[p].callsign, o)
              /\ Continue(p, [req[p] EXCEPT !.step = "sign_on", !.outgoing = o,
                                            !.seen = Len(log)])
           \/ Reply(p)
    BY <1>5 DEF ReadOccupant
  <2> DEFINE r == [req[p] EXCEPT !.step = "sign_on", !.outgoing = o, !.seen = Len(log)]
  <2>2. CASE MaySignOn(req[p].user, req[p].callsign, o) /\ Continue(p, r)
    <3>1. r.outgoing = o /\ r.user = req[p].user /\ log' = log
      BY <1>1, <1>5 DEF Request, ReadOccupant
    <3> HIDE DEF r
    <3>2. \A q \in Slots : req'[q] = IF q = p THEN r ELSE req[q]
      BY <1>1, <2>2, OtherRequests
    <3>3. \A q \in Slots, s \in Request : req'[q] = s => req[q] = s \/ Permitted(s)'
      BY <2>2, <3>1, <3>2 DEF Permitted, MaySignOn
    <3> QED
      BY <1>1, <3>3, PermitKeep
  <2> QED
    BY <1>4, <2>1, <2>2
<1>6. ASSUME NEW p \in Slots, NEW u, NEW x, BeginSignOff(p, u, x) PROVE PermitInv'
  <2>1. PICK o \in OpenRows(x) :
           /\ MaySignOff(u, o)
           /\ Continue(p, [Idle EXCEPT !.step = "sign_off", !.user = u,
                                       !.session = log[o].session, !.outgoing = o])
    BY <1>6 DEF BeginSignOff
  <2> DEFINE r == [Idle EXCEPT !.step = "sign_off", !.user = u,
                               !.session = log[o].session, !.outgoing = o]
  <2>2. r.outgoing = o /\ r.user = u /\ log' = log
    BY <1>6 DEF Idle, BeginSignOff
  <2> HIDE DEF r
  <2>3. \A q \in Slots : req'[q] = IF q = p THEN r ELSE req[q]
    BY <1>1, <2>1, OtherRequests DEF r
  <2>4. \A q \in Slots, s \in Request : req'[q] = s => req[q] = s \/ Permitted(s)'
    BY <2>1, <2>2, <2>3 DEF Permitted, MaySignOff
  <2> QED
    BY <1>1, <2>4, PermitKeep
<1>7. ASSUME NEW p \in Slots, Begin(p) PROVE PermitInv'
  BY <1>1, <1>6, <1>7, BeginQuiet, PermitQuiet DEF Begin
<1>8. ASSUME NEW p \in Slots, Proceed(p) PROVE PermitInv'
  BY <1>1, <1>4, <1>5, <1>8, ProceedQuiet, PermitQuiet
<1> QED
  BY <1>3, <1>4, <1>7, <1>8, EditKeepsRequests DEF Next, Fail, vars

\* Self-service closes nobody else's shift, however the requests interleave.
THEOREM SelfServiceNeverEvicts == Spec => SelfServiceClosesOwn
<1>1. Init => PermitInv
  BY IndexInit DEF Init, PermitInv, Permitted, Idle
<1>2. PermitInv /\ [Next]_vars => PermitInv'
  BY PermitNext
<1> DEFINE Rows == \A i \in DOMAIN log : log[i].open /\ ~log'[i].open =>
                       \E p \in Slots :
                          /\ req'[p] # req[p]
                          /\ \/ req[p].user \in FullAccess
                             \/ log[i].callsign \in OwnCallsigns[req[p].user]
<1>3. PermitInv /\ [Next]_vars => Rows
  <2> SUFFICES ASSUME PermitInv, [Next]_vars, NEW i \in DOMAIN log, log[i].open, ~log'[i].open
               PROVE  \E p \in Slots :
                          /\ req'[p] # req[p]
                          /\ \/ req[p].user \in FullAccess
                             \/ log[i].callsign \in OwnCallsigns[req[p].user]
    OBVIOUS
  <2>1. TypeOK /\ KnownKeys /\ i # Null
    BY TableFacts DEF PermitInv, IndexInv, Null
  <2>2. PICK p \in Slots : (SignOn(p) \/ SignOff(p)) /\ req[p].outgoing = i
    BY <2>1, RowStepNext DEF RowStep
  <2>3. req[p] \in Request /\ req[p].step \in {"sign_on", "sign_off"}
    BY <2>1, <2>2, TableFacts DEF SignOn, SignOff, At
  <2>4. Permitted(req[p])
    BY <2>3 DEF PermitInv
  <2>5. req'[p] = Idle
    BY <2>1, <2>2, OtherRequests DEF SignOn, SignOff, Reply
  <2>6. req'[p] # req[p]
    BY <2>3, <2>5 DEF Idle
  <2> QED
    BY <2>1, <2>2, <2>3, <2>4, <2>6 DEF Permitted
<1>4. PermitInv /\ [Next]_vars => [Rows]_vars
  BY <1>3
<1> QED
  BY <1>1, <1>2, <1>4, PTL DEF Spec, SelfServiceClosesOwn

(***************************************************************************)
(* OneNetControl.                                                          *)
(***************************************************************************)

NetControlInv ==
    /\ IndexInv
    /\ \A s \in Nat \ {Null} :
          /\ \A x, y \in NetControlOf(s) : x = y
          /\ \A p \in Slots : Opening(p, s) =>
                /\ NetControlOf(s) = {}
                /\ \A q \in Slots : Opening(q, s) => p = q

\* Nearly every step only takes Net Control positions and openings away.
LEMMA NetControlFewer ==
    ASSUME NetControlInv, IndexInv',
           \A s \in Nat \ {Null} :
               /\ NetControlOf(s)' \subseteq NetControlOf(s)
               /\ \A p \in Slots : Opening(p, s)' => Opening(p, s)
    PROVE  NetControlInv'
BY DEF NetControlInv

LEMMA OpeningReply ==
    ASSUME TypeOK, NEW p \in Slots, NEW r, Continue(p, r), r.step \notin {"stamp", "net_control"}
    PROVE  /\ \A q \in Slots, s \in Nat : Opening(q, s)' => Opening(q, s) /\ q # p
BY OtherRequests DEF Opening

LEMMA NetControlCascade ==
    ASSUME TypeOK, NEW gone, plan' = Cascade(plan, gone)
    PROVE  \A s : NetControlOf(s)' \subseteq NetControlOf(s)
<1>1. /\ DOMAIN plan' = DOMAIN plan
      /\ \A x \in DOMAIN plan :
            /\ plan'[x].session = plan[x].session
            /\ plan'[x].kind = plan[x].kind
            /\ plan'[x].live => plan[x].live
  BY CascadedTables
<1> QED
  BY <1>1 DEF NetControlOf

LEMMA NetControlAppend ==
    ASSUME TypeOK, NEW row \in PlanRow, plan' = Append(plan, row)
    PROVE  \A s : NetControlOf(s)' =
               NetControlOf(s) \cup {x \in {Len(plan) + 1} : row.live /\ row.session = s
                                                             /\ row.kind = "net_control"}
<1>1. /\ DOMAIN plan' = 1..(Len(plan) + 1) /\ DOMAIN plan = 1..Len(plan) /\ Len(plan) \in Nat
      /\ \A x \in 1..Len(plan) : plan'[x] = plan[x]
      /\ plan'[Len(plan) + 1] = row
  BY AppendProperties, LenProperties DEF TypeOK
<1>2. DOMAIN plan' = DOMAIN plan \cup {Len(plan) + 1}
  BY <1>1
<1> QED
  BY <1>1, <1>2 DEF NetControlOf

\* The copy of a schedule adds rows of the session that opens, none for Net Control.
LEMMA PlanCopied ==
    ASSUME TypeOK, NEW p \in Slots, CopyTemplates(p)
    PROVE  /\ \A x \in DOMAIN plan : x \in DOMAIN plan' /\ plan'[x] = plan[x]
           /\ \A x \in DOMAIN plan' \ DOMAIN plan :
                 /\ plan'[x].kind # "net_control" /\ plan'[x].schedule = Null
                 /\ plan'[x].session = req[p].session
<1> DEFINE r == req[p]
           n == Cardinality(Members(r.schedule, {"shift"}))
           a == Copies("position", r.session, r.copies)
           b == Copies("shift", r.session, n)
<1>1. r.session \in Nat /\ r.copies \in Nat /\ n \in Nat
  BY TableFacts, MembersCounted DEF Request
<1>2. a \in Seq(PlanRow) /\ Len(a) = r.copies
  <2> HIDE DEF r
  <2>1. "position" \in {"position", "shift"}
    OBVIOUS
  <2> QED
    BY <1>1, <2>1, CopiesRows
<1>3. b \in Seq(PlanRow) /\ Len(b) = n
  <2> HIDE DEF r, n
  <2>1. "shift" \in {"position", "shift"}
    OBVIOUS
  <2> QED
    BY <1>1, <2>1, CopiesRows
<1> DEFINE Copied(row) == row.kind # "net_control" /\ row.schedule = Null /\ row.session = r.session
<1>4. \A i \in 1..Len(a) : Copied(a[i])
  BY <1>1, <1>2 DEF Copies, Planned
<1>5. \A i \in 1..Len(b) : Copied(b[i])
  BY <1>1, <1>3 DEF Copies, Planned
<1>6. plan' = (plan \o a) \o b
  BY DEF CopyTemplates
<1> HIDE DEF a, b, n
<1>7. /\ plan \o a \in Seq(PlanRow) /\ Len(plan \o a) = Len(plan) + Len(a)
      /\ \A i \in 1..(Len(plan) + Len(a)) : (plan \o a)[i] =
             IF i <= Len(plan) THEN plan[i] ELSE a[i - Len(plan)]
  BY <1>2, ConcatProperties DEF TypeOK
<1>8. /\ plan' \in Seq(PlanRow) /\ Len(plan') = Len(plan) + Len(a) + Len(b)
      /\ \A i \in 1..(Len(plan \o a) + Len(b)) : plan'[i] =
             IF i <= Len(plan \o a) THEN (plan \o a)[i] ELSE b[i - Len(plan \o a)]
  BY <1>3, <1>6, <1>7, ConcatProperties
<1>9. /\ Len(plan) \in Nat /\ Len(a) \in Nat /\ Len(b) \in Nat
      /\ DOMAIN plan' = 1..(Len(plan) + Len(a) + Len(b)) /\ DOMAIN plan = 1..Len(plan)
  BY <1>2, <1>3, <1>8, TableFacts, LenProperties
<1>10. \A x \in 1..Len(plan) : plan'[x] = plan[x]
  BY <1>7, <1>8, <1>9
<1>11. ASSUME NEW x \in DOMAIN plan' \ DOMAIN plan
       PROVE  Copied(plan'[x])
  <2>1. CASE x \in (Len(plan) + 1)..(Len(plan) + Len(a))
    <3>1. plan'[x] = a[x - Len(plan)] /\ x - Len(plan) \in 1..Len(a)
      BY <1>7, <1>8, <1>9, <2>1
    <3> QED
      BY <1>4, <3>1
  <2>2. CASE x \in (Len(plan) + Len(a) + 1)..(Len(plan) + Len(a) + Len(b))
    <3>1. plan'[x] = b[x - Len(plan \o a)] /\ x - Len(plan \o a) \in 1..Len(b)
      BY <1>7, <1>8, <1>9, <2>2
    <3> QED
      BY <1>5, <3>1
  <2> QED
    BY <1>9, <2>1, <2>2
<1> QED
  BY <1>9, <1>10, <1>11

LEMMA NetControlCopies ==
    ASSUME TypeOK, NEW p \in Slots, CopyTemplates(p)
    PROVE  \A s : NetControlOf(s)' \subseteq NetControlOf(s)
BY PlanCopied DEF NetControlOf

LEMMA NetControlStart ==
    ASSUME NetControlInv, IndexInv', NEW p \in Slots, NEW offline \in BOOLEAN, NEW duty, NEW k,
           StartSession(p, offline, duty, k)
    PROVE  NetControlInv'
<1> DEFINE n == Len(sessions) + 1
           step == IF offline THEN "stamp" ELSE "net_control"
           r == [Idle EXCEPT !.step = step, !.session = n, !.callsign = duty, !.schedule = k]
<1>1. TypeOK /\ KnownKeys /\ RowKeys /\ Len(sessions) \in Nat
  BY TableFacts DEF NetControlInv, IndexInv, KnownKeys
<1>2. req[p].step = "idle" /\ Continue(p, r) /\ plan' = plan
  BY DEF StartSession, At
<1>3. r.session = n
  <2> HIDE DEF step
  <2> QED BY DEF Idle
<1> HIDE DEF r
<1>4. \A q \in Slots : req'[q] = IF q = p THEN r ELSE req[q]
  BY <1>1, <1>2, OtherRequests
<1>5. NetControlOf(n) = {}
  BY <1>1, TableFacts DEF NetControlOf, RowKeys, PlanRow
<1>6. \A q \in Slots : req[q].session # n
  BY <1>1, TableFacts DEF KnownKeys, RequestKeys, Request
<1>7. \A s : NetControlOf(s)' = NetControlOf(s)
  BY <1>2 DEF NetControlOf
<1>8. \A q \in Slots, s \in Nat : Opening(q, s)' =>
          \/ s = n /\ q = p
          \/ s # n /\ Opening(q, s)
  BY <1>3, <1>4, <1>6 DEF Opening
<1> QED
  BY <1>5, <1>7, <1>8 DEF NetControlInv

LEMMA NetControlCreate ==
    ASSUME NetControlInv, IndexInv', NEW p \in Slots, CreateNetControl(p)
    PROVE  NetControlInv'
<1> PICK s0 : s0 = req[p].session
  OBVIOUS
<1> DEFINE row == Planned("net_control", s0, Null)
<1>1. TypeOK /\ req[p] \in Request /\ req[p].step = "net_control"
  BY TableFacts DEF NetControlInv, IndexInv, CreateNetControl, At
<1>2. s0 \in Nat \ {Null}
  BY <1>1, TableFacts DEF CreateNetControl, Writable, Live, Null
<1>3. row \in PlanRow /\ row.session = s0 /\ plan' = Append(plan, row)
  BY <1>2 DEF Planned, PlanRow, Null, CreateNetControl
<1>4. PICK r : Continue(p, r) /\ r.step \notin {"stamp", "net_control"}
  <2> DEFINE r1 == [req[p] EXCEPT !.position = Len(plan) + 1, !.seen = Len(log)]
             r2 == [r1 EXCEPT !.step = "duty"]
             t  == IF r1.callsign = NoCallsign THEN AfterDuty(r1) ELSE r2
  <2>1. Continue(p, t)
    BY DEF CreateNetControl
  <2>2. r1 \in Request /\ r2.step = "duty"
    <3>1. Len(plan) + 1 \in Nat /\ Len(log) \in Nat
      BY <1>1, TableFacts
    <3>2. r1 \in Request
      BY <1>1, <3>1 DEF Request
    <3> HIDE DEF r1
    <3> QED
      BY <3>2 DEF Request
  <2>3. AfterDuty(r1).step \notin {"stamp", "net_control"}
    <3> HIDE DEF r1
    <3>1. CASE r1.schedule = Null
      BY <3>1 DEF AfterDuty, Idle
    <3>2. CASE r1.schedule # Null
      BY <2>2, <3>2 DEF AfterDuty, Request
    <3> QED
      BY <3>1, <3>2
  <2>4. t.step \notin {"stamp", "net_control"}
    <3> HIDE DEF r1, r2
    <3> QED BY <2>2, <2>3
  <2> HIDE DEF t
  <2> QED
    BY <2>1, <2>4
<1> HIDE DEF row
<1>5. Opening(p, s0)
  BY <1>1 DEF Opening
<1>6. \A q \in Slots, s \in Nat : Opening(q, s)' => Opening(q, s) /\ q # p
  BY <1>1, <1>4, OpeningReply
<1>7. \A q \in Slots : ~Opening(q, s0)'
  BY <1>2, <1>5, <1>6 DEF NetControlInv
<1>8. NetControlOf(s0)' \subseteq {Len(plan) + 1}
  <2>1. NetControlOf(s0) = {}
    BY <1>2, <1>5 DEF NetControlInv
  <2> QED
    BY <1>1, <1>3, <2>1, NetControlAppend
<1>9. ASSUME NEW s, s # s0
      PROVE  NetControlOf(s)' = NetControlOf(s)
  <2>1. NetControlOf(s)' =
            NetControlOf(s) \cup {x \in {Len(plan) + 1} : row.live /\ row.session = s
                                                          /\ row.kind = "net_control"}
    BY <1>1, <1>3, NetControlAppend
  <2> QED
    BY <1>3, <1>9, <2>1
<1>10. ASSUME NEW s \in Nat \ {Null}
       PROVE  /\ \A x, y \in NetControlOf(s)' : x = y
              /\ \A q \in Slots : Opening(q, s)' =>
                    /\ NetControlOf(s)' = {}
                    /\ \A q2 \in Slots : Opening(q2, s)' => q = q2
  <2>1. CASE s = s0
    <3>1. \A x, y \in NetControlOf(s0)' : x = y
      BY <1>8
    <3> QED
      BY <1>7, <2>1, <3>1
  <2>2. CASE s # s0
    BY <1>6, <1>9, <2>2 DEF NetControlInv
  <2> QED
    BY <2>1, <2>2
<1> QED
  BY <1>10 DEF NetControlInv

LEMMA NetControlNext == NetControlInv /\ [Next]_vars => NetControlInv'
<1> SUFFICES ASSUME NetControlInv, [Next]_vars PROVE NetControlInv'
  OBVIOUS
<1>1. IndexInv' /\ TypeOK /\ \A p \in Slots : req[p] \in Request
  BY IndexNext, TableFacts DEF NetControlInv, IndexInv
<1>2. Idle.step \notin {"stamp", "net_control"}
  BY DEF Idle
<1>3. ASSUME plan' = plan
      PROVE  \A s : NetControlOf(s)' \subseteq NetControlOf(s)
  BY <1>3 DEF NetControlOf
<1>4. ASSUME NEW p \in Slots, NEW r, Continue(p, r), r.step \notin {"stamp", "net_control"},
             \A s : NetControlOf(s)' \subseteq NetControlOf(s)
      PROVE  NetControlInv'
  BY <1>1, <1>4, OpeningReply, NetControlFewer
<1>5. ASSUME NEW p \in Slots, Reply(p), plan' = plan
      PROVE  NetControlInv'
  BY <1>2, <1>3, <1>4, <1>5 DEF Reply
<1>6. ASSUME req' = req, \A s : NetControlOf(s)' \subseteq NetControlOf(s)
      PROVE  NetControlInv'
  BY <1>1, <1>6, NetControlFewer DEF Opening
<1>7. CASE Edit
  <2>1. req' = req
    BY <1>7, EditKeepsRequests
  <2>2. ASSUME NEW gone, plan' = Cascade(plan, gone)
        PROVE  \A s : NetControlOf(s)' \subseteq NetControlOf(s)
    BY <1>1, <2>2, NetControlCascade
  <2>3. ASSUME NEW kind \in {"position", "shift"}, NEW s0 \in Nat, NEW k \in Nat,
               plan' = Append(plan, Planned(kind, s0, k))
        PROVE  \A s : NetControlOf(s)' \subseteq NetControlOf(s)
    <3> DEFINE row == Planned(kind, s0, k)
    <3>1. row \in PlanRow /\ row.kind # "net_control"
      BY DEF Planned, PlanRow
    <3>2. plan' = Append(plan, row)
      BY <2>3
    <3> HIDE DEF row
    <3> QED
      BY <1>1, <3>1, <3>2, NetControlAppend
  <2>4. ASSUME NEW kind \in {"position", "shift"}, NEW k \in DOMAIN schedules, CreateMember(k, kind)
        PROVE  \A s : NetControlOf(s)' \subseteq NetControlOf(s)
    <3>1. k \in Nat /\ Null \in Nat
      BY <1>1, TableFacts DEF Null
    <3> QED
      BY <2>3, <2>4, <3>1 DEF CreateMember
  <2>5. ASSUME NEW kind \in {"position", "shift"}, NEW s0 \in DOMAIN sessions, CreateLive(s0, kind)
        PROVE  \A s : NetControlOf(s)' \subseteq NetControlOf(s)
    <3>1. s0 \in Nat /\ Null \in Nat
      BY <1>1, TableFacts DEF Null
    <3> QED
      BY <2>3, <2>5, <3>1 DEF CreateLive
  <2>6. \A s : NetControlOf(s)' \subseteq NetControlOf(s)
    BY <1>3, <1>7, <2>2, <2>4, <2>5 DEF Edit, DeleteSession, CreateSchedule,
       DeleteSchedule, DeletePlanned, DeleteCheckin
  <2> QED
    BY <1>6, <2>1, <2>6
<1>8. ASSUME NEW p \in Slots, Begin(p) PROVE NetControlInv'
  <2>1. ASSUME NEW u, NEW x, NEW c, BeginSignOn(p, u, x, c) PROVE NetControlInv'
    <3> DEFINE r == [Idle EXCEPT !.step = "occupant", !.user = u, !.session = plan[x].session,
                                 !.position = x, !.callsign = c]
    <3>1. Continue(p, r) /\ plan' = plan /\ r.step \notin {"stamp", "net_control"}
      BY <2>1 DEF BeginSignOn, Idle
    <3> HIDE DEF r
    <3> QED
      BY <1>3, <1>4, <3>1
  <2>2. ASSUME NEW u, NEW x, BeginSignOff(p, u, x) PROVE NetControlInv'
    <3>1. PICK o : Continue(p, [Idle EXCEPT !.step = "sign_off", !.user = u,
                                            !.session = log[o].session, !.outgoing = o])
      BY <2>2 DEF BeginSignOff
    <3> DEFINE r == [Idle EXCEPT !.step = "sign_off", !.user = u,
                                 !.session = log[o].session, !.outgoing = o]
    <3>2. Continue(p, r) /\ plan' = plan /\ r.step \notin {"stamp", "net_control"}
      BY <2>2, <3>1 DEF BeginSignOff, Idle
    <3> HIDE DEF r
    <3> QED
      BY <1>3, <1>4, <3>2
  <2>3. ASSUME NEW s, BeginEnd(p, s) PROVE NetControlInv'
    <3> DEFINE r == [Idle EXCEPT !.step = "end", !.session = s]
    <3>1. Continue(p, r) /\ plan' = plan /\ r.step \notin {"stamp", "net_control"}
      BY <2>3 DEF BeginEnd, Idle
    <3> HIDE DEF r
    <3> QED
      BY <1>3, <1>4, <3>1
  <2> QED
    BY <1>1, <1>8, <2>1, <2>2, <2>3, NetControlStart DEF Begin
<1>9. ASSUME NEW p \in Slots, Proceed(p) PROVE NetControlInv'
  <2>1. CASE StampEnded(p)
    <3> DEFINE r == [req[p] EXCEPT !.step = "net_control"]
    <3>1. r.session = req[p].session /\ req[p].step = "stamp"
      BY <1>1, <2>1 DEF Request, StampEnded, At
    <3>2. plan' = plan /\ Continue(p, r)
      BY <2>1 DEF StampEnded
    <3> HIDE DEF r
    <3>3. \A q \in Slots : req'[q] = IF q = p THEN r ELSE req[q]
      BY <1>1, <3>2, OtherRequests
    <3>4. \A s : \A q \in Slots : Opening(q, s)' => Opening(q, s)
      BY <3>1, <3>3 DEF Opening
    <3>5. \A s : NetControlOf(s)' \subseteq NetControlOf(s)
      BY <1>3, <3>2
    <3> QED
      BY <1>1, <3>4, <3>5, NetControlFewer
  <2>2. CASE ReadTemplates(p)
    <3> DEFINE n == Cardinality(Members(req[p].schedule, {"position"}))
               r == [req[p] EXCEPT !.step = "copy", !.copies = n]
    <3>1. Continue(p, r) /\ plan' = plan
      BY <2>2 DEF ReadTemplates
    <3>2. r.step \notin {"stamp", "net_control"}
      <4> HIDE DEF n
      <4> QED BY <1>1 DEF Request
    <3> HIDE DEF r
    <3> QED
      BY <1>3, <1>4, <3>1, <3>2
  <2>3. CASE SignOnDuty(p)
    <3>1. Continue(p, AfterDuty(req[p])) /\ plan' = plan
      BY <2>3 DEF SignOnDuty
    <3>2. AfterDuty(req[p]).step \notin {"stamp", "net_control"}
      BY <1>1, <1>2 DEF AfterDuty, Request
    <3> QED
      BY <1>3, <1>4, <3>1, <3>2
  <2>4. CASE CopyTemplates(p)
    BY <1>1, <1>2, <1>4, <2>4, NetControlCopies DEF CopyTemplates, Reply
  <2>5. CASE ReadOccupant(p)
    <3>1. PICK o : \/ Continue(p, [req[p] EXCEPT !.step = "sign_on", !.outgoing = o,
                                                  !.seen = Len(log)])
                   \/ Reply(p)
      BY <2>5 DEF ReadOccupant
    <3> DEFINE r == [req[p] EXCEPT !.step = "sign_on", !.outgoing = o, !.seen = Len(log)]
    <3>2. r.step \notin {"stamp", "net_control"} /\ plan' = plan
      BY <1>1, <2>5 DEF Request, ReadOccupant
    <3>3. CASE Continue(p, r)
      <4> HIDE DEF r
      <4> QED BY <1>3, <1>4, <3>2, <3>3
    <3> QED
      BY <1>5, <3>1, <3>2, <3>3
  <2>6. CASE SignOn(p) \/ SignOff(p) \/ EndSession(p) \/ Refuse(p)
    BY <1>5, <2>6 DEF SignOn, SignOff, EndSession, Refuse
  <2> QED
    BY <1>1, <1>9, <2>1, <2>2, <2>3, <2>4, <2>5, <2>6, NetControlCreate DEF Proceed
<1>10. CASE UNCHANGED vars
  BY <1>3, <1>6, <1>10 DEF vars
<1> QED
  BY <1>5, <1>7, <1>8, <1>9, <1>10 DEF Next, Fail

\* No interleaving of starts, copies, edits and failures gives a session a
\* second Net Control position, or one that it was not yet to have.
THEOREM NetControlIsUnique == Spec => []OneNetControl
<1>1. Init => NetControlInv
  BY IndexInit DEF Init, NetControlInv, NetControlOf, Opening, Idle
<1>2. NetControlInv /\ [Next]_vars => NetControlInv'
  BY NetControlNext
<1>3. NetControlInv => OneNetControl
  BY TableFacts DEF NetControlInv, IndexInv, OneNetControl, Null
<1> QED
  BY <1>1, <1>2, <1>3, PTL DEF Spec
(***************************************************************************)
(* An ended session.                                                       *)
(***************************************************************************)

SigningOn == {"stamp", "net_control", "duty", "occupant", "sign_on"}

NobodySigns(s) == \A p \in Slots : ~Signing(p, s)

NoneLogged(s) == \A i \in DOMAIN log' \ DOMAIN log : log'[i].session # s

\* A request that does not come to sign on to session s leaves that to the others.
LEMMA EndedRequest ==
    ASSUME TypeOK, NEW s, NobodySigns(s), NEW p \in Slots, NEW r, Continue(p, r),
           ~(r.session = s /\ r.step \in SigningOn)
    PROVE  NobodySigns(s)'
<1>1. \A q \in Slots : req'[q] = IF q = p THEN r ELSE req[q]
  BY DEF TypeOK, Continue
<1> QED
  BY <1>1 DEF NobodySigns, Signing, SigningOn

LEMMA EndedReply ==
    ASSUME TypeOK, NEW s, NobodySigns(s), NEW p \in Slots, Reply(p)
    PROVE  NobodySigns(s)'
<1>1. Idle.step \notin SigningOn
  BY DEF Idle, SigningOn
<1> QED
  BY <1>1, EndedRequest DEF Reply

\* A row at the end of the log, for another session.
LEMMA EndedLogged ==
    ASSUME TypeOK, NEW s, NEW rows \in Seq(Checkin), Len(rows) = Len(log), NEW row,
           log' = Append(rows, row), row.session # s
    PROVE  NoneLogged(s)
<1>1. DOMAIN log = 1..Len(log) /\ Len(log) \in Nat
  BY TableFacts
<1>2. DOMAIN log' = 1..(Len(log) + 1) /\ log'[Len(log) + 1] = row
  BY AppendProperties, LenProperties
<1> QED
  BY <1>1, <1>2 DEF NoneLogged

LEMMA EndedBegin ==
    ASSUME TypeOK, NEW s \in DOMAIN sessions, sessions[s].ended, NobodySigns(s),
           NEW p \in Slots, Begin(p)
    PROVE  NobodySigns(s)' /\ NoneLogged(s)
<1>1. log' = log
  BY BeginShape
<1>2. ASSUME NEW offline \in BOOLEAN, NEW duty, NEW k, StartSession(p, offline, duty, k)
      PROVE  NobodySigns(s)'
  <2> DEFINE r == [Idle EXCEPT !.step = IF offline THEN "stamp" ELSE "net_control",
                               !.session = Len(sessions) + 1, !.callsign = duty,
                               !.schedule = k]
  <2>1. Continue(p, r) /\ r.session = Len(sessions) + 1
    BY <1>2 DEF StartSession, Idle
  <2>2. s # Len(sessions) + 1
    BY TableFacts
  <2> HIDE DEF r
  <2> QED
    BY <2>1, <2>2, EndedRequest
<1>3. ASSUME NEW u, NEW x, NEW c, BeginSignOn(p, u, x, c)
      PROVE  NobodySigns(s)'
  <2> DEFINE r == [Idle EXCEPT !.step = "occupant", !.user = u, !.session = plan[x].session,
                               !.position = x, !.callsign = c]
  <2>1. Continue(p, r) /\ r.session = plan[x].session /\ ~sessions[plan[x].session].ended
    BY <1>3 DEF BeginSignOn, Idle
  <2> HIDE DEF r
  <2> QED
    BY <2>1, EndedRequest
<1>4. ASSUME NEW u, NEW x, BeginSignOff(p, u, x)
      PROVE  NobodySigns(s)'
  <2>1. PICK o \in OpenRows(x) :
           Continue(p, [Idle EXCEPT !.step = "sign_off", !.user = u,
                                    !.session = log[o].session, !.outgoing = o])
    BY <1>4 DEF BeginSignOff
  <2> DEFINE r == [Idle EXCEPT !.step = "sign_off", !.user = u,
                               !.session = log[o].session, !.outgoing = o]
  <2>2. Continue(p, r) /\ r.step \notin SigningOn
    BY <2>1 DEF Idle, SigningOn
  <2> HIDE DEF r
  <2> QED
    BY <2>2, EndedRequest
<1>5. ASSUME NEW t, BeginEnd(p, t)
      PROVE  NobodySigns(s)'
  <2> DEFINE r == [Idle EXCEPT !.step = "end", !.session = t]
  <2>1. Continue(p, r) /\ r.step \notin SigningOn
    BY <1>5 DEF BeginEnd, Idle, SigningOn
  <2> HIDE DEF r
  <2> QED
    BY <2>1, EndedRequest
<1>6. NobodySigns(s)'
  BY <1>2, <1>3, <1>4, <1>5 DEF Begin
<1> QED
  BY <1>1, <1>6 DEF NoneLogged

LEMMA EndedProceed ==
    ASSUME TypeOK, NEW s, NobodySigns(s), NEW p \in Slots, Proceed(p)
    PROVE  NobodySigns(s)' /\ NoneLogged(s)
<1> DEFINE r == req[p]
<1>1. r \in Request /\ log \in Seq(Checkin)
  BY TableFacts DEF TypeOK
<1>2. r.step \in SigningOn => r.session # s
  BY DEF NobodySigns, Signing, SigningOn
<1>3. \A q \in Request : AfterDuty(q).step \notin SigningOn
  BY DEF AfterDuty, Idle, Request, SigningOn
<1>4. CASE StampEnded(p)
  <2> DEFINE r2 == [r EXCEPT !.step = "net_control"]
  <2>1. log' = log /\ Continue(p, r2) /\ r2.session = r.session /\ r.step \in SigningOn
    BY <1>1, <1>4 DEF StampEnded, Request, At, SigningOn
  <2> HIDE DEF r2, r
  <2> QED
    BY <1>2, <2>1, EndedRequest DEF NoneLogged
<1>5. CASE CreateNetControl(p)
  <2> DEFINE r1 == [r EXCEPT !.position = Len(plan) + 1, !.seen = Len(log)]
             r2 == [r1 EXCEPT !.step = "duty"]
             r3 == IF r1.callsign = NoCallsign THEN AfterDuty(r1) ELSE r2
  <2>1. log' = log /\ Continue(p, r3) /\ r.step \in SigningOn
    BY <1>5 DEF CreateNetControl, At, SigningOn
  <2>2. Len(plan) + 1 \in Nat /\ Len(log) \in Nat
    BY TableFacts
  <2>3. r1 \in Request /\ r2.session = r.session
    BY <1>1, <2>2 DEF Request
  <2>4. r3.step \notin SigningOn \/ r3.session = r.session
    <3> HIDE DEF r1, r2
    <3> QED BY <1>3, <2>3
  <2> HIDE DEF r3, r
  <2> QED
    BY <1>2, <2>1, <2>4, EndedRequest DEF NoneLogged
<1>6. CASE SignOnDuty(p)
  <2> DEFINE row == Shift(r.session, r.callsign, r.position, r.seen)
  <2>1. log' = Append(log, row) /\ Continue(p, AfterDuty(r)) /\ r.step \in SigningOn
    BY <1>6 DEF SignOnDuty, At, SigningOn
  <2>2. row.session = r.session
    BY DEF Shift
  <2>3. NoneLogged(s)
    <3> HIDE DEF row
    <3> QED BY <1>1, <1>2, <2>1, <2>2, EndedLogged
  <2> QED
    BY <1>1, <1>3, <2>1, <2>3, EndedRequest
<1>7. CASE ReadTemplates(p)
  <2> DEFINE n == Cardinality(Members(r.schedule, {"position"}))
             r2 == [r EXCEPT !.step = "copy", !.copies = n]
  <2>1. log' = log /\ Continue(p, r2)
    BY <1>7 DEF ReadTemplates
  <2>2. r2.step \notin SigningOn
    <3> HIDE DEF n
    <3> QED BY <1>1 DEF Request, SigningOn
  <2> HIDE DEF r2
  <2> QED
    BY <2>1, <2>2, EndedRequest DEF NoneLogged
<1>8. CASE ReadOccupant(p)
  <2>1. log' = log /\ r.step \in SigningOn
    BY <1>8 DEF ReadOccupant, At, SigningOn
  <2>2. PICK outgoing :
           \/ Continue(p, [r EXCEPT !.step = "sign_on", !.outgoing = outgoing, !.seen = Len(log)])
           \/ Reply(p)
    BY <1>8 DEF ReadOccupant
  <2> DEFINE r2 == [r EXCEPT !.step = "sign_on", !.outgoing = outgoing, !.seen = Len(log)]
  <2>3. r2.session = r.session
    BY <1>1 DEF Request
  <2>4. NobodySigns(s)'
    <3>1. CASE Continue(p, r2)
      <4> HIDE DEF r2, r
      <4> QED BY <1>2, <2>1, <2>3, <3>1, EndedRequest
    <3> QED
      BY <2>2, <3>1, EndedReply
  <2> QED
    BY <2>1, <2>4 DEF NoneLogged
<1>9. CASE SignOn(p)
  <2> DEFINE row == Shift(r.session, r.callsign, r.position, r.seen)
             rows == Closing(log, r.outgoing)
  <2>1. log' = Append(rows, row) /\ Reply(p) /\ r.step \in SigningOn
    BY <1>9 DEF SignOn, At, SigningOn
  <2>2. row.session = r.session /\ rows \in Seq(Checkin) /\ Len(rows) = Len(log)
    BY <1>1, ClosingRows DEF Shift
  <2>3. NoneLogged(s)
    <3> HIDE DEF row, rows
    <3> QED BY <1>2, <2>1, <2>2, EndedLogged
  <2> QED
    BY <2>1, <2>3, EndedReply
<1>10. CASE SignOff(p)
  <2>1. DOMAIN log' = DOMAIN log /\ Reply(p)
    BY <1>10 DEF SignOff, Closing
  <2> QED
    BY <2>1, EndedReply DEF NoneLogged
<1>11. CASE CopyTemplates(p) \/ EndSession(p) \/ Refuse(p)
  <2>1. log' = log /\ Reply(p)
    BY <1>11 DEF CopyTemplates, EndSession, Refuse
  <2> QED
    BY <2>1, EndedReply DEF NoneLogged
<1> QED
  BY <1>4, <1>5, <1>6, <1>7, <1>8, <1>9, <1>10, <1>11 DEF Proceed

\* Once a session has ended and the sign-ons that had seen it open are through, nobody is
\* signed on to it any more, however many requests there are.
THEOREM EndedSessionsStay == Spec => EndedStaysQuiet
<1>1. IndexInv /\ [Next]_vars =>
        [\A s \in DOMAIN sessions :
           sessions[s].ended /\ (\A p \in Slots : ~Signing(p, s)) =>
               /\ \A p \in Slots : ~Signing(p, s)'
               /\ \A i \in DOMAIN log' \ DOMAIN log : log'[i].session # s]_vars
  <2> SUFFICES ASSUME IndexInv, Next, NEW s \in DOMAIN sessions, sessions[s].ended,
                      NobodySigns(s)
               PROVE  NobodySigns(s)' /\ NoneLogged(s)
    BY DEF NobodySigns, NoneLogged
  <2>1. TypeOK /\ TypeOK'
    BY IndexNext DEF IndexInv
  <2>2. CASE Edit
    <3>1. req' = req /\ Len(log') = Len(log)
      BY <2>1, <2>2, EditThins
    <3>2. DOMAIN log' = DOMAIN log
      BY <2>1, <3>1, LenProperties DEF TypeOK
    <3> QED
      BY <3>1, <3>2 DEF NobodySigns, Signing, NoneLogged
  <2>3. ASSUME NEW p \in Slots, Begin(p) PROVE NobodySigns(s)' /\ NoneLogged(s)
    BY <2>1, <2>3, EndedBegin
  <2>4. ASSUME NEW p \in Slots, Proceed(p) PROVE NobodySigns(s)' /\ NoneLogged(s)
    BY <2>1, <2>4, EndedProceed
  <2>5. ASSUME NEW p \in Slots, Fail(p) PROVE NobodySigns(s)' /\ NoneLogged(s)
    BY <2>1, <2>5, EndedReply DEF Fail, NoneLogged
  <2> QED
    BY <2>2, <2>3, <2>4, <2>5 DEF Next
<1> QED
  BY <1>1, IndexAlways, PTL DEF Spec, EndedStaysQuiet

(***************************************************************************)
(* Referential: with it, a request that is going to sign somebody on knows *)
(* a position of its own session.                                          *)
(***************************************************************************)

RowPlaced(x) ==
    plan[x].live =>
        \/ plan[x].schedule = Null /\ Live(sessions, plan[x].session)
        \/ /\ plan[x].session = Null /\ Live(schedules, plan[x].schedule)
           /\ plan[x].kind # "net_control"

RowLogged(i) ==
    log[i].live =>
        /\ Live(sessions, log[i].session)
        /\ log[i].position # Null =>
              /\ Live(plan, log[i].position)
              /\ plan[log[i].position].session = log[i].session

Holding == {"duty", "occupant", "sign_on"}

\* The position of request r is one of the session it is for.
Holds(table, r) == r.position \in DOMAIN table /\ table[r.position].session = r.session

RefInv ==
    /\ IndexInv
    /\ \A x \in DOMAIN plan : RowPlaced(x)
    /\ \A i \in DOMAIN log : RowLogged(i)
    /\ \A p \in Slots : req[p].step \in Holding => Holds(plan, req[p])

\* Nothing of what rows refer to goes: rows of the plan stay and so do their parents.
Intact ==
    /\ \A s : Live(sessions, s) => Live(sessions', s)
    /\ \A k : Live(schedules, k) => Live(schedules', k)
    /\ \A x \in DOMAIN plan : x \in DOMAIN plan' /\ plan'[x] = plan[x]

\* The rows of the log before this step refer to what they did.
LogKept(i) ==
    i \in DOMAIN log /\ log'[i].session = log[i].session
    /\ log'[i].position = log[i].position /\ (log'[i].live => log[i].live)

\* What the requests hold after this step they held before, or it is in the plan now.
RequestsHold ==
    \A q \in Slots : req'[q].step \in Holding =>
        req'[q] = req[q] \/ Holds(plan', req'[q])

LEMMA OneRequest ==
    ASSUME TypeOK, NEW p \in Slots, NEW r, Continue(p, r),
           r.step \in Holding => Holds(plan', r)
    PROVE  RequestsHold
BY DEF TypeOK, Continue, RequestsHold

LEMMA RefKeep ==
    ASSUME RefInv, IndexInv', Intact, RequestsHold,
           \A x \in DOMAIN plan' : x \in DOMAIN plan \/ RowPlaced(x)',
           \A i \in DOMAIN log' : LogKept(i) \/ RowLogged(i)'
    PROVE  RefInv'
<1>1. ASSUME NEW x \in DOMAIN plan' PROVE RowPlaced(x)'
  BY DEF RefInv, RowPlaced, Intact
<1>2. ASSUME NEW i \in DOMAIN log' PROVE RowLogged(i)'
  <2>1. CASE LogKept(i)
    <3>1. RowLogged(i) /\ (log'[i].live => log[i].live)
      BY <2>1 DEF RefInv, LogKept
    <3>2. \A x : Live(plan, x) => Live(plan', x) /\ plan'[x] = plan[x]
      BY DEF Intact, Live
    <3> QED
      BY <2>1, <3>1, <3>2 DEF LogKept, RowLogged, Intact
  <2> QED
    BY <2>1
<1>3. ASSUME NEW q \in Slots, req'[q].step \in Holding PROVE Holds(plan', req'[q])
  <2>1. Holds(plan, req[q]) => Holds(plan', req[q])
    BY DEF Holds, Intact
  <2> QED
    BY <1>3, <2>1 DEF RefInv, RequestsHold
<1> QED
  BY <1>1, <1>2, <1>3 DEF RefInv

LEMMA RefQuiet ==
    ASSUME RefInv, IndexInv', UNCHANGED <<schedules, plan>>,
           \A s : Live(sessions, s) => Live(sessions', s),
           \A i \in DOMAIN log' : LogKept(i) \/ RowLogged(i)',
           NEW p \in Slots, NEW r, Continue(p, r), r.step \in Holding => Holds(plan, r)
    PROVE  RefInv'
<1>1. Intact
  BY DEF Intact
<1> QED
  BY <1>1, RefKeep, OneRequest DEF Holds, RefInv, IndexInv
LEMMA RefReply ==
    ASSUME RefInv, IndexInv', UNCHANGED <<schedules, plan, log>>, NEW p \in Slots, Reply(p),
           \A s : Live(sessions, s) => Live(sessions', s)
    PROVE  RefInv'
<1>1. Idle.step \notin Holding
  BY DEF Idle, Holding
<1>2. \A i \in DOMAIN log' : LogKept(i)
  BY DEF LogKept
<1> QED
  BY <1>1, <1>2, RefQuiet DEF Reply

LEMMA RefBegin ==
    ASSUME RefInv, IndexInv', NEW p \in Slots, Begin(p)
    PROVE  RefInv'
<1>1. IndexInv /\ TypeOK
  BY DEF RefInv, IndexInv
<1>2. \A i \in DOMAIN log : log' = log => LogKept(i)
  BY DEF LogKept
<1>3. ASSUME NEW offline \in BOOLEAN, NEW duty, NEW k, StartSession(p, offline, duty, k)
      PROVE  RefInv'
  <2> DEFINE row == [live |-> TRUE, ended |-> FALSE, offline |-> offline, locked |-> FALSE]
             r == [Idle EXCEPT !.step = IF offline THEN "stamp" ELSE "net_control",
                               !.session = Len(sessions) + 1, !.callsign = duty,
                               !.schedule = k]
  <2>1. /\ Continue(p, r) /\ UNCHANGED <<schedules, plan, log>> /\ r.step \notin Holding
        /\ sessions' = Append(sessions, row)
    BY <1>3 DEF StartSession, Idle, Holding
  <2> HIDE DEF row, r
  <2>2. \A s : Live(sessions, s) => Live(sessions', s)
    <3>1. row \in Session /\ sessions \in Seq(Session)
      BY <1>1 DEF row, Session, TypeOK
    <3>2. \A s \in DOMAIN sessions : s \in DOMAIN sessions' /\ sessions'[s] = sessions[s]
      BY <1>1, <2>1, <3>1, TableFacts, AppendProperties, LenProperties
    <3> QED
      BY <3>2 DEF Live
  <2> QED
    BY <1>2, <2>1, <2>2, RefQuiet
<1>4. ASSUME NEW u, NEW x \in DOMAIN plan, NEW c, BeginSignOn(p, u, x, c)
      PROVE  RefInv'
  <2> DEFINE r == [Idle EXCEPT !.step = "occupant", !.user = u, !.session = plan[x].session,
                               !.position = x, !.callsign = c]
  <2>1. Continue(p, r) /\ UNCHANGED <<sessions, schedules, plan, log>>
    BY <1>4 DEF BeginSignOn
  <2>2. Holds(plan, r)
    BY DEF Idle, Holds
  <2> HIDE DEF r
  <2> QED
    BY <1>2, <2>1, <2>2, RefQuiet
<1>5. ASSUME NEW u, NEW x, BeginSignOff(p, u, x)
      PROVE  RefInv'
  <2>1. PICK o \in OpenRows(x) :
           Continue(p, [Idle EXCEPT !.step = "sign_off", !.user = u,
                                    !.session = log[o].session, !.outgoing = o])
    BY <1>5 DEF BeginSignOff
  <2> DEFINE r == [Idle EXCEPT !.step = "sign_off", !.user = u,
                               !.session = log[o].session, !.outgoing = o]
  <2>2. Continue(p, r) /\ r.step \notin Holding /\ UNCHANGED <<sessions, schedules, plan, log>>
    BY <1>5, <2>1 DEF BeginSignOff, Idle, Holding
  <2> HIDE DEF r
  <2> QED
    BY <1>2, <2>2, RefQuiet
<1>6. ASSUME NEW t, BeginEnd(p, t)
      PROVE  RefInv'
  <2> DEFINE r == [Idle EXCEPT !.step = "end", !.session = t]
  <2>1. Continue(p, r) /\ r.step \notin Holding /\ UNCHANGED <<sessions, schedules, plan, log>>
    BY <1>6 DEF BeginEnd, Idle, Holding
  <2> HIDE DEF r
  <2> QED
    BY <1>2, <2>1, RefQuiet
<1> QED
  BY <1>3, <1>4, <1>5, <1>6 DEF Begin

\* A session's row with another of its columns changed is as live as before.
LEMMA SessionStays ==
    ASSUME TypeOK, NEW t, \/ sessions' = [sessions EXCEPT ![t].ended = TRUE]
                          \/ sessions' = [sessions EXCEPT ![t].locked = TRUE]
    PROVE  \A s : Live(sessions, s) => Live(sessions', s)
<1>1. DOMAIN sessions' = DOMAIN sessions
  OBVIOUS
<1>2. ASSUME NEW s \in DOMAIN sessions, sessions[s].live PROVE sessions'[s].live
  <2>1. sessions[s] \in Session
    BY TableFacts
  <2>2. CASE s # t
    BY <1>2, <2>2
  <2>3. CASE s = t
    BY <1>2, <2>1, <2>3 DEF Session
  <2> QED
    BY <2>2, <2>3
<1> QED
  BY <1>1, <1>2 DEF Live

\* Rows for session r.session, of no schedule, added to the plan by request p.
LEMMA RefPlanned ==
    ASSUME RefInv, IndexInv', NEW p \in Slots, NEW r, Continue(p, r),
           UNCHANGED <<sessions, schedules, log>>,
           NEW s, Live(sessions, s),
           \A x \in DOMAIN plan : x \in DOMAIN plan' /\ plan'[x] = plan[x],
           \A x \in DOMAIN plan' \ DOMAIN plan : plan'[x].schedule = Null /\ plan'[x].session = s,
           r.step \in Holding => r.position \in DOMAIN plan' \ DOMAIN plan /\ r.session = s
    PROVE  RefInv'
<1>1. Intact
  BY DEF Intact
<1>2. \A x \in DOMAIN plan' : x \in DOMAIN plan \/ RowPlaced(x)'
  BY DEF RowPlaced
<1>3. \A i \in DOMAIN log' : LogKept(i)
  BY DEF LogKept
<1>4. r.step \in Holding => Holds(plan', r)
  BY DEF Holds
<1> QED
  BY <1>1, <1>2, <1>3, <1>4, RefKeep, OneRequest DEF RefInv, IndexInv

\* The row a request that holds a position adds to the log.
LEMMA RefLogged ==
    ASSUME RefInv, IndexInv', NEW p \in Slots, req[p].step \in Holding, Writable(req[p]),
           NEW r, Continue(p, r), r.step \notin Holding,
           UNCHANGED <<sessions, schedules, plan>>,
           NEW rows \in Seq(Checkin), Len(rows) = Len(log),
           \A i \in DOMAIN log : /\ rows[i].session = log[i].session
                                 /\ rows[i].position = log[i].position
                                 /\ rows[i].live => log[i].live,
           log' = Append(rows, Shift(req[p].session, req[p].callsign, req[p].position, req[p].seen))
    PROVE  RefInv'
<1> DEFINE row == Shift(req[p].session, req[p].callsign, req[p].position, req[p].seen)
<1>1. TypeOK /\ Holds(plan, req[p]) /\ DOMAIN log = 1..Len(log) /\ Len(log) \in Nat
  BY TableFacts DEF RefInv, IndexInv
<1>2. row.session = req[p].session /\ row.position = req[p].position
  BY DEF Shift
<1>3. Live(sessions, row.session) /\ (row.position # Null => Live(plan, row.position))
      /\ plan[row.position].session = row.session
  BY <1>1, <1>2 DEF Writable, Holds
<1> HIDE DEF row
<1>4. /\ DOMAIN log' = 1..(Len(log) + 1) /\ log'[Len(log) + 1] = row
      /\ \A i \in 1..Len(log) : log'[i] = rows[i]
  <2>1. log' = Append(rows, row)
    BY DEF row
  <2> QED
    BY <1>1, <2>1, AppendProperties, LenProperties
<1>5. ASSUME NEW i \in DOMAIN log' PROVE LogKept(i) \/ RowLogged(i)'
  <2>1. CASE i \in DOMAIN log
    BY <1>1, <1>4, <2>1 DEF LogKept
  <2>2. CASE i = Len(log) + 1
    BY <1>3, <1>4, <2>2 DEF RowLogged
  <2> QED
    BY <1>1, <1>4, <2>1, <2>2
<1> QED
  BY <1>5, RefQuiet
LEMMA ClosingKeeps ==
    ASSUME TypeOK, NEW o
    PROVE  /\ DOMAIN Closing(log, o) = DOMAIN log
           /\ \A i \in DOMAIN log :
                 /\ Closing(log, o)[i].session = log[i].session
                 /\ Closing(log, o)[i].position = log[i].position
                 /\ Closing(log, o)[i].live = log[i].live
<1>1. log \in Seq(Checkin) /\ \A i \in DOMAIN log : log[i] \in Checkin
  BY TableFacts DEF TypeOK
<1>2. /\ DOMAIN Closing(log, o) = DOMAIN log
      /\ \A i \in DOMAIN log : Closing(log, o)[i] =
            IF i = o THEN [log[i] EXCEPT !.open = FALSE] ELSE log[i]
  BY <1>1, ClosingRows
<1> QED
  BY <1>1, <1>2 DEF Checkin

LEMMA RefProceed ==
    ASSUME RefInv, IndexInv', NEW p \in Slots, Proceed(p)
    PROVE  RefInv'
<1> DEFINE r == req[p]
<1>1. TypeOK /\ r \in Request /\ log \in Seq(Checkin)
  BY TableFacts DEF RefInv, IndexInv, TypeOK
<1>2. \A q \in Request : AfterDuty(q).step \notin Holding
  BY DEF AfterDuty, Idle, Request, Holding
<1>3. \A s : sessions' = sessions => (Live(sessions, s) => Live(sessions', s))
  OBVIOUS
<1>4. \A i \in DOMAIN log : log' = log => LogKept(i)
  BY DEF LogKept
<1>5. CASE StampEnded(p)
  <2> DEFINE r2 == [r EXCEPT !.step = "net_control"]
  <2>1. /\ Continue(p, r2) /\ UNCHANGED <<schedules, plan, log>>
        /\ sessions' = [sessions EXCEPT ![req[p].session].ended = TRUE]
    BY <1>5 DEF StampEnded
  <2>2. r2.step \notin Holding
    BY <1>1 DEF Request, Holding
  <2>3. \A s : Live(sessions, s) => Live(sessions', s)
    BY <1>1, <2>1, SessionStays
  <2> HIDE DEF r2
  <2> QED
    BY <1>4, <2>1, <2>2, <2>3, RefQuiet
<1>6. CASE CreateNetControl(p)
  <2> DEFINE n == Len(plan) + 1
             row == Planned("net_control", r.session, Null)
             r1 == [r EXCEPT !.position = n, !.seen = Len(log)]
             r2 == [r1 EXCEPT !.step = "duty"]
             r3 == IF r1.callsign = NoCallsign THEN AfterDuty(r1) ELSE r2
  <2>1. /\ plan' = Append(plan, row) /\ Continue(p, r3) /\ Live(sessions, r.session)
        /\ UNCHANGED <<sessions, schedules, log>>
    BY <1>6 DEF CreateNetControl, Writable
  <2>2. n \in Nat /\ Len(log) \in Nat /\ DOMAIN plan = 1..Len(plan) /\ plan \in Seq(PlanRow)
    BY <1>1, TableFacts DEF TypeOK
  <2>3. r1 \in Request /\ r2.session = r.session /\ r2.position = n
    <3> HIDE DEF n
    <3> QED BY <1>1, <2>2 DEF Request
  <2>4. r3.step \in Holding => r3.position = n /\ r3.session = r.session
    <3> HIDE DEF r1, r2, n
    <3> QED BY <1>2, <2>3
  <2>5. row \in PlanRow /\ row.schedule = Null /\ row.session = r.session
    BY <1>1 DEF Planned, PlanRow, Request, Null
  <2> HIDE DEF row, r3
  <2>6. /\ \A x \in DOMAIN plan : x \in DOMAIN plan' /\ plan'[x] = plan[x]
        /\ n \in DOMAIN plan' /\ n \notin DOMAIN plan
        /\ \A x \in DOMAIN plan' \ DOMAIN plan : plan'[x] = row
    BY <2>1, <2>2, <2>5, AppendProperties, LenProperties
  <2> HIDE DEF n, r
  <2> QED
    BY <2>1, <2>4, <2>5, <2>6, RefPlanned
<1>7. CASE SignOnDuty(p)
  <2>1. /\ log' = Append(log, Shift(r.session, r.callsign, r.position, r.seen))
        /\ Continue(p, AfterDuty(r)) /\ r.step \in Holding /\ Writable(r)
        /\ UNCHANGED <<sessions, schedules, plan>>
    BY <1>7 DEF SignOnDuty, At, Holding
  <2> QED
    BY <1>1, <1>2, <2>1, RefLogged
<1>8. CASE ReadTemplates(p)
  <2> DEFINE n == Cardinality(Members(r.schedule, {"position"}))
             r2 == [r EXCEPT !.step = "copy", !.copies = n]
  <2>1. Continue(p, r2) /\ UNCHANGED <<sessions, schedules, plan, log>>
    BY <1>8 DEF ReadTemplates
  <2>2. r2.step \notin Holding
    <3> HIDE DEF n
    <3> QED BY <1>1 DEF Request, Holding
  <2> HIDE DEF r2
  <2> QED
    BY <1>3, <1>4, <2>1, <2>2, RefQuiet
<1>9. CASE CopyTemplates(p)
  <2>1. Continue(p, Idle) /\ UNCHANGED <<sessions, schedules, log>> /\ Live(sessions, r.session)
    BY <1>9 DEF CopyTemplates, Reply, Writable
  <2>2. Idle.step \notin Holding
    BY DEF Idle, Holding
  <2>3. /\ \A x \in DOMAIN plan : x \in DOMAIN plan' /\ plan'[x] = plan[x]
        /\ \A x \in DOMAIN plan' \ DOMAIN plan :
              plan'[x].schedule = Null /\ plan'[x].session = r.session
    BY <1>1, <1>9, PlanCopied
  <2> HIDE DEF r
  <2> QED
    BY <2>1, <2>2, <2>3, RefPlanned
<1>10. CASE ReadOccupant(p)
  <2>1. PICK o : \/ Continue(p, [r EXCEPT !.step = "sign_on", !.outgoing = o, !.seen = Len(log)])
                 \/ Reply(p)
    BY <1>10 DEF ReadOccupant
  <2> DEFINE r2 == [r EXCEPT !.step = "sign_on", !.outgoing = o, !.seen = Len(log)]
  <2>2. UNCHANGED <<sessions, schedules, plan, log>> /\ r.step \in Holding
    BY <1>10 DEF ReadOccupant, At, Holding
  <2>3. r2.session = r.session /\ r2.position = r.position
    BY <1>1 DEF Request
  <2>4. CASE Continue(p, r2)
    <3> HIDE DEF r2
    <3>1. Holds(plan, r2)
      BY <2>2, <2>3 DEF RefInv, Holds
    <3> QED
      BY <1>3, <1>4, <2>2, <2>4, <3>1, RefQuiet
  <2> QED
    BY <1>3, <2>1, <2>2, <2>4, RefReply
<1>11. CASE SignOn(p)
  <2> DEFINE rows == Closing(log, r.outgoing)
  <2>1. /\ log' = Append(rows, Shift(r.session, r.callsign, r.position, r.seen))
        /\ Continue(p, Idle) /\ r.step \in Holding /\ Writable(r)
        /\ UNCHANGED <<sessions, schedules, plan>>
    BY <1>11 DEF SignOn, At, Holding, Reply
  <2>2. rows \in Seq(Checkin) /\ Len(rows) = Len(log) /\ Idle.step \notin Holding
    BY <1>1, ClosingRows DEF Idle, Holding
  <2>3. \A i \in DOMAIN log : /\ rows[i].session = log[i].session
                              /\ rows[i].position = log[i].position
                              /\ rows[i].live => log[i].live
    BY <1>1, ClosingKeeps
  <2> HIDE DEF rows
  <2> QED
    BY <2>1, <2>2, <2>3, RefLogged
<1>12. CASE SignOff(p)
  <2>1. Continue(p, Idle) /\ Idle.step \notin Holding
        /\ UNCHANGED <<sessions, schedules, plan>> /\ log' = Closing(log, r.outgoing)
    BY <1>12 DEF SignOff, Reply, Idle, Holding
  <2>2. \A i \in DOMAIN log' : LogKept(i)
    BY <1>1, <2>1, ClosingKeeps DEF LogKept
  <2> QED
    BY <1>3, <2>1, <2>2, RefQuiet
<1>13. CASE EndSession(p)
  <2>1. Reply(p) /\ UNCHANGED <<schedules, plan, log>>
    BY <1>13 DEF EndSession
  <2>2. \A s : Live(sessions, s) => Live(sessions', s)
    BY <1>1, <1>13, SessionStays DEF EndSession
  <2> QED
    BY <2>1, <2>2, RefReply
<1>14. CASE Refuse(p)
  BY <1>3, <1>14, RefReply DEF Refuse
<1> QED
  BY <1>5, <1>6, <1>7, <1>8, <1>9, <1>10, <1>11, <1>12, <1>13, <1>14 DEF Proceed
\* A row that a cascade spares is as live as before.
LEMMA SparedLive ==
    ASSUME NEW table, NEW gone, NEW x, Live(table, x), x \notin gone
    PROVE  Live(Cascade(table, gone), x) /\ Cascade(table, gone)[x] = table[x]
BY DEF Live, Cascade

\* The tables have no row without a key.
LEMMA NoNullRow ==
    ASSUME TypeOK
    PROVE  /\ ~Live(sessions, Null)
           /\ Null \notin DOMAIN schedules /\ Null \notin DOMAIN plan
BY TableFacts DEF Live, Null

LEMMA RefDeleteSession ==
    ASSUME RefInv, IndexInv', NEW s \in DOMAIN sessions, DeleteSession(s)
    PROVE  RefInv'
<1> DEFINE gx == {x \in DOMAIN plan : plan[x].session = s}
           gi == {i \in DOMAIN log : log[i].session = s}
<1>1. TypeOK
  BY DEF RefInv, IndexInv
<1>2. /\ sessions' = Cascade(sessions, {s}) /\ plan' = Cascade(plan, gx)
      /\ log' = Cascade(log, gi) /\ UNCHANGED <<schedules, req>>
  BY DEF DeleteSession
<1>3. \A t : Live(sessions, t) /\ t # s => Live(sessions', t)
  BY <1>2, SparedLive
<1>4. ASSUME NEW x \in DOMAIN plan'
      PROVE  /\ x \in DOMAIN plan /\ plan'[x].session = plan[x].session
             /\ plan'[x].schedule = plan[x].schedule /\ plan'[x].kind = plan[x].kind
             /\ plan'[x].live => plan[x].live /\ plan[x].session # s
  <2> HIDE DEF gx
  <2>1. x \in DOMAIN plan /\ (x \notin gx <=> plan[x].session # s)
    BY <1>1, <1>2, CascadedTables DEF gx
  <2> QED
    BY <1>1, <1>2, <2>1, CascadedTables
<1>5. ASSUME NEW i \in DOMAIN log'
      PROVE  /\ i \in DOMAIN log /\ log'[i].session = log[i].session
             /\ log'[i].position = log[i].position
             /\ log'[i].live => log[i].live /\ log[i].session # s
  <2> HIDE DEF gi
  <2>1. i \in DOMAIN log /\ (i \notin gi <=> log[i].session # s)
    BY <1>1, <1>2, CascadedTables DEF gi
  <2> QED
    BY <1>1, <1>2, <2>1, CascadedTables
<1>6. \A x : Live(plan, x) /\ plan[x].session # s => Live(plan', x) /\ plan'[x] = plan[x]
  BY <1>2, SparedLive
<1>7. \A x \in DOMAIN plan' : RowPlaced(x)'
  BY <1>2, <1>3, <1>4 DEF RefInv, RowPlaced
<1>8. \A i \in DOMAIN log' : RowLogged(i)'
  BY <1>3, <1>5, <1>6 DEF RefInv, RowLogged
<1>9. \A p \in Slots : req'[p].step \in Holding => Holds(plan', req'[p])
  BY <1>2 DEF RefInv, Holds, Cascade
<1> QED
  BY <1>7, <1>8, <1>9 DEF RefInv
\* A deleted schedule takes template members along, which nobody holds.
LEMMA RefDeleteSchedule ==
    ASSUME RefInv, IndexInv', NEW k \in DOMAIN schedules, DeleteSchedule(k)
    PROVE  RefInv'
<1> DEFINE gx == {x \in DOMAIN plan : plan[x].schedule = k}
<1>1. TypeOK
  BY DEF RefInv, IndexInv
<1>2. /\ schedules' = Cascade(schedules, {k}) /\ plan' = Cascade(plan, gx)
      /\ UNCHANGED <<sessions, log, req>>
  BY DEF DeleteSchedule
<1>3. \A t : Live(schedules, t) /\ t # k => Live(schedules', t)
  BY <1>2, SparedLive
<1>4. ASSUME NEW x \in DOMAIN plan'
      PROVE  /\ x \in DOMAIN plan /\ plan'[x].session = plan[x].session
             /\ plan'[x].schedule = plan[x].schedule /\ plan'[x].kind = plan[x].kind
             /\ plan'[x].live => plan[x].live /\ plan[x].schedule # k
  <2> HIDE DEF gx
  <2>1. x \in DOMAIN plan /\ (x \notin gx <=> plan[x].schedule # k)
    BY <1>1, <1>2, CascadedTables DEF gx
  <2> QED
    BY <1>1, <1>2, <2>1, CascadedTables
<1>5. \A x : Live(plan, x) /\ plan[x].schedule # k => Live(plan', x) /\ plan'[x] = plan[x]
  BY <1>2, SparedLive
<1>6. \A x \in DOMAIN plan' : RowPlaced(x)'
  BY <1>2, <1>3, <1>4 DEF RefInv, RowPlaced
<1>7. ASSUME NEW i \in DOMAIN log', log[i].live
      PROVE  RowLogged(i)'
  <2>1. RowLogged(i) /\ log' = log /\ sessions' = sessions
    BY <1>2 DEF RefInv
  <2>2. ASSUME log[i].position # Null
        PROVE  plan[log[i].position].schedule # k
    <3>1. Live(plan, log[i].position) /\ Live(sessions, plan[log[i].position].session)
      BY <1>7, <2>1, <2>2 DEF RowLogged
    <3>2. RowPlaced(log[i].position) /\ plan[log[i].position].session # Null
      BY <1>1, <3>1, NoNullRow DEF RefInv, Live
    <3> QED
      BY <1>1, <3>1, <3>2, NoNullRow DEF RowPlaced, Live
  <2> QED
    BY <1>5, <1>7, <2>1, <2>2 DEF RowLogged
<1>8. \A i \in DOMAIN log' : RowLogged(i)'
  BY <1>2, <1>7 DEF RowLogged
<1>9. \A p \in Slots : req'[p].step \in Holding => Holds(plan', req'[p])
  BY <1>2 DEF RefInv, Holds, Cascade
<1> QED
  BY <1>6, <1>8, <1>9 DEF RefInv

LEMMA RefCreate ==
    ASSUME RefInv, IndexInv', NEW kind \in {"position", "shift"},
           \/ CreateSchedule
           \/ \E k \in DOMAIN schedules : CreateMember(k, kind)
           \/ \E s \in DOMAIN sessions : CreateLive(s, kind)
    PROVE  RefInv'
<1>1. TypeOK /\ TypeOK'
  BY DEF RefInv, IndexInv
<1>2. UNCHANGED <<sessions, log, req>>
  BY DEF CreateSchedule, CreateMember, CreateLive
<1>3. /\ \A i \in DOMAIN log' : LogKept(i)
      /\ RequestsHold
  BY <1>2 DEF LogKept, RequestsHold
<1>4. CASE CreateSchedule
  <2>1. plan' = plan /\ schedules' = Append(schedules, [live |-> TRUE])
    BY <1>4 DEF CreateSchedule
  <2>2. [live |-> TRUE] \in Schedule /\ schedules \in Seq(Schedule)
    BY <1>1 DEF Schedule, TypeOK
  <2>3. \A k \in DOMAIN schedules : k \in DOMAIN schedules' /\ schedules'[k] = schedules[k]
    BY <1>1, <2>1, <2>2, TableFacts, AppendProperties, LenProperties
  <2>4. Intact
    BY <1>2, <2>1, <2>3 DEF Intact, Live
  <2> QED
    BY <1>3, <2>1, <2>4, RefKeep
<1>5. ASSUME NEW row \in PlanRow, plan' = Append(plan, row), schedules' = schedules,
             \/ row.schedule = Null /\ Live(sessions, row.session)
             \/ /\ row.session = Null /\ Live(schedules, row.schedule)
                /\ row.kind # "net_control"
      PROVE  RefInv'
  <2>1. /\ \A x \in DOMAIN plan : x \in DOMAIN plan' /\ plan'[x] = plan[x]
        /\ \A x \in DOMAIN plan' \ DOMAIN plan : plan'[x] = row
    <3>1. plan \in Seq(PlanRow) /\ DOMAIN plan = 1..Len(plan) /\ Len(plan) \in Nat
      BY <1>1, TableFacts DEF TypeOK
    <3> QED
      BY <1>5, <3>1, AppendProperties, LenProperties
  <2>2. Intact
    BY <1>2, <1>5, <2>1 DEF Intact
  <2>3. \A x \in DOMAIN plan' : x \in DOMAIN plan \/ RowPlaced(x)'
    BY <1>2, <1>5, <2>1 DEF RowPlaced
  <2> QED
    BY <1>3, <2>2, <2>3, RefKeep
<1>6. ASSUME NEW k \in DOMAIN schedules, CreateMember(k, kind)
      PROVE  RefInv'
  <2> DEFINE row == Planned(kind, Null, k)
  <2>1. plan' = Append(plan, row) /\ schedules' = schedules /\ Live(schedules, k)
    BY <1>6 DEF CreateMember
  <2>2. k \in Nat /\ Null \in Nat
    BY <1>1, LenProperties DEF TypeOK, Null
  <2>3. row \in PlanRow /\ row.session = Null /\ row.schedule = k /\ row.kind # "net_control"
    BY <2>2 DEF Planned, PlanRow
  <2> HIDE DEF row
  <2> QED
    BY <1>5, <2>1, <2>3
<1>7. ASSUME NEW s \in DOMAIN sessions, CreateLive(s, kind)
      PROVE  RefInv'
  <2> DEFINE row == Planned(kind, s, Null)
  <2>1. plan' = Append(plan, row) /\ schedules' = schedules /\ Live(sessions, s)
    BY <1>7 DEF CreateLive
  <2>2. s \in Nat /\ Null \in Nat
    BY <1>1, LenProperties DEF TypeOK, Null
  <2>3. row \in PlanRow /\ row.session = s /\ row.schedule = Null
    BY <2>2 DEF Planned, PlanRow
  <2> HIDE DEF row
  <2> QED
    BY <1>5, <2>1, <2>3
<1> QED
  BY <1>4, <1>6, <1>7

\* The rows that referred to a deleted position refer to none.
LEMMA RefDeletePlanned ==
    ASSUME RefInv, IndexInv', NEW x \in DOMAIN plan, DeletePlanned(x)
    PROVE  RefInv'
<1>1. TypeOK
  BY DEF RefInv, IndexInv
<1>2. /\ plan' = Cascade(plan, {x}) /\ UNCHANGED <<sessions, schedules, req>>
      /\ log' = [i \in DOMAIN log |-> IF log[i].position = x
                                      THEN [log[i] EXCEPT !.position = Null] ELSE log[i]]
  BY DEF DeletePlanned
<1>3. ASSUME NEW y \in DOMAIN plan'
      PROVE  /\ y \in DOMAIN plan /\ plan'[y].session = plan[y].session
             /\ plan'[y].schedule = plan[y].schedule /\ plan'[y].kind = plan[y].kind
             /\ plan'[y].live => plan[y].live
  <2> DEFINE gx == {x}
  <2>1. plan' = Cascade(plan, gx)
    BY <1>2
  <2> HIDE DEF gx
  <2>2. y \in DOMAIN plan
    BY <1>1, <2>1, CascadedTables
  <2> QED
    BY <1>1, <2>1, <2>2, CascadedTables
<1>4. \A y : Live(plan, y) /\ y # x => Live(plan', y) /\ plan'[y] = plan[y]
  BY <1>2, SparedLive
<1>5. ASSUME NEW y \in DOMAIN plan'
      PROVE  RowPlaced(y)'
  <2>1. RowPlaced(y)
    BY <1>3 DEF RefInv
  <2>2. UNCHANGED <<sessions, schedules>>
    BY <1>2
  <2> QED
    BY <1>3, <2>1, <2>2 DEF RowPlaced, Live
<1>6. ASSUME NEW i \in DOMAIN log'
      PROVE  /\ i \in DOMAIN log /\ log'[i].session = log[i].session
             /\ log'[i].live => log[i].live
             /\ log'[i].position # Null =>
                   log'[i].position = log[i].position /\ log[i].position # x
  <2>1. i \in DOMAIN log /\ log[i] \in Checkin
    BY <1>1, <1>2, TableFacts
  <2>2. CASE log[i].position = x
    BY <1>2, <2>1, <2>2 DEF Checkin
  <2>3. CASE log[i].position # x
    BY <1>2, <2>1, <2>3
  <2> QED
    BY <2>2, <2>3
<1>7. \A i \in DOMAIN log' : RowLogged(i)'
  BY <1>2, <1>4, <1>6 DEF RefInv, RowLogged
<1>8. \A p \in Slots : req'[p].step \in Holding => Holds(plan', req'[p])
  BY <1>2 DEF RefInv, Holds, Cascade
<1> QED
  BY <1>5, <1>7, <1>8 DEF RefInv

LEMMA RefDeleteCheckin ==
    ASSUME RefInv, IndexInv', NEW i \in DOMAIN log, DeleteCheckin(i)
    PROVE  RefInv'
<1>1. TypeOK
  BY DEF RefInv, IndexInv
<1>2. log' = Cascade(log, {i}) /\ UNCHANGED <<sessions, schedules, plan, req>>
  BY DEF DeleteCheckin
<1>3. Intact /\ RequestsHold
  BY <1>2 DEF Intact, RequestsHold
<1>4. ASSUME NEW j \in DOMAIN log' PROVE LogKept(j)
  <2> DEFINE gi == {i}
  <2>1. log' = Cascade(log, gi)
    BY <1>2
  <2> HIDE DEF gi
  <2>2. j \in DOMAIN log
    BY <1>1, <2>1, CascadedTables
  <2> QED
    BY <1>1, <2>1, <2>2, CascadedTables DEF LogKept
<1> QED
  BY <1>2, <1>3, <1>4, RefKeep

LEMMA RefNext == RefInv /\ [Next]_vars => RefInv'
<1> SUFFICES ASSUME RefInv, [Next]_vars PROVE RefInv'
  OBVIOUS
<1>1. IndexInv'
  BY IndexNext DEF RefInv
<1>2. CASE Edit
  BY <1>1, <1>2, RefDeleteSession, RefDeleteSchedule, RefCreate, RefDeletePlanned,
     RefDeleteCheckin DEF Edit
<1>3. ASSUME NEW p \in Slots, Begin(p) PROVE RefInv'
  BY <1>1, <1>3, RefBegin
<1>4. ASSUME NEW p \in Slots, Proceed(p) PROVE RefInv'
  BY <1>1, <1>4, RefProceed
<1>5. ASSUME NEW p \in Slots, Fail(p) PROVE RefInv'
  BY <1>1, <1>5, RefReply DEF Fail
<1>6. CASE UNCHANGED vars
  <2>1. UNCHANGED <<sessions, schedules, plan, log, req>>
    BY <1>6 DEF vars
  <2>2. Intact /\ RequestsHold /\ \A i \in DOMAIN log' : LogKept(i)
    BY <2>1 DEF Intact, RequestsHold, LogKept
  <2> QED
    BY <1>1, <2>1, <2>2, RefKeep
<1> QED
  BY <1>2, <1>3, <1>4, <1>5, <1>6 DEF Next

\* No cascade, refusal or interleaving leaves a live row with a reference to a row that
\* has gone, or to one of another session.
THEOREM ReferencesHold == Spec => []Referential
<1>1. Init => RefInv
  BY IndexInit DEF Init, RefInv, Idle, Holding
<1>2. RefInv /\ [Next]_vars => RefInv'
  BY RefNext
<1>3. RefInv => Referential
  BY DEF RefInv, RowPlaced, RowLogged, Referential
<1> QED
  BY <1>1, <1>2, <1>3, PTL DEF Spec

(***************************************************************************)
(* Requests in turn keep what Manning promises: the holder of a position   *)
(* is its occupant, and it is closed when nobody may sign on to it.        *)
(***************************************************************************)

Keys == Nat \ {Null}

Held == [x \in Keys |-> HolderOf(x)]

Shut == {x \in DOMAIN plan : IsClosed(x)}

ManningView == INSTANCE Manning WITH Posts <- Keys, holder <- Held, closed <- Shut,
                                     Vacant <- NoCallsign

\* A sign-on has found its session open, and in its turn nobody ends it.
OpenYet ==
    \A p \in Slots : req[p].step \in {"occupant", "sign_on"} =>
        req[p].session \in DOMAIN sessions /\ ~sessions[req[p].session].ended

TurnInv == Fresh /\ RefInv /\ OpenYet

\* Positions stay with their sessions, and what has gone or ended stays so.
PlanStays ==
    /\ \A x \in DOMAIN plan : /\ x \in DOMAIN plan' /\ plan'[x].session = plan[x].session
                              /\ plan'[x].live => plan[x].live
    /\ \A s \in DOMAIN sessions : s \in DOMAIN sessions'
                                  /\ (sessions[s].ended => sessions'[s].ended)

\* No operator of the day is on the way to a position there was already.
DutyIsNew ==
    \A q \in Slots : req'[q].step = "duty" => req'[q] = req[q] \/ req'[q].position \notin DOMAIN plan

NamesStay == \A i \in DOMAIN log : log'[i].callsign = log[i].callsign

LEMMA ShutStays ==
    ASSUME IndexInv, PlanStays, DutyIsNew
    PROVE  Shut \subseteq Shut'
<1>1. /\ \A x \in DOMAIN plan : plan[x].session \in Nat /\ plan[x].session <= Len(sessions)
      /\ DOMAIN sessions = 1..Len(sessions)
  BY TableFacts DEF IndexInv, KnownKeys, RowKeys, PlanRow
<1> SUFFICES ASSUME NEW x \in DOMAIN plan, IsClosed(x)
             PROVE  x \in DOMAIN plan' /\ IsClosed(x)'
  BY DEF Shut
<1>2. x \in DOMAIN plan' /\ plan'[x].session = plan[x].session /\ (plan'[x].live => plan[x].live)
  BY DEF PlanStays
<1>3. CASE ~plan[x].live
  BY <1>2, <1>3 DEF IsClosed
<1>4. CASE plan[x].live
  <2>1. /\ plan[x].session # Null /\ sessions[plan[x].session].ended
        /\ \A p \in Slots : ~(At(p, "duty") /\ req[p].position = x)
    BY <1>4 DEF IsClosed
  <2>2. plan[x].session \in DOMAIN sessions
    BY <1>1, <2>1 DEF Null
  <2>3. sessions'[plan[x].session].ended
    BY <2>1, <2>2 DEF PlanStays
  <2>4. \A p \in Slots : ~(req'[p].step = "duty" /\ req'[p].position = x)
    BY <2>1 DEF DutyIsNew, At
  <2> QED
    BY <1>2, <2>1, <2>3, <2>4 DEF IsClosed, At
<1> QED
  BY <1>3, <1>4

LEMMA HolderIs ==
    ASSUME Single, NEW x \in Keys, NEW i \in OpenRows(x), i \in Keys
    PROVE  HolderOf(x) = log[i].callsign
<1>1. \A j \in OpenRows(x) : j = i
  BY DEF Single, Keys
<1>2. i \in Nat /\ i # Null
  BY DEF Keys
<1>3. IsOccupant(i, x)
  BY <1>1, <1>2 DEF IsOccupant
<1>4. (CHOOSE k \in OpenRows(x) : IsOccupant(k, x)) = i
  BY <1>1, <1>3
<1> QED
  BY <1>4 DEF HolderOf

LEMMA HolderIsNext ==
    ASSUME Single', NEW x \in Keys, NEW i \in OpenRows(x)', i \in Keys
    PROVE  HolderOf(x)' = log'[i].callsign
<1>1. \A j \in OpenRows(x)' : j = i
  BY DEF Single, Keys
<1>2. i \in Nat /\ i # Null
  BY DEF Keys
<1>3. IsOccupant(i, x)'
  BY <1>1, <1>2 DEF IsOccupant
<1>4. (CHOOSE k \in OpenRows(x)' : IsOccupant(k, x)') = i
  BY <1>1, <1>3
<1> QED
  BY <1>4 DEF HolderOf

\* Where no row is added, the holder stays or the position becomes vacant.
LEMMA HolderThins ==
    ASSUME IndexInv, IndexInv', Single, Single', NEW x \in Keys, Thins(x), NamesStay,
           \A i \in OpenRows(x)' : i \in DOMAIN log
    PROVE  HolderOf(x)' \in {HolderOf(x), NoCallsign}
<1>1. CASE OpenRows(x)' = {}
  BY <1>1 DEF HolderOf
<1>2. ASSUME NEW i \in OpenRows(x)' PROVE HolderOf(x)' = HolderOf(x)
  <2>1. i \in OpenRows(x) /\ log'[i].callsign = log[i].callsign
    BY <1>2 DEF Thins, NamesStay, OpenRows
  <2>2. i \in Keys
    BY <2>1, TableFacts DEF IndexInv, Keys, Null, OpenRows
  <2> QED
    BY <1>2, <2>1, <2>2, HolderIs, HolderIsNext
<1> QED
  BY <1>1, <1>2

LEMMA ReleaseStep ==
    ASSUME IndexInv, IndexInv', Single, Single', PlanStays, DutyIsNew, NamesStay,
           Len(log') = Len(log), \A x \in Keys : Thins(x)
    PROVE  ManningView!Release
<1>1. DOMAIN log' = DOMAIN log
  BY LenProperties DEF IndexInv, TypeOK
<1>2. \A x \in Keys : HolderOf(x)' \in {HolderOf(x), NoCallsign}
  BY <1>1, HolderThins DEF OpenRows
<1>3. \A x \in Keys : Held[x] = HolderOf(x) /\ Held'[x] = HolderOf(x)'
  BY DEF Held
<1>4. Shut \subseteq Shut'
  BY ShutStays
<1> QED
  BY <1>2, <1>3, <1>4 DEF ManningView!Release

(***************************************************************************)
(* What the steps do to the plan, the sessions and the names in the log.   *)
(***************************************************************************)

\* The application's other handlers leave the requests and the ends of sessions alone.
LEMMA TurnEdit ==
    ASSUME TurnInv, Edit
    PROVE  OpenYet' /\ PlanStays /\ DutyIsNew /\ NamesStay
<1>1. TypeOK /\ req' = req
  BY EditKeepsRequests DEF TurnInv, RefInv, IndexInv
<1>2. /\ DOMAIN sessions = 1..Len(sessions) /\ DOMAIN plan = 1..Len(plan)
      /\ Len(plan) \in Nat /\ plan \in Seq(PlanRow)
      /\ \A s \in DOMAIN sessions : sessions[s] \in Session
      /\ \A i \in DOMAIN log : log[i] \in Checkin
  BY <1>1, TableFacts DEF TypeOK
<1>3. \A s \in DOMAIN sessions : s \in DOMAIN sessions' /\ sessions'[s].ended = sessions[s].ended
  <2>1. ASSUME NEW gone, sessions' = Cascade(sessions, gone), NEW s \in DOMAIN sessions
        PROVE  s \in DOMAIN sessions' /\ sessions'[s].ended = sessions[s].ended
    BY <1>2, <2>1 DEF Cascade, Session
  <2>2. sessions' = sessions \/ \E gone : sessions' = Cascade(sessions, gone)
    BY DEF Edit, DeleteSession, CreateSchedule, DeleteSchedule,
           CreateMember, CreateLive, DeletePlanned, DeleteCheckin
  <2> QED
    BY <2>1, <2>2
<1>4. \A x \in DOMAIN plan : /\ x \in DOMAIN plan' /\ plan'[x].session = plan[x].session
                             /\ plan'[x].live => plan[x].live
  <2>1. ASSUME NEW gone, plan' = Cascade(plan, gone), NEW x \in DOMAIN plan
        PROVE  /\ x \in DOMAIN plan' /\ plan'[x].session = plan[x].session
               /\ plan'[x].live => plan[x].live
    <3>1. /\ DOMAIN Cascade(plan, gone) = DOMAIN plan
          /\ Cascade(plan, gone)[x].session = plan[x].session
          /\ Cascade(plan, gone)[x].live = (plan[x].live /\ x \notin gone)
      BY <1>1, CascadedTables
    <3> QED
      BY <2>1, <3>1
  <2>2. CASE \E row : row \in PlanRow /\ plan' = Append(plan, row)
    BY <1>2, <2>2
  <2>3. CASE plan' = plan
    BY <2>3
  <2>4. ASSUME NEW k \in DOMAIN schedules, NEW kind \in {"position", "shift"},
               CreateMember(k, kind)
        PROVE  \E row : row \in PlanRow /\ plan' = Append(plan, row)
    <3>1. Planned(kind, Null, k) \in PlanRow
      BY <1>1, TableFacts DEF Planned, PlanRow, Null
    <3> QED
      BY <2>4, <3>1 DEF CreateMember
  <2>5. ASSUME NEW s \in DOMAIN sessions, NEW kind \in {"position", "shift"},
               CreateLive(s, kind)
        PROVE  \E row : row \in PlanRow /\ plan' = Append(plan, row)
    <3>1. Planned(kind, s, Null) \in PlanRow
      BY <1>1, TableFacts DEF Planned, PlanRow, Null
    <3> QED
      BY <2>5, <3>1 DEF CreateLive
  <2>6. \/ \E gone : plan' = Cascade(plan, gone)
        \/ plan' = plan
        \/ \E k \in DOMAIN schedules, kind \in {"position", "shift"} : CreateMember(k, kind)
        \/ \E s \in DOMAIN sessions, kind \in {"position", "shift"} : CreateLive(s, kind)
    BY DEF Edit, DeleteSession, CreateSchedule, DeleteSchedule, DeletePlanned, DeleteCheckin
  <2> QED
    BY <2>1, <2>2, <2>3, <2>4, <2>5, <2>6
<1>5. NamesStay
  <2>1. CASE \E gone : log' = Cascade(log, gone)
    BY <1>1, <2>1, CascadedTables DEF NamesStay
  <2>2. CASE log' = log
    BY <2>2 DEF NamesStay
  <2>3. ASSUME NEW y, DeletePlanned(y) PROVE NamesStay
    BY <1>2, <2>3 DEF DeletePlanned, NamesStay, Checkin
  <2> QED
    BY <2>1, <2>2, <2>3 DEF Edit, DeleteSession, CreateSchedule, DeleteSchedule,
       CreateMember, CreateLive, DeleteCheckin
<1>6. OpenYet'
  BY <1>1, <1>3 DEF TurnInv, OpenYet
<1> QED
  BY <1>1, <1>3, <1>4, <1>5, <1>6 DEF PlanStays, DutyIsNew

\* A request that begins changes no row, and adds a session at most.
LEMMA TurnBegin ==
    ASSUME TurnInv, NEW p \in Slots, Begin(p)
    PROVE  OpenYet' /\ PlanStays /\ DutyIsNew /\ NamesStay
<1>1. TypeOK /\ RowKeys
  BY DEF TurnInv, RefInv, IndexInv, KnownKeys
<1>2. /\ DOMAIN sessions = 1..Len(sessions) /\ Len(sessions) \in Nat
      /\ sessions \in Seq(Session) /\ log' = log
  BY <1>1, TableFacts, BeginShape DEF TypeOK
<1>3. plan' = plan /\ (sessions' = sessions \/ \E row \in Session : sessions' = Append(sessions, row))
  <2>1. ASSUME NEW offline \in BOOLEAN, NEW duty, NEW k, StartSession(p, offline, duty, k)
        PROVE  plan' = plan /\ \E row \in Session : sessions' = Append(sessions, row)
    BY <2>1 DEF StartSession, Session
  <2> QED
    BY <2>1 DEF Begin, BeginSignOn, BeginSignOff, BeginEnd
<1>4. \A s \in DOMAIN sessions : s \in DOMAIN sessions' /\ sessions'[s] = sessions[s]
  BY <1>2, <1>3
<1>5. \E r : /\ Continue(p, r) /\ r.step # "duty"
             /\ r.step \in {"occupant", "sign_on"} =>
                   r.session \in DOMAIN sessions /\ ~sessions[r.session].ended
  <2>1. ASSUME NEW offline \in BOOLEAN, NEW duty, NEW k, StartSession(p, offline, duty, k)
        PROVE  \E r : Continue(p, r) /\ r.step \notin {"duty", "occupant", "sign_on"}
    <3> DEFINE step == IF offline THEN "stamp" ELSE "net_control"
               r == [Idle EXCEPT !.step = step, !.session = Len(sessions) + 1,
                                 !.callsign = duty, !.schedule = k]
    <3>1. Continue(p, r) /\ step \notin {"duty", "occupant", "sign_on"}
      BY <2>1 DEF StartSession
    <3>2. r.step = step
      BY DEF Idle
    <3> HIDE DEF r, step
    <3> QED
      BY <3>1, <3>2
  <2>2. ASSUME NEW u \in Users, NEW x \in DOMAIN plan, NEW c \in Callsigns, BeginSignOn(p, u, x, c)
        PROVE  \E r : Continue(p, r) /\ r.step = "occupant" /\ r.session \in DOMAIN sessions
                      /\ ~sessions[r.session].ended
    <3> DEFINE r == [Idle EXCEPT !.step = "occupant", !.user = u, !.session = plan[x].session,
                                 !.position = x, !.callsign = c]
    <3>1. Continue(p, r) /\ plan[x].session # Null /\ ~sessions[plan[x].session].ended
      BY <2>2 DEF BeginSignOn
    <3>2. r.step = "occupant" /\ r.session = plan[x].session
      BY DEF Idle
    <3>3. plan[x].session \in Nat /\ plan[x].session <= Len(sessions)
      BY <1>1, TableFacts DEF RowKeys, PlanRow
    <3>4. plan[x].session \in DOMAIN sessions
      BY <1>2, <3>1, <3>3 DEF Null
    <3> HIDE DEF r
    <3> QED
      BY <3>1, <3>2, <3>4
  <2>3. ASSUME NEW u, NEW x, BeginSignOff(p, u, x)
        PROVE  \E r : Continue(p, r) /\ r.step \notin {"duty", "occupant", "sign_on"}
    <3>1. PICK o \in OpenRows(x) :
             Continue(p, [Idle EXCEPT !.step = "sign_off", !.user = u,
                                      !.session = log[o].session, !.outgoing = o])
      BY <2>3 DEF BeginSignOff
    <3> DEFINE r == [Idle EXCEPT !.step = "sign_off", !.user = u,
                                 !.session = log[o].session, !.outgoing = o]
    <3>2. Continue(p, r) /\ r.step = "sign_off"
      BY <3>1 DEF Idle
    <3> HIDE DEF r
    <3> QED
      BY <3>2
  <2>4. ASSUME NEW s, BeginEnd(p, s)
        PROVE  \E r : Continue(p, r) /\ r.step \notin {"duty", "occupant", "sign_on"}
    <3> DEFINE r == [Idle EXCEPT !.step = "end", !.session = s]
    <3>1. Continue(p, r) /\ r.step = "end"
      BY <2>4 DEF BeginEnd, Idle
    <3> HIDE DEF r
    <3> QED
      BY <3>1
  <2>5. CASE \E u \in Users, x \in DOMAIN plan, c \in Callsigns : BeginSignOn(p, u, x, c)
    BY <2>2, <2>5
  <2>6. CASE \E u \in Users, x \in DOMAIN plan : BeginSignOff(p, u, x)
    BY <2>3, <2>6
  <2>7. CASE \E s \in DOMAIN sessions : BeginEnd(p, s)
    BY <2>4, <2>7
  <2>8. CASE \E offline \in BOOLEAN, duty \in Callsigns \cup {NoCallsign},
                k \in DOMAIN schedules \cup {Null} : StartSession(p, offline, duty, k)
    BY <2>1, <2>8
  <2> QED
    BY <2>5, <2>6, <2>7, <2>8 DEF Begin
<1>6. PICK r : /\ Continue(p, r) /\ r.step # "duty"
               /\ r.step \in {"occupant", "sign_on"} =>
                     r.session \in DOMAIN sessions /\ ~sessions[r.session].ended
  BY <1>5
<1>7. \A q \in Slots : req'[q] = IF q = p THEN r ELSE req[q]
  BY <1>1, <1>6, OtherRequests
<1>8. DutyIsNew
  BY <1>6, <1>7 DEF DutyIsNew
<1>9. OpenYet'
  BY <1>4, <1>6, <1>7 DEF TurnInv, OpenYet
<1> QED
  BY <1>2, <1>3, <1>4, <1>8, <1>9 DEF PlanStays, NamesStay

\* The one request goes on: what it prepares, and what it does to sessions and plan.
LEMMA TurnProceed ==
    ASSUME OneSlotAtMost, TurnInv, NEW p \in Slots, Proceed(p) \/ Fail(p)
    PROVE  OpenYet' /\ PlanStays /\ DutyIsNew
<1>1. TypeOK /\ req[p] \in Request /\ \A q \in Slots : q = p
  BY TableFacts DEF TurnInv, RefInv, IndexInv, OneSlotAtMost
<1>2. /\ DOMAIN sessions = 1..Len(sessions) /\ DOMAIN plan = 1..Len(plan)
      /\ Len(plan) \in Nat /\ plan \in Seq(PlanRow)
      /\ \A s \in DOMAIN sessions : sessions[s] \in Session
  BY <1>1, TableFacts DEF TypeOK
<1>3. PlanStays
  <2>1. CASE StampEnded(p) \/ EndSession(p)
    <3>1. /\ plan' = plan
          /\ \/ sessions' = [sessions EXCEPT ![req[p].session].ended = TRUE]
             \/ sessions' = [sessions EXCEPT ![req[p].session].locked = TRUE]
      BY <2>1 DEF StampEnded, EndSession
    <3>2. \A s \in DOMAIN sessions : s \in DOMAIN sessions'
                                     /\ (sessions[s].ended => sessions'[s].ended)
      BY <1>2, <3>1 DEF Session
    <3> QED
      BY <3>1, <3>2 DEF PlanStays
  <2>2. CASE CreateNetControl(p)
    <3>1. sessions' = sessions /\ plan' = Append(plan, Planned("net_control", req[p].session, Null))
      BY <2>2 DEF CreateNetControl
    <3> QED
      BY <1>2, <3>1 DEF PlanStays
  <2>3. CASE CopyTemplates(p)
    <3>1. sessions' = sessions /\ \A x \in DOMAIN plan : x \in DOMAIN plan' /\ plan'[x] = plan[x]
      BY <1>1, <2>3, PlanCopied DEF CopyTemplates
    <3> QED
      BY <3>1 DEF PlanStays
  <2>4. CASE sessions' = sessions /\ plan' = plan
    BY <2>4 DEF PlanStays
  <2> QED
    BY <2>1, <2>2, <2>3, <2>4
       DEF Proceed, SignOnDuty, ReadTemplates, ReadOccupant, SignOn, SignOff, Refuse, Fail
<1>4. CASE CreateNetControl(p)
  <2> DEFINE r1 == [req[p] EXCEPT !.position = Len(plan) + 1, !.seen = Len(log)]
             r2 == [r1 EXCEPT !.step = "duty"]
             r  == IF r1.callsign = NoCallsign THEN AfterDuty(r1) ELSE r2
  <2>1. Continue(p, r)
    BY <1>4 DEF CreateNetControl
  <2>2. r1 \in Request /\ r2.step = "duty" /\ r2.position = Len(plan) + 1
    <3>1. Len(log) \in Nat /\ Len(plan) + 1 \in Nat
      BY <1>1, <1>2, TableFacts
    <3>2. r1 \in Request
      BY <1>1, <3>1 DEF Request
    <3>3. r2.step = "duty" /\ r2.position = Len(plan) + 1
      BY <1>1, <3>1 DEF Request
    <3> QED
      BY <3>2, <3>3
  <2>3. /\ r.step = "duty" => r.position = Len(plan) + 1
        /\ r.step \notin {"occupant", "sign_on"}
    <3>1. AfterDuty(r1).step \notin {"duty", "occupant", "sign_on"}
      BY DEF AfterDuty, Idle, Request
    <3> HIDE DEF r1, r2
    <3> QED
      BY <2>2, <3>1
  <2> HIDE DEF r
  <2>4. req'[p] = r
    BY <1>1, <2>1, OtherRequests
  <2> QED
    BY <1>1, <1>2, <1>3, <2>3, <2>4 DEF OpenYet, DutyIsNew
<1>5. CASE ReadOccupant(p)
  <2>1. PICK o : \/ Continue(p, [req[p] EXCEPT !.step = "sign_on", !.outgoing = o,
                                                !.seen = Len(log)])
                 \/ Reply(p)
    BY <1>5 DEF ReadOccupant
  <2> DEFINE r == [req[p] EXCEPT !.step = "sign_on", !.outgoing = o, !.seen = Len(log)]
  <2>2. r.step = "sign_on" /\ r.session = req[p].session
    BY <1>1 DEF Request
  <2>3. req[p].session \in DOMAIN sessions /\ ~sessions[req[p].session].ended
    BY <1>5 DEF TurnInv, OpenYet, ReadOccupant, At
  <2>4. Idle.step \notin {"duty", "occupant", "sign_on"}
    BY DEF Idle
  <2>5. sessions' = sessions
    BY <1>5 DEF ReadOccupant
  <2>6. req'[p] = r \/ req'[p] = Idle
    BY <1>1, <2>1, OtherRequests DEF Reply
  <2> HIDE DEF r
  <2> QED
    BY <1>1, <1>3, <2>2, <2>3, <2>4, <2>5, <2>6 DEF OpenYet, DutyIsNew
<1>6. ASSUME NEW r, Continue(p, r), r.step \notin {"duty", "occupant", "sign_on"}
      PROVE  OpenYet' /\ DutyIsNew
  <2>1. req'[p] = r
    BY <1>1, <1>6, OtherRequests
  <2> QED
    BY <1>1, <1>6, <2>1 DEF OpenYet, DutyIsNew
<1>7. Idle.step \notin {"duty", "occupant", "sign_on"}
  BY DEF Idle
<1>8. CASE SignOnDuty(p)
  <2>1. AfterDuty(req[p]).step \notin {"duty", "occupant", "sign_on"}
    BY DEF AfterDuty, Idle, Request
  <2> QED
    BY <1>3, <1>6, <1>8, <2>1 DEF SignOnDuty
<1>9. CASE StampEnded(p)
  <2> DEFINE r == [req[p] EXCEPT !.step = "net_control"]
  <2>1. Continue(p, r) /\ r.step = "net_control"
    BY <1>1, <1>9 DEF StampEnded, Request
  <2> HIDE DEF r
  <2> QED
    BY <1>3, <1>6, <2>1
<1>10. CASE ReadTemplates(p)
  <2> DEFINE n == Cardinality(Members(req[p].schedule, {"position"}))
             r == [req[p] EXCEPT !.step = "copy", !.copies = n]
  <2>1. Continue(p, r)
    BY <1>10 DEF ReadTemplates
  <2>2. r.step = "copy"
    <3> HIDE DEF n
    <3> QED BY <1>1 DEF Request
  <2> HIDE DEF r
  <2> QED
    BY <1>3, <1>6, <2>1, <2>2
<1>11. CASE Reply(p)
  BY <1>3, <1>6, <1>7, <1>11 DEF Reply
<1> QED
  BY <1>4, <1>5, <1>8, <1>9, <1>10, <1>11
     DEF Proceed, CopyTemplates, SignOn, SignOff, EndSession, Refuse, Fail

\* Whom a sign-on relieves is on the position it is for, unless that has gone.
OutHere ==
    \A p \in Slots : req[p].step = "sign_on" /\ req[p].outgoing # Null =>
        /\ req[p].outgoing \in DOMAIN log
        /\ \/ log[req[p].outgoing].position = req[p].position
           \/ ~plan[req[p].position].live

LEMMA OutHereEdit ==
    ASSUME TurnInv, OutHere, Edit
    PROVE  OutHere'
<1>1. TypeOK /\ TypeOK' /\ req' = req /\ Len(log') = Len(log) /\ PlanStays
  <2>1. IndexInv /\ 1 \in Nat \ {Null}
    BY DEF TurnInv, RefInv, Null
  <2>2. TypeOK /\ TypeOK'
    BY <2>1, IndexNext DEF IndexInv, Next
  <2> QED
    BY <2>1, <2>2, EditThins, TurnEdit
<1>2. DOMAIN log' = DOMAIN log /\ \A i \in DOMAIN log : log[i] \in Checkin
  BY <1>1, TableFacts, LenProperties DEF TypeOK
<1> SUFFICES ASSUME NEW p \in Slots, req[p].step = "sign_on", req[p].outgoing # Null
             PROVE  /\ req[p].outgoing \in DOMAIN log'
                    /\ \/ log'[req[p].outgoing].position = req[p].position
                       \/ ~plan'[req[p].position].live
  BY <1>1 DEF OutHere
<1> DEFINE o == req[p].outgoing
           x == req[p].position
<1>3. x \in DOMAIN plan /\ o \in DOMAIN log /\ (log[o].position = x \/ ~plan[x].live)
  BY DEF TurnInv, RefInv, Holds, Holding, OutHere
<1>4. CASE ~plan[x].live
  BY <1>1, <1>2, <1>3, <1>4 DEF PlanStays
<1>5. CASE log[o].position = x
  <2>1. CASE \E gone : log' = Cascade(log, gone)
    <3>1. log'[o].position = log[o].position
      BY <1>1, <1>3, <2>1, CascadedTables
    <3> QED
      BY <1>2, <1>3, <1>5, <3>1
  <2>2. CASE log' = log
    BY <1>3, <1>5, <2>2
  <2>3. ASSUME NEW y, DeletePlanned(y) PROVE log'[o].position = x \/ ~plan'[x].live
    <3>1. CASE y = x
      <4>1. plan[x] \in PlanRow
        BY <1>1, <1>3, TableFacts
      <4> QED
        BY <1>3, <2>3, <3>1, <4>1 DEF DeletePlanned, Cascade, PlanRow
    <3>2. CASE y # x
      BY <1>3, <1>5, <2>3, <3>2 DEF DeletePlanned
    <3> QED
      BY <3>1, <3>2
  <2> QED
    BY <1>2, <1>3, <2>1, <2>2, <2>3 DEF Edit, DeleteSession, CreateSchedule, DeleteSchedule,
       CreateMember, CreateLive, DeleteCheckin
<1> QED
  BY <1>3, <1>4, <1>5

LEMMA OutHereQuiet ==
    ASSUME OneSlotAtMost, TypeOK, NEW p \in Slots, NEW r, Continue(p, r), r.step # "sign_on"
    PROVE  OutHere'
<1>1. \A q \in Slots : req'[q] = r
  BY OtherRequests DEF OneSlotAtMost
<1> QED
  BY <1>1 DEF OutHere

LEMMA OutHereProceed ==
    ASSUME OneSlotAtMost, TurnInv, OutHere, NEW p \in Slots, Proceed(p)
    PROVE  OutHere'
<1>1. TypeOK /\ req[p] \in Request /\ \A q \in Slots : q = p
  BY TableFacts DEF TurnInv, RefInv, IndexInv, OneSlotAtMost
<1>2. Idle.step # "sign_on" /\ AfterDuty(req[p]).step # "sign_on"
  BY DEF Idle, AfterDuty, Request
<1>3. CASE CreateNetControl(p)
  <2> DEFINE r1 == [req[p] EXCEPT !.position = Len(plan) + 1, !.seen = Len(log)]
             r2 == [r1 EXCEPT !.step = "duty"]
             r  == IF r1.callsign = NoCallsign THEN AfterDuty(r1) ELSE r2
  <2>1. Continue(p, r)
    BY <1>3 DEF CreateNetControl
  <2>2. r2.step # "sign_on"
    <3>1. Len(log) \in Nat /\ Len(plan) + 1 \in Nat
      BY <1>1, TableFacts
    <3>2. r1 \in Request
      BY <1>1, <3>1 DEF Request
    <3> HIDE DEF r1
    <3> QED
      BY <3>2 DEF Request
  <2>3. AfterDuty(r1).step # "sign_on"
    BY DEF AfterDuty, Idle, Request
  <2>4. r.step # "sign_on"
    <3> HIDE DEF r1, r2
    <3> QED
      BY <2>2, <2>3
  <2> HIDE DEF r
  <2> QED
    BY <1>1, <2>1, <2>4, OutHereQuiet
<1>4. CASE SignOnDuty(p)
  BY <1>1, <1>2, <1>4, OutHereQuiet DEF SignOnDuty
<1>5. CASE SignOn(p) \/ SignOff(p)
  BY <1>1, <1>2, <1>5, OutHereQuiet DEF SignOn, SignOff, Reply
<1>6. CASE ReadOccupant(p)
  <2>1. PICK o \in OpenRows(req[p].position) \cup {Null} :
              \/ Continue(p, [req[p] EXCEPT !.step = "sign_on", !.outgoing = o,
                                            !.seen = Len(log)])
              \/ Reply(p)
    BY <1>6 DEF ReadOccupant
  <2> DEFINE r == [req[p] EXCEPT !.step = "sign_on", !.outgoing = o, !.seen = Len(log)]
  <2>2. r.outgoing = o /\ r.position = req[p].position
    BY <1>1 DEF Request
  <2>3. log' = log /\ plan' = plan
    BY <1>6 DEF ReadOccupant
  <2>4. o # Null => o \in DOMAIN log /\ log[o].position = req[p].position
    BY DEF OpenRows
  <2>5. CASE Continue(p, r)
    <3> HIDE DEF r
    <3>1. req'[p] = r
      BY <1>1, <2>5, OtherRequests
    <3> QED
      BY <1>1, <2>2, <2>3, <2>4, <3>1 DEF OutHere
  <2>6. CASE Reply(p)
    BY <1>1, <1>2, <2>6, OutHereQuiet DEF Reply
  <2> QED
    BY <2>1, <2>5, <2>6
<1>7. ASSUME NEW r, Continue(p, r), r.step \notin {"duty", "sign_on"} PROVE OutHere'
  BY <1>1, <1>7, OutHereQuiet
<1> QED
  BY <1>1, <1>3, <1>4, <1>5, <1>6, <1>7, ProceedShape

\* What a sign-on writes: its row is the holder's, and only its own position is relieved.
LEMMA TurnSigned ==
    ASSUME TurnInv, TurnInv', PlanStays, DutyIsNew,
           NEW x \in Keys, x \notin Shut, NEW c \in Callsigns,
           NEW o, o = Null \/ (o \in DOMAIN log /\ log[o].position = x),
           NEW row \in Checkin, row.live, row.open, row.position = x, row.callsign = c,
           \/ log' = Append(Closing(log, o), row)
           \/ o = Null /\ log' = Append(log, row)
    PROVE  ManningView!SignOn(x, c)
<1>1. IndexInv /\ TypeOK /\ Single /\ Single'
  BY FreshSingle, FreshSingleNext DEF TurnInv, RefInv, IndexInv
<1>2. /\ log \in Seq(Checkin) /\ Len(log) \in Nat /\ DOMAIN log = 1..Len(log)
      /\ \A i \in DOMAIN log : log[i] \in Checkin
  BY <1>1, TableFacts DEF TypeOK
<1>3. PICK rows \in Seq(Checkin) :
         /\ Len(rows) = Len(log) /\ log' = Append(rows, row)
         /\ \A i \in DOMAIN log :
               /\ rows[i].position = log[i].position /\ rows[i].live = log[i].live
               /\ rows[i].callsign = log[i].callsign
               /\ rows[i].open = (log[i].open /\ i # o)
  <2>1. CASE log' = Append(Closing(log, o), row)
    <3>1. Closing(log, o) \in Seq(Checkin) /\ Len(Closing(log, o)) = Len(log)
      BY <1>2, ClosingRows
    <3>2. ASSUME NEW i \in DOMAIN log
          PROVE  LET k == Closing(log, o)[i]
                 IN  /\ k.position = log[i].position /\ k.live = log[i].live
                     /\ k.callsign = log[i].callsign /\ k.open = (log[i].open /\ i # o)
      BY <1>2 DEF Closing, Checkin
    <3> QED
      BY <2>1, <3>1, <3>2
  <2>2. CASE o = Null /\ log' = Append(log, row)
    <3>1. \A i \in DOMAIN log : i # o /\ log[i].open \in BOOLEAN
      BY <1>2, <2>2 DEF Null, Checkin
    <3> QED
      BY <1>2, <2>2, <3>1
  <2> QED
    BY <2>1, <2>2
<1>4. /\ DOMAIN log' = 1..(Len(log) + 1) /\ log'[Len(log) + 1] = row
      /\ \A i \in DOMAIN log : log'[i] = rows[i]
  BY <1>2, <1>3, AppendProperties, LenProperties
<1>5. HolderOf(x)' = c
  <2>1. PICK n : n = Len(log) + 1
    OBVIOUS
  <2>2. n \in OpenRows(x)' /\ n \in Keys /\ log'[n] = row
    BY <1>2, <1>4, <2>1 DEF OpenRows, Keys, Null
  <2> QED
    BY <1>1, <2>2, HolderIsNext
<1>6. ASSUME NEW y \in Keys, y # x PROVE HolderOf(y)' = HolderOf(y)
  <2>1. ASSUME NEW i PROVE i \in OpenRows(y)' <=> i \in OpenRows(y)
    <3>1. i \in DOMAIN log => (i = o => log[i].position # y)
      BY <1>2, <1>6 DEF Null
    <3>2. i \in DOMAIN log =>
             /\ log'[i].position = log[i].position /\ log'[i].live = log[i].live
             /\ log'[i].open = (log[i].open /\ i # o)
      BY <1>3, <1>4
    <3>3. i \in DOMAIN log' => i \in DOMAIN log \/ i = Len(log) + 1
      BY <1>2, <1>4
    <3>4. i \in DOMAIN log => i \in DOMAIN log'
      BY <1>2, <1>4
    <3>5. log'[Len(log) + 1].position # y
      BY <1>4, <1>6
    <3> QED
      BY <3>1, <3>2, <3>3, <3>4, <3>5 DEF OpenRows
  <2>2. CASE OpenRows(y) = {}
    BY <2>1, <2>2 DEF HolderOf
  <2>3. ASSUME NEW i \in OpenRows(y) PROVE HolderOf(y)' = HolderOf(y)
    <3>1. i \in OpenRows(y)' /\ i \in DOMAIN log /\ i \in Keys
      BY <1>2, <2>1, <2>3 DEF OpenRows, Keys, Null
    <3>2. log'[i].callsign = log[i].callsign
      BY <1>3, <1>4, <3>1
    <3> QED
      BY <1>1, <2>3, <3>1, <3>2, HolderIs, HolderIsNext
  <2> QED
    BY <2>2, <2>3
<1>7. Shut \subseteq Shut'
  BY <1>1, ShutStays
<1>8. Held' = [Held EXCEPT ![x] = c]
  BY <1>5, <1>6 DEF Held
<1> QED
  BY <1>7, <1>8 DEF ManningView!SignOn

LEMMA SignOnStep ==
    ASSUME TurnInv, TurnInv', OutHere, PlanStays, DutyIsNew,
           NEW p \in Slots, SignOnDuty(p) \/ SignOn(p)
    PROVE  ManningView!Next
<1>1. PICK r : r = req[p]
  OBVIOUS
<1>2. PICK x, c, row : x = r.position /\ c = r.callsign
                       /\ row = Shift(r.session, c, x, r.seen)
  OBVIOUS
<1>3. /\ IndexInv /\ TypeOK /\ r \in Request
      /\ r.step \in {"duty", "sign_on"} /\ Writable(r)
  BY <1>1, TableFacts DEF TurnInv, RefInv, IndexInv, SignOnDuty, SignOn, At
<1>4. /\ c \in Callsigns /\ x \in DOMAIN plan /\ x \in Keys
      /\ plan[x].live /\ plan[x].session = r.session
  <2>1. DOMAIN plan = 1..Len(plan) /\ Len(plan) \in Nat
    BY <1>3, TableFacts
  <2>2. c \in Callsigns
    BY <1>1, <1>2, <1>3 DEF IndexInv, KnownKeys, RequestKeys
  <2>3. x \in DOMAIN plan /\ plan[x].session = r.session
    BY <1>1, <1>2, <1>3 DEF TurnInv, RefInv, Holds, Holding
  <2>4. x \in Nat /\ x # Null
    BY <2>1, <2>3 DEF Null
  <2> QED
    BY <1>2, <1>3, <2>2, <2>3, <2>4 DEF Writable, Live, Keys
<1>5. row \in Checkin /\ row.live /\ row.open /\ row.position = x /\ row.callsign = c
  BY <1>2, <1>3, <1>4 DEF Shift, Checkin, Request
<1>6. x \notin Shut
  <2>1. CASE r.step = "duty"
    BY <1>1, <1>2, <1>4, <2>1 DEF Shut, IsClosed, At
  <2>2. CASE r.step = "sign_on"
    BY <1>1, <1>4, <2>2 DEF Shut, IsClosed, TurnInv, OpenYet
  <2> QED
    BY <1>3, <2>1, <2>2
<1>7. \E o : /\ o = Null \/ (o \in DOMAIN log /\ log[o].position = x)
             /\ \/ log' = Append(Closing(log, o), row)
                \/ o = Null /\ log' = Append(log, row)
  <2>1. CASE SignOn(p)
    <3>1. PICK o : o = r.outgoing
      OBVIOUS
    <3>2. log' = Append(Closing(log, o), row)
      BY <1>1, <1>2, <2>1, <3>1 DEF SignOn
    <3>3. r.step = "sign_on"
      BY <1>1, <2>1 DEF SignOn, At
    <3>4. o = Null \/ (o \in DOMAIN log /\ log[o].position = x)
      BY <1>1, <1>2, <1>4, <3>1, <3>3 DEF OutHere
    <3> QED
      BY <3>2, <3>4
  <2>2. CASE SignOnDuty(p)
    BY <1>1, <1>2, <2>2 DEF SignOnDuty
  <2> QED
    BY <2>1, <2>2
<1>8. PICK o : /\ o = Null \/ (o \in DOMAIN log /\ log[o].position = x)
               /\ \/ log' = Append(Closing(log, o), row)
                  \/ o = Null /\ log' = Append(log, row)
  BY <1>7
<1>9. ManningView!SignOn(x, c)
  BY <1>4, <1>5, <1>6, <1>8, TurnSigned
<1> QED
  BY <1>4, <1>9 DEF ManningView!Next

OneTurn == TurnInv /\ OutHere

LEMMA TurnNext == OneSlotAtMost /\ OneTurn /\ [Next]_vars => OneTurn'
<1> SUFFICES ASSUME OneSlotAtMost, OneTurn, [Next]_vars PROVE OneTurn'
  OBVIOUS
<1>1. TurnInv /\ OutHere /\ TypeOK /\ Fresh' /\ RefInv'
  BY FreshNext, RefNext DEF OneTurn, TurnInv, RefInv, IndexInv
<1>2. CASE Edit
  BY <1>1, <1>2, TurnEdit, OutHereEdit DEF OneTurn, TurnInv
<1>3. ASSUME NEW p \in Slots, Begin(p) PROVE OneTurn'
  <2>1. OutHere'
    BY <1>1, <1>3, BeginShape, OutHereQuiet
  <2> QED
    BY <1>1, <1>3, <2>1, TurnBegin DEF OneTurn, TurnInv
<1>4. ASSUME NEW p \in Slots, Proceed(p) PROVE OneTurn'
  BY <1>1, <1>4, TurnProceed, OutHereProceed DEF OneTurn, TurnInv
<1>5. ASSUME NEW p \in Slots, Fail(p) PROVE OneTurn'
  <2>1. OutHere'
    <3>1. Idle.step # "sign_on"
      BY DEF Idle
    <3> QED
      BY <1>1, <1>5, <3>1, OutHereQuiet DEF Fail, Reply
  <2> QED
    BY <1>1, <1>5, <2>1, TurnProceed DEF OneTurn, TurnInv
<1>6. CASE UNCHANGED vars
  <2>1. OpenYet' /\ OutHere'
    BY <1>1, <1>6 DEF vars, TurnInv, OpenYet, OutHere
  <2> QED
    BY <1>1, <2>1 DEF OneTurn, TurnInv
<1> QED
  BY <1>2, <1>3, <1>4, <1>5, <1>6 DEF Next

\* Every step but a sign-on at most leaves posts and closes them.
LEMMA TurnSteps ==
    ASSUME OneSlotAtMost, OneTurn, [Next]_vars
    PROVE  ManningView!Next
<1>1. /\ TurnInv /\ OutHere /\ TurnInv' /\ TypeOK /\ TypeOK'
      /\ IndexInv /\ IndexInv' /\ Single /\ Single'
  BY TurnNext, FreshSingle, FreshSingleNext DEF OneTurn, TurnInv, RefInv, IndexInv
<1>2. ASSUME PlanStays, DutyIsNew, NamesStay, Len(log') = Len(log), \A x \in Keys : Thins(x)
      PROVE  ManningView!Next
  BY <1>1, <1>2, ReleaseStep DEF ManningView!Next
<1>3. CASE Edit
  <2>1. Len(log') = Len(log) /\ \A x \in Keys : Thins(x)
    BY <1>1, <1>3, EditThins DEF Keys
  <2> QED
    BY <1>1, <1>2, <1>3, <2>1, TurnEdit
<1>4. log' = log => Len(log') = Len(log) /\ NamesStay /\ \A x \in Keys : Thins(x)
  BY <1>1, SameLogThins DEF NamesStay
<1>5. ASSUME NEW p \in Slots, Begin(p) PROVE ManningView!Next
  BY <1>1, <1>2, <1>4, <1>5, BeginShape, TurnBegin
<1>6. ASSUME NEW p \in Slots, Proceed(p) \/ Fail(p) PROVE ManningView!Next
  <2>1. PlanStays /\ DutyIsNew
    BY <1>1, <1>6, TurnProceed
  <2>2. CASE SignOnDuty(p) \/ SignOn(p)
    BY <1>1, <2>1, <2>2, SignOnStep
  <2>3. CASE SignOff(p)
    <3>1. Len(log') = Len(log) /\ \A x : Thins(x)
      BY <1>1, <2>3, ClosingThins DEF SignOff
    <3>2. log \in Seq(Checkin) /\ \A i \in DOMAIN log : log[i] \in Checkin
      BY <1>1, TableFacts DEF TypeOK
    <3>3. NamesStay
      BY <2>3, <3>2 DEF SignOff, NamesStay, Closing, Checkin
    <3> QED
      BY <1>2, <2>1, <3>1, <3>3
  <2>4. CASE log' = log
    BY <1>2, <1>4, <2>1, <2>4
  <2> QED
    BY <1>6, <2>2, <2>3, <2>4
       DEF Proceed, Fail, StampEnded, CreateNetControl, ReadTemplates, CopyTemplates,
           ReadOccupant, EndSession, Refuse
<1>7. CASE UNCHANGED vars
  <2>1. PlanStays /\ DutyIsNew /\ log' = log
    BY <1>7 DEF vars, PlanStays, DutyIsNew
  <2> QED
    BY <1>2, <1>4, <2>1
<1> QED
  BY <1>3, <1>5, <1>6, <1>7 DEF Next

\* When one request is handled at a time, whoever is signed on to a position got there by
\* a sign-on while it was open, which relieved the one before in the same step, and a
\* position that has gone or whose session has ended is never manned again
\* (sign_on_tactical_position, sign_off_tactical_position, end_session).
THEOREM TurnsKeepManning ==
    ASSUME OneSlotAtMost
    PROVE  Spec => ManningView!Spec
<1>1. Init => OneTurn
  <2>1. Init => Fresh
    BY RacedInit DEF Init, Fresh, Idle
  <2>2. Init => RefInv /\ OpenYet /\ OutHere
    BY IndexInit DEF Init, RefInv, Holding, Idle, OpenYet, OutHere
  <2> QED
    BY <2>1, <2>2 DEF OneTurn, TurnInv
<1>2. Init => ManningView!Init
  <2>1. Init => Shut = {} /\ \A x : OpenRows(x) = {}
    BY DEF Init, Shut, OpenRows
  <2> QED
    BY <2>1 DEF ManningView!Init, Held, HolderOf
<1>3. OneTurn /\ [Next]_vars => OneTurn'
  BY TurnNext
<1>4. OneTurn /\ [Next]_vars => [ManningView!Next]_<<Held, Shut>>
  BY TurnSteps
<1> QED
  BY <1>1, <1>2, <1>3, <1>4, PTL DEF Spec, ManningView!Spec
=============================================================================
