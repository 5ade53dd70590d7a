--------------------------- MODULE SignupsProofs ---------------------------
(***************************************************************************)
(* Proofs about Signups, for any users, schedules, dates and number of     *)
(* requests in flight.                                                     *)
(***************************************************************************)
EXTENDS Signups, TLAPS

Disjoint(role1, role2) == Duties(role1) \cap Duties(role2) = {}

\* A request about to commit had looked at every row its date had by then.
Looked(p) ==
    req[p].step = "insert" =>
      /\ req[p].seen \in 0..Len(signups)
      /\ \A i \in OnDate(req[p].slot) :
            i <= req[p].seen => Disjoint(signups[i].role, req[p].role)

\* What a request stands on was so while its sender's access was being read.
Authorised(p) ==
    req[p] # Idle =>
      /\ req[p].admin => p \in held
      /\ req[p].step \in {"check", "insert"} /\ req[p].role # "broadcaster" => p \in held
      /\ req[p].owned => p \in ruled
      /\ req[p].step = "insert" => MayAssign(req[p])

\* The histories know of whoever has a right while it is read.
Recorded ==
    \A p \in Slots : (Trusted(p) => p \in held) /\ (Ruling(p) => p \in ruled)

IInv ==
    /\ TypeOK
    /\ DoubleDutyIsRaced
    /\ \A p \in Slots : Looked(p)
    /\ \A p \in Slots : Authorised(p)
    /\ Recorded

-----------------------------------------------------------------------------
\* A clash of duties is what create_signup computes from the roles.
LEMMA ClashFacts ==
    ASSUME NEW role \in Roles, NEW taken \in SUBSET Roles, ~Clashes(role, taken)
    PROVE  \A other \in taken : Disjoint(other, role)
BY DEF Clashes, Disjoint, Duties, Roles

LEMMA IdleFacts ==
    ASSUME TypeOK, NEW p \in Slots, req[p].step # "idle"
    PROVE  req[p] \in Request /\ req[p] # Idle
BY DEF TypeOK, Idle

\* The histories of a step, or of a stutter: they lose nothing of the requests that
\* go on.
Continued ==
    /\ held' \subseteq Slots /\ ruled' \subseteq Slots
    /\ \A p \in Slots : req'[p] # Idle =>
          (p \in held => p \in held') /\ (p \in ruled => p \in ruled')
    /\ Recorded'

LEMMA RememberContinues == Remember => Continued
BY DEF Remember, Continued, Recorded

LEMMA InitIInv == Init => IInv
<1> SUFFICES ASSUME Init PROVE IInv
  OBVIOUS
<1>1. \A p \in Slots : req[p] = Idle
  BY DEF Init
<1>2. signups = <<>> /\ DOMAIN signups = {} /\ Live = {}
  BY DEF Init, Live
<1>3. TypeOK
  <2>1. owner \in Users /\ admins \subseteq Users
    BY SignupsAssumption DEF Init
  <2> QED
    BY <1>1, <1>2, <2>1 DEF Init, TypeOK, Grants
<1>4. \A p \in Slots : Looked(p) /\ Authorised(p)
  BY <1>1 DEF Looked, Authorised, Idle
<1>5. Recorded
  BY <1>1 DEF Recorded, Trusted, Ruling, Idle
<1>6. DoubleDutyIsRaced
  BY <1>2 DEF DoubleDutyIsRaced
<1> QED
  BY <1>3, <1>4, <1>5, <1>6 DEF IInv

-----------------------------------------------------------------------------
(* The table of sign-ups shrinks, or grows by one row.                     *)

\* Rows withdrawn take nothing from what the others rest on.
LEMMA WithdrawKeeps ==
    ASSUME IInv, NEW gone \in SUBSET DOMAIN signups, Withdraw(gone),
           UNCHANGED req
    PROVE  /\ signups' \in Seq(Signup) /\ Live' = Live \ gone
           /\ DoubleDutyIsRaced'
           /\ \A p \in Slots : Looked(p)'
           /\ \A i \in DOMAIN signups' : signups'[i].slot = signups[i].slot
           /\ DOMAIN signups' = DOMAIN signups
<1>1. signups \in Seq(Signup) /\ DOMAIN signups = 1..Len(signups) /\ Len(signups) \in Nat
  BY DEF IInv, TypeOK
<1>2. \A i \in DOMAIN signups : signups[i] \in Signup
  BY <1>1
<1> DEFINE row(i) == IF i \in gone THEN [signups[i] EXCEPT !.live = FALSE] ELSE signups[i]
<1>3. /\ \A i \in DOMAIN signups : row(i) \in Signup
      /\ \A i \in DOMAIN signups : /\ row(i).slot = signups[i].slot
                                   /\ row(i).role = signups[i].role
                                   /\ row(i).seen = signups[i].seen
      /\ \A i \in DOMAIN signups : row(i).live <=> signups[i].live /\ i \notin gone
  BY <1>2 DEF Signup
<1>4. signups' = [i \in 1..Len(signups) |-> row(i)]
  BY <1>1 DEF Withdraw
<1> HIDE DEF row
<1>5. signups' \in Seq(Signup) /\ Len(signups') = Len(signups)
      /\ DOMAIN signups' = DOMAIN signups
  BY <1>1, <1>3, <1>4
<1>6. \A i \in DOMAIN signups : signups'[i] = row(i)
  BY <1>1, <1>4
<1>7. Live' = Live \ gone
  BY <1>3, <1>5, <1>6 DEF Live
<1>8. Live \subseteq DOMAIN signups
  BY DEF Live
<1>9. DoubleDutyIsRaced'
  <2>1. \A i \in Live' : /\ i \in Live
                         /\ signups'[i].slot = signups[i].slot /\ signups'[i].role = signups[i].role
                         /\ signups'[i].seen = signups[i].seen
    BY <1>3, <1>6, <1>7, <1>8
  <2> QED
    BY <2>1 DEF IInv, DoubleDutyIsRaced
<1>10. \A slot : OnDate(slot)' \subseteq OnDate(slot)
  BY <1>3, <1>6, <1>7, <1>8 DEF OnDate
<1>11. \A p \in Slots : Looked(p)'
  BY <1>3, <1>5, <1>6, <1>8, <1>10 DEF IInv, Looked, OnDate
<1> QED
  BY <1>3, <1>5, <1>6, <1>7, <1>9, <1>11

\* A new row: those before it stay as they are.
LEMMA AppendKeeps ==
    ASSUME IInv, NEW p \in Slots, NEW new \in Signup,
           req[p].step = "insert",
           new.live, new.slot = req[p].slot, new.role = req[p].role,
           new.seen = req[p].seen,
           signups' = Append(signups, new), req' = [req EXCEPT ![p] = Idle]
    PROVE  DoubleDutyIsRaced' /\ \A q \in Slots : Looked(q)'
<1>1. signups \in Seq(Signup) /\ DOMAIN signups = 1..Len(signups) /\ Len(signups) \in Nat
  BY DEF IInv, TypeOK
<1> DEFINE n == Len(signups) + 1
<1>2. /\ DOMAIN signups' = 1..n /\ Len(signups') = n
      /\ signups'[n] = new /\ \A i \in DOMAIN signups : signups'[i] = signups[i]
  BY <1>1
<1>3. Live' = Live \cup {n} /\ Live \subseteq 1..Len(signups) /\ n \notin Live
  BY <1>1, <1>2 DEF Live
<1>4. Looked(p)
  BY DEF IInv
<1>5. DoubleDutyIsRaced'
  <2> SUFFICES ASSUME NEW i \in Live', NEW j \in Live', i < j,
                      signups'[i].slot = signups'[j].slot,
                      Duties(signups'[i].role) \cap Duties(signups'[j].role) # {}
               PROVE  signups'[j].seen < i
    BY DEF DoubleDutyIsRaced
  <2>1. i \in Live /\ signups'[i] = signups[i] /\ i \in 1..Len(signups)
    BY <1>1, <1>2, <1>3
  <2>2. CASE j \in Live
    BY <1>2, <1>3, <2>1, <2>2 DEF IInv, DoubleDutyIsRaced, Live
  <2>3. CASE j = n
    <3>1. i \in OnDate(req[p].slot) /\ ~Disjoint(signups[i].role, req[p].role)
      BY <1>2, <2>1, <2>3 DEF OnDate, Disjoint
    <3>2. req[p].seen \in Nat /\ ~(i <= req[p].seen)
      BY <1>1, <1>4, <3>1 DEF Looked
    <3> QED
      BY <1>2, <2>1, <2>3, <3>2
  <2> QED
    BY <1>3, <2>2, <2>3
<1>6. ASSUME NEW q \in Slots, req'[q].step = "insert"
      PROVE  Looked(q)'
  <2>1. q # p /\ req'[q] = req[q]
    <3>1. req \in [Slots -> Request \cup {Idle}] /\ Idle.step # "insert"
      BY DEF IInv, TypeOK, Idle
    <3> QED
      BY <1>6, <3>1
  <2>2. Looked(q) /\ req[q].step = "insert"
    BY <1>6, <2>1 DEF IInv
  <2>3. req[q].seen \in 0..Len(signups)
    BY <2>2 DEF Looked
  <2>4. ASSUME NEW i \in OnDate(req[q].slot)', i <= req[q].seen
        PROVE  Disjoint(signups'[i].role, req[q].role)
    <3>1. i \in Live /\ i \in 1..Len(signups)
      <4>1. i \in Live'
        BY <2>4 DEF OnDate
      <4>2. i # n
        BY <1>1, <2>3, <2>4
      <4> QED
        BY <1>3, <4>1, <4>2
    <3>2. i \in OnDate(req[q].slot) /\ signups'[i] = signups[i]
      BY <1>1, <1>2, <2>1, <2>4, <3>1 DEF OnDate
    <3> QED
      BY <2>2, <2>4, <3>2 DEF Looked
  <2>5. req[q].seen \in 0..Len(signups')
    BY <1>1, <1>2, <2>3
  <2> QED
    BY <2>1, <2>4, <2>5 DEF Looked
<1> QED
  BY <1>5, <1>6 DEF Looked

-----------------------------------------------------------------------------
(* Steps.                                                                  *)

\* TypeOK with its last conjunct named.
Tables ==
    /\ owner \in Users /\ admins \subseteq Users
    /\ grant \in [Users -> Grants]
    /\ schedules \subseteq Schedules
    /\ signups \in Seq(Signup)
    /\ req \in [Slots -> Request \cup {Idle}]
    /\ held \subseteq Slots /\ ruled \subseteq Slots

OnSchedule == \A i \in Live : signups[i].slot.schedule \in schedules

LEMMA TypeParts == TypeOK <=> Tables /\ OnSchedule
BY DEF TypeOK, Tables, OnSchedule, Live

LEMMA TypePartsPrimed == TypeOK' <=> Tables' /\ OnSchedule'
BY DEF TypeOK, Tables, OnSchedule, Live

\* A step of one request that leaves the tables alone: what is left to show is that
\* the request is well-typed, has looked and is authorised.
LEMMA EnterKeeps ==
    ASSUME IInv, Continued, NEW p \in Slots, NEW r \in Request \cup {Idle},
           req' = [req EXCEPT ![p] = r],
           UNCHANGED <<owner, admins, grant, schedules, signups>>,
           r.step = "insert" =>
              /\ r.seen \in 0..Len(signups)
              /\ \A i \in OnDate(r.slot) : i <= r.seen => Disjoint(signups[i].role, r.role),
           Authorised(p)'
    PROVE  IInv'
<1>1. Tables /\ OnSchedule
  BY TypeParts DEF IInv
<1>2. /\ req' \in [Slots -> Request \cup {Idle}] /\ req'[p] = r
      /\ \A q \in Slots \ {p} : req'[q] = req[q]
  BY <1>1 DEF Tables
<1>3. TypeOK'
  <2>1. Tables'
    BY <1>1, <1>2 DEF Tables, Continued
  <2>2. OnSchedule'
    BY <1>1 DEF OnSchedule, Live
  <2> QED
    BY <2>1, <2>2, TypePartsPrimed
<1>4. DoubleDutyIsRaced' /\ Recorded'
  BY DEF IInv, DoubleDutyIsRaced, Continued, Live
<1>5. Looked(p)'
  BY <1>2 DEF Looked, OnDate, Live
<1>6. \A q \in Slots \ {p} : Looked(q)' /\ Authorised(q)'
  <2> SUFFICES ASSUME NEW q \in Slots \ {p} PROVE Looked(q)' /\ Authorised(q)'
    OBVIOUS
  <2>1. req'[q] = req[q] /\ Looked(q) /\ Authorised(q)
    BY <1>2 DEF IInv
  <2>2. Looked(q)'
    BY <2>1 DEF Looked, OnDate, Live
  <2>3. req'[q] # Idle => (q \in held => q \in held') /\ (q \in ruled => q \in ruled')
    BY DEF Continued
  <2>4. Authorised(q)'
    BY <2>1, <2>3 DEF Authorised, MayAssign
  <2> QED
    BY <2>2, <2>4
<1> QED
  BY <1>3, <1>4, <1>5, <1>6 DEF IInv

\* A request that ends stands on nothing.
LEMMA EndKeeps ==
    ASSUME IInv, Continued, NEW p \in Slots, Enter(p, Idle)
    PROVE  IInv'
<1>1. /\ req' = [req EXCEPT ![p] = Idle]
      /\ UNCHANGED <<owner, admins, grant, schedules, signups>>
  BY DEF Enter
<1>2. req'[p] = Idle
  BY <1>1, TypeParts DEF IInv, Tables
<1>3. Authorised(p)' /\ Idle.step # "insert"
  BY <1>2 DEF Authorised, Idle
<1> QED
  BY <1>1, <1>3, EnterKeeps

\* A request is sent: if by a super admin, its sender has full access by then.
LEMMA BeginKeeps ==
    ASSUME IInv, Continued, NEW p \in Slots, NEW u \in Users, NEW assignee \in Users,
           NEW slot \in Date, NEW role \in Roles, BeginSignup(p, u, slot, role, assignee)
    PROVE  IInv'
<1> DEFINE admin == u \in admins
           new == [step |-> "load", slot |-> slot, role |-> role, user |-> assignee,
                   by |-> u, admin |-> admin, owned |-> FALSE, seen |-> 0]
<1>1. /\ req' = [req EXCEPT ![p] = new]
      /\ UNCHANGED <<owner, admins, grant, schedules, signups>>
  BY DEF BeginSignup
<1>0. admin \in BOOLEAN /\ (admin => u \in admins)
  OBVIOUS
<1> HIDE DEF admin
<1>2. /\ new \in Request /\ new.step = "load" /\ new.by = u
      /\ new.admin => u \in admins
      /\ ~new.owned
  BY <1>0 DEF Request
<1> HIDE DEF new
<1>3. req'[p] = new
  BY <1>1, TypeParts DEF IInv, Tables
<1>4. new.admin => p \in held'
  <2>1. u \in admins => u \in Editors'
    BY <1>1 DEF Editors
  <2>2. u \in Editors' => Trusted(p)'
    BY <1>2, <1>3 DEF Trusted
  <2>3. Trusted(p)' => p \in held'
    BY DEF Continued, Recorded
  <2> QED
    BY <1>2, <2>1, <2>2, <2>3
<1>5. Authorised(p)'
  BY <1>2, <1>3, <1>4 DEF Authorised
<1> QED
  BY <1>1, <1>2, <1>5, EnterKeeps

\* The net is loaded: what counted as full access, or as owning it, is known by now.
LEMMA LoadKeeps ==
    ASSUME IInv, Continued, NEW p \in Slots, LoadNet(p)
    PROVE  IInv'
<1> DEFINE r == [req[p] EXCEPT !.admin = FALSE, !.owned = (req[p].by = owner)]
           go(step) == [r EXCEPT !.step = step]
<1>1. Tables /\ Recorded /\ Authorised(p)
  BY TypeParts DEF IInv
<1>2. req[p].step = "load" /\ req[p] \in Request /\ req[p] # Idle
  BY IdleFacts DEF IInv, LoadNet
<1>3. \/ Enter(p, go("check")) /\ (req[p].admin \/ req[p].by = owner)
      \/ Enter(p, go("shares"))
      \/ Enter(p, Idle)
  BY <1>2 DEF LoadNet, Request
<1>4. \A step \in {"check", "shares"} :
         /\ go(step) \in Request /\ go(step).step = step
         /\ ~go(step).admin /\ (go(step).owned => req[p].by = owner)
         /\ go(step).role = req[p].role
  BY <1>1, <1>2 DEF Request, Tables
<1> HIDE DEF r, go
<1>5. req[p].by = owner => p \in held /\ p \in ruled
  <2>1. owner \in Editors
    BY <1>1 DEF Tables, Editors
  <2> QED
    BY <1>1, <1>2, <2>1 DEF Recorded, Trusted, Ruling
<1>6. req[p].admin => p \in held
  BY <1>1, <1>2 DEF Authorised
<1>7. ASSUME NEW step \in {"check", "shares"}, Enter(p, go(step)),
             step = "check" => req[p].admin \/ req[p].by = owner
      PROVE  IInv'
  <2>1. /\ req' = [req EXCEPT ![p] = go(step)]
        /\ UNCHANGED <<owner, admins, grant, schedules, signups>>
    BY <1>7 DEF Enter
  <2>2. req'[p] = go(step) /\ req'[p] # Idle
    BY <1>1, <1>4, <2>1 DEF Tables, Idle
  <2>3. (p \in held => p \in held') /\ (p \in ruled => p \in ruled')
    BY <2>2 DEF Continued
  <2>4. Authorised(p)'
    BY <1>4, <1>5, <1>6, <1>7, <2>2, <2>3 DEF Authorised
  <2> QED
    BY <1>4, <2>1, <2>4, EnterKeeps
<1> QED
  BY <1>3, <1>7, EndKeeps

\* The shares are read: an edit share counts while it is there.
LEMMA SharesKeep ==
    ASSUME IInv, Continued, NEW p \in Slots, ReadShares(p)
    PROVE  IInv'
<1> DEFINE step == IF grant[req[p].by] = "edit" THEN "check" ELSE "role"
           new == [req[p] EXCEPT !.step = step]
<1>1. Tables /\ Recorded /\ Authorised(p)
  BY TypeParts DEF IInv
<1>2. req[p].step = "shares" /\ req[p] \in Request /\ req[p] # Idle
  BY IdleFacts DEF IInv, ReadShares
<1>3. /\ req' = [req EXCEPT ![p] = new]
      /\ UNCHANGED <<owner, admins, grant, schedules, signups>>
  BY DEF ReadShares, Enter
<1>4. /\ new \in Request /\ new.step \in {"check", "role"}
      /\ new.step = "check" => grant[req[p].by] = "edit"
      /\ new.admin = req[p].admin /\ new.owned = req[p].owned
  BY <1>2 DEF Request
<1> HIDE DEF new, step
<1>5. new.step = "check" => p \in held
  <2>1. new.step = "check" => req[p].by \in Editors
    BY <1>2, <1>4 DEF Editors, Request
  <2> QED
    BY <1>1, <1>2, <2>1 DEF Recorded, Trusted
<1>6. req'[p] = new /\ req'[p] # Idle
  BY <1>1, <1>3, <1>4 DEF Tables, Idle
<1>7. (p \in held => p \in held') /\ (p \in ruled => p \in ruled')
  BY <1>6 DEF Continued
<1>8. Authorised(p)'
  BY <1>1, <1>2, <1>4, <1>5, <1>6, <1>7 DEF Authorised
<1> QED
  BY <1>3, <1>4, <1>8, EnterKeeps

\* A broadcaster's share is good for the broadcast.
LEMMA RoleKeeps ==
    ASSUME IInv, Continued, NEW p \in Slots, ReadRole(p)
    PROVE  IInv'
<1> DEFINE new == [req[p] EXCEPT !.step = "check"]
<1>1. Tables /\ Authorised(p)
  BY TypeParts DEF IInv
<1>2. req[p].step = "role" /\ req[p] \in Request /\ req[p] # Idle
  BY IdleFacts DEF IInv, ReadRole
<1>3. \/ Enter(p, new) /\ req[p].role = "broadcaster"
      \/ Enter(p, Idle)
  BY DEF ReadRole, SelfBroadcast
<1>4. /\ new \in Request /\ new.step = "check" /\ new.role = req[p].role
      /\ new.admin = req[p].admin /\ new.owned = req[p].owned
  BY <1>2 DEF Request
<1> HIDE DEF new
<1>5. CASE Enter(p, new) /\ req[p].role = "broadcaster"
  <2>1. /\ req' = [req EXCEPT ![p] = new]
        /\ UNCHANGED <<owner, admins, grant, schedules, signups>>
    BY <1>5 DEF Enter
  <2>2. req'[p] = new /\ req'[p] # Idle
    BY <1>1, <1>4, <2>1 DEF Tables, Idle
  <2>3. (p \in held => p \in held') /\ (p \in ruled => p \in ruled')
    BY <2>2 DEF Continued
  <2>4. Authorised(p)'
    BY <1>1, <1>2, <1>4, <1>5, <2>2, <2>3 DEF Authorised
  <2> QED
    BY <1>4, <2>1, <2>4, EnterKeeps
<1> QED
  BY <1>3, <1>5, EndKeeps

\* It is refused or goes on, having looked.
LEMMA CheckKeeps ==
    ASSUME IInv, Continued, NEW p \in Slots, CheckConflict(p)
    PROVE  IInv'
<1> DEFINE taken == {signups[i].role : i \in OnDate(req[p].slot)}
           new == [req[p] EXCEPT !.step = "insert", !.seen = Len(signups)]
<1>1. /\ req[p].step = "check"
      /\ \/ Enter(p, Idle)
         \/ Enter(p, new) /\ ~Clashes(req[p].role, taken) /\ MayAssign(req[p])
  BY DEF CheckConflict
<1>2. Tables /\ Authorised(p)
  BY TypeParts DEF IInv
<1>3. /\ req[p] \in Request /\ req[p] # Idle
      /\ signups \in Seq(Signup) /\ DOMAIN signups = 1..Len(signups)
      /\ Len(signups) \in Nat
  BY <1>1, <1>2, IdleFacts DEF IInv, Tables
<1>4. /\ new \in Request /\ new.step = "insert" /\ new.seen = Len(signups)
      /\ new.slot = req[p].slot /\ new.role = req[p].role /\ new.by = req[p].by
      /\ new.user = req[p].user /\ new.owned = req[p].owned /\ new.admin = req[p].admin
  BY <1>3 DEF Request
<1>5. \A i \in OnDate(req[p].slot) : signups[i] \in Signup
  BY <1>3 DEF OnDate, Live
<1>6. taken \in SUBSET Roles /\ req[p].role \in Roles
  BY <1>3, <1>5 DEF Signup, Request
<1>7. ~Clashes(req[p].role, taken) =>
        \A i \in OnDate(req[p].slot) : Disjoint(signups[i].role, req[p].role)
  <2> SUFFICES ASSUME ~Clashes(req[p].role, taken), NEW i \in OnDate(req[p].slot)
               PROVE  Disjoint(signups[i].role, req[p].role)
    OBVIOUS
  <2>1. signups[i].role \in taken
    OBVIOUS
  <2> HIDE DEF taken
  <2> QED
    BY <1>6, <2>1, ClashFacts
<1> HIDE DEF new, taken
<1>8. CASE Enter(p, new) /\ ~Clashes(req[p].role, taken) /\ MayAssign(req[p])
  <2>1. /\ req' = [req EXCEPT ![p] = new]
        /\ UNCHANGED <<owner, admins, grant, schedules, signups>>
    BY <1>8 DEF Enter
  <2>2. req'[p] = new /\ req'[p] # Idle
    BY <1>2, <1>4, <2>1 DEF Tables, Idle
  <2>3. (p \in held => p \in held') /\ (p \in ruled => p \in ruled')
    BY <2>2 DEF Continued
  <2>4. MayAssign(new)
    BY <1>4, <1>8 DEF MayAssign
  <2>5. Authorised(p)'
    BY <1>1, <1>2, <1>3, <1>4, <2>2, <2>3, <2>4 DEF Authorised
  <2>6. /\ new.seen \in 0..Len(signups)
        /\ \A i \in OnDate(new.slot) : Disjoint(signups[i].role, new.role)
    BY <1>3, <1>4, <1>7, <1>8
  <2> QED
    BY <1>4, <2>1, <2>5, <2>6, EnterKeeps
<1> QED
  BY <1>1, <1>8, EndKeeps

\* It commits, or the database refuses it.
LEMMA InsertKeeps ==
    ASSUME IInv, Continued, NEW p \in Slots, Insert(p)
    PROVE  IInv'
<1> DEFINE new == [live |-> TRUE, slot |-> req[p].slot, role |-> req[p].role,
                   user |-> req[p].user, seen |-> req[p].seen]
<1>1. /\ req[p].step = "insert" /\ req' = [req EXCEPT ![p] = Idle]
      /\ UNCHANGED <<owner, admins, grant, schedules>>
      /\ \/ signups' = Append(signups, new) /\ req[p].slot.schedule \in schedules
         \/ signups' = signups
  BY DEF Insert, Insertable
<1>2. Tables /\ OnSchedule
  BY TypeParts DEF IInv
<1>3. /\ req[p] \in Request
      /\ signups \in Seq(Signup) /\ DOMAIN signups = 1..Len(signups)
      /\ Len(signups) \in Nat
  BY <1>1, <1>2, IdleFacts DEF IInv, Tables
<1>4. /\ new \in Signup /\ new.live /\ new.slot = req[p].slot
      /\ new.role = req[p].role /\ new.seen = req[p].seen
  BY <1>3 DEF Signup, Request
<1> HIDE DEF new
<1>5. CASE signups' = signups
  <2>1. Enter(p, Idle)
    BY <1>1, <1>5 DEF Enter
  <2> QED
    BY <2>1, EndKeeps
<1>6. CASE signups' = Append(signups, new) /\ req[p].slot.schedule \in schedules
  <2>1. DoubleDutyIsRaced' /\ \A q \in Slots : Looked(q)'
    BY <1>1, <1>4, <1>6, AppendKeeps
  <2>2. /\ req' \in [Slots -> Request \cup {Idle}] /\ req'[p] = Idle
        /\ \A q \in Slots \ {p} : req'[q] = req[q]
    BY <1>1, <1>2 DEF Tables
  <2>3. \A q \in Slots : Authorised(q)'
    <3>1. Authorised(p)'
      BY <2>2 DEF Authorised
    <3>2. ASSUME NEW q \in Slots \ {p} PROVE Authorised(q)'
      <4>1. req'[q] = req[q] /\ Authorised(q)
        BY <2>2 DEF IInv
      <4>2. req'[q] # Idle => (q \in held => q \in held') /\ (q \in ruled => q \in ruled')
        BY DEF Continued
      <4> QED
        BY <4>1, <4>2 DEF Authorised, MayAssign
    <3> QED
      BY <3>1, <3>2
  <2>4. Tables'
    BY <1>1, <1>2, <1>4, <1>6, <2>2 DEF Tables, Continued
  <2>5. OnSchedule'
    <3> SUFFICES ASSUME NEW i \in Live'
                 PROVE  signups'[i].slot.schedule \in schedules
      BY <1>1 DEF OnSchedule
    <3>1. /\ DOMAIN signups' = 1..(Len(signups) + 1)
          /\ signups'[Len(signups) + 1] = new
          /\ \A j \in DOMAIN signups : signups'[j] = signups[j]
      BY <1>3, <1>6
    <3>2. CASE i = Len(signups) + 1
      BY <1>4, <1>6, <3>1, <3>2
    <3>3. CASE i # Len(signups) + 1
      <4>1. i \in DOMAIN signups /\ signups'[i].live
        BY <1>3, <3>1, <3>3 DEF Live
      <4>2. i \in Live /\ signups'[i] = signups[i]
        BY <3>1, <4>1 DEF Live
      <4> QED
        BY <1>2, <4>2 DEF OnSchedule
    <3> QED
      BY <3>2, <3>3
  <2>6. Recorded'
    BY DEF Continued
  <2> QED
    BY <2>1, <2>3, <2>4, <2>5, <2>6, TypePartsPrimed DEF IInv
<1> QED
  BY <1>1, <1>5, <1>6

\* Requests stay as they are: so do their claims.
LEMMA WaitingKeep ==
    ASSUME IInv, Continued, UNCHANGED req
    PROVE  \A p \in Slots : Authorised(p)'
<1> SUFFICES ASSUME NEW p \in Slots PROVE Authorised(p)'
  OBVIOUS
<1>1. Authorised(p) /\ req'[p] = req[p]
  BY DEF IInv
<1>2. req'[p] # Idle => (p \in held => p \in held') /\ (p \in ruled => p \in ruled')
  BY DEF Continued
<1> QED
  BY <1>1, <1>2 DEF Authorised, MayAssign

\* Rights, or the schedules, change.
LEMMA RightsKeep ==
    ASSUME IInv, Continued, UNCHANGED <<signups, req>>,
           owner' \in Users, admins' \subseteq Users, grant' \in [Users -> Grants],
           schedules \subseteq schedules', schedules' \subseteq Schedules
    PROVE  IInv'
<1>1. Tables /\ OnSchedule
  BY TypeParts DEF IInv
<1>2. Tables'
  BY <1>1 DEF Tables, Continued
<1>3. OnSchedule'
  BY <1>1 DEF OnSchedule, Live
<1>4. DoubleDutyIsRaced' /\ Recorded'
  BY DEF IInv, DoubleDutyIsRaced, Continued, Live
<1>5. \A p \in Slots : Looked(p)'
  BY DEF IInv, Looked, OnDate, Live
<1> QED
  BY <1>2, <1>3, <1>4, <1>5, WaitingKeep, TypePartsPrimed DEF IInv

LEMMA AdministerKeeps ==
    ASSUME IInv, Continued, Administer
    PROVE  IInv'
<1>1. Tables /\ OnSchedule
  BY TypeParts DEF IInv
<1>2. ASSUME NEW u \in Users, NEW allowed \in Grants, Share(u, allowed)
      PROVE  IInv'
  <2>1. grant' = [grant EXCEPT ![u] = allowed] /\ UNCHANGED <<owner, admins, schedules, signups, req>>
    BY <1>2 DEF Share
  <2>2. grant' \in [Users -> Grants] /\ owner' \in Users /\ admins' \subseteq Users
    BY <1>1, <2>1 DEF Tables
  <2>3. schedules \subseteq schedules' /\ schedules' \subseteq Schedules
    BY <1>1, <2>1 DEF Tables
  <2> QED
    BY <2>1, <2>2, <2>3, RightsKeep
<1>3. ASSUME NEW u \in Users, NEW a \in Users,
             TransferNetOwner(u) \/ MakeAdmin(a, u) \/ RemoveAdmin(a, u)
      PROVE  IInv'
  <2>1. /\ owner' \in {owner, u} /\ admins' \in {admins, admins \cup {u}, admins \ {u}}
        /\ UNCHANGED <<grant, schedules, signups, req>>
    BY <1>3 DEF TransferNetOwner, MakeAdmin, RemoveAdmin
  <2>2. grant' \in [Users -> Grants] /\ owner' \in Users /\ admins' \subseteq Users
    BY <1>1, <2>1 DEF Tables
  <2>3. schedules \subseteq schedules' /\ schedules' \subseteq Schedules
    BY <1>1, <2>1 DEF Tables
  <2> QED
    BY <2>1, <2>2, <2>3, RightsKeep
<1>4. ASSUME NEW u \in Users, NEW s \in Schedules, CreateSchedule(u, s)
      PROVE  IInv'
  <2>1. schedules' = schedules \cup {s} /\ UNCHANGED <<owner, admins, grant, signups, req>>
    BY <1>4 DEF CreateSchedule
  <2>2. grant' \in [Users -> Grants] /\ owner' \in Users /\ admins' \subseteq Users
    BY <1>1, <2>1 DEF Tables
  <2>3. schedules \subseteq schedules' /\ schedules' \subseteq Schedules
    BY <1>1, <2>1 DEF Tables
  <2> QED
    BY <2>1, <2>2, <2>3, RightsKeep
<1>5. ASSUME NEW gone \in SUBSET DOMAIN signups, Withdraw(gone), schedules' \subseteq schedules,
             UNCHANGED <<owner, admins, grant, req>>,
             \A i \in Live \ gone : signups[i].slot.schedule \in schedules'
      PROVE  IInv'
  <2>1. /\ signups' \in Seq(Signup) /\ Live' = Live \ gone
        /\ DoubleDutyIsRaced'
        /\ \A p \in Slots : Looked(p)'
        /\ \A i \in DOMAIN signups' : signups'[i].slot = signups[i].slot
        /\ DOMAIN signups' = DOMAIN signups
    BY <1>5, WithdrawKeeps
  <2>2. Tables'
    BY <1>1, <1>5, <2>1 DEF Tables, Continued
  <2>3. OnSchedule'
    BY <1>5, <2>1 DEF OnSchedule, Live
  <2>4. Recorded' /\ \A p \in Slots : Authorised(p)'
    BY <1>5, WaitingKeep DEF Continued
  <2> QED
    BY <2>1, <2>2, <2>3, <2>4, TypePartsPrimed DEF IInv
<1>6. ASSUME NEW u \in Users, NEW s \in Schedules, DeleteSchedule(u, s)
      PROVE  IInv'
  <2> DEFINE gone == {i \in Live : signups[i].slot.schedule = s}
  <2>1. /\ Withdraw(gone) /\ schedules' = schedules \ {s}
        /\ UNCHANGED <<owner, admins, grant, req>>
    BY <1>6 DEF DeleteSchedule
  <2>2. \A i \in Live \ gone : signups[i].slot.schedule \in schedules'
    BY <1>1, <2>1 DEF OnSchedule
  <2>3. gone \in SUBSET DOMAIN signups
    BY DEF Live
  <2> HIDE DEF gone
  <2> QED
    BY <1>5, <2>1, <2>2, <2>3
<1>7. ASSUME NEW u \in Users, NEW i \in DOMAIN signups, DeleteSignup(u, i)
      PROVE  IInv'
  <2>1. Withdraw({i}) /\ UNCHANGED <<owner, admins, grant, schedules, req>>
    BY <1>7 DEF DeleteSignup
  <2>2. {i} \in SUBSET DOMAIN signups
    OBVIOUS
  <2>3. \A j \in Live \ {i} : signups[j].slot.schedule \in schedules'
    BY <1>1, <2>1 DEF OnSchedule
  <2> QED
    BY <1>5, <2>1, <2>2, <2>3
<1> QED
  BY <1>2, <1>3, <1>4, <1>6, <1>7 DEF Administer

LEMMA StepIInv == IInv /\ [Next]_vars => IInv'
<1> SUFFICES ASSUME IInv, [Next]_vars PROVE IInv'
  OBVIOUS
<1>1. CASE Next
  <2>1. Step /\ Continued
    BY <1>1, RememberContinues DEF Next
  <2>2. CASE Administer
    BY <2>1, <2>2, AdministerKeeps
  <2>3. ASSUME NEW p \in Slots, Proceed(p) PROVE IInv'
    BY <2>1, <2>3, BeginKeeps, LoadKeeps, SharesKeep, RoleKeeps, CheckKeeps, InsertKeeps
       DEF Proceed
  <2> QED
    BY <2>1, <2>2, <2>3 DEF Step
<1>2. CASE UNCHANGED vars
  <2>1. UNCHANGED <<owner, admins, grant, schedules, signups, req, held, ruled>>
    BY <1>2 DEF vars
  <2>2. Tables /\ Recorded
    BY TypeParts DEF IInv
  <2>3. Recorded'
    BY <2>1, <2>2 DEF Recorded, Trusted, Ruling, Editors
  <2>4. Continued
    BY <2>1, <2>2, <2>3 DEF Continued, Tables
  <2>5. grant' \in [Users -> Grants] /\ owner' \in Users /\ admins' \subseteq Users
    BY <2>1, <2>2 DEF Tables
  <2>6. schedules \subseteq schedules' /\ schedules' \subseteq Schedules
    BY <2>1, <2>2 DEF Tables
  <2> QED
    BY <2>1, <2>4, <2>5, <2>6, RightsKeep
<1> QED
  BY <1>1, <1>2

-----------------------------------------------------------------------------
\* Tables and requests keep their types, and no sign-up outlives its schedule.
THEOREM TypeCorrect == Spec => []TypeOK
<1>1. IInv => TypeOK
  BY DEF IInv
<1> QED
  BY InitIInv, StepIInv, <1>1, PTL DEF Spec

\* Two sign-ups of a date share a duty only if create_signup looked for conflicts
\* for the later one before the earlier one was committed.
THEOREM DoubleDutyOnlyByRace == Spec => []DoubleDutyIsRaced
<1>1. IInv => DoubleDutyIsRaced
  BY DEF IInv
<1> QED
  BY InitIInv, StepIInv, <1>1, PTL DEF Spec

\* Only a commit of create_signup makes the table longer.
LEMMA GrowsByInsert ==
    ASSUME IInv, Next, Len(signups') > Len(signups)
    PROVE  \E p \in Slots : Insert(p)
<1>1. signups \in Seq(Signup) /\ DOMAIN signups = 1..Len(signups) /\ Len(signups) \in Nat
  BY DEF IInv, TypeOK
<1>2. signups' # signups
  BY <1>1
<1>3. ASSUME NEW gone \in SUBSET DOMAIN signups, Withdraw(gone) PROVE FALSE
  <2>1. signups' = [i \in 1..Len(signups) |->
                     IF i \in gone THEN [signups[i] EXCEPT !.live = FALSE] ELSE signups[i]]
    BY <1>1, <1>3 DEF Withdraw
  <2>2. Len(signups') = Len(signups)
    BY <1>1, <2>1
  <2> QED
    BY <1>1, <2>2
<1>4. ASSUME Administer PROVE FALSE
  <2>1. signups' = signups \/ \E gone \in SUBSET DOMAIN signups : Withdraw(gone)
    BY <1>4 DEF Administer, Share, TransferNetOwner, MakeAdmin, RemoveAdmin, CreateSchedule,
                DeleteSchedule, DeleteSignup, Live
  <2> QED
    BY <1>2, <1>3, <2>1
<1>5. ASSUME NEW p \in Slots, Proceed(p) PROVE Insert(p)
  BY <1>2, <1>5 DEF Proceed, BeginSignup, LoadNet, ReadShares, ReadRole, CheckConflict, Enter
<1> QED
  BY <1>4, <1>5 DEF Next, Step

\* Whatever shares, owners and super admins become between the reads of a request,
\* it claims Net Control only if its sender had full access while that was read, and
\* puts down somebody else only if its sender owned the net then.
THEOREM NetControlIsEntrusted == Spec => DutyIsEntrusted
<1> DEFINE Entrusted(p) == /\ req[p].role # "broadcaster" => p \in held
                           /\ req[p].user # req[p].by => p \in ruled
<1>1. ASSUME IInv, [Next]_vars, NEW p \in Slots,
             Len(signups') > Len(signups), req[p] # req'[p]
      PROVE  Entrusted(p)
  <2>1. Next
    BY <1>1 DEF vars
  <2>2. PICK q \in Slots : Insert(q)
    BY <1>1, <2>1, GrowsByInsert
  <2>3. p = q /\ req[p].step = "insert"
    <3>1. req \in [Slots -> Request \cup {Idle}]
      BY <1>1 DEF IInv, TypeOK
    <3> QED
      BY <1>1, <2>2, <3>1 DEF Insert
  <2>4. req[p] # Idle /\ Authorised(p)
    BY <1>1, <2>3, IdleFacts DEF IInv
  <2> QED
    BY <2>3, <2>4 DEF Authorised, MayAssign
<1>2. IInv /\ [Next]_vars =>
        [\A p \in Slots : Len(signups') > Len(signups) /\ req[p] # req'[p] => Entrusted(p)]_vars
  BY <1>1
<1> QED
  BY InitIInv, StepIInv, <1>2, PTL DEF Spec, DutyIsEntrusted

-----------------------------------------------------------------------------
(* One request at a time.                                                  *)

OneSlotAtMost == \A p, q \in Slots : p = q

\* Nothing is committed between a look for conflicts and the commit after it.
UpToDate ==
    /\ \A p \in Slots : req[p].step = "insert" => req[p].seen = Len(signups)
    /\ \A i \in DOMAIN signups : signups[i].seen = i - 1

SoloInv == IInv /\ UpToDate

LEMMA InitSolo == Init => SoloInv
<1>1. ASSUME Init PROVE UpToDate
  BY <1>1 DEF Init, UpToDate, Idle
<1> QED
  BY <1>1, InitIInv DEF SoloInv

LEMMA StepSolo ==
    ASSUME OneSlotAtMost, SoloInv, [Next]_vars
    PROVE  SoloInv'
<1>1. IInv /\ IInv' /\ UpToDate
  BY StepIInv DEF SoloInv
<1>2. Tables /\ signups \in Seq(Signup) /\ DOMAIN signups = 1..Len(signups)
      /\ Len(signups) \in Nat
  BY <1>1, TypeParts DEF IInv, Tables
<1>3. ASSUME NEW p \in Slots, Proceed(p) PROVE UpToDate'
  <2>1. \A q \in Slots : q = p
    BY DEF OneSlotAtMost
  <2>2. ASSUME NEW u \in Users, NEW assignee \in Users, NEW slot \in Date,
               NEW role \in Roles, BeginSignup(p, u, slot, role, assignee)
        PROVE  UpToDate'
    <3>1. req'[p].step = "load" /\ signups' = signups
      BY <1>2, <2>2 DEF BeginSignup, Tables
    <3> QED
      BY <1>1, <2>1, <3>1 DEF UpToDate
  <2>3. CASE LoadNet(p) \/ ReadShares(p) \/ ReadRole(p) \/ CheckConflict(p)
    <3>1. req[p] \in Request
      BY <1>1, <2>3, IdleFacts
         DEF LoadNet, ReadShares, ReadRole, CheckConflict, IInv
    <3>2. signups' = signups /\ (req'[p].step # "insert" \/ req'[p].seen = Len(signups))
      <4>1. CASE LoadNet(p)
        BY <1>2, <3>1, <4>1 DEF LoadNet, Enter, Tables, Request, Idle
      <4>2. CASE ReadShares(p)
        BY <1>2, <3>1, <4>2 DEF ReadShares, Enter, Tables, Request
      <4>3. CASE ReadRole(p)
        BY <1>2, <3>1, <4>3 DEF ReadRole, Enter, Tables, Request, Idle
      <4>4. CASE CheckConflict(p)
        BY <1>2, <3>1, <4>4 DEF CheckConflict, Enter, Tables, Request, Idle
      <4> QED
        BY <2>3, <4>1, <4>2, <4>3, <4>4
    <3> QED
      BY <1>1, <2>1, <3>2 DEF UpToDate
  <2>4. CASE Insert(p)
    <3> DEFINE new == [live |-> TRUE, slot |-> req[p].slot, role |-> req[p].role,
                       user |-> req[p].user, seen |-> req[p].seen]
    <3>1. /\ req[p].step = "insert" /\ req' = [req EXCEPT ![p] = Idle]
          /\ signups' = Append(signups, new) \/ signups' = signups
      BY <2>4 DEF Insert
    <3>2. new.seen = req[p].seen
      OBVIOUS
    <3> HIDE DEF new
    <3>3. req'[p] = Idle /\ req[p].seen = Len(signups)
      BY <1>1, <1>2, <3>1 DEF Tables, UpToDate
    <3>4. \A i \in DOMAIN signups' : signups'[i].seen = i - 1
      <4>1. CASE signups' = signups
        BY <1>1, <4>1 DEF UpToDate
      <4>2. CASE signups' = Append(signups, new)
        <5>1. /\ DOMAIN signups' = 1..(Len(signups) + 1)
              /\ signups'[Len(signups) + 1] = new
              /\ \A i \in DOMAIN signups : signups'[i] = signups[i]
          BY <1>2, <4>2
        <5>2. ASSUME NEW i \in DOMAIN signups' PROVE signups'[i].seen = i - 1
          <6>1. CASE i \in DOMAIN signups
            BY <1>1, <5>1, <6>1 DEF UpToDate
          <6>2. CASE i \notin DOMAIN signups
            <7>1. i = Len(signups) + 1
              BY <1>2, <5>1, <6>2
            <7> QED
              BY <1>2, <3>2, <3>3, <5>1, <7>1
          <6> QED
            BY <6>1, <6>2
        <5> QED
          BY <5>2
      <4> QED
        BY <3>1, <4>1, <4>2
    <3> QED
      BY <2>1, <3>3, <3>4 DEF UpToDate, Idle
  <2> QED
    BY <1>3, <2>2, <2>3, <2>4 DEF Proceed
<1>4. ASSUME Administer PROVE UpToDate'
  <2>1. req' = req /\ (signups' = signups \/ \E gone : Withdraw(gone))
    BY <1>4 DEF Administer, Share, TransferNetOwner, MakeAdmin, RemoveAdmin, CreateSchedule,
                DeleteSchedule, DeleteSignup
  <2>2. ASSUME NEW gone, Withdraw(gone)
        PROVE  /\ Len(signups') = Len(signups) /\ DOMAIN signups' = DOMAIN signups
               /\ \A i \in DOMAIN signups : signups'[i].seen = signups[i].seen
    <3>1. \A i \in DOMAIN signups : signups[i] \in Signup
      BY <1>2
    <3>2. DOMAIN signups' = 1..Len(signups)
      BY <1>2, <2>2 DEF Withdraw
    <3>3. \A i \in DOMAIN signups : signups'[i].seen = signups[i].seen
      BY <2>2, <3>1 DEF Withdraw, Signup
    <3>4. signups' \in Seq(Signup)
      BY <1>1 DEF IInv, TypeOK
    <3> QED
      BY <1>2, <3>2, <3>3, <3>4
  <2>3. ASSUME NEW gone, Withdraw(gone) PROVE UpToDate'
    <3>1. /\ \A i \in DOMAIN signups' : signups'[i].seen = i - 1
          /\ Len(signups') = Len(signups)
      BY <1>1, <2>2, <2>3 DEF UpToDate
    <3> QED
      BY <1>1, <2>1, <3>1 DEF UpToDate
  <2>4. CASE signups' = signups
    BY <1>1, <2>1, <2>4 DEF UpToDate
  <2> QED
    BY <2>1, <2>3, <2>4
<1>5. ASSUME vars' = vars PROVE UpToDate'
  <2>1. req' = req /\ signups' = signups
    BY <1>5 DEF vars
  <2> QED
    BY <1>1, <2>1 DEF UpToDate
<1>6. Next \/ vars' = vars
  OBVIOUS
<1>7. UpToDate'
  BY <1>3, <1>4, <1>5, <1>6 DEF Next, Step
<1> QED
  BY <1>1, <1>7 DEF SoloInv

\* With one request at a time, create_signup gives each duty of a date to one
\* operator, 'both' included.
THEOREM SingleDutyWithoutOverlap ==
    ASSUME OneSlotAtMost PROVE Spec => []SingleDuty
<1>1. SoloInv => SingleDuty
  <2> SUFFICES ASSUME SoloInv, NEW i \in Live, NEW j \in Live, i # j,
                      signups[i].slot = signups[j].slot
               PROVE  Duties(signups[i].role) \cap Duties(signups[j].role) = {}
    BY DEF SingleDuty
  <2>1. DoubleDutyIsRaced /\ UpToDate /\ DOMAIN signups = 1..Len(signups)
    BY DEF SoloInv, IInv, TypeOK
  <2>2. i \in DOMAIN signups /\ j \in DOMAIN signups
    BY DEF Live
  <2>3. i \in Nat /\ j \in Nat /\ (i < j \/ j < i)
    BY <2>1, <2>2
  <2>4. signups[i].seen = i - 1 /\ signups[j].seen = j - 1
    BY <2>1, <2>2 DEF UpToDate
  <2>5. CASE i < j
    <3>1. ~(signups[j].seen < i)
      BY <2>3, <2>4, <2>5
    <3> QED
      BY <2>1, <2>5, <3>1 DEF DoubleDutyIsRaced
  <2>6. CASE j < i
    <3>1. ~(signups[i].seen < j)
      BY <2>3, <2>4, <2>6
    <3>2. Duties(signups[j].role) \cap Duties(signups[i].role) = {}
      BY <2>1, <2>6, <3>1 DEF DoubleDutyIsRaced
    <3> QED
      BY <3>2
  <2> QED
    BY <2>3, <2>5, <2>6
<1>2. SoloInv /\ [Next]_vars => SoloInv'
  BY StepSolo
<1> QED
  BY InitSolo, <1>1, <1>2, PTL DEF Spec
=============================================================================
