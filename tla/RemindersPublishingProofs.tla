---------------------- MODULE RemindersPublishingProofs ----------------------
(***************************************************************************)
(* Proofs about what the server sends out: the reminders of Reminders, for *)
(* any schedules, zones, windows, sign-ups and shifts, and any number of   *)
(* runs that overlap and die; and the posts and keys of Publishing, for    *)
(* any remote accounts and any number of requests, deliveries and stops.   *)
(***************************************************************************)
EXTENDS Reminders, Publishing, TLAPS, FiniteSetTheorems

(***************************************************************************)
(* Reminders.                                                              *)
(***************************************************************************)

\* What a run has in hand is still to be tried or has been, not both.
BatchIsApart == \A r \in Runs : run[r].batch \cap run[r].sent = {}

\* Only rows that were read are in hand.
HeldWasThere == \A r \in Runs : \A i \in Holding(r) : row[i] # "new"

\* What a run of the sign-ups has ready to record was sent.
SentWasTried ==
    \A r \in Runs : \A i \in run[r].sent \cap Signups : tried[i] > 0

\* A row that no two runs held at once is held by one of them, which read it
\* before it was marked.
Alone(i) ==
    /\ \A r, q \in Runs : i \in Holding(r) \cap Holding(q) => r = q
    /\ \A r \in Runs : i \in Holding(r) => i \notin marked

\* It owes no reminder while one may still be sent, and one at most after that.
Owing(i) ==
    \/ \E r \in Runs : i \in run[r].batch
    \/ row[i] # "gone" /\ i \notin marked /\ \A r \in Runs : i \notin run[r].sent

Counted(i) ==
    /\ tried[i] <= 1 + lost[i]
    /\ Owing(i) => tried[i] <= lost[i]

OnceEach == \A i \in Items \ shared : Alone(i) /\ Counted(i)

\* All but the types.
Order == BatchIsApart /\ HeldWasThere /\ SentWasTried /\ MarkedWasTried /\ OnceEach

IInv == TypeOK /\ Order

-----------------------------------------------------------------------------
\* Nothing has been read or sent at first.
LEMMA InitIInv == Init => IInv
<1> SUFFICES ASSUME Init PROVE IInv
  OBVIOUS
<1>1. \A r \in Runs : run[r] = Idle /\ Holding(r) = {}
  BY DEF Init, Idle, Holding
<1>2. TypeOK
  <2>1. Idle \in Run
    BY RemindersAssumption DEF Idle, Run
  <2>2. now \in 0..Horizon /\ faults \in 0..MaxFaults
    BY RemindersAssumption DEF Init
  <2> QED
    BY <1>1, <2>1, <2>2 DEF Init, TypeOK, Idle
<1>3. BatchIsApart /\ HeldWasThere /\ SentWasTried /\ MarkedWasTried
  BY <1>1 DEF Init, Idle, BatchIsApart, HeldWasThere, SentWasTried, MarkedWasTried
<1>4. OnceEach
  BY <1>1 DEF Init, OnceEach, Alone, Counted
<1> QED
  BY <1>2, <1>3, <1>4 DEF IInv, Order

-----------------------------------------------------------------------------
(* Steps of a run.                                                         *)

\* Reading rows nobody else holds, unmarked and there.
LEMMA TakeKeeps ==
    ASSUME IInv, NEW r \in Runs, Holding(r) = {},
           NEW read \in SUBSET {i \in Items : row[i] = "there" /\ i \notin marked},
           run'[r].batch = read, run'[r].sent = {},
           \A q \in Runs \ {r} : run'[q] = run[q],
           shared' = shared \cup (read \cap HeldByOthers(r)),
           UNCHANGED <<row, marked, tried, lost>>
    PROVE  Order'
<1>1. /\ run[r].sent = {} /\ run[r].batch = {}
      /\ run'[r].batch = read /\ run'[r].sent = {}
      /\ \A q \in Runs \ {r} : run'[q] = run[q]
  BY DEF IInv, Order, TypeOK, Holding
<1>2. BatchIsApart' /\ HeldWasThere' /\ SentWasTried' /\ MarkedWasTried'
  BY <1>1 DEF IInv, Order, BatchIsApart, HeldWasThere, Holding, SentWasTried, MarkedWasTried
<1>3. ASSUME NEW i \in Items \ shared'
      PROVE  Alone(i)' /\ Counted(i)'
  <2>1. i \in Items \ shared /\ Alone(i) /\ Counted(i)
    BY <1>3 DEF IInv, Order, OnceEach
  <2>2. i \in read => \A q \in Runs \ {r} : i \notin run[q].batch \cup run[q].sent
    BY <1>3 DEF HeldByOthers, Holding
  <2>3. Alone(i)'
    BY <1>1, <2>1, <2>2 DEF Alone, Holding
  <2>4. Owing(i)' => Owing(i)
    <3>1. CASE i \in read
      BY <1>1, <2>2, <3>1 DEF Owing
    <3>2. CASE i \notin read
      BY <1>1, <3>2 DEF Owing
    <3> QED
      BY <3>1, <3>2
  <2> QED
    BY <2>1, <2>3, <2>4 DEF Counted
<1> QED
  BY <1>2, <1>3 DEF Order, OnceEach

\* A row in hand is sent, marked without being sent, or left.
LEMMA HandleKeeps ==
    ASSUME IInv, NEW r \in Runs, NEW i \in run[r].batch,
           \/ Skip(r, i)
           \/ Handled(r, i) /\ Send(i)
           \/ Handled(r, i) /\ i \in Shifts /\ tried' = tried,
           UNCHANGED <<row, marked, lost, shared>>
    PROVE  Order'
<1>1. /\ i \in Items /\ Signups \cap Shifts = {}
      /\ tried \in [Items -> Nat] /\ lost \in [Items -> Nat]
      /\ run \in [Runs -> Run] /\ shared \subseteq Items
  BY RemindersAssumption DEF IInv, Order, TypeOK, Run
<1>2. /\ \A q \in Runs \ {r} : run'[q] = run[q]
      /\ run'[r].batch = run[r].batch \ {i}
      /\ \/ run'[r].sent = run[r].sent
         \/ run'[r].sent = run[r].sent \cup {i}
  BY <1>1 DEF Skip, Handled, Run
<1>3. /\ tried' \in [Items -> Nat]
      /\ \A j \in Items : tried'[j] >= tried[j]
      /\ \A j \in Items \ {i} : tried'[j] = tried[j]
      /\ tried'[i] <= tried[i] + 1
      /\ run'[r].sent = run[r].sent => tried'[i] = tried[i]
      /\ i \in Signups /\ i \in run'[r].sent => tried'[i] > 0
  <2>1. tried' = tried \/ tried' = [tried EXCEPT ![i] = @ + 1]
    BY DEF Skip, Send
  <2>2. CASE Skip(r, i)
    <3>1. run'[r].sent = run[r].sent /\ i \notin run[r].sent
      BY <1>1, <2>2 DEF Skip, Run, IInv, Order, BatchIsApart
    <3> QED
      BY <1>1, <2>2, <3>1 DEF Skip
  <2>3. CASE Handled(r, i) /\ Send(i)
    <3>1. run'[r].sent # run[r].sent
      BY <1>1, <2>3 DEF Handled, Run, IInv, Order, BatchIsApart
    <3> QED
      BY <1>1, <2>3, <3>1 DEF Send
  <2>4. CASE Handled(r, i) /\ i \in Shifts /\ tried' = tried
    BY <1>1, <2>4
  <2> QED
    BY <2>2, <2>3, <2>4
<1>4. BatchIsApart' /\ HeldWasThere'
  BY <1>2 DEF IInv, Order, BatchIsApart, HeldWasThere, Holding
<1>5. SentWasTried'
  <2> SUFFICES ASSUME NEW q \in Runs, NEW j \in run'[q].sent \cap Signups
               PROVE  tried'[j] > 0
    BY DEF SentWasTried
  <2>1. j \in Items /\ tried[j] \in Nat /\ tried'[j] \in Nat
    BY <1>1, <1>3 DEF Items
  <2>2. CASE j \in run[q].sent
    BY <1>3, <2>1, <2>2 DEF IInv, Order, SentWasTried
  <2>3. CASE j \notin run[q].sent
    <3>1. q = r /\ j = i
      BY <1>2, <2>3
    <3> QED
      BY <1>3, <3>1
  <2> QED
    BY <2>2, <2>3
<1>6. MarkedWasTried'
  <2> SUFFICES ASSUME NEW j \in Signups \cap marked
               PROVE  tried'[j] > 0
    BY DEF MarkedWasTried
  <2>1. j \in Items /\ tried[j] \in Nat /\ tried'[j] \in Nat /\ tried[j] > 0
    BY <1>1, <1>3 DEF Items, IInv, Order, MarkedWasTried
  <2> QED
    BY <1>3, <2>1
<1>7. ASSUME NEW j \in Items \ shared
      PROVE  Alone(j)' /\ Counted(j)'
  <2>1. Alone(j) /\ Counted(j)
    BY DEF IInv, Order, OnceEach
  <2>2. Alone(j)'
    BY <1>2, <2>1 DEF Alone, Holding
  <2>3. tried[j] \in Nat /\ lost[j] \in Nat /\ tried'[j] \in Nat
    BY <1>1, <1>3
  <2>4. CASE j # i
    <3>1. tried'[j] = tried[j] /\ (Owing(j)' <=> Owing(j))
      BY <1>2, <1>3, <2>4 DEF Owing
    <3> QED
      BY <2>1, <2>2, <3>1 DEF Counted
  <2>5. CASE j = i
    <3>1. tried[i] <= lost[i]
      BY <2>1, <2>5 DEF Counted, Owing
    <3>2. tried'[i] <= 1 + lost[i]
      BY <1>3, <2>3, <2>5, <3>1
    <3>3. Owing(i)' => tried'[i] = tried[i]
      <4>1. \A q \in Runs : i \notin run'[q].batch
        BY <1>2, <2>1, <2>5 DEF Alone, Holding
      <4>2. CASE run'[r].sent = run[r].sent
        BY <1>3, <4>2
      <4>3. CASE run'[r].sent = run[r].sent \cup {i}
        BY <4>1, <4>3 DEF Owing
      <4> QED
        BY <1>2, <4>2, <4>3
    <3> QED
      BY <2>2, <2>5, <3>1, <3>2, <3>3 DEF Counted
  <2> QED
    BY <2>4, <2>5
<1> QED
  BY <1>4, <1>5, <1>6, <1>7 DEF Order, OnceEach

\* A commit marks what was sent and is still there.
LEMMA CommitKeeps ==
    ASSUME IInv, NEW r \in Runs, run[r].batch = {},
           marked' = marked \cup (run[r].sent \cap There),
           run' = [run EXCEPT ![r].sent = {}],
           UNCHANGED <<row, tried, lost, shared>>
    PROVE  Order'
<1>1. /\ \A q \in Runs \ {r} : run'[q] = run[q]
      /\ run'[r].batch = {} /\ run'[r].sent = {}
  BY DEF IInv, TypeOK, Run
<1>2. BatchIsApart' /\ HeldWasThere' /\ SentWasTried'
  BY <1>1 DEF IInv, Order, BatchIsApart, HeldWasThere, Holding, SentWasTried
<1>3. MarkedWasTried'
  BY DEF IInv, Order, SentWasTried, MarkedWasTried
<1>4. ASSUME NEW i \in Items \ shared
      PROVE  Alone(i)' /\ Counted(i)'
  <2>1. Alone(i) /\ Counted(i)
    BY DEF IInv, Order, OnceEach
  <2>2. Alone(i)'
    BY <1>1, <2>1 DEF Alone, Holding
  <2>3. Owing(i)' => Owing(i)
    <3>1. i \in run[r].sent /\ row[i] # "gone" => i \in marked'
      BY DEF IInv, Order, TypeOK, HeldWasThere, Holding, There
    <3> QED
      BY <1>1, <3>1 DEF Owing
  <2> QED
    BY <2>1, <2>2, <2>3 DEF Counted
<1> QED
  BY <1>2, <1>3, <1>4 DEF Order, OnceEach

\* A run that dies loses what it has sent.
LEMMA AbandonKeeps ==
    ASSUME IInv, NEW r \in Runs, Abandon(r), UNCHANGED <<row, tried, shared>>
    PROVE  Order'
<1>1. /\ \A q \in Runs \ {r} : run'[q] = run[q]
      /\ run'[r].batch = {} /\ run'[r].sent = {}
      /\ marked' = marked
  BY DEF Abandon, Idle, IInv, TypeOK
<1>2. BatchIsApart' /\ HeldWasThere' /\ SentWasTried' /\ MarkedWasTried'
  BY <1>1 DEF IInv, Order, BatchIsApart, HeldWasThere, Holding, SentWasTried, MarkedWasTried
<1>3. ASSUME NEW i \in Items \ shared
      PROVE  Alone(i)' /\ Counted(i)'
  <2>1. Alone(i) /\ Counted(i)
    BY DEF IInv, Order, OnceEach
  <2>2. Alone(i)'
    BY <1>1, <2>1 DEF Alone, Holding
  <2>3. tried[i] \in Nat /\ lost[i] \in Nat
    BY DEF IInv, TypeOK
  <2>4. CASE i \in run[r].sent
    <3>1. lost'[i] = lost[i] + 1
      BY <2>4 DEF Abandon
    <3> QED
      BY <2>1, <2>2, <2>3, <3>1 DEF Counted
  <2>5. CASE i \notin run[r].sent
    <3>1. lost'[i] = lost[i]
      BY <2>5 DEF Abandon
    <3>2. Owing(i)' => Owing(i)
      BY <1>1, <2>5 DEF Owing
    <3> QED
      BY <2>1, <2>2, <3>1, <3>2 DEF Counted
  <2> QED
    BY <2>4, <2>5
<1> QED
  BY <1>2, <1>3 DEF Order, OnceEach

\* Rows are created and deleted; they do not come back.
LEMMA EditKeeps ==
    ASSUME IInv, UNCHANGED <<marked, run, tried, lost, shared>>,
           \A i \in Items : row'[i] \in {row[i], "gone"} \/ (row[i] = "new" /\ row'[i] = "there")
    PROVE  Order'
<1>1. BatchIsApart' /\ HeldWasThere' /\ SentWasTried' /\ MarkedWasTried'
  <2>1. \A i \in Items : row[i] # "new" => row'[i] # "new"
    OBVIOUS
  <2>2. \A r \in Runs : Holding(r) \subseteq Items
    BY DEF IInv, TypeOK, Run, Holding
  <2> QED
    BY <2>1, <2>2
       DEF IInv, Order, BatchIsApart, HeldWasThere, Holding, SentWasTried, MarkedWasTried
<1>2. ASSUME NEW i \in Items \ shared
      PROVE  Alone(i)' /\ Counted(i)'
  <2>1. Alone(i) /\ Counted(i)
    BY DEF IInv, Order, OnceEach
  <2>2. Owing(i)' => Owing(i)
    <3>1. row[i] = "gone" => row'[i] = "gone"
      OBVIOUS
    <3> QED
      BY <3>1 DEF Owing
  <2>3. Alone(i)'
    BY <2>1 DEF Alone, Holding
  <2> QED
    BY <2>1, <2>2, <2>3 DEF Counted
<1> QED
  BY <1>1, <1>2 DEF Order, OnceEach

-----------------------------------------------------------------------------
(* Types.                                                                  *)

\* The part of TypeOK that speaks of runs.
RunsOK ==
    /\ run \in [Runs -> Run]
    /\ \A r \in Runs :
          /\ run[r].phase = "idle" => run[r] = Idle
          /\ run[r].phase = "signups" => Holding(r) \subseteq Signups
          /\ run[r].phase = "shifts" => run[r].todo = {} /\ Holding(r) \subseteq Shifts

\* A step of run r to a well-typed record.
LEMMA RunStepTypes ==
    ASSUME RunsOK, NEW r \in Runs, run' \in [Runs -> Run],
           \A q \in Runs \ {r} : run'[q] = run[q],
           run'[r].phase = "idle" => run'[r] = Idle,
           run'[r].phase = "signups" => Holding(r)' \subseteq Signups,
           run'[r].phase = "shifts" => run'[r].todo = {} /\ Holding(r)' \subseteq Shifts
    PROVE  RunsOK'
BY DEF RunsOK, Holding

LEMMA IdleIsRun == Idle \in Run /\ Idle.batch = {} /\ Idle.sent = {} /\ Idle.phase = "idle"
  BY RemindersAssumption DEF Idle, Run

LEMMA ReadFacts ==
    /\ \A s, t : SignupsOf(s, t) \subseteq
                  {i \in Signups : row[i] = "there" /\ i \notin marked}
    /\ ReadShifts \subseteq {i \in Shifts : row[i] = "there" /\ i \notin marked}
  BY DEF SignupsOf, ReadShifts, There

\* A run that starts or ends has nothing in hand.
LEMMA StartAndEnd ==
    ASSUME IInv, NEW r \in Runs, StartRun(r) \/ EndRun(r)
    PROVE  RunsOK' /\ Order'
<1>1. RunsOK
  BY DEF IInv, TypeOK, RunsOK
<1>2. Holding(r) = {}
  BY <1>1, IdleIsRun DEF RunsOK, Holding, StartRun, EndRun
<1>3. /\ run' \in [Runs -> Run] /\ \A q \in Runs \ {r} : run'[q] = run[q]
      /\ run'[r].batch = {} /\ run'[r].sent = {} /\ run'[r].phase # "shifts"
      /\ run'[r].phase = "idle" => run'[r] = Idle
  <2>1. CASE EndRun(r)
    <3>1. run' = [run EXCEPT ![r] = Idle]
      BY <2>1 DEF EndRun
    <3> QED
      BY <1>1, <3>1, IdleIsRun DEF RunsOK
  <2>2. CASE StartRun(r)
    <3> DEFINE due == {s \in Schedules : DayOfWeek[s] = Today(now) % Week}
               new == [Idle EXCEPT !.phase = "signups", !.at = now, !.todo = due]
    <3>1. run' = [run EXCEPT ![r] = new]
      BY <2>2 DEF StartRun
    <3>2. /\ new \in Run /\ new.batch = {} /\ new.sent = {} /\ new.phase = "signups"
      BY IdleIsRun DEF IInv, TypeOK, Run
    <3> HIDE DEF new
    <3> QED
      BY <1>1, <3>1, <3>2 DEF RunsOK
  <2> QED
    BY <2>1, <2>2
<1>4. UNCHANGED <<row, marked, tried, lost, shared>>
  BY DEF StartRun, EndRun
<1>5. Order'
  <2> DEFINE read == {}
  <2>1. read \in SUBSET {i \in Items : row[i] = "there" /\ i \notin marked}
    OBVIOUS
  <2>2. shared' = shared \cup (read \cap HeldByOthers(r))
    BY <1>4
  <2>3. run'[r].batch = read
    BY <1>3
  <2> HIDE DEF read
  <2> QED
    BY <1>2, <1>3, <1>4, <2>1, <2>2, <2>3, TakeKeeps
<1>6. RunsOK'
  BY <1>1, <1>3, RunStepTypes DEF Holding
<1> QED
  BY <1>5, <1>6

\* The rows a run reads are there and unmarked.
LEMMA Takes ==
    ASSUME IInv, NEW r \in Runs, TakeSchedule(r) \/ TakeShifts(r)
    PROVE  RunsOK' /\ Order' /\ shared' \subseteq Items
<1>1. RunsOK /\ shared \subseteq Items
  BY DEF IInv, TypeOK, RunsOK
<1>2. /\ run[r] \in Run /\ Holding(r) = {} /\ run[r].phase = "signups"
      /\ run[r].batch = {} /\ run[r].sent = {}
  BY <1>1 DEF RunsOK, Holding, TakeSchedule, TakeShifts
<1>3. \A q \in Runs \ {r} : run'[q] = run[q]
  BY <1>1 DEF TakeSchedule, TakeShifts, RunsOK
<1>4. PICK read \in SUBSET {i \in Items : row[i] = "there" /\ i \notin marked} :
        /\ run' \in [Runs -> Run]
        /\ run'[r].batch = read /\ run'[r].sent = {}
        /\ \/ run'[r].phase = "signups" /\ read \subseteq Signups
           \/ run'[r].phase = "shifts" /\ read \subseteq Shifts /\ run'[r].todo = {}
        /\ shared' = shared \cup (read \cap HeldByOthers(r))
  <2>1. CASE TakeSchedule(r)
    <3>1. PICK s \in run[r].todo :
            /\ run' = [run EXCEPT ![r].todo = @ \ {s},
                                  ![r].batch = SignupsOf(s, run[r].at)]
            /\ shared' = shared \cup (SignupsOf(s, run[r].at) \cap HeldByOthers(r))
      BY <2>1 DEF TakeSchedule
    <3> DEFINE read == SignupsOf(s, run[r].at)
    <3>2. read \subseteq {i \in Signups : row[i] = "there" /\ i \notin marked}
      BY ReadFacts
    <3>3. run' = [run EXCEPT ![r].todo = @ \ {s}, ![r].batch = read]
      BY <3>1
    <3>7. shared' = shared \cup (read \cap HeldByOthers(r))
      BY <3>1
    <3> HIDE DEF read
    <3>4. read \subseteq Items
      BY <3>2 DEF Items
    <3>5. /\ run' \in [Runs -> Run]
          /\ run'[r].batch = read /\ run'[r].sent = {} /\ run'[r].phase = "signups"
      BY <1>1, <1>2, <3>3, <3>4 DEF RunsOK, Run
    <3>6. read \in SUBSET {i \in Items : row[i] = "there" /\ i \notin marked}
      BY <3>2 DEF Items
    <3> QED
      BY <3>2, <3>5, <3>6, <3>7
  <2>2. CASE TakeShifts(r)
    <3> DEFINE read == ReadShifts
    <3>1. read \subseteq {i \in Shifts : row[i] = "there" /\ i \notin marked}
      BY ReadFacts
    <3>2. /\ run' = [run EXCEPT ![r].phase = "shifts", ![r].batch = read]
          /\ run[r].todo = {}
          /\ shared' = shared \cup (read \cap HeldByOthers(r))
      BY <2>2 DEF TakeShifts
    <3> HIDE DEF read
    <3>3. read \subseteq Items
      BY <3>1 DEF Items
    <3>4. /\ run' \in [Runs -> Run]
          /\ run'[r].batch = read /\ run'[r].sent = {} /\ run'[r].phase = "shifts"
          /\ run'[r].todo = {}
      BY <1>1, <1>2, <3>2, <3>3 DEF RunsOK, Run
    <3>6. read \in SUBSET {i \in Items : row[i] = "there" /\ i \notin marked}
      BY <3>1 DEF Items
    <3> QED
      BY <3>1, <3>2, <3>4, <3>6
  <2> QED
    BY <2>1, <2>2
<1>5. UNCHANGED <<row, marked, tried, lost>>
  BY DEF TakeSchedule, TakeShifts
<1>6. Order'
  BY <1>2, <1>3, <1>4, <1>5, TakeKeeps
<1>7. RunsOK'
  BY <1>1, <1>3, <1>4, RunStepTypes DEF Holding
<1> QED
  BY <1>1, <1>4, <1>6, <1>7

\* A row in hand is handled.
LEMMA Handles ==
    ASSUME IInv, NEW r \in Runs, NEW i \in Items,
           \/ i \in Signups /\ RemindSignup(r, i)
           \/ i \in Shifts /\ RemindShift(r, i)
    PROVE  RunsOK' /\ Order' /\ tried' \in [Items -> Nat]
<1>1. RunsOK /\ tried \in [Items -> Nat]
  BY DEF IInv, TypeOK, RunsOK
<1>2. /\ run[r] \in Run /\ i \in run[r].batch /\ run[r].phase # "idle"
  BY <1>1 DEF RunsOK, RemindSignup, RemindShift
<1>3. \/ Skip(r, i)
      \/ Handled(r, i) /\ Send(i)
      \/ Handled(r, i) /\ i \in Shifts /\ tried' = tried
  BY DEF RemindSignup, RemindShift
<1>4. UNCHANGED <<row, marked, lost, shared>>
  BY DEF RemindSignup, RemindShift
<1>5. Order'
  BY <1>2, <1>3, <1>4, HandleKeeps
<1>6. tried' \in [Items -> Nat]
  BY <1>1, <1>3 DEF Skip, Send
<1>7. /\ run' \in [Runs -> Run] /\ \A q \in Runs \ {r} : run'[q] = run[q]
      /\ run'[r].phase = run[r].phase /\ run'[r].todo = run[r].todo
      /\ Holding(r)' \subseteq Holding(r)
  <2>1. CASE Skip(r, i)
    BY <1>1, <1>2, <2>1 DEF Skip, Holding, RunsOK, Run
  <2>2. CASE Handled(r, i)
    BY <1>1, <1>2, <2>2 DEF Handled, Holding, RunsOK, Run
  <2> QED
    BY <1>3, <2>1, <2>2
<1>8. RunsOK'
  BY <1>1, <1>2, <1>7, RunStepTypes DEF RunsOK
<1> QED
  BY <1>5, <1>6, <1>8

\* A run ends without a commit.
LEMMA AbandonTypes ==
    ASSUME IInv, NEW r \in Runs, Abandon(r)
    PROVE  RunsOK' /\ lost' \in [Items -> Nat] /\ marked' \subseteq Items
<1>1. RunsOK /\ lost \in [Items -> Nat]
  BY DEF IInv, TypeOK, RunsOK
<1>2. run' = [run EXCEPT ![r] = Idle]
  BY DEF Abandon
<1>3. /\ run' \in [Runs -> Run] /\ run'[r] = Idle
      /\ \A q \in Runs \ {r} : run'[q] = run[q]
  BY <1>1, <1>2, IdleIsRun DEF RunsOK
<1>4. RunsOK'
  BY <1>1, <1>3, IdleIsRun, RunStepTypes
<1> QED
  BY <1>1, <1>4 DEF Abandon, IInv, TypeOK

\* A commit, or its refusal.
LEMMA Commits ==
    ASSUME IInv, NEW r \in Runs, Commit(r)
    PROVE  RunsOK' /\ Order' /\ lost' \in [Items -> Nat] /\ marked' \subseteq Items
<1>1. RunsOK /\ lost \in [Items -> Nat] /\ marked \subseteq Items
  BY DEF IInv, TypeOK, RunsOK
<1>2. CASE Refused(r)
  <2>1. Abandon(r) /\ UNCHANGED <<row, tried, shared>>
    BY <1>2 DEF Commit
  <2> QED
    BY <2>1, AbandonTypes, AbandonKeeps
<1>3. CASE ~Refused(r)
  <2>1. /\ run[r].batch = {} /\ run[r].phase # "idle"
        /\ marked' = marked \cup (run[r].sent \cap There)
        /\ run' = [run EXCEPT ![r].sent = {}]
        /\ UNCHANGED <<row, tried, lost, shared>>
    BY <1>3 DEF Commit
  <2>2. Order'
    BY <2>1, CommitKeeps
  <2>3. marked' \subseteq Items /\ lost' \in [Items -> Nat]
    BY <1>1, <2>1 DEF There
  <2>4. /\ run' \in [Runs -> Run] /\ \A q \in Runs \ {r} : run'[q] = run[q]
        /\ run'[r].phase = run[r].phase /\ run'[r].todo = run[r].todo
        /\ Holding(r)' \subseteq Holding(r)
    BY <1>1, <2>1 DEF RunsOK, Run, Holding
  <2>5. RunsOK'
    BY <1>1, <2>1, <2>4, RunStepTypes DEF RunsOK
  <2> QED
    BY <2>2, <2>3, <2>5
<1> QED
  BY <1>2, <1>3

-----------------------------------------------------------------------------
\* Every step keeps the invariant.
LEMMA StepIInv == IInv /\ [Next]_vars => IInv'
<1> SUFFICES ASSUME IInv, [Next]_vars PROVE IInv'
  OBVIOUS
<1> DEFINE Rest ==
      /\ now \in 0..Horizon
      /\ active \in BOOLEAN /\ caught \in BOOLEAN
      /\ row \in [Items -> {"new", "there", "gone"}]
      /\ waited \subseteq Items /\ marked \subseteq Items
      /\ shared \subseteq Items
      /\ tried \in [Items -> Nat] /\ lost \in [Items -> Nat]
      /\ faults \in 0..MaxFaults
<1>1. TypeOK <=> Rest /\ RunsOK
  BY DEF TypeOK, RunsOK
<1>2. TypeOK' <=> Rest' /\ RunsOK'
  BY DEF TypeOK, RunsOK, Holding
<1>3. Rest /\ RunsOK
  BY <1>1 DEF IInv
<1>4. CASE Tick
  <2>1. now' \in 0..Horizon
    BY <1>3, <1>4, RemindersAssumption DEF Tick
  <2>2. Rest' /\ RunsOK'
    BY <1>3, <1>4, <2>1 DEF Tick, There, RunsOK, Holding
  <2>3. UNCHANGED <<row, marked, run, tried, lost, shared>>
    BY <1>4 DEF Tick
  <2>4. Order'
    BY <2>3, EditKeeps
  <2> QED
    BY <1>2, <2>2, <2>4 DEF IInv
<1>5. CASE Edit
  <2> DEFINE Edited ==
        /\ UNCHANGED <<now, waited, marked, run, caught, tried, lost, shared, faults>>
        /\ row' \in [Items -> {"new", "there", "gone"}]
        /\ \A i \in Items : row'[i] \in {row[i], "gone"} \/ (row[i] = "new" /\ row'[i] = "there")
  <2>1. Edited
    <3>0. row \in [Items -> {"new", "there", "gone"}]
      BY <1>3
    <3>1. ASSUME NEW i \in Items, Create(i) PROVE Edited
      BY <3>0, <3>1 DEF Create
    <3>2. ASSUME NEW gone, Remove(gone) PROVE Edited
      BY <3>0, <3>2 DEF Remove
    <3>3. ASSUME EndSession PROVE Edited
      BY <3>0, <3>3 DEF EndSession
    <3> QED
      BY <1>5, <3>1, <3>2, <3>3 DEF Edit, Delete, DeleteSchedule
  <2>2. active' \in BOOLEAN
    BY <1>3, <1>5, Zenon DEF Edit, Create, Delete, DeleteSchedule, Remove, EndSession
  <2>3. Rest' /\ RunsOK'
    BY <1>3, <2>1, <2>2 DEF RunsOK, Holding
  <2>4. Order'
    BY <2>1, EditKeeps
  <2> QED
    BY <1>2, <2>3, <2>4 DEF IInv
<1>6. ASSUME NEW r \in Runs, Proceed(r) PROVE IInv'
  <2>1. CASE StartRun(r) \/ EndRun(r)
    <3>1. caught' \in BOOLEAN
      <4>1. CASE StartRun(r)
        BY <1>3, <4>1 DEF StartRun
      <4>2. CASE EndRun(r)
        BY <4>2, Zenon DEF EndRun
      <4> QED
        BY <2>1, <4>1, <4>2
    <3>2. Rest'
      BY <1>3, <2>1, <3>1 DEF StartRun, EndRun
    <3> QED
      BY <1>2, <2>1, <3>2, StartAndEnd DEF IInv
  <2>2. CASE TakeSchedule(r) \/ TakeShifts(r)
    <3>1. RunsOK' /\ Order' /\ shared' \subseteq Items
      BY <2>2, Takes
    <3>2. Rest'
      BY <1>3, <2>2, <3>1 DEF TakeSchedule, TakeShifts
    <3> QED
      BY <1>2, <3>1, <3>2 DEF IInv
  <2>3. ASSUME NEW i \in Items,
               \/ i \in Signups /\ RemindSignup(r, i)
               \/ i \in Shifts /\ RemindShift(r, i)
        PROVE  IInv'
    <3>1. RunsOK' /\ Order' /\ tried' \in [Items -> Nat]
      BY <2>3, Handles
    <3>2. Rest'
      BY <1>3, <2>3, <3>1 DEF RemindSignup, RemindShift
    <3> QED
      BY <1>2, <3>1, <3>2 DEF IInv
  <2>4. CASE Commit(r)
    <3>1. RunsOK' /\ Order' /\ lost' \in [Items -> Nat] /\ marked' \subseteq Items
      BY <2>4, Commits
    <3>2. Rest'
      BY <1>3, <2>4, <3>1 DEF Commit
    <3> QED
      BY <1>2, <3>1, <3>2 DEF IInv
  <2> QED
    BY <1>6, <2>1, <2>2, <2>3, <2>4 DEF Proceed, Items
<1>7. ASSUME NEW r \in Runs, Die(r) PROVE IInv'
  <2>1. RunsOK' /\ lost' \in [Items -> Nat] /\ marked' \subseteq Items
    BY <1>7, AbandonTypes DEF Die
  <2>2. Order'
    BY <1>7, AbandonKeeps DEF Die
  <2>3. faults' \in 0..MaxFaults
    BY <1>3, <1>7, RemindersAssumption DEF Die
  <2>4. Rest'
    BY <1>3, <1>7, <2>1, <2>3 DEF Die
  <2> QED
    BY <1>2, <2>1, <2>2, <2>4 DEF IInv
<1>8. CASE UNCHANGED vars
  <2>1. Rest' /\ RunsOK'
    BY <1>3, <1>8 DEF vars, RunsOK, Holding
  <2>2. UNCHANGED <<row, marked, run, tried, lost, shared>>
    BY <1>8 DEF vars
  <2>3. Order'
    BY <2>2, EditKeeps
  <2> QED
    BY <1>2, <2>1, <2>3 DEF IInv
<1> QED
  BY <1>4, <1>5, <1>6, <1>7, <1>8 DEF Next

-----------------------------------------------------------------------------
\* Reminders keeps its types: whatever runs overlap and die, a run has only
\* sign-ups in hand until it comes to the shifts.
THEOREM TypeCorrect == Spec => []TypeOK
<1>1. IInv => TypeOK
  BY DEF IInv
<1> QED
  BY InitIInv, StepIInv, <1>1, PTL DEF Spec

\* send_due_reminders sends to a row a second time only after a run died, or had
\* its commit refused, with the first reminder unrecorded, or if two runs had
\* read the row at once.
THEOREM AgainOnlyExcused == Spec => []AgainIsExcused
<1>1. IInv => AgainIsExcused
  <2> SUFFICES ASSUME IInv, NEW i \in Items, tried[i] > 1 + lost[i], i \notin shared
               PROVE  FALSE
    BY DEF AgainIsExcused
  <2>1. tried[i] <= 1 + lost[i]
    BY DEF IInv, Order, OnceEach, Counted
  <2>2. tried[i] \in Nat /\ lost[i] \in Nat
    BY DEF IInv, TypeOK
  <2> QED
    BY <2>1, <2>2
<1> QED
  BY InitIInv, StepIInv, <1>1, PTL DEF Spec

\* send_due_reminders sets reminder_sent_at on a sign-up only once a mail or a push for
\* it has been tried.
THEOREM NoneMarkedUntried == Spec => []MarkedWasTried
<1>1. IInv => MarkedWasTried
  BY DEF IInv, Order
<1> QED
  BY InitIInv, StepIInv, <1>1, PTL DEF Spec

-----------------------------------------------------------------------------
(***************************************************************************)
(* EveryDueIsReminded: while a run that began in this unit of time is under *)
(* way, whoever is due is marked, in its hands, or still to be read by it;  *)
(* once one is done, marked.                                               *)
(***************************************************************************)

\* A sign-up's window lies on its own date in UTC: a run of the window asks for that date.
OwnDate == \A i \in Signups, t \in 0..Horizon : InWindow(Start(i), t) => Today(t) = DateOf[i]

Awaited(i) ==
    /\ i \in waited \cap There \cap Reachable /\ InWindow(Start(i), now)
    /\ i \in Shifts => active

Minded(r, i) ==
    \/ i \in marked
    \/ i \in Holding(r)
    \/ run[r].phase = "signups" /\ (i \in Signups => ScheduleOf[i] \in run[r].todo)

DueInv ==
    /\ \A r \in Runs : run[r].at <= now
    /\ \A i \in waited : row[i] # "new"
    /\ \A i \in Items : Awaited(i) =>
          /\ caught => i \in marked
          /\ \A r \in Runs : run[r].phase # "idle" /\ run[r].at = now => Minded(r, i)

\* The marks stay, nobody becomes due in a unit of time, and run r still minds them all.
LEMMA DueKeep ==
    ASSUME DueInv, run \in [Runs -> Run], NEW r \in Runs, NEW new, new.at <= now,
           run' = [run EXCEPT ![r] = new],
           UNCHANGED <<now, active, row, waited>>, marked \subseteq marked',
           caught' => caught \/ \A i \in Items : Awaited(i) => i \in marked,
           \A i \in Items : Awaited(i) /\ new.phase # "idle" /\ new.at = now => Minded(r, i)'
    PROVE  DueInv'
<1>1. run'[r] = new /\ \A q \in Runs \ {r} : run'[q] = run[q]
  OBVIOUS
<1>2. \A i \in Items : Awaited(i)' <=> Awaited(i)
  BY DEF Awaited, There, Start
<1>3. \A i \in Items, q \in Runs \ {r} : Minded(q, i) => Minded(q, i)'
  BY <1>1 DEF Minded, Holding
<1>4. ASSUME NEW i \in Items, Awaited(i)'
      PROVE  /\ caught' => i \in marked'
             /\ \A q \in Runs : run'[q].phase # "idle" /\ run'[q].at = now' => Minded(q, i)'
  <2>1. Awaited(i)
    BY <1>2, <1>4
  <2>2. caught => i \in marked
    BY <2>1 DEF DueInv
  <2>3. ASSUME NEW q \in Runs, q # r, run'[q].phase # "idle", run'[q].at = now'
        PROVE  Minded(q, i)'
    BY <1>1, <1>3, <2>1, <2>3 DEF DueInv
  <2>4. run'[r].phase # "idle" /\ run'[r].at = now' => Minded(r, i)'
    BY <1>1, <2>1
  <2> QED
    BY <2>1, <2>2, <2>3, <2>4
<1>5. (\A q \in Runs : run[q].at <= now)' /\ (\A i \in waited : row[i] # "new")'
  BY <1>1 DEF DueInv
<1> QED
  BY <1>4, <1>5 DEF DueInv

\* Rows that are edited leave nobody more to remind: a new one has not been there all along.
LEMMA DueEdit ==
    ASSUME IInv, DueInv, Edit
    PROVE  DueInv'
<1> DEFINE Edited ==
        /\ UNCHANGED <<now, waited, marked, run, caught>> /\ (active' => active)
        /\ \A i \in Items : row'[i] \in {row[i], "gone"} \/ (row[i] = "new" /\ row'[i] = "there")
<1>1. Edited
  <2>0. row \in [Items -> {"new", "there", "gone"}]
    BY DEF IInv, TypeOK
  <2>1. ASSUME NEW i \in Items, Create(i) PROVE Edited
    BY <2>0, <2>1 DEF Create
  <2>2. ASSUME NEW gone, Remove(gone) PROVE Edited
    BY <2>0, <2>2 DEF Remove
  <2>3. ASSUME EndSession PROVE Edited
    BY <2>0, <2>3 DEF EndSession
  <2> QED
    BY <2>1, <2>2, <2>3 DEF Edit, Delete, DeleteSchedule
<1>2. \A i \in waited : i \in Items /\ row[i] # "new" /\ row'[i] # "new"
  BY <1>1 DEF IInv, TypeOK, DueInv
<1>3. ASSUME NEW i \in Items, Awaited(i)' PROVE Awaited(i)
  BY <1>1, <1>2, <1>3 DEF Awaited, There, Start
<1>4. \A i \in Items, r \in Runs : Minded(r, i)' <=> Minded(r, i)
  BY <1>1 DEF Minded, Holding
<1> QED
  BY <1>1, <1>2, <1>3, <1>4 DEF DueInv

LEMMA DueTick ==
    ASSUME IInv, DueInv, Tick
    PROVE  DueInv'
<1>1. \A r \in Runs : run[r].at <= now /\ run[r].at \in Nat
  BY DEF DueInv, IInv, TypeOK, Run
<1>2. now \in Nat /\ now' = now + 1 /\ run' = run /\ row' = row /\ ~caught' /\ waited' = There
  BY DEF Tick, IInv, TypeOK
<1>3. \A r \in Runs : run'[r].at <= now' /\ run'[r].at # now'
  BY <1>1, <1>2
<1> QED
  BY <1>2, <1>3 DEF DueInv, There

\* A run that starts has all the schedules of the day before it.
LEMMA DueStart ==
    ASSUME OwnDate, IInv, DueInv, NEW r \in Runs, StartRun(r)
    PROVE  DueInv'
<1> DEFINE due == {s \in Schedules : DayOfWeek[s] = Today(now) % Week}
           new == [Idle EXCEPT !.phase = "signups", !.at = now, !.todo = due]
<1>1. run' = [run EXCEPT ![r] = new] /\ run \in [Runs -> Run] /\ now \in 0..Horizon
  BY DEF StartRun, IInv, TypeOK
<1>2. new.phase = "signups" /\ new.at = now /\ new.todo = due
  BY DEF Idle
<1>3. ASSUME NEW i \in Signups, Awaited(i) PROVE ScheduleOf[i] \in due
  <2>1. Today(now) = DateOf[i]
    BY <1>1, <1>3 DEF Awaited, OwnDate
  <2> QED
    BY <2>1, RemindersAssumption
<1> HIDE DEF new, due
<1>4. run'[r] = new
  BY <1>1
<1>5. \A i \in Items : Awaited(i) /\ new.phase # "idle" /\ new.at = now => Minded(r, i)'
  BY <1>2, <1>3, <1>4 DEF Minded
<1>6. /\ UNCHANGED <<now, active, row, waited>> /\ marked' = marked /\ caught' = caught
  BY DEF StartRun
<1>7. new.at <= now
  BY <1>1, <1>2
<1> QED
  BY <1>1, <1>5, <1>6, <1>7, DueKeep

\* It reads whoever is due of a schedule, and of the rotation.
LEMMA DueTake ==
    ASSUME OwnDate, IInv, DueInv, NEW r \in Runs, TakeSchedule(r) \/ TakeShifts(r)
    PROVE  DueInv'
<1>1. /\ run[r] \in Run /\ run \in [Runs -> Run] /\ Holding(r) = {} /\ run[r].phase = "signups"
      /\ now \in 0..Horizon /\ waited \subseteq Items /\ run[r].at <= now
  BY DEF IInv, TypeOK, TakeSchedule, TakeShifts, DueInv
<1>2. UNCHANGED <<now, active, row, waited>> /\ marked' = marked /\ caught' = caught
  BY DEF TakeSchedule, TakeShifts
<1>3. ASSUME NEW i \in Items, Awaited(i), run[r].at = now
      PROVE  i \in marked \/ (i \in Signups => ScheduleOf[i] \in run[r].todo)
  BY <1>1, <1>3 DEF DueInv, Minded
<1>4. CASE TakeSchedule(r)
  <2>1. PICK s \in run[r].todo :
          run' = [run EXCEPT ![r].todo = @ \ {s}, ![r].batch = SignupsOf(s, run[r].at)]
    BY <1>4 DEF TakeSchedule
  <2> DEFINE read == SignupsOf(s, run[r].at)
             new == [run[r] EXCEPT !.todo = @ \ {s}, !.batch = read]
  <2>2. run' = [run EXCEPT ![r] = new]
    BY <1>1, <2>1
  <2>3. ASSUME NEW i \in Signups, Awaited(i), run[r].at = now, ScheduleOf[i] = s, i \notin marked
        PROVE  i \in read
    <3>1. Today(now) = DateOf[i] /\ Start(i) = OccurrenceStart(s, DateOf[i])
      BY <1>1, <2>3 DEF Awaited, OwnDate, Start
    <3> QED
      BY <2>3, <3>1 DEF Awaited, SignupsOf
  <2> HIDE DEF read
  <2>4. /\ new.phase = "signups" /\ new.at = run[r].at /\ new.todo = run[r].todo \ {s}
        /\ new.batch = read
    BY <1>1 DEF Run
  <2> HIDE DEF new
  <2>5. run'[r] = new
    BY <1>1, <2>2
  <2>6. \A i \in Items : Awaited(i) /\ new.phase # "idle" /\ new.at = now => Minded(r, i)'
    BY <1>2, <1>3, <2>3, <2>4, <2>5 DEF Minded, Holding
  <2> QED
    BY <1>1, <1>2, <2>2, <2>4, <2>6, DueKeep
<1>5. CASE TakeShifts(r)
  <2> DEFINE new == [run[r] EXCEPT !.phase = "shifts", !.batch = ReadShifts]
  <2>1. run' = [run EXCEPT ![r] = new] /\ run[r].todo = {}
    BY <1>1, <1>5 DEF TakeShifts
  <2>2. ASSUME NEW i \in Items, Awaited(i), run[r].at = now, i \notin marked
        PROVE  i \in ReadShifts
    BY <1>3, <2>1, <2>2 DEF Awaited, ReadShifts, Items
  <2>3. new.at = run[r].at /\ new.batch = ReadShifts
    BY <1>1 DEF Run
  <2> HIDE DEF new
  <2>4. run'[r] = new
    BY <1>1, <2>1
  <2>5. \A i \in Items : Awaited(i) /\ new.phase # "idle" /\ new.at = now => Minded(r, i)'
    BY <1>2, <2>2, <2>3, <2>4 DEF Minded, Holding
  <2> QED
    BY <1>1, <1>2, <2>1, <2>3, <2>5, DueKeep
<1> QED
  BY <1>4, <1>5

\* It passes over nobody who is due.
LEMMA DueHandle ==
    ASSUME IInv, DueInv, NEW r \in Runs, NEW j \in Items,
           \/ j \in Signups /\ RemindSignup(r, j)
           \/ j \in Shifts /\ RemindShift(r, j)
    PROVE  DueInv'
<1>1. /\ run[r] \in Run /\ run \in [Runs -> Run] /\ j \in run[r].batch /\ run[r].phase # "idle"
      /\ now \in 0..Horizon /\ run[r].at <= now /\ Signups \cap Shifts = {}
  BY RemindersAssumption DEF IInv, TypeOK, RemindSignup, RemindShift, DueInv
<1>2. UNCHANGED <<now, active, row, waited>> /\ marked' = marked /\ caught' = caught
  BY DEF RemindSignup, RemindShift
<1>3. PICK sent : /\ run[r].sent \subseteq sent /\ (sent = run[r].sent \cup {j} \/ Skip(r, j))
                  /\ run' = [run EXCEPT ![r] = [run[r] EXCEPT !.batch = @ \ {j}, !.sent = sent]]
  <2>1. CASE Skip(r, j)
    <3>1. [run[r] EXCEPT !.batch = @ \ {j}] = [run[r] EXCEPT !.batch = @ \ {j}, !.sent = run[r].sent]
      BY <1>1 DEF Run
    <3>2. run' = [run EXCEPT ![r] = [run[r] EXCEPT !.batch = @ \ {j}]]
      BY <1>1, <2>1 DEF Skip
    <3> QED
      BY <2>1, <3>1, <3>2
  <2>2. CASE Handled(r, j)
    <3>1. run' = [run EXCEPT ![r] = [run[r] EXCEPT !.batch = @ \ {j},
                                                    !.sent = run[r].sent \cup {j}]]
      BY <1>1, <2>2 DEF Handled
    <3> QED
      BY <3>1
  <2> QED
    BY <2>1, <2>2 DEF RemindSignup, RemindShift
<1> DEFINE new == [run[r] EXCEPT !.batch = @ \ {j}, !.sent = sent]
<1>4. /\ new.phase = run[r].phase /\ new.at = run[r].at /\ new.todo = run[r].todo
      /\ new.batch = run[r].batch \ {j} /\ new.sent = sent
  BY <1>1 DEF Run
<1>5. run' = [run EXCEPT ![r] = new]
  BY <1>3
<1> HIDE DEF new
<1>6. Skip(r, j) => ~Awaited(j) \/ run[r].at # now \/ j \in sent
  <2> SUFFICES ASSUME Skip(r, j), Awaited(j), run[r].at = now PROVE j \in sent
    OBVIOUS
  <2>1. CASE j \in Signups /\ RemindSignup(r, j)
    <3>1. Handled(r, j)
      BY <2>1 DEF Awaited, RemindSignup
    <3>2. run'[r].sent = run[r].sent \cup {j}
      BY <1>1, <3>1 DEF Handled, Run
    <3> QED
      BY <1>1, <1>4, <1>5, <3>2
  <2>2. CASE j \in Shifts /\ RemindShift(r, j)
    <3>1. Handled(r, j)
      BY <1>1, <2>2 DEF Awaited, RemindShift, Start
    <3>2. run'[r].sent = run[r].sent \cup {j}
      BY <1>1, <3>1 DEF Handled, Run
    <3> QED
      BY <1>1, <1>4, <1>5, <3>2
  <2> QED
    BY <2>1, <2>2
<1>7. ASSUME NEW i \in Items, Awaited(i), new.phase # "idle", new.at = now
      PROVE  Minded(r, i)'
  <2>1. Minded(r, i) /\ run'[r] = new
    BY <1>1, <1>4, <1>5, <1>7 DEF DueInv
  <2> QED
    BY <1>2, <1>3, <1>4, <1>6, <1>7, <2>1 DEF Minded, Holding
<1> QED
  BY <1>1, <1>2, <1>4, <1>5, <1>7, DueKeep

\* A run that gives up minds nobody any more.
LEMMA DueAbandon ==
    ASSUME IInv, DueInv, NEW r \in Runs, Abandon(r),
           UNCHANGED <<now, active, row, waited, caught>>
    PROVE  DueInv'
<1>1. run' = [run EXCEPT ![r] = Idle] /\ marked' = marked /\ run \in [Runs -> Run]
  BY DEF Abandon, IInv, TypeOK
<1>2. Idle.phase = "idle" /\ Idle.at <= now
  BY DEF Idle, IInv, TypeOK
<1> QED
  BY <1>1, <1>2, DueKeep

LEMMA DueRecord ==
    ASSUME IInv, DueInv, NEW r \in Runs, Commit(r) \/ EndRun(r)
    PROVE  DueInv'
<1>1. /\ run[r] \in Run /\ run \in [Runs -> Run] /\ run[r].phase # "idle"
      /\ run[r].at <= now /\ now \in 0..Horizon
  BY DEF IInv, TypeOK, Commit, EndRun, DueInv
<1>2. CASE Commit(r) /\ Refused(r)
  BY <1>2, DueAbandon DEF Commit
<1>3. CASE Commit(r) /\ ~Refused(r)
  <2> DEFINE new == [run[r] EXCEPT !.sent = {}]
  <2>1. /\ run' = [run EXCEPT ![r] = new] /\ run[r].batch = {}
        /\ marked' = marked \cup (run[r].sent \cap There)
        /\ UNCHANGED <<now, active, row, waited>> /\ caught' = caught
    BY <1>1, <1>3 DEF Commit
  <2>2. /\ new.phase = run[r].phase /\ new.at = run[r].at /\ new.todo = run[r].todo
    BY <1>1 DEF Run
  <2> HIDE DEF new
  <2>3. run'[r] = new
    BY <1>1, <2>1
  <2>4. ASSUME NEW i \in Items, Awaited(i), new.phase # "idle", new.at = now
        PROVE  Minded(r, i)'
    <3>1. Minded(r, i) /\ i \in There
      BY <2>2, <2>4 DEF DueInv, Awaited
    <3> QED
      BY <2>1, <2>2, <2>3, <3>1 DEF Minded, Holding
  <2> QED
    BY <1>1, <2>1, <2>2, <2>4, DueKeep
<1>4. CASE EndRun(r)
  <2>1. /\ run' = [run EXCEPT ![r] = Idle] /\ run[r].phase = "shifts" /\ Holding(r) = {}
        /\ caught' = (caught \/ run[r].at = now)
        /\ UNCHANGED <<now, active, row, waited>> /\ marked' = marked
    BY <1>4 DEF EndRun
  <2>2. Idle.phase = "idle" /\ Idle.at <= now
    BY <1>1 DEF Idle
  <2>3. run[r].at = now => \A i \in Items : Awaited(i) => i \in marked
    BY <1>1, <2>1 DEF DueInv, Minded
  <2> QED
    BY <1>1, <2>1, <2>2, <2>3, DueKeep
<1> QED
  BY <1>2, <1>3, <1>4

LEMMA DueNext == OwnDate /\ IInv /\ DueInv /\ [Next]_vars => DueInv'
<1> SUFFICES ASSUME OwnDate, IInv, DueInv, [Next]_vars PROVE DueInv'
  OBVIOUS
<1>1. CASE Tick \/ Edit
  BY <1>1, DueTick, DueEdit
<1>2. ASSUME NEW r \in Runs, Proceed(r) PROVE DueInv'
  BY <1>2, DueStart, DueTake, DueHandle, DueRecord DEF Proceed, Items
<1>3. ASSUME NEW r \in Runs, Die(r) PROVE DueInv'
  BY <1>3, DueAbandon DEF Die
<1>4. CASE UNCHANGED vars
  BY <1>4 DEF vars, DueInv, Awaited, Minded, Holding, There, Start
<1> QED
  BY <1>1, <1>2, <1>3, <1>4 DEF Next

\* With a whole run in every unit of time, nobody who can be reached, and whose row was
\* there for a whole unit of its window, is left unmarked by
\* send_due_reminders, whatever runs overlap and die, as long as the windows of
\* sign-ups lie on their own dates in UTC.
THEOREM AllDueReminded ==
    ASSUME Punctual, OwnDate
    PROVE  Spec => EveryDueIsReminded
<1>1. Init => DueInv
  BY DEF Init, DueInv, Idle, Awaited
<1>2. DueInv /\ IInv /\ [Next]_vars =>
        [now' > now =>
           \A i \in waited \cap There \cap Reachable :
              /\ InWindow(Start(i), now)
              /\ i \in Shifts => active
              => i \in marked]_vars
  <2> SUFFICES ASSUME DueInv, IInv, Next, now' > now,
                      NEW i \in waited \cap There \cap Reachable,
                      InWindow(Start(i), now), i \in Shifts => active
               PROVE  i \in marked
    BY DEF vars
  <2>1. CASE Tick
    <3>1. i \in Items /\ Awaited(i) /\ caught
      BY <2>1 DEF Tick, There, Awaited
    <3> QED
      BY <3>1 DEF DueInv
  <2>2. CASE now' = now
    BY <2>2 DEF IInv, TypeOK
  <2>3. Tick \/ now' = now
    BY DEF Next, Edit, Create, Delete, DeleteSchedule, Remove, EndSession, Proceed, StartRun,
           TakeSchedule, TakeShifts, RemindSignup, RemindShift, Commit, EndRun, Die
  <2> QED
    BY <2>1, <2>2, <2>3
<1>3. DueInv /\ IInv /\ [Next]_vars => DueInv'
  BY DueNext
<1> QED
  BY InitIInv, StepIInv, <1>1, <1>2, <1>3, PTL DEF Spec, EveryDueIsReminded

-----------------------------------------------------------------------------
(***************************************************************************)
(* Publishing: what a request in flight has loaded and relies on, given    *)
(* the posts ps, the number of key pairs ks, the organisation's key k and  *)
(* the newest request id for a key.                                        *)
(***************************************************************************)

Kinds == {"start", "end", "manual", "reply"}
Stages == {"none", "pending", "approved", "claimed", "rejected"}
Signing == {"post", "targets", "follow", "like"}

Filled(r, ps, ks, k, id) ==
    /\ r.op = "load" => r.kind \in {"start", "end"}
    /\ r.op = "post" => r.kind \in Kinds
    /\ r.op \in Signing => r.key \in 1 .. ks
    /\ r.op = "post" => r.to \in Actors \cup {None} /\ (r.to = None <=> r.kind # "reply")
    /\ r.op = "targets" => r.post \in DOMAIN ps /\ r.to \in Actors \cup {None}
    /\ r.op = "toggle" => /\ r.on \in BOOLEAN /\ r.seen \in [enabled : BOOLEAN, key : 0 .. ks]
                          /\ r.seen.enabled => r.seen.key # 0
                          /\ k = 0 => r.seen.key = 0
    /\ r.op = "follow" => r.by \in Actors /\ r.to \in Inboxes
    /\ r.op = "like" => r.to \in Actors
    /\ r.op \in {"store", "poll"} => r.token \in 1 .. id
    /\ r.op = "answer" => r.key \in BOOLEAN /\ r.status \in Stages \ {"none"}

AllFilled(rs, ps, ks, k, id) ==
    /\ rs = [p \in Slots |-> rs[p]]
    /\ \A p \in Slots : Filled(rs[p], ps, ks, k, id)

PublishingTypeInv ==
    /\ PublishingTypeOK
    /\ stats \in Nat /\ keys \in Nat /\ posts \in Seq(Kinds) /\ twice \in BOOLEAN
    /\ org \in [enabled : BOOLEAN, key : Nat]
    /\ likes \in [Actors -> Nat]
    /\ request \in [id : Nat, stage : Stages, ours : BOOLEAN]
    /\ request.id # 0 => request.stage # "none"
    /\ \A m \in got : m.key \in 1 .. keys
    /\ AllFilled(req, posts, keys, org.key, request.id)

(***************************************************************************)
(* The end of a session: one request sees to it, and what it has not done  *)
(* yet nobody has.                                                         *)
(***************************************************************************)

Pushed(r) == r.op = "push" \/ (r.op \in {"load", "post"} /\ r.kind = "end")

Ending(r) == r.op = "end" \/ Pushed(r)

EndPosts == {n \in DOMAIN posts : posts[n] = "end"}

EndOrder ==
    /\ \A p, q \in Slots : Ending(req[p]) /\ Ending(req[q]) => p = q
    /\ session \in {None, "open"} => stats = 0 /\ EndPosts = {} /\ \A p \in Slots : ~Pushed(req[p])
    /\ \A p \in Slots : Ending(req[p]) => EndPosts = {}
    /\ \A p \in Slots : req[p].op \in {"end", "push"} => stats = 0
    /\ stats <= 1 /\ \A m, n \in EndPosts : m = n

EndInv == PublishingTypeInv /\ ("end" \notin raced => EndOrder)

(***************************************************************************)
(* A reply is liked by one request, which found it as it was kept.         *)
(***************************************************************************)

LikeOrder ==
    /\ \A p, q \in Slots : req[p].op = "like" /\ req[q].op = "like" /\ req[p].to = req[q].to => p = q
    /\ \A p \in Slots : req[p].op = "like" => likes[req[p].to] = 0 /\ replies[req[p].to] = "kept"
    /\ \A a \in Actors : likes[a] <= 1 /\ (replies[a] # "liked" => likes[a] = 0)

LikeInv == PublishingTypeInv /\ ("like" \notin raced => LikeOrder)

(***************************************************************************)
(* Whatever is signed, or about to be, is signed with the actor's key.     *)
(***************************************************************************)

KeyOrder ==
    /\ \A m \in got \cup tasks : m.key = org.key
    /\ \A p \in Slots : req[p].op \in Signing => req[p].key = org.key

KeyInv == PublishingTypeInv /\ ("key" \notin raced => KeyOrder)

(***************************************************************************)
(* A post is on its way to an inbox in one place only, and what is owed    *)
(* is owed at the inbox its follower has.                                  *)
(***************************************************************************)

Targeting(r, n) == r.op = "targets" /\ r.post = n

Unsent ==
    /\ \A p, q \in Slots, n \in DOMAIN posts : Targeting(req[p], n) /\ Targeting(req[q], n) => p = q
    /\ \A p \in Slots, n \in DOMAIN posts, m \in tasks \cup got : Targeting(req[p], n) => m.post # n
    /\ \A m \in got : m.post \in DOMAIN posts \cup {None}
    /\ \A t \in tasks, m \in got : t.post # None => m.post # t.post \/ m.to # t.to
    /\ \A t, u \in tasks : t.post # None /\ t.post = u.post /\ t.to = u.to => t = u

Due ==
    /\ \A o \in owed : /\ o.post \in DOMAIN posts /\ o.by \in Actors
                       /\ o.to \in Inboxes /\ followers[o.by] = o.to
    /\ \A o \in owed, p \in Slots : Targeting(req[p], o.post) => req[p].to = None

DeliveryInv == PublishingTypeInv /\ OnePostEach /\ Unsent /\ Due

(***************************************************************************)
(* The directory's key: one request at a time is about it, and knows of    *)
(* the directory what is so there.                                         *)
(***************************************************************************)

Had ==
    /\ request.stage \in {"pending", "approved"} => token = request.id
    /\ request.stage = "claimed" => apiKey

Knows(r, had, id, stage) ==
    /\ r.op = "store" => r.token = id /\ stage # "claimed"
    /\ r.op = "poll" => had
    /\ r.op = "answer" /\ r.key => stage = "claimed"
    /\ r.op = "answer" /\ ~r.key => had /\ (r.status \in {"claimed", "rejected"} => stage = r.status)

ClaimOrder ==
    /\ \A p, q \in Slots : req[p].op \in Claiming /\ req[q].op \in Claiming => p = q
    /\ \A p \in Slots : Knows(req[p], Had, request.id, request.stage)
    /\ (\A p \in Slots : req[p].op \notin Claiming) => Had

ClaimInv == PublishingTypeInv /\ (request.ours => ClaimOrder)

-----------------------------------------------------------------------------
(* Requests in flight.                                                     *)

\* A request takes a step, and the others stay where they are.
LEMMA Went ==
    ASSUME PublishingTypeInv, NEW p \in Slots, NEW r, Go(p, r)
    PROVE  \A q \in Slots : req'[q] = IF q = p THEN r ELSE req[q]
BY DEF PublishingTypeInv, AllFilled, Go

LEMMA StillFilled ==
    ASSUME NEW r, NEW ps, NEW ps2, NEW ks \in Nat, NEW ks2 \in Nat, NEW k, NEW k2,
           NEW id \in Nat, NEW id2 \in Nat,
           Filled(r, ps, ks, k, id), DOMAIN ps \subseteq DOMAIN ps2, ks <= ks2, id <= id2,
           k2 = 0 => k = 0
    PROVE  Filled(r, ps2, ks2, k2, id2)
BY DEF Filled

\* What the others have loaded stays good when posts, key pairs and key requests are added.
LEMMA SlotsStay ==
    ASSUME PublishingTypeInv, NEW p \in Slots, NEW r, Go(p, r),
           NEW ps, NEW ks \in Nat, NEW k, NEW id \in Nat,
           DOMAIN posts \subseteq DOMAIN ps, keys <= ks, request.id <= id, k = 0 => org.key = 0,
           Filled(r, ps, ks, k, id)
    PROVE  AllFilled(req', ps, ks, k, id)
<1>1. req' = [q \in Slots |-> req'[q]]
  BY DEF PublishingTypeInv, AllFilled, Go
<1>2. \A q \in Slots : req'[q] = IF q = p THEN r ELSE req[q]
  BY Went
<1>3. ASSUME NEW q \in Slots, q # p PROVE Filled(req[q], ps, ks, k, id)
  <2>1. Filled(req[q], posts, keys, org.key, request.id) /\ keys \in Nat /\ request.id \in Nat
    BY DEF PublishingTypeInv, AllFilled
  <2> QED
    BY <2>1, StillFilled
<1> QED
  BY <1>1, <1>2, <1>3 DEF AllFilled

LEMMA FilledAt ==
    ASSUME PublishingTypeInv, NEW p \in Slots
    PROVE  Filled(req[p], posts, keys, org.key, request.id)
BY DEF PublishingTypeInv, AllFilled

LEMMA NothingInFlight ==
    ASSUME NEW ps, NEW ks, NEW k, NEW id
    PROVE  Filled(NoRequest, ps, ks, k, id)
BY DEF Filled, NoRequest, Signing

LEMMA PostsAre ==
    ASSUME PublishingTypeInv
    PROVE  /\ posts \in Seq(Kinds) /\ Len(posts) \in Nat /\ DOMAIN posts = 1 .. Len(posts)
           /\ None \notin DOMAIN posts /\ \A n \in DOMAIN posts : posts[n] \in Kinds
<1>1. posts \in Seq(Kinds) /\ Len(posts) \in Nat /\ DOMAIN posts = 1 .. Len(posts)
  BY DEF PublishingTypeInv
<1>2. None \notin 1 .. Len(posts)
  BY <1>1, PublishingAssumption
<1> QED
  BY <1>1, <1>2

\* A post is recorded behind the others.
LEMMA PostAdded ==
    ASSUME PublishingTypeInv, NEW kind \in Kinds, posts' = Append(posts, kind)
    PROVE  /\ posts' \in Seq(Kinds) /\ Len(posts') = Len(posts) + 1
           /\ DOMAIN posts' = DOMAIN posts \cup {Len(posts')} /\ Len(posts') \notin DOMAIN posts
           /\ \A n \in DOMAIN posts : posts'[n] = posts[n]
           /\ posts'[Len(posts')] = kind
<1>1. posts \in Seq(Kinds) /\ Len(posts) \in Nat /\ DOMAIN posts = 1 .. Len(posts)
  BY PostsAre
<1>2. posts' \in Seq(Kinds) /\ Len(posts') = Len(posts) + 1 /\ DOMAIN posts' = 1 .. Len(posts')
  BY <1>1
<1> QED
  BY <1>1, <1>2

-----------------------------------------------------------------------------
(* Types.                                                                  *)

\* A request that only reads, or that leaves.
LEMMA QuietTypes ==
    ASSUME PublishingTypeInv, NEW p \in Slots, NEW r, Go(p, r),
           Filled(r, posts, keys, org.key, request.id),
           session' \in {None, "open", "ended", "deleted"}, stats' \in Nat,
           UNCHANGED <<org, keys, followers, posts, replies, tasks, got, twice, likes, token, apiKey>>,
           request' \in [id : {request.id}, stage : {request.stage}, ours : BOOLEAN]
    PROVE  PublishingTypeInv'
<1>1. keys \in Nat /\ request.id \in Nat
  BY DEF PublishingTypeInv
<1>2. request'.id = request.id /\ request'.stage = request.stage
      /\ request' \in [id : Nat, stage : Stages, ours : BOOLEAN]
  BY DEF PublishingTypeInv
<1>3. AllFilled(req', posts, keys, org.key, request.id)
  BY <1>1, SlotsStay
<1> QED
  BY <1>2, <1>3 DEF PublishingTypeInv, PublishingTypeOK

LEMMA OrgIs ==
    ASSUME PublishingTypeInv
    PROVE  /\ org \in [enabled : BOOLEAN, key : 0 .. keys] /\ keys \in Nat
           /\ org.enabled => org.key \in 1 .. keys
BY DEF PublishingTypeInv, PublishingTypeOK

LEMMA AskTypes ==
    ASSUME PublishingTypeInv, NEW p \in Slots, AskAbout(p)
    PROVE  PublishingTypeInv'
<1>1. /\ session \in {None, "open", "ended", "deleted"} /\ stats \in Nat
      /\ request \in [id : Nat, stage : Stages, ours : BOOLEAN]
  BY DEF PublishingTypeInv, PublishingTypeOK
<1>2. request \in [id : {request.id}, stage : {request.stage}, ours : BOOLEAN]
  BY <1>1
<1>3. CASE StartSession(p) /\ UNCHANGED <<fediverse, directory>>
  <2>1. Filled([op |-> "load", kind |-> "start"], posts, keys, org.key, request.id)
    BY DEF Filled, Kinds, Signing
  <2> QED
    BY <1>1, <1>2, <1>3, <2>1, QuietTypes DEF StartSession, fediverse, directory
<1>4. CASE LoadEnd(p) /\ UNCHANGED <<fediverse, directory>>
  <2>1. Filled([op |-> "end"], posts, keys, org.key, request.id)
    BY DEF Filled, Signing
  <2> QED
    BY <1>1, <1>2, <1>4, <2>1, QuietTypes DEF LoadEnd, life, fediverse, directory
<1>5. ASSUME NEW a \in Actors \cup {None}, Compose(p, a), UNCHANGED <<life, directory>>
      PROVE  PublishingTypeInv'
  <2> DEFINE r == [op |-> "post", kind |-> IF a = None THEN "manual" ELSE "reply",
                   key |-> org.key, to |-> a]
  <2>1. Filled(r, posts, keys, org.key, request.id)
    BY <1>5, OrgIs DEF Filled, Kinds, Signing, Compose
  <2>2. Go(p, r)
    BY <1>5 DEF Compose
  <2> HIDE DEF r
  <2> QED
    BY <1>1, <1>2, <1>5, <2>1, <2>2, QuietTypes DEF Compose, life, fediverse, directory
<1>6. ASSUME NEW a \in Actors, LoadLike(p, a), UNCHANGED <<life, directory>>
      PROVE  PublishingTypeInv'
  <2>1. Filled([op |-> "like", to |-> a, key |-> org.key], posts, keys, org.key, request.id)
    BY <1>6, OrgIs DEF Filled, Signing, LoadLike
  <2> QED
    BY <1>1, <1>2, <1>6, <2>1, QuietTypes DEF LoadLike, life, fediverse, directory
<1>7. ASSUME NEW on \in BOOLEAN, LoadToggle(p, on), UNCHANGED <<life, directory>>
      PROVE  PublishingTypeInv'
  <2>1. Filled([op |-> "toggle", on |-> on, seen |-> org], posts, keys, org.key, request.id)
    BY OrgIs DEF Filled, Signing
  <2> QED
    BY <1>1, <1>2, <1>7, <2>1, QuietTypes DEF LoadToggle, life, fediverse, directory
<1>8. ASSUME NEW a \in Actors, NEW to \in Inboxes, LoadFollow(p, a, to), UNCHANGED <<life, directory>>
      PROVE  PublishingTypeInv'
  <2>1. Filled([op |-> "follow", by |-> a, to |-> to, key |-> org.key, seen |-> followers[a]],
               posts, keys, org.key, request.id)
    BY <1>8, OrgIs DEF Filled, Signing, LoadFollow
  <2> QED
    BY <1>1, <1>2, <1>8, <2>1, QuietTypes DEF LoadFollow, life, fediverse, directory
<1>9. CASE RequestKey(p) /\ UNCHANGED <<life, fediverse, raced>>
  <2> DEFINE r == [op |-> "store", token |-> request.id + 1]
  <2>1. /\ request' \in [id : Nat, stage : Stages, ours : BOOLEAN]
        /\ request'.id = request.id + 1 /\ request'.stage = "pending"
    <3> DEFINE c == Others(p, Claiming)
               s == [id |-> request.id + 1, stage |-> "pending", ours |-> TRUE]
    <3>1. c \in BOOLEAN
      BY DEF Others
    <3>2. request' = [s EXCEPT !.ours = ~c /\ s.ours]
      BY <1>9 DEF RequestKey, Claim
    <3>3. s \in [id : Nat, stage : Stages, ours : BOOLEAN] /\ s.id = request.id + 1 /\ s.stage = "pending"
      BY <1>1 DEF Stages
    <3> HIDE DEF c, s
    <3> QED
      BY <3>1, <3>2, <3>3
  <2>2. keys \in Nat /\ request.id \in Nat /\ request'.id \in Nat
    BY <1>1, <2>1, OrgIs
  <2>3. Filled(r, posts, keys, org.key, request'.id)
    BY <2>1, <2>2 DEF Filled, Signing
  <2>4. Go(p, r)
    BY <1>9 DEF RequestKey
  <2> HIDE DEF r
  <2>5. request.id <= request'.id
    BY <2>1, <2>2
  <2>6. AllFilled(req', posts, keys, org.key, request'.id)
    BY <2>2, <2>3, <2>4, <2>5, SlotsStay
  <2>7. token' \in 1 .. request'.id \cup {None}
    BY <1>9, <2>1, <2>2 DEF PublishingTypeInv, PublishingTypeOK, RequestKey
  <2> QED
    BY <1>9, <2>1, <2>6, <2>7 DEF PublishingTypeInv, PublishingTypeOK, RequestKey, life, fediverse, Stages
<1>10. CASE Poll(p) /\ UNCHANGED <<life, fediverse, raced>>
  <2>1. request' \in [id : {request.id}, stage : {request.stage}, ours : BOOLEAN]
    BY <1>1, <1>10 DEF Poll, Claim, Others
  <2>2. token \in 1 .. request.id
    BY <1>10 DEF Poll, PublishingTypeInv, PublishingTypeOK
  <2>3. Filled([op |-> "poll", token |-> token], posts, keys, org.key, request.id)
    BY <2>2 DEF Filled, Signing
  <2> QED
    BY <1>1, <1>10, <2>1, <2>3, QuietTypes DEF Poll, life, fediverse
<1> QED
  BY <1>3, <1>4, <1>5, <1>6, <1>7, <1>8, <1>9, <1>10 DEF AskAbout

\* A commit that queues deliveries, signed with a key pair there is, and may change who follows
\* and what is liked.
LEMMA QueueTypes ==
    ASSUME PublishingTypeInv, NEW p \in Slots, Free(p),
           NEW new, tasks' = tasks \cup new,
           \A t \in new : t.post \in DOMAIN posts \cup {None} /\ t.to \in Inboxes /\ t.key \in 1 .. keys,
           followers' \in [Actors -> Inboxes \cup {None}],
           replies' \in [Actors -> {None, "kept", "liked"}], likes' \in [Actors -> Nat],
           UNCHANGED <<life, org, keys, posts, got, twice, directory>>
    PROVE  PublishingTypeInv'
<1>1. keys \in Nat /\ request.id \in Nat
  BY DEF PublishingTypeInv
<1>2. AllFilled(req', posts, keys, org.key, request.id)
  BY <1>1, SlotsStay, NothingInFlight DEF Free
<1> QED
  BY <1>2 DEF PublishingTypeInv, PublishingTypeOK, life, directory

\* A commit that changes what there is of the directory's key.
LEMMA ClaimTypes ==
    ASSUME PublishingTypeInv, NEW p \in Slots, NEW r, Go(p, r),
           Filled(r, posts, keys, org.key, request.id),
           token' \in 1 .. request.id \cup {None}, apiKey' \in BOOLEAN,
           request' \in [id : {request.id}, stage : Stages, ours : BOOLEAN],
           request.stage # "none" => request'.stage # "none",
           UNCHANGED <<life, fediverse>>
    PROVE  PublishingTypeInv'
<1>1. keys \in Nat /\ request.id \in Nat
  BY DEF PublishingTypeInv
<1>2. request'.id = request.id /\ request' \in [id : Nat, stage : Stages, ours : BOOLEAN]
  BY <1>1
<1>3. AllFilled(req', posts, keys, org.key, request.id)
  BY <1>1, SlotsStay
<1>4. request'.stage \in Stages
  BY <1>2
<1> QED
  BY <1>2, <1>3, <1>4 DEF PublishingTypeInv, PublishingTypeOK, life, fediverse, Stages

LEMMA FailTypes ==
    ASSUME PublishingTypeInv, NEW p \in Slots, Fail(p)
    PROVE  PublishingTypeInv'
<1>1. request \in [id : Nat, stage : Stages, ours : BOOLEAN]
  BY DEF PublishingTypeInv
<1>2. request' \in [id : {request.id}, stage : {request.stage}, ours : BOOLEAN]
  <2> DEFINE c == \A q \in {p} : req[q].op \notin Claiming
  <2>1. c \in BOOLEAN /\ request' = [request EXCEPT !.ours = @ /\ c]
    BY DEF Fail, Lost
  <2> HIDE DEF c
  <2> QED
    BY <1>1, <2>1
<1> QED
  BY <1>2, NothingInFlight, QuietTypes DEF Fail, Free, life, PublishingTypeInv, PublishingTypeOK

LEMMA RestartTypes ==
    ASSUME PublishingTypeInv, Restart
    PROVE  PublishingTypeInv'
<1>1. request \in [id : Nat, stage : Stages, ours : BOOLEAN]
  BY DEF PublishingTypeInv
<1>2. request' \in [id : {request.id}, stage : {request.stage}, ours : BOOLEAN]
  <2> DEFINE c == \A q \in Slots : req[q].op \notin Claiming
  <2>1. c \in BOOLEAN /\ request' = [request EXCEPT !.ours = @ /\ c]
    BY DEF Restart
  <2> HIDE DEF c
  <2> QED
    BY <1>1, <2>1
<1>3. request'.id = request.id /\ request'.stage = request.stage
      /\ request' \in [id : Nat, stage : Stages, ours : BOOLEAN]
  BY <1>1, <1>2
<1>4. AllFilled(req', posts, keys, org.key, request.id)
  BY NothingInFlight DEF Restart, AllFilled
<1> QED
  BY <1>3, <1>4 DEF PublishingTypeInv, PublishingTypeOK, Restart, life

LEMMA CommitPostTypes ==
    ASSUME PublishingTypeInv, NEW p \in Slots, CommitPost(p)
    PROVE  PublishingTypeInv'
<1>1. req[p].kind \in Kinds /\ req[p].key \in 1 .. keys /\ req[p].to \in Actors \cup {None}
  BY FilledAt DEF CommitPost, Filled, Signing
<1>2. posts' = Append(posts, req[p].kind)
  BY DEF CommitPost
<1>3. /\ posts' \in Seq(Kinds) /\ DOMAIN posts' = DOMAIN posts \cup {Len(posts')}
      /\ \A n \in DOMAIN posts : posts'[n] = posts[n]
      /\ posts'[Len(posts')] = req[p].kind
  BY <1>1, <1>2, PostAdded
<1> DEFINE r == [op |-> "targets", post |-> Len(posts'), key |-> req[p].key, to |-> req[p].to]
<1>4. Go(p, r)
  BY DEF CommitPost
<1>5. Filled(r, posts', keys, org.key, request.id)
  BY <1>1, <1>3 DEF Filled, Signing
<1> HIDE DEF r
<1>6. keys \in Nat /\ request.id \in Nat
  BY DEF PublishingTypeInv
<1>7. AllFilled(req', posts', keys, org.key, request.id)
  BY <1>3, <1>4, <1>5, <1>6, SlotsStay
<1>8. \A n \in DOMAIN posts' : posts'[n] \in Kinds
  BY <1>1, <1>3, PostsAre
<1> QED
  BY <1>3, <1>7, <1>8 DEF PublishingTypeInv, PublishingTypeOK, CommitPost, life, directory, Kinds

LEMMA ToggleTypes ==
    ASSUME PublishingTypeInv, NEW p \in Slots, CommitToggle(p)
    PROVE  /\ PublishingTypeInv'
           /\ \/ keys' = keys + 1 /\ org'.key = keys' /\ (org.key # 0 => "key" \in raced')
              \/ keys' = keys /\ org'.key = org.key
<1> DEFINE on == req[p].on
           seen == req[p].seen
           first == on /\ seen.key = 0
<1>1. /\ on \in BOOLEAN /\ seen \in [enabled : BOOLEAN, key : 0 .. keys]
      /\ seen.enabled => seen.key # 0
      /\ org.key = 0 => seen.key = 0
  BY FilledAt DEF CommitToggle, Filled
<1>2. /\ keys' = IF first THEN keys + 1 ELSE keys
      /\ org' = [enabled |-> IF on # seen.enabled THEN on ELSE org.enabled,
                 key |-> IF first THEN keys' ELSE org.key]
      /\ Race("key", first /\ org.key # 0)
      /\ Go(p, NoRequest)
      /\ UNCHANGED <<life, followers, posts, replies, tasks, got, twice, owed, likes, directory, asked>>
  BY DEF CommitToggle, Switched, Free
<1> HIDE DEF on, seen
<1>3. org \in [enabled : BOOLEAN, key : 0 .. keys] /\ keys \in Nat /\ (org.enabled => org.key \in 1 .. keys)
  BY OrgIs
<1>4. request.id \in Nat /\ keys' \in Nat /\ keys <= keys'
  BY <1>2, <1>3 DEF PublishingTypeInv
<1>5. org'.enabled \in BOOLEAN /\ org'.key \in 0 .. keys' /\ org' \in [enabled : BOOLEAN, key : Nat]
  BY <1>1, <1>2, <1>3
<1>6. org'.enabled => org'.key # 0
  <2>1. CASE on /\ seen.key = 0
    BY <1>2, <1>3, <2>1
  <2>2. CASE on /\ seen.key # 0
    BY <1>1, <1>2, <1>3, <2>2
  <2>3. CASE ~on
    BY <1>1, <1>2, <1>3, <2>3
  <2> QED
    BY <2>1, <2>2, <2>3
<1>7. org'.key = 0 => org.key = 0
  BY <1>2, <1>3
<1>8. AllFilled(req', posts, keys', org'.key, request.id)
  BY <1>2, <1>4, <1>7, SlotsStay, NothingInFlight
<1>9. \A m \in got \cup tasks : m.key \in 1 .. keys'
  BY <1>3, <1>4 DEF PublishingTypeInv, PublishingTypeOK
<1>10. PublishingTypeInv'
  BY <1>2, <1>4, <1>5, <1>6, <1>8, <1>9 DEF PublishingTypeInv, PublishingTypeOK, life, directory
<1>11. first => keys' = keys + 1 /\ org'.key = keys' /\ (org.key # 0 => "key" \in raced')
  BY <1>2 DEF Race
<1>12. ~first => keys' = keys /\ org'.key = org.key
  BY <1>2
<1> QED
  BY <1>10, <1>11, <1>12

LEMMA DirectoryTypes ==
    ASSUME PublishingTypeInv, NEW p \in Slots, AskDirectory(p)
    PROVE  PublishingTypeInv'
<1>1. request \in [id : Nat, stage : Stages, ours : BOOLEAN] /\ (request.id # 0 => request.stage # "none")
  BY DEF PublishingTypeInv
<1> DEFINE mine == req[p].token = request.id
           given == mine /\ request.stage = "approved"
           r == [op |-> "answer", key |-> given, status |-> IF mine THEN request'.stage ELSE "pending"]
<1>2. req[p].token \in 1 .. request.id
  BY FilledAt DEF AskDirectory, Filled
<1>3. /\ request' = IF given THEN [request EXCEPT !.stage = "claimed"] ELSE request
      /\ Go(p, r)
      /\ UNCHANGED <<life, fediverse, token, status, apiKey, asked, raced>>
  BY DEF AskDirectory
<1>4. request.stage # "none"
  BY <1>1, <1>2
<1>5. /\ request' \in [id : {request.id}, stage : Stages, ours : BOOLEAN] /\ request'.stage # "none"
  BY <1>1, <1>3, <1>4 DEF Stages
<1>6. r.key \in BOOLEAN /\ r.status \in Stages \ {"none"} /\ r.op = "answer"
  BY <1>5 DEF Stages
<1> HIDE DEF r
<1>7. Filled(r, posts, keys, org.key, request.id)
  BY <1>6 DEF Filled, Signing
<1>8. token' \in 1 .. request.id \cup {None} /\ apiKey' \in BOOLEAN
  BY <1>3 DEF PublishingTypeInv, PublishingTypeOK
<1> QED
  BY <1>3, <1>5, <1>7, <1>8, ClaimTypes

LEMMA QueuedTypes ==
    ASSUME PublishingTypeInv, NEW p \in Slots, ResolveTargets(p) \/ CommitFollow(p) \/ CommitLike(p)
    PROVE  PublishingTypeInv'
<1>1. Filled(req[p], posts, keys, org.key, request.id)
  BY FilledAt
<1>2. /\ followers \in [Actors -> Inboxes \cup {None}]
      /\ replies \in [Actors -> {None, "kept", "liked"}] /\ likes \in [Actors -> Nat]
  BY DEF PublishingTypeInv, PublishingTypeOK
<1>3. CASE ResolveTargets(p)
  <2> DEFINE new == IF req[p].to # None THEN {Delivery(p, req[p].to, None)}
                    ELSE {Delivery(p, i, None) : i \in {followers[a] : a \in Actors} \ {None}}
  <2>1. tasks' = tasks \cup new /\ Free(p)
        /\ UNCHANGED <<life, org, keys, followers, posts, replies, got, twice, likes, directory>>
    BY <1>3 DEF ResolveTargets, Queued
  <2>2. \A t \in new : t.post \in DOMAIN posts \cup {None} /\ t.to \in Inboxes /\ t.key \in 1 .. keys
    BY <1>1, <1>2, <1>3 DEF ResolveTargets, Filled, Signing, Delivery, Inboxes
  <2> HIDE DEF new
  <2> QED
    BY <1>2, <2>1, <2>2, QueueTypes
<1>4. CASE CommitFollow(p)
  <2> DEFINE t == [post |-> None, to |-> req[p].by, key |-> req[p].key, via |-> "accept"]
  <2>1. t.post = None /\ t.to \in Inboxes /\ t.key \in 1 .. keys
    BY <1>1, <1>4 DEF CommitFollow, Filled, Signing, Inboxes
  <2>2. tasks' = tasks \cup {t} /\ Free(p)
        /\ UNCHANGED <<life, org, keys, posts, replies, got, twice, likes, directory>>
    BY <1>4 DEF CommitFollow
  <2> HIDE DEF t
  <2>3. followers' \in [Actors -> Inboxes \cup {None}]
    BY <1>1, <1>2, <1>4 DEF CommitFollow, Filled
  <2> DEFINE new == {t}
  <2>4. tasks' = tasks \cup new
        /\ \A u \in new : u.post \in DOMAIN posts \cup {None} /\ u.to \in Inboxes /\ u.key \in 1 .. keys
    BY <2>1, <2>2
  <2> HIDE DEF new
  <2> QED
    BY <1>2, <2>2, <2>3, <2>4, QueueTypes
<1>5. CASE CommitLike(p)
  <2> DEFINE t == [post |-> None, to |-> req[p].to, key |-> req[p].key, via |-> "like"]
  <2>1. t.post = None /\ t.to \in Inboxes /\ t.key \in 1 .. keys
    BY <1>1, <1>5 DEF CommitLike, Filled, Signing, Inboxes
  <2>2. tasks' = tasks \cup {t} /\ Free(p)
        /\ UNCHANGED <<life, org, keys, followers, posts, got, twice, directory>>
    BY <1>5 DEF CommitLike
  <2> HIDE DEF t
  <2>3. replies' \in [Actors -> {None, "kept", "liked"}] /\ likes' \in [Actors -> Nat]
    BY <1>1, <1>2, <1>5 DEF CommitLike, Filled
  <2> DEFINE new == {t}
  <2>4. tasks' = tasks \cup new
        /\ \A u \in new : u.post \in DOMAIN posts \cup {None} /\ u.to \in Inboxes /\ u.key \in 1 .. keys
    BY <2>1, <2>2
  <2> HIDE DEF new
  <2> QED
    BY <1>2, <2>2, <2>3, <2>4, QueueTypes
<1> QED
  BY <1>3, <1>4, <1>5

LEMMA AnswerTypes ==
    ASSUME PublishingTypeInv, NEW p \in Slots, StoreToken(p) \/ CommitAnswer(p)
    PROVE  PublishingTypeInv'
<1>1. Filled(req[p], posts, keys, org.key, request.id)
  BY FilledAt
<1>2. token \in 1 .. request.id \cup {None} /\ apiKey \in BOOLEAN /\ request.stage \in Stages
      /\ request \in [id : {request.id}, stage : Stages, ours : BOOLEAN]
  BY DEF PublishingTypeInv, PublishingTypeOK
<1>3. Go(p, NoRequest) /\ UNCHANGED <<life, fediverse, request>>
  BY DEF StoreToken, CommitAnswer, Free
<1>4. token' \in 1 .. request.id \cup {None}
  BY <1>1, <1>2 DEF StoreToken, CommitAnswer, Filled
<1>5. apiKey' \in BOOLEAN
  BY <1>1, <1>2 DEF StoreToken, CommitAnswer, Filled
<1> QED
  BY <1>2, <1>3, <1>4, <1>5, NothingInFlight, ClaimTypes

\* What is said of the session and read for a post.
LEMMA ReadTypes ==
    ASSUME PublishingTypeInv, NEW p \in Slots, CommitEnd(p) \/ PushStats(p) \/ LoadOrg(p)
    PROVE  PublishingTypeInv'
<1>1. Filled(req[p], posts, keys, org.key, request.id)
  BY FilledAt
<1>2. /\ session \in {None, "open", "ended", "deleted"} /\ stats \in Nat
      /\ request \in [id : {request.id}, stage : {request.stage}, ours : BOOLEAN]
  BY DEF PublishingTypeInv, PublishingTypeOK
<1>3. CASE CommitEnd(p)
  <2>1. Filled([op |-> "push"], posts, keys, org.key, request.id)
    BY DEF Filled, Signing
  <2> QED
    BY <1>2, <1>3, <2>1, QuietTypes DEF CommitEnd, fediverse, directory
<1>4. CASE PushStats(p)
  <2>1. Filled([op |-> "load", kind |-> "end"], posts, keys, org.key, request.id)
    BY DEF Filled, Signing, Kinds
  <2>2. stats' \in Nat
    BY <1>2, <1>4 DEF PushStats
  <2> QED
    BY <1>2, <1>4, <2>1, <2>2, QuietTypes DEF PushStats, fediverse, directory
<1>5. CASE LoadOrg(p) /\ Go(p, NoRequest)
  BY <1>2, <1>5, NothingInFlight, QuietTypes DEF LoadOrg, life, fediverse, directory
<1>6. CASE LoadOrg(p) /\ org.enabled
           /\ Go(p, [op |-> "post", kind |-> req[p].kind, key |-> org.key, to |-> None])
  <2> DEFINE r == [op |-> "post", kind |-> req[p].kind, key |-> org.key, to |-> None]
  <2>1. req[p].kind \in Kinds
    BY <1>1, <1>6 DEF LoadOrg, Filled, Kinds
  <2>2. req[p].kind # "reply"
    BY <1>1, <1>6 DEF LoadOrg, Filled
  <2>3. Filled(r, posts, keys, org.key, request.id)
    BY <1>6, <2>1, <2>2, OrgIs DEF Filled, Signing
  <2>4. Go(p, r)
    BY <1>6
  <2> HIDE DEF r
  <2> QED
    BY <1>2, <1>6, <2>3, <2>4, QuietTypes DEF LoadOrg, life, fediverse, directory
<1> QED
  BY <1>3, <1>4, <1>5, <1>6 DEF LoadOrg, Free

LEMMA OtherTypes ==
    ASSUME PublishingTypeInv,
           \/ \E t \in tasks : Deliver(t)
           \/ \E a \in Actors : Unfollow(a) \/ ReceiveReply(a)
           \/ DeleteSession \/ ClearKey \/ Decide
    PROVE  PublishingTypeInv'
<1>1. AllFilled(req, posts, keys, org.key, request.id) /\ twice \in BOOLEAN
  BY DEF PublishingTypeInv
<1>2. request \in [id : Nat, stage : Stages, ours : BOOLEAN]
  BY DEF PublishingTypeInv
<1>3. ASSUME NEW t \in tasks, Deliver(t) PROVE PublishingTypeInv'
  <2>1. twice' \in BOOLEAN
    <3> DEFINE c == t.post # None /\ \E m \in got : m.post = t.post /\ m.to = t.to
    <3>1. c \in BOOLEAN /\ (twice' = twice \/ twice' = (twice \/ c))
      BY <1>3 DEF Deliver
    <3> HIDE DEF c
    <3> QED
      BY <1>1, <3>1
  <2>2. tasks' \subseteq tasks
    BY <1>3 DEF Deliver
  <2>3. \A m \in got' : m.key \in 1 .. keys
    BY <1>3 DEF Deliver, PublishingTypeInv, PublishingTypeOK
  <2> QED
    BY <1>1, <1>3, <2>1, <2>2, <2>3 DEF Deliver, PublishingTypeInv, PublishingTypeOK, life, directory
<1>4. ASSUME NEW a \in Actors, Unfollow(a) PROVE PublishingTypeInv'
  BY <1>1, <1>4 DEF Unfollow, PublishingTypeInv, PublishingTypeOK, life, directory
<1>5. ASSUME NEW a \in Actors, ReceiveReply(a) PROVE PublishingTypeInv'
  BY <1>1, <1>5 DEF ReceiveReply, PublishingTypeInv, PublishingTypeOK, life, directory
<1>6. CASE DeleteSession
  BY <1>1, <1>6 DEF DeleteSession, PublishingTypeInv, PublishingTypeOK, fediverse, directory
<1>7. CASE ClearKey
  <2>1. request' \in [id : Nat, stage : Stages, ours : BOOLEAN]
        /\ request'.id = request.id /\ request'.stage = request.stage
    BY <1>2, <1>7 DEF ClearKey
  <2> QED
    BY <1>1, <1>7, <2>1 DEF ClearKey, PublishingTypeInv, PublishingTypeOK, life, fediverse
<1>8. CASE Decide
  <2>1. request' \in [id : Nat, stage : Stages, ours : BOOLEAN]
        /\ request'.id = request.id /\ request'.stage \in {"approved", "rejected"}
    BY <1>2, <1>8 DEF Decide, Stages
  <2> QED
    BY <1>1, <1>8, <2>1 DEF Decide, PublishingTypeInv, PublishingTypeOK, life, fediverse
<1> QED
  BY <1>3, <1>4, <1>5, <1>6, <1>7, <1>8

LEMMA PublishingTypeStep ==
    ASSUME PublishingTypeInv, [PublishingNext]_publishingVars
    PROVE  PublishingTypeInv'
<1>1. CASE UNCHANGED publishingVars
  BY <1>1 DEF publishingVars, life, fediverse, directory, PublishingTypeInv, PublishingTypeOK
<1>2. ASSUME NEW p \in Slots, AskAbout(p) PROVE PublishingTypeInv'
  BY <1>2, AskTypes
<1>3. ASSUME NEW p \in Slots, CommitEnd(p) \/ PushStats(p) \/ LoadOrg(p) PROVE PublishingTypeInv'
  BY <1>3, ReadTypes
<1>4. ASSUME NEW p \in Slots, CommitPost(p) PROVE PublishingTypeInv'
  BY <1>4, CommitPostTypes
<1>5. ASSUME NEW p \in Slots, ResolveTargets(p) \/ CommitFollow(p) \/ CommitLike(p)
      PROVE  PublishingTypeInv'
  BY <1>5, QueuedTypes
<1>6. ASSUME NEW p \in Slots, CommitToggle(p) PROVE PublishingTypeInv'
  BY <1>6, ToggleTypes
<1>7. ASSUME NEW p \in Slots, StoreToken(p) \/ CommitAnswer(p) PROVE PublishingTypeInv'
  BY <1>7, AnswerTypes
<1>8. ASSUME NEW p \in Slots, AskDirectory(p) PROVE PublishingTypeInv'
  BY <1>8, DirectoryTypes
<1>9. ASSUME NEW p \in Slots, Fail(p) PROVE PublishingTypeInv'
  BY <1>9, FailTypes
<1>10. CASE Restart
  BY <1>10, RestartTypes
<1>11. CASE \/ \E t \in tasks : Deliver(t)
            \/ \E a \in Actors : Unfollow(a) \/ ReceiveReply(a)
            \/ DeleteSession \/ ClearKey \/ Decide
  BY <1>11, OtherTypes
<1> QED
  BY <1>1, <1>2, <1>3, <1>4, <1>5, <1>6, <1>7, <1>8, <1>9, <1>10, <1>11 DEF PublishingNext, AtOnce

LEMMA PublishingTypeInit == PublishingInit => PublishingTypeInv
<1> SUFFICES ASSUME PublishingInit PROVE PublishingTypeInv
  OBVIOUS
<1>1. AllFilled(req, posts, keys, org.key, request.id)
  BY NothingInFlight DEF PublishingInit, AllFilled
<1>2. posts \in Seq(Kinds) /\ DOMAIN posts = {}
  BY DEF PublishingInit
<1>3. request \in [id : Nat, stage : Stages, ours : BOOLEAN] /\ request.id = 0 /\ request.stage = "none"
  BY DEF PublishingInit, Stages
<1>4. org \in [enabled : BOOLEAN, key : Nat] /\ ~org.enabled /\ org.key = 0 /\ keys = 0
  BY DEF PublishingInit
<1>5. PublishingTypeOK
  <2>1. /\ session \in {None, "open", "ended", "deleted"} /\ tasks = {}
        /\ token \in 1 .. request.id \cup {None} /\ apiKey \in BOOLEAN
    BY DEF PublishingInit
  <2>2. followers \in [Actors -> Inboxes \cup {None}] /\ replies \in [Actors -> {None, "kept", "liked"}]
    BY DEF PublishingInit
  <2>3. org.enabled \in BOOLEAN /\ org.key \in 0 .. keys /\ (org.enabled => org.key # 0)
    BY <1>4
  <2>4. \A n \in DOMAIN posts : posts[n] \in {"start", "end", "manual", "reply"}
    BY <1>2
  <2> QED
    BY <1>3, <2>1, <2>2, <2>3, <2>4 DEF PublishingTypeOK
<1>6. stats \in Nat /\ keys \in Nat /\ twice \in BOOLEAN /\ likes \in [Actors -> Nat] /\ got = {}
  BY DEF PublishingInit
<1> QED
  BY <1>1, <1>2, <1>3, <1>4, <1>5, <1>6 DEF PublishingTypeInv

-----------------------------------------------------------------------------
(* The end of a session.                                                   *)

LEMMA Grows ==
    ASSUME NEW what, NEW condition, Race(what, condition)
    PROVE  raced \subseteq raced' /\ (condition => what \in raced')
BY DEF Race

\* A request that has nothing to do with the end takes a step.
LEMMA EndAside ==
    ASSUME EndInv, PublishingTypeInv', NEW p \in Slots, NEW r, Go(p, r), ~Ending(r),
           UNCHANGED <<life, posts>>, raced \subseteq raced'
    PROVE  EndInv'
<1> SUFFICES ASSUME "end" \notin raced' PROVE EndOrder'
  BY DEF EndInv
<1>1. EndOrder
  BY DEF EndInv
<1>2. \A q \in Slots : req'[q] = IF q = p THEN r ELSE req[q]
  BY Went DEF EndInv
<1>3. r.op \notin {"end", "push"} /\ ~Pushed(r)
  BY DEF Ending, Pushed
<1>4. EndPosts' = EndPosts
  BY DEF EndPosts
<1> QED
  BY <1>1, <1>2, <1>3, <1>4 DEF EndOrder, life

\* Nothing is in flight that was not, and nothing is recorded.
LEMMA EndRests ==
    ASSUME EndInv, PublishingTypeInv', UNCHANGED <<stats, posts, raced>>,
           session' = session \/ session' = "deleted",
           \A q \in Slots : req'[q] = req[q] \/ req'[q] = NoRequest
    PROVE  EndInv'
<1> SUFFICES ASSUME "end" \notin raced' PROVE EndOrder'
  BY DEF EndInv
<1>1. EndOrder
  BY DEF EndInv
<1>2. \A q \in Slots : Ending(req'[q]) => req'[q] = req[q]
  BY DEF Ending, Pushed, NoRequest
<1>3. \A q \in Slots : req'[q].op \in {"end", "push"} \/ Pushed(req'[q]) => req'[q] = req[q]
  BY DEF Pushed, NoRequest
<1>4. EndPosts' = EndPosts
  BY DEF EndPosts
<1>5. session' \in {None, "open"} => session \in {None, "open"}
  BY PublishingAssumption
<1> QED
  BY <1>1, <1>2, <1>3, <1>4, <1>5 DEF EndOrder

LEMMA EndAsked ==
    ASSUME EndInv, PublishingTypeInv', NEW p \in Slots, req[p] = NoRequest, AskAbout(p)
    PROVE  EndInv'
<1>1. CASE StartSession(p) /\ UNCHANGED <<fediverse, directory>>
  <2> SUFFICES ASSUME "end" \notin raced' PROVE EndOrder'
    BY DEF EndInv
  <2>1. EndOrder /\ session = None /\ session' = "open" /\ stats' = stats
    BY <1>1 DEF EndInv, StartSession
  <2>2. \A q \in Slots : req'[q] = IF q = p THEN [op |-> "load", kind |-> "start"] ELSE req[q]
    BY <1>1, Went DEF EndInv, StartSession
  <2>3. ~Ending([op |-> "load", kind |-> "start"]) /\ ~Pushed([op |-> "load", kind |-> "start"])
    BY DEF Ending, Pushed
  <2>4. EndPosts' = EndPosts
    BY <1>1 DEF EndPosts, fediverse
  <2> QED
    BY <2>1, <2>2, <2>3, <2>4 DEF EndOrder
<1>2. CASE LoadEnd(p) /\ UNCHANGED <<fediverse, directory>>
  <2> SUFFICES ASSUME "end" \notin raced' PROVE EndOrder'
    BY DEF EndInv
  <2> DEFINE r == [op |-> "end"]
  <2>1. EndOrder /\ session = "open" /\ session' = session /\ stats' = stats
    BY <1>2, Grows DEF EndInv, LoadEnd, life
  <2>2. \A q \in Slots : req'[q] = IF q = p THEN r ELSE req[q]
    BY <1>2, Went DEF EndInv, LoadEnd
  <2>3. r.op = "end" /\ ~Pushed(r)
    BY DEF Pushed
  <2> HIDE DEF r
  <2>4. EndPosts' = EndPosts
    BY <1>2 DEF EndPosts, fediverse
  <2>5. \A q \in Slots \ {p} : ~Ending(req[q])
    <3>1. ~Others(p, {"end"})
      BY <1>2, Grows DEF LoadEnd
    <3> QED
      BY <2>1, <3>1 DEF Others, Ending, EndOrder
  <2>6. stats = 0 /\ EndPosts = {} /\ \A q \in Slots : ~Pushed(req[q])
    BY <2>1 DEF EndOrder
  <2>7. \A q \in Slots : Ending(req'[q]) => q = p
    BY <2>2, <2>5
  <2>8. \A q \in Slots : ~Pushed(req'[q])
    BY <2>2, <2>3, <2>6
  <2> QED
    BY <2>1, <2>4, <2>6, <2>7, <2>8 DEF EndOrder
<1>3. ASSUME NEW a \in Actors \cup {None}, Compose(p, a), UNCHANGED <<life, directory>>
      PROVE  EndInv'
  <2> DEFINE r == [op |-> "post", kind |-> IF a = None THEN "manual" ELSE "reply",
                   key |-> org.key, to |-> a]
  <2>1. Go(p, r) /\ ~Ending(r)
    BY <1>3 DEF Compose, Ending, Pushed
  <2> HIDE DEF r
  <2> QED
    BY <1>3, <2>1, EndAside DEF Compose, fediverse
<1>4. ASSUME NEW a \in Actors, LoadLike(p, a), UNCHANGED <<life, directory>> PROVE EndInv'
  <2>1. ~Ending([op |-> "like", to |-> a, key |-> org.key])
    BY DEF Ending, Pushed
  <2> QED
    BY <1>4, <2>1, Grows, EndAside DEF LoadLike, fediverse
<1>5. ASSUME NEW on \in BOOLEAN, LoadToggle(p, on), UNCHANGED <<life, directory>> PROVE EndInv'
  <2>1. ~Ending([op |-> "toggle", on |-> on, seen |-> org])
    BY DEF Ending, Pushed
  <2> QED
    BY <1>5, <2>1, EndAside DEF LoadToggle, fediverse
<1>6. ASSUME NEW a \in Actors, NEW to \in Inboxes, LoadFollow(p, a, to), UNCHANGED <<life, directory>>
      PROVE  EndInv'
  <2>1. ~Ending([op |-> "follow", by |-> a, to |-> to, key |-> org.key, seen |-> followers[a]])
    BY DEF Ending, Pushed
  <2> QED
    BY <1>6, <2>1, EndAside DEF LoadFollow, fediverse
<1>7. CASE RequestKey(p) /\ UNCHANGED <<life, fediverse, raced>>
  <2>1. ~Ending([op |-> "store", token |-> request.id + 1])
    BY DEF Ending, Pushed
  <2> QED
    BY <1>7, <2>1, EndAside DEF RequestKey, fediverse
<1>8. CASE Poll(p) /\ UNCHANGED <<life, fediverse, raced>>
  <2>1. ~Ending([op |-> "poll", token |-> token])
    BY DEF Ending, Pushed
  <2> QED
    BY <1>8, <2>1, EndAside DEF Poll, fediverse
<1> QED
  BY <1>1, <1>2, <1>3, <1>4, <1>5, <1>6, <1>7, <1>8 DEF AskAbout

LEMMA EndCommitted ==
    ASSUME EndInv, PublishingTypeInv', NEW p \in Slots,
           CommitEnd(p) \/ PushStats(p) \/ LoadOrg(p) \/ CommitPost(p)
    PROVE  EndInv'
<1> SUFFICES ASSUME "end" \notin raced' PROVE EndOrder'
  BY DEF EndInv
<1>1. EndOrder /\ PublishingTypeInv
  BY DEF EndInv, CommitEnd, PushStats, LoadOrg, CommitPost
<1>2. CASE CommitEnd(p)
  <2>1. session' = "ended" /\ stats' = stats /\ EndPosts' = EndPosts
    BY <1>2 DEF CommitEnd, fediverse, EndPosts
  <2>2. \A q \in Slots : req'[q] = IF q = p THEN [op |-> "push"] ELSE req[q]
    BY <1>1, <1>2, Went DEF CommitEnd
  <2>3. Ending(req[p]) /\ req[p].op = "end"
    BY <1>2 DEF CommitEnd, Ending
  <2>4. \A q \in Slots : Ending(req'[q]) => Ending(req[q])
    BY <2>2, <2>3
  <2>5. session' \notin {None, "open"}
    BY <2>1, PublishingAssumption
  <2>6. \A q \in Slots : req'[q].op \in {"end", "push"} => req[q].op \in {"end", "push"}
    BY <2>2, <2>3
  <2> QED
    BY <1>1, <2>1, <2>4, <2>5, <2>6 DEF EndOrder
<1>3. CASE PushStats(p)
  <2>1. session' = session /\ stats' \in {stats, stats + 1} /\ EndPosts' = EndPosts
    BY <1>3 DEF PushStats, fediverse, EndPosts
  <2> DEFINE r == [op |-> "load", kind |-> "end"]
  <2>2. \A q \in Slots : req'[q] = IF q = p THEN r ELSE req[q]
    BY <1>1, <1>3, Went DEF PushStats
  <2>3. req[p].op = "push" /\ Pushed(req[p]) /\ Ending(req[p])
    BY <1>3 DEF PushStats, Ending, Pushed
  <2>4. r.op \notin {"end", "push"}
    OBVIOUS
  <2> HIDE DEF r
  <2>5. \A q \in Slots : Ending(req'[q]) => Ending(req[q])
    BY <2>2, <2>3
  <2>6. session \notin {None, "open"} /\ stats = 0
    BY <1>1, <2>3 DEF EndOrder
  <2>7. \A q \in Slots : req'[q].op \notin {"end", "push"}
    BY <1>1, <2>2, <2>3, <2>4 DEF EndOrder, Ending, Pushed
  <2> QED
    BY <1>1, <2>1, <2>5, <2>6, <2>7 DEF EndOrder
<1>4. CASE LoadOrg(p)
  <2>1. session' = session /\ stats' = stats /\ EndPosts' = EndPosts
    BY <1>4 DEF LoadOrg, life, fediverse, EndPosts
  <2>2. PICK r : Go(p, r) /\ r.op \notin {"end", "push"} /\ (Pushed(r) => Pushed(req[p]))
    <3>1. CASE Free(p)
      <4>1. NoRequest.op \notin {"end", "push"} /\ ~Pushed(NoRequest)
        BY DEF NoRequest, Pushed
      <4> QED
        BY <3>1, <4>1 DEF Free
    <3>2. CASE Go(p, [op |-> "post", kind |-> req[p].kind, key |-> org.key, to |-> None])
      <4> DEFINE r == [op |-> "post", kind |-> req[p].kind, key |-> org.key, to |-> None]
      <4>1. r.op \notin {"end", "push"} /\ (Pushed(r) => Pushed(req[p])) /\ Go(p, r)
        BY <1>4, <3>2 DEF Pushed, LoadOrg
      <4> QED
        BY <4>1
    <3> QED
      BY <1>4, <3>1, <3>2 DEF LoadOrg
  <2>3. \A q \in Slots : req'[q] = IF q = p THEN r ELSE req[q]
    BY <1>1, <2>2, Went
  <2>4. \A q \in Slots : /\ Pushed(req'[q]) => Pushed(req[q])
                         /\ Ending(req'[q]) => Ending(req[q])
                         /\ req'[q].op \in {"end", "push"} => req[q].op \in {"end", "push"}
    BY <2>2, <2>3 DEF Ending
  <2> QED
    BY <1>1, <2>1, <2>4 DEF EndOrder
<1>5. CASE CommitPost(p)
  <2>1. session' = session /\ stats' = stats
    BY <1>5 DEF CommitPost, life
  <2>2. req[p].kind \in Kinds /\ posts' = Append(posts, req[p].kind)
    BY <1>1, <1>5, FilledAt DEF CommitPost, Filled
  <2>3. /\ DOMAIN posts' = DOMAIN posts \cup {Len(posts')}
        /\ \A n \in DOMAIN posts : posts'[n] = posts[n]
        /\ posts'[Len(posts')] = req[p].kind
    BY <1>1, <2>2, PostAdded
  <2> DEFINE r == [op |-> "targets", post |-> Len(posts'), key |-> req[p].key, to |-> req[p].to]
  <2>4. \A q \in Slots : req'[q] = IF q = p THEN r ELSE req[q]
    BY <1>1, <1>5, Went DEF CommitPost
  <2>5. ~Ending(r) /\ ~Pushed(r) /\ r.op \notin {"end", "push"}
    BY DEF Ending, Pushed
  <2> HIDE DEF r
  <2>6. \A q \in Slots : /\ Pushed(req'[q]) => Pushed(req[q])
                         /\ Ending(req'[q]) => Ending(req[q]) /\ q # p
                         /\ req'[q].op \in {"end", "push"} => req[q].op \in {"end", "push"}
    BY <2>4, <2>5
  <2>7. CASE req[p].kind # "end"
    <3>1. EndPosts' = EndPosts
      BY <2>3, <2>7 DEF EndPosts
    <3> QED
      BY <1>1, <2>1, <2>6, <3>1 DEF EndOrder
  <2>8. CASE req[p].kind = "end"
    <3>1. Pushed(req[p]) /\ Ending(req[p])
      BY <1>5, <2>8 DEF CommitPost, Pushed, Ending
    <3>2. EndPosts = {} /\ session \notin {None, "open"} /\ stats <= 1
      BY <1>1, <3>1 DEF EndOrder
    <3>3. EndPosts' = {Len(posts')}
      BY <2>3, <2>8, <3>2 DEF EndPosts
    <3>4. \A q \in Slots : ~Ending(req'[q])
      BY <1>1, <2>6, <3>1 DEF EndOrder
    <3>5. \A q \in Slots : req'[q].op \notin {"end", "push"}
      BY <3>4 DEF Ending, Pushed
    <3> QED
      BY <2>1, <3>2, <3>3, <3>4, <3>5 DEF EndOrder
  <2> QED
    BY <2>7, <2>8
<1> QED
  BY <1>2, <1>3, <1>4, <1>5

\* The other steps of requests say nothing of the session, nor record a post.
LEMMA OtherSteps ==
    ASSUME NEW p \in Slots,
           \/ ResolveTargets(p) \/ CommitToggle(p) \/ CommitFollow(p) \/ CommitLike(p)
           \/ StoreToken(p) \/ CommitAnswer(p) \/ Fail(p)
    PROVE  Go(p, NoRequest) /\ UNCHANGED <<life, posts>> /\ raced \subseteq raced'
<1>1. CASE CommitToggle(p)
  BY <1>1, Grows DEF CommitToggle, Switched, Free
<1> QED
  BY <1>1 DEF ResolveTargets, Queued, CommitFollow, CommitLike, StoreToken, CommitAnswer, Fail, Free, fediverse

LEMMA EndStep ==
    ASSUME EndInv, [PublishingNext]_publishingVars
    PROVE  EndInv'
<1>1. PublishingTypeInv /\ PublishingTypeInv'
  BY PublishingTypeStep DEF EndInv
<1>2. CASE UNCHANGED publishingVars
  BY <1>1, <1>2, EndRests DEF publishingVars, life, fediverse
<1>3. ASSUME NEW p \in Slots, req[p] = NoRequest, AskAbout(p) PROVE EndInv'
  BY <1>1, <1>3, EndAsked
<1>4. ASSUME NEW p \in Slots, CommitEnd(p) \/ PushStats(p) \/ LoadOrg(p) \/ CommitPost(p) PROVE EndInv'
  BY <1>1, <1>4, EndCommitted
<1>5. ASSUME NEW p \in Slots,
             \/ ResolveTargets(p) \/ CommitToggle(p) \/ CommitFollow(p) \/ CommitLike(p)
             \/ StoreToken(p) \/ CommitAnswer(p) \/ Fail(p)
      PROVE  EndInv'
  <2>1. ~Ending(NoRequest)
    BY DEF Ending, Pushed, NoRequest
  <2> QED
    BY <1>1, <1>5, <2>1, OtherSteps, EndAside
<1>6. ASSUME NEW p \in Slots, AskDirectory(p) PROVE EndInv'
  <2>1. PICK r : Go(p, r) /\ r.op = "answer"
    BY <1>6 DEF AskDirectory
  <2>2. ~Ending(r)
    BY <2>1 DEF Ending, Pushed
  <2> QED
    BY <1>1, <1>6, <2>1, <2>2, EndAside DEF AskDirectory, fediverse
<1>7. ASSUME NEW t \in tasks, Deliver(t) PROVE EndInv'
  BY <1>1, <1>7, EndRests DEF Deliver, life
<1>8. ASSUME NEW a \in Actors, Unfollow(a) \/ ReceiveReply(a) PROVE EndInv'
  BY <1>1, <1>8, EndRests DEF Unfollow, ReceiveReply, life
<1>9. CASE DeleteSession \/ ClearKey \/ Decide
  BY <1>1, <1>9, EndRests DEF DeleteSession, ClearKey, Decide, life, fediverse
<1>10. CASE Restart
  <2>1. \A q \in Slots : req'[q] = NoRequest
    BY <1>10 DEF Restart
  <2> QED
    BY <1>1, <1>10, <2>1, EndRests DEF Restart, life
<1> QED
  BY <1>2, <1>3, <1>4, <1>5, <1>6, <1>7, <1>8, <1>9, <1>10 DEF PublishingNext, AtOnce

-----------------------------------------------------------------------------
(* Replies that are liked.                                                 *)

\* A request that likes nothing takes a step.
LEMMA LikeAside ==
    ASSUME LikeInv, PublishingTypeInv', NEW p \in Slots, NEW r, Go(p, r), r.op # "like",
           UNCHANGED <<replies, likes>>, raced \subseteq raced'
    PROVE  LikeInv'
<1> SUFFICES ASSUME "like" \notin raced' PROVE LikeOrder'
  BY DEF LikeInv
<1>1. LikeOrder
  BY DEF LikeInv
<1>2. \A q \in Slots : req'[q] = IF q = p THEN r ELSE req[q]
  BY Went DEF LikeInv
<1>3. \A q \in Slots : req'[q].op = "like" => req'[q] = req[q]
  BY <1>2
<1> QED
  BY <1>1, <1>3 DEF LikeOrder

LEMMA LikeRests ==
    ASSUME LikeInv, PublishingTypeInv', UNCHANGED likes, raced \subseteq raced',
           \A a \in Actors : replies'[a] = replies[a] \/ (replies[a] = None /\ replies'[a] = "kept"),
           \A q \in Slots : req'[q] = req[q] \/ req'[q] = NoRequest
    PROVE  LikeInv'
<1> SUFFICES ASSUME "like" \notin raced' PROVE LikeOrder'
  BY DEF LikeInv
<1>1. LikeOrder
  BY DEF LikeInv
<1>2. \A q \in Slots : req'[q].op = "like" => req'[q] = req[q] /\ req[q].op = "like"
  BY DEF NoRequest
<1>3. \A q \in Slots : req[q].op = "like" => req[q].to \in Actors
  BY FilledAt DEF LikeInv, Filled
<1>4. \A a \in Actors : replies[a] # "liked" => likes[a] = 0
  BY <1>1 DEF LikeOrder
<1>5. None # "kept" /\ None # "liked"
  BY PublishingAssumption
<1>6. \A a \in Actors : likes'[a] <= 1 /\ (replies'[a] # "liked" => likes'[a] = 0)
  BY <1>1, <1>4, <1>5 DEF LikeOrder
<1>7. \A q \in Slots : req'[q].op = "like" => likes'[req'[q].to] = 0 /\ replies'[req'[q].to] = "kept"
  BY <1>1, <1>2, <1>3, <1>5 DEF LikeOrder
<1>8. \A q, s \in Slots : req'[q].op = "like" /\ req'[s].op = "like" /\ req'[q].to = req'[s].to => q = s
  BY <1>1, <1>2 DEF LikeOrder
<1> QED
  BY <1>6, <1>7, <1>8 DEF LikeOrder

LEMMA LikeAsked ==
    ASSUME LikeInv, PublishingTypeInv', NEW p \in Slots, req[p] = NoRequest, AskAbout(p)
    PROVE  LikeInv'
<1>1. CASE StartSession(p) /\ UNCHANGED <<fediverse, directory>>
  <2>1. Go(p, [op |-> "load", kind |-> "start"]) /\ raced' = raced
    BY <1>1 DEF StartSession
  <2> QED
    BY <1>1, <2>1, LikeAside DEF fediverse
<1>2. CASE LoadEnd(p) /\ UNCHANGED <<fediverse, directory>>
  <2>1. Go(p, [op |-> "end"]) /\ raced \subseteq raced'
    BY <1>2, Grows DEF LoadEnd
  <2> QED
    BY <1>2, <2>1, LikeAside DEF fediverse
<1>3. ASSUME NEW a \in Actors \cup {None}, Compose(p, a) PROVE LikeInv'
  <2> DEFINE r == [op |-> "post", kind |-> IF a = None THEN "manual" ELSE "reply",
                   key |-> org.key, to |-> a]
  <2>1. Go(p, r) /\ r.op # "like"
    BY <1>3 DEF Compose
  <2> HIDE DEF r
  <2> QED
    BY <1>3, <2>1, LikeAside DEF Compose, fediverse
<1>4. ASSUME NEW a \in Actors, LoadLike(p, a) PROVE LikeInv'
  <2> SUFFICES ASSUME "like" \notin raced' PROVE LikeOrder'
    BY DEF LikeInv
  <2>1. Race("like", Liking(p, a)) /\ replies[a] = "kept" /\ UNCHANGED <<replies, likes>>
    BY <1>4 DEF LoadLike, fediverse
  <2>2. LikeOrder /\ ~Liking(p, a)
    BY <2>1, Grows DEF LikeInv
  <2> DEFINE r == [op |-> "like", to |-> a, key |-> org.key]
  <2>3. \A q \in Slots : req'[q] = IF q = p THEN r ELSE req[q]
    BY <1>4, Went DEF LikeInv, LoadLike
  <2>4. r.to = a /\ r.op = "like"
    OBVIOUS
  <2> HIDE DEF r
  <2>5. \A q \in Slots \ {p} : req[q].op = "like" => req[q].to # a
    BY <2>2 DEF Liking
  <2>6. likes[a] = 0
    BY <2>1, <2>2 DEF LikeOrder
  <2>7. \A q, s \in Slots : req'[q].op = "like" /\ req'[s].op = "like" /\ req'[q].to = req'[s].to => q = s
    BY <2>2, <2>3, <2>4, <2>5 DEF LikeOrder
  <2>8. \A q \in Slots : req'[q].op = "like" => likes[req'[q].to] = 0 /\ replies[req'[q].to] = "kept"
    BY <2>1, <2>2, <2>3, <2>4, <2>6 DEF LikeOrder
  <2> QED
    BY <2>1, <2>2, <2>7, <2>8 DEF LikeOrder
<1>5. ASSUME NEW on \in BOOLEAN, LoadToggle(p, on) PROVE LikeInv'
  <2>1. Go(p, [op |-> "toggle", on |-> on, seen |-> org])
    BY <1>5 DEF LoadToggle
  <2> QED
    BY <1>5, <2>1, LikeAside DEF LoadToggle, fediverse
<1>6. ASSUME NEW a \in Actors, NEW to \in Inboxes, LoadFollow(p, a, to) PROVE LikeInv'
  <2>1. Go(p, [op |-> "follow", by |-> a, to |-> to, key |-> org.key, seen |-> followers[a]])
    BY <1>6 DEF LoadFollow
  <2> QED
    BY <1>6, <2>1, LikeAside DEF LoadFollow, fediverse
<1>7. CASE RequestKey(p) /\ UNCHANGED <<life, fediverse, raced>>
  <2>1. Go(p, [op |-> "store", token |-> request.id + 1])
    BY <1>7 DEF RequestKey
  <2> QED
    BY <1>7, <2>1, LikeAside DEF fediverse
<1>8. CASE Poll(p) /\ UNCHANGED <<life, fediverse, raced>>
  <2>1. Go(p, [op |-> "poll", token |-> token])
    BY <1>8 DEF Poll
  <2> QED
    BY <1>8, <2>1, LikeAside DEF fediverse
<1> QED
  BY <1>1, <1>2, <1>3, <1>4, <1>5, <1>6, <1>7, <1>8 DEF AskAbout

\* The steps after which a request has more to do.
LEMMA GoesOn ==
    ASSUME NEW p \in Slots, CommitEnd(p) \/ PushStats(p) \/ LoadOrg(p) \/ CommitPost(p) \/ AskDirectory(p)
    PROVE  /\ \E r : Go(p, r) /\ r.op \notin {"like", "follow", "toggle", "store", "poll"}
           /\ UNCHANGED <<org, keys, followers, replies, got, twice, likes, tasks, raced>>
<1>1. CASE CommitEnd(p)
  <2>1. Go(p, [op |-> "push"])
    BY <1>1 DEF CommitEnd
  <2> QED
    BY <1>1, <2>1 DEF CommitEnd, fediverse
<1>2. CASE PushStats(p)
  <2>1. Go(p, [op |-> "load", kind |-> "end"])
    BY <1>2 DEF PushStats
  <2> QED
    BY <1>2, <2>1 DEF PushStats, fediverse
<1>3. CASE LoadOrg(p)
  <2>1. CASE Free(p)
    BY <1>3, <2>1 DEF LoadOrg, Free, NoRequest, fediverse
  <2>2. CASE Go(p, [op |-> "post", kind |-> req[p].kind, key |-> org.key, to |-> None])
    BY <1>3, <2>2 DEF LoadOrg, fediverse
  <2> QED
    BY <1>3, <2>1, <2>2 DEF LoadOrg
<1>4. CASE CommitPost(p)
  <2>1. Go(p, [op |-> "targets", post |-> Len(posts'), key |-> req[p].key, to |-> req[p].to])
    BY <1>4 DEF CommitPost
  <2> QED
    BY <1>4, <2>1 DEF CommitPost
<1>5. CASE AskDirectory(p)
  <2>1. \E r : Go(p, r) /\ r.op = "answer"
    BY <1>5 DEF AskDirectory
  <2> QED
    BY <1>5, <2>1 DEF AskDirectory, fediverse
<1> QED
  BY <1>1, <1>2, <1>3, <1>4, <1>5

LEMMA LikeStep ==
    ASSUME LikeInv, [PublishingNext]_publishingVars
    PROVE  LikeInv'
<1>1. PublishingTypeInv /\ PublishingTypeInv'
  BY PublishingTypeStep DEF LikeInv
<1>2. CASE UNCHANGED publishingVars
  BY <1>1, <1>2, LikeRests DEF publishingVars, fediverse
<1>3. ASSUME NEW p \in Slots, req[p] = NoRequest, AskAbout(p) PROVE LikeInv'
  BY <1>1, <1>3, LikeAsked
<1>4. ASSUME NEW p \in Slots,
             CommitEnd(p) \/ PushStats(p) \/ LoadOrg(p) \/ CommitPost(p) \/ AskDirectory(p)
      PROVE  LikeInv'
  <2>1. UNCHANGED <<replies, likes>> /\ raced \subseteq raced'
    BY <1>4, GoesOn
  <2>2. PICK r : Go(p, r) /\ r.op # "like"
    BY <1>4, GoesOn
  <2> QED
    BY <1>1, <2>1, <2>2, LikeAside
<1>5. ASSUME NEW p \in Slots, ResolveTargets(p) \/ CommitToggle(p) \/ CommitFollow(p)
                              \/ StoreToken(p) \/ CommitAnswer(p) \/ Fail(p)
      PROVE  LikeInv'
  <2>1. UNCHANGED <<replies, likes>>
    BY <1>5 DEF ResolveTargets, Queued, CommitToggle, Switched, CommitFollow, StoreToken, CommitAnswer,
                Fail, fediverse
  <2>2. NoRequest.op # "like"
    BY DEF NoRequest
  <2> QED
    BY <1>1, <1>5, <2>1, <2>2, OtherSteps, LikeAside
<1>6. ASSUME NEW p \in Slots, CommitLike(p) PROVE LikeInv'
  <2> SUFFICES ASSUME "like" \notin raced' PROVE LikeOrder'
    BY <1>1 DEF LikeInv
  <2> DEFINE a == req[p].to
  <2>1. LikeOrder /\ req[p].op = "like"
    BY <1>6 DEF LikeInv, CommitLike
  <2>2. /\ a \in Actors /\ replies' = [replies EXCEPT ![a] = "liked"]
        /\ likes' = [likes EXCEPT ![a] = @ + 1]
    BY <1>1, <1>6, FilledAt DEF CommitLike, Filled
  <2>3. \A q \in Slots : req'[q] = IF q = p THEN NoRequest ELSE req[q]
    BY <1>1, <1>6, Went DEF CommitLike, Free
  <2>4. \A q \in Slots : req'[q].op = "like" => /\ q # p /\ req'[q] = req[q] /\ req[q].op = "like"
                                               /\ req[q].to # a
    <3>1. NoRequest.op # "like"
      BY DEF NoRequest
    <3> QED
      BY <2>1, <2>3, <3>1 DEF LikeOrder
  <2>5. likes[a] = 0
    BY <2>1 DEF LikeOrder
  <2> HIDE DEF a
  <2>6. /\ \A b \in Actors : likes'[b] = IF b = a THEN likes[b] + 1 ELSE likes[b]
        /\ \A b \in Actors : replies'[b] = IF b = a THEN "liked" ELSE replies[b]
    BY <1>1, <2>2 DEF PublishingTypeInv, PublishingTypeOK
  <2>7. \A q \in Slots : req[q].op = "like" => req[q].to \in Actors
    BY <1>1, FilledAt DEF Filled
  <2>8. \A q \in Slots : req'[q].op = "like" => likes'[req'[q].to] = 0 /\ replies'[req'[q].to] = "kept"
    BY <2>1, <2>4, <2>6, <2>7 DEF LikeOrder
  <2>9. \A q, s \in Slots : req'[q].op = "like" /\ req'[s].op = "like" /\ req'[q].to = req'[s].to => q = s
    BY <2>1, <2>4 DEF LikeOrder
  <2>10. \A b \in Actors : likes'[b] <= 1 /\ (replies'[b] # "liked" => likes'[b] = 0)
    BY <2>1, <2>5, <2>6 DEF LikeOrder
  <2> QED
    BY <2>8, <2>9, <2>10 DEF LikeOrder
<1>7. ASSUME NEW t \in tasks, Deliver(t) PROVE LikeInv'
  BY <1>1, <1>7, LikeRests DEF Deliver
<1>8. ASSUME NEW a \in Actors, Unfollow(a) PROVE LikeInv'
  BY <1>1, <1>8, LikeRests DEF Unfollow
<1>9. ASSUME NEW a \in Actors, ReceiveReply(a) PROVE LikeInv'
  <2>1. \A b \in Actors : replies'[b] = replies[b] \/ (replies[b] = None /\ replies'[b] = "kept")
    BY <1>1, <1>9 DEF ReceiveReply, PublishingTypeInv, PublishingTypeOK
  <2> QED
    BY <1>1, <1>9, <2>1, LikeRests DEF ReceiveReply
<1>10. CASE DeleteSession \/ ClearKey \/ Decide
  BY <1>1, <1>10, LikeRests DEF DeleteSession, ClearKey, Decide, life, fediverse
<1>11. CASE Restart
  <2>1. \A q \in Slots : req'[q] = NoRequest
    BY <1>11 DEF Restart
  <2> QED
    BY <1>1, <1>11, <2>1, LikeRests DEF Restart
<1> QED
  BY <1>2, <1>3, <1>4, <1>5, <1>6, <1>7, <1>8, <1>9, <1>10, <1>11 DEF PublishingNext, AtOnce

-----------------------------------------------------------------------------
(* The key that things are signed with.                                    *)

\* A request takes a step: what it signs it signs with the actor's key, or goes on with its own.
LEMMA KeyKept ==
    ASSUME KeyInv, PublishingTypeInv', NEW p \in Slots, NEW r, Go(p, r),
           r.op \in Signing => r.key = org.key \/ (req[p].op \in Signing /\ r.key = req[p].key),
           org'.key = org.key, raced \subseteq raced',
           \A m \in got' \cup tasks' : \/ m \in got \cup tasks
                                       \/ req[p].op \in Signing /\ m.key = req[p].key
    PROVE  KeyInv'
<1> SUFFICES ASSUME "key" \notin raced' PROVE KeyOrder'
  BY DEF KeyInv
<1>1. KeyOrder
  BY DEF KeyInv
<1>2. \A q \in Slots : req'[q] = IF q = p THEN r ELSE req[q]
  BY Went DEF KeyInv
<1>3. req[p].op \in Signing => req[p].key = org.key
  BY <1>1 DEF KeyOrder
<1>4. \A m \in got' \cup tasks' : m.key = org.key
  BY <1>1, <1>3 DEF KeyOrder
<1>5. \A q \in Slots : req'[q].op \in Signing => req'[q].key = org.key
  BY <1>1, <1>2, <1>3 DEF KeyOrder
<1> QED
  BY <1>4, <1>5 DEF KeyOrder

LEMMA KeyRests ==
    ASSUME KeyInv, PublishingTypeInv', org'.key = org.key, raced \subseteq raced',
           \A m \in got' \cup tasks' : \E n \in got \cup tasks : m.key = n.key,
           \A q \in Slots : req'[q] = req[q] \/ req'[q] = NoRequest
    PROVE  KeyInv'
<1> SUFFICES ASSUME "key" \notin raced' PROVE KeyOrder'
  BY DEF KeyInv
<1>1. KeyOrder
  BY DEF KeyInv
<1>2. NoRequest.op \notin Signing
  BY DEF NoRequest, Signing
<1>3. \A q \in Slots : req'[q].op \in Signing => req'[q].key = org.key
  BY <1>1, <1>2 DEF KeyOrder
<1>4. \A m \in got' \cup tasks' : m.key = org.key
  BY <1>1 DEF KeyOrder
<1> QED
  BY <1>3, <1>4 DEF KeyOrder

LEMMA KeyAsked ==
    ASSUME KeyInv, PublishingTypeInv', NEW p \in Slots, AskAbout(p)
    PROVE  KeyInv'
<1>1. ASSUME NEW r, Go(p, r), r.op \in Signing => r.key = org.key,
             UNCHANGED <<org, got, tasks>>, raced \subseteq raced'
      PROVE  KeyInv'
  BY <1>1, KeyKept
<1>2. CASE StartSession(p) /\ UNCHANGED <<fediverse, directory>>
  <2>1. Go(p, [op |-> "load", kind |-> "start"]) /\ raced' = raced
    BY <1>2 DEF StartSession
  <2> QED
    BY <1>2, <2>1, <1>1 DEF fediverse, Signing
<1>3. CASE LoadEnd(p) /\ UNCHANGED <<fediverse, directory>>
  <2>1. Go(p, [op |-> "end"]) /\ raced \subseteq raced'
    BY <1>3, Grows DEF LoadEnd
  <2> QED
    BY <1>3, <2>1, <1>1 DEF fediverse, Signing
<1>4. ASSUME NEW a \in Actors \cup {None}, Compose(p, a) PROVE KeyInv'
  <2> DEFINE r == [op |-> "post", kind |-> IF a = None THEN "manual" ELSE "reply",
                   key |-> org.key, to |-> a]
  <2>1. Go(p, r) /\ r.key = org.key
    BY <1>4 DEF Compose
  <2> HIDE DEF r
  <2> QED
    BY <1>4, <2>1, <1>1 DEF Compose, fediverse
<1>5. ASSUME NEW a \in Actors, LoadLike(p, a) PROVE KeyInv'
  <2>1. Go(p, [op |-> "like", to |-> a, key |-> org.key]) /\ raced \subseteq raced'
    BY <1>5, Grows DEF LoadLike
  <2> QED
    BY <1>5, <2>1, <1>1 DEF LoadLike, fediverse
<1>6. ASSUME NEW on \in BOOLEAN, LoadToggle(p, on) PROVE KeyInv'
  <2>1. Go(p, [op |-> "toggle", on |-> on, seen |-> org])
    BY <1>6 DEF LoadToggle
  <2> QED
    BY <1>6, <2>1, <1>1 DEF LoadToggle, fediverse, Signing
<1>7. ASSUME NEW a \in Actors, NEW to \in Inboxes, LoadFollow(p, a, to) PROVE KeyInv'
  <2>1. Go(p, [op |-> "follow", by |-> a, to |-> to, key |-> org.key, seen |-> followers[a]])
    BY <1>7 DEF LoadFollow
  <2> QED
    BY <1>7, <2>1, <1>1 DEF LoadFollow, fediverse
<1>8. CASE RequestKey(p) /\ UNCHANGED <<life, fediverse, raced>>
  <2>1. Go(p, [op |-> "store", token |-> request.id + 1])
    BY <1>8 DEF RequestKey
  <2> QED
    BY <1>8, <2>1, <1>1 DEF fediverse, Signing
<1>9. CASE Poll(p) /\ UNCHANGED <<life, fediverse, raced>>
  <2>1. Go(p, [op |-> "poll", token |-> token])
    BY <1>9 DEF Poll
  <2> QED
    BY <1>9, <2>1, <1>1 DEF fediverse, Signing
<1> QED
  BY <1>2, <1>3, <1>4, <1>5, <1>6, <1>7, <1>8, <1>9 DEF AskAbout

LEMMA KeyCommitted ==
    ASSUME KeyInv, PublishingTypeInv', NEW p \in Slots,
           \/ CommitEnd(p) \/ PushStats(p) \/ LoadOrg(p) \/ CommitPost(p) \/ AskDirectory(p)
           \/ ResolveTargets(p) \/ CommitFollow(p) \/ CommitLike(p)
    PROVE  KeyInv'
<1>1. CASE CommitEnd(p)
  <2>1. Go(p, [op |-> "push"])
    BY <1>1 DEF CommitEnd
  <2> QED
    BY <1>1, <2>1, GoesOn, KeyKept DEF Signing
<1>2. CASE PushStats(p)
  <2>1. Go(p, [op |-> "load", kind |-> "end"])
    BY <1>2 DEF PushStats
  <2> QED
    BY <1>2, <2>1, GoesOn, KeyKept DEF Signing
<1>3. CASE LoadOrg(p)
  <2>1. CASE Free(p)
    BY <1>3, <2>1, GoesOn, KeyKept DEF Free, NoRequest, Signing
  <2>2. CASE Go(p, [op |-> "post", kind |-> req[p].kind, key |-> org.key, to |-> None])
    BY <1>3, <2>2, GoesOn, KeyKept
  <2> QED
    BY <1>3, <2>1, <2>2 DEF LoadOrg
<1>4. CASE CommitPost(p)
  <2>1. Go(p, [op |-> "targets", post |-> Len(posts'), key |-> req[p].key, to |-> req[p].to])
        /\ req[p].op \in Signing
    BY <1>4 DEF CommitPost, Signing
  <2> QED
    BY <1>4, <2>1, GoesOn, KeyKept
<1>5. CASE AskDirectory(p)
  <2>1. PICK r : Go(p, r) /\ r.op = "answer"
    BY <1>5 DEF AskDirectory
  <2> QED
    BY <1>5, <2>1, GoesOn, KeyKept DEF Signing
<1>6. NoRequest.op \notin Signing
  BY DEF NoRequest, Signing
<1>7. CASE ResolveTargets(p)
  <2>1. \A t \in tasks' : t \in tasks \/ t.key = req[p].key
    BY <1>7 DEF ResolveTargets, Delivery
  <2>2. UNCHANGED <<org, got>> /\ req[p].op \in Signing
    BY <1>7 DEF ResolveTargets, Queued, Signing
  <2> QED
    BY <1>6, <1>7, <2>1, <2>2, OtherSteps, KeyKept
<1>8. CASE CommitFollow(p)
  <2>1. \A t \in tasks' : t \in tasks \/ t.key = req[p].key
    BY <1>8 DEF CommitFollow
  <2>2. UNCHANGED <<org, got>> /\ req[p].op \in Signing
    BY <1>8 DEF CommitFollow, Signing
  <2> QED
    BY <1>6, <1>8, <2>1, <2>2, OtherSteps, KeyKept
<1>9. CASE CommitLike(p)
  <2>1. \A t \in tasks' : t \in tasks \/ t.key = req[p].key
    BY <1>9 DEF CommitLike
  <2>2. UNCHANGED <<org, got>> /\ req[p].op \in Signing
    BY <1>9 DEF CommitLike, Signing
  <2> QED
    BY <1>6, <1>9, <2>1, <2>2, OtherSteps, KeyKept
<1> QED
  BY <1>1, <1>2, <1>3, <1>4, <1>5, <1>7, <1>8, <1>9

LEMMA KeySwitched ==
    ASSUME KeyInv, PublishingTypeInv', NEW p \in Slots, CommitToggle(p)
    PROVE  KeyInv'
<1>1. Go(p, NoRequest) /\ raced \subseteq raced'
  BY OtherSteps
<1>2. UNCHANGED <<got, tasks>> /\ NoRequest.op \notin Signing
  BY DEF CommitToggle, Switched, NoRequest, Signing
<1>3. CASE org'.key = org.key
  BY <1>1, <1>2, <1>3, KeyKept
<1>4. CASE org'.key # org.key
  <2> SUFFICES ASSUME "key" \notin raced' PROVE KeyOrder'
    BY DEF KeyInv
  <2>1. KeyOrder /\ PublishingTypeInv
    BY <1>1 DEF KeyInv
  <2>2. org.key = 0
    BY <1>4, <2>1, ToggleTypes
  <2>3. \A m \in got \cup tasks : m.key \in 1 .. keys /\ m.key = org.key
    BY <2>1 DEF KeyOrder, PublishingTypeInv, PublishingTypeOK
  <2>4. got \cup tasks = {}
    BY <2>2, <2>3
  <2>5. \A q \in Slots : req[q].op \notin Signing
    BY <2>1, <2>2, FilledAt DEF Filled, KeyOrder
  <2>6. \A q \in Slots : req'[q] = IF q = p THEN NoRequest ELSE req[q]
    BY <1>1, <2>1, Went
  <2> QED
    BY <1>2, <2>4, <2>5, <2>6 DEF KeyOrder
<1> QED
  BY <1>3, <1>4

LEMMA KeyStep ==
    ASSUME KeyInv, [PublishingNext]_publishingVars
    PROVE  KeyInv'
<1>1. PublishingTypeInv /\ PublishingTypeInv'
  BY PublishingTypeStep DEF KeyInv
<1>2. CASE UNCHANGED publishingVars
  BY <1>1, <1>2, KeyRests DEF publishingVars, fediverse
<1>3. ASSUME NEW p \in Slots, AskAbout(p) PROVE KeyInv'
  BY <1>1, <1>3, KeyAsked
<1>4. ASSUME NEW p \in Slots,
             \/ CommitEnd(p) \/ PushStats(p) \/ LoadOrg(p) \/ CommitPost(p) \/ AskDirectory(p)
             \/ ResolveTargets(p) \/ CommitFollow(p) \/ CommitLike(p)
      PROVE  KeyInv'
  BY <1>1, <1>4, KeyCommitted
<1>5. ASSUME NEW p \in Slots, CommitToggle(p) PROVE KeyInv'
  BY <1>1, <1>5, KeySwitched
<1>6. ASSUME NEW p \in Slots, StoreToken(p) \/ CommitAnswer(p) \/ Fail(p) PROVE KeyInv'
  <2>1. UNCHANGED <<org, got, tasks>>
    BY <1>6 DEF StoreToken, CommitAnswer, Fail, fediverse
  <2>2. NoRequest.op \notin Signing
    BY DEF NoRequest, Signing
  <2> QED
    BY <1>1, <1>6, <2>1, <2>2, OtherSteps, KeyKept
<1>7. ASSUME NEW t \in tasks, Deliver(t) PROVE KeyInv'
  <2>1. \A m \in got' \cup tasks' : m \in got \cup tasks \/ m.key = t.key
    BY <1>7 DEF Deliver
  <2> QED
    BY <1>1, <1>7, <2>1, KeyRests DEF Deliver
<1>8. ASSUME NEW a \in Actors, Unfollow(a) \/ ReceiveReply(a) PROVE KeyInv'
  BY <1>1, <1>8, KeyRests DEF Unfollow, ReceiveReply
<1>9. CASE DeleteSession \/ ClearKey \/ Decide
  BY <1>1, <1>9, KeyRests DEF DeleteSession, ClearKey, Decide, fediverse
<1>10. CASE Restart
  <2>1. \A q \in Slots : req'[q] = NoRequest
    BY <1>10 DEF Restart
  <2> QED
    BY <1>1, <1>10, <2>1, KeyRests DEF Restart
<1> QED
  BY <1>2, <1>3, <1>4, <1>5, <1>6, <1>7, <1>8, <1>9, <1>10 DEF PublishingNext, AtOnce

\* What must happen once happens once, unless two requests did it at the same time, for any
\* number of them.
THEOREM RacesRepeat == PublishingSpec => []OnlyRacesRepeat
<1>1. PublishingInit => EndInv /\ LikeInv /\ KeyInv
  <2> SUFFICES ASSUME PublishingInit PROVE EndInv /\ LikeInv /\ KeyInv
    OBVIOUS
  <2>1. \A p \in Slots : req[p] = NoRequest
    BY DEF PublishingInit
  <2>2. posts = <<>> /\ stats = 0 /\ got = {} /\ tasks = {} /\ EndPosts = {}
    BY DEF PublishingInit, EndPosts
  <2>3. \A a \in Actors : likes[a] = 0
    BY DEF PublishingInit
  <2>4. \A p \in Slots : req[p].op \notin {"like", "end", "push", "load", "post"} \cup Signing
    BY <2>1 DEF NoRequest, Signing
  <2>5. EndOrder /\ LikeOrder /\ KeyOrder
    BY <2>2, <2>3, <2>4 DEF EndOrder, LikeOrder, KeyOrder, Ending, Pushed
  <2> QED
    BY <2>5, PublishingTypeInit DEF EndInv, LikeInv, KeyInv
<1>2. EndInv /\ LikeInv /\ KeyInv => OnlyRacesRepeat
  <2> SUFFICES ASSUME EndInv, LikeInv, KeyInv PROVE OnlyRacesRepeat
    OBVIOUS
  <2>1. EndOrder => Cardinality({n \in DOMAIN posts : posts[n] = "end"}) <= 1
    <3> SUFFICES ASSUME EndOrder PROVE Cardinality(EndPosts) <= 1
      BY DEF EndPosts
    <3>1. CASE EndPosts = {}
      <4>1. Cardinality(EndPosts) = 0
        BY <3>1, FS_EmptySet, Zenon
      <4> QED
        BY <4>1
    <3>2. ASSUME NEW n \in EndPosts PROVE Cardinality(EndPosts) <= 1
      <4>1. EndPosts = {n}
        BY DEF EndOrder
      <4>2. Cardinality(EndPosts) = 1
        BY <4>1, FS_Singleton, Zenon
      <4> QED
        BY <4>2
    <3> QED
      BY <3>1, <3>2
  <2>2. EndOrder => stats <= 1
    BY DEF EndOrder
  <2> QED
    BY <2>1, <2>2 DEF OnlyRacesRepeat, EndInv, LikeInv, KeyInv, LikeOrder, KeyOrder
<1> QED
  BY <1>1, <1>2, EndStep, LikeStep, KeyStep, PTL DEF PublishingSpec

-----------------------------------------------------------------------------
(* Deliveries.                                                             *)

\* A step that neither records a post, nor queues or makes a delivery of one.
LEMMA DeliveryKept ==
    ASSUME DeliveryInv, PublishingTypeInv', UNCHANGED <<posts, got, twice>>,
           tasks \subseteq tasks', \A t \in tasks' \ tasks : t.post = None,
           owed' \subseteq owed, \A o \in owed' : followers'[o.by] = o.to,
           \A q \in Slots : req'[q].op = "targets" => req'[q] = req[q],
           \A q \in Slots, o \in owed' : Targeting(req[q], o.post) => req'[q] = req[q]
    PROVE  DeliveryInv'
<1>1. OnePostEach /\ Unsent /\ Due
  BY DEF DeliveryInv
<1>2. None \notin DOMAIN posts
  BY PostsAre DEF DeliveryInv
<1>3. OnePostEach'
  <2>1. ASSUME NEW o \in owed'
        PROVE  \/ \E t \in tasks' : t.post = o.post /\ t.to = o.to
               \/ \E p \in Slots : req'[p].op = "targets" /\ req'[p].post = o.post
    <3>1. CASE \E t \in tasks : t.post = o.post /\ t.to = o.to
      BY <3>1
    <3>2. CASE \E p \in Slots : Targeting(req[p], o.post)
      BY <3>2 DEF Targeting
    <3> QED
      BY <1>1, <3>1, <3>2 DEF OnePostEach, Targeting
  <2> QED
    BY <1>1, <2>1 DEF OnePostEach
<1>4. Unsent'
  <2>1. \A q \in Slots, n \in DOMAIN posts : Targeting(req'[q], n) => Targeting(req[q], n)
    BY DEF Targeting
  <2>2. \A t \in tasks' : t.post # None => t \in tasks
    OBVIOUS
  <2>3. \A p, q \in Slots, n \in DOMAIN posts' : Targeting(req'[p], n) /\ Targeting(req'[q], n) => p = q
    BY <1>1, <2>1 DEF Unsent
  <2>4. \A p \in Slots, n \in DOMAIN posts', m \in tasks' \cup got' : Targeting(req'[p], n) => m.post # n
    BY <1>1, <1>2, <2>1, <2>2 DEF Unsent
  <2>5. \A m \in got' : m.post \in DOMAIN posts' \cup {None}
    BY <1>1 DEF Unsent
  <2>6. \A t \in tasks', m \in got' : t.post # None => m.post # t.post \/ m.to # t.to
    BY <1>1, <2>2 DEF Unsent
  <2>7. \A t, u \in tasks' : t.post # None /\ t.post = u.post /\ t.to = u.to => t = u
    <3> SUFFICES ASSUME NEW t \in tasks', NEW u \in tasks', t.post # None, t.post = u.post, t.to = u.to
                 PROVE  t = u
      OBVIOUS
    <3>1. t \in tasks /\ u \in tasks
      BY <2>2
    <3> QED
      BY <1>1, <3>1 DEF Unsent
  <2> QED
    BY <2>3, <2>4, <2>5, <2>6, <2>7 DEF Unsent
<1>5. Due'
  <2>1. \A o \in owed' : o \in owed
    OBVIOUS
  <2>2. \A o \in owed', q \in Slots : Targeting(req'[q], o.post) => Targeting(req[q], o.post) /\ req'[q] = req[q]
    BY DEF Targeting
  <2>3. \A o \in owed', q \in Slots : Targeting(req'[q], o.post) => req'[q].to = None
    BY <1>1, <2>1, <2>2 DEF Due
  <2>4. \A o \in owed' : /\ o.post \in DOMAIN posts' /\ o.by \in Actors
                         /\ o.to \in Inboxes /\ followers'[o.by] = o.to
    BY <1>1, <2>1 DEF Due
  <2> QED
    BY <2>3, <2>4 DEF Due
<1> QED
  BY <1>3, <1>4, <1>5 DEF DeliveryInv

\* A request that is not about to resolve the targets of a post takes a step.
LEMMA DeliveryAside ==
    ASSUME DeliveryInv, PublishingTypeInv', NEW p \in Slots, NEW r, Go(p, r),
           req[p].op # "targets", r.op # "targets",
           UNCHANGED <<posts, got, twice, tasks, followers, owed>>
    PROVE  DeliveryInv'
<1>1. \A q \in Slots : req'[q] = IF q = p THEN r ELSE req[q]
  BY Went DEF DeliveryInv
<1>2. \A q \in Slots : req'[q].op = "targets" => req'[q] = req[q]
  BY <1>1
<1>3. \A q \in Slots, o \in owed' : Targeting(req[q], o.post) => req'[q] = req[q]
  BY <1>1 DEF Targeting
<1>4. \A o \in owed' : followers'[o.by] = o.to
  BY DEF DeliveryInv, Due
<1>5. tasks \subseteq tasks' /\ owed' \subseteq owed /\ \A t \in tasks' \ tasks : t.post = None
  OBVIOUS
<1> QED
  BY <1>2, <1>3, <1>4, <1>5, DeliveryKept

LEMMA DeliveryAsked ==
    ASSUME DeliveryInv, PublishingTypeInv', NEW p \in Slots, req[p] = NoRequest, AskAbout(p)
    PROVE  DeliveryInv'
<1>1. req[p].op # "targets"
  BY DEF NoRequest
<1>2. ASSUME NEW r, Go(p, r), r.op # "targets", UNCHANGED fediverse
      PROVE  DeliveryInv'
  BY <1>1, <1>2, DeliveryAside DEF fediverse
<1>3. CASE StartSession(p) /\ UNCHANGED <<fediverse, directory>>
  <2>1. Go(p, [op |-> "load", kind |-> "start"])
    BY <1>3 DEF StartSession
  <2> QED
    BY <1>2, <1>3, <2>1
<1>4. CASE LoadEnd(p) /\ UNCHANGED <<fediverse, directory>>
  <2>1. Go(p, [op |-> "end"])
    BY <1>4 DEF LoadEnd
  <2> QED
    BY <1>2, <1>4, <2>1
<1>5. ASSUME NEW a \in Actors \cup {None}, Compose(p, a) PROVE DeliveryInv'
  <2> DEFINE r == [op |-> "post", kind |-> IF a = None THEN "manual" ELSE "reply",
                   key |-> org.key, to |-> a]
  <2>1. Go(p, r) /\ r.op # "targets" /\ UNCHANGED fediverse
    BY <1>5 DEF Compose
  <2> HIDE DEF r
  <2> QED
    BY <1>2, <2>1
<1>6. ASSUME NEW a \in Actors, LoadLike(p, a) PROVE DeliveryInv'
  <2>1. Go(p, [op |-> "like", to |-> a, key |-> org.key]) /\ UNCHANGED fediverse
    BY <1>6 DEF LoadLike
  <2> QED
    BY <1>2, <2>1
<1>7. ASSUME NEW on \in BOOLEAN, LoadToggle(p, on) PROVE DeliveryInv'
  <2>1. Go(p, [op |-> "toggle", on |-> on, seen |-> org]) /\ UNCHANGED fediverse
    BY <1>7 DEF LoadToggle
  <2> QED
    BY <1>2, <2>1
<1>8. ASSUME NEW a \in Actors, NEW to \in Inboxes, LoadFollow(p, a, to) PROVE DeliveryInv'
  <2>1. /\ Go(p, [op |-> "follow", by |-> a, to |-> to, key |-> org.key, seen |-> followers[a]])
        /\ UNCHANGED fediverse
    BY <1>8 DEF LoadFollow
  <2> QED
    BY <1>2, <2>1
<1>9. CASE RequestKey(p) /\ UNCHANGED <<life, fediverse, raced>>
  <2>1. Go(p, [op |-> "store", token |-> request.id + 1])
    BY <1>9 DEF RequestKey
  <2> QED
    BY <1>2, <1>9, <2>1
<1>10. CASE Poll(p) /\ UNCHANGED <<life, fediverse, raced>>
  <2>1. Go(p, [op |-> "poll", token |-> token])
    BY <1>10 DEF Poll
  <2> QED
    BY <1>2, <1>10, <2>1
<1> QED
  BY <1>3, <1>4, <1>5, <1>6, <1>7, <1>8, <1>9, <1>10 DEF AskAbout

\* A post is recorded: it is owed to whoever follows, and its targets are to be resolved.
LEMMA DeliveryRecorded ==
    ASSUME DeliveryInv, PublishingTypeInv', NEW p \in Slots, CommitPost(p)
    PROVE  DeliveryInv'
<1>1. OnePostEach /\ Unsent /\ Due /\ PublishingTypeInv
  BY DEF DeliveryInv
<1>2. Filled(req[p], posts, keys, org.key, request.id) /\ req[p].op = "post"
  BY <1>1, FilledAt DEF CommitPost
<1> DEFINE n == Len(posts')
           r == [op |-> "targets", post |-> n, key |-> req[p].key, to |-> req[p].to]
<1>3. DOMAIN posts' = DOMAIN posts \cup {n} /\ n \notin DOMAIN posts /\ n \in Nat
  <2>1. Len(posts) \in Nat
    BY <1>1, PostsAre
  <2> QED
    BY <1>1, <1>2, <2>1, PostAdded DEF CommitPost, Filled
<1>4. None \notin DOMAIN posts /\ None \notin DOMAIN posts'
  BY <1>1, <1>3, PostsAre, PublishingAssumption DEF PublishingTypeInv
<1>5. /\ \A q \in Slots : req'[q] = IF q = p THEN r ELSE req[q]
      /\ UNCHANGED <<followers, tasks, got, twice>>
  BY <1>1, Went DEF CommitPost
<1>6. /\ owed \subseteq owed'
      /\ \A o \in owed' \ owed : /\ o.post = n /\ o.by \in Actors /\ o.to = followers[o.by]
                                 /\ o.to # None /\ req[p].kind # "reply"
  BY DEF CommitPost
<1>7. r.op = "targets" /\ r.post = n /\ r.to = req[p].to
  OBVIOUS
<1> HIDE DEF n, r
<1>8. \A q \in Slots : q # p /\ req[q].op = "targets" => req[q].post \in DOMAIN posts
  BY <1>1, FilledAt DEF Filled
<1>9. \A q \in Slots, m \in DOMAIN posts : Targeting(req'[q], m) <=> Targeting(req[q], m)
  BY <1>2, <1>3, <1>5, <1>7 DEF Targeting
<1>10. \A q \in Slots : Targeting(req'[q], n) <=> q = p
  BY <1>3, <1>5, <1>7, <1>8 DEF Targeting
<1>11. \A m \in tasks \cup got : m.post \in DOMAIN posts \cup {None}
  BY <1>1 DEF Unsent, PublishingTypeInv, PublishingTypeOK
<1>12. Unsent'
  <2>1. \A q, s \in Slots, m \in DOMAIN posts' : Targeting(req'[q], m) /\ Targeting(req'[s], m) => q = s
    BY <1>1, <1>3, <1>9, <1>10 DEF Unsent
  <2>2. \A q \in Slots, m \in DOMAIN posts', t \in tasks' \cup got' : Targeting(req'[q], m) => t.post # m
    BY <1>1, <1>3, <1>4, <1>5, <1>9, <1>11 DEF Unsent
  <2> QED
    BY <1>1, <1>3, <1>5, <2>1, <2>2 DEF Unsent
<1>13. Due'
  <2>1. \A o \in owed : o.post \in DOMAIN posts
    BY <1>1 DEF Due
  <2>2. \A o \in owed' : /\ o.post \in DOMAIN posts' /\ o.by \in Actors
                         /\ o.to \in Inboxes /\ followers'[o.by] = o.to
    BY <1>1, <1>3, <1>5, <1>6 DEF Due, PublishingTypeInv, PublishingTypeOK
  <2>3. \A o \in owed, q \in Slots : Targeting(req'[q], o.post) => req'[q].to = None
    <3>1. \A o \in owed, q \in Slots : Targeting(req'[q], o.post) => Targeting(req[q], o.post) /\ q # p
      BY <1>2, <1>9, <2>1 DEF Targeting
    <3> QED
      BY <1>1, <1>5, <3>1 DEF Due
  <2>4. \A o \in owed' \ owed, q \in Slots : Targeting(req'[q], o.post) => req'[q].to = None
    BY <1>2, <1>5, <1>6, <1>7, <1>10 DEF Filled
  <2> QED
    BY <2>2, <2>3, <2>4 DEF Due
<1>14. OnePostEach'
  <2>1. ASSUME NEW o \in owed
        PROVE  \/ \E t \in tasks : t.post = o.post /\ t.to = o.to
               \/ \E q \in Slots : Targeting(req'[q], o.post)
    <3>1. o.post \in DOMAIN posts
      BY <1>1 DEF Due
    <3> QED
      BY <1>1, <1>9, <3>1 DEF OnePostEach, Targeting
  <2>2. ASSUME NEW o \in owed' \ owed PROVE \E q \in Slots : Targeting(req'[q], o.post)
    BY <1>6, <1>10
  <2> QED
    BY <1>1, <1>5, <2>1, <2>2 DEF OnePostEach, Targeting
<1> QED
  BY <1>12, <1>13, <1>14 DEF DeliveryInv

\* The targets of a post: its inboxes, each once.
LEMMA DeliveryResolved ==
    ASSUME DeliveryInv, PublishingTypeInv', NEW p \in Slots, ResolveTargets(p)
    PROVE  DeliveryInv'
<1>1. OnePostEach /\ Unsent /\ Due /\ PublishingTypeInv
  BY DEF DeliveryInv
<1> DEFINE n == req[p].post
           new == IF req[p].to # None THEN {Delivery(p, req[p].to, None)}
                  ELSE {Delivery(p, i, None) : i \in {followers[a] : a \in Actors} \ {None}}
<1>2. n \in DOMAIN posts /\ None \notin DOMAIN posts /\ Targeting(req[p], n)
  BY <1>1, FilledAt, PostsAre DEF ResolveTargets, Filled, Targeting
<1>3. tasks' = tasks \cup new /\ UNCHANGED <<followers, posts, got, twice, owed>>
  BY DEF ResolveTargets, Queued
<1>4. \A q \in Slots : req'[q] = IF q = p THEN NoRequest ELSE req[q]
  BY <1>1, Went DEF ResolveTargets, Queued, Free
<1>5. \A t \in new : t.post = n
  BY DEF Delivery
<1>6. \A t, u \in new : t.to = u.to => t = u
  BY DEF Delivery
<1>7. \A o \in owed : o.post = n => \E t \in new : t.post = n /\ t.to = o.to
  <2> SUFFICES ASSUME NEW o \in owed, o.post = n PROVE \E t \in new : t.post = n /\ t.to = o.to
    OBVIOUS
  <2>1. o.by \in Actors /\ o.to = followers[o.by] /\ o.to \in Inboxes /\ req[p].to = None
    BY <1>1, <1>2 DEF Due
  <2>2. None \notin Inboxes
    BY PublishingAssumption DEF Inboxes
  <2>3. Delivery(p, o.to, None) \in new
    BY <2>1, <2>2
  <2>4. Delivery(p, o.to, None).post = n /\ Delivery(p, o.to, None).to = o.to
    BY DEF Delivery
  <2> QED
    BY <2>3, <2>4
<1> HIDE DEF n, new
<1>8. \A q \in Slots, m \in DOMAIN posts :
          Targeting(req'[q], m) => Targeting(req[q], m) /\ m # n
  <2>1. ~\E m : Targeting(NoRequest, m)
    BY DEF Targeting, NoRequest
  <2>2. \A q \in Slots, m \in DOMAIN posts : Targeting(req'[q], m) => Targeting(req[q], m) /\ q # p
    BY <1>4, <2>1
  <2> QED
    BY <1>1, <1>2, <2>2 DEF Unsent
<1>9. \A t \in tasks \cup got : t.post # n
  BY <1>1, <1>2 DEF Unsent
<1>10. Unsent'
  <2>1. \A q, s \in Slots, m \in DOMAIN posts' : Targeting(req'[q], m) /\ Targeting(req'[s], m) => q = s
    BY <1>1, <1>3, <1>8 DEF Unsent
  <2>2. \A q \in Slots, m \in DOMAIN posts', t \in tasks' \cup got' : Targeting(req'[q], m) => t.post # m
    <3> SUFFICES ASSUME NEW q \in Slots, NEW m \in DOMAIN posts, NEW t \in tasks \cup new \cup got,
                        Targeting(req'[q], m)
                 PROVE  t.post # m
      BY <1>3
    <3>1. Targeting(req[q], m) /\ m # n
      BY <1>8
    <3> QED
      BY <1>1, <1>5, <3>1 DEF Unsent
  <2>3. \A t \in tasks', m \in got' : t.post # None => m.post # t.post \/ m.to # t.to
    BY <1>1, <1>3, <1>5, <1>9 DEF Unsent
  <2>4. \A t, u \in tasks' : t.post # None /\ t.post = u.post /\ t.to = u.to => t = u
    BY <1>1, <1>3, <1>5, <1>6, <1>9 DEF Unsent
  <2> QED
    BY <1>1, <1>3, <2>1, <2>2, <2>3, <2>4 DEF Unsent
<1>11. Due'
  <2>1. \A o \in owed : o.post \in DOMAIN posts
    BY <1>1 DEF Due
  <2>2. \A o \in owed, q \in Slots : Targeting(req'[q], o.post) => req'[q].to = None
    <3> SUFFICES ASSUME NEW o \in owed, NEW q \in Slots, Targeting(req'[q], o.post)
                 PROVE  req'[q].to = None
      OBVIOUS
    <3>1. Targeting(req[q], o.post) /\ o.post # n
      BY <1>8, <2>1
    <3>2. q # p
      BY <1>2, <3>1 DEF Targeting
    <3> QED
      BY <1>1, <1>4, <3>1, <3>2 DEF Due
  <2> QED
    BY <1>1, <1>3, <2>2 DEF Due
<1>12. OnePostEach'
  <2>1. ASSUME NEW o \in owed
        PROVE  \/ \E t \in tasks' : t.post = o.post /\ t.to = o.to
               \/ \E q \in Slots : req'[q].op = "targets" /\ req'[q].post = o.post
    <3>1. CASE o.post = n
      BY <1>3, <1>7, <3>1
    <3>2. CASE o.post # n /\ \E t \in tasks : t.post = o.post /\ t.to = o.to
      BY <1>3, <3>2
    <3>3. ASSUME o.post # n, NEW q \in Slots, req[q].op = "targets", req[q].post = o.post
          PROVE  req'[q] = req[q]
      BY <1>2, <1>4, <3>3 DEF Targeting
    <3> QED
      BY <1>1, <3>1, <3>2, <3>3 DEF OnePostEach
  <2> QED
    BY <1>1, <1>3, <2>1 DEF OnePostEach
<1> QED
  BY <1>10, <1>11, <1>12 DEF DeliveryInv

\* The one attempt at an inbox.
LEMMA DeliveryMade ==
    ASSUME DeliveryInv, PublishingTypeInv', NEW t \in tasks, Deliver(t)
    PROVE  DeliveryInv'
<1>1. OnePostEach /\ Unsent /\ Due /\ PublishingTypeInv
  BY DEF DeliveryInv
<1>2. /\ tasks' = tasks \ {t} /\ UNCHANGED <<followers, posts, req>>
      /\ owed' = {o \in owed : o.post # t.post \/ o.to # t.to}
  BY DEF Deliver
<1>3. t.post \in DOMAIN posts \cup {None}
  BY <1>1 DEF PublishingTypeInv, PublishingTypeOK
<1>4. \A m \in got' : m \in got \/ (m.post = t.post /\ m.to = t.to)
  BY DEF Deliver
<1>5. ~twice'
  <2>1. ~(t.post # None /\ \E m \in got : m.post = t.post /\ m.to = t.to) /\ ~twice
    BY <1>1 DEF Unsent, OnePostEach
  <2> QED
    BY <2>1 DEF Deliver
<1>6. Unsent'
  <2>1. \A p, q \in Slots, n \in DOMAIN posts' : Targeting(req'[p], n) /\ Targeting(req'[q], n) => p = q
    BY <1>1, <1>2 DEF Unsent
  <2>2. \A p \in Slots, n \in DOMAIN posts', m \in tasks' \cup got' : Targeting(req'[p], n) => m.post # n
    BY <1>1, <1>2, <1>4 DEF Unsent
  <2>3. \A m \in got' : m.post \in DOMAIN posts' \cup {None}
    BY <1>1, <1>2, <1>3, <1>4 DEF Unsent
  <2>4. \A u \in tasks', m \in got' : u.post # None => m.post # u.post \/ m.to # u.to
    BY <1>1, <1>2, <1>4 DEF Unsent
  <2>5. \A s, u \in tasks' : s.post # None /\ s.post = u.post /\ s.to = u.to => s = u
    BY <1>1, <1>2 DEF Unsent
  <2> QED
    BY <2>1, <2>2, <2>3, <2>4, <2>5 DEF Unsent
<1>7. Due'
  BY <1>1, <1>2 DEF Due
<1>8. OnePostEach'
  <2>1. ASSUME NEW o \in owed, o.post # t.post \/ o.to # t.to
        PROVE  \/ \E u \in tasks' : u.post = o.post /\ u.to = o.to
               \/ \E q \in Slots : req'[q].op = "targets" /\ req'[q].post = o.post
    BY <1>1, <1>2, <2>1 DEF OnePostEach
  <2> QED
    BY <1>2, <1>5, <2>1 DEF OnePostEach
<1> QED
  BY <1>6, <1>7, <1>8 DEF DeliveryInv

\* A follower comes, goes or moves, and what is no longer owed is forgotten; a reply is liked,
\* or a request leaves with what it was to do.
LEMMA DeliveryChanged ==
    ASSUME DeliveryInv, PublishingTypeInv', NEW p \in Slots, CommitFollow(p) \/ CommitLike(p) \/ Fail(p)
    PROVE  DeliveryInv'
<1>1. PublishingTypeInv /\ Due
  BY DEF DeliveryInv
<1>2. \A q \in Slots : req'[q] = IF q = p THEN NoRequest ELSE req[q]
  BY <1>1, OtherSteps, Went
<1>3. \A q \in Slots : req'[q].op = "targets" => req'[q] = req[q]
  BY <1>2 DEF NoRequest
<1>4. owed' \subseteq owed /\ UNCHANGED <<posts, got, twice>>
  BY DEF CommitFollow, CommitLike, Fail, Lost
<1>5. tasks \subseteq tasks' /\ \A t \in tasks' \ tasks : t.post = None
  BY DEF CommitFollow, CommitLike, Fail
<1>6. \A o \in owed' : followers'[o.by] = o.to
  <2>1. CASE CommitFollow(p)
    <3>1. /\ \A o \in owed' : o \in owed /\ (o.by # req[p].by \/ o.to = followers'[req[p].by])
          /\ \A b \in Actors : b # req[p].by => followers'[b] = followers[b]
      BY <2>1, <1>1 DEF CommitFollow, PublishingTypeInv, PublishingTypeOK
    <3>2. \A o \in owed : o.by \in Actors /\ followers[o.by] = o.to
      BY <1>1 DEF Due
    <3> QED
      BY <3>1, <3>2
  <2>2. CASE CommitLike(p) \/ Fail(p)
    BY <1>1, <1>4, <2>2 DEF CommitLike, Fail, Due
  <2> QED
    BY <2>1, <2>2
<1>7. \A q \in Slots, o \in owed' : Targeting(req[q], o.post) => req'[q] = req[q]
  <2>1. \A o \in owed' : ~Targeting(req[p], o.post)
    BY DEF CommitFollow, CommitLike, Fail, Lost, Targeting
  <2> QED
    BY <1>2, <2>1
<1> QED
  BY <1>3, <1>4, <1>5, <1>6, <1>7, DeliveryKept

LEMMA DeliveryStep ==
    ASSUME DeliveryInv, [PublishingNext]_publishingVars
    PROVE  DeliveryInv'
<1>1. PublishingTypeInv /\ PublishingTypeInv' /\ OnePostEach /\ Due
  BY PublishingTypeStep DEF DeliveryInv
<1>2. \A o \in owed : followers[o.by] = o.to
  BY <1>1 DEF Due
<1>3. CASE UNCHANGED <<fediverse, req>>
  BY <1>1, <1>2, <1>3, DeliveryKept DEF fediverse
<1>4. ASSUME NEW p \in Slots, req[p] = NoRequest, AskAbout(p) PROVE DeliveryInv'
  BY <1>1, <1>4, DeliveryAsked
<1>5. ASSUME NEW p \in Slots, CommitEnd(p) \/ PushStats(p) \/ LoadOrg(p) \/ AskDirectory(p)
      PROVE  DeliveryInv'
  <2>1. UNCHANGED fediverse /\ req[p].op # "targets"
    BY <1>5 DEF CommitEnd, PushStats, LoadOrg, AskDirectory
  <2>2. \E r : Go(p, r) /\ r.op # "targets"
    <3>1. CASE CommitEnd(p)
      <4>1. Go(p, [op |-> "push"])
        BY <3>1 DEF CommitEnd
      <4> QED
        BY <4>1
    <3>2. CASE PushStats(p)
      <4>1. Go(p, [op |-> "load", kind |-> "end"])
        BY <3>2 DEF PushStats
      <4> QED
        BY <4>1
    <3>3. CASE LoadOrg(p)
      <4>1. \/ Go(p, NoRequest)
            \/ Go(p, [op |-> "post", kind |-> req[p].kind, key |-> org.key, to |-> None])
        BY <3>3 DEF LoadOrg, Free
      <4> QED
        BY <4>1 DEF NoRequest
    <3>4. CASE AskDirectory(p)
      <4>1. \E r : Go(p, r) /\ r.op = "answer"
        BY <3>4 DEF AskDirectory
      <4> QED
        BY <4>1
    <3> QED
      BY <1>5, <3>1, <3>2, <3>3, <3>4
  <2> QED
    BY <1>1, <2>1, <2>2, DeliveryAside DEF fediverse
<1>6. ASSUME NEW p \in Slots, CommitPost(p) PROVE DeliveryInv'
  BY <1>1, <1>6, DeliveryRecorded
<1>7. ASSUME NEW p \in Slots, ResolveTargets(p) PROVE DeliveryInv'
  BY <1>1, <1>7, DeliveryResolved
<1>8. ASSUME NEW p \in Slots, CommitFollow(p) \/ CommitLike(p) \/ Fail(p) PROVE DeliveryInv'
  BY <1>1, <1>8, DeliveryChanged
<1>9. ASSUME NEW p \in Slots, CommitToggle(p) \/ StoreToken(p) \/ CommitAnswer(p) PROVE DeliveryInv'
  <2>1. UNCHANGED <<posts, got, twice, tasks, followers, owed>> /\ req[p].op # "targets"
    BY <1>9 DEF CommitToggle, Switched, StoreToken, CommitAnswer, fediverse
  <2>2. NoRequest.op # "targets"
    BY DEF NoRequest
  <2> QED
    BY <1>1, <1>9, <2>1, <2>2, OtherSteps, DeliveryAside
<1>10. ASSUME NEW t \in tasks, Deliver(t) PROVE DeliveryInv'
  BY <1>1, <1>10, DeliveryMade
<1>11. ASSUME NEW a \in Actors, Unfollow(a) PROVE DeliveryInv'
  <2>1. \A o \in owed' : o \in owed /\ followers'[o.by] = o.to
    BY <1>1, <1>11 DEF Unfollow, Due, PublishingTypeInv, PublishingTypeOK
  <2> QED
    BY <1>1, <1>11, <2>1, DeliveryKept DEF Unfollow
<1>12. ASSUME NEW a \in Actors, ReceiveReply(a) PROVE DeliveryInv'
  BY <1>1, <1>2, <1>12, DeliveryKept DEF ReceiveReply
<1>13. CASE DeleteSession \/ ClearKey \/ Decide
  BY <1>3, <1>13 DEF DeleteSession, ClearKey, Decide
<1>14. CASE Restart
  <2>1. \A q \in Slots : req'[q].op # "targets"
    BY <1>14 DEF Restart, NoRequest
  <2>2. Unsent'
    BY <1>14, <2>1 DEF DeliveryInv, Unsent, Restart, Targeting
  <2>3. Due' /\ OnePostEach'
    BY <1>1, <1>14 DEF Restart, Due, OnePostEach
  <2> QED
    BY <1>1, <2>2, <2>3 DEF DeliveryInv
<1>15. CASE UNCHANGED publishingVars
  BY <1>3, <1>15 DEF publishingVars
<1> QED
  BY <1>4, <1>5, <1>6, <1>7, <1>8, <1>9, <1>10, <1>11, <1>12, <1>13, <1>14, <1>15
     DEF PublishingNext, AtOnce

\* However many accounts share an inbox and whatever fails or stops, an inbox gets a post once
\* at most, and a follower who stays is not passed over before the one attempt.
THEOREM PostsReachEachOnce == PublishingSpec => []OnePostEach
<1>1. PublishingInit => DeliveryInv
  <2> SUFFICES ASSUME PublishingInit PROVE DeliveryInv
    OBVIOUS
  <2>1. \A p \in Slots : req[p].op # "targets"
    BY DEF PublishingInit, NoRequest
  <2>2. tasks = {} /\ got = {} /\ owed = {} /\ ~twice
    BY DEF PublishingInit
  <2> QED
    BY <2>1, <2>2, PublishingTypeInit DEF DeliveryInv, OnePostEach, Unsent, Due, Targeting
<1>2. DeliveryInv => OnePostEach
  BY DEF DeliveryInv
<1> QED
  BY <1>1, <1>2, DeliveryStep, PTL DEF PublishingSpec

-----------------------------------------------------------------------------
(* The directory's key.                                                    *)

\* A request that is not about the directory's key takes a step, or leaves with nothing of it.
LEMMA ClaimRests ==
    ASSUME ClaimInv, PublishingTypeInv', UNCHANGED <<token, apiKey>>,
           request'.id = request.id, request'.stage = request.stage, request'.ours => request.ours,
           request'.ours => \A q \in Slots : req'[q] = req[q] \/ (req'[q].op \notin Claiming /\ req[q].op \notin Claiming)
    PROVE  ClaimInv'
<1> SUFFICES ASSUME request'.ours PROVE ClaimOrder'
  BY DEF ClaimInv
<1>1. ClaimOrder
  BY DEF ClaimInv
<1>2. Had' <=> Had
  BY DEF Had
<1>3. \A q \in Slots : req'[q] = req[q] \/ (req'[q].op \notin Claiming /\ req[q].op \notin Claiming)
  OBVIOUS
<1>4. \A q \in Slots : (req'[q].op \in Claiming \/ req[q].op \in Claiming) => req'[q] = req[q]
  BY <1>3
<1>5. ASSUME NEW q \in Slots PROVE Knows(req'[q], Had', request'.id, request'.stage)
  <2>1. CASE req'[q] = req[q]
    BY <1>1, <1>2, <2>1 DEF ClaimOrder, Knows
  <2>2. CASE req'[q].op \notin Claiming
    BY <2>2 DEF Knows, Claiming
  <2> QED
    BY <1>3, <2>1, <2>2
<1>6. \A p, q \in Slots : req'[p].op \in Claiming /\ req'[q].op \in Claiming => p = q
  BY <1>1, <1>4 DEF ClaimOrder
<1>7. (\A p \in Slots : req'[p].op \notin Claiming) => Had'
  BY <1>1, <1>2, <1>4 DEF ClaimOrder
<1> QED
  BY <1>5, <1>6, <1>7 DEF ClaimOrder

LEMMA ClaimAside ==
    ASSUME ClaimInv, PublishingTypeInv', NEW p \in Slots, NEW r, Go(p, r),
           req[p].op \notin Claiming, r.op \notin Claiming, UNCHANGED directory
    PROVE  ClaimInv'
<1>1. \A q \in Slots : req'[q] = IF q = p THEN r ELSE req[q]
  BY Went DEF ClaimInv
<1>2. \A q \in Slots : req'[q] = req[q] \/ (req'[q].op \notin Claiming /\ req[q].op \notin Claiming)
  BY <1>1
<1> QED
  BY <1>2, ClaimRests DEF directory

LEMMA ClaimAsked ==
    ASSUME ClaimInv, PublishingTypeInv', NEW p \in Slots, req[p] = NoRequest, AskAbout(p)
    PROVE  ClaimInv'
<1>1. req[p].op \notin Claiming
  BY DEF NoRequest, Claiming
<1>2. ASSUME NEW r, Go(p, r), r.op \notin Claiming, UNCHANGED directory PROVE ClaimInv'
  BY <1>1, <1>2, ClaimAside
<1>3. CASE StartSession(p) /\ UNCHANGED <<fediverse, directory>>
  <2>1. Go(p, [op |-> "load", kind |-> "start"])
    BY <1>3 DEF StartSession
  <2> QED
    BY <1>2, <1>3, <2>1 DEF Claiming
<1>4. CASE LoadEnd(p) /\ UNCHANGED <<fediverse, directory>>
  <2>1. Go(p, [op |-> "end"])
    BY <1>4 DEF LoadEnd
  <2> QED
    BY <1>2, <1>4, <2>1 DEF Claiming
<1>5. ASSUME NEW a \in Actors \cup {None}, Compose(p, a), UNCHANGED <<life, directory>> PROVE ClaimInv'
  <2> DEFINE r == [op |-> "post", kind |-> IF a = None THEN "manual" ELSE "reply",
                   key |-> org.key, to |-> a]
  <2>1. Go(p, r) /\ r.op \notin Claiming
    BY <1>5 DEF Compose, Claiming
  <2> HIDE DEF r
  <2> QED
    BY <1>2, <1>5, <2>1
<1>6. ASSUME NEW a \in Actors, LoadLike(p, a), UNCHANGED <<life, directory>> PROVE ClaimInv'
  <2>1. Go(p, [op |-> "like", to |-> a, key |-> org.key])
    BY <1>6 DEF LoadLike
  <2> QED
    BY <1>2, <1>6, <2>1 DEF Claiming
<1>7. ASSUME NEW on \in BOOLEAN, LoadToggle(p, on), UNCHANGED <<life, directory>> PROVE ClaimInv'
  <2>1. Go(p, [op |-> "toggle", on |-> on, seen |-> org])
    BY <1>7 DEF LoadToggle
  <2> QED
    BY <1>2, <1>7, <2>1 DEF Claiming
<1>8. ASSUME NEW a \in Actors, NEW to \in Inboxes, LoadFollow(p, a, to), UNCHANGED <<life, directory>>
      PROVE  ClaimInv'
  <2>1. Go(p, [op |-> "follow", by |-> a, to |-> to, key |-> org.key, seen |-> followers[a]])
    BY <1>8 DEF LoadFollow
  <2> QED
    BY <1>2, <1>8, <2>1 DEF Claiming
<1>9. ASSUME RequestKey(p) \/ Poll(p) PROVE ClaimInv'
  <2> SUFFICES ASSUME request'.ours PROVE ClaimOrder'
    BY DEF ClaimInv
  <2>1. request \in [id : Nat, stage : Stages, ours : BOOLEAN] /\ PublishingTypeInv
    BY DEF ClaimInv, PublishingTypeInv
  <2>2. PICK r : /\ Go(p, r) /\ r.op \in Claiming /\ ~Others(p, Claiming)
                 /\ Knows(r, Had', request'.id, request'.stage) \/ (Poll(p) /\ r.op = "poll")
    <3>1. CASE RequestKey(p)
      <4> DEFINE r == [op |-> "store", token |-> request.id + 1]
                 s == [id |-> request.id + 1, stage |-> "pending", ours |-> TRUE]
                 c == Others(p, Claiming)
      <4>1. request' = [s EXCEPT !.ours = ~c /\ s.ours] /\ Go(p, r)
        BY <3>1 DEF RequestKey, Claim
      <4>2. request'.id = request.id + 1 /\ request'.stage = "pending" /\ request'.ours = (~c /\ TRUE)
        <5>1. s.ours = TRUE /\ s.id = request.id + 1 /\ s.stage = "pending" /\ DOMAIN s = {"id", "stage", "ours"}
          OBVIOUS
        <5> HIDE DEF s, c
        <5> QED
          BY <4>1, <5>1
      <4>3. Knows(r, Had', request'.id, request'.stage) /\ r.op \in Claiming
        BY <4>2 DEF Knows, Claiming
      <4> HIDE DEF r
      <4> QED
        BY <4>1, <4>2, <4>3
    <3>2. CASE Poll(p)
      <4> DEFINE r == [op |-> "poll", token |-> token]
                 c == Others(p, Claiming)
      <4>1. request' = [request EXCEPT !.ours = ~c /\ request.ours] /\ Go(p, r)
        BY <3>2 DEF Poll, Claim
      <4>2. request'.ours => ~c
        <5> HIDE DEF c
        <5> QED
          BY <2>1, <4>1
      <4>3. r.op \in Claiming /\ r.op = "poll"
        BY DEF Claiming
      <4> HIDE DEF r
      <4> QED
        BY <3>2, <4>1, <4>2, <4>3
    <3> QED
      BY <1>9, <3>1, <3>2
  <2>3. \A q \in Slots : req'[q] = IF q = p THEN r ELSE req[q]
    BY <2>1, <2>2, Went
  <2>4. \A q \in Slots : q # p => req'[q].op \notin Claiming /\ req[q].op \notin Claiming
    BY <2>2, <2>3 DEF Others
  <2>5. Knows(r, Had', request'.id, request'.stage)
    <3>1. CASE Poll(p) /\ r.op = "poll"
      <4> DEFINE c == Others(p, Claiming)
      <4>1. request' = [request EXCEPT !.ours = ~c /\ request.ours] /\ UNCHANGED <<token, apiKey>>
        BY <3>1 DEF Poll, Claim
      <4> HIDE DEF c
      <4>2. request.ours /\ request'.id = request.id /\ request'.stage = request.stage
        BY <2>1, <4>1
      <4>3. Had
        BY <1>1, <2>4, <4>2 DEF ClaimInv, ClaimOrder
      <4>4. Had'
        BY <4>1, <4>2, <4>3 DEF Had
      <4> QED
        BY <3>1, <4>4 DEF Knows
    <3> QED
      BY <2>2, <3>1
  <2>6. \A q \in Slots : Knows(req'[q], Had', request'.id, request'.stage)
    <3>1. ASSUME NEW q \in Slots, req'[q].op \notin Claiming
          PROVE  Knows(req'[q], Had', request'.id, request'.stage)
      BY <3>1 DEF Knows, Claiming
    <3> QED
      BY <2>3, <2>4, <2>5, <3>1
  <2> QED
    BY <2>2, <2>3, <2>4, <2>6 DEF ClaimOrder
<1> QED
  BY <1>3, <1>4, <1>5, <1>6, <1>7, <1>8, <1>9 DEF AskAbout

\* The one request about the key stores its token, asks, or stores what it was answered.
LEMMA ClaimTaken ==
    ASSUME ClaimInv, PublishingTypeInv', NEW p \in Slots,
           StoreToken(p) \/ AskDirectory(p) \/ CommitAnswer(p)
    PROVE  ClaimInv'
<1> SUFFICES ASSUME request'.ours PROVE ClaimOrder'
  BY DEF ClaimInv
<1>1. request \in [id : Nat, stage : Stages, ours : BOOLEAN] /\ PublishingTypeInv
  BY DEF ClaimInv, PublishingTypeInv
<1>2. req[p].op \in Claiming
  BY DEF StoreToken, AskDirectory, CommitAnswer, Claiming
<1>3. request.ours
  BY <1>1 DEF StoreToken, AskDirectory, CommitAnswer
<1>4. ClaimOrder
  BY <1>3 DEF ClaimInv
<1>5. \A q \in Slots : q # p => req[q].op \notin Claiming
  BY <1>2, <1>4 DEF ClaimOrder
<1>6. Knows(req[p], Had, request.id, request.stage)
  BY <1>4 DEF ClaimOrder
<1>7. ASSUME NEW r, Go(p, r), Knows(r, Had', request'.id, request'.stage), r.op \notin Claiming => Had'
      PROVE  ClaimOrder'
  <2>1. \A q \in Slots : req'[q] = IF q = p THEN r ELSE req[q]
    BY <1>1, <1>7, Went
  <2>2. ASSUME NEW q \in Slots PROVE Knows(req'[q], Had', request'.id, request'.stage)
    <3>1. CASE q = p
      BY <1>7, <2>1, <3>1
    <3>2. CASE q # p
      <4>1. req'[q].op \notin Claiming
        BY <1>5, <2>1, <3>2
      <4> QED
        BY <4>1 DEF Knows, Claiming
    <3> QED
      BY <3>1, <3>2
  <2>3. \A q, s \in Slots : req'[q].op \in Claiming /\ req'[s].op \in Claiming => q = s
    BY <1>5, <2>1
  <2>4. (\A q \in Slots : req'[q].op \notin Claiming) => Had'
    BY <1>7, <2>1
  <2> QED
    BY <2>2, <2>3, <2>4 DEF ClaimOrder
<1>8. \A had, id, stage : Knows(NoRequest, had, id, stage)
  BY DEF Knows, NoRequest
<1>9. CASE StoreToken(p)
  <2>1. Go(p, NoRequest) /\ Had'
    BY <1>6, <1>9 DEF StoreToken, Free, Had, Knows
  <2> QED
    BY <1>7, <1>8, <2>1
<1>10. CASE AskDirectory(p)
  <2> DEFINE mine == req[p].token = request.id
             given == mine /\ request.stage = "approved"
             r == [op |-> "answer", key |-> given, status |-> IF mine THEN request'.stage ELSE "pending"]
  <2>1. /\ request' = IF given THEN [request EXCEPT !.stage = "claimed"] ELSE request
        /\ Go(p, r) /\ UNCHANGED <<token, apiKey>>
    BY <1>10 DEF AskDirectory
  <2>2. Had
    BY <1>6, <1>10 DEF AskDirectory, Knows
  <2>3. r.op = "answer" /\ r.key = given /\ r.status = (IF mine THEN request'.stage ELSE "pending")
    OBVIOUS
  <2>4. given \in BOOLEAN
    OBVIOUS
  <2>5. CASE given
    <3>1. request'.stage = "claimed" /\ r.key
      BY <1>1, <2>1, <2>3, <2>5
    <3> HIDE DEF r, given
    <3> QED
      BY <1>7, <2>1, <2>3, <3>1 DEF Knows, Claiming
  <2>6. CASE ~given
    <3>1. request' = request /\ ~r.key
      BY <2>1, <2>3, <2>6
    <3>2. Had'
      BY <2>1, <2>2, <3>1 DEF Had
    <3>3. r.status \in {"claimed", "rejected"} => request'.stage = r.status
      BY <2>3
    <3> HIDE DEF r, given, mine
    <3> QED
      BY <1>7, <2>1, <2>3, <3>1, <3>2, <3>3 DEF Knows
  <2> QED
    BY <2>4, <2>5, <2>6
<1>11. CASE CommitAnswer(p)
  <2>1. /\ Go(p, NoRequest) /\ request' = request /\ apiKey' = (apiKey \/ req[p].key)
        /\ token' = IF req[p].status \in {"claimed", "rejected"} THEN None ELSE token
        /\ req[p].op = "answer"
    BY <1>11 DEF CommitAnswer, Free
  <2>2. req[p].key \in BOOLEAN /\ apiKey \in BOOLEAN
    BY <1>1, <2>1, FilledAt DEF Filled, PublishingTypeInv, PublishingTypeOK
  <2>3. CASE req[p].key
    <3>1. request.stage = "claimed" /\ apiKey'
      BY <1>6, <2>1, <2>3 DEF Knows
    <3>2. Had'
      BY <2>1, <3>1 DEF Had
    <3> QED
      BY <1>7, <1>8, <2>1, <3>2
  <2>4. CASE ~req[p].key
    <3>1. Had /\ (req[p].status \in {"claimed", "rejected"} => request.stage = req[p].status)
      BY <1>6, <2>1, <2>4 DEF Knows
    <3>2. apiKey => apiKey'
      BY <2>1, <2>2
    <3>3. request.stage \in {"pending", "approved"} => token' = token
      BY <2>1, <3>1
    <3>4. Had'
      BY <2>1, <3>1, <3>2, <3>3 DEF Had
    <3> QED
      BY <1>7, <1>8, <2>1, <3>4
  <2> QED
    BY <2>2, <2>3, <2>4
<1> QED
  BY <1>9, <1>10, <1>11

LEMMA ClaimDecided ==
    ASSUME ClaimInv, PublishingTypeInv', Decide
    PROVE  ClaimInv'
<1> SUFFICES ASSUME request'.ours PROVE ClaimOrder'
  BY DEF ClaimInv
<1>1. request \in [id : Nat, stage : Stages, ours : BOOLEAN]
  BY DEF ClaimInv, PublishingTypeInv
<1>2. /\ request.stage = "pending" /\ request'.stage \in {"approved", "rejected"}
      /\ request'.id = request.id /\ request.ours /\ UNCHANGED <<token, apiKey, req>>
  BY <1>1 DEF Decide
<1>3. ClaimOrder
  BY <1>2 DEF ClaimInv
<1>4. Had => Had'
  BY <1>2 DEF Had
<1>5. \A q \in Slots : Knows(req'[q], Had', request'.id, request'.stage)
  BY <1>2, <1>3, <1>4 DEF ClaimOrder, Knows
<1> QED
  BY <1>2, <1>3, <1>4, <1>5 DEF ClaimOrder

LEMMA ClaimStep ==
    ASSUME ClaimInv, [PublishingNext]_publishingVars
    PROVE  ClaimInv'
<1>1. PublishingTypeInv /\ PublishingTypeInv'
  BY PublishingTypeStep DEF ClaimInv
<1>2. CASE UNCHANGED <<directory, req>>
  BY <1>1, <1>2, ClaimRests DEF directory
<1>3. ASSUME NEW p \in Slots, req[p] = NoRequest, AskAbout(p) PROVE ClaimInv'
  BY <1>1, <1>3, ClaimAsked
<1>4. ASSUME NEW p \in Slots, CommitEnd(p) \/ PushStats(p) \/ LoadOrg(p) \/ CommitPost(p)
      PROVE  ClaimInv'
  <2>1. UNCHANGED directory /\ req[p].op \notin Claiming
    BY <1>4 DEF CommitEnd, PushStats, LoadOrg, CommitPost, Claiming
  <2>2. \E r : Go(p, r) /\ r.op \notin Claiming
    <3>1. CASE CommitEnd(p)
      <4>1. Go(p, [op |-> "push"])
        BY <3>1 DEF CommitEnd
      <4> QED
        BY <4>1 DEF Claiming
    <3>2. CASE PushStats(p)
      <4>1. Go(p, [op |-> "load", kind |-> "end"])
        BY <3>2 DEF PushStats
      <4> QED
        BY <4>1 DEF Claiming
    <3>3. CASE LoadOrg(p)
      <4>1. \/ Go(p, NoRequest)
            \/ Go(p, [op |-> "post", kind |-> req[p].kind, key |-> org.key, to |-> None])
        BY <3>3 DEF LoadOrg, Free
      <4> QED
        BY <4>1 DEF NoRequest, Claiming
    <3>4. CASE CommitPost(p)
      <4>1. Go(p, [op |-> "targets", post |-> Len(posts'), key |-> req[p].key, to |-> req[p].to])
        BY <3>4 DEF CommitPost
      <4> QED
        BY <4>1 DEF Claiming
    <3> QED
      BY <1>4, <3>1, <3>2, <3>3, <3>4
  <2> QED
    BY <1>1, <2>1, <2>2, ClaimAside
<1>5. ASSUME NEW p \in Slots, ResolveTargets(p) \/ CommitToggle(p) \/ CommitFollow(p) \/ CommitLike(p)
      PROVE  ClaimInv'
  <2>1. UNCHANGED directory /\ req[p].op \notin Claiming
    BY <1>5 DEF ResolveTargets, Queued, CommitToggle, Switched, CommitFollow, CommitLike, Claiming
  <2>2. NoRequest.op \notin Claiming
    BY DEF NoRequest, Claiming
  <2> QED
    BY <1>1, <1>5, <2>1, <2>2, OtherSteps, ClaimAside
<1>6. ASSUME NEW p \in Slots, StoreToken(p) \/ AskDirectory(p) \/ CommitAnswer(p) PROVE ClaimInv'
  BY <1>1, <1>6, ClaimTaken
<1>7. ASSUME NEW p \in Slots, Fail(p) PROVE ClaimInv'
  <2> DEFINE c == \A q \in {p} : req[q].op \notin Claiming
  <2>1. /\ c \in BOOLEAN /\ request' = [request EXCEPT !.ours = @ /\ c]
        /\ UNCHANGED <<token, apiKey>> /\ (c => req[p].op \notin Claiming)
    BY <1>7 DEF Fail, Lost
  <2> HIDE DEF c
  <2>2. request \in [id : Nat, stage : Stages, ours : BOOLEAN]
    BY <1>1 DEF PublishingTypeInv
  <2>3. /\ request'.id = request.id /\ request'.stage = request.stage
        /\ request'.ours => request.ours /\ req[p].op \notin Claiming
    BY <2>1, <2>2
  <2>4. \A q \in Slots : req'[q] = IF q = p THEN NoRequest ELSE req[q]
    BY <1>1, <1>7, OtherSteps, Went
  <2>5. NoRequest.op \notin Claiming
    BY DEF NoRequest, Claiming
  <2> QED
    BY <1>1, <2>1, <2>3, <2>4, <2>5, ClaimRests
<1>8. CASE Restart
  <2> DEFINE c == \A q \in Slots : req[q].op \notin Claiming
  <2>1. /\ c \in BOOLEAN /\ request' = [request EXCEPT !.ours = @ /\ c]
        /\ UNCHANGED <<token, apiKey>> /\ (c => \A q \in Slots : req[q].op \notin Claiming)
    BY <1>8 DEF Restart
  <2> HIDE DEF c
  <2>2. request \in [id : Nat, stage : Stages, ours : BOOLEAN]
    BY <1>1 DEF PublishingTypeInv
  <2>3. /\ request'.id = request.id /\ request'.stage = request.stage
        /\ request'.ours => request.ours /\ \A q \in Slots : req[q].op \notin Claiming
    BY <2>1, <2>2
  <2>4. \A q \in Slots : req'[q].op \notin Claiming
    BY <1>8 DEF Restart, NoRequest, Claiming
  <2> QED
    BY <1>1, <2>1, <2>3, <2>4, ClaimRests
<1>9. CASE ClearKey
  <2>1. ~request'.ours
    BY <1>1, <1>9 DEF ClearKey, PublishingTypeInv
  <2> QED
    BY <1>1, <2>1 DEF ClaimInv
<1>10. CASE Decide
  BY <1>1, <1>10, ClaimDecided
<1>11. CASE \/ \E t \in tasks : Deliver(t)
            \/ \E a \in Actors : Unfollow(a) \/ ReceiveReply(a)
            \/ DeleteSession \/ UNCHANGED publishingVars
  BY <1>2, <1>11 DEF Deliver, Unfollow, ReceiveReply, DeleteSession, publishingVars
<1> QED
  BY <1>3, <1>4, <1>5, <1>6, <1>7, <1>8, <1>9, <1>10, <1>11 DEF PublishingNext, AtOnce

\* The key that the directory hands out with one answer is not missed, unless two requests
\* about it cross, it is given up, or the request that has the answer is lost.
THEOREM KeyIsHad == PublishingSpec => []KeyIsKept
<1>1. PublishingInit => ClaimInv
  <2> SUFFICES ASSUME PublishingInit PROVE ClaimInv
    OBVIOUS
  <2>1. ~request.ours
    BY DEF PublishingInit
  <2> QED
    BY <2>1, PublishingTypeInit DEF ClaimInv
<1>2. ClaimInv => KeyIsKept
  BY DEF ClaimInv, KeyIsKept, PublishingTypeInv, ClaimOrder, Had
<1> QED
  BY <1>1, <1>2, ClaimStep, PTL DEF PublishingSpec

=============================================================================
