------------------------ MODULE OfflineIncidentsProofs ------------------------
(***************************************************************************)
(* Proofs about what an operator's browser does with a network that fails: *)
(* first the offline check-in queue (OfflineQueue), for any items, any     *)
(* number of passes and any interleaving of lost connections, server       *)
(* errors and stops; then the incidents of a net (Incidents), for any      *)
(* windows, slots, sources and bounds.                                     *)
(***************************************************************************)
EXTENDS OfflineQueue, Incidents, TLAPS

(***************************************************************************)
(* The offline check-in queue.                                             *)
(***************************************************************************)

\* Whether item i may still be sent, now or after a step of whoever holds it.
Unsettled(i) ==
    \/ form[i] \in {"new", "posting", "queueing"}
    \/ store[i] = "pending"
    \/ \E f \in Flushers : pass[f].item = i /\ pass[f].step \in {"post", "fail", "reset"}

\* A pass holds an item exactly while it is sending it.
Holding == \A f \in Flushers : Sending(f) <=> pass[f].item # NoItem

\* Only what has been queued is in the queue.
QueueFollowsForm == \A i \in Items : store[i] # "none" => form[i] = "queued"

\* What may still be sent has reached the server only in ways the browser does
\* not know of.
UnsettledIsUntold == \A i \in Items : Unsettled(i) => received[i] <= doubtful[i]

\* What is about to be removed has been accepted.
RemovedIsReceived ==
    \A f \in Flushers : pass[f].step = "remove" => received[pass[f].item] > 0

IInv ==
    /\ TypeOK
    /\ Holding
    /\ OneSender
    /\ QueueFollowsForm
    /\ UnsettledIsUntold
    /\ DoubleIsUntold
    /\ RemovedIsReceived
    /\ NothingLost

-----------------------------------------------------------------------------
(* What a fetch does to the server's tables.                               *)

LEMMA FetchFacts ==
    ASSUME TypeOK, NEW i \in Items, NEW answer, Fetch(i, answer)
    PROVE  /\ online' \in BOOLEAN /\ faults' \in 0..MaxFaults
           /\ received' \in [Items -> Nat] /\ doubtful' \in [Items -> Nat]
           /\ \A j \in Items : /\ received[j] <= received'[j]
                               /\ j # i => /\ received'[j] = received[j]
                                           /\ doubtful'[j] = doubtful[j]
           /\ answer = "ok" => /\ received'[i] = received[i] + 1
                               /\ doubtful'[i] = doubtful[i]
           /\ answer # "ok" => received'[i] - doubtful'[i] = received[i] - doubtful[i]
<1>1. /\ MaxFaults \in Nat /\ online \in BOOLEAN /\ faults \in 0..MaxFaults
      /\ received \in [Items -> Nat] /\ doubtful \in [Items -> Nat]
  BY OfflineAssumption DEF TypeOK
<1>2. ASSUME CommitsNothing
      PROVE  received' = received /\ doubtful' = doubtful
  BY <1>2 DEF CommitsNothing
<1>3. ASSUME NEW told \in BOOLEAN, Commits(i, told)
      PROVE  /\ received' = [received EXCEPT ![i] = @ + 1]
             /\ told => doubtful' = doubtful
             /\ ~told => doubtful' = [doubtful EXCEPT ![i] = @ + 1]
  BY <1>3 DEF Commits
<1>4. online' \in BOOLEAN /\ faults' \in 0..MaxFaults
  <2>1. \/ online' = online /\ faults' = faults
        \/ Fault /\ (online' = online \/ online' = FALSE)
    BY DEF Fetch
  <2>2. online' \in BOOLEAN
    BY <1>1, <2>1, Zenon
  <2>3. faults' \in 0..MaxFaults
    BY <1>1, <2>1 DEF Fault
  <2> QED
    BY <2>2, <2>3
<1>5. CASE answer = "ok"
  <2>1. received' = [received EXCEPT ![i] = @ + 1] /\ doubtful' = doubtful
    BY <1>3, <1>5 DEF Fetch
  <2> QED
    BY <1>1, <1>4, <1>5, <2>1
<1>6. CASE answer # "ok"
  <2>1. \/ received' = received /\ doubtful' = doubtful
        \/ /\ received' = [received EXCEPT ![i] = @ + 1]
           /\ doubtful' = [doubtful EXCEPT ![i] = @ + 1]
    BY <1>2, <1>3, <1>6 DEF Fetch
  <2> QED
    BY <1>1, <1>4, <1>6, <2>1
<1> QED
  BY <1>5, <1>6

LEMMA InitIInv == Init => IInv
BY OfflineAssumption
   DEF Init, IInv, TypeOK, FormStates, StoreStates, Pass, Idle, Holding, OneSender, Sending,
       QueueFollowsForm, UnsettledIsUntold, Unsettled, DoubleIsUntold, RemovedIsReceived,
       NothingLost

-----------------------------------------------------------------------------
(* Steps of the page outside any pass.                                     *)

LEMMA StepSubmit ==
    ASSUME IInv, NEW i \in Items, Submit(i)
    PROVE  IInv'
<1>1. TypeOK /\ QueueFollowsForm /\ Holding /\ OneSender
  BY DEF IInv
<1>2. CASE AddCheckin(i)
  BY <1>2 DEF AddCheckin, IInv, TypeOK, FormStates, Holding, OneSender, Sending,
     QueueFollowsForm, UnsettledIsUntold, Unsettled, DoubleIsUntold, RemovedIsReceived,
     NothingLost
<1>3. CASE PostDirectly(i)
  <2>1. /\ form[i] = "posting" /\ UNCHANGED <<store, pass, open>>
        /\ store[i] = "none"
    BY <1>1, <1>3 DEF PostDirectly, QueueFollowsForm
  <2>2. PICK answer \in {"ok", "4xx", "5xx", "none"} :
            /\ Fetch(i, answer)
            /\ form' = [form EXCEPT ![i] = IF answer = "none" THEN "queueing" ELSE "answered"]
    BY <1>3 DEF PostDirectly
  <2>3. \A f \in Flushers : pass[f].item # i
    BY <2>1, OfflineAssumption, <1>1 DEF OneSender, Holding
  <2>4. TypeOK'
    BY <1>1, <2>1, <2>2, FetchFacts DEF TypeOK, FormStates
  <2>5. Holding' /\ OneSender' /\ QueueFollowsForm'
    BY <1>1, <2>1, <2>2 DEF Holding, OneSender, QueueFollowsForm, Sending, TypeOK
  <2>6. received[i] <= doubtful[i] /\ received[i] \in Nat /\ doubtful[i] \in Nat
    BY <1>1, <2>1 DEF IInv, UnsettledIsUntold, Unsettled, TypeOK
  <2>7. UnsettledIsUntold' /\ DoubleIsUntold'
    <3>1. ASSUME NEW j \in Items, j # i
          PROVE  /\ Unsettled(j)' => received'[j] <= doubtful'[j]
                 /\ received'[j] <= doubtful'[j] + 1
      BY <1>1, <2>1, <2>2, <3>1, FetchFacts
         DEF IInv, UnsettledIsUntold, Unsettled, DoubleIsUntold, TypeOK
    <3>2. /\ received'[i] \in Nat /\ doubtful'[i] \in Nat
          /\ received'[i] <= doubtful'[i] + 1
          /\ answer # "ok" => received'[i] <= doubtful'[i]
      BY <1>1, <2>2, <2>6, FetchFacts
    <3>3. Unsettled(i)' => answer = "none"
      BY <1>1, <2>1, <2>2, <2>3 DEF Unsettled, TypeOK
    <3> QED
      BY <3>1, <3>2, <3>3 DEF UnsettledIsUntold, DoubleIsUntold
  <2>8. RemovedIsReceived' /\ NothingLost'
    <3>1. \A j \in Items : received[j] <= received'[j] /\ received[j] \in Nat /\ received'[j] \in Nat
      BY <1>1, <2>2, FetchFacts DEF TypeOK
    <3>2. \A f \in Flushers : pass[f].step = "remove" => pass[f].item \in Items
      BY <1>1 DEF Holding, Sending, TypeOK, Pass
    <3> QED
      BY <1>1, <2>1, <2>2, <3>1, <3>2 DEF IInv, RemovedIsReceived, NothingLost, TypeOK
  <2> QED
    BY <2>4, <2>5, <2>7, <2>8 DEF IInv
<1>4. CASE QueueCheckin(i)
  BY <1>4 DEF QueueCheckin, IInv, TypeOK, FormStates, StoreStates, Holding, OneSender, Sending,
     QueueFollowsForm, UnsettledIsUntold, Unsettled, DoubleIsUntold, RemovedIsReceived,
     NothingLost
<1> QED
  BY <1>2, <1>3, <1>4 DEF Submit

LEMMA StepAside ==
    ASSUME IInv,
           \/ Disconnect \/ Reconnect \/ EndSession
           \/ \E i \in Items : DismissFailedCheckin(i) \/ ClosePage(i)
           \/ UNCHANGED vars
    PROVE  IInv'
<1>1. CASE Disconnect \/ Reconnect \/ EndSession \/ UNCHANGED vars
  <2>1. UNCHANGED <<form, store, pass, received, doubtful>>
    BY <1>1 DEF Disconnect, Reconnect, EndSession, vars
  <2>2. online' \in BOOLEAN /\ open' \in BOOLEAN /\ faults' \in 0..MaxFaults
    <3>1. TypeOK /\ MaxFaults \in Nat
      BY OfflineAssumption DEF IInv
    <3>2. \/ Fault /\ online' = FALSE /\ open' = open
          \/ faults' = faults /\ online' \in {online, TRUE} /\ open' \in {open, FALSE}
      BY <1>1 DEF Disconnect, Reconnect, EndSession, vars
    <3>3. online' \in BOOLEAN /\ open' \in BOOLEAN
      BY <3>1, <3>2, Zenon DEF TypeOK
    <3>4. faults \in 0..MaxFaults /\ (Fault \/ faults' = faults)
      BY <3>1, <3>2, Zenon DEF TypeOK
    <3>5. faults' \in 0..MaxFaults
      BY <3>1, <3>4 DEF Fault
    <3> QED
      BY <3>3, <3>5
  <2>3. TypeOK'
    BY <2>1, <2>2 DEF IInv, TypeOK
  <2> QED
    BY <2>1, <2>3 DEF IInv, Holding, OneSender, Sending, QueueFollowsForm, UnsettledIsUntold,
       Unsettled, DoubleIsUntold, RemovedIsReceived, NothingLost
<1>2. ASSUME NEW i \in Items, DismissFailedCheckin(i) PROVE IInv'
  BY <1>2 DEF DismissFailedCheckin, IInv, TypeOK, FormStates, StoreStates, Holding, OneSender,
     Sending, QueueFollowsForm, UnsettledIsUntold, Unsettled, DoubleIsUntold,
     RemovedIsReceived, NothingLost
<1>3. ASSUME NEW i \in Items, ClosePage(i) PROVE IInv'
  BY <1>3, OfflineAssumption
     DEF ClosePage, Fault, IInv, TypeOK, FormStates, Holding, OneSender, Sending,
     QueueFollowsForm, UnsettledIsUntold, Unsettled, DoubleIsUntold, RemovedIsReceived,
     NothingLost
<1> QED
  BY <1>1, <1>2, <1>3

-----------------------------------------------------------------------------
(* Steps of a pass.                                                        *)

\* The steps of a pass that leave records and items alone.
LEMMA StepPassAlone ==
    ASSUME IInv, NEW f \in Flushers, BeginPass(f) \/ EndPass(f) \/ Stop(f)
    PROVE  IInv'
<1>1. TypeOK
  BY DEF IInv
<1>2. PICK t : pass' = [pass EXCEPT ![f] = t] /\ t \in Pass /\ t.item = NoItem
               /\ t.step \in {"idle", "loop"}
  <2>1. Idle \in Pass /\ Idle.item = NoItem /\ Idle.step = "idle"
    BY DEF Idle, Pass
  <2>2. [Idle EXCEPT !.step = "loop", !.todo = Pending] \in Pass
    BY DEF Idle, Pass, Pending
  <2> QED
    BY <2>1, <2>2 DEF BeginPass, EndPass, Stop, Idle
<1>3. UNCHANGED <<form, store, received, doubtful>>
  BY DEF BeginPass, EndPass, Stop
<1>4. TypeOK'
  BY <1>1, <1>2, <1>3, OfflineAssumption DEF BeginPass, EndPass, Stop, Fault, TypeOK
<1>5. \A g \in Flushers : pass'[g] = pass[g] \/ pass'[g] = t
  BY <1>1, <1>2 DEF TypeOK
<1> QED
  BY <1>2, <1>3, <1>4, <1>5
     DEF IInv, Holding, OneSender, Sending, QueueFollowsForm, UnsettledIsUntold, Unsettled,
         DoubleIsUntold, RemovedIsReceived, NothingLost

LEMMA StepClaim ==
    ASSUME IInv, NEW f \in Flushers, ClaimItem(f)
    PROVE  IInv'
<1>1. TypeOK /\ pass[f] \in Pass /\ pass[f].step = "loop"
  BY DEF IInv, TypeOK, ClaimItem
<1>2. UNCHANGED <<form, online, open, received, doubtful, faults>>
  BY DEF ClaimItem
<1>3. PICK i \in pass[f].todo :
          IF store[i] = "pending"
          THEN /\ store' = [store EXCEPT ![i] = "sending"]
               /\ pass' = [pass EXCEPT ![f] =
                             [step |-> "post", todo |-> @.todo \ {i}, item |-> i]]
          ELSE /\ pass' = [pass EXCEPT ![f].todo = @ \ {i}]
               /\ UNCHANGED store
  BY DEF ClaimItem
<1>4. i \in Items
  BY <1>1 DEF Pass
<1>5. CASE store[i] = "pending"
  <2> DEFINE t == [step |-> "post", todo |-> pass[f].todo \ {i}, item |-> i]
  <2>1. /\ store' = [store EXCEPT ![i] = "sending"]
        /\ pass' = [pass EXCEPT ![f] = t]
    BY <1>3, <1>5
  <2>2. t \in Pass /\ t.step = "post" /\ t.item = i
    BY <1>1, <1>4 DEF Pass
  <2> HIDE DEF t
  <2>3. \A g \in Flushers : pass[g].item # i
    BY <1>4, <1>5, OfflineAssumption DEF IInv, OneSender, Holding, Sending
  <2>4. TypeOK'
    BY <1>1, <1>2, <2>1, <2>2 DEF TypeOK, StoreStates
  <2>5. i # NoItem
    BY <1>4, OfflineAssumption
  <2>6. /\ pass'[f] = t /\ store'[i] = "sending"
        /\ \A g \in Flushers : g # f => pass'[g] = pass[g]
        /\ \A j \in Items : j # i => store'[j] = store[j]
    BY <1>1, <1>4, <2>1 DEF TypeOK
  <2>7. Holding' /\ QueueFollowsForm'
    BY <1>2, <1>4, <1>5, <2>2, <2>5, <2>6 DEF IInv, Holding, Sending, QueueFollowsForm
  <2>8. OneSender'
    <3>1. ASSUME NEW g \in Flushers, Sending(g)' PROVE store'[pass'[g].item] = "sending"
      <4>1. CASE g = f
        BY <2>2, <2>6, <4>1
      <4>2. CASE g # f
        <5>1. Sending(g) /\ pass'[g] = pass[g]
          BY <2>6, <3>1, <4>2 DEF Sending
        <5>2. store[pass[g].item] = "sending" /\ pass[g].item \in Items
          BY <1>1, <5>1 DEF IInv, OneSender, Holding, TypeOK, Pass
        <5> QED
          BY <2>3, <2>6, <5>1, <5>2
      <4> QED
        BY <4>1, <4>2
    <3>2. ASSUME NEW g \in Flushers, NEW h \in Flushers, Sending(g)', Sending(h)',
                 pass'[g].item = pass'[h].item
          PROVE  g = h
      BY <2>2, <2>3, <2>6, <3>2 DEF IInv, OneSender, Sending
    <3> QED
      BY <3>1, <3>2 DEF OneSender
  <2>9. UnsettledIsUntold'
    <3>1. \A j \in Items : Unsettled(j)' => Unsettled(j)
      BY <1>2, <1>5, <2>2, <2>6 DEF Unsettled
    <3> QED
      BY <1>2, <3>1 DEF IInv, UnsettledIsUntold
  <2>10. DoubleIsUntold' /\ RemovedIsReceived' /\ NothingLost'
    BY <1>2, <2>2, <2>6 DEF IInv, DoubleIsUntold, RemovedIsReceived, NothingLost
  <2> QED
    BY <2>4, <2>7, <2>8, <2>9, <2>10 DEF IInv
<1>6. CASE store[i] # "pending"
  <2> DEFINE t == [pass[f] EXCEPT !.todo = @ \ {i}]
  <2>1. pass' = [pass EXCEPT ![f] = t] /\ store' = store
    BY <1>3, <1>6
  <2>2. t \in Pass /\ t.step = pass[f].step /\ t.item = pass[f].item
    BY <1>1 DEF Pass
  <2> HIDE DEF t
  <2>3. TypeOK'
    BY <1>1, <1>2, <2>1, <2>2 DEF TypeOK
  <2>4. \A g \in Flushers : pass'[g].step = pass[g].step /\ pass'[g].item = pass[g].item
    BY <1>1, <2>1, <2>2 DEF TypeOK
  <2> QED
    BY <1>2, <2>1, <2>3, <2>4
       DEF IInv, Holding, OneSender, Sending, QueueFollowsForm, UnsettledIsUntold, Unsettled,
           DoubleIsUntold, RemovedIsReceived, NothingLost
<1> QED
  BY <1>5, <1>6

LEMMA StepPost ==
    ASSUME IInv, NEW f \in Flushers, PostItem(f)
    PROVE  IInv'
<1>1. TypeOK /\ pass[f] \in Pass /\ pass[f].step = "post"
  BY DEF IInv, TypeOK, PostItem
<1>2. PICK i \in Items : i = pass[f].item
  BY <1>1 DEF IInv, Holding, Sending, Pass
<1>3. PICK answer \in {"ok", "4xx", "5xx", "none"} :
          Fetch(i, answer) /\ pass' = [pass EXCEPT ![f].step = AfterAnswer(answer)]
  BY <1>2 DEF PostItem
<1>4. UNCHANGED <<form, store, open>>
  BY DEF PostItem
<1>5. PICK s \in {"remove", "fail", "reset"} :
          /\ s = AfterAnswer(answer)
          /\ s = "remove" => answer = "ok"
          /\ s \in {"fail", "reset"} => answer # "ok"
  BY <1>3 DEF AfterAnswer
<1> DEFINE t == [pass[f] EXCEPT !.step = s]
<1>6. pass' = [pass EXCEPT ![f] = t]
  BY <1>3, <1>5
<1>7. t \in Pass /\ t.step = s /\ t.item = i
  BY <1>1, <1>2, <1>5 DEF Pass
<1> HIDE DEF t
<1>8. pass'[f] = t /\ \A g \in Flushers : g # f => pass'[g] = pass[g]
  BY <1>1, <1>6 DEF TypeOK
<1>9. \A g \in Flushers : pass[g].item = i => g = f
  BY <1>1, <1>2, OfflineAssumption DEF IInv, OneSender, Holding, Sending
<1>10. TypeOK'
  BY <1>1, <1>3, <1>4, <1>6, <1>7, FetchFacts DEF TypeOK
<1>11. Holding' /\ OneSender' /\ QueueFollowsForm'
  <2>1. \A g \in Flushers : pass'[g].item = pass[g].item /\ (Sending(g)' <=> Sending(g))
    BY <1>1, <1>2, <1>5, <1>7, <1>8 DEF Sending
  <2> QED
    BY <1>4, <2>1 DEF IInv, Holding, OneSender, QueueFollowsForm
<1>12. received[i] <= doubtful[i] /\ received[i] \in Nat /\ doubtful[i] \in Nat
  BY <1>1, <1>2 DEF IInv, UnsettledIsUntold, Unsettled, TypeOK
<1>13. /\ received'[i] \in Nat /\ doubtful'[i] \in Nat
       /\ received'[i] <= doubtful'[i] + 1
       /\ answer # "ok" => received'[i] <= doubtful'[i]
       /\ answer = "ok" => received'[i] > 0
  BY <1>1, <1>3, <1>12, FetchFacts
<1>14. ASSUME NEW j \in Items, j # i
       PROVE  /\ Unsettled(j)' => received'[j] <= doubtful'[j]
              /\ received'[j] <= doubtful'[j] + 1
  <2>1. Unsettled(j)' => Unsettled(j)
    BY <1>4, <1>7, <1>8, <1>14 DEF Unsettled
  <2>2. received'[j] = received[j] /\ doubtful'[j] = doubtful[j]
    BY <1>1, <1>3, <1>14, FetchFacts
  <2> QED
    BY <2>1, <2>2 DEF IInv, UnsettledIsUntold, DoubleIsUntold
<1>15. Unsettled(i)' => s \in {"fail", "reset"}
  <2>1. store[i] = "sending" /\ form[i] = "queued"
    BY <1>1, <1>2 DEF IInv, OneSender, Sending, QueueFollowsForm
  <2>2. ASSUME NEW g \in Flushers, pass'[g].item = i
        PROVE  pass'[g].step = s
    BY <1>7, <1>8, <1>9, <2>2
  <2> QED
    BY <1>4, <1>5, <2>1, <2>2 DEF Unsettled
<1>16. UnsettledIsUntold' /\ DoubleIsUntold'
  BY <1>5, <1>13, <1>14, <1>15 DEF UnsettledIsUntold, DoubleIsUntold
<1>17. RemovedIsReceived' /\ NothingLost'
  <2>1. \A j \in Items : received[j] <= received'[j] /\ received[j] \in Nat /\ received'[j] \in Nat
    BY <1>1, <1>3, FetchFacts DEF TypeOK
  <2>2. ASSUME NEW g \in Flushers, pass'[g].step = "remove"
        PROVE  received'[pass'[g].item] > 0
    <3>1. CASE g = f
      BY <1>5, <1>7, <1>8, <1>13, <2>2, <3>1
    <3>2. CASE g # f
      <4>1. pass'[g] = pass[g] /\ pass[g].item \in Items
        BY <1>1, <1>8, <2>2, <3>2 DEF IInv, Holding, Sending, TypeOK, Pass
      <4> QED
        BY <2>1, <2>2, <4>1 DEF IInv, RemovedIsReceived
    <3> QED
      BY <3>1, <3>2
  <2>3. NothingLost'
    BY <1>4, <2>1 DEF IInv, NothingLost
  <2> QED
    BY <2>2, <2>3 DEF RemovedIsReceived
<1> QED
  BY <1>10, <1>11, <1>16, <1>17 DEF IInv

LEMMA StepSettle ==
    ASSUME IInv, NEW f \in Flushers, SettleItem(f)
    PROVE  IInv'
<1>1. TypeOK /\ pass[f] \in Pass /\ pass[f].step \in {"remove", "fail", "reset"}
  BY DEF IInv, TypeOK, SettleItem
<1>2. PICK i \in Items : i = pass[f].item
  BY <1>1 DEF IInv, Holding, Sending, Pass
<1>3. UNCHANGED <<form, online, open, received, doubtful, faults>>
  BY DEF SettleItem
<1>4. store[i] = "sending" /\ form[i] = "queued"
  BY <1>1, <1>2 DEF IInv, OneSender, Sending, QueueFollowsForm
<1>5. PICK s \in {"none", "failed", "pending"} :
          /\ s = Settled(pass[f].step, store[i])
          /\ s = "none" => pass[f].step = "remove"
          /\ s = "pending" => pass[f].step = "reset"
  BY <1>1, <1>4 DEF Settled
<1>6. store' = [store EXCEPT ![i] = s]
  BY <1>1, <1>2, <1>5 DEF SettleItem, TypeOK
<1> DEFINE t == [pass[f] EXCEPT !.step = "loop", !.item = NoItem]
<1>7. pass' = [pass EXCEPT ![f] = t]
  BY DEF SettleItem
<1>8. t \in Pass /\ t.step = "loop" /\ t.item = NoItem
  BY <1>1 DEF Pass
<1> HIDE DEF t
<1>9. /\ pass'[f] = t /\ store'[i] = s
      /\ \A g \in Flushers : g # f => pass'[g] = pass[g]
      /\ \A j \in Items : j # i => store'[j] = store[j]
  BY <1>1, <1>6, <1>7 DEF TypeOK
<1>10. TypeOK'
  BY <1>1, <1>3, <1>5, <1>6, <1>7, <1>8 DEF TypeOK, StoreStates
<1>11. \A g \in Flushers : pass[g].item = i => g = f
  BY <1>1, <1>2, OfflineAssumption DEF IInv, OneSender, Holding, Sending
<1>12. Holding' /\ QueueFollowsForm'
  BY <1>3, <1>4, <1>8, <1>9 DEF IInv, Holding, Sending, QueueFollowsForm
<1>13. OneSender'
  <2>1. ASSUME NEW g \in Flushers, Sending(g)'
        PROVE  g # f /\ pass'[g] = pass[g] /\ Sending(g) /\ store'[pass[g].item] = "sending"
    <3>1. g # f /\ pass'[g] = pass[g] /\ Sending(g)
      BY <1>8, <1>9, <2>1 DEF Sending
    <3>2. pass[g].item \in Items /\ store[pass[g].item] = "sending"
      BY <1>1, <3>1 DEF IInv, OneSender, Holding, TypeOK, Pass
    <3> QED
      BY <1>9, <1>11, <3>1, <3>2
  <2> QED
    BY <2>1 DEF IInv, OneSender
<1>14. UnsettledIsUntold'
  <2>1. \A j \in Items : Unsettled(j)' => Unsettled(j)
    <3>1. ASSUME NEW j \in Items, Unsettled(j)' PROVE Unsettled(j)
      <4>1. CASE j = i
        <5>1. CASE s = "pending"
          BY <1>2, <1>5, <4>1, <5>1 DEF Unsettled
        <5>2. CASE s # "pending"
          <6>1. \A g \in Flushers : pass'[g].item # i
            BY <1>2, <1>8, <1>9, <1>11, OfflineAssumption
          <6> QED
            BY <1>3, <1>4, <1>9, <3>1, <4>1, <5>2, <6>1 DEF Unsettled
        <5> QED
          BY <5>1, <5>2
      <4>2. CASE j # i
        BY <1>3, <1>8, <1>9, <3>1, <4>2 DEF Unsettled
      <4> QED
        BY <4>1, <4>2
    <3> QED
      BY <3>1
  <2> QED
    BY <1>3, <2>1 DEF IInv, UnsettledIsUntold
<1>15. DoubleIsUntold' /\ RemovedIsReceived'
  BY <1>3, <1>8, <1>9 DEF IInv, DoubleIsUntold, RemovedIsReceived
<1>16. NothingLost'
  BY <1>2, <1>3, <1>5, <1>9 DEF IInv, NothingLost, RemovedIsReceived
<1> QED
  BY <1>10, <1>12, <1>13, <1>14, <1>15, <1>16 DEF IInv

\* A settlement that fails: the commit it was to note becomes one the queue does not
\* know of.
LEMMA StepSettleFails ==
    ASSUME IInv, NEW f \in Flushers, SettleFails(f)
    PROVE  IInv'
<1>1. TypeOK /\ pass[f] \in Pass /\ pass[f].step \in {"remove", "fail"}
  BY DEF IInv, TypeOK, SettleFails
<1>2. PICK i \in Items : i = pass[f].item
  BY <1>1 DEF IInv, Holding, Sending, Pass
<1>3. UNCHANGED <<form, store, online, open, received>>
  BY DEF SettleFails
<1> DEFINE t == [pass[f] EXCEPT !.step = "reset"]
<1>4. pass' = [pass EXCEPT ![f] = t]
  BY DEF SettleFails
<1>5. t \in Pass /\ t.step = "reset" /\ t.item = i
  BY <1>1, <1>2 DEF Pass
<1> HIDE DEF t
<1>6. pass'[f] = t /\ \A g \in Flushers : g # f => pass'[g] = pass[g]
  BY <1>1, <1>4 DEF TypeOK
<1>7. /\ doubtful' \in [Items -> Nat] /\ doubtful[i] \in Nat /\ received[i] \in Nat
      /\ \A j \in Items : j # i => doubtful'[j] = doubtful[j]
      /\ doubtful'[i] = IF pass[f].step = "fail" THEN doubtful[i] ELSE doubtful[i] + 1
  BY <1>1, <1>2 DEF SettleFails, TypeOK
<1>8. TypeOK'
  <2>1. faults' \in 0..MaxFaults
    BY <1>1, OfflineAssumption DEF SettleFails, Fault, TypeOK
  <2> QED
    BY <1>1, <1>3, <1>4, <1>5, <1>7, <2>1 DEF TypeOK
<1>9. \A g \in Flushers : pass'[g].item = pass[g].item /\ (Sending(g)' <=> Sending(g))
  BY <1>1, <1>2, <1>5, <1>6 DEF Sending
<1>10. Holding' /\ QueueFollowsForm' /\ OneSender'
  BY <1>3, <1>9 DEF IInv, Holding, QueueFollowsForm, OneSender
<1>11. received[i] <= doubtful'[i]
  <2>1. CASE pass[f].step = "fail"
    BY <1>2, <1>7, <2>1 DEF IInv, UnsettledIsUntold, Unsettled
  <2>2. CASE pass[f].step = "remove"
    BY <1>7, <2>2 DEF IInv, DoubleIsUntold
  <2> QED
    BY <1>1, <2>1, <2>2
<1>12. UnsettledIsUntold' /\ DoubleIsUntold'
  <2>1. ASSUME NEW j \in Items
        PROVE  /\ Unsettled(j)' => received'[j] <= doubtful'[j]
               /\ received'[j] <= doubtful'[j] + 1
    <3>1. CASE j = i
      BY <1>3, <1>7, <1>11, <3>1
    <3>2. CASE j # i
      <4>1. Unsettled(j)' => Unsettled(j)
        BY <1>3, <1>5, <1>6, <3>2 DEF Unsettled
      <4> QED
        BY <1>3, <1>7, <3>2, <4>1 DEF IInv, UnsettledIsUntold, DoubleIsUntold
    <3> QED
      BY <3>1, <3>2
  <2> QED
    BY <2>1 DEF UnsettledIsUntold, DoubleIsUntold
<1>13. RemovedIsReceived' /\ NothingLost'
  BY <1>3, <1>5, <1>6 DEF IInv, RemovedIsReceived, NothingLost
<1> QED
  BY <1>8, <1>10, <1>12, <1>13 DEF IInv

LEMMA NextIInv == IInv /\ [Next]_vars => IInv'
BY StepSubmit, StepAside, StepPassAlone, StepClaim, StepPost, StepSettle, StepSettleFails
   DEF Next, Flush

LEMMA AlwaysIInv == Spec => []IInv
BY InitIInv, NextIInv, PTL DEF Spec

-----------------------------------------------------------------------------

\* Records, passes and counters of the queue keep their types (offline-queue.js:
\* the four statuses of a record and the steps of flushCheckinQueue).
THEOREM TypeCorrect == Spec => []TypeOK
<1>1. IInv => TypeOK
  BY DEF IInv
<1> QED
  BY <1>1, AlwaysIInv, PTL

\* However many passes of the page and the service worker overlap, one at most
\* is sending a given check-in (_claimItem).
THEOREM ClaimIsExclusive == Spec => []OneSender
<1>1. IInv => OneSender
  BY DEF IInv
<1> QED
  BY <1>1, AlwaysIInv, PTL

\* Passes that overlap never double a check-in: the server has one row more
\* at most than the commits the queue was not told of or failed to note (flushCheckinQueue).
THEOREM OverlapNeverDoubles == Spec => []DoubleIsUntold
<1>1. IInv => DoubleIsUntold
  BY DEF IInv
<1> QED
  BY <1>1, AlwaysIInv, PTL

\* A check-in that has left the queue, and was not dismissed, is on the roster
\* (flushCheckinQueue removes only what the server has accepted).
THEOREM NothingIsLost == Spec => []NothingLost
<1>1. IInv => NothingLost
  BY DEF IInv
<1> QED
  BY <1>1, AlwaysIInv, PTL

\* A refused item is neither on its way nor in anybody's hands.
LEMMA RefusedRests ==
    ASSUME IInv, [Next]_vars, NEW i \in Items, store[i] = "failed"
    PROVE  /\ received'[i] = received[i]
           /\ store'[i] # "failed" => form'[i] = "dismissed"
<1>1. /\ form \in [Items -> FormStates] /\ store \in [Items -> StoreStates]
      /\ pass \in [Flushers -> Pass] /\ received \in [Items -> Nat]
  BY DEF IInv, TypeOK
<1>2. form[i] = "queued"
  BY DEF IInv, QueueFollowsForm
<1>3. \A f \in Flushers : Sending(f) => pass[f].item # i /\ pass[f].item \in Items
  BY <1>1 DEF IInv, OneSender, Holding, Pass
<1>4. ASSUME NEW j \in Items, AddCheckin(j) \/ QueueCheckin(j) \/ ClosePage(j)
      PROVE  received' = received /\ store'[i] = "failed"
  BY <1>1, <1>2, <1>4 DEF AddCheckin, QueueCheckin, ClosePage
<1>5. ASSUME NEW j \in Items, PostDirectly(j)
      PROVE  received'[i] = received[i] /\ store'[i] = "failed"
  <2>1. j # i /\ store' = store
    BY <1>2, <1>5 DEF PostDirectly
  <2>2. received' = received \/ received' = [received EXCEPT ![j] = @ + 1]
    BY <1>5, Zenon DEF PostDirectly, Fetch, Commits, CommitsNothing
  <2> QED
    BY <1>1, <2>1, <2>2
<1>6. ASSUME NEW j \in Items, DismissFailedCheckin(j)
      PROVE  received' = received /\ (store'[i] # "failed" => form'[i] = "dismissed")
  BY <1>1, <1>6 DEF DismissFailedCheckin
<1>7. ASSUME NEW f \in Flushers, BeginPass(f) \/ EndPass(f) \/ SettleFails(f) \/ Stop(f)
      PROVE  received' = received /\ store' = store
  BY <1>7 DEF BeginPass, EndPass, SettleFails, Stop
<1>8. ASSUME NEW f \in Flushers, ClaimItem(f)
      PROVE  received' = received /\ store'[i] = "failed"
  BY <1>1, <1>8 DEF ClaimItem
<1>9. ASSUME NEW f \in Flushers, PostItem(f)
      PROVE  received'[i] = received[i] /\ store' = store
  <2>1. pass[f].item # i /\ store' = store
    BY <1>3, <1>9 DEF PostItem, Sending
  <2>2. received' = received \/ received' = [received EXCEPT ![pass[f].item] = @ + 1]
    BY <1>9, Zenon DEF PostItem, Fetch, Commits, CommitsNothing
  <2> QED
    BY <1>1, <2>1, <2>2
<1>10. ASSUME NEW f \in Flushers, SettleItem(f)
       PROVE  received' = received /\ store'[i] = "failed"
  <2>1. pass[f].item # i
    BY <1>3, <1>10 DEF SettleItem, Sending
  <2> QED
    BY <1>1, <1>10, <2>1 DEF SettleItem
<1>11. ASSUME Disconnect \/ Reconnect \/ EndSession \/ UNCHANGED vars
       PROVE  received' = received /\ store' = store
  BY <1>11 DEF Disconnect, Reconnect, EndSession, vars
<1> QED
  BY <1>4, <1>5, <1>6, <1>7, <1>8, <1>9, <1>10, <1>11 DEF Next, Submit, Flush

\* A check-in the server has refused is not sent again by any pass, and leaves the list
\* of refused ones by the operator's hand only (_markQueuedCheckinFailed, _claimItem).
THEOREM RefusalsStand == Spec => RefusedStaysRefused
<1>1. IInv /\ [Next]_vars
      => [\A i \in Items : store[i] = "failed" =>
             /\ received'[i] = received[i]
             /\ store'[i] # "failed" => form'[i] = "dismissed"]_vars
  BY RefusedRests
<1> QED
  BY <1>1, AlwaysIInv, PTL DEF Spec, RefusedStaysRefused

-----------------------------------------------------------------------------

(***************************************************************************)
(* What is in flight.                                                      *)
(***************************************************************************)

Origin == Range(Sources)

AreaRow == [incident : Ids, boundary : Boundary]

Synced ==
    [op : {"sync"}, sync : 1 .. MaxSyncs, fetched : SUBSET Origin, todo : SUBSET Origin,
     new : SUBSET Boundary, locked : SUBSET (Boundary \cup AreaRow), after : SUBSET Slots,
     raced : SUBSET Origin]

Choice ==
    [op : {"choose"}, incident : Ids, ids : SUBSET Boundary, window : Windows \cup {None},
     item : FeedItems \cup {None}, alone : BOOLEAN]

Replacement ==
    [op : {"replace"}, incident : Ids, ids : SUBSET Boundary, valid : SUBSET Boundary,
     window : Windows \cup {None}, item : FeedItems \cup {None}, alone : BOOLEAN,
     locked : SUBSET AreaRow, after : SUBSET Slots]

Creation == [op : {"created"}, incident : Ids, window : Windows, item : FeedItems \cup {None}]

Turn == [op : {"status"}, incident : Ids, seen : Incident, status : {"active", "resolved"}]

Scan == [op : {"scan"}, incident : Ids, new : SUBSET Callsigns, reason : [Callsigns -> Reasons]]

Feed == [op : {"feed"}, got : SUBSET FeedItems, window : Windows]

Dismissing == [op : {"dismiss"}, item : FeedItems, incident : Ids \cup {None}, window : Windows]

Marking ==
    [op : {"mark"}, item : FeedItems, incident : Ids \cup {None}, window : Windows, found : BOOLEAN]

InFlight ==
    {NoRequest} \cup Synced \cup Choice \cup Replacement \cup Creation \cup Turn \cup Scan
        \cup Feed \cup Dismissing \cup Marking

RowsInv ==
    /\ boundaries \subseteq Boundary
    /\ incident \in [Ids -> Incident \cup {None}]
    /\ stations \in [Ids -> [Callsigns -> StationRow \cup {None}]]
    /\ dismissal \in [FeedItems -> Dismissal \cup {None}]
    /\ area \subseteq AreaRow
    /\ \A a \in area : incident[a.incident] # None /\ a.boundary \in boundaries
    /\ \A i \in Ids, c \in Callsigns : stations[i][c] # None => incident[i] # None
    /\ \A x \in FeedItems : dismissal[x] # None /\ dismissal[x].incident # None =>
          dismissal[x].status = "created" /\ incident[dismissal[x].incident] # None

PagesInv ==
    /\ shows \in [Windows -> SUBSET FeedItems] /\ choices \in [Windows -> SUBSET Boundary]
    /\ opened \in [Windows -> FeedItems \cup {None}]

FlightInv == req \in [Slots -> InFlight]

Parts == {"all", "syncs", "made", "areas", "status", "stations", "feed"}

CountInv == asked \in [Parts -> Nat]

HistoryInv ==
    /\ newest \in [Origin -> SUBSET Boundary] /\ wanted \in [Ids -> SUBSET Boundary]
    /\ contested \subseteq FeedItems

IncidentsTypeInv == RowsInv /\ PagesInv /\ FlightInv /\ CountInv /\ HistoryInv

-----------------------------------------------------------------------------
(* Requests by what they are.                                              *)

LEMMA FlightKinds ==
    ASSUME NEW r \in InFlight
    PROVE  /\ r.op = "idle" => r = NoRequest
           /\ r.op = "sync" => r \in Synced
           /\ r.op = "choose" => r \in Choice
           /\ r.op = "replace" => r \in Replacement
           /\ r.op = "created" => r \in Creation
           /\ r.op = "status" => r \in Turn
           /\ r.op = "scan" => r \in Scan
           /\ r.op = "feed" => r \in Feed
           /\ r.op = "dismiss" => r \in Dismissing
           /\ r.op = "mark" => r \in Marking
BY DEF InFlight, NoRequest, Synced, Choice, Replacement, Creation, Turn, Scan, Feed, Dismissing, Marking

LEMMA FlightOps ==
    ASSUME NEW r \in InFlight
    PROVE  /\ r = NoRequest \/ r.op \in {"sync", "choose", "replace", "created", "status", "scan", "feed",
                                      "dismiss", "mark"}
           /\ NoRequest.op = "idle"
BY DEF InFlight, NoRequest, Synced, Choice, Replacement, Creation, Turn, Scan, Feed, Dismissing, Marking

\* A request that waits for one less than before.
Resumed(a, b) == b = a \/ (a.op \in Locking /\ \E d \in SUBSET Slots : b = [a EXCEPT !.after = d])

LEMMA ResumedFacts ==
    ASSUME NEW a \in InFlight, NEW b, Resumed(a, b)
    PROVE  /\ b \in InFlight /\ b.op = a.op
           /\ a.op \notin Locking => b = a
           /\ a.op = "sync" => /\ b.sync = a.sync /\ b.fetched = a.fetched /\ b.todo = a.todo
                               /\ b.new = a.new /\ b.locked = a.locked /\ b.raced = a.raced
           /\ a.op = "replace" => /\ b.incident = a.incident /\ b.ids = a.ids /\ b.valid = a.valid
                                  /\ b.window = a.window /\ b.item = a.item /\ b.alone = a.alone
                                  /\ b.locked = a.locked
<1>1. CASE b = a
  BY <1>1
<1>2. CASE a.op = "sync" /\ \E d \in SUBSET Slots : b = [a EXCEPT !.after = d]
  <2>1. a \in Synced
    BY <1>2, FlightKinds
  <2>2. PICK d \in SUBSET Slots : b = [a EXCEPT !.after = d]
    BY <1>2
  <2>3. b \in Synced
    BY <2>1, <2>2 DEF Synced
  <2>4. b.op = a.op /\ b.sync = a.sync /\ b.fetched = a.fetched /\ b.todo = a.todo
        /\ b.new = a.new /\ b.locked = a.locked /\ b.raced = a.raced
    BY <2>1, <2>2 DEF Synced
  <2> QED
    BY <1>2, <2>3, <2>4 DEF InFlight, Locking
<1>3. CASE a.op = "replace" /\ \E d \in SUBSET Slots : b = [a EXCEPT !.after = d]
  <2>1. a \in Replacement
    BY <1>3, FlightKinds
  <2>2. PICK d \in SUBSET Slots : b = [a EXCEPT !.after = d]
    BY <1>3
  <2>3. b \in Replacement
    BY <2>1, <2>2 DEF Replacement
  <2>4. b.op = a.op /\ b.incident = a.incident /\ b.ids = a.ids /\ b.valid = a.valid
        /\ b.window = a.window /\ b.item = a.item /\ b.alone = a.alone /\ b.locked = a.locked
    BY <2>1, <2>2 DEF Replacement
  <2> QED
    BY <1>3, <2>3, <2>4 DEF InFlight, Locking
<1> QED
  BY <1>1, <1>2, <1>3 DEF Resumed, Locking

LEMMA FreedFacts ==
    ASSUME FlightInv, NEW p \in Slots
    PROVE  /\ Freed(p) \in [Slots -> InFlight] /\ Freed(p)[p] = NoRequest
           /\ \A q \in Slots : q # p => Resumed(req[q], Freed(p)[q])
<1>1. /\ DOMAIN Freed(p) = Slots /\ Freed(p)[p] = NoRequest
      /\ Freed(p) = [q \in Slots |-> Freed(p)[q]]
  BY DEF Freed
<1>2. ASSUME NEW q \in Slots, q # p
      PROVE  Resumed(req[q], Freed(p)[q])
  <2>1. req[q] \in InFlight
    BY DEF FlightInv
  <2>2. CASE req[q].op \in Locking
    <3>1. Freed(p)[q] = [req[q] EXCEPT !.after = @ \ {p}]
      BY <1>2, <2>2 DEF Freed
    <3>2. req[q].after \in SUBSET Slots
      BY <2>1, <2>2, FlightKinds DEF Locking, Synced, Replacement
    <3>3. Freed(p)[q] = [req[q] EXCEPT !.after = req[q].after \ {p}] /\ req[q].after \ {p} \in SUBSET Slots
      BY <3>1, <3>2
    <3> QED
      BY <2>2, <3>3 DEF Resumed
  <2>3. CASE req[q].op \notin Locking
    BY <1>2, <2>3 DEF Freed, Resumed
  <2> QED
    BY <2>2, <2>3
<1>3. ASSUME NEW q \in Slots
      PROVE  Freed(p)[q] \in InFlight
  <2>1. req[q] \in InFlight
    BY DEF FlightInv
  <2>2. CASE q = p
    BY <1>1, <2>2 DEF InFlight
  <2>3. CASE q # p
    BY <1>2, <2>1, <2>3, ResumedFacts
  <2> QED
    BY <2>2, <2>3
<1> QED
  BY <1>1, <1>2, <1>3

LEMMA GoFacts ==
    ASSUME FlightInv, NEW p \in Slots, NEW r \in InFlight, Go(p, r)
    PROVE  /\ FlightInv' /\ req'[p] = r
           /\ \A q \in Slots : q # p => req'[q] = req[q]
BY DEF FlightInv, Go

LEMMA FreedStep ==
    ASSUME FlightInv, NEW p \in Slots, req' = Freed(p)
    PROVE  /\ FlightInv' /\ req'[p] = NoRequest
           /\ \A q \in Slots : q # p => Resumed(req[q], req'[q])
BY FreedFacts DEF FlightInv

-----------------------------------------------------------------------------
(* Types, action by action.                                                *)

\* All of it but the counts.
Typed == RowsInv /\ PagesInv /\ FlightInv /\ HistoryInv

LEMMA RowsRest ==
    ASSUME RowsInv, UNCHANGED rows
    PROVE  RowsInv'
BY Zenon DEF RowsInv, rows

LEMMA PagesRest ==
    ASSUME PagesInv, UNCHANGED pages
    PROVE  PagesInv'
BY DEF PagesInv, pages

LEMMA TypesAreOK ==
    ASSUME RowsInv, PagesInv
    PROVE  IncidentsTypeOK
BY DEF RowsInv, PagesInv, IncidentsTypeOK, AreaRow

LEMMA HistoryRest ==
    ASSUME HistoryInv, UNCHANGED <<newest, wanted, contested>>
    PROVE  HistoryInv'
BY DEF HistoryInv

\* What a request in flight is, one by one.
LEMMA InFlightIs ==
    /\ NoRequest \in InFlight /\ Synced \subseteq InFlight /\ Choice \subseteq InFlight
    /\ Replacement \subseteq InFlight /\ Creation \subseteq InFlight /\ Turn \subseteq InFlight
    /\ Scan \subseteq InFlight /\ Feed \subseteq InFlight /\ Dismissing \subseteq InFlight
    /\ Marking \subseteq InFlight
BY DEF InFlight

LEMMA TypedGo ==
    ASSUME Typed, NEW p \in Slots, NEW r \in InFlight, Go(p, r), UNCHANGED <<rows, pages, newest, wanted, contested>>
    PROVE  Typed'
BY RowsRest, PagesRest, HistoryRest, GoFacts DEF Typed

LEMMA SyncRequest ==
    ASSUME Typed, CountInv, NEW p \in Slots, Sync(p)
    PROVE  \E r \in Synced : /\ Go(p, r) /\ r.fetched = {} /\ r.new = {} /\ r.locked = {} /\ r.raced = {}
<1>1. asked.syncs \in Nat /\ MaxSyncs \in Nat /\ asked.syncs < MaxSyncs
  BY IncidentsAssumption DEF CountInv, Parts, Sync
<1>2. asked.syncs + 1 \in 1 .. MaxSyncs
  BY <1>1
<1>3. PICK matched \in SUBSET Range(Sources) :
        Go(p, [op |-> "sync", sync |-> asked.syncs + 1, fetched |-> {}, todo |-> matched,
               new |-> {}, locked |-> {}, after |-> {}, raced |-> {}])
  BY DEF Sync
<1> DEFINE r == [op |-> "sync", sync |-> asked.syncs + 1, fetched |-> {}, todo |-> matched,
                 new |-> {}, locked |-> {}, after |-> {}, raced |-> {}]
<1>4. r \in Synced
  BY <1>2, <1>3 DEF Synced, Origin
<1>5. Go(p, r) /\ r.fetched = {} /\ r.new = {} /\ r.locked = {} /\ r.raced = {}
  BY <1>3
<1> HIDE DEF r
<1> QED
  BY <1>4, <1>5

LEMMA TypedSync ==
    ASSUME Typed, CountInv, NEW p \in Slots, Sync(p)
    PROVE  Typed'
<1>1. UNCHANGED <<rows, pages, newest, wanted, contested>>
  BY DEF Sync, ghosts
<1> QED
  BY <1>1, SyncRequest, TypedGo, InFlightIs

\* The boundaries a source has brought.
LEMMA NewBoundaries ==
    ASSUME Typed, NEW p \in Slots, req[p].op = "sync", NEW s \in Origin, NEW zones \in SUBSET Zones[s]
    PROVE  New(p, s, zones) \subseteq Boundary /\ \A b \in New(p, s, zones) : b.source = s
<1>1. req[p].sync \in 1 .. MaxSyncs
  BY FlightKinds DEF Typed, FlightInv, Synced
<1> QED
  BY <1>1 DEF New, Boundary, Origin

LEMMA FirstIsOrigin ==
    ASSUME NEW s, NEW todo, IsFirst(s, todo)
    PROVE  s \in Origin
BY DEF IsFirst, Origin, Range

\* What a fetch makes of a request: p is who fetches s.
Fetched(p, s, zones, a, b) ==
    LET old == {c \in boundaries : c.source = s} IN
    /\ b \in Synced
    /\ b.fetched = a.fetched \cup {s} /\ b.new = a.new \cup New(p, s, zones)
    /\ b.locked = a.locked \cup old \cup Under(old)
    /\ b.raced = IF \E q \in Slots \ {p} : req[q].op = "sync" /\ s \in req[q].fetched
                 THEN a.raced \cup {s} ELSE a.raced

Rivalled(a, b, s) ==
    /\ b \in Synced /\ b.fetched = a.fetched /\ b.new = a.new /\ b.locked = a.locked
    /\ b.raced = a.raced \cup {s}

\* A sync that has asked a source is still one.
LEMMA SyncedExcept ==
    ASSUME NEW r \in Synced, NEW todo \in SUBSET Origin, NEW fetched \in SUBSET Origin,
           NEW new \in SUBSET Boundary, NEW locked \in SUBSET (Boundary \cup AreaRow),
           NEW after \in SUBSET Slots, NEW raced \in SUBSET Origin,
           NEW b, b = [r EXCEPT !.todo = todo, !.fetched = fetched, !.new = new, !.locked = locked,
                                !.after = after, !.raced = raced]
    PROVE  b \in Synced
<1>1. r.op = "sync" /\ r.sync \in 1 .. MaxSyncs
  BY DEF Synced
<1>2. b = [op |-> "sync", sync |-> r.sync, fetched |-> fetched, todo |-> todo, new |-> new,
           locked |-> locked, after |-> after, raced |-> raced]
  BY <1>1 DEF Synced
<1> QED
  BY <1>1, <1>2 DEF Synced

LEMMA FetchSourceFacts ==
    ASSUME Typed, NEW p \in Slots, FetchSource(p)
    PROVE  \E s \in Origin : \E zones \in SUBSET Zones[s] :
              /\ req[p] \in Synced /\ Fetched(p, s, zones, req[p], req'[p])
              /\ \A q \in Slots : q # p =>
                    IF req[q].op = "sync" /\ s \in req[q].fetched
                    THEN req[q] \in Synced /\ Rivalled(req[q], req'[q], s) ELSE req'[q] = req[q]
              /\ FlightInv'
<1>1. PICK s \in req[p].todo : \E zones \in SUBSET Zones[s] :
        LET old == {b \in boundaries : b.source = s}
            gone == old \cup Under(old)
            rivals == {q \in Slots \ {p} : req[q].op = "sync" /\ s \in req[q].fetched} IN
        /\ IsFirst(s, req[p].todo)
        /\ req' = [q \in Slots |->
              IF q = p
              THEN [req[p] EXCEPT !.todo = @ \ {s}, !.fetched = @ \cup {s},
                                  !.new = @ \cup New(p, s, zones),
                                  !.locked = @ \cup gone, !.after = Holders(p, gone),
                                  !.raced = IF rivals # {} THEN @ \cup {s} ELSE @]
              ELSE IF q \in rivals THEN [req[q] EXCEPT !.raced = @ \cup {s}] ELSE req[q]]
  BY DEF FetchSource
<1> DEFINE old == {b \in boundaries : b.source = s}
           gone == old \cup Under(old)
           rivals == {q \in Slots \ {p} : req[q].op = "sync" /\ s \in req[q].fetched}
<1>2. PICK zones \in SUBSET Zones[s] :
        /\ IsFirst(s, req[p].todo)
        /\ req' = [q \in Slots |->
              IF q = p
              THEN [req[p] EXCEPT !.todo = @ \ {s}, !.fetched = @ \cup {s},
                                  !.new = @ \cup New(p, s, zones),
                                  !.locked = @ \cup gone, !.after = Holders(p, gone),
                                  !.raced = IF rivals # {} THEN @ \cup {s} ELSE @]
              ELSE IF q \in rivals THEN [req[q] EXCEPT !.raced = @ \cup {s}] ELSE req[q]]
  BY <1>1
<1>3. s \in Origin
  BY <1>2, FirstIsOrigin
<1>4. req[p].op = "sync" /\ req[p] \in Synced
  BY FlightKinds DEF FetchSource, Typed, FlightInv
<1>5. New(p, s, zones) \subseteq Boundary
  BY <1>3, <1>4, NewBoundaries
<1>6. gone \subseteq Boundary \cup AreaRow
  BY DEF Under, Typed, RowsInv
<1>7. Holders(p, gone) \subseteq Slots
  BY DEF Holders
<1>8. /\ req'[p] = [req[p] EXCEPT !.todo = @ \ {s}, !.fetched = @ \cup {s},
                                  !.new = @ \cup New(p, s, zones),
                                  !.locked = @ \cup gone, !.after = Holders(p, gone),
                                  !.raced = IF rivals # {} THEN @ \cup {s} ELSE @]
      /\ \A q \in Slots : q # p =>
            req'[q] = IF q \in rivals THEN [req[q] EXCEPT !.raced = @ \cup {s}] ELSE req[q]
      /\ req' = [q \in Slots |-> req'[q]]
  BY <1>2, Zenon
<1>9. \A q \in Slots : q \in rivals <=> q # p /\ req[q].op = "sync" /\ s \in req[q].fetched
  OBVIOUS
<1>10. /\ req'[p].fetched = req[p].fetched \cup {s}
       /\ req'[p].new = req[p].new \cup New(p, s, zones)
       /\ req'[p].locked = req[p].locked \cup gone
       /\ req'[p].raced = IF rivals # {} THEN req[p].raced \cup {s} ELSE req[p].raced
       /\ req'[p] \in Synced
  <2> DEFINE raced == IF rivals # {} THEN req[p].raced \cup {s} ELSE req[p].raced
             new == req[p].new \cup New(p, s, zones)
             holders == Holders(p, gone)
  <2>1. req'[p] = [req[p] EXCEPT !.todo = @ \ {s}, !.fetched = @ \cup {s}, !.new = new,
                                 !.locked = @ \cup gone, !.after = holders, !.raced = raced]
    BY <1>4, <1>8 DEF Synced
  <2>2. raced \in SUBSET Origin /\ new \in SUBSET Boundary /\ holders \in SUBSET Slots
    BY <1>3, <1>4, <1>5, <1>7 DEF Synced
  <2>3. req'[p].new = new /\ req'[p].raced = raced
    <3> HIDE DEF gone, rivals, raced, new, holders
    <3> QED
      BY <1>4, <2>1 DEF Synced
  <2>4. req'[p].fetched = req[p].fetched \cup {s} /\ req'[p].locked = req[p].locked \cup gone
    <3> HIDE DEF gone, rivals, raced, new, holders
    <3> QED
      BY <1>4, <2>1 DEF Synced
  <2>5. req'[p] \in Synced
    <3> DEFINE todo == req[p].todo \ {s}
               fetched == req[p].fetched \cup {s}
               locked == req[p].locked \cup gone
    <3>1. /\ todo \in SUBSET Origin /\ fetched \in SUBSET Origin
          /\ locked \in SUBSET (Boundary \cup AreaRow)
      BY <1>3, <1>4, <1>6 DEF Synced
    <3>2. req'[p] = [req[p] EXCEPT !.todo = todo, !.fetched = fetched, !.new = new, !.locked = locked,
                                   !.after = holders, !.raced = raced]
      BY <1>4, <2>1 DEF Synced
    <3> HIDE DEF gone, rivals, raced, new, holders, todo, fetched, locked
    <3> QED
      <4> DEFINE b == req'[p]
                 r == req[p]
      <4>1. r \in Synced /\ b = [r EXCEPT !.todo = todo, !.fetched = fetched, !.new = new, !.locked = locked,
                                   !.after = holders, !.raced = raced]
        BY <1>4, <3>2
      <4> HIDE DEF b, r
      <4>2. b \in Synced
        BY <2>2, <3>1, <4>1, SyncedExcept
      <4> QED
        BY <4>2 DEF b
  <2> QED
    BY <2>3, <2>4, <2>5
<1>11. rivals # {} <=> \E q \in Slots \ {p} : req[q].op = "sync" /\ s \in req[q].fetched
  OBVIOUS
<1>12. Fetched(p, s, zones, req[p], req'[p])
  <2>1. gone = old \cup Under(old)
    OBVIOUS
  <2> HIDE DEF gone, rivals
  <2> QED
    BY <1>10, <1>11, <2>1 DEF Fetched
<1>13. ASSUME NEW q \in Slots, q # p, req[q].op = "sync" /\ s \in req[q].fetched
       PROVE  req[q] \in Synced /\ Rivalled(req[q], req'[q], s)
  <2>1. req[q] \in Synced
    BY <1>13, FlightKinds DEF Typed, FlightInv
  <2>2. req'[q] = [req[q] EXCEPT !.raced = @ \cup {s}]
    BY <1>8, <1>9, <1>13
  <2> QED
    BY <1>3, <2>1, <2>2 DEF Synced, Rivalled
<1>14. \A q \in Slots : q # p /\ ~(req[q].op = "sync" /\ s \in req[q].fetched) => req'[q] = req[q]
  BY <1>8, <1>9
<1>15. ASSUME NEW q \in Slots
       PROVE  req'[q] \in InFlight
  <2>1. req[q] \in InFlight
    BY DEF Typed, FlightInv
  <2> HIDE DEF gone, rivals, old
  <2> QED
    BY <2>1, <1>10, <1>13, <1>14, InFlightIs DEF Rivalled
<1>16. FlightInv'
  <2> HIDE DEF gone, rivals, old
  <2> QED
    BY <1>8, <1>15 DEF FlightInv
<1> HIDE DEF gone, rivals, old
<1> QED
  BY <1>3, <1>4, <1>12, <1>13, <1>14, <1>16

LEMMA TypedFetch ==
    ASSUME Typed, NEW p \in Slots, FetchSource(p)
    PROVE  Typed'
<1>1. UNCHANGED <<rows, pages, ghosts>>
  BY DEF FetchSource
<1> QED
  BY <1>1, FetchSourceFacts, RowsRest, PagesRest, HistoryRest DEF Typed, ghosts

LEMMA TypedCommitSync ==
    ASSUME Typed, NEW p \in Slots, CommitSync(p)
    PROVE  Typed'
<1> DEFINE kept == boundaries \ req[p].locked
           done == req[p].fetched
<1>1. FlightInv'
  BY FreedStep DEF CommitSync, Typed
<1>2. PagesInv'
  BY PagesRest DEF CommitSync, Typed, pages
<1>3. req[p] \in Synced
  BY FlightKinds DEF CommitSync, Typed, FlightInv
<1>4. /\ incident' = incident /\ stations' = stations /\ dismissal' = dismissal
      /\ wanted' = wanted /\ contested' = contested
  BY DEF CommitSync
<1>5. CASE UNCHANGED <<boundaries, area, newest, mixed, disturbed>>
  BY <1>1, <1>2, <1>4, <1>5, RowsRest, HistoryRest DEF Typed, rows
<1>6. CASE /\ boundaries' = kept \cup req[p].new
           /\ area' = {a \in area : a.boundary \in kept}
           /\ newest' = [s \in Range(Sources) |-> IF s \in done THEN {b \in req[p].new : b.source = s} ELSE newest[s]]
  <2>1. req[p].new \subseteq Boundary
    BY <1>3 DEF Synced
  <2>2. newest' \in [Origin -> SUBSET Boundary]
    BY <1>6, <2>1 DEF Typed, HistoryInv, Origin
  <2>3. HistoryInv'
    BY <1>4, <2>2 DEF Typed, HistoryInv
  <2>4. boundaries' \subseteq Boundary /\ area' \subseteq area /\ \A a \in area' : a.boundary \in boundaries'
    BY <1>6, <2>1 DEF Typed, RowsInv
  <2>5. RowsInv'
    BY <1>4, <2>4, Zenon DEF Typed, RowsInv
  <2> QED
    BY <1>1, <1>2, <2>3, <2>5 DEF Typed
<1> QED
  BY <1>5, <1>6 DEF CommitSync

-----------------------------------------------------------------------------
(* Incidents and their areas.                                              *)

LEMMA CreateFacts ==
    ASSUME Typed, CountInv, NEW p \in Slots, NEW w \in Windows, CreateIncident(p, w)
    PROVE  /\ asked.made + 1 \in Ids /\ opened[w] \in FeedItems \cup {None}
           /\ incident' = [incident EXCEPT ![asked.made + 1] =
                 [status |-> "active", resolvedAt |-> FALSE, item |-> opened[w]]]
           /\ [status |-> "active", resolvedAt |-> FALSE, item |-> opened[w]] \in Incident
           /\ Contest(opened[w], opened[w] # None /\ (Flows(opened[w]) # {} \/ Elsewhere(w, opened[w])))
<1>1. asked.made + 1 \in Ids /\ opened[w] \in FeedItems \cup {None}
  BY DEF CreateIncident, Typed, PagesInv
<1>2. /\ incident' = [incident EXCEPT ![asked.made + 1] =
            [status |-> "active", resolvedAt |-> FALSE, item |-> opened[w]]]
      /\ Contest(opened[w], opened[w] # None /\ (Flows(opened[w]) # {} \/ Elsewhere(w, opened[w])))
  BY DEF CreateIncident
<1>3. [status |-> "active", resolvedAt |-> FALSE, item |-> opened[w]] \in Incident
  BY <1>1 DEF Incident
<1> QED
  BY <1>1, <1>2, <1>3

\* The request that makes incident i in window w: it has an area to choose, or none.
Makes(r, i, w, x, ids) ==
    \/ ids = {} /\ r = Created(i, w, x) /\ r \in Creation
    \/ /\ ids # {} /\ r \in Choice /\ r.op = "choose" /\ r.incident = i /\ r.ids = ids
       /\ r.window = w /\ r.item = x /\ r.alone = TRUE

LEMMA CreateRequest ==
    ASSUME Typed, CountInv, NEW p \in Slots, NEW w \in Windows, CreateIncident(p, w)
    PROVE  \E ids \in SUBSET Boundary : \E r \in InFlight :
              /\ Go(p, r) /\ wanted' = [wanted EXCEPT ![asked.made + 1] = ids]
              /\ Makes(r, asked.made + 1, w, opened[w], ids)
<1> DEFINE i == asked.made + 1
           x == opened[w]
<1>1. i \in Ids /\ x \in FeedItems \cup {None}
  BY CreateFacts
<1>2. PICK ids \in SUBSET choices[w] :
         /\ Go(p, IF ids = {} THEN Created(i, w, x)
                  ELSE [op |-> "choose", incident |-> i, ids |-> ids, window |-> w, item |-> x, alone |-> TRUE])
         /\ wanted' = [wanted EXCEPT ![i] = ids]
  BY DEF CreateIncident
<1>3. ids \in SUBSET Boundary
  BY DEF Typed, PagesInv
<1>4. CASE ids = {}
  <2> DEFINE r == Created(i, w, x)
  <2>1. r \in Creation
    BY <1>1 DEF Creation, Created
  <2>2. Go(p, r) /\ r = Created(i, w, x)
    BY <1>2, <1>4
  <2> HIDE DEF r, i, x
  <2>3. Makes(r, i, w, x, ids) /\ r \in InFlight
    BY <1>4, <2>1, <2>2, InFlightIs DEF Makes
  <2> QED
    BY <1>2, <1>3, <2>2, <2>3 DEF i, x
<1>5. CASE ids # {}
  <2> DEFINE r == [op |-> "choose", incident |-> i, ids |-> ids, window |-> w, item |-> x, alone |-> TRUE]
  <2>1. r \in Choice
    BY <1>1, <1>3 DEF Choice
  <2>2. Go(p, r)
    BY <1>2, <1>5
  <2>3. r.op = "choose" /\ r.incident = i /\ r.ids = ids /\ r.window = w /\ r.item = x /\ r.alone = TRUE
    OBVIOUS
  <2> HIDE DEF r, i, x
  <2>4. Makes(r, i, w, x, ids) /\ r \in InFlight
    BY <1>5, <2>1, <2>3, InFlightIs DEF Makes
  <2> QED
    BY <1>2, <1>3, <2>2, <2>4 DEF i, x
<1> QED
  BY <1>4, <1>5

LEMMA MakesOps ==
    ASSUME NEW r, NEW i, NEW w, NEW x, NEW ids, Makes(r, i, w, x, ids)
    PROVE  /\ r.op \in {"created", "choose"} /\ r.incident = i /\ r.window = w /\ r.item = x
           /\ r.op = "created" => ids = {}
           /\ r.op = "choose" => r \in Choice /\ r.alone = TRUE
BY DEF Makes, Created

\* An incident more, or a changed one, leaves the other rows as they are.
LEMMA RowsIncident ==
    ASSUME RowsInv, NEW i \in Ids, NEW t \in Incident, incident' = [incident EXCEPT ![i] = t],
           UNCHANGED <<boundaries, area, stations, dismissal>>
    PROVE  RowsInv'
<1>1. /\ incident' \in [Ids -> Incident \cup {None}] /\ t # None
      /\ \A j \in Ids : incident[j] # None => incident'[j] # None
  BY IncidentsAssumption DEF RowsInv
<1>2. \A a \in area : a.incident \in Ids
  BY DEF RowsInv, AreaRow
<1>3. \A x \in FeedItems : dismissal[x] # None => dismissal[x].incident \in Ids \cup {None}
  BY DEF RowsInv, Dismissal
<1>4. \A a \in area : incident'[a.incident] # None
  BY <1>1, <1>2 DEF RowsInv
<1>5. \A x \in FeedItems : dismissal[x] # None /\ dismissal[x].incident # None =>
          incident'[dismissal[x].incident] # None
  BY <1>1, <1>3 DEF RowsInv
<1>6. \A k \in Ids, c \in Callsigns : stations[k][c] # None => incident'[k] # None
  BY <1>1 DEF RowsInv
<1> QED
  BY <1>1, <1>4, <1>5, <1>6, Zenon DEF RowsInv

LEMMA TypedCreate ==
    ASSUME Typed, CountInv, NEW p \in Slots, NEW w \in Windows, CreateIncident(p, w)
    PROVE  Typed'
<1> DEFINE i == asked.made + 1
           t == [status |-> "active", resolvedAt |-> FALSE, item |-> opened[w]]
<1>1. i \in Ids /\ t \in Incident /\ incident' = [incident EXCEPT ![i] = t]
  BY CreateFacts
<1>2. UNCHANGED <<boundaries, area, stations, dismissal>> /\ UNCHANGED pages /\ newest' = newest
  BY DEF CreateIncident
<1>3. RowsInv'
  <2> HIDE DEF i, t
  <2> QED
    BY <1>1, <1>2, RowsIncident DEF Typed
<1>4. \E ids \in SUBSET Boundary : \E r \in InFlight : Go(p, r) /\ wanted' = [wanted EXCEPT ![i] = ids]
  BY CreateRequest
<1>5. FlightInv' /\ wanted' \in [Ids -> SUBSET Boundary]
  BY <1>1, <1>4, GoFacts DEF Typed, HistoryInv
<1>6. contested' \subseteq FeedItems
  <2>1. opened[w] \in FeedItems \cup {None}
    BY CreateFacts
  <2>2. contested' = contested \/ (opened[w] # None /\ contested' = contested \cup {opened[w]})
    BY DEF CreateIncident, Contest
  <2> QED
    BY <2>1, <2>2 DEF Typed, HistoryInv
<1>7. HistoryInv'
  BY <1>2, <1>5, <1>6 DEF Typed, HistoryInv
<1> QED
  BY <1>2, <1>3, <1>5, <1>7, PagesRest DEF Typed

\* A request that is no longer alone with its incident.
Crowded(a, b) ==
    /\ b \in InFlight /\ b.op = a.op /\ b.incident = a.incident /\ b.window = a.window /\ b.item = a.item
    /\ b.alone = FALSE /\ b.ids = a.ids
    /\ a.op = "replace" => b.valid = a.valid /\ b.locked = a.locked

LEMMA CrowdedFacts ==
    ASSUME NEW a \in InFlight, a.op \in {"choose", "replace"}
    PROVE  Crowded(a, [a EXCEPT !.alone = FALSE])
<1>1. CASE a.op = "choose"
  <2>1. a \in Choice
    BY <1>1, FlightKinds
  <2>2. [a EXCEPT !.alone = FALSE] \in Choice
    BY <2>1 DEF Choice
  <2> QED
    BY <1>1, <2>1, <2>2, InFlightIs DEF Crowded, Choice
<1>2. CASE a.op = "replace"
  <2>1. a \in Replacement
    BY <1>2, FlightKinds
  <2>2. [a EXCEPT !.alone = FALSE] \in Replacement
    BY <2>1 DEF Replacement
  <2> QED
    BY <1>2, <2>1, <2>2, InFlightIs DEF Crowded, Replacement
<1> QED
  BY <1>1, <1>2

LEMMA ChoosingFacts ==
    ASSUME FlightInv, NEW p \in Slots, NEW i \in Ids, NEW r \in InFlight, Choosing(p, i, r)
    PROVE  /\ FlightInv' /\ req'[p] = r
           /\ \A q \in Slots : q # p =>
                 IF q \in Replacing(i) THEN Crowded(req[q], req'[q]) ELSE req'[q] = req[q]
<1>1. /\ req'[p] = r
      /\ \A q \in Slots : q # p =>
            req'[q] = IF q \in Replacing(i) THEN [req[q] EXCEPT !.alone = FALSE] ELSE req[q]
      /\ req' = [q \in Slots |-> req'[q]]
  BY DEF Choosing
<1>2. ASSUME NEW q \in Slots, q # p, q \in Replacing(i)
      PROVE  Crowded(req[q], req'[q])
  <2>1. req[q] \in InFlight /\ req[q].op \in {"choose", "replace"}
    BY <1>2 DEF FlightInv, Replacing
  <2> QED
    BY <1>1, <1>2, <2>1, CrowdedFacts
<1>3. \A q \in Slots : req'[q] \in InFlight
  BY <1>1, <1>2 DEF FlightInv, Crowded
<1> QED
  BY <1>1, <1>2, <1>3 DEF FlightInv

LEMMA EditFacts ==
    ASSUME Typed, NEW p \in Slots, NEW w \in Windows, NEW i \in Ids, EditArea(p, w, i)
    PROVE  \E r \in Choice : /\ Choosing(p, i, r) /\ r.op = "choose" /\ r.incident = i /\ r.window = None
                             /\ r.item = None /\ (r.alone => Replacing(i) = {})
<1>1. PICK ids \in SUBSET choices[w] :
        Choosing(p, i, [op |-> "choose", incident |-> i, ids |-> ids, window |-> None,
                        item |-> None, alone |-> Replacing(i) = {}])
  BY DEF EditArea
<1>2. ids \in SUBSET Boundary
  BY DEF Typed, PagesInv
<1> DEFINE single == Replacing(i) = {}
           r == [op |-> "choose", incident |-> i, ids |-> ids, window |-> None,
                 item |-> None, alone |-> single]
<1>3. single \in BOOLEAN /\ (single => Replacing(i) = {})
  OBVIOUS
<1>4. Choosing(p, i, r)
  BY <1>1
<1> HIDE DEF single
<1>5. r \in Choice
  BY <1>2, <1>3 DEF Choice
<1>6. r.op = "choose" /\ r.incident = i /\ r.window = None /\ r.item = None /\ r.alone = single
  OBVIOUS
<1> HIDE DEF r
<1> QED
  BY <1>3, <1>4, <1>5, <1>6

LEMMA TypedEdit ==
    ASSUME Typed, NEW p \in Slots, NEW w \in Windows, NEW i \in Ids, EditArea(p, w, i)
    PROVE  Typed'
<1>1. FlightInv'
  BY EditFacts, ChoosingFacts, InFlightIs DEF Typed
<1> QED
  BY <1>1, RowsRest, PagesRest, HistoryRest DEF Typed, EditArea, ghosts

LEMMA SelectFacts ==
    ASSUME Typed, NEW p \in Slots, SelectZones(p)
    PROVE  /\ req[p] \in Choice
           /\ \E r \in Replacement :
                 /\ Go(p, r) /\ r.op = "replace" /\ r.incident = req[p].incident /\ r.ids = req[p].ids
                 /\ r.window = req[p].window /\ r.item = req[p].item /\ r.alone = req[p].alone
                 /\ r.locked = AreaOf(req[p].incident)
<1>1. req[p] \in Choice
  BY FlightKinds DEF SelectZones, Typed, FlightInv
<1> DEFINE old == AreaOf(req[p].incident)
           valid == req[p].ids \cap boundaries
           holders == Holders(p, old)
           r == [op |-> "replace", incident |-> req[p].incident, ids |-> req[p].ids, valid |-> valid,
                 window |-> req[p].window, item |-> req[p].item, alone |-> req[p].alone,
                 locked |-> old, after |-> holders]
<1>2. old \subseteq AreaRow /\ holders \subseteq Slots
  BY DEF AreaOf, Typed, RowsInv, Holders
<1>3. valid \subseteq Boundary
  BY DEF Typed, RowsInv
<1>4. Go(p, r)
  BY DEF SelectZones
<1>5. r.locked = AreaOf(req[p].incident)
  OBVIOUS
<1> HIDE DEF old, valid, holders
<1>6. r \in Replacement
  BY <1>1, <1>2, <1>3 DEF Choice, Replacement
<1>7. /\ r.op = "replace" /\ r.incident = req[p].incident /\ r.ids = req[p].ids
      /\ r.window = req[p].window /\ r.item = req[p].item /\ r.alone = req[p].alone
  OBVIOUS
<1> HIDE DEF r
<1> QED
  BY <1>1, <1>4, <1>5, <1>6, <1>7

LEMMA TypedSelect ==
    ASSUME Typed, NEW p \in Slots, SelectZones(p)
    PROVE  Typed'
<1>1. \E r \in InFlight : Go(p, r)
  BY SelectFacts, InFlightIs
<1>2. UNCHANGED <<rows, pages, newest, wanted, contested>>
  BY DEF SelectZones, ghosts
<1> QED
  BY <1>1, <1>2, TypedGo

\* The area's request goes, or goes on to the page that was making an incident.
LEMMA ChosenFacts ==
    ASSUME Typed, NEW p \in Slots, req[p].op = "replace", Chosen(p)
    PROVE  /\ req[p] \in Replacement /\ FlightInv'
           /\ \A q \in Slots : q # p => Resumed(req[q], req'[q])
           /\ req[p].window = None => req'[p] = NoRequest
           /\ req[p].window # None => /\ req'[p] = Created(req[p].incident, req[p].window, req[p].item)
                                      /\ req'[p] \in Creation
<1>1. req[p] \in Replacement
  BY FlightKinds DEF Typed, FlightInv
<1>2. CASE req[p].window = None
  <2>1. req' = Freed(p)
    BY <1>2 DEF Chosen
  <2> QED
    BY <1>1, <1>2, <2>1, FreedStep DEF Typed
<1>3. CASE req[p].window # None
  <2> DEFINE r == Created(req[p].incident, req[p].window, req[p].item)
             f == Freed(p)
  <2>1. r \in Creation
    BY <1>1, <1>3 DEF Created, Creation, Replacement
  <2>2. req' = [f EXCEPT ![p] = r]
    BY <1>3 DEF Chosen
  <2>3. f \in [Slots -> InFlight] /\ \A q \in Slots : q # p => Resumed(req[q], f[q])
    BY FreedFacts DEF Typed
  <2>4. r = Created(req[p].incident, req[p].window, req[p].item)
    OBVIOUS
  <2> HIDE DEF r, f
  <2>5. req'[p] = r /\ FlightInv' /\ \A q \in Slots : q # p => Resumed(req[q], req'[q])
    BY <2>1, <2>2, <2>3, InFlightIs DEF FlightInv
  <2> QED
    BY <1>1, <1>3, <2>1, <2>4, <2>5
<1> QED
  BY <1>2, <1>3

LEMMA TypedReplace ==
    ASSUME Typed, NEW p \in Slots, ReplaceZones(p)
    PROVE  Typed'
<1> DEFINE i == req[p].incident
           new == Pairs(i, req[p].valid)
           kept == area \ req[p].locked
<1>1. req[p] \in Replacement /\ FlightInv'
  BY ChosenFacts DEF ReplaceZones
<1>2. i \in Ids /\ incident[i] # None /\ req[p].valid \subseteq boundaries /\ area' = kept \cup new
  BY <1>1 DEF Replacement, ReplaceZones
<1>3. /\ boundaries' = boundaries /\ incident' = incident /\ stations' = stations /\ dismissal' = dismissal
      /\ wanted' = [wanted EXCEPT ![i] = req[p].ids] /\ newest' = newest /\ contested' = contested
      /\ UNCHANGED pages
  BY DEF ReplaceZones, Chosen
<1>4. new \subseteq AreaRow /\ \A a \in new : incident[a.incident] # None /\ a.boundary \in boundaries
  BY <1>2 DEF Pairs, AreaRow, Typed, RowsInv
<1>5. area' \subseteq AreaRow /\ \A a \in area' : incident[a.incident] # None /\ a.boundary \in boundaries
  <2> HIDE DEF new
  <2> QED
    BY <1>2, <1>4 DEF Typed, RowsInv
<1>6. RowsInv'
  BY <1>3, <1>5, Zenon DEF Typed, RowsInv
<1>7. req[p].ids \in SUBSET Boundary
  BY <1>1 DEF Replacement
<1>8. HistoryInv'
  BY <1>2, <1>3, <1>7 DEF Typed, HistoryInv
<1> QED
  BY <1>1, <1>3, <1>6, <1>8, PagesRest DEF Typed

LEMMA LoadStatusFacts ==
    ASSUME Typed, NEW p \in Slots, NEW i \in Ids, NEW status \in {"active", "resolved"}, LoadStatus(p, i, status)
    PROVE  \E r \in Turn : Go(p, r) /\ r.op = "status"
<1>1. incident[i] \in Incident
  BY DEF LoadStatus, Typed, RowsInv
<1> DEFINE r == [op |-> "status", incident |-> i, seen |-> incident[i], status |-> status]
<1>2. r \in Turn /\ r.op = "status"
  BY <1>1 DEF Turn
<1>3. Go(p, r)
  BY DEF LoadStatus
<1> HIDE DEF r
<1> QED
  BY <1>2, <1>3

LEMMA TypedLoadStatus ==
    ASSUME Typed, NEW p \in Slots, NEW i \in Ids, NEW status \in {"active", "resolved"}, LoadStatus(p, i, status)
    PROVE  Typed'
<1>1. UNCHANGED <<rows, pages, newest, wanted, contested>>
  BY DEF LoadStatus, ghosts
<1> QED
  BY <1>1, LoadStatusFacts, TypedGo, InFlightIs

\* What a change of the status leaves of the row it saw and of the row it found.
LEMMA CommitStatusFacts ==
    ASSUME Typed, NEW p \in Slots, CommitStatus(p)
    PROVE  /\ req[p] \in Turn /\ incident[req[p].incident] \in Incident
           /\ \E t \in Incident :
                 /\ incident' = [incident EXCEPT ![req[p].incident] = t]
                 /\ t.item = incident[req[p].incident].item
                 /\ incident[req[p].incident] = req[p].seen => t.status = req[p].status
                 /\ req[p].status = "resolved" => t.resolvedAt = TRUE
                 /\ req[p].status # "resolved" /\ req[p].seen.resolvedAt => t.resolvedAt = FALSE
                 /\ req[p].status # "resolved" /\ ~req[p].seen.resolvedAt =>
                       t.resolvedAt = incident[req[p].incident].resolvedAt
<1> DEFINE i == req[p].incident
           seen == req[p].seen
           old == incident[i]
           s == IF seen.status # req[p].status THEN req[p].status ELSE old.status
           at == IF req[p].status = "resolved" THEN TRUE ELSE IF seen.resolvedAt THEN FALSE ELSE old.resolvedAt
           t == [old EXCEPT !.status = s, !.resolvedAt = at]
<1>1. req[p] \in Turn
  BY FlightKinds DEF CommitStatus, Typed, FlightInv
<1>2. i \in Ids /\ seen \in Incident /\ req[p].status \in {"active", "resolved"}
  BY <1>1 DEF Turn
<1>3. incident \in [Ids -> Incident \cup {None}] /\ incident[i] # None
  BY DEF CommitStatus, Typed, RowsInv
<1>4. old \in Incident
  BY <1>2, <1>3
<1>5. /\ seen.resolvedAt \in BOOLEAN /\ old.resolvedAt \in BOOLEAN
      /\ old.status \in {"active", "resolved"} /\ old.item \in FeedItems \cup {None}
  BY <1>2, <1>4 DEF Incident
<1>6. at \in BOOLEAN /\ s \in {"active", "resolved"}
  BY <1>2, <1>5
<1>7. incident' = [incident EXCEPT ![i].status = s, ![i].resolvedAt = at]
  BY DEF CommitStatus
<1>8. /\ seen = old => s = req[p].status
      /\ req[p].status = "resolved" => at = TRUE
      /\ req[p].status # "resolved" /\ seen.resolvedAt => at = FALSE
      /\ req[p].status # "resolved" /\ ~seen.resolvedAt => at = old.resolvedAt
  OBVIOUS
<1> HIDE DEF s, at
<1>9. incident' = [incident EXCEPT ![i] = t]
  BY <1>2, <1>3, <1>7
<1>10. t \in Incident /\ t.item = old.item /\ t.status = s /\ t.resolvedAt = at
  <2> HIDE DEF old
  <2> QED
    BY <1>4, <1>6 DEF Incident
<1> HIDE DEF t
<1> QED
  BY <1>1, <1>4, <1>8, <1>9, <1>10

LEMMA TypedCommitStatus ==
    ASSUME Typed, NEW p \in Slots, CommitStatus(p)
    PROVE  Typed'
<1>1. req[p].incident \in Ids
  BY CommitStatusFacts DEF Turn
<1>2. UNCHANGED <<boundaries, area, stations, dismissal>> /\ UNCHANGED pages /\ UNCHANGED <<newest, wanted, contested>>
  BY DEF CommitStatus
<1>3. PICK t \in Incident : incident' = [incident EXCEPT ![req[p].incident] = t]
  BY CommitStatusFacts
<1>4. RowsInv'
  BY <1>1, <1>2, <1>3, RowsIncident DEF Typed
<1>5. FlightInv'
  BY FreedStep DEF Typed, CommitStatus
<1> QED
  BY <1>2, <1>4, <1>5, PagesRest, HistoryRest DEF Typed

LEMMA TypedDelete ==
    ASSUME Typed, NEW i \in Ids, DeleteIncident(i)
    PROVE  Typed'
<1>1. /\ boundaries' = boundaries /\ incident' = [incident EXCEPT ![i] = None] /\ area' = area \ AreaOf(i)
      /\ stations' = [stations EXCEPT ![i] = [c \in Callsigns |-> None]]
      /\ UNCHANGED pages /\ req' = req /\ UNCHANGED <<newest, wanted, contested>>
  BY DEF DeleteIncident, ghosts
<1>2. incident' \in [Ids -> Incident \cup {None}] /\ stations' \in [Ids -> [Callsigns -> StationRow \cup {None}]]
  BY <1>1 DEF Typed, RowsInv
<1>3. \A k \in Ids, c \in Callsigns : stations'[k][c] # None => incident'[k] # None
  BY <1>1 DEF Typed, RowsInv
<1>4. /\ area' \subseteq AreaRow
      /\ \A a \in area' : a.incident \in Ids /\ a.incident # i /\ incident'[a.incident] # None /\ a.boundary \in boundaries
  BY <1>1 DEF Typed, RowsInv, AreaOf, AreaRow
<1>5. ASSUME NEW x \in FeedItems
      PROVE  /\ dismissal'[x] \in Dismissal \cup {None}
             /\ dismissal'[x] # None /\ dismissal'[x].incident # None =>
                   dismissal'[x].status = "created" /\ incident'[dismissal'[x].incident] # None
  <2>1. dismissal'[x] = IF dismissal[x] # None /\ dismissal[x].incident = i
                        THEN [dismissal[x] EXCEPT !.incident = None] ELSE dismissal[x]
    BY DEF DeleteIncident
  <2>2. dismissal[x] \in Dismissal \cup {None}
    BY DEF Typed, RowsInv
  <2>3. CASE dismissal[x] = None
    BY <2>1, <2>3
  <2>4. CASE dismissal[x] # None /\ dismissal[x].incident = i
    <3>1. dismissal'[x] \in Dismissal /\ dismissal'[x].incident = None
      BY <2>1, <2>2, <2>4 DEF Dismissal
    <3> QED
      BY <3>1
  <2>5. CASE dismissal[x] # None /\ dismissal[x].incident # i
    <3>1. dismissal'[x] = dismissal[x] /\ dismissal[x].incident \in Ids \cup {None}
      BY <2>1, <2>2, <2>5 DEF Dismissal
    <3>2. dismissal[x].incident # None =>
             dismissal[x].status = "created" /\ incident[dismissal[x].incident] # None
      BY <2>5 DEF Typed, RowsInv
    <3>3. \A k \in Ids : k # i => incident'[k] = incident[k]
      BY <1>1 DEF Typed, RowsInv
    <3> QED
      BY <2>2, <2>5, <3>1, <3>2, <3>3
  <2> QED
    BY <2>3, <2>4, <2>5
<1>6. dismissal' = [x \in FeedItems |-> dismissal'[x]]
  BY DEF DeleteIncident
<1>7. dismissal' \in [FeedItems -> Dismissal \cup {None}]
  BY <1>5, <1>6
<1>8. RowsInv'
  BY <1>1, <1>2, <1>3, <1>4, <1>5, <1>7, Zenon DEF Typed, RowsInv
<1> QED
  BY <1>1, <1>8, PagesRest, HistoryRest DEF Typed, FlightInv

-----------------------------------------------------------------------------
(* Stations.                                                               *)

LEMMA ScanFacts ==
    ASSUME Typed, NEW p \in Slots, NEW i \in Ids, LoadScan(p, i) \/ \E c \in Callsigns : LoadAddStation(p, i, c)
    PROVE  \E r \in Scan : Go(p, r) /\ r.op = "scan"
<1>1. CASE LoadScan(p, i)
  <2>1. PICK reported \in SUBSET Callsigns, inside \in SUBSET Callsigns :
           Go(p, [op |-> "scan", incident |-> i,
                  new |-> {c \in reported \cup inside : stations[i][c] = None},
                  reason |-> [c \in Callsigns |-> IF c \in reported THEN "zone_report" ELSE "position"]])
    BY <1>1 DEF LoadScan
  <2> DEFINE new == {c \in reported \cup inside : stations[i][c] = None}
             reason == [c \in Callsigns |-> IF c \in reported THEN "zone_report" ELSE "position"]
             r == [op |-> "scan", incident |-> i, new |-> new, reason |-> reason]
  <2>2. new \in SUBSET Callsigns /\ reason \in [Callsigns -> Reasons]
    BY DEF Reasons
  <2>3. Go(p, r)
    BY <2>1
  <2> HIDE DEF new, reason
  <2>4. r \in Scan /\ r.op = "scan"
    BY <2>2 DEF Scan
  <2> HIDE DEF r
  <2> QED
    BY <2>3, <2>4
<1>2. CASE \E c \in Callsigns : LoadAddStation(p, i, c)
  <2>1. PICK c \in Callsigns : LoadAddStation(p, i, c)
    BY <1>2
  <2> DEFINE new == {c}
             reason == [d \in Callsigns |-> "manual"]
             r == [op |-> "scan", incident |-> i, new |-> new, reason |-> reason]
  <2>2. new \in SUBSET Callsigns /\ reason \in [Callsigns -> Reasons]
    BY DEF Reasons
  <2>3. Go(p, r)
    BY <2>1 DEF LoadAddStation
  <2> HIDE DEF new, reason
  <2>4. r \in Scan /\ r.op = "scan"
    BY <2>2 DEF Scan
  <2> HIDE DEF r
  <2> QED
    BY <2>3, <2>4
<1> QED
  BY <1>1, <1>2

LEMMA RowsStations ==
    ASSUME RowsInv, UNCHANGED <<boundaries, incident, area, dismissal>>,
           stations' \in [Ids -> [Callsigns -> StationRow \cup {None}]],
           \A k \in Ids, c \in Callsigns : stations'[k][c] # None => incident[k] # None
    PROVE  RowsInv'
BY Zenon DEF RowsInv

LEMMA TypedCommitStations ==
    ASSUME Typed, NEW p \in Slots, CommitStations(p)
    PROVE  Typed'
<1> DEFINE i == req[p].incident
           n == [c \in Callsigns |-> IF c \in req[p].new THEN Station(req[p].reason[c]) ELSE stations[i][c]]
<1>1. req[p] \in Scan
  BY FlightKinds DEF CommitStations, Typed, FlightInv
<1>2. i \in Ids /\ incident[i] # None /\ req[p].reason \in [Callsigns -> Reasons]
  BY <1>1 DEF Scan, CommitStations
<1>3. \A c \in Callsigns : Station(req[p].reason[c]) \in StationRow
  BY <1>2 DEF Station, StationRow, Statuses
<1>4. n \in [Callsigns -> StationRow \cup {None}]
  BY <1>2, <1>3 DEF Typed, RowsInv
<1>5. stations' = [stations EXCEPT ![i] = n]
  BY DEF CommitStations
<1> HIDE DEF n
<1>6. stations' \in [Ids -> [Callsigns -> StationRow \cup {None}]]
  BY <1>2, <1>4, <1>5 DEF Typed, RowsInv
<1>7. \A k \in Ids, c \in Callsigns : stations'[k][c] # None => incident[k] # None
  BY <1>2, <1>5 DEF Typed, RowsInv
<1>8. UNCHANGED <<boundaries, incident, area, dismissal>> /\ UNCHANGED pages /\ UNCHANGED <<newest, wanted, contested>>
  BY DEF CommitStations, ghosts
<1> QED
  BY <1>6, <1>7, <1>8, RowsStations, PagesRest, HistoryRest, FreedStep DEF Typed, CommitStations

LEMMA TypedSetStation ==
    ASSUME Typed, NEW i \in Ids, NEW c \in Callsigns,
           DeleteStation(i, c) \/ \E s \in Statuses : SetStation(i, c, s)
    PROVE  Typed'
<1>1. \E t \in StationRow \cup {None} : stations' = [stations EXCEPT ![i][c] = t]
  <2>1. CASE DeleteStation(i, c)
    BY <2>1 DEF DeleteStation
  <2>2. ASSUME NEW s \in Statuses, SetStation(i, c, s)
        PROVE  \E t \in StationRow \cup {None} : stations' = [stations EXCEPT ![i][c] = t]
    <3>1. stations[i][c] \in StationRow
      BY <2>2 DEF SetStation, Typed, RowsInv
    <3>2. [stations[i][c] EXCEPT !.status = s] \in StationRow
      BY <3>1 DEF StationRow
    <3>3. stations' = [stations EXCEPT ![i][c] = [stations[i][c] EXCEPT !.status = s]]
      BY <2>2 DEF SetStation, Typed, RowsInv
    <3> QED
      BY <3>2, <3>3
  <2> QED
    BY <2>1, <2>2
<1>2. incident[i] # None
  BY DEF Typed, RowsInv, DeleteStation, SetStation
<1>3. stations' \in [Ids -> [Callsigns -> StationRow \cup {None}]]
  BY <1>1 DEF Typed, RowsInv
<1>4. \A k \in Ids, d \in Callsigns : stations'[k][d] # None => incident[k] # None
  BY <1>1, <1>2 DEF Typed, RowsInv
<1>5. /\ UNCHANGED <<boundaries, incident, area, dismissal>> /\ UNCHANGED pages /\ UNCHANGED <<newest, wanted, contested>>
      /\ req' = req
  BY DEF DeleteStation, SetStation, ghosts
<1> QED
  BY <1>3, <1>4, <1>5, RowsStations, PagesRest, HistoryRest DEF Typed, FlightInv

-----------------------------------------------------------------------------
(* The hazard feed.                                                        *)

LEMMA TypedLoadZones ==
    ASSUME Typed, NEW w \in Windows, LoadZones(w)
    PROVE  Typed'
<1>1. choices' \in [Windows -> SUBSET Boundary]
  BY DEF LoadZones, Typed, RowsInv, PagesInv
<1>2. UNCHANGED rows /\ UNCHANGED <<shows, opened, req, newest, wanted, contested>>
  BY DEF LoadZones, ghosts
<1> QED
  BY <1>1, <1>2, RowsRest, HistoryRest DEF Typed, PagesInv, FlightInv

LEMMA LoadFeedFacts ==
    ASSUME Typed, NEW p \in Slots, NEW w \in Windows, LoadFeed(p, w)
    PROVE  \E r \in Feed :
              /\ Go(p, r) /\ r.op = "feed" /\ \A x \in r.got : dismissal[x] = None
              /\ contested' = contested \cup {x \in r.got : Flows(x) # {}}
<1>1. PICK offered \in Offers :
        LET got == {x \in offered : dismissal[x] = None} IN
        /\ Go(p, [op |-> "feed", got |-> got, window |-> w])
        /\ contested' = contested \cup {x \in got : Flows(x) # {}}
  BY DEF LoadFeed
<1> DEFINE got == {x \in offered : dismissal[x] = None}
           r == [op |-> "feed", got |-> got, window |-> w]
<1>2. got \in SUBSET FeedItems /\ \A x \in got : dismissal[x] = None
  BY DEF Offers
<1>3. Go(p, r) /\ contested' = contested \cup {x \in got : Flows(x) # {}}
  BY <1>1
<1> HIDE DEF got
<1>4. r \in Feed /\ r.op = "feed" /\ r.got = got
  BY <1>2 DEF Feed
<1> HIDE DEF r
<1> QED
  BY <1>2, <1>3, <1>4

LEMMA TypedLoadFeed ==
    ASSUME Typed, NEW p \in Slots, NEW w \in Windows, LoadFeed(p, w)
    PROVE  Typed'
<1>1. PICK r \in Feed : Go(p, r) /\ contested' = contested \cup {x \in r.got : Flows(x) # {}}
  BY LoadFeedFacts
<1>2. r.got \subseteq FeedItems /\ r \in InFlight
  BY InFlightIs DEF Feed
<1>3. UNCHANGED rows /\ UNCHANGED pages /\ newest' = newest /\ wanted' = wanted
  BY DEF LoadFeed
<1>4. HistoryInv'
  BY <1>1, <1>2, <1>3 DEF Typed, HistoryInv
<1> QED
  BY <1>1, <1>2, <1>3, <1>4, RowsRest, PagesRest, GoFacts DEF Typed

LEMMA TypedShowFeed ==
    ASSUME Typed, NEW p \in Slots, ShowFeed(p)
    PROVE  Typed' /\ req[p] \in Feed
<1>1. req[p] \in Feed
  BY FlightKinds DEF ShowFeed, Typed, FlightInv
<1>2. shows' \in [Windows -> SUBSET FeedItems]
  BY <1>1 DEF ShowFeed, Typed, PagesInv, Feed
<1>3. UNCHANGED rows /\ UNCHANGED <<choices, opened, newest, wanted, contested>>
  BY DEF ShowFeed, ghosts
<1> QED
  BY <1>1, <1>2, <1>3, RowsRest, HistoryRest, FreedStep DEF Typed, PagesInv, ShowFeed

LEMMA TypedForm ==
    ASSUME Typed, NEW w \in Windows, CloseForm(w) \/ \E x \in FeedItems : OpenForm(w, x)
    PROVE  Typed'
<1>1. opened' \in [Windows -> FeedItems \cup {None}]
  BY DEF Typed, PagesInv, CloseForm, OpenForm
<1>2. contested' \subseteq FeedItems
  BY DEF Typed, HistoryInv, CloseForm, OpenForm, Contest, ghosts
<1>3. UNCHANGED rows /\ UNCHANGED <<shows, choices, req, newest, wanted>>
  BY DEF CloseForm, OpenForm, ghosts
<1> QED
  BY <1>1, <1>2, <1>3, RowsRest DEF Typed, PagesInv, HistoryInv, FlightInv

LEMMA MarkFacts ==
    ASSUME Typed, NEW p \in Slots, MarkItem(p)
    PROVE  /\ req[p] \in Creation /\ opened' = [opened EXCEPT ![req[p].window] = None]
           /\ req[p].item = None => req' = Freed(p)
           /\ req[p].item # None => \E r \in Dismissing :
                 /\ Go(p, r) /\ r.op = "dismiss" /\ r.item = req[p].item /\ r.incident = req[p].incident
                 /\ r.window = req[p].window
<1>1. req[p] \in Creation
  BY FlightKinds DEF MarkItem, Typed, FlightInv
<1>2. ASSUME req[p].item # None
      PROVE  \E r \in Dismissing :
                 /\ Go(p, r) /\ r.op = "dismiss" /\ r.item = req[p].item /\ r.incident = req[p].incident
                 /\ r.window = req[p].window
  <2> DEFINE r == [op |-> "dismiss", item |-> req[p].item, incident |-> req[p].incident,
                   window |-> req[p].window]
  <2>1. r \in Dismissing
    BY <1>1, <1>2 DEF Creation, Dismissing
  <2>2. Go(p, r)
    BY <1>2 DEF MarkItem
  <2>3. /\ r.op = "dismiss" /\ r.item = req[p].item /\ r.incident = req[p].incident
        /\ r.window = req[p].window
    OBVIOUS
  <2> HIDE DEF r
  <2> QED
    BY <2>1, <2>2, <2>3
<1> QED
  BY <1>1, <1>2 DEF MarkItem

LEMMA TypedMark ==
    ASSUME Typed, NEW p \in Slots, MarkItem(p)
    PROVE  Typed'
<1>1. opened' \in [Windows -> FeedItems \cup {None}]
  BY MarkFacts DEF Typed, PagesInv, Creation
<1>2. FlightInv'
  BY MarkFacts, FreedStep, GoFacts, InFlightIs DEF Typed
<1>3. UNCHANGED rows /\ UNCHANGED <<shows, choices, newest, wanted, contested>>
  BY DEF MarkItem, ghosts
<1> QED
  BY <1>1, <1>2, <1>3, RowsRest, HistoryRest DEF Typed, PagesInv

LEMMA DismissFacts ==
    ASSUME Typed, NEW p \in Slots, NEW w \in Windows, NEW x \in FeedItems, Dismiss(p, w, x)
    PROVE  \E r \in Dismissing :
              Go(p, r) /\ r.op = "dismiss" /\ r.item = x /\ r.incident = None /\ r.window = w
<1> DEFINE r == [op |-> "dismiss", item |-> x, incident |-> None, window |-> w]
<1>1. Go(p, r)
  BY DEF Dismiss
<1>2. r \in Dismissing /\ r.op = "dismiss" /\ r.item = x /\ r.incident = None /\ r.window = w
  BY DEF Dismissing
<1> HIDE DEF r
<1> QED
  BY <1>1, <1>2

LEMMA TypedDismiss ==
    ASSUME Typed, NEW p \in Slots, NEW w \in Windows, NEW x \in FeedItems, Dismiss(p, w, x)
    PROVE  Typed'
<1>1. FlightInv'
  BY DismissFacts, GoFacts, InFlightIs DEF Typed
<1>2. contested' \subseteq FeedItems
  BY DEF Typed, HistoryInv, Dismiss, Contest
<1> QED
  BY <1>1, <1>2, RowsRest, PagesRest DEF Typed, Dismiss, HistoryInv

LEMMA SelectDismissalFacts ==
    ASSUME Typed, NEW p \in Slots, SelectDismissal(p)
    PROVE  /\ req[p] \in Dismissing
           /\ \E r \in Marking :
                 /\ Go(p, r) /\ r.op = "mark" /\ r.item = req[p].item /\ r.incident = req[p].incident
                 /\ r.window = req[p].window
<1> DEFINE found == dismissal[req[p].item] # None
           r == [op |-> "mark", item |-> req[p].item, incident |-> req[p].incident,
                 window |-> req[p].window, found |-> found]
<1>1. req[p] \in Dismissing
  BY FlightKinds DEF SelectDismissal, Typed, FlightInv
<1>2. Go(p, r) /\ found \in BOOLEAN
  BY DEF SelectDismissal
<1> HIDE DEF found
<1>3. r \in Marking
  BY <1>1, <1>2 DEF Marking, Dismissing
<1>4. r.op = "mark" /\ r.item = req[p].item /\ r.incident = req[p].incident /\ r.window = req[p].window
  OBVIOUS
<1> HIDE DEF r
<1> QED
  BY <1>1, <1>2, <1>3, <1>4

LEMMA TypedSelectDismissal ==
    ASSUME Typed, NEW p \in Slots, SelectDismissal(p)
    PROVE  Typed'
<1>1. \E r \in InFlight : Go(p, r)
  BY SelectDismissalFacts, InFlightIs
<1>2. UNCHANGED <<rows, pages, newest, wanted, contested>>
  BY DEF SelectDismissal, ghosts
<1> QED
  BY <1>1, <1>2, TypedGo

LEMMA TypedCommitDismissal ==
    ASSUME Typed, NEW p \in Slots, CommitDismissal(p)
    PROVE  Typed' /\ req[p] \in Marking
<1> DEFINE x == req[p].item
           m == Marked(p)
<1>1. req[p] \in Marking
  BY FlightKinds DEF CommitDismissal, Typed, FlightInv
<1>2. x \in FeedItems /\ req[p].incident \in Ids \cup {None} /\ req[p].window \in Windows
  BY <1>1 DEF Marking
<1>3. m \in Dismissal /\ m.incident = req[p].incident /\ (m.incident # None => m.status = "created")
  BY <1>2 DEF Marked, Dismissal
<1>4. dismissal' = [dismissal EXCEPT ![x] = m] /\ (req[p].incident # None => incident[req[p].incident] # None)
  BY DEF CommitDismissal
<1>5. UNCHANGED <<boundaries, incident, area, stations, choices, opened>> /\ UNCHANGED <<newest, wanted, contested>>
      /\ req' = Freed(p) /\ shows' = [shows EXCEPT ![req[p].window] = @ \ {x}]
  BY DEF CommitDismissal, Handled, ghosts
<1> HIDE DEF m, x
<1>6. /\ dismissal' \in [FeedItems -> Dismissal \cup {None}]
      /\ \A y \in FeedItems : dismissal'[y] # None /\ dismissal'[y].incident # None =>
          dismissal'[y].status = "created" /\ incident[dismissal'[y].incident] # None
  <2>1. dismissal' \in [FeedItems -> Dismissal \cup {None}]
    BY <1>2, <1>3, <1>4 DEF Typed, RowsInv
  <2>2. dismissal'[x] = m
    BY <1>2, <1>4 DEF Typed, RowsInv
  <2>3. \A y \in FeedItems : y # x => dismissal'[y] = dismissal[y]
    BY <1>4 DEF Typed, RowsInv
  <2> QED
    BY <1>3, <1>4, <2>1, <2>2, <2>3 DEF Typed, RowsInv
<1>7. RowsInv'
  BY <1>5, <1>6, Zenon DEF Typed, RowsInv
<1>8. shows' \in [Windows -> SUBSET FeedItems]
  BY <1>2, <1>5 DEF Typed, PagesInv
<1>9. PagesInv'
  BY <1>5, <1>8 DEF Typed, PagesInv
<1> QED
  BY <1>1, <1>5, <1>7, <1>9, HistoryRest, FreedStep DEF Typed

LEMMA TypedFail ==
    ASSUME Typed, NEW p \in Slots, Fail(p)
    PROVE  Typed'
<1>1. contested' \subseteq FeedItems
  BY DEF Fail, Typed, HistoryInv
<1> QED
  BY <1>1, RowsRest, PagesRest, FreedStep DEF Typed, HistoryInv, Fail

-----------------------------------------------------------------------------
(* All of it, in every step.                                               *)

\* The steps, one by one, whoever takes them.
LEMMA Steps ==
    ASSUME IncidentsNext
    PROVE  \/ \E p \in Slots :
                 \/ /\ req[p] = NoRequest
                    /\ \/ Ask("syncs", MaxSyncs) /\ Sync(p)
                       \/ Ask("made", MaxIncidents) /\ \E w \in Windows : CreateIncident(p, w)
                       \/ Ask("areas", MaxOf) /\ \E w \in Windows, i \in Ids : EditArea(p, w, i)
                       \/ Ask("status", MaxOf) /\ \E i \in Ids, s \in {"active", "resolved"} : LoadStatus(p, i, s)
                       \/ /\ Ask("stations", MaxOf) /\ UNCHANGED <<rows, pages, ghosts>>
                          /\ \E i \in Ids : LoadScan(p, i) \/ \E c \in Callsigns : LoadAddStation(p, i, c)
                       \/ Ask("feed", MaxOf) /\ \E w \in Windows : LoadFeed(p, w)
                       \/ Ask("feed", MaxOf) /\ \E w \in Windows, x \in FeedItems : Dismiss(p, w, x)
                 \/ FetchSource(p) \/ CommitSync(p) \/ SelectZones(p) \/ ReplaceZones(p)
                 \/ CommitStatus(p) \/ CommitStations(p)
                 \/ ShowFeed(p) \/ MarkItem(p) \/ SelectDismissal(p) \/ CommitDismissal(p)
                 \/ Fail(p)
           \/ Ask("status", MaxOf) /\ \E i \in Ids : DeleteIncident(i)
           \/ /\ Ask("stations", MaxOf)
              /\ \E i \in Ids, c \in Callsigns : DeleteStation(i, c) \/ \E s \in Statuses : SetStation(i, c, s)
           \/ \E w \in Windows : LoadZones(w)
           \/ \E w \in Windows : CloseForm(w) \/ \E x \in FeedItems : OpenForm(w, x)
BY Zenon DEF IncidentsNext, AskAbout, AtOnce

LEMMA AskCounts ==
    ASSUME CountInv, NEW part \in Parts \ {"all"}, NEW most, Ask(part, most)
    PROVE  CountInv' /\ asked'.made = (IF part = "made" THEN asked.made + 1 ELSE asked.made)
BY DEF CountInv, Ask, Parts

LEMMA CountStep ==
    ASSUME CountInv, IncidentsNext
    PROVE  CountInv' /\ asked'.made >= asked.made
<1>1. asked.made \in Nat
  BY DEF CountInv, Parts
<1>2. CASE UNCHANGED asked
  BY <1>1, <1>2 DEF CountInv
<1>3. ASSUME NEW part \in Parts \ {"all"}, NEW most, Ask(part, most)
      PROVE  CountInv' /\ asked'.made >= asked.made
  BY <1>1, <1>3, AskCounts
<1>4. \/ UNCHANGED asked
      \/ \E part \in {"syncs", "made", "areas", "status", "stations", "feed"} : \E most : Ask(part, most)
  BY Zenon DEF IncidentsNext, AskAbout, AtOnce, FetchSource, CommitSync, SelectZones, ReplaceZones, Chosen,
     CommitStatus, CommitStations, ShowFeed, MarkItem, SelectDismissal, CommitDismissal, Handled,
     Fail, LoadZones, CloseForm, OpenForm
<1> QED
  BY <1>2, <1>3, <1>4 DEF Parts

LEMMA TypedStep ==
    ASSUME Typed, CountInv, IncidentsNext
    PROVE  Typed'
<1>1. ASSUME NEW p \in Slots, UNCHANGED <<rows, pages, ghosts>>, NEW i \in Ids,
             LoadScan(p, i) \/ \E c \in Callsigns : LoadAddStation(p, i, c)
      PROVE  Typed'
  <2>1. \E r \in InFlight : Go(p, r)
    BY <1>1, ScanFacts, InFlightIs
  <2>2. UNCHANGED <<rows, pages, newest, wanted, contested>>
    BY <1>1 DEF ghosts
  <2> QED
    BY <2>1, <2>2, TypedGo
<1>2. ASSUME NEW p \in Slots,
             \/ Sync(p) \/ \E w \in Windows : CreateIncident(p, w)
             \/ \E w \in Windows, i \in Ids : EditArea(p, w, i)
             \/ \E i \in Ids, s \in {"active", "resolved"} : LoadStatus(p, i, s)
             \/ \E w \in Windows : LoadFeed(p, w)
             \/ \E w \in Windows, x \in FeedItems : Dismiss(p, w, x)
      PROVE  Typed'
  BY <1>2, TypedSync, TypedCreate, TypedEdit, TypedLoadStatus, TypedLoadFeed, TypedDismiss
<1>3. ASSUME NEW p \in Slots,
             \/ FetchSource(p) \/ CommitSync(p) \/ SelectZones(p) \/ ReplaceZones(p)
             \/ CommitStatus(p) \/ CommitStations(p) \/ ShowFeed(p) \/ MarkItem(p)
             \/ SelectDismissal(p) \/ CommitDismissal(p) \/ Fail(p)
      PROVE  Typed'
  BY <1>3, TypedFetch, TypedCommitSync, TypedSelect, TypedReplace, TypedCommitStatus, TypedCommitStations,
     TypedShowFeed, TypedMark, TypedSelectDismissal, TypedCommitDismissal, TypedFail
<1>4. ASSUME \/ \E i \in Ids : DeleteIncident(i)
             \/ \E i \in Ids, c \in Callsigns : DeleteStation(i, c) \/ \E s \in Statuses : SetStation(i, c, s)
             \/ \E w \in Windows : LoadZones(w)
             \/ \E w \in Windows : CloseForm(w) \/ \E x \in FeedItems : OpenForm(w, x)
      PROVE  Typed'
  BY <1>4, TypedDelete, TypedSetStation, TypedLoadZones, TypedForm
<1> QED
  BY <1>1, <1>2, <1>3, <1>4, Steps, Zenon

LEMMA TypesInit ==
    ASSUME IncidentsInit
    PROVE  IncidentsTypeInv
<1>1. /\ boundaries \subseteq Boundary /\ area \subseteq AreaRow
      /\ \A a \in area : incident[a.incident] # None /\ a.boundary \in boundaries
  BY DEF IncidentsInit
<1>2. /\ incident \in [Ids -> Incident \cup {None}]
      /\ stations \in [Ids -> [Callsigns -> StationRow \cup {None}]]
      /\ dismissal \in [FeedItems -> Dismissal \cup {None}]
  BY DEF IncidentsInit
<1>3. /\ \A i \in Ids, c \in Callsigns : stations[i][c] = None
      /\ \A x \in FeedItems : dismissal[x] = None
  BY DEF IncidentsInit
<1>4. RowsInv
  BY <1>1, <1>2, <1>3, Zenon DEF RowsInv
<1>5. PagesInv
  BY DEF IncidentsInit, PagesInv
<1>6. FlightInv
  BY InFlightIs DEF IncidentsInit, FlightInv
<1>7. CountInv
  BY DEF IncidentsInit, CountInv, Parts
<1>8. HistoryInv
  BY DEF IncidentsInit, HistoryInv, Origin
<1> QED
  BY <1>4, <1>5, <1>6, <1>7, <1>8 DEF IncidentsTypeInv

LEMMA TypesStep ==
    ASSUME IncidentsTypeInv, [IncidentsNext]_incidentsVars
    PROVE  IncidentsTypeInv'
<1>1. CASE IncidentsNext
  BY <1>1, TypedStep, CountStep DEF IncidentsTypeInv, Typed
<1>2. CASE UNCHANGED incidentsVars
  <2>1. UNCHANGED rows /\ UNCHANGED pages /\ UNCHANGED <<req, asked, newest, wanted, contested>>
    BY <1>2 DEF incidentsVars, ghosts
  <2> QED
    BY <2>1, RowsRest, PagesRest, HistoryRest DEF IncidentsTypeInv, FlightInv, CountInv
<1> QED
  BY <1>1, <1>2

LEMMA TypesHold == IncidentsSpec => []IncidentsTypeInv
BY TypesInit, TypesStep, PTL DEF IncidentsSpec

-----------------------------------------------------------------------------
(* Resolved incidents.                                                     *)

\* An incident has the time it was resolved exactly if it is resolved.
Dated == \A i \in Live \ crossed : incident[i].resolvedAt <=> incident[i].status = "resolved"

LEMMA DatedRests ==
    ASSUME Dated, UNCHANGED <<incident, crossed>>
    PROVE  Dated'
BY DEF Dated, Live

LEMMA DatedCommit ==
    ASSUME Typed, Dated, NEW p \in Slots, CommitStatus(p)
    PROVE  Dated'
<1> DEFINE i == req[p].incident
           seen == req[p].seen
           old == incident[i]
<1>1. req[p] \in Turn /\ old \in Incident
  BY CommitStatusFacts
<1>2. PICK t \in Incident :
         /\ incident' = [incident EXCEPT ![i] = t]
         /\ incident[i] = seen => t.status = req[p].status
         /\ req[p].status = "resolved" => t.resolvedAt = TRUE
         /\ req[p].status # "resolved" /\ seen.resolvedAt => t.resolvedAt = FALSE
         /\ req[p].status # "resolved" /\ ~seen.resolvedAt => t.resolvedAt = incident[i].resolvedAt
  BY CommitStatusFacts
<1>3. crossed' = IF old # seen THEN crossed \cup {i} ELSE crossed
  BY DEF CommitStatus
<1>4. i \in Ids /\ incident \in [Ids -> Incident \cup {None}]
  BY <1>1 DEF Turn, Typed, RowsInv
<1>5. incident'[i] = t /\ \A j \in Ids : j # i => incident'[j] = incident[j]
  BY <1>2, <1>4
<1>6. ASSUME NEW j \in Ids, incident'[j] # None, j \notin crossed'
      PROVE  incident'[j].resolvedAt <=> incident'[j].status = "resolved"
  <2>1. CASE j = i
    <3>1. old = seen
      BY <1>3, <1>6, <2>1
    <3>2. t.status = req[p].status
      BY <1>2, <3>1
    <3>3. CASE req[p].status = "resolved"
      BY <1>2, <1>5, <2>1, <3>2, <3>3
    <3>4. CASE req[p].status # "resolved"
      <4>1. t.resolvedAt = FALSE
        <5>1. seen.resolvedAt \in BOOLEAN
          BY <1>1, <3>1 DEF Incident
        <5> QED
          BY <1>2, <3>1, <3>4, <5>1
      <4> QED
        BY <1>5, <2>1, <3>2, <3>4, <4>1
    <3> QED
      BY <3>3, <3>4
  <2>2. CASE j # i
    BY <1>3, <1>5, <1>6, <2>2 DEF Dated, Live
  <2> QED
    BY <2>1, <2>2
<1> QED
  BY <1>6 DEF Dated, Live

LEMMA DatedStep ==
    ASSUME IncidentsTypeInv, Dated, [IncidentsNext]_incidentsVars
    PROVE  Dated'
<1>1. Typed /\ CountInv
  BY DEF IncidentsTypeInv, Typed
<1>2. CASE UNCHANGED <<incident, crossed>>
  BY <1>2, DatedRests
<1>3. ASSUME NEW p \in Slots, NEW w \in Windows, CreateIncident(p, w)
      PROVE  Dated'
  <2> DEFINE i == asked.made + 1
             t == [status |-> "active", resolvedAt |-> FALSE, item |-> opened[w]]
  <2>1. i \in Ids /\ incident' = [incident EXCEPT ![i] = t] /\ crossed' = crossed
    BY <1>1, <1>3, CreateFacts DEF CreateIncident
  <2>2. t.status = "active" /\ t.resolvedAt = FALSE
    OBVIOUS
  <2>3. incident \in [Ids -> Incident \cup {None}]
    BY <1>1 DEF Typed, RowsInv
  <2> HIDE DEF i, t
  <2> QED
    BY <2>1, <2>2, <2>3 DEF Dated, Live
<1>4. ASSUME NEW i \in Ids, DeleteIncident(i)
      PROVE  Dated'
  <2>1. incident' = [incident EXCEPT ![i] = None] /\ crossed' = crossed
    BY <1>4 DEF DeleteIncident, ghosts
  <2> QED
    BY <1>1, <2>1 DEF Dated, Live, Typed, RowsInv
<1>5. \/ UNCHANGED <<incident, crossed>>
      \/ \E p \in Slots, w \in Windows : CreateIncident(p, w)
      \/ \E p \in Slots : CommitStatus(p)
      \/ \E i \in Ids : DeleteIncident(i)
  <2>1. ASSUME NEW p \in Slots,
               \/ Sync(p) \/ \E w \in Windows, i \in Ids : EditArea(p, w, i)
               \/ \E i \in Ids, s \in {"active", "resolved"} : LoadStatus(p, i, s)
               \/ \E w \in Windows : LoadFeed(p, w)
               \/ \E w \in Windows, x \in FeedItems : Dismiss(p, w, x)
        PROVE  UNCHANGED <<incident, crossed>>
    BY <2>1 DEF Sync, EditArea, LoadStatus, LoadFeed, Dismiss, rows, ghosts
  <2>2. ASSUME NEW p \in Slots,
               \/ FetchSource(p) \/ CommitSync(p) \/ SelectZones(p) \/ ReplaceZones(p)
               \/ CommitStations(p) \/ ShowFeed(p) \/ MarkItem(p)
               \/ SelectDismissal(p) \/ CommitDismissal(p) \/ Fail(p)
        PROVE  UNCHANGED <<incident, crossed>>
    BY <2>2 DEF FetchSource, CommitSync, SelectZones, ReplaceZones, Chosen, CommitStations, ShowFeed,
       MarkItem, SelectDismissal, CommitDismissal, Handled, Fail, rows, ghosts
  <2>3. ASSUME \/ \E i \in Ids, c \in Callsigns : DeleteStation(i, c) \/ \E s \in Statuses : SetStation(i, c, s)
               \/ \E w \in Windows : LoadZones(w)
               \/ \E w \in Windows : CloseForm(w) \/ \E x \in FeedItems : OpenForm(w, x)
        PROVE  UNCHANGED <<incident, crossed>>
    BY <2>3 DEF DeleteStation, SetStation, LoadZones, CloseForm, OpenForm, rows, ghosts
  <2>4. UNCHANGED incidentsVars \/ UNCHANGED <<rows, pages, ghosts>> => UNCHANGED <<incident, crossed>>
    BY DEF incidentsVars, rows, ghosts
  <2> QED
    BY <2>1, <2>2, <2>3, <2>4, Steps, Zenon
<1> QED
  BY <1>1, <1>2, <1>3, <1>4, <1>5, DatedCommit

\* Every row refers to rows there are, and an incident has the time it was resolved exactly
\* if it is resolved (update_incident), whatever syncs, deletions, scans and failures come
\* between, unless two requests changed its status at once.
THEOREM RowsStayTrue == IncidentsSpec => []RowsAgree
<1>1. IncidentsInit => Dated
  BY DEF IncidentsInit, Dated, Live
<1>2. IncidentsTypeInv /\ Dated /\ [IncidentsNext]_incidentsVars => Dated'
  BY DatedStep
<1>3. IncidentsTypeInv /\ Dated => RowsAgree
  BY TypesAreOK DEF IncidentsTypeInv, Dated, RowsAgree
<1> QED
  BY <1>1, <1>2, <1>3, TypesHold, PTL DEF IncidentsSpec

-----------------------------------------------------------------------------
(***************************************************************************)
(* Syncs.  A sync has locked every boundary there is of the sources it     *)
(* fetched, and no other; two that fetched the same source know of each    *)
(* other.                                                                  *)
(***************************************************************************)

Replaces(r, s) == r.op = "sync" /\ s \in r.fetched

RivalsKnow ==
    \A p, q \in Slots, s \in Origin :
        Replaces(req[p], s) /\ Replaces(req[q], s) /\ p # q => s \in req[p].raced

OldAreLocked ==
    \A p \in Slots, s \in Origin : Replaces(req[p], s) /\ s \notin req[p].raced =>
        \A b \in boundaries : b.source = s => b \in req[p].locked

OnlyTheirs ==
    \A p \in Slots : req[p].op = "sync" =>
        /\ \A b \in req[p].new : b.source \in req[p].fetched
        /\ \A b \in req[p].locked \cap Boundary : b.source \in req[p].fetched

SyncOrder == SyncIsWhole /\ RivalsKnow /\ OldAreLocked /\ OnlyTheirs

\* A sync has no more in hand than before: it is new, or it was what it is.
SameSync(a, b) ==
    b.op = "sync" =>
        \/ b.fetched = {} /\ b.new = {} /\ b.locked = {}
        \/ /\ a.op = "sync" /\ b.fetched = a.fetched /\ b.new = a.new /\ b.locked = a.locked
           /\ b.raced = a.raced

SyncRests ==
    /\ UNCHANGED <<boundaries, newest, mixed>>
    /\ \A q \in Slots : SameSync(req[q], req'[q])

LEMMA SyncKept ==
    ASSUME SyncOrder, SyncRests
    PROVE  SyncOrder'
<1>1. SyncIsWhole'
  BY DEF SyncOrder, SyncRests, SyncIsWhole
<1>2. ASSUME NEW q \in Slots, NEW s, Replaces(req'[q], s)
      PROVE  Replaces(req[q], s) /\ req'[q].raced = req[q].raced /\ req'[q].locked = req[q].locked
  BY <1>2 DEF SyncRests, SameSync, Replaces
<1>3. RivalsKnow'
  BY <1>2 DEF SyncOrder, RivalsKnow
<1>4. OldAreLocked'
  BY <1>2 DEF SyncOrder, OldAreLocked, SyncRests
<1>5. OnlyTheirs'
  BY DEF SyncOrder, OnlyTheirs, SyncRests, SameSync
<1> QED
  BY <1>1, <1>3, <1>4, <1>5 DEF SyncOrder

LEMMA ResumedSync ==
    ASSUME NEW a \in InFlight, NEW b, Resumed(a, b)
    PROVE  SameSync(a, b)
BY ResumedFacts DEF SameSync

LEMMA FreedSync ==
    ASSUME FlightInv, NEW p \in Slots, req' = Freed(p)
    PROVE  \A q \in Slots : SameSync(req[q], req'[q])
<1>1. ASSUME NEW q \in Slots
      PROVE  SameSync(req[q], req'[q])
  <2>1. CASE q = p
    BY <2>1, FreedStep, FlightOps, InFlightIs DEF SameSync
  <2>2. CASE q # p
    <3>1. req[q] \in InFlight /\ Resumed(req[q], req'[q])
      BY <2>2, FreedStep DEF FlightInv
    <3> QED
      BY <3>1, ResumedSync
  <2> QED
    BY <2>1, <2>2
<1> QED
  BY <1>1

LEMMA GoSync ==
    ASSUME FlightInv, NEW p \in Slots, NEW r \in InFlight, Go(p, r),
           r.op # "sync" \/ (r.fetched = {} /\ r.new = {} /\ r.locked = {})
    PROVE  \A q \in Slots : SameSync(req[q], req'[q])
BY GoFacts DEF SameSync

\* Every step but a fetch and the commit of a sync.
LEMMA SyncSteps ==
    ASSUME Typed, CountInv, IncidentsNext
    PROVE  SyncRests \/ \E p \in Slots : FetchSource(p) \/ CommitSync(p)
<1>1. ASSUME NEW p \in Slots,
             \/ Sync(p) \/ \E w \in Windows : CreateIncident(p, w)
             \/ \E i \in Ids, s \in {"active", "resolved"} : LoadStatus(p, i, s)
             \/ \E w \in Windows : LoadFeed(p, w)
             \/ \E w \in Windows, x \in FeedItems : Dismiss(p, w, x)
             \/ SelectZones(p) \/ SelectDismissal(p)
      PROVE  SyncRests
  <2>1. UNCHANGED <<boundaries, newest, mixed>>
    BY <1>1 DEF Sync, CreateIncident, LoadStatus, LoadFeed, Dismiss, SelectZones, SelectDismissal, rows, ghosts
  <2>2. \E r \in InFlight : Go(p, r) /\ (r.op # "sync" \/ (r.fetched = {} /\ r.new = {} /\ r.locked = {}))
    <3>1. CASE Sync(p)
      BY <3>1, SyncRequest, InFlightIs
    <3>2. CASE \E w \in Windows : CreateIncident(p, w)
      <4>1. PICK w \in Windows : CreateIncident(p, w)
        BY <3>2
      <4>2. PICK ids \in SUBSET Boundary : \E r \in InFlight :
               /\ Go(p, r) /\ wanted' = [wanted EXCEPT ![asked.made + 1] = ids]
               /\ Makes(r, asked.made + 1, w, opened[w], ids)
        BY <4>1, CreateRequest
      <4> QED
        BY <4>2, MakesOps
    <3>3. CASE \E i \in Ids, s \in {"active", "resolved"} : LoadStatus(p, i, s)
      BY <3>3, LoadStatusFacts, InFlightIs
    <3>4. CASE \E w \in Windows : LoadFeed(p, w)
      BY <3>4, LoadFeedFacts, InFlightIs
    <3>5. CASE \E w \in Windows, x \in FeedItems : Dismiss(p, w, x)
      BY <3>5, DismissFacts, InFlightIs
    <3>6. CASE SelectZones(p)
      BY <3>6, SelectFacts, InFlightIs
    <3>7. CASE SelectDismissal(p)
      BY <3>7, SelectDismissalFacts, InFlightIs
    <3> QED
      BY <1>1, <3>1, <3>2, <3>3, <3>4, <3>5, <3>6, <3>7
  <2> QED
    BY <2>1, <2>2, GoSync DEF Typed, SyncRests
<1>2. ASSUME NEW p \in Slots, UNCHANGED <<rows, pages, ghosts>>, NEW i \in Ids,
             LoadScan(p, i) \/ \E c \in Callsigns : LoadAddStation(p, i, c)
      PROVE  SyncRests
  <2>1. \E r \in InFlight : Go(p, r) /\ r.op # "sync"
    BY <1>2, ScanFacts, InFlightIs
  <2> QED
    BY <1>2, <2>1, GoSync DEF Typed, SyncRests, rows, ghosts
<1>3. ASSUME NEW p \in Slots, NEW w \in Windows, NEW i \in Ids, EditArea(p, w, i)
      PROVE  SyncRests
  <2>1. PICK r \in Choice : Choosing(p, i, r) /\ r.op = "choose"
    BY <1>3, EditFacts
  <2>2. ASSUME NEW q \in Slots
        PROVE  SameSync(req[q], req'[q])
    <3>1. q = p => req'[q].op = "choose"
      BY <2>1, ChoosingFacts, InFlightIs DEF Typed
    <3>2. q # p /\ q \in Replacing(i) => req'[q].op # "sync"
      BY <2>1, ChoosingFacts, InFlightIs DEF Typed, Crowded, Replacing
    <3>3. q # p /\ q \notin Replacing(i) => req'[q] = req[q]
      BY <2>1, ChoosingFacts, InFlightIs DEF Typed
    <3> QED
      BY <3>1, <3>2, <3>3 DEF SameSync
  <2> QED
    BY <1>3, <2>2 DEF SyncRests, EditArea, rows, ghosts
<1>4. ASSUME NEW p \in Slots, ReplaceZones(p)
      PROVE  SyncRests
  <2>1. ASSUME NEW q \in Slots
        PROVE  SameSync(req[q], req'[q])
    <3>1. CASE q = p
      <4>1. req'[p].op # "sync"
        BY <1>4, ChosenFacts, FlightOps, InFlightIs DEF ReplaceZones, Created
      <4> QED
        BY <3>1, <4>1 DEF SameSync
    <3>2. CASE q # p
      <4>1. req[q] \in InFlight /\ Resumed(req[q], req'[q])
        BY <1>4, <3>2, ChosenFacts DEF ReplaceZones, Typed, FlightInv
      <4> QED
        BY <4>1, ResumedSync
    <3> QED
      BY <3>1, <3>2
  <2> QED
    BY <1>4, <2>1 DEF SyncRests, ReplaceZones, Chosen
<1>5. ASSUME NEW p \in Slots,
             CommitStatus(p) \/ CommitStations(p) \/ ShowFeed(p) \/ CommitDismissal(p) \/ Fail(p)
      PROVE  SyncRests
  <2>1. req' = Freed(p) /\ UNCHANGED <<boundaries, newest, mixed>>
    BY <1>5 DEF CommitStatus, CommitStations, ShowFeed, CommitDismissal, Handled, Fail, rows, ghosts
  <2> QED
    BY <2>1, FreedSync DEF Typed, SyncRests
<1>6. ASSUME NEW p \in Slots, MarkItem(p)
      PROVE  SyncRests
  <2>1. UNCHANGED <<boundaries, newest, mixed>>
    BY <1>6 DEF MarkItem, rows, ghosts
  <2>2. CASE req[p].item = None
    BY <1>6, <2>1, <2>2, MarkFacts, FreedSync DEF Typed, SyncRests
  <2>3. CASE req[p].item # None
    <3>1. \E r \in InFlight : Go(p, r) /\ r.op # "sync"
      BY <1>6, <2>3, MarkFacts, InFlightIs
    <3> QED
      BY <2>1, <3>1, GoSync DEF Typed, SyncRests
  <2> QED
    BY <2>2, <2>3
<1>7. ASSUME \/ \E i \in Ids : DeleteIncident(i)
             \/ \E i \in Ids, c \in Callsigns : DeleteStation(i, c) \/ \E s \in Statuses : SetStation(i, c, s)
             \/ \E w \in Windows : LoadZones(w)
             \/ \E w \in Windows : CloseForm(w) \/ \E x \in FeedItems : OpenForm(w, x)
      PROVE  SyncRests
  <2>1. UNCHANGED <<boundaries, newest, mixed, req>>
    BY <1>7 DEF DeleteIncident, DeleteStation, SetStation, LoadZones, CloseForm, OpenForm, rows, ghosts
  <2> QED
    BY <2>1 DEF SyncRests, SameSync
<1> QED
  BY <1>1, <1>2, <1>3, <1>4, <1>5, <1>6, <1>7, Steps, Zenon

LEMMA RowsAreNoBoundaries == AreaRow \cap Boundary = {}
<1> SUFFICES ASSUME NEW a \in AreaRow, a \in Boundary
             PROVE  FALSE
  OBVIOUS
<1>1. DOMAIN a = {"incident", "boundary"}
  BY DEF AreaRow
<1>2. DOMAIN a = {"source", "zone", "sync"}
  BY DEF Boundary
<1> QED
  BY <1>1, <1>2

LEMMA SyncFetch ==
    ASSUME Typed, SyncOrder, NEW p \in Slots, FetchSource(p)
    PROVE  SyncOrder'
<1>10. PICK s \in Origin : \E zones \in SUBSET Zones[s] :
         /\ req[p] \in Synced /\ Fetched(p, s, zones, req[p], req'[p])
         /\ \A q \in Slots : q # p =>
               IF req[q].op = "sync" /\ s \in req[q].fetched
               THEN req[q] \in Synced /\ Rivalled(req[q], req'[q], s) ELSE req'[q] = req[q]
  BY FetchSourceFacts
<1>1. PICK zones \in SUBSET Zones[s] :
         /\ req[p] \in Synced /\ Fetched(p, s, zones, req[p], req'[p])
         /\ \A q \in Slots : q # p =>
               IF req[q].op = "sync" /\ s \in req[q].fetched
               THEN req[q] \in Synced /\ Rivalled(req[q], req'[q], s) ELSE req'[q] = req[q]
  BY <1>10
<1>2. boundaries' = boundaries /\ newest' = newest /\ mixed' = mixed
  BY DEF FetchSource, rows, ghosts
<1> DEFINE old == {c \in boundaries : c.source = s}
<1>3. /\ req'[p].fetched = req[p].fetched \cup {s}
      /\ req'[p].new = req[p].new \cup New(p, s, zones)
      /\ req'[p].locked = req[p].locked \cup old \cup Under(old)
      /\ \A q \in Slots \ {p} : req[q].op = "sync" /\ s \in req[q].fetched => s \in req'[p].raced
  BY <1>1 DEF Fetched
<1>4. req[p].op = "sync" /\ req'[p].op = "sync" /\ req[p].raced \subseteq req'[p].raced
  <2>1. req'[p].op = "sync" /\ req[p].op = "sync"
    BY <1>1 DEF Fetched, Synced
  <2>2. req[p].raced \subseteq req'[p].raced
    BY <1>1 DEF Fetched
  <2> QED
    BY <2>1, <2>2
<1>5. ASSUME NEW q \in Slots, q # p
      PROVE  /\ req'[q].op = req[q].op
             /\ req[q].op = "sync" =>
                   /\ req'[q].fetched = req[q].fetched /\ req'[q].new = req[q].new /\ req'[q].locked = req[q].locked
                   /\ req[q].raced \subseteq req'[q].raced
                   /\ s \in req[q].fetched => s \in req'[q].raced
  <2>1. CASE req[q].op = "sync" /\ s \in req[q].fetched
    BY <1>1, <1>5, <2>1 DEF Rivalled, Synced
  <2>2. CASE ~(req[q].op = "sync" /\ s \in req[q].fetched)
    BY <1>1, <1>5, <2>2
  <2> QED
    BY <2>1, <2>2
<1>6. SyncIsWhole'
  BY <1>2 DEF SyncOrder, SyncIsWhole
<1>7. RivalsKnow'
  <2> SUFFICES ASSUME NEW q \in Slots, NEW r \in Slots, NEW t \in Origin,
                      Replaces(req'[q], t), Replaces(req'[r], t), q # r
               PROVE  t \in req'[q].raced
    BY DEF RivalsKnow
  <2> HIDE DEF old
  <2>1. CASE q = p
    <3>1. req[r].op = "sync" /\ t \in req[r].fetched
      BY <1>5, <2>1 DEF Replaces
    <3>2. CASE t = s
      BY <1>3, <2>1, <3>1, <3>2
    <3>3. CASE t # s
      <4>1. Replaces(req[p], t) /\ Replaces(req[r], t) /\ p # r
        BY <1>3, <1>4, <2>1, <3>1, <3>3 DEF Replaces
      <4>2. t \in req[p].raced
        BY <4>1 DEF SyncOrder, RivalsKnow
      <4> QED
        BY <1>4, <2>1, <4>2
    <3> QED
      BY <3>2, <3>3
  <2>2. CASE r = p
    <3>1. req[q].op = "sync" /\ t \in req[q].fetched
      BY <1>5, <2>2 DEF Replaces
    <3>2. CASE t = s
      BY <1>5, <2>2, <3>1, <3>2
    <3>3. CASE t # s
      <4>1. Replaces(req[p], t) /\ Replaces(req[q], t) /\ p # q
        BY <1>3, <1>4, <2>2, <3>1, <3>3 DEF Replaces
      <4>2. t \in req[q].raced
        BY <4>1 DEF SyncOrder, RivalsKnow
      <4> QED
        BY <1>5, <2>2, <3>1, <4>2
    <3> QED
      BY <3>2, <3>3
  <2>3. CASE q # p /\ r # p
    BY <1>5, <2>3 DEF SyncOrder, RivalsKnow, Replaces
  <2> QED
    BY <2>1, <2>2, <2>3
<1>8. OldAreLocked'
  <2> SUFFICES ASSUME NEW q \in Slots, NEW t \in Origin, Replaces(req'[q], t), t \notin req'[q].raced,
                      NEW b \in boundaries, b.source = t
               PROVE  b \in req'[q].locked
    BY <1>2 DEF OldAreLocked
  <2>1. CASE q = p /\ t = s
    BY <1>3, <2>1
  <2>2. CASE q = p /\ t # s
    <3>1. Replaces(req[p], t) /\ t \notin req[p].raced
      BY <1>3, <1>4, <2>2 DEF Replaces
    <3>2. b \in req[p].locked
      BY <3>1 DEF SyncOrder, OldAreLocked
    <3> QED
      BY <1>3, <2>2, <3>2
  <2>3. CASE q # p
    BY <1>5, <2>3 DEF SyncOrder, OldAreLocked, Replaces
  <2> QED
    BY <2>1, <2>2, <2>3
<1>9. OnlyTheirs'
  <2> SUFFICES ASSUME NEW q \in Slots, req'[q].op = "sync"
               PROVE  /\ \A b \in req'[q].new : b.source \in req'[q].fetched
                      /\ \A b \in req'[q].locked \cap Boundary : b.source \in req'[q].fetched
    BY DEF OnlyTheirs
  <2>1. CASE q = p
    <3>1. \A b \in New(p, s, zones) : b.source = s
      BY <1>4, NewBoundaries
    <3>2. Under(old) \cap Boundary = {}
      BY RowsAreNoBoundaries DEF Under, Typed, RowsInv
    <3>3. \A b \in old : b.source = s
      OBVIOUS
    <3>4. /\ \A b \in req[p].new : b.source \in req[p].fetched
          /\ \A b \in req[p].locked \cap Boundary : b.source \in req[p].fetched
      BY <1>4 DEF SyncOrder, OnlyTheirs
    <3> HIDE DEF old
    <3> QED
      BY <1>3, <2>1, <3>1, <3>2, <3>3, <3>4
  <2>2. CASE q # p
    BY <1>5, <2>2 DEF SyncOrder, OnlyTheirs
  <2> QED
    BY <2>1, <2>2
<1> QED
  BY <1>6, <1>7, <1>8, <1>9 DEF SyncOrder

LEMMA SyncCommit ==
    ASSUME Typed, SyncOrder, NEW p \in Slots, CommitSync(p)
    PROVE  SyncOrder'
<1> DEFINE kept == boundaries \ req[p].locked
           done == req[p].fetched
<1>1. req' = Freed(p) /\ \A q \in Slots : SameSync(req[q], req'[q])
  BY FreedSync DEF CommitSync, Typed
<1>2. CASE UNCHANGED <<boundaries, area, newest, mixed, disturbed>>
  BY <1>1, <1>2, SyncKept DEF SyncRests
<1>3. CASE /\ boundaries' = kept \cup req[p].new
           /\ newest' = [s \in Range(Sources) |-> IF s \in done THEN {b \in req[p].new : b.source = s} ELSE newest[s]]
           /\ mixed' = (mixed \ done) \cup req[p].raced
  <2>1. req'[p].op # "sync" /\ req[p].op = "sync"
    BY <1>1, FreedStep, FlightOps, InFlightIs DEF Typed, CommitSync
  <2>2. ASSUME NEW q \in Slots, NEW s, Replaces(req'[q], s)
        PROVE  Replaces(req[q], s) /\ req'[q].raced = req[q].raced /\ req'[q].locked = req[q].locked /\ q # p
    BY <1>1, <2>1, <2>2 DEF SameSync, Replaces
  <2>3. /\ \A b \in req[p].new : b.source \in done
        /\ \A b \in req[p].locked \cap boundaries : b.source \in done
    BY <2>1 DEF SyncOrder, OnlyTheirs, Typed, RowsInv
  <2>4. SyncIsWhole'
    <3> SUFFICES ASSUME NEW s \in Origin, s \notin mixed'
                 PROVE  {b \in boundaries' : b.source = s} = newest'[s]
      BY DEF SyncIsWhole, Origin
    <3>1. CASE s \in done
      <4>1. s \notin req[p].raced
        BY <1>3
      <4>2. \A b \in boundaries : b.source = s => b \in req[p].locked
        BY <2>1, <3>1, <4>1 DEF SyncOrder, OldAreLocked, Replaces
      <4>3. newest'[s] = {b \in req[p].new : b.source = s}
        BY <1>3, <3>1 DEF Origin
      <4> QED
        BY <1>3, <4>2, <4>3
    <3>2. CASE s \notin done
      <4>1. s \notin mixed
        BY <1>3, <3>2
      <4>2. newest'[s] = newest[s]
        BY <1>3, <3>2 DEF Origin
      <4>3. {b \in boundaries : b.source = s} = newest[s]
        BY <4>1 DEF SyncOrder, SyncIsWhole, Origin
      <4>4. {b \in boundaries' : b.source = s} = {b \in boundaries : b.source = s}
        BY <1>3, <2>3, <3>2
      <4> QED
        BY <4>2, <4>3, <4>4
    <3> QED
      BY <3>1, <3>2
  <2>5. RivalsKnow'
    BY <2>2 DEF SyncOrder, RivalsKnow
  <2>6. OldAreLocked'
    <3> SUFFICES ASSUME NEW q \in Slots, NEW s \in Origin, Replaces(req'[q], s), s \notin req'[q].raced,
                        NEW b \in boundaries', b.source = s
                 PROVE  b \in req'[q].locked
      BY DEF OldAreLocked
    <3>1. Replaces(req[q], s) /\ s \notin req[q].raced /\ req'[q].locked = req[q].locked /\ q # p
      BY <2>2
    <3>2. s \notin done
      BY <2>1, <3>1 DEF SyncOrder, RivalsKnow, Replaces
    <3>3. b \in boundaries
      BY <1>3, <2>3, <3>2
    <3> QED
      BY <3>1, <3>3 DEF SyncOrder, OldAreLocked
  <2>7. OnlyTheirs'
    BY <1>1 DEF SyncOrder, OnlyTheirs, SameSync
  <2> QED
    BY <2>4, <2>5, <2>6, <2>7 DEF SyncOrder
<1> QED
  BY <1>2, <1>3 DEF CommitSync

\* Whatever syncs are asked for at once, fail or are refused, what is stored of a source is
\* exactly what its newest finished sync was given (sync_net_evac_zones replaces a source's rows
\* in one transaction), unless that sync overlapped another of the same source.
THEOREM SyncsReplaceWhole == IncidentsSpec => []SyncIsWhole
<1>1. IncidentsInit => SyncOrder
  <2> SUFFICES ASSUME IncidentsInit
               PROVE  SyncOrder
    OBVIOUS
  <2>1. \A p \in Slots : req[p].op # "sync"
    BY FlightOps, InFlightIs DEF IncidentsInit
  <2>2. RivalsKnow /\ OldAreLocked /\ OnlyTheirs
    BY <2>1 DEF RivalsKnow, OldAreLocked, OnlyTheirs, Replaces
  <2>3. SyncIsWhole
    BY DEF IncidentsInit, SyncIsWhole
  <2> QED
    BY <2>2, <2>3 DEF SyncOrder
<1>2. ASSUME IncidentsTypeInv, SyncOrder, [IncidentsNext]_incidentsVars
      PROVE  SyncOrder'
  <2>1. CASE IncidentsNext
    BY <1>2, <2>1, SyncSteps, SyncKept, SyncFetch, SyncCommit DEF IncidentsTypeInv, Typed
  <2>2. CASE UNCHANGED incidentsVars
    BY <1>2, <2>2, SyncKept DEF SyncRests, SameSync, incidentsVars, rows, ghosts
  <2> QED
    BY <1>2, <2>1, <2>2
<1>3. SyncOrder => SyncIsWhole
  BY DEF SyncOrder
<1> QED
  BY <1>1, <1>2, <1>3, TypesHold, PTL DEF IncidentsSpec

-----------------------------------------------------------------------------
(***************************************************************************)
(* Areas.  The requests that are about the area of an incident: one that   *)
(* is alone with it has locked all there is of it, and an incident whose   *)
(* area is not yet what was chosen is still being made.                    *)
(***************************************************************************)

Places(r) == r.op \in {"choose", "replace"}

Picked(i) == {a.boundary : a \in AreaOf(i)}

Making(i) == \E p \in Replacing(i) : req[p].window # None

KnownIds ==
    /\ \A i \in Live : i <= asked.made
    /\ \A p \in Slots : Places(req[p]) => req[p].incident <= asked.made

PickedAreWanted == \A i \in Live \ disturbed : Making(i) \/ Picked(i) = wanted[i]

AloneIsAlone ==
    \A p \in Slots : Places(req[p]) /\ req[p].alone => Replacing(req[p].incident) = {p}

AloneHasAll ==
    \A p \in Slots : req[p].op = "replace" /\ req[p].alone => AreaOf(req[p].incident) \subseteq req[p].locked

OnlyItsOwn ==
    \A p \in Slots : req[p].op = "replace" => \A a \in req[p].locked : a.incident = req[p].incident

AreaOrder == KnownIds /\ PickedAreWanted /\ AloneIsAlone /\ AloneHasAll /\ OnlyItsOwn

SamePlace(a, b) ==
    Places(b) =>
        /\ b.op = a.op /\ b.incident = a.incident /\ b.window = a.window /\ b.alone = a.alone
        /\ b.op = "replace" => b.locked = a.locked

\* A step that takes up no area: what it loses of one, or of the making of one, is noted.
AreaRests ==
    /\ wanted' = wanted /\ disturbed \subseteq disturbed' /\ area' \subseteq area
    /\ \A a \in area \ area' : a.incident \in disturbed' \/ incident'[a.incident] = None
    /\ \A i \in Ids : incident'[i] # None => incident[i] # None
    /\ \A q \in Slots :
          /\ SamePlace(req[q], req'[q])
          /\ Places(req[q]) /\ ~Places(req'[q]) /\ req[q].window # None => req[q].incident \in disturbed'

LEMMA AreaKept ==
    ASSUME Typed, CountInv, AreaOrder, AreaRests, CountInv', asked'.made >= asked.made
    PROVE  AreaOrder'
<1>1. asked.made \in Nat /\ asked'.made \in Nat
  BY DEF CountInv, Parts
<1>2. \A q \in Slots : Places(req'[q]) =>
         /\ Places(req[q]) /\ req'[q].op = req[q].op /\ req'[q].incident = req[q].incident
         /\ req'[q].window = req[q].window /\ req'[q].alone = req[q].alone
         /\ req'[q].op = "replace" => req'[q].locked = req[q].locked
  BY DEF AreaRests, SamePlace, Places
<1>3. \A q \in Slots : Places(req[q]) => req[q].incident \in Ids
  BY FlightKinds DEF Places, Typed, FlightInv, Choice, Replacement
<1>4. KnownIds'
  <2>1. ASSUME NEW i \in Ids, incident'[i] # None
        PROVE  i <= asked'.made
    <3>1. i <= asked.made
      BY <2>1 DEF AreaRests, AreaOrder, KnownIds, Live
    <3> QED
      BY <1>1, <3>1 DEF Ids
  <2>2. ASSUME NEW q \in Slots, Places(req'[q])
        PROVE  req'[q].incident <= asked'.made
    <3>1. req'[q].incident = req[q].incident /\ req[q].incident \in Ids /\ req[q].incident <= asked.made
      BY <1>2, <1>3, <2>2 DEF AreaOrder, KnownIds
    <3> QED
      BY <1>1, <3>1 DEF Ids
  <2> QED
    BY <2>1, <2>2 DEF KnownIds, Live
<1>5. PickedAreWanted'
  <2> SUFFICES ASSUME NEW i \in Ids, incident'[i] # None, i \notin disturbed'
               PROVE  Making(i)' \/ Picked(i)' = wanted'[i]
    BY DEF PickedAreWanted, Live
  <2>1. incident[i] # None /\ i \notin disturbed /\ wanted'[i] = wanted[i]
    BY DEF AreaRests
  <2>2. AreaOf(i)' = AreaOf(i)
    BY DEF AreaOf, AreaRests
  <2>3. Picked(i)' = Picked(i)
    BY <2>2 DEF Picked
  <2>4. ASSUME Making(i)
        PROVE  Making(i)'
    <3>1. PICK p \in Slots : Places(req[p]) /\ req[p].incident = i /\ req[p].window # None
      BY <2>4 DEF Making, Replacing, Places
    <3>2. Places(req'[p])
      BY <3>1 DEF AreaRests
    <3> QED
      BY <1>2, <3>1, <3>2 DEF Making, Replacing, Places
  <2> QED
    BY <2>1, <2>3, <2>4 DEF AreaOrder, PickedAreWanted, Live
<1>6. AloneIsAlone'
  <2> SUFFICES ASSUME NEW p \in Slots, Places(req'[p]), req'[p].alone, NEW i, i = req'[p].incident
               PROVE  Replacing(i)' = {p}
    BY DEF AloneIsAlone, Replacing
  <2>1. Replacing(i) = {p} /\ i = req[p].incident
    BY <1>2 DEF AreaOrder, AloneIsAlone
  <2>2. \A q \in Slots : Places(req'[q]) /\ req'[q].incident = i => q = p
    BY <1>2, <2>1 DEF Replacing, Places
  <2> QED
    BY <2>1, <2>2 DEF Replacing, Places
<1>7. AloneHasAll'
  <2> SUFFICES ASSUME NEW p \in Slots, req'[p].op = "replace", req'[p].alone, NEW i, i = req'[p].incident
               PROVE  AreaOf(i)' \subseteq req'[p].locked
    BY DEF AloneHasAll, AreaOf
  <2>1. req[p].op = "replace" /\ req[p].alone /\ i = req[p].incident /\ req'[p].locked = req[p].locked
    BY <1>2 DEF Places
  <2>2. AreaOf(i) \subseteq req[p].locked
    BY <2>1 DEF AreaOrder, AloneHasAll
  <2> QED
    BY <2>1, <2>2 DEF AreaOf, AreaRests
<1>8. OnlyItsOwn'
  BY <1>2 DEF AreaOrder, OnlyItsOwn, Places
<1> QED
  BY <1>4, <1>5, <1>6, <1>7, <1>8 DEF AreaOrder

LEMMA ResumedPlace ==
    ASSUME NEW a \in InFlight, NEW b, Resumed(a, b)
    PROVE  SamePlace(a, b) /\ (Places(a) => Places(b))
BY ResumedFacts DEF SamePlace, Places, Locking

LEMMA FreedPlace ==
    ASSUME FlightInv, NEW p \in Slots, req' = Freed(p)
    PROVE  \A q \in Slots : SamePlace(req[q], req'[q]) /\ (q # p /\ Places(req[q]) => Places(req'[q]))
<1>1. ASSUME NEW q \in Slots
      PROVE  SamePlace(req[q], req'[q]) /\ (q # p /\ Places(req[q]) => Places(req'[q]))
  <2>1. CASE q = p
    BY <2>1, FreedStep, FlightOps, InFlightIs DEF SamePlace, Places
  <2>2. CASE q # p
    <3>1. req[q] \in InFlight /\ Resumed(req[q], req'[q])
      BY <2>2, FreedStep DEF FlightInv
    <3> QED
      BY <3>1, ResumedPlace
  <2> QED
    BY <2>1, <2>2
<1> QED
  BY <1>1

LEMMA GoPlace ==
    ASSUME FlightInv, NEW p \in Slots, NEW r \in InFlight, Go(p, r), ~Places(r), ~Places(req[p])
    PROVE  \A q \in Slots : SamePlace(req[q], req'[q]) /\ (Places(req[q]) => Places(req'[q]))
BY GoFacts DEF SamePlace

\* The rows of an area that nothing changes.
AreaStill ==
    /\ UNCHANGED <<area, wanted, disturbed>>
    /\ \A i \in Ids : incident'[i] # None => incident[i] # None

LEMMA StillRests ==
    ASSUME AreaStill, \A q \in Slots : SamePlace(req[q], req'[q]) /\ (Places(req[q]) => Places(req'[q]))
    PROVE  AreaRests
BY DEF AreaStill, AreaRests

LEMMA NoPlace ==
    ASSUME NEW r \in InFlight, r = NoRequest \/ r \notin Choice \cup Replacement
    PROVE  ~Places(r)
BY FlightKinds, FlightOps DEF Places

\* Every step but the making of an incident and the three steps of the choice of an area.
LEMMA AreaSteps ==
    ASSUME Typed, CountInv, IncidentsNext
    PROVE  \/ AreaRests
           \/ \E p \in Slots :
                 \/ /\ req[p] = NoRequest /\ Ask("made", MaxIncidents)
                    /\ \E w \in Windows : CreateIncident(p, w)
                 \/ req[p] = NoRequest /\ \E w \in Windows, i \in Ids : EditArea(p, w, i)
                 \/ SelectZones(p) \/ ReplaceZones(p)
<1>1. ASSUME NEW p \in Slots, req[p] = NoRequest \/ req[p].op = "dismiss",
             \/ Sync(p) \/ \E i \in Ids, s \in {"active", "resolved"} : LoadStatus(p, i, s)
             \/ \E w \in Windows : LoadFeed(p, w)
             \/ \E w \in Windows, x \in FeedItems : Dismiss(p, w, x)
             \/ SelectDismissal(p)
      PROVE  AreaRests
  <2>1. AreaStill
    BY <1>1 DEF AreaStill, Sync, LoadStatus, LoadFeed, Dismiss, SelectDismissal, rows, ghosts
  <2>2. \E r \in InFlight : Go(p, r) /\ ~Places(r)
    <3>1. CASE Sync(p)
      BY <3>1, SyncRequest, InFlightIs DEF Places, Synced
    <3>2. CASE \E i \in Ids, s \in {"active", "resolved"} : LoadStatus(p, i, s)
      BY <3>2, LoadStatusFacts, InFlightIs DEF Places
    <3>3. CASE \E w \in Windows : LoadFeed(p, w)
      BY <3>3, LoadFeedFacts, InFlightIs DEF Places
    <3>4. CASE \E w \in Windows, x \in FeedItems : Dismiss(p, w, x)
      BY <3>4, DismissFacts, InFlightIs DEF Places
    <3>5. CASE SelectDismissal(p)
      BY <3>5, SelectDismissalFacts, InFlightIs DEF Places
    <3> QED
      BY <1>1, <3>1, <3>2, <3>3, <3>4, <3>5
  <2>3. ~Places(req[p])
    BY <1>1, FlightOps, InFlightIs DEF Places
  <2> QED
    BY <2>1, <2>2, <2>3, GoPlace, StillRests DEF Typed
<1>2. ASSUME NEW p \in Slots, req[p] = NoRequest, UNCHANGED <<rows, pages, ghosts>>, NEW i \in Ids,
             LoadScan(p, i) \/ \E c \in Callsigns : LoadAddStation(p, i, c)
      PROVE  AreaRests
  <2>1. \E r \in InFlight : Go(p, r) /\ ~Places(r)
    BY <1>2, ScanFacts, InFlightIs DEF Places
  <2>2. ~Places(req[p]) /\ AreaStill
    BY <1>2, FlightOps, InFlightIs DEF Places, AreaStill, rows, ghosts
  <2> QED
    BY <2>1, <2>2, GoPlace, StillRests DEF Typed
<1>3. ASSUME NEW p \in Slots, FetchSource(p)
      PROVE  AreaRests
  <2>1. AreaStill
    BY <1>3 DEF FetchSource, AreaStill, rows, ghosts
  <2>2. PICK s \in Origin : \E zones \in SUBSET Zones[s] :
              /\ req[p] \in Synced /\ Fetched(p, s, zones, req[p], req'[p])
              /\ \A q \in Slots : q # p =>
                    IF req[q].op = "sync" /\ s \in req[q].fetched
                    THEN req[q] \in Synced /\ Rivalled(req[q], req'[q], s) ELSE req'[q] = req[q]
    BY <1>3, FetchSourceFacts
  <2>3. \A r \in Synced : ~Places(r)
    BY DEF Synced, Places
  <2>4. \A q \in Slots : SamePlace(req[q], req'[q]) /\ (Places(req[q]) => Places(req'[q]))
    BY <2>2, <2>3 DEF Fetched, Rivalled, SamePlace
  <2> QED
    BY <2>1, <2>4, StillRests
<1>4. ASSUME NEW p \in Slots, CommitSync(p)
      PROVE  AreaRests
  <2>1. req[p].op = "sync" /\ req' = Freed(p) /\ incident' = incident /\ wanted' = wanted
    BY <1>4 DEF CommitSync
  <2>2. \A q \in Slots : SamePlace(req[q], req'[q]) /\ (Places(req[q]) => Places(req'[q]))
    BY <2>1, FreedPlace DEF Typed, Places
  <2>3. CASE UNCHANGED <<boundaries, area, newest, mixed, disturbed>>
    BY <2>1, <2>2, <2>3 DEF AreaRests
  <2>4. CASE /\ area' = {a \in area : a.boundary \in boundaries \ req[p].locked}
             /\ disturbed' = disturbed \cup {a.incident : a \in Under(req[p].locked)}
    <3>1. \A a \in area \ area' : a.incident \in disturbed'
      BY <2>4 DEF Under, Typed, RowsInv
    <3> QED
      BY <2>1, <2>2, <2>4, <3>1 DEF AreaRests
  <2> QED
    BY <1>4, <2>3, <2>4 DEF CommitSync
<1>5. ASSUME NEW p \in Slots, CommitStatus(p) \/ CommitStations(p) \/ ShowFeed(p) \/ CommitDismissal(p)
      PROVE  AreaRests
  <2>1. req' = Freed(p) /\ UNCHANGED <<area, wanted, disturbed>> /\ ~Places(req[p])
    BY <1>5 DEF CommitStatus, CommitStations, ShowFeed, CommitDismissal, Handled, rows, ghosts, Places
  <2>2. \A i \in Ids : incident'[i] # None => incident[i] # None
    <3>1. CASE CommitStatus(p)
      BY <3>1 DEF CommitStatus, Typed, RowsInv
    <3>2. CASE CommitStations(p) \/ ShowFeed(p) \/ CommitDismissal(p)
      BY <3>2 DEF CommitStations, ShowFeed, CommitDismissal, Handled, rows
    <3> QED
      BY <1>5, <3>1, <3>2
  <2> QED
    BY <2>1, <2>2, FreedPlace, StillRests DEF Typed, AreaStill
<1>6. ASSUME NEW p \in Slots, MarkItem(p)
      PROVE  AreaRests
  <2>1. AreaStill /\ ~Places(req[p])
    BY <1>6 DEF MarkItem, AreaStill, rows, ghosts, Places
  <2>2. CASE req[p].item = None
    BY <1>6, <2>1, <2>2, MarkFacts, FreedPlace, StillRests DEF Typed
  <2>3. CASE req[p].item # None
    <3>1. \E r \in InFlight : Go(p, r) /\ ~Places(r)
      BY <1>6, <2>3, MarkFacts, InFlightIs DEF Places
    <3> QED
      BY <2>1, <3>1, GoPlace, StillRests DEF Typed
  <2> QED
    BY <2>2, <2>3
<1>7. ASSUME NEW p \in Slots, Fail(p)
      PROVE  AreaRests
  <2>1. \A q \in Slots : SamePlace(req[q], req'[q]) /\ (q # p /\ Places(req[q]) => Places(req'[q]))
    BY <1>7, FreedPlace DEF Fail, Typed
  <2>2. disturbed \subseteq disturbed' /\ (Places(req[p]) /\ req[p].window # None => req[p].incident \in disturbed')
    BY <1>7 DEF Fail, Places
  <2>3. UNCHANGED <<area, wanted, incident>>
    BY <1>7 DEF Fail, rows
  <2> QED
    BY <2>1, <2>2, <2>3 DEF AreaRests
<1>8. ASSUME NEW i \in Ids, DeleteIncident(i)
      PROVE  AreaRests
  <2>1. /\ incident' = [incident EXCEPT ![i] = None] /\ area' = area \ AreaOf(i)
        /\ UNCHANGED <<wanted, disturbed, req>>
    BY <1>8 DEF DeleteIncident, ghosts
  <2>2. \A a \in area \ area' : incident'[a.incident] = None
    BY <2>1 DEF AreaOf, Typed, RowsInv
  <2>3. \A k \in Ids : incident'[k] # None => incident[k] # None
    BY <2>1 DEF Typed, RowsInv
  <2> QED
    BY <2>1, <2>2, <2>3 DEF AreaRests, SamePlace
<1>9. ASSUME \/ \E i \in Ids, c \in Callsigns : DeleteStation(i, c) \/ \E s \in Statuses : SetStation(i, c, s)
             \/ \E w \in Windows : LoadZones(w)
             \/ \E w \in Windows : CloseForm(w) \/ \E x \in FeedItems : OpenForm(w, x)
      PROVE  AreaRests
  <2>1. UNCHANGED <<area, wanted, disturbed, incident, req>>
    BY <1>9 DEF DeleteStation, SetStation, LoadZones, CloseForm, OpenForm, rows, ghosts
  <2> QED
    BY <2>1 DEF AreaRests, SamePlace
<1>10. \A p \in Slots : SelectDismissal(p) => req[p].op = "dismiss"
  BY DEF SelectDismissal
<1> QED
  BY <1>1, <1>2, <1>3, <1>4, <1>5, <1>6, <1>7, <1>8, <1>9, <1>10, Steps, Zenon

LEMMA PlacesOf ==
    ASSUME Typed, NEW q \in Slots, Places(req[q])
    PROVE  req[q].incident \in Ids
BY FlightKinds DEF Places, Typed, FlightInv, Choice, Replacement

LEMMA AreaCreate ==
    ASSUME Typed, CountInv, AreaOrder, NEW p \in Slots, req[p] = NoRequest, Ask("made", MaxIncidents),
           NEW w \in Windows, CreateIncident(p, w)
    PROVE  AreaOrder'
<1> DEFINE i == asked.made + 1
           t == [status |-> "active", resolvedAt |-> FALSE, item |-> opened[w]]
<1>1. asked.made \in Nat /\ asked'.made = i
  BY AskCounts DEF CountInv, Parts
<1>2. i \in Ids /\ incident' = [incident EXCEPT ![i] = t] /\ t # None
  <2>1. i \in Ids /\ t \in Incident /\ incident' = [incident EXCEPT ![i] = t]
    BY CreateFacts
  <2> HIDE DEF t, i
  <2> QED
    BY <2>1, IncidentsAssumption
<1>13. PICK ids \in SUBSET Boundary : \E r \in InFlight :
          /\ Go(p, r) /\ wanted' = [wanted EXCEPT ![asked.made + 1] = ids]
          /\ Makes(r, asked.made + 1, w, opened[w], ids)
  BY CreateRequest
<1>3. PICK r \in InFlight :
          /\ Go(p, r) /\ wanted' = [wanted EXCEPT ![i] = ids]
          /\ Makes(r, i, w, opened[w], ids)
  BY <1>13
<1>4. area' = area /\ disturbed' = disturbed
  BY DEF CreateIncident
<1>5. \A j \in Ids : /\ j # i => incident'[j] = incident[j] /\ wanted'[j] = wanted[j]
                     /\ incident[j] # None => j <= asked.made /\ j # i
  <2>1. \A j \in Ids : incident[j] # None => j <= asked.made
    BY DEF AreaOrder, KnownIds, Live
  <2>2. \A j \in Ids : j <= asked.made => j # i
    BY <1>1 DEF Ids
  <2> HIDE DEF i, t
  <2> QED
    BY <1>2, <1>3, <2>1, <2>2 DEF Typed, RowsInv, HistoryInv
<1>6. ~Places(req[p]) /\ req'[p] = r /\ \A q \in Slots : q # p => req'[q] = req[q]
  BY <1>3, GoFacts, FlightOps, InFlightIs DEF Places, Typed
<1>7. ASSUME NEW q \in Slots, Places(req[q])
      PROVE  req[q].incident \in Ids /\ req[q].incident <= asked.made /\ req[q].incident # i
  <2>1. req[q].incident \in Ids /\ req[q].incident <= asked.made
    BY <1>7, PlacesOf DEF AreaOrder, KnownIds
  <2> QED
    BY <1>1, <2>1 DEF Ids
<1>8. wanted'[i] = ids /\ w # None
  BY <1>2, <1>3, IncidentsAssumption DEF Typed, HistoryInv
<1>9. /\ Places(r) => r.op = "choose" /\ r.incident = i /\ r.window = w
      /\ ~Places(r) => ids = {}
  BY <1>3, MakesOps DEF Places
<1>10. KnownIds'
  <2>1. \A j \in Ids : j <= asked.made \/ j = i => j <= asked'.made
    BY <1>1 DEF Ids
  <2>2. \A j \in Ids : incident'[j] # None => j <= asked'.made
    <3> HIDE DEF i, t
    <3> QED
      BY <1>5, <2>1
  <2>3. \A q \in Slots : Places(req'[q]) => req'[q].incident <= asked'.made
    <3> HIDE DEF i, t
    <3> QED
      BY <1>2, <1>6, <1>7, <1>9, <2>1
  <2> QED
    BY <2>2, <2>3 DEF KnownIds, Live
<1> HIDE DEF i, t
<1>11. PickedAreWanted'
  <2> SUFFICES ASSUME NEW j \in Ids, incident'[j] # None, j \notin disturbed'
               PROVE  Making(j)' \/ Picked(j)' = wanted'[j]
    BY DEF PickedAreWanted, Live
  <2>1. CASE j = i /\ Places(r)
    <3>1. p \in Replacing(j)' /\ req'[p].window # None
      BY <1>6, <1>8, <1>9, <2>1 DEF Replacing, Places
    <3> QED
      BY <3>1 DEF Making
  <2>2. CASE j = i /\ ~Places(r)
    <3>1. \A a \in area : a.incident # i
      BY <1>5 DEF Typed, RowsInv, AreaRow
    <3>2. Picked(j)' = {}
      BY <1>4, <2>2, <3>1 DEF Picked, AreaOf
    <3>3. ids = {}
      BY <1>9, <2>2
    <3> QED
      BY <1>8, <2>2, <3>2, <3>3
  <2>3. CASE j # i
    <3>1. incident[j] # None /\ j \notin disturbed /\ wanted'[j] = wanted[j] /\ Picked(j)' = Picked(j)
      BY <1>4, <1>5, <2>3 DEF Picked, AreaOf
    <3>2. ASSUME Making(j)
          PROVE  Making(j)'
      <4>1. PICK q \in Slots : q \in Replacing(j) /\ req[q].window # None
        BY <3>2 DEF Making, Replacing
      <4>2. q # p /\ req'[q] = req[q]
        BY <1>6, <4>1 DEF Replacing, Places
      <4> QED
        BY <4>1, <4>2 DEF Making, Replacing
    <3> QED
      BY <3>1, <3>2 DEF AreaOrder, PickedAreWanted, Live
  <2> QED
    BY <2>1, <2>2, <2>3
<1>12. AloneIsAlone'
  <2> SUFFICES ASSUME NEW q \in Slots, Places(req'[q]), req'[q].alone, NEW j, j = req'[q].incident
               PROVE  Replacing(j)' = {q}
    BY DEF AloneIsAlone, Replacing
  <2>1. CASE q = p
    <3>1. j = i
      BY <1>6, <1>9, <2>1
    <3>2. \A u \in Slots : u # p /\ Places(req'[u]) => req'[u].incident # i
      BY <1>6, <1>7
    <3> QED
      BY <2>1, <3>1, <3>2 DEF Replacing, Places
  <2>2. CASE q # p
    <3>1. Replacing(j) = {q} /\ j # i
      BY <1>6, <1>7, <2>2 DEF AreaOrder, AloneIsAlone
    <3>2. \A u \in Slots : Places(req'[u]) /\ req'[u].incident = j => u = q
      BY <1>6, <1>9, <3>1 DEF Replacing, Places
    <3> QED
      BY <3>2 DEF Replacing, Places
  <2> QED
    BY <2>1, <2>2
<1>15. AloneHasAll'
  <2> SUFFICES ASSUME NEW q \in Slots, req'[q].op = "replace", req'[q].alone, NEW j, j = req'[q].incident
               PROVE  AreaOf(j)' \subseteq req'[q].locked
    BY DEF AloneHasAll, AreaOf
  <2>1. q # p
    BY <1>6, <1>9 DEF Places
  <2> QED
    BY <1>4, <1>6, <2>1 DEF AreaOrder, AloneHasAll, AreaOf
<1>14. OnlyItsOwn'
  BY <1>6, <1>9 DEF AreaOrder, OnlyItsOwn, Places
<1> QED
  BY <1>10, <1>11, <1>12, <1>14, <1>15 DEF AreaOrder

LEMMA AreaEdit ==
    ASSUME Typed, CountInv, AreaOrder, NEW p \in Slots, req[p] = NoRequest,
           NEW w \in Windows, NEW i \in Ids, EditArea(p, w, i), CountInv', asked'.made >= asked.made
    PROVE  AreaOrder'
<1>1. PICK r \in Choice : /\ Choosing(p, i, r) /\ r.op = "choose" /\ r.incident = i /\ r.window = None
                          /\ r.item = None /\ (r.alone => Replacing(i) = {})
  BY EditFacts
<1>2. UNCHANGED <<incident, area, wanted, disturbed>> /\ incident[i] # None
  BY DEF EditArea, rows, ghosts
<1>3. /\ req'[p] = r
      /\ \A q \in Slots : q # p =>
            IF q \in Replacing(i) THEN Crowded(req[q], req'[q]) ELSE req'[q] = req[q]
  BY <1>1, ChoosingFacts, InFlightIs DEF Typed
<1>4. ~Places(req[p]) /\ Places(r)
  BY <1>1, FlightOps, InFlightIs DEF Places
<1>5. ASSUME NEW q \in Slots, q # p
      PROVE  /\ Places(req'[q]) <=> Places(req[q])
             /\ Places(req[q]) => /\ req'[q].op = req[q].op /\ req'[q].incident = req[q].incident
                                  /\ req'[q].window = req[q].window
                                  /\ req'[q].alone => req[q].alone /\ req[q].incident # i
                                  /\ req'[q].op = "replace" => req'[q].locked = req[q].locked
  <2>1. CASE q \in Replacing(i)
    BY <1>3, <1>5, <2>1 DEF Crowded, Places
  <2>2. CASE q \notin Replacing(i)
    BY <1>3, <1>5, <2>2 DEF Replacing, Places
  <2> QED
    BY <2>1, <2>2
<1>6. asked.made \in Nat /\ asked'.made \in Nat
  BY DEF CountInv, Parts
<1>7. \A j \in Ids : j <= asked.made => j <= asked'.made
  BY <1>6 DEF Ids
<1>8. KnownIds'
  <2>1. \A j \in Ids : incident'[j] # None => j <= asked.made
    BY <1>2 DEF AreaOrder, KnownIds, Live
  <2>2. \A q \in Slots : Places(req'[q]) => req'[q].incident \in Ids /\ req'[q].incident <= asked.made
    BY <1>1, <1>2, <1>3, <1>5, PlacesOf DEF AreaOrder, KnownIds, Live
  <2> QED
    BY <1>7, <2>1, <2>2 DEF KnownIds, Live
<1>9. PickedAreWanted'
  <2> SUFFICES ASSUME NEW j \in Ids, incident'[j] # None, j \notin disturbed'
               PROVE  Making(j)' \/ Picked(j)' = wanted'[j]
    BY DEF PickedAreWanted, Live
  <2>1. incident[j] # None /\ j \notin disturbed /\ wanted'[j] = wanted[j] /\ Picked(j)' = Picked(j)
    BY <1>2 DEF Picked, AreaOf
  <2>2. ASSUME Making(j)
        PROVE  Making(j)'
    <3>1. PICK q \in Slots : Places(req[q]) /\ req[q].incident = j /\ req[q].window # None
      BY <2>2 DEF Making, Replacing, Places
    <3>2. q # p
      BY <1>4, <3>1
    <3> QED
      BY <1>5, <3>1, <3>2 DEF Making, Replacing, Places
  <2> QED
    BY <2>1, <2>2 DEF AreaOrder, PickedAreWanted, Live
<1>10. AloneIsAlone'
  <2> SUFFICES ASSUME NEW q \in Slots, Places(req'[q]), req'[q].alone, NEW j, j = req'[q].incident
               PROVE  Replacing(j)' = {q}
    BY DEF AloneIsAlone, Replacing
  <2>1. CASE q = p
    <3>1. j = i /\ Replacing(i) = {}
      BY <1>1, <1>3, <2>1
    <3>2. \A u \in Slots : u # p /\ Places(req'[u]) => req'[u].incident # i
      BY <1>5, <3>1 DEF Replacing, Places
    <3> QED
      BY <2>1, <3>1, <3>2 DEF Replacing, Places
  <2>2. CASE q # p
    <3>1. Replacing(j) = {q} /\ j # i
      BY <1>5, <2>2 DEF AreaOrder, AloneIsAlone
    <3>2. \A u \in Slots : Places(req'[u]) /\ req'[u].incident = j => u = q
      BY <1>1, <1>3, <1>5, <3>1 DEF Replacing, Places
    <3> QED
      BY <3>2 DEF Replacing, Places
  <2> QED
    BY <2>1, <2>2
<1>11. AloneHasAll'
  <2> SUFFICES ASSUME NEW q \in Slots, req'[q].op = "replace", req'[q].alone, NEW j, j = req'[q].incident
               PROVE  AreaOf(j)' \subseteq req'[q].locked
    BY DEF AloneHasAll, AreaOf
  <2>1. q # p
    BY <1>1, <1>3
  <2>2. req[q].op = "replace" /\ req[q].alone /\ req[q].incident = j /\ req'[q].locked = req[q].locked
    BY <1>5, <2>1 DEF Places
  <2> QED
    BY <1>2, <2>2 DEF AreaOrder, AloneHasAll, AreaOf
<1>12. OnlyItsOwn'
  BY <1>1, <1>3, <1>5 DEF AreaOrder, OnlyItsOwn, Places
<1> QED
  BY <1>8, <1>9, <1>10, <1>11, <1>12 DEF AreaOrder

LEMMA AreaSelect ==
    ASSUME Typed, AreaOrder, NEW p \in Slots, SelectZones(p)
    PROVE  AreaOrder'
<1>1. PICK r \in Replacement :
         /\ Go(p, r) /\ r.op = "replace" /\ r.incident = req[p].incident
         /\ r.window = req[p].window /\ r.alone = req[p].alone
         /\ r.locked = AreaOf(req[p].incident)
  BY SelectFacts
<1>2. UNCHANGED <<incident, area, wanted, disturbed, asked>> /\ req[p].op = "choose"
  BY DEF SelectZones, rows, ghosts
<1>3. req'[p] = r /\ \A q \in Slots : q # p => req'[q] = req[q]
  BY <1>1, GoFacts, InFlightIs DEF Typed
<1>4. \A q \in Slots : /\ Places(req'[q]) <=> Places(req[q])
                       /\ Places(req[q]) => /\ req'[q].incident = req[q].incident
                                            /\ req'[q].window = req[q].window /\ req'[q].alone = req[q].alone
  BY <1>1, <1>2, <1>3 DEF Places
<1>5. \A j : Replacing(j)' = Replacing(j)
  BY <1>4 DEF Replacing, Places
<1>6. \A j : Making(j)' <=> Making(j)
  BY <1>4, <1>5 DEF Making, Replacing, Places
<1>7. \A j : AreaOf(j)' = AreaOf(j) /\ Picked(j)' = Picked(j)
  BY <1>2 DEF AreaOf, Picked
<1>8. KnownIds' /\ PickedAreWanted'
  BY <1>2, <1>4, <1>6, <1>7 DEF AreaOrder, KnownIds, PickedAreWanted, Live
<1>9. AloneIsAlone'
  <2> SUFFICES ASSUME NEW q \in Slots, Places(req'[q]), req'[q].alone, NEW j, j = req'[q].incident
               PROVE  Replacing(j)' = {q}
    BY DEF AloneIsAlone, Replacing
  <2> QED
    BY <1>4, <1>5 DEF AreaOrder, AloneIsAlone
<1>10. AloneHasAll' /\ OnlyItsOwn'
  <2> SUFFICES ASSUME NEW q \in Slots, req'[q].op = "replace", NEW j, j = req'[q].incident
               PROVE  /\ req'[q].alone => AreaOf(j)' \subseteq req'[q].locked
                      /\ \A a \in req'[q].locked : a.incident = j
    BY DEF AloneHasAll, AreaOf, OnlyItsOwn
  <2>1. CASE q = p
    BY <1>1, <1>2, <1>3, <2>1 DEF AreaOf
  <2>2. CASE q # p
    BY <1>2, <1>3, <2>2 DEF AreaOrder, AloneHasAll, AreaOf, OnlyItsOwn
  <2> QED
    BY <2>1, <2>2
<1> QED
  BY <1>8, <1>9, <1>10 DEF AreaOrder

LEMMA AreaReplace ==
    ASSUME Typed, AreaOrder, NEW p \in Slots, ReplaceZones(p)
    PROVE  AreaOrder'
<1> DEFINE i == req[p].incident
           kept == area \ req[p].locked
           new == Pairs(i, req[p].valid)
<1>1. req[p].op = "replace" /\ Chosen(p) /\ area' = kept \cup new
  BY DEF ReplaceZones
<1>2. req[p] \in Replacement /\ i \in Ids
  BY <1>1, ChosenFacts DEF Replacement
<1>3. /\ wanted' = [wanted EXCEPT ![i] = req[p].ids] /\ incident' = incident /\ asked' = asked
      /\ disturbed' = IF req[p].alone /\ req[p].valid = req[p].ids THEN disturbed \ {i} ELSE disturbed \cup {i}
  BY <1>1 DEF Chosen
<1>4. ~Places(req'[p])
  BY <1>1, ChosenFacts, FlightOps, InFlightIs DEF Places, Created
<1>5. ASSUME NEW q \in Slots, q # p
      PROVE  SamePlace(req[q], req'[q]) /\ (Places(req[q]) => Places(req'[q]))
  <2>1. req[q] \in InFlight /\ Resumed(req[q], req'[q])
    BY <1>1, <1>5, ChosenFacts DEF Typed, FlightInv
  <2> QED
    BY <2>1, ResumedPlace
<1>6. \A q \in Slots : Places(req'[q]) =>
         /\ q # p /\ Places(req[q]) /\ req'[q].op = req[q].op /\ req'[q].incident = req[q].incident
         /\ req'[q].window = req[q].window /\ req'[q].alone = req[q].alone
         /\ req'[q].op = "replace" => req'[q].locked = req[q].locked
  BY <1>4, <1>5 DEF SamePlace, Places
<1>7. ASSUME NEW j, j # i
      PROVE  AreaOf(j)' = AreaOf(j)
  <2>1. \A a \in new : a.incident = i
    BY DEF Pairs
  <2>2. \A a \in req[p].locked : a.incident = i
    BY <1>1 DEF AreaOrder, OnlyItsOwn
  <2> HIDE DEF new, i
  <2> QED
    BY <1>1, <1>7, <2>1, <2>2 DEF AreaOf
<1>8. KnownIds'
  BY <1>3, <1>6 DEF AreaOrder, KnownIds, Live
<1>9. PickedAreWanted'
  <2> SUFFICES ASSUME NEW j \in Ids, incident'[j] # None, j \notin disturbed'
               PROVE  Making(j)' \/ Picked(j)' = wanted'[j]
    BY DEF PickedAreWanted, Live
  <2>1. CASE j = i
    <3>1. req[p].alone /\ req[p].valid = req[p].ids
      BY <1>3, <2>1
    <3>2. AreaOf(i) \subseteq req[p].locked
      BY <1>1, <3>1 DEF AreaOrder, AloneHasAll
    <3>3. \A a \in kept : a.incident # i
      BY <3>2 DEF AreaOf
    <3>4. /\ \A a \in new : a.incident = i /\ a.boundary \in req[p].valid
          /\ \A b \in req[p].valid : \E a \in new : a.boundary = b
      <4>1. \A b \in req[p].valid : [incident |-> i, boundary |-> b] \in new
        BY DEF Pairs
      <4>2. \A a \in new : a.incident = i /\ a.boundary \in req[p].valid
        BY DEF Pairs
      <4>3. \A b : [incident |-> i, boundary |-> b].boundary = b
        OBVIOUS
      <4> HIDE DEF new, i
      <4> QED
        BY <4>1, <4>2, <4>3
    <3>5. AreaOf(j)' = new
      <4> HIDE DEF kept, new
      <4> QED
        BY <1>1, <2>1, <3>3, <3>4 DEF AreaOf
    <3>6. Picked(j)' = req[p].valid
      <4> HIDE DEF new
      <4> QED
        BY <3>4, <3>5 DEF Picked
    <3>7. wanted'[j] = req[p].ids
      BY <1>2, <1>3, <2>1 DEF Typed, HistoryInv
    <3> QED
      BY <3>1, <3>6, <3>7
  <2>2. CASE j # i
    <3>1. incident[j] # None /\ j \notin disturbed /\ wanted'[j] = wanted[j]
      BY <1>3, <2>2 DEF Typed, HistoryInv
    <3>2. Picked(j)' = Picked(j)
      BY <1>7, <2>2 DEF Picked
    <3>3. ASSUME Making(j)
          PROVE  Making(j)'
      <4>1. PICK q \in Slots : Places(req[q]) /\ req[q].incident = j /\ req[q].window # None
        BY <3>3 DEF Making, Replacing, Places
      <4>2. q # p /\ Places(req'[q])
        BY <1>5, <2>2, <4>1
      <4> QED
        BY <1>6, <4>1, <4>2 DEF Making, Replacing, Places
    <3> QED
      BY <3>1, <3>2, <3>3 DEF AreaOrder, PickedAreWanted, Live
  <2> QED
    BY <2>1, <2>2
<1>10. AloneIsAlone'
  <2> SUFFICES ASSUME NEW q \in Slots, Places(req'[q]), req'[q].alone, NEW j, j = req'[q].incident
               PROVE  Replacing(j)' = {q}
    BY DEF AloneIsAlone, Replacing
  <2>1. Replacing(j) = {q} /\ j = req[q].incident
    BY <1>6 DEF AreaOrder, AloneIsAlone
  <2>2. \A u \in Slots : Places(req'[u]) /\ req'[u].incident = j => u = q
    BY <1>6, <2>1 DEF Replacing, Places
  <2> QED
    BY <2>1, <2>2 DEF Replacing, Places
<1>11. AloneHasAll'
  <2> SUFFICES ASSUME NEW q \in Slots, req'[q].op = "replace", req'[q].alone, NEW j, j = req'[q].incident
               PROVE  AreaOf(j)' \subseteq req'[q].locked
    BY DEF AloneHasAll, AreaOf
  <2>1. q # p /\ req[q].op = "replace" /\ req[q].alone /\ j = req[q].incident /\ req'[q].locked = req[q].locked
    BY <1>6 DEF Places
  <2>2. AreaOf(j) \subseteq req[q].locked /\ Replacing(j) = {q}
    BY <2>1 DEF AreaOrder, AloneHasAll, AloneIsAlone, Places
  <2>3. j # i
    BY <1>1, <2>1, <2>2 DEF Replacing
  <2> QED
    BY <1>7, <2>1, <2>2, <2>3
<1>12. OnlyItsOwn'
  BY <1>6 DEF AreaOrder, OnlyItsOwn, Places
<1> QED
  BY <1>8, <1>9, <1>10, <1>11, <1>12 DEF AreaOrder

LEMMA AreaStep ==
    ASSUME IncidentsTypeInv, AreaOrder, [IncidentsNext]_incidentsVars
    PROVE  AreaOrder'
<1>1. Typed /\ CountInv
  BY DEF IncidentsTypeInv, Typed
<1>2. CASE IncidentsNext
  <2>1. CountInv' /\ asked'.made >= asked.made
    BY <1>1, <1>2, CountStep
  <2> QED
    BY <1>1, <1>2, <2>1, AreaSteps, AreaKept, AreaCreate, AreaEdit, AreaSelect, AreaReplace
<1>3. CASE UNCHANGED incidentsVars
  <2>1. AreaRests
    BY <1>3 DEF AreaRests, SamePlace, incidentsVars, rows, ghosts
  <2>2. CountInv' /\ asked'.made >= asked.made
    BY <1>1, <1>3 DEF CountInv, Parts, incidentsVars
  <2> QED
    BY <1>1, <2>1, <2>2, AreaKept
<1> QED
  BY <1>2, <1>3

\* The area of an incident is the zones last chosen for it (_set_incident_zones), in any
\* interleaving with other choices, syncs and deletions: only a sync that took one of its rows,
\* a second choice at the same time, a choice some of whose zones had gone, or a creation cut
\* short makes it another.
THEOREM AreasAreChosen == IncidentsSpec => []AreaAsChosen
<1>1. IncidentsInit => AreaOrder
  <2> SUFFICES ASSUME IncidentsInit
               PROVE  AreaOrder
    OBVIOUS
  <2>1. \A p \in Slots : ~Places(req[p])
    BY FlightOps, InFlightIs DEF IncidentsInit, Places
  <2>2. Live = {}
    BY DEF IncidentsInit, Live
  <2> QED
    BY <2>1, <2>2 DEF AreaOrder, KnownIds, PickedAreWanted, AloneIsAlone, AloneHasAll, OnlyItsOwn, Places
<1>2. IncidentsTypeInv /\ AreaOrder /\ [IncidentsNext]_incidentsVars => AreaOrder'
  BY AreaStep
<1>3. AreaOrder => AreaAsChosen
  BY DEF AreaOrder, PickedAreWanted, AreaAsChosen, Picked, Making
<1> QED
  BY <1>1, <1>2, <1>3, TypesHold, PTL DEF IncidentsSpec

-----------------------------------------------------------------------------
(***************************************************************************)
(* Items of the feed.  One request at most handles an item that nobody     *)
(* contests.  While it does, the item's incident is the one it is making,  *)
(* and only its own window still knows the item; before, there is none,    *)
(* and afterwards the item's row names it and no window shows it.          *)
(***************************************************************************)

Handles(r, x) == r.op \in {"choose", "replace", "created", "dismiss", "mark"} /\ r.item = x

Late(r) == r.op \in {"dismiss", "mark"}

\* No window but w shows item x or has it on a form, and no list with it is on its way.
Unseen(w, x) ==
    /\ \A v \in Windows : v # w => x \notin shows[v] /\ opened[v] # x
    /\ \A q \in Slots : req[q].op = "feed" => x \notin req[q].got

Of(x) == {i \in Live : incident[i].item = x}

OneFlow(x) == \A p, q \in Slots : Handles(req[p], x) /\ Handles(req[q], x) => p = q

Filed(x) ==
    (\A p \in Slots : ~Handles(req[p], x)) => \A i \in Of(x) :
        /\ Of(x) = {i} /\ Unseen(None, x)
        /\ dismissal[x] # None /\ dismissal[x].incident = i

\* What a request that handles x has in hand.
InHand(r, x) ==
    IF Late(r) /\ r.incident = None THEN Of(x) = {}
    ELSE /\ Of(x) \subseteq {r.incident} /\ r.window # None /\ Unseen(r.window, x)
         /\ Late(r) => opened[r.window] # x

ItemOrder(x) ==
    /\ OneFlow(x) /\ Filed(x)
    /\ \A p \in Slots : Handles(req[p], x) => InHand(req[p], x)

SameFlow(a, b, x) ==
    /\ Handles(b, x) <=> Handles(a, x)
    /\ Handles(a, x) => b.incident = a.incident /\ b.window = a.window /\ (Late(b) <=> Late(a))
    /\ b.op = "feed" /\ x \in b.got => a.op = "feed" /\ x \in a.got

SameFlows(x) == \A q \in Slots : SameFlow(req[q], req'[q], x)

\* A step that brings nothing new of item x.
ItemRests(x) ==
    /\ \A i \in Ids : incident'[i] # None /\ incident'[i].item = x => incident[i] # None /\ incident[i].item = x
    /\ \A w \in Windows : (x \in shows'[w] => x \in shows[w]) /\ (opened'[w] = x => opened[w] = x)
    /\ \A i \in Ids : incident'[i] # None /\ dismissal[x] # None /\ dismissal[x].incident = i =>
          dismissal'[x] # None /\ dismissal'[x].incident = i
    /\ SameFlows(x)

LEMMA OfSlots == \A x : Flows(x) = {p \in Slots : Handles(req[p], x)}
BY DEF Flows, Handles

LEMMA UnseenKept ==
    ASSUME NEW x \in FeedItems, ItemRests(x), NEW w, Unseen(w, x)
    PROVE  Unseen(w, x)'
BY DEF ItemRests, SameFlows, SameFlow, Unseen

LEMMA ItemKept ==
    ASSUME FlightInv', NEW x \in FeedItems, ItemOrder(x), ItemRests(x)
    PROVE  ItemOrder(x)'
<1>1. Of(x)' \subseteq Of(x)
  BY DEF ItemRests, Of, Live
<1>2. \A q \in Slots :
         /\ Handles(req'[q], x) <=> Handles(req[q], x)
         /\ Handles(req[q], x) =>
               req'[q].incident = req[q].incident /\ req'[q].window = req[q].window /\ (Late(req'[q]) <=> Late(req[q]))
  BY DEF ItemRests, SameFlows, SameFlow
<1>3. OneFlow(x)'
  BY <1>2 DEF ItemOrder, OneFlow
<1>4. Filed(x)'
  <2> SUFFICES ASSUME \A p \in Slots : ~Handles(req'[p], x), NEW i \in Of(x)'
               PROVE  /\ Of(x)' = {i} /\ Unseen(None, x)'
                      /\ dismissal'[x] # None /\ dismissal'[x].incident = i
    BY DEF Filed
  <2>1. i \in Of(x) /\ Of(x) = {i} /\ Unseen(None, x) /\ dismissal[x] # None /\ dismissal[x].incident = i
    BY <1>1, <1>2 DEF ItemOrder, Filed
  <2>2. Unseen(None, x)'
    BY <2>1, UnseenKept
  <2>3. i \in Ids /\ incident'[i] # None
    BY DEF Of, Live
  <2>4. dismissal'[x] # None /\ dismissal'[x].incident = i
    BY <2>1, <2>3 DEF ItemRests
  <2> QED
    BY <1>1, <2>1, <2>2, <2>4
<1>5. ASSUME NEW p \in Slots, Handles(req'[p], x)
      PROVE  InHand(req[p], x)
  BY <1>2, <1>5 DEF ItemOrder
<1>6. ASSUME NEW p \in Slots, Handles(req'[p], x), NEW r, r = req'[p]
      PROVE  InHand(r, x)'
  <2>1. InHand(req[p], x) /\ r.incident = req[p].incident /\ r.window = req[p].window /\ (Late(r) <=> Late(req[p]))
    BY <1>2, <1>5, <1>6
  <2>2. CASE Late(r) /\ r.incident = None
    BY <1>1, <2>1, <2>2 DEF InHand
  <2>3. CASE ~(Late(r) /\ r.incident = None)
    <3>1. /\ Of(x) \subseteq {r.incident} /\ r.window # None /\ Unseen(r.window, x)
          /\ Late(r) => opened[r.window] # x
      BY <2>1, <2>3 DEF InHand
    <3>2. Unseen(r.window, x)'
      BY <3>1, UnseenKept
    <3>3. Late(r) => r.window \in Windows
      <4>1. \A s \in InFlight : Late(s) => s.window \in Windows
        BY FlightKinds DEF Late, Dismissing, Marking
      <4> QED
        BY <1>6, <4>1 DEF FlightInv
    <3>4. Late(r) => opened'[r.window] # x
      BY <3>1, <3>3 DEF ItemRests
    <3> QED
      BY <1>1, <2>3, <3>1, <3>2, <3>4 DEF InHand
  <2> QED
    BY <2>2, <2>3
<1> QED
  BY <1>3, <1>4, <1>6 DEF ItemOrder

LEMMA ResumedFlow ==
    ASSUME NEW a \in InFlight, NEW b, Resumed(a, b), NEW x
    PROVE  SameFlow(a, b, x)
BY ResumedFacts DEF SameFlow, Handles, Late, Locking

LEMMA FreedFlow ==
    ASSUME FlightInv, NEW p \in Slots, req' = Freed(p), NEW x, ~Handles(req[p], x)
    PROVE  SameFlows(x)
<1>1. ASSUME NEW q \in Slots
      PROVE  SameFlow(req[q], req'[q], x)
  <2>1. CASE q = p
    BY <2>1, FreedStep, FlightOps, InFlightIs DEF SameFlow, Handles
  <2>2. CASE q # p
    <3>1. req[q] \in InFlight /\ Resumed(req[q], req'[q])
      BY <2>2, FreedStep DEF FlightInv
    <3> QED
      BY <3>1, ResumedFlow
  <2> QED
    BY <2>1, <2>2
<1> QED
  BY <1>1 DEF SameFlows

LEMMA GoFlow ==
    ASSUME FlightInv, NEW p \in Slots, NEW r \in InFlight, Go(p, r), NEW x, SameFlow(req[p], r, x)
    PROVE  SameFlows(x)
BY GoFacts DEF SameFlows, SameFlow

\* A request of another kind, where there was none.
LEMMA OtherFlow ==
    ASSUME NEW r, NEW x, r.op \notin {"choose", "replace", "created", "dismiss", "mark", "feed"}
    PROVE  SameFlow(NoRequest, r, x)
BY FlightOps, InFlightIs DEF SameFlow, Handles

\* Rows and pages as they were, as far as items of the feed go.
ItemStill(x) ==
    /\ UNCHANGED <<incident, shows, opened>>
    /\ dismissal' = dismissal

LEMMA StillItem ==
    ASSUME NEW x, ItemStill(x), SameFlows(x)
    PROVE  ItemRests(x)
BY DEF ItemStill, ItemRests

\* What takes item x up, moves it on or settles it.
Touches(p, x) ==
    \/ req[p] = NoRequest /\ \E w \in Windows : CreateIncident(p, w) /\ opened[w] = x
    \/ req[p] = NoRequest /\ \E w \in Windows, r \in Feed : LoadFeed(p, w) /\ Go(p, r) /\ x \in r.got
    \/ req[p] = NoRequest /\ \E w \in Windows : Dismiss(p, w, x)
    \/ ShowFeed(p) /\ x \in req[p].got
    \/ MarkItem(p) /\ req[p].item = x
    \/ CommitDismissal(p) /\ req[p].item = x

LEMMA ItemSteps ==
    ASSUME Typed, CountInv, NEW x \in FeedItems, x \notin contested', ItemOrder(x), IncidentsNext
    PROVE  \/ ItemRests(x) \/ \E p \in Slots : Touches(p, x)
           \/ \E w \in Windows : OpenForm(w, x)
<1>1. ASSUME NEW p \in Slots, req[p] = NoRequest,
             Sync(p) \/ \E i \in Ids, s \in {"active", "resolved"} : LoadStatus(p, i, s)
      PROVE  ItemRests(x)
  <2>1. ItemStill(x)
    BY <1>1 DEF ItemStill, Sync, LoadStatus, rows, pages
  <2>2. \E r \in InFlight : Go(p, r) /\ r.op \in {"sync", "status"}
    BY <1>1, SyncRequest, LoadStatusFacts, InFlightIs DEF Synced
  <2> QED
    BY <1>1, <2>1, <2>2, OtherFlow, GoFlow, StillItem DEF Typed
<1>2. ASSUME NEW p \in Slots, req[p] = NoRequest, UNCHANGED <<rows, pages, ghosts>>, NEW i \in Ids,
             LoadScan(p, i) \/ \E c \in Callsigns : LoadAddStation(p, i, c)
      PROVE  ItemRests(x)
  <2>1. ItemStill(x)
    BY <1>2 DEF ItemStill, rows, pages
  <2>2. \E r \in InFlight : Go(p, r) /\ r.op = "scan"
    BY <1>2, ScanFacts, InFlightIs
  <2> QED
    BY <1>2, <2>1, <2>2, OtherFlow, GoFlow, StillItem DEF Typed
<1>3. ASSUME NEW p \in Slots, FetchSource(p)
      PROVE  ItemRests(x)
  <2>1. ItemStill(x)
    BY <1>3 DEF ItemStill, FetchSource, rows, pages
  <2>2. \A q \in Slots : req'[q] = req[q] \/ (req[q] \in Synced /\ req'[q] \in Synced)
    BY <1>3, FetchSourceFacts DEF Fetched, Rivalled
  <2>3. \A a, b \in Synced : SameFlow(a, b, x)
    BY DEF SameFlow, Handles, Synced
  <2>4. SameFlows(x)
    BY <2>2, <2>3 DEF SameFlows, SameFlow
  <2> QED
    BY <2>1, <2>4, StillItem
<1>4. ASSUME NEW p \in Slots, CommitSync(p) \/ CommitStations(p)
      PROVE  ItemRests(x)
  <2>1. ItemStill(x) /\ req' = Freed(p) /\ ~Handles(req[p], x)
    BY <1>4 DEF ItemStill, CommitSync, CommitStations, pages, Handles
  <2> QED
    BY <2>1, FreedFlow, StillItem DEF Typed
<1>5. ASSUME NEW p \in Slots, CommitStatus(p)
      PROVE  ItemRests(x)
  <2>1. UNCHANGED <<shows, opened, dismissal>> /\ req' = Freed(p) /\ ~Handles(req[p], x)
    BY <1>5 DEF CommitStatus, pages, Handles
  <2>2. SameFlows(x)
    BY <2>1, FreedFlow DEF Typed
  <2>3. req[p].incident \in Ids /\ incident[req[p].incident] \in Incident
    BY <1>5, CommitStatusFacts DEF Turn
  <2>4. PICK t \in Incident : /\ incident' = [incident EXCEPT ![req[p].incident] = t]
                              /\ t.item = incident[req[p].incident].item
    BY <1>5, CommitStatusFacts
  <2>5. \A i \in Ids : incident'[i] # None /\ incident'[i].item = x => incident[i] # None /\ incident[i].item = x
    BY <2>3, <2>4, IncidentsAssumption DEF Typed, RowsInv
  <2> QED
    BY <2>1, <2>2, <2>5 DEF ItemRests
<1>6. ASSUME NEW p \in Slots, req[p] = NoRequest, NEW w \in Windows, NEW i \in Ids, EditArea(p, w, i)
      PROVE  ItemRests(x)
  <2>1. ItemStill(x)
    BY <1>6 DEF ItemStill, EditArea, rows, pages
  <2>2. PICK r \in Choice : Choosing(p, i, r) /\ r.op = "choose" /\ r.item = None
    BY <1>6, EditFacts
  <2>3. /\ req'[p] = r
        /\ \A q \in Slots : q # p =>
              IF q \in Replacing(i) THEN Crowded(req[q], req'[q]) ELSE req'[q] = req[q]
    BY <2>2, ChoosingFacts, InFlightIs DEF Typed
  <2>4. ASSUME NEW q \in Slots
        PROVE  SameFlow(req[q], req'[q], x)
    <3>1. CASE q = p
      <4>1. ~Handles(req'[p], x) /\ req'[p].op # "feed"
        BY <2>2, <2>3, IncidentsAssumption DEF Handles
      <4>2. ~Handles(req[p], x)
        BY <1>6, FlightOps, InFlightIs DEF Handles
      <4> QED
        BY <3>1, <4>1, <4>2 DEF SameFlow
    <3>2. CASE q # p /\ q \in Replacing(i)
      BY <2>3, <3>2 DEF SameFlow, Crowded, Handles, Late, Replacing
    <3>3. CASE q # p /\ q \notin Replacing(i)
      BY <2>3, <3>3 DEF SameFlow
    <3> QED
      BY <3>1, <3>2, <3>3
  <2> QED
    BY <2>1, <2>4, StillItem DEF SameFlows
<1>7. ASSUME NEW p \in Slots, SelectZones(p)
      PROVE  ItemRests(x)
  <2>1. ItemStill(x) /\ req[p].op = "choose"
    BY <1>7 DEF ItemStill, SelectZones, rows, pages
  <2>2. PICK r \in Replacement : /\ Go(p, r) /\ r.op = "replace" /\ r.incident = req[p].incident
                                 /\ r.window = req[p].window /\ r.item = req[p].item
    BY <1>7, SelectFacts
  <2>3. SameFlow(req[p], r, x)
    BY <2>1, <2>2 DEF SameFlow, Handles, Late
  <2> QED
    BY <2>1, <2>2, <2>3, GoFlow, StillItem, InFlightIs DEF Typed
<1>8. ASSUME NEW p \in Slots, ReplaceZones(p)
      PROVE  ItemRests(x)
  <2>1. ItemStill(x) /\ req[p].op = "replace" /\ Chosen(p)
    BY <1>8 DEF ItemStill, ReplaceZones, Chosen, pages
  <2>2. req[p].window = None => ~Handles(req[p], x)
    BY <2>1 DEF ItemOrder, InHand, Late
  <2>3. ASSUME NEW q \in Slots
        PROVE  SameFlow(req[q], req'[q], x)
    <3>1. CASE q = p /\ req[p].window = None
      <4>1. req'[p] = NoRequest
        BY <2>1, <3>1, ChosenFacts
      <4> QED
        BY <2>2, <3>1, <4>1, FlightOps, InFlightIs DEF SameFlow, Handles
    <3>2. CASE q = p /\ req[p].window # None
      <4>1. req'[p] = Created(req[p].incident, req[p].window, req[p].item)
        BY <2>1, <3>2, ChosenFacts
      <4> QED
        BY <2>1, <3>2, <4>1 DEF SameFlow, Handles, Late, Created
    <3>3. CASE q # p
      <4>1. req[q] \in InFlight /\ Resumed(req[q], req'[q])
        BY <2>1, <3>3, ChosenFacts DEF Typed, FlightInv
      <4> QED
        BY <4>1, ResumedFlow
    <3> QED
      BY <3>1, <3>2, <3>3
  <2> QED
    BY <2>1, <2>3, StillItem DEF SameFlows
<1>9. ASSUME NEW i \in Ids, DeleteIncident(i)
      PROVE  ItemRests(x)
  <2>1. incident' = [incident EXCEPT ![i] = None] /\ UNCHANGED <<shows, opened, req>>
    BY <1>9 DEF DeleteIncident, pages
  <2>2. dismissal'[x] = IF dismissal[x] # None /\ dismissal[x].incident = i
                        THEN [dismissal[x] EXCEPT !.incident = None] ELSE dismissal[x]
    BY <1>9 DEF DeleteIncident
  <2>3. \A k \in Ids : incident'[k] # None => k # i /\ incident'[k] = incident[k]
    BY <2>1 DEF Typed, RowsInv
  <2>4. SameFlows(x)
    BY <2>1 DEF SameFlows, SameFlow
  <2>5. \A k \in Ids : incident'[k] # None /\ dismissal[x] # None /\ dismissal[x].incident = k =>
            dismissal'[x] # None /\ dismissal'[x].incident = k
    BY <2>2, <2>3
  <2> QED
    BY <2>1, <2>3, <2>4, <2>5 DEF ItemRests
<1>10. ASSUME \/ \E i \in Ids, c \in Callsigns : DeleteStation(i, c) \/ \E s \in Statuses : SetStation(i, c, s)
              \/ \E w \in Windows : LoadZones(w)
       PROVE  ItemRests(x)
  <2>1. ItemStill(x) /\ req' = req
    BY <1>10 DEF ItemStill, DeleteStation, SetStation, LoadZones, rows, pages
  <2> QED
    BY <2>1, StillItem DEF SameFlows, SameFlow
<1>11. ASSUME NEW w \in Windows, CloseForm(w) \/ \E y \in FeedItems : y # x /\ OpenForm(w, y)
       PROVE  ItemRests(x)
  <2>1. UNCHANGED <<incident, shows, dismissal, req>>
    BY <1>11 DEF CloseForm, OpenForm, rows
  <2>2. \A v \in Windows : opened'[v] = x => opened[v] = x
    BY <1>11, IncidentsAssumption DEF CloseForm, OpenForm, Typed, PagesInv
  <2> QED
    BY <2>1, <2>2 DEF ItemRests, SameFlows, SameFlow
<1>12. ASSUME NEW p \in Slots, Fail(p)
       PROVE  ItemRests(x)
  <2>1. ItemStill(x) /\ req' = Freed(p)
    BY <1>12 DEF ItemStill, Fail, rows, pages
  <2>2. ~Handles(req[p], x)
    BY <1>12, OfSlots DEF Fail
  <2> QED
    BY <2>1, <2>2, FreedFlow, StillItem DEF Typed
<1>13. ASSUME NEW p \in Slots, SelectDismissal(p)
       PROVE  ItemRests(x)
  <2>1. ItemStill(x) /\ req[p].op = "dismiss"
    BY <1>13 DEF ItemStill, SelectDismissal, rows, pages
  <2>2. PICK r \in Marking : /\ Go(p, r) /\ r.op = "mark" /\ r.item = req[p].item /\ r.incident = req[p].incident
                             /\ r.window = req[p].window
    BY <1>13, SelectDismissalFacts
  <2>3. SameFlow(req[p], r, x)
    BY <2>1, <2>2 DEF SameFlow, Handles, Late
  <2> QED
    BY <2>1, <2>2, <2>3, GoFlow, StillItem, InFlightIs DEF Typed
<1>14. ASSUME NEW p \in Slots, req[p] = NoRequest, NEW w \in Windows, CreateIncident(p, w), opened[w] # x
       PROVE  ItemRests(x)
  <2> DEFINE i == asked.made + 1
             t == [status |-> "active", resolvedAt |-> FALSE, item |-> opened[w]]
  <2>1. UNCHANGED <<shows, opened, dismissal>>
    BY <1>14 DEF CreateIncident, pages
  <2>2. i \in Ids /\ incident' = [incident EXCEPT ![i] = t] /\ t.item # x
    BY <1>14, CreateFacts
  <2>3. PICK ids \in SUBSET Boundary : \E r \in InFlight :
           /\ Go(p, r) /\ wanted' = [wanted EXCEPT ![asked.made + 1] = ids]
           /\ Makes(r, asked.made + 1, w, opened[w], ids)
    BY <1>14, CreateRequest
  <2>4. PICK r \in InFlight : Go(p, r) /\ Makes(r, i, w, opened[w], ids)
    BY <2>3
  <2>5. r.op \in {"created", "choose"} /\ r.item = opened[w]
    BY <2>4, MakesOps
  <2>6. SameFlow(req[p], r, x)
    BY <1>14, <2>5, FlightOps, InFlightIs DEF SameFlow, Handles
  <2>7. SameFlows(x)
    BY <2>4, <2>6, GoFlow DEF Typed
  <2>8. \A k \in Ids : incident'[k] # None /\ incident'[k].item = x => incident[k] # None /\ incident[k].item = x
    <3> HIDE DEF i, t
    <3> QED
      BY <2>2 DEF Typed, RowsInv
  <2> QED
    BY <2>1, <2>7, <2>8 DEF ItemRests
<1>15. ASSUME NEW p \in Slots, req[p] = NoRequest, NEW w \in Windows, LoadFeed(p, w)
       PROVE  ItemRests(x) \/ Touches(p, x)
  <2>1. ItemStill(x)
    BY <1>15 DEF ItemStill, LoadFeed, rows, pages
  <2>2. PICK r \in Feed : Go(p, r) /\ r.op = "feed"
    BY <1>15, LoadFeedFacts
  <2>3. CASE x \in r.got
    BY <1>15, <2>2, <2>3 DEF Touches
  <2>4. CASE x \notin r.got
    <3>1. SameFlow(req[p], r, x)
      BY <1>15, <2>2, <2>4, FlightOps, InFlightIs DEF SameFlow, Handles
    <3> QED
      BY <2>1, <2>2, <3>1, GoFlow, StillItem, InFlightIs DEF Typed
  <2> QED
    BY <2>3, <2>4
<1>16. ASSUME NEW p \in Slots, req[p] = NoRequest, NEW w \in Windows, NEW y \in FeedItems, y # x, Dismiss(p, w, y)
       PROVE  ItemRests(x)
  <2>1. ItemStill(x)
    BY <1>16 DEF ItemStill, Dismiss, rows, pages
  <2>2. PICK r \in Dismissing : Go(p, r) /\ r.op = "dismiss" /\ r.item = y
    BY <1>16, DismissFacts
  <2>3. SameFlow(req[p], r, x)
    BY <1>16, <2>2, FlightOps, InFlightIs DEF SameFlow, Handles
  <2> QED
    BY <2>1, <2>2, <2>3, GoFlow, StillItem, InFlightIs DEF Typed
<1>17. ASSUME NEW p \in Slots, ShowFeed(p), x \notin req[p].got
       PROVE  ItemRests(x)
  <2>1. /\ UNCHANGED <<incident, dismissal, opened>> /\ req' = Freed(p) /\ req[p].op = "feed"
        /\ shows' = [shows EXCEPT ![req[p].window] = req[p].got]
    BY <1>17 DEF ShowFeed, rows
  <2>2. SameFlows(x)
    BY <2>1, FreedFlow DEF Typed, Handles
  <2>3. \A v \in Windows : x \in shows'[v] => x \in shows[v]
    BY <1>17, <2>1 DEF Typed, PagesInv
  <2> QED
    BY <2>1, <2>2, <2>3 DEF ItemRests
<1>18. ASSUME NEW p \in Slots, MarkItem(p), req[p].item # x
       PROVE  ItemRests(x)
  <2>1. UNCHANGED <<incident, shows, dismissal>> /\ req[p].op = "created"
    BY <1>18 DEF MarkItem, rows
  <2>2. \A v \in Windows : opened'[v] = x => opened[v] = x
    BY <1>18, MarkFacts, IncidentsAssumption DEF Typed, PagesInv
  <2>3. SameFlows(x)
    <3>1. CASE req[p].item = None
      BY <1>18, <3>1, MarkFacts, FreedFlow DEF Typed, Handles
    <3>2. CASE req[p].item # None
      <4>1. PICK r \in Dismissing : Go(p, r) /\ r.op = "dismiss" /\ r.item = req[p].item
        BY <1>18, <3>2, MarkFacts
      <4>2. SameFlow(req[p], r, x)
        BY <1>18, <4>1 DEF SameFlow, Handles
      <4> QED
        BY <4>1, <4>2, GoFlow, InFlightIs DEF Typed
    <3> QED
      BY <3>1, <3>2
  <2> QED
    BY <2>1, <2>2, <2>3 DEF ItemRests
<1>19. ASSUME NEW p \in Slots, CommitDismissal(p), req[p].item # x
       PROVE  ItemRests(x)
  <2>1. /\ UNCHANGED <<incident, opened>> /\ req' = Freed(p)
        /\ shows' = [shows EXCEPT ![req[p].window] = @ \ {req[p].item}]
        /\ dismissal' = [dismissal EXCEPT ![req[p].item] = Marked(p)]
    BY <1>19 DEF CommitDismissal, Handled
  <2>2. SameFlows(x)
    BY <1>19, <2>1, FreedFlow DEF Typed, Handles
  <2>3. \A v \in Windows : x \in shows'[v] => x \in shows[v]
    BY <2>1 DEF Typed, PagesInv
  <2>4. dismissal'[x] = dismissal[x]
    BY <1>19, <2>1 DEF Typed, RowsInv
  <2> QED
    BY <2>1, <2>2, <2>3, <2>4 DEF ItemRests
<1>20. CASE \E p \in Slots : req[p] = NoRequest /\
              \/ Sync(p) \/ \E w \in Windows : CreateIncident(p, w)
              \/ \E w \in Windows, i \in Ids : EditArea(p, w, i)
              \/ \E i \in Ids, s \in {"active", "resolved"} : LoadStatus(p, i, s)
              \/ /\ UNCHANGED <<rows, pages, ghosts>>
                 /\ \E i \in Ids : LoadScan(p, i) \/ \E c \in Callsigns : LoadAddStation(p, i, c)
              \/ \E w \in Windows : LoadFeed(p, w)
              \/ \E w \in Windows, y \in FeedItems : Dismiss(p, w, y)
  BY <1>1, <1>2, <1>6, <1>14, <1>15, <1>16, <1>20, Zenon DEF Touches
<1>21. CASE \E p \in Slots :
              \/ FetchSource(p) \/ CommitSync(p) \/ SelectZones(p) \/ ReplaceZones(p)
              \/ CommitStatus(p) \/ CommitStations(p)
              \/ ShowFeed(p) \/ MarkItem(p) \/ SelectDismissal(p) \/ CommitDismissal(p)
              \/ Fail(p)
  BY <1>3, <1>4, <1>5, <1>7, <1>8, <1>12, <1>13, <1>17, <1>18, <1>19, <1>21, Zenon DEF Touches
<1>22. CASE \/ \E i \in Ids : DeleteIncident(i)
            \/ \E i \in Ids, c \in Callsigns : DeleteStation(i, c) \/ \E s \in Statuses : SetStation(i, c, s)
            \/ \E w \in Windows : LoadZones(w)
            \/ \E w \in Windows : CloseForm(w) \/ \E y \in FeedItems : OpenForm(w, y)
  BY <1>9, <1>10, <1>11, <1>22, Zenon
<1> QED
  BY <1>20, <1>21, <1>22, Steps, Zenon

LEMMA ContestGrows ==
    ASSUME IncidentsNext
    PROVE  contested \subseteq contested'
<1>1. ASSUME NEW p \in Slots,
             \/ Sync(p) \/ \E w \in Windows : CreateIncident(p, w)
             \/ \E w \in Windows, i \in Ids : EditArea(p, w, i)
             \/ \E i \in Ids, s \in {"active", "resolved"} : LoadStatus(p, i, s)
             \/ \E w \in Windows : LoadFeed(p, w)
             \/ \E w \in Windows, x \in FeedItems : Dismiss(p, w, x)
      PROVE  contested \subseteq contested'
  BY <1>1 DEF Sync, CreateIncident, EditArea, LoadStatus, LoadFeed, Dismiss, Contest, ghosts
<1>2. ASSUME NEW p \in Slots,
             \/ FetchSource(p) \/ CommitSync(p) \/ SelectZones(p) \/ ReplaceZones(p)
             \/ CommitStatus(p) \/ CommitStations(p) \/ ShowFeed(p) \/ MarkItem(p)
             \/ SelectDismissal(p) \/ CommitDismissal(p) \/ Fail(p)
      PROVE  contested \subseteq contested'
  BY <1>2 DEF FetchSource, CommitSync, SelectZones, ReplaceZones, Chosen, CommitStatus, CommitStations, ShowFeed,
     MarkItem, SelectDismissal, CommitDismissal, Handled, Fail, ghosts
<1>3. ASSUME \/ \E i \in Ids : DeleteIncident(i)
             \/ \E i \in Ids, c \in Callsigns : DeleteStation(i, c) \/ \E s \in Statuses : SetStation(i, c, s)
             \/ \E w \in Windows : LoadZones(w)
             \/ \E w \in Windows : CloseForm(w) \/ \E x \in FeedItems : OpenForm(w, x)
      PROVE  contested \subseteq contested'
  BY <1>3 DEF DeleteIncident, DeleteStation, SetStation, LoadZones, CloseForm, OpenForm, Contest, ghosts
<1>4. UNCHANGED <<rows, pages, ghosts>> => contested \subseteq contested'
  BY DEF ghosts
<1> QED
  BY <1>1, <1>2, <1>3, <1>4, Steps, Zenon

\* Where nothing handles an item that some window knows, there is no incident of it.
LEMMA NoneOf ==
    ASSUME NEW x, ItemOrder(x), \A p \in Slots : ~Handles(req[p], x), ~Unseen(None, x) \/ dismissal[x] = None
    PROVE  Of(x) = {}
BY DEF ItemOrder, Filed

LEMMA NoneIsNoWindow == None \notin Windows /\ None \notin Ids
BY IncidentsAssumption DEF Ids

LEMMA ItemCreate ==
    ASSUME Typed, CountInv, NEW x \in FeedItems, x \notin contested', ItemOrder(x), NEW p \in Slots,
           req[p] = NoRequest, NEW w \in Windows, CreateIncident(p, w), opened[w] = x
    PROVE  ItemOrder(x)'
<1> DEFINE i == asked.made + 1
           t == [status |-> "active", resolvedAt |-> FALSE, item |-> x]
<1>1. UNCHANGED <<shows, opened, dismissal>>
  BY DEF CreateIncident, pages
<1>2. i \in Ids /\ incident' = [incident EXCEPT ![i] = t] /\ t \in Incident /\ t.item = x
  BY CreateFacts
<1>3. PICK ids \in SUBSET Boundary : \E r \in InFlight :
         /\ Go(p, r) /\ wanted' = [wanted EXCEPT ![asked.made + 1] = ids]
         /\ Makes(r, asked.made + 1, w, opened[w], ids)
  BY CreateRequest
<1>4. PICK r \in InFlight : Go(p, r) /\ Makes(r, i, w, x, ids)
  BY <1>3
<1>5. r.op \in {"created", "choose"} /\ r.item = x /\ r.incident = i /\ r.window = w
  BY <1>4, MakesOps
<1>6. req'[p] = r /\ \A q \in Slots : q # p => req'[q] = req[q]
  BY <1>4, GoFacts DEF Typed
<1>7. Flows(x) = {} /\ ~Elsewhere(w, x)
  <2>1. Contest(x, x # None /\ (Flows(x) # {} \/ Elsewhere(w, x)))
    BY DEF CreateIncident
  <2>2. x # None
    BY IncidentsAssumption
  <2> QED
    BY <2>1, <2>2 DEF Contest
<1>8. \A q \in Slots : ~Handles(req[q], x)
  BY <1>7, OfSlots
<1>9. Unseen(w, x)
  BY <1>7 DEF Elsewhere, Unseen
<1>10. Of(x) = {}
  BY <1>8, NoneOf, NoneIsNoWindow DEF Unseen
<1> HIDE DEF i, t
<1>11. Of(x)' \subseteq {i}
  BY <1>2, <1>10 DEF Of, Live, Typed, RowsInv
<1>12. Unseen(w, x)'
  BY <1>1, <1>5, <1>6, <1>9 DEF Unseen
<1>13. \A q \in Slots : Handles(req'[q], x) <=> q = p
  BY <1>5, <1>6, <1>8 DEF Handles
<1>14. OneFlow(x)' /\ Filed(x)'
  BY <1>13 DEF OneFlow, Filed
<1>15. InHand(r, x)'
  BY <1>5, <1>11, <1>12, NoneIsNoWindow DEF InHand, Late
<1> QED
  BY <1>6, <1>13, <1>14, <1>15 DEF ItemOrder

LEMMA ItemLoad ==
    ASSUME Typed, NEW x \in FeedItems, x \notin contested', ItemOrder(x), NEW p \in Slots,
           req[p] = NoRequest, NEW w \in Windows, LoadFeed(p, w), NEW r \in Feed, Go(p, r), x \in r.got
    PROVE  ItemOrder(x)'
<1>1. UNCHANGED <<incident, dismissal>>
  BY DEF LoadFeed, rows
<1>2. PICK s \in Feed : /\ Go(p, s) /\ \A y \in s.got : dismissal[y] = None
                        /\ contested' = contested \cup {y \in s.got : Flows(y) # {}}
  BY LoadFeedFacts
<1>3. r \in InFlight /\ s \in InFlight
  BY InFlightIs
<1>4. req'[p] = r /\ req'[p] = s /\ \A q \in Slots : q # p => req'[q] = req[q]
  BY <1>2, <1>3, GoFacts DEF Typed
<1>5. Flows(x) = {} /\ dismissal[x] = None
  BY <1>2, <1>4
<1>6. \A q \in Slots : ~Handles(req[q], x)
  BY <1>5, OfSlots
<1>7. Of(x) = {}
  BY <1>5, <1>6, NoneOf
<1>8. ~Handles(r, x)
  BY DEF Handles, Feed
<1>9. \A q \in Slots : ~Handles(req'[q], x)
  BY <1>4, <1>6, <1>8
<1>10. Of(x)' = {}
  BY <1>1, <1>7 DEF Of, Live
<1> QED
  BY <1>9, <1>10 DEF ItemOrder, OneFlow, Filed

LEMMA ItemDismiss ==
    ASSUME Typed, NEW x \in FeedItems, x \notin contested', ItemOrder(x), NEW p \in Slots,
           req[p] = NoRequest, NEW w \in Windows, Dismiss(p, w, x)
    PROVE  ItemOrder(x)'
<1>1. UNCHANGED incident /\ x \in shows[w] /\ Contest(x, Flows(x) # {})
  BY DEF Dismiss, rows
<1>2. PICK r \in Dismissing : Go(p, r) /\ r.op = "dismiss" /\ r.item = x /\ r.incident = None
  BY DismissFacts
<1>3. req'[p] = r /\ \A q \in Slots : q # p => req'[q] = req[q]
  BY <1>2, GoFacts, InFlightIs DEF Typed
<1>4. \A q \in Slots : ~Handles(req[q], x)
  BY <1>1, OfSlots DEF Contest
<1>5. Of(x) = {}
  BY <1>1, <1>4, NoneOf, NoneIsNoWindow DEF Unseen
<1>6. Of(x)' = {}
  BY <1>1, <1>5 DEF Of, Live
<1>7. \A q \in Slots : Handles(req'[q], x) <=> q = p
  BY <1>2, <1>3, <1>4 DEF Handles
<1>8. InHand(r, x)'
  BY <1>2, <1>6 DEF InHand, Late
<1> QED
  BY <1>3, <1>6, <1>7, <1>8 DEF ItemOrder, OneFlow, Filed

LEMMA ItemOpen ==
    ASSUME Typed, NEW x \in FeedItems, x \notin contested', ItemOrder(x), NEW w \in Windows, OpenForm(w, x)
    PROVE  ItemOrder(x)'
<1>1. UNCHANGED <<incident, dismissal, req>> /\ x \in shows[w] /\ Contest(x, Flows(x) # {})
  BY DEF OpenForm, rows
<1>2. \A q \in Slots : ~Handles(req[q], x)
  BY <1>1, OfSlots DEF Contest
<1>3. Of(x) = {}
  BY <1>1, <1>2, NoneOf, NoneIsNoWindow DEF Unseen
<1>4. Of(x)' = {}
  BY <1>1, <1>3 DEF Of, Live
<1> QED
  BY <1>1, <1>2, <1>4 DEF ItemOrder, OneFlow, Filed

LEMMA ItemShow ==
    ASSUME Typed, NEW x \in FeedItems, ItemOrder(x), NEW p \in Slots, ShowFeed(p), x \in req[p].got
    PROVE  ItemOrder(x)'
<1>1. UNCHANGED <<incident, dismissal, opened>> /\ req' = Freed(p) /\ req[p].op = "feed"
  BY DEF ShowFeed, rows
<1>2. SameFlows(x)
  BY <1>1, FreedFlow DEF Typed, Handles
<1>3. \A w : ~Unseen(w, x)
  BY <1>1 DEF Unseen
<1>4. Of(x)' = Of(x)
  BY <1>1 DEF Of, Live
<1>5. \A q \in Slots :
         /\ Handles(req'[q], x) <=> Handles(req[q], x)
         /\ Handles(req[q], x) => req'[q].incident = req[q].incident /\ (Late(req'[q]) <=> Late(req[q]))
  BY <1>2 DEF SameFlows, SameFlow
<1>6. OneFlow(x)'
  BY <1>5 DEF ItemOrder, OneFlow
<1>7. (\A q \in Slots : ~Handles(req[q], x)) => Of(x) = {}
  BY <1>3, NoneOf
<1>8. Filed(x)'
  BY <1>4, <1>5, <1>7 DEF Filed
<1>9. \A q \in Slots : Handles(req[q], x) => Late(req[q]) /\ req[q].incident = None /\ Of(x) = {}
  BY <1>3 DEF ItemOrder, InHand
<1>10. ASSUME NEW q \in Slots, Handles(req'[q], x), NEW r, r = req'[q]
       PROVE  InHand(r, x)'
  <2>1. Late(r) /\ r.incident = None /\ Of(x) = {}
    BY <1>5, <1>9, <1>10
  <2> QED
    BY <1>4, <2>1 DEF InHand
<1> QED
  BY <1>6, <1>8, <1>10 DEF ItemOrder

LEMMA ItemMark ==
    ASSUME Typed, NEW x \in FeedItems, ItemOrder(x), NEW p \in Slots, MarkItem(p), req[p].item = x
    PROVE  ItemOrder(x)'
<1>1. UNCHANGED <<incident, dismissal, shows>> /\ req[p].op = "created"
  BY DEF MarkItem, rows
<1>2. req[p] \in Creation /\ opened' = [opened EXCEPT ![req[p].window] = None]
  BY MarkFacts
<1>3. x # None
  BY IncidentsAssumption
<1>4. PICK r \in Dismissing : /\ Go(p, r) /\ r.op = "dismiss" /\ r.item = x /\ r.incident = req[p].incident
                              /\ r.window = req[p].window
  BY <1>3, MarkFacts
<1>5. req'[p] = r /\ \A q \in Slots : q # p => req'[q] = req[q]
  BY <1>4, GoFacts, InFlightIs DEF Typed
<1>6. InHand(req[p], x) /\ ~Late(req[p])
  BY <1>1 DEF ItemOrder, Handles, Late
<1>7. Of(x) \subseteq {r.incident} /\ r.window \in Windows /\ Unseen(r.window, x) /\ r.incident \in Ids
  BY <1>2, <1>4, <1>6 DEF InHand, Creation
<1>8. Of(x)' = Of(x)
  BY <1>1 DEF Of, Live
<1>9. opened'[r.window] # x /\ \A v \in Windows : opened'[v] = x => opened[v] = x
  BY <1>2, <1>3, <1>4, <1>7 DEF Typed, PagesInv
<1>10. Unseen(r.window, x)'
  BY <1>1, <1>4, <1>5, <1>7, <1>9 DEF Unseen
<1>11. InHand(r, x)'
  BY <1>4, <1>7, <1>8, <1>9, <1>10, NoneIsNoWindow DEF InHand
<1>12. \A q \in Slots : Handles(req'[q], x) <=> Handles(req[q], x)
  BY <1>1, <1>4, <1>5 DEF Handles
<1>13. Handles(req[p], x)
  BY <1>1 DEF Handles
<1>14. OneFlow(x)' /\ Filed(x)'
  BY <1>12, <1>13 DEF ItemOrder, OneFlow, Filed
<1>15. \A q \in Slots : Handles(req'[q], x) => q = p
  BY <1>12, <1>13 DEF ItemOrder, OneFlow
<1> QED
  BY <1>5, <1>11, <1>14, <1>15 DEF ItemOrder

LEMMA ItemCommit ==
    ASSUME Typed, NEW x \in FeedItems, ItemOrder(x), NEW p \in Slots, CommitDismissal(p), req[p].item = x
    PROVE  ItemOrder(x)'
<1>1. /\ UNCHANGED <<incident, opened>> /\ req' = Freed(p) /\ req[p].op = "mark"
      /\ shows' = [shows EXCEPT ![req[p].window] = @ \ {x}] /\ dismissal' = [dismissal EXCEPT ![x] = Marked(p)]
  BY DEF CommitDismissal, Handled
<1>2. req[p] \in Marking
  BY TypedCommitDismissal
<1>3. dismissal'[x] \in Dismissal /\ dismissal'[x].incident = req[p].incident
  <2>1. dismissal'[x] = Marked(p)
    BY <1>1 DEF Typed, RowsInv
  <2>2. Marked(p).incident = req[p].incident /\ Marked(p) \in Dismissal
    BY <1>2 DEF Marked, Marking, Dismissal
  <2> QED
    BY <2>1, <2>2
<1>4. Handles(req[p], x) /\ Late(req[p]) /\ InHand(req[p], x)
  BY <1>1 DEF ItemOrder, Handles, Late
<1>5. ASSUME NEW q \in Slots
      PROVE  ~Handles(req'[q], x) /\ (req'[q].op = "feed" => req'[q] = req[q])
  <2>1. CASE q = p
    BY <1>1, <2>1, FreedStep, FlightOps, InFlightIs DEF Typed, Handles
  <2>2. CASE q # p
    <3>1. req[q] \in InFlight /\ Resumed(req[q], req'[q])
      BY <1>1, <2>2, FreedStep DEF Typed, FlightInv
    <3>2. SameFlow(req[q], req'[q], x) /\ (req'[q].op = "feed" => req'[q] = req[q])
      BY <3>1, ResumedFlow, ResumedFacts DEF Locking
    <3>3. ~Handles(req[q], x)
      BY <1>4, <2>2 DEF ItemOrder, OneFlow
    <3> QED
      BY <3>2, <3>3 DEF SameFlow
  <2> QED
    BY <2>1, <2>2
<1>6. Of(x)' = Of(x)
  BY <1>1 DEF Of, Live
<1>7. Filed(x)'
  <2> SUFFICES ASSUME NEW i \in Of(x)
               PROVE  /\ Of(x)' = {i} /\ Unseen(None, x)'
                      /\ dismissal'[x] # None /\ dismissal'[x].incident = i
    BY <1>6 DEF Filed
  <2>1. /\ Of(x) \subseteq {req[p].incident} /\ Unseen(req[p].window, x) /\ opened[req[p].window] # x
    BY <1>4 DEF InHand
  <2>2. i = req[p].incident /\ Of(x) = {i}
    BY <2>1
  <2>3. req[p].window \in Windows
    BY <1>2 DEF Marking
  <2>4. \A v \in Windows : x \notin shows'[v] /\ opened'[v] # x
    BY <1>1, <2>1, <2>3 DEF Unseen, Typed, PagesInv
  <2>5. \A q \in Slots : req'[q].op = "feed" => x \notin req'[q].got
    BY <1>5, <2>1 DEF Unseen
  <2>6. Unseen(None, x)'
    BY <2>4, <2>5 DEF Unseen
  <2> QED
    BY <1>3, <1>6, <2>2, <2>6, IncidentsAssumption
<1> QED
  BY <1>5, <1>7 DEF ItemOrder, OneFlow

ItemsInOrder == \A x \in FeedItems \ contested : ItemOrder(x)

LEMMA ItemStep ==
    ASSUME IncidentsTypeInv, ItemsInOrder, [IncidentsNext]_incidentsVars
    PROVE  ItemsInOrder'
<1>1. Typed /\ CountInv
  BY DEF IncidentsTypeInv, Typed
<1>2. IncidentsTypeInv'
  BY TypesStep
<1>3. ASSUME IncidentsNext, NEW x \in FeedItems, x \notin contested'
      PROVE  ItemOrder(x)'
  <2>1. ItemOrder(x)
    BY <1>3, ContestGrows DEF ItemsInOrder
  <2>2. CASE ItemRests(x)
    BY <1>2, <2>1, <2>2, ItemKept DEF IncidentsTypeInv
  <2>3. ASSUME NEW p \in Slots, Touches(p, x)
        PROVE  ItemOrder(x)'
    BY <1>1, <1>3, <2>1, <2>3, ItemCreate, ItemLoad, ItemDismiss, ItemShow, ItemMark, ItemCommit DEF Touches
  <2>4. ASSUME NEW w \in Windows, OpenForm(w, x)
        PROVE  ItemOrder(x)'
    BY <1>1, <1>3, <2>1, <2>4, ItemOpen
  <2> QED
    BY <1>1, <1>3, <2>1, <2>2, <2>3, <2>4, ItemSteps
<1>4. CASE UNCHANGED incidentsVars
  <2>1. UNCHANGED <<incident, dismissal, shows, opened, req, contested>>
    BY <1>4 DEF incidentsVars, rows, pages, ghosts
  <2>2. \A x : ItemRests(x)
    BY <2>1 DEF ItemRests, SameFlows, SameFlow
  <2>3. FlightInv'
    BY <1>2 DEF IncidentsTypeInv
  <2> QED
    BY <2>1, <2>2, <2>3, ItemKept DEF ItemsInOrder
<1> QED
  BY <1>3, <1>4 DEF ItemsInOrder

\* A feed item becomes one incident only, and once the request that made it is through, the row
\* that says the item was handled names that incident (saveIncident, dismiss_incident_feed_item),
\* for any number of windows and requests: only an item that was taken up twice at once, or whose
\* handling was cut short, is excepted.
THEOREM ItemsBecomeOne == IncidentsSpec => []OneIncidentPerItem
<1>1. IncidentsInit => ItemsInOrder
  <2> SUFFICES ASSUME IncidentsInit
               PROVE  ItemsInOrder
    OBVIOUS
  <2>1. \A p \in Slots : \A x : ~Handles(req[p], x)
    BY FlightOps, InFlightIs DEF IncidentsInit, Handles
  <2>2. \A x : Of(x) = {}
    BY DEF IncidentsInit, Live, Of
  <2> QED
    BY <2>1, <2>2 DEF ItemsInOrder, ItemOrder, OneFlow, Filed
<1>2. IncidentsTypeInv /\ ItemsInOrder /\ [IncidentsNext]_incidentsVars => ItemsInOrder'
  BY ItemStep
<1>3. IncidentsTypeInv /\ ItemsInOrder => OneIncidentPerItem
  <2> SUFFICES ASSUME IncidentsTypeInv, ItemsInOrder, NEW i \in Live, NEW x, x = incident[i].item,
                      x \in FeedItems \ contested
               PROVE  /\ \A j \in Live : incident[j].item = x => i = j
                      /\ Flows(x) = {} => dismissal[x] # None /\ dismissal[x].incident = i
    BY DEF OneIncidentPerItem
  <2>1. ItemOrder(x) /\ i \in Of(x)
    BY DEF ItemsInOrder, Of
  <2>2. CASE \A p \in Slots : ~Handles(req[p], x)
    BY <2>1, <2>2 DEF ItemOrder, Filed, Of
  <2>3. ASSUME NEW p \in Slots, Handles(req[p], x)
        PROVE  /\ \A j \in Live : incident[j].item = x => i = j
               /\ Flows(x) # {}
    <3>1. \E k : Of(x) \subseteq {k}
      BY <2>1, <2>3 DEF ItemOrder, InHand
    <3>2. Flows(x) # {}
      BY <2>3, OfSlots
    <3> QED
      BY <2>1, <3>1, <3>2 DEF Of
  <2> QED
    BY <2>2, <2>3
<1> QED
  BY <1>1, <1>2, <1>3, TypesHold, PTL DEF IncidentsSpec
===============================================================================
