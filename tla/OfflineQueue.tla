---------------------------- MODULE OfflineQueue ----------------------------
(***************************************************************************)
(* The offline check-in queue of one browser (static/js/offline-queue.js): *)
(* check-ins that could not be sent wait in IndexedDB, and passes of the   *)
(* page (its 15 s poll, its online event, Retry Now) and of the service    *)
(* worker (Background Sync) replay them side by side.                      *)
(***************************************************************************)
EXTENDS Naturals, FiniteSets

CONSTANTS
    Items,          \* the check-ins the operator submits
    CallOf,         \* the callsign of each
    Gmrs,           \* the server takes a callsign again on a GMRS net
    Flushers,       \* passes over the queue that can run at once
    NoItem,
    Crashes,        \* whether the page or the service worker can be stopped
    MaxFaults       \* bound on lost connections, errors and stops

ASSUME OfflineAssumption ==
    /\ NoItem \notin Items
    /\ Items = DOMAIN CallOf
    /\ Gmrs \in BOOLEAN /\ Crashes \in BOOLEAN
    /\ MaxFaults \in Nat

VARIABLES
    form,       \* what became of addCheckin for each item
    store,      \* the record of each item in IndexedDB, "none" without one
    pass,       \* the passes of flushCheckinQueue under way
    online,     \* whether the server can be reached
    open,       \* whether the session still takes check-ins
    received,   \* how many check-ins the server has committed for each item
    doubtful,   \* history: how many of them the queue was not told of, or could not note
    faults      \* history: connections lost, errors and stops so far

vars == <<form, store, pass, online, open, received, doubtful, faults>>

FormStates == {"new", "posting", "queueing", "answered", "queued", "dismissed", "gone"}

StoreStates == {"none", "pending", "sending", "failed"}

\* item is the one being sent, todo what is left of the pass.
Pass == [step : {"idle", "loop", "post", "remove", "fail", "reset"},
         todo : SUBSET Items, item : Items \cup {NoItem}]

Idle == [step |-> "idle", todo |-> {}, item |-> NoItem]

TypeOK ==
    /\ form \in [Items -> FormStates]
    /\ store \in [Items -> StoreStates]
    /\ pass \in [Flushers -> Pass]
    /\ online \in BOOLEAN /\ open \in BOOLEAN
    /\ received \in [Items -> Nat] /\ doubtful \in [Items -> Nat]
    /\ faults \in 0..MaxFaults

-----------------------------------------------------------------------------
(* The server's side of POST /sessions/{id}/checkins, one request at a     *)
(* time (Roster.tla has the rest of it).                                   *)

Accepted(i) ==
    /\ open
    /\ Gmrs \/ \A j \in Items : received[j] > 0 => CallOf[j] # CallOf[i]

Fault == faults < MaxFaults /\ faults' = faults + 1

Commits(i, told) ==
    /\ Accepted(i)
    /\ received' = [received EXCEPT ![i] = @ + 1]
    /\ doubtful' = IF told THEN doubtful ELSE [doubtful EXCEPT ![i] = @ + 1]

CommitsNothing == UNCHANGED <<received, doubtful>>

\* What a fetch of item i comes to.  Without an answer it rejects with a
\* TypeError; a 5xx can come after the check-in's own commit (its second commit,
\* of the zone list, failed); a 4xx is also the answer to an expired token.
Fetch(i, answer) ==
    \/ answer = "ok" /\ online /\ Commits(i, TRUE) /\ UNCHANGED <<online, faults>>
    \/ answer = "4xx" /\ online /\ CommitsNothing /\ UNCHANGED <<online, faults>>
    \/ answer = "5xx" /\ online /\ Fault /\ UNCHANGED online
                      /\ (CommitsNothing \/ Commits(i, FALSE))
    \/ answer = "none" /\ ~online /\ CommitsNothing /\ UNCHANGED <<online, faults>>
    \/ answer = "none" /\ online /\ Fault /\ online' = FALSE
                       /\ (CommitsNothing \/ Commits(i, FALSE))

-----------------------------------------------------------------------------
(* checkins.js: addCheckin.                                                *)

AddCheckin(i) ==
    /\ form[i] = "new"
    /\ form' = [form EXCEPT ![i] = "posting"]
    /\ UNCHANGED <<store, pass, online, open, received, doubtful, faults>>

\* The operator is shown an error answer; only a fetch that rejects is queued.
PostDirectly(i) ==
    /\ form[i] = "posting"
    /\ \E answer \in {"ok", "4xx", "5xx", "none"} :
          /\ Fetch(i, answer)
          /\ form' = [form EXCEPT ![i] = IF answer = "none" THEN "queueing" ELSE "answered"]
    /\ UNCHANGED <<store, pass, open>>

QueueCheckin(i) ==
    /\ form[i] = "queueing"
    /\ form' = [form EXCEPT ![i] = "queued"]
    /\ store' = [store EXCEPT ![i] = "pending"]
    /\ UNCHANGED <<pass, online, open, received, doubtful, faults>>

DismissFailedCheckin(i) ==
    /\ store[i] = "failed"
    /\ store' = [store EXCEPT ![i] = "none"]
    /\ form' = [form EXCEPT ![i] = "dismissed"]
    /\ UNCHANGED <<pass, online, open, received, doubtful, faults>>

-----------------------------------------------------------------------------
(* flushCheckinQueue.  Each look at IndexedDB is one transaction, atomic    *)
(* against those of the other passes.                                      *)

Pending == {i \in Items : store[i] = "pending"}

\* The pass reads the whole queue once.
BeginPass(f) ==
    /\ pass[f].step = "idle" /\ Pending # {}
    /\ pass' = [pass EXCEPT ![f] = [Idle EXCEPT !.step = "loop", !.todo = Pending]]
    /\ UNCHANGED <<form, store, online, open, received, doubtful, faults>>

\* Mutant: the status the pass has read is believed.
ClaimItemRead(f) ==
    /\ pass[f].step = "loop"
    /\ \E i \in pass[f].todo :
          /\ store' = [store EXCEPT ![i] = "sending"]
          /\ pass' = [pass EXCEPT ![f] = [step |-> "post", todo |-> @.todo \ {i}, item |-> i]]
    /\ UNCHANGED <<form, online, open, received, doubtful, faults>>

\* Mutant: a failed record is claimed again.
ClaimItemFailed(f) ==
    /\ pass[f].step = "loop"
    /\ \E i \in pass[f].todo :
          IF store[i] \in {"pending", "failed"}
          THEN /\ store' = [store EXCEPT ![i] = "sending"]
               /\ pass' = [pass EXCEPT ![f] =
                             [step |-> "post", todo |-> @.todo \ {i}, item |-> i]]
          ELSE /\ pass' = [pass EXCEPT ![f].todo = @ \ {i}]
               /\ UNCHANGED store
    /\ UNCHANGED <<form, online, open, received, doubtful, faults>>

\* An item that another pass has claimed meanwhile is passed over.
ClaimItem(f) ==
    /\ pass[f].step = "loop"
    /\ \E i \in pass[f].todo :
          IF store[i] = "pending"
          THEN /\ store' = [store EXCEPT ![i] = "sending"]
               /\ pass' = [pass EXCEPT ![f] =
                             [step |-> "post", todo |-> @.todo \ {i}, item |-> i]]
          ELSE /\ pass' = [pass EXCEPT ![f].todo = @ \ {i}]
               /\ UNCHANGED store
    /\ UNCHANGED <<form, online, open, received, doubtful, faults>>

\* Mutant: whatever the server answers settles the item.
AfterAnswerDone(answer) == IF answer = "none" THEN "reset" ELSE "remove"

\* Mutant: a refusal is retried like an error of the server.
AfterAnswerAgain(answer) == IF answer = "ok" THEN "remove" ELSE "reset"

AfterAnswer(answer) ==
    CASE answer = "ok" -> "remove"
      [] answer = "4xx" -> "fail"
      [] OTHER -> "reset"

PostItem(f) ==
    /\ pass[f].step = "post"
    /\ \E answer \in {"ok", "4xx", "5xx", "none"} :
          /\ Fetch(pass[f].item, answer)
          /\ pass' = [pass EXCEPT ![f].step = AfterAnswer(answer)]
    /\ UNCHANGED <<form, store, open>>

\* _removeQueuedCheckin, _markQueuedCheckinFailed, _resetToPending
Settled(step, status) ==
    CASE step = "remove" -> "none"
      [] step = "fail" -> IF status = "none" THEN "none" ELSE "failed"
      [] OTHER -> IF status = "sending" THEN "pending" ELSE status

SettleItem(f) ==
    LET i == pass[f].item
    IN  /\ pass[f].step \in {"remove", "fail", "reset"}
        /\ store' = [store EXCEPT ![i] = Settled(pass[f].step, @)]
        /\ pass' = [pass EXCEPT ![f].step = "loop", ![f].item = NoItem]
        /\ UNCHANGED <<form, online, open, received, doubtful, faults>>

\* IndexedDB fails the removal or the mark: the catch around both puts the item back
\* for another pass, with the server's commit forgotten.
SettleFails(f) ==
    /\ pass[f].step \in {"remove", "fail"} /\ Fault
    /\ pass' = [pass EXCEPT ![f].step = "reset"]
    /\ doubtful' = IF pass[f].step = "fail" THEN doubtful
                   ELSE [doubtful EXCEPT ![pass[f].item] = @ + 1]
    /\ UNCHANGED <<form, store, online, open, received>>

EndPass(f) ==
    /\ pass[f].step = "loop" /\ pass[f].todo = {}
    /\ pass' = [pass EXCEPT ![f] = Idle]
    /\ UNCHANGED <<form, store, online, open, received, doubtful, faults>>

-----------------------------------------------------------------------------
(* The surroundings.                                                       *)

\* The service worker, or the page with a pass of its own, is stopped, or IndexedDB
\* fails a claim or a reset, which nothing catches; it is started again later.
Stop(f) ==
    /\ Crashes /\ pass[f].step # "idle" /\ Fault
    /\ pass' = [pass EXCEPT ![f] = Idle]
    /\ UNCHANGED <<form, store, online, open, received, doubtful>>

\* The page is closed with a check-in on its way.
ClosePage(i) ==
    /\ Crashes /\ form[i] \in {"posting", "queueing"} /\ Fault
    /\ form' = [form EXCEPT ![i] = "gone"]
    /\ UNCHANGED <<store, pass, online, open, received, doubtful>>

Disconnect ==
    /\ online /\ Fault
    /\ online' = FALSE
    /\ UNCHANGED <<form, store, pass, open, received, doubtful>>

Reconnect ==
    /\ ~online
    /\ online' = TRUE
    /\ UNCHANGED <<form, store, pass, open, received, doubtful, faults>>

EndSession ==
    /\ open
    /\ open' = FALSE
    /\ UNCHANGED <<form, store, pass, online, received, doubtful, faults>>

-----------------------------------------------------------------------------
Init ==
    /\ form = [i \in Items |-> "new"]
    /\ store = [i \in Items |-> "none"]
    /\ pass = [f \in Flushers |-> Idle]
    /\ online = TRUE /\ open = TRUE
    /\ received = [i \in Items |-> 0] /\ doubtful = [i \in Items |-> 0]
    /\ faults = 0

Submit(i) == AddCheckin(i) \/ PostDirectly(i) \/ QueueCheckin(i)

Flush(f) == ClaimItem(f) \/ PostItem(f) \/ SettleItem(f) \/ EndPass(f)

Next ==
    \/ \E i \in Items : Submit(i) \/ DismissFailedCheckin(i) \/ ClosePage(i)
    \/ \E f \in Flushers : BeginPass(f) \/ Flush(f) \/ SettleFails(f) \/ Stop(f)
    \/ Disconnect \/ Reconnect \/ EndSession

Spec == Init /\ [][Next]_vars

\* The live view polls the queue, JavaScript runs on, and the network returns.
FairSpec ==
    /\ Spec
    /\ \A f \in Flushers : WF_vars(BeginPass(f)) /\ WF_vars(Flush(f))
    /\ WF_vars(Reconnect)

-----------------------------------------------------------------------------
(* Properties.                                                             *)

Sending(f) == pass[f].step \in {"post", "remove", "fail", "reset"}

\* No two passes hold one item, in one context or in two, and what a pass holds
\* is marked as being sent (_claimItem: "whether this caller won the claim").
OneSender ==
    /\ \A f, g \in Flushers :
          Sending(f) /\ Sending(g) /\ pass[f].item = pass[g].item => f = g
    /\ \A f \in Flushers : Sending(f) => store[pass[f].item] = "sending"

\* The server has an item twice only if the queue was not told of a commit, or failed
\* to note it: passes that overlap never double a check-in.
DoubleIsUntold == \A i \in Items : received[i] <= doubtful[i] + 1

\* A check-in leaves the queue only for the roster or by the operator's hand,
\* whatever stops in between.
NothingLost ==
    \A i \in Items : form[i] = "queued" /\ store[i] = "none" => received[i] > 0

\* README: a check-in "that fails for a reason retrying won't fix ... stops
\* retrying": once refused, it is never sent again by a pass begun later or
\* before, and only its operator takes it off the queue.
RefusedStaysRefused ==
    [][\A i \in Items : store[i] = "failed" =>
           /\ received'[i] = received[i]
           /\ store'[i] # "failed" => form'[i] = "dismissed"]_vars

\* A record marked as being sent that no pass is sending.
Orphaned(i) == store[i] = "sending" /\ \A f \in Flushers : Sending(f) => pass[f].item # i

\* However often the connection goes or the queue fails to note an answer, a queued
\* check-in is delivered or shown as failed, unless whoever was sending it was stopped.
SettledUnlessOrphaned ==
    \A i \in Items : form[i] = "queued" ~> store[i] \in {"none", "failed"} \/ Orphaned(i)
=============================================================================
