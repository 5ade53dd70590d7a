--------------------------- MODULE MCOfflineQueue ---------------------------
(* Small instances of OfflineQueue: the page and the service worker.        *)
EXTENDS OfflineQueue, TLC

CONSTANTS i1, i2, call1, call2, page, worker

TwoItems == {i1, i2}
Flushing == {page, worker}

\* One family's licence, used twice.
SharedCall == i1 :> call1 @@ i2 :> call1
=============================================================================
