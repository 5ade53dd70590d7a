------------------------------- MODULE Manning -------------------------------
(***************************************************************************)
(* What tactical sign-on and sign-off promise for each position: it has at *)
(* most one holder, somebody becomes the holder only by a sign-on while    *)
(* the position is open, in one step that also relieves the one before,    *)
(* and a position that has closed is never manned again.                   *)
(***************************************************************************)
CONSTANTS Posts, Callsigns, Vacant

VARIABLES holder, closed

Init == holder = [x \in Posts |-> Vacant] /\ closed = {}

\* Somebody signs on; the one before is relieved in the same step.
SignOn(x, c) ==
    /\ x \notin closed
    /\ holder' = [holder EXCEPT ![x] = c]
    /\ closed \subseteq closed'

\* Posts are left, or close with the session, or are removed.
Release ==
    /\ \A x \in Posts : holder'[x] \in {holder[x], Vacant}
    /\ closed \subseteq closed'

Next == Release \/ \E x \in Posts, c \in Callsigns : SignOn(x, c)

Spec == Init /\ [][Next]_<<holder, closed>>
=============================================================================
