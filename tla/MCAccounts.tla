----------------------------- MODULE MCAccounts -----------------------------
(* Small instances of Accounts.                                             *)
EXTENDS Accounts, TLC

CONSTANTS a, c, p1, p2, w1

\* Two spellings of one mailbox: the server does not take them for one address.
Spellings == {[box |-> a, mixed |-> FALSE], [box |-> a, mixed |-> TRUE]}
OnePassword == {w1}
TwoSlots == {p1, p2}
OnOrOff == BOOLEAN
Lifetimes == [reset |-> 0, session |-> 1, verification |-> 2, invite |-> 3]
Symmetry == Permutations(TwoSlots)
=============================================================================
