------------------------------ MODULE MCCaches ------------------------------
(* Small instances of Caches.                                               *)
EXTENDS Caches, TLC

CONSTANTS w1, w2, p1, p2, o1, o2, t1

TwoWorkers == {w1, w2}
TwoSlots == {p1, p2}
TwoOrgs == {o1, o2}
OneText == {t1}
OnOrOff == BOOLEAN
Lifetimes == [live |-> 0, notFound |-> 1, found |-> 2]
Symmetry == Permutations(TwoWorkers) \cup Permutations(TwoSlots) \cup Permutations(TwoOrgs)
=============================================================================
