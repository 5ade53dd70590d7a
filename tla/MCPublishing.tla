----------------------------- MODULE MCPublishing -----------------------------
(* Small instances of Publishing.                                           *)
EXTENDS Publishing, TLC

CONSTANTS p1, p2, a1, a2, s

TwoSlots == {p1, p2}
TwoActors == {a1, a2}
Symmetry == Permutations(TwoSlots) \cup Permutations(TwoActors)
=============================================================================
