----------------------------- MODULE MCSignups -----------------------------
(* Small instances of Signups.                                              *)
EXTENDS Signups, TLC

CONSTANTS u1, u2, s1, d1, p1, p2

TwoUsers == {u1, u2}
OneSchedule == {s1}
OneDate == {d1}
TwoSlots == {p1, p2}
Symmetry == Permutations(TwoUsers) \cup Permutations(TwoSlots)
=============================================================================
