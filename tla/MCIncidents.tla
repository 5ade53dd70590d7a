----------------------------- MODULE MCIncidents -----------------------------
(* Small instances of Incidents.                                            *)
EXTENDS Incidents, TLC

CONSTANTS w1, w2, p1, p2, s1, s2, z1, z2, z3, x1, c1

TwoWindows == {w1, w2}
TwoSlots == {p1, p2}
TwoSources == <<s1, s2>>
OneOrTwo == (s1 :> {z1, z2}) @@ (s2 :> {z3})
OneItem == {x1}
OneStation == {c1}
Symmetry == Permutations(TwoWindows) \cup Permutations(TwoSlots) \cup Permutations({z1, z2})
=============================================================================
