------------------------------ MODULE MCAccess ------------------------------
(* Small instances of Access.                                               *)
EXTENDS Access, TLC

CONSTANTS root, u1, u2, o1, o2, p1, p2

MCUsers == {root, u1, u2}
TwoUsers == {root, u1}
TwoOrgs == {o1, o2}
OneOrg == {o1}
TwoSlots == {p1, p2}
MCExtras == {"net_control_op", "broadcaster"}
MCNetRoles == {"broadcaster"}
Symmetry == Permutations({u1, u2}) \cup Permutations(TwoOrgs) \cup Permutations(TwoSlots)
=============================================================================
