------------------------------ MODULE MCBuildings ------------------------------
(* An instance of Buildings small enough for TLC. *)
EXTENDS Buildings, TLC

CONSTANTS u1, u2, s1, s2, r1, p1, p2, p3

TwoUnits == {u1, u2}
TwoSlots == {s1, s2}
OneReading == {r1}
ThreeKeys == {p1, p2, p3}
Symmetry ==
    Permutations(TwoUnits) \union Permutations(TwoSlots)
      \union Permutations(ThreeKeys)
=============================================================================
