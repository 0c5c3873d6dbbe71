------------------------- MODULE MCConsistentHash -------------------------
(* Instances of ConsistentHash for TLC. Instances are interchangeable, and so *)
(* are addresses.                                                             *)
EXTENDS ConsistentHash, TLC

CONSTANTS n1, n2, n3, a1, a2, a3

Symmetry == Permutations({n1, n2, n3}) \cup Permutations({a1, a2, a3})
=============================================================================
