---------------------------- MODULE MCThriftPool ----------------------------
(* Instances of ThriftPool for TLC. *)
EXTENDS ThriftPool, TLC

(* Callers and connections are only compared for equality. *)
Symmetry == Permutations(Callers) \cup Permutations(Conns)
=============================================================================
