----------------------------- MODULE MCHttpPool -----------------------------
(* Instances of HttpPool for TLC. Requests are interchangeable, and so are    *)
(* connections.                                                               *)
EXTENDS HttpPool, TLC

CONSTANTS p, q, s, x, y

Symmetry == Permutations(Reqs) \cup Permutations(Conns)
=============================================================================
