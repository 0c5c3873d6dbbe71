--------------------------- MODULE MCLoadBalance ---------------------------
(* Instances of LoadBalance for TLC. *)
EXTENDS LoadBalance

Inst(a, w) == [addr |-> a, weight |-> w]

\* No instance, one, several with unequal weights, the same addresses with one of
\* them twice and one of weight zero.
VariedLists ==
    { <<>>,
      <<Inst(1, 1)>>,
      <<Inst(1, 2), Inst(2, 1), Inst(3, 3)>>,
      <<Inst(3, 0), Inst(2, 1), Inst(1, 1), Inst(2, 1)>> }
=============================================================================
