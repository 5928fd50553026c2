--------------------------- MODULE MC_Processing ----------------------------
(***************************************************************************)
(* Instances of Processing for TLC: a node with two workers, a batch of    *)
(* two items.                                                              *)
(***************************************************************************)
EXTENDS Processing, TLC

CONSTANTS w1, w2, b1, i1, i2

OneBatch == i1 :> b1 @@ i2 :> b1

(* The two workers are alike.                                              *)
Symmetry == Permutations({w1, w2})
=============================================================================
