-------------------------- MODULE MC_BatchService ---------------------------
(***************************************************************************)
(* Instances of BatchService for TLC: two requests with the same key, the  *)
(* first with two items, and in one of them a third request without a key. *)
(***************************************************************************)
EXTENDS BatchService, TLC

CONSTANTS r1, r2, r3, i1, i2, i3, i4, k1, c1, q1

TwoRequests == r1 :> k1 @@ r2 :> k1

ThreeRequests == TwoRequests @@ r3 :> NoKey

ItemsOfTwo == i1 :> r1 @@ i2 :> r1 @@ i3 :> r2

ItemsOfThree == ItemsOfTwo @@ i4 :> r3

(* The two items of r1 are alike.                                          *)
ItemSymmetry == Permutations({i1, i2})
=============================================================================
