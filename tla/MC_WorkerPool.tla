--------------------------- MODULE MC_WorkerPool ----------------------------
(***************************************************************************)
(* Instances of WorkerPool for TLC: two nodes with a worker each, and a    *)
(* batch of two items.                                                     *)
(***************************************************************************)
EXTENDS WorkerPool, TLC

CONSTANTS w1, w2, n1, n2, b1, i1, i2

MCHost == w1 :> n1 @@ w2 :> n2

OneBatch == i1 :> b1 @@ i2 :> b1

(* Answers whose text the tables can store, and any answer.                *)
StorableReplies == [ok : BOOLEAN, fits : {TRUE}]

AnyReply == Reply

(* The two items are alike.                                                *)
PoolSymmetry == Permutations({i1, i2})
=============================================================================
