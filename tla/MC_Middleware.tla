--------------------------- MODULE MC_Middleware ----------------------------
(***************************************************************************)
(* Instances of Middleware for TLC: two nodes with a worker and a          *)
(* dispatcher each, and a batch of two items that has a webhook.           *)
(***************************************************************************)
EXTENDS Middleware, TLC

CONSTANTS w1, w2, n1, n2, b1, i1, i2

MCHost == w1 :> n1 @@ w2 :> n2

OneBatch == i1 :> b1 @@ i2 :> b1

(* Its webhook can be sent to.                                             *)
ValidUrl == {b1 :> "valid"}

StorableReplies == [ok : BOOLEAN, fits : {TRUE}]
=============================================================================
