------------------------ MODULE MC_WebhookDispatcher ------------------------
(***************************************************************************)
(* Instances of WebhookDispatcher for TLC: two nodes and two batches of an *)
(* item each, the first with a webhook, the second without one or with a   *)
(* malformed one.                                                          *)
(***************************************************************************)
EXTENDS WebhookDispatcher, TLC

CONSTANTS d1, d2, b1, b2, i1, i2

OneEach == i1 :> b1 @@ i2 :> b2

FirstValid == {[b \in {b1, b2} |-> IF b = b1 THEN "valid" ELSE u] : u \in {"none", "malformed"}}
=============================================================================
