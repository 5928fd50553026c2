----------------------------- MODULE MC_SystemA ------------------------------
(***************************************************************************)
(* Instances of SystemA for TLC: two seeders of an item each, the first    *)
(* with two retries, the other with one more than its back-off can be      *)
(* computed for.                                                           *)
(***************************************************************************)
EXTENDS SystemA, TLC

CONSTANTS i1, i2

Retries == i1 :> 2 @@ i2 :> 3

OneEach == {{i1}, {i2}}
=============================================================================
