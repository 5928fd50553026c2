-------------------------- MODULE MC_SystemCClient --------------------------
(***************************************************************************)
(* Instances of SystemCClient for TLC: three workers, two probes, a        *)
(* breaker that trips when half of at least two requests fail.             *)
(***************************************************************************)
EXTENDS SystemCClient, TLC

CONSTANTS c1, c2, c3
=============================================================================
