------------------------------ MODULE MC_Server ------------------------------
(***************************************************************************)
(* An instance of Server for TLC: up to two workers, two requests, and     *)
(* settings that are absent, no number, zero, negative or sensible.        *)
(***************************************************************************)
EXTENDS Server

CONSTANTS r1, r2

Raw == {Unset, Garbage, -1, 0, 1}
=============================================================================
