------------------------------ MODULE MCRunner ------------------------------
(***************************************************************************)
(* Small instances of Runner and RunnerInv for TLC.  The sizes are named   *)
(* by the packages they describe, in key order.                            *)
(***************************************************************************)
EXTENDS RunnerInv

TwoAndOne == <<2, 1>>
OneOneOne == <<1, 1, 1>>
=============================================================================
