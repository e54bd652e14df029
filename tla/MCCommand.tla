------------------------------ MODULE MCCommand -----------------------------
(***************************************************************************)
(* Command with two descendants.                                           *)
(***************************************************************************)
EXTENDS Command

CONSTANTS k1, k2

TwoKids == {k1, k2}
=============================================================================
