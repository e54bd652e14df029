------------------------------ MODULE MCBaseline -------------------------------
(***************************************************************************)
(* Baseline with four packages; p0 has no tests.                           *)
(***************************************************************************)
EXTENDS Baseline

CONSTANTS p0, p1, p2, p3

FourPkgs == {p0, p1, p2, p3}
Untested == {p0}
=============================================================================
