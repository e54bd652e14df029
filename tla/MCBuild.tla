------------------------------ MODULE MCBuild -------------------------------
(***************************************************************************)
(* Build with three packages; p0 has no test files.                        *)
(***************************************************************************)
EXTENDS Build

CONSTANTS p0, p1, p2

ThreePkgs == {p0, p1, p2}
Untested == {p0}
=============================================================================
