----------------------------- MODULE MCPipeline -----------------------------
(***************************************************************************)
(* Pipeline with three mutants in two packages.  Two detected mutants of   *)
(* three meet a threshold of 66 and miss one of 67.                        *)
(***************************************************************************)
EXTENDS Pipeline

CONSTANTS m1, m2, m3

ThreeMutants == {m1, m2, m3}
=============================================================================
