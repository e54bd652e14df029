------------------------------- MODULE Phases -------------------------------
(***************************************************************************)
(* What run (cmd/mutest) relies on of the phases it calls: the results     *)
(* BuildTestBinaries and VerifyBaseline may return.  Build and Baseline    *)
(* keep these contracts, Pipeline is built on them.                        *)
(***************************************************************************)

\* interrupted: the caller's context is done; ready: every package has a test
\* binary or is known to have no tests; broken: the build of some package
\* failed, and not because it was stopped.
BuildMayReturn(result, interrupted, ready, broken) ==
  CASE result = "nil" -> ready
    [] result = "failed" -> broken
    [] OTHER -> interrupted

\* passed: the tests of every package passed without a mutation; failing: those
\* of some package did not, and not because mutest was interrupted.
BaselineMayReturn(result, interrupted, passed, failing) ==
  CASE result = "nil" -> passed
    [] result = "baseline" -> failing
    [] OTHER -> interrupted
=============================================================================
