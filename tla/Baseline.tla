------------------------------ MODULE Baseline ------------------------------
(***************************************************************************)
(* runner.VerifyBaseline, and baselineErr, with which run classifies its   *)
(* error: the tests of each package are run once with no mutation active.  *)
(* A failure does not stop the other packages.                             *)
(***************************************************************************)
EXTENDS Pool, Phases

CONSTANT NoTests   \* the packages without a test binary

VARIABLES
  ctx,      \* the caller's context is done
  testCtx,  \* the context of each test run, "none" when it has none
  truth,    \* history: how each test run ended
  verdict   \* what run makes of the result, "none" before

vars == <<poolVars, ctx, testCtx, truth, verdict>>

Init ==
  /\ PoolInit
  /\ ctx \in BOOLEAN
  /\ testCtx = [p \in Pkgs |-> "none"]
  /\ truth = [p \in Pkgs |-> "none"]
  /\ verdict = "none"

Interrupt ==
  /\ ~ctx /\ verdict = "none"
  /\ ctx' = TRUE
  /\ UNCHANGED <<poolVars, testCtx, truth, verdict>>

EndContext(p, cause) ==
  /\ testCtx[p] = "live"
  /\ testCtx' = [testCtx EXCEPT ![p] = cause]
  /\ UNCHANGED <<poolVars, ctx, truth, verdict>>

Propagate(p) == ctx /\ EndContext(p, "canceled")

\* Mutation: the run has no timeout.
ExpireNever(p) == FALSE /\ EndContext(p, "deadline")

Expire(p) == EndContext(p, "deadline")

-----------------------------------------------------------------------------
PassOver(p) ==
  /\ main = "launch" /\ p \in left /\ p \in NoTests
  /\ left' = left \ {p}
  /\ UNCHANGED <<main, job, jobErr, sem, wg, firstErr, result,
                 ctx, testCtx, truth, verdict>>

Enter(p) ==
  /\ job[p] = "start" /\ testCtx[p] = "none"
  /\ testCtx' = [testCtx EXCEPT ![p] = IF ctx THEN "canceled" ELSE "live"]
  /\ UNCHANGED <<poolVars, ctx, truth, verdict>>

StartTest(p) ==
  /\ job[p] = "start" /\ testCtx[p] = "live"
  /\ Finds(p, "nil", "run")
  /\ UNCHANGED <<ctx, testCtx, truth, verdict>>

\* The call of CombinedOutput is over; the deferred cancel drops the context.
Ends(p, ending, error) ==
  /\ truth' = [truth EXCEPT ![p] = ending]
  /\ testCtx' = [testCtx EXCEPT ![p] = "none"]
  /\ Finds(p, error, IF error = "nil" THEN "release" ELSE "record")
  /\ UNCHANGED <<ctx, verdict>>

StartFails(p) ==
  /\ job[p] = "start"
  /\ \/ testCtx[p] = "live" /\ Ends(p, "failed", "failed")
     \/ testCtx[p] \in {"deadline", "canceled"} /\ Ends(p, testCtx[p], "failed")

\* It passes, fails on its own, or passes too late.
TestEnds(p) ==
  /\ job[p] = "run"
  /\ \/ Ends(p, "pass", "nil")
     \/ Ends(p, "failed", "failed")
     \/ testCtx[p] # "live" /\ Ends(p, testCtx[p], "failed")

Stop(p) == job[p] = "run" /\ testCtx[p] # "live" /\ Ends(p, testCtx[p], "failed")

Fail(p) == Record(p) /\ UNCHANGED <<ctx, testCtx, truth, verdict>>

\* Mutation: an interrupt is not told from a failure.
ClassifyByError ==
  /\ main = "returned" /\ verdict = "none"
  /\ verdict' = IF result = "nil" THEN "nil" ELSE "baseline"
  /\ UNCHANGED <<poolVars, ctx, testCtx, truth>>

Classify ==
  /\ main = "returned" /\ verdict = "none"
  /\ verdict' = CASE result = "nil" -> "nil"
                  [] ctx -> "interrupted"
                  [] OTHER -> "baseline"
  /\ UNCHANGED <<poolVars, ctx, testCtx, truth>>

-----------------------------------------------------------------------------
Other == UNCHANGED <<ctx, testCtx, truth, verdict>>

Job(p) ==
  \/ Enter(p) \/ StartTest(p) \/ StartFails(p) \/ Fail(p)
  \/ (Release(p) \/ Leave(p)) /\ Other

Caller ==
  \/ \E p \in Pkgs \ NoTests : Launch(p) /\ Other
  \/ \E p \in Pkgs : PassOver(p)
  \/ (StopLaunching(ctx /\ left \ NoTests # {}) \/ Return(ctx)) /\ Other
  \/ Classify

Judged == verdict # "none" /\ UNCHANGED vars

Next ==
  \/ Interrupt \/ Caller \/ Judged
  \/ \E p \in Pkgs :
       Propagate(p) \/ Expire(p) \/ Job(p) \/ TestEnds(p) \/ Stop(p)

Spec == Init /\ [][Next]_vars

\* Goroutines run, deadlines pass and os/exec stops a process whose context has
\* ended; a test need not end on its own.
FairSpec ==
  /\ Spec
  /\ WF_vars(Caller)
  /\ \A p \in Pkgs : /\ WF_vars(Job(p)) /\ WF_vars(Stop(p))
                     /\ WF_vars(Expire(p)) /\ WF_vars(Propagate(p))

-----------------------------------------------------------------------------
TypeOK ==
  /\ main \in {"launch", "wait", "returned"} /\ left \subseteq Pkgs
  /\ job \in [Pkgs -> PoolStages]
  /\ jobErr \in [Pkgs -> {"nil", "failed"}]
  /\ sem \in 0..Slots /\ wg \in Nat
  /\ firstErr \in {"nil", "failed"}
  /\ result \in {"none", "nil", "failed", "ctx"}
  /\ ctx \in BOOLEAN
  /\ testCtx \in [Pkgs -> {"none", "live", "deadline", "canceled"}]
  /\ truth \in [Pkgs -> {"none", "pass", "failed", "deadline", "canceled"}]
  /\ verdict \in {"none", "nil", "baseline", "interrupted"}

Passed == \A p \in Pkgs \ NoTests : truth[p] = "pass"
Failing == \E p \in Pkgs : truth[p] \in {"failed", "deadline"}

\* Mutants are tested only after the tests of every package have passed without
\* one, within the timeout; a suite is called broken only for a failure of its
\* own, never because an interrupt killed it.
BaselineContract ==
  verdict # "none" => BaselineMayReturn(verdict, ctx, Passed, Failing)

\* No baseline process is left when the mutants' tests begin in the same
\* directories.
BaselineQuiet == main = "returned" => Quiet /\ sem = 0

\* VerifyBaseline ends although tests hang.
BaselineEnds == <>(verdict # "none")

-----------------------------------------------------------------------------
(***************************************************************************)
(* The inductive invariant.                                                *)
(***************************************************************************)
Over == {"release", "leave", "gone"}

\* The loop leaves out only packages without tests, unless there was an interrupt.
Launched ==
  /\ \A p \in Pkgs \ NoTests : job[p] = "idle" => p \in left
  /\ main # "launch" => left = {} \/ ctx

\* A test context ends by an interrupt or the deadline, and a running test has one.
Contexts ==
  \A p \in Pkgs : /\ testCtx[p] = "canceled" => ctx
                  /\ job[p] = "run" => testCtx[p] # "none"

\* A test run that did not pass records an error, and only an interrupt takes the
\* blame from the tests.
Recorded ==
  /\ \A p \in Pkgs :
       /\ job[p] = "record" => jobErr[p] = "failed"
       /\ jobErr[p] = "failed" => truth[p] \in {"failed", "deadline", "canceled"}
                                  /\ job[p] \in {"record"} \cup Over
       /\ job[p] \in Over /\ firstErr = "nil" => truth[p] = "pass"
       /\ truth[p] = "canceled" => ctx
       /\ truth[p] # "none" => job[p] \in {"record"} \cup Over
  /\ firstErr = "failed" => Failing \/ ctx

\* What the call returned and what run makes of it.
Judgment ==
  /\ result = "nil" => Passed
  /\ result = "failed" => Failing \/ ctx
  /\ result = "ctx" => ctx
  /\ verdict # "none" => main = "returned"

BaselineInductive ==
  TypeOK /\ PoolInv /\ Launched /\ Contexts /\ Recorded /\ Judgment
    /\ BaselineContract
=============================================================================
