--------------------------- MODULE BaselineProofs ---------------------------
(***************************************************************************)
(* What TLAPS proves about Baseline, for any packages and any number of    *)
(* test runs at a time.                                                    *)
(***************************************************************************)
EXTENDS Baseline, PoolProofs

\* Init establishes the invariant.
LEMMA BaselineInit == Init => BaselineInductive
<1> SUFFICES ASSUME Init PROVE BaselineInductive
  OBVIOUS
<1> USE DEF Init, PoolInit
<1>1. TypeOK
  <2>1. ctx \in BOOLEAN
    OBVIOUS
  <2>2. sem \in 0..Slots /\ wg \in Nat
    BY PoolAssumption
  <2> QED
    BY <2>1, <2>2 DEF TypeOK, PoolStages
<1>2. PoolInv
  BY PoolStart
<1>3. Launched /\ Contexts /\ Recorded
  BY DEF Launched, Contexts, Recorded, Over
<1>4. Judgment /\ BaselineContract
  BY DEF Judgment, BaselineContract
<1> QED
  BY <1>1, <1>2, <1>3, <1>4 DEF BaselineInductive

\* While a job is at work nothing has been returned, so nothing has been judged.
LEMMA WorkPrecedesJudgment ==
  ASSUME BaselineInductive, NEW p \in Pkgs, job[p] \notin {"idle", "gone"}
  PROVE  main # "returned" /\ result = "none" /\ verdict = "none"
BY DEF BaselineInductive, PoolInv, Members, Judgment

\* While nothing is returned there is nothing to judge.
LEMMA NothingJudged ==
  ASSUME result' = "none", verdict' = "none"
  PROVE  Judgment' /\ BaselineContract'
BY DEF Judgment, BaselineContract

\* How a test run ends: with the context that its deferred cancel drops, and an
\* error unless it passed.
EndsAs(p, ending, error) ==
  /\ Ends(p, ending, error)
  /\ job[p] \in {"start", "run"}
  /\ error = "nil" <=> ending = "pass"
  /\ ending = "canceled" => ctx

\* Every end of a test run is one of these.
LEMMA EndingsKnown ==
  ASSUME BaselineInductive, NEW p \in Pkgs, StartFails(p) \/ TestEnds(p) \/ Stop(p)
  PROVE  \E ending \in {"pass", "failed", "deadline", "canceled"}, error \in {"nil", "failed"} :
           EndsAs(p, ending, error)
<1>0. TypeOK /\ Contexts
  BY DEF BaselineInductive
<1>1. ASSUME Ends(p, testCtx[p], "failed"), testCtx[p] \in {"deadline", "canceled"},
             job[p] \in {"start", "run"}
      PROVE  EndsAs(p, testCtx[p], "failed")
  BY <1>0, <1>1 DEF EndsAs, Contexts
<1>2. CASE StartFails(p)
  <2>1. CASE testCtx[p] = "live"
    <3>1. EndsAs(p, "failed", "failed")
      BY <1>2, <2>1 DEF StartFails, EndsAs
    <3> QED
      BY <3>1
  <2>2. CASE testCtx[p] # "live"
    BY <1>1, <1>2, <2>2 DEF StartFails
  <2> QED
    BY <2>1, <2>2
<1>3. CASE TestEnds(p) \/ Stop(p)
  <2>1. testCtx[p] # "live" => testCtx[p] \in {"deadline", "canceled"}
    BY <1>0, <1>3 DEF TestEnds, Stop, TypeOK, Contexts
  <2>2. Ends(p, "pass", "nil") => EndsAs(p, "pass", "nil")
    BY <1>3 DEF TestEnds, Stop, EndsAs
  <2>3. Ends(p, "failed", "failed") => EndsAs(p, "failed", "failed")
    BY <1>3 DEF TestEnds, Stop, EndsAs
  <2> QED
    BY <1>1, <1>3, <2>1, <2>2, <2>3 DEF TestEnds, Stop
<1> QED
  BY <1>2, <1>3

\* The end of a test run keeps the invariant.
LEMMA InvariantEnds ==
  ASSUME BaselineInductive, NEW p \in Pkgs, StartFails(p) \/ TestEnds(p) \/ Stop(p)
  PROVE  BaselineInductive'
<1>0. /\ TypeOK /\ PoolInv /\ Launched /\ Contexts /\ Recorded
      /\ job \in [Pkgs -> PoolStages] /\ left \subseteq Pkgs
  BY DEF BaselineInductive, TypeOK
<1>1. PICK ending \in {"pass", "failed", "deadline", "canceled"}, error \in {"nil", "failed"} :
        EndsAs(p, ending, error)
  BY EndingsKnown
<1>2. verdict = "none" /\ result = "none"
  BY <1>1, WorkPrecedesJudgment DEF EndsAs
<1> USE DEF EndsAs, Ends, Finds, Goto
<1>3. TypeOK'
  BY <1>0, <1>1 DEF TypeOK, PoolStages
<1>4. PoolInv'
  BY <1>0, <1>1, PoolGoesOn
<1>5. Launched' /\ Contexts'
  BY <1>0, <1>1 DEF TypeOK, Launched, Contexts
<1>6. Recorded'
  <2>1. truth[p] = "none"
    BY <1>0, <1>1 DEF Recorded, Over
  <2>2. Failing => Failing'
    BY <1>0, <1>1, <2>1 DEF TypeOK, Failing
  <2> QED
    BY <1>0, <1>1, <2>2 DEF TypeOK, Recorded, Over
<1>7. Judgment' /\ BaselineContract'
  BY <1>1, <1>2, NothingJudged
<1> QED
  BY <1>3, <1>4, <1>5, <1>6, <1>7 DEF BaselineInductive

\* A test run gets its context and starts; a failure is recorded.
LEMMA InvariantWork ==
  ASSUME BaselineInductive, NEW p \in Pkgs, Enter(p) \/ StartTest(p) \/ Fail(p)
  PROVE  BaselineInductive'
<1>0. /\ TypeOK /\ PoolInv /\ Launched /\ Contexts /\ Recorded
      /\ job \in [Pkgs -> PoolStages] /\ left \subseteq Pkgs
  BY DEF BaselineInductive, TypeOK
<1>1. verdict' = "none" /\ result' = "none"
  BY WorkPrecedesJudgment DEF Enter, StartTest, Fail, Record, Finds, poolVars
<1>2. CASE Enter(p)
  <2> USE <1>2 DEF Enter, poolVars
  <2>1. TypeOK'
    BY <1>0 DEF TypeOK
  <2>2. PoolInv'
    BY <1>0 DEF PoolInv, Holders, Members
  <2>3. Launched' /\ Contexts' /\ Recorded'
    BY <1>0 DEF TypeOK, Launched, Contexts, Recorded, Failing
  <2> QED
    BY <1>1, <2>1, <2>2, <2>3, NothingJudged DEF BaselineInductive
<1>3. CASE StartTest(p)
  <2> USE <1>3 DEF StartTest, Finds, Goto
  <2>1. TypeOK'
    BY <1>0 DEF TypeOK, PoolStages
  <2>2. PoolInv'
    BY <1>0, PoolGoesOn
  <2>3. Launched' /\ Contexts'
    BY <1>0 DEF TypeOK, Launched, Contexts
  <2>4. Recorded'
    BY <1>0 DEF TypeOK, Recorded, Failing, Over
  <2> QED
    BY <1>1, <2>1, <2>2, <2>3, <2>4, NothingJudged DEF BaselineInductive
<1>4. CASE Fail(p)
  <2> USE <1>4 DEF Fail, Record, Goto
  <2>1. jobErr[p] = "failed" /\ firstErr' = "failed"
    BY <1>0 DEF TypeOK, Recorded
  <2>2. TypeOK'
    BY <1>0, <2>1 DEF TypeOK, PoolStages
  <2>3. PoolInv'
    BY <1>0, PoolGoesOn
  <2>4. Launched' /\ Contexts'
    BY <1>0 DEF TypeOK, Launched, Contexts
  <2>5. Failing' \/ ctx'
    BY <1>0, <2>1 DEF Recorded, Failing
  <2>6. Recorded'
    BY <1>0, <2>1, <2>5 DEF TypeOK, Recorded, Over
  <2> QED
    BY <1>1, <2>2, <2>3, <2>4, <2>6, NothingJudged DEF BaselineInductive
<1> QED
  BY <1>2, <1>3, <1>4

\* A job gives its token back and leaves the wait group.
LEMMA InvariantOver ==
  ASSUME BaselineInductive, NEW p \in Pkgs, Release(p) \/ Leave(p), Other
  PROVE  BaselineInductive'
<1>0. /\ TypeOK /\ PoolInv /\ Launched /\ Contexts /\ Recorded
      /\ job \in [Pkgs -> PoolStages] /\ left \subseteq Pkgs
  BY DEF BaselineInductive, TypeOK
<1>1. PoolInv'
  BY <1>0, PoolTakesAndGives
<1> USE DEF Release, Leave, Goto, Other
<1>2. TypeOK'
  <2>1. sem' \in 0..Slots /\ wg' \in Nat
    BY <1>1, PoolCountsAfter
  <2> QED
    BY <1>0, <2>1 DEF TypeOK, PoolStages
<1>3. Launched' /\ Contexts'
  BY <1>0 DEF TypeOK, Launched, Contexts
<1>4. Recorded'
  BY <1>0 DEF TypeOK, Recorded, Failing, Over
<1>5. Judgment' /\ BaselineContract'
  BY WorkPrecedesJudgment, NothingJudged
<1> QED
  BY <1>1, <1>2, <1>3, <1>4, <1>5 DEF BaselineInductive

\* The loop, which starts a package or passes over one without tests.
LEMMA InvariantLaunch ==
  ASSUME BaselineInductive, NEW p \in Pkgs,
         \/ p \notin NoTests /\ Launch(p) /\ Other
         \/ PassOver(p)
  PROVE  BaselineInductive'
<1>0. /\ TypeOK /\ PoolInv /\ Launched /\ Contexts /\ Recorded /\ Judgment
      /\ job \in [Pkgs -> PoolStages] /\ left \subseteq Pkgs
      /\ main = "launch" /\ main' = "launch" /\ job[p] = "idle"
  BY DEF BaselineInductive, TypeOK, Launch, PassOver, PoolInv
<1>1. verdict' = "none" /\ result' = "none"
  BY <1>0 DEF PoolInv, Judgment, Launch, PassOver, Other
<1>2. Judgment' /\ BaselineContract'
  BY <1>1, NothingJudged
<1>3. CASE Launch(p) /\ Other
  <2>1. PoolInv'
    BY <1>0, <1>3, PoolTakesAndGives
  <2> USE <1>3 DEF Launch, Goto, Other
  <2>2. TypeOK'
    <3>1. sem' \in 0..Slots /\ wg' \in Nat
      BY <2>1, PoolCountsAfter
    <3> QED
      BY <1>0, <3>1 DEF TypeOK, PoolStages
  <2>3. Launched' /\ Contexts'
    BY <1>0 DEF TypeOK, Launched, Contexts
  <2>4. Recorded'
    BY <1>0 DEF TypeOK, Recorded, Failing, Over
  <2> QED
    BY <1>2, <2>1, <2>2, <2>3, <2>4 DEF BaselineInductive
<1>4. CASE PassOver(p)
  <2>1. PoolInv'
    BY <1>0, <1>4, PoolCaller DEF PassOver, TypeOK
  <2> USE <1>4 DEF PassOver
  <2>2. TypeOK'
    BY <1>0 DEF TypeOK
  <2>3. Launched' /\ Contexts' /\ Recorded'
    BY <1>0 DEF Launched, Contexts, Recorded, Failing
  <2> QED
    BY <1>2, <2>1, <2>2, <2>3 DEF BaselineInductive
<1> QED
  BY <1>3, <1>4

\* The wait, the return and what run makes of the result.
LEMMA InvariantEnd ==
  ASSUME BaselineInductive,
         \/ (StopLaunching(ctx /\ left \ NoTests # {}) \/ Return(ctx)) /\ Other
         \/ Classify
  PROVE  BaselineInductive'
<1>0. /\ TypeOK /\ PoolInv /\ Launched /\ Contexts /\ Recorded /\ Judgment
  BY DEF BaselineInductive
<1>1. CASE StopLaunching(ctx /\ left \ NoTests # {}) /\ Other
  <2>1. PoolInv'
    BY <1>0, <1>1, PoolCaller DEF TypeOK
  <2> USE <1>1 DEF StopLaunching, Other
  <2>2. TypeOK'
    BY <1>0 DEF TypeOK
  <2>3. Launched' /\ Contexts' /\ Recorded'
    BY <1>0 DEF Launched, Contexts, Recorded, Failing
  <2>4. verdict' = "none" /\ result' = "none"
    BY <1>0 DEF PoolInv, Judgment
  <2> QED
    BY <2>1, <2>2, <2>3, <2>4, NothingJudged DEF BaselineInductive
<1>2. CASE Return(ctx) /\ Other
  <2>1. PoolInv'
    BY <1>0, <1>2, PoolCaller DEF TypeOK
  <2> USE <1>2 DEF Return, Other
  <2>2. TypeOK'
    BY <1>0 DEF TypeOK
  <2>3. Launched' /\ Contexts' /\ Recorded'
    BY <1>0 DEF Launched, Contexts, Recorded, Failing
  <2>4. verdict' = "none"
    BY <1>0 DEF Judgment
  <2>5. result' = "nil" => Passed'
    <3> SUFFICES ASSUME firstErr = "nil", ~ctx, NEW p \in Pkgs \ NoTests
                 PROVE  truth[p] = "pass"
      BY DEF Passed
    <3>1. job[p] = "gone"
      BY <1>0, PoolCounts DEF Launched, Quiet
    <3> QED
      BY <1>0, <3>1 DEF Recorded, Over
  <2>6. (result' = "failed" => Failing' \/ ctx') /\ (result' = "ctx" => ctx')
    BY <1>0 DEF TypeOK, Recorded, Failing
  <2>7. Judgment' /\ BaselineContract'
    BY <2>4, <2>5, <2>6 DEF Judgment, BaselineContract
  <2> QED
    BY <2>1, <2>2, <2>3, <2>7 DEF BaselineInductive
<1>3. CASE Classify
  <2> USE <1>3 DEF Classify, poolVars
  <2>1. TypeOK'
    BY <1>0 DEF TypeOK
  <2>2. PoolInv'
    BY <1>0 DEF PoolInv, Holders, Members
  <2>3. Launched' /\ Contexts' /\ Recorded' /\ Judgment'
    BY <1>0 DEF Launched, Contexts, Recorded, Judgment, Failing, Passed
  <2>4. BaselineContract'
    <3>1. (Passed' <=> Passed) /\ (Failing' <=> Failing)
      BY DEF Passed, Failing
    <3>2. result \in {"nil", "failed", "ctx"}
      BY <1>0 DEF TypeOK, PoolInv
    <3> QED
      BY <1>0, <3>1, <3>2 DEF BaselineContract, BaselineMayReturn, Judgment
  <2> QED
    BY <2>1, <2>2, <2>3, <2>4 DEF BaselineInductive
<1> QED
  BY <1>1, <1>2, <1>3

\* Interrupts and deadlines.
LEMMA InvariantContexts ==
  ASSUME BaselineInductive,
         \/ Interrupt \/ UNCHANGED vars
         \/ \E p \in Pkgs : Propagate(p) \/ Expire(p)
  PROVE  BaselineInductive'
<1>0. /\ TypeOK /\ PoolInv /\ Launched /\ Contexts /\ Recorded /\ Judgment /\ BaselineContract
  BY DEF BaselineInductive
<1>1. UNCHANGED <<poolVars, truth, verdict>> /\ (ctx => ctx')
  BY DEF Interrupt, Propagate, Expire, EndContext, vars
<1> USE <1>1 DEF poolVars
<1>2. TypeOK' /\ Contexts'
  <2>1. CASE Interrupt \/ UNCHANGED vars
    BY <1>0, <2>1 DEF Interrupt, vars, TypeOK, Contexts
  <2>2. CASE \E p \in Pkgs : Propagate(p) \/ Expire(p)
    BY <1>0, <2>2 DEF Propagate, Expire, EndContext, TypeOK, Contexts
  <2> QED
    BY <2>1, <2>2
<1>3. PoolInv'
  BY <1>0 DEF PoolInv, Holders, Members
<1>4. (Passed' <=> Passed) /\ (Failing' <=> Failing)
  BY DEF Passed, Failing
<1>5. Launched' /\ Recorded' /\ Judgment'
  BY <1>0, <1>4 DEF Launched, Recorded, Judgment
<1>6. BaselineContract'
  BY <1>0, <1>4 DEF BaselineContract, BaselineMayReturn
<1> QED
  BY <1>2, <1>3, <1>5, <1>6 DEF BaselineInductive

-----------------------------------------------------------------------------
(***************************************************************************)
(* The theorems.                                                           *)
(***************************************************************************)
\* The counts of the pool, the contexts and the records of the test runs fit
\* together in every reachable state.
THEOREM BaselineInvariant == Spec => []BaselineInductive
<1>1. BaselineInductive /\ [Next]_vars => BaselineInductive'
  <2> SUFFICES ASSUME BaselineInductive, [Next]_vars PROVE BaselineInductive'
    OBVIOUS
  <2>1. CASE \E p \in Pkgs : Job(p) \/ TestEnds(p) \/ Stop(p)
    BY <2>1, InvariantEnds, InvariantWork, InvariantOver DEF Job
  <2>2. CASE Caller
    BY <2>2, InvariantLaunch, InvariantEnd DEF Caller
  <2> QED
    BY <2>1, <2>2, InvariantContexts DEF Next, Judged
<1> QED
  BY <1>1, BaselineInit, PTL DEF Spec

\* The variables of VerifyBaseline keep their types; never more test processes run
\* than there are workers.
THEOREM TypeCorrect == Spec => []TypeOK
<1>1. BaselineInductive => TypeOK
  BY DEF BaselineInductive
<1> QED
  BY <1>1, BaselineInvariant, PTL

\* The campaign starts only after every package has passed, and an interrupt is
\* never called a broken test suite.
THEOREM BaselineKeepsContract == Spec => []BaselineContract
<1>1. BaselineInductive => BaselineContract
  BY DEF BaselineInductive
<1> QED
  BY <1>1, BaselineInvariant, PTL

\* After the return no test process and no goroutine of the baseline is left.
THEOREM BaselineEndsQuiet == Spec => []BaselineQuiet
<1>1. BaselineInductive => BaselineQuiet
  BY PoolCounts DEF BaselineInductive, BaselineQuiet, PoolInv
<1> QED
  BY <1>1, BaselineInvariant, PTL
=============================================================================
