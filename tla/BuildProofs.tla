----------------------------- MODULE BuildProofs -----------------------------
(***************************************************************************)
(* What TLAPS proves about Build, for any packages and any number of       *)
(* builds at a time.                                                       *)
(***************************************************************************)
EXTENDS Build, PoolProofs

Stages == PoolStages \cup {"stat"}

\* Init establishes the invariant.
LEMMA BuildInit == Init => BuildInductive
<1> SUFFICES ASSUME Init PROVE BuildInductive
  OBVIOUS
<1> USE DEF Init, PoolInit
<1>1. TypeOK
  <2>1. ctx \in BOOLEAN /\ buildCtx \in BOOLEAN
    OBVIOUS
  <2>2. sem \in 0..Slots /\ wg \in Nat
    BY PoolAssumption
  <2> QED
    BY <2>1, <2>2 DEF TypeOK, PoolStages
<1>2. PoolInv
  BY PoolStart
<1>3. Launched /\ Recorded
  BY DEF Launched, Recorded, Over
<1>4. Causes /\ BuildContract
  BY DEF Causes, BuildContract
<1> QED
  BY <1>1, <1>2, <1>3, <1>4 DEF BuildInductive

\* What the jobs leave alone.
LEMMA BuildFrame ==
  ASSUME BuildInductive, NEW p \in Pkgs, job[p] \notin {"idle", "leave", "gone"},
         UNCHANGED <<main, result>>
  PROVE  main # "returned" /\ BuildContract'
<1>1. main # "returned"
  BY DEF BuildInductive, PoolInv, Members
<1> QED
  BY <1>1 DEF BuildContract

\* What every step of a build has in common: the job goes on with its token, an
\* error sends it to be recorded, and it ends without one when the binary is known.
Moves(p, error, label, ending) ==
  /\ Finds(p, error, label)
  /\ job[p] \in {"start", "run", "stat"}
  /\ label = "record" <=> error # "nil"
  /\ error = "stopped" => buildCtx
  /\ error = "failed" <=> ending = "failed"
  /\ truth' = [truth EXCEPT ![p] = ending]
  /\ binary' = IF label = "release"
               THEN [binary EXCEPT ![p] = IF p \in NoTestFiles THEN "absent" ELSE "built"]
               ELSE binary
  /\ UNCHANGED <<ctx, buildCtx>>

\* A build begins or ends, or its binary is looked for.
BuildStep(p) ==
  \/ StartBuild(p) \/ BuildRefused(p) \/ StartBroken(p) \/ Stat(p) \/ StatFails(p)
  \/ BuildEnds(p) \/ BuildStopped(p)

\* Each of these steps moves the job on in that way.
LEMMA StepsMove ==
  ASSUME BuildInductive, NEW p \in Pkgs, BuildStep(p)
  PROVE  \E error \in {"nil", "failed", "stopped"},
            label \in {"run", "stat", "record", "release"},
            ending \in {"none", "ok", "failed", "stopped"} : Moves(p, error, label, ending)
<1>1. TypeOK /\ Recorded
  BY DEF BuildInductive
<1>2. CASE StartBuild(p)
  <2>1. truth' = [truth EXCEPT ![p] = truth[p]] /\ truth[p] # "failed"
    BY <1>1, <1>2 DEF StartBuild, TypeOK, Recorded, Over
  <2>2. Moves(p, "nil", "run", truth[p])
    BY <1>2, <2>1 DEF StartBuild, Moves
  <2> QED
    BY <1>1, <2>2 DEF TypeOK
<1>3. CASE Stat(p)
  <2>1. truth' = [truth EXCEPT ![p] = truth[p]] /\ truth[p] # "failed"
    BY <1>1, <1>3 DEF Stat, TypeOK, Recorded, Over
  <2>2. Moves(p, "nil", "release", truth[p])
    BY <1>3, <2>1 DEF Stat, Moves
  <2> QED
    BY <1>1, <2>2 DEF TypeOK
<1>4. CASE StatFails(p)
  <2>1. Moves(p, "failed", "record", "failed")
    BY <1>4 DEF StatFails, Moves
  <2> QED
    BY <2>1
<1>5. ASSUME NEW error \in {"nil", "failed", "stopped"},
             NEW ending \in {"ok", "failed", "stopped"},
             Ends(p, ending, error), job[p] \in {"start", "run"},
             error = "failed" <=> ending = "failed", error = "stopped" => buildCtx
      PROVE  \E label \in {"run", "stat", "record", "release"} :
               Moves(p, error, label, ending)
  <2>1. Moves(p, error, IF error = "nil" THEN "stat" ELSE "record", ending)
    BY <1>5 DEF Ends, Moves
  <2> QED
    BY <2>1
<1>6. CASE BuildRefused(p) \/ StartBroken(p)
  BY <1>5, <1>6 DEF BuildRefused, StartBroken
<1>7. CASE BuildEnds(p) \/ BuildStopped(p)
  BY <1>5, <1>7 DEF BuildEnds, BuildStopped
<1> QED
  BY <1>2, <1>3, <1>4, <1>6, <1>7 DEF BuildStep

\* The steps of a build keep the invariant.
LEMMA InvariantBuild ==
  ASSUME BuildInductive, NEW p \in Pkgs, BuildStep(p)
  PROVE  BuildInductive'
<1>0. /\ TypeOK /\ PoolInv /\ Launched /\ Recorded /\ Causes
      /\ job \in [Pkgs -> Stages] /\ left \subseteq Pkgs
  BY DEF BuildInductive, TypeOK, Stages
<1>1. PICK error \in {"nil", "failed", "stopped"},
           label \in {"run", "stat", "record", "release"},
           ending \in {"none", "ok", "failed", "stopped"} : Moves(p, error, label, ending)
  BY StepsMove
<1> USE DEF Moves, Finds, Goto
<1>2. TypeOK'
  BY <1>0, <1>1 DEF TypeOK, PoolStages
<1>3. PoolInv'
  BY <1>0, <1>1, PoolGoesOn
<1>4. Launched'
  BY <1>0, <1>1 DEF TypeOK, Launched
<1>5. Recorded'
  BY <1>0, <1>1 DEF TypeOK, Recorded, Over
<1>6. Causes'
  BY <1>0, <1>1 DEF TypeOK, Causes, Recorded, Over, Broken
<1>7. BuildContract'
  BY <1>1, BuildFrame
<1> QED
  BY <1>2, <1>3, <1>4, <1>5, <1>6, <1>7 DEF BuildInductive

\* The first error is recorded and cancels the other builds.
LEMMA InvariantFail ==
  ASSUME BuildInductive, NEW p \in Pkgs, Fail(p)
  PROVE  BuildInductive'
<1>0. /\ TypeOK /\ PoolInv /\ Launched /\ Recorded /\ Causes
      /\ job \in [Pkgs -> Stages] /\ left \subseteq Pkgs
  BY DEF BuildInductive, TypeOK, Stages
<1> USE DEF Fail, Record, Goto
<1>1. jobErr[p] \in {"failed", "stopped"} /\ firstErr' # "nil"
  BY <1>0 DEF TypeOK, Recorded
<1>2. TypeOK'
  <2>1. buildCtx' \in BOOLEAN
    OBVIOUS
  <2> QED
    BY <1>0, <1>1, <2>1 DEF TypeOK, PoolStages
<1>3. PoolInv'
  BY <1>0, PoolGoesOn
<1>4. Launched'
  BY <1>0 DEF TypeOK, Launched
<1>5. Recorded'
  BY <1>0, <1>1 DEF TypeOK, Recorded, Over
<1>6. Causes'
  BY <1>0, <1>1 DEF TypeOK, Causes, Recorded, Over, Broken
<1>7. BuildContract'
  BY BuildFrame
<1> QED
  BY <1>2, <1>3, <1>4, <1>5, <1>6, <1>7 DEF BuildInductive

\* A job gives its token back and leaves the wait group.
LEMMA InvariantOver ==
  ASSUME BuildInductive, NEW p \in Pkgs, Release(p) \/ Leave(p), Other
  PROVE  BuildInductive'
<1>0. /\ TypeOK /\ PoolInv /\ Launched /\ Recorded /\ Causes
      /\ job \in [Pkgs -> Stages] /\ left \subseteq Pkgs
  BY DEF BuildInductive, TypeOK, Stages
<1>1. PoolInv'
  BY <1>0, PoolTakesAndGives
<1> USE DEF Release, Leave, Goto, Other
<1>2. TypeOK'
  <2>1. sem' \in 0..Slots /\ wg' \in Nat
    BY <1>1, PoolCountsAfter
  <2> QED
    BY <1>0, <2>1 DEF TypeOK, PoolStages
<1>3. Launched'
  BY <1>0 DEF TypeOK, Launched
<1>4. Recorded'
  BY <1>0 DEF TypeOK, Recorded, Over
<1>5. Causes'
  BY <1>0 DEF TypeOK, Causes, Broken
<1>6. BuildContract'
  BY DEF BuildInductive, BuildContract, Ready, Broken
<1> QED
  BY <1>1, <1>2, <1>3, <1>4, <1>5, <1>6 DEF BuildInductive

\* The loop, the wait and the return.
LEMMA InvariantCaller ==
  ASSUME BuildInductive, Caller
  PROVE  BuildInductive'
<1>0. /\ TypeOK /\ PoolInv /\ Launched /\ Recorded /\ Causes
      /\ job \in [Pkgs -> Stages] /\ left \subseteq Pkgs
  BY DEF BuildInductive, TypeOK, Stages
<1> USE DEF Other
<1>1. ASSUME NEW p \in Pkgs, Launch(p), Other PROVE BuildInductive'
  <2>1. PoolInv'
    BY <1>0, <1>1, PoolTakesAndGives
  <2> USE <1>1 DEF Launch, Goto
  <2>2. TypeOK'
    <3>1. sem' \in 0..Slots /\ wg' \in Nat
      BY <2>1, PoolCountsAfter
    <3> QED
      BY <1>0, <3>1 DEF TypeOK, PoolStages
  <2>3. job[p] = "idle"
    BY <1>0 DEF PoolInv
  <2>4. Launched'
    BY <1>0, <2>3 DEF TypeOK, Launched
  <2>5. Recorded'
    BY <1>0, <2>3 DEF TypeOK, Recorded, Over
  <2>6. Causes'
    BY <1>0 DEF TypeOK, Causes, Broken
  <2>7. BuildContract'
    BY DEF BuildContract
  <2> QED
    BY <2>1, <2>2, <2>4, <2>5, <2>6, <2>7 DEF BuildInductive
<1>2. ASSUME StopLaunching(buildCtx) \/ Return(buildCtx), Other
      PROVE  TypeOK' /\ PoolInv' /\ Launched' /\ Recorded' /\ Causes'
  <2>1. PoolInv'
    BY <1>0, <1>2, PoolCaller DEF TypeOK
  <2> USE <1>2 DEF StopLaunching, Return
  <2>2. TypeOK'
    BY <1>0 DEF TypeOK
  <2>3. Launched'
    BY <1>0 DEF Launched
  <2>4. Recorded'
    BY <1>0 DEF Recorded
  <2>5. Causes'
    BY <1>0 DEF Causes, Broken
  <2> QED
    BY <2>1, <2>2, <2>3, <2>4, <2>5
<1>3. ASSUME StopLaunching(buildCtx), Other PROVE BuildContract'
  BY <1>3 DEF StopLaunching, BuildContract
<1>4. ASSUME Return(buildCtx), Other PROVE BuildContract'
  <2> USE <1>4 DEF Return
  <2>1. \A p \in Pkgs : job[p] \in {"idle", "gone"}
    BY <1>0, PoolCounts DEF Quiet
  <2>2. CASE firstErr = "nil" /\ ~buildCtx
    <3>1. \A p \in Pkgs : job[p] = "gone"
      BY <1>0, <2>1, <2>2 DEF Launched
    <3>2. Ready'
      BY <1>0, <2>2, <3>1 DEF Recorded, Over, Ready
    <3> QED
      BY <2>2, <3>2 DEF BuildContract, BuildMayReturn
  <2>3. CASE firstErr = "nil" /\ buildCtx
    BY <1>0, <2>3 DEF Causes, BuildContract, BuildMayReturn
  <2>4. CASE firstErr \in {"failed", "stopped"}
    <3>1. Broken' <=> Broken
      BY DEF Broken
    <3> QED
      BY <1>0, <2>4, <3>1 DEF Causes, BuildContract, BuildMayReturn
  <2> QED
    BY <1>0, <2>2, <2>3, <2>4 DEF TypeOK
<1> QED
  BY <1>1, <1>2, <1>3, <1>4 DEF Caller, BuildInductive

\* An interrupt reaches the builds.
LEMMA InvariantInterrupt ==
  ASSUME BuildInductive, Interrupt \/ Propagate \/ UNCHANGED vars
  PROVE  BuildInductive'
<1>0. /\ TypeOK /\ PoolInv /\ Launched /\ Recorded /\ Causes
  BY DEF BuildInductive
<1> USE DEF Interrupt, Propagate, vars, poolVars
<1>1. TypeOK'
  BY <1>0 DEF TypeOK
<1>2. PoolInv'
  BY <1>0 DEF PoolInv, Holders, Members
<1>3. Launched' /\ Recorded'
  BY <1>0 DEF Launched, Recorded
<1>4. Causes'
  BY <1>0 DEF Causes, Broken
<1>5. BuildContract'
  BY DEF BuildInductive, BuildContract, BuildMayReturn, Ready, Broken
<1> QED
  BY <1>1, <1>2, <1>3, <1>4, <1>5 DEF BuildInductive

-----------------------------------------------------------------------------
(***************************************************************************)
(* The theorems.                                                           *)
(***************************************************************************)
\* The counts of the pool, the records of the jobs and the causes of the first
\* error fit together in every reachable state.
THEOREM BuildInvariant == Spec => []BuildInductive
<1>1. BuildInductive /\ [Next]_vars => BuildInductive'
  <2> SUFFICES ASSUME BuildInductive, [Next]_vars PROVE BuildInductive'
    OBVIOUS
  <2>1. CASE \E p \in Pkgs : Job(p) \/ BuildEnds(p) \/ BuildStopped(p)
    BY <2>1, InvariantBuild, InvariantFail, InvariantOver DEF Job, BuildStep
  <2> QED
    BY <2>1, InvariantCaller, InvariantInterrupt DEF Next, Returned
<1> QED
  BY <1>1, BuildInit, PTL DEF Spec

\* The variables of BuildTestBinaries keep their types; never more builds run
\* than there are workers.
THEOREM TypeCorrect == Spec => []TypeOK
<1>1. BuildInductive => TypeOK
  BY DEF BuildInductive
<1> QED
  BY <1>1, BuildInvariant, PTL

\* What BuildTestBinaries returns is what run relies on: nil only with every
\* binary built, a build error only of a build that failed itself.
THEOREM BuildKeepsContract == Spec => []BuildContract
<1>1. BuildInductive => BuildContract
  BY DEF BuildInductive
<1> QED
  BY <1>1, BuildInvariant, PTL

\* After its return no goroutine is left that could set BinaryPath or write into
\* the temporary directory.
THEOREM BuildEndsQuiet == Spec => []BuildQuiet
<1>1. BuildInductive => BuildQuiet
  BY PoolCounts DEF BuildInductive, BuildQuiet, PoolInv
<1> QED
  BY <1>1, BuildInvariant, PTL
=============================================================================
