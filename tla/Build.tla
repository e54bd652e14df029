-------------------------------- MODULE Build -------------------------------
(***************************************************************************)
(* engine.BuildTestBinaries and BuildTestBinary: go test -c for every      *)
(* package, under a context that the first error cancels.  A build has no  *)
(* deadline.                                                               *)
(***************************************************************************)
EXTENDS Pool, Phases

CONSTANT NoTestFiles   \* the packages for which go test -c makes no binary

VARIABLES
  ctx,       \* the caller's context is done
  buildCtx,  \* the context of the builds is done
  binary,    \* "none", "built" (BinaryPath is set) or "absent" (NoTests)
  truth      \* history: how each build ended

vars == <<poolVars, ctx, buildCtx, binary, truth>>

Init ==
  /\ PoolInit
  /\ ctx \in BOOLEAN
  /\ buildCtx = FALSE
  /\ binary = [p \in Pkgs |-> "none"]
  /\ truth = [p \in Pkgs |-> "none"]

Interrupt ==
  /\ ~ctx /\ main # "returned"
  /\ ctx' = TRUE
  /\ UNCHANGED <<poolVars, buildCtx, binary, truth>>

\* The parent's error is set before its child is canceled.
Propagate ==
  /\ ctx /\ ~buildCtx
  /\ buildCtx' = TRUE
  /\ UNCHANGED <<poolVars, ctx, binary, truth>>

-----------------------------------------------------------------------------
Ends(p, ending, error) ==
  /\ truth' = [truth EXCEPT ![p] = ending]
  /\ Finds(p, error, IF error = "nil" THEN "stat" ELSE "record")
  /\ UNCHANGED <<ctx, buildCtx, binary>>

StartBuild(p) ==
  /\ job[p] = "start" /\ ~buildCtx
  /\ Finds(p, "nil", "run")
  /\ UNCHANGED <<ctx, buildCtx, binary, truth>>

BuildRefused(p) == job[p] = "start" /\ buildCtx /\ Ends(p, "stopped", "stopped")
StartBroken(p) == job[p] = "start" /\ ~buildCtx /\ Ends(p, "failed", "failed")

\* go test -c succeeds or fails; a context that is done makes an error of both.
BuildEnds(p) ==
  /\ job[p] = "run"
  /\ \/ Ends(p, "ok", "nil")
     \/ Ends(p, "failed", "failed")
     \/ buildCtx /\ Ends(p, "ok", "stopped")
BuildStopped(p) == job[p] = "run" /\ buildCtx /\ Ends(p, "stopped", "stopped")

Stat(p) ==
  /\ job[p] = "stat"
  /\ binary' = [binary EXCEPT ![p] =
                  IF p \in NoTestFiles THEN "absent" ELSE "built"]
  /\ Finds(p, "nil", "release")
  /\ UNCHANGED <<ctx, buildCtx, truth>>

\* os.Stat fails for another reason.
StatFails(p) ==
  /\ job[p] = "stat"
  /\ truth' = [truth EXCEPT ![p] = "failed"]
  /\ Finds(p, "failed", "record")
  /\ UNCHANGED <<ctx, buildCtx, binary>>

\* Mutation: the first failure cancels before it takes the mutex.
FailCancelingFirst(p) ==
  \/ /\ job[p] = "record" /\ firstErr = "nil" /\ ~buildCtx
     /\ buildCtx' = TRUE
     /\ UNCHANGED <<poolVars, ctx, binary, truth>>
  \/ /\ Record(p) /\ (buildCtx \/ firstErr # "nil")
     /\ UNCHANGED <<ctx, buildCtx, binary, truth>>

\* Mutation: the other builds go on.
FailAlone(p) == Record(p) /\ UNCHANGED <<ctx, buildCtx, binary, truth>>

\* The first error is kept and cancels the other builds.
Fail(p) ==
  /\ Record(p)
  /\ buildCtx' = (buildCtx \/ firstErr = "nil")
  /\ UNCHANGED <<ctx, binary, truth>>

-----------------------------------------------------------------------------
Other == UNCHANGED <<ctx, buildCtx, binary, truth>>

Job(p) ==
  \/ StartBuild(p) \/ BuildRefused(p) \/ StartBroken(p) \/ Stat(p) \/ StatFails(p)
  \/ Fail(p)
  \/ (Release(p) \/ Leave(p)) /\ Other

Caller ==
  \/ (\E p \in Pkgs : Launch(p)) /\ Other
  \/ (StopLaunching(buildCtx) \/ Return(buildCtx)) /\ Other

Returned == main = "returned" /\ UNCHANGED vars

Next ==
  \/ Interrupt \/ Propagate \/ Caller \/ Returned
  \/ \E p \in Pkgs : Job(p) \/ BuildEnds(p) \/ BuildStopped(p)

Spec == Init /\ [][Next]_vars

\* Goroutines run and os/exec stops a build whose context is done; a build need
\* not end on its own.
FairSpec ==
  /\ Spec
  /\ WF_vars(Caller) /\ WF_vars(Propagate)
  /\ \A p \in Pkgs : WF_vars(Job(p)) /\ WF_vars(BuildStopped(p))

-----------------------------------------------------------------------------
TypeOK ==
  /\ main \in {"launch", "wait", "returned"} /\ left \subseteq Pkgs
  /\ job \in [Pkgs -> PoolStages \cup {"stat"}]
  /\ jobErr \in [Pkgs -> {"nil", "failed", "stopped"}]
  /\ sem \in 0..Slots /\ wg \in Nat
  /\ firstErr \in {"nil", "failed", "stopped"}
  /\ result \in {"none", "nil", "failed", "stopped", "ctx"}
  /\ ctx \in BOOLEAN /\ buildCtx \in BOOLEAN
  /\ binary \in [Pkgs -> {"none", "built", "absent"}]
  /\ truth \in [Pkgs -> {"none", "ok", "failed", "stopped"}]

Ready == \A p \in Pkgs :
           binary[p] = IF p \in NoTestFiles THEN "absent" ELSE "built"
Broken == \E p \in Pkgs : truth[p] = "failed"

\* No error means that every package was built, also those the loop would have
\* come to when the context ended; and a build error that is not the user's
\* interrupt is the error of a build that failed itself, never that of one
\* which the first failure canceled.
BuildContract == main = "returned" => BuildMayReturn(result, ctx, Ready, Broken)

\* BuildTestBinaries returns with no goroutine left that could still set
\* BinaryPath or NoTests, which the caller reads without a lock, or still write
\* into the temporary directory the caller will remove.
BuildQuiet == main = "returned" => Quiet /\ sem = 0

\* A failed build, or an interrupt, ends the whole phase although other builds
\* hang and have no deadline.
FailureEndsBuild == (firstErr # "nil" \/ ctx) ~> main = "returned"

-----------------------------------------------------------------------------
(***************************************************************************)
(* The inductive invariant.                                                *)
(***************************************************************************)
Started == {"idle", "start", "run"}
Over == {"release", "leave", "gone"}

\* The loop leaves out no package unless the builds' context ended.
Launched ==
  /\ \A p \in Pkgs : job[p] = "idle" => p \in left
  /\ main # "launch" => left = {} \/ buildCtx

\* The error a job records is that of its build, and a job that ends without
\* one has set what BuildTestBinary finds.
Recorded ==
  \A p \in Pkgs :
    /\ job[p] = "record" => jobErr[p] # "nil"
    /\ jobErr[p] = "failed" => truth[p] = "failed"
    /\ truth[p] = "failed" => job[p] \in {"record"} \cup Over
    /\ job[p] \in Over /\ firstErr = "nil" =>
         binary[p] = IF p \in NoTestFiles THEN "absent" ELSE "built"

\* The builds' context ends by an interrupt or by the first error, and the first
\* error is that of a build which was stopped only after an interrupt.
Causes ==
  /\ buildCtx => ctx \/ firstErr # "nil"
  /\ \A p \in Pkgs : jobErr[p] = "stopped" => ctx \/ firstErr # "nil"
  /\ firstErr = "failed" => Broken
  /\ firstErr = "stopped" => ctx

BuildInductive ==
  TypeOK /\ PoolInv /\ Launched /\ Recorded /\ Causes /\ BuildContract
=============================================================================
