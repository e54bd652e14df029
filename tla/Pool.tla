-------------------------------- MODULE Pool --------------------------------
(***************************************************************************)
(* The pool of goroutines that BuildTestBinaries and VerifyBaseline have   *)
(* in common: one job per package, in the random order of a Go map, while  *)
(* a semaphore admits it; the first error is kept; the caller waits for    *)
(* the jobs that were started.  Build and Baseline add what a job does and *)
(* which contexts there are.                                               *)
(***************************************************************************)
EXTENDS Naturals, FiniteSets

CONSTANTS
  Pkgs,    \* the instrumented packages
  Slots    \* capacity of the semaphore

\* config.Validate refuses fewer than one worker before either phase; the packages
\* are the keys of a map.
ASSUME PoolAssumption == Slots \in Nat \ {0} /\ IsFiniteSet(Pkgs)

VARIABLES
  main,      \* "launch", "wait" or "returned"
  left,      \* the packages the loop has not come to
  job,       \* where the job of each package is
  jobErr,    \* the error it has to record, "nil" if it has none
  sem, wg,   \* tokens in the semaphore, count of the wait group
  firstErr,  \* the first error recorded, "nil" before
  result     \* what the call returned, "none" before

poolVars == <<main, left, job, jobErr, sem, wg, firstErr, result>>

Goto(p, label) == job' = [job EXCEPT ![p] = label]

PoolInit ==
  /\ main = "launch" /\ left = Pkgs
  /\ job = [p \in Pkgs |-> "idle"]
  /\ jobErr = [p \in Pkgs |-> "nil"]
  /\ sem = 0 /\ wg = 0
  /\ firstErr = "nil" /\ result = "none"

\* Mutation: the job is started without wg.Add.
LaunchWithoutAdd(p) ==
  /\ main = "launch" /\ p \in left
  /\ sem < Slots
  /\ sem' = sem + 1 /\ UNCHANGED wg
  /\ left' = left \ {p}
  /\ Goto(p, "start")
  /\ UNCHANGED <<main, jobErr, firstErr, result>>

Launch(p) ==
  /\ main = "launch" /\ p \in left
  /\ sem < Slots
  /\ sem' = sem + 1 /\ wg' = wg + 1
  /\ left' = left \ {p}
  /\ Goto(p, "start")
  /\ UNCHANGED <<main, jobErr, firstErr, result>>

\* The loop is over, or the select takes Done of the context.
StopLaunching(isDone) ==
  /\ main = "launch"
  /\ left = {} \/ isDone
  /\ main' = "wait"
  /\ UNCHANGED <<left, job, jobErr, sem, wg, firstErr, result>>

\* A job goes on to the label, with the error it found.
Finds(p, error, label) ==
  /\ jobErr' = [jobErr EXCEPT ![p] = error]
  /\ Goto(p, label)
  /\ UNCHANGED <<main, left, sem, wg, firstErr, result>>

\* Mutation: the last error is kept.
RecordLast(p) ==
  /\ job[p] = "record"
  /\ firstErr' = jobErr[p]
  /\ Goto(p, "release")
  /\ UNCHANGED <<main, left, jobErr, sem, wg, result>>

\* Under the mutex.
Record(p) ==
  /\ job[p] = "record"
  /\ firstErr' = IF firstErr = "nil" THEN jobErr[p] ELSE firstErr
  /\ Goto(p, "release")
  /\ UNCHANGED <<main, left, jobErr, sem, wg, result>>

Release(p) ==
  /\ job[p] = "release" /\ sem > 0
  /\ sem' = sem - 1
  /\ Goto(p, "leave")
  /\ UNCHANGED <<main, left, jobErr, wg, firstErr, result>>

Leave(p) ==
  /\ job[p] = "leave"
  /\ wg' = wg - 1
  /\ Goto(p, "gone")
  /\ UNCHANGED <<main, left, jobErr, sem, firstErr, result>>

\* Mutation: the call does not wait for the jobs it has started.
ReturnAtOnce(isDone) ==
  /\ main = "wait"
  /\ main' = "returned"
  /\ result' = IF firstErr = "nil" /\ isDone THEN "ctx" ELSE firstErr
  /\ UNCHANGED <<left, job, jobErr, sem, wg, firstErr>>

Return(isDone) ==
  /\ main = "wait" /\ wg = 0
  /\ main' = "returned"
  /\ result' = IF firstErr = "nil" /\ isDone THEN "ctx" ELSE firstErr
  /\ UNCHANGED <<left, job, jobErr, sem, wg, firstErr>>

PoolStages == {"idle", "start", "run", "record", "release", "leave", "gone"}

\* No process of the pool runs and no job can touch a package any more.
Quiet == \A p \in Pkgs : job[p] \in {"idle", "gone"}

-----------------------------------------------------------------------------
(***************************************************************************)
(* The part of the inductive invariants of Build and Baseline that is the  *)
(* pool's: the semaphore counts the jobs that hold a token, the wait group *)
(* those that have not finished, and nobody is left when the call returns. *)
(***************************************************************************)
Holders == {p \in Pkgs : job[p] \notin {"idle", "leave", "gone"}}
Members == {p \in Pkgs : job[p] \notin {"idle", "gone"}}

PoolInv ==
  /\ sem = Cardinality(Holders) /\ sem <= Slots
  /\ wg = Cardinality(Members)
  /\ \A p \in left : job[p] = "idle"
  /\ main = "returned" => Members = {}
  /\ result # "none" <=> main = "returned"
=============================================================================
