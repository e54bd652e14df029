------------------------------- MODULE Runner -------------------------------
(***************************************************************************)
(* runner.RunInstrumented: the campaign over all mutants.  The calling     *)
(* goroutine (main) collects the packages' mutants into one slice, starts  *)
(* one worker goroutine per package while a semaphore admits it, waits for *)
(* them and reports the mutants nobody reported.  A worker runs the        *)
(* mutants of its package one after the other; each run is a child process *)
(* under a context of its own, canceled with the parent context or when    *)
(* its deadline passes.                                                    *)
(*                                                                         *)
(* A mutant is <<package, index>>.  What a child process prints is left    *)
(* out; what is kept of it is how it ended and what os/exec makes of that. *)
(***************************************************************************)
EXTENDS Naturals, Sequences, FiniteSets

CONSTANTS
  NumPkgs,      \* packages, in the order of their sorted keys
  Size,         \* Size[p]: number of mutants of package p
  NoTests,      \* the packages that have no test binary
  Workers,      \* cfg.Workers
  ExitedOnKill  \* a killed process reports an exit code (Windows)

Pkgs == 1..NumPkgs

ASSUME RunnerAssumption ==
  /\ NumPkgs \in Nat
  /\ Size \in [Pkgs -> Nat]
  /\ NoTests \subseteq Pkgs
  /\ Workers \in Nat
  /\ ExitedOnKill \in BOOLEAN

Slots == IF Workers > 1 THEN Workers ELSE 1
Mutants == UNION {{<<p, i>> : i \in 1..Size[p]} : p \in Pkgs}
Mutations(p) == [i \in 1..Size[p] |-> <<p, i>>]   \* pkg.Mutations

VARIABLES
  ctx,        \* the parent context is done (an interrupt)
  main,       \* where the calling goroutine is
  next,       \* the package its loop is at
  offset,     \* job.offset of each package
  allPoints, results, reported, done,
  mu,         \* holder of the mutex: a package's worker, or 0 for nobody
  sem, wg,    \* tokens in the semaphore, count of the wait group
  summary,
  worker,     \* where the worker of each package is
  cur,        \* the mutant it is at
  testCtx,    \* the context of its test run, "none" when it has none
  err,        \* what CombinedOutput returned to it, "nil" when it is done with
  verdict,    \* the Result it is about to store, "canceled" when it has none
  truth,      \* history: how the test run of each mutant ended
  events      \* history: the calls of the progress callback

mainVars == <<main, next, offset, allPoints, summary>>
tableVars == <<results, reported, done, mu, events>>
poolVars == <<sem, wg>>
workVars == <<worker, cur, testCtx, err, verdict, truth>>
vars == <<ctx, mainVars, tableVars, poolVars, workVars>>

Verdicts == {"killed", "survived", "timedout", "error", "canceled"}
Ends == {"pass", "fail", "external", "held"}   \* a process ending on its own
Endings == Ends \cup {"stopped", "refused", "broken", "skipped"}
Result == [point : Mutants, status : Verdicts]
Event == [slot : Nat, status : Verdicts, done : Nat]
Errs == {"nil", "exit", "signal", "other"}     \* other: not an ExitError

\* Workers that hold a token, and processes that are running.
Holders == {p \in Pkgs : worker[p] \notin {"idle", "leave", "gone"}}
Running == {p \in Pkgs : worker[p] = "run"}

Point(p) == <<p, cur[p]>>
\* Mutation: the loop index is used as the slot.
SlotWithoutOffset(p) == cur[p]

Slot(p) == offset[p] + cur[p]        \* idx, counted from 1
Goto(p, label) == worker' = [worker EXCEPT ![p] = label]

-----------------------------------------------------------------------------
Init ==
  /\ ctx \in BOOLEAN
  /\ main = "collect" /\ next = 1
  /\ offset = [p \in Pkgs |-> 0]
  /\ allPoints = <<>> /\ results = <<>> /\ reported = <<>>
  /\ done = 0 /\ mu = 0 /\ sem = 0 /\ wg = 0
  /\ summary = <<>>
  /\ worker = [p \in Pkgs |-> "idle"]
  /\ cur = [p \in Pkgs |-> 1]
  /\ testCtx = [p \in Pkgs |-> "none"]
  /\ err = [p \in Pkgs |-> "nil"]
  /\ verdict = [p \in Pkgs |-> "canceled"]
  /\ truth = [m \in Mutants |-> "none"]
  /\ events = <<>>

(***************************************************************************)
(* The environment: an interrupt, contexts that end, processes that end.   *)
(***************************************************************************)
Interrupt ==
  /\ ~ctx /\ main # "returned"
  /\ ctx' = TRUE
  /\ UNCHANGED <<mainVars, tableVars, poolVars, workVars>>

EndContext(p, cause) ==
  /\ testCtx[p] = "live"
  /\ testCtx' = [testCtx EXCEPT ![p] = cause]
  /\ UNCHANGED <<ctx, mainVars, tableVars, poolVars,
                 worker, cur, err, verdict, truth>>

\* Mutation: the test context is not derived from the parent.
PropagateNever(p) == FALSE /\ EndContext(p, "canceled")

\* The parent's error is set before its children are canceled.
Propagate(p) == ctx /\ EndContext(p, "canceled")
Expire(p) == EndContext(p, "deadline")

End(p, ending, error) ==
  /\ worker[p] = "run"
  /\ truth' = [truth EXCEPT ![Point(p)] = ending]
  /\ err' = [err EXCEPT ![p] = error]
  /\ Goto(p, "judge")
  /\ UNCHANGED <<ctx, mainVars, tableVars, poolVars, cur, testCtx, verdict>>

\* What os/exec reports of a process that ended on its own.
ErrOf(ending) == CASE ending = "pass" -> "nil"
                   [] ending = "fail" -> "exit"
                   [] ending = "external" ->
                        IF ExitedOnKill THEN "exit" ELSE "signal"
                   [] ending = "held" -> "other"

SelfEnd(p, ending) == End(p, ending, ErrOf(ending))

\* It passed, but the context ended first and Wait returns the context's error.
LateEnd(p) == testCtx[p] # "live" /\ End(p, "pass", "other")

\* os/exec calls cmd.Cancel when the context ends.
Stop(p) ==
  /\ testCtx[p] # "live"
  /\ End(p, "stopped", IF ExitedOnKill THEN "exit" ELSE "signal")

\* Mutation: -test.timeout is cfg.Timeout, which may pass before the deadline.
BackstopUnpadded(p) ==
  testCtx[p] \in {"live", "deadline"} /\ End(p, "stopped", "exit")

\* Cancel did not stop it and the binary panics at -test.timeout, which lies
\* testTimeoutBackstop behind the deadline: the padding is this order.
Backstop(p) == testCtx[p] = "deadline" /\ End(p, "stopped", "exit")

-----------------------------------------------------------------------------
(***************************************************************************)
(* testMutantRuntime, run by the worker of package p.                      *)
(***************************************************************************)
Enter(p) ==
  /\ worker[p] = "entry"
  /\ IF ctx \/ p \in NoTests
       THEN /\ verdict' = [verdict EXCEPT ![p] =
                             IF ctx THEN "canceled" ELSE "survived"]
            /\ truth' = IF ctx THEN truth
                        ELSE [truth EXCEPT ![Point(p)] = "skipped"]
            /\ Goto(p, "store")
            /\ UNCHANGED testCtx
       ELSE /\ testCtx' = [testCtx EXCEPT ![p] = "live"]
            /\ Goto(p, "start")
            /\ UNCHANGED <<verdict, truth>>
  /\ UNCHANGED <<ctx, mainVars, tableVars, poolVars, cur, err>>

Start(p) ==
  /\ worker[p] = "start" /\ testCtx[p] = "live"
  /\ Goto(p, "run")
  /\ UNCHANGED <<ctx, mainVars, tableVars, poolVars,
                 cur, testCtx, err, verdict, truth>>

\* The binary cannot be started, or its context is done already.
StartFails(p) ==
  /\ worker[p] = "start"
  /\ truth' = [truth EXCEPT ![Point(p)] =
                 IF testCtx[p] = "live" THEN "broken" ELSE "refused"]
  /\ err' = [err EXCEPT ![p] = "other"]
  /\ Goto(p, "judge")
  /\ UNCHANGED <<ctx, mainVars, tableVars, poolVars, cur, testCtx, verdict>>

Decide(p, v) ==
  /\ verdict' = [verdict EXCEPT ![p] = v]
  /\ testCtx' = [testCtx EXCEPT ![p] = "none"]      \* defer cancel()
  /\ err' = [err EXCEPT ![p] = "nil"]
  /\ Goto(p, "store")
  /\ UNCHANGED <<ctx, mainVars, tableVars, poolVars, cur, truth>>

\* Mutation: canceled is not looked at.
JudgeCanceledNever(p) ==
  /\ worker[p] = "judge"
  /\ Goto(p, "judgeDeadline")
  /\ UNCHANGED <<ctx, mainVars, tableVars, poolVars,
                 cur, testCtx, err, verdict, truth>>

\* canceled is read first, timedOut in a second step.
JudgeCanceled(p) ==
  /\ worker[p] = "judge"
  /\ IF ctx THEN Decide(p, "canceled")
     ELSE /\ Goto(p, "judgeDeadline")
          /\ UNCHANGED <<ctx, mainVars, tableVars, poolVars,
                         cur, testCtx, err, verdict, truth>>

ByError(error) == CASE error = "nil" -> "survived"
                    [] error = "exit" -> "killed"
                    [] OTHER -> "error"

\* Mutation: the error is classified before the deadline is looked at.
JudgeErrorOnly(p) ==
  worker[p] = "judgeDeadline" /\ Decide(p, ByError(err[p]))

JudgeDeadline(p) ==
  /\ worker[p] = "judgeDeadline"
  /\ Decide(p, IF testCtx[p] = "deadline" THEN "timedout" ELSE ByError(err[p]))

-----------------------------------------------------------------------------
(***************************************************************************)
(* The rest of the worker goroutine.                                       *)
(***************************************************************************)
\* Mutation: the last mutant of a package is left out.
NextMutantButLast(p) ==
  /\ worker[p] = "loop"
  /\ Goto(p, IF cur[p] < Size[p] /\ ~ctx THEN "entry" ELSE "release")
  /\ UNCHANGED <<ctx, mainVars, tableVars, poolVars,
                 cur, testCtx, err, verdict, truth>>

NextMutant(p) ==
  /\ worker[p] = "loop"
  /\ Goto(p, IF cur[p] <= Size[p] /\ ~ctx THEN "entry" ELSE "release")
  /\ UNCHANGED <<ctx, mainVars, tableVars, poolVars,
                 cur, testCtx, err, verdict, truth>>

Store(p) ==
  /\ worker[p] = "store"
  /\ results' = [results EXCEPT ![Slot(p)] =
                   [point |-> Point(p), status |-> verdict[p]]]
  /\ Goto(p, "report")
  /\ UNCHANGED <<ctx, mainVars, reported, done, mu, events, poolVars,
                 cur, testCtx, err, verdict, truth>>

\* Mutation: report does not take the mutex.
ReportUnlocked(p) ==
  /\ worker[p] = "report"
  /\ reported' = [reported EXCEPT ![Slot(p)] = TRUE]
  /\ done' = done + 1
  /\ Goto(p, "progress")
  /\ UNCHANGED <<ctx, mainVars, results, mu, events, poolVars,
                 cur, testCtx, err, verdict, truth>>

\* report takes the mutex and counts, then calls progress and unlocks.
Report(p) ==
  /\ worker[p] = "report" /\ mu = 0
  /\ mu' = p
  /\ reported' = [reported EXCEPT ![Slot(p)] = TRUE]
  /\ done' = done + 1
  /\ Goto(p, "progress")
  /\ UNCHANGED <<ctx, mainVars, results, events, poolVars,
                 cur, testCtx, err, verdict, truth>>

Progress(p) ==
  /\ worker[p] = "progress"
  /\ events' = Append(events, [slot |-> Slot(p), status |-> verdict[p],
                               done |-> done])
  /\ mu' = 0
  /\ cur' = [cur EXCEPT ![p] = @ + 1]
  /\ verdict' = [verdict EXCEPT ![p] = "canceled"]
  /\ Goto(p, "loop")
  /\ UNCHANGED <<ctx, mainVars, results, reported, done, poolVars,
                 testCtx, err, truth>>

\* Mutation: only an early return gives the token back.
ReleaseOnReturn(p) ==
  /\ worker[p] = "release"
  /\ sem' = IF cur[p] > Size[p] THEN sem ELSE sem - 1
  /\ Goto(p, "leave")
  /\ UNCHANGED <<ctx, mainVars, tableVars, wg,
                 cur, testCtx, err, verdict, truth>>

\* The deferred calls, last one first.
Release(p) ==
  /\ worker[p] = "release" /\ sem > 0
  /\ sem' = sem - 1
  /\ Goto(p, "leave")
  /\ UNCHANGED <<ctx, mainVars, tableVars, wg,
                 cur, testCtx, err, verdict, truth>>

Leave(p) ==
  /\ worker[p] = "leave"
  /\ wg' = wg - 1
  /\ Goto(p, "gone")
  /\ UNCHANGED <<ctx, mainVars, tableVars, sem,
                 cur, testCtx, err, verdict, truth>>

-----------------------------------------------------------------------------
(***************************************************************************)
(* RunInstrumented itself.                                                 *)
(***************************************************************************)
Collect ==
  /\ main = "collect" /\ next <= NumPkgs
  /\ offset' = [offset EXCEPT ![next] = Len(allPoints)]
  /\ allPoints' = allPoints \o Mutations(next)
  /\ next' = next + 1
  /\ UNCHANGED <<ctx, main, summary, tableVars, poolVars, workVars>>

\* Every mutant is a canceled one until its worker says otherwise.
Prefill ==
  /\ main = "collect" /\ next > NumPkgs
  /\ results' = [s \in 1..Len(allPoints) |->
                   [point |-> allPoints[s], status |-> "canceled"]]
  /\ reported' = [s \in 1..Len(allPoints) |-> FALSE]
  /\ main' = "launch" /\ next' = 1
  /\ UNCHANGED <<ctx, offset, allPoints, summary, done, mu, events,
                 poolVars, workVars>>

\* Mutation: one token too many.
LaunchOneMore ==
  /\ main = "launch" /\ next <= NumPkgs
  /\ sem <= Slots
  /\ sem' = sem + 1 /\ wg' = wg + 1
  /\ Goto(next, "loop")
  /\ next' = next + 1
  /\ UNCHANGED <<ctx, main, offset, allPoints, summary, tableVars,
                 cur, testCtx, err, verdict, truth>>

\* Mutation: wg.Add is not called before the goroutine starts.
LaunchWithoutAdd ==
  /\ main = "launch" /\ next <= NumPkgs
  /\ sem < Slots
  /\ sem' = sem + 1
  /\ Goto(next, "loop")
  /\ next' = next + 1
  /\ UNCHANGED <<ctx, main, offset, allPoints, summary, tableVars, wg,
                 cur, testCtx, err, verdict, truth>>

Launch ==
  /\ main = "launch" /\ next <= NumPkgs
  /\ sem < Slots
  /\ sem' = sem + 1 /\ wg' = wg + 1
  /\ Goto(next, "loop")
  /\ next' = next + 1
  /\ UNCHANGED <<ctx, main, offset, allPoints, summary, tableVars,
                 cur, testCtx, err, verdict, truth>>

\* The loop is over, or the select takes ctx.Done().
StopLaunching ==
  /\ main = "launch"
  /\ next > NumPkgs \/ ctx
  /\ main' = "wait"
  /\ UNCHANGED <<ctx, next, offset, allPoints, summary, tableVars, poolVars,
                 workVars>>

\* Mutation: an interrupt ends the wait for the workers.
WaitOrInterrupt ==
  /\ main = "wait" /\ (wg = 0 \/ ctx)
  /\ main' = "sweep" /\ next' = 1
  /\ UNCHANGED <<ctx, offset, allPoints, summary, tableVars, poolVars,
                 workVars>>

Wait ==
  /\ main = "wait" /\ wg = 0
  /\ main' = "sweep" /\ next' = 1
  /\ UNCHANGED <<ctx, offset, allPoints, summary, tableVars, poolVars,
                 workVars>>

\* Report one slot that no worker reported, or pass over one it did.
Sweep ==
  /\ main = "sweep" /\ next <= Len(results)
  /\ IF reported[next]
       THEN UNCHANGED <<reported, done, events>>
       ELSE /\ mu = 0
            /\ reported' = [reported EXCEPT ![next] = TRUE]
            /\ done' = done + 1
            /\ events' = Append(events, [slot |-> next, done |-> done + 1,
                                         status |-> results[next].status])
  /\ next' = next + 1
  /\ UNCHANGED <<ctx, main, offset, allPoints, summary, results, mu,
                 poolVars, workVars>>

Count(v) == Cardinality({s \in 1..Len(results) : results[s].status = v})

Return ==
  /\ main = "sweep" /\ next > Len(results)
  /\ summary' = [v \in Verdicts |-> Count(v)]
  /\ main' = "returned"
  /\ UNCHANGED <<ctx, next, offset, allPoints, tableVars, poolVars, workVars>>

\* The caller has its summary; nothing is left to do.
Returned == main = "returned" /\ UNCHANGED vars

-----------------------------------------------------------------------------
Goroutine(p) ==
  \/ NextMutant(p) \/ Enter(p) \/ Start(p) \/ StartFails(p)
  \/ JudgeCanceled(p) \/ JudgeDeadline(p) \/ Store(p) \/ Report(p)
  \/ Progress(p) \/ Release(p) \/ Leave(p)

Caller ==
  Collect \/ Prefill \/ Launch \/ StopLaunching \/ Wait \/ Sweep \/ Return

Process(p) == (\E ending \in Ends : SelfEnd(p, ending)) \/ LateEnd(p) 
              \/ Stop(p) \/ Backstop(p)

Next ==
  \/ Interrupt \/ Caller \/ Returned
  \/ \E p \in Pkgs : Propagate(p) \/ Expire(p) \/ Process(p) \/ Goroutine(p)

Spec == Init /\ [][Next]_vars

(***************************************************************************)
(* Runnable goroutines run, a canceled context cancels its children, and   *)
(* os/exec kills a process whose context has ended.  Nothing makes a test  *)
(* end on its own.                                                         *)
(***************************************************************************)
Scheduling ==
  /\ WF_vars(Caller)
  /\ \A p \in Pkgs : /\ WF_vars(Goroutine(p))
                     /\ WF_vars(Propagate(p))
                     /\ WF_vars(Stop(p))

FairSpec == Spec /\ Scheduling

Timers == \A p \in Pkgs : WF_vars(Expire(p))

-----------------------------------------------------------------------------
(***************************************************************************)
(* What a caller is promised (module Campaign): a mutant is announced when *)
(* its slot has been reported, with the status stored there.               *)
(***************************************************************************)
SlotOf(m) == offset[m[1]] + m[2]

Outcome(m) == IF main # "collect" /\ reported[SlotOf(m)]
              THEN results[SlotOf(m)].status ELSE "pending"

Promise == INSTANCE Campaign WITH
             evidence <- truth,
             outcome <- [m \in Mutants |-> Outcome(m)],
             interrupted <- ctx,
             returned <- (main = "returned")

\* Every step of the runner is a step of the campaign or leaves it alone:
\* each mutant is announced once, with a verdict its test run justifies, and
\* RunInstrumented returns after the last announcement.
KeepsPromise == Promise!Spec

-----------------------------------------------------------------------------
(***************************************************************************)
(* Invariants.                                                             *)
(***************************************************************************)
Stages == {"idle", "loop", "entry", "start", "run", "judge", "judgeDeadline",
           "store", "report", "progress", "release", "leave", "gone"}

\* The values the variables can take.
TypeOK ==
  /\ ctx \in BOOLEAN
  /\ main \in {"collect", "launch", "wait", "sweep", "returned"}
  /\ next \in Nat \ {0}
  /\ offset \in [Pkgs -> Nat]
  /\ allPoints \in Seq(Mutants)
  /\ results \in Seq(Result)
  /\ reported \in Seq(BOOLEAN)
  /\ done \in Nat /\ mu \in {0} \cup Pkgs
  /\ sem \in Nat /\ wg \in Nat
  /\ summary \in {<<>>} \cup [Verdicts -> Nat]
  /\ worker \in [Pkgs -> Stages]
  /\ cur \in [Pkgs -> Nat \ {0}]
  /\ testCtx \in [Pkgs -> {"none", "live", "deadline", "canceled"}]
  /\ err \in [Pkgs -> Errs]
  /\ verdict \in [Pkgs -> Verdicts]
  /\ truth \in [Mutants -> {"none"} \cup Endings]
  /\ events \in Seq(Event)

\* The verdict stored for a mutant agrees with how its test run ended: only a
\* failing test kills, only a passing or a missing one survives, and a process
\* that mutest itself stopped is never a result (the order of the reads at the
\* end of testMutantRuntime).
VerdictsSound ==
  \A s \in DOMAIN results :
    Promise!Justifies(truth[results[s].point], results[s].status)

\* Each slot belongs to one mutant for the whole run: concurrent workers write
\* results through job.offset and never into another package's slots.
SlotOwnership ==
  \A s \in DOMAIN results : results[s].point = allPoints[s]

\* At most max(1, cfg.Workers) test processes run, although tokens are given
\* back by deferred calls and an interrupt may end the launch loop at any time.
ConcurrencyBound == Cardinality(Running) <= Slots

\* When the caller reads results and reported without the mutex, no worker can
\* still write them, every token is back and the mutex is free.
QuietSweep ==
  main \in {"sweep", "returned"} =>
    /\ \A p \in Pkgs : worker[p] \in {"idle", "gone"}
    /\ sem = 0 /\ mu = 0

\* The progress callback sees 1, 2, 3, ... even when workers finish together,
\* and when RunInstrumented returns each slot has been announced exactly once,
\* with the status the summary counts for it.
StreamFaithful ==
  /\ \A k \in DOMAIN events : events[k].done = k
  /\ main = "returned" =>
       /\ \A s \in DOMAIN results :
            /\ Cardinality({k \in DOMAIN events : events[k].slot = s}) = 1
            /\ \E k \in DOMAIN events : /\ events[k].slot = s
                                        /\ events[k].status = results[s].status
       /\ \A v \in Verdicts :
            summary[v] = Cardinality({k \in DOMAIN events :
                                        events[k].status = v})

\* Without an interrupt nothing is skipped: every mutant's test run came to an
\* end and none is reported as canceled.
UninterruptedIsComplete ==
  main = "returned" /\ ~ctx =>
    /\ \A m \in Mutants : truth[m] # "none"
    /\ \A s \in DOMAIN results : results[s].status # "canceled"

-----------------------------------------------------------------------------
\* RunInstrumented returns even when tests hang: the deadline of each run is
\* all it takes.
Termination == Timers => <>(main = "returned")

\* After an interrupt it returns although tests hang and no deadline is near.
InterruptEnds == ctx ~> main = "returned"
=============================================================================
