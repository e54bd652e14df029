----------------------------- MODULE RunnerInv -----------------------------
(***************************************************************************)
(* The inductive invariant of Runner: what holds between the steps and     *)
(* makes its properties true.  The proofs of RunnerProofs use it part by   *)
(* part; TLC checks it on the small instances.                             *)
(***************************************************************************)
EXTENDS Runner

\* Stages in which a worker works on the mutant cur[p], has a context for it,
\* has stored what it found.
Fresh == {"idle", "loop", "entry", "start", "run"}
UnderTest == {"start", "run", "judge", "judgeDeadline"}
Decided == {"store", "report", "progress"}
Busy == {"entry"} \cup UnderTest \cup Decided
Over == {"release", "leave", "gone"}

\* A worker that works on a mutant has one.
AtMutant == \A p \in Pkgs : worker[p] \in Busy => cur[p] <= Size[p]

\* The launch loop has started the packages before next and no others.
Launched ==
  /\ main = "collect" => \A p \in Pkgs : worker[p] = "idle"
  /\ main = "launch" => \A p \in Pkgs : worker[p] = "idle" <=> next <= p

\* The channel counts the workers that hold a token, and never more than fit;
\* the wait group counts those that have not finished.
Members == {p \in Pkgs : worker[p] \notin {"idle", "gone"}}
Counted == /\ sem = Cardinality(Holders)
           /\ sem <= Slots
           /\ wg = Cardinality(Members)

\* The bookkeeping on its own.
LedgerInv == TypeOK /\ AtMutant /\ Launched /\ Counted

MutexHeld == \A p \in Pkgs : worker[p] = "progress" <=> mu = p

\* A test context exists from its creation to the deferred cancel, and only an
\* interrupt cancels it.
Contexts ==
  \A p \in Pkgs : /\ testCtx[p] = "none" <=> worker[p] \notin UnderTest
                  /\ testCtx[p] = "canceled" => ctx

\* No ending is known of a mutant that has not been run.
Untested ==
  \A p \in Pkgs : \A i \in 1..Size[p] :
    i > cur[p] \/ (i = cur[p] /\ worker[p] \in Fresh) => truth[<<p, i>>] = "none"

\* While the context was alive the error alone tells how the process ended;
\* otherwise one of the two reads that follow will notice.
Judgeable ==
  \A p \in Pkgs : worker[p] \in {"judge", "judgeDeadline"} =>
    /\ truth[Point(p)] \notin {"none", "skipped"}
    /\ \/ testCtx[p] = "live"
       \/ testCtx[p] = "canceled" /\ worker[p] = "judgeDeadline"
       => Promise!Justifies(truth[Point(p)], ByError(err[p]))

\* The verdict a worker carries is justified, and canceled only by an interrupt.
VerdictKept ==
  \A p \in Pkgs : worker[p] \in Decided =>
    /\ Promise!Justifies(truth[Point(p)], verdict[p])
    /\ verdict[p] = "canceled" => ctx

\* Core of the invariant: enough for the soundness of the verdicts.
VerdictInv ==
  /\ LedgerInv
  /\ Contexts
  /\ Untested
  /\ Judgeable
  /\ VerdictKept
  /\ VerdictsSound

-----------------------------------------------------------------------------
(***************************************************************************)
(* The slots.                                                              *)
(***************************************************************************)
Placed == IF main = "collect" THEN {p \in Pkgs : p < next} ELSE Pkgs

\* Each slot is that of one mutant, behind the offset of its package.
Layout ==
  /\ \A p \in Placed : /\ offset[p] + Size[p] <= Len(allPoints)
                       /\ \A i \in 1..Size[p] : allPoints[offset[p] + i] = <<p, i>>
  /\ \A s \in 1..Len(allPoints) : allPoints[s][1] \in Placed /\ SlotOf(allPoints[s]) = s

\* The table has one row for each slot as soon as a worker can use it.
Tabled ==
  /\ Len(results) = IF main = "collect" THEN 0 ELSE Len(allPoints)
  /\ Len(reported) = Len(results)

\* A package that was not launched is at its first mutant.
Unstarted == \A p \in Pkgs : worker[p] = "idle" => cur[p] = 1

Announced(p, i) == i < cur[p] \/ (i = cur[p] /\ worker[p] = "progress")

\* A slot is reported when its worker has reported it, in the end by the sweep;
\* until it is reported it says canceled, unless its worker is about to report.
Accounted ==
  main # "collect" =>
    \A p \in Pkgs : \A i \in 1..Size[p] :
      LET s == offset[p] + i IN
      /\ Announced(p, i) => reported[s]
      /\ main \in {"launch", "wait"} /\ reported[s] => Announced(p, i)
      /\ ~reported[s] /\ results[s].status # "canceled" =>
           i = cur[p] /\ worker[p] = "report"

\* The Result a worker reports is the one it stored.
Stored ==
  \A p \in Pkgs : worker[p] = "report" => results[Slot(p)].status = verdict[p]

\* Only an interrupt cancels a mutant that is reported.
Excused ==
  \A s \in 1..Len(reported) :
    reported[s] /\ results[s].status = "canceled" => ctx

\* Only an interrupt leaves mutants to the sweep.
Outstanding ==
  \A p \in Pkgs :
    /\ worker[p] \in Over => ctx \/ cur[p] > Size[p]
    /\ main \in {"wait", "sweep", "returned"} /\ worker[p] = "idle" => ctx

\* The sweep leaves no slot before next unreported.
Swept ==
  \A s \in 1..Len(reported) :
    main = "returned" \/ (main = "sweep" /\ s < next) => reported[s]

SlotInv ==
  /\ MutexHeld
  /\ Layout
  /\ Tabled
  /\ Unstarted
  /\ Accounted
  /\ Stored
  /\ Excused
  /\ Outstanding
  /\ Swept
  /\ QuietSweep
  /\ SlotOwnership

-----------------------------------------------------------------------------
(***************************************************************************)
(* The calls of the progress callback.                                     *)
(***************************************************************************)
\* Between report's count and its call of the callback the worker has the mutex.
Numbered ==
  /\ \A k \in 1..Len(events) : events[k].done = k
  /\ done = Len(events) + IF mu = 0 THEN 0 ELSE 1

\* An event is about a slot that is reported, with the status stored there; no
\* other event is.  A reported slot has its event, unless its worker is about to
\* call the callback.
Pending(s) == mu # 0 /\ s = Slot(mu)
Matched ==
  /\ \A k \in 1..Len(events) :
       LET s == events[k].slot IN
       /\ s \in 1..Len(reported) /\ reported[s] /\ ~Pending(s)
       /\ events[k].status = results[s].status
  /\ \A j, k \in 1..Len(events) : events[j].slot = events[k].slot => j = k
  /\ \A s \in 1..Len(reported) :
       reported[s] => Pending(s) \/ \E k \in 1..Len(events) : events[k].slot = s

Summed == main = "returned" => summary = [v \in Verdicts |-> Count(v)]

\* What a worker is about to announce is what it has stored.
Carried ==
  \A p \in Pkgs : worker[p] = "progress" => results[Slot(p)].status = verdict[p]

EventInv == Numbered /\ Matched /\ Summed /\ Carried

\* The parts hold together in every reachable state.
RunnerInductive == VerdictInv /\ SlotInv /\ EventInv
=============================================================================
