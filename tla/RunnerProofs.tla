---------------------------- MODULE RunnerProofs ----------------------------
(***************************************************************************)
(* What TLAPS proves about Runner, for any number of packages, any sizes   *)
(* and any number of workers: first its tokens and verdicts, then its slots*)
(* and its progress callback, then the promise of Campaign.                *)
(***************************************************************************)
EXTENDS RunnerInv, FiniteSetTheorems, TLAPS

-----------------------------------------------------------------------------
(***************************************************************************)
(* Lemmas about the operators of Runner.                                   *)
(***************************************************************************)
\* Slots is the positive capacity of the semaphore.
LEMMA SlotsType == Slots \in Nat \ {0}
BY RunnerAssumption DEF Slots

\* The mutants a package contributes are mutants of the run.
LEMMA MutationsType ==
  ASSUME NEW p \in Pkgs
  PROVE  Mutations(p) \in Seq(Mutants)
<1>1. Size[p] \in Nat
  BY RunnerAssumption
<1>2. \A i \in 1..Size[p] : <<p, i>> \in Mutants
  BY DEF Mutants
<1> QED
  BY <1>1, <1>2 DEF Mutations

\* A worker that is at a mutant of its package is at a mutant of the run.
LEMMA PointType ==
  ASSUME NEW p \in Pkgs, cur[p] \in 1..Size[p]
  PROVE  Point(p) \in Mutants
BY DEF Point, Mutants

\* Assigning one position keeps a sequence a sequence of the same length,
\* whether or not the position exists.
LEMMA SeqUpdate ==
  ASSUME NEW S, NEW seq \in Seq(S), NEW i, NEW e \in S
  PROVE  /\ [seq EXCEPT ![i] = e] \in Seq(S)
         /\ Len([seq EXCEPT ![i] = e]) = Len(seq)
<1>1. CASE i \in 1..Len(seq)
  BY <1>1
<1>2. CASE i \notin 1..Len(seq)
  <2>1. [seq EXCEPT ![i] = e] = seq
    BY <1>2
  <2> QED
    BY <2>1
<1> QED
  BY <1>1, <1>2

\* How the size of a set of packages changes with one package.
LEMMA CountStep ==
  ASSUME NEW A \in SUBSET Pkgs, NEW p \in Pkgs
  PROVE  /\ Cardinality(A) \in Nat
         /\ p \in A => /\ Cardinality(A) > 0
                       /\ Cardinality(A \ {p}) = Cardinality(A) - 1
         /\ p \notin A => Cardinality(A \cup {p}) = Cardinality(A) + 1
<1>1. IsFiniteSet(Pkgs)
  BY RunnerAssumption, FS_Interval DEF Pkgs
<1>2. IsFiniteSet(A)
  BY <1>1, FS_Subset
<1>3. Cardinality(A) \in Nat /\ (Cardinality(A) = 0 <=> A = {})
  BY <1>2, FS_CardinalityType, FS_EmptySet
<1>4. p \in A => Cardinality(A) > 0
  BY <1>3
<1>5. p \in A => Cardinality(A \ {p}) = Cardinality(A) - 1
  BY <1>2, FS_RemoveElement
<1>6. p \notin A => Cardinality(A \cup {p}) = Cardinality(A) + 1
  BY <1>2, FS_AddElement
<1> QED
  BY <1>3, <1>4, <1>5, <1>6

\* A worker moves between two stages in which it holds its token.
LEMMA CountedMove ==
  ASSUME LedgerInv, NEW p \in Pkgs, NEW label \in Stages, Goto(p, label),
         {worker[p], label} \cap {"idle", "leave", "gone"} = {},
         UNCHANGED <<sem, wg, main, next>>
  PROVE  Counted' /\ Launched'
<1> USE DEF LedgerInv
<1>1. worker \in [Pkgs -> Stages] /\ worker' = [worker EXCEPT ![p] = label]
  BY DEF TypeOK, Goto
<1>2. Counted'
  <2>1. Holders' = Holders
    BY <1>1 DEF Holders
  <2>2. Members' = Members
    BY <1>1 DEF Members
  <2> QED
    BY <2>1, <2>2 DEF Counted
<1>3. Launched'
  BY <1>1 DEF Launched
<1> QED
  BY <1>2, <1>3

\* Init establishes the bookkeeping.
LEMMA LedgerInit == Init => LedgerInv
<1> SUFFICES ASSUME Init PROVE LedgerInv
  OBVIOUS
<1>1. TypeOK
  BY RunnerAssumption DEF Init, TypeOK, Stages, Verdicts, Errs, Pkgs
<1>2. Holders = {} /\ Members = {}
  BY DEF Init, Holders, Members
<1>3. Counted
  BY <1>2, FS_EmptySet, SlotsType DEF Init, Counted
<1> QED
  BY <1>1, <1>3 DEF Init, LedgerInv, AtMutant, Launched, Busy, UnderTest, Decided

\* Steps in which a worker moves on, with its token.
LEMMA LedgerWork ==
  ASSUME LedgerInv, NEW p \in Pkgs, Process(p) \/ Goroutine(p),
         ~ Release(p), ~ Leave(p)
  PROVE  LedgerInv'
<1> USE DEF LedgerInv
<1>0. TypeOK /\ AtMutant
  OBVIOUS
<1>1. ASSUME NEW ending \in Endings, NEW error \in Errs, End(p, ending, error)
      PROVE  LedgerInv'
  <2>1. Counted' /\ Launched'
    BY <1>1, CountedMove DEF End, mainVars, poolVars, Stages
  <2>2. TypeOK'
    BY <1>0, <1>1 DEF End, Goto, TypeOK, Stages, mainVars, tableVars, poolVars
  <2>3. AtMutant'
    BY <1>0, <1>1 DEF End, Goto, TypeOK, AtMutant, Busy, UnderTest, Decided
  <2> QED
    BY <2>1, <2>2, <2>3
<1>2. CASE Process(p)
  <2>1. \A ending \in Ends : ending \in Endings /\ ErrOf(ending) \in Errs
    BY DEF Ends, Endings, ErrOf, Errs
  <2>2. {"pass", "stopped"} \subseteq Endings /\ {"other", "exit", "signal"} \subseteq Errs
    BY DEF Endings, Ends, Errs
  <2> QED
    BY <1>1, <1>2, <2>1, <2>2 DEF Process, SelfEnd, LateEnd, Stop, Backstop
<1>3. ASSUME NEW v \in Verdicts, Decide(p, v), 
             worker[p] \in {"judge", "judgeDeadline"}
      PROVE  LedgerInv'
  <2>1. Counted' /\ Launched'
    BY <1>3, CountedMove DEF Decide, mainVars, poolVars, Stages
  <2>2. TypeOK'
    BY <1>0, <1>3 DEF Decide, Goto, TypeOK, Stages, Errs, mainVars, tableVars, poolVars
  <2>3. AtMutant'
    BY <1>0, <1>3 DEF Decide, Goto, TypeOK, AtMutant, Busy, UnderTest, Decided
  <2> QED
    BY <2>1, <2>2, <2>3
<1>4. CASE JudgeCanceled(p)
  <2>1. CASE ctx
    BY <1>3, <1>4, <2>1 DEF JudgeCanceled, Verdicts
  <2>2. CASE ~ctx
    <3>1. Counted' /\ Launched'
      BY <1>4, <2>2, CountedMove DEF JudgeCanceled, mainVars, poolVars, Stages
    <3>2. TypeOK' /\ AtMutant'
      BY <1>0, <1>4, <2>2 DEF JudgeCanceled, Goto, TypeOK, Stages, AtMutant, Busy,
         UnderTest, Decided, mainVars, tableVars, poolVars
    <3> QED
      BY <3>1, <3>2
  <2> QED
    BY <2>1, <2>2
<1>5. CASE JudgeDeadline(p)
  <2>1. (IF testCtx[p] = "deadline" THEN "timedout" ELSE ByError(err[p])) \in Verdicts
    BY DEF Verdicts, ByError
  <2> QED
    BY <1>3, <1>5, <2>1 DEF JudgeDeadline
<1>6. CASE Enter(p)
  <2>1. Counted' /\ Launched'
    BY <1>6, CountedMove DEF Enter, mainVars, poolVars, Stages
  <2>2. TypeOK'
    BY <1>0, <1>6 DEF Enter, Goto, TypeOK, Stages, Verdicts, Endings, Ends,
       mainVars, tableVars, poolVars
  <2>3. AtMutant'
    BY <1>0, <1>6 DEF Enter, Goto, TypeOK, AtMutant, Busy, UnderTest, Decided
  <2> QED
    BY <2>1, <2>2, <2>3
<1>7. CASE Start(p) \/ StartFails(p)
  <2>1. Counted' /\ Launched'
    BY <1>7, CountedMove DEF Start, StartFails, mainVars, poolVars, Stages
  <2>2. TypeOK'
    BY <1>0, <1>7 DEF Start, StartFails, Goto, TypeOK, Stages, Errs, Endings, Ends,
       mainVars, tableVars, poolVars
  <2>3. AtMutant'
    BY <1>0, <1>7 DEF Start, StartFails, Goto, TypeOK, AtMutant, Busy, UnderTest,
       Decided
  <2> QED
    BY <2>1, <2>2, <2>3
<1>8. CASE NextMutant(p)
  <2>1. Counted' /\ Launched'
    BY <1>8, CountedMove DEF NextMutant, mainVars, poolVars, Stages
  <2>2. TypeOK'
    BY <1>0, <1>8 DEF NextMutant, Goto, TypeOK, Stages, mainVars, tableVars, poolVars
  <2>3. AtMutant'
    BY <1>0, <1>8 DEF NextMutant, Goto, TypeOK, AtMutant, Busy, UnderTest, Decided
  <2> QED
    BY <2>1, <2>2, <2>3
<1>9. CASE Store(p)
  <2>1. Counted' /\ Launched'
    BY <1>9, CountedMove DEF Store, mainVars, poolVars, Stages
  <2>2. cur[p] \in 1..Size[p]
    BY <1>0, <1>9, RunnerAssumption DEF Store, TypeOK, AtMutant, Busy, Decided
  <2>3. [point |-> Point(p), status |-> verdict[p]]
           \in Result
    BY <1>0, <2>2, PointType DEF TypeOK, Result
  <2>4. results' \in Seq(Result)
    BY <1>0, <1>9, <2>3, SeqUpdate DEF Store, TypeOK
  <2>5. TypeOK'
    BY <1>0, <1>9, <2>4 DEF Store, Goto, TypeOK, Stages, mainVars, poolVars
  <2>6. AtMutant'
    BY <1>0, <1>9 DEF Store, Goto, TypeOK, AtMutant, Busy, UnderTest, Decided
  <2> QED
    BY <2>1, <2>5, <2>6
<1>10. CASE Report(p)
  <2>1. Counted' /\ Launched'
    BY <1>10, CountedMove DEF Report, mainVars, poolVars, Stages
  <2>2. reported' \in Seq(BOOLEAN)
    BY <1>0, <1>10, SeqUpdate DEF Report, TypeOK
  <2>3. TypeOK'
    BY <1>0, <1>10, <2>2 DEF Report, Goto, TypeOK, Stages, mainVars, poolVars
  <2>4. AtMutant'
    BY <1>0, <1>10 DEF Report, Goto, TypeOK, AtMutant, Busy, UnderTest, Decided
  <2> QED
    BY <2>1, <2>3, <2>4
<1>11. CASE Progress(p)
  <2>1. Counted' /\ Launched'
    BY <1>11, CountedMove DEF Progress, mainVars, poolVars, Stages
  <2>2. Slot(p) \in Nat
    BY <1>0 DEF Slot, TypeOK
  <2>3. events' \in Seq(Event)
    <3>1. [slot |-> Slot(p), status |-> verdict[p], done |-> done] \in Event
      BY <1>0, <2>2 DEF TypeOK, Event
    <3> QED
      BY <1>0, <1>11, <3>1 DEF Progress, TypeOK
  <2>4. TypeOK'
    BY <1>0, <1>11, <2>3 DEF Progress, Goto, TypeOK, Stages, Verdicts, mainVars, poolVars
  <2>5. AtMutant'
    BY <1>0, <1>11 DEF Progress, Goto, TypeOK, AtMutant, Busy, UnderTest, Decided
  <2> QED
    BY <2>1, <2>4, <2>5
<1> QED
  BY <1>2, <1>4, <1>5, <1>6, <1>7, <1>8, <1>9, <1>10, <1>11 DEF Goroutine

\* The steps of the environment and of a finishing worker.
LEMMA LedgerRest ==
  ASSUME LedgerInv,
         \/ Interrupt
         \/ \E p \in Pkgs : Propagate(p) \/ Expire(p) \/ Release(p) \/ Leave(p)
         \/ UNCHANGED vars
  PROVE  LedgerInv'
<1> USE DEF LedgerInv
<1>0. TypeOK /\ AtMutant /\ Launched /\ Counted
  OBVIOUS
<1>1. ASSUME UNCHANGED <<worker, cur, sem, wg, main, next>>
      PROVE  AtMutant' /\ Launched' /\ Counted'
  BY <1>0, <1>1 DEF AtMutant, Launched, Counted, Holders, Members
<1>2. CASE Interrupt
  BY <1>0, <1>1, <1>2 DEF Interrupt, TypeOK, mainVars, tableVars, poolVars, workVars
<1>3. ASSUME NEW p \in Pkgs, Propagate(p) \/ Expire(p) PROVE LedgerInv'
  BY <1>0, <1>1, <1>3 DEF Propagate, Expire, EndContext, TypeOK, mainVars, tableVars,
     poolVars
<1>4. ASSUME NEW p \in Pkgs, Release(p) PROVE LedgerInv'
  <2>1. worker \in [Pkgs -> Stages] /\ worker' = [worker EXCEPT ![p] = "leave"]
    BY <1>0, <1>4 DEF Release, Goto, TypeOK
  <2>2. TypeOK'
    BY <1>0, <1>4 DEF Release, Goto, TypeOK, Stages, mainVars, tableVars
  <2>3. AtMutant' /\ Launched'
    BY <1>0, <1>4, <2>1 DEF Release, AtMutant, Launched, Busy, UnderTest, Decided, mainVars
  <2>4. p \in Holders /\ Holders' = Holders \ {p} /\ Members' = Members
    BY <1>4, <2>1 DEF Release, Holders, Members
  <2>5. Cardinality(Holders') = Cardinality(Holders) - 1
    BY <2>4, CountStep DEF Holders
  <2>6. Counted'
    BY <1>0, <1>4, <2>4, <2>5, SlotsType DEF Counted, Release, TypeOK
  <2> QED
    BY <2>2, <2>3, <2>6
<1>5. ASSUME NEW p \in Pkgs, Leave(p) PROVE LedgerInv'
  <2>1. worker \in [Pkgs -> Stages] /\ worker' = [worker EXCEPT ![p] = "gone"]
    BY <1>0, <1>5 DEF Leave, Goto, TypeOK
  <2>2. p \in Members /\ Members' = Members \ {p} /\ Holders' = Holders
    BY <1>5, <2>1 DEF Leave, Holders, Members
  <2>3. Cardinality(Members) \in Nat \ {0}
        /\ Cardinality(Members') = Cardinality(Members) - 1
    <3>1. Members \in SUBSET Pkgs
      BY DEF Members
    <3>2. Cardinality(Members) \in Nat /\ Cardinality(Members) > 0
          /\ Cardinality(Members \ {p}) = Cardinality(Members) - 1
      BY <2>2, <3>1, CountStep
    <3> QED
      BY <2>2, <3>2
  <2>4. wg' \in Nat /\ Counted'
    BY <1>0, <1>5, <2>2, <2>3 DEF Counted, Leave, TypeOK
  <2>5. TypeOK'
    BY <1>0, <1>5, <2>4 DEF Leave, Goto, TypeOK, Stages, mainVars, tableVars
  <2>6. AtMutant' /\ Launched'
    BY <1>0, <1>5, <2>1 DEF Leave, AtMutant, Launched, Busy, UnderTest, Decided, mainVars
  <2> QED
    BY <2>4, <2>5, <2>6
<1>6. CASE UNCHANGED vars
  BY <1>0, <1>1, <1>6 DEF vars, TypeOK, mainVars, tableVars, poolVars, workVars
<1> QED
  BY <1>2, <1>3, <1>4, <1>5, <1>6

\* The steps of the calling goroutine.
LEMMA LedgerCaller ==
  ASSUME LedgerInv, Caller
  PROVE  LedgerInv'
<1> USE DEF LedgerInv
<1>0. TypeOK /\ AtMutant /\ Launched /\ Counted
  OBVIOUS
<1>1. ASSUME UNCHANGED <<worker, cur, sem, wg>>
      PROVE  AtMutant' /\ Counted'
  BY <1>0, <1>1 DEF AtMutant, Counted, Holders, Members
<1>2. CASE Collect
  <2>1. next \in Pkgs
    BY <1>0, <1>2, RunnerAssumption DEF Collect, TypeOK, Pkgs
  <2>2. allPoints' \in Seq(Mutants) /\ Len(allPoints) \in Nat /\ next' \in Nat \ {0}
    BY <1>0, <1>2, <2>1, MutationsType DEF Collect, TypeOK
  <2>3. TypeOK'
    BY <1>0, <1>2, <2>2 DEF Collect, TypeOK, tableVars, poolVars, workVars
  <2>4. Launched'
    BY <1>0, <1>2 DEF Collect, Launched, workVars
  <2> QED
    BY <1>1, <1>2, <2>3, <2>4 DEF Collect, poolVars, workVars
<1>3. CASE Prefill
  <2>1. \A s \in 1..Len(allPoints) : allPoints[s] \in Mutants
    BY <1>0 DEF TypeOK
  <2>2. results' \in Seq(Result)
        /\ reported' \in Seq(BOOLEAN)
    BY <1>0, <1>3, <2>1 DEF Prefill, TypeOK, Verdicts, Result
  <2>3. TypeOK'
    BY <1>0, <1>3, <2>2 DEF Prefill, TypeOK, poolVars, workVars
  <2>4. Launched'
    BY <1>0, <1>3, RunnerAssumption DEF Prefill, Launched, workVars, Pkgs
  <2> QED
    BY <1>1, <1>3, <2>3, <2>4 DEF Prefill, poolVars, workVars
<1>4. CASE Launch
  <2>1. next \in Pkgs /\ worker[next] = "idle"
    BY <1>0, <1>4, RunnerAssumption DEF Launch, TypeOK, Pkgs, Launched
  <2>2. worker \in [Pkgs -> Stages] /\ worker' = [worker EXCEPT ![next] = "loop"]
    BY <1>0, <1>4 DEF Launch, TypeOK, Goto
  <2>3. /\ next \notin Holders /\ Holders' = Holders \cup {next}
        /\ next \notin Members /\ Members' = Members \cup {next}
    BY <2>1, <2>2 DEF Holders, Members
  <2>4. Cardinality(Holders') = Cardinality(Holders) + 1
    BY <2>1, <2>3, CountStep DEF Holders
  <2>5. Cardinality(Members') = Cardinality(Members) + 1
    BY <2>1, <2>3, CountStep DEF Members
  <2>6. Counted'
    BY <1>0, <1>4, <2>4, <2>5, SlotsType DEF Counted, Launch, TypeOK
  <2>7. TypeOK'
    <3>1. worker' \in [Pkgs -> Stages]
      BY <2>1, <2>2 DEF Stages
    <3>2. sem' \in Nat /\ wg' \in Nat /\ next' \in Nat \ {0}
      BY <1>0, <1>4 DEF Launch, TypeOK
    <3> QED
      BY <1>0, <1>4, <3>1, <3>2 DEF Launch, TypeOK, tableVars
  <2>8. Launched'
    BY <1>0, <1>4, <2>1, <2>2 DEF Launch, Launched, TypeOK, Pkgs
  <2>9. AtMutant'
    BY <1>0, <1>4, <2>2 DEF Launch, AtMutant, Busy, UnderTest, Decided
  <2> QED
    BY <2>6, <2>7, <2>8, <2>9
<1>5. CASE StopLaunching \/ Wait
  <2>1. TypeOK' /\ Launched'
    BY <1>0, <1>5 DEF StopLaunching, Wait, TypeOK, Launched, tableVars, poolVars, workVars
  <2> QED
    BY <1>1, <1>5, <2>1 DEF StopLaunching, Wait, poolVars, workVars
<1>6. CASE Sweep
  <2>1. next \in 1..Len(results)
    BY <1>0, <1>6 DEF Sweep, TypeOK
  <2>2. results[next].status \in Verdicts
    <3>1. results \in Seq(Result)
      BY <1>0 DEF TypeOK
    <3>2. results[next] \in Result
      BY <2>1, <3>1
    <3> QED
      BY <3>2 DEF Result
  <2>3. reported' \in Seq(BOOLEAN) /\ done' \in Nat
        /\ events' \in Seq(Event)
    <3>1. reported \in Seq(BOOLEAN) /\ done \in Nat /\ next \in Nat
          /\ events \in Seq(Event)
      BY <1>0 DEF TypeOK
    <3>2. [slot |-> next, done |-> done + 1, status |-> results[next].status]
            \in Event
      BY <2>2, <3>1 DEF Event
    <3>3. [reported EXCEPT ![next] = TRUE] \in Seq(BOOLEAN)
      BY <3>1, SeqUpdate
    <3>4. CASE reported[next]
      BY <1>6, <3>1, <3>4 DEF Sweep
    <3>5. CASE ~reported[next]
      <4> DEFINE e == [slot |-> next, done |-> done + 1, status |-> results[next].status]
      <4>1. events' = Append(events, e) /\ done' = done + 1
            /\ reported' = [reported EXCEPT ![next] = TRUE]
        BY <1>6, <3>5 DEF Sweep
      <4>2. Append(events, e) \in Seq(Event)
        BY <3>1, <3>2
      <4> QED
        BY <3>1, <3>3, <4>1, <4>2
    <3> QED
      BY <3>4, <3>5
  <2>4. TypeOK'
    <3>1. next' \in Nat \ {0}
      BY <1>0, <1>6 DEF Sweep, TypeOK
    <3> QED
      BY <1>0, <1>6, <2>3, <3>1 DEF Sweep, TypeOK, poolVars, workVars
  <2>5. Launched'
    BY <1>0, <1>6 DEF Sweep, Launched, workVars
  <2> QED
    BY <1>1, <1>6, <2>4, <2>5 DEF Sweep, poolVars, workVars
<1>7. CASE Return
  <2>1. \A v \in Verdicts : Count(v) \in Nat
    <3>1. IsFiniteSet(1..Len(results))
      BY <1>0, FS_Interval DEF TypeOK
    <3> TAKE v \in Verdicts
    <3>2. IsFiniteSet({s \in 1..Len(results) : results[s].status = v})
      BY <3>1, FS_Subset
    <3> QED
      BY <3>2, FS_CardinalityType DEF Count
  <2>2. TypeOK' /\ Launched'
    BY <1>0, <1>7, <2>1 DEF Return, TypeOK, Launched, tableVars, poolVars, workVars
  <2> QED
    BY <1>1, <1>7, <2>2 DEF Return, poolVars, workVars
<1> QED
  BY <1>2, <1>3, <1>4, <1>5, <1>6, <1>7 DEF Caller

\* No step breaks the bookkeeping.
LEMMA LedgerStep ==
  ASSUME LedgerInv, [Next]_vars
  PROVE  LedgerInv'
<1>1. CASE Caller
  BY <1>1, LedgerCaller
<1>2. ASSUME NEW p \in Pkgs, Process(p) \/ Goroutine(p), ~Release(p), ~Leave(p)
      PROVE  LedgerInv'
  BY <1>2, LedgerWork
<1>3. CASE Interrupt \/ Returned \/ UNCHANGED vars
  BY <1>3, LedgerRest DEF Returned
<1>4. ASSUME NEW p \in Pkgs, Propagate(p) \/ Expire(p) \/ Release(p) \/ Leave(p)
      PROVE  LedgerInv'
  BY <1>4, LedgerRest
<1> QED
  BY <1>1, <1>2, <1>3, <1>4 DEF Next

\* The variables keep their types, and the semaphore and the wait group count
\* what they should, in every reachable state.
THEOREM LedgerInvariant == Spec => []LedgerInv
<1>1. LedgerInv /\ [Next]_vars => LedgerInv'
  BY LedgerStep
<1> QED
  BY <1>1, LedgerInit, PTL DEF Spec

\* Type correctness.
THEOREM TypeCorrect == Spec => []TypeOK
<1>1. LedgerInv => TypeOK
  BY DEF LedgerInv
<1> QED
  BY <1>1, LedgerInvariant, PTL

\* At most Slots test processes run at a time.
THEOREM BoundHolds == Spec => []ConcurrencyBound
<1>1. LedgerInv => ConcurrencyBound
  <2> SUFFICES ASSUME LedgerInv PROVE ConcurrencyBound
    OBVIOUS
  <2>1. IsFiniteSet(Pkgs)
    BY RunnerAssumption, FS_Interval DEF Pkgs
  <2>2. Holders \subseteq Pkgs /\ Running \subseteq Holders
    BY DEF Holders, Running
  <2>3. IsFiniteSet(Holders)
    BY <2>1, <2>2, FS_Subset
  <2>4. Cardinality(Running) \in Nat /\ Cardinality(Holders) \in Nat
        /\ Cardinality(Running) <= Cardinality(Holders)
    BY <2>2, <2>3, FS_Subset, FS_CardinalityType
  <2> QED
    BY <2>4, SlotsType DEF LedgerInv, Counted, ConcurrencyBound
<1> QED
  BY <1>1, LedgerInvariant, PTL

-----------------------------------------------------------------------------
(***************************************************************************)
(* Soundness of the verdicts.                                              *)
(***************************************************************************)
\* Moves of a worker that neither begin nor end its work on a mutant.
Calm(a, b) ==
  \/ a = b
  \/ a \in {"idle", "loop"} /\ b \in {"loop", "entry", "release"}
  \/ a = "start" /\ b = "run"
  \/ a \in Decided /\ b \in Decided
  \/ a \in Over /\ b \in Over

\* Such moves leave every part of VerdictInv but the results alone.
LEMMA CalmStep ==
  ASSUME VerdictInv, ctx => ctx',
         UNCHANGED <<cur, testCtx, err, verdict, truth>>,
         \A p \in Pkgs : Calm(worker[p], worker'[p])
  PROVE  Contexts' /\ Untested' /\ Judgeable' /\ VerdictKept'
<1> USE DEF Calm, Fresh, UnderTest, Decided, Over
<1>1. Contexts'
  BY DEF VerdictInv, Contexts
<1>2. Untested'
  BY DEF VerdictInv, Untested
<1>3. Judgeable'
  BY DEF VerdictInv, Judgeable, Point
<1>4. VerdictKept'
  BY DEF VerdictInv, VerdictKept, Point
<1> QED
  BY <1>1, <1>2, <1>3, <1>4

\* A verdict other than canceled needs a test run that ended.
LEMMA JustifiesEnding ==
  ASSUME NEW v \in Verdicts, Promise!Justifies("none", v)
  PROVE  v = "canceled"
BY DEF Promise!Justifies, Verdicts

\* The ending of the test run of p's mutant becomes known, and the error.
Learns(p, ending) == truth' = [truth EXCEPT ![Point(p)] = ending]
Gets(p, error) == err' = [err EXCEPT ![p] = error]

\* The ending of a test run becomes known: no verdict already stored depends on
\* it, and no other worker is at that mutant.
LEMMA EndingKnown ==
  ASSUME VerdictInv, NEW p \in Pkgs, NEW ending,
         worker[p] \in {"entry", "start", "run"},
         Learns(p, ending),
         UNCHANGED <<results, cur>>
  PROVE  /\ truth'[Point(p)] = ending
         /\ \A q \in Pkgs \ {p} : truth'[Point(q)] = truth[Point(q)]
         /\ \A q \in Pkgs : \A i \in 1..Size[q] :
              <<q, i>> # Point(p) => truth'[<<q, i>>] = truth[<<q, i>>]
         /\ VerdictsSound'
<1>1. TypeOK /\ AtMutant /\ Untested /\ VerdictsSound
  BY DEF VerdictInv, LedgerInv
<1>2. cur[p] \in 1..Size[p] /\ Size[p] \in Nat
  BY <1>1, RunnerAssumption DEF TypeOK, AtMutant, Busy, UnderTest
<1>3. Point(p) \in Mutants /\ truth[Point(p)] = "none"
  BY <1>1, <1>2, PointType DEF Untested, Fresh, Point
<1>4. truth \in [Mutants -> {"none"} \cup Endings]
  BY <1>1 DEF TypeOK
<1>5. truth'[Point(p)] = ending
      /\ \A m : m # Point(p) => truth'[m] = truth[m]
  BY <1>3, <1>4 DEF Learns
<1>6. \A q \in Pkgs \ {p} : Point(q) # Point(p)
  BY DEF Point
<1>7. VerdictsSound'
  <2> SUFFICES ASSUME NEW s \in DOMAIN results
               PROVE  Promise!Justifies(truth'[results[s].point], results[s].status)
    BY DEF VerdictsSound, Promise!Justifies
  <2>1. results[s] \in Result
    BY <1>1 DEF TypeOK
  <2>2. Promise!Justifies(truth[results[s].point], results[s].status)
    BY <1>1 DEF VerdictsSound
  <2>3. CASE results[s].point = Point(p)
    <3>1. results[s].status = "canceled"
      BY <1>3, <2>1, <2>2, <2>3, JustifiesEnding DEF Result
    <3> QED
      BY <3>1 DEF Promise!Justifies
  <2>4. CASE results[s].point # Point(p)
    BY <1>5, <2>2, <2>4
  <2> QED
    BY <2>3, <2>4
<1> QED
  BY <1>5, <1>6, <1>7

\* What must be shown of a step besides LedgerInv'.
VerdictParts == Contexts /\ Untested /\ Judgeable /\ VerdictKept /\ VerdictsSound

\* A test context ends.
LEMMA VerdictContext ==
  ASSUME VerdictInv, NEW p \in Pkgs, Propagate(p) \/ Expire(p)
  PROVE  VerdictParts'
<1> USE DEF VerdictInv, LedgerInv
<1>1. TypeOK /\ Contexts /\ Untested /\ Judgeable /\ VerdictKept /\ VerdictsSound
  OBVIOUS
<1>2. /\ testCtx[p] = "live"
      /\ testCtx' \in {[testCtx EXCEPT ![p] = "deadline"], [testCtx EXCEPT ![p] = "canceled"]}
      /\ testCtx'[p] = "canceled" => ctx
      /\ UNCHANGED <<ctx, worker, cur, err, verdict, truth, results>>
  BY <1>1 DEF Propagate, Expire, EndContext, tableVars, TypeOK
<1>3. Contexts'
  BY <1>1, <1>2 DEF Contexts, TypeOK
<1>4. Judgeable'
  BY <1>1, <1>2 DEF Judgeable, TypeOK, Point
<1>5. Untested' /\ VerdictKept' /\ VerdictsSound'
  BY <1>1, <1>2 DEF Untested, VerdictKept, VerdictsSound, Point
<1> QED
  BY <1>3, <1>4, <1>5 DEF VerdictParts

\* A process ends, on its own or because mutest stopped it, or cannot start.
LEMMA VerdictEnd ==
  ASSUME VerdictInv, NEW p \in Pkgs, NEW ending, NEW error,
         worker[p] \in {"start", "run"},
         Learns(p, ending), Gets(p, error),
         Goto(p, "judge"),
         UNCHANGED <<ctx, results, cur, testCtx, verdict>>,
         ending \notin {"none", "skipped"},
         testCtx[p] = "live" => Promise!Justifies(ending, ByError(error))
  PROVE  VerdictParts'
<1>1. TypeOK /\ Contexts /\ Untested /\ Judgeable /\ VerdictKept
  BY DEF VerdictInv, LedgerInv
<1>2. /\ truth'[Point(p)] = ending
      /\ \A q \in Pkgs \ {p} : truth'[Point(q)] = truth[Point(q)]
      /\ \A q \in Pkgs : \A i \in 1..Size[q] :
           <<q, i>> # Point(p) => truth'[<<q, i>>] = truth[<<q, i>>]
      /\ VerdictsSound'
  BY EndingKnown
<1>3. /\ worker'[p] = "judge" /\ \A q \in Pkgs \ {p} : worker'[q] = worker[q]
      /\ err'[p] = error /\ \A q \in Pkgs \ {p} : err'[q] = err[q]
  BY <1>1 DEF TypeOK, Goto, Gets
<1>4. \A q \in Pkgs : Point(q)' = Point(q)
  BY DEF Point
<1>5. Contexts'
  BY <1>1, <1>3 DEF Contexts, UnderTest
<1>6. Untested'
  BY <1>1, <1>2, <1>3 DEF Untested, Fresh, Point
<1>7. Judgeable'
  <2> SUFFICES ASSUME NEW q \in Pkgs, worker'[q] \in {"judge", "judgeDeadline"}
               PROVE  /\ truth'[Point(q)] \notin {"none", "skipped"}
                      /\ \/ testCtx[q] = "live"
                         \/ testCtx[q] = "canceled" /\ worker'[q] = "judgeDeadline"
                         => Promise!Justifies(truth'[Point(q)], ByError(err'[q]))
    BY <1>4 DEF Judgeable
  <2>1. CASE q = p
    BY <1>2, <1>3, <2>1
  <2>2. CASE q # p
    BY <1>1, <1>2, <1>3, <2>2 DEF Judgeable
  <2> QED
    BY <2>1, <2>2
<1>8. VerdictKept'
  BY <1>1, <1>2, <1>3, <1>4 DEF VerdictKept, Decided
<1> QED
  BY <1>2, <1>5, <1>6, <1>7, <1>8 DEF VerdictParts

\* The processes of a package.
LEMMA VerdictProcess ==
  ASSUME VerdictInv, NEW p \in Pkgs, Process(p) \/ StartFails(p)
  PROVE  VerdictParts'
<1>1. \A ending \in Ends : /\ ending \notin {"none", "skipped"}
                           /\ Promise!Justifies(ending, ByError(ErrOf(ending)))
  BY DEF Ends, ErrOf, ByError, Promise!Justifies
<1>2. ASSUME NEW ending, NEW error, End(p, ending, error),
             ending \notin {"none", "skipped"},
             testCtx[p] = "live" => Promise!Justifies(ending, ByError(error))
      PROVE  VerdictParts'
  <2>1. /\ worker[p] = "run" /\ Learns(p, ending) /\ Gets(p, error)
        /\ Goto(p, "judge") /\ UNCHANGED <<ctx, results, cur, testCtx, verdict>>
    BY <1>2 DEF End, Learns, Gets, tableVars
  <2> QED
    BY <1>2, <2>1, VerdictEnd
<1>3. ASSUME NEW ending \in Ends, SelfEnd(p, ending) PROVE VerdictParts'
  BY <1>1, <1>2, <1>3 DEF SelfEnd
<1>4. CASE LateEnd(p)
  BY <1>2, <1>4 DEF LateEnd
<1>5. CASE Stop(p) \/ Backstop(p)
  BY <1>2, <1>5 DEF Stop, Backstop
<1>6. CASE StartFails(p)
  <2> DEFINE ending == IF testCtx[p] = "live" THEN "broken" ELSE "refused"
  <2>1. /\ worker[p] = "start" /\ Learns(p, ending) /\ Gets(p, "other")
        /\ Goto(p, "judge") /\ UNCHANGED <<ctx, results, cur, testCtx, verdict>>
    BY <1>6 DEF StartFails, Learns, Gets, tableVars
  <2>2. /\ ending \notin {"none", "skipped"}
        /\ testCtx[p] = "live" => Promise!Justifies(ending, ByError("other"))
    BY DEF Promise!Justifies, ByError
  <2> QED
    BY <2>1, <2>2, VerdictEnd
<1> QED
  BY <1>3, <1>4, <1>5, <1>6 DEF Process

\* A worker enters testMutantRuntime.
LEMMA VerdictEnter ==
  ASSUME VerdictInv, NEW p \in Pkgs, Enter(p)
  PROVE  VerdictParts'
<1>1. TypeOK /\ Contexts /\ Untested /\ Judgeable /\ VerdictKept /\ VerdictsSound
  BY DEF VerdictInv, LedgerInv
<1>2. /\ worker[p] = "entry" /\ UNCHANGED <<ctx, results, cur, err>>
      /\ \A q \in Pkgs : Point(q)' = Point(q)
  BY DEF Enter, tableVars, Point
<1>3. CASE ctx
  <2>1. /\ worker'[p] = "store" /\ \A q \in Pkgs \ {p} : worker'[q] = worker[q]
        /\ verdict'[p] = "canceled" /\ \A q \in Pkgs \ {p} : verdict'[q] = verdict[q]
        /\ UNCHANGED <<truth, testCtx>>
    BY <1>1, <1>3 DEF Enter, Goto, TypeOK
  <2>2. Contexts'
    BY <1>1, <1>2, <2>1 DEF Contexts, UnderTest
  <2>3. Untested'
    BY <1>1, <1>2, <2>1 DEF Untested, Fresh
  <2>4. Judgeable' /\ VerdictsSound'
    BY <1>1, <1>2, <2>1 DEF Judgeable, VerdictsSound
  <2>5. VerdictKept'
    BY <1>1, <1>2, <1>3, <2>1 DEF VerdictKept, Decided, Promise!Justifies
  <2> QED
    BY <2>2, <2>3, <2>4, <2>5 DEF VerdictParts
<1>4. CASE ~ctx /\ p \in NoTests
  <2>1. /\ worker'[p] = "store" /\ \A q \in Pkgs \ {p} : worker'[q] = worker[q]
        /\ verdict'[p] = "survived" /\ \A q \in Pkgs \ {p} : verdict'[q] = verdict[q]
        /\ Learns(p, "skipped") /\ UNCHANGED testCtx
    BY <1>1, <1>4 DEF Enter, Goto, TypeOK, Learns
  <2>2. /\ truth'[Point(p)] = "skipped"
        /\ \A q \in Pkgs \ {p} : truth'[Point(q)] = truth[Point(q)]
        /\ \A q \in Pkgs : \A i \in 1..Size[q] :
             <<q, i>> # Point(p) => truth'[<<q, i>>] = truth[<<q, i>>]
        /\ VerdictsSound'
    BY <1>2, <2>1, EndingKnown
  <2>3. Contexts'
    BY <1>1, <1>2, <2>1 DEF Contexts, UnderTest
  <2>4. Untested'
    BY <1>1, <1>2, <2>1, <2>2 DEF Untested, Fresh, Point
  <2>5. Judgeable'
    BY <1>1, <1>2, <2>1, <2>2 DEF Judgeable
  <2>6. Promise!Justifies("skipped", "survived")
    BY DEF Promise!Justifies
  <2>7. VerdictKept'
    BY <1>1, <1>2, <2>1, <2>2, <2>6 DEF VerdictKept, Decided
  <2> QED
    BY <2>2, <2>3, <2>4, <2>5, <2>7 DEF VerdictParts
<1>5. CASE ~ctx /\ p \notin NoTests
  <2>1. /\ worker'[p] = "start" /\ \A q \in Pkgs \ {p} : worker'[q] = worker[q]
        /\ testCtx'[p] = "live" /\ \A q \in Pkgs \ {p} : testCtx'[q] = testCtx[q]
        /\ UNCHANGED <<verdict, truth>>
    BY <1>1, <1>5 DEF Enter, Goto, TypeOK
  <2>2. Contexts'
    BY <1>1, <1>2, <2>1 DEF Contexts, UnderTest
  <2>3. Untested'
    BY <1>1, <1>2, <2>1 DEF Untested, Fresh
  <2>4. Judgeable' /\ VerdictsSound'
    BY <1>1, <1>2, <2>1 DEF Judgeable, VerdictsSound
  <2>5. VerdictKept'
    BY <1>1, <1>2, <2>1 DEF VerdictKept, Decided
  <2> QED
    BY <2>2, <2>3, <2>4, <2>5 DEF VerdictParts
<1> QED
  BY <1>3, <1>4, <1>5

\* The two reads that classify a result.
LEMMA VerdictJudge ==
  ASSUME VerdictInv, NEW p \in Pkgs, JudgeCanceled(p) \/ JudgeDeadline(p)
  PROVE  VerdictParts'
<1>1. TypeOK /\ Contexts /\ Untested /\ Judgeable /\ VerdictKept /\ VerdictsSound
  BY DEF VerdictInv, LedgerInv
<1>2. ASSUME NEW v, Decide(p, v), worker[p] \in {"judge", "judgeDeadline"},
             Promise!Justifies(truth[Point(p)], v), v = "canceled" => ctx
      PROVE  VerdictParts'
  <2>1. /\ worker'[p] = "store" /\ \A q \in Pkgs \ {p} : worker'[q] = worker[q]
        /\ verdict'[p] = v /\ \A q \in Pkgs \ {p} : verdict'[q] = verdict[q]
        /\ testCtx'[p] = "none" /\ \A q \in Pkgs \ {p} : testCtx'[q] = testCtx[q]
        /\ \A q \in Pkgs \ {p} : err'[q] = err[q]
        /\ UNCHANGED <<ctx, results, cur, truth>>
    BY <1>1, <1>2 DEF Decide, Goto, TypeOK, tableVars
  <2>2. \A q \in Pkgs : Point(q)' = Point(q)
    BY <2>1 DEF Point
  <2>3. Contexts'
    BY <1>1, <2>1 DEF Contexts, UnderTest
  <2>4. Untested'
    BY <1>1, <1>2, <2>1 DEF Untested, Fresh
  <2>5. Judgeable' /\ VerdictsSound'
    BY <1>1, <2>1, <2>2 DEF Judgeable, VerdictsSound
  <2>6. VerdictKept'
    BY <1>1, <1>2, <2>1, <2>2 DEF VerdictKept, Decided
  <2> QED
    BY <2>3, <2>4, <2>5, <2>6 DEF VerdictParts
<1>3. CASE JudgeCanceled(p) /\ ctx
  <2>1. Promise!Justifies(truth[Point(p)], "canceled")
    BY DEF Promise!Justifies
  <2> QED
    BY <1>2, <1>3, <2>1 DEF JudgeCanceled
<1>4. CASE JudgeCanceled(p) /\ ~ctx
  <2>1. /\ worker[p] = "judge" /\ worker'[p] = "judgeDeadline"
        /\ \A q \in Pkgs \ {p} : worker'[q] = worker[q]
        /\ UNCHANGED <<ctx, results, cur, testCtx, err, verdict, truth>>
    BY <1>1, <1>4 DEF JudgeCanceled, Goto, TypeOK, tableVars
  <2>2. \A q \in Pkgs : Point(q)' = Point(q)
    BY <2>1 DEF Point
  <2>3. testCtx[p] # "canceled"
    BY <1>1, <1>4 DEF Contexts
  <2>4. Contexts' /\ Untested'
    BY <1>1, <2>1 DEF Contexts, UnderTest, Untested, Fresh
  <2>5. Judgeable' /\ VerdictsSound'
    BY <1>1, <2>1, <2>2, <2>3 DEF Judgeable, VerdictsSound
  <2>6. VerdictKept'
    BY <1>1, <2>1, <2>2 DEF VerdictKept, Decided
  <2> QED
    BY <2>4, <2>5, <2>6 DEF VerdictParts
<1>5. CASE JudgeDeadline(p)
  <2> DEFINE v == IF testCtx[p] = "deadline" THEN "timedout" ELSE ByError(err[p])
  <2>1. worker[p] = "judgeDeadline" /\ Decide(p, v)
    BY <1>5 DEF JudgeDeadline
  <2>2. testCtx[p] \in {"live", "deadline", "canceled"}
    BY <1>1, <2>1 DEF Contexts, UnderTest, TypeOK
  <2>3. Promise!Justifies(truth[Point(p)], "timedout")
    BY <1>1, <2>1 DEF Judgeable, Promise!Justifies
  <2>4. Promise!Justifies(truth[Point(p)], v)
    BY <1>1, <2>1, <2>2, <2>3 DEF Judgeable
  <2>5. v # "canceled"
    BY DEF ByError
  <2> QED
    BY <1>2, <2>1, <2>4, <2>5
<1> QED
  BY <1>3, <1>4, <1>5

\* A worker stores its Result.
LEMMA VerdictStore ==
  ASSUME VerdictInv, NEW p \in Pkgs, Store(p)
  PROVE  VerdictParts'
<1>1. TypeOK /\ VerdictKept /\ VerdictsSound
  BY DEF VerdictInv, LedgerInv
<1>2. /\ worker[p] = "store" /\ Goto(p, "report")
      /\ UNCHANGED <<ctx, cur, testCtx, err, verdict, truth>>
  BY DEF Store
<1>3. \A q \in Pkgs : Calm(worker[q], worker'[q])
  BY <1>1, <1>2 DEF Goto, TypeOK, Calm, Decided
<1>4. Contexts' /\ Untested' /\ Judgeable' /\ VerdictKept'
  BY <1>2, <1>3, CalmStep
<1>5. Promise!Justifies(truth[Point(p)], verdict[p])
  BY <1>1, <1>2 DEF VerdictKept, Decided
<1>6. VerdictsSound'
  <2> DEFINE r == [point |-> Point(p), status |-> verdict[p]]
  <2>1. /\ DOMAIN results' = DOMAIN results
        /\ \A s \in DOMAIN results : results'[s] = r \/ results'[s] = results[s]
    BY <1>1 DEF Store, TypeOK
  <2>2. r.point = Point(p) /\ r.status = verdict[p]
    OBVIOUS
  <2> SUFFICES ASSUME NEW s \in DOMAIN results
               PROVE  Promise!Justifies(truth[results'[s].point], results'[s].status)
    BY <1>2, <2>1 DEF VerdictsSound
  <2>3. CASE results'[s] = r
    BY <1>5, <2>2, <2>3
  <2>4. CASE results'[s] = results[s]
    BY <1>1, <2>4 DEF VerdictsSound
  <2> QED
    BY <2>1, <2>3, <2>4
<1> QED
  BY <1>4, <1>6 DEF VerdictParts

\* A worker has reported and goes on to its next mutant.
LEMMA VerdictProgress ==
  ASSUME VerdictInv, NEW p \in Pkgs, Progress(p)
  PROVE  VerdictParts'
<1>1. TypeOK /\ Contexts /\ Untested /\ Judgeable /\ VerdictKept /\ VerdictsSound
  BY DEF VerdictInv, LedgerInv
<1>2. /\ worker[p] = "progress" /\ worker'[p] = "loop"
      /\ \A q \in Pkgs \ {p} : worker'[q] = worker[q]
      /\ cur'[p] = cur[p] + 1 /\ \A q \in Pkgs \ {p} : cur'[q] = cur[q]
      /\ \A q \in Pkgs \ {p} : verdict'[q] = verdict[q]
      /\ UNCHANGED <<ctx, results, testCtx, err, truth>>
  BY <1>1 DEF Progress, Goto, TypeOK
<1>3. \A q \in Pkgs \ {p} : Point(q)' = Point(q)
  BY <1>2 DEF Point
<1>4. Contexts'
  BY <1>1, <1>2 DEF Contexts, UnderTest
<1>5. Untested'
  <2> SUFFICES ASSUME NEW q \in Pkgs, NEW i \in 1..Size[q],
                      i > cur'[q] \/ (i = cur'[q] /\ worker'[q] \in Fresh)
               PROVE  truth[<<q, i>>] = "none"
    BY <1>2 DEF Untested
  <2>1. CASE q = p
    <3>1. cur[p] \in Nat /\ Size[p] \in Nat /\ i > cur[p]
      BY <1>1, <1>2, <2>1, RunnerAssumption DEF TypeOK
    <3> QED
      BY <1>1, <2>1, <3>1 DEF Untested
  <2>2. CASE q # p
    BY <1>1, <1>2, <2>2 DEF Untested
  <2> QED
    BY <2>1, <2>2
<1>6. Judgeable' /\ VerdictsSound'
  BY <1>1, <1>2, <1>3 DEF Judgeable, VerdictsSound
<1>7. VerdictKept'
  BY <1>1, <1>2, <1>3 DEF VerdictKept, Decided
<1> QED
  BY <1>4, <1>5, <1>6, <1>7 DEF VerdictParts

\* The remaining steps do not touch results, or fill it with canceled ones.
LEMMA VerdictCalm ==
  ASSUME VerdictInv,
         \/ Interrupt \/ Caller \/ UNCHANGED vars
         \/ \E p \in Pkgs : \/ Start(p) \/ NextMutant(p) \/ Report(p)
                            \/ Release(p) \/ Leave(p)
  PROVE  VerdictParts'
<1>1. TypeOK /\ Launched /\ VerdictsSound
  BY DEF VerdictInv, LedgerInv
<1>2. /\ ctx => ctx'
      /\ UNCHANGED <<cur, testCtx, err, verdict, truth>>
      /\ UNCHANGED results \/ Prefill
  BY DEF Interrupt, Caller, Collect, Launch, StopLaunching, Wait, Sweep, Return, Prefill,
     Start, NextMutant, Report, Release, Leave, vars, tableVars, workVars
<1>3. \A q \in Pkgs : Calm(worker[q], worker'[q])
  <2>1. ASSUME NEW p \in Pkgs,
               Start(p) \/ NextMutant(p) \/ Report(p) \/ Release(p) \/ Leave(p)
        PROVE  \A q \in Pkgs : Calm(worker[q], worker'[q])
    BY <1>1, <2>1 DEF Start, NextMutant, Report, Release, Leave, Goto, TypeOK, Calm,
       Decided, Over
  <2>2. CASE Launch
    BY <1>1, <2>2 DEF Launch, Launched, Goto, TypeOK, Calm, Pkgs
  <2>3. CASE \/ Interrupt \/ Collect \/ Prefill \/ StopLaunching \/ Wait \/ Sweep
             \/ Return \/ UNCHANGED vars
    BY <2>3 DEF Interrupt, Collect, Prefill, StopLaunching, Wait, Sweep, Return, vars,
       workVars, Calm
  <2> QED
    BY <2>1, <2>2, <2>3 DEF Caller
<1>4. Contexts' /\ Untested' /\ Judgeable' /\ VerdictKept'
  BY <1>2, <1>3, CalmStep
<1>5. VerdictsSound'
  <2>1. CASE UNCHANGED results
    BY <1>1, <1>2, <2>1 DEF VerdictsSound
  <2>2. CASE Prefill
    <3>1. \A s \in DOMAIN results' : results'[s].status = "canceled"
      BY <2>2 DEF Prefill
    <3> QED
      BY <3>1 DEF VerdictsSound, Promise!Justifies
  <2> QED
    BY <1>2, <2>1, <2>2
<1> QED
  BY <1>4, <1>5 DEF VerdictParts

\* Init establishes the strengthened invariant.
LEMMA VerdictInit == Init => VerdictInv
<1> SUFFICES ASSUME Init PROVE VerdictInv
  OBVIOUS
<1>1. LedgerInv
  BY LedgerInit
<1>2. \A p \in Pkgs : \A i \in 1..Size[p] : <<p, i>> \in Mutants
  BY DEF Mutants
<1> QED
  BY <1>1, <1>2 DEF Init, VerdictInv, Contexts, Untested, Judgeable, VerdictKept,
     VerdictsSound, UnderTest, Decided

\* Every step keeps the strengthened invariant.
LEMMA VerdictStep ==
  ASSUME VerdictInv, [Next]_vars
  PROVE  VerdictInv'
<1>1. LedgerInv'
  BY LedgerStep DEF VerdictInv
<1>2. VerdictParts'
  <2>1. ASSUME NEW p \in Pkgs, Propagate(p) \/ Expire(p) PROVE VerdictParts'
    BY <2>1, VerdictContext
  <2>2. ASSUME NEW p \in Pkgs, Process(p) \/ StartFails(p) PROVE VerdictParts'
    BY <2>2, VerdictProcess
  <2>3. ASSUME NEW p \in Pkgs, Enter(p) PROVE VerdictParts'
    BY <2>3, VerdictEnter
  <2>4. ASSUME NEW p \in Pkgs, JudgeCanceled(p) \/ JudgeDeadline(p) PROVE VerdictParts'
    BY <2>4, VerdictJudge
  <2>5. ASSUME NEW p \in Pkgs, Store(p) PROVE VerdictParts'
    BY <2>5, VerdictStore
  <2>6. ASSUME NEW p \in Pkgs, Progress(p) PROVE VerdictParts'
    BY <2>6, VerdictProgress
  <2>7. ASSUME NEW p \in Pkgs,
               Start(p) \/ NextMutant(p) \/ Report(p) \/ Release(p) \/ Leave(p)
        PROVE  VerdictParts'
    BY <2>7, VerdictCalm
  <2>8. CASE Interrupt \/ Caller \/ Returned \/ UNCHANGED vars
    BY <2>8, VerdictCalm DEF Returned
  <2> QED
    BY <2>1, <2>2, <2>3, <2>4, <2>5, <2>6, <2>7, <2>8 DEF Next, Goroutine
<1> QED
  BY <1>1, <1>2 DEF VerdictInv, VerdictParts

\* The strengthened invariant holds in every reachable state.
THEOREM VerdictInvariant == Spec => []VerdictInv
<1>1. VerdictInv /\ [Next]_vars => VerdictInv'
  BY VerdictStep
<1> QED
  BY <1>1, VerdictInit, PTL DEF Spec

\* No interleaving of interrupt, deadline, kill and classification stores a
\* verdict that the ending of the test run does not justify.
THEOREM VerdictsAreSound == Spec => []VerdictsSound
<1>1. VerdictInv => VerdictsSound
  BY DEF VerdictInv
<1> QED
  BY <1>1, VerdictInvariant, PTL

-----------------------------------------------------------------------------
(***************************************************************************)
(* Lemmas about the slots.                                                 *)
(***************************************************************************)
\* A mutant's slot exists once there is a table, and is that of no other mutant.
LEMMA SlotOfMutant ==
  ASSUME RunnerInductive, main # "collect", NEW p \in Pkgs, NEW i \in 1..Size[p]
  PROVE  /\ offset[p] + i \in 1..Len(allPoints)
         /\ offset[p] + i \in 1..Len(results) /\ offset[p] + i \in 1..Len(reported)
         /\ allPoints[offset[p] + i] = <<p, i>>
<1>1. TypeOK /\ Layout /\ Tabled
  BY DEF RunnerInductive, VerdictInv, LedgerInv, SlotInv
<1>2. p \in Placed /\ Size[p] \in Nat /\ offset[p] \in Nat /\ Len(allPoints) \in Nat
  BY <1>1, RunnerAssumption DEF Placed, TypeOK
<1>3. offset[p] + Size[p] <= Len(allPoints) /\ allPoints[offset[p] + i] = <<p, i>>
  BY <1>1, <1>2 DEF Layout
<1>4. offset[p] + i \in 1..Len(allPoints)
  BY <1>2, <1>3
<1>5. Len(results) = Len(allPoints) /\ Len(reported) = Len(allPoints)
  BY <1>1 DEF Tabled
<1> QED
  BY <1>3, <1>4, <1>5

\* Two mutants never share a slot.
LEMMA SlotUnique ==
  ASSUME RunnerInductive, main # "collect", NEW p \in Pkgs, NEW i \in 1..Size[p],
         NEW q \in Pkgs, NEW j \in 1..Size[q], offset[p] + i = offset[q] + j
  PROVE  p = q /\ i = j
<1>1. <<p, i>> = <<q, j>>
  BY SlotOfMutant
<1> QED
  BY <1>1

\* Each slot is that of some mutant.
LEMMA SlotHasMutant ==
  ASSUME RunnerInductive, NEW s \in 1..Len(allPoints)
  PROVE  \E p \in Pkgs : \E i \in 1..Size[p] : allPoints[s] = <<p, i>> /\ s = offset[p] + i
<1>1. TypeOK /\ Layout
  BY DEF RunnerInductive, VerdictInv, LedgerInv, SlotInv
<1>2. allPoints[s] \in Mutants /\ SlotOf(allPoints[s]) = s
  BY <1>1 DEF TypeOK, Layout
<1>3. PICK p \in Pkgs : \E i \in 1..Size[p] : allPoints[s] = <<p, i>>
  BY <1>2 DEF Mutants
<1> QED
  BY <1>2, <1>3 DEF SlotOf

\* Workers work only between the launch of the first and the end of the wait.
LEMMA AtWork ==
  ASSUME RunnerInductive, NEW p \in Pkgs, worker[p] \notin {"idle", "gone"}
  PROVE  main \in {"launch", "wait"}
BY DEF RunnerInductive, VerdictInv, LedgerInv, TypeOK, Launched, SlotInv, QuietSweep

\* Where a worker is that has a mutant, and what is in its slot.
LEMMA AtSlot ==
  ASSUME RunnerInductive, NEW p \in Pkgs, worker[p] \in Busy
  PROVE  /\ main \in {"launch", "wait"} /\ cur[p] \in 1..Size[p]
         /\ Slot(p) \in 1..Len(results) /\ Slot(p) \in 1..Len(reported)
         /\ allPoints[Slot(p)] = Point(p)
         /\ reported[Slot(p)] <=> worker[p] = "progress"
<1>1. main \in {"launch", "wait"}
  BY AtWork DEF Busy, UnderTest, Decided
<1>2. cur[p] \in 1..Size[p]
  BY RunnerAssumption DEF RunnerInductive, VerdictInv, LedgerInv, TypeOK, AtMutant
<1>3. /\ Slot(p) \in 1..Len(results) /\ Slot(p) \in 1..Len(reported)
      /\ allPoints[Slot(p)] = Point(p)
  BY <1>1, <1>2, SlotOfMutant DEF Slot, Point
<1>4. Accounted
  BY DEF RunnerInductive, SlotInv
<1>5. reported[Slot(p)] <=> Announced(p, cur[p])
  BY <1>1, <1>2, <1>4 DEF Accounted, Slot
<1>6. Announced(p, cur[p]) <=> worker[p] = "progress"
  BY <1>2 DEF Announced
<1> QED
  BY <1>1, <1>2, <1>3, <1>5, <1>6

-----------------------------------------------------------------------------
(***************************************************************************)
(* Steps that touch neither the table nor the events.                      *)
(***************************************************************************)
Aside ==
  /\ ctx => ctx'
  /\ UNCHANGED <<main, next, offset, allPoints, summary>>
  /\ UNCHANGED <<results, reported, done, mu, events, cur>>
  /\ \A p \in Pkgs : worker'[p] # worker[p] =>
       /\ worker[p] \notin {"idle", "report", "progress", "gone"}
       /\ worker'[p] \notin {"idle", "report", "progress"}
       /\ worker'[p] \in Over => worker[p] \in Over \/ ctx \/ cur[p] > Size[p]
  /\ \A p \in Pkgs : worker[p] \in {"report", "progress"} => verdict'[p] = verdict[p]
  /\ main \in {"sweep", "returned"} => UNCHANGED sem

\* Such a step keeps everything that is known of the slots.
LEMMA AsideSlots ==
  ASSUME RunnerInductive, Aside
  PROVE  SlotInv'
<1> USE DEF Aside
<1>0. /\ TypeOK /\ MutexHeld /\ Layout /\ Tabled /\ Unstarted /\ Accounted /\ Stored
      /\ Excused /\ Outstanding /\ Swept /\ QuietSweep /\ SlotOwnership
  BY DEF RunnerInductive, VerdictInv, LedgerInv, SlotInv
<1>1. MutexHeld' /\ Unstarted'
  BY <1>0 DEF MutexHeld, Unstarted
<1>2. Layout' /\ Tabled' /\ Swept' /\ SlotOwnership'
  BY <1>0 DEF Layout, Placed, SlotOf, Tabled, Swept, SlotOwnership
<1>3. \A p \in Pkgs : (worker'[p] = "progress" <=> worker[p] = "progress")
                      /\ (worker'[p] = "report" <=> worker[p] = "report")
  OBVIOUS
<1>4. Accounted'
  BY <1>0, <1>3 DEF Accounted, Announced
<1>5. Stored' /\ Excused'
  BY <1>0, <1>3 DEF Stored, Slot, Excused
<1>6. Outstanding'
  BY <1>0 DEF Outstanding
<1>7. QuietSweep'
  BY <1>0 DEF QuietSweep
<1> QED
  BY <1>1, <1>2, <1>4, <1>5, <1>6, <1>7 DEF SlotInv

\* And of the events.
LEMMA AsideEvents ==
  ASSUME RunnerInductive, Aside
  PROVE  EventInv'
<1> USE DEF Aside
<1>0. Numbered /\ Matched /\ Summed /\ Carried
  BY DEF RunnerInductive, EventInv
<1>1. Numbered' /\ Summed'
  BY <1>0 DEF Numbered, Summed, Count
<1>2. Matched'
  BY <1>0 DEF Matched, Pending, Slot
<1>3. Carried'
  BY <1>0 DEF Carried, Slot
<1> QED
  BY <1>1, <1>2, <1>3 DEF EventInv

\* The steps of the environment, of the test runs, and of a worker before it stores
\* its Result or after its last mutant are of this kind.
LEMMA AsideSteps ==
  ASSUME RunnerInductive,
         \/ Interrupt \/ UNCHANGED vars
         \/ \E p \in Pkgs :
              \/ Propagate(p) \/ Expire(p) \/ Process(p)
              \/ NextMutant(p) \/ Enter(p) \/ Start(p) \/ StartFails(p)
              \/ JudgeCanceled(p) \/ JudgeDeadline(p) \/ Release(p) \/ Leave(p)
  PROVE  Aside
<1>0. TypeOK
  BY DEF RunnerInductive, VerdictInv, LedgerInv
<1> USE DEF mainVars, tableVars, poolVars, workVars
<1>1. CASE Interrupt \/ UNCHANGED vars
  BY <1>1 DEF Interrupt, vars, Aside
<1>2. ASSUME NEW p \in Pkgs, Propagate(p) \/ Expire(p) PROVE Aside
  BY <1>2 DEF Propagate, Expire, EndContext, Aside
<1>3. ASSUME NEW p \in Pkgs, NEW label \in Stages,
             worker[p] \notin {"idle", "report", "progress", "gone"},
             label \notin {"idle", "report", "progress"},
             label \in Over => worker[p] \in Over \/ ctx \/ cur[p] > Size[p],
             Goto(p, label), UNCHANGED <<ctx, mainVars, tableVars, cur>>,
             \A q \in Pkgs \ {p} : verdict'[q] = verdict[q]
      PROVE  Aside
  <2>1. main \in {"launch", "wait"}
    BY <1>3, AtWork
  <2>2. worker'[p] = label /\ \A q \in Pkgs \ {p} : worker'[q] = worker[q]
    BY <1>0, <1>3 DEF Goto, TypeOK
  <2> QED
    BY <1>3, <2>1, <2>2 DEF Aside
<1>4. ASSUME NEW p \in Pkgs, Process(p) \/ StartFails(p) PROVE Aside
  <2>1. /\ worker[p] \in {"start", "run"} /\ Goto(p, "judge")
        /\ UNCHANGED <<ctx, mainVars, tableVars, cur, verdict>>
    BY <1>4 DEF Process, SelfEnd, LateEnd, Stop, Backstop, End, StartFails
  <2> QED
    BY <1>3, <2>1 DEF Stages, Over
<1>5. ASSUME NEW p \in Pkgs, NEW v, Decide(p, v), worker[p] \in {"judge", "judgeDeadline"}
      PROVE  Aside
  BY <1>0, <1>3, <1>5 DEF Decide, Stages, Over, TypeOK
<1>6. ASSUME NEW p \in Pkgs, JudgeCanceled(p) \/ JudgeDeadline(p) PROVE Aside
  <2>1. CASE JudgeCanceled(p) /\ ~ctx
    BY <1>3, <2>1 DEF JudgeCanceled, Stages, Over
  <2> QED
    BY <1>5, <1>6, <2>1 DEF JudgeCanceled, JudgeDeadline
<1>7. ASSUME NEW p \in Pkgs, Enter(p) PROVE Aside
  <2>1. /\ worker[p] = "entry" /\ UNCHANGED <<ctx, mainVars, tableVars, cur>>
        /\ Goto(p, "store") \/ Goto(p, "start")
    BY <1>7 DEF Enter
  <2>2. \A q \in Pkgs \ {p} : verdict'[q] = verdict[q]
    BY <1>0, <1>7 DEF Enter, TypeOK
  <2> QED
    BY <1>3, <2>1, <2>2 DEF Stages, Over
<1>8. ASSUME NEW p \in Pkgs, NextMutant(p) \/ Start(p) PROVE Aside
  <2>1. cur[p] \in Nat /\ Size[p] \in Nat
    BY <1>0, RunnerAssumption DEF TypeOK
  <2> QED
    BY <1>3, <1>8, <2>1 DEF NextMutant, Start, Stages, Over
<1>9. ASSUME NEW p \in Pkgs, Release(p) \/ Leave(p) PROVE Aside
  BY <1>3, <1>9 DEF Release, Leave, Stages, Over
<1> QED
  BY <1>1, <1>2, <1>4, <1>6, <1>7, <1>8, <1>9

-----------------------------------------------------------------------------
(***************************************************************************)
(* The three steps with which a worker stores and reports a Result.        *)
(***************************************************************************)
\* A worker writes its own slot, which is not reported yet.
LEMMA StoreStep ==
  ASSUME RunnerInductive, NEW p \in Pkgs, Store(p)
  PROVE  SlotInv' /\ EventInv'
<1>0. /\ TypeOK /\ MutexHeld /\ Layout /\ Tabled /\ Unstarted /\ Accounted /\ Stored
      /\ Excused /\ Outstanding /\ Swept /\ QuietSweep /\ SlotOwnership
      /\ Numbered /\ Matched /\ Summed /\ Carried
  BY DEF RunnerInductive, VerdictInv, LedgerInv, SlotInv, EventInv
<1>1. /\ worker[p] = "store" /\ worker'[p] = "report"
      /\ \A q \in Pkgs \ {p} : worker'[q] = worker[q]
      /\ UNCHANGED <<ctx, main, next, offset, allPoints, summary>>
      /\ UNCHANGED <<reported, done, mu, events, sem, cur, verdict>>
  BY <1>0 DEF Store, Goto, TypeOK, mainVars, poolVars
<1>2. /\ main \in {"launch", "wait"} /\ cur[p] \in 1..Size[p]
      /\ Slot(p) \in 1..Len(results) /\ allPoints[Slot(p)] = Point(p)
      /\ ~reported[Slot(p)]
  BY <1>1, AtSlot DEF Busy, Decided
<1>3. /\ results' \in Seq(Result) /\ Len(results') = Len(results)
      /\ results'[Slot(p)].point = Point(p) /\ results'[Slot(p)].status = verdict[p]
      /\ \A s \in 1..Len(results) : s # Slot(p) => results'[s] = results[s]
  <2> DEFINE r == [point |-> Point(p), status |-> verdict[p]]
  <2>1. r \in Result /\ r.point = Point(p) /\ r.status = verdict[p]
    BY <1>0, <1>2, PointType DEF TypeOK, Result
  <2>2. results' = [results EXCEPT ![Slot(p)] = r] /\ results \in Seq(Result)
    BY <1>0 DEF Store, TypeOK
  <2> HIDE DEF r
  <2>3. results' \in Seq(Result) /\ Len(results') = Len(results)
    BY <2>1, <2>2, SeqUpdate
  <2>4. results'[Slot(p)] = r
        /\ \A s \in 1..Len(results) : s # Slot(p) => results'[s] = results[s]
    BY <1>2, <2>2
  <2> QED
    BY <2>1, <2>3, <2>4
<1>4. \A q \in Pkgs : Slot(q)' = Slot(q) /\ Point(q)' = Point(q)
  BY <1>1 DEF Slot, Point
<1>5. \A q \in Pkgs \ {p} : \A i \in 1..Size[q] :
        offset[q] + i # Slot(p) /\ offset[q] + i \in 1..Len(results)
  BY <1>2, SlotUnique, SlotOfMutant DEF Slot
<1>6. \A i \in 1..Size[p] : offset[p] + i = Slot(p) => i = cur[p]
  BY <1>2, SlotUnique DEF Slot
<1>7. \A s \in 1..Len(reported) : s \in 1..Len(results)
                                  /\ (reported[s] => results'[s] = results[s])
  BY <1>0, <1>2, <1>3 DEF Tabled
<1>8. MutexHeld' /\ Unstarted'
  BY <1>0, <1>1 DEF MutexHeld, Unstarted
<1>9. Layout' /\ Tabled'
  BY <1>0, <1>1, <1>3 DEF Layout, Placed, SlotOf, Tabled
<1>10. Accounted'
  <2> SUFFICES ASSUME NEW q \in Pkgs, NEW i \in 1..Size[q]
               PROVE  LET s == offset[q] + i IN
                      /\ Announced(q, i)' => reported[s]
                      /\ reported[s] => Announced(q, i)'
                      /\ ~reported[s] /\ results'[s].status # "canceled" =>
                           i = cur[q] /\ worker'[q] = "report"
    BY <1>1, <1>2 DEF Accounted
  <2>1. Announced(q, i)' <=> Announced(q, i)
    BY <1>1 DEF Announced
  <2>2. CASE q = p /\ offset[q] + i = Slot(p)
    BY <1>0, <1>1, <1>2, <1>6, <2>1, <2>2 DEF Accounted
  <2>3. CASE offset[q] + i # Slot(p)
    <3>1. results'[offset[q] + i] = results[offset[q] + i]
      BY <1>2, <1>3, <2>3, SlotOfMutant
    <3> QED
      BY <1>0, <1>1, <1>2, <2>1, <3>1 DEF Accounted
  <2> QED
    BY <1>5, <2>2, <2>3
<1>11. Stored' /\ Carried'
  <2>1. \A q \in Pkgs \ {p} : worker[q] \in {"report", "progress"} =>
          results'[Slot(q)] = results[Slot(q)]
    <3> TAKE q \in Pkgs \ {p}
    <3> HAVE worker[q] \in {"report", "progress"}
    <3>1. cur[q] \in 1..Size[q] /\ Slot(q) \in 1..Len(results)
      BY AtSlot DEF Busy, Decided
    <3> QED
      BY <1>3, <1>5, <3>1 DEF Slot
  <2> QED
    BY <1>0, <1>1, <1>3, <1>4, <2>1 DEF Stored, Carried
<1>12. Excused' /\ Outstanding' /\ Swept'
  BY <1>0, <1>1, <1>2, <1>7 DEF Excused, Outstanding, Swept, Over
<1>13. QuietSweep'
  BY <1>1, <1>2 DEF QuietSweep
<1>14. SlotOwnership'
  <2>1. DOMAIN results' = 1..Len(results) /\ DOMAIN results = 1..Len(results)
    BY <1>0, <1>3 DEF TypeOK
  <2> QED
    BY <1>0, <1>1, <1>2, <1>3, <2>1 DEF SlotOwnership
<1>15. Numbered' /\ Summed'
  BY <1>0, <1>1, <1>2 DEF Numbered, Summed
<1>16. Matched'
  <2>1. \A s : Pending(s)' <=> Pending(s)
    BY <1>1 DEF Pending, Slot
  <2> QED
    BY <1>0, <1>1, <1>7, <2>1 DEF Matched
<1> QED
  BY <1>8, <1>9, <1>10, <1>11, <1>12, <1>13, <1>14, <1>15, <1>16 DEF SlotInv, EventInv

\* Under the mutex a worker marks its slot and counts it.
LEMMA ReportStep ==
  ASSUME RunnerInductive, NEW p \in Pkgs, Report(p)
  PROVE  SlotInv' /\ EventInv'
<1>0. /\ TypeOK /\ MutexHeld /\ Layout /\ Tabled /\ Unstarted /\ Accounted /\ Stored
      /\ Excused /\ Outstanding /\ Swept /\ QuietSweep /\ SlotOwnership
      /\ Numbered /\ Matched /\ Summed /\ Carried /\ VerdictKept
  BY DEF RunnerInductive, VerdictInv, LedgerInv, SlotInv, EventInv
<1>1. /\ worker[p] = "report" /\ worker'[p] = "progress" /\ mu = 0 /\ mu' = p
      /\ \A q \in Pkgs \ {p} : worker'[q] = worker[q]
      /\ UNCHANGED <<ctx, main, next, offset, allPoints, summary>>
      /\ UNCHANGED <<results, events, sem, cur, verdict>>
      /\ done' = done + 1
  BY <1>0 DEF Report, Goto, TypeOK, mainVars, poolVars
<1>2. /\ main \in {"launch", "wait"} /\ cur[p] \in 1..Size[p]
      /\ Slot(p) \in 1..Len(reported) /\ ~reported[Slot(p)]
  BY <1>1, AtSlot DEF Busy, Decided
<1>3. /\ reported' \in Seq(BOOLEAN) /\ Len(reported') = Len(reported)
      /\ reported'[Slot(p)]
      /\ \A s \in 1..Len(reported) : s # Slot(p) => reported'[s] = reported[s]
  <2>1. reported' = [reported EXCEPT ![Slot(p)] = TRUE] /\ reported \in Seq(BOOLEAN)
    BY <1>0 DEF Report, TypeOK
  <2>2. reported' \in Seq(BOOLEAN) /\ Len(reported') = Len(reported)
    BY <2>1, SeqUpdate
  <2> QED
    BY <1>2, <2>1, <2>2
<1>4. \A q \in Pkgs : Slot(q)' = Slot(q) /\ Point(q)' = Point(q)
  BY <1>1 DEF Slot, Point
<1>5. p \in Nat \ {0} /\ \A q \in Pkgs : worker[q] # "progress"
  BY <1>0, <1>1 DEF MutexHeld, Pkgs
<1>6. MutexHeld' /\ Unstarted'
  BY <1>0, <1>1, <1>5 DEF MutexHeld, Unstarted
<1>7. Layout' /\ Tabled' /\ SlotOwnership'
  BY <1>0, <1>1, <1>3 DEF Layout, Placed, SlotOf, Tabled, SlotOwnership
<1>8. Accounted'
  <2> SUFFICES ASSUME NEW q \in Pkgs, NEW i \in 1..Size[q]
               PROVE  LET s == offset[q] + i IN
                      /\ Announced(q, i)' => reported'[s]
                      /\ reported'[s] => Announced(q, i)'
                      /\ ~reported'[s] /\ results[s].status # "canceled" =>
                           i = cur[q] /\ worker'[q] = "report"
    BY <1>1, <1>2 DEF Accounted
  <2>1. CASE offset[q] + i = Slot(p)
    <3>1. q = p /\ i = cur[p]
      BY <1>2, <2>1, SlotUnique DEF Slot
    <3> QED
      BY <1>1, <1>3, <2>1, <3>1 DEF Announced
  <2>2. CASE offset[q] + i # Slot(p)
    <3>1. offset[q] + i \in 1..Len(reported)
      BY <1>2, SlotOfMutant
    <3>2. reported'[offset[q] + i] = reported[offset[q] + i]
      BY <1>3, <2>2, <3>1
    <3>3. q # p \/ i # cur[p]
      BY <2>2 DEF Slot
    <3>4. Announced(q, i)' <=> Announced(q, i)
      BY <1>1, <3>3 DEF Announced
    <3> QED
      BY <1>0, <1>1, <1>2, <3>2, <3>3, <3>4 DEF Accounted
  <2> QED
    BY <2>1, <2>2
<1>9. Stored' /\ Carried'
  BY <1>0, <1>1, <1>4, <1>5 DEF Stored, Carried
<1>10. Excused'
  <2>1. results[Slot(p)].status = "canceled" => ctx
    BY <1>0, <1>1 DEF Stored, VerdictKept, Decided
  <2> QED
    BY <1>0, <1>1, <1>3, <2>1 DEF Excused
<1>11. Outstanding' /\ Swept' /\ QuietSweep'
  BY <1>0, <1>1, <1>2 DEF Outstanding, Over, Swept, QuietSweep
<1>12. Numbered' /\ Summed'
  BY <1>0, <1>1, <1>2, <1>5 DEF Numbered, Summed, TypeOK
<1>13. Matched'
  <2>1. \A s : Pending(s)' <=> s = Slot(p)
    BY <1>1, <1>5 DEF Pending, Slot
  <2>2. \A s : ~Pending(s)
    BY <1>1 DEF Pending
  <2>3. \A k \in 1..Len(events) : events[k].slot # Slot(p)
    BY <1>0, <1>2 DEF Matched
  <2>4. \A k \in 1..Len(events) :
          LET s == events[k].slot IN
          /\ s \in 1..Len(reported') /\ reported'[s] /\ ~Pending(s)'
          /\ events[k].status = results[s].status
    <3> TAKE k \in 1..Len(events)
    <3>0. PICK s : s = events[k].slot
      OBVIOUS
    <3>1. s \in 1..Len(reported) /\ reported[s] /\ events[k].status = results[s].status
      BY <1>0, <3>0 DEF Matched
    <3>2. s # Slot(p)
      BY <2>3, <3>0
    <3>3. s \in 1..Len(reported') /\ reported'[s] /\ ~Pending(s)'
      BY <1>3, <2>1, <3>1, <3>2
    <3> QED
      BY <1>1, <3>0, <3>1, <3>3
  <2>5. \A s \in 1..Len(reported') :
          reported'[s] => Pending(s)' \/ \E k \in 1..Len(events) : events[k].slot = s
    BY <1>0, <1>3, <2>1, <2>2 DEF Matched
  <2> QED
    BY <1>0, <1>1, <2>4, <2>5 DEF Matched
<1> QED
  BY <1>6, <1>7, <1>8, <1>9, <1>10, <1>11, <1>12, <1>13 DEF SlotInv, EventInv
\* A worker calls the callback, unlocks and goes on to its next mutant.
LEMMA ProgressStep ==
  ASSUME RunnerInductive, NEW p \in Pkgs, Progress(p)
  PROVE  SlotInv' /\ EventInv'
<1>0. /\ TypeOK /\ MutexHeld /\ Layout /\ Tabled /\ Unstarted /\ Accounted /\ Stored
      /\ Excused /\ Outstanding /\ Swept /\ QuietSweep /\ SlotOwnership
      /\ Numbered /\ Matched /\ Summed /\ Carried
  BY DEF RunnerInductive, VerdictInv, LedgerInv, SlotInv, EventInv
<1> DEFINE e == [slot |-> Slot(p), status |-> verdict[p], done |-> done]
<1>1. /\ worker[p] = "progress" /\ worker'[p] = "loop" /\ mu' = 0
      /\ \A q \in Pkgs \ {p} : worker'[q] = worker[q]
      /\ cur'[p] = cur[p] + 1 /\ \A q \in Pkgs \ {p} : cur'[q] = cur[q]
      /\ \A q \in Pkgs \ {p} : verdict'[q] = verdict[q]
      /\ UNCHANGED <<ctx, main, next, offset, allPoints, summary>>
      /\ UNCHANGED <<results, reported, done, sem>>
      /\ events' = Append(events, e)
  BY <1>0 DEF Progress, Goto, TypeOK, mainVars, poolVars
<1>2. /\ main \in {"launch", "wait"} /\ cur[p] \in 1..Size[p]
      /\ Slot(p) \in 1..Len(reported) /\ reported[Slot(p)]
  BY <1>1, AtSlot DEF Busy, Decided
<1>3. mu = p /\ p # 0 /\ \A q \in Pkgs \ {p} : worker[q] # "progress"
  BY <1>0, <1>1 DEF MutexHeld, Pkgs
<1>4. \A q \in Pkgs \ {p} : Slot(q)' = Slot(q)
  BY <1>1 DEF Slot
<1>5. /\ Len(events') = Len(events) + 1 /\ events'[Len(events) + 1] = e
      /\ \A k \in 1..Len(events) : events'[k] = events[k]
      /\ Len(events) \in Nat
  <2> HIDE DEF e
  <2> QED
    BY <1>0, <1>1 DEF TypeOK
<1>6. e.slot = Slot(p) /\ e.status = verdict[p] /\ e.done = done
  OBVIOUS
<1> HIDE DEF e
<1>7. MutexHeld' /\ Unstarted'
  BY <1>0, <1>1, <1>3 DEF MutexHeld, Unstarted, Pkgs
<1>8. Layout' /\ Tabled' /\ SlotOwnership'
  BY <1>0, <1>1 DEF Layout, Placed, SlotOf, Tabled, SlotOwnership
<1>9. Accounted'
  <2>1. \A q \in Pkgs : \A i \in 1..Size[q] : Announced(q, i)' <=> Announced(q, i)
    BY <1>0, <1>1, <1>2 DEF Announced, TypeOK
  <2>2. \A q \in Pkgs : worker[q] = "report" =>
          q # p /\ worker'[q] = "report" /\ cur'[q] = cur[q]
    BY <1>1
  <2> QED
    BY <1>0, <1>1, <1>2, <2>1, <2>2 DEF Accounted
<1>10. Stored' /\ Carried'
  BY <1>0, <1>1, <1>4 DEF Stored, Carried
<1>11. Excused' /\ Outstanding' /\ Swept' /\ QuietSweep'
  BY <1>0, <1>1, <1>2 DEF Excused, Outstanding, Over, Swept, QuietSweep
<1>12. Numbered'
  <2>1. done = Len(events) + 1
    BY <1>0, <1>3 DEF Numbered
  <2> QED
    BY <1>0, <1>1, <1>5, <1>6, <2>1 DEF Numbered
<1>13. Summed'
  BY <1>1, <1>2 DEF Summed
<1>14. Matched'
  <2>1. \A s : Pending(s) <=> s = Slot(p)
    BY <1>3 DEF Pending
  <2>2. \A s : ~Pending(s)'
    BY <1>1 DEF Pending
  <2>3. e.status = results[Slot(p)].status
    BY <1>0, <1>1, <1>6 DEF Carried
  <2>4. \A k \in 1..Len(events) :
          /\ events[k].slot \in 1..Len(reported) /\ reported[events[k].slot]
          /\ events[k].slot # Slot(p)
          /\ events[k].status = results[events[k].slot].status
    BY <1>0, <2>1 DEF Matched
  <2>5. ASSUME NEW k \in 1..Len(events')
        PROVE  LET s == events'[k].slot IN
               /\ s \in 1..Len(reported) /\ reported[s]
               /\ events'[k].status = results[s].status
    BY <1>2, <1>5, <1>6, <2>3, <2>4
  <2>6. ASSUME NEW j \in 1..Len(events'), NEW k \in 1..Len(events'),
               events'[j].slot = events'[k].slot
        PROVE  j = k
    BY <1>0, <1>5, <1>6, <2>4, <2>6 DEF Matched
  <2>7. ASSUME NEW s \in 1..Len(reported), reported[s]
        PROVE  \E k \in 1..Len(events') : events'[k].slot = s
    <3>1. CASE s = Slot(p)
      BY <1>5, <1>6, <3>1
    <3>2. CASE s # Slot(p)
      <4>1. PICK k \in 1..Len(events) : events[k].slot = s
        BY <1>0, <2>1, <2>7, <3>2 DEF Matched
      <4> QED
        BY <1>5, <4>1
    <3> QED
      BY <3>1, <3>2
  <2> QED
    BY <1>1, <2>2, <2>5, <2>6, <2>7 DEF Matched
<1> QED
  BY <1>7, <1>8, <1>9, <1>10, <1>11, <1>12, <1>13, <1>14 DEF SlotInv, EventInv
-----------------------------------------------------------------------------
(***************************************************************************)
(* The steps of RunInstrumented itself.                                    *)
(***************************************************************************)
\* While mutants are collected there is no table, and nothing was announced.
LEMMA NoTable ==
  ASSUME RunnerInductive, main = "collect"
  PROVE  /\ Len(results) = 0 /\ Len(reported) = 0 /\ Len(events) = 0
         /\ \A p \in Pkgs : worker[p] = "idle" /\ cur[p] = 1
<1>0. TypeOK /\ Launched /\ Tabled /\ Unstarted /\ Matched
  BY DEF RunnerInductive, VerdictInv, LedgerInv, SlotInv, EventInv
<1>1. Len(results) = 0 /\ Len(reported) = 0
  BY <1>0 DEF Tabled
<1>2. \A k \in 1..Len(events) : FALSE
  BY <1>0, <1>1 DEF Matched
<1>3. Len(events) = 0
  <2>1. Len(events) \in Nat
    BY <1>0 DEF TypeOK
  <2> QED
    BY <1>2, <2>1
<1> QED
  BY <1>0, <1>1, <1>3 DEF Launched, Unstarted

\* A package's mutants are laid out behind those of the packages before it.
LEMMA CollectStep ==
  ASSUME RunnerInductive, Collect
  PROVE  SlotInv' /\ EventInv'
<1>0. /\ TypeOK /\ MutexHeld /\ Layout /\ Tabled /\ Unstarted /\ Accounted /\ Stored
      /\ Excused /\ Outstanding /\ Swept /\ QuietSweep /\ SlotOwnership
      /\ Numbered /\ Matched /\ Summed /\ Carried
  BY DEF RunnerInductive, VerdictInv, LedgerInv, SlotInv, EventInv
<1>1. /\ main = "collect" /\ main' = "collect" /\ next' = next + 1
      /\ UNCHANGED <<ctx, summary, results, reported, done, mu, events, worker, cur, verdict>>
  BY DEF Collect, tableVars, workVars
<1>2. /\ Len(results) = 0 /\ Len(reported) = 0 /\ Len(events) = 0
      /\ \A p \in Pkgs : worker[p] = "idle" /\ cur[p] = 1
  BY <1>1, NoTable
<1>3. next \in Pkgs /\ next \in Nat
  BY <1>0, RunnerAssumption DEF Collect, TypeOK, Pkgs
<1>4. /\ offset'[next] = Len(allPoints)
      /\ \A p \in Pkgs \ {next} : offset'[p] = offset[p]
  BY <1>0, <1>3 DEF Collect, TypeOK
<1>5. /\ Len(allPoints) \in Nat /\ Size[next] \in Nat
      /\ Len(allPoints') = Len(allPoints) + Size[next]
      /\ \A s \in 1..Len(allPoints) : allPoints'[s] = allPoints[s]
      /\ \A i \in 1..Size[next] : allPoints'[Len(allPoints) + i] = <<next, i>>
  <2>1. /\ Mutations(next) \in Seq(Mutants) /\ allPoints \in Seq(Mutants)
        /\ Size[next] \in Nat
    BY <1>0, <1>3, MutationsType, RunnerAssumption DEF TypeOK
  <2>2. /\ Len(Mutations(next)) = Size[next]
        /\ \A i \in 1..Size[next] : Mutations(next)[i] = <<next, i>>
    BY <2>1 DEF Mutations
  <2>3. allPoints' = allPoints \o Mutations(next)
    BY DEF Collect
  <2>4. Len(allPoints') = Len(allPoints) + Size[next] /\ Len(allPoints) \in Nat
    BY <2>1, <2>2, <2>3
  <2>5. \A s \in 1..Len(allPoints) : allPoints'[s] = allPoints[s]
    BY <2>1, <2>3
  <2>6. \A i \in 1..Size[next] : allPoints'[Len(allPoints) + i] = <<next, i>>
    <3> TAKE i \in 1..Size[next]
    <3>1. allPoints'[Len(allPoints) + i] = Mutations(next)[i]
      BY <2>1, <2>2, <2>3, <2>4
    <3> QED
      BY <2>2, <3>1
  <2> QED
    BY <2>1, <2>4, <2>5, <2>6
<1>6. Placed' = Placed \cup {next} /\ next \notin Placed /\ Placed \subseteq Pkgs
  BY <1>1, <1>3 DEF Placed, Pkgs
<1>7. Layout'
  <2>1. ASSUME NEW p \in Placed'
        PROVE  /\ offset'[p] + Size[p] <= Len(allPoints')
               /\ \A i \in 1..Size[p] : allPoints'[offset'[p] + i] = <<p, i>>
    <3>1. CASE p = next
      <4>1. offset'[p] = Len(allPoints) /\ Size[p] = Size[next]
        BY <1>4, <3>1
      <4> QED
        BY <1>5, <3>1, <4>1
    <3>2. CASE p # next
      <4>1. p \in Placed /\ offset'[p] = offset[p] /\ offset[p] \in Nat /\ Size[p] \in Nat
        BY <1>0, <1>4, <1>6, <3>2, RunnerAssumption DEF TypeOK
      <4>2. /\ offset[p] + Size[p] <= Len(allPoints)
            /\ \A i \in 1..Size[p] : allPoints[offset[p] + i] = <<p, i>>
        BY <1>0, <4>1 DEF Layout
      <4>3. \A i \in 1..Size[p] : offset[p] + i \in 1..Len(allPoints)
        BY <1>5, <4>1, <4>2
      <4>4. \A i \in 1..Size[p] : allPoints'[offset'[p] + i] = <<p, i>>
        BY <1>5, <4>1, <4>2, <4>3
      <4>5. offset'[p] + Size[p] <= Len(allPoints')
        BY <1>5, <4>1, <4>2
      <4> QED
        BY <4>4, <4>5
    <3> QED
      BY <3>1, <3>2
  <2>2. ASSUME NEW s \in 1..Len(allPoints')
        PROVE  /\ allPoints'[s][1] \in Placed'
               /\ offset'[allPoints'[s][1]] + allPoints'[s][2] = s
    <3>1. CASE s \in 1..Len(allPoints)
      <4>1. /\ allPoints[s][1] \in Placed
            /\ offset[allPoints[s][1]] + allPoints[s][2] = s
        BY <1>0, <3>1 DEF Layout, SlotOf
      <4> QED
        BY <1>4, <1>5, <1>6, <3>1, <4>1
    <3>2. CASE s \notin 1..Len(allPoints)
      <4>1. PICK i \in 1..Size[next] : s = Len(allPoints) + i
        <5>1. s - Len(allPoints) \in 1..Size[next]
              /\ s = Len(allPoints) + (s - Len(allPoints))
          BY <1>5, <3>2
        <5> QED
          BY <5>1
      <4>2. allPoints'[s] = <<next, i>>
        BY <1>5, <4>1
      <4> QED
        BY <1>4, <1>6, <4>1, <4>2
    <3> QED
      BY <3>1, <3>2
  <2> QED
    BY <2>1, <2>2 DEF Layout, SlotOf
<1>8. MutexHeld' /\ Unstarted' /\ Tabled' /\ Accounted'
  BY <1>0, <1>1 DEF MutexHeld, Unstarted, Tabled, Accounted
<1>9. Stored' /\ Carried' /\ Excused' /\ Outstanding' /\ Swept' /\ QuietSweep'
  BY <1>0, <1>1, <1>2 DEF Stored, Carried, Excused, Outstanding, Swept, QuietSweep, Over
<1>10. SlotOwnership'
  <2>1. DOMAIN results = 1..0
    BY <1>0, <1>2 DEF TypeOK
  <2> QED
    BY <1>1, <2>1 DEF SlotOwnership
<1>11. Numbered' /\ Matched' /\ Summed'
  BY <1>0, <1>1, <1>2 DEF Numbered, Matched, Summed
<1> QED
  BY <1>7, <1>8, <1>9, <1>10, <1>11 DEF SlotInv, EventInv

\* The table is made: every mutant in its slot, canceled and not reported.
LEMMA PrefillStep ==
  ASSUME RunnerInductive, Prefill
  PROVE  SlotInv' /\ EventInv'
<1>0. /\ TypeOK /\ MutexHeld /\ Layout /\ Unstarted /\ Outstanding /\ Numbered
  BY DEF RunnerInductive, VerdictInv, LedgerInv, SlotInv, EventInv
<1>1. /\ main = "collect" /\ main' = "launch"
      /\ UNCHANGED <<ctx, offset, allPoints, summary, done, mu, events, worker, cur, verdict>>
  BY DEF Prefill, workVars
<1>2. /\ Len(results) = 0 /\ Len(reported) = 0 /\ Len(events) = 0
      /\ \A p \in Pkgs : worker[p] = "idle" /\ cur[p] = 1
  BY <1>1, NoTable
<1>3. /\ DOMAIN results' = 1..Len(allPoints) /\ Len(results') = Len(allPoints)
      /\ Len(reported') = Len(allPoints)
      /\ \A s \in 1..Len(allPoints) : /\ results'[s].point = allPoints[s]
                                      /\ results'[s].status = "canceled"
                                      /\ ~reported'[s]
  BY <1>0 DEF Prefill, TypeOK
<1>4. Placed = Placed'
  BY <1>0, <1>1, RunnerAssumption DEF Prefill, Placed, Pkgs, TypeOK
<1>5. Layout'
  BY <1>0, <1>1, <1>4 DEF Layout, SlotOf
<1>6. Tabled' /\ SlotOwnership' /\ Excused' /\ Swept'
  BY <1>1, <1>3 DEF Tabled, SlotOwnership, Excused, Swept
<1>7. Accounted'
  <2> SUFFICES ASSUME NEW p \in Pkgs, NEW i \in 1..Size[p]
               PROVE  /\ ~Announced(p, i)' /\ ~reported'[offset[p] + i]
                      /\ results'[offset[p] + i].status = "canceled"
    BY <1>1 DEF Accounted
  <2>1. ~Announced(p, i)'
    BY <1>1, <1>2, RunnerAssumption DEF Announced
  <2>2. p \in Placed' /\ offset[p] \in Nat /\ Size[p] \in Nat /\ Len(allPoints) \in Nat
    BY <1>0, <1>1, RunnerAssumption DEF TypeOK, Placed
  <2>3. offset[p] + i \in 1..Len(allPoints)
    BY <1>1, <1>5, <2>2 DEF Layout
  <2> QED
    BY <1>3, <2>1, <2>3
<1>8. MutexHeld' /\ Unstarted' /\ Stored' /\ Carried' /\ Outstanding' /\ QuietSweep'
  BY <1>0, <1>1, <1>2
     DEF MutexHeld, Unstarted, Stored, Carried, Outstanding, QuietSweep, Over
<1>9. Numbered' /\ Summed'
  BY <1>0, <1>1 DEF Numbered, Summed
<1>10. Matched'
  BY <1>1, <1>2, <1>3 DEF Matched
<1> QED
  BY <1>5, <1>6, <1>7, <1>8, <1>9, <1>10 DEF SlotInv, EventInv

\* A worker is started, or the launch loop ends.
LEMMA LaunchStep ==
  ASSUME RunnerInductive, Launch \/ StopLaunching
  PROVE  SlotInv' /\ EventInv'
<1>0. /\ TypeOK /\ Launched
      /\ MutexHeld /\ Layout /\ Tabled /\ Unstarted /\ Accounted /\ Stored
      /\ Excused /\ Outstanding /\ Swept /\ QuietSweep /\ SlotOwnership
      /\ Numbered /\ Matched /\ Summed /\ Carried
  BY DEF RunnerInductive, VerdictInv, LedgerInv, SlotInv, EventInv
<1>1. /\ main = "launch" /\ main' \in {"launch", "wait"}
      /\ UNCHANGED <<ctx, offset, allPoints, summary, cur, verdict>>
      /\ UNCHANGED <<results, reported, done, mu, events>>
  BY DEF Launch, StopLaunching, tableVars, workVars
<1>2. \A p \in Pkgs : worker'[p] = worker[p]
                      \/ (worker[p] = "idle" /\ worker'[p] = "loop")
  <2>1. CASE Launch
    <3>1. next \in Pkgs /\ worker[next] = "idle"
      BY <1>0, <2>1, RunnerAssumption DEF Launch, TypeOK, Pkgs, Launched
    <3> QED
      BY <1>0, <2>1, <3>1 DEF Launch, Goto, TypeOK
  <2>2. CASE StopLaunching
    BY <2>2 DEF StopLaunching, workVars
  <2> QED
    BY <2>1, <2>2
<1>3. \A p \in Pkgs : main' = "wait" /\ worker'[p] = "idle" => ctx
  BY <1>0, <1>1, RunnerAssumption
     DEF Launch, StopLaunching, Launched, workVars, TypeOK, Pkgs
<1>4. MutexHeld' /\ Unstarted' /\ Layout' /\ Tabled' /\ SlotOwnership'
  BY <1>0, <1>1, <1>2
     DEF MutexHeld, Unstarted, Layout, Placed, SlotOf, Tabled, SlotOwnership
<1>5. Accounted'
  <2>1. \A p \in Pkgs : \A i \in 1..Size[p] : Announced(p, i)' <=> Announced(p, i)
    BY <1>1, <1>2 DEF Announced
  <2>2. \A p \in Pkgs : worker[p] = "report" => worker'[p] = "report"
    BY <1>2
  <2> QED
    BY <1>0, <1>1, <2>1, <2>2 DEF Accounted
<1>6. Stored' /\ Carried'
  <2>1. \A p \in Pkgs : worker'[p] \in {"report", "progress"} => worker'[p] = worker[p]
    BY <1>2
  <2> QED
    BY <1>0, <1>1, <2>1 DEF Stored, Carried, Slot
<1>7. Excused' /\ Swept' /\ QuietSweep'
  BY <1>0, <1>1 DEF Excused, Swept, QuietSweep
<1>8. Outstanding'
  BY <1>0, <1>1, <1>2, <1>3 DEF Outstanding, Over
<1>9. Numbered' /\ Matched' /\ Summed'
  BY <1>0, <1>1 DEF Numbered, Matched, Summed, Pending, Slot
<1> QED
  BY <1>4, <1>5, <1>6, <1>7, <1>8, <1>9 DEF SlotInv, EventInv

\* When the wait group is at zero every worker that was started is gone, the
\* tokens are back and the mutex is free.
LEMMA WaitStep ==
  ASSUME RunnerInductive, Wait
  PROVE  SlotInv' /\ EventInv'
<1>0. /\ TypeOK /\ Counted
      /\ MutexHeld /\ Layout /\ Tabled /\ Unstarted /\ Accounted /\ Stored
      /\ Excused /\ Outstanding /\ Swept /\ QuietSweep /\ SlotOwnership
      /\ Numbered /\ Matched /\ Summed /\ Carried
  BY DEF RunnerInductive, VerdictInv, LedgerInv, SlotInv, EventInv
<1>1. /\ main = "wait" /\ main' = "sweep" /\ wg = 0 /\ next' = 1
      /\ UNCHANGED <<ctx, offset, allPoints, summary, cur, verdict, worker, sem>>
      /\ UNCHANGED <<results, reported, done, mu, events>>
  BY DEF Wait, tableVars, workVars, poolVars
<1>2. \A p \in Pkgs : worker[p] \in {"idle", "gone"}
  <2>1. Members \in SUBSET Pkgs /\ Cardinality(Members) = 0
    BY <1>0, <1>1 DEF Counted, Members
  <2>2. \A p \in Pkgs : p \notin Members
    <3> SUFFICES ASSUME NEW p \in Pkgs, p \in Members PROVE FALSE
      OBVIOUS
    <3>1. Cardinality(Members) > 0
      BY <2>1, CountStep
    <3> QED
      BY <2>1, <3>1
  <2> QED
    BY <2>2 DEF Members
<1>3. sem = 0
  <2>1. Holders = {}
    BY <1>2 DEF Holders
  <2> QED
    BY <1>0, <2>1, FS_EmptySet DEF Counted
<1>4. mu = 0
  BY <1>0, <1>2 DEF MutexHeld, TypeOK
<1>5. QuietSweep'
  BY <1>1, <1>2, <1>3, <1>4 DEF QuietSweep
<1>6. MutexHeld' /\ Unstarted' /\ Layout' /\ Tabled' /\ SlotOwnership'
  BY <1>0, <1>1 DEF MutexHeld, Unstarted, Layout, Placed, SlotOf, Tabled, SlotOwnership
<1>7. Accounted' /\ Stored' /\ Carried'
  BY <1>0, <1>1 DEF Accounted, Announced, Stored, Carried, Slot
<1>8. Excused' /\ Outstanding' /\ Swept'
  BY <1>0, <1>1 DEF Excused, Outstanding, Swept
<1>9. Numbered' /\ Matched' /\ Summed'
  BY <1>0, <1>1 DEF Numbered, Matched, Summed, Pending, Slot
<1> QED
  BY <1>5, <1>6, <1>7, <1>8, <1>9 DEF SlotInv, EventInv
\* The sweep announces as canceled what no worker announced; only an interrupt
\* leaves it such a slot.
LEMMA SweepStep ==
  ASSUME RunnerInductive, Sweep
  PROVE  SlotInv' /\ EventInv'
<1>0. /\ TypeOK /\ MutexHeld /\ Layout /\ Tabled /\ Unstarted /\ Accounted /\ Stored
      /\ Excused /\ Outstanding /\ Swept /\ QuietSweep /\ SlotOwnership
      /\ Numbered /\ Matched /\ Summed /\ Carried
  BY DEF RunnerInductive, VerdictInv, LedgerInv, SlotInv, EventInv
<1>1. /\ main = "sweep" /\ main' = "sweep" /\ next' = next + 1
      /\ next \in 1..Len(results) /\ next \in 1..Len(reported)
      /\ UNCHANGED <<ctx, offset, allPoints, summary, cur, verdict, worker, sem>>
      /\ UNCHANGED <<results, mu>>
  BY <1>0 DEF Sweep, workVars, poolVars, TypeOK, Tabled
<1>2. (\A p \in Pkgs : worker[p] \in {"idle", "gone"}) /\ mu = 0
  BY <1>0, <1>1 DEF QuietSweep
<1>3. /\ Len(reported') = Len(reported) /\ reported'[next]
      /\ \A s \in 1..Len(reported) : s # next => reported'[s] = reported[s]
  <2>1. CASE reported[next]
    BY <1>1, <2>1 DEF Sweep
  <2>2. CASE ~reported[next]
    <3>1. reported' = [reported EXCEPT ![next] = TRUE] /\ reported \in Seq(BOOLEAN)
      BY <1>0, <2>2 DEF Sweep, TypeOK
    <3> QED
      BY <1>1, <3>1, SeqUpdate
  <2> QED
    BY <2>1, <2>2
<1>4. ~reported[next] => results[next].status = "canceled" /\ ctx
  <2> HAVE ~reported[next]
  <2>1. next \in 1..Len(allPoints)
    BY <1>0, <1>1 DEF Tabled
  <2>2. PICK p \in Pkgs : \E i \in 1..Size[p] : next = offset[p] + i
    BY <2>1, SlotHasMutant
  <2>3. PICK i \in 1..Size[p] : next = offset[p] + i
    BY <2>2
  <2>4. ~Announced(p, i) /\ results[next].status = "canceled"
    BY <1>0, <1>1, <1>2, <2>3 DEF Accounted
  <2>5. cur[p] \in Nat /\ cur[p] <= Size[p] /\ Size[p] \in Nat
    BY <1>0, <2>4, RunnerAssumption DEF Announced, TypeOK
  <2>6. ctx
    BY <1>0, <1>1, <1>2, <2>5 DEF Outstanding, Over
  <2> QED
    BY <2>4, <2>6
<1>5. MutexHeld' /\ Unstarted' /\ Layout' /\ Tabled' /\ SlotOwnership'
  BY <1>0, <1>1, <1>3
     DEF MutexHeld, Unstarted, Layout, Placed, SlotOf, Tabled, SlotOwnership
<1>6. Accounted'
  <2> SUFFICES ASSUME NEW p \in Pkgs, NEW i \in 1..Size[p]
               PROVE  LET s == offset[p] + i IN
                      /\ Announced(p, i)' => reported'[s]
                      /\ ~reported'[s] /\ results[s].status # "canceled" =>
                           i = cur[p] /\ worker[p] = "report"
    BY <1>1 DEF Accounted
  <2>1. offset[p] + i \in 1..Len(reported)
    BY <1>1, SlotOfMutant
  <2>2. reported[offset[p] + i] => reported'[offset[p] + i]
    BY <1>3, <2>1
  <2>3. Announced(p, i)' <=> Announced(p, i)
    BY <1>1 DEF Announced
  <2> QED
    BY <1>0, <1>1, <2>2, <2>3 DEF Accounted
<1>7. Stored' /\ Carried' /\ Outstanding' /\ QuietSweep'
  BY <1>0, <1>1 DEF Stored, Carried, Slot, Outstanding, QuietSweep
<1>8. Excused' /\ Swept'
  BY <1>0, <1>1, <1>3, <1>4 DEF Excused, Swept, TypeOK
<1>9. Summed'
  BY <1>1 DEF Summed
<1>10. Numbered' /\ Matched'
  <2>1. CASE reported[next]
    <3>1. UNCHANGED <<events, done, reported>>
      BY <2>1 DEF Sweep
    <3> QED
      BY <1>0, <1>1, <3>1 DEF Numbered, Matched, Pending, Slot
  <2>2. CASE ~reported[next]
    <3> DEFINE e == [slot |-> next, done |-> done + 1, status |-> results[next].status]
    <3>1. events' = Append(events, e) /\ done' = done + 1
      BY <2>2 DEF Sweep
    <3>2. e.slot = next /\ e.status = results[next].status /\ e.done = done + 1
      OBVIOUS
    <3> HIDE DEF e
    <3>3. /\ Len(events') = Len(events) + 1 /\ events'[Len(events) + 1] = e
          /\ \A k \in 1..Len(events) : events'[k] = events[k]
          /\ Len(events) \in Nat
      BY <1>0, <3>1 DEF TypeOK
    <3>4. Numbered'
      <4>1. done = Len(events)
        BY <1>0, <1>2, <3>3 DEF Numbered
      <4> QED
        BY <1>0, <1>1, <1>2, <3>1, <3>2, <3>3, <4>1 DEF Numbered
    <3>5. (\A s : ~Pending(s)) /\ (\A s : ~Pending(s)')
      BY <1>1, <1>2 DEF Pending
    <3>6. \A k \in 1..Len(events) :
            /\ events[k].slot \in 1..Len(reported) /\ reported[events[k].slot]
            /\ events[k].slot # next
            /\ events[k].status = results[events[k].slot].status
      BY <1>0, <2>2 DEF Matched
    <3>7. ASSUME NEW k \in 1..Len(events')
          PROVE  LET s == events'[k].slot IN
                 /\ s \in 1..Len(reported) /\ reported'[s]
                 /\ events'[k].status = results[s].status
      BY <1>1, <1>3, <3>2, <3>3, <3>6
    <3>8. ASSUME NEW j \in 1..Len(events'), NEW k \in 1..Len(events'),
                 events'[j].slot = events'[k].slot
          PROVE  j = k
      BY <1>0, <3>2, <3>3, <3>6, <3>8 DEF Matched
    <3>9. ASSUME NEW s \in 1..Len(reported), reported'[s]
          PROVE  \E k \in 1..Len(events') : events'[k].slot = s
      <4>1. CASE s = next
        BY <3>2, <3>3, <4>1
      <4>2. CASE s # next
        <5>1. PICK k \in 1..Len(events) : events[k].slot = s
          BY <1>0, <1>3, <3>5, <3>9, <4>2 DEF Matched
        <5> QED
          BY <3>3, <5>1
      <4> QED
        BY <4>1, <4>2
    <3>10. Matched'
      BY <1>1, <1>3, <3>5, <3>7, <3>8, <3>9 DEF Matched
    <3> QED
      BY <3>4, <3>10
  <2> QED
    BY <2>1, <2>2
<1> QED
  BY <1>5, <1>6, <1>7, <1>8, <1>9, <1>10 DEF SlotInv, EventInv

\* The summary counts the table, which is complete.
LEMMA ReturnStep ==
  ASSUME RunnerInductive, Return
  PROVE  SlotInv' /\ EventInv'
<1>0. /\ TypeOK /\ MutexHeld /\ Layout /\ Tabled /\ Unstarted /\ Accounted /\ Stored
      /\ Excused /\ Outstanding /\ Swept /\ QuietSweep /\ SlotOwnership
      /\ Numbered /\ Matched /\ Summed /\ Carried
  BY DEF RunnerInductive, VerdictInv, LedgerInv, SlotInv, EventInv
<1>1. /\ main = "sweep" /\ main' = "returned" /\ next > Len(results)
      /\ summary' = [v \in Verdicts |-> Count(v)]
      /\ UNCHANGED <<ctx, next, offset, allPoints, cur, verdict, worker, sem>>
      /\ UNCHANGED <<results, reported, done, mu, events>>
  BY DEF Return, tableVars, workVars, poolVars
<1>2. MutexHeld' /\ Unstarted' /\ Layout' /\ Tabled' /\ SlotOwnership'
  BY <1>0, <1>1 DEF MutexHeld, Unstarted, Layout, Placed, SlotOf, Tabled, SlotOwnership
<1>3. Accounted' /\ Stored' /\ Carried' /\ Excused' /\ Outstanding' /\ QuietSweep'
  BY <1>0, <1>1
     DEF Accounted, Announced, Stored, Carried, Slot, Excused, Outstanding, QuietSweep
<1>4. Swept'
  BY <1>0, <1>1 DEF Swept, Tabled, TypeOK
<1>5. Numbered' /\ Matched'
  BY <1>0, <1>1 DEF Numbered, Matched, Pending, Slot
<1>6. Summed'
  BY <1>1 DEF Summed, Count
<1> QED
  BY <1>2, <1>3, <1>4, <1>5, <1>6 DEF SlotInv, EventInv

-----------------------------------------------------------------------------
(***************************************************************************)
(* The inductive invariant.                                                *)
(***************************************************************************)
\* Init establishes it.
LEMMA RunnerInit == Init => RunnerInductive
<1> SUFFICES ASSUME Init PROVE RunnerInductive
  OBVIOUS
<1>1. VerdictInv
  BY VerdictInit
<1>2. Placed = {}
  BY DEF Init, Placed, Pkgs
<1>3. Layout
  BY <1>2 DEF Init, Layout
<1>4. MutexHeld /\ Tabled /\ Unstarted /\ Accounted /\ Stored /\ Excused
  BY DEF Init, MutexHeld, Tabled, Unstarted, Accounted, Stored, Excused, Pkgs
<1>5. Outstanding /\ Swept /\ QuietSweep /\ SlotOwnership
  BY DEF Init, Outstanding, Over, Swept, QuietSweep, SlotOwnership
<1>6. EventInv
  BY DEF Init, EventInv, Numbered, Matched, Summed, Carried
<1> QED
  BY <1>1, <1>3, <1>4, <1>5, <1>6 DEF RunnerInductive, SlotInv

\* Every step keeps it.
LEMMA RunnerStep ==
  ASSUME RunnerInductive, [Next]_vars
  PROVE  RunnerInductive'
<1>1. VerdictInv'
  BY VerdictStep DEF RunnerInductive
<1>2. CASE \/ Interrupt \/ Returned \/ UNCHANGED vars
           \/ \E p \in Pkgs : 
                \/ Propagate(p) \/ Expire(p) \/ Process(p)
                \/ NextMutant(p) \/ Enter(p) \/ Start(p) \/ StartFails(p)
                \/ JudgeCanceled(p) \/ JudgeDeadline(p) \/ Release(p) \/ Leave(p)
  <2>1. Aside
    BY <1>2, AsideSteps DEF Returned
  <2> QED
    BY <1>1, <2>1, AsideSlots, AsideEvents DEF RunnerInductive
<1>3. ASSUME NEW p \in Pkgs, Store(p) \/ Report(p) \/ Progress(p)
      PROVE  RunnerInductive'
  BY <1>1, <1>3, StoreStep, ReportStep, ProgressStep DEF RunnerInductive
<1>4. CASE Caller
  BY <1>1, <1>4, CollectStep, PrefillStep, LaunchStep, WaitStep, SweepStep, ReturnStep
     DEF RunnerInductive, Caller
<1> QED
  BY <1>2, <1>3, <1>4 DEF Next, Goroutine

\* The parts of the inductive invariant hold together in every reachable state:
\* the slots, the mutex, the launch loop, the sweep and the progress events.
THEOREM RunnerInvariant == Spec => []RunnerInductive
<1>1. RunnerInductive /\ [Next]_vars => RunnerInductive'
  BY RunnerStep
<1> QED
  BY <1>1, RunnerInit, PTL DEF Spec

\* Each slot belongs to one mutant for the whole run: results are written
\* through job.offset and never into another package's slots.
THEOREM SlotsOwned == Spec => []SlotOwnership
<1>1. RunnerInductive => SlotOwnership
  BY DEF RunnerInductive, SlotInv
<1> QED
  BY <1>1, RunnerInvariant, PTL

\* When the caller reads results and reported without the mutex, every worker is
\* gone, every token is back and the mutex is free.
THEOREM SweepIsQuiet == Spec => []QuietSweep
<1>1. RunnerInductive => QuietSweep
  BY DEF RunnerInductive, SlotInv
<1> QED
  BY <1>1, RunnerInvariant, PTL
\* Without an interrupt nothing is skipped: when RunInstrumented returns every
\* mutant's test run has come to an end and none is reported as canceled.
THEOREM UninterruptedRunsComplete == Spec => []UninterruptedIsComplete
<1>1. RunnerInductive => UninterruptedIsComplete
  <2> SUFFICES ASSUME RunnerInductive, main = "returned", ~ctx
               PROVE  /\ \A m \in Mutants : truth[m] # "none"
                      /\ \A s \in DOMAIN results : results[s].status # "canceled"
    BY DEF UninterruptedIsComplete
  <2>0. TypeOK /\ Tabled /\ Excused /\ Swept /\ SlotOwnership /\ VerdictsSound
    BY DEF RunnerInductive, VerdictInv, LedgerInv, SlotInv
  <2>1. DOMAIN results = 1..Len(results) /\ Len(reported) = Len(results)
    BY <2>0 DEF TypeOK, Tabled
  <2>2. \A s \in DOMAIN results : results[s].status # "canceled"
    BY <2>0, <2>1 DEF Swept, Excused
  <2>3. ASSUME NEW p \in Pkgs, NEW i \in 1..Size[p] PROVE truth[<<p, i>>] # "none"
    <3>1. /\ offset[p] + i \in DOMAIN results
          /\ allPoints[offset[p] + i] = <<p, i>>
      BY <2>1, SlotOfMutant
    <3> DEFINE r == results[offset[p] + i]
    <3>2. r.point = <<p, i>> /\ Promise!Justifies(truth[r.point], r.status)
      BY <2>0, <3>1 DEF SlotOwnership, VerdictsSound
    <3>3. r.status \in Verdicts /\ r.status # "canceled"
      <4>1. r \in Result
        BY <2>0, <3>1 DEF TypeOK
      <4> QED
        BY <2>2, <3>1, <4>1 DEF Result
    <3> HIDE DEF r
    <3> QED
      BY <3>2, <3>3, JustifiesEnding
  <2> QED
    BY <2>2, <2>3 DEF Mutants
<1> QED
  BY <1>1, RunnerInvariant, PTL

\* Two finite sets have the same size when a function maps each element of one to
\* an element of the other, different ones to different ones, and leaves none out.
LEMMA SameSize ==
  ASSUME NEW S, NEW T, IsFiniteSet(S), NEW f \in [S -> T],
         \A a, b \in S : f[a] = f[b] => a = b,
         \A t \in T : \E s \in S : f[s] = t
  PROVE  Cardinality(S) = Cardinality(T)
<1>1. f \in Injection(S, T) /\ f \in Surjection(S, T)
  BY DEF Injection, IsInjective, Surjection
<1>2. f \in Bijection(S, T)
  BY <1>1 DEF Bijection
<1>3. ExistsBijection(S, T)
  BY <1>2 DEF ExistsBijection
<1> QED
  BY <1>3, FS_Bijection

\* The callback sees 1, 2, 3, ... even when workers finish together, and when
\* RunInstrumented returns each slot has been announced exactly once, with the
\* status the summary counts for it.
THEOREM StreamIsFaithful == Spec => []StreamFaithful
<1>1. RunnerInductive => StreamFaithful
  <2> SUFFICES ASSUME RunnerInductive PROVE StreamFaithful
    OBVIOUS
  <2>0. TypeOK /\ Tabled /\ Swept /\ QuietSweep /\ Numbered /\ Matched /\ Summed
    BY DEF RunnerInductive, VerdictInv, LedgerInv, SlotInv, EventInv
  <2>1. /\ DOMAIN results = 1..Len(results) /\ Len(reported) = Len(results)
        /\ DOMAIN events = 1..Len(events) /\ Len(events) \in Nat
    BY <2>0 DEF TypeOK, Tabled
  <2>2. \A k \in DOMAIN events : events[k].done = k
    BY <2>0, <2>1 DEF Numbered
  <2>3. ASSUME main = "returned"
        PROVE  /\ \A s \in DOMAIN results :
                    /\ Cardinality({k \in DOMAIN events : events[k].slot = s}) = 1
                    /\ \E k \in DOMAIN events : /\ events[k].slot = s
                                                /\ events[k].status = results[s].status
               /\ \A v \in Verdicts :
                    summary[v] = Cardinality({k \in DOMAIN events :
                                                events[k].status = v})
    <3>1. \A k \in DOMAIN events : /\ events[k].slot \in DOMAIN results
                                   /\ events[k].status = results[events[k].slot].status
      BY <2>0, <2>1 DEF Matched
    <3>2. \A j, k \in DOMAIN events : events[j].slot = events[k].slot => j = k
      BY <2>0, <2>1 DEF Matched
    <3>3. \A s \in DOMAIN results : \E k \in DOMAIN events : events[k].slot = s
      <4>1. mu = 0
        BY <2>0, <2>3 DEF QuietSweep
      <4> QED
        BY <2>0, <2>1, <2>3, <4>1 DEF Swept, Matched, Pending
    <3>4. ASSUME NEW s \in DOMAIN results
          PROVE  /\ Cardinality({k \in DOMAIN events : events[k].slot = s}) = 1
                 /\ \E k \in DOMAIN events : /\ events[k].slot = s
                                             /\ events[k].status = results[s].status
      <4>1. PICK k \in DOMAIN events : events[k].slot = s
        BY <3>3
      <4>2. {j \in DOMAIN events : events[j].slot = s} = {k}
        BY <3>2, <4>1
      <4> QED
        BY <3>1, <4>1, <4>2, FS_Singleton
    <3>5. ASSUME NEW v \in Verdicts
          PROVE  summary[v] = Cardinality({k \in DOMAIN events : events[k].status = v})
      <4> DEFINE K == {k \in DOMAIN events : events[k].status = v}
      <4> DEFINE S == {s \in 1..Len(results) : results[s].status = v}
      <4> DEFINE f == [k \in K |-> events[k].slot]
      <4>1. IsFiniteSet(K)
        <5>1. IsFiniteSet(DOMAIN events)
          BY <2>1, FS_Interval
        <5> QED
          BY <5>1, FS_Subset
      <4>2. f \in [K -> S] /\ (\A a, b \in K : f[a] = f[b] => a = b)
        BY <2>1, <3>1, <3>2
      <4>3. \A s \in S : \E k \in K : f[k] = s
        BY <2>1, <3>1, <3>3
      <4>4. summary[v] = Cardinality(S)
        BY <2>0, <2>3 DEF Summed, Count
      <4> HIDE DEF K, S, f
      <4>5. Cardinality(K) = Cardinality(S)
        BY <4>1, <4>2, <4>3, SameSize
      <4> QED
        BY <4>4, <4>5 DEF K
    <3> QED
      BY <3>4, <3>5
  <2> QED
    BY <2>2, <2>3 DEF StreamFaithful
<1> QED
  BY <1>1, RunnerInvariant, PTL
-----------------------------------------------------------------------------
(***************************************************************************)
(* The promise of Campaign.                                                *)
(***************************************************************************)
\* What the caller has been told, as Campaign sees it.
Told == [m \in Mutants |-> Outcome(m)]

\* Nothing has been told in the initial states.
LEMMA PromiseInit == Init => Promise!Init
BY DEF Init, Promise!Init, Outcome

\* A mutant is pending exactly as long as its slot is not reported.
LEMMA OutcomeOf ==
  ASSUME RunnerInductive, NEW p \in Pkgs, NEW i \in 1..Size[p]
  PROVE  /\ <<p, i>> \in Mutants
         /\ main = "collect" \/ ~reported[offset[p] + i] => Outcome(<<p, i>>) = "pending"
         /\ main # "collect" /\ reported[offset[p] + i] =>
              Outcome(<<p, i>>) = results[offset[p] + i].status
<1>1. <<p, i>> \in Mutants
  BY DEF Mutants
<1>2. SlotOf(<<p, i>>) = offset[p] + i
  BY DEF SlotOf
<1> QED
  BY <1>1, <1>2 DEF Outcome

\* A step that neither reports a slot nor changes a reported one tells nothing.
LEMMA ToldNothing ==
  ASSUME RunnerInductive, RunnerInductive',
         main # "collect", main' # "collect", offset' = offset,
         \A s \in 1..Len(reported) : /\ reported'[s] <=> reported[s]
                                     /\ reported[s] => results'[s] = results[s]
  PROVE  Told' = Told
<1>1. ASSUME NEW p \in Pkgs, NEW i \in 1..Size[p]
      PROVE  Outcome(<<p, i>>)' = Outcome(<<p, i>>)
  <2>1. offset[p] + i \in 1..Len(reported)
    BY SlotOfMutant
  <2>2. SlotOf(<<p, i>>)' = offset[p] + i /\ SlotOf(<<p, i>>) = offset[p] + i
    BY DEF SlotOf
  <2> QED
    BY <2>1, <2>2 DEF Outcome
<1>2. \A m \in Mutants : Outcome(m)' = Outcome(m)
  BY <1>1 DEF Mutants
<1> QED
  BY <1>2 DEF Told

\* A step that reports one slot announces its mutant, with the status stored there.
LEMMA ToldOne ==
  ASSUME RunnerInductive, RunnerInductive', UNCHANGED <<main, offset, results>>,
         main # "collect", NEW s \in 1..Len(reported), ~reported[s], reported'[s],
         \A r \in 1..Len(reported) : r # s => (reported'[r] <=> reported[r])
  PROVE  /\ allPoints[s] \in Mutants
         /\ Told[allPoints[s]] = "pending"
         /\ Told' = [Told EXCEPT ![allPoints[s]] = results[s].status]
<1>1. s \in 1..Len(allPoints)
  BY DEF RunnerInductive, SlotInv, Tabled
<1>2. PICK p \in Pkgs : \E i \in 1..Size[p] : allPoints[s] = <<p, i>> /\ s = offset[p] + i
  BY <1>1, SlotHasMutant
<1>3. PICK i \in 1..Size[p] : allPoints[s] = <<p, i>> /\ s = offset[p] + i
  BY <1>2
<1>4. <<p, i>> \in Mutants /\ Outcome(<<p, i>>) = "pending"
  BY <1>3, OutcomeOf
<1>5. Outcome(<<p, i>>)' = results[s].status
  BY <1>3 DEF Outcome, SlotOf
<1>6. ASSUME NEW q \in Pkgs, NEW j \in 1..Size[q], <<q, j>> # <<p, i>>
      PROVE  Outcome(<<q, j>>)' = Outcome(<<q, j>>)
  <2>1. offset[q] + j # s /\ offset[q] + j \in 1..Len(reported)
    BY <1>3, <1>6, SlotUnique, SlotOfMutant
  <2>2. SlotOf(<<q, j>>)' = offset[q] + j /\ SlotOf(<<q, j>>) = offset[q] + j
    BY DEF SlotOf
  <2> QED
    BY <2>1, <2>2 DEF Outcome
<1>7. \A m \in Mutants : m # <<p, i>> => Outcome(m)' = Outcome(m)
  BY <1>6 DEF Mutants
<1> QED
  BY <1>3, <1>4, <1>5, <1>7 DEF Told

\* Steps that tell nothing, know no ending and do not return leave Campaign alone.
LEMMA Untold ==
  ASSUME RunnerInductive, RunnerInductive',
         \/ UNCHANGED vars \/ Collect \/ Prefill \/ Launch \/ StopLaunching \/ Wait
         \/ \E p \in Pkgs :
              \/ Propagate(p) \/ Expire(p) \/ NextMutant(p) \/ Start(p)
              \/ JudgeCanceled(p) \/ JudgeDeadline(p) \/ Store(p) \/ Progress(p)
              \/ Release(p) \/ Leave(p)
  PROVE  UNCHANGED <<truth, Told, ctx, main = "returned">>
<1> USE DEF mainVars, tableVars, poolVars, workVars
<1>1. CASE UNCHANGED vars
  BY <1>1 DEF vars, Told, Outcome, SlotOf
<1>2. CASE Collect \/ Prefill
  <2>1. /\ main = "collect" /\ main' \in {"collect", "launch"} /\ UNCHANGED <<truth, ctx>>
    BY <1>2 DEF Collect, Prefill
  <2>2. \A m \in Mutants : Outcome(m) = "pending"
    BY <2>1 DEF Outcome
  <2>3. ASSUME NEW m \in Mutants PROVE Outcome(m)' = "pending"
    <3>1. CASE Collect
      BY <3>1 DEF Collect, Outcome
    <3>2. CASE Prefill
      <4>1. PICK p \in Pkgs : \E i \in 1..Size[p] : m = <<p, i>>
        BY DEF Mutants
      <4>2. PICK i \in 1..Size[p] : m = <<p, i>>
        BY <4>1
      <4>3. SlotOf(m)' = offset[p] + i
        BY <3>2, <4>2 DEF Prefill, SlotOf
      <4>4. Accounted' /\ main' = "launch" /\ UNCHANGED <<worker, cur, offset>>
        BY <3>2 DEF RunnerInductive, SlotInv, Prefill
      <4>5. ~Announced(p, i)'
        BY <2>1, <4>4, NoTable, RunnerAssumption DEF Announced
      <4>6. ~reported'[offset[p] + i]
        BY <4>4, <4>5 DEF Accounted
      <4> QED
        BY <4>3, <4>4, <4>6 DEF Outcome
    <3> QED
      BY <1>2, <3>1, <3>2
  <2> QED
    BY <2>1, <2>2, <2>3 DEF Told
<1>3. ASSUME main \in {"launch", "wait"}, main' \in {"launch", "wait", "sweep"},
             UNCHANGED <<truth, ctx, offset, reported>>,
             \A s \in 1..Len(reported) : reported[s] => results'[s] = results[s]
      PROVE  UNCHANGED <<truth, Told, ctx, main = "returned">>
  BY <1>3, ToldNothing
<1>4. CASE Launch \/ StopLaunching \/ Wait
  BY <1>3, <1>4 DEF Launch, StopLaunching, Wait
<1>5. ASSUME NEW p \in Pkgs,
             \/ Propagate(p) \/ Expire(p) \/ NextMutant(p) \/ Start(p)
             \/ JudgeCanceled(p) \/ JudgeDeadline(p) \/ Progress(p)
             \/ Release(p) \/ Leave(p)
      PROVE  UNCHANGED <<truth, Told, ctx, main = "returned">>
  <2>1. UNCHANGED <<main, truth, ctx, offset, reported, results>>
    BY <1>5 DEF Propagate, Expire, EndContext, NextMutant, Start, JudgeCanceled,
       JudgeDeadline, Decide, Progress, Release, Leave
  <2> QED
    BY <2>1 DEF Told, Outcome, SlotOf
<1>6. ASSUME NEW p \in Pkgs, Store(p)
      PROVE  UNCHANGED <<truth, Told, ctx, main = "returned">>
  <2>1. worker[p] = "store" /\ UNCHANGED <<main, truth, ctx, offset, reported>>
    BY <1>6 DEF Store
  <2>2. main \in {"launch", "wait"} /\ ~reported[Slot(p)]
    BY <2>1, AtSlot DEF Busy, Decided
  <2>3. \A s \in 1..Len(reported) : reported[s] => results'[s] = results[s]
    BY <1>6, <2>2 DEF Store, RunnerInductive, VerdictInv, LedgerInv, TypeOK
  <2> QED
    BY <1>3, <2>1, <2>2, <2>3
<1> QED
  BY <1>1, <1>2, <1>4, <1>5, <1>6
\* The end of a test run, or the decision to run none, is RunTests for its mutant,
\* which has not been announced and of which no ending is known.
LEMMA RunsTests ==
  ASSUME RunnerInductive, NEW p \in Pkgs, Process(p) \/ StartFails(p) \/ Enter(p)
  PROVE  [Promise!Next]_(Promise!vars)
<1>0. TypeOK /\ Untested
  BY DEF RunnerInductive, VerdictInv, LedgerInv
<1>1. /\ UNCHANGED <<main, offset, results, reported, ctx>>
      /\ worker[p] \in {"entry", "start", "run"}
      /\ \/ truth' = truth
         \/ \E ending \in Endings : truth' = [truth EXCEPT ![Point(p)] = ending]
  BY DEF Process, SelfEnd, LateEnd, Stop, Backstop, End, StartFails, Enter, Ends,
     Endings, mainVars, tableVars
<1>2. Told' = Told /\ UNCHANGED <<ctx, main = "returned">>
  BY <1>1 DEF Told, Outcome, SlotOf
<1>3. CASE truth' = truth
  BY <1>2, <1>3 DEF Promise!vars, Told
<1>4. ASSUME NEW ending \in Endings, truth' = [truth EXCEPT ![Point(p)] = ending]
      PROVE  Promise!Next
  <2>1. cur[p] \in 1..Size[p] /\ Slot(p) \in 1..Len(reported) /\ ~reported[Slot(p)]
    BY <1>1, AtSlot DEF Busy, UnderTest
  <2>2. Point(p) \in Mutants /\ truth[Point(p)] = "none"
    BY <1>0, <1>1, <2>1, PointType DEF Untested, Fresh, Point
  <2>3. Told[Point(p)] = "pending"
    BY <2>1, <2>2, OutcomeOf DEF Told, Slot, Point
  <2>4. Promise!RunTests(Point(p), ending)
    BY <1>2, <1>4, <2>2, <2>3 DEF Promise!RunTests, Told
  <2>5. ending \in Promise!Endings
    BY <1>4 DEF Endings, Ends, Promise!Endings
  <2> QED
    BY <2>2, <2>4, <2>5 DEF Promise!Next
<1> QED
  BY <1>1, <1>3, <1>4

\* report announces the verdict that the worker stored.
LEMMA ReportAnnounces ==
  ASSUME RunnerInductive, RunnerInductive', NEW p \in Pkgs, Report(p)
  PROVE  Promise!Next
<1>0. TypeOK /\ VerdictKept /\ Stored
  BY DEF RunnerInductive, VerdictInv, LedgerInv, SlotInv
<1>1. /\ worker[p] = "report" /\ UNCHANGED <<main, offset, results, ctx, truth>>
      /\ reported' = [reported EXCEPT ![Slot(p)] = TRUE]
  BY DEF Report, mainVars, workVars
<1>2. /\ main \in {"launch", "wait"} /\ Slot(p) \in 1..Len(reported)
      /\ allPoints[Slot(p)] = Point(p) /\ ~reported[Slot(p)]
  BY <1>1, AtSlot DEF Busy, Decided
<1>3. results[Slot(p)].status = verdict[p]
  BY <1>0, <1>1 DEF Stored
<1>4. /\ reported'[Slot(p)]
      /\ \A s \in 1..Len(reported) : s # Slot(p) => reported'[s] = reported[s]
  BY <1>0, <1>1, <1>2 DEF TypeOK
<1>5. /\ Point(p) \in Mutants /\ Told[Point(p)] = "pending"
      /\ Told' = [Told EXCEPT ![Point(p)] = verdict[p]]
  BY <1>1, <1>2, <1>3, <1>4, ToldOne
<1>6. /\ Promise!Justifies(truth[Point(p)], verdict[p]) /\ (verdict[p] = "canceled" => ctx)
      /\ verdict[p] \in Promise!Verdicts
  BY <1>0, <1>1 DEF VerdictKept, Decided, TypeOK, Verdicts, Promise!Verdicts
<1>7. Promise!Announce(Point(p), verdict[p])
  BY <1>1, <1>5, <1>6 DEF Promise!Announce, Told
<1> QED
  BY <1>5, <1>6, <1>7 DEF Promise!Next

\* The sweep announces a mutant nobody ran as canceled, or passes over its slot.
LEMMA SweepAnnounces ==
  ASSUME RunnerInductive, RunnerInductive', Sweep
  PROVE  [Promise!Next]_(Promise!vars)
<1>0. TypeOK /\ Tabled /\ Excused'
  BY DEF RunnerInductive, VerdictInv, LedgerInv, SlotInv
<1>1. /\ main = "sweep" /\ UNCHANGED <<main, offset, results, ctx, truth>>
      /\ next \in 1..Len(results) /\ next \in 1..Len(reported)
  BY <1>0 DEF Sweep, workVars, TypeOK, Tabled
<1>2. CASE reported[next]
  <2>1. reported' = reported
    BY <1>2 DEF Sweep
  <2> QED
    BY <1>1, <2>1 DEF Promise!vars, Outcome, SlotOf
<1>3. CASE ~reported[next]
  <2> DEFINE m == allPoints[next]
  <2>1. reported' = [reported EXCEPT ![next] = TRUE]
    BY <1>3 DEF Sweep
  <2>2. /\ reported'[next] /\ Len(reported') = Len(reported)
        /\ \A s \in 1..Len(reported) : s # next => reported'[s] = reported[s]
    BY <1>0, <1>1, <2>1, SeqUpdate DEF TypeOK
  <2>3. results[next].status = "canceled"
    <3>1. /\ Accounted /\ QuietSweep
      BY DEF RunnerInductive, SlotInv
    <3>2. next \in 1..Len(allPoints)
      BY <1>0, <1>1 DEF Tabled
    <3>3. PICK p \in Pkgs : \E i \in 1..Size[p] : next = offset[p] + i
      BY <3>2, SlotHasMutant
    <3> QED
      BY <1>1, <1>3, <3>1, <3>3 DEF Accounted, QuietSweep
  <2>4. ctx
    BY <1>0, <1>1, <2>2, <2>3 DEF Excused
  <2>5. /\ m \in Mutants /\ Told[m] = "pending"
        /\ Told' = [Told EXCEPT ![m] = "canceled"]
    BY <1>1, <1>3, <2>2, <2>3, ToldOne
  <2> HIDE DEF m
  <2>6. Promise!Announce(m, "canceled")
    BY <1>1, <2>4, <2>5 DEF Promise!Announce, Promise!Justifies, Told
  <2> QED
    BY <2>5, <2>6 DEF Promise!Next, Promise!Verdicts
<1> QED
  BY <1>2, <1>3

\* RunInstrumented returns when nothing is pending.
LEMMA ReturnReturns ==
  ASSUME RunnerInductive, RunnerInductive', Return
  PROVE  Promise!Next
<1>0. TypeOK /\ Swept'
  BY DEF RunnerInductive, VerdictInv, LedgerInv, SlotInv
<1>1. /\ main = "sweep" /\ main' = "returned"
      /\ UNCHANGED <<offset, results, reported, ctx, truth>>
  BY DEF Return, tableVars, workVars
<1>2. ASSUME NEW p \in Pkgs, NEW i \in 1..Size[p]
      PROVE  Outcome(<<p, i>>) # "pending" /\ Outcome(<<p, i>>)' = Outcome(<<p, i>>)
  <2>1. offset[p] + i \in 1..Len(reported) /\ offset[p] + i \in 1..Len(results)
    BY <1>1, SlotOfMutant
  <2>2. reported[offset[p] + i]
    BY <1>0, <1>1, <2>1 DEF Swept
  <2>3. results[offset[p] + i].status \in Verdicts
    <3>1. results[offset[p] + i] \in Result
      BY <1>0, <2>1 DEF TypeOK
    <3> QED
      BY <3>1 DEF Result
  <2> QED
    BY <1>1, <2>2, <2>3 DEF Outcome, SlotOf, Verdicts
<1>3. \A m \in Mutants : Outcome(m) # "pending" /\ Outcome(m)' = Outcome(m)
  BY <1>2 DEF Mutants
<1>4. Promise!Return
  BY <1>1, <1>3 DEF Promise!Return
<1> QED
  BY <1>4 DEF Promise!Next

\* Every step of the runner is a step of Campaign or leaves it alone.
LEMMA PromiseStep ==
  ASSUME RunnerInductive, RunnerInductive', [Next]_vars
  PROVE  [Promise!Next]_(Promise!vars)
<1>1. CASE UNCHANGED <<truth, Told, ctx, main = "returned">>
  BY <1>1 DEF Promise!vars, Told
<1>2. CASE \/ UNCHANGED vars \/ Returned
           \/ Collect \/ Prefill \/ Launch \/ StopLaunching \/ Wait
           \/ \E p \in Pkgs :
                \/ Propagate(p) \/ Expire(p) \/ NextMutant(p) \/ Start(p)
                \/ JudgeCanceled(p) \/ JudgeDeadline(p) \/ Store(p) \/ Progress(p)
                \/ Release(p) \/ Leave(p)
  BY <1>1, <1>2, Untold DEF Returned
<1>3. CASE Interrupt
  <2>1. ctx' /\ UNCHANGED <<main, offset, results, reported, truth>>
    BY <1>3 DEF Interrupt, mainVars, tableVars, workVars
  <2>2. Promise!Interrupt
    BY <2>1, <1>3 DEF Promise!Interrupt, Outcome, SlotOf, Interrupt
  <2> QED
    BY <2>2 DEF Promise!Next
<1>4. ASSUME NEW p \in Pkgs, Process(p) \/ StartFails(p) \/ Enter(p)
      PROVE  [Promise!Next]_(Promise!vars)
  BY <1>4, RunsTests
<1>5. ASSUME NEW p \in Pkgs, Report(p) PROVE Promise!Next
  BY <1>5, ReportAnnounces
<1>6. CASE Sweep \/ Return
  BY <1>6, SweepAnnounces, ReturnReturns
<1> QED
  BY <1>2, <1>3, <1>4, <1>5, <1>6 DEF Next, Goroutine, Caller

\* Runner implements Campaign: each mutant is announced once, with a verdict its
\* test run justifies, canceled only after an interrupt, and RunInstrumented returns
\* after the last announcement.
THEOREM PromiseIsKept == Spec => KeepsPromise
<1>1. RunnerInductive /\ RunnerInductive' /\ [Next]_vars => [Promise!Next]_(Promise!vars)
  BY PromiseStep
<1> QED
  BY <1>1, PromiseInit, RunnerInvariant, PTL DEF Spec, KeepsPromise, Promise!Spec
=============================================================================
