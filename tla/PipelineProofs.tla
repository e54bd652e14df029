--------------------------- MODULE PipelineProofs ---------------------------
(***************************************************************************)
(* What TLAPS proves about Pipeline, for any number of packages, any finite *)
(* set of mutants and any thresholds.                                      *)
(***************************************************************************)
EXTENDS Pipeline, FiniteSetTheorems, TLAPS

-----------------------------------------------------------------------------
(***************************************************************************)
(* Lemmas about the operators of Pipeline.                                 *)
(***************************************************************************)
\* While a package is not instrumented, the next one is a package.
LEMMA NextPkgType ==
  ASSUME instr \subseteq Pkgs
  PROVE  /\ Cardinality(instr) \in Nat
         /\ ~Instrumented => NextPkg \in Pkgs
<1>1. IsFiniteSet(Pkgs) /\ Cardinality(Pkgs) = NumPkgs
  BY PipelineAssumption, FS_Interval DEF Pkgs
<1>2. IsFiniteSet(instr) /\ Cardinality(instr) <= NumPkgs
  BY <1>1, FS_Subset
<1>3. Cardinality(instr) \in Nat
  BY <1>2, FS_CardinalityType
<1> QED
  BY <1>2, <1>3, PipelineAssumption DEF Instrumented, NextPkg, Pkgs

\* The number of mutants with a verdict is a natural number, and 0 only if no
\* mutant has it.
LEMMA CountType ==
  ASSUME NEW v
  PROVE  /\ IsFiniteSet({m \in Mutants : verdict[m] = v})
         /\ Count(v) \in Nat
         /\ Count(v) = 0 => \A m \in Mutants : verdict[m] # v
<1>1. IsFiniteSet({m \in Mutants : verdict[m] = v})
  BY PipelineAssumption, FS_Subset
<1> QED
  BY <1>1, FS_CardinalityType, FS_EmptySet DEF Count

\* When each mutant was tested to one of three verdicts, the three counts add up
\* to all mutants.
LEMMA CountsAddUp ==
  ASSUME \A m \in Mutants : verdict[m] \in {"killed", "timedout", "survived"}
  PROVE  Cardinality(Mutants) = Count("killed") + Count("timedout") + Count("survived")
<1> DEFINE With(v) == {m \in Mutants : verdict[m] = v}
<1> DEFINE K == With("killed")
<1> DEFINE T == With("timedout")
<1> DEFINE S == With("survived")
<1>1. IsFiniteSet(K) /\ IsFiniteSet(T) /\ IsFiniteSet(S)
  BY CountType
<1>2. K \cap T = {} /\ (K \cup T) \cap S = {} /\ (K \cup T) \cup S = Mutants
  OBVIOUS
<1>3. /\ Cardinality(K) = Count("killed") /\ Cardinality(T) = Count("timedout")
      /\ Cardinality(S) = Count("survived")
  BY DEF Count
<1>4. Count("killed") \in Nat /\ Count("timedout") \in Nat /\ Count("survived") \in Nat
  BY CountType
<1> HIDE DEF K, T, S
<1>5. IsFiniteSet(K \cup T) /\ Cardinality(K \cup T) = Cardinality(K) + Cardinality(T)
  BY <1>1, <1>2, <1>3, <1>4, FS_Union, FS_EmptySet
<1>6. Cardinality(Mutants) = Cardinality(K \cup T) + Cardinality(S)
  <2> DEFINE U == K \cup T
  <2>1. IsFiniteSet(U) /\ U \cap S = {} /\ U \cup S = Mutants /\ Cardinality(U) \in Nat
    BY <1>2, <1>5, FS_CardinalityType
  <2> HIDE DEF U
  <2>2. Cardinality(U \cup S) = Cardinality(U) + Cardinality(S) - Cardinality(U \cap S)
    BY <1>1, <2>1, FS_Union
  <2>3. Cardinality(Mutants) = Cardinality(U) + Cardinality(S)
    <3>1. Cardinality(U \cap S) = 0
      BY <2>1, FS_EmptySet
    <3>2. Cardinality(U \cup S) = Cardinality(Mutants)
      BY <2>1
    <3>3. Cardinality(S) \in Nat
      BY <1>3, <1>4
    <3> QED
      BY <1>3, <1>4, <2>1, <2>2, <3>1, <3>2, <3>3
  <2> QED
    BY <2>3 DEF U
<1> QED
  BY <1>3, <1>4, <1>5, <1>6

\* evaluateSummary finds no fault only with an honest success.
LEMMA NoFaultIsHonest ==
  ASSUME verdict \in [Mutants -> Verdicts], threshold \in 0..100, positive = TRUE,
         EvaluateSummary(Summary, threshold) = {}
  PROVE  Honest
<1>1. /\ Count("killed") \in Nat /\ Count("timedout") \in Nat
      /\ Count("survived") \in Nat /\ Count("error") \in Nat
      /\ Count("canceled") \in Nat
  BY CountType
<1>2. Count("canceled") = 0 /\ Count("error") = 0
  <2>1. Summary.canceled = Count("canceled") /\ Summary.errors = Count("error")
        /\ Summary.survived = Count("survived")
    BY DEF Summary
  <2>2. ~(Summary.canceled > 0)
    BY DEF EvaluateSummary
  <2>3. ~(Summary.errors > 0)
    BY <1>1, <2>1, <2>2 DEF EvaluateSummary
  <2> QED
    BY <1>1, <2>1, <2>2, <2>3
<1>3. \A m \in Mutants : verdict[m] \in {"killed", "timedout", "survived"}
  <2>1. \A m \in Mutants : verdict[m] # "canceled" /\ verdict[m] # "error"
    BY <1>2, CountType
  <2> QED
    BY <2>1 DEF Verdicts
<1>4. Cardinality(Mutants) = Count("killed") + Count("timedout") + Count("survived")
  BY <1>3, CountsAddUp
<1>5. CASE threshold > 0
  <2>1. ~CalcKillRateBelow(Summary, threshold)
    BY <1>2, <1>5 DEF EvaluateSummary, Summary
  <2>2. Testable(Summary) = Cardinality(Mutants)
    BY <1>1, <1>2, <1>4 DEF Testable, Summary
  <2>3. ~(100 * (Count("killed") + Count("timedout")) < threshold * Cardinality(Mutants))
    BY <2>1, <2>2 DEF CalcKillRateBelow, Summary
  <2>4. \A a, b \in Int : ~(a < b) => a >= b
    OBVIOUS
  <2>5. threshold * Cardinality(Mutants) \in Int
    BY <1>1, <1>4
  <2>6. 100 * (Count("killed") + Count("timedout")) >= threshold * Cardinality(Mutants)
    BY <1>1, <2>3, <2>4, <2>5
  <2> QED
    BY <1>3, <1>5, <2>6 DEF Honest, Valid
<1>6. CASE threshold = 0
  <2>1. Count("survived") = 0
    BY <1>1, <1>2, <1>6 DEF EvaluateSummary, Summary
  <2> QED
    BY <1>1, <1>3, <1>4, <1>6, <2>1 DEF Honest, Valid
<1> QED
  BY <1>5, <1>6

\* The exit code is that of a success exactly if there is no error.
LEMMA ExitCodeType == ExitCode \in 0..2 /\ (ExitCode = 0 <=> retErr = {})
BY DEF ExitCode

-----------------------------------------------------------------------------
(***************************************************************************)
(* The inductive invariant, part by part.                                  *)
(***************************************************************************)
\* Init establishes it: nothing exists, nothing is printed, nothing is tested.
LEMMA PipelineInit == Init => PipelineInductive
<1> SUFFICES ASSUME Init PROVE PipelineInductive
  OBVIOUS
<1>1. TypeOK
  <2>1. ctx \in BOOLEAN /\ positive \in BOOLEAN /\ writeErr \in BOOLEAN
    BY DEF Init
  <2>2. verdict \in [Mutants -> Verdicts \cup {"none"}]
    BY DEF Init
  <2>3. code \in 0..3 /\ retErr = {} /\ defers = {} /\ temp = {} /\ instr = {}
    BY DEF Init
  <2> QED
    BY <2>1, <2>2, <2>3 DEF Init, TypeOK
<1>2. CodeIsLate /\ WriteErrKept
  BY DEF Init, CodeIsLate, WriteErrKept, Starting, Working, Prepared
<1>3. TempKnown
  BY DEF Init, TempKnown, Starting, Prepared, Over
<1>4. Earned
  BY DEF Init, Earned, Tested, Starting, Working, Prepared, Over
<1> QED
  BY <1>1, <1>2, <1>3, <1>4 DEF PipelineInductive

\* The steps of run keep every variable in its type.
LEMMA TypeStep ==
  ASSUME PipelineInductive, Next
  PROVE  TypeOK'
<1> USE DEF PipelineInductive
<1> USE DEF At, Goto, Returns, Quietly, Prints
<1>1. CASE Interrupt \/ Exited
  BY <1>1 DEF Interrupt, Exited, vars, TypeOK
<1>2. CASE NoRun \/ ParsedFlags \/ Enter \/ Discover \/ MakeReporter
  BY <1>2 DEF NoRun, ParsedFlags, Enter, Discover, MakeReporter, TypeOK
<1>3. CASE DiffFails \/ ListOnly \/ Discovered
  BY <1>3 DEF DiffFails, ListOnly, Discovered, TypeOK
<1>4. CASE MakeTemp \/ InstrumentPackage
  <2>1. NextPkg \in Pkgs
    BY <1>4, NextPkgType DEF MakeTemp, InstrumentPackage, TypeOK, TempKnown
  <2> QED
    BY <1>4, <2>1 DEF MakeTemp, InstrumentPackage, TypeOK
<1>5. CASE InstrumentFails \/ InstrumentDone
  BY <1>5 DEF InstrumentFails, InstrumentDone, TypeOK
<1>6. CASE Build \/ Baseline \/ Campaign
  BY <1>6 DEF Build, Baseline, Campaign, TypeOK
<1>7. CASE Judge
  <2>1. EvaluateSummary(Summary, threshold) \subseteq {"interrupted", "testsFailed"}
    BY DEF EvaluateSummary
  <2> QED
    BY <1>7, <2>1 DEF Judge, TypeOK
<1>8. CASE Cleanup \/ JoinWriteError \/ JoinInterrupt
  BY <1>8 DEF Cleanup, JoinWriteError, JoinInterrupt, TypeOK
<1>9. CASE Exit
  BY <1>9, ExitCodeType DEF Exit, TypeOK
<1> QED
  BY <1>1, <1>2, <1>3, <1>4, <1>5, <1>6, <1>7, <1>8, <1>9 DEF Next, Run

\* The exit code is decided last, from the error returned.
LEMMA CodeStep ==
  ASSUME PipelineInductive, Next
  PROVE  CodeIsLate'
<1>1. pc # "exited" => code = 3
  BY DEF PipelineInductive, CodeIsLate
<1>2. CASE Exit
  BY <1>2 DEF Exit, CodeIsLate, ExitCode
<1>3. CASE Exited \/ Interrupt
  BY <1>3 DEF PipelineInductive, Exited, Interrupt, vars, CodeIsLate, ExitCode
<1>4. ASSUME Run, ~Exit PROVE pc # "exited" /\ pc' # "exited" /\ UNCHANGED code
  BY <1>4 DEF Run, At, Goto, Returns, NoRun, ParsedFlags, Enter, Discover, MakeReporter,
     DiffFails, ListOnly, Discovered, MakeTemp, InstrumentPackage, InstrumentFails,
     InstrumentDone, Build, Baseline, Campaign, Judge, Cleanup, JoinWriteError, JoinInterrupt
<1> QED
  BY <1>1, <1>2, <1>3, <1>4 DEF Next, CodeIsLate

\* InstrumentAll removes what it made when it fails, and run defers the removal
\* when it succeeds; nothing else touches the directories.
LEMMA TempStep ==
  ASSUME PipelineInductive, Next
  PROVE  TempKnown'
<1> USE DEF At, Goto, Returns
<1>1. TypeOK /\ TempKnown
  BY DEF PipelineInductive
<1>2. CASE Interrupt \/ Exited \/ Exit
  BY <1>1, <1>2 DEF Interrupt, Exited, Exit, vars, TempKnown, Instrumented, NextPkg,
     Starting, Prepared, Over
<1>3. CASE NoRun \/ ParsedFlags \/ Enter \/ Discover \/ MakeReporter
  BY <1>1, <1>3 DEF NoRun, ParsedFlags, Enter, Discover, MakeReporter, TempKnown,
     Starting, Prepared, Over
<1>4. CASE DiffFails \/ ListOnly \/ Discovered
  BY <1>1, <1>4 DEF DiffFails, ListOnly, Discovered, TempKnown, Starting, Prepared, Over
<1>5. CASE MakeTemp
  BY <1>1, <1>5 DEF MakeTemp, TempKnown, Instrumented, NextPkg, Starting, Prepared, Over
<1>6. CASE InstrumentPackage
  BY <1>1, <1>6 DEF InstrumentPackage, TempKnown, Starting, Prepared, Over
<1>7. CASE InstrumentFails
  <2>1. temp' = {}
    BY <1>1, <1>7 DEF InstrumentFails, TempKnown
  <2> QED
    BY <1>7, <2>1 DEF InstrumentFails, TempKnown, Starting, Prepared, Over
<1>8. CASE InstrumentDone
  BY <1>1, <1>8 DEF InstrumentDone, TempKnown, Starting, Prepared, Over
<1>9. CASE Build \/ Baseline \/ Campaign \/ Judge
  BY <1>1, <1>9 DEF Build, Baseline, Campaign, Judge, TempKnown, Starting, Prepared, Over
<1>10. CASE Cleanup
  <2>1. temp' = {}
    BY <1>1, <1>10 DEF Cleanup, TempKnown
  <2> QED
    BY <1>10, <2>1 DEF Cleanup, TempKnown, Starting, Prepared, Over
<1>11. CASE JoinWriteError \/ JoinInterrupt
  BY <1>1, <1>11 DEF JoinWriteError, JoinInterrupt, TempKnown, Starting, Prepared, Over
<1> QED
  BY <1>2, <1>3, <1>4, <1>5, <1>6, <1>7, <1>8, <1>9, <1>10, <1>11 DEF Next, Run

\* Nothing is printed before the write error is asked for by a deferred call, and
\* that call adds it to the error.
LEMMA WriteStep ==
  ASSUME PipelineInductive, Next
  PROVE  WriteErrKept'
<1> USE DEF At, Goto, Returns, Quietly, Prints
<1>1. WriteErrKept
  BY DEF PipelineInductive
<1>2. CASE Interrupt \/ Exited \/ Exit
  BY <1>1, <1>2 DEF Interrupt, Exited, Exit, vars, WriteErrKept, Starting, Working, Prepared
<1>3. CASE NoRun \/ ParsedFlags \/ Enter \/ Discover
  BY <1>1, <1>3 DEF NoRun, ParsedFlags, Enter, Discover, WriteErrKept,
     Starting, Working, Prepared
<1>4. CASE MakeReporter
  BY <1>1, <1>4 DEF MakeReporter, WriteErrKept, Starting, Working, Prepared
<1>5. CASE DiffFails \/ ListOnly \/ Discovered
  <2>1. "output" \in defers' /\ pc' \in {"cleanup", "instrument"}
    BY <1>1, <1>5 DEF DiffFails, ListOnly, Discovered, WriteErrKept
  <2> QED
    BY <2>1 DEF WriteErrKept, Starting
<1>6. CASE MakeTemp \/ InstrumentPackage \/ InstrumentFails \/ InstrumentDone
  BY <1>1, <1>6 DEF MakeTemp, InstrumentPackage, InstrumentFails, InstrumentDone,
     WriteErrKept, Starting, Working, Prepared
<1>7. CASE Build \/ Baseline \/ Campaign \/ Judge
  BY <1>1, <1>7 DEF Build, Baseline, Campaign, Judge, WriteErrKept,
     Starting, Working, Prepared
<1>8. CASE Cleanup \/ JoinWriteError \/ JoinInterrupt
  BY <1>1, <1>8 DEF Cleanup, JoinWriteError, JoinInterrupt, WriteErrKept,
     Starting, Working, Prepared
<1> QED
  BY <1>2, <1>3, <1>4, <1>5, <1>6, <1>7, <1>8 DEF Next, Run

\* What says that a success is honest does not change with the other variables.
LEMMA HonestFrame ==
  ASSUME UNCHANGED <<verdict, threshold, positive>>
  PROVE  (Tested' <=> Tested) /\ (Honest' <=> Honest) /\ (Valid' <=> Valid)
BY DEF Tested, Honest, Valid, Count

\* Only a judged campaign is a success with tested mutants.
LEMMA EarnedStep ==
  ASSUME PipelineInductive, Next
  PROVE  Earned'
<1> USE DEF At, Goto, Returns
<1>1. TypeOK /\ Earned
  BY DEF PipelineInductive
<1>2. CASE Campaign
  <2>1. Valid' /\ verdict' \in [Mutants -> Verdicts]
    BY <1>1, <1>2 DEF Campaign, Earned, Valid, Prepared
  <2> QED
    BY <1>2, <2>1 DEF Campaign, Earned, Over
<1>3. CASE Judge
  <2>1. Valid /\ verdict \in [Mutants -> Verdicts]
    BY <1>1, <1>3 DEF Judge, Earned, Prepared
  <2>2. retErr' = {} => Honest
    BY <1>1, <1>3, <2>1, NoFaultIsHonest DEF Judge, Valid, TypeOK
  <2>3. (Honest' <=> Honest) /\ (Valid' <=> Valid)
    BY <1>3, HonestFrame DEF Judge
  <2> QED
    BY <1>3, <2>2, <2>3 DEF Judge, Earned, Working, Prepared, Over
<1>4. ASSUME UNCHANGED <<verdict, threshold, positive>>
      PROVE  (Tested' <=> Tested) /\ (Honest' <=> Honest) /\ (Valid' <=> Valid)
  BY <1>4, HonestFrame
<1>5. CASE Interrupt \/ Exited \/ Exit
  BY <1>1, <1>4, <1>5 DEF Interrupt, Exited, Exit, vars, Earned, Working, Prepared, Over
<1>6. CASE NoRun \/ ParsedFlags \/ Enter
  BY <1>1, <1>4, <1>6 DEF NoRun, ParsedFlags, Enter, Earned, Working, Prepared, Over
<1>7. CASE Discover \/ MakeReporter \/ DiffFails \/ ListOnly \/ Discovered
  BY <1>1, <1>4, <1>7 DEF Discover, MakeReporter, DiffFails, ListOnly, Discovered, Earned,
     Working, Prepared, Over
<1>8. CASE MakeTemp \/ InstrumentPackage \/ InstrumentFails \/ InstrumentDone
  BY <1>1, <1>4, <1>8 DEF MakeTemp, InstrumentPackage, InstrumentFails, InstrumentDone,
     Earned, Working, Prepared, Over
<1>9. CASE Build \/ Baseline
  BY <1>1, <1>4, <1>9 DEF Build, Baseline, Earned, Working, Prepared, Over
<1>10. CASE Cleanup \/ JoinWriteError \/ JoinInterrupt
  BY <1>1, <1>4, <1>10 DEF Cleanup, JoinWriteError, JoinInterrupt, Earned,
     Working, Prepared, Over
<1> QED
  BY <1>2, <1>3, <1>5, <1>6, <1>7, <1>8, <1>9, <1>10 DEF Next, Run

-----------------------------------------------------------------------------
(***************************************************************************)
(* The theorems.                                                           *)
(***************************************************************************)
\* The parts of the invariant hold together in every reachable state.
THEOREM PipelineInvariant == Spec => []PipelineInductive
<1>1. PipelineInductive /\ [Next]_vars => PipelineInductive'
  <2> SUFFICES ASSUME PipelineInductive, [Next]_vars PROVE PipelineInductive'
    OBVIOUS
  <2>1. CASE Next
    BY <2>1, TypeStep, CodeStep, TempStep, WriteStep, EarnedStep DEF PipelineInductive
  <2>2. CASE UNCHANGED vars
    <3>1. TypeOK' /\ CodeIsLate'
      BY <2>2 DEF vars, PipelineInductive, TypeOK, CodeIsLate, ExitCode
    <3>2. TempKnown' /\ WriteErrKept'
      BY <2>2 DEF vars, PipelineInductive, TempKnown, WriteErrKept, Instrumented, NextPkg
    <3>3. Earned'
      BY <2>2, HonestFrame DEF vars, PipelineInductive, Earned
    <3> QED
      BY <3>1, <3>2, <3>3 DEF PipelineInductive
  <2> QED
    BY <2>1, <2>2
<1> QED
  BY <1>1, PipelineInit, PTL DEF Spec

\* Every variable of the run keeps its type: exit codes are 0, 1 and 2, and
\* InstrumentAll makes directories of the project's packages only.
THEOREM TypeCorrect == Spec => []TypeOK
<1>1. PipelineInductive => TypeOK
  BY DEF PipelineInductive
<1> QED
  BY <1>1, PipelineInvariant, PTL

\* Exit code 0 with tested mutants is an honest success, whatever happened on the
\* way to it.
THEOREM GreenRunsAreHonest == Spec => []GreenIsHonest
<1>1. PipelineInductive => GreenIsHonest
  <2> SUFFICES ASSUME PipelineInductive, code = 0, Tested PROVE Honest
    BY DEF GreenIsHonest
  <2>1. pc = "exited" /\ ExitCode = 0
    BY DEF PipelineInductive, CodeIsLate
  <2>2. retErr = {}
    BY <2>1, ExitCodeType
  <2> QED
    BY <2>1, <2>2 DEF PipelineInductive, Earned, Over
<1> QED
  BY <1>1, PipelineInvariant, PTL

\* A write that failed anywhere reaches the exit code.
THEOREM WriteErrorsFail == Spec => []WriteErrorFails
<1>1. PipelineInductive => WriteErrorFails
  <2> SUFFICES ASSUME PipelineInductive, writeErr, code = 0 PROVE FALSE
    BY DEF WriteErrorFails
  <2>1. pc = "exited" /\ ExitCode = 0
    BY DEF PipelineInductive, CodeIsLate
  <2> QED
    BY <2>1, ExitCodeType DEF PipelineInductive, WriteErrKept
<1> QED
  BY <1>1, PipelineInvariant, PTL

\* When mutest exits, no instrumented package is left, however it got there.
THEOREM NothingIsLeft == Spec => []NoTempLeft
<1>1. PipelineInductive => NoTempLeft
  BY DEF PipelineInductive, TempKnown, NoTempLeft, Over
<1> QED
  BY <1>1, PipelineInvariant, PTL

\* Nothing that follows can take exit code 1 away.
WillExitOne ==
  \/ ctx /\ pc \notin {"flags", "exit", "exited"}
  \/ pc = "exit" /\ "interrupted" \in retErr
  \/ pc = "exited" /\ code = 1

\* An interrupt that a deferred call of run still sees ends in exit code 1.
THEOREM InterruptsExitOne == Spec => InterruptedExitsOne
<1> DEFINE Arrives == ctx /\ pc \notin {"flags", "exit", "exited"}
<1>1. Arrives => WillExitOne
  BY DEF WillExitOne
<1>2. WillExitOne /\ [Next]_vars => WillExitOne'
  <2> SUFFICES ASSUME WillExitOne, [Next]_vars PROVE WillExitOne'
    OBVIOUS
  <2> USE DEF At, Goto, Returns
  <2>1. CASE UNCHANGED vars
    BY <2>1 DEF vars, WillExitOne
  <2>2. CASE Interrupt \/ Exited
    BY <2>2 DEF Interrupt, Exited, vars, WillExitOne
  <2>3. CASE Exit
    BY <2>3 DEF Exit, ExitCode, WillExitOne
  <2>4. CASE JoinInterrupt
    BY <2>4 DEF JoinInterrupt, WillExitOne
  <2>5. CASE NoRun \/ ParsedFlags \/ Enter \/ Discover \/ MakeReporter
             \/ DiffFails \/ ListOnly \/ Discovered
    BY <2>5 DEF NoRun, ParsedFlags, Enter, Discover, MakeReporter, DiffFails, ListOnly,
       Discovered, WillExitOne
  <2>6. CASE MakeTemp \/ InstrumentPackage \/ InstrumentFails \/ InstrumentDone
    BY <2>6 DEF MakeTemp, InstrumentPackage, InstrumentFails, InstrumentDone, WillExitOne
  <2>7. CASE Build \/ Baseline \/ Campaign \/ Judge \/ Cleanup \/ JoinWriteError
    BY <2>7 DEF Build, Baseline, Campaign, Judge, Cleanup, JoinWriteError, WillExitOne
  <2> QED
    BY <2>1, <2>2, <2>3, <2>4, <2>5, <2>6, <2>7 DEF Next, Run
<1>3. WillExitOne => (pc = "exited" => code = 1)
  BY DEF WillExitOne
<1> QED
  BY <1>1, <1>2, <1>3, PTL DEF Spec, InterruptedExitsOne
=============================================================================
