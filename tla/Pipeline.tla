------------------------------ MODULE Pipeline ------------------------------
(***************************************************************************)
(* One run of mutest: Run and run (cmd/mutest) from the flags to the       *)
(* deferred calls, and main's exit code.  The phases it calls keep their   *)
(* contracts: Phases for the build and the baseline, Campaign for          *)
(* RunInstrumented.  InstrumentAll is modelled package by package, for the *)
(* temporary directories it leaves behind when it fails.                   *)
(*                                                                         *)
(* An error is a set of the sentinels errors.Is finds in it.               *)
(***************************************************************************)
EXTENDS FiniteSets, Phases, KillRate

CONSTANTS
  NumPkgs,    \* packages with mutation points, in the order of their paths
  Mutants,    \* the mutation points in them
  Thresholds  \* the values of -threshold tried, in percent; 0 if not given

Pkgs == 1..NumPkgs

ASSUME PipelineAssumption ==
  NumPkgs \in Nat /\ IsFiniteSet(Mutants) /\ Thresholds \subseteq Int

Verdicts == {"killed", "survived", "timedout", "error", "canceled"}

VARIABLES
  ctx,        \* the context is done: a signal has arrived
  pc,         \* where the run is
  threshold,  \* cfg.Threshold
  positive,   \* cfg.Workers and cfg.Timeout are
  retErr,     \* what run is about to return
  defers,     \* the deferred calls registered so far, besides the first one
  temp,       \* the packages whose temporary directory exists
  instr,      \* the packages InstrumentAll has finished, its result
  verdict,    \* the verdict of each mutant, "none" before the campaign
  writeErr,   \* a write to stdout or stderr has failed
  code        \* the exit code, or 3 while mutest runs

vars == <<ctx, pc, threshold, positive, retErr, defers, temp, instr, verdict,
          writeErr, code>>

Init ==
  /\ ctx \in BOOLEAN
  /\ pc = "flags"
  /\ threshold \in Thresholds /\ positive \in BOOLEAN
  /\ retErr = {} /\ defers = {}
  /\ temp = {} /\ instr = {}
  /\ verdict = [m \in Mutants |-> "none"]
  /\ writeErr = FALSE
  /\ code = 3

Interrupt ==
  /\ ~ctx /\ pc # "exited"
  /\ ctx' = TRUE
  /\ UNCHANGED <<pc, threshold, positive, retErr, defers, temp, instr, verdict,
                 writeErr, code>>

\* A statement goes on, or returns and lets the deferred calls run.
At(label) == pc = label /\ UNCHANGED <<ctx, threshold, positive, code>>
Goto(label) == pc' = label /\ UNCHANGED retErr
Returns(error) == pc' = "cleanup" /\ retErr' = error
Quietly == UNCHANGED writeErr
Prints == writeErr' \in {writeErr, TRUE}      \* the first failure is kept

-----------------------------------------------------------------------------
(***************************************************************************)
(* Run.  What it returns before run is called meets no deferred call.      *)
(***************************************************************************)
\* -h, a flag that cannot be parsed, or -version, whose write may fail.
NoRun ==
  /\ At("flags")
  /\ pc' = "exit"
  /\ \/ retErr' = {} /\ Quietly
     \/ retErr' = {"other"} /\ Quietly
     \/ retErr' = {"other"} /\ writeErr' = TRUE
  /\ UNCHANGED <<defers, temp, instr, verdict>>

ParsedFlags ==
  /\ At("flags")
  /\ Goto("enter")
  /\ Quietly /\ UNCHANGED <<defers, temp, instr, verdict>>

(***************************************************************************)
(* run, up to the instrumentation.                                         *)
(***************************************************************************)
Valid == positive /\ threshold \in 0..100

Enter ==
  /\ At("enter")
  /\ CASE ctx -> Returns({"interrupted"})
       [] ~ctx /\ ~Valid -> Returns({"config"})
       [] OTHER -> Goto("discover")
  /\ Quietly /\ UNCHANGED <<defers, temp, instr, verdict>>

\* DiscoverAllContext returns points, or an error; a context that was done at
\* its start is an error.
Discover ==
  /\ At("discover")
  /\ IF ctx THEN Returns({"discovery"})
            ELSE Goto("reporter") \/ Returns({"discovery"})
  /\ Quietly /\ UNCHANGED <<defers, temp, instr, verdict>>

\* Getwd fails, or the reporter is made.
MakeReporter ==
  /\ At("reporter")
  /\ \/ Returns({"other"}) /\ UNCHANGED defers
     \/ Goto("points") /\ defers' = defers \cup {"output"}
  /\ Quietly /\ UNCHANGED <<temp, instr, verdict>>

DiffFails ==
  /\ At("points")
  /\ Returns({"diff"})
  /\ Quietly /\ UNCHANGED <<defers, temp, instr, verdict>>

\* A dry run, or no points, before or after the diff.
ListOnly ==
  /\ At("points")
  /\ Returns({})
  /\ Prints /\ UNCHANGED <<defers, temp, instr, verdict>>

Discovered ==
  /\ At("points")
  /\ Goto("instrument")
  /\ Prints /\ UNCHANGED <<defers, temp, instr, verdict>>

(***************************************************************************)
(* InstrumentAll.  A package that fails removes its own directory, and     *)
(* InstrumentAll those of the packages before it.                          *)
(***************************************************************************)
Instrumented == Cardinality(instr) = NumPkgs

NextPkg == Cardinality(instr) + 1

MakeTemp ==
  /\ At("instrument") /\ ~Instrumented
  /\ Goto("instrumentPackage")
  /\ temp' = temp \cup {NextPkg}
  /\ Quietly /\ UNCHANGED <<defers, instr, verdict>>

InstrumentPackage ==
  /\ At("instrumentPackage")
  /\ instr' = instr \cup {NextPkg}
  /\ Goto("instrument")
  /\ Quietly /\ UNCHANGED <<defers, temp, verdict>>

\* Mutation: only the failing package cleans up.
InstrumentFailsAlone ==
  /\ At("instrument") \/ At("instrumentPackage")
  /\ ~Instrumented
  /\ temp' = temp \ {NextPkg}
  /\ Returns({"instrument"})
  /\ Quietly /\ UNCHANGED <<defers, instr, verdict>>

\* MkdirTemp fails, or anything after it.
InstrumentFails ==
  /\ At("instrument") \/ At("instrumentPackage")
  /\ ~Instrumented
  /\ temp' = (temp \ {NextPkg}) \ instr
  /\ Returns({"instrument"})
  /\ Quietly /\ UNCHANGED <<defers, instr, verdict>>

\* Mutation: the removal is not deferred.
InstrumentDoneUndeferred ==
  /\ At("instrument") /\ Instrumented
  /\ Goto("build")
  /\ Prints /\ UNCHANGED <<defers, temp, instr, verdict>>

InstrumentDone ==
  /\ At("instrument") /\ Instrumented
  /\ defers' = defers \cup {"cleanup"}
  /\ Goto("build")
  /\ Prints /\ UNCHANGED <<temp, instr, verdict>>

-----------------------------------------------------------------------------
(***************************************************************************)
(* run, from the build to the end.                                         *)
(***************************************************************************)
Build ==
  /\ At("build")
  /\ \E result \in {"nil", "failed", "ctx"}, broken \in BOOLEAN :
       /\ BuildMayReturn(result, ctx, TRUE, broken)
       /\ IF result = "nil" THEN Goto("baseline") /\ Prints
                            ELSE Returns({"build"}) /\ Quietly
  /\ UNCHANGED <<defers, temp, instr, verdict>>

Baseline ==
  /\ At("baseline")
  /\ \E result \in {"nil", "baseline", "interrupted"}, failing \in BOOLEAN :
       /\ BaselineMayReturn(result, ctx, TRUE, failing)
       /\ IF result = "nil" THEN Goto("campaign") /\ Prints
                            ELSE Returns({result}) /\ Quietly
  /\ UNCHANGED <<defers, temp, instr, verdict>>

\* RunInstrumented, and the summary; a mutant is canceled only by an interrupt.
Campaign ==
  /\ At("campaign")
  /\ verdict' \in [Mutants -> Verdicts]
  /\ (\E m \in Mutants : verdict'[m] = "canceled") => ctx
  /\ Goto("judge")
  /\ Prints /\ UNCHANGED <<defers, temp, instr>>

Count(v) == Cardinality({m \in Mutants : verdict[m] = v})

Summary ==
  [total |-> Cardinality(Mutants), detected |-> Count("killed") + Count("timedout"),
   survived |-> Count("survived"), errors |-> Count("error"),
   canceled |-> Count("canceled")]

Judge ==
  /\ At("judge")
  /\ IF ctx THEN Returns({"interrupted"}) /\ Prints
            ELSE Returns(EvaluateSummary(Summary, threshold)) /\ Quietly
  /\ UNCHANGED <<defers, temp, instr, verdict>>

-----------------------------------------------------------------------------
(***************************************************************************)
(* The deferred calls, the last one first, and main.                       *)
(***************************************************************************)
Cleanup ==
  /\ At("cleanup")
  /\ temp' = IF "cleanup" \in defers THEN temp \ instr ELSE temp
  /\ Goto("output")
  /\ Quietly /\ UNCHANGED <<defers, instr, verdict>>

\* Mutation: the joined error is not assigned to the result.
JoinWriteErrorLost ==
  /\ At("output")
  /\ Goto("interrupt")
  /\ Quietly /\ UNCHANGED <<defers, temp, instr, verdict>>

JoinWriteError ==
  /\ At("output")
  /\ pc' = "interrupt"
  /\ retErr' = IF "output" \in defers /\ writeErr
               THEN retErr \cup {"write"} ELSE retErr
  /\ Quietly /\ UNCHANGED <<defers, temp, instr, verdict>>

JoinInterrupt ==
  /\ At("interrupt")
  /\ pc' = "exit"
  /\ retErr' = IF ctx THEN retErr \cup {"interrupted"} ELSE retErr
  /\ Quietly /\ UNCHANGED <<defers, temp, instr, verdict>>

\* Mutation: an error that is none of ours decides.
ExitCodeOtherFirst ==
  CASE retErr = {} -> 0
    [] retErr # {} /\ retErr \subseteq {"testsFailed", "baseline", "interrupted"} -> 1
    [] OTHER -> 2

ExitCode ==
  CASE retErr = {} -> 0
    [] retErr \cap {"testsFailed", "baseline", "interrupted"} # {} -> 1
    [] OTHER -> 2

Exit ==
  /\ pc = "exit" /\ pc' = "exited"
  /\ code' = ExitCode
  /\ UNCHANGED <<ctx, threshold, positive, retErr, defers, temp, instr, verdict,
                 writeErr>>

Exited == pc = "exited" /\ UNCHANGED vars

-----------------------------------------------------------------------------
Run ==
  \/ NoRun \/ ParsedFlags \/ Enter \/ Discover \/ MakeReporter
  \/ DiffFails \/ ListOnly \/ Discovered
  \/ MakeTemp \/ InstrumentPackage \/ InstrumentFails \/ InstrumentDone
  \/ Build \/ Baseline \/ Campaign \/ Judge
  \/ Cleanup \/ JoinWriteError \/ JoinInterrupt \/ Exit

Next == Interrupt \/ Run \/ Exited

Spec == Init /\ [][Next]_vars

-----------------------------------------------------------------------------
TypeOK ==
  /\ ctx \in BOOLEAN /\ writeErr \in BOOLEAN
  /\ pc \in {"flags", "enter", "discover", "reporter", "points", "instrument",
            "instrumentPackage", "build", "baseline", "campaign", "judge",
            "cleanup", "output", "interrupt", "exit", "exited"}
  /\ threshold \in Thresholds /\ positive \in BOOLEAN
  /\ retErr \subseteq {"config", "discovery", "other", "diff", "instrument",
                      "build", "baseline", "interrupted", "testsFailed", "write"}
  /\ defers \subseteq {"output", "cleanup"}
  /\ temp \subseteq Pkgs /\ instr \subseteq Pkgs
  /\ verdict \in [Mutants -> Verdicts \cup {"none"}]
  /\ code \in 0..3

Tested == \E m \in Mutants : verdict[m] # "none"

\* The flags were valid, each mutant was tested to a verdict and the kill rate over
\* all of them meets the threshold; without one, none survived.
Honest ==
  /\ Valid
  /\ \A m \in Mutants : verdict[m] \in {"killed", "timedout", "survived"}
  /\ 100 * (Count("killed") + Count("timedout"))
       >= (IF threshold > 0 THEN threshold ELSE 100) * Cardinality(Mutants)

\* A green run is an honest one: when mutants were tested and mutest exits with
\* 0, no mutant was left out, and those that count as detected are enough.
GreenIsHonest == code = 0 /\ Tested => Honest

\* Output that could not be written is never a success, wherever it was cut off
\* and whatever was returned.
WriteErrorFails == writeErr => code # 0

\* mutest leaves no instrumented package behind: not when a later package cannot
\* be instrumented, nor when a build, the baseline or the campaign is
\* interrupted or fails.
NoTempLeft == pc = "exited" => temp = {}

\* A signal that arrives once run is called and before its last deferred call
\* makes the exit code 1, also when the interrupted phase reported an error of
\* its own that would make it 2.
InterruptedExitsOne ==
  [](ctx /\ pc \notin {"flags", "exit", "exited"} => [](pc = "exited" => code = 1))

-----------------------------------------------------------------------------
(***************************************************************************)
(* The inductive invariant: what ties the place of the run to the deferred *)
(* calls, the directories and the error it will return.                    *)
(***************************************************************************)
Starting == {"flags", "enter", "discover", "reporter"}
Working  == {"instrument", "instrumentPackage"}
Prepared == {"build", "baseline", "campaign", "judge"}
Over     == {"cleanup", "output", "interrupt", "exit", "exited"}

CodeIsLate == code = IF pc = "exited" THEN ExitCode ELSE 3

\* A directory belongs to an instrumented package or to the one being worked on,
\* and once InstrumentAll has succeeded a deferred call will remove it.
TempKnown ==
  /\ pc = "instrumentPackage" =>
       ~Instrumented /\ temp \subseteq instr \cup {NextPkg}
  /\ pc # "instrumentPackage" => temp \subseteq instr
  /\ pc \in Starting \cup {"points"} \cup (Over \ {"cleanup"}) => temp = {}
  /\ pc \in Prepared => "cleanup" \in defers
  /\ pc = "cleanup" => temp = {} \/ "cleanup" \in defers

\* While run can print, the call that asks for write errors is deferred; after
\* it the error is there.
WriteErrKept ==
  /\ pc \in Starting => ~writeErr
  /\ pc \in {"points"} \cup Working \cup Prepared => "output" \in defers
  /\ pc \in {"cleanup", "output"} /\ writeErr => "output" \in defers
  /\ pc \in {"interrupt", "exit", "exited"} /\ writeErr => retErr # {}

\* Mutants are tested with valid flags only, and what is judged to be no error is
\* an honest success.
Earned ==
  /\ pc \in {"discover", "reporter", "points"} \cup Working \cup Prepared => Valid
  /\ pc \notin {"judge"} \cup Over => ~Tested
  /\ pc = "judge" => verdict \in [Mutants -> Verdicts]
  /\ pc \in Over /\ Tested /\ retErr = {} => Honest

PipelineInductive == TypeOK /\ CodeIsLate /\ TempKnown /\ WriteErrKept /\ Earned
=============================================================================
