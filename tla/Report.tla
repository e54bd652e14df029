------------------------------- MODULE Report -------------------------------
(***************************************************************************)
(* What mutest prints (output/), in the order in which run asks for it: in *)
(* text or as JSON, for a dry run, without points, and for a campaign, with*)
(* the output of its tests (TailBuffer).  Each Write to stdout or stderr   *)
(* goes through checkedWriter and may fail, or write less than it was      *)
(* given.                                                                  *)
(*                                                                         *)
(* An item is what one Write prints; wording and layout are left out.  The *)
(* result of a mutant is a record of the fields of runner.Result.          *)
(***************************************************************************)
EXTENDS SequencesExt, TailBuffer

CONSTANTS
  NumPoints,   \* mutation points there may be
  MaxBytes     \* the most a test writes

ASSUME ReportAssumption == NumPoints \in Nat /\ MaxBytes \in Nat

VARIABLES
  cfg,       \* the flags
  count,     \* the number of mutation points, after the diff
  pc,        \* where run is
  ctx,       \* the context is done
  result,    \* the results, None for a mutant that has not been tested
  tail,      \* the tail buffer of the test that runs
  written,   \* history: the number of bytes it has written
  todo,      \* the writes of the statement run is at, still to be done
  meant,     \* history: all writes so far
  got,       \* what has arrived
  failed,    \* r.errors
  err        \* what rep.Err() has returned to run

reportVars == <<cfg, count, todo, meant, got, failed, err>>
vars == <<reportVars, pc, ctx, result, tail, written>>

Points == 1..count
Flags(c, e, t, k) == [Canceled |-> c, Err |-> e, TimedOut |-> t, Killed |-> k]
None == [none |-> TRUE]
Canceled == Flags(TRUE, FALSE, FALSE, FALSE)
Outcomes == {Canceled, Flags(FALSE, TRUE, FALSE, FALSE),
             Flags(FALSE, FALSE, TRUE, FALSE), Flags(FALSE, FALSE, FALSE, TRUE),
             Flags(FALSE, FALSE, FALSE, FALSE)}
Untested == {m \in Points : result[m] = None}

-----------------------------------------------------------------------------
(***************************************************************************)
(* Statuses, counters and the list of survivors, each from the fields.     *)
(***************************************************************************)
FirstSet(r, fields) ==
  LET set == {i \in DOMAIN fields : r[fields[i]]}
  IN IF set = {} THEN "Survived" ELSE fields[Min(set)]

statusOf(r)     == FirstSet(r, <<"Canceled", "Err", "TimedOut", "Killed">>)
ToJSONResult(r) == FirstSet(r, <<"Canceled", "Err", "TimedOut", "Killed">>)

\* The counters of the runner's summary.
Statuses   == {"Canceled", "Err", "TimedOut", "Killed", "Survived"}
Counted(r) == FirstSet(r, <<"Canceled", "Err", "TimedOut", "Killed">>)
Counters ==
  [s \in Statuses |-> Cardinality({m \in Points : Counted(result[m]) = s})]

\* Mutation: a canceled mutant is listed too.
SurvivesAny(r) == ~r.Err /\ ~r.Killed /\ ~r.TimedOut

Survives(r) == ~r.Err /\ ~r.Killed /\ ~r.TimedOut /\ ~r.Canceled

\* The survivors in their order: before the i-th there are i - 1 others.
Surviving == {m \in Points : Survives(result[m])}
Survivors == [i \in 1..Cardinality(Surviving) |->
                CHOOSE m \in Surviving : Cardinality({k \in Surviving : k < m}) = i - 1]

-----------------------------------------------------------------------------
(***************************************************************************)
(* The reports, as the items they print.                                   *)
(***************************************************************************)
Note(what) == [kind |-> "info", what |-> what]

DryRunJSON == <<[kind |-> "array", points |-> count]>>

DryRunText ==
  <<Note("discovered")>> \o [m \in Points |-> [kind |-> "point", id |-> m]]

WriteJSONSummary(includeResults) ==
  <<[kind |-> "summary", counters |-> Counters,
     results |-> IF includeResults
                 THEN [m \in Points |-> ToJSONResult(result[m])] ELSE <<>>]>>

PrintReport ==
  <<[kind |-> "counters", counters |-> Counters]>> \o
    [i \in DOMAIN Survivors |-> [kind |-> "survivor", id |-> Survivors[i]]]

-----------------------------------------------------------------------------
(***************************************************************************)
(* checkedWriter.                                                          *)
(***************************************************************************)
Emit(dest, items) ==
  /\ todo = <<>>
  /\ todo' = [i \in DOMAIN items |-> [to |-> dest, item |-> items[i]]]
  /\ meant' = meant \o todo'
  /\ UNCHANGED <<cfg, count, got, failed, err>>

Nothing == todo = <<>> /\ UNCHANGED reportVars

\* An item of which only a part has arrived.
Torn(w) == [to |-> w.to, item |-> w.item, torn |-> TRUE]

\* A Write takes n bytes, none, a part or all, and may return an error.
Arrives(n, e) ==
  /\ got' = CASE n = "none" -> got
              [] n = "part" -> Append(got, Torn(Head(todo)))
              [] n = "all"  -> Append(got, Head(todo))
  /\ failed' = (e \/ n # "all")

\* Mutation: it is tried again after an error.
CheckedWriteAgain ==
  /\ todo # <<>> /\ todo' = Tail(todo)
  /\ \E n \in {"none", "part", "all"}, e \in BOOLEAN : Arrives(n, e)
  /\ UNCHANGED <<cfg, count, meant, err, pc, ctx, result, tail, written>>

CheckedWrite ==
  /\ todo # <<>> /\ todo' = Tail(todo)
  /\ IF failed THEN UNCHANGED <<got, failed>>
     ELSE \E n \in {"none", "part", "all"}, e \in BOOLEAN : Arrives(n, e)
  /\ UNCHANGED <<cfg, count, meant, err, pc, ctx, result, tail, written>>

\* Mutation: progress goes to stdout in any mode.
InfoStdout == "stdout"

Info == IF cfg.json THEN "stderr" ELSE "stdout"

-----------------------------------------------------------------------------
(***************************************************************************)
(* run.                                                                    *)
(***************************************************************************)
Init ==
  /\ cfg \in [json : BOOLEAN, verbose : BOOLEAN, dryRun : BOOLEAN, diff : BOOLEAN]
  /\ count \in 0..NumPoints
  /\ pc = "diff" /\ ctx = FALSE
  /\ result = [m \in Points |-> None]
  /\ tail = Empty /\ written = 0
  /\ todo = <<>> /\ meant = <<>> /\ got = <<>>
  /\ failed = FALSE /\ err = FALSE

Goto(from, to) == pc = from /\ pc' = to
Unchanged == UNCHANGED <<ctx, result, tail, written>>

Diff ==
  /\ Goto("diff", "list") /\ Unchanged
  /\ IF cfg.diff THEN Emit(Info, <<Note("filtered")>>) ELSE Nothing

DryRun ==
  /\ Goto("list", "end") /\ Unchanged
  /\ cfg.dryRun
  /\ Emit("stdout",
       CASE cfg.json -> DryRunJSON
         [] ~cfg.json /\ count = 0 -> <<Note("no points")>>
         [] OTHER -> DryRunText)

NoMutationPoints ==
  /\ Goto("list", "end") /\ Unchanged
  /\ ~cfg.dryRun /\ count = 0
  /\ Emit("stdout", IF cfg.json THEN WriteJSONSummary(TRUE) ELSE <<Note("no points")>>)

\* From the points to the campaign: some more notes.
Phases ==
  /\ Goto("list", "campaign") /\ Unchanged
  /\ ~cfg.dryRun /\ count > 0
  /\ Emit(Info, <<Note("discovered"), Note("testing")>>)

\* The instrumentation, the build or the baseline fails.
PhaseFails ==
  /\ Goto("list", "end") /\ Unchanged
  /\ ~cfg.dryRun /\ count > 0
  /\ Emit(Info, <<Note("discovered")>>)

Interrupt ==
  /\ pc = "campaign" /\ ~ctx /\ ctx' = TRUE
  /\ UNCHANGED <<reportVars, pc, result, tail, written>>

\* The callback of ProgressFunc; the runner calls it under its mutex.
Progress(m, r, output) ==
  CASE cfg.json /\ ~cfg.verbose -> Nothing
    [] cfg.json /\ cfg.verbose ->
         Emit("stdout", <<[kind |-> "result", id |-> m, status |-> ToJSONResult(r)]>>)
    [] OTHER ->
         Emit("stdout",
           <<[kind |-> "result", id |-> m, status |-> statusOf(r)]>> \o
           IF cfg.verbose /\ output # <<>>
           THEN <<[kind |-> "output", bytes |-> output]>> ELSE <<>>)

\* The test of a mutant writes p to the pipe.
TestWrites(n) ==
  /\ pc = "campaign" /\ todo = <<>> /\ Untested # {}
  /\ written + n <= MaxBytes
  /\ tail' = TailWrite(tail, [i \in 1..n |-> written + i])
  /\ written' = written + n
  /\ UNCHANGED <<reportVars, pc, ctx, result>>

\* It ends with the outcome r; a canceled one only when the context is done.
TestEnds(m, r) ==
  /\ Goto("campaign", "campaign")
  /\ r.Canceled => ctx
  /\ result' = [result EXCEPT ![m] = r]
  /\ Progress(m, r, Captured(tail))
  /\ tail' = Empty /\ written' = 0
  /\ UNCHANGED ctx

\* Those that were never launched, in their order.
NeverLaunched ==
  /\ pc \in {"campaign", "rest"} /\ pc' = "rest"
  /\ ctx /\ Untested # {} /\ written = 0
  /\ LET m == Min(Untested)
     IN result' = [result EXCEPT ![m] = Canceled] /\ Progress(m, Canceled, <<>>)
  /\ UNCHANGED <<ctx, tail, written>>

Summary ==
  /\ pc \in {"campaign", "rest"} /\ pc' = "summary"
  /\ Untested = {} /\ Unchanged
  /\ Emit("stdout", IF cfg.json THEN WriteJSONSummary(~cfg.verbose) ELSE PrintReport)

Interrupted ==
  /\ Goto("summary", "end") /\ Unchanged
  /\ IF ctx THEN Emit(Info, <<Note("interrupted")>>) ELSE Nothing

\* The deferred call of rep.Err.
End ==
  /\ Goto("end", "done") /\ Unchanged
  /\ todo = <<>>
  /\ err' = failed
  /\ UNCHANGED <<cfg, count, todo, meant, got, failed>>

Done == pc = "done" /\ UNCHANGED vars

Next ==
  \/ Diff \/ DryRun \/ NoMutationPoints \/ Phases \/ PhaseFails \/ Interrupt
  \/ \E n \in 0..MaxBytes : TestWrites(n)
  \/ \E m \in Untested, r \in Outcomes : TestEnds(m, r)
  \/ NeverLaunched \/ Summary \/ Interrupted \/ CheckedWrite \/ End \/ Done

Spec == Init /\ [][Next]_vars

-----------------------------------------------------------------------------
(***************************************************************************)
(* The inductive invariant of the writes, the tail buffer and the reports. *)
(***************************************************************************)
Sequence(s) == s \in Seq(Range(s))

\* What run still has to write is the end of all it meant to write.
Queued ==
  /\ Sequence(meant) /\ Sequence(todo)
  /\ Len(todo) <= Len(meant)
  /\ \A i \in 1..Len(todo) : todo[i] = meant[Len(meant) - Len(todo) + i]
  /\ \A i \in 1..Len(meant) :
       meant[i] = [to |-> meant[i].to, item |-> meant[i].item]

\* What has arrived is its beginning: all of what was written as long as no
\* write failed, and at the end of it one write may be torn.
Delivered ==
  /\ Sequence(got)
  /\ Len(got) <= Len(meant) - Len(todo)
  /\ ~failed => Len(got) = Len(meant) - Len(todo)
  /\ \A i \in 1..Len(got) :
       /\ got[i].to = meant[i].to /\ got[i].item = meant[i].item
       /\ i < Len(got) \/ ~failed => got[i] = meant[i]

\* The end comes when nothing is left to write, and asks for the error.
Concluded == pc = "done" => todo = <<>> /\ err = failed

\* The buffer of a test that has written w bytes.
Size(w) == IF w > Limit THEN Limit ELSE w
Overflows(w) == w > Limit
Kept(w) == [data |-> [i \in 1..Size(w) |-> w - Size(w) + i],
            truncated |-> Overflows(w)]

\* Nothing is tested before the campaign, and a campaign has something to test.
Tested == Points \ Untested
Campaigned ==
  /\ result \in [Points -> Outcomes \cup {None}]
  /\ pc \in {"diff", "list"} => Tested = {}
  /\ pc \in {"campaign", "rest", "summary"} => count > 0 /\ ~cfg.dryRun

\* Where an item of a kind stands in all that was meant, and where stdout does.
At(kind) == {i \in 1..Len(meant) : meant[i].item.kind = kind}
OnStdout == {i \in 1..Len(meant) : meant[i].to = "stdout"}

\* Unless a summary will have them all, the results are printed on stdout one by
\* one: each mutant tested so far once, with the status it is counted under.
Streams == ~cfg.json \/ cfg.verbose
Line(m) == [kind |-> "result", id |-> m, status |-> Counted(result[m])]
Streamed ==
  /\ \A i \in At("result") : \E m \in Tested : meant[i].item = Line(m)
  /\ \A i, j \in At("result") : meant[i].item = meant[j].item => i = j
  /\ Streams => \A m \in Tested : \E i \in At("result") : meant[i].item = Line(m)
  /\ ~Streams => At("result") = {}
  /\ At("result") \subseteq OnStdout

\* A report comes when nothing is left to test, and is about all mutants.
Reports == At("array") \cup At("summary") \cup At("counters") \cup At("survivor")
Reported ==
  /\ pc \in {"diff", "list", "campaign", "rest"} => Reports = {}
  /\ At("summary") \cup At("counters") # {} => Tested = Points
  /\ \A i \in At("summary") \cup At("counters") : meant[i].item.counters = Counters
  /\ At("result") = {} => \A i \in At("summary") :
       meant[i].item.results = [m \in Points |-> ToJSONResult(result[m])]
  /\ At("counters") # {} => Streams
  /\ At("counters") # {} => {meant[i].item.id : i \in At("survivor")} = Surviving

\* With -json stdout has the kinds of its mode, the report last.
MachineKinds == CASE cfg.dryRun -> {"array"}
                  [] cfg.verbose /\ ~cfg.dryRun -> {"result", "summary"}
                  [] OTHER -> {"summary"}
Machine ==
  cfg.json =>
    /\ \A i \in OnStdout : meant[i].item.kind \in MachineKinds
    /\ \A i \in OnStdout \cap Reports : \A j \in OnStdout : j <= i
    /\ pc \in {"diff", "list"} => OnStdout = {}
    /\ pc \in {"summary", "end", "done"} /\ OnStdout # {} => OnStdout \cap Reports # {}

ReportInductive ==
  /\ count \in Nat /\ failed \in BOOLEAN
  /\ Queued /\ Delivered /\ Concluded
  /\ written \in Nat /\ tail = Kept(written)
  /\ Campaigned /\ Streamed /\ Reported /\ Machine

-----------------------------------------------------------------------------
\* What is kept of a test's output is its end, Limit bytes of it or all if it
\* wrote less, however it is cut into writes, and the marker stands before it
\* exactly when something is missing.
TailExact ==
  LET first == IF written > Limit THEN written - Limit + 1 ELSE 1
  IN Captured(tail) = (IF written > Limit THEN <<Marker>> ELSE <<>>)
                        \o [i \in 1..(written - first + 1) |-> first + i - 1]

\* No gap stays unnoticed: what has arrived, on stdout and stderr together, is
\* the beginning of what was to be printed, and where anything is missing, run
\* learns of it at the end.
NoSilentGap ==
  /\ \A i \in DOMAIN got : /\ got[i].to = meant[i].to
                           /\ got[i].item = meant[i].item
                           /\ i < Len(got) => got[i] = meant[i]
  /\ pc = "done" /\ got # meant => err

\* With -json stdout is JSON and nothing else, also in diff mode and when mutest
\* is interrupted: one array for a dry run; the results one by one and a summary
\* without them with -v; and otherwise one summary with all results.
Stdout == {i \in DOMAIN got : got[i].to = "stdout"}
MachineReadable ==
  cfg.json =>
    /\ \A i \in Stdout : got[i].item.kind \in MachineKinds
    /\ \A i, j \in Stdout : got[i].item.kind \in {"array", "summary"} => j <= i
    /\ pc = "done" /\ ~err /\ Stdout # {} =>
         /\ \E i \in Stdout : got[i].item.kind \in {"array", "summary"}
         /\ cfg.verbose /\ ~cfg.dryRun =>
              Cardinality({i \in Stdout : got[i].item.kind = "result"}) = count

\* The results that are printed one by one, the counters and the list of survivors
\* or of results tell the same story: every mutant once, with the status it is
\* counted under, the survivors listed and no others.
Items(kind) == {got[i].item : i \in {j \in DOMAIN got : got[j].item.kind = kind}}
OneStory ==
  pc = "done" /\ ~err =>
    \A s \in Statuses :
      LET told == {r \in Items("result") : r.status = s}
          streamed == Items("result") # {}
      IN /\ \A t \in Items("counters") \cup Items("summary") :
              streamed => Cardinality(told) = t.counters[s]
         /\ \A t \in Items("summary") : ~streamed =>
              t.counters[s] = Cardinality({m \in DOMAIN t.results : t.results[m] = s})
         /\ s = "Survived" /\ Items("counters") # {} =>
              {i.id : i \in Items("survivor")} = {r.id : r \in told}
=============================================================================
