# Verification of mutest

TLA+ models of [mutest](../src/README.md), a mutation tester for Go boundary and
equality comparisons, with TLC configurations and TLAPS proofs. mutest
instruments each package once with all its mutations, builds one test binary per
package, runs it unmutated (baseline) and then once per mutant, and turns the
verdicts into a report and an exit code.

## The system

| Component | State it keeps | Operations | Talks to | Hard behaviour | Correct when |
|---|---|---|---|---|---|
| `runner.RunInstrumented`, `testMutantRuntime` | `results`, `reported`, `done` under `mu`; semaphore; wait group; a context per test run | launch one worker per package, test, store, report, sweep, count | engine (packages), process, the reporter's callback | parallel workers, deadline vs. interrupt vs. exit, unlocked reads after `wg.Wait` | each mutant is reported once with a verdict its test run justifies; returns although tests hang |
| `runner.VerifyBaseline` | first error, semaphore, wait group | run every package unmutated | process; `baselineErr` in run | failure vs. interrupt, launch loop stopped half-way | nil only if all packages passed; an interrupt is not a broken suite |
| `internal/process` | the child, its process group, output pipe, tail buffer, `WaitDelay` | `Command`, `CombinedOutput`, `Cancel` | os/exec, kernel | three goroutines, descendants that outlive, escape or hold the pipe | nobody of the group is left; buffer quiet when read and the exact tail of the output; always returns once the leader ended |
| `engine.BuildTestBinaries` | first error, its own context, `BinaryPath`/`NoTests` of packages | build each package | process (`go test -c`) | first error cancels others, no deadline | nil only if all are built; the error is the cause, not a consequence |
| `engine.InstrumentAll`, `CleanupInstrumented` | temporary directories, mutant IDs, overlay | rewrite, write, remove | file system | partial failure; nested comparisons | no directory is left; each ID activates exactly its comparison |
| `engine` discovery, skip directives | source cache, packages, line ranges | `go list`, parse, type check, filter | go tool | stale sources, block ranges | every comparison that is not skipped is found |
| `cmd/mutest` `run`, `main.exitCode` | returned error, deferred calls | the phases in order | everything | an interrupt or a failed write in any phase | exit 0 only for a complete, reported campaign |
| `output` | sticky write error, path cache | progress, summary | stdout/stderr | cut-off output, output between JSON | a failed write reaches the exit code; stdout is JSON with `-json`; all reports agree |
| `diff` | changed lines per file | parse `git diff`, filter points | git | header look-alikes, renames | exactly the points on changed lines remain |
| `mutator` | none | select comparisons | discovery | clamp and error-propagation exceptions | only equivalent mutants are left out |
| `config` | none | range checks | run | NaN, infinities | no campaign with values out of range |

The hazards behind the properties are listed line by line in `PROJECT.json`.

## Modules

| Module | Models | State and actions |
|---|---|---|
| `Campaign` | what a caller of `RunInstrumented` is promised (abstract) | evidence and outcome of each mutant, interrupted, returned |
| `Runner` | `RunInstrumented`, `testMutantRuntime` | one program counter for the calling goroutine (`main`) and one for each worker (`worker`); one action per shared access: `JudgeCanceled` and `JudgeDeadline` are the two context reads, `Report`/`Progress` the locked section, `Sweep` one turn of the last loop |
| `RunnerInv` | the inductive invariant of `Runner` | |
| `RunnerProofs` | theorems about `Runner`: tokens and verdicts; results, events and the promise | |
| `TestRun` | one call of `CombinedOutput` as its callers see it (abstract) | the pairs of ending and error that `Runner` uses |
| `Command` | `process.Command`, `CombinedOutput`, Unix `Cancel`, and os/exec around them | the caller, `watchCtx`, the pipe copier, the `WaitDelay` timer; leader and descendants with process group and pipe |
| `Phases` | contracts of build and baseline, for `Pipeline` | |
| `Pool` | the job pool both of them have | launch loop over a map (any order), semaphore, wait group, first error |
| `Build` | `BuildTestBinaries`, `BuildTestBinary` | `Pool`, the child context, binaries |
| `Baseline` | `VerifyBaseline`, `baselineErr` | `Pool`, a deadline per package |
| `PoolProofs`, `BuildProofs`, `BaselineProofs`, `CommandProofs`, `PipelineProofs`, `ReportProofs`, `SourceProofs` | theorems about the module of that name; `PoolProofs` has the lemmas the two pools share | |
| `Pipeline` | `Run`, `run`, `Config.Validate`, `InstrumentAll`'s failures, `CleanupInstrumented`, `exitCode` | a program counter over the statements of `Run` and `run`, its deferred calls in their order |
| `KillRate` | `CalcKillRate` in float64, `evaluateSummary` | operators on a summary |
| `Gate` | one call of `evaluateSummary` | summary, threshold, verdict |
| `GoExpr` | the part of Go that instrumentation relies on (external): precedence, the walk of `ast.Inspect`, evaluation | operators on a text, which is a sequence of tokens |
| `Skip` | `buildSkipInfo`, `buildBlockRanges`, `buildConstRanges`, `shouldSkip`, and the rules of the README | operators on the lines of a file |
| `Mutators` | `DiscoverTyped` of both mutators, `clampComparisons`, `isSimpleErrPropagation`, `isErrNilCheck` | operators from a file to its points |
| `Instrument` | `instrumentFile`, `textWithInnerRepls`, `generateRuntime` | operators from a text and its points to the instrumented text |
| `Diff` | the headers and hunks of `git diff` (external), what the loop of `parseDiffOutput` does with each (`CurrentFile`, `AddHunk`), `addUntrackedFiles`, `FilterPoints` | operators on a header, a hunk, the changed lines |
| `Discovery` | `DiscoverAllContext` | the content of the files on disk, the source cache, the points (a set, which `Earlier` puts in the order of the slice); one action per call of the go tool, file read and package walked |
| `Source` | `ParseGitDiffContext` and the diff mode of `run`, `InstrumentAll`, behind `Discovery` | the output of git still to be parsed (`git`), `currentFile`, the changed lines, the instrumented texts, the helpers; one action per git command, header, hunk and package |
| `TailBuffer` | `tailBuffer.Write`, the marker of `CombinedOutput` | operators on a buffer |
| `Report` | `Reporter`, `PrintReport`, the JSON reports, `checkedWriter`, in the order in which `run` uses them | what is to be printed, what has arrived, the sticky error, the results |
| `MC*` | small instances | |

How they compose: `Command` implements `TestRun`, and `Runner` takes from
`TestRun` how a test run can end and which error it leaves. `Runner` implements
`Campaign`. `Build` and `Baseline` keep the contracts of `Phases`; `Pipeline`
uses these contracts and that of `Campaign` (a mutant is canceled only by an
interrupt) for the phases it calls. `Pipeline` and `Gate` share `KillRate`.
`Source` is `Discovery`, `Diff` and `Instrument` one after the other over the
same files; `Discovery` uses `Skip` and `Mutators`, which use `GoExpr`. `Report`
feeds its tests' output through `TailBuffer`. `Pipeline` knows of these two only
that a phase or a write may fail.

Names follow the source. Where the source has a boolean field for each outcome
(`Killed`, `TimedOut`, `Canceled`, `Err`) the models have one status, in the
order of precedence that `RunInstrumented` and `statusOf` use. What a test prints
and how long it takes, paths and wording are left out.

Operators marked *Mutation* are plausible bugs next to the action they distort;
no specification uses them. `PROJECT.json` says which property finds which.

### What is abstracted, and why it is sound

- An interrupt is one monotone flag, as a context is. The parent's error is set
  before its children are canceled (`Propagate` is a separate step).
- Time: a deadline may pass at any moment after its context exists. Of
  `testTimeoutBackstop` the models have the order it makes, not the five seconds:
  the in-binary timeout passes after the deadline (`Backstop`). That a padding of
  five seconds is enough for this order is an assumption about the machine; what
  depends on it is checked (`VerdictsSound` fails with `BackstopUnpadded`).
- `WaitDelay` (one second) may run out at any moment once the context has ended.
  Before, it runs out only while the pipe has a writer: otherwise the copier and
  the caller have nothing to wait for, and would have to stand still for the whole
  delay to lose the race. A last writer that goes just as the timer runs out goes,
  in the model, just after.
- `kill` takes effect at once (`KillGroup`). In the code it sends SIGKILL, which no
  process can block, and `CombinedOutput` does not wait for descendants to be gone:
  `NoLeftovers` means that each of them has ended or been sent SIGKILL. That the
  killed may linger matters for the `WaitDelay` timer, which is why it may
  run out at any moment then.
- In `Command` the error of a `watchCtx` that found no process and cut the output
  off is set when it closes the pipe; the code sets it after the copier has ended,
  before anybody reads it.
- A mutant whose deadline passes between the end of its process and the read of
  the context is TIMEOUT although its tests ended; the code does this too and
  `Campaign!Justifies` allows it. On Windows (`ExitedOnKill`) a test process
  killed by somebody else is KILLED, because its exit code cannot be told from a
  failing test; on Unix it is ERROR.
- Critical sections that contain no callback are one step; the one of `report`
  calls the progress callback and is two.
- In `Pipeline` a phase is one step that reads the context at its end; an
  interrupt inside the phase is an interrupt before that step. `RemoveAll` is
  assumed to succeed.
- A threshold is a whole number of percent, as in the documentation's examples.
  The float64 rate can differ from the rational one in its verdict only if the
  two sides are equal (rates with at most 100 mutants and whole thresholds are
  otherwise further apart than rounding reaches), so `RoundsBelow` computes the
  sign of the rounding error of that one division and product. NaN, infinities
  and negative thresholds fail `Validate` as 101 does.
- A file is the tokens of its comparisons, statement by statement, and for every
  `if`, function, block, directive and constant declaration the lines it has. A
  result of `Evaluate` is a value and the order in which variables were read, so
  a rewriting that evaluates an operand twice or not at all shows. Calls and
  assignments in a statement's body are names for what others can see of them.
- A file's path is a pair (package, position); quoting and a TAB behind a path
  are flags of a diff header. A hunk is its header: the lines behind it matter only
  where one is taken for a `+++` header (`LooksLikeHeader`), which can be the first
  changed line of a file. `filepath.EvalSymlinks` (logical and physical root)
  is not modelled: a point's path and the diff's agree.
- The diff is that of the files as they were read by discovery. An edit between
  discovery and `git diff` would shift lines, in the code as in any such tool.
  Edits between discovery and instrumentation are modelled (`EditFile`).
- `SkipAsDocumented` is exact for files in which no two blocks begin on one line,
  which is what gofmt makes of any file. For others it promises that no line is
  left out that the rules do not name; the inner block replaces the outer one in
  the map (engine.go:417), so lines of the outer block may be tested.
- An item of `Report` is what one `Write` prints. A `Write` takes everything,
  a part or nothing, with an error or without; a part that arrived is marked
  `torn`. The message `-h` and the messages of `main` go to stderr past the
  checked writer and are not part of it.

## Runs

| Run | Question | Instance |
|---|---|---|
| `runner_parallel` | verdicts, sweep, event stream, refinement of `Campaign` | three packages, one without tests, two tokens, killed processes look exited |
| `runner_serial` | slots behind an offset, the bound of processes, complete runs, the inductive invariant; termination by deadlines, and by an interrupt without them | packages of two mutants and one, one token, tests may hang |
| `command` | left-over processes, buffer, cut-off output, refinement of `TestRun`, return after the leader | two descendants |
| `command_exit_zero` | is exit 0 always SURVIVED, as documented? (no) | two descendants |
| `command_tree` | is the process tree canceled, as documented? (no) | two descendants |
| `build` | contract, no late writers, failure ends the phase | three packages, one without tests, two tokens |
| `baseline` | the same for the baseline | four packages, one without tests, two tokens |
| `pipeline` | honest exit code 0, write errors, temporary directories, exit code of an interrupt | three mutants, two packages, thresholds 0 (none), 66, 67, 100 and 101 (invalid) |
| `kill_rate` | does a rate that meets the threshold pass, as documented? (no) | 20, 50 and 100 mutants with every outcome, every threshold |
| `source` | no comparison lost, skip rules, diff mode, points found again after an edit, meaning of the instrumented package | the projects below |
| `diff_header` | does diff mode follow the changed lines for any text? (no) | two packages, a changed line `++ x` |
| `report` | the tail of the output, write errors, JSON on stdout, agreement of the reports | all flags, two mutants, a tail of two bytes, tests that write up to four |

Bounds. Two workers show every interleaving of two critical sections, of a
worker with the launch loop and the sweep, and a package behind an offset; a
third package competes with them for the tokens. Two descendants are enough for
one that escapes together with one that holds the pipe, and for a child of a
child. Three mutants show every mix of three verdicts, and two of three detected
meet a threshold of 66 and miss one of 67 that a rounded rate would meet. 100
mutants reach every whole percent, 20 and 50 reach some of them with other
quotients. A tail of
two bytes is filled exactly, by one write or two, overrun by a byte and by a
write longer than the buffer; two mutants have every pair of outcomes, one of
them tested and one never launched among them. Larger instances are the business
of the proofs. The runs of a module with proofs check the inductive invariant too
(`RunnerInductive`, `CommandInductive`, `BuildInductive`, `BaselineInductive`,
`PipelineInductive`, `ReportInductive`), but for `source`, which checks what follows
from `SourceInductive`.

The projects of `source` (`MCSource`), each with an interrupt at any point:

| Family | Shows |
|---|---|
| `Alone` | one file: blocks in and behind each other with a directive on every line, behind code and alone; a directive in a doc comment; a `const` group; every clamp and error check and its near misses (other constant, other variable, float, global, parentheses, `else`, second statement, a call, wrapped and formatted errors) |
| `Expressive` | nested comparisons: either operand of an equality, both, `&&` and `||`, parentheses, constants |
| `Worked` | two packages, two files in one; a file saved at any moment with a comparison more at its top |
| `Malformed` | files that do not parse or type-check, a go directive that is too old or missing |
| `Cgo` | a package whose type information may be missing |
| `Diffs` | two files, modified on any set of three lines, cut at the end, new, removed from the index, with paths in every form |

Two levels of nesting bring out an inner replacement inside an outer one, with a
sibling; a third adds no new relation between two comparisons. The variables take
the values 0, 1 and, for the clamps, 2, which is below, at and above each
constant used.

Deadlock is checked in every run but that of `Gate`, which is over after one
call: a caller that has returned stutters in an action of its own (`Returned`,
`Judged`, `Exited`, `Done`), and nothing else may stop.

### Fairness

Weak fairness of every goroutine's next step (the Go scheduler), of the
cancellation of a child context, of the kill that os/exec performs when a
context has ended, and of the `WaitDelay` timer. Deadlines are fair in
`Baseline`, and in `Runner` only as the hypothesis of `Termination`:
`InterruptEnds` does without, and builds have none. No test, build or descendant
is ever assumed to end on its own. Taking the mutex or a token needs no strong
fairness: the other workers report finitely often, so the mutex is free for good
in the end, and the launch loop is the only sender into the semaphore.

### Disagreements found

- `command_exit_zero`: a test binary that exits 0 while a child it left behind keeps
  its output open makes `cmd.Run` return `ErrWaitDelay`; the mutant is reported as
  ERROR. The README says that exit 0 is SURVIVED (README.md:368). In the trace the
  child is alive and holds the pipe from before the leader's end until after the
  timer has fired and the pipe has been closed; `TimerFires` allows no shorter way.
- `command_tree`: a descendant in a process group of its own survives the timeout
  on Unix. The README says that timeouts cancel the process tree (README.md:370).

- `diff_header`: an added line with the text `++ x` is printed as `+++ x` and
  parsed as a file header (git.go:133); the changed lines after it in that file
  are lost, and their mutants are not tested. README.md:248 says that the points
  on changed lines are tested.
- `kill_rate`: 29 killed of 50 are 57.99999999999999 percent in float64 and fail
  `-threshold 58` (run.go:246). README.md:180 says that a rate that meets the
  threshold passes. `RoundsBelow` names the whole thresholds with this effect:
  29, 57 and 58. A comment of a test (output_test.go:129) still says that
  thresholds are compared with the rounded score; the code and the README agree
  that they are not.

## Proofs

The theorems hold for every value of the constants that satisfies the assumption
of the module:

| Assumption | Says | Because |
|---|---|---|
| `RunnerAssumption` | packages are numbered, have natural sizes, at least one token | job list, `max(1, cfg.Workers)` |
| `PoolAssumption` | finitely many packages, at least one token | the map of packages, `max(1, workers)` |
| `PipelineAssumption` | finitely many mutants and packages, whole thresholds | see the abstraction of the threshold |
| `TailBufferAssumption` | the limit is a positive number | 64 KiB at every call of `CombinedOutput` |
| `ReportAssumption` | numbers of points and bytes are natural | |
| `ProjectAssumption` | packages, files, blocks, statements and comparisons are numbered from 1 on; no comparison is on the line of a comment that stands alone; what is assigned to is a variable, and its values are numbers | slices of the parser; a `//` comment reaches to the end of its line (a block comment with the directive in front of code is left out); Go assigns to variables only |
| `ChangesAssumption` | in diff mode every file has its entry in the changes, which are finitely many lines of it, and no file is called `/dev/null` | the changes describe the working tree that `git` compares |

`Command` has none: any set of descendants. `DiffIsExact` has a hypothesis besides,
`NoLookAlikes`: no changed line begins with `++ `. The run `diff_header` shows that
`DiffExact` fails without it.

| Module | Theorems | Say |
|---|---|---|
| `RunnerProofs` | `TypeCorrect`, `BoundHolds`, `VerdictsAreSound` | `[]TypeOK`, `[]ConcurrencyBound`, `[]VerdictsSound` |
| | `SlotsOwned`, `SweepIsQuiet`, `UninterruptedRunsComplete`, `StreamIsFaithful` | `[]SlotOwnership`, `[]QuietSweep`, `[]UninterruptedIsComplete`, `[]StreamFaithful` |
| | `PromiseIsKept` | `KeepsPromise`: `Runner` implements `Campaign` |
| `CommandProofs` | `TypeCorrect`, `NobodyIsLeft`, `BufferIsQuiet`, `OutputIsComplete` | `[]TypeOK`, `[]NoLeftovers`, `[]BufferQuiet`, `[]CompleteOutput` |
| | `ImplementsTestRun` | `Command` implements the safety part of `TestRun` |
| `BuildProofs` | `TypeCorrect`, `BuildKeepsContract`, `BuildEndsQuiet` | `[]TypeOK`, `[]BuildContract`, `[]BuildQuiet` |
| `BaselineProofs` | `TypeCorrect`, `BaselineKeepsContract`, `BaselineEndsQuiet` | `[]TypeOK`, `[]BaselineContract`, `[]BaselineQuiet` |
| `PipelineProofs` | `TypeCorrect`, `GreenRunsAreHonest`, `WriteErrorsFail`, `NothingIsLeft`, `InterruptsExitOne` | `[]TypeOK`, `[]GreenIsHonest`, `[]WriteErrorFails`, `[]NoTempLeft`, `InterruptedExitsOne` |
| `ReportProofs` | `TailIsExact`, `GapsAreKnown`, `StdoutIsMachineReadable`, `ReportsTellOneStory` | `[]TailExact`, `[]NoSilentGap`, `[]MachineReadable`, `[]OneStory` |
| `SourceProofs` | `PointsFindTheirNodes`, `SkipsAreDocumented`, `NothingIsLost` | `[]PointsMatch`, `[]SkipAsDocumented`, `[]NothingLost` |
| | `DiffIsExact`, `NumbersAreUnique` | `[]DiffExact` under `NoLookAlikes`, `[]EachNumberOnce`, the first half of `MutantMeaning` |

Each module also proves its inductive invariant (`RunnerInvariant` and so on).
A proof that a step keeps it has a lemma or a step per action, and below it one
step per part that the action can disturb.

### The arguments

**Tokens and verdicts** (`VerdictInv`). `TypeOK` is not inductive: the semaphore
could fall below zero if a worker released a token it did not hold. `LedgerInv`
adds that `sem` is the number of workers in a stage with a token, `wg` that of
the workers not finished, that the launch loop has started exactly the packages
before its position, and that a worker in a test is at a mutant of its package.
The bound follows because running workers hold tokens.

`VerdictsSound` speaks of stored results only. Three facts carry it back to the
end of the process: `Untested` (no ending is known of a mutant before it has run,
so learning one disturbs no stored verdict), `Judgeable` (while the context of
the run is alive, or was canceled after the first read, the error alone tells
how the process ended) and `VerdictKept` (the verdict a worker carries is
justified and canceled only by an interrupt). `Contexts` ties a test context to
the stages that have one, and a canceled one to the interrupt: this is why
reading the parent first, and the deadline second, is enough.

**Slots and events** (`SlotInv`, `EventInv`). `Layout` says that `offset` and
`allPoints` are inverse to each other, so two workers at different mutants are at
different slots; this is what makes the unlocked writes safe. `Accounted` ties a
slot's `reported` to the position of its worker, and says that an unreported slot
is still prefilled with canceled except while its worker is on the way to report
it: hence the sweep may report what it finds. `QuietSweep` comes from the
wait group, which `Counted` equates with the workers that are not finished.
`Numbered` and `Matched` describe the events between the increment of `done` and
the call of the callback, when one slot is reported without its event.

**The promise** (`PromiseIsKept`). `outcome` of a mutant is the status stored in its
slot once the slot is `reported`, and `pending` before (`Outcome`). Setting
`reported` (`Report`, `Sweep`) is therefore `Announce`: for `Report` the
status is the verdict the worker carries (`Stored`), which `VerdictKept` justifies;
`Sweep` finds a slot still prefilled with canceled (`Accounted`), which only an
interrupt allows (`Excused`). `ToldOne` says that a step that reports one slot
tells of one mutant, since slots have different ones. `Store` writes a slot nobody
has reported yet, so it changes no outcome, nor does the callback (`Progress`).
The end of a test run is `RunTests` (`RunsTests`): its mutant is `Untested`, and at a
slot that is not reported. `Return` follows from `Swept`. Every other step leaves the promise
unchanged (`Untold`).

**Commands** (`CommandInductive`). `Progress` ties the leader to the statement
of the caller, `Watched` the goroutine of the context to the caller that waits for
it, `Closed` an early closed pipe to the error that tells of it, `Explained`
the exit code to that error. `ImplementsTestRun` needs the last one: the pair a
caller sees is decided when `Wait` returns and only replaced by
`ErrWaitDelay` or the context's error for a leader that passed.

**Pools** (`BuildInductive`, `BaselineInductive`). `PoolInv` counts tokens and
members as `LedgerInv` does. `Recorded` says that a job over without an error has
done its work, and `Launched` that the loop leaves out a package only when its context
ended; together they give that nil means all. `Causes` follows the first error
back to the build that failed: one that was stopped by the shared context records
its error after the cause, so `firstErr` is the cause. In `Baseline` the first
error may be an interrupt's, which `baselineErr` tells from a failure only
by `ctx`; `Recorded` and `Judgment` say that this is enough.

**The run** (`PipelineInductive`). `TempKnown` and `WriteErrKept` say which call is
deferred at which statement, and what it will find: directories that
belong to packages it knows, a write error not yet returned. `Earned` says what
must hold of verdicts and flags for a run that is about to return nil.
`InterruptsExitOne` follows from `WillExitOne`, which no step leaves.

**The report** (`ReportInductive`). `Queued`: what is still to be written is the
end of all that was meant. `Delivered`: what has arrived is the beginning, all of
it unless a write failed, and only the last item may be torn. The buffer is a
function of the number of bytes written (`Kept`); `TailWriteKeeps` proves that
a write of n bytes to the buffer of w bytes gives the buffer of w + n, in all
three cases of `tailBuffer.Write` and for every limit.

What is printed is described by positions in `meant`, the sequence of all items.
`Streamed`: the results on stdout are those of the mutants tested so far, each
once and with the status it is counted under. `Reported`: there is no report
before everything is tested, and its counters, results and survivors are those
of the results, which no later step changes. `Machine`: with `-json` stdout has
only the kinds of its mode, the report behind all others. At the end, without an
error, what has arrived is what was meant, so `MachineReadable` and `OneStory`
follow by counting: a mutant and its line determine each other.

**From sources to packages** (`SourceInductive`). `CacheInv`: nothing is read once
there are points, and what was read is a file as it was or as it was saved.
`PointInv`: a point is at its node of the cached text, on a line that is not
skipped, and no other point is at that node. The second half is why the points
match: two points of different mutators cannot have the same number and operator,
since the tables have no operator in common, and the packages are walked one
after the other. Numbering the points of a package changes nothing else of them,
so the search of `instrumentFile` finds a node for each, whatever is on
disk by then. `SkipsAreDocumented` needs two lemmas about single files besides: what
the rules name is skipped (`RulesAreSkipped`; where two blocks begin on one line
the code keeps the last and the lemma does not apply), and a comparison that is
skipped is named by a rule (`SkippedByTheRules`). What a text parses to is
not expanded in these proofs.

`NothingIsLost` is about the other direction. `FoundInv`: until the diff is applied,
the points of each file walked are all those that both mutators find in it. A
comparison that the mutators leave out has its reason: `ClampsAreEquivalent` follows
the statement that the comparison guards, in every state of the variables, and
`BoundaryOnly` says that the comparison and its mutation differ only between equal
numbers, where the clamp assigns what the variable has already;
`PropagationsPropagate` is the same for `if err != nil`.

**Diff mode** (`DiffInductive`, on top of `SourceInductive`). `ParseInv`: what has
been parsed of a file and what is still to be parsed of it make up its changed
lines, and the hunks to come will be counted for the file they belong to, or for
none if it is deleted. The lemmas are about one header (`HeaderDecoded`: its path
is read as git wrote it, in all forms) and the hunks of one file (`RunsCover`,
`HunksCover`: maximal runs of the changed lines, each with a count that may be left out,
cover those lines and no others). `HunkParse` is where the hypothesis is needed. The filter
then keeps of the points that `FoundInv` speaks of those on changed lines.

**Numbers** (`NumberInv`). `Earlier` is an order in which no two points are in one
place (`PointsAreOrdered`, by `PointInv`), the points are finitely many
(`PackageIsFinite`), so counting those before a point numbers them from 1 on
(`RanksAreNumbers`). As all points of a package are numbered in one step, a number
names one point, and the helper generated for it is its own.

### Only model-checked

- Liveness (`Termination`, `InterruptEnds`, `LeaderEndedReturns`,
  `FailureEndsBuild`, `BaselineEnds`) and the fair half of `AsSeenByCallers`:
  out of the prover's reach.
- The second half of `MutantMeaning`, that the instrumented text behaves as it
  should: what a text parses and evaluates to, and the text that is put together,
  are recursive functions and folds, and a proof needs an induction over tokens.
- `Gate` and the other runs that find a disagreement.

## Not modelled

- The go tool, git, go/parser and go/types: `Source` has what they return or that
  they fail. Where `resolveFiles` finds packages and export data is left out.
- Flag syntax, `resolveVersion`, regular expressions, `strconv`: library calls.
  What `Run` does with their results is in `Pipeline`.
- Layout of the text report, `RoundedKillRate` (display only), field names and
  indentation of JSON, the cache of relative paths, the baseline's trimmed output.
- The overlay file and the text of the runtime file: `helper` has what the
  generated functions compute.
- `taskkill` on Windows, an external program the source does not describe; reuse
  of process ids by the kernel.
- `Mutator.Apply`, which only the tests call, and `Discover` without type
  information, which the program does not call.
- `testdata`, the sample project of the integration tests.

## Plan

What is left is the behaviour of the instrumented text in `MutantMeaning`. The
proofs leave it with what does not depend on parsing: each point has its node, a
number and a helper of its own. A proof of the rest would follow the construction of
the text from the smallest node outwards.
