------------------------------- MODULE Source -------------------------------
(***************************************************************************)
(* From the sources of a project to its instrumented packages: discovery,  *)
(* diff mode and InstrumentAll one after the other, as run calls them.     *)
(* Failures of git and of the go tool are errors; those of writing the     *)
(* instrumented files are in Pipeline.                                     *)
(*                                                                         *)
(* project.diff tells whether -diff is given, project.changes how each     *)
(* path of the repository differs from the merge base.                     *)
(***************************************************************************)
EXTENDS Discovery, Diff, Instrument

\* changes has every file, and git names no other by a path that is not one.
ASSUME ChangesAssumption ==
  \A pr \in Projects : pr.diff =>
    /\ \A p \in DOMAIN pr.pkgs : \A i \in DOMAIN pr.pkgs[p].files :
         <<p, i>> \in DOMAIN pr.changes
    /\ \A path \in DOMAIN pr.changes :
         /\ path \notin {DevNull, Elsewhere, NoFile}
         /\ pr.changes[path].form \subseteq {"tab", "quotes"}
         /\ \E last \in {0} \cup pr.changes[path].lines :
              \A l \in pr.changes[path].lines : l \in Nat /\ l <= last

VARIABLES
  git,          \* what is still to be parsed of the output of git diff: paths, and
                \* of the one whose header was parsed last, hunks
  currentFile,  \* of parseDiffOutput
  cl,           \* the ChangedLines parsed so far
  out,          \* the instrumented text of each file with points
  helper        \* for each package, its _mutest_cmp_n

diffVars == <<git, currentFile, cl>>
vars == <<discoveryVars, diffVars, out, helper>>

Init ==
  /\ DiscoveryInit
  /\ git = [left |-> {}, path |-> NoFile, hunks |-> {}] /\ currentFile = NoFile
  /\ cl = <<>> /\ out = <<>> /\ helper = <<>>

Discover == DiscoveryNext /\ UNCHANGED <<diffVars, out, helper>>

(***************************************************************************)
(* Diff mode.  A command of a context that is done fails.                  *)
(***************************************************************************)
NoDiff ==
  /\ At("points") /\ ~project.diff
  /\ Goto("instrument")
  /\ UNCHANGED <<cache, checked, points, diffVars, out, helper>>

DiffFails ==
  /\ At("points") \/ At("mergeBase") \/ At("gitDiff") \/ At("untracked")
  /\ project.diff
  /\ Fails("diff")
  /\ UNCHANGED <<cache, checked, points, diffVars, out, helper>>

RepoRoot ==
  /\ At("points") /\ project.diff /\ ~ctx
  /\ Goto("mergeBase")
  /\ UNCHANGED <<cache, checked, points, diffVars, out, helper>>

MergeBase ==
  /\ At("mergeBase") /\ ~ctx
  /\ Goto("gitDiff")
  /\ UNCHANGED <<cache, checked, points, diffVars, out, helper>>

GitDiff ==
  /\ At("gitDiff") /\ ~ctx
  /\ git' = [git EXCEPT !.left = {p \in DOMAIN project.changes : Printed(project.changes[p])}]
  /\ Goto("parse")
  /\ UNCHANGED <<cache, checked, points, currentFile, cl, out, helper>>

\* The loop of parseDiffOutput: the next header, or the next hunk of the file with
\* the lines behind it.  git has the files in the order of their paths.
ParseHeader ==
  /\ At("parse") /\ git.hunks = {}
  /\ \E p \in git.left :
       LET change == project.changes[p]
       IN /\ \A q \in git.left : p = q \/ Before(p, q)
          /\ git' = [left |-> git.left \ {p}, path |-> p, hunks |-> HunksOf(change)]
          /\ currentFile' = CurrentFile(HeaderOf(p, change))
  /\ Goto("parse")
  /\ UNCHANGED <<cache, checked, points, cl, out, helper>>

ParseHunk ==
  /\ At("parse")
  /\ \E hunk \in git.hunks :
       /\ \A other \in git.hunks : hunk.start <= other.start
       /\ git' = [git EXCEPT !.hunks = @ \ {hunk}]
       /\ cl' = AddHunk(cl, currentFile, hunk)
       /\ currentFile' = IF LooksLikeHeader(project.changes[git.path], hunk)
                         THEN CurrentFile(Header(Elsewhere, {"b/"})) ELSE currentFile
  /\ Goto("parse")
  /\ UNCHANGED <<cache, checked, points, out, helper>>

Parsed ==
  /\ At("parse") /\ git.hunks = {} /\ git.left = {}
  /\ Goto("untracked")
  /\ UNCHANGED <<cache, checked, points, diffVars, out, helper>>

\* addUntrackedFiles, and FilterPoints in run.
Untracked ==
  /\ At("untracked") /\ ~ctx
  /\ cl' = AddUntrackedFiles(cl, {f \in DOMAIN project.changes :
                                    project.changes[f].status \in {"untracked", "uncached"}})
  /\ points' = FilterPoints(points, cl')
  /\ Goto("instrument")
  /\ UNCHANGED <<cache, checked, git, currentFile, out, helper>>

(***************************************************************************)
(* InstrumentAll, one package a step, in the order of the import paths.    *)
(***************************************************************************)
Remaining == {p.file[1] : p \in {q \in points : q.mutestID = 0}}

\* The points of a package in their order get the IDs from 1 on.
PointsOf(pkg) == {p \in points : p.file[1] = pkg}
Rank(p) == 1 + Cardinality({q \in PointsOf(p.file[1]) : Earlier(q, p)})

\* Mutation: the file is read again.
SourceOfAgain(f) == disk[f].text

SourceOf(f) == cache[f].text

InstrumentPackage ==
  /\ At("instrument") /\ Remaining # {}
  /\ LET pkg       == Min(Remaining)
         numbered  == {[p EXCEPT !.mutestID = Rank(p)] : p \in PointsOf(pkg)}
         OfFile(f) == {p \in numbered : p.file = f}
         files     == {p.file : p \in numbered}
     IN /\ points' = (points \ PointsOf(pkg)) \cup numbered
        /\ IF \A f \in files : AllMatched(SourceOf(f), OfFile(f))
           THEN /\ out' = [f \in DOMAIN out \cup files |->
                             IF f \in files THEN InstrumentFile(SourceOf(f), OfFile(f))
                                            ELSE out[f]]
                /\ helper' = [n \in DOMAIN helper \cup {pkg} |->
                                IF n = pkg THEN GenerateRuntime(numbered) ELSE helper[n]]
                /\ Goto("instrument")
           ELSE Fails("instrument") /\ UNCHANGED <<out, helper>>
  /\ UNCHANGED <<cache, checked, diffVars>>

Instrumented ==
  /\ At("instrument") /\ Remaining = {}
  /\ Goto("done")
  /\ UNCHANGED <<cache, checked, points, diffVars, out, helper>>

Done == pc \in {"done", "failed"} /\ UNCHANGED vars

Next ==
  \/ (Interrupt \/ EditFile) /\ UNCHANGED <<diffVars, out, helper>>
  \/ Discover
  \/ NoDiff \/ DiffFails \/ RepoRoot \/ MergeBase \/ GitDiff
  \/ ParseHeader \/ ParseHunk \/ Parsed \/ Untracked
  \/ InstrumentPackage \/ Instrumented \/ Done

Spec == Init /\ [][Next]_vars

-----------------------------------------------------------------------------
\* A discovery without error has lost nothing: every comparison of every file is
\* a point exactly once, but for those that the skip rules name, those whose
\* mutation changes nothing (clamps) and checks that only propagate an error.
NothingLost ==
  pc = "points" =>
    \A f \in {g \in Files : disk[g] = Original(g)} :
      \A i \in Comparisons(Original(f)) :
        \/ SkippedByRules(Original(f), LineOf(Original(f), i))
        \/ Excusable(Original(f), i)
        \/ Cardinality(PointsAt(f, i)) = 1

\* //mutest:skip and const declarations leave out the lines that the README's
\* rules name and no others; where two blocks begin on one line, no more than
\* those.
SkipAsDocumented ==
  pc = "points" =>
    \A f \in Files :
      /\ \A p \in points : p.file = f /\ OneBlockPerLine(cache[f]) =>
           ~SkippedByRules(cache[f], p.line)
      /\ \A i \in Comparisons(cache[f]) :
           LET line == LineOf(cache[f], i)
           IN ShouldSkip(BuildSkipInfo(cache[f]), line) => SkippedByRules(cache[f], line)

\* In diff mode exactly those points of the discovery remain that stand on new or
\* changed lines or in untracked files.
OnChangedLine(p) ==
  LET change == project.changes[p.file]
  IN \/ change.status \in {"untracked", "uncached"}
     \/ change.status = "modified" /\ p.line \in change.lines

Unnumbered(p) == [p EXCEPT !.mutestID = 0]

DiffExact ==
  pc \in {"instrument", "done"} /\ project.diff =>
    \A f \in Files : \E typed \in BOOLEAN :
      {Unnumbered(p) : p \in {q \in points : q.file = f}}
        = {p \in FilePoints(f, typed) : OnChangedLine(p)}

\* Every point finds its comparison again when the package is instrumented, also
\* when the file was saved in the meantime: the numbers of the walk in the
\* mutators and in instrumentFile agree.
PointsMatch == err # "instrument"

\* The helper with a point's number does what the point says.
HasItsHelper(p) ==
  p.original \in DOMAIN swapTable /\ ~p.constant =>
    /\ p.mutestID \in DOMAIN helper[p.file[1]]
    /\ helper[p.file[1]][p.mutestID] = <<p.original, p.mutated>>

\* The points of a package have the numbers from 1 on, each once, none is left out
\* of the instrumentation, and each that needs a helper has one of its own.
EachNumberOnce ==
  pc = "done" =>
    /\ {p.file[1] : p \in points} = DOMAIN helper
    /\ {p.file : p \in points} = DOMAIN out
    /\ \A pkg \in DOMAIN helper :
         {p.mutestID : p \in PointsOf(pkg)} = 1..Cardinality(PointsOf(pkg))
    /\ \A p \in points : HasItsHelper(p)

\* The instrumented package with mutation id active is the program with that one
\* comparison mutated and nothing else, and without a mutation it is the program
\* itself: same values, same evaluations in the same order, for any nesting of
\* the comparisons.
MutantMeaning ==
  /\ EachNumberOnce
  /\ pc = "done" =>
       \A pkg \in DOMAIN helper :
         LET mine == PointsOf(pkg)
         IN \A f \in DOMAIN out \cap FilesOf(pkg), env \in Envs :
              LET source == cache[f].text
                  Behaves(id) == Evaluate(out[f], env, id, helper[pkg])
              IN /\ Behaves(0) = Evaluate(source, env, 0, <<>>)
                 /\ \A p \in mine : Behaves(p.mutestID) =
                      Evaluate(IF p.file = f THEN WithMutation(source, p)
                               ELSE source, env, 0, <<>>)
=============================================================================
