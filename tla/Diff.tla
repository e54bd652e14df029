-------------------------------- MODULE Diff --------------------------------
(***************************************************************************)
(* Diff mode (diff/): the headers and hunks git diff prints, what the loop *)
(* of parseDiffOutput does with them, addUntrackedFiles and FilterPoints.  *)
(* git is external.                                                        *)
(*                                                                         *)
(* A file is named by <<package, index>>.  How it differs from the merge   *)
(* base is a record                                                        *)
(*   status  same, modified, deleted, untracked, or uncached: removed from *)
(*           the index but still on disk, and so deleted and untracked     *)
(*   lines   the lines that are new or changed, when it is modified        *)
(*   cut     lines were removed at its end, and none put there             *)
(*   plus    the first changed line has a text that begins with "++ "      *)
(*   form    how git prints the path: with a TAB behind it, in quotes      *)
(***************************************************************************)
EXTENDS Integers

DevNull   == <<0, 1>>
Elsewhere == <<0, 2>>     \* what stands behind "++ " in a changed line
NoFile    == <<0, 0>>

\* The path in a header, with what git puts around it: the prefix b/ inside the
\* quotes, a TAB behind them.
Header(path, form) == [path |-> path, form |-> form]

\* A count of 1 is left out.
Hunk(start, count) == [start |-> start, count |-> IF count = 1 THEN <<>> ELSE <<count>>]

\* git diff --unified=0 prints a header for each file that was modified or deleted,
\* and behind it a hunk for each run of changed lines.
Printed(change) == change.status \in {"modified", "deleted", "uncached"}

HeaderOf(path, change) ==
  IF change.status = "modified" THEN Header(path, change.form \cup {"b/"})
                                ELSE Header(DevNull, {})

Runs(lines) == {r \in lines \X lines : /\ r[1] <= r[2] /\ r[1]..r[2] \subseteq lines
                                        /\ {r[1] - 1, r[2] + 1} \cap lines = {}}

HunksOf(change) ==
  IF change.status = "modified"
  THEN {Hunk(r[1], r[2] - r[1] + 1) : r \in Runs(change.lines)}
         \cup (IF change.cut THEN {Hunk(9, 0)} ELSE {})
  ELSE {Hunk(0, 0)}

\* An added line is printed behind its "+", and so the first one may look like a
\* header.
LooksLikeHeader(change, hunk) ==
  change.plus /\ \A l \in change.lines : hunk.start <= l

-----------------------------------------------------------------------------
\* The path of a header.  TrimSuffix takes the TAB, Unquote wants nothing behind
\* the quotes, and TrimPrefix takes b/ from a path without quotes; a path that
\* keeps any of them is that of no file.
TrimTab(form) == form \ {"tab"}
Unquote(form) == IF "tab" \in form THEN form ELSE form \ {"quotes"}
TrimPrefix(form) == IF "quotes" \in form THEN form ELSE form \ {"b/"}

Decoded(line) ==
  IF TrimPrefix(Unquote(TrimTab(line.form))) = {} THEN line.path ELSE Elsewhere

\* Mutation: a hunk has one line more.
NewLinesOneMore(hunk) ==
  IF hunk.count = <<>> THEN {hunk.start} ELSE hunk.start..(hunk.start + hunk.count[1])

\* The lines of the post-image a hunk covers; one if it has no count, none if it
\* is 0.
NewLines(hunk) ==
  IF hunk.count = <<>> THEN {hunk.start}
  ELSE hunk.start..(hunk.start + hunk.count[1] - 1)

Lines(cl, path) == IF path \in DOMAIN cl THEN cl[path].lines ELSE {}

\* What the loop of parseDiffOutput does with a header and with a hunk.
CurrentFile(line) == IF Decoded(line) = DevNull THEN NoFile ELSE Decoded(line)

AddHunk(cl, file, hunk) ==
  IF file = NoFile \/ NewLines(hunk) = {} THEN cl
  ELSE [f \in DOMAIN cl \cup {file} |->
          IF f = file THEN [all |-> FALSE, lines |-> Lines(cl, file) \cup NewLines(hunk)]
          ELSE cl[f]]

\* An untracked file is changed as a whole, whatever the diff says of it.
AddUntrackedFiles(cl, paths) ==
  [f \in DOMAIN cl \cup paths |->
     IF f \in paths THEN [all |-> TRUE, lines |-> {}] ELSE cl[f]]

FilterPoints(points, cl) ==
  {p \in points : /\ p.file \in DOMAIN cl
                  /\ cl[p.file].all \/ p.line \in cl[p.file].lines}
=============================================================================
