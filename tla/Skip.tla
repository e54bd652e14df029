-------------------------------- MODULE Skip --------------------------------
(***************************************************************************)
(* //mutest:skip (engine.go): which lines of a file buildSkipInfo and      *)
(* shouldSkip leave out, and the rules the README states for them.         *)
(*                                                                         *)
(* Of a file f this needs, by line:                                        *)
(*   f.funcs       the function declarations, with the text of a directive *)
(*                 in their doc comment (doc) or without                   *)
(*   f.blocks      the if/for/range/switch/select statements, in the order *)
(*                 of ast.Inspect: an outer one before an inner one        *)
(*   f.directives  the comments that contain mutest:skip                   *)
(*   f.consts      the const declarations                                  *)
(***************************************************************************)
EXTENDS Integers, SequencesExt

In(line, range) == range.from <= line /\ line <= range.to

\* The map of buildBlockRanges: where two blocks start on one line, the one
\* visited last stays.
BlockRanges(f) ==
  [line \in {f.blocks[b].from : b \in 1..Len(f.blocks)} |->
     f.blocks[Max({b \in 1..Len(f.blocks) : f.blocks[b].from = line})]]

\* Mutation: a standalone comment is taken for one behind code.
TargetSame(d) == d.line

\* The line a directive is about: its own, or the next one if it stands alone.
Target(d) == IF d.standalone THEN d.line + 1 ELSE d.line

BuildSkipInfo(f) ==
  LET ranges == BlockRanges(f)
      targets == {Target(d) : d \in f.directives}
  IN [lines  |-> {d.line : d \in f.directives} \cup targets,
      ranges |-> {[from |-> fn.from, to |-> fn.to] : fn \in {g \in f.funcs : g.doc}}
                 \cup {ranges[t] : t \in targets \cap DOMAIN ranges}
                 \cup f.consts]

ShouldSkip(si, line) == line \in si.lines \/ \E r \in si.ranges : In(line, r)

-----------------------------------------------------------------------------
(***************************************************************************)
(* The rules of the README ("Skip Directive"): a function by its doc       *)
(* comment, the line of an inline comment, the line after a comment that   *)
(* stands alone, and the whole block if a block begins there; and const    *)
(* declarations in any case.                                               *)
(***************************************************************************)
NamedBy(d, f, line) ==
  LET target == IF d.standalone THEN d.line + 1 ELSE d.line
  IN line = target \/ \E b \in 1..Len(f.blocks) :
                        f.blocks[b].from = target /\ In(line, f.blocks[b])

SkippedByRules(f, line) ==
  \/ \E fn \in f.funcs : fn.doc /\ In(line, fn)
  \/ \E d \in f.directives : NamedBy(d, f, line)
  \/ \E c \in f.consts : In(line, c)

\* gofmt puts a block that contains another on lines of its own.
OneBlockPerLine(f) ==
  \A b, c \in 1..Len(f.blocks) : f.blocks[b].from = f.blocks[c].from => b = c
=============================================================================
