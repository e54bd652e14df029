------------------------------ MODULE MCSource ------------------------------
(***************************************************************************)
(* Small projects for Source: families of files that bring out the skip    *)
(* directives, the exceptions of the mutators, nested expressions, several *)
(* files and packages, and diffs.                                          *)
(***************************************************************************)
EXTENDS Source

E(kinds) == Text(kinds)
Stop == Text(<<";">>)

\* A file of the statements given, from a line on, with nothing special.
File(texts, from) ==
  [text |-> FlattenSeq([s \in DOMAIN texts |-> texts[s] \o Stop]),
   line |-> [s \in DOMAIN texts |-> from + s - 1],
   ifs |-> <<>>, types |-> [v \in {"err"} |-> "error"],
   funcs |-> {}, blocks |-> <<>>, directives |-> {}, consts |-> {},
   parses |-> TRUE, checks |-> TRUE]

Pkg(files) == [files |-> files, cgo |-> FALSE, go |-> 24]
Project(pkgs) == [pkgs |-> pkgs, changes |-> <<>>, diff |-> FALSE,
                  skipErrPropagation |-> TRUE, editable |-> FALSE]

Simplest == File(<<E(<<"a", "<", "b">>)>>, 1)
\* A comparison more, at the top.
OneMore(f) == [f EXCEPT !.text = E(<<"b", "<", "a">>) \o Stop \o @,
                        !.line = <<1>> \o [s \in DOMAIN @ |-> @[s] + 1]]

\* ------------------------------------------------------------ expressions
Ordered == {E(<<"a", "<", "b">>), E(<<"a", ">=", "1">>), E(<<"0", "<=", "0">>)}
Simples == Ordered \cup {E(<<"p">>)}
Right == {E(<<"p">>)} \cup {Parens(e) : e \in Ordered}
Equalities == {Op(l, op, r) : l \in Simples, op \in {"==", "!="}, r \in Right}
Nested == {Op(l, "==", Parens(r)) : l \in Equalities, r \in Ordered}
            \cup {Op(Parens(l), "!=", Parens(r)) : l \in Equalities, r \in Ordered}
Logical == {Op(l, op, r) : l \in {E(<<"p">>), E(<<"a", "<", "b">>),
                                     E(<<"a", "==", "b", "!=", "p">>)},
                           op \in {"&&", "||"}, r \in Equalities}
Expressions == Simples \cup Equalities \cup Nested \cup Logical

\* ------------------------------------------------------------ directives
\* A function on lines 2 to 6 with a doc comment on line 1, another on line 7.
Spans == {[from |-> i, to |-> j] : i \in 3..6, j \in 3..6}
Blocks == {<<>>} \cup {<<b>> : b \in {s \in Spans : s.from < s.to}}
            \cup {<<b, c>> : b \in {s \in Spans : s.from < s.to},
                             c \in {s \in Spans : s.from <= s.to}}
Nesting(bs) == Len(bs) = 2 => bs[1].from <= bs[2].from /\ bs[2].to <= bs[1].to
Directives == {{}} \cup {{[line |-> l, standalone |-> s]} : l \in 2..6, s \in BOOLEAN}
SkipFile(blocks, directives, doc, consts) ==
  LET alone == {d.line : d \in {e \in directives : e.standalone}}
      lines == SetToSortSeq((3..7) \ alone, <)
  IN [File([i \in DOMAIN lines |-> E(<<"a", "<", "b">>)], 1) EXCEPT
        !.line = lines, !.blocks = blocks, !.consts = consts,
        !.directives = directives \cup
          (IF doc THEN {[line |-> 1, standalone |-> TRUE]} ELSE {}),
        !.funcs = {[from |-> 2, to |-> 6, doc |-> doc],
                   [from |-> 7, to |-> 7, doc |-> FALSE]}]
SkipFiles ==
  {SkipFile(bs, ds, FALSE, {}) : bs \in {c \in Blocks : Nesting(c)}, ds \in Directives}
    \cup {SkipFile(<<>>, ds, TRUE, cs) : ds \in Directives,
                                        cs \in {{}, {[from |-> 4, to |-> 5]}}}

\* ------------------------------------------------------------ if statements
Assign(v, tok, c) == [kind |-> "assign", lhs |-> v, tok |-> tok, rhs |-> c]
Return(results) == [kind |-> "return", results |-> results]
IfFile(cond, stmt, errType) ==
  [File(<<cond>>, 1) EXCEPT !.ifs = (1 :> stmt),
     !.types = [x |-> "int", y |-> "int", g |-> "global", z |-> "float", err |-> errType]]

ClampConds == {Op(E(<<v>>), op, E(<<c>>)) : v \in {"x", "g", "z"}, op \in {"<", ">=", "=="},
                                            c \in {"0", "1"}}
                \cup {E(<<"1", ">", "x">>), Parens(E(<<"x", "<", "1">>)),
                      E(<<"x", "<", "y">>), E(<<"x", "<", "1", "&&", "p">>)}
ClampBodies == {<<Assign(v, "=", c)>> : v \in {"x", "y", "g", "z"}, c \in {"0", "1"}}
                 \cup {<<Assign("x", "+=", "1")>>, <<[kind |-> "call"]>>, <<>>,
                       <<Assign("x", "=", "1"), [kind |-> "call"]>>}
ClampFiles == {IfFile(c, [body |-> b, else |-> FALSE], "error") :
                 c \in ClampConds, b \in ClampBodies}
                \cup {IfFile(c, [body |-> <<Assign("x", "=", "1")>>, else |-> TRUE], "error") :
                        c \in ClampConds}

ErrConds == {E(<<"err", "!=", "nil">>), E(<<"nil", "!=", "err">>),
             E(<<"err", "==", "nil">>), Parens(E(<<"err", "!=", "nil">>)),
             E(<<"err", "!=", "nil", "&&", "p">>)}
Results == {<<>>, <<"err">>, <<"nil", "err">>, <<"wrap">>, <<"const", "wrap">>,
            <<"format">>, <<"call", "err">>, <<"nil">>, <<"err", "call">>}
ErrFiles == {IfFile(c, [body |-> b, else |-> FALSE], "error") : c \in ErrConds,
               b \in {<<Return(r)>> : r \in Results}
                       \cup {<<Assign("x", "=", "1")>>,
                             <<[kind |-> "call"], Return(<<"err">>)>>}}
              \cup {IfFile(c, [body |-> <<Return(<<"err">>)>>, else |-> e], t) :
                      c \in ErrConds, e \in BOOLEAN, t \in {"error", "other"}}

\* A clamp, and a comparison of either kind behind it.
Behind == {[File(<<E(<<"x", "<", "1">>), e>>, 1) EXCEPT
              !.ifs = (1 :> [body |-> <<Assign("x", "=", "1")>>, else |-> FALSE]),
              !.types = [x |-> "int", err |-> "error"]] :
             e \in {E(<<"a", "<", "b">>), E(<<"a", ">=", "b">>), E(<<"a", "==", "b">>)}}

\* ------------------------------------------------------------ projects
Alone == {Project(<<Pkg(<<f>>)>>) : f \in SkipFiles \cup ClampFiles \cup ErrFiles \cup Behind}
           \cup {[Project(<<Pkg(<<f>>)>>) EXCEPT !.skipErrPropagation = FALSE] :
                   f \in {e \in ErrFiles : ~e.ifs[1].else}}
Expressive == {Project(<<Pkg(<<File(<<e>>, 1)>>)>>) : e \in Expressions}
Worked == {[Project(<<Pkg(<<File(<<e>>, 1), Simplest>>), Pkg(<<Simplest>>)>>)
             EXCEPT !.editable = TRUE] :
             e \in {E(<<"a", "<", "b", "==", "p">>), E(<<"p", "&&", "a", "==", "b">>)}}
Malformed == {Project(<<Pkg(<<[Simplest EXCEPT !.parses = p, !.checks = c], Simplest>>),
                        [Pkg(<<Simplest>>) EXCEPT !.go = v]>>) :
                p \in BOOLEAN, c \in BOOLEAN, v \in {0, 19, 20}}
Cgo == {Project(<<[Pkg(<<[f EXCEPT !.checks = FALSE]>>) EXCEPT !.cgo = TRUE]>>) :
          f \in {IfFile(E(<<"x", "<", "1">>),
                        [body |-> <<Assign("x", "=", "1")>>, else |-> FALSE], "error"),
                 IfFile(E(<<"err", "!=", "nil">>),
                        [body |-> <<Return(<<"err">>)>>, else |-> FALSE], "error"),
                 File(<<E(<<"0", "<=", "0">>)>>, 1)}}

\* ------------------------------------------------------------ diffs
ThreeLines == File([s \in 1..3 |-> E(<<"a", "<", "b">>)], 1)
Modified(lines, cut, form, plus) ==
  [status |-> "modified", lines |-> lines, cut |-> cut, form |-> form, plus |-> plus]
Plain(status) == [Modified({}, FALSE, {}, FALSE) EXCEPT !.status = status]
Others == {Plain(s) : s \in {"same", "untracked", "uncached"}}
Changes(plus) ==
  Others \cup {Modified(l, c, {}, FALSE) : l \in SUBSET (1..3) \ {{}}, c \in BOOLEAN}
         \cup {Modified({2}, FALSE, f, FALSE) : f \in SUBSET {"tab", "quotes"}}
         \cup {Modified({}, TRUE, {}, FALSE)}
         \cup {Modified(l, FALSE, {}, TRUE) : l \in IF plus THEN {{1, 3}} ELSE {}}
\* Two packages of one file each, and a deleted file between them.
Repository(c, d) ==
  [Project(<<Pkg(<<ThreeLines>>), Pkg(<<ThreeLines>>)>>) EXCEPT
     !.diff = TRUE,
     !.changes = (<<1, 1>> :> c) @@ (<<1, 9>> :> Plain("deleted")) @@ (<<2, 1>> :> d)]
Diffs == {Repository(c, d) : c \in Changes(FALSE),
                             d \in Others \cup {Modified({2}, FALSE, {}, FALSE)}}
PlusDiffs == {Repository(c, Plain("same")) : c \in Changes(TRUE)}

Every == Alone \cup Expressive \cup Worked \cup Malformed \cup Cgo \cup Diffs

Names == {"a", "b", "p", "x", "y", "g", "z", "neg", "err"}
Values == {[v \in Names |-> CASE v = "a" -> a [] v = "b" -> b [] v = "p" -> p
                              [] v = "neg" -> 0 [] OTHER -> a] :
             a \in 0..1, b \in 0..1, p \in 0..1}
            \cup {[v \in Names |-> IF v = "neg" THEN n ELSE IF v = "p" THEN 1 ELSE x] :
                    x \in 0..2, n \in 0..1}
=============================================================================
