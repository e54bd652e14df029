----------------------------- MODULE Instrument -----------------------------
(***************************************************************************)
(* instrumentFile and generateRuntime (instrument.go): the text of a file  *)
(* with all its mutations embedded, and the helpers its package needs.     *)
(*                                                                         *)
(* points is the set of the points of one file, with their MutestIDs.      *)
(* A replacement is an entry of built: from the range it replaces in the   *)
(* source to the text it puts there.                                       *)
(***************************************************************************)
EXTENDS Mutators

Within(inner, outer) == outer[1] <= inner[1] /\ inner[2] <= outer[2]
Whole(n) == <<n.X[1], n.Y[2]>>
Size(n) == n.Y[2] - n.X[1]

\* The node a point is about, matched by number and operator.
Matches(t, nodes, i, p) == p.nodeID = i - 1 /\ p.original = t[nodes[i].op].k

Targets(t, points) ==
  LET nodes == Nodes(t)
  IN {i \in 1..Len(nodes) : \E p \in points : Matches(t, nodes, i, p)}

\* Mutation: the outer replacements first.
InnerFirstReversed(nodes, i, j) == Size(nodes[i]) > Size(nodes[j])

\* An inner target has a smaller range than its outer ones.
InnerFirst(nodes, i, j) == Size(nodes[i]) < Size(nodes[j])

\* The targets by size; the order of equal ones does not matter.
Order(nodes, targets) ==
  SetToSortSeq(targets, LAMBDA i, j : \/ InnerFirst(nodes, i, j)
                                      \/ ~InnerFirst(nodes, j, i) /\ i < j)

\* The replacements within a range that are in no other one of the range.
Roots(built, range) ==
  LET inside == {r \in DOMAIN built : Within(r, range)}
  IN {r \in inside : ~\E o \in inside : o # r /\ Within(r, o)}

\* textWithInnerRepls, and the last phase of instrumentFile for the whole file.
TextWithInnerRepls(t, range, built) ==
  LET roots == SetToSortSeq(Roots(built, range), LAMBDA a, b : a[1] < b[1])
      Step(acc, r) == [text |-> acc.text \o SubSeq(t, acc.pos, r[1] - 1) \o built[r],
                       pos |-> r[2] + 1]
      end == FoldLeft(Step, [text |-> <<>>, pos |-> range[1]], roots)
  IN end.text \o SubSeq(t, end.pos, range[2])

On(p) == <<[k |-> "on", n |-> p.mutestID]>>
Parens(text) == Text(<<"(">>) \o text \o Text(<<")">>)
Op(l, op, r) == l \o Text(<<op>>) \o r

\* The text that replaces a comparison: an equality flipped by the switch, a
\* constant one flipped where its operands are equal, any other one handed to its
\* helper; "0" stands for false.
CallExpr(p, lhs, rhs) ==
  CASE p.original \in DOMAIN equalitySwapTable ->
         Op(Parens(Op(lhs, p.original, rhs)), "!=", On(p))
    [] p.original \notin DOMAIN equalitySwapTable /\ p.constant ->
         Parens(Op(Parens(Op(lhs, p.original, rhs)), "!=",
                   Parens(Op(On(p), "&&", Parens(Op(lhs, "==", rhs))))))
    [] OTHER -> Parens(Op(<<[k |-> "cmp", n |-> p.mutestID]>>
                            \o Parens(Op(lhs, ",", rhs)), "!=", Text(<<"0">>)))

InstrumentFile(t, points) ==
  LET nodes == Nodes(t)
      PointOf(i) == CHOOSE p \in points : Matches(t, nodes, i, p)
      Step(built, i) ==
        (Whole(nodes[i]) :> CallExpr(PointOf(i),
                               TextWithInnerRepls(t, nodes[i].X, built),
                               TextWithInnerRepls(t, nodes[i].Y, built))) @@ built
      built == FoldLeft(Step, <<>>, Order(nodes, Targets(t, points)))
  IN TextWithInnerRepls(t, <<1, Len(t)>>, built)

\* Points that match no node are an error, not mutants that change nothing: there
\* are as many targets as points when each point has one, and one of its own.
AllMatched(t, points) ==
  \A p \in points :
    \E i \in Targets(t, points) :
      /\ Matches(t, Nodes(t), i, p)
      /\ \A q \in points : Matches(t, Nodes(t), i, q) => p = q

\* The helpers of the points: what _mutest_cmp_n does without and with mutation n.
GenerateRuntime(points) ==
  LET helpers == {p \in points : p.original \in DOMAIN swapTable /\ ~p.constant}
  IN [n \in {p.mutestID : p \in helpers} |->
        LET p == CHOOSE h \in helpers : h.mutestID = n IN <<p.original, p.mutated>>]

-----------------------------------------------------------------------------
(***************************************************************************)
(* The reference: the program with one operator changed.                   *)
(***************************************************************************)
WithMutation(t, p) ==
  [t EXCEPT ![Nodes(t)[p.nodeID + 1].op] = Token(p.mutated)]
=============================================================================
