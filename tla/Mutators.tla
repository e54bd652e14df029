------------------------------ MODULE Mutators ------------------------------
(***************************************************************************)
(* The two mutators (mutator/): which comparisons of a file become points. *)
(*                                                                         *)
(* A file f has a text (module GoExpr), the line of each statement, and for*)
(* the statements that are an if without init, f.ifs[s]: whether it has an *)
(* else branch, and its body.  f.types gives the class of each variable:   *)
(*   int (a local one), global (a package-level int), float, bool, error   *)
(*   or other.                                                             *)
(* typed is FALSE where the type information is missing, in a package with *)
(* cgo files.                                                              *)
(***************************************************************************)
EXTENDS GoExpr

swapTable ==
  [op \in {">", ">=", "<", "<="} |->
     CASE op = ">" -> ">=" [] op = ">=" -> ">" [] op = "<" -> "<=" [] op = "<=" -> "<"]

equalitySwapTable == [op \in {"==", "!="} |-> IF op = "==" THEN "!=" ELSE "=="]

Mutated ==
  [op \in DOMAIN swapTable \cup DOMAIN equalitySwapTable |->
     IF op \in DOMAIN swapTable THEN swapTable[op] ELSE equalitySwapTable[op]]

Kinds(t, r) == [i \in 1..(r[2] - r[1] + 1) |-> t[r[1] + i - 1].k]

\* ast.Unparen of an expression that is a name or a constant.
Bare(t, r) == SelectSeq(Kinds(t, r), LAMBDA k : k \notin {"(", ")"})

\* n is the condition of statement s, in parentheses or not.
IsCondition(t, n, s) ==
  LET r == StatementRange(t, s)
  IN /\ r[1] <= n.X[1] /\ n.Y[2] <= r[2]
     /\ \A k \in (r[1]..n.X[1] - 1) \cup (n.Y[2] + 1..r[2]) : t[k].k \in {"(", ")"}

\* An if statement without else and with one statement in its body.
Simple(stmt) == ~stmt.else /\ Len(stmt.body) = 1

\* Mutation: the constant assigned may be another one.
ClampsAnyConstant(f, n, stmt) ==
  /\ Simple(stmt)
  /\ f.text[n.op].k \in DOMAIN swapTable
  /\ LET do == stmt.body[1]
     IN /\ do.kind = "assign" /\ do.tok = "="
        /\ f.types[do.lhs] = "int"
        /\ do.rhs \in DOMAIN Literals
        /\ \E pair \in {<<n.X, n.Y>>, <<n.Y, n.X>>} :
             /\ Bare(f.text, pair[1]) = <<do.lhs>>
             /\ IsConstant(f.text, pair[2])

\* clampComparisons, for one if statement with condition n.
Clamps(f, n, stmt) ==
  /\ Simple(stmt)
  /\ f.text[n.op].k \in DOMAIN swapTable
  /\ LET do == stmt.body[1]
     IN /\ do.kind = "assign" /\ do.tok = "="
        /\ f.types[do.lhs] = "int"
        /\ do.rhs \in DOMAIN Literals
        /\ \E pair \in {<<n.X, n.Y>>, <<n.Y, n.X>>} :
             /\ Bare(f.text, pair[1]) = <<do.lhs>>
             /\ Bare(f.text, pair[2]) = <<do.rhs>>

\* One result of a return statement; err and nil are names, other kinds are
\*   const, call, wrap (fmt.Errorf with %w as its only verb, then err), and
\*   format (fmt.Errorf with another verb, or more of them).
Same(result) == result = "err"
Harmless(result) == result \in {"nil", "const"}

\* isSimpleErrPropagation and isErrNilCheck, for one if statement with condition
\* n, which has to stand without parentheses.
PropagatesErr(f, n, stmt, typed) ==
  /\ Simple(stmt)
  /\ f.text[n.op].k = "!="
  /\ n.X[1] > 1 => f.text[n.X[1] - 1].k # "("
  /\ IF Kinds(f.text, n.X) = <<"err">> THEN Kinds(f.text, n.Y) = <<"nil">>
     ELSE Kinds(f.text, n.X) = <<"nil">> /\ Kinds(f.text, n.Y) = <<"err">>
  /\ typed /\ f.types["err"] = "error"
  /\ LET do == stmt.body[1]
     IN /\ do.kind = "return"
        /\ \A i \in DOMAIN do.results :
             Same(do.results[i]) \/ Harmless(do.results[i]) \/ do.results[i] = "wrap"
        /\ \E i \in DOMAIN do.results :
             Same(do.results[i]) \/ do.results[i] = "wrap"

IfWithCondition(f, n, Test(_)) ==
  \E s \in DOMAIN f.ifs : IsCondition(f.text, n, s) /\ Test(f.ifs[s])

NodeLine(f, n) == f.line[StatementAt(f.text, n.op)]

\* DiscoverTyped of both, for the file of that name: the points of the operators
\* in a table, without those in left, which count in the numbering all the same.
DiscoverTyped(file, f, table, left, typed) ==
  LET nodes == Nodes(f.text)
      op(i) == f.text[nodes[i].op].k
  IN {[file |-> file, nodeID |-> i - 1, original |-> op(i), mutated |-> table[op(i)],
       line |-> NodeLine(f, nodes[i]), mutestID |-> 0,
       constant |-> /\ table = swapTable /\ typed
                    /\ IsConstant(f.text, <<nodes[i].X[1], nodes[i].Y[2]>>)] :
      i \in {j \in 1..Len(nodes) : op(j) \in DOMAIN table /\ j \notin left}}

ComparisonPoints(file, f, typed) ==
  LET nodes == Nodes(f.text)
      skip  == {i \in 1..Len(nodes) : typed /\ IfWithCondition(f, nodes[i],
                  LAMBDA stmt : Clamps(f, nodes[i], stmt))}
  IN DiscoverTyped(file, f, swapTable, skip, typed)

EqualityPoints(file, f, typed, skipErrPropagation) ==
  LET nodes == Nodes(f.text)
      errSkip == {i \in 1..Len(nodes) : skipErrPropagation /\ IfWithCondition(f, nodes[i],
                    LAMBDA stmt : PropagatesErr(f, nodes[i], stmt, typed))}
  IN DiscoverTyped(file, f, equalitySwapTable, errSkip, typed)

\* The order of the points, which are kept as a set: by file, in a file by
\* mutator, and those of a mutator by their numbers.
Before(f, g) == f[1] < g[1] \/ (f[1] = g[1] /\ f[2] < g[2])
Earlier(p, q) ==
  LET Mutator(r) == IF r.original \in DOMAIN swapTable THEN 1 ELSE 2
  IN \/ Before(p.file, q.file)
     \/ p.file = q.file /\ Before(<<Mutator(p), p.nodeID>>, <<Mutator(q), q.nodeID>>)
=============================================================================
