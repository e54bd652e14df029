------------------------------- MODULE GoExpr -------------------------------
(***************************************************************************)
(* The part of Go that instrumentation depends on: how an expression is    *)
(* parsed by precedence, in which order its operators are visited, and what*)
(* it evaluates to.  go/parser, go/ast and the compiler are external.      *)
(*                                                                         *)
(* The text of a file is the sequence of the tokens of its expressions, one*)
(* expression per statement, with ";" after each.  A token is its kind and *)
(* a number, which is the mutation ID for the two generated functions      *)
(*   [k |-> "on",  n]   _mutest_on(n)                                      *)
(*   [k |-> "cmp", n]   _mutest_cmp_n, an argument list follows            *)
(* and 0 otherwise.  An offset is a position in the text.                  *)
(***************************************************************************)
EXTENDS Integers, FiniteSets, SequencesExt

Token(kind) == [k |-> kind, n |-> 0]
Text(kinds) == [i \in DOMAIN kinds |-> Token(kinds[i])]

Precedence ==
  [op \in {";", "||", "&&", "==", "!=", "<", "<=", ">", ">="} |->
     CASE op = ";" -> 0 [] op = "||" -> 1 [] op = "&&" -> 2 [] OTHER -> 3]

\* The constants that occur, with their values; true and false are 1 and 0.
Literals == [lit \in {"0", "1", "2", "nil"} |->
               CASE lit = "1" -> 1 [] lit = "2" -> 2 [] OTHER -> 0]

\* How deep in parentheses position k of t[i..j] is.
Depth(t, i, k) ==
  Cardinality({x \in i..k : t[x].k = "("})
    - Cardinality({x \in i..k : t[x].k = ")"})

Operators(t, i, j) ==
  {k \in i..j : t[k].k \in DOMAIN Precedence /\ Depth(t, i, k) = 0}

\* The operator applied last: of the lowest precedence, and of those the last.
Root(t, i, j) ==
  LET ops    == Operators(t, i, j)
      lowest == Min({Precedence[t[k].k] : k \in ops})
  IN Max({k \in ops : Precedence[t[k].k] = lowest})

Ranges(t) == (1..Len(t) + 1) \X (0..Len(t))

\* The binary expressions in the order of ast.Inspect: X and Y are the ranges of
\* the operands, parentheses included, and op is where the operator stands.
Nodes(t) ==
  LET in[r \in Ranges(t)] ==
        LET i == r[1]  j == r[2]  k == Root(t, i, j)
        IN IF i > j THEN <<>>
           ELSE IF Operators(t, i, j) = {}
                THEN IF t[i].k = "(" THEN in[<<i + 1, j - 1>>] ELSE <<>>
                ELSE (IF t[k].k = ";" THEN <<>>
                      ELSE <<[X |-> <<i, k - 1>>, op |-> k, Y |-> <<k + 1, j>>]>>)
                     \o in[<<i, k - 1>>] \o in[<<k + 1, j>>]
  IN in[<<1, Len(t)>>]

\* The statement an offset belongs to.
StatementAt(t, k) == 1 + Cardinality({x \in 1..k : t[x].k = ";"})

\* The range of a statement's expression.
StatementRange(t, s) ==
  LET own == {k \in DOMAIN t : StatementAt(t, k) = s /\ t[k].k # ";"}
  IN <<Min(own), Max(own)>>

\* Only literals: the type checker knows the value.
IsConstant(t, r) ==
  \A k \in r[1]..r[2] : t[k].k \in DOMAIN Literals \cup DOMAIN Precedence
                                   \cup {"(", ")"}

Compare(op, a, b) ==
  LET holds == CASE op = "==" -> a = b [] op = "!=" -> a # b
                 [] op = "<" -> a < b [] op = "<=" -> a <= b
                 [] op = ">" -> a > b [] op = ">=" -> a >= b
  IN IF holds THEN 1 ELSE 0

\* What a text evaluates to when env gives the variables their values, active is
\* the mutation selected by MUTEST_ID (0 for none) and helper[n] has the operators
\* of _mutest_cmp_n: v is the value of the last expression, log the variables in
\* the order in which they were read, with the value of each statement.
Evaluate(t, env, active, helper) ==
  LET ev[r \in Ranges(t)] ==
        LET i == r[1]  j == r[2]
            k == Root(t, i, j)
            comma == CHOOSE c \in i..j : t[c].k = "," /\ Depth(t, i, c) = 1
            Operands(left, right) == [l |-> ev[left], r |-> ev[right]]
            Applied(op, o) == [v |-> Compare(op, o.l.v, o.r.v),
                               log |-> o.l.log \o o.r.log]
            Then(l, rest) == [v |-> rest.v, log |-> l.log \o rest.log]
        IN IF i > j THEN [v |-> 0, log |-> <<>>]
           ELSE IF Operators(t, i, j) # {}
           THEN LET l == ev[<<i, k - 1>>]  op == t[k].k
                IN CASE op = ";" -> Then([l EXCEPT !.log = Append(@, ToString(l.v))],
                                         ev[<<k + 1, j>>])
                     [] op = "&&" -> IF l.v = 0 THEN l ELSE Then(l, ev[<<k + 1, j>>])
                     [] op = "||" -> IF l.v = 1 THEN l ELSE Then(l, ev[<<k + 1, j>>])
                     [] OTHER -> Applied(op, Operands(<<i, k - 1>>, <<k + 1, j>>))
           ELSE CASE t[i].k = "(" -> ev[<<i + 1, j - 1>>]
                  [] t[i].k = "on" -> [v |-> IF active = t[i].n THEN 1 ELSE 0,
                                       log |-> <<>>]
                  [] t[i].k = "cmp" ->
                       Applied(helper[t[i].n][IF active = t[i].n THEN 2 ELSE 1],
                               Operands(<<i + 2, comma - 1>>, <<comma + 1, j - 1>>))
                  [] t[i].k \in DOMAIN Literals ->
                       [v |-> Literals[t[i].k], log |-> <<>>]
                  [] OTHER -> [v |-> env[t[i].k], log |-> <<t[i].k>>]
  IN ev[<<1, Len(t)>>]
=============================================================================
