---------------------------- MODULE SourceProofs ----------------------------
(***************************************************************************)
(* What TLAPS proves about Source, for any projects: what the text of a    *)
(* file parses to and evaluates to is not expanded.                        *)
(***************************************************************************)
EXTENDS Source, FiniteSetTheorems, WellFoundedInduction, TLAPS

-----------------------------------------------------------------------------
(***************************************************************************)
(* The inductive invariant.                                                *)
(***************************************************************************)
\* A point that still has its node in the text that was read, on a line that is
\* not skipped.
Placed(p) ==
  LET f == cache[p.file]
  IN /\ p.file \in Files /\ p.file[1] \in 1..checked
     /\ \E i \in 1..Len(Nodes(f.text)) : Matches(f.text, Nodes(f.text), i, p)
     /\ ~ShouldSkip(BuildSkipInfo(f), p.line)

\* The fields of a point.
IsPoint(p) ==
  p = [file |-> p.file, nodeID |-> p.nodeID, original |-> p.original,
       mutated |-> p.mutated, line |-> p.line, mutestID |-> p.mutestID,
       constant |-> p.constant]

PointInv ==
  /\ \A p \in points : IsPoint(p) /\ Placed(p)
  /\ \A p, q \in points : p.file = q.file /\ p.nodeID = q.nodeID => p = q

\* The cache is that of the files when they were read, and nothing is read later;
\* a file is edited once, so one that is as it was has been read so.
CacheInv ==
  /\ project \in Projects
  /\ disk = [f \in Files |-> disk[f]]
  /\ \A f \in Files : disk[f] \in Contents(project, f)
  /\ \A f \in Files \cap DOMAIN cache :
       /\ cache[f] \in Contents(project, f)
       /\ disk[f] = Original(f) => cache[f] = Original(f)
  /\ pc \in {"list", "read"} => points = {}
  /\ pc \notin {"list", "read", "failed"} => Files \subseteq DOMAIN cache

\* Until the diff is applied, the packages walked have all the points found there.
BeforeFilter == {"check", "points", "mergeBase", "gitDiff", "parse", "untracked"}

PointsIn(f) == {p \in points : p.file = f}

FoundInv ==
  /\ pc \in BeforeFilter =>
       \A f \in Files : f[1] <= checked =>
         \E typed \in BOOLEAN : PointsIn(f) = FilePoints(f, typed)
  /\ pc \in {"list", "read"} => checked = 0
  /\ pc \notin {"list", "read", "check", "failed"} => checked = Len(project.pkgs)

SourceInductive ==
  /\ checked \in Nat
  /\ err # "instrument"
  /\ CacheInv
  /\ PointInv
  /\ FoundInv

\* The points of a package get their numbers all at once, when it is instrumented.
NumberedPoints == {p \in points : p.mutestID # 0}

NumberInv ==
  /\ IsFiniteSet(points)
  /\ pc \notin {"instrument", "done"} => NumberedPoints = {}
  /\ pc = "done" => NumberedPoints = points
  /\ DOMAIN helper = {p.file[1] : p \in NumberedPoints}
  /\ DOMAIN out = {p.file : p \in NumberedPoints}
  /\ \A p \in NumberedPoints :
       /\ {q.mutestID : q \in PointsOf(p.file[1])} = 1..Cardinality(PointsOf(p.file[1]))
       /\ HasItsHelper(p)

\* The lines that a file has in the changes, and those of them still to be parsed.
Changed(f) ==
  IF project.changes[f].status = "modified" THEN project.changes[f].lines ELSE {}

Covered(hunks) == UNION {NewLines(h) : h \in hunks}

ToParse(f) ==
  IF f \in git.left THEN Changed(f) ELSE IF f = git.path THEN Covered(git.hunks) ELSE {}

\* What has been parsed and what is still to be parsed make up the changes, and
\* the hunks to come are counted for the file they belong to.
ParseInv ==
  /\ git = [left |-> git.left, path |-> git.path, hunks |-> git.hunks]
  /\ pc \notin {"parse", "untracked", "instrument", "done", "failed"} =>
       DOMAIN cl = {} /\ git.left = {} /\ git.hunks = {}
  /\ project.diff /\ pc \in {"parse", "untracked"} =>
       /\ git.left \subseteq {f \in DOMAIN project.changes : Printed(project.changes[f])}
       /\ git.hunks # {} =>
            /\ git.path \in DOMAIN project.changes \ git.left
            /\ currentFile = IF project.changes[git.path].status = "modified"
                             THEN git.path ELSE NoFile
            /\ git.hunks \subseteq HunksOf(project.changes[git.path])
       /\ \A f \in DOMAIN cl : ~cl[f].all
       /\ \A f \in DOMAIN project.changes : Lines(cl, f) \cup ToParse(f) = Changed(f)
  /\ pc = "untracked" => git.left = {} /\ git.hunks = {}
  /\ pc \in {"mergeBase", "gitDiff", "parse", "untracked"} => project.diff

DiffInductive == ParseInv /\ DiffExact

-----------------------------------------------------------------------------
(***************************************************************************)
(* Lemmas about the operators.                                             *)
(***************************************************************************)
\* No operator is in both tables.
LEMMA TablesDisjoint == DOMAIN swapTable \cap DOMAIN equalitySwapTable = {}
BY DEF swapTable, equalitySwapTable

\* A mutator finds points that are at a node of the text with an operator of its
\* table, one for a number.
LEMMA PointsDiscovered ==
  ASSUME NEW file, NEW f, NEW table, NEW left, NEW typed
  PROVE  /\ \A p \in DiscoverTyped(file, f, table, left, typed) :
              /\ IsPoint(p) /\ p.file = file /\ p.original \in DOMAIN table
              /\ p.mutestID = 0
              /\ \E i \in 1..Len(Nodes(f.text)) : Matches(f.text, Nodes(f.text), i, p)
         /\ \A p, q \in DiscoverTyped(file, f, table, left, typed) :
              p.nodeID = q.nodeID => p = q
<1> DEFINE nodes == Nodes(f.text)
           op(i) == f.text[nodes[i].op].k
           Found(i) == [file |-> file, nodeID |-> i - 1, original |-> op(i),
                        mutated |-> table[op(i)], line |-> NodeLine(f, nodes[i]),
                        mutestID |-> 0,
                        constant |-> /\ table = swapTable /\ typed
                                     /\ IsConstant(f.text, <<nodes[i].X[1], nodes[i].Y[2]>>)]
<1>1. ASSUME NEW p \in DiscoverTyped(file, f, table, left, typed)
      PROVE  \E i \in 1..Len(nodes) : p = Found(i) /\ op(i) \in DOMAIN table
  BY <1>1 DEF DiscoverTyped
<1>2. ASSUME NEW p \in DiscoverTyped(file, f, table, left, typed)
      PROVE  /\ IsPoint(p) /\ p.file = file /\ p.original \in DOMAIN table
             /\ p.mutestID = 0
             /\ \E i \in 1..Len(nodes) : Matches(f.text, nodes, i, p)
  <2>1. PICK i \in 1..Len(nodes) : p = Found(i) /\ op(i) \in DOMAIN table
    BY <1>1
  <2>2. p.nodeID = i - 1 /\ p.original = op(i) /\ p.file = file /\ p.mutestID = 0
    BY <2>1
  <2>3. IsPoint(p)
    BY <2>1 DEF IsPoint
  <2> QED
    BY <2>1, <2>2, <2>3 DEF Matches
<1>3. ASSUME NEW p \in DiscoverTyped(file, f, table, left, typed),
             NEW q \in DiscoverTyped(file, f, table, left, typed), p.nodeID = q.nodeID
      PROVE  p = q
  <2>1. PICK i \in 1..Len(nodes) : p = Found(i)
    BY <1>1
  <2>2. PICK j \in 1..Len(nodes) : q = Found(j)
    BY <1>1
  <2>3. i - 1 = j - 1
    BY <1>3, <2>1, <2>2
  <2>4. i = j
    BY <2>3
  <2> QED
    BY <2>1, <2>2, <2>4
<1> QED
  BY <1>2, <1>3

\* The points of a file are at nodes of its cached text, on lines that are not
\* skipped, and at most one at a node: the tables have no operator in common.
LEMMA FilePointsFound ==
  ASSUME NEW f, NEW typed
  PROVE  /\ \A p \in FilePoints(f, typed) :
              /\ IsPoint(p) /\ p.file = f /\ p.mutestID = 0
              /\ \E i \in 1..Len(Nodes(cache[f].text)) :
                   Matches(cache[f].text, Nodes(cache[f].text), i, p)
              /\ ~ShouldSkip(BuildSkipInfo(cache[f]), p.line)
         /\ \A p, q \in FilePoints(f, typed) : p.nodeID = q.nodeID => p = q
<1> DEFINE left1 == {i \in 1..Len(Nodes(cache[f].text)) :
                       typed /\ IfWithCondition(cache[f], Nodes(cache[f].text)[i],
                         LAMBDA stmt : Clamps(cache[f], Nodes(cache[f].text)[i], stmt))}
           left2 == {i \in 1..Len(Nodes(cache[f].text)) :
                       project.skipErrPropagation /\
                       IfWithCondition(cache[f], Nodes(cache[f].text)[i],
                         LAMBDA stmt : PropagatesErr(cache[f], Nodes(cache[f].text)[i],
                                                     stmt, typed))}
           A == DiscoverTyped(f, cache[f], swapTable, left1, typed)
           B == DiscoverTyped(f, cache[f], equalitySwapTable, left2, typed)
<1>1. FilePoints(f, typed) = {p \in A \cup B : ~ShouldSkip(BuildSkipInfo(cache[f]), p.line)}
  BY DEF FilePoints, ComparisonPoints, EqualityPoints
<1> HIDE DEF left1, left2
<1>2. /\ \A p \in A : IsPoint(p) /\ p.file = f /\ p.original \in DOMAIN swapTable
                      /\ p.mutestID = 0
                      /\ \E i \in 1..Len(Nodes(cache[f].text)) :
                           Matches(cache[f].text, Nodes(cache[f].text), i, p)
      /\ \A p, q \in A : p.nodeID = q.nodeID => p = q
  BY PointsDiscovered
<1>3. /\ \A p \in B : IsPoint(p) /\ p.file = f /\ p.original \in DOMAIN equalitySwapTable
                      /\ p.mutestID = 0
                      /\ \E i \in 1..Len(Nodes(cache[f].text)) :
                           Matches(cache[f].text, Nodes(cache[f].text), i, p)
      /\ \A p, q \in B : p.nodeID = q.nodeID => p = q
  BY PointsDiscovered
<1> HIDE DEF A, B
<1>4. ASSUME NEW p \in A, NEW q \in B PROVE p.nodeID # q.nodeID
  <2>1. SUFFICES ASSUME p.nodeID = q.nodeID PROVE FALSE
    OBVIOUS
  <2>2. PICK i \in 1..Len(Nodes(cache[f].text)) :
               Matches(cache[f].text, Nodes(cache[f].text), i, p)
    BY <1>2
  <2>3. PICK j \in 1..Len(Nodes(cache[f].text)) :
               Matches(cache[f].text, Nodes(cache[f].text), j, q)
    BY <1>3
  <2>4. i - 1 = j - 1
    BY <2>1, <2>2, <2>3 DEF Matches
  <2>5. i = j
    BY <2>4
  <2>6. p.original = q.original
    BY <2>2, <2>3, <2>5 DEF Matches
  <2> QED
    BY <1>2, <1>3, <2>6, TablesDisjoint
<1> QED
  BY <1>1, <1>2, <1>3, <1>4

\* The last of a set of blocks is one of them.
LEMMA LastBlock ==
  ASSUME NEW n \in Nat, NEW S \in SUBSET (1..n), S # {}
  PROVE  Max(S) \in S
<1> DEFINE R == OpToRel(<, Nat)
           D == {n - b : b \in S}
<1>1. D \subseteq Nat /\ D # {}
  <2>1. \A b \in S : b \in 1..n /\ n - b \in Nat
    OBVIOUS
  <2> QED
    BY <2>1
<1>2. \A x, y \in Nat : x < y => <<x, y>> \in R
  BY DEF OpToRel
<1>3. IsWellFoundedOn(R, Nat)
  BY NatLessThanWellFounded
<1> HIDE DEF R
<1>4. PICK x \in D : \A y \in D : <<y, x>> \notin R
  BY <1>1, <1>3, WFMin
<1>5. PICK b \in S : x = n - b
  OBVIOUS
<1>6. ASSUME NEW c \in S PROVE c <= b
  <2>1. n - c \in D /\ n - c \in Nat /\ x \in Nat
    BY <1>1, <1>4
  <2>2. ~(n - c < x)
    BY <1>2, <1>4, <2>1
  <2> QED
    BY <1>5, <2>2
<1> QED
  BY <1>6 DEF Max

\* What the rules name is skipped, where no two blocks begin on one line.
LEMMA RulesAreSkipped ==
  ASSUME NEW f, WellFormed(f), OneBlockPerLine(f), NEW line, SkippedByRules(f, line)
  PROVE  ShouldSkip(BuildSkipInfo(f), line)
<1> DEFINE si == BuildSkipInfo(f)
           ranges == BlockRanges(f)
           targets == {Target(d) : d \in f.directives}
<1>1. si.lines = {d.line : d \in f.directives} \cup targets
  BY DEF BuildSkipInfo
<1>2. si.ranges = {[from |-> fn.from, to |-> fn.to] : fn \in {g \in f.funcs : g.doc}}
                    \cup {ranges[t] : t \in targets \cap DOMAIN ranges} \cup f.consts
  BY DEF BuildSkipInfo
<1> HIDE DEF si
<1>3. CASE \E fn \in f.funcs : fn.doc /\ In(line, fn)
  <2>1. PICK fn \in f.funcs : fn.doc /\ In(line, fn)
    BY <1>3
  <2>2. [from |-> fn.from, to |-> fn.to] \in si.ranges
    BY <1>2, <2>1
  <2> QED
    BY <2>1, <2>2 DEF ShouldSkip, In, si
<1>4. CASE \E c \in f.consts : In(line, c)
  BY <1>2, <1>4 DEF ShouldSkip, si
<1>5. CASE \E d \in f.directives : NamedBy(d, f, line)
  <2>1. PICK d \in f.directives : NamedBy(d, f, line)
    BY <1>5
  <2>2. CASE line = Target(d)
    BY <1>1, <2>2 DEF ShouldSkip, si
  <2>3. CASE \E b \in 1..Len(f.blocks) :
               f.blocks[b].from = Target(d) /\ In(line, f.blocks[b])
    <3>1. PICK b \in 1..Len(f.blocks) :
                 f.blocks[b].from = Target(d) /\ In(line, f.blocks[b])
      BY <2>3
    <3> DEFINE S == {c \in 1..Len(f.blocks) : f.blocks[c].from = Target(d)}
    <3>2. S = {b}
      BY <3>1 DEF OneBlockPerLine
    <3>3. Max(S) = b
      BY <3>2, LastBlock DEF WellFormed
    <3>4. Target(d) \in DOMAIN ranges /\ ranges[Target(d)] = f.blocks[Max(S)]
      BY <3>1 DEF BlockRanges
    <3>5. f.blocks[b] \in si.ranges
      BY <1>2, <3>3, <3>4
    <3> QED
      BY <3>1, <3>5 DEF ShouldSkip, si
  <2> QED
    BY <2>1, <2>2, <2>3 DEF NamedBy, Target
<1> QED
  BY <1>3, <1>4, <1>5 DEF SkippedByRules

\* A comparison that is skipped is one that the rules name.
LEMMA SkippedByTheRules ==
  ASSUME NEW f, WellFormed(f), NEW i \in Comparisons(f),
         ShouldSkip(BuildSkipInfo(f), LineOf(f, i))
  PROVE  SkippedByRules(f, LineOf(f, i))
<1> DEFINE line == LineOf(f, i)
           si == BuildSkipInfo(f)
           ranges == BlockRanges(f)
           targets == {Target(d) : d \in f.directives}
<1>1. si.lines = {d.line : d \in f.directives} \cup targets
  BY DEF BuildSkipInfo
<1>2. si.ranges = {[from |-> fn.from, to |-> fn.to] : fn \in {g \in f.funcs : g.doc}}
                    \cup {ranges[t] : t \in targets \cap DOMAIN ranges} \cup f.consts
  BY DEF BuildSkipInfo
<1>3. line \in si.lines \/ \E r \in si.ranges : In(line, r)
  BY DEF ShouldSkip
<1>4. \A d \in f.directives : d.standalone => line # d.line
  BY DEF WellFormed
<1> HIDE DEF si, line
<1>5. CASE line \in si.lines
  <2>1. PICK d \in f.directives : line = d.line \/ line = Target(d)
    BY <1>1, <1>5
  <2>2. line = Target(d)
    BY <1>4, <2>1 DEF Target
  <2>3. NamedBy(d, f, line)
    BY <2>2 DEF NamedBy, Target
  <2> QED
    BY <2>3 DEF SkippedByRules, line
<1>6. ASSUME NEW r \in si.ranges, In(line, r) PROVE SkippedByRules(f, line)
  <2>1. CASE r \in {[from |-> fn.from, to |-> fn.to] : fn \in {g \in f.funcs : g.doc}}
    BY <1>6, <2>1 DEF SkippedByRules, In
  <2>2. CASE r \in f.consts
    BY <1>6, <2>2 DEF SkippedByRules
  <2>3. CASE r \in {ranges[t] : t \in targets \cap DOMAIN ranges}
    <3>1. PICK d \in f.directives : Target(d) \in DOMAIN ranges /\ r = ranges[Target(d)]
      BY <2>3
    <3> DEFINE S == {c \in 1..Len(f.blocks) : f.blocks[c].from = Target(d)}
    <3>2. r = f.blocks[Max(S)] /\ S # {}
      BY <3>1 DEF BlockRanges
    <3>3. Max(S) \in S
      BY <3>2, LastBlock DEF WellFormed
    <3>4. NamedBy(d, f, line)
      BY <1>6, <3>2, <3>3 DEF NamedBy, Target
    <3> QED
      BY <3>4 DEF SkippedByRules
  <2> QED
    BY <1>2, <1>6, <2>1, <2>2, <2>3
<1> QED
  BY <1>3, <1>5, <1>6 DEF line

\* A body of one statement does what the statement does.
LEMMA OneStatement ==
  ASSUME NEW f, NEW start, NEW body, DOMAIN body = {1}
  PROVE  FoldLeft(LAMBDA state, do : Do(f, state, do), start, body) = Do(f, start, body[1])
<1> DEFINE Body(iter, s) == IF s = {} THEN start
                            ELSE Do(f, iter[s \ {Max(s)}], body[Max(s)])
           Step(iter) == [s \in SUBSET {1} |-> Body(iter, s)]
           iter == CHOOSE g : g = Step(g)
           one == [s \in SUBSET {1} |-> IF s = {} THEN start ELSE Do(f, start, body[1])]
<1>1. FoldLeft(LAMBDA state, do : Do(f, state, do), start, body) = iter[{1}]
  BY DEF FoldLeft, MapThenFoldSet
<1>2. Max({1}) = 1
  BY DEF Max
<1>3. one = Step(one)
  <2>1. \A s \in SUBSET {1} : s = {} \/ s = {1}
    OBVIOUS
  <2>2. one[{}] = start /\ {1} \ {1} = {} /\ one[{1}] = Do(f, start, body[1])
    OBVIOUS
  <2>3. Body(one, {}) = one[{}]
    BY <2>2
  <2>4. Body(one, {1}) = one[{1}]
    <3> HIDE DEF one
    <3>1. {1} \ {Max({1})} = {} /\ {1} # {}
      BY <1>2
    <3> QED
      BY <1>2, <2>2, <3>1
  <2> HIDE DEF Body
  <2>5. \A s \in SUBSET {1} : Body(one, s) = one[s]
    BY <2>1, <2>3, <2>4
  <2>6. one = [s \in SUBSET {1} |-> one[s]]
    OBVIOUS
  <2> HIDE DEF one
  <2> QED
    BY <2>5, <2>6
<1>4. iter = Step(iter)
  <2> HIDE DEF Step, one
  <2> QED
    BY <1>3
<1>5. iter[{}] = start
  BY <1>4
<1>6. iter[{1}] = Do(f, iter[{1} \ {1}], body[1])
  BY <1>2, <1>4
<1> QED
  BY <1>1, <1>5, <1>6

\* An ordering comparison and its mutation differ only between equal numbers.
LEMMA BoundaryOnly ==
  ASSUME NEW op \in DOMAIN swapTable, NEW a \in Int, NEW b \in Int, a # b
  PROVE  Compare(op, a, b) = Compare(Mutated[op], a, b)
<1>1. op \in {">", ">=", "<", "<="}
  BY DEF swapTable
<1>2. op \in DOMAIN Mutated /\ Mutated[op] = swapTable[op]
  BY DEF Mutated
<1>3. CASE op = ">"
  <2>1. Mutated[op] = ">="
    BY <1>2, <1>3 DEF swapTable
  <2> QED
    BY <1>3, <2>1 DEF Compare
<1>4. CASE op = ">="
  <2>1. Mutated[op] = ">"
    BY <1>2, <1>4 DEF swapTable
  <2> QED
    BY <1>4, <2>1 DEF Compare
<1>5. CASE op = "<"
  <2>1. Mutated[op] = "<="
    BY <1>2, <1>5 DEF swapTable
  <2> QED
    BY <1>5, <2>1 DEF Compare
<1>6. CASE op = "<="
  <2>1. Mutated[op] = "<"
    BY <1>2, <1>6 DEF swapTable
  <2> QED
    BY <1>6, <2>1 DEF Compare
<1> QED
  BY <1>1, <1>3, <1>4, <1>5, <1>6

\* A clamp assigns the constant it compares with: where the mutation changes the
\* comparison, the assignment changes nothing.
LEMMA ClampsAreEquivalent ==
  ASSUME NEW f, WellFormed(f), NEW n, NEW s \in DOMAIN f.ifs, Clamps(f, n, f.ifs[s])
  PROVE  Equivalent(f, n, s)
<1> DEFINE stmt == f.ifs[s]
           do   == stmt.body[1]
           op   == f.text[n.op].k
<1>1. /\ ~stmt.else /\ Len(stmt.body) = 1 /\ op \in DOMAIN swapTable
      /\ do.kind = "assign" /\ do.tok = "=" /\ f.types[do.lhs] = "int"
      /\ do.rhs \in DOMAIN Literals
      /\ \/ Bare(f.text, n.X) = <<do.lhs>> /\ Bare(f.text, n.Y) = <<do.rhs>>
         \/ Bare(f.text, n.Y) = <<do.lhs>> /\ Bare(f.text, n.X) = <<do.rhs>>
  BY DEF Clamps, Simple
<1>2. DOMAIN stmt.body = {1}
  <2>1. DOMAIN stmt.body = 1..1
    BY <1>1 DEF WellFormed
  <2> QED
    BY <2>1
<1>3. IsVariable(do.lhs)
  BY <1>1, <1>2 DEF WellFormed
<1>4. Literals[do.rhs] \in Int
  BY <1>1 DEF Literals
<1> SUFFICES ASSUME NEW env \in Envs
             PROVE  Outcome(f, stmt, Compare(op, Value(f.text, n.X, env),
                                                 Value(f.text, n.Y, env)), env)
                      = Outcome(f, stmt, Compare(Mutated[op], Value(f.text, n.X, env),
                                                 Value(f.text, n.Y, env)), env)
  BY DEF Equivalent
<1> DEFINE x == env[do.lhs]
           c == Literals[do.rhs]
           start == [env |-> env, seen |-> <<>>]
<1>5. x \in Int /\ do.lhs \in DOMAIN env /\ env = [v \in DOMAIN env |-> env[v]]
  BY <1>3 DEF IsVariable
<1>6. do.lhs \notin DOMAIN Literals
  BY <1>3 DEF IsVariable
<1>7. \/ Value(f.text, n.X, env) = x /\ Value(f.text, n.Y, env) = c
      \/ Value(f.text, n.X, env) = c /\ Value(f.text, n.Y, env) = x
  BY <1>1, <1>6 DEF Value
<1> HIDE DEF do, op, stmt, x, c
<1>8. CASE x # c
  <2>1. Value(f.text, n.X, env) \in Int /\ Value(f.text, n.Y, env) \in Int
        /\ Value(f.text, n.X, env) # Value(f.text, n.Y, env)
    BY <1>4, <1>5, <1>7, <1>8 DEF x, c
  <2> QED
    BY <1>1, <2>1, BoundaryOnly
<1>9. CASE x = c
  <2>1. Do(f, start, do) = start
    <3>1. Do(f, start, do) = [env |-> [env EXCEPT ![do.lhs] = c, !["neg"] = @], seen |-> <<>>]
      BY <1>1 DEF Do, c
    <3>2. [env EXCEPT ![do.lhs] = c, !["neg"] = @] = env
      BY <1>5, <1>9 DEF x
    <3> QED
      BY <3>1, <3>2
  <2>2. FoldLeft(LAMBDA state, d : Do(f, state, d), start, stmt.body) = start
    BY <1>2, <2>1, OneStatement DEF do
  <2>3. \A holds : Outcome(f, stmt, holds, env) = start
    BY <1>1, <2>2 DEF Outcome
  <2> QED
    BY <2>3
<1> QED
  BY <1>8, <1>9

\* What the mutator takes for a propagation hands the error on and does nothing else.
LEMMA PropagationsPropagate ==
  ASSUME NEW f, WellFormed(f), NEW n, NEW s \in DOMAIN f.ifs, NEW typed,
         PropagatesErr(f, n, f.ifs[s], typed)
  PROVE  OnlyPropagates(f, n, s)
<1> DEFINE stmt == f.ifs[s]
           results == stmt.body[1].results
<1>1. /\ ~stmt.else /\ Len(stmt.body) = 1 /\ f.text[n.op].k = "!="
      /\ f.types["err"] = "error" /\ stmt.body[1].kind = "return"
      /\ \/ Kinds(f.text, n.X) = <<"err">> /\ Kinds(f.text, n.Y) = <<"nil">>
         \/ Kinds(f.text, n.X) = <<"nil">> /\ Kinds(f.text, n.Y) = <<"err">>
      /\ \A i \in DOMAIN results : results[i] \in {"err", "nil", "const", "wrap"}
      /\ \E i \in DOMAIN results : results[i] \in {"err", "wrap"}
  BY DEF PropagatesErr, Simple, Same, Harmless
<1>2. <<"err">> # <<"nil">> /\ Literals["nil"] = 0
  BY DEF Literals
<1>3. /\ {Kinds(f.text, n.X), Kinds(f.text, n.Y)} = {<<"err">>, <<"nil">>}
  BY <1>1
<1>4. /\ {"err", "wrap"} \cap ToSet(results) # {}
      /\ ToSet(results) \subseteq {"err", "wrap", "nil", "const"}
  BY <1>1 DEF ToSet
<1>5. \A e \in {0, 1} :
        Compare(f.text[n.op].k,
                IF Kinds(f.text, n.X) = <<"err">> THEN e ELSE Literals["nil"],
                IF Kinds(f.text, n.Y) = <<"err">> THEN e ELSE Literals["nil"]) = e
  BY <1>1, <1>2 DEF Compare
<1> HIDE DEF results, stmt
<1> QED
  BY <1>1, <1>3, <1>4, <1>5 DEF OnlyPropagates, results, stmt

-----------------------------------------------------------------------------
(***************************************************************************)
(* The inductive invariant holds.                                          *)
(***************************************************************************)
\* At first nothing is read and there are no points.
LEMMA InitInductive == Init => SourceInductive
<1> SUFFICES ASSUME Init PROVE SourceInductive
  OBVIOUS
<1>1. /\ pc = "list" /\ project \in Projects /\ disk = [f \in Files |-> Original(f)]
      /\ cache = <<>> /\ checked = 0 /\ points = {} /\ err = "none"
  BY DEF Init, DiscoveryInit
<1>2. CacheInv
  <2>1. \A f \in Files : disk[f] \in Contents(project, f)
    BY <1>1 DEF Contents, Original
  <2>2. DOMAIN cache = {}
    BY <1>1
  <2> QED
    BY <1>1, <2>1, <2>2 DEF CacheInv
<1>3. PointInv
  BY <1>1 DEF PointInv
<1>4. FoundInv
  BY <1>1 DEF FoundInv, BeforeFilter
<1> QED
  BY <1>1, <1>2, <1>3, <1>4 DEF SourceInductive

\* The points stay where they are while the cache and the number of packages
\* do, and some of them may go.
LEMMA PointsKept ==
  ASSUME PointInv, points' \subseteq points, UNCHANGED <<checked, project>>,
         \A p \in points' : cache'[p.file] = cache[p.file]
  PROVE  PointInv'
<1>1. Files' = Files
  BY DEF Files, FilesOf
<1> QED
  BY <1>1 DEF PointInv, Placed

\* What is found in a file depends on the cache alone.
LEMMA FilePointsKept ==
  ASSUME UNCHANGED <<project, cache>>
  PROVE  \A f, typed : FilePoints(f, typed)' = FilePoints(f, typed)
BY DEF FilePoints

\* What a file on disk may hold is well formed.
LEMMA ContentsWellFormed ==
  ASSUME project \in Projects, NEW f \in Files, NEW F \in Contents(project, f)
  PROVE  WellFormed(F)
<1>1. PICK p \in DOMAIN project.pkgs : \E i \in DOMAIN project.pkgs[p].files : f = <<p, i>>
  BY DEF Files, FilesOf
<1>2. PICK i \in DOMAIN project.pkgs[p].files : f = <<p, i>>
  BY <1>1
<1> QED
  BY <1>1, <1>2, ProjectAssumption

\* A file is named by its package and its place there.
LEMMA FileIndex ==
  ASSUME project \in Projects, NEW f \in Files
  PROVE  /\ f = <<f[1], f[2]>> /\ f[1] \in 1..Len(project.pkgs) /\ f[1] \in Nat \ {0}
         /\ f[2] \in DOMAIN project.pkgs[f[1]].files /\ f[2] \in Nat
         /\ Len(project.pkgs) \in Nat
<1>1. PICK p \in DOMAIN project.pkgs : \E i \in DOMAIN project.pkgs[p].files : f = <<p, i>>
  BY DEF Files, FilesOf
<1>2. PICK i \in DOMAIN project.pkgs[p].files : f = <<p, i>>
  BY <1>1
<1>3. /\ Len(project.pkgs) \in Nat /\ DOMAIN project.pkgs = 1..Len(project.pkgs)
      /\ DOMAIN project.pkgs[p].files = 1..Len(project.pkgs[p].files)
      /\ Len(project.pkgs[p].files) \in Nat
  BY <1>1, ProjectAssumption
<1> QED
  BY <1>2, <1>3

\* Steps that find no points.
LEMMA FoundKept ==
  ASSUME FoundInv, project \in Projects, UNCHANGED <<project, cache, checked>>,
         pc' \in {"list", "read"} => pc \in {"list", "read"},
         pc' \in BeforeFilter => /\ points' = points
                                 /\ pc \in BeforeFilter \/ checked = 0,
         pc' \notin {"list", "read", "check", "failed"} =>
           pc \notin {"list", "read", "check", "failed"} \/ checked = Len(project.pkgs)
  PROVE  FoundInv'
<1>1. Files' = Files
  BY DEF Files, FilesOf
<1>2. ASSUME pc' \in BeforeFilter
      PROVE  (\A f \in Files : f[1] <= checked =>
                \E typed \in BOOLEAN : PointsIn(f) = FilePoints(f, typed))'
  <2>1. SUFFICES ASSUME NEW f \in Files, f[1] <= checked
                 PROVE  \E typed \in BOOLEAN : PointsIn(f)' = FilePoints(f, typed)'
    BY <1>1
  <2>2. PointsIn(f)' = PointsIn(f)
    BY <1>2 DEF PointsIn
  <2>3. CASE pc \in BeforeFilter
    BY <2>1, <2>2, <2>3, FilePointsKept DEF FoundInv
  <2>4. CASE checked = 0
    BY <2>1, <2>4, FileIndex
  <2> QED
    BY <1>2, <2>3, <2>4
<1> QED
  BY <1>2 DEF FoundInv, BeforeFilter

\* Steps that read nothing and find no points.
LEMMA CacheKept ==
  ASSUME CacheInv, UNCHANGED <<project, disk, cache>>,
         pc' \in {"list", "read"} => pc \in {"list", "read"} /\ points' = points,
         pc' \notin {"list", "read", "failed"} => \/ pc \notin {"list", "read", "failed"}
                                                  \/ Files \subseteq DOMAIN cache
  PROVE  CacheInv'
<1>1. Files' = Files
  BY DEF Files, FilesOf
<1>2. \A f : Contents(project, f)' = Contents(project, f)
  BY DEF Contents
<1>3. (\A f \in Files : disk[f] \in Contents(project, f))'
  BY <1>1, <1>2 DEF CacheInv
<1>4. (\A f \in Files \cap DOMAIN cache :
          /\ cache[f] \in Contents(project, f)
          /\ disk[f] = Original(f) => cache[f] = Original(f))'
  BY <1>1, <1>2 DEF CacheInv, Original
<1> QED
  BY <1>1, <1>3, <1>4 DEF CacheInv

\* Saving a file changes the disk only, and to a content that is accounted for.
LEMMA EditKeeps ==
  ASSUME SourceInductive, EditFile
  PROVE  SourceInductive'
<1>1. PICK f \in Files : /\ project.editable /\ disk[f] = Original(f)
                         /\ disk' = [disk EXCEPT ![f] = Edited(@)]
  BY DEF EditFile
<1>2. UNCHANGED <<pc, project, cache, checked, points, err>>
  BY DEF EditFile
<1>3. Files' = Files
  BY <1>2 DEF Files, FilesOf
<1>4. disk = [g \in Files |-> disk[g]] /\ \A g \in Files : disk[g] \in Contents(project, g)
  BY DEF SourceInductive, CacheInv
<1>5. disk' = [g \in Files |-> disk'[g]]
  BY <1>1, <1>4
<1>6. \A g \in Files : disk'[g] \in Contents(project, g)
  <2>1. disk'[f] = Edited(Original(f))
    BY <1>1, <1>4
  <2>2. disk'[f] \in Contents(project, f)
    BY <1>1, <2>1 DEF Contents, Original
  <2>3. \A g \in Files \ {f} : disk'[g] = disk[g]
    BY <1>1, <1>4
  <2> QED
    BY <1>4, <2>2, <2>3
<1>7. CacheInv'
  <2>1. \A g \in Files \cap DOMAIN cache :
          disk'[g] = Original(g) => cache[g] = Original(g)
    <3>1. \A g \in Files \cap DOMAIN cache : disk[g] = Original(g) => cache[g] = Original(g)
      BY DEF SourceInductive, CacheInv
    <3>2. \A g \in Files \ {f} : disk'[g] = disk[g]
      BY <1>1, <1>4
    <3> QED
      BY <1>1, <3>1, <3>2
  <2> QED
    BY <1>2, <1>3, <1>5, <1>6, <2>1 DEF SourceInductive, CacheInv, Contents, Original
<1>8. PointInv'
  BY <1>2, PointsKept DEF SourceInductive
<1>9. FoundInv'
  BY <1>2, FoundKept DEF SourceInductive, CacheInv
<1> QED
  BY <1>2, <1>7, <1>8, <1>9 DEF SourceInductive

\* A file read is put in the cache as it is on disk; there are no points yet.
LEMMA ReadKeeps ==
  ASSUME SourceInductive, ReadFile
  PROVE  SourceInductive'
<1>1. /\ UNCHANGED <<project, disk, checked, points>> /\ pc = "read" /\ points = {}
      /\ pc' \in {"read", "failed"} /\ err' \in {err, "discovery"}
  BY DEF ReadFile, At, Goto, Fails, SourceInductive, CacheInv
<1>2. Files' = Files
  BY <1>1 DEF Files, FilesOf
<1>3. \A f \in Files \cap DOMAIN cache' :
        cache'[f] = disk[f] \/ (f \in DOMAIN cache /\ cache'[f] = cache[f])
  BY DEF ReadFile
<1>4. \A f \in Files \cap DOMAIN cache' :
        /\ cache'[f] \in Contents(project, f)
        /\ disk[f] = Original(f) => cache'[f] = Original(f)
  BY <1>3 DEF SourceInductive, CacheInv
<1>5. CacheInv'
  BY <1>1, <1>2, <1>4 DEF SourceInductive, CacheInv, Contents, Original
<1>6. PointInv'
  BY <1>1 DEF PointInv
<1>7. FoundInv'
  BY <1>1 DEF FoundInv, BeforeFilter, SourceInductive
<1> QED
  BY <1>1, <1>5, <1>6, <1>7 DEF SourceInductive

\* The points of the next package are new, at most one at a node.
LEMMA CheckKeeps ==
  ASSUME SourceInductive, CheckPackage
  PROVE  SourceInductive'
<1>1. /\ UNCHANGED <<project, disk, cache>> /\ pc = "check" /\ pc' \in {"check", "failed"}
      /\ err' \in {err, "discovery"}
  BY DEF CheckPackage, At, Goto, Fails
<1>2. CacheInv'
  BY <1>1, CacheKept DEF SourceInductive
<1>3. CASE UNCHANGED <<checked, points>>
  <2>1. PointInv'
    BY <1>1, <1>3, PointsKept DEF SourceInductive
  <2>2. FoundInv'
    BY <1>1, <1>3, FoundKept DEF SourceInductive, CacheInv, BeforeFilter
  <2> QED
    BY <1>1, <1>2, <1>3, <2>1, <2>2 DEF SourceInductive
<1>4. CASE ~UNCHANGED <<checked, points>>
  <2> DEFINE P == checked + 1
             Of(typed) == UNION {FilePoints(<<P, i>>, typed) :
                                   i \in DOMAIN project.pkgs[P].files}
  <2>1. checked' = P /\ \E typed \in BOOLEAN : points' = points \cup Of(typed)
    BY <1>4 DEF CheckPackage
  <2>2. PICK typed \in BOOLEAN : points' = points \cup Of(typed)
    BY <2>1
  <2>3. checked \in Nat /\ project \in Projects /\ checked < Len(project.pkgs)
    BY <1>4 DEF SourceInductive, CacheInv, CheckPackage
  <2> USE <2>3
  <2>0. Len(project.pkgs) \in Nat /\ P \in DOMAIN project.pkgs /\ Files' = Files
    BY <1>1, ProjectAssumption DEF Files, FilesOf
  <2>4. \A p \in Of(typed) :
          /\ IsPoint(p) /\ p.file[1] = P /\ p.file \in Files
          /\ \E i \in 1..Len(Nodes(cache[p.file].text)) :
               Matches(cache[p.file].text, Nodes(cache[p.file].text), i, p)
          /\ ~ShouldSkip(BuildSkipInfo(cache[p.file]), p.line)
          /\ p \in FilePoints(p.file, typed)
    <3> SUFFICES ASSUME NEW i \in DOMAIN project.pkgs[P].files,
                        NEW p \in FilePoints(<<P, i>>, typed)
                 PROVE  /\ IsPoint(p) /\ p.file[1] = P /\ p.file \in Files
                        /\ \E k \in 1..Len(Nodes(cache[p.file].text)) :
                             Matches(cache[p.file].text, Nodes(cache[p.file].text), k, p)
                        /\ ~ShouldSkip(BuildSkipInfo(cache[p.file]), p.line)
                        /\ p \in FilePoints(p.file, typed)
      OBVIOUS
    <3>1. p.file = <<P, i>>
      BY FilePointsFound
    <3>2. <<P, i>> \in Files
      BY <2>0 DEF Files, FilesOf
    <3> QED
      BY <3>1, <3>2, FilePointsFound
  <2> HIDE DEF Of, P
  <2>5. \A p \in points : IsPoint(p) /\ Placed(p)
    BY DEF SourceInductive, PointInv
  <2>6. \A p \in points : p.file[1] \in 1..checked
    BY <2>5 DEF Placed
  <2>7. \A p \in points' : IsPoint(p) /\ Placed(p)'
    <3>1. ASSUME NEW p \in points PROVE Placed(p)'
      BY <1>1, <2>1, <2>0, <2>5 DEF Placed, P
    <3>2. ASSUME NEW p \in Of(typed) PROVE Placed(p)'
      BY <1>1, <2>1, <2>0, <2>4 DEF Placed, P
    <3> QED
      BY <2>2, <2>4, <2>5, <3>1, <3>2
  <2>8. \A p, q \in points' : p.file = q.file /\ p.nodeID = q.nodeID => p = q
    <3>1. \A p, q \in points : p.file = q.file /\ p.nodeID = q.nodeID => p = q
      BY DEF SourceInductive, PointInv
    <3>2. \A p, q \in Of(typed) : p.file = q.file /\ p.nodeID = q.nodeID => p = q
      BY <2>4, FilePointsFound
    <3>3. \A p \in points, q \in Of(typed) : p.file # q.file
      BY <2>4, <2>6 DEF P
    <3> QED
      BY <2>2, <3>1, <3>2, <3>3
  <2>9. ASSUME NEW f \in Files, f[1] <= checked + 1
        PROVE  \E ty \in BOOLEAN : PointsIn(f)' = FilePoints(f, ty)
    <3>1. f[1] \in Nat /\ f = <<f[1], f[2]>> /\ f[2] \in DOMAIN project.pkgs[f[1]].files
      BY FileIndex
    <3>2. CASE f[1] = P
      <4>1. {p \in points : p.file = f} = {}
        BY <2>6, <3>2 DEF P
      <4>2. {p \in Of(typed) : p.file = f} = FilePoints(f, typed)
        <5>1. FilePoints(f, typed) \subseteq Of(typed)
          BY <3>1, <3>2 DEF Of
        <5>2. \A p \in FilePoints(f, typed) : p.file = f
          BY FilePointsFound
        <5> QED
          BY <2>4, <5>1, <5>2
      <4>3. PointsIn(f)' = FilePoints(f, typed)
        BY <2>2, <4>1, <4>2 DEF PointsIn
      <4> QED
        BY <2>2, <4>3
    <3>3. CASE f[1] # P
      <4>1. f[1] <= checked
        BY <1>4, <2>9, <3>1, <3>3 DEF P
      <4>2. PointsIn(f)' = PointsIn(f)
        BY <2>2, <2>4, <3>3 DEF PointsIn
      <4>3. pc \in BeforeFilter
        BY <1>1 DEF BeforeFilter
      <4> QED
        BY <4>1, <4>2, <4>3 DEF SourceInductive, FoundInv
    <3> QED
      BY <3>2, <3>3
  <2>10. FoundInv'
    <3>1. \A f, ty : FilePoints(f, ty)' = FilePoints(f, ty)
      BY <1>1, FilePointsKept
    <3>2. (\A f \in Files : f[1] <= checked =>
             \E ty \in BOOLEAN : PointsIn(f) = FilePoints(f, ty))'
      BY <2>1, <2>9, <2>0, <3>1 DEF P
    <3>3. pc' \notin {"list", "read"} /\ pc' \in {"list", "read", "check", "failed"}
      BY <1>1
    <3> QED
      BY <3>2, <3>3 DEF FoundInv
  <2> QED
    BY <1>1, <1>2, <2>1, <2>7, <2>8, <2>10 DEF SourceInductive, PointInv, P
<1> QED
  BY <1>3, <1>4

\* Each point of the package finds its node and no other point finds the same,
\* so all are matched; they get their numbers and nothing else changes of them.
LEMMA InstrumentKeeps ==
  ASSUME SourceInductive, InstrumentPackage
  PROVE  SourceInductive'
<1> DEFINE pkg         == Min(Remaining)
           Numbered(p) == [p EXCEPT !.mutestID = Rank(p)]
           numbered    == {Numbered(p) : p \in PointsOf(pkg)}
           OfFile(f)   == {p \in numbered : p.file = f}
<1>1. /\ UNCHANGED <<project, disk, cache, checked>> /\ pc = "instrument"
      /\ pc' \in {"instrument", "failed"}
      /\ points' = (points \ PointsOf(pkg)) \cup numbered
      /\ (\A f \in {p.file : p \in numbered} : AllMatched(SourceOf(f), OfFile(f)))
           => UNCHANGED <<pc, err>>
  BY DEF InstrumentPackage, At, Goto, Fails
<1>2. \A p \in points : IsPoint(p) /\ Placed(p)
  BY DEF SourceInductive, PointInv
<1>3. \A p, q \in points : p.file = q.file /\ p.nodeID = q.nodeID => p = q
  BY DEF SourceInductive, PointInv
<1>4. ASSUME NEW p \in points
      PROVE  /\ IsPoint(Numbered(p)) /\ Numbered(p).file = p.file
             /\ Numbered(p).nodeID = p.nodeID /\ Numbered(p).original = p.original
             /\ Numbered(p).line = p.line
  <2>1. p = [file |-> p.file, nodeID |-> p.nodeID, original |-> p.original,
             mutated |-> p.mutated, line |-> p.line, mutestID |-> p.mutestID,
             constant |-> p.constant]
    BY <1>2 DEF IsPoint
  <2>2. Numbered(p) = [file |-> p.file, nodeID |-> p.nodeID, original |-> p.original,
                       mutated |-> p.mutated, line |-> p.line, mutestID |-> Rank(p),
                       constant |-> p.constant]
    BY <2>1
  <2> HIDE DEF Numbered
  <2> QED
    BY <2>2 DEF IsPoint
<1>5. PointsOf(pkg) \subseteq points /\ \A p \in points \ PointsOf(pkg) : p.file[1] # pkg
  BY DEF PointsOf
<1>6. \A p \in PointsOf(pkg) : p.file[1] = pkg
  BY DEF PointsOf
<1> HIDE DEF pkg, Numbered
<1>7. ASSUME NEW f PROVE AllMatched(SourceOf(f), OfFile(f))
  <2> DEFINE t == cache[f].text
  <2>1. SUFFICES ASSUME NEW p \in OfFile(f)
                 PROVE  \E i \in Targets(t, OfFile(f)) :
                          /\ Matches(t, Nodes(t), i, p)
                          /\ \A q \in OfFile(f) : Matches(t, Nodes(t), i, q) => p = q
    BY DEF AllMatched, SourceOf
  <2>2. PICK p0 \in PointsOf(pkg) : p = Numbered(p0) /\ p0.file = f
    BY <1>4, <1>5
  <2>3. PICK i \in 1..Len(Nodes(t)) : Matches(t, Nodes(t), i, p0)
    BY <1>2, <1>5, <2>2 DEF Placed
  <2>4. Matches(t, Nodes(t), i, p)
    BY <1>4, <1>5, <2>2, <2>3 DEF Matches
  <2>5. i \in Targets(t, OfFile(f))
    BY <2>1, <2>4 DEF Targets
  <2>6. ASSUME NEW q \in OfFile(f), Matches(t, Nodes(t), i, q) PROVE p = q
    <3>1. PICK q0 \in PointsOf(pkg) : q = Numbered(q0) /\ q0.file = f
      BY <1>4, <1>5
    <3>2. q0.nodeID = p0.nodeID
      BY <1>4, <1>5, <2>2, <2>4, <2>6, <3>1 DEF Matches
    <3> QED
      BY <1>3, <1>5, <2>2, <3>1, <3>2
  <2> QED
    BY <2>4, <2>5, <2>6
<1>8. UNCHANGED <<pc, err>>
  BY <1>1, <1>7
<1>9. \A p \in numbered : \E p0 \in PointsOf(pkg) : p = Numbered(p0)
  OBVIOUS
<1> HIDE DEF numbered
<1>10. \A p \in points' : IsPoint(p) /\ Placed(p)'
  <2>0. Files' = Files
    BY <1>1 DEF Files, FilesOf
  <2>1. ASSUME NEW p \in points PROVE Placed(p)'
    BY <1>1, <1>2, <2>0 DEF Placed
  <2>2. ASSUME NEW p \in numbered PROVE IsPoint(p) /\ Placed(p)'
    <3>1. PICK p0 \in points : p = Numbered(p0)
      BY <1>5, <1>9
    <3>2. Placed(p0)'
      BY <2>1
    <3> QED
      BY <1>4, <3>1, <3>2 DEF Placed, Matches
  <2> QED
    BY <1>1, <1>2, <2>1, <2>2
<1>11. \A p, q \in points' : p.file = q.file /\ p.nodeID = q.nodeID => p = q
  <2>1. \A p \in numbered : p.file[1] = pkg
    BY <1>4, <1>5, <1>6, <1>9
  <2>2. ASSUME NEW p \in numbered, NEW q \in numbered, p.file = q.file, p.nodeID = q.nodeID
        PROVE  p = q
    <3>1. PICK p0 \in PointsOf(pkg) : p = Numbered(p0)
      BY <1>9
    <3>2. PICK q0 \in PointsOf(pkg) : q = Numbered(q0)
      BY <1>9
    <3>3. p0 = q0
      BY <1>3, <1>4, <1>5, <2>2, <3>1, <3>2
    <3> QED
      BY <3>1, <3>2, <3>3
  <2> QED
    BY <1>1, <1>3, <1>5, <2>1, <2>2
<1>12. CacheInv'
  BY <1>1, <1>8, CacheKept DEF SourceInductive
<1>13. FoundInv'
  BY <1>1, <1>8, FoundKept DEF SourceInductive, CacheInv, BeforeFilter
<1> QED
  BY <1>1, <1>8, <1>10, <1>11, <1>12, <1>13 DEF SourceInductive, PointInv

\* Steps that read no file and find no points.
LEMMA QuietKeeps ==
  ASSUME SourceInductive, UNCHANGED <<project, disk, cache, checked>>,
         points' \subseteq points, err' \in {err, "discovery", "diff"},
         pc' \in {"list", "read"} => pc \in {"list", "read"} /\ points' = points,
         pc' \notin {"list", "read", "failed"} => \/ pc \notin {"list", "read", "failed"}
                                                  \/ Files \subseteq DOMAIN cache,
         pc' \in BeforeFilter => /\ points' = points
                                 /\ pc \in BeforeFilter \cup {"list", "read"},
         pc' \notin {"list", "read", "check", "failed"} =>
           pc \notin {"list", "read", "check", "failed"} \/ checked = Len(project.pkgs)
  PROVE  SourceInductive'
<1>1. CacheInv'
  BY CacheKept DEF SourceInductive
<1>2. PointInv'
  BY PointsKept DEF SourceInductive
<1>3. FoundInv'
  BY FoundKept DEF SourceInductive, CacheInv, FoundInv
<1> QED
  BY <1>1, <1>2, <1>3 DEF SourceInductive

\* Every step of a discovery keeps the invariant.
LEMMA DiscoveryKeeps ==
  ASSUME SourceInductive, DiscoveryNext
  PROVE  SourceInductive'
<1>1. CASE ListFails
  BY <1>1, QuietKeeps DEF ListFails, At, Fails, BeforeFilter
<1>2. CASE ResolveFiles
  BY <1>2, QuietKeeps DEF ResolveFiles, At, Goto, Fails, BeforeFilter
<1>3. CASE ReadFails
  BY <1>3, QuietKeeps DEF ReadFails, At, Fails, BeforeFilter
<1>4. CASE ImporterFails
  BY <1>4, QuietKeeps DEF ImporterFails, At, Fails, BeforeFilter
<1>5. CASE TypeImporter
  BY <1>5, QuietKeeps DEF TypeImporter, At, Goto, Unread, BeforeFilter
<1>6. CASE Discovered
  BY <1>6, QuietKeeps DEF Discovered, At, Goto, Fails, BeforeFilter
<1> QED
  BY <1>1, <1>2, <1>3, <1>4, <1>5, <1>6, ReadKeeps, CheckKeeps DEF DiscoveryNext

\* Diff mode only takes points away.
LEMMA DiffKeeps ==
  ASSUME SourceInductive,
         \/ NoDiff \/ DiffFails \/ RepoRoot \/ MergeBase \/ GitDiff
         \/ ParseHeader \/ ParseHunk \/ Parsed \/ Untracked
  PROVE  SourceInductive'
<1>1. CASE NoDiff
  BY <1>1, QuietKeeps DEF NoDiff, At, Goto, BeforeFilter
<1>2. CASE DiffFails
  BY <1>2, QuietKeeps DEF DiffFails, At, Fails, BeforeFilter
<1>3. CASE RepoRoot
  BY <1>3, QuietKeeps DEF RepoRoot, At, Goto, BeforeFilter
<1>4. CASE MergeBase
  BY <1>4, QuietKeeps DEF MergeBase, At, Goto, BeforeFilter
<1>5. CASE GitDiff
  BY <1>5, QuietKeeps DEF GitDiff, At, Goto, BeforeFilter
<1>6. CASE ParseHeader
  BY <1>6, QuietKeeps DEF ParseHeader, At, Goto, BeforeFilter
<1>7. CASE ParseHunk
  BY <1>7, QuietKeeps DEF ParseHunk, At, Goto, BeforeFilter
<1>8. CASE Parsed
  BY <1>8, QuietKeeps DEF Parsed, At, Goto, BeforeFilter
<1>9. CASE Untracked
  <2>1. points' \subseteq points
    BY <1>9 DEF Untracked, FilterPoints
  <2> QED
    BY <1>9, <2>1, QuietKeeps DEF Untracked, At, Goto, BeforeFilter
<1> QED
  BY <1>1, <1>2, <1>3, <1>4, <1>5, <1>6, <1>7, <1>8, <1>9

\* Every step of Source keeps the invariant.
LEMMA NextInductive == SourceInductive /\ [Next]_vars => SourceInductive'
<1> SUFFICES ASSUME SourceInductive, [Next]_vars PROVE SourceInductive'
  OBVIOUS
<1>1. CASE Interrupt
  BY <1>1, QuietKeeps DEF Interrupt, BeforeFilter
<1>2. CASE EditFile
  BY <1>2, EditKeeps
<1>3. CASE Discover
  BY <1>3, DiscoveryKeeps DEF Discover
<1>4. CASE \/ NoDiff \/ DiffFails \/ RepoRoot \/ MergeBase \/ GitDiff
           \/ ParseHeader \/ ParseHunk \/ Parsed \/ Untracked
  BY <1>4, DiffKeeps
<1>5. CASE InstrumentPackage
  BY <1>5, InstrumentKeeps
<1>6. CASE Instrumented
  BY <1>6, QuietKeeps DEF Instrumented, At, Goto, BeforeFilter
<1>7. CASE Done \/ UNCHANGED vars
  BY <1>7, QuietKeeps DEF Done, vars, discoveryVars, BeforeFilter
<1> QED
  BY <1>1, <1>2, <1>3, <1>4, <1>5, <1>6, <1>7 DEF Next

\* Points stay at the nodes where they were found, in the text that was cached,
\* whatever is saved on disk: the hand-over from DiscoverAllContext to InstrumentAll.
THEOREM SourceInvariant == Spec => []SourceInductive
<1> QED
  BY InitInductive, NextInductive, PTL DEF Spec

-----------------------------------------------------------------------------
(***************************************************************************)
(* What the project states.                                                *)
(***************************************************************************)
\* Every point finds its comparison again when its package is instrumented, for
\* any text and any file saved at any moment.
THEOREM PointsFindTheirNodes == Spec => []PointsMatch
<1>1. SourceInductive => PointsMatch
  BY DEF SourceInductive, PointsMatch
<1> QED
  BY <1>1, SourceInvariant, PTL

\* A discovery leaves out the lines that the rules name and no others, for any
\* number and nesting of functions, blocks, directives and const declarations.
THEOREM SkipsAreDocumented == Spec => []SkipAsDocumented
<1>1. SourceInductive => SkipAsDocumented
  <2> SUFFICES ASSUME SourceInductive, pc = "points", NEW f \in Files
               PROVE  /\ \A p \in points : p.file = f /\ OneBlockPerLine(cache[f]) =>
                           ~SkippedByRules(cache[f], p.line)
                      /\ \A i \in Comparisons(cache[f]) :
                           ShouldSkip(BuildSkipInfo(cache[f]), LineOf(cache[f], i))
                             => SkippedByRules(cache[f], LineOf(cache[f], i))
    BY DEF SkipAsDocumented
  <2>1. cache[f] \in Contents(project, f) /\ project \in Projects
    BY DEF SourceInductive, CacheInv
  <2>2. WellFormed(cache[f])
    BY <2>1, ContentsWellFormed
  <2>3. \A p \in points : ~ShouldSkip(BuildSkipInfo(cache[p.file]), p.line)
    BY DEF SourceInductive, PointInv, Placed
  <2> QED
    BY <2>2, <2>3, RulesAreSkipped, SkippedByTheRules
<1> QED
  BY <1>1, SourceInvariant, PTL

\* A comparison that is neither on a skipped line nor one of the mutators'
\* exceptions is a point of its file.
LEMMA ComparisonFound ==
  ASSUME NEW f, WellFormed(cache[f]), NEW typed, NEW i \in Comparisons(cache[f]),
         ~ShouldSkip(BuildSkipInfo(cache[f]), LineOf(cache[f], i)),
         ~Excusable(cache[f], i)
  PROVE  \E p \in FilePoints(f, typed) : p.nodeID = i - 1
<1> DEFINE F     == cache[f]
           nodes == Nodes(F.text)
           op    == F.text[nodes[i].op].k
           left1 == {j \in 1..Len(nodes) :
                       typed /\ IfWithCondition(F, nodes[j],
                                  LAMBDA stmt : Clamps(F, nodes[j], stmt))}
           left2 == {j \in 1..Len(nodes) :
                       project.skipErrPropagation /\
                       IfWithCondition(F, nodes[j],
                         LAMBDA stmt : PropagatesErr(F, nodes[j], stmt, typed))}
           Found(table) ==
             [file |-> f, nodeID |-> i - 1, original |-> op, mutated |-> table[op],
              line |-> NodeLine(F, nodes[i]), mutestID |-> 0,
              constant |-> /\ table = swapTable /\ typed
                           /\ IsConstant(F.text, <<nodes[i].X[1], nodes[i].Y[2]>>)]
<1>1. i \in 1..Len(nodes) /\ (op \in DOMAIN swapTable \/ op \in DOMAIN equalitySwapTable)
  BY DEF Comparisons, Mutated
<1>2. CASE op \in DOMAIN swapTable
  <2>1. i \notin left1
    <3>1. SUFFICES ASSUME NEW s \in DOMAIN F.ifs, IsCondition(F.text, nodes[i], s),
                          Clamps(F, nodes[i], F.ifs[s])
                   PROVE  FALSE
      BY DEF IfWithCondition
    <3>2. Equivalent(F, nodes[i], s)
      BY <3>1, ClampsAreEquivalent
    <3> QED
      BY <1>2, <3>1, <3>2 DEF Excusable
  <2> HIDE DEF left1
  <2>2. Found(swapTable) \in DiscoverTyped(f, F, swapTable, left1, typed)
    BY <1>1, <1>2, <2>1 DEF DiscoverTyped
  <2>3. Found(swapTable).line = LineOf(F, i)
    BY DEF LineOf
  <2>4. Found(swapTable) \in FilePoints(f, typed)
    BY <2>2, <2>3 DEF FilePoints, ComparisonPoints, left1
  <2> QED
    BY <2>4
<1>3. CASE op \in DOMAIN equalitySwapTable
  <2>1. i \notin left2
    <3>1. SUFFICES ASSUME NEW s \in DOMAIN F.ifs, IsCondition(F.text, nodes[i], s),
                          project.skipErrPropagation,
                          PropagatesErr(F, nodes[i], F.ifs[s], typed)
                   PROVE  FALSE
      BY DEF IfWithCondition
    <3>2. OnlyPropagates(F, nodes[i], s)
      BY <3>1, PropagationsPropagate
    <3> QED
      BY <3>1, <3>2 DEF Excusable
  <2> HIDE DEF left2
  <2>2. Found(equalitySwapTable)
          \in DiscoverTyped(f, F, equalitySwapTable, left2, typed)
    BY <1>1, <1>3, <2>1 DEF DiscoverTyped
  <2>3. Found(equalitySwapTable).line = LineOf(F, i)
    BY DEF LineOf
  <2>4. Found(equalitySwapTable) \in FilePoints(f, typed)
    BY <2>2, <2>3 DEF FilePoints, EqualityPoints, left2
  <2> QED
    BY <2>4
<1> QED
  BY <1>1, <1>2, <1>3

\* A discovery without error loses no comparison, for any statements, operands
\* and number of files: each is a point exactly once, or skipped by a rule, or a
\* clamp whose mutation changes nothing, or the propagation of an error.
THEOREM NothingIsLost == Spec => []NothingLost
<1>1. SourceInductive => NothingLost
  <2> SUFFICES ASSUME SourceInductive, pc = "points", NEW f \in Files,
                      disk[f] = Original(f), NEW i \in Comparisons(Original(f)),
                      ~SkippedByRules(Original(f), LineOf(Original(f), i)),
                      ~Excusable(Original(f), i)
               PROVE  Cardinality(PointsAt(f, i)) = 1
    BY DEF NothingLost
  <2>1. project \in Projects /\ f \in DOMAIN cache /\ cache[f] = Original(f)
    BY DEF SourceInductive, CacheInv
  <2>2. WellFormed(cache[f])
    BY <2>1, ContentsWellFormed DEF SourceInductive, CacheInv
  <2>3. ~ShouldSkip(BuildSkipInfo(cache[f]), LineOf(cache[f], i))
    BY <2>1, <2>2, SkippedByTheRules
  <2>4. f[1] <= checked
    BY <2>1, FileIndex DEF SourceInductive, FoundInv
  <2>5. PICK typed \in BOOLEAN : PointsIn(f) = FilePoints(f, typed)
    BY <2>4 DEF SourceInductive, FoundInv, BeforeFilter
  <2>6. PICK p \in PointsIn(f) : p.nodeID = i - 1
    BY <2>1, <2>2, <2>3, <2>5, ComparisonFound
  <2>7. PointsAt(f, i) = {p}
    BY <2>6 DEF PointsAt, PointsIn, SourceInductive, PointInv
  <2> QED
    BY <2>7, FS_Singleton
<1> QED
  BY <1>1, SourceInvariant, PTL

-----------------------------------------------------------------------------
(***************************************************************************)
(* Diff mode.                                                              *)
(***************************************************************************)
\* No changed line of any project looks like a header of git diff.
NoLookAlikes ==
  \A pr \in Projects : \A path \in DOMAIN pr.changes : ~pr.changes[path].plus

\* Each line of a file with changes is in a maximal run of them.
LEMMA RunsCover ==
  ASSUME NEW lines, NEW last \in {0} \cup lines,
         \A l \in lines : l \in Nat /\ l <= last,
         NEW l \in lines
  PROVE  \E r \in Runs(lines) : r[1] \in Nat /\ r[2] \in Nat /\ l \in r[1]..r[2]
<1> DEFINE R == OpToRel(<, Nat)
           A == {a \in lines : a <= l /\ a..l \subseteq lines}
           B == {b \in Nat : b > l /\ b \notin lines}
<1>0. IsWellFoundedOn(R, Nat)
  BY NatLessThanWellFounded
<1>1. \A x, y \in Nat : x < y => <<x, y>> \in R
  BY DEF OpToRel
<1> HIDE DEF R
<1>2. l \in Nat /\ last \in Nat /\ l <= last
  OBVIOUS
<1>3. A \subseteq Nat /\ l \in A
  OBVIOUS
<1>4. PICK a \in A : \A x \in A : <<x, a>> \notin R
  <2>1. A \subseteq Nat /\ A # {}
    BY <1>3
  <2> HIDE DEF A
  <2> QED
    BY <1>0, <2>1, WFMin
<1>5. last + 1 \in B
  OBVIOUS
<1>6. PICK b \in B : \A x \in B : <<x, b>> \notin R
  <2>1. B \subseteq Nat /\ B # {}
    BY <1>5
  <2> HIDE DEF B
  <2> QED
    BY <1>0, <2>1, WFMin
<1>7. a \in Nat /\ a <= l /\ a..l \subseteq lines /\ a \in lines
  BY <1>3, <1>4
<1>8. b \in Nat /\ b > l /\ b \notin lines
  BY <1>6
<1>9. a - 1 \notin lines
  <2>1. SUFFICES ASSUME a - 1 \in lines PROVE FALSE
    OBVIOUS
  <2>2. a - 1 \in Nat /\ a - 1 < a
    BY <1>7, <2>1
  <2>3. (a - 1)..l \subseteq lines
    BY <1>2, <1>7, <2>1, <2>2
  <2>4. a - 1 \in A
    BY <1>2, <1>7, <2>1, <2>2, <2>3
  <2> HIDE DEF A
  <2> QED
    BY <1>1, <1>4, <1>7, <2>2, <2>4
<1>10. l..(b - 1) \subseteq lines
  <2>1. SUFFICES ASSUME NEW x \in l..(b - 1), x \notin lines PROVE FALSE
    OBVIOUS
  <2>2. x \in Nat /\ x > l /\ x < b
    BY <1>2, <1>8, <2>1
  <2>3. x \in B
    BY <2>1, <2>2
  <2> HIDE DEF B
  <2> QED
    BY <1>1, <1>6, <1>8, <2>2, <2>3
<1>11. a..(b - 1) \subseteq lines /\ b - 1 \in lines /\ b - 1 \in Nat /\ a <= b - 1
  BY <1>2, <1>7, <1>8, <1>10
<1>12. <<a, b - 1>> \in Runs(lines)
  BY <1>7, <1>8, <1>9, <1>11 DEF Runs
<1> QED
  BY <1>2, <1>7, <1>8, <1>11, <1>12

\* The lines of a hunk, whose count may be left out.
LEMMA HunkLines ==
  ASSUME NEW start \in Nat, NEW count \in Nat
  PROVE  NewLines(Hunk(start, count)) = start..(start + count - 1)
<1>1. CASE count = 1
  BY <1>1 DEF NewLines, Hunk
<1>2. CASE count # 1
  <2>1. <<count>> # <<>>
    OBVIOUS
  <2> QED
    BY <1>2, <2>1 DEF NewLines, Hunk
<1> QED
  BY <1>1, <1>2

\* The hunks of a file cover its changed lines and no others.
LEMMA HunksCover ==
  ASSUME project \in Projects, project.diff, NEW f \in DOMAIN project.changes
  PROVE  Covered(HunksOf(project.changes[f])) = Changed(f)
<1> DEFINE change == project.changes[f]
           lines  == change.lines
<1>1. PICK last \in {0} \cup lines : \A l \in lines : l \in Nat /\ l <= last
  BY ChangesAssumption
<1>2. CASE change.status # "modified"
  <2>1. HunksOf(change) = {Hunk(0, 0)} /\ Changed(f) = {}
    BY <1>2 DEF HunksOf, Changed
  <2>2. NewLines(Hunk(0, 0)) = 0..(0 + 0 - 1)
    BY HunkLines
  <2> QED
    BY <2>1, <2>2 DEF Covered
<1>3. CASE change.status = "modified"
  <2>1. Changed(f) = lines
    BY <1>3 DEF Changed
  <2>2. /\ \A r \in Runs(lines) : Hunk(r[1], r[2] - r[1] + 1) \in HunksOf(change)
        /\ \A h \in HunksOf(change) :
             \/ \E r \in Runs(lines) : h = Hunk(r[1], r[2] - r[1] + 1)
             \/ h = Hunk(9, 0)
    BY <1>3 DEF HunksOf
  <2>3. ASSUME NEW r \in Runs(lines)
        PROVE  NewLines(Hunk(r[1], r[2] - r[1] + 1)) = r[1]..r[2]
    <3>1. r[1] \in Nat /\ r[2] \in Nat /\ r[1] <= r[2]
      BY <1>1, <2>3 DEF Runs
    <3>2. r[2] - r[1] + 1 \in Nat /\ r[1] + (r[2] - r[1] + 1) - 1 = r[2]
      BY <3>1
    <3> QED
      BY <3>1, <3>2, HunkLines
  <2>4. ASSUME NEW l \in lines PROVE l \in Covered(HunksOf(change))
    <3>1. PICK r \in Runs(lines) : l \in r[1]..r[2]
      BY <1>1, RunsCover
    <3> QED
      BY <2>2, <2>3, <3>1 DEF Covered
  <2>5. ASSUME NEW h \in HunksOf(change), NEW l \in NewLines(h) PROVE l \in lines
    <3>1. CASE h = Hunk(9, 0)
      <4>1. NewLines(Hunk(9, 0)) = 9..(9 + 0 - 1)
        BY HunkLines
      <4> QED
        BY <2>5, <3>1, <4>1
    <3>2. CASE \E r \in Runs(lines) : h = Hunk(r[1], r[2] - r[1] + 1)
      <4>1. PICK r \in Runs(lines) : h = Hunk(r[1], r[2] - r[1] + 1)
        BY <3>2
      <4>2. l \in r[1]..r[2] /\ r[1]..r[2] \subseteq lines
        BY <2>3, <2>5, <4>1 DEF Runs
      <4> QED
        BY <4>2
    <3> QED
      BY <2>2, <3>1, <3>2
  <2>6. Covered(HunksOf(change)) \subseteq lines
    BY <2>5 DEF Covered
  <2> QED
    BY <2>1, <2>4, <2>6
<1> QED
  BY <1>2, <1>3

\* The path of a header is the one git wrote there, for any of its forms; that of
\* a deleted file is /dev/null.
LEMMA HeaderDecoded ==
  ASSUME project \in Projects, project.diff, NEW f \in DOMAIN project.changes
  PROVE  CurrentFile(HeaderOf(f, project.changes[f]))
           = IF project.changes[f].status = "modified" THEN f ELSE NoFile
<1> DEFINE change == project.changes[f]
           form == change.form \cup {"b/"}
<1>1. f # DevNull /\ change.form \subseteq {"tab", "quotes"}
  BY ChangesAssumption
<1>2. TrimPrefix(Unquote(TrimTab(form))) = {}
  <2>1. TrimTab(form) = form \ {"tab"} /\ "tab" \notin TrimTab(form)
    BY DEF TrimTab
  <2>2. Unquote(TrimTab(form)) = form \ {"tab", "quotes"}
    BY <2>1 DEF Unquote
  <2>3. form \ {"tab", "quotes"} = {"b/"}
    BY <1>1
  <2> HIDE DEF form
  <2> QED
    BY <2>2, <2>3 DEF TrimPrefix
<1>3. TrimPrefix(Unquote(TrimTab({}))) = {}
  BY DEF TrimPrefix, Unquote, TrimTab
<1> QED
  BY <1>1, <1>2, <1>3 DEF CurrentFile, Decoded, HeaderOf, Header, DevNull, NoFile

\* Steps that leave what was parsed as it is, and are no start of the diff mode.
LEMMA ParseKept ==
  ASSUME ParseInv, UNCHANGED <<project, git, currentFile, cl>>,
         \/ pc' = pc \/ pc' \in {"instrument", "done", "failed"}
         \/ /\ {pc, pc'} \cap {"parse", "untracked", "instrument", "done", "failed"} = {}
            /\ pc' \in {"mergeBase", "gitDiff"} => project.diff
  PROVE  ParseInv'
<1>1. \A f : ToParse(f)' = ToParse(f) /\ Changed(f)' = Changed(f)
  BY DEF ToParse, Changed
<1>2. CASE pc' = pc
  BY <1>1, <1>2 DEF ParseInv
<1>3. CASE pc' \in {"instrument", "done", "failed"}
  BY <1>3 DEF ParseInv
<1>4. CASE /\ {pc, pc'} \cap {"parse", "untracked", "instrument", "done", "failed"} = {}
           /\ pc' \in {"mergeBase", "gitDiff"} => project.diff
  <2>1. pc \notin {"parse", "untracked", "instrument", "done", "failed"}
        /\ pc' \notin {"parse", "untracked", "instrument", "done", "failed"}
    BY <1>4
  <2> QED
    BY <1>4, <2>1 DEF ParseInv
<1> QED
  BY <1>2, <1>3, <1>4

\* At the beginning all changes are still to be parsed.
LEMMA GitDiffParse ==
  ASSUME ParseInv, project \in Projects, GitDiff
  PROVE  ParseInv'
<1> DEFINE left == {p \in DOMAIN project.changes : Printed(project.changes[p])}
<1>1. /\ pc = "gitDiff" /\ pc' = "parse" /\ UNCHANGED <<project, currentFile, cl>>
      /\ git' = [git EXCEPT !.left = left] /\ project.diff
  BY DEF GitDiff, At, Goto, ParseInv
<1>2. /\ git = [left |-> git.left, path |-> git.path, hunks |-> git.hunks]
      /\ DOMAIN cl = {} /\ git.hunks = {}
  BY <1>1 DEF ParseInv
<1>3. git' = [left |-> left, path |-> git.path, hunks |-> {}]
  BY <1>1, <1>2
<1>4. git'.left = left /\ git'.path = git.path /\ git'.hunks = {}
  BY <1>3
<1>5. ASSUME NEW f \in DOMAIN project.changes
      PROVE  Lines(cl, f)' \cup ToParse(f)' = Changed(f)'
  <2>1. Lines(cl, f)' = {} /\ Changed(f)' = Changed(f)
    BY <1>1, <1>2 DEF Lines, Changed
  <2>2. CASE f \in left
    BY <1>4, <2>1, <2>2 DEF ToParse, Changed
  <2>3. CASE f \notin left
    <3>1. Changed(f) = {}
      BY <2>3 DEF Changed, Printed
    <3>2. ToParse(f)' = {}
      BY <1>4, <2>3 DEF ToParse, Covered
    <3> QED
      BY <2>1, <3>1, <3>2
  <2> QED
    BY <2>2, <2>3
<1> HIDE DEF left
<1>6. \A f \in DOMAIN cl' : ~cl'[f].all
  BY <1>1, <1>2
<1>7. left \subseteq {f \in DOMAIN project.changes : Printed(project.changes[f])}
  BY DEF left
<1> QED
  BY <1>1, <1>3, <1>4, <1>5, <1>6, <1>7 DEF ParseInv

\* A header makes the hunks behind it count for the file it names.
LEMMA HeaderParse ==
  ASSUME ParseInv, project \in Projects, ParseHeader
  PROVE  ParseInv'
<1>1. PICK p \in git.left :
        /\ git' = [left |-> git.left \ {p}, path |-> p,
                   hunks |-> HunksOf(project.changes[p])]
        /\ currentFile' = CurrentFile(HeaderOf(p, project.changes[p]))
  BY DEF ParseHeader
<1>2. pc = "parse" /\ pc' = "parse" /\ UNCHANGED <<project, cl>> /\ git.hunks = {}
  BY DEF ParseHeader, At, Goto
<1>3. /\ project.diff /\ \A f \in DOMAIN cl : ~cl[f].all
      /\ git.left \subseteq {f \in DOMAIN project.changes : Printed(project.changes[f])}
      /\ \A f \in DOMAIN project.changes : Lines(cl, f) \cup ToParse(f) = Changed(f)
  BY <1>2 DEF ParseInv
<1>4. p \in DOMAIN project.changes
  BY <1>3
<1>5. currentFile' = IF project.changes[p].status = "modified" THEN p ELSE NoFile
  BY <1>1, <1>3, <1>4, HeaderDecoded
<1>6. Covered(HunksOf(project.changes[p])) = Changed(p)
  BY <1>3, <1>4, HunksCover
<1>7. /\ git'.left = git.left \ {p} /\ git'.path = p
      /\ git'.hunks = HunksOf(project.changes[p])
  BY <1>1
<1>8. ASSUME NEW f \in DOMAIN project.changes
      PROVE  Lines(cl, f)' \cup ToParse(f)' = Changed(f)'
  <2>1. Lines(cl, f)' = Lines(cl, f) /\ Changed(f)' = Changed(f)
    BY <1>2 DEF Lines, Changed
  <2>2. ToParse(f)' = ToParse(f)
    <3>1. CASE f = p
      BY <1>6, <1>7, <3>1 DEF ToParse
    <3>2. CASE f # p /\ f \in git.left
      BY <1>2, <1>7, <3>2 DEF ToParse, Changed
    <3>3. CASE f \notin git.left
      <4>1. ToParse(f) = {}
        BY <1>2, <3>3 DEF ToParse, Covered
      <4>2. f # p
        BY <3>3
      <4> QED
        BY <1>7, <3>3, <4>1, <4>2 DEF ToParse
    <3> QED
      BY <3>1, <3>2, <3>3
  <2> QED
    BY <1>3, <2>1, <2>2
<1> QED
  BY <1>1, <1>2, <1>3, <1>4, <1>5, <1>7, <1>8 DEF ParseInv

\* A hunk adds its lines to those of its file, and a deleted file has none; no
\* line of a hunk is taken for a header.
LEMMA HunkParse ==
  ASSUME NoLookAlikes, ParseInv, project \in Projects, ParseHunk
  PROVE  ParseInv'
<1>1. PICK hunk \in git.hunks :
        /\ git' = [git EXCEPT !.hunks = @ \ {hunk}]
        /\ cl' = AddHunk(cl, currentFile, hunk)
        /\ currentFile' = IF LooksLikeHeader(project.changes[git.path], hunk)
                          THEN CurrentFile(Header(Elsewhere, {"b/"})) ELSE currentFile
  BY DEF ParseHunk
<1>2. pc = "parse" /\ pc' = "parse" /\ UNCHANGED project
  BY DEF ParseHunk, At, Goto
<1> DEFINE path == git.path
           change == project.changes[path]
<1>3. /\ project.diff /\ \A f \in DOMAIN cl : ~cl[f].all
      /\ git = [left |-> git.left, path |-> path, hunks |-> git.hunks]
      /\ git.left \subseteq {f \in DOMAIN project.changes : Printed(project.changes[f])}
      /\ path \in DOMAIN project.changes \ git.left
      /\ currentFile = IF change.status = "modified" THEN path ELSE NoFile
      /\ git.hunks \subseteq HunksOf(change)
      /\ \A f \in DOMAIN project.changes : Lines(cl, f) \cup ToParse(f) = Changed(f)
  BY <1>2 DEF ParseInv
<1>4. git' = [left |-> git.left, path |-> path, hunks |-> git.hunks \ {hunk}]
  BY <1>1, <1>3
<1>5. git'.left = git.left /\ git'.path = path /\ git'.hunks = git.hunks \ {hunk}
  BY <1>4
<1>6. currentFile' = currentFile
  BY <1>1, <1>3 DEF NoLookAlikes, LooksLikeHeader
<1>7. path # NoFile
  BY <1>3, ChangesAssumption
<1>8. \A f : f = path => /\ ToParse(f) = Covered(git.hunks)
                       /\ ToParse(f)' = Covered(git.hunks \ {hunk})
  BY <1>3, <1>5 DEF ToParse
<1>9. \A f : f # path => ToParse(f)' = ToParse(f)
  BY <1>2, <1>5 DEF ToParse, Changed
<1>10. Covered(git.hunks) = Covered(git.hunks \ {hunk}) \cup NewLines(hunk)
  BY DEF Covered
<1> HIDE DEF path
<1>11. /\ \A f : Lines(cl', f) = IF f = path /\ change.status = "modified"
                                 THEN Lines(cl, f) \cup NewLines(hunk) ELSE Lines(cl, f)
       /\ \A f \in DOMAIN cl' : ~cl'[f].all
  <2>1. CASE change.status # "modified" \/ NewLines(hunk) = {}
    <3>1. cl' = cl
      BY <1>1, <1>3, <2>1 DEF AddHunk
    <3> QED
      BY <1>3, <2>1, <3>1
  <2>2. CASE change.status = "modified" /\ NewLines(hunk) # {}
    <3>1. cl' = [f \in DOMAIN cl \cup {path} |->
                   IF f = path THEN [all |-> FALSE, lines |-> Lines(cl, path) \cup NewLines(hunk)]
                   ELSE cl[f]]
      BY <1>1, <1>3, <1>7, <2>2 DEF AddHunk
    <3>2. \A f \in DOMAIN cl' : ~cl'[f].all
      BY <1>3, <3>1
    <3>3. ASSUME NEW f PROVE Lines(cl', f) = IF f = path THEN Lines(cl, f) \cup NewLines(hunk)
                                                         ELSE Lines(cl, f)
      BY <3>1 DEF Lines
    <3> QED
      BY <2>2, <3>2, <3>3
  <2> QED
    BY <2>1, <2>2
<1>12. ASSUME NEW f \in DOMAIN project.changes
       PROVE  Lines(cl, f)' \cup ToParse(f)' = Changed(f)'
  <2>1. Changed(f)' = Changed(f) /\ Lines(cl, f)' = Lines(cl', f)
    BY <1>2 DEF Changed, Lines
  <2>2. Lines(cl, f) \cup ToParse(f) = Changed(f)
    BY <1>3
  <2>3. CASE f # path
    BY <1>9, <1>11, <2>1, <2>2, <2>3
  <2>4. CASE f = path /\ change.status = "modified"
    BY <1>8, <1>10, <1>11, <2>1, <2>2, <2>4 DEF path
  <2>5. CASE f = path /\ change.status # "modified"
    <3>1. Changed(f) = {}
      BY <2>5 DEF Changed
    <3>2. ToParse(f)' \subseteq ToParse(f)
      BY <1>8, <1>10, <2>5 DEF path
    <3> QED
      BY <1>11, <2>1, <2>2, <2>5, <3>1, <3>2
  <2> QED
    BY <2>3, <2>4, <2>5
<1> QED
  BY <1>2, <1>3, <1>4, <1>5, <1>6, <1>11, <1>12 DEF ParseInv, path

\* The points of a file as the discovery found them, and that they are those on
\* changed lines.
UnnumberedIn(f) == {Unnumbered(p) : p \in PointsIn(f)}
Exact(f, typed) == UnnumberedIn(f) = {p \in FilePoints(f, typed) : OnChangedLine(p)}

\* The filter keeps the points on the lines that were parsed, and all those of
\* the untracked files.
LEMMA FilterIsExact ==
  ASSUME SourceInductive, ParseInv, Untracked
  PROVE  \A f \in Files : \E typed \in BOOLEAN : Exact(f, typed)'
<1> DEFINE U == {f \in DOMAIN project.changes :
                   project.changes[f].status \in {"untracked", "uncached"}}
<1>1. /\ pc = "untracked" /\ UNCHANGED <<project, cache>>
      /\ cl' = AddUntrackedFiles(cl, U) /\ points' = FilterPoints(points, cl')
  BY DEF Untracked, At
<1>2. /\ project.diff /\ git.left = {} /\ git.hunks = {}
      /\ \A f \in DOMAIN cl : ~cl[f].all
      /\ \A f \in DOMAIN project.changes : Lines(cl, f) \cup ToParse(f) = Changed(f)
  BY <1>1 DEF ParseInv
<1>3. project \in Projects
  BY DEF SourceInductive, CacheInv
<1> SUFFICES ASSUME NEW f \in Files PROVE \E typed \in BOOLEAN : Exact(f, typed)'
  OBVIOUS
<1>4. f \in DOMAIN project.changes
  <2>1. PICK p \in DOMAIN project.pkgs : \E i \in DOMAIN project.pkgs[p].files : f = <<p, i>>
    BY DEF Files, FilesOf
  <2> QED
    BY <1>2, <1>3, <2>1, ChangesAssumption
<1>5. f[1] <= checked
  BY <1>1, <1>3, FileIndex DEF SourceInductive, FoundInv
<1>6. PICK typed \in BOOLEAN : PointsIn(f) = FilePoints(f, typed)
  BY <1>1, <1>5 DEF SourceInductive, FoundInv, BeforeFilter
<1>7. Lines(cl, f) = Changed(f)
  <2>1. ToParse(f) = {}
    BY <1>2 DEF ToParse, Covered
  <2> QED
    BY <1>2, <1>4, <2>1
<1>8. ASSUME NEW p \in PointsIn(f)
      PROVE  (f \in DOMAIN cl' /\ (cl'[f].all \/ p.line \in cl'[f].lines))
               <=> OnChangedLine(p)
  <2>1. p.file = f
    BY DEF PointsIn
  <2>2. CASE f \in U
    <3>1. f \in DOMAIN cl' /\ cl'[f] = [all |-> TRUE, lines |-> {}]
      BY <1>1, <2>2 DEF AddUntrackedFiles
    <3> QED
      BY <2>1, <2>2, <3>1 DEF OnChangedLine
  <2>3. CASE f \notin U
    <3>1. (f \in DOMAIN cl' <=> f \in DOMAIN cl) /\ (f \in DOMAIN cl => cl'[f] = cl[f])
      BY <1>1, <2>3 DEF AddUntrackedFiles
    <3>2. (f \in DOMAIN cl' /\ (cl'[f].all \/ p.line \in cl'[f].lines))
            <=> p.line \in Lines(cl, f)
      BY <1>2, <3>1 DEF Lines
    <3>3. p.line \in Changed(f) <=> OnChangedLine(p)
      BY <1>4, <2>1, <2>3 DEF OnChangedLine, Changed
    <3> QED
      BY <1>7, <3>2, <3>3
  <2> QED
    BY <2>2, <2>3
<1>9. ASSUME NEW p \in FilePoints(f, typed)
      PROVE  Unnumbered(p) = p
  <2>1. p = [file |-> p.file, nodeID |-> p.nodeID, original |-> p.original,
             mutated |-> p.mutated, line |-> p.line, mutestID |-> 0,
             constant |-> p.constant]
    BY FilePointsFound DEF IsPoint
  <2> QED
    BY <2>1 DEF Unnumbered
<1>10. PointsIn(f)' = {p \in FilePoints(f, typed) : OnChangedLine(p)}
  <2>1. PointsIn(f)' = {p \in PointsIn(f) : /\ f \in DOMAIN cl'
                                            /\ cl'[f].all \/ p.line \in cl'[f].lines}
    BY <1>1 DEF PointsIn, FilterPoints
  <2> QED
    BY <1>6, <1>8, <2>1
<1>11. UnnumberedIn(f)' = {p \in FilePoints(f, typed) : OnChangedLine(p)}
  <2>1. UnnumberedIn(f)' = {Unnumbered(p) : p \in PointsIn(f)'}
    BY DEF UnnumberedIn, Unnumbered
  <2> QED
    BY <1>9, <1>10, <2>1
<1>12. FilePoints(f, typed)' = FilePoints(f, typed) /\ \A p : OnChangedLine(p)' = OnChangedLine(p)
  BY <1>1, FilePointsKept DEF OnChangedLine
<1> QED
  BY <1>6, <1>11, <1>12 DEF Exact

\* Numbering the points of a package changes nothing else of them.
LEMMA NumberingKeeps ==
  ASSUME SourceInductive, InstrumentPackage
  PROVE  \A f : UnnumberedIn(f)' = UnnumberedIn(f)
<1> DEFINE mine == PointsOf(Min(Remaining))
           Numbered(p) == [p EXCEPT !.mutestID = Rank(p)]
<1>1. points' = (points \ mine) \cup {Numbered(p) : p \in mine}
  BY DEF InstrumentPackage
<1>2. mine \subseteq points
  BY DEF PointsOf
<1>3. ASSUME NEW p \in points
      PROVE  Numbered(p).file = p.file /\ Unnumbered(Numbered(p)) = Unnumbered(p)
  <2>1. p = [file |-> p.file, nodeID |-> p.nodeID, original |-> p.original,
             mutated |-> p.mutated, line |-> p.line, mutestID |-> p.mutestID,
             constant |-> p.constant]
    BY DEF SourceInductive, PointInv, IsPoint
  <2> QED
    BY <2>1 DEF Unnumbered
<1> HIDE DEF mine, Numbered
<1> SUFFICES ASSUME NEW f PROVE UnnumberedIn(f)' = UnnumberedIn(f)
  OBVIOUS
<1>4. UnnumberedIn(f)' = {Unnumbered(p) : p \in {q \in points' : q.file = f}}
  BY DEF UnnumberedIn, PointsIn, Unnumbered
<1>5. ASSUME NEW p \in points, p.file = f
      PROVE  \E q \in points' : q.file = f /\ Unnumbered(q) = Unnumbered(p)
  BY <1>1, <1>3, <1>5
<1>6. ASSUME NEW q \in points', q.file = f
      PROVE  \E p \in points : p.file = f /\ Unnumbered(q) = Unnumbered(p)
  BY <1>1, <1>2, <1>3, <1>6
<1> HIDE DEF Unnumbered
<1> QED
  BY <1>4, <1>5, <1>6 DEF UnnumberedIn, PointsIn

\* Steps after the filter that leave the points as they are, but for numbers.
LEMMA ExactKept ==
  ASSUME DiffExact, UNCHANGED <<project, cache>>,
         pc' \in {"instrument", "done"} /\ project.diff =>
           /\ pc \in {"instrument", "done"}
           /\ \A f : UnnumberedIn(f)' = UnnumberedIn(f)
  PROVE  DiffExact'
<1>1. Files' = Files
  BY DEF Files, FilesOf
<1>2. \A f, typed : FilePoints(f, typed)' = FilePoints(f, typed)
  BY FilePointsKept
<1>3. \A p : OnChangedLine(p)' = OnChangedLine(p)
  BY DEF OnChangedLine
<1>4. SUFFICES ASSUME pc' \in {"instrument", "done"}, project.diff
               PROVE  \A f \in Files : \E typed \in BOOLEAN : Exact(f, typed)'
  BY <1>1 DEF DiffExact, Exact, UnnumberedIn, PointsIn
<1>5. \A f \in Files : \E typed \in BOOLEAN : Exact(f, typed)
  BY <1>4 DEF DiffExact, Exact, UnnumberedIn, PointsIn
<1> QED
  BY <1>2, <1>3, <1>4, <1>5 DEF Exact

\* A discovery stays before the diff mode.
LEMMA DiscoverySteps ==
  ASSUME DiscoveryNext
  PROVE  /\ UNCHANGED <<ctx, project, disk>> /\ pc \in {"list", "read", "check"}
         /\ pc' \in {"list", "read", "check", "points", "failed"}
<1>1. CASE ListFails \/ ResolveFiles
  BY <1>1 DEF ListFails, ResolveFiles, At, Goto, Fails
<1>2. CASE ReadFails \/ ReadFile \/ ImporterFails \/ TypeImporter
  BY <1>2 DEF ReadFails, ReadFile, ImporterFails, TypeImporter, At, Goto, Fails
<1>3. CASE CheckPackage
  BY <1>3 DEF CheckPackage, At, Goto, Fails
<1>4. CASE Discovered
  BY <1>4 DEF Discovered, At, Goto, Fails
<1> QED
  BY <1>1, <1>2, <1>3, <1>4 DEF DiscoveryNext

\* Every step keeps what is parsed together with what is to be parsed, and the
\* points that remain those of the changes.
LEMMA DiffNext ==
  ASSUME NoLookAlikes, SourceInductive, DiffInductive, [Next]_vars
  PROVE  DiffInductive'
<1>1. project \in Projects /\ ParseInv /\ DiffExact
  BY DEF SourceInductive, CacheInv, DiffInductive
<1>2. ASSUME UNCHANGED points PROVE \A f : UnnumberedIn(f)' = UnnumberedIn(f)
  BY <1>2 DEF UnnumberedIn, Unnumbered, PointsIn
<1>3. CASE Interrupt /\ UNCHANGED diffVars
  BY <1>1, <1>2, <1>3, ParseKept, ExactKept DEF Interrupt, diffVars, DiffInductive
<1>4. CASE EditFile /\ UNCHANGED diffVars
  BY <1>1, <1>2, <1>4, ParseKept, ExactKept DEF EditFile, diffVars, DiffInductive
<1>5. CASE Discover
  <2>1. ParseInv'
    BY <1>1, <1>5, DiscoverySteps, ParseKept DEF Discover, diffVars
  <2>2. DiffExact'
    BY <1>5, DiscoverySteps DEF Discover, DiffExact
  <2> QED
    BY <2>1, <2>2 DEF DiffInductive
<1>6. CASE NoDiff
  BY <1>1, <1>6, ParseKept, ExactKept DEF NoDiff, At, Goto, diffVars, DiffInductive
<1>7. CASE DiffFails
  BY <1>1, <1>7, ParseKept, ExactKept DEF DiffFails, At, Fails, diffVars, DiffInductive
<1>8. CASE RepoRoot
  BY <1>1, <1>8, ParseKept, ExactKept DEF RepoRoot, At, Goto, diffVars, DiffInductive
<1>9. CASE MergeBase
  BY <1>1, <1>9, ParseKept, ExactKept DEF MergeBase, At, Goto, diffVars, DiffInductive, ParseInv
<1>10. CASE GitDiff
  <2>1. pc' = "parse"
    BY <1>10 DEF GitDiff, Goto
  <2> QED
    BY <1>1, <1>10, <2>1, GitDiffParse DEF DiffExact, DiffInductive
<1>11. CASE ParseHeader
  <2>1. pc' = "parse"
    BY <1>11 DEF ParseHeader, Goto
  <2> QED
    BY <1>1, <1>11, <2>1, HeaderParse DEF DiffExact, DiffInductive
<1>12. CASE ParseHunk
  <2>1. pc' = "parse"
    BY <1>12 DEF ParseHunk, Goto
  <2> QED
    BY <1>1, <1>12, <2>1, HunkParse DEF DiffExact, DiffInductive
<1>13. CASE Parsed
  <2>1. pc = "parse" /\ pc' = "untracked" /\ git.hunks = {} /\ git.left = {}
        /\ UNCHANGED <<project, git, currentFile, cl>>
    BY <1>13 DEF Parsed, At, Goto, diffVars
  <2>2. \A f : /\ ToParse(f)' = ToParse(f) /\ Changed(f)' = Changed(f)
               /\ Lines(cl, f)' = Lines(cl, f)
    BY <2>1 DEF ToParse, Changed, Lines
  <2>3. ParseInv'
    BY <1>1, <2>1, <2>2 DEF ParseInv
  <2> QED
    BY <2>1, <2>3 DEF DiffExact, DiffInductive
<1>14. CASE Untracked
  <2>1. /\ UNCHANGED <<project, git>> /\ pc' = "instrument"
    BY <1>14 DEF Untracked, At, Goto
  <2>2. ParseInv'
    BY <1>1, <2>1 DEF ParseInv
  <2>3. DiffExact'
    <3>1. Files' = Files
      BY <2>1 DEF Files, FilesOf
    <3>2. \A f \in Files : \E typed \in BOOLEAN : Exact(f, typed)'
      BY <1>1, <1>14, FilterIsExact
    <3> QED
      BY <3>1, <3>2 DEF DiffExact, Exact, UnnumberedIn, PointsIn
  <2> QED
    BY <2>2, <2>3 DEF DiffInductive
<1>15. CASE InstrumentPackage
  <2>1. /\ UNCHANGED <<project, git, currentFile, cl, cache>> /\ pc = "instrument"
        /\ pc' \in {"instrument", "failed"}
    BY <1>15 DEF InstrumentPackage, At, Goto, Fails, diffVars
  <2> QED
    BY <1>1, <1>15, <2>1, NumberingKeeps, ParseKept, ExactKept DEF DiffInductive
<1>16. CASE Instrumented
  BY <1>1, <1>2, <1>16, ParseKept, ExactKept
     DEF Instrumented, At, Goto, diffVars, DiffInductive
<1>17. CASE Done \/ UNCHANGED vars
  BY <1>1, <1>2, <1>17, ParseKept, ExactKept
     DEF Done, vars, discoveryVars, diffVars, DiffInductive
<1> QED
  BY <1>3, <1>4, <1>5, <1>6, <1>7, <1>8, <1>9, <1>10, <1>11, <1>12, <1>13, <1>14,
     <1>15, <1>16, <1>17 DEF Next

\* Diff mode keeps the points on new or changed lines and no others, whatever the
\* runs of lines, the forms of the paths and the files deleted or untracked, as
\* long as no changed line looks like a header.
THEOREM DiffIsExact ==
  ASSUME NoLookAlikes
  PROVE  Spec => []DiffExact
<1>1. Init => DiffInductive
  BY DEF Init, DiscoveryInit, DiffInductive, ParseInv, DiffExact
<1>2. DiffInductive => DiffExact
  BY DEF DiffInductive
<1> QED
  BY <1>1, <1>2, DiffNext, SourceInvariant, PTL DEF Spec

-----------------------------------------------------------------------------
(***************************************************************************)
(* The numbers of the points.                                              *)
(***************************************************************************)
\* The number of a point's node is a number, and a file has finitely many points.
LEMMA NodesAreNumbered ==
  ASSUME SourceInductive, pc \notin {"list", "read", "failed"}
  PROVE  /\ \A p \in points : p.nodeID \in Nat
         /\ \A f \in Files : \A typed : IsFiniteSet(FilePoints(f, typed))
<1>1. \A f \in Files : Len(Nodes(cache[f].text)) \in Nat
  BY ContentsWellFormed DEF SourceInductive, CacheInv, WellFormed
<1>2. ASSUME NEW p \in points PROVE p.nodeID \in Nat
  <2>1. Placed(p)
    BY DEF SourceInductive, PointInv
  <2> QED
    BY <1>1, <2>1 DEF Placed, Matches
<1>3. ASSUME NEW f \in Files, NEW typed PROVE IsFiniteSet(FilePoints(f, typed))
  <2> DEFINE S == FilePoints(f, typed)
             n == Len(Nodes(cache[f].text))
             g == [p \in S |-> p.nodeID + 1]
  <2>1. /\ \A p \in S : p.nodeID + 1 \in 1..n /\ p.nodeID \in Nat
        /\ \A p, q \in S : p.nodeID = q.nodeID => p = q
    BY <1>1, FilePointsFound DEF Matches
  <2>2. IsFiniteSet(1..n)
    BY <1>1, FS_Interval
  <2> HIDE DEF S, n
  <2>3. g \in [S -> 1..n]
    BY <2>1
  <2>4. \A p, q \in S : g[p] = g[q] => p = q
    BY <2>1
  <2>5. g \in Injection(S, 1..n)
    BY <2>3, <2>4 DEF Injection, IsInjective
  <2> HIDE DEF g
  <2>6. IsFiniteSet(S)
    BY <2>2, <2>5, FS_Injection
  <2> QED
    BY <2>6 DEF S
<1> QED
  BY <1>2, <1>3

\* A package with finitely many files has finitely many points: the first files
\* have, however many of them.
LEMMA PackageIsFinite ==
  ASSUME NEW n \in Nat, NEW F, \A i \in 1..n : IsFiniteSet(F[i])
  PROVE  IsFiniteSet(UNION {F[i] : i \in 1..n})
<1> DEFINE R == OpToRel(<, Nat)
           Of(m) == UNION {F[i] : i \in 1..m}
           Bad == {m \in Nat : m <= n /\ ~IsFiniteSet(Of(m))}
<1>1. IsWellFoundedOn(R, Nat)
  BY NatLessThanWellFounded
<1>2. \A x, y \in Nat : x < y => <<x, y>> \in R
  BY DEF OpToRel
<1> HIDE DEF R
<1>3. SUFFICES ASSUME Bad # {} PROVE FALSE
  <2>1. n \notin Bad
    BY <1>3
  <2> QED
    BY <2>1
<1>4. PICK m \in Bad : \A x \in Bad : <<x, m>> \notin R
  <2>1. Bad \subseteq Nat
    OBVIOUS
  <2> HIDE DEF Bad
  <2> QED
    BY <1>1, <1>3, <2>1, WFMin
<1>5. m \in Nat /\ m <= n /\ ~IsFiniteSet(Of(m))
  BY <1>4
<1>6. m # 0
  <2>1. Of(0) = {}
    OBVIOUS
  <2> HIDE DEF Of
  <2> QED
    BY <1>5, <2>1, FS_EmptySet
<1>7. IsFiniteSet(Of(m - 1))
  <2>1. m - 1 \in Nat /\ m - 1 < m /\ m - 1 <= n
    BY <1>5, <1>6
  <2>2. m - 1 \notin Bad
    <3> HIDE DEF Bad
    <3> QED
      BY <1>2, <1>4, <1>5, <2>1
  <2> HIDE DEF Of
  <2> QED
    BY <2>1, <2>2
<1>8. Of(m) = Of(m - 1) \cup F[m]
  <2>1. 1..m = (1..(m - 1)) \cup {m}
    BY <1>5, <1>6
  <2> QED
    BY <2>1
<1>9. IsFiniteSet(F[m])
  BY <1>5, <1>6
<1> HIDE DEF Of
<1>10. IsFiniteSet(Of(m - 1) \cup F[m])
  BY <1>7, <1>9, FS_Union
<1> QED
  BY <1>5, <1>8, <1>10

\* The points are in an order: two of them are the same or one is before the other.
LEMMA PointsAreOrdered ==
  ASSUME SourceInductive, pc \notin {"list", "read", "failed"}
  PROVE  /\ \A p \in points : ~Earlier(p, p)
         /\ \A p, q, r \in points : Earlier(p, q) /\ Earlier(q, r) => Earlier(p, r)
         /\ \A p, q \in points : p = q \/ Earlier(p, q) \/ Earlier(q, p)
<1> DEFINE M(p) == IF p.original \in DOMAIN swapTable THEN 1 ELSE 2
<1>1. \A p \in points :
        /\ p.file = <<p.file[1], p.file[2]>> /\ p.file[1] \in Nat /\ p.file[2] \in Nat
        /\ p.nodeID \in Nat /\ M(p) \in Nat
  <2>1. \A p \in points : p.file \in Files
    BY DEF SourceInductive, PointInv, Placed
  <2> QED
    BY <2>1, FileIndex, NodesAreNumbered DEF SourceInductive, CacheInv
<1>2. \A p, q \in points : p.file = q.file /\ p.nodeID = q.nodeID => p = q
  BY DEF SourceInductive, PointInv
<1>3. \A p, q \in points :
        Earlier(p, q) <=>
          \/ p.file[1] < q.file[1]
          \/ p.file[1] = q.file[1] /\ p.file[2] < q.file[2]
          \/ p.file = q.file /\ (M(p) < M(q) \/ (M(p) = M(q) /\ p.nodeID < q.nodeID))
  BY DEF Earlier, Before
<1> HIDE DEF M
<1>4. \A p, q \in points :
        p.file = q.file <=> p.file[1] = q.file[1] /\ p.file[2] = q.file[2]
  BY <1>1
<1>5. ASSUME NEW p \in points PROVE ~Earlier(p, p)
  BY <1>1, <1>3
<1>6. ASSUME NEW p \in points, NEW q \in points, NEW r \in points,
             Earlier(p, q), Earlier(q, r)
      PROVE  Earlier(p, r)
  BY <1>1, <1>3, <1>4, <1>6
<1>7. ASSUME NEW p \in points, NEW q \in points
      PROVE  p = q \/ Earlier(p, q) \/ Earlier(q, p)
  BY <1>1, <1>2, <1>3, <1>4
<1> QED
  BY <1>5, <1>6, <1>7

\* Counting those before it numbers the points of a package from 1 on.
LEMMA RanksAreNumbers ==
  ASSUME SourceInductive, pc \notin {"list", "read", "failed"}, IsFiniteSet(points),
         NEW pkg
  PROVE  /\ Cardinality(PointsOf(pkg)) \in Nat /\ IsFiniteSet(PointsOf(pkg))
         /\ {Rank(p) : p \in PointsOf(pkg)} = 1..Cardinality(PointsOf(pkg))
         /\ \A p, q \in PointsOf(pkg) : Rank(p) = Rank(q) => p = q
<1> DEFINE S == PointsOf(pkg)
           n == Cardinality(S)
           Below(p) == {q \in S : Earlier(q, p)}
           f == [p \in S |-> Rank(p)]
<1>1. S \in SUBSET points /\ IsFiniteSet(S) /\ n \in Nat
  <2>1. S \in SUBSET points
    BY DEF PointsOf
  <2> HIDE DEF S
  <2> QED
    BY <2>1, FS_Subset, FS_CardinalityType
<1>2. \A p \in S : Rank(p) = 1 + Cardinality(Below(p))
  BY DEF Rank, PointsOf
<1> HIDE DEF S
<1>3. ASSUME NEW p \in S
      PROVE  /\ IsFiniteSet(Below(p)) /\ Cardinality(Below(p)) \in Nat
             /\ Below(p) \in SUBSET (S \ {p})
  <2>1. p \notin Below(p)
    BY <1>1, PointsAreOrdered
  <2>2. Below(p) \in SUBSET S
    OBVIOUS
  <2> HIDE DEF Below
  <2> QED
    BY <1>1, <2>1, <2>2, FS_Subset, FS_CardinalityType
<1>4. ASSUME NEW p \in S PROVE Rank(p) \in 1..n
  <2>1. IsFiniteSet(S \ {p}) /\ Cardinality(S \ {p}) = n - 1
    BY <1>1, FS_RemoveElement
  <2> HIDE DEF Below, n
  <2>2. Cardinality(Below(p)) <= n - 1
    BY <1>3, <2>1, FS_Subset
  <2> QED
    BY <1>1, <1>2, <1>3, <2>2
<1>5. ASSUME NEW p \in S, NEW q \in S, Earlier(p, q)
      PROVE  Rank(p) < Rank(q)
  <2>1. Below(p) \cup {p} \in SUBSET Below(q) /\ p \notin Below(p)
    BY <1>1, <1>3, <1>5, PointsAreOrdered
  <2> HIDE DEF Below
  <2>2. Cardinality(Below(p) \cup {p}) = Cardinality(Below(p)) + 1
    BY <1>3, <2>1, FS_AddElement
  <2>3. Cardinality(Below(p) \cup {p}) <= Cardinality(Below(q))
    BY <1>3, <2>1, FS_Subset
  <2> QED
    BY <1>2, <1>3, <2>2, <2>3
<1>6. ASSUME NEW p \in S, NEW q \in S, Rank(p) = Rank(q) PROVE p = q
  <2>1. Rank(p) \in Int /\ Rank(q) \in Int
    BY <1>1, <1>4
  <2>2. ~Earlier(p, q) /\ ~Earlier(q, p)
    BY <1>5, <1>6, <2>1
  <2> QED
    BY <1>1, <2>2, PointsAreOrdered
<1>7. f \in Injection(S, 1..n)
  BY <1>4, <1>6 DEF Injection, IsInjective
<1>8. IsFiniteSet(1..n) /\ Cardinality(1..n) = n
  <2>1. n \in Int /\ 1 \in Int
    BY <1>1
  <2> HIDE DEF n
  <2>2. IsFiniteSet(1..n) /\ Cardinality(1..n) = IF 1 > n THEN 0 ELSE n - 1 + 1
    BY <2>1, FS_Interval
  <2> QED
    BY <1>1, <2>2
<1>9. f \in Surjection(S, 1..n)
  <2> HIDE DEF f
  <2> QED
    BY <1>7, <1>8, FS_Injection
<1>10. \A k \in 1..n : \E p \in S : Rank(p) = k
  BY <1>9 DEF Surjection
<1> HIDE DEF n
<1>11. {Rank(p) : p \in S} = 1..n
  BY <1>4, <1>10
<1> QED
  BY <1>1, <1>6, <1>11 DEF S, n

\* The next package is one that has points without numbers.
LEMMA NextPackage ==
  ASSUME SourceInductive, Remaining # {}
  PROVE  Min(Remaining) \in Remaining
<1> DEFINE R == OpToRel(<, Nat)
<1>1. Remaining \subseteq Nat
  BY FileIndex DEF Remaining, SourceInductive, PointInv, Placed, CacheInv
<1>2. \A x, y \in Nat : x < y => <<x, y>> \in R
  BY DEF OpToRel
<1>3. IsWellFoundedOn(R, Nat)
  BY NatLessThanWellFounded
<1> HIDE DEF R
<1>4. PICK x \in Remaining : \A y \in Remaining : <<y, x>> \notin R
  BY <1>1, <1>3, WFMin
<1>5. ASSUME NEW y \in Remaining PROVE x <= y
  <2>1. x \in Nat /\ y \in Nat /\ ~(y < x)
    BY <1>1, <1>2, <1>4
  <2> QED
    BY <2>1
<1> QED
  BY <1>5 DEF Min

\* Steps that number nothing.
LEMMA NumberKept ==
  ASSUME NumberInv, UNCHANGED <<out, helper>>,
         \/ points' = points
         \/ points' \subseteq points /\ pc \notin {"instrument", "done"},
         pc' \notin {"instrument", "done"} => pc \notin {"instrument", "done"},
         pc' = "done" => points' = points /\ (pc = "done" \/ NumberedPoints = points)
  PROVE  NumberInv'
<1>1. CASE points' = points
  <2>1. NumberedPoints' = NumberedPoints /\ \A pkg : PointsOf(pkg)' = PointsOf(pkg)
    BY <1>1 DEF NumberedPoints, PointsOf
  <2>2. \A p : HasItsHelper(p)' <=> HasItsHelper(p)
    BY DEF HasItsHelper
  <2> QED
    BY <1>1, <2>1, <2>2 DEF NumberInv
<1>2. CASE points' \subseteq points /\ pc \notin {"instrument", "done"}
  <2>1. NumberedPoints = {} /\ NumberedPoints' = {}
    BY <1>2 DEF NumberInv, NumberedPoints
  <2>2. IsFiniteSet(points')
    BY <1>2, FS_Subset DEF NumberInv
  <2>3. pc' # "done" \/ points' = {}
    BY <1>2, <2>1
  <2> QED
    BY <2>1, <2>2, <2>3 DEF NumberInv
<1> QED
  BY <1>1, <1>2

\* The points of a package have no numbers when they are found.
LEMMA CheckNumbers ==
  ASSUME SourceInductive, NumberInv, CheckPackage, UNCHANGED <<out, helper>>
  PROVE  NumberInv'
<1>1. pc = "check" /\ pc' \in {"check", "failed"} /\ project \in Projects
  BY DEF CheckPackage, At, Goto, Fails, SourceInductive, CacheInv
<1>2. CASE UNCHANGED points
  BY <1>1, <1>2, NumberKept
<1>3. CASE ~UNCHANGED points
  <2> DEFINE P == checked + 1
             files == project.pkgs[P].files
  <2>1. PICK typed \in BOOLEAN :
          points' = points \cup UNION {FilePoints(<<P, i>>, typed) : i \in DOMAIN files}
    <3>1. \E typed \in BOOLEAN :
            points' = points \cup UNION {FilePoints(<<P, i>>, typed) : i \in DOMAIN files}
      BY <1>3 DEF CheckPackage
    <3> QED
      BY <3>1
  <2>2. checked \in Nat /\ checked < Len(project.pkgs)
    BY <1>3 DEF CheckPackage, SourceInductive
  <2>3. P \in DOMAIN project.pkgs /\ DOMAIN files = 1..Len(files) /\ Len(files) \in Nat
    BY <1>1, <2>2, ProjectAssumption
  <2>4. \A i \in 1..Len(files) : <<P, i>> \in Files
    BY <2>3 DEF Files, FilesOf
  <2> HIDE DEF P, files
  <2> DEFINE F == [i \in 1..Len(files) |-> FilePoints(<<P, i>>, typed)]
             found == UNION {F[i] : i \in 1..Len(files)}
  <2>5. \A i \in 1..Len(files) : IsFiniteSet(F[i])
    BY <1>1, <2>4, NodesAreNumbered
  <2>6. \A p \in found : p.mutestID = 0
    <3>1. \A i \in 1..Len(files) : F[i] = FilePoints(<<P, i>>, typed)
      OBVIOUS
    <3>2. \A i \in 1..Len(files) : \A p \in F[i] : p.mutestID = 0
      BY <3>1, FilePointsFound
    <3> HIDE DEF F
    <3> QED
      BY <3>2
  <2>7. points' = points \cup found
    BY <2>1, <2>3
  <2> HIDE DEF F
  <2>8. IsFiniteSet(found)
    BY <2>3, <2>5, PackageIsFinite
  <2> HIDE DEF found
  <2>9. IsFiniteSet(points')
    BY <2>7, <2>8, FS_Union DEF NumberInv
  <2>10. NumberedPoints = {}
    BY <1>1 DEF NumberInv
  <2>11. NumberedPoints' = {}
    BY <2>6, <2>7, <2>10 DEF NumberedPoints
  <2> QED
    BY <1>1, <2>9, <2>10, <2>11 DEF NumberInv
<1> QED
  BY <1>2, <1>3

\* The points of a package get all the numbers up to that of the points.
LEMMA InstrumentNumbers ==
  ASSUME SourceInductive, err' # "instrument", NumberInv, InstrumentPackage
  PROVE  NumberInv'
<1> DEFINE pkg         == Min(Remaining)
           mine        == PointsOf(pkg)
           n           == Cardinality(mine)
           Numbered(p) == [p EXCEPT !.mutestID = Rank(p)]
           new         == {Numbered(p) : p \in mine}
           g           == [p \in mine |-> Numbered(p)]
<1>1. /\ pc = "instrument" /\ pc' = "instrument" /\ Remaining # {}
      /\ points' = (points \ mine) \cup new
      /\ DOMAIN out' = DOMAIN out \cup {p.file : p \in new}
      /\ helper' = [k \in DOMAIN helper \cup {pkg} |->
                      IF k = pkg THEN GenerateRuntime(new) ELSE helper[k]]
  BY DEF InstrumentPackage, At, Goto, Fails
<1>2. IsFiniteSet(points) /\ \A p \in points : IsPoint(p)
  BY DEF NumberInv, SourceInductive, PointInv
<1>3. /\ n \in Nat /\ IsFiniteSet(mine) /\ {Rank(p) : p \in mine} = 1..n
      /\ \A p, q \in mine : Rank(p) = Rank(q) => p = q
  BY <1>1, <1>2, RanksAreNumbers
<1>4. mine # {}
  <2>1. pkg \in Remaining
    BY <1>1, NextPackage
  <2> QED
    BY <2>1 DEF Remaining, PointsOf
<1>5. mine \subseteq points /\ \A p \in points : p \in mine <=> p.file[1] = pkg
  BY DEF PointsOf
<1>6. ASSUME NEW p \in mine
      PROVE  /\ Numbered(p).file = p.file /\ Numbered(p).nodeID = p.nodeID
             /\ Numbered(p).mutestID = Rank(p)
  <2>1. p = [file |-> p.file, nodeID |-> p.nodeID, original |-> p.original,
             mutated |-> p.mutated, line |-> p.line, mutestID |-> p.mutestID,
             constant |-> p.constant]
    BY <1>2, <1>5 DEF IsPoint
  <2> QED
    BY <2>1
<1>7. \A p, q \in mine : Numbered(p) = Numbered(q) => p = q
  <2>1. \A p, q \in mine : p.file = q.file /\ p.nodeID = q.nodeID => p = q
    BY <1>5 DEF SourceInductive, PointInv
  <2> HIDE DEF Numbered, mine
  <2> QED
    BY <1>6, <2>1
<1> HIDE DEF Numbered, mine, pkg
<1>8. IsFiniteSet(new) /\ Cardinality(new) = n
  <2>1. g \in Bijection(mine, new)
    <3>1. g \in [mine -> new] /\ \A p, q \in mine : g[p] = g[q] => p = q
      BY <1>7
    <3>2. \A q \in new : \E p \in mine : g[p] = q
      OBVIOUS
    <3> HIDE DEF g, new
    <3> QED
      BY <3>1, <3>2 DEF Bijection, Injection, Surjection, IsInjective
  <2> HIDE DEF g, new
  <2>2. ExistsBijection(mine, new)
    BY <2>1 DEF ExistsBijection
  <2> QED
    BY <1>3, <2>2, FS_Bijection
<1>9. {q.mutestID : q \in new} = 1..n
  <2>1. {q.mutestID : q \in new} = {Rank(p) : p \in mine}
    BY <1>6
  <2> QED
    BY <1>3, <2>1
<1>10. /\ \A q \in new : q.file[1] = pkg /\ q.mutestID \in 1..n
       /\ \A p \in mine : \E q \in new : q.file = p.file
       /\ new # {}
  BY <1>3, <1>4, <1>5, <1>6
<1> HIDE DEF new, n
<1>11. NumberedPoints' = {p \in NumberedPoints : p.file[1] # pkg} \cup new
  BY <1>1, <1>3, <1>5, <1>10 DEF NumberedPoints
<1>12. \A q \in NumberedPoints : q.file[1] = pkg => \E p \in new : p.file = q.file
  BY <1>5, <1>10 DEF NumberedPoints
<1>13. DOMAIN helper' = {p.file[1] : p \in NumberedPoints'}
  <2>1. DOMAIN helper = {p.file[1] : p \in NumberedPoints}
    BY DEF NumberInv
  <2> QED
    BY <1>1, <1>10, <1>11, <2>1
<1>14. DOMAIN out' = {p.file : p \in NumberedPoints'}
  <2>1. DOMAIN out = {p.file : p \in NumberedPoints}
    BY DEF NumberInv
  <2> QED
    BY <1>1, <1>10, <1>11, <1>12, <2>1
<1>15. ASSUME NEW p \in new PROVE HasItsHelper(p)'
  <2> DEFINE helpers == {h \in new : h.original \in DOMAIN swapTable /\ ~h.constant}
  <2>1. SUFFICES ASSUME p \in helpers
                 PROVE  /\ p.mutestID \in DOMAIN GenerateRuntime(new)
                        /\ GenerateRuntime(new)[p.mutestID] = <<p.original, p.mutated>>
    BY <1>1, <1>10 DEF HasItsHelper
  <2>2. \A h \in new : h.mutestID = p.mutestID => h = p
    BY <1>3, <1>6 DEF new
  <2>3. (CHOOSE h \in helpers : h.mutestID = p.mutestID) = p
    BY <2>1, <2>2
  <2>4. GenerateRuntime(new)
          = [k \in {h.mutestID : h \in helpers} |->
               LET h == CHOOSE x \in helpers : x.mutestID = k IN <<h.original, h.mutated>>]
    BY DEF GenerateRuntime
  <2> HIDE DEF helpers
  <2> QED
    BY <2>1, <2>3, <2>4
<1>16. ASSUME NEW p \in NumberedPoints'
       PROVE  /\ {q.mutestID : q \in PointsOf(p.file[1])'}
                    = 1..Cardinality(PointsOf(p.file[1])')
              /\ HasItsHelper(p)'
  <2>1. CASE p.file[1] = pkg
    <3>1. PointsOf(p.file[1])' = new
      <4>1. \A q \in points' : q.file[1] = pkg <=> q \in new
        BY <1>1, <1>5, <1>10
      <4> QED
        BY <1>1, <2>1, <4>1 DEF PointsOf
    <3>2. p \in new
      BY <1>11, <2>1
    <3> QED
      BY <1>8, <1>9, <1>15, <2>1, <3>1, <3>2 DEF n
  <2>2. CASE p.file[1] # pkg
    <3>1. p \in NumberedPoints
      BY <1>10, <1>11, <2>2
    <3>2. PointsOf(p.file[1])' = PointsOf(p.file[1])
      <4>1. \A q : q.file[1] = p.file[1] => (q \in points' <=> q \in points)
        BY <1>1, <1>5, <1>10, <2>2
      <4> QED
        BY <4>1 DEF PointsOf
    <3>3. p.file[1] \in DOMAIN helper /\ helper'[p.file[1]] = helper[p.file[1]]
      BY <1>1, <2>2, <3>1 DEF NumberInv
    <3>4. HasItsHelper(p) => HasItsHelper(p)'
      BY <3>3 DEF HasItsHelper
    <3> QED
      BY <3>1, <3>2, <3>4 DEF NumberInv
  <2> QED
    BY <2>1, <2>2
<1>17. IsFiniteSet(points')
  <2>1. IsFiniteSet(points \ mine)
    BY <1>2, FS_Subset
  <2> QED
    BY <1>1, <1>8, <2>1, FS_Union
<1> QED
  BY <1>1, <1>13, <1>14, <1>16, <1>17 DEF NumberInv

\* Every step keeps what holds of the numbers.
LEMMA NumberNext ==
  ASSUME SourceInductive, SourceInductive', NumberInv, [Next]_vars
  PROVE  NumberInv'
<1>1. CASE (Interrupt \/ EditFile) /\ UNCHANGED <<diffVars, out, helper>>
  BY <1>1, NumberKept DEF Interrupt, EditFile
<1>2. CASE Discover
  <2>1. UNCHANGED <<out, helper>>
    BY <1>2 DEF Discover
  <2>2. CASE CheckPackage
    BY <2>1, <2>2, CheckNumbers
  <2>3. CASE ListFails \/ ResolveFiles
    BY <2>1, <2>3, NumberKept DEF ListFails, ResolveFiles, At, Goto, Fails
  <2>4. CASE ReadFails \/ ReadFile \/ ImporterFails \/ TypeImporter
    BY <2>1, <2>4, NumberKept
       DEF ReadFails, ReadFile, ImporterFails, TypeImporter, At, Goto, Fails
  <2>5. CASE Discovered
    BY <2>1, <2>5, NumberKept DEF Discovered, At, Goto, Fails
  <2> QED
    BY <1>2, <2>2, <2>3, <2>4, <2>5 DEF Discover, DiscoveryNext
<1>3. CASE NoDiff \/ DiffFails \/ RepoRoot \/ MergeBase \/ GitDiff
  BY <1>3, NumberKept DEF NoDiff, DiffFails, RepoRoot, MergeBase, GitDiff, At, Goto, Fails
<1>4. CASE ParseHeader \/ ParseHunk \/ Parsed
  BY <1>4, NumberKept DEF ParseHeader, ParseHunk, Parsed, At, Goto
<1>5. CASE Untracked
  BY <1>5, NumberKept DEF Untracked, FilterPoints, At, Goto
<1>6. CASE InstrumentPackage
  BY <1>6, InstrumentNumbers DEF SourceInductive
<1>7. CASE Instrumented
  <2>1. NumberedPoints = points
    BY <1>7 DEF Instrumented, Remaining, NumberedPoints
  <2> QED
    BY <1>7, <2>1, NumberKept DEF Instrumented, At, Goto
<1>8. CASE Done \/ UNCHANGED vars
  BY <1>8, NumberKept DEF Done, vars, discoveryVars, NumberInv
<1> QED
  BY <1>1, <1>2, <1>3, <1>4, <1>5, <1>6, <1>7, <1>8 DEF Next

\* When all packages are instrumented, the points of each have the numbers from 1
\* on, each once, and every package and file with points has its text and helpers,
\* for any number of points: the order of the points leaves no two in one place.
THEOREM NumbersAreUnique == Spec => []EachNumberOnce
<1>1. Init => NumberInv
  <2>1. Init => points = {} /\ DOMAIN helper = {} /\ DOMAIN out = {} /\ pc = "list"
    BY DEF Init, DiscoveryInit
  <2>2. IsFiniteSet({})
    BY FS_EmptySet
  <2> QED
    BY <2>1, <2>2 DEF NumberInv, NumberedPoints
<1>2. NumberInv => EachNumberOnce
  <2> SUFFICES ASSUME NumberInv, pc = "done"
               PROVE  /\ {p.file[1] : p \in points} = DOMAIN helper
                      /\ {p.file : p \in points} = DOMAIN out
                      /\ \A pkg \in DOMAIN helper :
                           {p.mutestID : p \in PointsOf(pkg)}
                             = 1..Cardinality(PointsOf(pkg))
                      /\ \A p \in points : HasItsHelper(p)
    BY DEF EachNumberOnce
  <2>1. NumberedPoints = points
    BY DEF NumberInv
  <2> QED
    BY <2>1 DEF NumberInv
<1> QED
  BY <1>1, <1>2, NumberNext, SourceInvariant, PTL DEF Spec
=============================================================================
