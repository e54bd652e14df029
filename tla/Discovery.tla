----------------------------- MODULE Discovery ------------------------------
(***************************************************************************)
(* DiscoverAllContext (engine.go): go list, read and parse every file,     *)
(* type-check every package, collect the points of both mutators.  The go  *)
(* tool, go/parser and go/types are external.                              *)
(*                                                                         *)
(* A project is a record: pkgs is the sequence of its packages, and        *)
(*   pkg.files  the contents of its files: what Skip and Mutators need of  *)
(*              one, whether it parses (parses) and type-checks (checks)   *)
(*   pkg.cgo    some of them are cgo files                                 *)
(*   pkg.go     the minor version of the module's go directive, 0 without  *)
(* Files are named <<package, index>>.  The files on disk may be edited    *)
(* while mutest runs.                                                      *)
(***************************************************************************)
EXTENDS Skip, Mutators

CONSTANTS
  Projects,     \* the projects tried
  Edited(_),    \* what an edit makes of a file
  Envs          \* values of the variables, for the meaning of expressions

VARIABLES
  ctx,       \* the context is done
  pc,        \* where mutest is
  project,   \* the project, fixed
  disk,      \* the content of each file
  cache,     \* e.sourceCache, of the files read so far
  checked,   \* the number of packages type-checked and walked
  points,    \* the set of the points
  err        \* the phase that failed, or "none"

discoveryVars == <<ctx, pc, project, disk, cache, checked, points, err>>

FilesOf(p) == {<<p, i>> : i \in DOMAIN project.pkgs[p].files}
Files == UNION {FilesOf(p) : p \in DOMAIN project.pkgs}
Original(f) == project.pkgs[f[1]].files[f[2]]

minTargetGoVersion == 20

DiscoveryInit ==
  /\ ctx \in BOOLEAN
  /\ pc = "list"
  /\ project \in Projects
  /\ disk = [f \in Files |-> Original(f)]
  /\ cache = <<>> /\ checked = 0 /\ points = {}
  /\ err = "none"

\* While there is a command or a check that would notice.
Interrupt ==
  /\ ~ctx /\ pc \notin {"instrument", "done", "failed"}
  /\ pc = "points" => project.diff
  /\ ctx' = TRUE
  /\ UNCHANGED <<pc, project, disk, cache, checked, points, err>>

\* Somebody saves a file, once, in a project that is being worked on.
EditFile ==
  /\ pc \notin {"done", "failed"} /\ project.editable
  /\ \E f \in Files :
       /\ disk[f] = Original(f)
       /\ disk' = [disk EXCEPT ![f] = Edited(@)]
  /\ UNCHANGED <<ctx, pc, project, cache, checked, points, err>>

At(label) == pc = label /\ UNCHANGED <<ctx, project, disk>>
Goto(label) == pc' = label /\ UNCHANGED err
Fails(phase) == pc' = "failed" /\ err' = phase

\* go list; it fails of itself, or because the context is done.
ListFails ==
  /\ At("list")
  /\ Fails("discovery") /\ UNCHANGED <<cache, checked, points>>

CheckGoVersion(pkg) == pkg.go = 0 \/ pkg.go >= minTargetGoVersion

ResolveFiles ==
  /\ At("list") /\ ~ctx
  /\ IF \A p \in DOMAIN project.pkgs : CheckGoVersion(project.pkgs[p])
     THEN Goto("read") ELSE Fails("discovery")
  /\ UNCHANGED <<cache, checked, points>>

Unread == Files \ DOMAIN cache
NextFile == CHOOSE f \in Unread : \A g \in Unread : f = g \/ Before(f, g)

ReadFails ==
  /\ At("read") /\ Unread # {}
  /\ Fails("discovery") /\ UNCHANGED <<cache, checked, points>>

ReadFile ==
  /\ At("read") /\ Unread # {} /\ ~ctx
  /\ IF disk[NextFile].parses
     THEN /\ Goto("read")
          /\ cache' = [f \in DOMAIN cache \cup {NextFile} |->
                         IF f = NextFile THEN disk[f] ELSE cache[f]]
     ELSE Fails("discovery") /\ UNCHANGED cache
  /\ UNCHANGED <<checked, points>>

\* typeImporter, go env GOARCH and SizesFor.
ImporterFails ==
  /\ At("read") /\ Unread = {}
  /\ Fails("discovery") /\ UNCHANGED <<cache, checked, points>>

TypeImporter ==
  /\ At("read") /\ Unread = {} /\ ~ctx
  /\ Goto("check") /\ UNCHANGED <<cache, checked, points>>

\* The points of a file, those on skipped lines left out.
FilePoints(f, typed) ==
  LET si == BuildSkipInfo(cache[f])
  IN {p \in ComparisonPoints(f, cache[f], typed)
               \cup EqualityPoints(f, cache[f], typed, project.skipErrPropagation) :
        ~ShouldSkip(si, p.line)}

\* Type-check the next package and walk its files.  A type error ends the run,
\* but in a package with cgo files, where type information may then be missing.
CheckPackage ==
  /\ At("check") /\ checked < Len(project.pkgs)
  /\ LET p     == checked + 1
         files == project.pkgs[p].files
         clean == \A i \in DOMAIN files : cache[<<p, i>>].checks
     IN IF ctx \/ (~clean /\ ~project.pkgs[p].cgo)
        THEN Fails("discovery") /\ UNCHANGED <<checked, points>>
        ELSE /\ Goto("check")
             /\ checked' = p
             /\ \E typed \in {clean, TRUE} :
                  points' = points \cup
                              UNION {FilePoints(<<p, i>>, typed) : i \in DOMAIN files}
  /\ UNCHANGED cache

Discovered ==
  /\ At("check") /\ checked = Len(project.pkgs)
  /\ IF ctx THEN Fails("discovery") ELSE Goto("points")
  /\ UNCHANGED <<cache, checked, points>>

DiscoveryNext ==
  \/ ListFails \/ ResolveFiles \/ ReadFails \/ ReadFile
  \/ ImporterFails \/ TypeImporter \/ CheckPackage \/ Discovered

-----------------------------------------------------------------------------
(***************************************************************************)
(* What the exclusions have to be justified by.  A statement that runs is a*)
(* record: the variables, and what others see of it while it runs.  neg is *)
(* the sign of a float that is zero.                                       *)
(***************************************************************************)
Do(f, state, do) ==
  IF do.kind # "assign" THEN [state EXCEPT !.seen = Append(@, do.kind)]
  ELSE LET v == Literals[do.rhs]  class == f.types[do.lhs]
       IN [env |-> [state.env EXCEPT
                      ![do.lhs] = IF do.tok = "=" THEN v ELSE @ + v,
                      !["neg"]  = IF class = "float" THEN 0 ELSE @],
           seen |-> IF class = "global" THEN Append(state.seen, "write")
                                        ELSE state.seen]

Outcome(f, stmt, holds, env) ==
  LET start == [env |-> env, seen |-> <<>>]
  IN IF holds = 1
     THEN FoldLeft(LAMBDA state, do : Do(f, state, do), start, stmt.body)
     ELSE IF stmt.else THEN [start EXCEPT !.seen = <<"else">>] ELSE start

\* The value of an operand that is a name or a constant, in parentheses or not.
Value(t, r, env) ==
  LET operand == Bare(t, r)[1]
  IN IF operand \in DOMAIN Literals THEN Literals[operand] ELSE env[operand]

\* Moving the boundary of the comparison makes no difference that shows.
Equivalent(f, n, s) ==
  \A env \in Envs :
    LET Holds(op) == Compare(op, Value(f.text, n.X, env), Value(f.text, n.Y, env))
        op == f.text[n.op].k
    IN Outcome(f, f.ifs[s], Holds(op), env) = Outcome(f, f.ifs[s], Holds(Mutated[op]), env)

\* All the statement does is to hand an error that is not nil to the caller, as
\* it is or wrapped.
OnlyPropagates(f, n, s) ==
  LET stmt == f.ifs[s]
      Operand(r, e) == IF Kinds(f.text, r) = <<"err">> THEN e ELSE Literals["nil"]
      Holds(e) == Compare(f.text[n.op].k, Operand(n.X, e), Operand(n.Y, e))
  IN /\ {Kinds(f.text, n.X), Kinds(f.text, n.Y)} = {<<"err">>, <<"nil">>}
     /\ f.types["err"] = "error"
     /\ Holds(1) = 1 /\ Holds(0) = 0 /\ ~stmt.else
     /\ Len(stmt.body) = 1 /\ stmt.body[1].kind = "return"
     /\ {"err", "wrap"} \cap ToSet(stmt.body[1].results) # {}
     /\ ToSet(stmt.body[1].results) \subseteq {"err", "wrap", "nil", "const"}

Comparisons(f) ==
  LET nodes == Nodes(f.text)
  IN {i \in 1..Len(nodes) : f.text[nodes[i].op].k \in DOMAIN Mutated}

Excusable(f, i) ==
  LET n == Nodes(f.text)[i]
  IN \E s \in DOMAIN f.ifs :
       /\ IsCondition(f.text, n, s)
       /\ \/ f.text[n.op].k \in DOMAIN swapTable /\ Equivalent(f, n, s)
          \/ project.skipErrPropagation /\ OnlyPropagates(f, n, s)

PointsAt(f, i) == {p \in points : p.file = f /\ p.nodeID = i - 1}
LineOf(f, i) == NodeLine(f, Nodes(f.text)[i])

(***************************************************************************)
(* What holds of every file, also of an edited one.  A // comment reaches  *)
(* to the end of its line, so one that stands alone has no code on its     *)
(* line; a block comment before code is left out.  What is assigned to is  *)
(* a variable, and the values tried of it are numbers.                     *)
(***************************************************************************)
IsVariable(name) ==
  /\ name \notin DOMAIN Literals
  /\ \A env \in Envs : env \in [DOMAIN env -> Int] /\ name \in DOMAIN env

WellFormed(f) ==
  /\ Len(f.blocks) \in Nat /\ Len(Nodes(f.text)) \in Nat
  /\ \A d \in f.directives : d.standalone => \A i \in Comparisons(f) : LineOf(f, i) # d.line
  /\ \A s \in DOMAIN f.ifs :
       /\ DOMAIN f.ifs[s].body = 1..Len(f.ifs[s].body)
       /\ \A k \in DOMAIN f.ifs[s].body :
            f.ifs[s].body[k].kind = "assign" => IsVariable(f.ifs[s].body[k].lhs)

\* What a file may hold while mutest runs.
Contents(pr, f) ==
  LET original == pr.pkgs[f[1]].files[f[2]]
  IN {original} \cup IF pr.editable THEN {Edited(original)} ELSE {}

ASSUME ProjectAssumption ==
  \A pr \in Projects :
    /\ Len(pr.pkgs) \in Nat /\ DOMAIN pr.pkgs = 1..Len(pr.pkgs)
    /\ \A p \in DOMAIN pr.pkgs :
         LET files == pr.pkgs[p].files
         IN /\ Len(files) \in Nat /\ DOMAIN files = 1..Len(files)
            /\ \A i \in DOMAIN files : \A f \in Contents(pr, <<p, i>>) : WellFormed(f)
=============================================================================
