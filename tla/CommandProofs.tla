---------------------------- MODULE CommandProofs ----------------------------
(***************************************************************************)
(* What TLAPS proves about Command, for any descendants a test may fork.   *)
(***************************************************************************)
EXTENDS Command, TLAPS

-----------------------------------------------------------------------------
(***************************************************************************)
(* Lemmas about the processes.                                             *)
(***************************************************************************)
\* kill(-pid) leaves nobody of the group, and ends the leader if it runs.
LEMMA KillGroupEnds ==
  ASSUME TypeOK, KillGroup
  PROVE  /\ kid' \in [Kids -> {"unborn", "alive", "dead"}]
         /\ Alive' \subseteq Alive /\ Group' = {} /\ leader' # "running"
         /\ leader # "running" => UNCHANGED <<leader, code>>
         /\ leader = "running" => leader' = "zombie" /\ code' = "stopped"
         /\ UNCHANGED <<escaped, holding>>
<1>1. \A k \in Kids : kid'[k] = IF k \in Group THEN "dead" ELSE kid[k]
  BY DEF KillGroup
<1>2. kid' \in [Kids -> {"unborn", "alive", "dead"}]
  BY DEF KillGroup, TypeOK
<1>3. Alive' \subseteq Alive /\ Group' = {}
  BY <1>1 DEF Alive, Group, KillGroup
<1> QED
  BY <1>2, <1>3 DEF KillGroup

\* A group that is empty stays empty without its leader: nobody who has left it
\* can fork into it.
LEMMA GroupStaysEmpty ==
  ASSUME TypeOK, Group = {}, leader # "running", NEW k \in Kids,
         NEW own \in BOOLEAN, NEW pipe \in BOOLEAN, Fork(k, own, pipe)
  PROVE  Group' = {}
<1>1. own
  BY DEF Fork, MayFork, Group
<1>2. escaped' = escaped \cup {k} /\ Alive' \subseteq Alive \cup {k}
  BY <1>1 DEF Fork, Alive, TypeOK
<1> QED
  BY <1>2 DEF Group

\* Without a leader and descendants nobody forks.
LEMMA NobodyForks ==
  ASSUME leader # "running", Alive = {}, NEW k \in Kids,
         NEW own \in BOOLEAN, NEW pipe \in BOOLEAN, Fork(k, own, pipe)
  PROVE  FALSE
BY DEF Fork, MayFork

-----------------------------------------------------------------------------
(***************************************************************************)
(* The inductive invariant.                                                *)
(***************************************************************************)
\* Init establishes it.
LEMMA CommandInit == Init => CommandInductive
<1> SUFFICES ASSUME Init PROVE CommandInductive
  OBVIOUS
<1> USE DEF Init
<1>1. TypeOK
  BY DEF TypeOK
<1>2. Progress /\ Watched
  BY DEF Progress, Watched, Waited, Alive, Over
<1>3. Closed /\ Explained /\ NoLeftovers /\ BufferQuiet /\ CompleteOutput
  BY DEF Closed, Explained, NoLeftovers, BufferQuiet, CompleteOutput
<1> QED
  BY <1>1, <1>2, <1>3 DEF CommandInductive

\* The steps of the test's processes: they fork and end.
LEMMA InvariantTest ==
  ASSUME CommandInductive, Test
  PROVE  CommandInductive'
<1>0. /\ TypeOK /\ Progress /\ Watched /\ Closed /\ Explained
      /\ NoLeftovers /\ BufferQuiet /\ CompleteOutput
  BY DEF CommandInductive
<1>1. UNCHANGED <<done, goVars>>
  BY DEF Test, Fork, KidEnds, LeaderEnds
<1> USE <1>1 DEF goVars
<1>2. Watched' /\ Closed' /\ BufferQuiet' /\ CompleteOutput'
  BY <1>0 DEF Watched, Closed, BufferQuiet, CompleteOutput
<1>3. ASSUME NEW k \in Kids, NEW own \in BOOLEAN, NEW pipe \in BOOLEAN, Fork(k, own, pipe)
      PROVE  TypeOK' /\ Progress' /\ Explained' /\ NoLeftovers'
  <2>1. TypeOK'
    BY <1>0, <1>3 DEF Fork, TypeOK
  <2>2. leader # "none"
    BY <1>0, <1>3, NobodyForks DEF Progress
  <2>3. Progress' /\ Explained'
    BY <1>0, <1>3, <2>2 DEF Fork, Progress, Over, Explained, Told
  <2>4. NoLeftovers'
    BY <1>0, <1>3, GroupStaysEmpty DEF Fork, NoLeftovers
  <2> QED
    BY <2>1, <2>3, <2>4
<1>4. ASSUME NEW k \in Kids, KidEnds(k)
      PROVE  TypeOK' /\ Progress' /\ Explained' /\ NoLeftovers'
  <2>1. Alive' \subseteq Alive /\ UNCHANGED <<leader, code, escaped>>
    BY <1>0, <1>4 DEF KidEnds, Alive, TypeOK
  <2>2. TypeOK'
    BY <1>0, <1>4 DEF KidEnds, TypeOK
  <2>3. Progress' /\ Explained' /\ NoLeftovers'
    BY <1>0, <2>1 DEF Progress, Over, Explained, Told, NoLeftovers, Group
  <2> QED
    BY <2>2, <2>3
<1>5. ASSUME NEW how \in {"pass", "fail", "external"}, LeaderEnds(how)
      PROVE  TypeOK' /\ Progress' /\ Explained' /\ NoLeftovers'
  <2>1. caller = "wait"
    BY <1>0, <1>5 DEF LeaderEnds, TypeOK, Progress, Waited, Over
  <2>2. TypeOK'
    BY <1>0, <1>5 DEF LeaderEnds, TypeOK
  <2>3. Progress' /\ Explained' /\ NoLeftovers'
    BY <1>0, <1>5, <2>1 DEF LeaderEnds, Progress, Waited, Over, Explained, NoLeftovers
  <2> QED
    BY <2>2, <2>3
<1> QED
  BY <1>2, <1>3, <1>4, <1>5 DEF Test, CommandInductive

\* The steps of watchCtx, which kills the group when the context is done.
LEMMA InvariantWatch ==
  ASSUME CommandInductive, Watch
  PROVE  CommandInductive'
<1>0. /\ TypeOK /\ Progress /\ Watched /\ Closed /\ Explained
      /\ NoLeftovers /\ BufferQuiet /\ CompleteOutput
  BY DEF CommandInductive
<1>1. caller \in {"wait", "watch"} /\ UNCHANGED <<caller, done, err, copier>> /\ done
  BY <1>0 DEF Watch, WatchCancel, WatchDelayOver, WatchDrained, procVars, Watched
<1>2. NoLeftovers' /\ BufferQuiet' /\ CompleteOutput' /\ Closed'
  BY <1>1 DEF NoLeftovers, BufferQuiet, CompleteOutput, Closed
<1>3. CASE WatchCancel /\ GroupExists
  <2>1. KillGroup
    BY <1>3 DEF WatchCancel
  <2>2. TypeOK' /\ Watched'
    BY <1>0, <1>1, <1>3, <2>1, KillGroupEnds DEF WatchCancel, TypeOK, Watched
  <2>3. Progress' /\ Explained'
    BY <1>0, <1>1, <1>3, <2>1, KillGroupEnds DEF WatchCancel, Progress, Waited, Over,
       Explained, Told
  <2> QED
    BY <1>2, <2>2, <2>3 DEF CommandInductive
<1>4. CASE (WatchCancel /\ ~GroupExists) \/ WatchDrained
  <2>1. UNCHANGED <<procVars, watchErr, closed>>
    BY <1>4 DEF WatchCancel, WatchDrained
  <2>2. TypeOK' /\ Watched'
    BY <1>0, <1>1, <1>4, <2>1 DEF WatchCancel, WatchDrained, procVars, TypeOK, Watched
  <2>3. Progress' /\ Explained'
    BY <1>0, <1>1, <2>1 DEF procVars, Progress, Alive, Over, Explained, Told
  <2> QED
    BY <1>2, <2>2, <2>3 DEF CommandInductive
<1>5. CASE WatchDelayOver
  <2>1. TypeOK' /\ Watched'
    <3>1. /\ timer' = "off" /\ watch' \in {"result", "drain"}
          /\ closed' \in BOOLEAN /\ watchErr' \in {"nil", "ctx", "waitdelay"}
      BY <1>0, <1>5 DEF WatchDelayOver, TypeOK
    <3>2. /\ leader' \in {leader, "zombie"} /\ code' \in {code, "stopped"}
          /\ UNCHANGED <<kid, escaped, holding>>
      BY <1>5 DEF WatchDelayOver
    <3>3. TypeOK'
      BY <1>0, <1>1, <3>1, <3>2 DEF TypeOK
    <3> QED
      BY <1>1, <3>3 DEF Watched
  <2>2. Progress' /\ Explained'
    BY <1>0, <1>1, <1>5 DEF WatchDelayOver, Progress, Waited, Over, Alive, Explained, Told
  <2> QED
    BY <1>2, <2>1, <2>2 DEF CommandInductive
<1> QED
  BY <1>3, <1>4, <1>5 DEF Watch

\* The steps of cmd.Start, cmd.Wait and of the way to the end of CombinedOutput.
LEMMA InvariantCaller ==
  ASSUME CommandInductive, Caller
  PROVE  CommandInductive'
<1>0. /\ TypeOK /\ Progress /\ Watched /\ Closed /\ Explained
      /\ NoLeftovers /\ BufferQuiet /\ CompleteOutput
  BY DEF CommandInductive
<1>1. CASE StartRefused \/ StartBroken
  <2> USE <1>1 DEF StartRefused, StartBroken
  <2>1. TypeOK'
    BY <1>0 DEF TypeOK
  <2>2. Progress' /\ Watched'
    BY <1>0 DEF Progress, Watched, Waited, Over, Alive
  <2>3. NoLeftovers'
    BY <1>0 DEF Progress, NoLeftovers, Group, Alive
  <2>4. Closed' /\ Explained' /\ BufferQuiet' /\ CompleteOutput'
    BY <1>0 DEF Progress, Closed, Explained, BufferQuiet, CompleteOutput
  <2> QED
    BY <2>1, <2>2, <2>3, <2>4 DEF CommandInductive
<1>2. CASE Start
  <2> USE <1>2 DEF Start
  <2>1. TypeOK'
    BY <1>0 DEF TypeOK
  <2>2. Progress' /\ Watched'
    BY <1>0 DEF Progress, Watched, Waited, Over
  <2>3. NoLeftovers' /\ Closed' /\ Explained' /\ BufferQuiet' /\ CompleteOutput'
    BY <1>0 DEF Progress, NoLeftovers, Closed, Explained, BufferQuiet, CompleteOutput
  <2> QED
    BY <2>1, <2>2, <2>3 DEF CommandInductive
<1>3. CASE Wait
  <2> USE <1>3 DEF Wait
  <2>1. code \in {"pass", "fail", "external", "stopped"} /\ (code = "stopped" => done)
    BY <1>0 DEF Explained
  <2>2. TypeOK'
    BY <1>0, <2>1 DEF TypeOK, ExitError
  <2>3. Progress' /\ Watched'
    BY <1>0 DEF Progress, Watched, Waited, Over
  <2>4. Explained'
    BY <2>1 DEF Explained, Told, ExitError
  <2>5. NoLeftovers' /\ Closed' /\ BufferQuiet' /\ CompleteOutput'
    BY <1>0 DEF NoLeftovers, Closed, BufferQuiet, CompleteOutput
  <2> QED
    BY <2>2, <2>3, <2>4, <2>5 DEF CommandInductive
<1>4. CASE HandOver
  <2> USE <1>4 DEF HandOver, procVars
  <2>1. TypeOK'
    BY <1>0 DEF TypeOK
  <2>2. Progress' /\ Watched'
    BY <1>0 DEF Progress, Watched, Waited, Over, Alive
  <2>3. watchErr # "nil" => watchErr \in {"ctx", "waitdelay"} /\ done
    BY <1>0 DEF TypeOK, Watched
  <2>4. Explained'
    BY <1>0, <2>3 DEF Progress, Waited, Explained, Told
  <2>5. NoLeftovers' /\ Closed' /\ BufferQuiet' /\ CompleteOutput'
    BY <1>0 DEF NoLeftovers, Closed, BufferQuiet, CompleteOutput
  <2> QED
    BY <2>1, <2>2, <2>4, <2>5 DEF CommandInductive
<1>5. CASE AwaitCopier \/ AwaitArm \/ AwaitDelayOver
  <2> USE <1>5 DEF AwaitCopier, AwaitArm, AwaitDelayOver, procVars
  <2>1. TypeOK'
    BY <1>0 DEF TypeOK
  <2>2. Progress' /\ Watched'
    BY <1>0 DEF Progress, Watched, Waited, Over, Alive
  <2>3. Explained' /\ NoLeftovers' /\ BufferQuiet'
    BY <1>0 DEF Explained, Told, NoLeftovers, BufferQuiet
  <2>4. Closed' /\ CompleteOutput'
    BY <1>0 DEF Closed, CompleteOutput
  <2> QED
    BY <2>1, <2>2, <2>3, <2>4 DEF CommandInductive
<1>6. CASE AwaitDrained
  <2> USE <1>6 DEF AwaitDrained, procVars
  <2>1. TypeOK'
    BY <1>0 DEF TypeOK
  <2>2. Progress' /\ Watched'
    BY <1>0 DEF Progress, Watched, Waited, Over, Alive
  <2>3. Explained' /\ NoLeftovers' /\ BufferQuiet'
    BY <1>0 DEF Progress, Waited, Explained, Told, NoLeftovers, BufferQuiet
  <2>4. Closed' /\ CompleteOutput'
    BY <1>0 DEF Closed, CompleteOutput
  <2> QED
    BY <2>1, <2>2, <2>3, <2>4 DEF CommandInductive
<1>7. CASE Reap
  <2>1. leader = "reaped" /\ KillGroup
    BY <1>0, <1>7 DEF Reap, Progress, Waited
  <2>2. /\ kid' \in [Kids -> {"unborn", "alive", "dead"}] /\ Group' = {}
        /\ UNCHANGED <<leader, code, escaped, holding>>
    BY <1>0, <2>1, KillGroupEnds
  <2> USE <1>7 DEF Reap
  <2>3. TypeOK'
    BY <1>0, <2>2 DEF TypeOK
  <2>4. Progress' /\ Watched'
    BY <1>0, <2>1, <2>2 DEF Progress, Watched, Waited, Over
  <2>5. Explained' /\ NoLeftovers' /\ BufferQuiet'
    BY <1>0, <2>1, <2>2 DEF Explained, Told, NoLeftovers, BufferQuiet
  <2>6. Closed' /\ CompleteOutput'
    BY <1>0 DEF Closed, CompleteOutput
  <2> QED
    BY <2>3, <2>4, <2>5, <2>6 DEF CommandInductive
<1> QED
  BY <1>1, <1>2, <1>3, <1>4, <1>5, <1>6, <1>7 DEF Caller

\* The context ends, the copier ends, the timer fires.
LEMMA InvariantRest ==
  ASSUME CommandInductive, ContextEnds \/ Copy \/ TimerFires \/ UNCHANGED vars
  PROVE  CommandInductive'
<1>0. /\ TypeOK /\ Progress /\ Watched /\ Closed /\ Explained
      /\ NoLeftovers /\ BufferQuiet /\ CompleteOutput
  BY DEF CommandInductive
<1>1. /\ UNCHANGED <<procVars, caller, watch, closed, watchErr, err>>
      /\ done => done'
      /\ copier' \in {copier, "ended"} /\ (copier = "off" => copier' = "off")
  BY DEF ContextEnds, Copy, TimerFires, vars, goVars
<1> USE <1>1 DEF procVars
<1>2. TypeOK'
  <2>1. done' \in BOOLEAN /\ closed' \in BOOLEAN
    BY <1>0 DEF ContextEnds, Copy, TimerFires, vars, TypeOK
  <2>2. timer' \in {"off", "running", "fired"}
    BY <1>0 DEF ContextEnds, Copy, TimerFires, vars, goVars, TypeOK
  <2>3. copier' \in {"off", "copying", "ended"}
    BY <1>0 DEF TypeOK
  <2> QED
    BY <1>0, <2>1, <2>2, <2>3 DEF TypeOK
<1>3. Progress' /\ Watched'
  BY <1>0 DEF Progress, Watched, Alive, Over
<1>4. Closed' /\ Explained'
  BY <1>0 DEF Closed, Explained, Told
<1>5. NoLeftovers' /\ BufferQuiet' /\ CompleteOutput'
  BY <1>0 DEF NoLeftovers, Group, Alive, BufferQuiet, CompleteOutput
<1> QED
  BY <1>2, <1>3, <1>4, <1>5 DEF CommandInductive

-----------------------------------------------------------------------------
(***************************************************************************)
(* The theorems.                                                           *)
(***************************************************************************)
\* Caller, watchCtx and processes fit together in every reachable state.
THEOREM CommandInvariant == Spec => []CommandInductive
<1>1. CommandInductive /\ [Next]_vars => CommandInductive'
  BY InvariantTest, InvariantWatch, InvariantCaller, InvariantRest DEF Next, Returned
<1> QED
  BY <1>1, CommandInit, PTL DEF Spec

\* Every variable of the call keeps its type: no error but the ones named is sent
\* or returned.
THEOREM TypeCorrect == Spec => []TypeOK
<1>1. CommandInductive => TypeOK
  BY DEF CommandInductive
<1> QED
  BY <1>1, CommandInvariant, PTL

\* When CombinedOutput returns nobody of the process group is left, for any number
\* of descendants.
THEOREM NobodyIsLeft == Spec => []NoLeftovers
<1>1. CommandInductive => NoLeftovers
  BY DEF CommandInductive
<1> QED
  BY <1>1, CommandInvariant, PTL

\* The tail buffer has no writer when CombinedOutput reads it.
THEOREM BufferIsQuiet == Spec => []BufferQuiet
<1>1. CommandInductive => BufferQuiet
  BY DEF CommandInductive
<1> QED
  BY <1>1, CommandInvariant, PTL

\* Output that was cut off is an error, unless the context ended.
THEOREM OutputIsComplete == Spec => []CompleteOutput
<1>1. CommandInductive => CompleteOutput
  BY DEF CommandInductive
<1> QED
  BY <1>1, CommandInvariant, PTL

-----------------------------------------------------------------------------
(***************************************************************************)
(* The refinement.                                                         *)
(***************************************************************************)
\* A call that has not begun is ready to run.
LEMMA RefinesInit == Init => Seen!Init
BY DEF Init, Seen!Init, Over

\* A call of CombinedOutput that returns shows its caller one of the endings and
\* errors of TestRun.
LEMMA RefinesReturn ==
  ASSUME CommandInductive, StartRefused \/ StartBroken \/ Reap
  PROVE  Seen!Finish
<1>0. TypeOK /\ Progress /\ Explained
  BY DEF CommandInductive
<1>1. CASE StartRefused
  BY <1>0, <1>1 DEF StartRefused, Seen!Finish, Seen!Possible, Over, Ending, Error
<1>2. CASE StartBroken
  BY <1>0, <1>2 DEF StartBroken, Seen!Finish, Seen!Possible, Over, Ending, Error
<1>3. CASE Reap
  <2>1. leader = "reaped" /\ UNCHANGED <<code, err, done>>
        /\ caller = "reap" /\ caller' = "returned"
    BY <1>0, <1>3, KillGroupEnds DEF Reap, Progress, Waited
  <2>2. Told(code, err)
    BY <1>0, <2>1 DEF Explained
  <2>3. Seen!Possible(Ending', Error', done)
    BY <2>1, <2>2 DEF Told, Seen!Possible, Ending, Error
  <2>4. Ending' \notin {"refused", "broken"}
    BY <2>1, <2>2 DEF Told, Ending
  <2> QED
    BY <2>1, <2>3, <2>4 DEF Seen!Finish, Over
<1> QED
  BY <1>1, <1>2, <1>3

\* Every step of the call is a step of TestRun or changes nothing its caller sees.
LEMMA RefinesNext ==
  ASSUME CommandInductive, [Next]_vars
  PROVE  [Seen!Next]_Seen!vars
<1>0. TypeOK /\ Progress /\ Watched
  BY DEF CommandInductive
<1> USE DEF Seen!vars, Over, Ending, Error
<1>1. CASE StartRefused \/ StartBroken \/ Reap
  BY <1>1, RefinesReturn DEF Seen!Next
<1>2. CASE Start
  BY <1>2 DEF Start, Seen!Next, Seen!Begin
<1>3. CASE ContextEnds
  BY <1>3 DEF ContextEnds, procVars, goVars, Seen!Next, Seen!ContextEnds
<1>4. CASE Wait \/ HandOver \/ AwaitCopier \/ AwaitArm \/ AwaitDelayOver \/ AwaitDrained
  BY <1>4 DEF Wait, HandOver, AwaitCopier, AwaitArm, AwaitDelayOver, AwaitDrained
<1>5. CASE Copy \/ TimerFires \/ UNCHANGED vars
  BY <1>5 DEF Copy, TimerFires, procVars, goVars, vars
<1>6. CASE Test
  <2>1. UNCHANGED <<caller, err, done>> /\ (caller = "returned" => UNCHANGED code)
    BY <1>0, <1>6 DEF Test, Fork, KidEnds, LeaderEnds, goVars, Progress
  <2> QED
    BY <2>1
<1>7. CASE Watch
  <2>1. UNCHANGED <<caller, done>> /\ caller \in {"wait", "watch"}
    BY <1>0, <1>7 DEF Watch, WatchCancel, WatchDelayOver, WatchDrained, Watched
  <2> QED
    BY <2>1
<1> QED
  BY <1>1, <1>2, <1>3, <1>4, <1>5, <1>6, <1>7 DEF Next, Caller, Returned

\* A call of CombinedOutput is, for its callers, a TestRun: its error tells how the
\* command ended.  That the call returns is a matter of fairness.
THEOREM ImplementsTestRun == Spec => Seen!Safety
<1>1. CommandInductive /\ [Next]_vars => [Seen!Next]_Seen!vars
  BY RefinesNext
<1> QED
  BY <1>1, RefinesInit, CommandInvariant, PTL DEF Spec, Seen!Safety
=============================================================================
