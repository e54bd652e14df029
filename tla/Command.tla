------------------------------ MODULE Command ------------------------------
(***************************************************************************)
(* process.CombinedOutput on Unix: one child process (the leader of its    *)
(* own process group), the descendants it leaves behind, and the three     *)
(* goroutines that deal with them: the caller in cmd.Run, the copier of    *)
(* the output pipe and os/exec's watchCtx, which calls cmd.Cancel.         *)
(*                                                                         *)
(* The context may end at any time, and WaitDelay may pass whenever        *)
(* TimerFires allows; what is printed is left out, except that the pipe    *)
(* has writers.                                                            *)
(***************************************************************************)
EXTENDS FiniteSets

CONSTANT Kids   \* the descendants a test may fork

VARIABLES
  done,      \* the command's context is done
  caller,    \* where CombinedOutput is
  watch,     \* where watchCtx is
  timer,     \* the WaitDelay timer: "off", "running" or "fired"
  copier,    \* the goroutine that copies the pipe: "off", "copying", "ended"
  closed,    \* our end of the pipe has been closed
  leader,    \* "none", "running", "zombie" or "reaped"
  code,      \* history: how the leader ended
  kid,       \* state of each descendant: "unborn", "alive" or "dead"
  escaped,   \* the descendants that left the process group
  holding,   \* the descendants that have the write end of the pipe
  watchErr,  \* the error watchCtx sends
  err        \* the error of cmd.Run

procVars == <<leader, code, kid, escaped, holding>>
goVars == <<caller, watch, timer, copier, closed, watchErr, err>>
vars == <<done, procVars, goVars>>

Alive == {k \in Kids : kid[k] = "alive"}
Group == Alive \ escaped
Writers == Alive \cap holding
PipeOpen == leader = "running" \/ Writers # {}
GroupExists == leader \in {"running", "zombie"} \/ Group # {}

Init ==
  /\ done \in BOOLEAN
  /\ caller = "start" /\ watch = "off" /\ timer = "off"
  /\ copier = "off" /\ closed = FALSE
  /\ leader = "none" /\ code = "none"
  /\ kid = [k \in Kids |-> "unborn"]
  /\ escaped = {} /\ holding = {}
  /\ watchErr = "nil" /\ err = "nil"

-----------------------------------------------------------------------------
(***************************************************************************)
(* The context, and the processes of the test.                             *)
(***************************************************************************)
ContextEnds == ~done /\ done' = TRUE /\ UNCHANGED <<procVars, goVars>>

\* A process forks a descendant, in its group or a new one, with or without
\* the output pipe; nobody enters the leader's group from outside.
MayFork(own, pipe) ==
  \/ leader = "running"
  \/ \E j \in Alive : (j \in escaped => own) /\ (pipe => j \in holding)

Fork(k, own, pipe) ==
  /\ kid[k] = "unborn"
  /\ MayFork(own, pipe)
  /\ kid' = [kid EXCEPT ![k] = "alive"]
  /\ escaped' = IF own THEN escaped \cup {k} ELSE escaped
  /\ holding' = IF pipe THEN holding \cup {k} ELSE holding
  /\ UNCHANGED <<done, leader, code, goVars>>

KidEnds(k) ==
  /\ kid[k] = "alive"
  /\ kid' = [kid EXCEPT ![k] = "dead"]
  /\ UNCHANGED <<done, leader, code, escaped, holding, goVars>>

LeaderEnds(how) ==
  /\ leader = "running"
  /\ leader' = "zombie" /\ code' = how
  /\ UNCHANGED <<done, kid, escaped, holding, goVars>>

\* kill(-pid, SIGKILL): the leader and whoever is still in its group.  They are
\* dead at once: nobody can block SIGKILL, and a process it was sent to takes no
\* step of its own any more.
KillGroup ==
  /\ kid' = [k \in Kids |-> IF k \in Group THEN "dead" ELSE kid[k]]
  /\ IF leader = "running"
       THEN leader' = "zombie" /\ code' = "stopped"
       ELSE UNCHANGED <<leader, code>>
  /\ UNCHANGED <<escaped, holding>>

-----------------------------------------------------------------------------
(***************************************************************************)
(* cmd.Start.                                                              *)
(***************************************************************************)
StartRefused ==
  /\ caller = "start" /\ done
  /\ caller' = "returned" /\ code' = "refused" /\ err' = "ctx"
  /\ UNCHANGED <<done, leader, kid, escaped, holding,
                 watch, timer, copier, closed, watchErr>>

StartBroken ==
  /\ caller = "start" /\ ~done
  /\ caller' = "returned" /\ code' = "broken" /\ err' = "fork"
  /\ UNCHANGED <<done, leader, kid, escaped, holding,
                 watch, timer, copier, closed, watchErr>>

Start ==
  /\ caller = "start" /\ ~done
  /\ leader' = "running" /\ copier' = "copying" /\ watch' = "waiting"
  /\ caller' = "wait"
  /\ UNCHANGED <<done, code, kid, escaped, holding,
                 timer, closed, watchErr, err>>

-----------------------------------------------------------------------------
(***************************************************************************)
(* The copier reads until the last writer is gone or our end is closed.    *)
(***************************************************************************)
Copy ==
  /\ copier = "copying"
  /\ ~PipeOpen \/ closed
  /\ copier' = "ended"
  /\ UNCHANGED <<done, procVars, caller, watch, timer, closed, watchErr, err>>

\* Once the context has ended the timer may run out at any time, for processes
\* that were killed may take longer to go than they do here.  Before, it was armed
\* by the caller, and lets the copier and the caller go on when the pipe has no
\* writer: they would lose that race only if they did not run for a whole
\* WaitDelay.  (A timer that runs out when the last writer has just gone is one
\* that fires just before.)
TimerFires ==
  /\ timer = "running"
  /\ done \/ PipeOpen
  /\ timer' = "fired"
  /\ UNCHANGED <<done, procVars, caller, watch, copier, closed, watchErr, err>>

(***************************************************************************)
(* watchCtx.  It hands its result to the caller when the caller is at      *)
(* "watch"; before that only the context's end wakes it up.                *)
(***************************************************************************)

WatchCancel ==
  /\ watch = "waiting" /\ done
  /\ IF GroupExists
       THEN KillGroup /\ watchErr' = "ctx"
       ELSE UNCHANGED <<procVars, watchErr>>       \* ErrProcessDone
  /\ watch' = "delay" /\ timer' = "running"
  /\ UNCHANGED <<done, caller, copier, closed, err>>

\* Process.Kill fails for a leader that has been waited for; then, and if Cancel
\* found no process either, output that is cut off is the error.
WatchDelayOver ==
  /\ watch = "delay" /\ timer = "fired"
  /\ timer' = "off"
  /\ IF leader = "running"
       THEN leader' = "zombie" /\ code' = "stopped"
       ELSE UNCHANGED <<leader, code>>
  /\ IF copier = "ended"
       THEN watch' = "result" /\ UNCHANGED <<closed, watchErr>>
       ELSE /\ watch' = "drain" /\ closed' = TRUE
            /\ watchErr' = IF leader = "reaped" /\ watchErr = "nil"
                           THEN "waitdelay" ELSE watchErr
  /\ UNCHANGED <<done, kid, escaped, holding, caller, copier, err>>

WatchDrained ==
  /\ watch = "drain" /\ copier = "ended"
  /\ watch' = "result"
  /\ UNCHANGED <<done, procVars, caller, timer, copier, closed, watchErr, err>>

\* Mutation: the error of watchCtx replaces that of the process.
HandOverReplacing ==
  /\ caller = "watch" /\ watch \in {"waiting", "delay", "result"}
  /\ watch' = "off" /\ caller' = "await"
  /\ err' = IF watchErr # "nil" THEN watchErr ELSE err
  /\ UNCHANGED <<done, procVars, timer, copier, closed, watchErr>>

HandOver ==
  /\ caller = "watch" /\ watch \in {"waiting", "delay", "result"}
  /\ watch' = "off" /\ caller' = "await"
  /\ err' = IF err = "nil" THEN watchErr ELSE err
  /\ UNCHANGED <<done, procVars, timer, copier, closed, watchErr>>

-----------------------------------------------------------------------------
(***************************************************************************)
(* cmd.Wait, and the last lines of CombinedOutput.                         *)
(***************************************************************************)
ExitError == CASE code = "pass" -> "nil"
               [] code = "fail" -> "exit"
               [] OTHER -> "signal"

Wait ==
  /\ caller = "wait" /\ leader = "zombie"
  /\ leader' = "reaped"
  /\ err' = ExitError
  /\ caller' = "watch"
  /\ UNCHANGED <<done, code, kid, escaped, holding,
                 watch, timer, copier, closed, watchErr>>

AwaitCopier ==
  /\ caller = "await" /\ copier = "ended"
  /\ caller' = "reap" /\ timer' = "off"
  /\ UNCHANGED <<done, procVars, watch, copier, closed, watchErr, err>>

\* Mutation: no WaitDelay.
AwaitForEver == FALSE /\ UNCHANGED vars

AwaitArm ==
  /\ caller = "await" /\ copier = "copying" /\ timer = "off"
  /\ timer' = "running"
  /\ UNCHANGED <<done, procVars, caller, watch, copier, closed, watchErr, err>>

\* Mutation: the copier is not waited for.
AwaitDelayAtOnce ==
  /\ caller = "await" /\ timer = "fired"
  /\ closed' = TRUE /\ timer' = "off" /\ caller' = "reap"
  /\ err' = IF err = "nil" THEN "waitdelay" ELSE err
  /\ UNCHANGED <<done, procVars, watch, copier, watchErr>>

AwaitDelayOver ==
  /\ caller = "await" /\ timer = "fired"
  /\ closed' = TRUE /\ timer' = "off" /\ caller' = "drain"
  /\ UNCHANGED <<done, procVars, watch, copier, watchErr, err>>

\* Mutation: output that was cut off is no error.
AwaitDrainedSilently ==
  /\ caller = "drain" /\ copier = "ended"
  /\ caller' = "reap"
  /\ UNCHANGED <<done, procVars, watch, timer, copier, closed, watchErr, err>>

AwaitDrained ==
  /\ caller = "drain" /\ copier = "ended"
  /\ err' = IF err = "nil" THEN "waitdelay" ELSE err
  /\ caller' = "reap"
  /\ UNCHANGED <<done, procVars, watch, timer, copier, closed, watchErr>>

\* Mutation: descendants are reaped only when the command failed.
ReapOnError ==
  /\ caller = "reap"
  /\ IF err # "nil" THEN KillGroup ELSE UNCHANGED procVars
  /\ caller' = "returned"
  /\ UNCHANGED <<done, watch, timer, copier, closed, watchErr, err>>

\* Mutation: the error of the second cmd.Cancel replaces that of cmd.Run.
ReapForError ==
  /\ caller = "reap"
  /\ KillGroup
  /\ err' = IF GroupExists THEN "nil" ELSE "ctx"
  /\ caller' = "returned"
  /\ UNCHANGED <<done, watch, timer, copier, closed, watchErr>>

\* The second cmd.Cancel: descendants that outlived the leader.
Reap ==
  /\ caller = "reap"
  /\ KillGroup
  /\ caller' = "returned"
  /\ UNCHANGED <<done, watch, timer, copier, closed, watchErr, err>>

Returned == caller = "returned" /\ UNCHANGED vars

-----------------------------------------------------------------------------
Test ==
  \/ \E k \in Kids, own, pipe \in BOOLEAN : Fork(k, own, pipe)
  \/ \E k \in Kids : KidEnds(k)
  \/ \E how \in {"pass", "fail", "external"} : LeaderEnds(how)

Watch == WatchCancel \/ WatchDelayOver \/ WatchDrained

Caller ==
  \/ Start \/ StartRefused \/ StartBroken \/ Wait \/ HandOver
  \/ AwaitCopier \/ AwaitArm \/ AwaitDelayOver \/ AwaitDrained \/ Reap

Next == ContextEnds \/ Test \/ Copy \/ TimerFires \/ Watch \/ Caller \/ Returned

Spec == Init /\ [][Next]_vars

(***************************************************************************)
(* Our goroutines run and the timer fires; the processes of the test need  *)
(* not do anything, and the context need not end.                          *)
(***************************************************************************)
FairSpec == /\ Spec
            /\ WF_vars(Copy) /\ WF_vars(TimerFires)
            /\ WF_vars(Watch) /\ WF_vars(Caller)

-----------------------------------------------------------------------------
(***************************************************************************)
(* Properties.                                                             *)
(***************************************************************************)
TypeOK ==
  /\ done \in BOOLEAN /\ closed \in BOOLEAN
  /\ caller \in {"start", "wait", "watch", "await", "drain", "reap", "returned"}
  /\ watch \in {"off", "waiting", "delay", "drain", "result"}
  /\ timer \in {"off", "running", "fired"}
  /\ copier \in {"off", "copying", "ended"}
  /\ leader \in {"none", "running", "zombie", "reaped"}
  /\ code \in {"none", "pass", "fail", "external", "stopped", "refused", "broken"}
  /\ kid \in [Kids -> {"unborn", "alive", "dead"}]
  /\ escaped \in SUBSET Kids /\ holding \in SUBSET Kids
  /\ watchErr \in {"nil", "ctx", "waitdelay"}
  /\ err \in {"nil", "exit", "signal", "ctx", "fork", "waitdelay"}

\* When CombinedOutput returns, everybody of the test's process group has ended or
\* been sent SIGKILL, so that nobody is left to touch the fixtures the next mutant
\* of the package will use, whether the test passed, failed, hung or left children
\* behind, and whenever the context ended.
NoLeftovers == caller = "returned" => Group = {} /\ leader # "running"

\* CombinedOutput reads the tail buffer without its mutex: by then the copier,
\* the only writer, has ended, also when a descendant kept the pipe open.
BufferQuiet == caller \in {"reap", "returned"} => copier # "copying"

\* A run without an error has all of its output, unless its context ended.
CompleteOutput == caller = "returned" /\ err = "nil" => ~closed \/ done

\* The endings and errors that Runner assumes are the ones that can happen, and
\* once the context ends the call returns although the test hangs.
Ending == IF code = "pass" /\ err = "waitdelay" THEN "held" ELSE code
Error == IF err \in {"ctx", "fork", "waitdelay"} THEN "other" ELSE err
Over == caller = "returned"

Seen == INSTANCE TestRun WITH
          run <- CASE caller = "start" -> "ready"
                   [] Over -> "ended"
                   [] OTHER -> "running",
          ending <- IF Over THEN Ending ELSE "none",
          err <- IF Over THEN Error ELSE "nil"
AsSeenByCallers == Seen!Spec

\* Once the leader has ended the call returns, although a descendant keeps the
\* output pipe open for ever and the context never ends.
LeaderEndedReturns == leader = "zombie" ~> Over

\* README.md:368: exit 0 = survived, that is, no error is returned for it.  It is
\* not so for a test that leaves a child which keeps the output pipe open.
ExitZeroSurvives == Over /\ code = "pass" /\ ~done => err = "nil"

\* README.md:370: timeouts cancel the test process tree on Unix.
TreeCanceled == Over /\ done /\ code = "stopped" => Alive = {}

-----------------------------------------------------------------------------
(***************************************************************************)
(* The inductive invariant.                                                *)
(***************************************************************************)
Waited == {"watch", "await", "drain", "reap"}

\* How far the caller has come says what has become of the leader; without a
\* leader there is no process at all.
Progress ==
  /\ caller = "start" => leader = "none" /\ err = "nil" /\ ~closed
  /\ caller = "wait" => leader \in {"running", "zombie"} /\ err = "nil"
  /\ caller \in Waited => leader = "reaped"
  /\ Over => leader \in {"none", "reaped"}
  /\ leader = "none" => Alive = {} /\ copier = "off"

\* watchCtx works only while the caller has not taken its result, and beyond its
\* first wait only because the context is done.
Watched ==
  /\ watch # "off" => caller \in {"wait", "watch"}
  /\ watch \in {"delay", "drain", "result"} \/ watchErr # "nil" => done

\* The pipe is closed early by watchCtx, or by the caller, which then makes it an
\* error.
Closed ==
  closed /\ ~done => caller = "drain" \/ (caller \in {"reap", "returned"} /\ err # "nil")

\* The error that cmd.Wait found says how the leader ended; only for a leader
\* that passed may another take its place.
Told(how, error) ==
  \/ how = "pass" /\ (error \in {"nil", "waitdelay"} \/ (error = "ctx" /\ done))
  \/ how = "fail" /\ error = "exit"
  \/ how = "external" /\ error = "signal"
  \/ how = "stopped" /\ error = "signal" /\ done

Explained ==
  /\ leader = "zombie" => code \in {"pass", "fail", "external", "stopped"}
                          /\ (code = "stopped" => done)
  /\ leader = "reaped" => Told(code, err)

CommandInductive ==
  /\ TypeOK /\ Progress /\ Watched /\ Closed /\ Explained
  /\ NoLeftovers /\ BufferQuiet /\ CompleteOutput
=============================================================================
