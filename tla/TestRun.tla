------------------------------ MODULE TestRun ------------------------------
(***************************************************************************)
(* One call of process.CombinedOutput as its callers see it: a command     *)
(* starts or does not, and when the call returns its error tells how the   *)
(* command ended.  Runner is built on exactly these endings.               *)
(***************************************************************************)
VARIABLES
  run,     \* "ready", "running" or "ended"
  done,    \* the context of the command is done
  ending,  \* how the command ended, "none" before
  err      \* the error the call returned, "nil" before

vars == <<run, done, ending, err>>

\* The pairs of ending and error a caller can see; some need a context that
\* is done.
Possible(e, error, isDone) ==
  \/ e = "pass" /\ error = "nil"
  \/ e = "fail" /\ error = "exit"
  \/ e = "external" /\ error = "signal"
  \/ e = "held" /\ error = "other"
  \/ e = "broken" /\ error = "other"
  \/ isDone /\ e \in {"pass", "refused"} /\ error = "other"
  \/ isDone /\ e = "stopped" /\ error = "signal"

Init == run = "ready" /\ done \in BOOLEAN /\ ending = "none" /\ err = "nil"

ContextEnds == done' = TRUE /\ UNCHANGED <<run, ending, err>>

Begin == run = "ready" /\ run' = "running" /\ UNCHANGED <<done, ending, err>>

Finish ==
  /\ run' = "ended"
  /\ Possible(ending', err', done)
  /\ \/ run = "ready" /\ ending' \in {"refused", "broken"}
     \/ run = "running" /\ ending' \notin {"refused", "broken"}
  /\ UNCHANGED done

Next == ContextEnds \/ Begin \/ Finish

Safety == Init /\ [][Next]_vars
Spec == Safety /\ WF_vars(done /\ Finish)
=============================================================================
