------------------------------ MODULE Campaign ------------------------------
(***************************************************************************)
(* What a caller of runner.RunInstrumented is promised, without goroutines,*)
(* slots, semaphores or contexts: every mutant is announced exactly once,  *)
(* the verdict announced agrees with how its test run ended, and the call  *)
(* returns only when every mutant has been announced.                      *)
(***************************************************************************)
CONSTANTS
  Mutants,
  ExitedOnKill  \* a killed process reports an exit code (Windows)

VARIABLES
  evidence,     \* how the test run of a mutant ended, "none" until it has
  outcome,      \* the verdict announced for a mutant, or "pending"
  interrupted,  \* the caller's context has been canceled
  returned      \* the call has returned its summary

vars == <<evidence, outcome, interrupted, returned>>

(***************************************************************************)
(* Endings of a test run.  "stopped" is a process mutest itself killed or  *)
(* that ran into the in-binary backstop after the deadline; "refused" one  *)
(* that was never started because its context was already done; "broken"   *)
(* one that could not be started; "held" one that passed but whose output  *)
(* stayed open; "external" one killed by somebody else's signal; "skipped" *)
(* stands for a package without tests.                                     *)
(***************************************************************************)
Endings == {"pass", "fail", "external", "held", "stopped", "refused",
            "broken", "skipped"}
Verdicts == {"killed", "survived", "timedout", "error", "canceled"}

\* The verdicts a run that ended in a given way justifies.
Justifies(ending, verdict) ==
  CASE verdict = "killed"   -> \/ ending = "fail"
                               \/ ending = "external" /\ ExitedOnKill
    [] verdict = "survived" -> ending \in {"pass", "skipped"}
    [] verdict = "error"    -> ending \in {"external", "broken", "held"}
    [] verdict = "timedout" -> ending \notin {"none", "skipped"}
    [] OTHER                -> TRUE

-----------------------------------------------------------------------------
Init ==
  /\ evidence = [m \in Mutants |-> "none"]
  /\ outcome = [m \in Mutants |-> "pending"]
  /\ interrupted \in BOOLEAN
  /\ returned = FALSE

Interrupt ==
  /\ interrupted' = TRUE
  /\ UNCHANGED <<evidence, outcome, returned>>

RunTests(m, ending) ==
  /\ evidence[m] = "none"
  /\ outcome[m] = "pending"
  /\ evidence' = [evidence EXCEPT ![m] = ending]
  /\ UNCHANGED <<outcome, interrupted, returned>>

Announce(m, verdict) ==
  /\ outcome[m] = "pending"
  /\ Justifies(evidence[m], verdict)
  /\ verdict = "canceled" => interrupted
  /\ outcome' = [outcome EXCEPT ![m] = verdict]
  /\ UNCHANGED <<evidence, interrupted, returned>>

Return ==
  /\ \A m \in Mutants : outcome[m] # "pending"
  /\ returned' = TRUE
  /\ UNCHANGED <<evidence, outcome, interrupted>>

Next ==
  \/ Interrupt
  \/ \E m \in Mutants, ending \in Endings : RunTests(m, ending)
  \/ \E m \in Mutants, verdict \in Verdicts : Announce(m, verdict)
  \/ Return

Spec == Init /\ [][Next]_vars
=============================================================================
