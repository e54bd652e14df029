-------------------------------- MODULE Gate --------------------------------
(***************************************************************************)
(* The quality gate on its own: evaluateSummary for every outcome of a     *)
(* campaign of up to hundred mutants and every threshold.                  *)
(***************************************************************************)
EXTENDS KillRate

CONSTANT Totals   \* the numbers of mutants tried, at most 100

VARIABLES summary, threshold, verdict
vars == <<summary, threshold, verdict>>

Init ==
  /\ \E total \in Totals : \E detected \in 0..total :
       \E errors \in {0, 1} \cap (0..total - detected) :
         summary = [total |-> total, detected |-> detected, errors |-> errors,
                    canceled |-> 0, survived |-> total - detected - errors]
  /\ threshold \in 0..100
  /\ verdict = {"none"}

Judge ==
  /\ verdict = {"none"}
  /\ verdict' = EvaluateSummary(summary, threshold)
  /\ UNCHANGED <<summary, threshold>>

Spec == Init /\ [][Judge]_vars

Meets == 100 * summary.detected >= threshold * Testable(summary)

\* README.md:370: "Thresholds use the unrounded kill rate", and README.md:180:
\* exit 0 if the kill rate meets -threshold.  With all mutants tested and the rate
\* they give at the threshold or above, the gate is passed.
GateMeetsExact ==
  verdict # {"none"} /\ summary.errors = 0 /\ threshold > 0 /\ Meets
    => verdict = {}
=============================================================================
