------------------------------ MODULE KillRate ------------------------------
(***************************************************************************)
(* CalcKillRate (output.go) and evaluateSummary (run.go): what a finished  *)
(* campaign means for the exit code.  A summary s has the numbers of       *)
(*   s.total, s.detected (killed or timed out), s.survived, s.errors and   *)
(*   s.canceled mutants; a threshold is a whole number of percent.         *)
(***************************************************************************)
EXTENDS Integers

\* 2^k % 100, for every k.
PowerOfTwoMod100[k \in Nat] ==
  IF k = 0 THEN 1 ELSE (2 * PowerOfTwoMod100[k - 1]) % 100

(***************************************************************************)
(* float64(detected) / float64(testable) * 100 when the quotient is        *)
(* exactly threshold/100: is the product below threshold?  The quotient    *)
(* lies in [2^-e, 2^(1-e)), so it is rounded to a multiple of 2^-s with    *)
(* s = 52 + e, away from threshold/100 by r/100 of that, and the product is*)
(* r multiples too small.  Rounding the product brings them back if they   *)
(* are at most half of the spacing of the numbers below threshold, which is*)
(* 2^(j-52) with 2^j <= threshold, or half of that if they are equal; a tie*)
(* goes to the threshold, whose last bit is 0.                             *)
(***************************************************************************)
RoundsBelow(threshold) ==
  LET e == CHOOSE x \in 0..7 : /\ threshold * 2^x >= 100
                               /\ x > 0 => threshold * 2^(x - 1) < 100
      j == CHOOSE x \in 0..6 : 2^x <= threshold /\ threshold < 2^(x + 1)
      rest == (threshold * PowerOfTwoMod100[52 + e]) % 100
      r == IF rest > 50 THEN rest - 100 ELSE rest
  IN 2 * r > (IF threshold = 2^j THEN 2^(j + e - 1) ELSE 2^(j + e))

Testable(s) == s.total - s.errors - s.canceled

\* CalcKillRate(summary) < threshold.  A quotient that is not exactly
\* threshold/100 differs from it by far more than a rounding error.
CalcKillRateBelow(s, threshold) ==
  \/ Testable(s) = 0
  \/ 100 * s.detected < threshold * Testable(s)
  \/ 100 * s.detected = threshold * Testable(s) /\ RoundsBelow(threshold)

\* Mutation: with a threshold, errors are only left out of the rate.
EvaluateSummaryByRate(s, threshold) ==
  IF s.canceled > 0 THEN {"interrupted"}
  ELSE IF threshold > 0
       THEN IF CalcKillRateBelow(s, threshold) THEN {"testsFailed"} ELSE {}
       ELSE IF s.survived + s.errors > 0 THEN {"testsFailed"} ELSE {}

EvaluateSummary(s, threshold) ==
  IF s.canceled > 0 THEN {"interrupted"}
  ELSE IF threshold > 0
       THEN IF s.errors > 0 \/ CalcKillRateBelow(s, threshold)
            THEN {"testsFailed"} ELSE {}
       ELSE IF s.survived + s.errors > 0 THEN {"testsFailed"} ELSE {}
=============================================================================
