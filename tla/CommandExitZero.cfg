\* What the README says of exit 0, against a test that leaves a child behind.
CONSTANTS
  k1 = k1
  k2 = k2
  Kids <- TwoKids
SPECIFICATION Spec
INVARIANT ExitZeroSurvives
