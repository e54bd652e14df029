\* What the README says of timeouts, against a child in a group of its own.
CONSTANTS
  k1 = k1
  k2 = k2
  Kids <- TwoKids
SPECIFICATION Spec
INVARIANT TreeCanceled
