\* Rates in whole percent, which can be equal to the threshold.
CONSTANT
  Totals = {20, 50, 100}
SPECIFICATION Spec
INVARIANT GateMeetsExact
CHECK_DEADLOCK FALSE
