\* All flags, two mutants, tests that write up to twice what is kept.
CONSTANTS
  Limit = 2
  NumPoints = 2
  MaxBytes = 4
SPECIFICATION Spec
INVARIANTS
  ReportInductive
  TailExact
  NoSilentGap
  MachineReadable
  OneStory
