\* Every path of run, and an interrupt or a failed write anywhere on it.
CONSTANTS
  m1 = m1
  m2 = m2
  m3 = m3
  NumPkgs = 2
  Mutants <- ThreeMutants
  Thresholds = {0, 66, 67, 100, 101}
SPECIFICATION Spec
INVARIANTS
  PipelineInductive
  GreenIsHonest
  WriteErrorFails
  NoTempLeft
PROPERTY InterruptedExitsOne
