\* Two packages that run at the same time, one between them without tests: every
\* interleaving of two test runs, an interrupt and the deadlines.
CONSTANTS
  NumPkgs = 3
  Size <- OneOneOne
  NoTests = {2}
  Workers = 2
  ExitedOnKill = TRUE
SPECIFICATION Spec
INVARIANTS
  VerdictsSound
  QuietSweep
  StreamFaithful
PROPERTY KeepsPromise
