\* One token, a package with two mutants and one with one: slots behind an
\* offset, the later mutants of a package.  Tests may hang for ever; deadlines
\* pass only where the property says so.
CONSTANTS
  NumPkgs = 2
  Size <- TwoAndOne
  NoTests = {}
  Workers = 1
  ExitedOnKill = FALSE
SPECIFICATION FairSpec
INVARIANTS
  TypeOK
  RunnerInductive
  SlotOwnership
  ConcurrencyBound
  UninterruptedIsComplete
PROPERTIES
  Termination
  InterruptEnds
