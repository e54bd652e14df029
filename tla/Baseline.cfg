\* Three packages with tests and one without, two test runs at a time; tests may
\* hang.
CONSTANTS
  p0 = p0
  p1 = p1
  p2 = p2
  p3 = p3
  Pkgs <- FourPkgs
  NoTests <- Untested
  Slots = 2
SPECIFICATION FairSpec
INVARIANTS
  BaselineInductive
  BaselineContract
  BaselineQuiet
PROPERTY BaselineEnds
