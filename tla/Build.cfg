\* Two packages with tests and one without, two builds at a time; builds may
\* hang.
CONSTANTS
  p0 = p0
  p1 = p1
  p2 = p2
  Pkgs <- ThreePkgs
  NoTestFiles <- Untested
  Slots = 2
SPECIFICATION FairSpec
INVARIANTS
  BuildInductive
  BuildContract
  BuildQuiet
PROPERTY FailureEndsBuild
