\* A test that may fork two descendants, which may escape or hold the pipe.
CONSTANTS
  k1 = k1
  k2 = k2
  Kids <- TwoKids
SPECIFICATION FairSpec
INVARIANTS
  CommandInductive
  NoLeftovers
  BufferQuiet
  CompleteOutput
PROPERTIES
  AsSeenByCallers
  LeaderEndedReturns
