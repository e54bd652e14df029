\* Every family of projects; changed lines look like code.
CONSTANTS
  Projects <- Every
  Edited <- OneMore
  Envs <- Values
SPECIFICATION Spec
INVARIANTS
  NothingLost
  SkipAsDocumented
  DiffExact
  PointsMatch
  MutantMeaning
