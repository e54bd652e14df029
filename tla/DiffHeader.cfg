\* A changed line whose text begins with "++ ".
CONSTANTS
  Projects <- PlusDiffs
  Edited <- OneMore
  Envs <- Values
SPECIFICATION Spec
INVARIANT DiffExact
