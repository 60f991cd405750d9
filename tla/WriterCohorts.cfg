SPECIFICATION FairCohortSpec
CONSTANTS
  MaxVersion = 12
  MaxInFlight = 1
  MaxCellEpoch = 1
  MaxGrants = 2
  Cohorts = {c1, c2}
INVARIANTS
  WritersUnderOneAuthority
  ActiveGrantIsCurrent
PROPERTIES
  RollbackCompletes
CHECK_DEADLOCK FALSE
