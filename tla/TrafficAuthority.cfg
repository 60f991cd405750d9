SPECIFICATION Spec
CONSTANTS
  MaxVersion = 13
  MaxInFlight = 2
  MaxCellEpoch = 2
INVARIANTS
  EpochNamesOnePeriod
PROPERTIES
  HandoverIsFenced
CHECK_DEADLOCK FALSE
