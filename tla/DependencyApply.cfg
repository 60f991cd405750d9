SPECIFICATION FairSpec
CONSTANTS
  Appliers = {a1, a2}
  Bootstraps = {b1}
  Bodies = {x, y}
  Nobody = nobody
  EvidenceDirDurable = TRUE
  MaxEdits = 1
  MaxCommits = 1
  MaxPowerCuts = 1
INVARIANTS
  ReceiptBeforeStatus
PROPERTIES
  EveryCommandEnds
CHECK_DEADLOCK FALSE
