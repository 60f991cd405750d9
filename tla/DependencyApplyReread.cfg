SPECIFICATION Spec
CONSTANTS
  Appliers = {a1}
  Bootstraps = {}
  Bodies = {x, y}
  Nobody = nobody
  EvidenceDirDurable = TRUE
  MaxEdits = 2
  MaxCommits = 0
  MaxPowerCuts = 0
INVARIANTS
  AppliedIsAccepted
CHECK_DEADLOCK FALSE
