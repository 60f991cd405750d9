SPECIFICATION FairSpec
CONSTANTS
  None = None
  Absent = Absent
  Torn = Torn
  Bootstraps = {b1, b2}
  Users = {u1}
  NumTools = 2
  Versions = {v1, v2}
  Sums = {s1}
  MaxEdits = 1
INVARIANTS
  CheckedToolsWhole
PROPERTIES
  ToolsStable
  EveryCommandEnds
CHECK_DEADLOCK FALSE
