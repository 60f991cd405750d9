SPECIFICATION PacketsSpec
CONSTANTS
  LastPacket = 2
  JoinOwner <- MCJoinOwner
  JoinStart <- MCJoinStart
  Documents <- MCDocuments
  Owners <- MCOwners
  Root = "P01"
  OwnerStart <- MCOwnerStart
  TargetKind <- MCTargetKind
  Hook <- MCHooks
  Contracts <- MCContracts
  MaxEdits = 1
  w1 = w1
  w2 = w2
  Approvals <- RoleApprovals
  Circumstances <- Inventories
  MaxApprovals = 4
  MaxAmendments = 1
  MaxMoves = 1
  Recorders = {w1, w2}
INVARIANTS
  RejectsExactlyCycles
  SuccessIsCoverage
  DisjointShapes
  NoStaleTransition
  EarnedInOrder
PROPERTIES
  AcceptedPlansComplete
CHECK_DEADLOCK FALSE
