SPECIFICATION ChecksSpec
CONSTANTS
  Publics = {"lint", "suite"}
  Dispatching = {"suite"}
  HookOf <- SuiteHooks
  GateSelectors <- SuiteSelectors
  SelectorKeys = {"SUITE", "PHASE"}
  Jobs <- CIJobs
  MaxLandings = 2
  MaxRuns = 2
  p01 = p01
  p03 = p03
  Rehearsals = {p01, p03}
  Writes <- ReportWrites
  Accepted = {1, 2, 4}
  MaxChanges = 3
  Trees <- CheckedTrees
  ModelProviders <- ModelSDKs
  Provisioning <- ProvisioningSDKs
  Drivers <- DatabaseDrivers
  Drafts <- RequestDrafts
  Statuses = {"accepted", "applied"}
  Locks = {"pnpm-lock", "manifest"}
  Manifest = "manifest"
  Versions = {2}
  MaxCommits = 4
  MaxEdits = 4
  MaxMoves = 1
  PnpmPackages = {"native", "web"}
  LockCandidates <- PnpmLocks
  RegistryStates <- Contents
  DeclaredBy <- Declared
  GoModules <- Modules
  ToolRecords <- Tools
  Requests <- AskedFor
  PackageLicenses = {"MIT"}
  RequestLicenses = {"MIT", "GPL"}
  Hosts <- Machines
INVARIANTS
  VerdictIsEarned
  EvidenceIsTrue
  ReportsExact
  
  
  ReviewsComplete
CHECK_DEADLOCK FALSE
