SPECIFICATION TrustSpec
CONSTANTS
  k1 = k1
  k2 = k2
  audit = audit
  release = release
  Kids = {k1, k2}
  FirstKid = k1
  Purposes = {audit, release}
  Payloads = {p}
  Algorithm <- KeyAlgorithm
  TicksPerMilli = 2
  MaxTime = 2
  Lives <- EnvelopeLives
  KeyPurposes <- AddedPurposes
  MaxRegistries = 3
  MaxEnvelopes = 1
  Items <- CatalogItems
  Registries = {s1, s2}
  Projections <- UnitProjections
  Names <- MemberNames
  Values <- MemberValues
  MaxMembers = 2
INVARIANTS
  RuntimesDecideAlike
  AcceptedIsVouched
  OneCatalogPerIdentity
PROPERTIES
  OneFormPerMeaning
CHECK_DEADLOCK FALSE
