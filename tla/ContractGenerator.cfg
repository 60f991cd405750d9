SPECIFICATION GenerateSpec
CONSTANTS
  r1 = r1
  r2 = r2
  catalog = catalog
  note = note
  field = field
  component = component
  Runs = {r1, r2}
  Paths = {catalog}
  Properties = {note}
  Parts = {field, component}
  ApprovedParts = {component}
  InitialSurfaces <- Start
  ReplacedPath = catalog
  Values = {1, 2}
  SchemaEdits <- CatalogEdits
  MaxEdits = 2
  PropertyCount = 4
  RoleCount = 3
  Shapes <- CorpusShapes
  Candidates <- Texts
  Conditions <- CorpusConditions
  MaxConditions = 3
  MaxNeeds = 2
  Addresses = {1, 2, 3}
SYMMETRY Twins
INVARIANTS
  GenerationConverges
  V1IsImmutable
  ChainsSettle
  ConstraintsMetTogether
CHECK_DEADLOCK FALSE
