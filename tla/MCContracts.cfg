SPECIFICATION ContractsSpec
CONSTANTS
  c1 = c1
  c2 = c2
  Clients = {c1, c2}
  Contents = {x, y}
  Modes = {"versioned", "creation", "protocol"}
  MaxKeys <- Keys
  MaxNetwork = 2
  MachinesChecked = {"decision", "consent", "artifact", "cell", "operation", "migration", "attempt", "reversibility"}
  MaxVersion <- SubjectChanges
  MaxPending = 2
  MaxNotes = 2
  Scalars = {"phase"}
  Wides = {"cell_sequence"}
  Nested = {"envelope"}
  Variants = {"cell_hello", "heartbeat"}
  Compound = {"cell_hello", "cell_sequence"}
  Unknown = "unknown"
  MaxMembers = 3
INVARIANTS
  
  NothingSkipped
  
PROPERTIES
  FactsHold
CHECK_DEADLOCK FALSE
