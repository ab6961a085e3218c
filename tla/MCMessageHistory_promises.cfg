SPECIFICATION Spec
CONSTANTS
  Clients = {c1, c2}
  Kinds <- AllKinds
  Capacity = 1
  BatchSize = 2
  Limit = 1
  MaxRecords = 2
  MaxAttaches = 2
  MaxReopens = 1
SYMMETRY ClientSymmetry
INVARIANTS
  SettledWhenPromised
  OldestFirst
  FailureEndsAttachment
CHECK_DEADLOCK FALSE
