SPECIFICATION Spec
CONSTANTS
  Consumers = {c1}
  Blocks = {b1, b2, b3}
  BlockSize = 2
  InitialEntries = 4
  Batches = {3}
  Requests = {1}
  Modes = {"CannotAlloc"}
  Failures = {}
  Throws = {}
  AssignThrows = FALSE
  Junk = {0}
  MaxTail = 5
  NULL = NULL
  Raw = Raw
  Bad = Bad
SYMMETRY Symmetry
INVARIANTS
  LifetimesRight
