SPECIFICATION Spec
CONSTANTS
  Consumers = {c1, c2}
  Blocks = {b1, b2, b3}
  BlockSize = 2
  InitialSize = 2
  Batches = {3}
  Requests = {3}
  Modes = {"CanAlloc", "CannotAlloc"}
  Failures = {"construct", "index", "first block"}
  MaxTail = 5
  NULL = NULL
  Raw = Raw
  Bad = Bad
SYMMETRY Symmetry
INVARIANTS
  LookupFinds
  LifetimesRight
  NoBlockLost
