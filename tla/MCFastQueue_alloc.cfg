SPECIFICATION Spec
CONSTANTS
  Consumers = {c1, c2}
  Blocks = {b1, b2, b3, b4, b5}
  BlockSize = 2
  InitialEntries = 4
  Batches = {3}
  Requests = {3}
  Modes = {"CanAlloc"}
  Failures <- SingleFailures
  Throws = {}
  AssignThrows = FALSE
  Junk = {0}
  MaxTail = 10
  NULL = NULL
  Raw = Raw
  Bad = Bad
SYMMETRY Symmetry
INVARIANTS
  LookupFinds
  UnclaimedStored
  LifetimesRight
  ClearedComplete
