SPECIFICATION Spec
CONSTANTS
  Consumers = {c1}
  Blocks = {b1, b2, b3, b4, b5, b6}
  BlockSize = 2
  InitialEntries = 4
  Batches = {3}
  Requests = {2}
  Modes = {"CanAlloc", "CannotAlloc"}
  Failures <- AllFailures
  Throws = {1, 3}
  AssignThrows = TRUE
  Junk = {0}
  MaxTail = 9
  NULL = NULL
  Raw = Raw
  Bad = Bad
CONSTRAINT
  HarmNotDone
INVARIANTS
  FailuresAbsorbed
