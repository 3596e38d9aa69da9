SPECIFICATION Spec
CONSTANTS
  Consumers = {c1, c2}
  Blocks = {b1, b2, b3, b4}
  BlockSize = 2
  InitialSize = 2
  Batches = {3}
  Requests = {3}
  Modes = {"CanAlloc"}
  Failures = {}
  MaxTail = 4
  NULL = NULL
  Raw = Raw
  Bad = Bad
SYMMETRY Symmetry
INVARIANTS
  ClearedComplete
