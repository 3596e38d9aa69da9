SPECIFICATION BlockingSpec
CONSTANTS
  ReservedSize = 1
  EXPECTED_BLOCK_SIZE = 2
  MaxBlocks = 2
  MaxItems = 3
  NULL = NULL
  Raw = Raw
  Bad = Bad
  Timeouts = {"none", "zero", "some"}
  MaxCount = 8
INVARIANTS
  DequeueSucceeds
CHECK_DEADLOCK FALSE
