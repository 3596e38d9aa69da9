SPECIFICATION FairBlockingSpec
CONSTANTS
  ReservedSize = 2
  EXPECTED_BLOCK_SIZE = 2
  MaxBlocks = 4
  MaxItems = 4
  NULL = NULL
  Raw = Raw
  Bad = Bad
  Timeouts = {"none"}
  MaxCount = 8
INVARIANTS
  DequeueSucceeds
  ReservedHeld
PROPERTIES
  ItemsDelivered
CHECK_DEADLOCK FALSE
