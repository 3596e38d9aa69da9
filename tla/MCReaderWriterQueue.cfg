SPECIFICATION Spec
CONSTANTS
  ReservedSize = 1
  EXPECTED_BLOCK_SIZE = 4
  MaxBlocks = 3
  MaxItems = 7
  NULL = NULL
  Raw = Raw
  Bad = Bad
INVARIANTS
  LifetimesRight
  EmptyIsEmpty
  NextBlockAsserted
PROPERTIES
  ImplementsFifo
