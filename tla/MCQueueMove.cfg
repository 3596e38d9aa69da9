SPECIFICATION Spec
CONSTANTS
  Queues = {q1, q2}
  Producers = {r1, r2}
  PoolSize = 2
  HeapBlocks = {h1}
  NULL = NULL
INVARIANTS
  ListNeverDangles
CHECK_DEADLOCK FALSE
