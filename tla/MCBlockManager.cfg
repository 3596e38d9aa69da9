SPECIFICATION FairSpec
CONSTANTS
  Threads = {t1, t2, store}
  Store = store
  p1 = p1
  Nodes = {p1, h1}
  PoolBlocks <- OnePoolBlock
  HeapBlocks = {h1}
  AddFlag = 5
  NULL = NULL
INVARIANTS
  HeldExclusively
  IndexBounded
  NoBlockLost
PROPERTIES
  LockFree
