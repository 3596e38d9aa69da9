SPECIFICATION FairSpec
CONSTANTS
  Threads = {t1, t2, t3}
  Hash <- MCHash
  INITIAL_HASH_SIZE = 2
  INVALID_KEY = INVALID_KEY
  NULL = NULL
  Once = t3
  MaxCalls <- MCMaxCalls
INVARIANTS
  KeyFound
  ProbesEnd
  GrowthExclusive
PROPERTIES
  CallsReturn
