SPECIFICATION FairSpec
CONSTANTS
  Consumers = {c1, c2}
  Batches = {1, 2}
  Requests = {0, 1, 2}
  MaxTail = 3
  MaxAttempts = 5
INVARIANTS
  TypeOK
  TicketInv
  HeadBehindTail
  NoTicketLost
  DifferencesExact
PROPERTIES
  ImplementsClaimQueue
  LoneConsumerDrains
