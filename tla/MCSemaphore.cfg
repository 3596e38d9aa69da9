SPECIFICATION FairSpec
CONSTANTS
  Timeouts = {"none", "zero", "some"}
  MaxSignals = 4
  MaxCount = 8
INVARIANTS
  OneAnnounced
  SignalsKept
PROPERTIES
  SignalsGranted
CHECK_DEADLOCK FALSE
