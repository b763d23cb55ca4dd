SPECIFICATION FairSpec
CONSTANTS
  MaxCallbacks = 2
  MaxSignals = 3
CHECK_DEADLOCK FALSE
INVARIANTS
  TypeOK
  CallbacksAreNotReentered
  ExitIsAfterAllCallbacks
PROPERTIES
  SignalEndsProcessOrBlocks
