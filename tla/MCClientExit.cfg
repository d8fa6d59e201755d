SPECIFICATION FairSpec
CONSTANT
  MaxSignals = 2
PROPERTIES
  ExitsUnlessLogHeld

\* The client stops when the process exits, or when it waits for its own log.
CHECK_DEADLOCK FALSE
