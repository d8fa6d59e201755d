SPECIFICATION FairSpec
INVARIANTS
  TimerGoneBeforeDestroy
PROPERTIES
  CleanUnlessHeld

\* The server stops when the process exits, or when its handler deadlocks.
CHECK_DEADLOCK FALSE
