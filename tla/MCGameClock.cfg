SPECIFICATION FairSpec
CONSTANTS
  TimeLimit = 4
  MinCharge = 2
  IntMax = 12
  MaxClock = 13
  LastStart = 4
INVARIANTS
  ClockTypeOK
  TimeConserved
  TimeoutAfterLimit
PROPERTIES
  RefundOnlyByOverflow
  GameIsFinite
