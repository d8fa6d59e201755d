SPECIFICATION FairSpec
CONSTANTS
  c1 = c1
  c2 = c2
  main = main
  timer = timer
  Conns = {c1, c2}
  Threads = {main, timer}
  Senders <- MCSenders
  HeaderLen = 2
  BodyLen <- MCBodyLen
  Limit = 2
  Capacity = 2
  MaxGiven = 2
INVARIANTS
  GarbledOnlyByTwoSenders
PROPERTIES
  ImplementsChannel
  FrameIsRead

\* A connection ends, and nothing more is sent.
CHECK_DEADLOCK FALSE
