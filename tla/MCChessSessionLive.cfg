SPECIFICATION FairSpec
CONSTANTS
  GameIds = {1}
  NoGame = 0
  MaxConnections = 1
  MaxQueue = 1
  Ends = {"playing", "checkmate"}
  Lots <- MCLots
  MAX_PGN_MOVES = 1
  MaxMoves <- MCMaxMoves
  MaxInbox = 1
  Strays = TRUE
PROPERTY
  EndIsShown
