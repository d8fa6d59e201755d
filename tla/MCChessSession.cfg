SPECIFICATION Spec
CONSTANTS
  GameIds = {1, 2}
  NoGame = 0
  MaxConnections = 1
  MaxQueue = 1
  Ends = {"playing", "checkmate", "stalemate"}
  Lots <- MCLots
  MAX_PGN_MOVES = 1
  MaxMoves <- MCMaxMoves
  MaxInbox = 1
  Strays = FALSE
INVARIANTS
  SessionTypeOK
  BoardAgrees
  MatchingMeansWaiting
  NoGhostDialog
  RecordFaithful
