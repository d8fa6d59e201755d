SPECIFICATION Spec
CONSTANTS
  Files = 8
  Ranks = 8
  FiftyLimit = 100
  MaxPlies = 1
  StartBoards <- CastlingBoards
  StartRights <- Rights
INVARIANTS
  CastlingPossible
