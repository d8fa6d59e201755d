SPECIFICATION FairSpec
CONSTANTS
  Files = 3
  Ranks = 5
  FiftyLimit = 2
  MaxPlies = 40
  StartBoards <- SmallBoards
  StartRights <- NoRights
INVARIANTS
  GameTypeOK
  KingsSafe
  EnPassantSound
  AttackMeansCapture
  FenReadsBack
PROPERTIES
  MovesAreFair
  GameEnds
