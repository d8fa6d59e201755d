SPECIFICATION FairSpec
CONSTANTS
  m1 = m1
  m2 = m2
  Moves = {m1, m2}
  MAX_PGN_MOVES = 2
  MAX_MOVES = 3
  Names = {"game"}
  Foreign <- MCForeign
  MaxPlies = 3
INVARIANTS
  RecordReadsBack
  ReplayShowsMoves
PROPERTIES
  AutoPlayEnds
