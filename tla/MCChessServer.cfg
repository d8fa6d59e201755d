SPECIFICATION FairSpec
CONSTANTS
  Fds = {f1, f2, f3}
  NoFd = NoFd
  MAX_WAITING_PLAYERS = 1
  MAX_ACTIVE_GAMES = 1
  MaxGameIds = 2
  ClientsRematch = FALSE
  Results = {"playing", "checkmate", "stalemate", "fifty"}
INVARIANTS
  ServerTypeOK
  ConflictOnlyByRace
  FinalOnlyIfReplyLost
  NoClosedPlayer
PROPERTIES
  HandlerReturns
