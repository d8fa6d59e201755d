SPECIFICATION Spec
CONSTANTS
  Fds = {f1, f2}
  NoFd = NoFd
  MAX_WAITING_PLAYERS = 2
  MAX_ACTIVE_GAMES = 2
  MaxGameIds = 2
  ClientsRematch = TRUE
  Results = {"playing", "checkmate"}
SYMMETRY Symmetry
INVARIANTS
  ManagerInv
  HandlerSlotKept
  UntoldOnlyIfRequesterLost
PROPERTIES
  ServerCallsManager
  ImplementsLobby
  EndsAnnounced
