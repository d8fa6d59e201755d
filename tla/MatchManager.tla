---------------------------- MODULE MatchManager ----------------------------
(***************************************************************************)
(* The match manager of the server (server/match_manager.c): a table of    *)
(* waiting players, a table of active games and one counter for each.      *)
(* Every operation below is one critical section of g_match_manager.mutex, *)
(* so it is one action.  Names, ids, timestamps and the chess position are *)
(* left out here (see ChessServer, GameClock and ChessRules); file         *)
(* descriptors are what identifies a player.                               *)
(***************************************************************************)
EXTENDS Integers, FiniteSets

CONSTANTS Fds,                  \* descriptors accept() may return
          NoFd,                 \* contents of an inactive waiting entry
          MAX_WAITING_PLAYERS,
          MAX_ACTIVE_GAMES,
          MaxGameIds            \* bound: games created in a behaviour

ASSUME ManagerAssumption ==
  /\ NoFd \notin Fds
  /\ MAX_WAITING_PLAYERS \in Nat \ {0}
  /\ MAX_ACTIVE_GAMES \in Nat \ {0}
  /\ MaxGameIds \in Nat

VARIABLES waiting_players,     \* the descriptor waiting in each entry, or NoFd
          waiting_count,
          active_games,        \* the game stored in each slot, live or not
          active_game_count,
          counter              \* the static counter of generate_game_id

managerVars ==
  <<waiting_players, waiting_count, active_games, active_game_count, counter>>

WaitSlots == 1..MAX_WAITING_PLAYERS
GameSlots == 1..MAX_ACTIVE_GAMES
GameIds   == 1..MaxGameIds

(* A slot that never held a game is all zeroes: id 0, no players. *)
EmptySlot == [is_active |-> FALSE, game_id |-> 0, white |-> NoFd, black |-> NoFd]

Game == [is_active : BOOLEAN, game_id : Nat,
         white : Fds \cup {NoFd}, black : Fds \cup {NoFd}]

Waiting == {i \in WaitSlots : waiting_players[i] # NoFd}
Active  == {s \in GameSlots : active_games[s].is_active}

(* Where a for loop over a table stops: the lowest index in S. *)
First(S) == CHOOSE i \in S : \A j \in S : i <= j

PlayersOf(s)  == {active_games[s].white, active_games[s].black}
WaitsAt(fd) == {i \in Waiting : waiting_players[i] = fd}
GamesOf(fd) == {s \in Active : fd \in PlayersOf(s)}

(* The player other than fd; fd itself where both colours are fd's. *)
OpponentOf(fd, s) ==
  IF active_games[s].white = fd THEN active_games[s].black
                                ELSE active_games[s].white

-----------------------------------------------------------------------------
(* init_match_manager: memset to zero. *)
InitManager ==
  /\ waiting_players = [i \in WaitSlots |-> NoFd]
  /\ waiting_count = 0
  /\ active_games = [s \in GameSlots |-> EmptySlot]
  /\ active_game_count = 0
  /\ counter = 1

(* add_player_to_matching, nobody waits: take the first inactive entry.    *)
EnterQueue(fd) ==
  /\ Waiting = {}
  /\ waiting_players' = [waiting_players EXCEPT ![First(WaitSlots \ Waiting)] = fd]
  /\ waiting_count' = waiting_count + 1
  /\ UNCHANGED <<active_games, active_game_count, counter>>

(* Mutant: counter++ is forgotten. *)
StartGameSameId(fd, fd_is_white) ==
  LET w == First(Waiting)
      s == First(GameSlots \ Active)
      other == waiting_players[w]
  IN /\ Waiting # {}
     /\ Active # GameSlots
     /\ counter <= MaxGameIds
     /\ active_games' = [active_games EXCEPT ![s] =
          [is_active |-> TRUE, game_id |-> counter,
           white |-> IF fd_is_white THEN fd ELSE other,
           black |-> IF fd_is_white THEN other ELSE fd]]
     /\ active_game_count' = active_game_count + 1
     /\ waiting_players' = [waiting_players EXCEPT ![w] = NoFd]
     /\ waiting_count' = waiting_count - 1
     /\ UNCHANGED counter

(* Mutant: the paired player stays in the queue. *)
StartGameKeepsWaiter(fd, fd_is_white) ==
  LET s == First(GameSlots \ Active)
      other == waiting_players[First(Waiting)]
  IN /\ Waiting # {}
     /\ Active # GameSlots
     /\ counter <= MaxGameIds
     /\ active_games' = [active_games EXCEPT ![s] =
          [is_active |-> TRUE, game_id |-> counter,
           white |-> IF fd_is_white THEN fd ELSE other,
           black |-> IF fd_is_white THEN other ELSE fd]]
     /\ active_game_count' = active_game_count + 1
     /\ counter' = counter + 1
     /\ UNCHANGED <<waiting_players, waiting_count>>

(* add_player_to_matching, somebody waits and a slot is free: a game       *)
(* between fd and the first waiting player, with the colours that          *)
(* time(NULL) % 2 deals.  Nothing compares fd with the waiting descriptor. *)
StartGame(fd, fd_is_white) ==
  LET w == First(Waiting)
      s == First(GameSlots \ Active)
      other == waiting_players[w]
  IN /\ Waiting # {}
     /\ Active # GameSlots
     /\ counter <= MaxGameIds
     /\ active_games' = [active_games EXCEPT ![s] =
          [is_active |-> TRUE, game_id |-> counter,
           white |-> IF fd_is_white THEN fd ELSE other,
           black |-> IF fd_is_white THEN other ELSE fd]]
     /\ active_game_count' = active_game_count + 1
     /\ counter' = counter + 1
     /\ waiting_players' = [waiting_players EXCEPT ![w] = NoFd]
     /\ waiting_count' = waiting_count - 1

(* add_player_to_matching, somebody waits and every slot is taken: "No     *)
(* available game slots", and the waiting player keeps waiting.            *)
NoGameSlot ==
  /\ Waiting # {}
  /\ Active = GameSlots
  /\ UNCHANGED managerVars

(* remove_player_from_matching, and the first half of                      *)
(* handle_player_disconnect: clear the first entry that holds fd.          *)
LeaveQueue(fd) ==
  /\ WaitsAt(fd) # {}
  /\ waiting_players' = [waiting_players EXCEPT ![First(WaitsAt(fd))] = NoFd]
  /\ waiting_count' = waiting_count - 1
  /\ UNCHANGED <<active_games, active_game_count, counter>>

(* Mutant: the slot is wiped (memset) when its game ends. *)
EndGameWipes(s) ==
  /\ s \in Active
  /\ active_games' = [active_games EXCEPT ![s] = EmptySlot]
  /\ active_game_count' = active_game_count - 1
  /\ UNCHANGED <<waiting_players, waiting_count, counter>>

(* The end of a live game, as the resignation, disconnection and timeout   *)
(* paths write it: the slot's contents stay, only is_active is cleared.    *)
EndGame(s) ==
  /\ s \in Active
  /\ active_games' = [active_games EXCEPT ![s].is_active = FALSE]
  /\ active_game_count' = active_game_count - 1
  /\ UNCHANGED <<waiting_players, waiting_count, counter>>

(* remove_game: the first live game with this id, if there still is one.   *)
RemoveGame(id) ==
  LET hits == {s \in Active : active_games[s].game_id = id}
  IN IF hits = {} THEN UNCHANGED managerVars ELSE EndGame(First(hits))

ManagerNext ==
  \/ \E fd \in Fds : EnterQueue(fd)
  \/ \E fd \in Fds, fd_is_white \in BOOLEAN : StartGame(fd, fd_is_white)
  \/ NoGameSlot
  \/ \E fd \in Fds : LeaveQueue(fd)
  \/ \E s \in GameSlots : EndGame(s)
  \/ \E id \in GameIds : RemoveGame(id)

ManagerSpec == InitManager /\ [][ManagerNext]_managerVars

-----------------------------------------------------------------------------
(* Type correctness of the tables and counters. *)
ManagerTypeOK ==
  /\ waiting_players \in [WaitSlots -> Fds \cup {NoFd}]
  /\ waiting_count \in Int
  /\ active_games \in [GameSlots -> Game]
  /\ active_game_count \in Int
  /\ counter \in Nat \ {0}

(* At most one player ever waits, and always in the first entry, although  *)
(* the table has MAX_WAITING_PLAYERS of them: whoever comes second is      *)
(* paired or turned away.  So "Matching queue is full" cannot happen.      *)
OneWaiter == Waiting \subseteq {1}

(* waiting_count and active_game_count, which four functions and two       *)
(* threads update one step at a time, are the sizes of what they count.    *)
CountsExact ==
  /\ waiting_count = Cardinality(Waiting)
  /\ active_game_count = Cardinality(Active)

(* Two live games never share an id, so remove_game(id), which scans from  *)
(* the first slot, ends the game its caller means; and a live game has two *)
(* real descriptors.                                                       *)
LiveGamesDistinct ==
  \A s \in Active :
    /\ PlayersOf(s) \subseteq Fds
    /\ active_games[s].game_id \in 1..(counter - 1)
    /\ \A t \in Active : active_games[s].game_id = active_games[t].game_id => s = t

(* The inductive invariant behind the three statements. *)
ManagerInv ==
  /\ ManagerTypeOK
  /\ OneWaiter
  /\ CountsExact
  /\ LiveGamesDistinct

(* The tables, seen as the abstract lobby: the waiter is whoever the first *)
(* hit of the loop over the waiting entries is, the matches are the live   *)
(* slots without their index.                                              *)
Match(s) == [game_id |-> active_games[s].game_id,
             white |-> active_games[s].white, black |-> active_games[s].black]

L == INSTANCE Lobby WITH
       Players  <- Fds,
       Nobody   <- NoFd,
       Capacity <- MAX_ACTIVE_GAMES,
       waiter   <- waiting_players[1],
       matches  <- {Match(s) : s \in Active},
       issued   <- counter - 1

(* Every step of the match manager is a step the lobby allows.             *)
ImplementsLobby == L!Spec
=============================================================================
