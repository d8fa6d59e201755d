---------------------------- MODULE ChessServer ----------------------------
(***************************************************************************)
(* The server process: the main thread, which takes one request at a time  *)
(* from epoll and runs its handler to the end (server_network.c,           *)
(* handlers/), and the timer thread, which walks the game table with the   *)
(* mutex held (check_game_timeouts).                                       *)
(*                                                                         *)
(* A handler is cut into steps exactly where it gives the mutex back and   *)
(* goes on with a pointer into the table.  The critical sections of the    *)
(* main thread are single steps that wait for the timer to be out of its   *)
(* own; the timer thread holds the mutex from one slot to the next, so the *)
(* unlocked steps of the main thread may fall between two slots.           *)
(*                                                                         *)
(* Chess is abstract here: a position is whose turn it is and whether the  *)
(* move that led to it ended the game (ChessRules has the rest), and a     *)
(* live game may run out of time whenever the timer looks (GameClock has   *)
(* the arithmetic).  PING, ECHO, CHAT and unknown requests write no server *)
(* state and are left out.                                                 *)
(***************************************************************************)
EXTENDS MatchManager

CONSTANTS ClientsRematch, \* TRUE: a client may ask for a game while it is in
                          \* one (client/main.c, key '4' leaves the screen only)
          Results         \* bound: what a move may lead to, "playing" or an end

ASSUME ServerAssumption ==
  /\ ClientsRematch \in BOOLEAN
  /\ "playing" \in Results
  /\ Results \subseteq {"playing", "checkmate", "stalemate", "fifty"}

VARIABLES open,         \* accepted descriptors, registered with epoll
          position,     \* game_state of each slot
          main,         \* where the main thread is, with its local variables
          timer,        \* slot the timer thread is at; 0: asleep, mutex free
          told,         \* history: slots whose two players were sent the start
          verdicts,     \* history, per slot: who was sent which end of the game
          undelivered,  \* history: slots whose start its requester was not sent
          unanswered    \* history: slots whose last move was not answered

serverVars == <<open, position, main, timer, told, verdicts, undelivered, unanswered>>
vars == <<managerVars, serverVars>>
history == <<told, verdicts, undelivered, unanswered>>

Team    == {"white", "black"}
Other(team) == IF team = "white" THEN "black" ELSE "white"
Decided == {"checkmate", "stalemate"}   \* positions without a legal move

StartPos == [side_to_move |-> "white", result |-> "playing"]

Steps == {"epoll_wait", "match_notify", "move_check", "move_stamp",
          "move_reply", "move_broadcast", "move_remove", "close"}

AtEpoll == [pc |-> "epoll_wait", fd |-> NoFd, slot |-> 0, game_id |-> 0, opponent |-> NoFd]
Quiet   == main.pc = "epoll_wait"

(* pthread_mutex_lock in the main thread returns. *)
Locked == timer = 0

Goto(step) == main' = [main EXCEPT !.pc = step]
Return     == main' = AtEpoll

(* A request of fd is the next event. *)
Request(fd) == Quiet /\ fd \in open

(* What send_server_message to fd may return: an error if the descriptor   *)
(* is closed (EBADF), and either way if it is open, for its peer may be    *)
(* gone.  Only the two sends whose result decides what the handler does    *)
(* next are followed; the others are logged and forgotten by the code.     *)
SendResults(fd) == IF fd \in open THEN {"sent", "failed"} ELSE {"failed"}

TeamOf(fd, s) == IF active_games[s].white = fd THEN "white" ELSE "black"

(* The end of the game in slot s is sent to the recipients.                *)
Announce(s, recipients, how, winner) ==
  verdicts' = [verdicts EXCEPT ![s] =
    @ \cup {[to |-> fd, how |-> how, winner |-> winner] : fd \in recipients}]

-----------------------------------------------------------------------------
Init ==
  /\ InitManager
  /\ open = {}
  /\ position = [s \in GameSlots |-> StartPos]
  /\ main = AtEpoll
  /\ timer = 0
  /\ told = {}
  /\ verdicts = [s \in GameSlots |-> {}]
  /\ undelivered = {}
  /\ unanswered = {}

(* handle_new_connection: the kernel hands out a descriptor not in use,    *)
(* possibly one that an earlier client had.                                *)
Accept(fd) ==
  /\ Quiet
  /\ fd \notin open
  /\ open' = open \cup {fd}
  /\ UNCHANGED <<managerVars, position, main, timer, history>>

(* handle_match_game_message as far as add_player_to_matching returns.     *)
MatchGame(fd) ==
  /\ Request(fd)
  /\ Locked
  /\ ClientsRematch \/ (WaitsAt(fd) = {} /\ GamesOf(fd) = {})
  /\ UNCHANGED <<open, timer>>
  /\ \/ EnterQueue(fd) /\ UNCHANGED <<position, main, history>>
     \/ NoGameSlot /\ UNCHANGED <<position, main, history>>
     \/ \E fd_is_white \in BOOLEAN :
          LET s == First(GameSlots \ Active)
          IN /\ StartGame(fd, fd_is_white)
             /\ position' = [position EXCEPT ![s] = StartPos]
             /\ main' = [pc |-> "match_notify", fd |-> fd, slot |-> s,
                         game_id |-> counter,
                         opponent |-> waiting_players[First(Waiting)]]
             /\ told' = told \ {s}
             /\ verdicts' = [verdicts EXCEPT ![s] = {}]
             /\ undelivered' = undelivered \ {s}
             /\ unanswered' = unanswered \ {s}

(* Mutant: the opponent is never sent the start. *)
MatchNotifyRequesterOnly ==
  /\ main.pc = "match_notify"
  /\ Locked
  /\ \/ /\ GamesOf(main.fd) # {}
        /\ "failed" \in SendResults(main.fd)
        /\ undelivered' = undelivered \cup {main.slot}
     \/ /\ "sent" \in SendResults(main.fd)
        /\ UNCHANGED undelivered
  /\ Return
  /\ UNCHANGED <<managerVars, open, position, timer, told, verdicts, unanswered>>

(* MATCH_STATUS_GAME_STARTED: find_game_by_player_fd takes the mutex again *)
(* and may find nothing; then nobody is told.  Otherwise the requester is  *)
(* sent the start and, only if that send went through, the opponent.       *)
MatchNotify ==
  /\ main.pc = "match_notify"
  /\ Locked
  /\ \/ /\ GamesOf(main.fd) = {}
        /\ UNCHANGED history
     \/ /\ GamesOf(main.fd) # {}
        /\ \/ /\ "sent" \in SendResults(main.fd)
              /\ told' = told \cup {main.slot}
              /\ UNCHANGED undelivered
           \/ /\ "failed" \in SendResults(main.fd)
              /\ undelivered' = undelivered \cup {main.slot}
              /\ UNCHANGED told
        /\ UNCHANGED <<verdicts, unanswered>>
  /\ Return
  /\ UNCHANGED <<managerVars, open, position, timer>>

(* handle_cancel_match_message. *)
CancelMatch(fd) ==
  /\ Request(fd)
  /\ Locked
  /\ LeaveQueue(fd)
  /\ UNCHANGED serverVars

(* handle_move_message as far as find_game_by_player_fd returns: the first *)
(* live game of fd.  From here on the handler works with a pointer to the  *)
(* slot and without the mutex.                                             *)
Move(fd) ==
  /\ Request(fd)
  /\ Locked
  /\ GamesOf(fd) # {}
  /\ LET s == First(GamesOf(fd))
     IN main' = [pc |-> "move_check", fd |-> fd, slot |-> s,
                 game_id |-> active_games[s].game_id, opponent |-> OpponentOf(fd, s)]
  /\ UNCHANGED <<managerVars, open, position, timer, history>>

(* Turn, coordinates and is_move_legal are checked; an error is answered   *)
(* and the handler is done.                                                *)
MoveRejected ==
  /\ main.pc = "move_check"
  /\ Return
  /\ UNCHANGED <<managerVars, open, position, timer, history>>

(* apply_move, without the mutex and whether or not the game is still live.*)
MoveApplied ==
  /\ main.pc = "move_check"
  /\ position[main.slot].side_to_move = TeamOf(main.fd, main.slot)
  /\ position[main.slot].result \notin Decided
  /\ \E result \in Results :
       position' = [position EXCEPT ![main.slot] =
         [side_to_move |-> Other(@.side_to_move), result |-> result]]
  /\ unanswered' = unanswered \ {main.slot}
  /\ Goto("move_stamp")
  /\ UNCHANGED <<managerVars, open, timer, told, verdicts, undelivered>>

(* last_move_time_ms is written under the mutex. *)
MoveStamped ==
  /\ main.pc = "move_stamp"
  /\ Locked
  /\ Goto("move_reply")
  /\ UNCHANGED <<managerVars, open, position, timer, history>>

(* send_move_success; if it fails the handler returns at once: no          *)
(* broadcast, no test for the end of the game.                             *)
MoveReplied ==
  /\ main.pc = "move_reply"
  /\ \/ /\ "sent" \in SendResults(main.fd)
        /\ Goto("move_broadcast")
        /\ UNCHANGED unanswered
     \/ /\ "failed" \in SendResults(main.fd)
        /\ Return
        /\ unanswered' = unanswered \cup {main.slot}
  /\ UNCHANGED <<managerVars, open, position, timer, told, verdicts, undelivered>>

(* The end conditions are evaluated on the new position and both players   *)
(* are sent the move with the verdict.                                     *)
MoveBroadcast ==
  LET result == position[main.slot].result
      winner == IF result = "checkmate"
                THEN Other(position[main.slot].side_to_move) ELSE "none"
  IN /\ main.pc = "move_broadcast"
     /\ \/ /\ result = "playing"
           /\ Return
           /\ UNCHANGED verdicts
        \/ /\ result # "playing"
           /\ Announce(main.slot, {main.fd, main.opponent}, "move", winner)
           /\ Goto("move_remove")
     /\ UNCHANGED <<managerVars, open, position, timer, told, undelivered, unanswered>>

(* Mutant: the game that a move has ended is not removed. *)
MoveForgetsGame ==
  /\ main.pc = "move_remove"
  /\ Locked
  /\ Return
  /\ UNCHANGED <<managerVars, open, position, timer, history>>

(* Mutant: the slot is cleared through the pointer, whether or not the     *)
(* timer thread has ended the game in the meantime.                        *)
MoveClearsSlot ==
  /\ main.pc = "move_remove"
  /\ Locked
  /\ active_games' = [active_games EXCEPT ![main.slot].is_active = FALSE]
  /\ active_game_count' = active_game_count - 1
  /\ Return
  /\ UNCHANGED <<waiting_players, waiting_count, counter, open, position, timer, history>>

(* remove_game(game->game_id). *)
MoveRemoves ==
  /\ main.pc = "move_remove"
  /\ Locked
  /\ RemoveGame(active_games[main.slot].game_id)
  /\ Return
  /\ UNCHANGED <<open, position, timer, history>>

(* Mutant: the game goes on after the resignation. *)
ResignPlaysOn(fd) ==
  /\ Request(fd)
  /\ Locked
  /\ GamesOf(fd) # {}
  /\ LET s == First(GamesOf(fd))
     IN Announce(s, PlayersOf(s), "resign", Other(TeamOf(fd, s)))
  /\ UNCHANGED <<managerVars, open, position, main, timer, told, undelivered, unanswered>>

(* handle_resign_message: the mutex is held from the search to the end.    *)
Resign(fd) ==
  /\ Request(fd)
  /\ Locked
  /\ GamesOf(fd) # {}
  /\ LET s == First(GamesOf(fd))
     IN /\ Announce(s, PlayersOf(s), "resign", Other(TeamOf(fd, s)))
        /\ EndGame(s)
  /\ UNCHANGED <<open, position, main, timer, told, undelivered, unanswered>>

(* Mutant: a disconnection only leaves the queue, never a game. *)
DisconnectLeavesGame(fd) ==
  /\ Request(fd)
  /\ Locked
  /\ \/ LeaveQueue(fd)
     \/ WaitsAt(fd) = {} /\ UNCHANGED managerVars
  /\ main' = [AtEpoll EXCEPT !.pc = "close", !.fd = fd]
  /\ UNCHANGED <<open, position, timer, history>>

(* handle_player_disconnect, after receive_client_message gave NULL: the   *)
(* waiting entry of fd is cleared and that is all; or else the first live  *)
(* game of fd ends and the opponent is told; or else nothing.              *)
Disconnect(fd) ==
  /\ Request(fd)
  /\ Locked
  /\ \/ /\ LeaveQueue(fd)
        /\ UNCHANGED history
     \/ /\ WaitsAt(fd) = {} /\ GamesOf(fd) # {}
        /\ LET s == First(GamesOf(fd))
           IN /\ Announce(s, {OpponentOf(fd, s)}, "disconnect", Other(TeamOf(fd, s)))
              /\ EndGame(s)
        /\ UNCHANGED <<told, undelivered, unanswered>>
     \/ /\ WaitsAt(fd) = {} /\ GamesOf(fd) = {}
        /\ UNCHANGED <<managerVars, history>>
  /\ main' = [AtEpoll EXCEPT !.pc = "close", !.fd = fd]
  /\ UNCHANGED <<open, position, timer>>

(* close(fd), after the mutex is given back. *)
Close ==
  /\ main.pc = "close"
  /\ open' = open \ {main.fd}
  /\ Return
  /\ UNCHANGED <<managerVars, position, timer, history>>

-----------------------------------------------------------------------------
(* check_game_timeouts takes the mutex. *)
TimerLocks ==
  /\ timer = 0
  /\ timer' = 1
  /\ UNCHANGED <<managerVars, open, position, main, history>>

(* Mutant: the loop runs one slot past the table. *)
NextSlotTooFar == timer' = IF timer > MAX_ACTIVE_GAMES THEN 0 ELSE timer + 1

(* Mutant: the mutex is not given back after the last slot. *)
NextSlotKeepsMutex == timer' = IF timer = MAX_ACTIVE_GAMES THEN timer ELSE timer + 1

(* On to the next slot; the mutex is given back after the last.            *)
NextSlot == timer' = IF timer = MAX_ACTIVE_GAMES THEN 0 ELSE timer + 1

(* The slot is dead, not due yet, or time is charged and some is left.     *)
TimerPasses ==
  /\ timer # 0
  /\ NextSlot
  /\ UNCHANGED <<managerVars, open, position, main, history>>

(* Mutant: the end by timeout is not sent. *)
TimerExpiresSilently ==
  /\ timer # 0
  /\ EndGame(timer)
  /\ NextSlot
  /\ UNCHANGED <<open, position, main, history>>

(* The player to move has no time left: both players are told and the game *)
(* ends.                                                                   *)
TimerExpires ==
  /\ timer # 0
  /\ Announce(timer, PlayersOf(timer), "timeout", Other(position[timer].side_to_move))
  /\ EndGame(timer)
  /\ NextSlot
  /\ UNCHANGED <<open, position, main, told, undelivered, unanswered>>

TimerThread == TimerLocks \/ TimerPasses \/ TimerExpires

(* The main thread inside a handler. *)
HandlerStep ==
  \/ MatchNotify
  \/ MoveRejected \/ MoveApplied \/ MoveStamped \/ MoveReplied
  \/ MoveBroadcast \/ MoveRemoves
  \/ Close

Next ==
  \/ \E fd \in Fds : Accept(fd)
  \/ \E fd \in Fds : MatchGame(fd)
  \/ \E fd \in Fds : CancelMatch(fd)
  \/ \E fd \in Fds : Move(fd)
  \/ \E fd \in Fds : Resign(fd)
  \/ \E fd \in Fds : Disconnect(fd)
  \/ HandlerStep
  \/ TimerThread

Spec == Init /\ [][Next]_vars

(* The threads are scheduled: a handler goes on, also past a mutex that the*)
(* timer thread keeps taking and releasing (it sleeps 100 ms in between),  *)
(* and the timer thread never stops.                                       *)
FairSpec == Spec /\ SF_vars(HandlerStep) /\ WF_vars(TimerThread)

-----------------------------------------------------------------------------
(* Type correctness of the threads' state and of the histories. *)
ServerTypeOK ==
  /\ ManagerTypeOK
  /\ open \subseteq Fds
  /\ position \in [GameSlots -> [side_to_move : Team, result : Results]]
  /\ main \in [pc : Steps, fd : Fds \cup {NoFd}, slot : GameSlots \cup {0},
               game_id : Nat, opponent : Fds \cup {NoFd}]
  /\ timer \in 0..MAX_ACTIVE_GAMES
  /\ told \subseteq GameSlots
  /\ \A s \in GameSlots : verdicts[s] \subseteq
       [to : Fds, how : {"move", "resign", "disconnect", "timeout"},
        winner : Team \cup {"none"}]
  /\ undelivered \subseteq GameSlots
  /\ unanswered \subseteq GameSlots

(* The pointer that find_game_by_player_fd returned stays good after the   *)
(* mutex is given back: the timer thread may end the game under the        *)
(* handler, but the slot is not given to another game before the handler   *)
(* is done, so the move, the broadcasts and remove_game are about the game *)
(* the handler found and go to its two players.                            *)
HandlerSlotKept ==
  main.slot # 0 =>
    /\ active_games[main.slot].game_id = main.game_id
    /\ {main.fd, main.opponent} = PlayersOf(main.slot)

(* Every step of the two threads is a call of the match manager: no path   *)
(* writes the tables in a way the manager's operations would not.          *)
ServerCallsManager == ManagerSpec

(* A game does not end behind the back of a player: when is_active is      *)
(* cleared, each of the two has been sent the end, except the one whose    *)
(* disconnection ends it.                                                  *)
EndsAnnounced ==
  [][\A s \in Active \ Active' : \A p \in PlayersOf(s) :
       \/ \E v \in verdicts'[s] : v.to = p
       \/ main'.pc = "close" /\ main'.fd = p]_vars

(* If the players of a game are sent two different results, one is a       *)
(* timeout and the other the result of the move that was being handled.    *)
ConflictOnlyByRace ==
  \A s \in GameSlots : \A v, w \in verdicts[s] :
    v.winner # w.winner => {v.how, w.how} = {"move", "timeout"}

(* A live game in a final position is left behind only when the reply to   *)
(* the very move that led to it could not be sent (server/handlers/move.c, *)
(* send_move_success before the test for the end); neither the reply to an *)
(* earlier move of the game nor a lost start is an excuse.                 *)
FinalOnlyIfReplyLost ==
  Quiet => \A s \in Active :
    position[s].result = "playing" \/ s \in unanswered

(* A live game that one of its players was not told of is one whose        *)
(* requester could not be reached.                                         *)
UntoldOnlyIfRequesterLost ==
  Quiet => Active \subseteq told \cup undelivered

(* Between two requests no live game has a player whose connection was     *)
(* closed: handle_player_disconnect has removed every trace of it.         *)
NoClosedPlayer == Quiet => \A s \in Active : PlayersOf(s) \subseteq open

(* Every handler returns to the event loop, whatever the timer thread does. *)
HandlerReturns == ~Quiet ~> Quiet
=============================================================================
