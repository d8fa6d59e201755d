---------------------------- MODULE ChessSession ----------------------------
(***************************************************************************)
(* A client and the server as it appears at the other end of the client's  *)
(* connection: whether the connection is in the waiting queue, which live  *)
(* games it plays in, and what is sent to it, in the order in which it is  *)
(* sent.  The server's own concurrency is in ChessServer; here each        *)
(* handler is one step, except for what its races let the client see.      *)
(***************************************************************************)
EXTENDS ChessClient

CONSTANTS Lots,      \* bound: the team drawn for the client in each game
          MaxMoves,  \* bound: half moves of each game
          MaxInbox,  \* bound: the server sends with fewer messages on their way
          Strays     \* bound: may a match request come while the client waits or plays

ASSUME SessionAssumption ==
  /\ GameIds \subseteq Nat
  /\ Lots \in [GameIds -> Teams]
  /\ MaxMoves \in [GameIds -> Nat]
  /\ MaxInbox \in Nat
  /\ Strays \in BOOLEAN

VARIABLES waiting,   \* the connection is in the waiting queue
          live,      \* the live games it plays in
          self,      \* those in which it is its own opponent
          moves,     \* half moves made in each game
          decided,   \* games whose last move, sent to nobody, left no legal one
          counter,   \* games started
          unsent,    \* history: half moves of each game sent to nobody
          untold,    \* history: the games whose start it was not sent
          strayed,   \* history: a match request came while it waited or played
          crossed,   \* history: a flag fell while a move or a start was being handled
          wandered   \* history: the user left a running game or a pending request

moveVars   == <<moves, unsent, decided>>
serverVars == <<waiting, live, self, moveVars, counter, untold, strayed, crossed>>
vars == <<clientVars, serverVars, wandered>>

Init ==
  /\ InitClient
  /\ waiting = FALSE
  /\ live = {}
  /\ self = {}
  /\ moves = [g \in GameIds |-> 0]
  /\ decided = {}
  /\ counter = 0
  /\ unsent = [g \in GameIds |-> 0]
  /\ untold = {}
  /\ strayed = FALSE
  /\ crossed = FALSE
  /\ wandered = FALSE

-----------------------------------------------------------------------------
Send(messages) ==
  /\ Len(fromServer) < MaxInbox
  /\ fromServer' = fromServer \o messages

(* A message to the players of game g reaches the client once, or twice if *)
(* it plays both sides.                                                    *)
Told(g, m) == IF g \in self THEN <<m, m>> ELSE <<m>>

clientRest == <<connected, link, net, connection, screenVars, gameVars, uiVars>>

(* handle_new_connection, for the connection that the client has made.  To *)
(* the server it is a new client: whatever the old connection waited for   *)
(* or played goes on or ends without this one.                             *)
Connect ==
  /\ NetConnect
  /\ waiting' = FALSE
  /\ live' = {}
  /\ UNCHANGED <<self, moveVars, counter, untold, strayed, crossed>>

Request(request) ==
  /\ link = "up"
  /\ toServer # <<>>
  /\ Head(toServer) = request
  /\ toServer' = Tail(toServer)
  /\ UNCHANGED clientRest

(* add_player_to_matching has found a pair for the connection, and the     *)
(* start is sent to it: to both sides if it has been paired with itself.   *)
(* The mutex is not held: the timer thread may end the game before the     *)
(* handler searches for it, which then tells nobody of the start, or       *)
(* between that and the sends.                                             *)
StartGame(with_self) ==
  LET g == counter + 1
      start == [type |-> "start", game |-> g, team |-> Lots[g]]
      ended == [type |-> "ended", game |-> g]
      starts == IF with_self THEN <<start, [start EXCEPT !.team = Opponent(Lots[g])]>> ELSE <<start>>
      ends   == IF with_self THEN <<ended, ended>> ELSE <<ended>>
  IN /\ g \in GameIds
     /\ counter' = g
     /\ self' = IF with_self THEN self \cup {g} ELSE self
     /\ \/ Send(starts) /\ live' = live \cup {g} /\ UNCHANGED crossed
        \/ (Send(ends) \/ Send(ends \o starts)) /\ UNCHANGED live /\ crossed' = TRUE

(* The start could not be sent to the client that asked; then the one that *)
(* waited is not sent it either, and the game is in the table all the same.*)
StartUntold ==
  LET g == counter + 1
  IN /\ g \in GameIds
     /\ counter' = g
     /\ live' = live \cup {g}
     /\ untold' = untold \cup {g}
     /\ UNCHANGED <<fromServer, self, crossed>>

(* handle_match_game_message: the connection is paired with the one that   *)
(* waits, which may be itself, or is put into the queue, or there is no    *)
(* room for another game.                                                  *)
MatchGame ==
  /\ Request("match")
  /\ strayed' = (strayed \/ waiting \/ live # {})
  /\ strayed' => Strays
  /\ \/ StartGame(waiting) /\ waiting' = FALSE
     \/ /\ ~waiting
        /\ waiting' = TRUE
        /\ UNCHANGED <<live, self, counter, fromServer, crossed>>
     \/ /\ Send(<<[type |-> "error"]>>)
        /\ UNCHANGED <<waiting, live, self, counter, crossed>>
  /\ UNCHANGED <<moveVars, untold>>

(* Another client asks for a game while this one waits. *)
Paired ==
  /\ link = "up" /\ waiting
  /\ waiting' = FALSE
  /\ \/ StartGame(FALSE) /\ UNCHANGED untold
     \/ StartUntold
  /\ UNCHANGED <<clientRest, toServer, moveVars, strayed>>

(* handle_cancel_match_message: too late if a game has been found. *)
CancelMatch ==
  /\ Request("cancel")
  /\ waiting' = FALSE
  /\ UNCHANGED <<fromServer, live, self, moveVars, counter, untold, strayed, crossed>>

TurnOf(g) == IF moves[g] % 2 = 0 THEN "white" ELSE "black"

(* A move in game g has been applied and is sent to its players.  The      *)
(* mutex is not held: the timer thread may end the game before the         *)
(* broadcast, or after that of a final move and before the removal.  A     *)
(* move is named by its place among those of the game that are sent.       *)
Broadcast(g) ==
  \E end \in Ends :
    LET n     == moves[g] - unsent[g] + 1
        move  == Told(g, [type |-> "move", move |-> [game |-> g, n |-> n, end |-> end]])
        ended == Told(g, [type |-> "ended", game |-> g])
    IN /\ moves[g] < MaxMoves[g] /\ g \notin decided
       /\ moves' = [moves EXCEPT ![g] = @ + 1]
       /\ \/ /\ Send(move)
             /\ live' = IF end = "playing" THEN live ELSE live \ {g}
             /\ UNCHANGED crossed
          \/ /\ \/ Send(ended \o move)
                \/ end # "playing" /\ Send(move \o ended)
             /\ live' = live \ {g}
             /\ crossed' = TRUE
       /\ UNCHANGED <<unsent, decided>>

(* No send to the opponent has failed: a connection stays broken.          *)
Answers(g) == unsent[g] = 0 /\ g \notin untold

(* The move has been applied but could not be answered to the opponent:    *)
(* the handler returns before both broadcasts and before it looks for the  *)
(* end of the game, which stays in the table with the turn passed on.      *)
Unanswered(g) ==
  \E end \in Ends :
    /\ moves[g] < MaxMoves[g] /\ g \notin decided
    /\ moves' = [moves EXCEPT ![g] = @ + 1]
    /\ unsent' = [unsent EXCEPT ![g] = @ + 1]
    /\ decided' = IF end \in {"checkmate", "stalemate"} THEN decided \cup {g} ELSE decided
    /\ UNCHANGED <<fromServer, live, crossed>>

(* handle_move_message of the client, in the first of its games that the   *)
(* table holds: any, as the other slots are not seen here.  As long as the *)
(* connection is up the client can be answered.                            *)
Move ==
  /\ Request("move")
  /\ \/ \E g \in live :
          /\ g \in self \/ TurnOf(g) = Lots[g]
          /\ Broadcast(g)
     \/ UNCHANGED <<fromServer, live, moveVars, crossed>>
  /\ UNCHANGED <<waiting, self, counter, untold, strayed>>

OpponentMoves ==
  /\ link = "up"
  /\ \E g \in live \ self : TurnOf(g) # Lots[g] /\ ((Answers(g) /\ Broadcast(g)) \/ Unanswered(g))
  /\ UNCHANGED <<clientRest, toServer, waiting, self, counter, untold, strayed>>

(* handle_resign_message of the client. *)
Resign ==
  /\ Request("resign")
  /\ \/ /\ live = {}
        /\ Send(<<[type |-> "error"]>>)
        /\ UNCHANGED live
     \/ \E g \in live :
          /\ Send(Told(g, [type |-> "resigned", game |-> g]))
          /\ live' = live \ {g}
  /\ UNCHANGED <<waiting, self, moveVars, counter, untold, strayed, crossed>>

(* The opponent resigns or disconnects, or a flag falls. *)
GameEnds ==
  /\ link = "up"
  /\ \E g \in live :
       /\ \/ g \notin self /\ Send(Told(g, [type |-> "resigned", game |-> g]))
          \/ Send(Told(g, [type |-> "ended", game |-> g]))
       /\ live' = live \ {g}
  /\ UNCHANGED <<clientRest, toServer, waiting, self, moveVars, counter, untold, strayed, crossed>>

ServerNext ==
  \/ Connect \/ MatchGame \/ Paired \/ CancelMatch \/ Move \/ OpponentMoves \/ Resign \/ GameEnds

(* The client has been paired in a game that it is not told of, and has    *)
(* not yet learned of its end.                                             *)
Hidden ==
  LET Game(m) == IF m.type = "move" THEN m.move.game ELSE m.game
  IN \/ link = "up" /\ untold \cap live # {}
     \/ \E i \in DOMAIN fromServer : fromServer[i].type # "error" /\ Game(fromServer[i]) \in untold
     \/ net = "ending" /\ board[Len(board)].game \in untold

(* A match request is on its way or in the queue, or its answer is coming, *)
(* or should have come.                                                    *)
Pending ==
  \/ link = "up" /\ (waiting \/ \E i \in DOMAIN toServer : toServer[i] = "match")
  \/ \E i \in DOMAIN fromServer : fromServer[i].type = "start"
  \/ Hidden

(* The UI thread writes the screen, and the user has left what went on. *)
Leaves == current_screen' \notin {current_screen, "game"} /\ (Running \/ Pending)

UiHistory == wandered' = (wandered \/ Leaves) /\ UNCHANGED serverVars
Rest      == UNCHANGED <<serverVars, wandered>>

Next ==
  \/ UiNext /\ UiHistory
  \/ NetNext /\ Rest
  \/ ServerNext /\ UNCHANGED wandered

Spec == Init /\ [][Next]_vars

(* The UI loop goes round: getch times out after 50 ms, a send or the      *)
(* dialog for the name or a replay ends.  The user closes a dialog that is  *)
(* offered again and again.  The network thread handles what it receives   *)
(* and the server answers what it is sent.                                 *)
UiSteps     == UiNoKey \/ UiShow \/ UiReplayLeave \/ UiName \/ UiRequest \/ UiCancel \/ UiLeave
NetSteps    == NetPing \/ NetLost \/ NetStart \/ NetMove \/ NetMoveEnd \/ NetResigned \/ NetEnded \/ NetError
ServerSteps == MatchGame \/ CancelMatch \/ Move \/ Resign

FairSpec ==
  /\ Spec
  /\ WF_vars(UiSteps /\ UiHistory)
  /\ SF_vars(UiAck /\ UiHistory)
  /\ WF_vars(NetSteps /\ Rest)
  /\ WF_vars(ServerSteps /\ UNCHANGED wandered)

-----------------------------------------------------------------------------
(* Type correctness. *)
SessionTypeOK ==
  /\ connected \in BOOLEAN /\ link \in {"none", "up", "cut"}
  /\ toServer \in Seq(Requests)
  /\ net \in {"loop", "ping", "ending"}
  /\ ui \in {"key", "show", "name", "request", "cancel", "leave", "replay"} /\ seen \in BOOLEAN
  /\ current_screen \in {"main", "matching", "game"}
  /\ dialog \in Notices \cup {"none", "error"} /\ notices \subseteq Notices
  /\ resign_dialog_active \in BOOLEAN
  /\ board \in Seq(Moves) /\ local_team \in Teams /\ replayed \in BOOLEAN
  /\ connection \in 0 .. MaxConnections /\ asked \in 0 .. MaxConnections
  /\ shown \in GameIds \cup {NoGame}
  /\ outcome \in {"none", "running", "move", "resigned", "ended", "lost"}
  /\ saved \in [moves : 0 .. MAX_PGN_MOVES, result : Results]
  /\ wandered \in BOOLEAN /\ strayed \in BOOLEAN /\ crossed \in BOOLEAN
  /\ waiting \in BOOLEAN
  /\ live \subseteq GameIds /\ self \subseteq GameIds
  /\ moves \in [GameIds -> Nat] /\ unsent \in [GameIds -> Nat]
  /\ decided \subseteq GameIds /\ untold \subseteq GameIds
  /\ counter \in Nat

(* The client's board is the server's: for the live game shown last, the   *)
(* moves applied (handle_move_broadcast, which does not look at game ids)  *)
(* and those on their way are exactly the moves made, without those that   *)
(* could not be answered to the opponent and so were sent to nobody, and   *)
(* all of them are of that game.  So a client that never asks for a game   *)
(* while the server holds it in the queue or in a game never mixes two     *)
(* games up; only a replay begun meanwhile destroys the position.          *)
BoardAgrees ==
  (shown \in live /\ link = "up" /\ ~strayed /\ ~replayed) =>
    LET coming == {i \in DOMAIN fromServer :
                     fromServer[i].type = "move" /\ fromServer[i].move.game = shown}
    IN /\ \A i \in DOMAIN board : board[i].game = shown /\ board[i].n = i
       /\ Len(board) + Cardinality(coming) + unsent[shown] = moves[shown]
       /\ local_team = Lots[shown]

(* A client that shows the matching screen, with nothing on its way and    *)
(* nothing to be shown or closed, is in the server's queue, if the         *)
(* connection is still the one on which it asked: start_matching,          *)
(* cancel_matching and the handlers keep the screen and the queue together *)
(* although each writes the screen at another time.  Or else it is in a    *)
(* running game that it has not been told of, as the start could not be    *)
(* sent to the client that asked for the pair: when that game ends it is   *)
(* told of the end, and leaves the screen.                                 *)
MatchingMeansWaiting ==
  (/\ current_screen = "matching" /\ ui = "key" /\ dialog = "none" /\ notices = {}
   /\ connected /\ link = "up" /\ asked = connection
   /\ toServer = <<>> /\ fromServer = <<>> /\ net = "loop")
    => waiting \/ untold \cap live # {}

(* The dialog of a game that has ended is never laid over a running one,   *)
(* where closing it (client/main.c, UiAck) would leave the running game,   *)
(* unless the user has left a running game or a request that is pending,   *)
(* or was met by a game that the client is not told of, or the server told *)
(* of an end twice: nothing resets the flags when a game starts, only the  *)
(* order of the UI loop keeps them apart.  A request may be left by        *)
(* closing the dialog of an error, such as that of a resignation too late, *)
(* which may come up on the matching screen.                               *)
NoGhostDialog ==
  wandered \/ crossed \/ (dialog \in {"over", "resigned", "ended"} => ~Running)

(* A game that ended by a move or a resignation has been saved with all    *)
(* its moves (as far as the table goes) but those sent to nobody, and a    *)
(* mate with the right winner, if none is missing: the client finds the    *)
(* winner by itself, from its own board and team.  A replay does not touch *)
(* the list of moves, but it may falsify the winner.  The moves of a game  *)
(* that the client has not been told of are taken for those of the last.   *)
RecordFaithful ==
  (/\ ~strayed /\ outcome \in {"move", "resigned"} /\ board # <<>>
   /\ \A g \in untold : g <= shown) =>
    LET told == moves[shown] - unsent[shown]
    IN /\ saved.moves = IF told < MAX_PGN_MOVES THEN told ELSE MAX_PGN_MOVES
       /\ (board[Len(board)].end = "checkmate" /\ ~replayed /\ unsent[shown] = 0) =>
            saved.result = IF moves[shown] % 2 = 1 THEN "1-0" ELSE "0-1"

(* The end of a game by a move or by a resignation is shown in a dialog of *)
(* its own, however many dialogs are shown and closed before.              *)
EndIsShown ==
  /\ ("over" \in notices) ~> (dialog = "over")
  /\ ("resigned" \in notices) ~> (dialog = "resigned")
=============================================================================
