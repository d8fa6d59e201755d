---------------------------- MODULE ChessClient ----------------------------
(***************************************************************************)
(* A client: the UI thread, which runs the loop of client/main.c, and the  *)
(* network thread of client/client_network.c, which connects, receives and *)
(* runs the message handlers.  They share one client_state_t, most of it   *)
(* under screen_mutex but current_screen mostly without.                   *)
(*                                                                         *)
(* A round of the UI loop reads dialog_active, handles one key and then    *)
(* shows the foremost pending dialog.  The key is handled with the value   *)
(* read before it, and requests are cut where the network thread may come  *)
(* between reading the screen, sending, and writing the screen.            *)
(*                                                                         *)
(* A position is the sequence of moves applied since the last start, each  *)
(* with the game it was made in: the handlers do not look at game ids.     *)
(* Once a replay (module Replay) has used the board it is any position at  *)
(* all, until the next start.                                              *)
(* Replies that only add a line to the chat (queued, cancelled, move and   *)
(* resignation accepted or refused, ping) are left out, as are drawing,    *)
(* chat, the clock on display and leaving the program.                     *)
(***************************************************************************)
EXTENDS Naturals, Sequences, FiniteSets

CONSTANTS GameIds,        \* bound: games this client may be put in
          NoGame,         \* not a game id
          MaxConnections, \* bound: connections to the server
          MaxQueue,       \* bound: requests on their way
          Ends,           \* bound: how a move may leave the game
          MAX_PGN_MOVES

ASSUME ClientAssumption ==
  /\ NoGame \notin GameIds
  /\ Ends \subseteq {"playing", "checkmate", "stalemate", "fifty"}
  /\ MaxConnections \in Nat
  /\ MaxQueue \in Nat
  /\ MAX_PGN_MOVES \in Nat

VARIABLES connected, link,        \* the client's flag; the connection itself
          toServer, fromServer,   \* messages on their way, in order
          net,                    \* where the network thread is
          ui, seen,               \* where the UI thread is; dialog_active as it read it
          current_screen,
          dialog,                 \* what dialog_active is about, or "none"
          notices,                \* dialogs to be shown, by their flags
          resign_dialog_active,
          board, local_team,      \* the moves played and game_state.local_team
          replayed                \* a replay has been put on game_state.game instead

VARIABLES connection,   \* history: number of the connection
          asked,        \* history: connection of the last match request
          shown,        \* history: game of the last start handled
          outcome,      \* history: how its end was learned
          saved         \* history: its latest record

linkVars   == <<connected, link, toServer, fromServer, net, connection>>
screenVars == <<current_screen, dialog, notices, resign_dialog_active>>
gameVars   == <<board, replayed, local_team, shown, outcome, saved>>
clientVars == <<linkVars, screenVars, gameVars, ui, seen, asked>>

Teams    == {"white", "black"}
Requests == {"match", "cancel", "move", "resign"}
Moves    == [game : GameIds, n : Nat, end : Ends]   \* n: its place in the game
Results  == {"1-0", "0-1", "1/2-1/2", "*"}
NoRecord == [moves |-> 0, result |-> "*"]

(* connection_lost, resign_result_dialog_pending, opponent_disconnected    *)
(* (set by every GAME_END message) and game_end_dialog_pending.            *)
Notices == {"lost", "resigned", "ended", "over"}

(* The start position, and apply_move_from_server, which checks nothing. *)
StartPosition == <<>>
ApplyMove(position, move) == Append(position, move)

Opponent(team) == IF team = "white" THEN "black" ELSE "white"
SideToMove == IF Len(board) % 2 = 0 THEN "white" ELSE "black"
Running == outcome = "running"

(* init_client_state and init_game_state; both threads are about to enter  *)
(* their loops.                                                            *)
InitClient ==
  /\ connected = FALSE
  /\ link = "none"
  /\ toServer = <<>>
  /\ fromServer = <<>>
  /\ net = "loop"
  /\ ui = "show"
  /\ seen = FALSE
  /\ current_screen = "main"
  /\ dialog = "none"
  /\ notices = {}
  /\ resign_dialog_active = FALSE
  /\ board = StartPosition
  /\ replayed = FALSE
  /\ local_team = "white"
  /\ connection = 0
  /\ asked = 0
  /\ shown = NoGame
  /\ outcome = "none"
  /\ saved = NoRecord

-----------------------------------------------------------------------------
(* Sending: send_client_message on a connection that is up arrives; on one *)
(* that is broken it may fail or vanish.                                   *)
Sent(request) ==
  /\ connected
  /\ \/ /\ link = "up"
        /\ Len(toServer) < MaxQueue
        /\ toServer' = Append(toServer, request)
     \/ /\ link = "cut"
        /\ UNCHANGED toServer

NotSent == (~connected \/ link # "up") /\ UNCHANGED toServer

(* current_screen is written by the UI thread. *)
GotoScreen(screen) == current_screen' = screen

Key(screen) == ui = "key" /\ ~seen /\ current_screen = screen
GameKey     == Key("game") /\ ~resign_dialog_active

(* getch times out, or the key means nothing here. *)
UiNoKey ==
  /\ ui = "key"
  /\ ui' = "show"
  /\ UNCHANGED <<linkVars, screenVars, gameVars, seen, asked>>

(* Mutant: acknowledging a dialog clears every notice. *)
UiAckClearsAll ==
  /\ ui = "key" /\ seen
  /\ dialog' = "none"
  /\ notices' = {}
  /\ GotoScreen("main")
  /\ ui' = "show"
  /\ UNCHANGED <<linkVars, gameVars, seen, asked, resign_dialog_active>>

(* Enter on a dialog: it is closed, and whatever it was about the flag of  *)
(* a lost connection is cleared or else that of an ended game.             *)
UiAck ==
  /\ ui = "key" /\ seen
  /\ dialog' = "none"
  /\ notices' = IF "lost" \in notices THEN notices \ {"lost"} ELSE notices \ {"ended"}
  /\ GotoScreen("main")
  /\ ui' = "show"
  /\ UNCHANGED <<linkVars, gameVars, seen, asked, resign_dialog_active>>

(* The dialog to be shown first. *)
Foremost(pending) ==
  CASE "lost"     \in pending -> "lost"
    [] "resigned" \in pending -> "resigned"
    [] "ended"    \in pending -> "ended"
    [] OTHER -> "over"

(* Mutant: pending dialogs are shown on the game screen only. *)
UiShowInGame ==
  /\ ui = "show"
  /\ ui' = "key"
  /\ IF dialog = "none" /\ notices # {} /\ current_screen = "game"
     THEN /\ dialog' = Foremost(notices)
          /\ notices' = notices \ ({"resigned", "over"} \cap {Foremost(notices)})
     ELSE UNCHANGED <<dialog, notices>>
  /\ seen' = (dialog' # "none")
  /\ UNCHANGED <<linkVars, gameVars, asked, current_screen, resign_dialog_active>>

(* The end of the loop body: without an active dialog the foremost notice  *)
(* is shown.  The flags of a resignation and of an end by a move go down   *)
(* with it, the others when it is acknowledged.  The next round reads      *)
(* dialog_active before it handles a key.                                  *)
UiShow ==
  /\ ui = "show"
  /\ ui' = "key"
  /\ \/ /\ dialog = "none" /\ notices # {}
        /\ dialog' = Foremost(notices)
        /\ notices' = notices \ ({"resigned", "over"} \cap {Foremost(notices)})
     \/ /\ dialog # "none" \/ notices = {}
        /\ UNCHANGED <<dialog, notices>>
  /\ seen' = (dialog' # "none")
  /\ UNCHANGED <<linkVars, gameVars, asked, current_screen, resign_dialog_active>>

(* '1' on the main screen: the UI thread blocks in get_username_dialog. *)
UiMatchKey ==
  /\ Key("main")
  /\ ui' = "name"
  /\ UNCHANGED <<linkVars, screenVars, gameVars, seen, asked>>

(* '2': it blocks in replay_menu, ... *)
UiReplayKey ==
  /\ Key("main")
  /\ ui' = "replay"
  /\ UNCHANGED <<linkVars, screenVars, gameVars, seen, asked>>

(* ... where every step of a replay sets the one board of the client back  *)
(* and plays on it, even if a game has started meanwhile, ...              *)
UiReplay ==
  /\ ui = "replay"
  /\ replayed' = TRUE
  /\ UNCHANGED <<linkVars, screenVars, board, local_team, shown, outcome, saved, ui, seen, asked>>

(* ... until the user leaves it. *)
UiReplayLeave ==
  /\ ui = "replay"
  /\ ui' = "show"
  /\ UNCHANGED <<linkVars, screenVars, gameVars, seen, asked>>

(* A name, and start_matching shows the matching screen; or no name. *)
UiName ==
  /\ ui = "name"
  /\ \/ GotoScreen("matching") /\ ui' = "request"
     \/ UNCHANGED current_screen /\ ui' = "show"
  /\ UNCHANGED <<linkVars, gameVars, seen, asked, dialog, notices, resign_dialog_active>>

(* start_matching sends its request, or goes back to the main screen.      *)
UiRequest ==
  /\ ui = "request"
  /\ ui' = "show"
  /\ \/ /\ Sent("match")
        /\ asked' = connection
        /\ UNCHANGED current_screen
     \/ /\ NotSent
        /\ GotoScreen("main")
        /\ UNCHANGED asked
  /\ UNCHANGED <<connected, link, fromServer, net, connection, gameVars, seen,
                 dialog, notices, resign_dialog_active>>

(* ESC or 'c' on the matching screen. *)
UiCancelKey ==
  /\ Key("matching")
  /\ ui' = "cancel"
  /\ UNCHANGED <<linkVars, screenVars, gameVars, seen, asked>>

(* cancel_matching sends, or not, ... *)
UiCancel ==
  /\ ui = "cancel"
  /\ ui' = "leave"
  /\ Sent("cancel") \/ NotSent
  /\ UNCHANGED <<connected, link, fromServer, net, connection, screenVars, gameVars, seen, asked>>

(* Mutant: the matching screen stays. *)
UiLeaveStays ==
  /\ ui = "leave"
  /\ ui' = "show"
  /\ UNCHANGED <<linkVars, screenVars, gameVars, seen, asked>>

(* ... and goes to the main screen, whatever has become of the screen.     *)
UiLeave ==
  /\ ui = "leave"
  /\ ui' = "show"
  /\ GotoScreen("main")
  /\ UNCHANGED <<linkVars, gameVars, seen, asked, dialog, notices, resign_dialog_active>>

(* 'q' or '4' on the game screen: the server is not told. *)
UiQuit ==
  /\ GameKey
  /\ ui' = "show"
  /\ GotoScreen("main")
  /\ UNCHANGED <<linkVars, gameVars, seen, asked, dialog, notices, resign_dialog_active>>

(* '1' on the game screen asks for confirmation ... *)
UiResignKey ==
  /\ GameKey
  /\ ui' = "show"
  /\ resign_dialog_active' = TRUE
  /\ UNCHANGED <<linkVars, gameVars, seen, asked, current_screen, dialog, notices>>

(* ... which is given, and send_resign_request sends or fails, or refused. *)
UiConfirm ==
  /\ Key("game") /\ resign_dialog_active
  /\ ui' = "show"
  /\ resign_dialog_active' = FALSE
  /\ Sent("resign") \/ NotSent \/ UNCHANGED toServer
  /\ UNCHANGED <<connected, link, fromServer, net, connection, gameVars, seen, asked,
                 current_screen, dialog, notices>>

(* A move is asked for: by the second click of handle_board_click or the   *)
(* cursor, at any time, since nothing puts the piece taken up by the first *)
(* one back when the turn passes or the game ends, and the mouse works     *)
(* under the dialog for resigning ...                                      *)
UiMove ==
  /\ Key("game")
  /\ ui' = "show"
  /\ Sent("move") \/ NotSent
  /\ UNCHANGED <<connected, link, fromServer, net, connection, screenVars, gameVars, seen, asked>>

(* ... or by "move:e2e4" in the chat, where the turn is looked at. *)
UiNotation ==
  /\ GameKey
  /\ replayed \/ SideToMove = local_team
  /\ ui' = "show"
  /\ Sent("move") \/ NotSent
  /\ UNCHANGED <<connected, link, fromServer, net, connection, screenVars, gameVars, seen, asked>>

-----------------------------------------------------------------------------
(* Mutant: the end of the table is found one move too late. *)
PgnMoveCountLate ==
  LET new == {i \in DOMAIN board : i = 1 \/ board[i] # board[i - 1]}
  IN IF Cardinality(new) <= MAX_PGN_MOVES + 1 THEN Cardinality(new) ELSE MAX_PGN_MOVES + 1

(* The moves recorded for the PGN file: a broadcast equal to the last one  *)
(* recorded is taken for its duplicate, and the table has an end.          *)
PgnMoveCount ==
  LET new == {i \in DOMAIN board : i = 1 \/ board[i] # board[i - 1]}
  IN IF Cardinality(new) < MAX_PGN_MOVES THEN Cardinality(new) ELSE MAX_PGN_MOVES

LocalWins  == IF local_team = "white" THEN "1-0" ELSE "0-1"
LocalLoses == IF local_team = "white" THEN "0-1" ELSE "1-0"

(* Mutant: the side to move wins by checkmate. *)
PgnResultSwapped ==
  LET last == IF board = <<>> THEN "playing" ELSE board[Len(board)].end
  IN CASE last = "checkmate" -> IF SideToMove = local_team THEN LocalWins ELSE LocalLoses
       [] last = "stalemate" -> "1/2-1/2"
       [] last \notin {"checkmate", "stalemate"} /\ "ended" \in notices -> LocalWins
       [] OTHER -> "*"

(* pgn_result as save_current_game sets it, whatever it was before.        *)
PgnResult ==
  LET last == IF board = <<>> THEN "playing" ELSE board[Len(board)].end
  IN CASE last = "checkmate" -> IF SideToMove = local_team THEN LocalLoses ELSE LocalWins
       [] last = "stalemate" -> "1/2-1/2"
       [] last \notin {"checkmate", "stalemate"} /\ "ended" \in notices -> LocalWins
       [] OTHER -> "*"

(* A replay's board may show a mate of either side, a stalemate or none.   *)
PgnResults ==
  IF replayed THEN {"1-0", "0-1", "1/2-1/2", IF "ended" \in notices THEN LocalWins ELSE "*"}
  ELSE {PgnResult}

(* save_current_game: a game without moves is not saved.                   *)
SaveCurrentGame ==
  \E result \in PgnResults :
    saved' = IF board = <<>> THEN saved ELSE [moves |-> PgnMoveCount, result |-> result]

(* '3' on the game screen. *)
UiSave ==
  /\ GameKey
  /\ ui' = "show"
  /\ SaveCurrentGame
  /\ UNCHANGED <<linkVars, screenVars, board, replayed, local_team, shown, outcome, seen, asked>>

UiNext ==
  \/ UiNoKey \/ UiAck \/ UiShow
  \/ UiReplayKey \/ UiReplay \/ UiReplayLeave
  \/ UiMatchKey \/ UiName \/ UiRequest \/ UiCancelKey \/ UiCancel \/ UiLeave
  \/ UiQuit \/ UiResignKey \/ UiConfirm \/ UiMove \/ UiNotation \/ UiSave

-----------------------------------------------------------------------------
uiVars == <<ui, seen, asked>>

(* The client has learned how game g ended. *)
Learned(g, how) == outcome' = IF g = shown /\ Running THEN how ELSE outcome

(* start_reconnect gets a connection; the ping is sent afterwards.  An     *)
(* attempt that fails leaves everything as it was.                         *)
NetConnect ==
  /\ net = "loop" /\ ~connected
  /\ connection < MaxConnections
  /\ connected' = TRUE
  /\ link' = "up"
  /\ connection' = connection + 1
  /\ net' = "ping"
  /\ UNCHANGED <<toServer, fromServer, screenVars, gameVars, uiVars>>

(* The socket is closed: what was on its way is lost. *)
Hangup ==
  /\ connected' = FALSE
  /\ link' = "none"
  /\ toServer' = <<>>
  /\ fromServer' = <<>>

(* The ping goes out, or the new connection is given up at once. *)
NetPing ==
  /\ net = "ping"
  /\ net' = "loop"
  /\ \/ UNCHANGED <<connected, link, toServer, fromServer>>
     \/ link = "cut" /\ Hangup
  /\ UNCHANGED <<connection, screenVars, gameVars, uiVars>>

(* receive_server_message returns NULL: only on the game screen is the     *)
(* user to hear of it.                                                     *)
NetLost ==
  /\ net = "loop" /\ connected /\ link = "cut"
  /\ Hangup
  /\ notices' = IF current_screen = "game" THEN notices \cup {"lost"} ELSE notices
  /\ Learned(shown, "lost")
  /\ UNCHANGED <<net, connection, current_screen, dialog, resign_dialog_active,
                 board, replayed, local_team, shown, saved, uiVars>>

(* The connection breaks: the peer is gone or the network fails. *)
Cut ==
  /\ link = "up"
  /\ link' = "cut"
  /\ UNCHANGED <<connected, toServer, fromServer, net, connection, screenVars, gameVars, uiVars>>

Message == Head(fromServer)

Receive(type) ==
  /\ net = "loop" /\ connected
  /\ fromServer # <<>>
  /\ Message.type = type
  /\ fromServer' = Tail(fromServer)
  /\ UNCHANGED <<connected, link, toServer, connection, resign_dialog_active, uiVars>>

(* Mutant: the board is not reset for a new game. *)
NetStartKeepsBoard ==
  /\ Receive("start")
  /\ current_screen' = "game"
  /\ local_team' = Message.team
  /\ shown' = Message.game
  /\ outcome' = "running" /\ saved' = NoRecord
  /\ replayed' = FALSE
  /\ UNCHANGED <<net, dialog, notices, board>>

(* handle_match_game_response with a team: whatever the screen, the game   *)
(* is shown, on a board in the start position, with an empty record.       *)
NetStart ==
  /\ Receive("start")
  /\ current_screen' = "game"
  /\ local_team' = Message.team
  /\ board' = StartPosition
  /\ shown' = Message.game
  /\ outcome' = "running" /\ saved' = NoRecord
  /\ replayed' = FALSE
  /\ UNCHANGED <<net, dialog, notices>>

(* handle_move_broadcast: the move is applied and recorded without a look  *)
(* at its game, then comes the end of the game, if it is one.              *)
NetMove ==
  /\ Receive("move")
  /\ board' = ApplyMove(board, Message.move)
  /\ net' = IF Message.move.end = "playing" THEN "loop" ELSE "ending"
  /\ UNCHANGED <<current_screen, dialog, notices, replayed, local_team, shown, outcome, saved>>

(* The game is saved, then its end is put down to be shown. *)
NetMoveEnd ==
  /\ net = "ending"
  /\ net' = "loop"
  /\ SaveCurrentGame
  /\ notices' = notices \cup {"over"}
  /\ Learned(board[Len(board)].game, "move")
  /\ UNCHANGED <<connected, link, toServer, fromServer, connection, current_screen, dialog,
                 resign_dialog_active, board, replayed, local_team, shown, uiVars>>

(* handle_resign_broadcast. *)
NetResigned ==
  /\ Receive("resigned")
  /\ SaveCurrentGame
  /\ notices' = notices \cup {"resigned"}
  /\ Learned(Message.game, "resigned")
  /\ UNCHANGED <<net, current_screen, dialog, board, replayed, local_team, shown>>

(* handle_game_end_broadcast, for a timeout or a lost opponent: the game   *)
(* is not saved.                                                           *)
NetEnded ==
  /\ Receive("ended")
  /\ notices' = notices \cup {"ended"}
  /\ Learned(Message.game, "ended")
  /\ UNCHANGED <<net, current_screen, dialog, board, replayed, local_team, shown, saved>>

(* handle_error_response: show_dialog raises dialog_active by itself. *)
NetError ==
  /\ Receive("error")
  /\ dialog' = IF dialog = "none" THEN "error" ELSE dialog
  /\ UNCHANGED <<net, current_screen, notices, board, replayed, local_team, shown, outcome, saved>>

NetNext ==
  \/ NetPing \/ NetLost \/ Cut
  \/ NetStart \/ NetMove \/ NetMoveEnd \/ NetResigned \/ NetEnded \/ NetError
=============================================================================
