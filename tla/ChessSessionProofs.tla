------------------------- MODULE ChessSessionProofs -------------------------
(***************************************************************************)
(* Proofs about ChessSession: a client and the server at the other end of  *)
(* its connection, for any number of games, moves, connections and         *)
(* messages on their way.                                                  *)
(***************************************************************************)
EXTENDS ChessSession, SequenceTheorems, FiniteSetTheorems, TLAPS

(* What the server sends. *)
Messages ==
  [type : {"start"}, game : GameIds, team : Teams]
    \cup [type : {"move"}, move : Moves]
    \cup [type : {"resigned", "ended"}, game : GameIds]
    \cup [type : {"error"}]

TypeInv ==
  /\ SessionTypeOK /\ fromServer \in Seq(Messages)
  /\ \A g \in GameIds : unsent[g] <= moves[g]

(* The moves of each game that were sent to its players: what the stream   *)
(* is about.                                                               *)
sent == [g \in GameIds |-> moves[g] - unsent[g]]

(* The flag of the client and the connection go up and down together, and  *)
(* nothing is on its way where there is none; no game runs without one.    *)
LinkInv ==
  /\ connected <=> link # "none"
  /\ ~connected => toServer = <<>> /\ fromServer = <<>>
  /\ ~connected \/ net = "ping" => ~Running

-----------------------------------------------------------------------------
(* A message that takes the matching screen away, at once or by the dialog *)
(* that it raises: a start, an error, or the end of a game.                *)
IsAnswer(m) ==
  \/ m.type \in {"start", "error", "resigned", "ended"}
  \/ m.type = "move" /\ m.move.end # "playing"
HasAnswer(messages) == \E i \in DOMAIN messages : IsAnswer(messages[i])
Answer == HasAnswer(fromServer) \/ notices # {} \/ net = "ending"

(* On the matching screen, outside of start_matching and cancel_matching:  *)
(* the request is the last on its way to the server, or the connection is  *)
(* queued or in a game that it is not told of, or an answer is coming, or  *)
(* being handled or shown, that takes the screen away.                     *)
Matching ==
  /\ current_screen = "matching" /\ ui \in {"key", "show"} /\ dialog = "none"
  /\ link = "up" /\ asked = connection
Queued ==
  \/ toServer # <<>> /\ toServer[Len(toServer)] = "match"
  \/ toServer = <<>> /\ (waiting \/ untold \cap live # {} \/ Answer)

MatchingInv ==
  /\ asked <= connection
  /\ ui \in {"name", "replay"} => current_screen # "matching"
  /\ Matching => Queued

-----------------------------------------------------------------------------
(* The messages on their way, by their place: those about games, and the   *)
(* games and the moves they are about.                                     *)
News == {i \in DOMAIN fromServer : fromServer[i].type # "error"}
At(type) == {i \in DOMAIN fromServer : fromServer[i].type = type}
G(i) == IF fromServer[i].type = "move" THEN fromServer[i].move.game ELSE fromServer[i].game
N(i) == fromServer[i].move.n
Final(i) == fromServer[i].move.end # "playing"

(* One game at a time: the one started last. *)
OneGame ==
  /\ self = {} /\ (waiting => live = {}) /\ \A g \in live : g = counter
  /\ \A g \in GameIds : g > counter => sent[g] = 0
  /\ shown # NoGame => shown <= counter
  /\ \A g \in untold : g <= counter /\ g # shown
  /\ \A i \in At("start") : G(i) \notin untold

(* The game shown is none of those that the client has not been told of,   *)
(* and came after them: no move of theirs has been put on its board.       *)
Clear == shown # NoGame /\ \A g \in untold : g < shown

(* The games come one after another. *)
GamesInOrder ==
  /\ \A i \in News : G(i) <= counter
  /\ \A i, j \in News : i < j => G(i) <= G(j) /\ (j \in At("start") => G(i) < G(j) \/ i \in At("ended"))
  /\ shown # NoGame => \A i \in News : shown <= G(i) /\ (i \in At("start") => shown < G(i))

(* The moves of a game come one after another, behind its start. *)
MovesInOrder ==
  /\ \A i \in At("move") : N(i) >= 1 /\ N(i) <= sent[G(i)]
  /\ \A i, j \in At("move") : i < j /\ G(i) = G(j) => N(i) < N(j)
  /\ \A i \in At("move") : shown = G(i) => Len(board) < N(i)
  /\ \A i \in At("move") :
       \/ N(i) = 1 /\ \E j \in At("start") : j < i /\ G(j) = G(i)
       \/ \E j \in At("move") : j < i /\ G(j) = G(i) /\ N(j) = N(i) - 1
       \/ shown = G(i) /\ Len(board) = N(i) - 1
       \/ G(i) \in untold

(* The board holds the moves of the game shown. *)
BoardInv ==
  Clear =>
    /\ \A i \in DOMAIN board : board[i].game = shown /\ board[i].n = i
    /\ Len(board) <= sent[shown]
    /\ board # <<>> /\ board[Len(board)].end # "playing" => Len(board) = sent[shown] /\ shown \notin live

(* The last move of a game that runs, or is to run, is not lost. *)
NoneMissing ==
  /\ Running => shown # NoGame
  /\ Running /\ Clear /\ Len(board) < sent[shown] =>
       \E i \in At("move") : G(i) = shown /\ N(i) = sent[shown]
  /\ \A s \in At("start") : sent[G(s)] > 0 =>
       \E i \in At("move") : G(i) = G(s) /\ N(i) = sent[G(s)]

(* A resignation and a final move are the end of a game's moves. *)
EndsLast ==
  /\ \A i \in At("ended") : G(i) \notin live
  /\ \A i \in At("resigned") : G(i) \notin live /\ \A j \in At("move") : i < j => G(i) # G(j)
  /\ \A i \in At("move") : Final(i) => N(i) = sent[G(i)] /\ G(i) \notin live

(* The live game: all that is on its way behind its start are its moves. *)
LiveInv ==
  connected => \A g \in live :
    \/ /\ shown = g /\ local_team = Lots[g]
       /\ Len(board) + Len(fromServer) = sent[g]
       /\ \A i \in DOMAIN fromServer : i \in At("move") /\ G(i) = g /\ N(i) = Len(board) + i
    \/ \E s \in At("start") :
         /\ G(s) = g /\ fromServer[s].team = Lots[g]
         /\ Len(fromServer) = s + sent[g]
         /\ \A i \in DOMAIN fromServer : i > s => i \in At("move") /\ G(i) = g /\ N(i) = i - s
    \/ g \in untold

(* What has been saved when the end of the game is known. *)
Capped(n) == IF n < MAX_PGN_MOVES THEN n ELSE MAX_PGN_MOVES
SavedInv ==
  /\ net = "ending" => board # <<>> /\ board[Len(board)].end # "playing"
  /\ outcome \in {"move", "resigned"} => shown # NoGame
  /\ outcome \in {"move", "resigned"} /\ Clear =>
       /\ Len(board) = sent[shown] /\ shown \notin live
       /\ board # <<>> =>
            /\ saved.moves = Capped(Len(board))
            /\ board[Len(board)].end = "checkmate" /\ ~replayed =>
                 saved.result = IF Len(board) % 2 = 1 THEN "1-0" ELSE "0-1"

StreamInv ==
  ~strayed =>
    /\ OneGame /\ GamesInOrder /\ MovesInOrder /\ BoardInv
    /\ NoneMissing /\ EndsLast /\ LiveInv /\ SavedInv
-----------------------------------------------------------------------------
(* Types. *)
LEMMA PgnMoveCountType ==
  ASSUME board \in Seq(Moves)
  PROVE  PgnMoveCount \in 0 .. MAX_PGN_MOVES
<1> DEFINE new == {i \in DOMAIN board : i = 1 \/ board[i] # board[i - 1]}
<1>1. Len(board) \in Nat /\ DOMAIN board = 1 .. Len(board)
  BY LenProperties
<1>2. IsFiniteSet(1 .. Len(board))
  BY <1>1, FS_Interval
<1>3. IsFiniteSet(new)
  BY <1>1, <1>2, FS_Subset
<1>4. Cardinality(new) \in Nat
  BY <1>3, FS_CardinalityType
<1> HIDE DEF new
<1>5. PgnMoveCount = IF Cardinality(new) < MAX_PGN_MOVES THEN Cardinality(new) ELSE MAX_PGN_MOVES
  BY DEF PgnMoveCount, new
<1> QED BY <1>4, <1>5, ClientAssumption

LEMMA SavedType ==
  ASSUME TypeInv, SaveCurrentGame
  PROVE  saved' \in [moves : 0 .. MAX_PGN_MOVES, result : Results]
<1>1. PgnMoveCount \in 0 .. MAX_PGN_MOVES
  BY PgnMoveCountType DEF TypeInv, SessionTypeOK
<1>2. PgnResults \subseteq Results
  BY DEF PgnResults, PgnResult, LocalWins, LocalLoses, Results
<1>3. saved \in [moves : 0 .. MAX_PGN_MOVES, result : Results]
  BY DEF TypeInv, SessionTypeOK
<1> QED BY <1>1, <1>2, <1>3 DEF SaveCurrentGame

LEMMA SentType ==
  ASSUME TypeInv, NEW request \in Requests, Sent(request) \/ NotSent
  PROVE  toServer' \in Seq(Requests)
<1>1. toServer \in Seq(Requests)
  BY DEF TypeInv, SessionTypeOK
<1>2. Append(toServer, request) \in Seq(Requests)
  BY <1>1, AppendProperties
<1> QED BY <1>1, <1>2 DEF Sent, NotSent

(* What a step of the UI thread may write. *)
Screens == {"main", "matching", "game"}
LEMMA UiWrites ==
  ASSUME UiNext
  PROVE  /\ UNCHANGED <<connected, link, fromServer, net, connection,
                        board, local_team, shown, outcome>>
         /\ UNCHANGED toServer \/ \E request \in Requests : Sent(request) \/ NotSent
         /\ UNCHANGED current_screen \/ \E screen \in Screens : GotoScreen(screen)
         /\ UNCHANGED <<dialog, notices>> \/ UiAck \/ UiShow
         /\ \/ UNCHANGED saved /\ replayed' \in {replayed, TRUE}
            \/ SaveCurrentGame /\ UNCHANGED replayed
         /\ ui' \in {"key", "show", "name", "request", "cancel", "leave", "replay"}
         /\ asked' \in {asked, connection}
<1> USE DEF UiNext, UiNoKey, UiAck, UiShow, UiReplayKey, UiReplay, UiReplayLeave, UiMatchKey, UiName,
            UiRequest, UiCancelKey, UiCancel, UiLeave, UiQuit, UiResignKey, UiConfirm, UiMove,
            UiNotation, UiSave, linkVars, screenVars, gameVars
<1>1. UNCHANGED <<connected, link, fromServer, net, connection, board, local_team, shown, outcome>>
  OBVIOUS
<1>2. UNCHANGED toServer \/ \E request \in Requests : Sent(request) \/ NotSent
  BY DEF Requests
<1>3. UNCHANGED current_screen \/ \E screen \in Screens : GotoScreen(screen)
  BY DEF Screens
<1>4. UNCHANGED <<dialog, notices>> \/ UiAck \/ UiShow
  OBVIOUS
<1>5. \/ UNCHANGED saved /\ replayed' \in {replayed, TRUE}
      \/ SaveCurrentGame /\ UNCHANGED replayed
  OBVIOUS
<1>6. ui' \in {"key", "show", "name", "request", "cancel", "leave", "replay"}
  OBVIOUS
<1>7. asked' \in {asked, connection}
  OBVIOUS
<1> QED BY <1>1, <1>2, <1>3, <1>4, <1>5, <1>6, <1>7

LEMMA UiTypes ==
  ASSUME TypeInv, UiNext, UNCHANGED serverVars, wandered' \in BOOLEAN
  PROVE  TypeInv'
<1> USE DEF TypeInv, SessionTypeOK
<1>1. toServer' \in Seq(Requests)
  BY UiWrites, SentType
<1>2. current_screen' \in Screens
  BY UiWrites DEF GotoScreen, Screens
<1>3. dialog' \in Notices \cup {"none", "error"} /\ notices' \subseteq Notices
  <2>1. CASE UiAck
    BY <2>1 DEF UiAck
  <2>2. CASE UiShow
    BY <2>2 DEF UiShow, Foremost, Notices
  <2> QED BY <2>1, <2>2, UiWrites
<1>4. resign_dialog_active' \in BOOLEAN /\ seen' \in BOOLEAN
  BY DEF UiNext, UiNoKey, UiAck, UiShow, UiReplayKey, UiReplay, UiReplayLeave, UiMatchKey, UiName,
         UiRequest, UiCancelKey, UiCancel, UiLeave, UiQuit, UiResignKey, UiConfirm, UiMove,
         UiNotation, UiSave, screenVars
<1>5. saved' \in [moves : 0 .. MAX_PGN_MOVES, result : Results]
  BY UiWrites, SavedType
<1>6. ui' \in {"key", "show", "name", "request", "cancel", "leave", "replay"}
  BY UiWrites
<1>7. asked' \in 0 .. MaxConnections /\ replayed' \in BOOLEAN
  BY UiWrites
<1>8. UNCHANGED <<connected, link, fromServer, net, connection, board, local_team, shown, outcome>>
  BY UiWrites
<1> QED
  BY <1>1, <1>2, <1>3, <1>4, <1>5, <1>6, <1>7, <1>8 DEF serverVars, moveVars, Screens

(* What has come in is what the server sends. *)
LEMMA ReceivedType ==
  ASSUME TypeInv, NEW type, Receive(type)
  PROVE  /\ Message \in Messages /\ Message.type = type
         /\ fromServer' \in Seq(Messages)
BY DEF TypeInv, Receive, Message

LEMMA MessageTypes ==
  ASSUME NEW m \in Messages
  PROVE  /\ m.type \in {"start", "move", "resigned", "ended", "error"}
         /\ m.type = "start" => m.game \in GameIds /\ m.team \in Teams
         /\ m.type = "move" => m.move \in Moves
         /\ m.type \in {"resigned", "ended"} => m.game \in GameIds
BY DEF Messages

LEMMA NetTypes ==
  ASSUME TypeInv, NetNext, UNCHANGED serverVars, wandered' \in BOOLEAN
  PROVE  TypeInv'
<1> USE DEF TypeInv, SessionTypeOK
<1>1. ASSUME NetPing \/ Cut PROVE TypeInv'
  <2>1. /\ connected' \in BOOLEAN /\ link' \in {"none", "up", "cut"}
        /\ net' \in {"loop", "ping", "ending"}
    BY <1>1 DEF NetPing, Cut, Hangup
  <2>2. toServer' \in Seq(Requests) /\ fromServer' \in Seq(Messages)
    <3>1. \/ UNCHANGED <<toServer, fromServer>>
          \/ toServer' = <<>> /\ fromServer' = <<>>
      BY <1>1 DEF NetPing, Cut, Hangup
    <3>2. <<>> \in Seq(Requests) /\ <<>> \in Seq(Messages)
      BY EmptySeq
    <3> QED BY <3>1, <3>2
  <2>3. UNCHANGED <<connection, screenVars, gameVars, uiVars>>
    BY <1>1 DEF NetPing, Cut
  <2> QED BY <2>1, <2>2, <2>3 DEF serverVars, moveVars, screenVars, gameVars, uiVars
<1>2. ASSUME NetLost PROVE TypeInv'
  <2>1. connected' \in BOOLEAN /\ link' \in {"none", "up", "cut"}
    BY <1>2 DEF NetLost, Hangup
  <2>2. toServer' \in Seq(Requests) /\ fromServer' \in Seq(Messages)
    BY <1>2 DEF NetLost, Hangup
  <2>3. notices' \subseteq Notices
    BY <1>2 DEF NetLost, Notices
  <2>4. outcome' \in {"none", "running", "move", "resigned", "ended", "lost"}
    BY <1>2 DEF NetLost, Learned
  <2>5. UNCHANGED <<net, connection, current_screen, dialog, resign_dialog_active,
                    board, replayed, local_team, shown, saved, uiVars>>
    BY <1>2 DEF NetLost
  <2> QED BY <2>1, <2>2, <2>3, <2>4, <2>5 DEF serverVars, moveVars, uiVars
<1>3. ASSUME NetStart PROVE TypeInv'
  <2>1. /\ fromServer' \in Seq(Messages) /\ Message.game \in GameIds /\ Message.team \in Teams
    BY <1>3, ReceivedType, MessageTypes DEF NetStart
  <2>2. StartPosition \in Seq(Moves) /\ NoRecord \in [moves : 0 .. MAX_PGN_MOVES, result : Results]
    BY ClientAssumption DEF StartPosition, NoRecord, Results
  <2>3. /\ board' \in Seq(Moves) /\ saved' \in [moves : 0 .. MAX_PGN_MOVES, result : Results]
        /\ shown' \in GameIds \cup {NoGame} /\ local_team' \in Teams /\ replayed' \in BOOLEAN
        /\ outcome' = "running" /\ current_screen' = "game"
    BY <1>3, <2>1, <2>2 DEF NetStart
  <2>4. UNCHANGED <<net, dialog, notices, connected, link, toServer, connection,
                    resign_dialog_active, uiVars>>
    BY <1>3 DEF NetStart, Receive
  <2>5. UNCHANGED <<waiting, live, self, moves, unsent, decided, counter, untold, strayed, crossed>>
    BY DEF serverVars, moveVars
  <2>6. UNCHANGED <<ui, seen, asked>>
    BY <2>4 DEF uiVars
  <2>7. /\ waiting' \in BOOLEAN /\ live' \subseteq GameIds /\ self' \subseteq GameIds
        /\ moves' \in [GameIds -> Nat] /\ unsent' \in [GameIds -> Nat]
        /\ decided' \subseteq GameIds /\ untold' \subseteq GameIds /\ counter' \in Nat
        /\ strayed' \in BOOLEAN /\ crossed' \in BOOLEAN
        /\ \A g \in GameIds : unsent'[g] <= moves'[g]
    BY <2>5
  <2>8. /\ connected' \in BOOLEAN /\ link' \in {"none", "up", "cut"} /\ toServer' \in Seq(Requests)
        /\ net' \in {"loop", "ping", "ending"} /\ connection' \in 0 .. MaxConnections
        /\ dialog' \in Notices \cup {"none", "error"} /\ notices' \subseteq Notices
        /\ resign_dialog_active' \in BOOLEAN
    BY <2>4
  <2>9. /\ ui' \in {"key", "show", "name", "request", "cancel", "leave", "replay"}
        /\ seen' \in BOOLEAN /\ asked' \in 0 .. MaxConnections
    BY <2>6
  <2> QED BY <2>1, <2>3, <2>7, <2>8, <2>9
<1>4. ASSUME NetMove PROVE TypeInv'
  <2>1. fromServer' \in Seq(Messages) /\ Message.move \in Moves
    BY <1>4, ReceivedType, MessageTypes DEF NetMove
  <2>2. ApplyMove(board, Message.move) \in Seq(Moves)
    BY <2>1, AppendProperties DEF ApplyMove
  <2> QED BY <1>4, <2>1, <2>2 DEF NetMove, Receive, serverVars, moveVars, uiVars
<1>5. ASSUME NetMoveEnd PROVE TypeInv'
  <2>1. saved' \in [moves : 0 .. MAX_PGN_MOVES, result : Results]
    BY <1>5, SavedType DEF NetMoveEnd
  <2> QED BY <1>5, <2>1 DEF NetMoveEnd, Learned, Notices, serverVars, moveVars, uiVars
<1>6. ASSUME NetResigned PROVE TypeInv'
  <2>1. fromServer' \in Seq(Messages)
    BY <1>6, ReceivedType DEF NetResigned
  <2>2. saved' \in [moves : 0 .. MAX_PGN_MOVES, result : Results]
    BY <1>6, SavedType DEF NetResigned
  <2> QED BY <1>6, <2>1, <2>2 DEF NetResigned, Receive, Learned, Notices, serverVars, moveVars, uiVars
<1>7. ASSUME NetEnded PROVE TypeInv'
  <2>1. fromServer' \in Seq(Messages)
    BY <1>7, ReceivedType DEF NetEnded
  <2> QED BY <1>7, <2>1 DEF NetEnded, Receive, Learned, Notices, serverVars, moveVars, uiVars
<1>8. ASSUME NetError PROVE TypeInv'
  <2>1. fromServer' \in Seq(Messages)
    BY <1>8, ReceivedType DEF NetError
  <2> QED BY <1>8, <2>1 DEF NetError, Receive, serverVars, moveVars, uiVars
<1> QED BY <1>1, <1>2, <1>3, <1>4, <1>5, <1>6, <1>7, <1>8 DEF NetNext

(* The messages of each kind. *)
StartOf(g, team) == [type |-> "start", game |-> g, team |-> team]
MoveOf(g, n, end) == [type |-> "move", move |-> [game |-> g, n |-> n, end |-> end]]
ResignedOf(g) == [type |-> "resigned", game |-> g]
EndedOf(g)    == [type |-> "ended", game |-> g]
Error         == [type |-> "error"]

LEMMA MadeTypes ==
  ASSUME NEW g \in GameIds
  PROVE  /\ \A team \in Teams : StartOf(g, team) \in Messages
         /\ \A n \in Nat, end \in Ends : MoveOf(g, n, end) \in Messages
         /\ ResignedOf(g) \in Messages /\ EndedOf(g) \in Messages /\ Error \in Messages
<1>1. \A team \in Teams : StartOf(g, team) \in Messages
  BY DEF StartOf, Messages
<1>2. ASSUME NEW n \in Nat, NEW end \in Ends PROVE MoveOf(g, n, end) \in Messages
  BY DEF MoveOf, Messages, Moves
<1>3. ResignedOf(g) \in Messages /\ EndedOf(g) \in Messages
  BY DEF ResignedOf, EndedOf, Messages
<1>4. Error \in Messages
  BY DEF Error, Messages
<1> QED BY <1>1, <1>2, <1>3, <1>4

LEMMA SendType ==
  ASSUME TypeInv, NEW messages \in Seq(Messages), Send(messages)
  PROVE  fromServer' \in Seq(Messages)
BY ConcatProperties DEF TypeInv, Send

LEMMA ToldType ==
  ASSUME NEW g, NEW m \in Messages
  PROVE  Told(g, m) \in Seq(Messages)
BY DEF Told

(* The moves sent are counted, and those sent to nobody are not among them.*)
LEMMA SentFacts ==
  ASSUME TypeInv
  PROVE  /\ sent \in [GameIds -> Nat]
         /\ \A g \in GameIds : sent[g] = moves[g] - unsent[g] /\ sent[g] <= moves[g]
         /\ UNCHANGED moveVars => sent' = sent
<1>1. moves \in [GameIds -> Nat] /\ unsent \in [GameIds -> Nat]
      /\ \A g \in GameIds : unsent[g] <= moves[g]
  BY DEF TypeInv, SessionTypeOK
<1>2. \A g \in GameIds : moves[g] \in Nat /\ unsent[g] \in Nat
  BY <1>1, SessionAssumption
<1>3. \A g \in GameIds : moves[g] - unsent[g] \in Nat /\ moves[g] - unsent[g] <= moves[g]
  BY <1>1, <1>2
<1>4. UNCHANGED moveVars => sent' = sent
  BY DEF moveVars, sent
<1> QED BY <1>3, <1>4 DEF sent

(* The outcomes of a broadcast. *)
LEMMA BroadcastWrites ==
  ASSUME TypeInv, NEW g \in live, Broadcast(g)
  PROVE  /\ moves[g] < MaxMoves[g] /\ moves' = [moves EXCEPT ![g] = @ + 1]
         /\ UNCHANGED <<unsent, decided>>
         /\ sent' = [sent EXCEPT ![g] = @ + 1]
         /\ \E end \in Ends :
              \/ /\ Send(Told(g, MoveOf(g, sent[g] + 1, end)))
                 /\ live' = IF end = "playing" THEN live ELSE live \ {g}
                 /\ UNCHANGED crossed
              \/ /\ Send(Told(g, EndedOf(g)) \o Told(g, MoveOf(g, sent[g] + 1, end)))
                 /\ live' = live \ {g} /\ crossed' = TRUE
              \/ /\ end # "playing"
                 /\ Send(Told(g, MoveOf(g, sent[g] + 1, end)) \o Told(g, EndedOf(g)))
                 /\ live' = live \ {g} /\ crossed' = TRUE
<1>1. g \in GameIds /\ sent[g] = moves[g] - unsent[g]
  BY SentFacts DEF TypeInv, SessionTypeOK
<1>2. moves[g] < MaxMoves[g] /\ moves' = [moves EXCEPT ![g] = @ + 1] /\ UNCHANGED <<unsent, decided>>
  BY DEF Broadcast
<1>3. sent' = [sent EXCEPT ![g] = @ + 1]
  <2>1. moves \in [GameIds -> Nat] /\ unsent \in [GameIds -> Nat]
    BY DEF TypeInv, SessionTypeOK
  <2>2. moves[g] \in Nat /\ unsent[g] \in Nat
    BY <1>1, <2>1, SessionAssumption
  <2>3. sent' = [h \in GameIds |-> moves'[h] - unsent[h]]
    BY <1>2 DEF sent
  <2>4. \A h \in GameIds : moves'[h] = IF h = g THEN moves[g] + 1 ELSE moves[h]
    BY <1>2, <2>1
  <2>5. (moves[g] + 1) - unsent[g] = (moves[g] - unsent[g]) + 1
    BY <2>2
  <2>6. \A h \in GameIds : moves'[h] - unsent[h] = IF h = g THEN (moves[g] - unsent[g]) + 1 ELSE moves[h] - unsent[h]
    BY <1>1, <2>4, <2>5
  <2>7. [sent EXCEPT ![g] = @ + 1] = [h \in GameIds |-> IF h = g THEN (moves[g] - unsent[g]) + 1 ELSE moves[h] - unsent[h]]
    BY <1>1 DEF sent
  <2> QED BY <2>3, <2>6, <2>7
<1> DEFINE n == sent[g] + 1
<1>4. moves[g] - unsent[g] + 1 = n
  BY <1>1
<1> HIDE DEF n
<1> QED BY <1>2, <1>3, <1>4 DEF Broadcast, MoveOf, EndedOf, n

LEMMA BroadcastType ==
  ASSUME TypeInv, NEW g \in live, Broadcast(g)
  PROVE  /\ fromServer' \in Seq(Messages) /\ live' \subseteq GameIds /\ crossed' \in BOOLEAN
         /\ moves' \in [GameIds -> Nat] /\ UNCHANGED <<unsent, decided>>
         /\ \A h \in GameIds : unsent'[h] <= moves'[h]
<1>0. g \in GameIds /\ moves \in [GameIds -> Nat] /\ moves[g] + 1 \in Nat /\ sent[g] + 1 \in Nat
      /\ unsent \in [GameIds -> Nat]
  <2>1. g \in GameIds /\ moves \in [GameIds -> Nat] /\ unsent \in [GameIds -> Nat]
    BY DEF TypeInv, SessionTypeOK
  <2>2. moves[g] \in Nat /\ sent[g] \in Nat
    BY <2>1, SentFacts, SessionAssumption
  <2> QED BY <2>1, <2>2
<1>1. moves' \in [GameIds -> Nat] /\ \A h \in GameIds : unsent[h] <= moves'[h]
  <2>1. moves[g] < MaxMoves[g] /\ moves' = [moves EXCEPT ![g] = @ + 1]
    BY DEF Broadcast
  <2>2. moves[g] + 1 \in Nat
    BY <1>0, <2>1, SessionAssumption
  <2>3. \A h \in GameIds : unsent[h] <= moves[h] /\ unsent[h] \in Nat /\ moves[h] \in Nat
    BY <1>0, SessionAssumption DEF TypeInv
  <2> QED BY <1>0, <2>1, <2>2, <2>3
<1>2. live' \subseteq GameIds /\ crossed' \in BOOLEAN /\ UNCHANGED <<unsent, decided>>
  BY BroadcastWrites DEF TypeInv, SessionTypeOK
<1>3. \A end \in Ends : /\ Told(g, MoveOf(g, sent[g] + 1, end)) \in Seq(Messages)
                        /\ Told(g, EndedOf(g)) \in Seq(Messages)
  BY <1>0, MadeTypes, ToldType
<1>4. \A end \in Ends :
        /\ Told(g, EndedOf(g)) \o Told(g, MoveOf(g, sent[g] + 1, end)) \in Seq(Messages)
        /\ Told(g, MoveOf(g, sent[g] + 1, end)) \o Told(g, EndedOf(g)) \in Seq(Messages)
  BY <1>3, ConcatProperties
<1>5. fromServer' \in Seq(Messages)
  BY <1>3, <1>4, BroadcastWrites, SendType
<1> QED BY <1>1, <1>2, <1>5

(* A move that nobody is sent.                                             *)
LEMMA UnansweredWrites ==
  ASSUME TypeInv, NEW g \in live, Unanswered(g)
  PROVE  /\ moves' \in [GameIds -> Nat] /\ unsent' \in [GameIds -> Nat]
         /\ decided' \subseteq GameIds /\ \A h \in GameIds : unsent'[h] <= moves'[h]
         /\ sent' = sent /\ UNCHANGED <<fromServer, live, crossed>>
<1>1. moves \in [GameIds -> Nat] /\ unsent \in [GameIds -> Nat] /\ g \in GameIds
      /\ decided \subseteq GameIds /\ \A h \in GameIds : unsent[h] <= moves[h]
  BY DEF TypeInv, SessionTypeOK
<1>2. \A h \in GameIds : moves[h] \in Nat /\ unsent[h] \in Nat
  BY <1>1, SessionAssumption
<1>3. /\ moves[g] < MaxMoves[g] /\ UNCHANGED <<fromServer, live, crossed>>
      /\ moves' = [moves EXCEPT ![g] = @ + 1] /\ unsent' = [unsent EXCEPT ![g] = @ + 1]
      /\ (decided' = decided \cup {g} \/ decided' = decided)
  BY DEF Unanswered
<1>4. moves[g] + 1 \in Nat /\ unsent[g] + 1 \in Nat /\ unsent[g] + 1 <= moves[g] + 1
      /\ (moves[g] + 1) - (unsent[g] + 1) = moves[g] - unsent[g]
  BY <1>1, <1>2, <1>3, SessionAssumption
<1>5. \A h \in GameIds : /\ moves'[h] = IF h = g THEN moves[g] + 1 ELSE moves[h]
                         /\ unsent'[h] = IF h = g THEN unsent[g] + 1 ELSE unsent[h]
  BY <1>1, <1>3
<1>6. moves' \in [GameIds -> Nat] /\ unsent' \in [GameIds -> Nat]
  BY <1>1, <1>3, <1>4
<1>7. \A h \in GameIds : moves'[h] - unsent'[h] = moves[h] - unsent[h] /\ unsent'[h] <= moves'[h]
  BY <1>1, <1>4, <1>5
<1>8. sent' = sent
  BY <1>7 DEF sent
<1> QED BY <1>1, <1>3, <1>6, <1>7, <1>8

(* A start is sent, or the end of a game that nobody was told of, or both. *)
Starts(g, with_self) ==
  IF with_self THEN <<StartOf(g, Lots[g]), StartOf(g, Opponent(Lots[g]))>> ELSE <<StartOf(g, Lots[g])>>
GoneEnds(g, with_self) == IF with_self THEN <<EndedOf(g), EndedOf(g)>> ELSE <<EndedOf(g)>>

LEMMA StartWrites ==
  ASSUME TypeInv, NEW with_self, StartGame(with_self)
  PROVE  /\ counter + 1 \in GameIds /\ counter' = counter + 1
         /\ self' = IF with_self THEN self \cup {counter + 1} ELSE self
         /\ \/ /\ Send(Starts(counter + 1, with_self))
               /\ live' = live \cup {counter + 1} /\ UNCHANGED crossed
            \/ /\ \/ Send(GoneEnds(counter + 1, with_self))
                  \/ Send(GoneEnds(counter + 1, with_self) \o Starts(counter + 1, with_self))
               /\ UNCHANGED live /\ crossed' = TRUE
BY DEF StartGame, StartOf, EndedOf, Starts, GoneEnds

LEMMA StartType ==
  ASSUME TypeInv, NEW with_self, StartGame(with_self)
  PROVE  /\ fromServer' \in Seq(Messages) /\ live' \subseteq GameIds /\ self' \subseteq GameIds
         /\ counter' \in Nat /\ crossed' \in BOOLEAN
<1> DEFINE g == counter + 1
<1>1. g \in GameIds /\ Lots[g] \in Teams /\ Opponent(Lots[g]) \in Teams
  BY StartWrites, SessionAssumption DEF Opponent, Teams
<1>2. StartOf(g, Lots[g]) \in Messages /\ StartOf(g, Opponent(Lots[g])) \in Messages /\ EndedOf(g) \in Messages
  BY <1>1, MadeTypes
<1> DEFINE ends   == GoneEnds(g, with_self)
           starts == Starts(g, with_self)
<1>3. ends \in Seq(Messages) /\ starts \in Seq(Messages)
  BY <1>2 DEF Starts, GoneEnds
<1>4. fromServer' \in Seq(Messages)
  <2>1. Send(starts) \/ Send(ends) \/ Send(ends \o starts)
    BY StartWrites
  <2> HIDE DEF ends, starts
  <2>2. ends \o starts \in Seq(Messages)
    BY <1>3, ConcatProperties
  <2> QED BY <1>3, <2>1, <2>2, SendType
<1>5. /\ live \subseteq GameIds /\ self \subseteq GameIds /\ counter \in Nat /\ crossed \in BOOLEAN
  BY DEF TypeInv, SessionTypeOK
<1>6. /\ counter' = g /\ (live' = live \cup {g} \/ live' = live)
      /\ (self' = self \cup {g} \/ self' = self)
  BY StartWrites
<1>7. crossed' \in BOOLEAN
  BY <1>5, StartWrites
<1>8. live' \subseteq GameIds /\ self' \subseteq GameIds /\ counter' \in Nat
  BY <1>1, <1>5, <1>6
<1> QED BY <1>4, <1>7, <1>8

(* A game that the client is not told of. *)
LEMMA UntoldWrites ==
  ASSUME TypeInv, StartUntold
  PROVE  /\ counter + 1 \in GameIds /\ counter' = counter + 1 /\ live' = live \cup {counter + 1}
         /\ untold' = untold \cup {counter + 1} /\ UNCHANGED <<fromServer, self, crossed>>
         /\ counter' \in Nat /\ live' \subseteq GameIds /\ untold' \subseteq GameIds
BY DEF StartUntold, TypeInv, SessionTypeOK

(* A request is taken. *)
LEMMA RequestWrites ==
  ASSUME TypeInv, NEW request, Request(request)
  PROVE  /\ link = "up" /\ toServer # <<>> /\ Head(toServer) = request
         /\ toServer' = Tail(toServer) /\ toServer' \in Seq(Requests)
         /\ UNCHANGED clientRest
BY DEF TypeInv, SessionTypeOK, Request

LEMMA ServerTypes ==
  ASSUME TypeInv, ServerNext, wandered' \in BOOLEAN
  PROVE  TypeInv'
<1> USE DEF TypeInv, SessionTypeOK
<1>1. ASSUME UNCHANGED clientRest, toServer' \in Seq(Requests), fromServer' \in Seq(Messages),
             waiting' \in BOOLEAN, live' \subseteq GameIds, self' \subseteq GameIds,
             moves' \in [GameIds -> Nat], unsent' \in [GameIds -> Nat],
             decided' \subseteq GameIds, \A g \in GameIds : unsent'[g] <= moves'[g],
             counter' \in Nat, untold' \subseteq GameIds,
             strayed' \in BOOLEAN, crossed' \in BOOLEAN
      PROVE  TypeInv'
  BY <1>1 DEF clientRest, screenVars, gameVars, uiVars
<1>2. ASSUME UNCHANGED clientRest, toServer' \in Seq(Requests), fromServer' \in Seq(Messages),
             waiting' \in BOOLEAN, live' \subseteq GameIds, self' \subseteq GameIds,
             UNCHANGED moveVars,
             counter' \in Nat, untold' \subseteq GameIds,
             strayed' \in BOOLEAN, crossed' \in BOOLEAN
      PROVE  TypeInv'
  BY <1>1, <1>2 DEF moveVars
<1>3. CASE Connect
  <2>1. connection' \in 0 .. MaxConnections
    BY <1>3, ClientAssumption DEF Connect, NetConnect
  <2>2. /\ connected' \in BOOLEAN /\ link' \in {"none", "up", "cut"} /\ net' \in {"loop", "ping", "ending"}
        /\ waiting' \in BOOLEAN /\ live' \subseteq GameIds
    BY <1>3 DEF Connect, NetConnect
  <2>3. UNCHANGED <<toServer, fromServer, screenVars, gameVars, uiVars, self, moveVars, counter, untold, strayed, crossed>>
    BY <1>3 DEF Connect, NetConnect
  <2> QED BY <2>1, <2>2, <2>3 DEF screenVars, gameVars, uiVars, moveVars
<1>4. CASE MatchGame
  <2>1. UNCHANGED clientRest /\ toServer' \in Seq(Requests) /\ UNCHANGED <<moveVars, untold>>
    BY <1>4, RequestWrites DEF MatchGame
  <2>2. strayed' \in BOOLEAN
    BY <1>4 DEF MatchGame
  <2>3. <<Error>> \in Seq(Messages)
    BY DEF Error, Messages
  <2>4. /\ fromServer' \in Seq(Messages) /\ live' \subseteq GameIds /\ self' \subseteq GameIds
        /\ counter' \in Nat /\ waiting' \in BOOLEAN /\ crossed' \in BOOLEAN
    BY <1>4, <2>3, StartType, SendType DEF MatchGame, Error
  <2> QED BY <1>2, <2>1, <2>2, <2>4
<1>5. CASE Paired
  <2>1. /\ UNCHANGED clientRest /\ toServer' \in Seq(Requests) /\ UNCHANGED <<moveVars, strayed>>
        /\ waiting' \in BOOLEAN
    BY <1>5 DEF Paired
  <2>2. /\ fromServer' \in Seq(Messages) /\ live' \subseteq GameIds /\ self' \subseteq GameIds
        /\ counter' \in Nat /\ crossed' \in BOOLEAN /\ untold' \subseteq GameIds
    BY <1>5, StartType, UntoldWrites DEF Paired
  <2> QED BY <1>2, <2>1, <2>2
<1>6. CASE CancelMatch
  BY <1>2, <1>6, RequestWrites DEF CancelMatch
<1>7. CASE Move
  <2>1. /\ UNCHANGED clientRest /\ toServer' \in Seq(Requests)
        /\ UNCHANGED <<waiting, self, counter, untold, strayed>>
    BY <1>7, RequestWrites DEF Move
  <2>2. CASE \E g \in live : Broadcast(g)
    <3>1. /\ fromServer' \in Seq(Messages) /\ live' \subseteq GameIds /\ crossed' \in BOOLEAN
          /\ moves' \in [GameIds -> Nat] /\ UNCHANGED <<unsent, decided>>
          /\ \A h \in GameIds : unsent'[h] <= moves'[h]
      BY <2>2, BroadcastType
    <3> QED BY <1>1, <2>1, <3>1
  <2>3. CASE UNCHANGED <<fromServer, live, moveVars, crossed>>
    BY <1>2, <2>1, <2>3
  <2> QED BY <1>7, <2>2, <2>3 DEF Move
<1>8. CASE OpponentMoves
  <2>1. UNCHANGED clientRest /\ UNCHANGED <<toServer, waiting, self, counter, untold, strayed>>
    BY <1>8 DEF OpponentMoves
  <2>2. CASE \E g \in live : Broadcast(g)
    <3>1. /\ fromServer' \in Seq(Messages) /\ live' \subseteq GameIds /\ crossed' \in BOOLEAN
          /\ moves' \in [GameIds -> Nat] /\ UNCHANGED <<unsent, decided>>
          /\ \A h \in GameIds : unsent'[h] <= moves'[h]
      BY <2>2, BroadcastType
    <3> QED BY <1>1, <2>1, <3>1
  <2>3. CASE \E g \in live : Unanswered(g)
    BY <1>1, <2>1, <2>3, UnansweredWrites
  <2> QED BY <1>8, <2>2, <2>3 DEF OpponentMoves
<1>9. \A g \in live : /\ Told(g, ResignedOf(g)) \in Seq(Messages)
                      /\ Told(g, EndedOf(g)) \in Seq(Messages)
  BY MadeTypes, ToldType
<1>10. CASE Resign
  <2>1. /\ UNCHANGED clientRest /\ toServer' \in Seq(Requests)
        /\ UNCHANGED <<waiting, self, moveVars, counter, untold, strayed, crossed>>
    BY <1>10, RequestWrites DEF Resign
  <2>2. <<Error>> \in Seq(Messages)
    BY DEF Error, Messages
  <2>3. fromServer' \in Seq(Messages) /\ live' \subseteq GameIds
    BY <1>9, <1>10, <2>2, SendType DEF Resign, ResignedOf, Error
  <2> QED BY <1>2, <2>1, <2>3
<1>11. CASE GameEnds
  <2>1. UNCHANGED clientRest /\ UNCHANGED <<toServer, waiting, self, moveVars, counter, untold, strayed, crossed>>
    BY <1>11 DEF GameEnds
  <2>2. fromServer' \in Seq(Messages) /\ live' \subseteq GameIds
    BY <1>9, <1>11, SendType DEF GameEnds, ResignedOf, EndedOf
  <2> QED BY <1>2, <2>1, <2>2
<1> QED
  BY <1>3, <1>4, <1>5, <1>6, <1>7, <1>8, <1>10, <1>11 DEF ServerNext

LEMMA TypeInvStep == TypeInv /\ [Next]_vars => TypeInv'
<1> SUFFICES ASSUME TypeInv, [Next]_vars PROVE TypeInv'
  OBVIOUS
<1>1. CASE UNCHANGED vars
  BY <1>1 DEF vars, clientVars, serverVars, moveVars, linkVars, screenVars, gameVars, TypeInv, SessionTypeOK
<1>2. CASE Next
  <2>1. wandered' \in BOOLEAN
    BY <1>2 DEF Next, UiHistory, Rest, TypeInv, SessionTypeOK
  <2> QED BY <1>2, <2>1, UiTypes, NetTypes, ServerTypes DEF Next, UiHistory, Rest
<1> QED BY <1>1, <1>2

LEMMA TypeInvInit == Init => TypeInv
<1> SUFFICES ASSUME Init PROVE TypeInv
  OBVIOUS
<1>1. /\ toServer \in Seq(Requests) /\ fromServer \in Seq(Messages) /\ board \in Seq(Moves)
  BY EmptySeq DEF Init, InitClient, StartPosition
<1>2. saved \in [moves : 0 .. MAX_PGN_MOVES, result : Results]
  BY ClientAssumption DEF Init, InitClient, NoRecord, Results
<1>3. /\ moves \in [GameIds -> Nat] /\ unsent \in [GameIds -> Nat]
      /\ \A g \in GameIds : unsent[g] <= moves[g]
      /\ counter \in Nat
  BY SessionAssumption DEF Init
<1>4. connection \in 0 .. MaxConnections /\ asked \in 0 .. MaxConnections
  BY ClientAssumption DEF Init, InitClient
<1> QED
  BY <1>1, <1>2, <1>3, <1>4
  DEF Init, InitClient, TypeInv, SessionTypeOK, Notices, Teams

(* Every state has its types. *)
THEOREM SessionTypes == Spec => []SessionTypeOK
<1>1. TypeInv => SessionTypeOK
  BY DEF TypeInv
<1> QED BY <1>1, TypeInvInit, TypeInvStep, PTL DEF Spec

-----------------------------------------------------------------------------
(* The connection. *)
LEMMA LinkInvStep ==
  ASSUME TypeInv, LinkInv, [Next]_vars
  PROVE  LinkInv'
<1> USE DEF LinkInv, Running
<1>1. CASE UNCHANGED vars
  BY <1>1 DEF vars, clientVars, linkVars, gameVars
<1>2. CASE UiNext
  <2>1. ~connected => UNCHANGED toServer
    BY <1>2, UiWrites DEF Sent, NotSent
  <2> QED BY <1>2, <2>1, UiWrites
<1>3. CASE NetPing
  BY <1>3 DEF NetPing, Hangup, gameVars
<1>4. CASE NetLost
  BY <1>4 DEF NetLost, Hangup, Learned
<1>5. CASE Cut
  BY <1>5 DEF Cut, gameVars
<1>6. CASE NetStart \/ NetMove \/ NetResigned \/ NetEnded \/ NetError
  <2>1. connected /\ net = "loop" /\ UNCHANGED <<connected, link>> /\ net' # "ping"
    BY <1>6 DEF NetStart, NetMove, NetResigned, NetEnded, NetError, Receive
  <2> QED BY <2>1
<1>7. CASE NetMoveEnd
  BY <1>7 DEF NetMoveEnd, Learned
<1>8. CASE Connect
  BY <1>8 DEF Connect, NetConnect, gameVars
<1>9. CASE MatchGame \/ Paired \/ CancelMatch \/ Move \/ OpponentMoves \/ Resign \/ GameEnds
  <2>1. link = "up" /\ UNCHANGED clientRest
    BY <1>9 DEF MatchGame, Paired, CancelMatch, Move, OpponentMoves, Resign, GameEnds, Request
  <2> QED BY <2>1 DEF clientRest, gameVars
<1> QED
  BY <1>1, <1>2, <1>3, <1>4, <1>5, <1>6, <1>7, <1>8, <1>9 DEF Next, NetNext, ServerNext

-----------------------------------------------------------------------------
(* The matching screen. *)
LEMMA TailFacts ==
  ASSUME NEW S, NEW q \in Seq(S), q # <<>>
  PROVE  /\ Tail(q) \in Seq(S) /\ Len(Tail(q)) = Len(q) - 1 /\ Len(q) \in Nat /\ Len(q) >= 1
         /\ Head(q) = q[1] /\ DOMAIN q = 1 .. Len(q) /\ DOMAIN Tail(q) = 1 .. (Len(q) - 1)
         /\ \A i \in 1 .. (Len(q) - 1) : Tail(q)[i] = q[i + 1]
         /\ Tail(q) = <<>> <=> Len(q) = 1
<1>1. Len(q) \in Nat /\ DOMAIN q = 1 .. Len(q) /\ Len(q) # 0
  BY LenProperties, EmptySeq
<1>2. Head(q) = q[1] /\ Tail(q) \in Seq(S)
  BY HeadTailProperties
<1>3. Len(Tail(q)) = Len(q) - 1 /\ \A i \in 1 .. (Len(q) - 1) : Tail(q)[i] = q[i + 1]
  BY <1>1, HeadTailProperties
<1>4. DOMAIN Tail(q) = 1 .. (Len(q) - 1)
  BY <1>2, <1>3, LenProperties
<1>5. Tail(q) = <<>> <=> Len(q) = 1
  <2>1. Tail(q) = <<>> => Len(Tail(q)) = 0
    BY EmptySeq
  <2>2. Tail(q) # <<>> => Len(Tail(q)) # 0
    BY <1>2, EmptySeq
  <2> QED BY <1>1, <1>3, <2>1, <2>2
<1> QED BY <1>1, <1>2, <1>3, <1>4, <1>5

(* An answer stays on its way, or is taken and its end is to be shown.     *)
LEMMA AnswerStays ==
  ASSUME TypeInv, NEW type, Receive(type), ~IsAnswer(Message), HasAnswer(fromServer)
  PROVE  HasAnswer(fromServer)'
<1>1. /\ fromServer # <<>> /\ fromServer[1] = Message /\ fromServer' = Tail(fromServer)
  BY TailFacts DEF Receive, Message, TypeInv
<1>2. PICK i \in DOMAIN fromServer : IsAnswer(fromServer[i])
  BY DEF HasAnswer
<1>3. /\ i \in Nat /\ i >= 1 /\ i <= Len(fromServer) /\ i # 1 /\ Len(fromServer) \in Nat
      /\ DOMAIN fromServer' = 1 .. (Len(fromServer) - 1)
      /\ \A k \in 1 .. (Len(fromServer) - 1) : fromServer'[k] = fromServer[k + 1]
  BY <1>1, <1>2, TailFacts DEF TypeInv
<1>4. i - 1 \in DOMAIN fromServer' /\ fromServer'[i - 1] = fromServer[i]
  BY <1>3
<1> QED BY <1>2, <1>4 DEF HasAnswer

LEMMA ConcatAnswer ==
  ASSUME NEW a \in Seq(Messages), NEW b \in Seq(Messages)
  PROVE  /\ HasAnswer(a) => HasAnswer(a \o b)
         /\ HasAnswer(b) => HasAnswer(a \o b)
<1>1. /\ DOMAIN a = 1 .. Len(a) /\ Len(a) \in Nat /\ DOMAIN b = 1 .. Len(b) /\ Len(b) \in Nat
      /\ DOMAIN (a \o b) = 1 .. (Len(a) + Len(b))
      /\ \A i \in 1 .. Len(a) : (a \o b)[i] = a[i]
      /\ \A i \in 1 .. Len(b) : (a \o b)[Len(a) + i] = b[i]
  BY ConcatProperties, LenProperties
<1>2. ASSUME HasAnswer(a) PROVE HasAnswer(a \o b)
  <2>1. PICK i \in 1 .. Len(a) : IsAnswer(a[i])
    BY <1>1, <1>2 DEF HasAnswer
  <2>2. i \in DOMAIN (a \o b) /\ (a \o b)[i] = a[i]
    BY <1>1
  <2> QED BY <2>1, <2>2 DEF HasAnswer
<1>3. ASSUME HasAnswer(b) PROVE HasAnswer(a \o b)
  <2>1. PICK i \in 1 .. Len(b) : IsAnswer(b[i])
    BY <1>1, <1>3 DEF HasAnswer
  <2>2. Len(a) + i \in DOMAIN (a \o b) /\ (a \o b)[Len(a) + i] = b[i]
    BY <1>1
  <2> QED BY <2>1, <2>2 DEF HasAnswer
<1> QED BY <1>2, <1>3

LEMMA AnswerKept ==
  ASSUME TypeInv, NEW messages \in Seq(Messages), Send(messages)
  PROVE  HasAnswer(fromServer) \/ HasAnswer(messages) => HasAnswer(fromServer)'
<1>1. fromServer' = fromServer \o messages /\ fromServer \in Seq(Messages)
  BY DEF Send, TypeInv
<1>2. PICK a \in Seq(Messages), c \in Seq(Messages) : a = fromServer /\ c = fromServer'
  BY <1>1, ConcatProperties
<1>3. HasAnswer(a) \/ HasAnswer(messages) => HasAnswer(c)
  BY <1>1, <1>2, ConcatAnswer
<1> QED BY <1>2, <1>3 DEF HasAnswer

LEMMA ToldAnswer ==
  ASSUME NEW g, NEW m \in Messages, IsAnswer(m)
  PROVE  HasAnswer(Told(g, m)) /\ HasAnswer(<<m>>)
<1>1. /\ DOMAIN <<m>> = {1} /\ DOMAIN <<m, m>> = {1, 2} /\ <<m>>[1] = m /\ <<m, m>>[1] = m
  OBVIOUS
<1> QED BY <1>1 DEF Told, HasAnswer

(* A move leaves the client in its game, or brings an answer.              *)
LEMMA BroadcastAnswer ==
  ASSUME TypeInv, NEW g \in live, Broadcast(g)
  PROVE  /\ HasAnswer(fromServer) => HasAnswer(fromServer)'
         /\ UNCHANGED live \/ HasAnswer(fromServer)'
<1>1. g \in GameIds /\ sent[g] + 1 \in Nat
  <2>1. g \in GameIds
    BY DEF TypeInv, SessionTypeOK
  <2>2. sent[g] \in Nat
    BY <2>1, SentFacts
  <2> QED BY <2>1, <2>2
<1>2. PICK end \in Ends :
        \/ /\ Send(Told(g, MoveOf(g, sent[g] + 1, end)))
           /\ live' = IF end = "playing" THEN live ELSE live \ {g}
        \/ Send(Told(g, EndedOf(g)) \o Told(g, MoveOf(g, sent[g] + 1, end)))
        \/ Send(Told(g, MoveOf(g, sent[g] + 1, end)) \o Told(g, EndedOf(g)))
  BY BroadcastWrites
<1>3. PICK move \in Messages, ended \in Messages : move = MoveOf(g, sent[g] + 1, end) /\ ended = EndedOf(g)
  BY <1>1, MadeTypes
<1>4. (end # "playing" => IsAnswer(move)) /\ IsAnswer(ended)
  BY <1>3 DEF IsAnswer, MoveOf, EndedOf
<1>5. PICK one \in Seq(Messages), two \in Seq(Messages), both \in Seq(Messages), ways \in Seq(Messages) :
        one = Told(g, move) /\ two = Told(g, ended) /\ both = two \o one /\ ways = one \o two
  BY ToldType, ConcatProperties
<1>6. HasAnswer(two) /\ (end # "playing" => HasAnswer(one))
  BY <1>4, <1>5, ToldAnswer
<1>7. HasAnswer(both) /\ HasAnswer(ways)
  BY <1>5, <1>6, ConcatAnswer
<1>8. \/ Send(one) /\ live' = IF end = "playing" THEN live ELSE live \ {g}
      \/ Send(both) \/ Send(ways)
  BY <1>2, <1>3, <1>5
<1> QED BY <1>6, <1>7, <1>8, AnswerKept

LEMMA StartAnswer ==
  ASSUME TypeInv, NEW with_self, StartGame(with_self)
  PROVE  HasAnswer(fromServer)'
<1> DEFINE g == counter + 1
<1>1. g \in GameIds /\ Lots[g] \in Teams /\ Opponent(Lots[g]) \in Teams
  BY StartWrites, SessionAssumption DEF Opponent, Teams
<1>2. PICK start \in Messages, second \in Messages, ended \in Messages :
        start = StartOf(g, Lots[g]) /\ second = StartOf(g, Opponent(Lots[g])) /\ ended = EndedOf(g)
  BY <1>1, MadeTypes
<1>3. IsAnswer(start) /\ IsAnswer(ended)
  BY <1>2 DEF IsAnswer, StartOf, EndedOf
<1>4. /\ <<start>> \in Seq(Messages) /\ <<start, second>> \in Seq(Messages)
      /\ <<ended>> \in Seq(Messages) /\ <<ended, ended>> \in Seq(Messages)
  OBVIOUS
<1>5. /\ HasAnswer(<<start>>) /\ HasAnswer(<<start, second>>)
      /\ HasAnswer(<<ended>>) /\ HasAnswer(<<ended, ended>>)
  <2>1. /\ DOMAIN <<start>> = {1} /\ <<start>>[1] = start
        /\ DOMAIN <<start, second>> = {1, 2} /\ <<start, second>>[1] = start
        /\ DOMAIN <<ended>> = {1} /\ <<ended>>[1] = ended
        /\ DOMAIN <<ended, ended>> = {1, 2} /\ <<ended, ended>>[1] = ended
    OBVIOUS
  <2> QED BY <1>3, <2>1 DEF HasAnswer
<1>6. PICK ends \in Seq(Messages), starts \in Seq(Messages) :
        /\ ends = GoneEnds(g, with_self) /\ HasAnswer(ends)
        /\ starts = Starts(g, with_self) /\ HasAnswer(starts)
  BY <1>2, <1>4, <1>5 DEF GoneEnds, Starts
<1>7. PICK both \in Seq(Messages) : both = ends \o starts
  BY ConcatProperties
<1>8. HasAnswer(both)
  BY <1>6, <1>7, ConcatAnswer
<1>9. Send(starts) \/ Send(ends) \/ Send(both)
  BY <1>6, <1>7, StartWrites
<1> QED BY <1>6, <1>8, <1>9, AnswerKept

LEMMA MatchingUi ==
  ASSUME TypeInv, MatchingInv, UiNext, UNCHANGED serverVars, Matching'
  PROVE  Queued'
<1> USE DEF UiNoKey, UiAck, UiShow, UiReplayKey, UiReplay, UiReplayLeave, UiMatchKey, UiName,
            UiRequest, UiCancelKey, UiCancel, UiLeave, UiQuit, UiResignKey, UiConfirm, UiMove,
            UiNotation, UiSave, GameKey, Key, GotoScreen, screenVars, MatchingInv, Matching
<1>1. CASE UiRequest
  <2>1. link = "up" /\ toServer' = Append(toServer, "match")
    BY <1>1 DEF Sent
  <2>2. toServer \in Seq(Requests)
    BY DEF TypeInv, SessionTypeOK
  <2>3. toServer' # <<>> /\ toServer'[Len(toServer')] = "match"
    BY <2>1, <2>2, AppendProperties
  <2> QED BY <2>3 DEF Queued
<1>2. CASE ~UiRequest
  <2>1. current_screen = "matching"
    BY <1>2 DEF UiNext
  <2>2. /\ ui \in {"key", "show"} /\ dialog = "none" /\ UNCHANGED <<asked, toServer, notices>>
    <3>1. UiNoKey \/ UiShow
      BY <1>2, <2>1 DEF UiNext
    <3>2. Foremost(notices) # "none"
      BY DEF Foremost
    <3> QED BY <3>1, <3>2 DEF linkVars
  <2>3. UNCHANGED <<link, connection, fromServer, net>>
    BY UiWrites
  <2> QED BY <2>1, <2>2, <2>3 DEF Queued, Answer, HasAnswer, serverVars
<1> QED BY <1>1, <1>2

LEMMA MatchingNet ==
  ASSUME TypeInv, MatchingInv, NetNext, UNCHANGED serverVars, Matching'
  PROVE  Queued'
<1> USE DEF MatchingInv, Matching
<1>1. UNCHANGED <<ui, asked, waiting, untold, live>>
  BY DEF NetNext, NetPing, NetLost, Cut, NetStart, NetMove, NetMoveEnd, NetResigned, NetEnded,
         NetError, Receive, uiVars, serverVars
<1>2. UNCHANGED <<current_screen, dialog, link, connection, toServer>> /\ (Answer => Answer')
  <2>1. CASE NetPing
    BY <2>1 DEF NetPing, Hangup, Answer, HasAnswer, screenVars
  <2>2. CASE NetMove
    <3>1. UNCHANGED <<current_screen, dialog, link, connection, toServer, notices>> /\ Receive("move") /\ net = "loop"
          /\ (Message.move.end # "playing" => net' = "ending") /\ Message.type = "move"
      BY <2>2 DEF NetMove, Receive
    <3>2. CASE Message.move.end # "playing"
      BY <3>1, <3>2 DEF Answer
    <3>3. CASE Message.move.end = "playing"
      <4>1. ~IsAnswer(Message)
        BY <3>1, <3>3 DEF IsAnswer
      <4>2. HasAnswer(fromServer) => HasAnswer(fromServer)'
        BY <3>1, <4>1, AnswerStays
      <4> QED BY <3>1, <4>2 DEF Answer
    <3> QED BY <3>1, <3>2, <3>3
  <2>3. CASE NetResigned
    BY <2>3 DEF NetResigned, Receive, Answer
  <2>4. CASE NetEnded
    BY <2>4 DEF NetEnded, Receive, Answer
  <2>5. CASE NetMoveEnd
    BY <2>5 DEF NetMoveEnd, Answer
  <2>6. CASE NetStart \/ NetError \/ NetLost \/ Cut
    BY <2>6 DEF NetStart, NetError, NetLost, Cut, Hangup
  <2> QED BY <2>1, <2>2, <2>3, <2>4, <2>5, <2>6 DEF NetNext
<1> QED BY <1>1, <1>2 DEF Queued

(* The request at the head is not the last match request, or it is the     *)
(* only one left.                                                          *)
LEMMA RequestTaken ==
  ASSUME TypeInv, NEW request, Request(request), toServer[Len(toServer)] = "match"
  PROVE  \/ toServer' # <<>> /\ toServer'[Len(toServer')] = "match"
         \/ request = "match" /\ toServer' = <<>>
<1>1. /\ toServer # <<>> /\ toServer \in Seq(Requests) /\ toServer' = Tail(toServer)
      /\ Head(toServer) = request
  BY DEF Request, TypeInv, SessionTypeOK
<1>2. /\ Len(toServer') = Len(toServer) - 1 /\ Len(toServer) \in Nat /\ Len(toServer) >= 1
      /\ request = toServer[1] /\ (toServer' = <<>> <=> Len(toServer) = 1)
      /\ \A i \in 1 .. (Len(toServer) - 1) : toServer'[i] = toServer[i + 1]
  BY <1>1, TailFacts
<1>3. CASE Len(toServer) = 1
  BY <1>2, <1>3
<1>4. CASE Len(toServer) # 1
  <2>1. Len(toServer') \in 1 .. (Len(toServer) - 1) /\ Len(toServer') + 1 = Len(toServer)
    BY <1>2, <1>4
  <2> QED BY <1>2, <1>4, <2>1
<1> QED BY <1>3, <1>4

LEMMA MatchingServer ==
  ASSUME TypeInv, MatchingInv, ServerNext, Matching'
  PROVE  Queued'
<1> USE DEF MatchingInv, Matching
<1>1. CASE Connect
  <2>1. connection \in Nat /\ asked \in Nat /\ connection' = connection + 1 /\ asked' = asked
    BY <1>1, ClientAssumption DEF Connect, NetConnect, uiVars, TypeInv, SessionTypeOK
  <2> QED BY <2>1
<1>2. CASE ~Connect
  <2>1. UNCHANGED clientRest
    BY <1>2 DEF ServerNext, MatchGame, Paired, CancelMatch, Move, OpponentMoves, Resign, GameEnds, Request
  <2>2. Matching /\ Queued /\ (HasAnswer(fromServer)' => Answer') /\ UNCHANGED <<net, notices>>
    BY <2>1 DEF clientRest, screenVars, uiVars, Answer
  <2>3. \A with_self : StartGame(with_self) => Answer'
    BY <2>2, StartAnswer
  <2>4. CASE MatchGame
    <3>1. waiting' \/ Answer'
      <4>1. <<Error>> \in Seq(Messages) /\ HasAnswer(<<Error>>)
        <5>1. Error \in Messages /\ IsAnswer(Error)
          BY DEF Error, Messages, IsAnswer
        <5> QED BY <5>1, ToldAnswer
      <4>2. CASE Send(<<Error>>)
        BY <2>2, <4>1, <4>2, AnswerKept
      <4> QED BY <2>3, <2>4, <4>2 DEF MatchGame, Error
    <3>2. Request("match")
      BY <2>4 DEF MatchGame
    <3> QED BY <2>2, <3>1, <3>2, RequestTaken DEF Queued, Request
  <2>5. CASE Paired
    <3>1. UNCHANGED toServer
      BY <2>5 DEF Paired
    <3>2. Answer' \/ untold' \cap live' # {}
      BY <2>3, <2>5, UntoldWrites DEF Paired
    <3> QED BY <2>2, <3>1, <3>2 DEF Queued
  <2>6. CASE CancelMatch \/ Move \/ Resign
    <3>1. PICK request \in {"cancel", "move", "resign"} : Request(request)
      BY <2>6 DEF CancelMatch, Move, Resign
    <3> QED BY <2>2, <3>1, RequestTaken DEF Queued, Request
  <2>7. CASE OpponentMoves \/ GameEnds
    <3>1. UNCHANGED <<toServer, waiting, untold>>
      BY <2>7 DEF OpponentMoves, GameEnds
    <3>2. /\ HasAnswer(fromServer) => HasAnswer(fromServer)'
          /\ UNCHANGED live \/ HasAnswer(fromServer)'
      <4>1. ASSUME NEW g \in live PROVE
              /\ Told(g, ResignedOf(g)) \in Seq(Messages) /\ HasAnswer(Told(g, ResignedOf(g)))
              /\ Told(g, EndedOf(g)) \in Seq(Messages) /\ HasAnswer(Told(g, EndedOf(g)))
        <5>1. g \in GameIds
          BY DEF TypeInv, SessionTypeOK
        <5>2. ResignedOf(g) \in Messages /\ EndedOf(g) \in Messages
          BY <5>1, MadeTypes
        <5>3. IsAnswer(ResignedOf(g)) /\ IsAnswer(EndedOf(g))
          BY DEF IsAnswer, ResignedOf, EndedOf
        <5> QED BY <5>2, <5>3, ToldType, ToldAnswer
      <4>2. CASE OpponentMoves
        <5>1. PICK g \in live : Broadcast(g) \/ Unanswered(g)
          BY <4>2 DEF OpponentMoves
        <5>2. CASE Broadcast(g)
          BY <5>2, BroadcastAnswer
        <5>3. CASE Unanswered(g)
          BY <5>3, UnansweredWrites DEF HasAnswer
        <5> QED BY <5>1, <5>2, <5>3
      <4>3. CASE GameEnds
        <5>1. PICK g \in live : Send(Told(g, ResignedOf(g))) \/ Send(Told(g, EndedOf(g)))
          BY <4>3 DEF GameEnds, ResignedOf, EndedOf
        <5> QED BY <4>1, <5>1, AnswerKept
      <4> QED BY <2>7, <4>2, <4>3
    <3> QED BY <2>2, <3>1, <3>2 DEF Queued, Answer
  <2> QED BY <1>2, <2>4, <2>5, <2>6, <2>7 DEF ServerNext
<1> QED BY <1>1, <1>2

LEMMA MatchingInvStep ==
  ASSUME TypeInv, LinkInv, MatchingInv, [Next]_vars
  PROVE  MatchingInv'
<1>1. CASE UNCHANGED vars
  BY <1>1 DEF vars, clientVars, serverVars, linkVars, screenVars, MatchingInv, Matching, Queued, Answer, HasAnswer
<1>2. CASE Next
  <2>1. asked' <= connection'
    <3>1. asked \in Nat /\ connection \in Nat /\ asked <= connection
      BY ClientAssumption DEF TypeInv, SessionTypeOK, MatchingInv
    <3>2. CASE UiNext
      BY <3>1, <3>2, UiWrites
    <3>3. CASE ~UiNext
      <4>1. asked' = asked /\ connection' \in {connection, connection + 1}
        BY <1>2, <3>3 DEF Next, NetNext, NetPing, NetLost, Cut, NetStart, NetMove, NetMoveEnd, NetResigned,
              NetEnded, NetError, Receive, uiVars, ServerNext, Connect, NetConnect, MatchGame, Paired,
              CancelMatch, Move, OpponentMoves, Resign, GameEnds, Request, clientRest
      <4> QED BY <3>1, <4>1
    <3> QED BY <3>2, <3>3
  <2>2. ui' \in {"name", "replay"} => current_screen' # "matching"
    <3>1. CASE UiNext
      BY <3>1 DEF MatchingInv, UiNext, UiNoKey, UiAck, UiShow, UiReplayKey, UiReplay, UiReplayLeave,
            UiMatchKey, UiName, UiRequest, UiCancelKey, UiCancel, UiLeave, UiQuit, UiResignKey,
            UiConfirm, UiMove, UiNotation, UiSave, GotoScreen, Key, screenVars
    <3>2. CASE ~UiNext
      <4>1. ui' = ui /\ current_screen' \in {current_screen, "game"}
        BY <1>2, <3>2 DEF Next, NetNext, NetPing, NetLost, Cut, NetStart, NetMove, NetMoveEnd, NetResigned,
              NetEnded, NetError, Receive, uiVars, screenVars, ServerNext, Connect, NetConnect, MatchGame,
              Paired, CancelMatch, Move, OpponentMoves, Resign, GameEnds, Request, clientRest
      <4> QED BY <4>1 DEF MatchingInv
    <3> QED BY <3>1, <3>2
  <2>3. Matching' => Queued'
    BY <1>2, MatchingUi, MatchingNet, MatchingServer DEF Next, UiHistory, Rest
  <2> QED BY <2>1, <2>2, <2>3 DEF MatchingInv
<1> QED BY <1>1, <1>2

(* Who shows the matching screen undisturbed is in the queue, or in a game *)
(* whose start could not be sent to the other player, however              *)
(* cancellations, starts, ends, losses of the connection and of sends, and *)
(* new requests cross.                                                     *)
THEOREM MatchingIsWaiting == Spec => []MatchingMeansWaiting
<1>1. Init => LinkInv /\ MatchingInv
  BY DEF Init, InitClient, LinkInv, MatchingInv, Matching, Running
<1>2. TypeInv /\ LinkInv /\ MatchingInv => MatchingMeansWaiting
  <2>1. fromServer = <<>> => ~HasAnswer(fromServer)
    BY DEF HasAnswer
  <2> QED BY <2>1 DEF MatchingInv, Matching, Queued, Answer, MatchingMeansWaiting
<1> QED BY <1>1, <1>2, TypeInvInit, TypeInvStep, LinkInvStep, MatchingInvStep, PTL DEF Spec

-----------------------------------------------------------------------------
(* The stream of messages. *)
LEMMA StreamTypes ==
  ASSUME TypeInv
  PROVE  /\ DOMAIN fromServer = 1 .. Len(fromServer) /\ Len(fromServer) \in Nat
         /\ Len(board) \in Nat /\ DOMAIN board = 1 .. Len(board)
         /\ GameIds \subseteq Nat /\ counter \in Nat /\ live \subseteq GameIds
         /\ shown # NoGame => shown \in GameIds
         /\ \A g \in GameIds : g # NoGame /\ sent[g] \in Nat
         /\ untold \subseteq GameIds
         /\ \A i \in News : i \in DOMAIN fromServer /\ G(i) \in GameIds
         /\ \A i \in At("start") : i \in News
         /\ \A i \in At("resigned") : i \in News
         /\ \A i \in At("move") : i \in News /\ N(i) \in Nat
<1>1. /\ fromServer \in Seq(Messages) /\ board \in Seq(Moves)
      /\ DOMAIN fromServer = 1 .. Len(fromServer) /\ Len(fromServer) \in Nat
      /\ Len(board) \in Nat /\ DOMAIN board = 1 .. Len(board)
  BY LenProperties DEF TypeInv, SessionTypeOK
<1>2. /\ GameIds \subseteq Nat /\ counter \in Nat /\ live \subseteq GameIds
      /\ shown # NoGame => shown \in GameIds
      /\ \A g \in GameIds : g # NoGame /\ sent[g] \in Nat
      /\ untold \subseteq GameIds
  BY SentFacts, SessionAssumption, ClientAssumption DEF TypeInv, SessionTypeOK
<1>3. \A i \in DOMAIN fromServer : fromServer[i] \in Messages
  BY <1>1
<1>4. \A i \in News : i \in DOMAIN fromServer /\ G(i) \in GameIds
  BY <1>3, MessageTypes DEF News, G, Moves
<1>5. \A i \in At("move") : i \in News /\ N(i) \in Nat
  BY <1>3, MessageTypes DEF At, News, N, Moves
<1>6. (\A i \in At("start") : i \in News) /\ (\A i \in At("resigned") : i \in News)
  BY DEF At, News
<1> QED BY <1>1, <1>2, <1>4, <1>5, <1>6

(* Nothing that StreamInv speaks of changes, but the record. *)
streamVars == <<connected, net, board, shown, local_team, outcome, live, self, waiting, sent, counter, untold,
                strayed>>

LEMMA StreamStays ==
  ASSUME StreamInv, UNCHANGED <<fromServer, streamVars>>, ~strayed => SavedInv'
  PROVE  StreamInv'
<1> SUFFICES ASSUME ~strayed PROVE StreamInv'
  BY DEF StreamInv, streamVars
<1> USE DEF streamVars, News, At, G, N, Final, Clear
<1>1. OneGame' /\ GamesInOrder'
  BY DEF StreamInv, OneGame, GamesInOrder
<1>2. MovesInOrder'
  BY DEF StreamInv, MovesInOrder
<1>3. BoardInv' /\ NoneMissing'
  BY DEF StreamInv, BoardInv, NoneMissing, Running
<1>4. EndsLast' /\ LiveInv'
  BY DEF StreamInv, EndsLast, LiveInv
<1> QED BY <1>1, <1>2, <1>3, <1>4 DEF StreamInv

(* save_current_game of the game shown, whose moves are all distinct. *)
LEMMA PgnMoveCountOfGame ==
  ASSUME TypeInv, BoardInv, Clear
  PROVE  PgnMoveCount = Capped(Len(board))
<1> DEFINE new == {i \in DOMAIN board : i = 1 \/ board[i] # board[i - 1]}
<1>1. Len(board) \in Nat /\ DOMAIN board = 1 .. Len(board)
  BY LenProperties DEF TypeInv, SessionTypeOK
<1>2. new = 1 .. Len(board)
  <2> SUFFICES ASSUME NEW i \in 1 .. Len(board), i # 1 PROVE board[i] # board[i - 1]
    BY <1>1
  <2>1. i - 1 \in DOMAIN board /\ i \in DOMAIN board
    BY <1>1
  <2>2. board[i].n = i /\ board[i - 1].n = i - 1
    BY <2>1 DEF BoardInv
  <2> QED BY <2>2
<1>3. Cardinality(new) = Len(board)
  <2>1. PICK n \in Nat : n = Len(board)
    BY <1>1
  <2>2. Cardinality(1 .. n) = IF 1 > n THEN 0 ELSE n - 1 + 1
    BY FS_Interval
  <2>3. Cardinality(1 .. n) = n
    BY <2>2
  <2> QED BY <1>2, <2>1, <2>3
<1> HIDE DEF new
<1> QED BY <1>3 DEF PgnMoveCount, new, Capped

LEMMA RecordOfGame ==
  ASSUME TypeInv, BoardInv, Clear, SaveCurrentGame, board # <<>>
  PROVE  /\ saved'.moves = Capped(Len(board))
         /\ board[Len(board)].end = "checkmate" /\ ~replayed =>
              saved'.result = IF Len(board) % 2 = 1 THEN "1-0" ELSE "0-1"
<1>1. PICK result \in PgnResults : saved' = [moves |-> PgnMoveCount, result |-> result]
  BY DEF SaveCurrentGame
<1>2. saved'.moves = Capped(Len(board)) /\ saved'.result = result
  BY <1>1, PgnMoveCountOfGame
<1>3. ASSUME board[Len(board)].end = "checkmate", ~replayed
      PROVE  result = IF Len(board) % 2 = 1 THEN "1-0" ELSE "0-1"
  <2>1. result = IF SideToMove = local_team THEN LocalLoses ELSE LocalWins
    BY <1>3 DEF PgnResults, PgnResult
  <2>2. local_team \in {"white", "black"}
    BY DEF TypeInv, SessionTypeOK, Teams
  <2>3. Len(board) % 2 = 0 \/ Len(board) % 2 = 1
    BY LenProperties DEF TypeInv, SessionTypeOK
  <2> QED BY <2>1, <2>2, <2>3 DEF SideToMove, LocalLoses, LocalWins
<1> QED BY <1>2, <1>3

LEMMA StreamUi ==
  ASSUME TypeInv, StreamInv, UiNext, UNCHANGED serverVars
  PROVE  StreamInv'
<1>1. UNCHANGED <<fromServer, streamVars>>
  <2>1. sent' = sent
    BY SentFacts DEF serverVars
  <2> QED BY <2>1, UiWrites DEF streamVars, serverVars
<1>2. ASSUME ~strayed PROVE SavedInv'
  <2>1. SavedInv /\ BoardInv
    BY <1>2 DEF StreamInv
  <2>2. CASE UNCHANGED saved /\ replayed' \in {replayed, TRUE}
    BY <1>1, <2>1, <2>2 DEF SavedInv, streamVars, Clear
  <2>3. CASE SaveCurrentGame /\ UNCHANGED replayed
    <3>1. Clear' <=> Clear
      BY <1>1 DEF Clear, streamVars
    <3> QED BY <1>1, <2>1, <2>3, <3>1, RecordOfGame DEF SavedInv, streamVars
  <2> QED BY <2>2, <2>3, UiWrites
<1> QED BY <1>1, <1>2, StreamStays


(* A message is taken: the others move up by one place. *)
Same(i, k) ==
  /\ fromServer'[i] = fromServer[k] /\ G(i)' = G(k) /\ N(i)' = N(k) /\ (Final(i)' <=> Final(k))
  /\ i \in At("start")' <=> k \in At("start")
  /\ i \in At("move")' <=> k \in At("move")
  /\ i \in At("resigned")' <=> k \in At("resigned")
  /\ i \in At("ended")' <=> k \in At("ended")

Moved ==
  /\ \A i \in News' : i \in Nat /\ i >= 1 /\ \E k \in News : k = i + 1 /\ Same(i, k)
  /\ \A k \in News : k \in Nat /\ (k # 1 => \E i \in News' : k = i + 1 /\ Same(i, k))
  /\ \A i \in DOMAIN fromServer' : \E k \in DOMAIN fromServer : k = i + 1 /\ Same(i, k)

LEMMA ReceiveMoves ==
  ASSUME TypeInv, NEW type, Receive(type)
  PROVE  /\ Moved
         /\ 1 \in DOMAIN fromServer /\ Message = fromServer[1] /\ 1 \in At(type)
         /\ Len(fromServer') = Len(fromServer) - 1
         /\ net = "loop" /\ connected /\ connected'
<1>1. /\ fromServer # <<>> /\ fromServer' = Tail(fromServer) /\ Message.type = type
      /\ Message = Head(fromServer) /\ net = "loop" /\ connected /\ connected'
  BY DEF Receive, Message
<1>2. /\ DOMAIN fromServer' = 1 .. (Len(fromServer) - 1) /\ DOMAIN fromServer = 1 .. Len(fromServer)
      /\ Len(fromServer) \in Nat /\ Len(fromServer) >= 1 /\ Message = fromServer[1]
      /\ Len(fromServer') = Len(fromServer) - 1
      /\ \A i \in 1 .. (Len(fromServer) - 1) : fromServer'[i] = fromServer[i + 1]
  BY <1>1, TailFacts DEF TypeInv
<1>3. 1 \in DOMAIN fromServer /\ 1 \in At(type)
  BY <1>1, <1>2 DEF At
<1>4. ASSUME NEW i \in DOMAIN fromServer', NEW k \in DOMAIN fromServer, k = i + 1
      PROVE  Same(i, k) /\ (i \in News' <=> k \in News)
  <2>1. fromServer'[i] = fromServer[k]
    BY <1>2, <1>4
  <2>2. G(i)' = G(k) /\ N(i)' = N(k) /\ (Final(i)' <=> Final(k))
    BY <2>1 DEF G, N, Final
  <2>3. /\ i \in News' <=> k \in News
        /\ i \in At("start")' <=> k \in At("start")
        /\ i \in At("move")' <=> k \in At("move")
        /\ i \in At("resigned")' <=> k \in At("resigned")
        /\ i \in At("ended")' <=> k \in At("ended")
    BY <2>1 DEF News, At
  <2> QED BY <2>1, <2>2, <2>3 DEF Same
<1>5. ASSUME NEW i \in DOMAIN fromServer'
      PROVE  \E k \in DOMAIN fromServer : k = i + 1 /\ Same(i, k) /\ (i \in News' <=> k \in News)
  <2>1. PICK k \in DOMAIN fromServer : k = i + 1
    BY <1>2
  <2> QED BY <1>4, <2>1
<1>6. ASSUME NEW k \in DOMAIN fromServer, k # 1
      PROVE  \E i \in DOMAIN fromServer' : k = i + 1 /\ Same(i, k) /\ (i \in News' <=> k \in News)
  <2>1. k - 1 \in DOMAIN fromServer' /\ k = (k - 1) + 1
    BY <1>2, <1>6
  <2>2. PICK i \in DOMAIN fromServer' : k = i + 1
    BY <2>1
  <2> QED BY <1>4, <2>2
<1>7. News \subseteq DOMAIN fromServer /\ News' \subseteq DOMAIN fromServer'
  BY DEF News
<1>8. \A i \in News' : i \in Nat /\ i >= 1 /\ \E k \in News : k = i + 1 /\ Same(i, k)
  <2> TAKE i \in News'
  <2>1. i \in Nat /\ i >= 1
    BY <1>2, <1>7
  <2>2. \E k \in News : k = i + 1 /\ Same(i, k)
    BY <1>5, <1>7
  <2> QED BY <2>1, <2>2
<1>9. \A k \in News : k \in Nat /\ (k # 1 => \E i \in News' : k = i + 1 /\ Same(i, k))
  <2> TAKE k \in News
  <2>1. k \in Nat
    BY <1>2, <1>7
  <2>2. k # 1 => \E i \in News' : k = i + 1 /\ Same(i, k)
    BY <1>6, <1>7
  <2> QED BY <2>1, <2>2
<1>10. Moved
  BY <1>5, <1>8, <1>9 DEF Moved
<1> QED BY <1>1, <1>2, <1>3, <1>10

LEMMA MovedGames ==
  ASSUME TypeInv, TypeInv', Moved, GamesInOrder, UNCHANGED counter,
         \/ UNCHANGED shown
         \/ 1 \in At("start") /\ shown' = G(1)
  PROVE  GamesInOrder'
<1>1. /\ \A i \in News' : i \in Nat /\ i >= 1 /\ \E k \in News : k = i + 1 /\ Same(i, k)
      /\ \A k \in News : k \in Nat
  BY DEF Moved
<1>2. /\ \A k \in News : G(k) \in Nat /\ G(k) # NoGame
      /\ counter \in Nat /\ (shown # NoGame => shown \in Nat)
      /\ 1 \in At("start") => 1 \in News
  BY StreamTypes
<1>3. ASSUME NEW i \in News' PROVE G(i)' <= counter'
  <2>1. PICK k \in News : k = i + 1 /\ Same(i, k)
    BY <1>1
  <2> QED BY <2>1, <1>2 DEF GamesInOrder, Same
<1>4. ASSUME NEW i \in News', NEW j \in News', i < j
      PROVE  G(i)' <= G(j)' /\ (j \in At("start")' => G(i)' < G(j)' \/ i \in At("ended")')
  <2>1. PICK k \in News : k = i + 1 /\ Same(i, k)
    BY <1>1
  <2>2. PICK l \in News : l = j + 1 /\ Same(j, l)
    BY <1>1
  <2>3. k < l
    BY <1>1, <1>4, <2>1, <2>2
  <2> QED BY <2>1, <2>2, <2>3 DEF GamesInOrder, Same
<1>5. ASSUME shown' # NoGame, NEW i \in News'
      PROVE  shown' <= G(i)' /\ (i \in At("start")' => shown' < G(i)')
  <2>1. PICK k \in News : k = i + 1 /\ Same(i, k)
    BY <1>1
  <2>2. CASE UNCHANGED shown
    BY <1>5, <2>1, <2>2 DEF GamesInOrder, Same
  <2>3. CASE 1 \in At("start") /\ shown' = G(1)
    <3>1. i >= 1 /\ i \in Nat
      BY <1>1
    <3>2. 1 \in News /\ 1 < k /\ 1 \notin At("ended")
      <4>1. 1 \in News /\ 1 < k
        BY <1>2, <2>1, <2>3, <3>1
      <4> QED BY <2>3, <4>1 DEF At
    <3> QED BY <2>1, <2>3, <3>2 DEF GamesInOrder, Same
  <2> QED BY <2>2, <2>3
<1> QED BY <1>3, <1>4, <1>5 DEF GamesInOrder


LEMMA AtNews ==
  /\ At("start") \subseteq News /\ At("move") \subseteq News /\ At("resigned") \subseteq News
  /\ At("start")' \subseteq News' /\ At("move")' \subseteq News' /\ At("resigned")' \subseteq News'
  /\ At("ended") \subseteq News /\ At("ended")' \subseteq News'
BY DEF At, News

LEMMA MovedEnds ==
  ASSUME Moved, EndsLast, UNCHANGED <<live, sent>>
  PROVE  EndsLast'
<1>1. \A i \in News' : i \in Nat /\ \E k \in News : k = i + 1 /\ Same(i, k)
  BY DEF Moved
<1>2. ASSUME NEW i \in At("ended")' PROVE G(i)' \notin live'
  <2>1. PICK k \in News : k = i + 1 /\ Same(i, k)
    BY <1>1, AtNews
  <2> QED BY <2>1 DEF Same, EndsLast
<1>3. ASSUME NEW i \in At("resigned")'
      PROVE  G(i)' \notin live' /\ \A j \in At("move")' : i < j => G(i)' # G(j)'
  <2>1. PICK k \in News : k = i + 1 /\ Same(i, k)
    BY <1>1, AtNews
  <2>2. k \in At("resigned") /\ G(i)' = G(k)
    BY <2>1 DEF Same
  <2>3. ASSUME NEW j \in At("move")', i < j PROVE G(i)' # G(j)'
    <3>1. PICK l \in News : l = j + 1 /\ Same(j, l)
      BY <1>1, AtNews
    <3>2. l \in At("move") /\ G(j)' = G(l)
      BY <3>1 DEF Same
    <3>3. i \in Nat /\ j \in Nat
      BY <1>1, AtNews
    <3>4. k < l
      BY <2>1, <2>3, <3>1, <3>3
    <3> QED BY <2>2, <3>2, <3>4 DEF EndsLast
  <2> QED BY <2>2, <2>3 DEF EndsLast
<1>4. ASSUME NEW i \in At("move")', Final(i)'
      PROVE  N(i)' = sent'[G(i)'] /\ G(i)' \notin live'
  <2>1. PICK k \in News : k = i + 1 /\ Same(i, k)
    BY <1>1, AtNews
  <2>2. k \in At("move") /\ Final(k) /\ G(i)' = G(k) /\ N(i)' = N(k)
    BY <1>4, <2>1 DEF Same
  <2> QED BY <2>2 DEF EndsLast
<1> QED BY <1>2, <1>3, <1>4 DEF EndsLast

(* What the message taken does to the game shown. *)
Taken ==
  \/ 1 \in At("start") /\ shown' = G(1) /\ Len(board') = 0
  \/ /\ 1 \in At("move") /\ UNCHANGED shown
     /\ shown = G(1) /\ Len(board) = N(1) - 1 /\ Len(board') = N(1)
  \/ 1 \notin At("start") /\ 1 \notin At("move") /\ UNCHANGED <<shown, board>>
  \/ /\ 1 \in At("move") /\ UNCHANGED shown
     /\ G(1) \in untold /\ \A i \in News : i # 1 => G(i) # shown

LEMMA MovedMoves ==
  ASSUME TypeInv, Moved, GamesInOrder, MovesInOrder, UNCHANGED <<sent, untold>>, 1 \in DOMAIN fromServer,
         Taken
  PROVE  MovesInOrder'
<1>1. /\ \A i \in News' : i \in Nat /\ i >= 1 /\ \E k \in News : k = i + 1 /\ Same(i, k)
      /\ \A k \in News : k \in Nat /\ (k # 1 => \E i \in News' : k = i + 1 /\ Same(i, k))
  BY DEF Moved
<1>2. /\ \A k \in News : G(k) \in Nat /\ G(k) # NoGame
      /\ \A k \in At("move") : N(k) \in Nat /\ sent[G(k)] \in Nat
      /\ Len(board) \in Nat
  BY StreamTypes
<1>3. \A i \in At("move")' : i \in Nat /\ i >= 1 /\ \E k \in At("move") : k = i + 1 /\ Same(i, k)
  <2> TAKE i \in At("move")'
  <2>1. i \in Nat /\ i >= 1 /\ \E k \in News : k = i + 1 /\ Same(i, k)
    BY <1>1, AtNews
  <2>2. PICK k \in News : k = i + 1 /\ Same(i, k)
    BY <2>1
  <2>3. k \in At("move")
    BY <2>2 DEF Same
  <2> QED BY <2>1, <2>2, <2>3
<1>4. ASSUME NEW i \in At("move")' PROVE N(i)' >= 1 /\ N(i)' <= sent'[G(i)']
  <2>1. PICK k \in At("move") : k = i + 1 /\ Same(i, k)
    BY <1>3
  <2> QED BY <2>1 DEF MovesInOrder, Same
<1>5. ASSUME NEW i \in At("move")', NEW j \in At("move")', i < j, G(i)' = G(j)' PROVE N(i)' < N(j)'
  <2>1. PICK k \in At("move") : k = i + 1 /\ Same(i, k)
    BY <1>3
  <2>2. PICK l \in At("move") : l = j + 1 /\ Same(j, l)
    BY <1>3
  <2>3. k < l
    BY <1>3, <1>5, <2>1, <2>2
  <2>4. G(k) = G(l)
    BY <1>5, <2>1, <2>2 DEF Same
  <2>5. N(k) < N(l)
    BY <2>3, <2>4 DEF MovesInOrder
  <2> QED BY <2>1, <2>2, <2>5 DEF Same
<1>6. ASSUME NEW i \in At("move")'
      PROVE  /\ shown' = G(i)' => Len(board') < N(i)'
             /\ \/ N(i)' = 1 /\ \E j \in At("start")' : j < i /\ G(j)' = G(i)'
                \/ \E j \in At("move")' : j < i /\ G(j)' = G(i)' /\ N(j)' = N(i)' - 1
                \/ shown' = G(i)' /\ Len(board') = N(i)' - 1
                \/ G(i)' \in untold'
  <2>1. PICK k \in At("move") : k = i + 1 /\ Same(i, k)
    BY <1>3
  <2>2. G(i)' = G(k) /\ N(i)' = N(k) /\ k \in News /\ k \in Nat /\ k > 1 /\ i \in Nat
    BY <1>3, <2>1, AtNews DEF Same
  <2>3. N(k) \in Nat /\ N(k) >= 1
    BY <1>2 DEF MovesInOrder
  <2>4. shown' = G(k) => Len(board') < N(k)
    <3>1. CASE 1 \in At("start") /\ shown' = G(1) /\ Len(board') = 0
      BY <2>3, <3>1
    <3>2. CASE 1 \in At("move") /\ UNCHANGED shown /\ shown = G(1) /\ Len(board') = N(1)
      BY <2>2, <3>2 DEF MovesInOrder
    <3>3. CASE UNCHANGED <<shown, board>>
      BY <3>3 DEF MovesInOrder
    <3>4. CASE UNCHANGED shown /\ \A l \in News : l # 1 => G(l) # shown
      BY <2>2, <3>4
    <3> QED BY <3>1, <3>2, <3>3, <3>4 DEF Taken
  <2>5. \/ N(i)' = 1 /\ \E j \in At("start")' : j < i /\ G(j)' = G(i)'
        \/ \E j \in At("move")' : j < i /\ G(j)' = G(i)' /\ N(j)' = N(i)' - 1
        \/ shown' = G(i)' /\ Len(board') = N(i)' - 1
        \/ G(i)' \in untold'
    <3>1. CASE N(k) = 1 /\ \E l \in At("start") : l < k /\ G(l) = G(k)
      <4>1. PICK l \in At("start") : l < k /\ G(l) = G(k)
        BY <3>1
      <4>2. CASE l = 1
        <5>1. shown' = G(1) /\ Len(board') = 0
          <6>1. 1 \notin At("move")
            BY <4>2 DEF At
          <6> QED BY <4>2, <6>1 DEF Taken
        <5> QED BY <2>2, <3>1, <4>1, <4>2, <5>1
      <4>3. CASE l # 1
        <5>1. PICK j \in News' : l = j + 1 /\ Same(j, l)
          BY <1>1, <4>3, AtNews
        <5>2. j \in At("start")' /\ G(j)' = G(l) /\ j < i
          BY <1>1, <2>1, <2>2, <4>1, <5>1 DEF Same
        <5> QED BY <2>2, <3>1, <4>1, <5>2
      <4> QED BY <4>2, <4>3
    <3>2. CASE \E l \in At("move") : l < k /\ G(l) = G(k) /\ N(l) = N(k) - 1
      <4>1. PICK l \in At("move") : l < k /\ G(l) = G(k) /\ N(l) = N(k) - 1
        BY <3>2
      <4>2. CASE l = 1
        <5>1. (shown' = G(1) /\ Len(board') = N(1)) \/ (G(1) \in untold /\ untold' = untold)
          <6>1. 1 \notin At("start")
            BY <4>2 DEF At
          <6> QED BY <4>2, <6>1 DEF Taken
        <5> QED BY <2>2, <4>1, <4>2, <5>1
      <4>3. CASE l # 1
        <5>1. PICK j \in News' : l = j + 1 /\ Same(j, l)
          BY <1>1, <4>3, AtNews
        <5>2. j \in At("move")' /\ G(j)' = G(l) /\ N(j)' = N(l) /\ j < i
          BY <1>1, <2>1, <2>2, <4>1, <5>1 DEF Same
        <5> QED BY <2>2, <4>1, <5>2
      <4> QED BY <4>2, <4>3
    <3>3. CASE shown = G(k) /\ Len(board) = N(k) - 1
      <4>1. 1 \notin At("start")
        <5> SUFFICES ASSUME 1 \in At("start") PROVE FALSE
          OBVIOUS
        <5>1. shown # NoGame /\ 1 \in News
          BY <1>2, <2>2, <3>3, AtNews
        <5>2. shown < G(1) /\ G(1) <= G(k)
          BY <2>2, <5>1 DEF GamesInOrder
        <5>3. shown \in Nat /\ G(1) \in Nat /\ G(k) \in Nat
          BY <1>2, <2>2, <3>3, <5>1
        <5> QED BY <3>3, <5>2, <5>3
      <4>2. ASSUME 1 \in At("move"), shown = G(1), Len(board) = N(1) - 1 PROVE FALSE
        <5>1. N(1) < N(k)
          BY <2>2, <3>3, <4>2 DEF MovesInOrder
        <5>2. N(1) \in Nat
          BY <1>2, <4>2
        <5> QED BY <2>3, <3>3, <4>2, <5>1, <5>2
      <4>3. UNCHANGED <<shown, board>>
        BY <2>2, <3>3, <4>1, <4>2 DEF Taken
      <4> QED BY <2>2, <3>3, <4>3
    <3>4. CASE G(k) \in untold
      BY <2>2, <3>4
    <3> QED BY <3>1, <3>2, <3>3, <3>4 DEF MovesInOrder
  <2> QED BY <2>2, <2>4, <2>5
<1> QED BY <1>4, <1>5, <1>6 DEF MovesInOrder


(* NoneMissing and LiveInv do not miss the message taken, if it is neither *)
(* the last move of a game to come nor a move or the start of a live one.  *)
LEMMA MovedMissing ==
  ASSUME Moved, UNCHANGED sent,
         \A s \in At("start") : sent[G(s)] > 0 =>
           \E i \in At("move") : G(i) = G(s) /\ N(i) = sent[G(s)],
         1 \in At("move") => \A s \in At("start") : s # 1 => G(1) # G(s)
  PROVE  \A s \in At("start")' : sent'[G(s)'] > 0 =>
           \E i \in At("move")' : G(i)' = G(s)' /\ N(i)' = sent'[G(s)']
<1> SUFFICES ASSUME NEW s \in At("start")', sent'[G(s)'] > 0
             PROVE  \E i \in At("move")' : G(i)' = G(s)' /\ N(i)' = sent'[G(s)']
  OBVIOUS
<1>1. PICK t \in News : s \in Nat /\ s >= 1 /\ t = s + 1 /\ Same(s, t)
  BY AtNews DEF Moved
<1>2. t \in At("start") /\ G(s)' = G(t) /\ t # 1
  BY <1>1 DEF Same
<1>3. PICK k \in At("move") : G(k) = G(t) /\ N(k) = sent[G(t)]
  BY <1>2
<1>4. k # 1
  BY <1>2, <1>3
<1>5. PICK i \in News' : k = i + 1 /\ Same(i, k)
  BY <1>4, AtNews DEF Moved
<1>6. i \in At("move")' /\ G(i)' = G(k) /\ N(i)' = N(k)
  BY <1>5 DEF Same
<1> QED BY <1>2, <1>3, <1>6

StartLive(g, s) ==
  /\ G(s) = g /\ fromServer[s].team = Lots[g]
  /\ Len(fromServer) = s + sent[g]
  /\ \A i \in DOMAIN fromServer : i > s => i \in At("move") /\ G(i) = g /\ N(i) = i - s
ShownLive(g) ==
  /\ shown = g /\ local_team = Lots[g]
  /\ Len(board) + Len(fromServer) = sent[g]
  /\ \A i \in DOMAIN fromServer : i \in At("move") /\ G(i) = g /\ N(i) = Len(board) + i

LEMMA LiveInvForms ==
  LiveInv <=> (connected => \A g \in live :
                 ShownLive(g) \/ (\E s \in At("start") : StartLive(g, s)) \/ g \in untold)
BY DEF LiveInv, ShownLive, StartLive

LEMMA MovedStartLive ==
  ASSUME TypeInv, TypeInv', Moved, UNCHANGED sent, Len(fromServer') = Len(fromServer) - 1,
         NEW g \in GameIds, NEW s \in At("start"), s # 1, StartLive(g, s)
  PROVE  \E t \in At("start")' : StartLive(g, t)'
<1>1. PICK t \in News' : s = t + 1 /\ Same(t, s)
  BY AtNews DEF Moved
<1>2. t \in At("start")' /\ G(t)' = g /\ fromServer'[t].team = Lots[g] /\ t \in Nat
  BY <1>1 DEF Same, StartLive, Moved
<1>3. Len(fromServer') = t + sent'[g]
  <2>1. Len(fromServer) = s + sent[g] /\ sent[g] \in Nat /\ sent'[g] = sent[g]
    BY StreamTypes DEF StartLive
  <2>2. Len(fromServer') = s + sent[g] - 1 /\ s = t + 1 /\ t \in Nat
    BY <1>1, <1>2, <2>1
  <2> QED BY <2>1, <2>2
<1>4. ASSUME NEW i \in DOMAIN fromServer', i > t
      PROVE  i \in At("move")' /\ G(i)' = g /\ N(i)' = i - t
  <2>1. PICK k \in DOMAIN fromServer : k = i + 1 /\ Same(i, k)
    BY DEF Moved
  <2>2. i \in Nat
    BY LenProperties DEF TypeInv
  <2>3. k > s /\ k - s = i - t
    BY <1>1, <1>2, <1>4, <2>1, <2>2
  <2>4. k \in At("move") /\ G(k) = g /\ N(k) = k - s
    BY <2>3 DEF StartLive
  <2> QED BY <2>1, <2>3, <2>4 DEF Same
<1> QED BY <1>2, <1>3, <1>4 DEF StartLive

LEMMA MovedStarts ==
  ASSUME Moved, OneGame, UNCHANGED untold
  PROVE  \A i \in At("start")' : G(i)' \notin untold'
<1> TAKE i \in At("start")'
<1>1. PICK k \in News : k = i + 1 /\ Same(i, k)
  BY AtNews DEF Moved
<1> QED BY <1>1 DEF Same, OneGame

LEMMA StreamStart ==
  ASSUME TypeInv, TypeInv', StreamInv, NetStart, UNCHANGED serverVars
  PROVE  StreamInv'
<1> SUFFICES ASSUME ~strayed PROVE StreamInv'
  BY DEF StreamInv, serverVars
<1>1. /\ Moved /\ 1 \in At("start") /\ 1 \in DOMAIN fromServer /\ Message = fromServer[1]
      /\ Len(fromServer') = Len(fromServer) - 1
      /\ net = "loop" /\ connected /\ connected'
  BY ReceiveMoves DEF NetStart
<1>2. /\ board' = <<>> /\ Len(board') = 0 /\ shown' = G(1) /\ local_team' = fromServer[1].team
      /\ outcome' = "running" /\ net' = "loop"
      /\ UNCHANGED <<waiting, live, self, sent, counter, untold, strayed>>
  <2>1. sent' = sent
    BY SentFacts DEF serverVars
  <2> QED BY <1>1, <2>1 DEF NetStart, StartPosition, G, At, serverVars
<1>3. /\ OneGame /\ GamesInOrder /\ MovesInOrder /\ BoardInv
      /\ NoneMissing /\ EndsLast /\ LiveInv /\ SavedInv
  BY DEF StreamInv
<1>4. 1 \in News /\ G(1) \in GameIds /\ G(1) # NoGame /\ sent[G(1)] \in Nat
  BY <1>1, StreamTypes
<1>5. OneGame'
  <2>1. \A i \in At("start")' : G(i)' \notin untold'
    BY <1>1, <1>2, <1>3, MovedStarts
  <2>2. \A g \in untold' : g <= counter' /\ g # shown'
    BY <1>1, <1>2, <1>3 DEF OneGame
  <2> QED BY <1>2, <1>3, <1>4, <2>1, <2>2 DEF OneGame, GamesInOrder
<1>6. GamesInOrder' /\ MovesInOrder' /\ EndsLast'
  BY <1>1, <1>2, <1>3, MovedGames, MovedMoves, MovedEnds DEF Taken
<1>7. BoardInv'
  BY <1>2, <1>4 DEF BoardInv
<1>8. NoneMissing'
  <2>1. \A s \in At("start")' : sent'[G(s)'] > 0 =>
           \E i \in At("move")' : G(i)' = G(s)' /\ N(i)' = sent'[G(s)']
    BY <1>1, <1>2, <1>3, MovedMissing DEF At, NoneMissing
  <2>2. ASSUME Len(board') < sent'[shown']
        PROVE  \E i \in At("move")' : G(i)' = shown' /\ N(i)' = sent'[shown']
    <3>1. PICK k \in At("move") : G(k) = G(1) /\ N(k) = sent[G(1)]
      BY <1>1, <1>2, <1>3, <1>4, <2>2 DEF NoneMissing
    <3>2. k # 1
      BY <1>1, <3>1 DEF At
    <3>3. PICK i \in News' : k = i + 1 /\ Same(i, k)
      BY <1>1, <3>2, AtNews DEF Moved
    <3>4. i \in At("move")' /\ G(i)' = G(k) /\ N(i)' = N(k)
      BY <3>3 DEF Same
    <3> QED BY <1>2, <3>1, <3>4
  <2> QED BY <1>2, <1>4, <2>1, <2>2 DEF NoneMissing
<1>9. LiveInv'
  <2> SUFFICES ASSUME NEW g \in live', g \notin untold'
               PROVE  ShownLive(g)' \/ \E s \in At("start")' : StartLive(g, s)'
    BY DEF LiveInv, ShownLive, StartLive
  <2>1. g \in live /\ g \in GameIds /\ g \notin untold
    BY <1>2, StreamTypes
  <2>2. ~ShownLive(g)
    BY <1>1 DEF ShownLive, At
  <2>3. PICK s \in At("start") : StartLive(g, s)
    BY <1>1, <1>3, <2>1, <2>2, LiveInvForms
  <2>4. CASE s # 1
    BY <1>1, <1>2, <2>1, <2>3, <2>4, MovedStartLive
  <2>5. CASE s = 1
    <3>1. shown' = g /\ local_team' = Lots[g]
      BY <1>2, <2>3, <2>5 DEF StartLive
    <3>2. Len(board') + Len(fromServer') = sent'[g]
      BY <1>1, <1>2, <2>1, <2>3, <2>5, StreamTypes DEF StartLive
    <3>3. ASSUME NEW i \in DOMAIN fromServer'
          PROVE  i \in At("move")' /\ G(i)' = g /\ N(i)' = Len(board') + i
      <4>1. PICK k \in DOMAIN fromServer : k = i + 1 /\ Same(i, k)
        BY <1>1 DEF Moved
      <4>2. i \in Nat /\ i >= 1
        BY LenProperties DEF TypeInv
      <4>3. k > 1 /\ k - 1 = i /\ i = Len(board') + i
        BY <1>2, <4>1, <4>2
      <4>4. k \in At("move") /\ G(k) = g /\ N(k) = k - 1
        BY <2>3, <2>5, <4>3 DEF StartLive
      <4> QED BY <4>1, <4>3, <4>4 DEF Same
    <3> QED BY <3>1, <3>2, <3>3 DEF ShownLive
  <2> QED BY <2>4, <2>5
<1>10. SavedInv'
  BY <1>2 DEF SavedInv
<1> QED BY <1>5, <1>6, <1>7, <1>8, <1>9, <1>10 DEF StreamInv


LEMMA StreamMove ==
  ASSUME TypeInv, TypeInv', StreamInv, NetMove, UNCHANGED serverVars
  PROVE  StreamInv'
<1> SUFFICES ASSUME ~strayed PROVE StreamInv'
  BY DEF StreamInv, serverVars
<1>1. /\ Moved /\ 1 \in At("move") /\ 1 \in DOMAIN fromServer /\ Message = fromServer[1]
      /\ Len(fromServer') = Len(fromServer) - 1
      /\ net = "loop" /\ connected /\ connected'
  BY ReceiveMoves DEF NetMove
<1>2. /\ board' = Append(board, fromServer[1].move)
      /\ net' = IF fromServer[1].move.end = "playing" THEN "loop" ELSE "ending"
      /\ UNCHANGED <<shown, local_team, outcome, saved, replayed>>
      /\ UNCHANGED <<waiting, live, self, sent, counter, untold, strayed>>
  <2>1. sent' = sent
    BY SentFacts DEF serverVars
  <2> QED BY <1>1, <2>1 DEF NetMove, ApplyMove, serverVars
<1>3. /\ OneGame /\ GamesInOrder /\ MovesInOrder /\ BoardInv
      /\ NoneMissing /\ EndsLast /\ LiveInv /\ SavedInv
  BY DEF StreamInv
<1>4. /\ 1 \in News /\ G(1) \in GameIds /\ G(1) # NoGame /\ sent[G(1)] \in Nat
      /\ N(1) \in Nat /\ Len(board) \in Nat
  BY <1>1, StreamTypes
(* It is the next one of the game shown, or one of a game that the client  *)
(* has not been told of.                                                   *)
<1>5. \/ shown = G(1) /\ Len(board) = N(1) - 1 /\ N(1) <= sent[G(1)]
      \/ G(1) \in untold
  <2>1. \A j \in News : ~(j < 1)
    BY StreamTypes
  <2> QED BY <1>1, <1>3, <2>1, AtNews DEF MovesInOrder
<1>6. /\ Len(board') = Len(board) + 1 /\ board' # <<>>
      /\ DOMAIN board' = 1 .. (Len(board) + 1) /\ board'[Len(board) + 1] = fromServer[1].move
      /\ \A i \in DOMAIN board : board'[i] = board[i]
  <2>1. board \in Seq(Moves)
    BY DEF TypeInv, SessionTypeOK
  <2>2. fromServer[1].move \in Moves
    BY <1>1, MessageTypes DEF At, TypeInv
  <2>3. /\ Len(board') = Len(board) + 1 /\ board' # <<>> /\ board' \in Seq(Moves)
        /\ board'[Len(board) + 1] = fromServer[1].move
        /\ \A i \in 1 .. Len(board) : board'[i] = board[i]
    BY <1>2, <2>1, <2>2, AppendProperties
  <2>4. DOMAIN board = 1 .. Len(board)
    BY <2>1, LenProperties
  <2>5. DOMAIN board' = 1 .. Len(board')
    BY <2>3, LenProperties
  <2> QED BY <2>3, <2>4, <2>5
<1>7. fromServer[1].move.game = G(1) /\ fromServer[1].move.n = N(1) /\ (fromServer[1].move.end # "playing" <=> Final(1))
  BY <1>1 DEF At, G, N, Final
<1>8. OneGame'
  <2>1. \A i \in At("start")' : G(i)' \notin untold'
    BY <1>1, <1>2, <1>3, MovedStarts
  <2> QED BY <1>2, <1>3, <2>1 DEF OneGame
<1>9. /\ Clear' <=> Clear
      /\ Clear => shown = G(1) /\ Len(board) = N(1) - 1 /\ N(1) <= sent[G(1)] /\ Len(board') = N(1)
      /\ G(1) \in untold => \A i \in News : i # 1 => G(i) # shown
  <2>1. Clear' <=> Clear
    BY <1>2 DEF Clear
  <2>2. shown # NoGame => shown <= G(1) /\ shown \in Nat /\ G(1) \in Nat
    BY <1>3, <1>4, StreamTypes DEF GamesInOrder
  <2>3. Clear => G(1) \notin untold
    BY <2>2 DEF Clear
  <2>4. ASSUME G(1) \in untold, NEW i \in News, i # 1 PROVE G(i) # shown
    <3>1. shown # G(1) /\ G(1) <= G(i) /\ G(i) \in Nat /\ G(i) # NoGame
      BY <1>3, <1>4, <2>4, StreamTypes DEF OneGame, GamesInOrder
    <3> QED BY <2>2, <3>1
  <2>5. Clear => Len(board') = N(1)
    BY <1>4, <1>5, <1>6, <2>3
  <2> QED BY <1>5, <2>1, <2>3, <2>4, <2>5
<1>10. GamesInOrder' /\ MovesInOrder' /\ EndsLast'
  <2>1. GamesInOrder' /\ EndsLast'
    BY <1>1, <1>2, <1>3, MovedGames, MovedEnds
  <2>2. /\ Moved /\ GamesInOrder /\ MovesInOrder /\ UNCHANGED <<sent, untold>>
        /\ 1 \in DOMAIN fromServer /\ 1 \in At("move") /\ UNCHANGED shown
    BY <1>1, <1>2, <1>3
  <2>3. CASE G(1) \in untold
    <3>1. \A i \in News : i # 1 => G(i) # shown
      BY <1>9, <2>3
    <3>2. Taken
      BY <2>3, <2>2, <3>1 DEF Taken
    <3> QED BY <2>1, <2>2, <3>2, MovedMoves
  <2>4. CASE G(1) \notin untold
    <3>1. shown = G(1) /\ Len(board) = N(1) - 1 /\ Len(board') = N(1)
      BY <1>4, <1>5, <1>6, <2>4
    <3>2. Taken
      BY <2>2, <3>1 DEF Taken
    <3> QED BY <2>1, <2>2, <3>2, MovedMoves
  <2> QED BY <2>1, <2>3, <2>4
<1>11. BoardInv'
  <2> SUFFICES ASSUME Clear' PROVE BoardInv'
    BY DEF BoardInv
  <2>1. Clear /\ shown = G(1) /\ Len(board) = N(1) - 1 /\ N(1) <= sent[G(1)] /\ Len(board') = N(1)
    BY <1>9
  <2>2. board'[N(1)] = fromServer[1].move /\ DOMAIN board' = 1 .. N(1)
    BY <1>4, <1>6, <2>1
  <2>3. ASSUME NEW i \in DOMAIN board' PROVE board'[i].game = shown' /\ board'[i].n = i
    <3>1. CASE i = N(1)
      BY <1>2, <1>7, <2>1, <2>2, <3>1
    <3>2. CASE i # N(1)
      <4>1. i \in DOMAIN board
        BY <1>4, <2>1, <2>2, <3>2, StreamTypes
      <4> QED BY <1>2, <1>3, <1>6, <2>1, <4>1 DEF BoardInv
    <3> QED BY <3>1, <3>2
  <2>4. Final(1) => N(1) = sent[G(1)] /\ G(1) \notin live
    BY <1>1, <1>3 DEF EndsLast
  <2> QED BY <1>2, <1>7, <2>1, <2>3, <2>4, <2>2 DEF BoardInv
<1>12. NoneMissing'
  <2>1. 1 \in At("move") => \A s \in At("start") : s # 1 => G(1) # G(s)
    <3> SUFFICES ASSUME NEW s \in At("start"), s # 1 PROVE G(1) # G(s)
      OBVIOUS
    <3>1. 1 < s /\ s \in News
      BY AtNews, StreamTypes
    <3>2. 1 \notin At("ended")
      BY <1>1 DEF At
    <3>3. G(1) < G(s) /\ G(1) \in Nat /\ G(s) \in Nat
      BY <1>3, <1>4, <3>1, <3>2, StreamTypes DEF GamesInOrder
    <3> QED BY <3>3
  <2>2. \A s \in At("start")' : sent'[G(s)'] > 0 =>
           \E i \in At("move")' : G(i)' = G(s)' /\ N(i)' = sent'[G(s)']
    BY <1>1, <1>2, <1>3, <2>1, MovedMissing DEF NoneMissing
  <2>3. ASSUME Running', Clear', Len(board') < sent'[shown']
        PROVE  \E i \in At("move")' : G(i)' = shown' /\ N(i)' = sent'[shown']
    <3>1. Running /\ Clear /\ Len(board) < sent[shown] /\ N(1) < sent[shown] /\ shown = G(1)
      BY <1>2, <1>4, <1>9, <2>3 DEF Running
    <3>2. PICK k \in At("move") : G(k) = shown /\ N(k) = sent[shown]
      BY <1>3, <3>1 DEF NoneMissing
    <3>3. k # 1
      BY <1>4, <3>1, <3>2
    <3>4. PICK i \in News' : k = i + 1 /\ Same(i, k)
      BY <1>1, <3>3, AtNews DEF Moved
    <3>5. i \in At("move")' /\ G(i)' = G(k) /\ N(i)' = N(k)
      BY <3>4 DEF Same
    <3> QED BY <1>2, <3>2, <3>5
  <2>4. Running' => shown' # NoGame
    BY <1>2, <1>3 DEF NoneMissing, Running
  <2> QED BY <2>2, <2>3, <2>4 DEF NoneMissing
<1>13. LiveInv'
  <2> SUFFICES ASSUME NEW g \in live', g \notin untold'
               PROVE  ShownLive(g)' \/ \E s \in At("start")' : StartLive(g, s)'
    BY DEF LiveInv, ShownLive, StartLive
  <2>1. g \in live /\ g \in GameIds /\ g \notin untold
    BY <1>2, StreamTypes
  <2>2. CASE \E s \in At("start") : StartLive(g, s)
    <3>1. PICK s \in At("start") : StartLive(g, s)
      BY <2>2
    <3>2. s # 1
      BY <1>1 DEF At
    <3> QED BY <1>1, <1>2, <2>1, <3>1, <3>2, MovedStartLive
  <2>3. CASE ShownLive(g)
    <3>1. shown' = g /\ local_team' = Lots[g]
      BY <1>2, <2>3 DEF ShownLive
    <3>2. Len(board') + Len(fromServer') = sent'[g]
      <4>1. Len(board) + Len(fromServer) = sent[g] /\ Len(fromServer) \in Nat
        BY <2>3, StreamTypes DEF ShownLive
      <4> QED BY <1>1, <1>2, <1>4, <1>6, <4>1
    <3>3. ASSUME NEW i \in DOMAIN fromServer'
          PROVE  i \in At("move")' /\ G(i)' = g /\ N(i)' = Len(board') + i
      <4>1. PICK k \in DOMAIN fromServer : k = i + 1 /\ Same(i, k)
        BY <1>1 DEF Moved
      <4>2. i \in Nat
        BY LenProperties DEF TypeInv
      <4>3. k \in At("move") /\ G(k) = g /\ N(k) = Len(board) + k
        BY <2>3 DEF ShownLive
      <4>4. N(k) = Len(board') + i
        BY <1>4, <1>6, <4>1, <4>2, <4>3
      <4> QED BY <4>1, <4>3, <4>4 DEF Same
    <3> QED BY <3>1, <3>2, <3>3 DEF ShownLive
  <2> QED BY <1>1, <1>3, <2>1, <2>2, <2>3, LiveInvForms
<1>14. SavedInv'
  <2>1. net' = "ending" => board'[Len(board')].end # "playing"
    BY <1>2, <1>4, <1>6
  <2>2. Clear' => outcome' \notin {"move", "resigned"}
    BY <1>2, <1>3, <1>4, <1>9, StreamTypes DEF SavedInv, Clear
  <2>3. outcome' \in {"move", "resigned"} => shown' # NoGame
    BY <1>2, <1>3 DEF SavedInv
  <2> QED BY <1>6, <2>1, <2>2, <2>3 DEF SavedInv
<1> QED BY <1>8, <1>10, <1>12, <1>13, <1>14, <1>11 DEF StreamInv


(* A message that leaves the game shown and its board alone. *)
LEMMA MovedOther ==
  ASSUME TypeInv, TypeInv', ~strayed, StreamInv, UNCHANGED serverVars,
         NEW type \in {"resigned", "ended", "error"}, Receive(type),
         UNCHANGED <<board, shown, local_team>>, Running' => Running
  PROVE  /\ OneGame' /\ GamesInOrder' /\ MovesInOrder' /\ BoardInv'
         /\ NoneMissing' /\ EndsLast' /\ LiveInv'
<1>1. /\ Moved /\ 1 \in At(type) /\ 1 \in DOMAIN fromServer
      /\ 1 \notin At("start") /\ 1 \notin At("move")
      /\ Len(fromServer') = Len(fromServer) - 1 /\ connected
  BY ReceiveMoves DEF At
<1>2. UNCHANGED <<waiting, live, self, sent, counter, untold, strayed>>
  BY SentFacts DEF serverVars
<1>3. /\ OneGame /\ GamesInOrder /\ MovesInOrder /\ BoardInv
      /\ NoneMissing /\ EndsLast /\ LiveInv
  BY DEF StreamInv
<1>4. Clear' <=> Clear
  BY <1>2 DEF Clear
<1>5. OneGame' /\ BoardInv'
  <2>1. \A i \in At("start")' : G(i)' \notin untold'
    BY <1>1, <1>2, <1>3, MovedStarts
  <2> QED BY <1>2, <1>3, <1>4, <2>1 DEF OneGame, BoardInv
<1>6. GamesInOrder' /\ MovesInOrder' /\ EndsLast'
  <2>1. Taken
    BY <1>1 DEF Taken
  <2> QED BY <1>1, <1>2, <1>3, <2>1, MovedGames, MovedMoves, MovedEnds
<1>7. NoneMissing'
  <2>1. \A s \in At("start")' : sent'[G(s)'] > 0 =>
           \E i \in At("move")' : G(i)' = G(s)' /\ N(i)' = sent'[G(s)']
    BY <1>1, <1>2, <1>3, MovedMissing DEF NoneMissing
  <2>2. ASSUME Running', Clear', Len(board') < sent'[shown']
        PROVE  \E i \in At("move")' : G(i)' = shown' /\ N(i)' = sent'[shown']
    <3>1. PICK k \in At("move") : G(k) = shown /\ N(k) = sent[shown]
      BY <1>2, <1>3, <1>4, <2>2 DEF NoneMissing
    <3>2. PICK i \in News' : k = i + 1 /\ Same(i, k)
      BY <1>1, AtNews DEF Moved
    <3>3. i \in At("move")' /\ G(i)' = G(k) /\ N(i)' = N(k)
      BY <3>2 DEF Same
    <3> QED BY <1>2, <3>1, <3>3
  <2>3. Running' => shown' # NoGame
    BY <1>3 DEF NoneMissing
  <2> QED BY <2>1, <2>2, <2>3 DEF NoneMissing
<1>8. LiveInv'
  <2> SUFFICES ASSUME NEW g \in live', g \notin untold'
               PROVE  ShownLive(g)' \/ \E s \in At("start")' : StartLive(g, s)'
    BY DEF LiveInv, ShownLive, StartLive
  <2>1. g \in live /\ g \in GameIds /\ g \notin untold
    BY <1>2, StreamTypes
  <2>2. ~ShownLive(g)
    BY <1>1 DEF ShownLive
  <2>3. PICK s \in At("start") : StartLive(g, s)
    BY <1>1, <1>3, <2>1, <2>2, LiveInvForms
  <2> QED BY <1>1, <1>2, <2>1, <2>3, MovedStartLive
<1> QED BY <1>5, <1>6, <1>7, <1>8

LEMMA StreamResigned ==
  ASSUME TypeInv, TypeInv', StreamInv, NetResigned, UNCHANGED serverVars
  PROVE  StreamInv'
<1> SUFFICES ASSUME ~strayed PROVE StreamInv'
  BY DEF StreamInv, serverVars
<1>1. /\ 1 \in At("resigned") /\ 1 \in DOMAIN fromServer /\ Message = fromServer[1]
      /\ net = "loop" /\ connected /\ connected'
  BY ReceiveMoves DEF NetResigned
<1>2. /\ UNCHANGED <<net, board, replayed, local_team, shown>> /\ SaveCurrentGame
      /\ outcome' = IF G(1) = shown /\ Running THEN "resigned" ELSE outcome
      /\ UNCHANGED <<live, sent, untold>>
  BY <1>1, SentFacts DEF NetResigned, Learned, At, G, serverVars
<1>3. NoneMissing /\ EndsLast /\ SavedInv /\ BoardInv
  BY DEF StreamInv
<1>4. /\ OneGame' /\ GamesInOrder' /\ MovesInOrder' /\ BoardInv'
      /\ NoneMissing' /\ EndsLast' /\ LiveInv'
  BY <1>2, MovedOther DEF NetResigned, Running
<1>5. Clear' <=> Clear
  BY <1>2 DEF Clear
<1>6. ASSUME outcome' \in {"move", "resigned"}, Clear
      PROVE  Len(board) = sent[shown] /\ shown \notin live
  <2>1. CASE outcome' = outcome
    BY <1>3, <1>6, <2>1 DEF SavedInv
  <2>2. CASE outcome' # outcome
    <3>1. G(1) = shown /\ Running /\ shown # NoGame /\ shown \notin live
      BY <1>1, <1>2, <1>3, <2>2 DEF EndsLast, NoneMissing
    <3>2. ~\E i \in At("move") : G(i) = shown
      <4> SUFFICES ASSUME NEW i \in At("move"), G(i) = shown PROVE FALSE
        OBVIOUS
      <4>1. i # 1 /\ i \in Nat /\ i >= 1
        BY <1>1, AtNews, StreamTypes DEF At
      <4>2. 1 < i
        BY <4>1
      <4> QED BY <1>1, <1>3, <3>1, <4>2 DEF EndsLast
    <3>3. Len(board) <= sent[shown] /\ Len(board) \in Nat /\ sent[shown] \in Nat
      BY <1>3, <1>6, <3>1, StreamTypes DEF BoardInv
    <3>4. ~(Len(board) < sent[shown])
      BY <1>3, <1>6, <3>1, <3>2 DEF NoneMissing
    <3> QED BY <3>1, <3>3, <3>4
  <2> QED BY <2>1, <2>2
<1>7. outcome' \in {"move", "resigned"} => shown' # NoGame
  BY <1>2, <1>3 DEF SavedInv, NoneMissing
<1>8. SavedInv'
  BY <1>1, <1>2, <1>3, <1>6, <1>5, <1>7, RecordOfGame DEF SavedInv
<1> QED BY <1>4, <1>8 DEF StreamInv

LEMMA StreamNet ==
  ASSUME TypeInv, TypeInv', LinkInv, LinkInv', StreamInv, NetNext, UNCHANGED serverVars
  PROVE  StreamInv'
<1>1. ASSUME ~strayed
      PROVE  /\ OneGame /\ GamesInOrder /\ MovesInOrder /\ BoardInv
             /\ NoneMissing /\ EndsLast /\ LiveInv /\ SavedInv
  BY <1>1 DEF StreamInv
<1>2. CASE NetStart
  BY <1>2, StreamStart
<1>3. CASE NetMove
  BY <1>3, StreamMove
<1>4. CASE NetResigned
  BY <1>4, StreamResigned
<1>5. CASE NetEnded
  <2> SUFFICES ASSUME ~strayed PROVE StreamInv'
    BY DEF StreamInv, serverVars
  <2>1. /\ Receive("ended") /\ UNCHANGED <<net, board, replayed, local_team, shown, saved, live, sent, untold>>
        /\ outcome' \in {"ended", outcome}
    BY <1>5, SentFacts DEF NetEnded, Learned, serverVars
  <2>2. SavedInv'
    BY <1>1, <2>1 DEF SavedInv, Clear
  <2> QED BY <2>1, <2>2, MovedOther DEF StreamInv, Running
<1>6. CASE NetError
  <2> SUFFICES ASSUME ~strayed PROVE StreamInv'
    BY DEF StreamInv, serverVars
  <2>1. /\ Receive("error")
        /\ UNCHANGED <<net, board, replayed, local_team, shown, saved, outcome, live, sent, untold>>
    BY <1>6, SentFacts DEF NetError, serverVars
  <2>2. SavedInv'
    BY <1>1, <2>1 DEF SavedInv, Clear
  <2> QED BY <2>1, <2>2, MovedOther DEF StreamInv, Running
<1>7. CASE NetMoveEnd
  <2> SUFFICES ASSUME ~strayed PROVE StreamInv'
    BY DEF StreamInv, serverVars
  <2>1. /\ UNCHANGED <<connected, fromServer, board, replayed, local_team, shown>>
        /\ UNCHANGED <<waiting, live, self, sent, counter, untold, strayed>>
        /\ net' = "loop" /\ SaveCurrentGame /\ ((outcome' = "move" /\ Running) \/ outcome' = outcome)
    BY <1>7, SentFacts DEF NetMoveEnd, Learned, serverVars
  <2>2. Clear => Len(board) = sent[shown] /\ shown \notin live
    BY <1>7, <1>1 DEF NetMoveEnd, SavedInv, BoardInv
  <2>3. Clear' <=> Clear
    BY <2>1 DEF Clear
  <2>4. outcome' \in {"move", "resigned"} => shown' # NoGame
    BY <1>1, <2>1 DEF SavedInv, NoneMissing
  <2>5. SavedInv'
    BY <1>1, <2>1, <2>2, <2>3, <2>4, RecordOfGame DEF SavedInv
  <2>6. OneGame' /\ GamesInOrder' /\ BoardInv'
    BY <1>1, <2>1, <2>3 DEF OneGame, GamesInOrder, BoardInv, News, At, G
  <2>7. MovesInOrder' /\ EndsLast'
    BY <1>1, <2>1 DEF MovesInOrder, EndsLast, At, G, N, Final
  <2>8. NoneMissing'
    BY <1>1, <2>1, <2>3 DEF NoneMissing, At, G, N, Running
  <2>9. LiveInv'
    BY <1>1, <2>1 DEF LiveInv, At, G, N
  <2> QED BY <2>5, <2>6, <2>7, <2>8, <2>9 DEF StreamInv
<1>8. CASE Cut
  <2>1. UNCHANGED <<fromServer, streamVars, saved, replayed>>
    BY <1>8, SentFacts DEF Cut, streamVars, gameVars, serverVars
  <2>2. ~strayed => SavedInv'
    BY <1>1, <2>1 DEF SavedInv, streamVars, Clear
  <2> QED BY <2>1, <2>2, StreamStays
<1>9. CASE NetPing \/ NetLost
  <2> SUFFICES ASSUME ~strayed PROVE StreamInv'
    BY DEF StreamInv, serverVars
  <2>1. /\ UNCHANGED <<board, replayed, local_team, shown, saved>>
        /\ UNCHANGED <<waiting, live, self, sent, counter, untold, strayed>>
        /\ net' # "ending"
        /\ outcome' = outcome \/ outcome' \in {"lost"}
        /\ \/ connected' = FALSE /\ fromServer' = <<>>
           \/ UNCHANGED <<connected, fromServer, outcome>>
    BY <1>9, SentFacts DEF NetPing, NetLost, Learned, Hangup, gameVars, serverVars
  <2>2. Clear' <=> Clear
    BY <2>1 DEF Clear
  <2>3. SavedInv'
    BY <1>1, <2>1, <2>2 DEF SavedInv
  <2>4. BoardInv'
    BY <1>1, <2>1, <2>2 DEF BoardInv
  <2>5. OneGame'
    <3>1. ASSUME NEW i \in At("start")' PROVE G(i)' \notin untold'
      BY <1>1, <2>1, <3>1 DEF OneGame, At, G
    <3> QED BY <1>1, <2>1, <3>1 DEF OneGame
  <2>6. CASE connected' = FALSE /\ fromServer' = <<>>
    <3>1. News' = {} /\ At("start")' = {} /\ At("move")' = {} /\ At("resigned")' = {} /\ At("ended")' = {}
      BY <2>6 DEF News, At
    <3>2. ~Running'
      BY <2>6 DEF LinkInv
    <3> QED
      BY <2>3, <2>5, <2>6, <2>4, <3>1, <3>2
      DEF StreamInv, GamesInOrder, MovesInOrder, NoneMissing, EndsLast, LiveInv
  <2>7. CASE UNCHANGED <<connected, fromServer, outcome>>
    <3>1. GamesInOrder' /\ MovesInOrder' /\ EndsLast'
      BY <1>1, <2>1, <2>7 DEF GamesInOrder, MovesInOrder, EndsLast, News, At, G, N, Final
    <3>2. NoneMissing' /\ LiveInv'
      BY <1>1, <2>1, <2>7, <2>2 DEF NoneMissing, LiveInv, At, G, N, Running
    <3> QED BY <2>3, <2>5, <2>4, <3>1, <3>2 DEF StreamInv
  <2> QED BY <2>1, <2>6, <2>7
<1> QED BY <1>2, <1>3, <1>4, <1>5, <1>6, <1>7, <1>8, <1>9 DEF NetNext


(* Messages are sent: they come behind those on their way. *)
Grown ==
  /\ \A i \in DOMAIN fromServer : i \in DOMAIN fromServer' /\ Same(i, i) /\ (i \in News' <=> i \in News)
  /\ \A j \in DOMAIN fromServer' : j \notin DOMAIN fromServer =>
       j \in Nat /\ j > Len(fromServer) /\ \A i \in DOMAIN fromServer : i < j

LEMMA SendGrows ==
  ASSUME TypeInv, NEW messages \in Seq(Messages), Send(messages)
  PROVE  /\ Grown
         /\ Len(messages) \in Nat /\ Len(fromServer') = Len(fromServer) + Len(messages)
         /\ DOMAIN fromServer' = 1 .. (Len(fromServer) + Len(messages))
         /\ \A i \in 1 .. Len(messages) : fromServer'[Len(fromServer) + i] = messages[i]
<1>1. /\ fromServer' = fromServer \o messages /\ fromServer \in Seq(Messages)
      /\ DOMAIN fromServer = 1 .. Len(fromServer) /\ Len(fromServer) \in Nat
      /\ Len(messages) \in Nat
  BY LenProperties DEF Send, TypeInv
<1>2. /\ Len(fromServer') = Len(fromServer) + Len(messages)
      /\ DOMAIN fromServer' = 1 .. (Len(fromServer) + Len(messages))
      /\ \A i \in 1 .. Len(fromServer) : fromServer'[i] = fromServer[i]
      /\ \A i \in 1 .. Len(messages) : fromServer'[Len(fromServer) + i] = messages[i]
  BY <1>1, ConcatProperties
<1>3. ASSUME NEW i \in DOMAIN fromServer
      PROVE  i \in DOMAIN fromServer' /\ Same(i, i) /\ (i \in News' <=> i \in News)
  <2>1. i \in DOMAIN fromServer' /\ fromServer'[i] = fromServer[i]
    BY <1>1, <1>2
  <2>2. G(i)' = G(i) /\ N(i)' = N(i) /\ (Final(i)' <=> Final(i))
    BY <2>1 DEF G, N, Final
  <2>3. /\ i \in News' <=> i \in News
        /\ i \in At("start")' <=> i \in At("start")
        /\ i \in At("move")' <=> i \in At("move")
        /\ i \in At("resigned")' <=> i \in At("resigned")
        /\ i \in At("ended")' <=> i \in At("ended")
    BY <2>1 DEF News, At
  <2> QED BY <2>1, <2>2, <2>3 DEF Same
<1>4. ASSUME NEW j \in DOMAIN fromServer', j \notin DOMAIN fromServer
      PROVE  j \in Nat /\ j > Len(fromServer) /\ \A i \in DOMAIN fromServer : i < j
  BY <1>1, <1>2, <1>4
<1> QED BY <1>1, <1>2, <1>3, <1>4 DEF Grown

(* One message, or two. *)
LEMMA SendsOne ==
  ASSUME TypeInv, NEW m \in Messages, Send(<<m>>)
  PROVE  /\ Grown /\ Len(fromServer') = Len(fromServer) + 1
         /\ DOMAIN fromServer' = 1 .. (Len(fromServer) + 1)
         /\ fromServer'[Len(fromServer) + 1] = m
         /\ \A j \in DOMAIN fromServer' : j \notin DOMAIN fromServer => j = Len(fromServer) + 1
<1>1. <<m>> \in Seq(Messages) /\ Len(<<m>>) = 1 /\ <<m>>[1] = m
  OBVIOUS
<1>2. /\ Grown /\ Len(fromServer') = Len(fromServer) + 1
      /\ DOMAIN fromServer' = 1 .. (Len(fromServer) + 1)
      /\ fromServer'[Len(fromServer) + 1] = m
  <2> DEFINE q == <<m>>
  <2>1. q \in Seq(Messages) /\ Len(q) = 1 /\ q[1] = m /\ Send(q)
    BY <1>1
  <2> HIDE DEF q
  <2>2. /\ Grown /\ Len(fromServer') = Len(fromServer) + Len(q)
        /\ DOMAIN fromServer' = 1 .. (Len(fromServer) + Len(q))
        /\ \A i \in 1 .. Len(q) : fromServer'[Len(fromServer) + i] = q[i]
    BY <2>1, SendGrows
  <2>3. 1 \in 1 .. Len(q)
    BY <2>1
  <2>4. fromServer'[Len(fromServer) + 1] = q[1]
    BY <2>2, <2>3
  <2> QED BY <2>1, <2>2, <2>4
<1> QED BY <1>2, StreamTypes

LEMMA SendsTwo ==
  ASSUME TypeInv, NEW m \in Messages, NEW n \in Messages, Send(<<m>> \o <<n>>)
  PROVE  /\ Grown /\ Len(fromServer') = Len(fromServer) + 2
         /\ DOMAIN fromServer' = 1 .. (Len(fromServer) + 2)
         /\ fromServer'[Len(fromServer) + 1] = m /\ fromServer'[Len(fromServer) + 2] = n
         /\ \A j \in DOMAIN fromServer' :
              j \notin DOMAIN fromServer => j = Len(fromServer) + 1 \/ j = Len(fromServer) + 2
<1> DEFINE both == <<m>> \o <<n>>
<1>1. <<m>> \in Seq(Messages) /\ <<n>> \in Seq(Messages) /\ Len(<<m>>) = 1 /\ Len(<<n>>) = 1
      /\ <<m>>[1] = m /\ <<n>>[1] = n
  OBVIOUS
<1>2. both \in Seq(Messages) /\ Len(both) = 2 /\ both[1] = m /\ both[2] = n
  BY <1>1, ConcatProperties
<1> HIDE DEF both
<1>3. /\ Grown /\ Len(fromServer') = Len(fromServer) + 2
      /\ DOMAIN fromServer' = 1 .. (Len(fromServer) + 2)
      /\ fromServer'[Len(fromServer) + 1] = m /\ fromServer'[Len(fromServer) + 2] = n
  <2>1. Send(both)
    BY DEF both
  <2>2. /\ Grown /\ Len(fromServer') = Len(fromServer) + Len(both)
        /\ DOMAIN fromServer' = 1 .. (Len(fromServer) + Len(both))
        /\ \A i \in 1 .. Len(both) : fromServer'[Len(fromServer) + i] = both[i]
    BY <1>2, <2>1, SendGrows
  <2>3. 1 \in 1 .. Len(both) /\ 2 \in 1 .. Len(both)
    BY <1>2
  <2>4. fromServer'[Len(fromServer) + 1] = both[1] /\ fromServer'[Len(fromServer) + 2] = both[2]
    BY <2>2, <2>3
  <2> QED BY <1>2, <2>2, <2>4
<1> QED BY <1>3, StreamTypes

LEMMA GrownGames ==
  ASSUME TypeInv, Grown, GamesInOrder, OneGame, UNCHANGED shown,
         \/ /\ counter' = counter + 1
            /\ \A i \in News' : i \notin DOMAIN fromServer => G(i)' = counter'
            /\ \A i, j \in News' : i < j /\ i \notin DOMAIN fromServer => i \in At("ended")'
         \/ /\ counter' = counter
            /\ \A i \in News' : i \notin DOMAIN fromServer => i \notin At("start")' /\ G(i)' = counter
  PROVE  GamesInOrder'
<1>1. /\ \A i \in News' : i \in DOMAIN fromServer'
      /\ \A i \in DOMAIN fromServer : Same(i, i) /\ (i \in News' <=> i \in News)
      /\ \A i \in News' : i \notin DOMAIN fromServer =>
           i \in Nat /\ i > Len(fromServer) /\ \A k \in DOMAIN fromServer : k < i
  BY DEF Grown, News
<1>2. /\ \A k \in News : G(k) \in Nat /\ k \in DOMAIN fromServer
      /\ counter \in Nat /\ (shown # NoGame => shown \in Nat)
      /\ DOMAIN fromServer \subseteq Nat /\ Len(fromServer) \in Nat
  BY StreamTypes
<1>3. /\ \A k \in News : G(k) <= counter
      /\ shown # NoGame => shown <= counter
  BY DEF GamesInOrder, OneGame
<1>4. \A i \in DOMAIN fromServer : /\ G(i)' = G(i) /\ (i \in At("start")' <=> i \in At("start"))
                                  /\ (i \in At("ended")' <=> i \in At("ended"))
  BY <1>1 DEF Same
<1>5. ASSUME NEW i \in News' PROVE G(i)' <= counter' /\ G(i)' \in Nat
  <2>1. CASE i \in DOMAIN fromServer
    <3>1. i \in News /\ G(i)' = G(i)
      BY <1>1, <1>4, <2>1
    <3>2. G(i) \in Nat /\ G(i) <= counter
      BY <1>2, <1>3, <3>1
    <3> QED BY <1>2, <3>1, <3>2
  <2>2. CASE i \notin DOMAIN fromServer
    BY <1>2, <2>2
  <2> QED BY <2>1, <2>2
<1>6. ASSUME NEW i \in News', NEW j \in News', i < j
      PROVE  G(i)' <= G(j)' /\ (j \in At("start")' => G(i)' < G(j)' \/ i \in At("ended")')
  <2>1. CASE j \in DOMAIN fromServer
    <3>1. i \in DOMAIN fromServer
      BY <1>1, <1>2, <1>6, <2>1
    <3>2. /\ i \in News /\ j \in News /\ G(i)' = G(i) /\ G(j)' = G(j)
          /\ (j \in At("start")' <=> j \in At("start")) /\ (i \in At("ended")' <=> i \in At("ended"))
      BY <1>1, <1>4, <2>1, <3>1
    <3> QED BY <1>6, <3>2 DEF GamesInOrder
  <2>2. CASE j \notin DOMAIN fromServer
    <3>1. CASE counter' = counter + 1
      <4>1. G(j)' = counter'
        BY <1>2, <2>2, <3>1
      <4>2. CASE i \in DOMAIN fromServer
        <5>1. G(i)' = G(i) /\ i \in News
          BY <1>1, <1>4, <4>2
        <5>2. G(i) \in Nat /\ G(i) <= counter
          BY <1>2, <1>3, <5>1
        <5> QED BY <1>2, <3>1, <4>1, <5>1, <5>2
      <4>3. CASE i \notin DOMAIN fromServer
        <5>1. G(i)' = counter' /\ i \in At("ended")'
          BY <1>2, <1>6, <3>1, <4>3
        <5> QED BY <1>2, <3>1, <4>1, <5>1
      <4> QED BY <4>2, <4>3
    <3>2. CASE counter' = counter
      <4>1. j \notin At("start")' /\ G(j)' = counter'
        BY <1>2, <2>2, <3>2
      <4> QED BY <1>5, <4>1
    <3> QED BY <3>1, <3>2
  <2> QED BY <2>1, <2>2
<1>7. ASSUME shown' # NoGame, NEW i \in News'
      PROVE  shown' <= G(i)' /\ (i \in At("start")' => shown' < G(i)')
  <2>1. CASE i \in DOMAIN fromServer
    <3>1. i \in News /\ G(i)' = G(i) /\ (i \in At("start")' <=> i \in At("start"))
      BY <1>1, <1>4, <2>1
    <3> QED BY <1>7, <3>1 DEF GamesInOrder
  <2>2. CASE i \notin DOMAIN fromServer
    <3>1. CASE counter' = counter + 1 /\ G(i)' = counter'
      BY <1>2, <1>3, <1>7, <3>1
    <3>2. CASE counter' = counter /\ i \notin At("start")' /\ G(i)' = counter
      BY <1>2, <1>3, <1>7, <3>2
    <3> QED BY <2>2, <3>1, <3>2
  <2> QED BY <2>1, <2>2
<1> QED BY <1>5, <1>6, <1>7 DEF GamesInOrder


(* No start of a game that the client is not told of. *)
LEMMA GrownStarts ==
  ASSUME TypeInv, Grown, OneGame, GamesInOrder, \A g \in untold' : g \in untold \/ g > counter,
         \A i \in At("start")' : i \notin DOMAIN fromServer => G(i)' \notin untold'
  PROVE  \A i \in At("start")' : G(i)' \notin untold'
<1> SUFFICES ASSUME NEW i \in At("start")', i \in DOMAIN fromServer PROVE G(i)' \notin untold'
  OBVIOUS
<1>1. i \in At("start") /\ G(i)' = G(i)
  BY DEF Grown, Same
<1>2. G(i) \notin untold /\ G(i) <= counter /\ G(i) \in Nat /\ counter \in Nat
  BY <1>1, AtNews, StreamTypes DEF OneGame, GamesInOrder
<1> QED BY <1>1, <1>2

(* What is sent is no move, and a start is that of a new game. *)
LEMMA GrownQuiet ==
  ASSUME TypeInv, Grown, ~strayed, StreamInv,
         UNCHANGED <<sent, board, shown, outcome, net, saved, replayed>>, untold \subseteq untold',
         \A i \in At("move")' : i \in DOMAIN fromServer,
         \A i \in At("start")' : i \notin DOMAIN fromServer => G(i)' \in GameIds /\ G(i)' > counter,
         \A i \in At("resigned")' : i \notin DOMAIN fromServer => G(i)' \notin live',
         \A i \in At("ended")' : i \notin DOMAIN fromServer => G(i)' \notin live',
         \A g \in live' : g \in live \/ g > counter
  PROVE  MovesInOrder' /\ NoneMissing' /\ EndsLast' /\ BoardInv' /\ SavedInv'
<1>1. /\ OneGame /\ GamesInOrder /\ MovesInOrder /\ NoneMissing /\ EndsLast /\ BoardInv /\ SavedInv
  BY DEF StreamInv
<1>2. \A i \in DOMAIN fromServer :
        /\ G(i)' = G(i) /\ N(i)' = N(i) /\ (Final(i)' <=> Final(i))
        /\ i \in At("start")' <=> i \in At("start")
        /\ i \in At("move")' <=> i \in At("move")
        /\ i \in At("resigned")' <=> i \in At("resigned")
        /\ i \in At("ended")' <=> i \in At("ended")
  BY DEF Grown, Same
<1>3. At("move")' = At("move")
  <2>1. At("move") \subseteq DOMAIN fromServer
    BY DEF At
  <2> QED BY <1>2, <2>1
<1>4. \A i \in At("move") : G(i)' = G(i) /\ N(i)' = N(i) /\ (Final(i)' <=> Final(i))
  BY <1>2, <1>3
<1>5. At("start") \subseteq At("start")'
  BY <1>2 DEF At
<1>6. /\ \A i \in News : G(i) \notin live => G(i) \notin live'
      /\ shown # NoGame /\ shown \notin live => shown \notin live'
  <2>1. ASSUME NEW g \in GameIds, g <= counter, g \notin live PROVE g \notin live'
    BY <2>1, StreamTypes
  <2>2. \A i \in News : G(i) \in GameIds /\ G(i) <= counter
    BY <1>1, StreamTypes DEF GamesInOrder
  <2>3. shown # NoGame => shown \in GameIds /\ shown <= counter
    BY <1>1, StreamTypes DEF OneGame
  <2> QED BY <2>1, <2>2, <2>3
<1>7. Clear' => Clear
  BY DEF Clear
<1>8. MovesInOrder'
  <2>1. /\ \A i \in At("move")' : N(i)' >= 1 /\ N(i)' <= sent'[G(i)']
        /\ \A i, j \in At("move")' : i < j /\ G(i)' = G(j)' => N(i)' < N(j)'
        /\ \A i \in At("move")' : shown' = G(i)' => Len(board') < N(i)'
    BY <1>1, <1>3, <1>4 DEF MovesInOrder
  <2>2. ASSUME NEW i \in At("move")'
        PROVE  \/ N(i)' = 1 /\ \E j \in At("start")' : j < i /\ G(j)' = G(i)'
               \/ \E j \in At("move")' : j < i /\ G(j)' = G(i)' /\ N(j)' = N(i)' - 1
               \/ shown' = G(i)' /\ Len(board') = N(i)' - 1
               \/ G(i)' \in untold'
    <3>1. i \in At("move") /\ G(i)' = G(i) /\ N(i)' = N(i)
      BY <1>3, <1>4
    <3>2. CASE N(i) = 1 /\ \E j \in At("start") : j < i /\ G(j) = G(i)
      <4>1. PICK j \in At("start") : j < i /\ G(j) = G(i)
        BY <3>2
      <4>2. j \in At("start")' /\ G(j)' = G(j)
        BY <1>2, <1>5 DEF At
      <4> QED BY <3>1, <3>2, <4>1, <4>2
    <3>3. CASE \E j \in At("move") : j < i /\ G(j) = G(i) /\ N(j) = N(i) - 1
      <4>1. PICK j \in At("move") : j < i /\ G(j) = G(i) /\ N(j) = N(i) - 1
        BY <3>3
      <4> QED BY <1>3, <1>4, <3>1, <4>1
    <3>4. CASE shown = G(i) /\ Len(board) = N(i) - 1
      BY <3>1, <3>4
    <3>5. CASE G(i) \in untold
      BY <3>1, <3>5
    <3> QED BY <1>1, <3>1, <3>2, <3>3, <3>4, <3>5 DEF MovesInOrder
  <2> QED BY <2>1, <2>2 DEF MovesInOrder
<1>9. NoneMissing'
  <2>1. /\ Running' => shown' # NoGame
        /\ Running' /\ Clear' /\ Len(board') < sent'[shown'] =>
             \E i \in At("move")' : G(i)' = shown' /\ N(i)' = sent'[shown']
    BY <1>1, <1>3, <1>4, <1>7 DEF NoneMissing, Running
  <2>2. ASSUME NEW s \in At("start")', sent'[G(s)'] > 0
        PROVE  \E i \in At("move")' : G(i)' = G(s)' /\ N(i)' = sent'[G(s)']
    <3>1. s \in DOMAIN fromServer
      <4> SUFFICES ASSUME s \notin DOMAIN fromServer PROVE FALSE
        OBVIOUS
      <4>1. PICK g \in GameIds : g = G(s)' /\ g > counter
        BY <2>2
      <4>2. sent[g] = 0
        BY <1>1, <4>1 DEF OneGame
      <4> QED BY <2>2, <4>1, <4>2
    <3>2. s \in At("start") /\ G(s)' = G(s)
      BY <1>2, <3>1
    <3>3. PICK i \in At("move") : G(i) = G(s) /\ N(i) = sent[G(s)]
      BY <1>1, <2>2, <3>2 DEF NoneMissing
    <3> QED BY <1>3, <1>4, <3>2, <3>3
  <2> QED BY <2>1, <2>2 DEF NoneMissing
<1>10. EndsLast'
  <2>0. ASSUME NEW i \in At("ended")' PROVE G(i)' \notin live'
    <3>1. CASE i \in DOMAIN fromServer
      <4>1. i \in At("ended") /\ G(i)' = G(i)
        BY <1>2, <3>1
      <4> QED BY <1>1, <1>6, <4>1, AtNews DEF EndsLast
    <3> QED BY <3>1
  <2>1. ASSUME NEW i \in At("resigned")'
        PROVE  G(i)' \notin live' /\ \A j \in At("move")' : i < j => G(i)' # G(j)'
    <3>1. CASE i \in DOMAIN fromServer
      <4>1. i \in At("resigned") /\ G(i)' = G(i)
        BY <1>2, <3>1
      <4>2. G(i) \notin live'
        BY <1>1, <1>6, <4>1, AtNews DEF EndsLast
      <4> QED BY <1>1, <1>3, <1>4, <4>1, <4>2 DEF EndsLast
    <3>2. CASE i \notin DOMAIN fromServer
      <4>1. \A j \in DOMAIN fromServer : j < i /\ j \in Nat /\ i \in Nat
        BY <3>2, StreamTypes DEF Grown, At
      <4>2. \A j \in At("move")' : ~(i < j)
        BY <4>1
      <4> QED BY <3>2, <4>2
    <3> QED BY <3>1, <3>2
  <2>2. ASSUME NEW i \in At("move")', Final(i)'
        PROVE  N(i)' = sent'[G(i)'] /\ G(i)' \notin live'
    <3>1. i \in At("move") /\ G(i)' = G(i) /\ N(i)' = N(i) /\ Final(i)
      BY <1>3, <1>4, <2>2
    <3>2. N(i) = sent[G(i)] /\ G(i) \notin live'
      BY <1>1, <1>6, <3>1, AtNews DEF EndsLast
    <3> QED BY <3>1, <3>2
  <2> QED BY <2>0, <2>1, <2>2 DEF EndsLast
<1>11. BoardInv' /\ SavedInv'
  <2>1. BoardInv'
    <3>1. Clear => shown # NoGame
      BY DEF Clear
    <3> QED BY <1>1, <1>6, <1>7, <3>1 DEF BoardInv
  <2>2. SavedInv'
    BY <1>1, <1>6, <1>7 DEF SavedInv
  <2> QED BY <2>1, <2>2
<1> QED BY <1>8, <1>9, <1>10, <1>11

(* A game is started.  What is sent of it is its start, or its end, as the *)
(* timer thread has ended it already, or both, the end first; or nothing.  *)
LEMMA StreamStarted ==
  ASSUME TypeInv, ~strayed, StreamInv, Grown, UNCHANGED <<sent, self, strayed, clientRest>>,
         NEW g \in GameIds, g = counter + 1, counter' = g, waiting' = FALSE, live' \subseteq {g},
         untold' = untold \/ untold' = untold \cup {g},
         \A i \in DOMAIN fromServer' : i \notin DOMAIN fromServer =>
           \/ fromServer'[i] = StartOf(g, Lots[g]) /\ g \notin untold'
           \/ fromServer'[i] = EndedOf(g) /\ live' = {},
         \A i, j \in DOMAIN fromServer' : i < j /\ i \notin DOMAIN fromServer => fromServer'[i] = EndedOf(g),
         NEW s, s = Len(fromServer) + 1,
         \/ live' = {}
         \/ g \in untold'
         \/ DOMAIN fromServer' = 1 .. s /\ Len(fromServer') = s /\ fromServer'[s] = StartOf(g, Lots[g])
  PROVE  StreamInv'
<1>1. /\ counter \in Nat /\ g \in Nat /\ g > counter /\ sent[g] \in Nat /\ Len(fromServer) \in Nat
      /\ s \in Nat /\ untold \subseteq GameIds /\ GameIds \subseteq Nat
      /\ shown # NoGame => shown \in Nat
  <2>1. /\ counter \in Nat /\ GameIds \subseteq Nat /\ untold \subseteq GameIds /\ Len(fromServer) \in Nat
        /\ sent[g] \in Nat
    BY StreamTypes
  <2>2. shown # NoGame => shown \in GameIds
    BY StreamTypes
  <2>3. s \in Nat
    BY <2>1
  <2>4. g \in Nat /\ g > counter
    BY <2>1
  <2> QED BY <2>1, <2>2, <2>3, <2>4
<1>2. /\ OneGame /\ GamesInOrder
      /\ UNCHANGED <<sent, board, shown, local_team, outcome, net, saved, replayed, strayed>>
  BY DEF StreamInv, clientRest, gameVars
<1>3. /\ \A h \in untold' : h \in untold \/ h = g
      /\ untold \subseteq untold'
  OBVIOUS
<1>4. \A i \in DOMAIN fromServer' : i \notin DOMAIN fromServer =>
        /\ G(i)' = g /\ i \notin At("move")' /\ i \notin At("resigned")'
        /\ (i \in At("start")' => g \notin untold') /\ (i \in At("ended")' => live' = {})
  BY DEF StartOf, EndedOf, At, G
<1>5. /\ \A i \in News' : i \in DOMAIN fromServer'
      /\ \A i \in At("start")' : i \in DOMAIN fromServer'
      /\ \A i \in At("move")' : i \in DOMAIN fromServer'
      /\ \A i \in At("resigned")' : i \in DOMAIN fromServer'
      /\ \A i \in At("ended")' : i \in DOMAIN fromServer'
  BY DEF News, At
<1>6. OneGame'
  <2>1. sent[g] = 0 /\ \A h \in GameIds : h > g => sent[h] = 0
    BY <1>1, <1>2 DEF OneGame
  <2>2. shown # NoGame => shown <= g /\ shown # g
    BY <1>1, <1>2 DEF OneGame
  <2>3. \A h \in untold : h \in Nat /\ h <= counter /\ h # shown
    BY <1>1, <1>2 DEF OneGame
  <2>4. \A h \in untold' : h <= counter' /\ h # shown'
    <3>1. g # shown
      BY <1>1, <2>2, ClientAssumption
    <3> QED BY <1>1, <1>2, <1>3, <2>3, <3>1
  <2>5. \A i \in At("start")' : G(i)' \notin untold'
    <3>1. \A h \in untold' : h \in untold \/ h > counter
      BY <1>1, <1>3
    <3>2. \A i \in At("start")' : i \notin DOMAIN fromServer => G(i)' \notin untold'
      BY <1>4, <1>5
    <3> QED BY <1>2, <3>1, <3>2, GrownStarts
  <2>6. self' = {} /\ (waiting' => live' = {}) /\ \A h \in live' : h = counter'
    BY <1>2 DEF OneGame
  <2>7. /\ \A h \in GameIds : h > counter' => sent'[h] = 0
        /\ shown' # NoGame => shown' <= counter'
    BY <1>2, <2>1, <2>2
  <2> QED BY <2>4, <2>5, <2>6, <2>7 DEF OneGame
<1>7. GamesInOrder'
  <2>1. counter' = counter + 1
    OBVIOUS
  <2>2. \A i \in News' : i \notin DOMAIN fromServer => G(i)' = counter'
    BY <1>4, <1>5
  <2>3. \A i, j \in News' : i < j /\ i \notin DOMAIN fromServer => i \in At("ended")'
    <3> SUFFICES ASSUME NEW i \in News', NEW j \in News', i < j, i \notin DOMAIN fromServer
                 PROVE  i \in At("ended")'
      OBVIOUS
    <3>1. fromServer'[i] = EndedOf(g) /\ i \in DOMAIN fromServer'
      BY <1>5
    <3> QED BY <3>1 DEF EndedOf, At
  <2> QED BY <1>2, <2>1, <2>2, <2>3, GrownGames
<1>8. MovesInOrder' /\ NoneMissing' /\ EndsLast' /\ BoardInv' /\ SavedInv'
  <2>1. /\ \A i \in At("move")' : i \in DOMAIN fromServer
        /\ \A i \in At("resigned")' : i \notin DOMAIN fromServer => G(i)' \notin live'
    BY <1>4, <1>5
  <2>2. \A i \in At("start")' : i \notin DOMAIN fromServer => G(i)' \in GameIds /\ G(i)' > counter
    BY <1>1, <1>4, <1>5
  <2>3. \A i \in At("ended")' : i \notin DOMAIN fromServer => G(i)' \notin live'
    BY <1>4, <1>5
  <2>4. \A h \in live' : h \in live \/ h > counter
    BY <1>1
  <2> QED BY <1>2, <1>3, <2>1, <2>2, <2>3, <2>4, GrownQuiet
<1>9. LiveInv'
  <2> SUFFICES ASSUME NEW h \in live', h \notin untold' PROVE \E t \in At("start")' : StartLive(h, t)'
    BY DEF LiveInv, StartLive
  <2>1. h = g /\ DOMAIN fromServer' = 1 .. s /\ Len(fromServer') = s /\ fromServer'[s] = StartOf(g, Lots[g])
    OBVIOUS
  <2>2. sent'[h] = 0
    BY <1>1, <1>2, <2>1 DEF OneGame
  <2>3. \A i \in DOMAIN fromServer' : ~(i > s)
    BY <1>1, <2>1
  <2>4. s \in DOMAIN fromServer' /\ s = s + 0
    BY <1>1, <2>1
  <2>5. s \in At("start")' /\ G(s)' = h /\ fromServer'[s].team = Lots[h]
    BY <2>1, <2>4 DEF StartOf, At, G
  <2>6. StartLive(h, s)'
    BY <2>1, <2>2, <2>3, <2>4, <2>5 DEF StartLive
  <2> QED BY <2>5, <2>6
<1> QED BY <1>2, <1>6, <1>7, <1>8, <1>9 DEF StreamInv

(* The client waited, or has just asked, and is told. *)
LEMMA StreamStartSent ==
  ASSUME TypeInv, ~strayed, StreamInv, live = {}, StartGame(FALSE), waiting' = FALSE,
         UNCHANGED <<sent, untold, strayed, clientRest>>
  PROVE  StreamInv'
<1>1. PICK g \in GameIds : g = counter + 1
  BY StartWrites
<1>2. PICK m, e : m = StartOf(g, Lots[g]) /\ e = EndedOf(g)
  OBVIOUS
<1>3. m \in Messages /\ e \in Messages
  BY <1>2, MadeTypes, SessionAssumption
<1>4. /\ counter' = g /\ self' = self
      /\ \/ Send(<<m>>) /\ live' = {g}
         \/ (Send(<<e>>) \/ Send(<<e>> \o <<m>>)) /\ live' = {}
  BY <1>1, <1>2, StartWrites DEF Starts, GoneEnds
<1>5. PICK s : s = Len(fromServer) + 1
  OBVIOUS
<1>6. /\ Len(fromServer) \in Nat /\ DOMAIN fromServer = 1 .. Len(fromServer) /\ s \in Nat
      /\ s \notin DOMAIN fromServer
  BY <1>5, StreamTypes
<1>7. g \notin untold
  <2>1. counter \in Nat /\ untold \subseteq Nat
    BY StreamTypes
  <2> QED BY <1>1, <2>1 DEF StreamInv, OneGame
<1>8. CASE Send(<<m>>) /\ live' = {g}
  <2>1. /\ Grown /\ Len(fromServer') = s /\ DOMAIN fromServer' = 1 .. s /\ fromServer'[s] = m
        /\ \A j \in DOMAIN fromServer' : j \notin DOMAIN fromServer => j = s
    BY <1>3, <1>5, <1>8, SendsOne
  <2>2. \A i, j \in DOMAIN fromServer' : ~(i < j /\ i \notin DOMAIN fromServer)
    BY <1>6, <2>1
  <2> QED BY <1>1, <1>2, <1>4, <1>5, <1>7, <1>8, <2>1, <2>2, StreamStarted
<1>9. CASE Send(<<e>>) /\ live' = {}
  <2>1. /\ Grown /\ Len(fromServer') = s /\ DOMAIN fromServer' = 1 .. s /\ fromServer'[s] = e
        /\ \A j \in DOMAIN fromServer' : j \notin DOMAIN fromServer => j = s
    BY <1>3, <1>5, <1>9, SendsOne
  <2> QED BY <1>1, <1>2, <1>4, <1>5, <1>9, <2>1, StreamStarted
<1>10. CASE Send(<<e>> \o <<m>>) /\ live' = {}
  <2>1. /\ Grown /\ DOMAIN fromServer' = 1 .. (s + 1)
        /\ fromServer'[s] = e /\ fromServer'[s + 1] = m
        /\ \A j \in DOMAIN fromServer' : j \notin DOMAIN fromServer => j = s \/ j = s + 1
    <3>1. Len(fromServer) + 2 = s + 1
      BY <1>5, <1>6
    <3> QED BY <1>3, <1>5, <1>10, <3>1, SendsTwo
  <2>2. \A i, j \in DOMAIN fromServer' : i < j /\ i \notin DOMAIN fromServer => i = s
    BY <1>6, <2>1
  <2> QED BY <1>1, <1>2, <1>4, <1>5, <1>7, <1>10, <2>1, <2>2, StreamStarted
<1> QED BY <1>4, <1>8, <1>9, <1>10

(* It waited, and is not told. *)
LEMMA StreamUntold ==
  ASSUME TypeInv, ~strayed, StreamInv, live = {}, StartUntold, waiting' = FALSE,
         UNCHANGED <<sent, strayed, clientRest>>
  PROVE  StreamInv'
<1>1. PICK g \in GameIds : g = counter + 1
  BY UntoldWrites
<1>2. /\ counter' = g /\ live' = {g} /\ untold' = untold \cup {g} /\ UNCHANGED <<fromServer, self>>
  BY <1>1, UntoldWrites
<1>3. Grown
  <2>1. \A i \in DOMAIN fromServer : Same(i, i)
    BY <1>2 DEF Same, At, G, N, Final
  <2>2. News' = News
    BY <1>2 DEF News
  <2> QED BY <1>2, <2>1, <2>2 DEF Grown
<1>4. PICK s : s = Len(fromServer) + 1
  OBVIOUS
<1>5. \A i, j \in DOMAIN fromServer' : ~(i \notin DOMAIN fromServer)
  BY <1>2
<1>6. g \in untold'
  BY <1>2
<1>7. live' \subseteq {g}
  BY <1>2
<1> QED BY <1>1, <1>2, <1>3, <1>4, <1>5, <1>6, <1>7, StreamStarted

(* An error, or the end of the live game, is sent. *)
LEMMA StreamQuietSent ==
  ASSUME TypeInv, ~strayed, StreamInv, live' = {},
         UNCHANGED <<waiting, self, sent, counter, untold, strayed, clientRest>>,
         NEW m \in Messages, Send(<<m>>),
         m.type \in {"resigned", "ended", "error"},
         m.type \in {"resigned", "ended"} => m.game = counter
  PROVE  StreamInv'
<1>1. /\ OneGame /\ GamesInOrder
      /\ UNCHANGED <<sent, board, shown, local_team, outcome, net, saved, replayed, strayed>>
  BY DEF StreamInv, clientRest, gameVars
<1>2. /\ Grown
      /\ \A j \in DOMAIN fromServer' : j \notin DOMAIN fromServer => fromServer'[j] = m
  BY SendsOne
<1>3. OneGame'
  <2>1. \A i \in At("start")' : i \in DOMAIN fromServer
    BY <1>2 DEF At
  <2>2. \A h \in untold' : h \in untold
    OBVIOUS
  <2>3. \A i \in At("start")' : G(i)' \notin untold'
    BY <1>1, <1>2, <2>1, <2>2, GrownStarts
  <2> QED BY <1>1, <2>3 DEF OneGame
<1>4. GamesInOrder'
  <2>1. counter' = counter
    OBVIOUS
  <2>2. \A i \in News' : i \notin DOMAIN fromServer => i \notin At("start")' /\ G(i)' = counter
    BY <1>2 DEF News, At, G
  <2> QED BY <1>1, <1>2, <2>1, <2>2, GrownGames
<1>5. MovesInOrder' /\ NoneMissing' /\ EndsLast' /\ BoardInv' /\ SavedInv'
  <2>1. \A i \in At("move")' : i \in DOMAIN fromServer
    BY <1>2 DEF At
  <2>2. \A i \in At("start")' : i \in DOMAIN fromServer
    BY <1>2 DEF At
  <2>3. untold \subseteq untold'
    OBVIOUS
  <2> QED BY <1>1, <1>2, <2>1, <2>2, <2>3, GrownQuiet
<1>6. LiveInv'
  BY DEF LiveInv
<1> QED BY <1>1, <1>3, <1>4, <1>5, <1>6 DEF StreamInv

(* A move of the live game is sent, alone, or with the end that the timer  *)
(* thread has put before or behind it.                                     *)
LEMMA StreamMoveSent ==
  ASSUME TypeInv, TypeInv', ~strayed, StreamInv, connected, NEW g \in live, g = counter,
         UNCHANGED <<waiting, self, counter, untold, strayed, clientRest>>,
         sent' = [sent EXCEPT ![g] = @ + 1],
         Grown, NEW k \in DOMAIN fromServer', k \notin DOMAIN fromServer, NEW end \in Ends,
         fromServer'[k] = MoveOf(g, sent[g] + 1, end),
         \A j \in DOMAIN fromServer' :
           j \notin DOMAIN fromServer /\ j # k => fromServer'[j] = EndedOf(g),
         \/ live' = live \ {g}
         \/ live' = live /\ end = "playing" /\ k = Len(fromServer) + 1 /\ Len(fromServer') = k
  PROVE  StreamInv'
<1>1. /\ OneGame /\ GamesInOrder /\ MovesInOrder /\ BoardInv
      /\ NoneMissing /\ EndsLast /\ LiveInv /\ SavedInv
      /\ UNCHANGED <<board, shown, local_team, outcome, net, saved, replayed, strayed, connected>>
  BY DEF StreamInv, clientRest, gameVars
<1>2. PICK n \in Nat : n = sent[g] /\ g \in GameIds /\ g \in Nat
  BY StreamTypes
<1>3. /\ sent'[g] = n + 1
      /\ \A h \in GameIds : h # g => sent'[h] = sent[h]
      /\ \A h \in GameIds : sent[h] \in Nat /\ sent'[h] \in Nat /\ sent[h] <= sent'[h]
  <2>1. sent \in [GameIds -> Nat]
    BY SentFacts
  <2>2. \A h \in GameIds : sent[h] \in Nat
    BY StreamTypes
  <2>3. sent'[g] = n + 1 /\ \A h \in GameIds : h # g => sent'[h] = sent[h]
    BY <1>2, <2>1
  <2> QED BY <1>2, <2>2, <2>3
<1>4. /\ k \in At("move")' /\ G(k)' = g /\ N(k)' = n + 1 /\ (Final(k)' <=> end # "playing")
      /\ k \in News' /\ k \notin At("start")' /\ k \notin At("resigned")'
  BY <1>2 DEF MoveOf, At, News, G, N, Final
<1>5. \A j \in DOMAIN fromServer' : j \notin DOMAIN fromServer /\ j # k =>
        G(j)' = g /\ j \notin At("move")' /\ j \notin At("start")' /\ j \notin At("resigned")'
  BY DEF EndedOf, At, G
<1>6. /\ k \in Nat /\ \A i \in DOMAIN fromServer : i < k
      /\ \A i \in DOMAIN fromServer :
           /\ i \in DOMAIN fromServer'
           /\ G(i)' = G(i) /\ N(i)' = N(i) /\ (Final(i)' <=> Final(i))
           /\ i \in At("start")' <=> i \in At("start")
           /\ i \in At("move")' <=> i \in At("move")
           /\ i \in At("resigned")' <=> i \in At("resigned")
           /\ i \in At("ended")' <=> i \in At("ended")
  BY DEF Grown, Same
<1>7. /\ At("move") \subseteq DOMAIN fromServer /\ At("start") \subseteq DOMAIN fromServer
      /\ At("move")' = At("move") \cup {k}
      /\ At("start")' = At("start") /\ At("resigned")' = At("resigned")
      /\ At("resigned") \subseteq DOMAIN fromServer
  <2>1. /\ At("move") \subseteq DOMAIN fromServer /\ At("start") \subseteq DOMAIN fromServer
        /\ At("resigned") \subseteq DOMAIN fromServer
        /\ At("move")' \subseteq DOMAIN fromServer' /\ At("start")' \subseteq DOMAIN fromServer'
        /\ At("resigned")' \subseteq DOMAIN fromServer'
    BY DEF At
  <2> QED BY <1>4, <1>5, <1>6, <2>1
<1>8. \A i \in At("move") : G(i)' = G(i) /\ N(i)' = N(i) /\ (Final(i)' <=> Final(i)) /\ i < k
                            /\ N(i) \in Nat /\ G(i) \in GameIds
  BY <1>6, <1>7, StreamTypes
<1>9. live' \subseteq live /\ (\A h \in live : h = g) /\ (end # "playing" => g \notin live')
  BY <1>1 DEF OneGame
<1>10. OneGame'
  <2>1. \A i \in At("start")' : G(i)' \notin untold'
    BY <1>1, <1>6, <1>7 DEF OneGame
  <2> QED BY <1>1, <1>2, <1>3, <1>9, <2>1 DEF OneGame
<1>11. GamesInOrder'
  <2>1. counter' = counter
    OBVIOUS
  <2>2. \A i \in News' : i \notin DOMAIN fromServer => i \notin At("start")' /\ G(i)' = counter
    BY <1>4, <1>5 DEF News
  <2> QED BY <1>1, <2>1, <2>2, GrownGames
(* Where the last move of the live game is. *)
<1>12. \/ n = 0 /\ \E j \in At("start") : G(j) = g
       \/ \E j \in At("move") : G(j) = g /\ N(j) = n
       \/ shown = g /\ Len(board) = n
       \/ g \in untold
  <2>1. Len(fromServer) \in Nat /\ DOMAIN fromServer = 1 .. Len(fromServer) /\ Len(board) \in Nat
    BY StreamTypes
  <2>2. CASE ShownLive(g)
    <3>1. CASE Len(fromServer) = 0
      BY <1>2, <2>1, <2>2, <3>1 DEF ShownLive
    <3>2. CASE Len(fromServer) # 0
      <4>1. PICK j \in DOMAIN fromServer : j = Len(fromServer)
        BY <2>1, <3>2
      <4>2. j \in At("move") /\ G(j) = g /\ N(j) = Len(board) + j
        BY <2>2, <4>1 DEF ShownLive
      <4>3. Len(board) + j = n
        BY <1>2, <2>2, <4>1 DEF ShownLive
      <4> QED BY <4>2, <4>3
    <3> QED BY <3>1, <3>2
  <2>3. CASE \E s \in At("start") : StartLive(g, s)
    <3>1. PICK s \in At("start") : StartLive(g, s)
      BY <2>3
    <3>2. G(s) = g /\ Len(fromServer) = s + n /\ s \in Nat
      BY <1>2, <1>7, <2>1, <3>1 DEF StartLive
    <3>3. CASE n = 0
      BY <3>1, <3>2, <3>3
    <3>4. CASE n # 0
      <4>1. PICK j \in DOMAIN fromServer : j = Len(fromServer) /\ j > s /\ j - s = n
        BY <1>2, <2>1, <3>2, <3>4
      <4>2. j \in At("move") /\ G(j) = g /\ N(j) = j - s
        BY <3>1, <4>1 DEF StartLive
      <4> QED BY <4>1, <4>2
    <3> QED BY <3>3, <3>4
  <2> QED BY <1>1, <2>2, <2>3, LiveInvForms
<1>13. MovesInOrder'
  <2>1. ASSUME NEW i \in At("move")' PROVE N(i)' >= 1 /\ N(i)' <= sent'[G(i)']
    <3>1. CASE i = k
      BY <1>2, <1>3, <1>4, <3>1
    <3>2. CASE i \in At("move")
      <4>1. N(i) >= 1 /\ N(i) <= sent[G(i)]
        BY <1>1, <3>2 DEF MovesInOrder
      <4> QED BY <1>3, <1>8, <3>2, <4>1
    <3> QED BY <1>7, <3>1, <3>2
  <2>2. ASSUME NEW i \in At("move")', NEW j \in At("move")', i < j, G(i)' = G(j)' PROVE N(i)' < N(j)'
    <3>1. i \in At("move") /\ G(i)' = G(i) /\ N(i)' = N(i)
      <4>1. i # k
        <5>1. ASSUME NEW l \in At("move"), k < l PROVE FALSE
          BY <1>6, <1>8, <5>1, StreamTypes, <1>7
        <5> QED BY <1>6, <1>7, <2>2, <5>1
      <4> QED BY <1>7, <1>8, <4>1
    <3>2. CASE j = k
      <4>1. G(i) = g /\ N(i) <= n /\ N(i) \in Nat
        BY <1>1, <1>2, <1>4, <1>8, <2>2, <3>1, <3>2 DEF MovesInOrder
      <4> QED BY <1>4, <3>1, <3>2, <4>1
    <3>3. CASE j \in At("move")
      BY <1>1, <1>8, <2>2, <3>1, <3>3 DEF MovesInOrder
    <3> QED BY <1>7, <3>2, <3>3
  <2>3. ASSUME NEW i \in At("move")', shown' = G(i)' PROVE Len(board') < N(i)'
    <3>1. CASE i = k
      <4>1. shown = g /\ shown # NoGame
        BY <1>1, <1>2, <1>4, <2>3, <3>1, StreamTypes
      <4>2. Clear
        <5>1. \A h \in untold : h \in Nat /\ h <= g /\ h # g
          BY <1>1, <4>1, StreamTypes DEF OneGame
        <5> QED BY <1>2, <4>1, <5>1 DEF Clear
      <4>3. Len(board) <= n /\ Len(board) \in Nat
        BY <1>1, <1>2, <4>1, <4>2, StreamTypes DEF BoardInv
      <4> QED BY <1>1, <1>4, <3>1, <4>3
    <3>2. CASE i \in At("move")
      BY <1>1, <1>8, <2>3, <3>2 DEF MovesInOrder
    <3> QED BY <1>7, <3>1, <3>2
  <2>4. ASSUME NEW i \in At("move")'
        PROVE  \/ N(i)' = 1 /\ \E j \in At("start")' : j < i /\ G(j)' = G(i)'
               \/ \E j \in At("move")' : j < i /\ G(j)' = G(i)' /\ N(j)' = N(i)' - 1
               \/ shown' = G(i)' /\ Len(board') = N(i)' - 1
               \/ G(i)' \in untold'
    <3>1. \A j \in At("start") : j \in At("start")' /\ G(j)' = G(j) /\ j < k
      BY <1>6, <1>7
    <3>2. CASE i = k
      <4>1. G(i)' = g /\ N(i)' = n + 1 /\ n + 1 - 1 = n
        BY <1>2, <1>4, <3>2
      <4>2. CASE n = 0 /\ \E j \in At("start") : G(j) = g
        BY <3>2, <3>1, <4>1, <4>2
      <4>3. CASE \E j \in At("move") : G(j) = g /\ N(j) = n
        BY <1>7, <1>8, <3>2, <4>1, <4>3
      <4>4. CASE shown = g /\ Len(board) = n
        BY <1>1, <4>1, <4>4
      <4>5. CASE g \in untold
        BY <4>1, <4>5
      <4> QED BY <1>12, <4>2, <4>3, <4>4, <4>5
    <3>3. CASE i \in At("move")
      <4>1. \/ N(i) = 1 /\ \E j \in At("start") : j < i /\ G(j) = G(i)
            \/ \E j \in At("move") : j < i /\ G(j) = G(i) /\ N(j) = N(i) - 1
            \/ shown = G(i) /\ Len(board) = N(i) - 1
            \/ G(i) \in untold
        BY <1>1, <3>3 DEF MovesInOrder
      <4>2. G(i)' = G(i) /\ N(i)' = N(i)
        BY <1>8, <3>3
      <4>3. CASE N(i) = 1 /\ \E j \in At("start") : j < i /\ G(j) = G(i)
        BY <3>1, <4>2, <4>3
      <4>4. CASE \E j \in At("move") : j < i /\ G(j) = G(i) /\ N(j) = N(i) - 1
        BY <1>7, <1>8, <4>2, <4>4
      <4>5. CASE shown = G(i) /\ Len(board) = N(i) - 1
        BY <1>1, <4>2, <4>5
      <4>6. CASE G(i) \in untold
        BY <4>2, <4>6
      <4> QED BY <4>1, <4>3, <4>4, <4>5, <4>6
    <3> QED BY <1>7, <3>2, <3>3
  <2> QED BY <2>1, <2>2, <2>3, <2>4 DEF MovesInOrder
<1>14. BoardInv' /\ SavedInv'
  <2>1. shown # NoGame => shown \in GameIds
    BY StreamTypes
  <2>2. shown # NoGame /\ shown \notin live => shown # g /\ sent'[shown] = sent[shown] /\ shown \notin live'
    BY <1>3, <1>9, <2>1
  <2>3. Len(board) \in Nat /\ (shown # NoGame => sent[shown] <= sent'[shown] /\ sent[shown] \in Nat /\ sent'[shown] \in Nat)
    BY <1>3, <2>1, StreamTypes
  <2>4. Clear => shown # NoGame
    BY DEF Clear
  <2>5. Clear' <=> Clear
    BY <1>1 DEF Clear
  <2>6. BoardInv'
    BY <1>1, <2>2, <2>3, <2>4, <2>5 DEF BoardInv
  <2>7. SavedInv'
    BY <1>1, <2>2, <2>4, <2>5 DEF SavedInv
  <2> QED BY <2>6, <2>7
<1>15. NoneMissing'
  <2>0. ASSUME NEW h \in GameIds, h = g \/ \E i \in At("move") : G(i) = h /\ N(i) = sent[h]
        PROVE  \E i \in At("move")' : G(i)' = h /\ N(i)' = sent'[h]
    <3>1. CASE h = g
      BY <1>3, <1>4, <3>1
    <3>2. CASE h # g
      BY <1>3, <1>7, <1>8, <2>0, <3>2
    <3> QED BY <3>1, <3>2
  <2>1. ASSUME Running', Clear', Len(board') < sent'[shown']
        PROVE  \E i \in At("move")' : G(i)' = shown' /\ N(i)' = sent'[shown']
    <3>1. Running /\ shown \in GameIds /\ Clear
      BY <1>1, <2>1, StreamTypes DEF NoneMissing, Running, Clear
    <3>2. shown = g \/ \E i \in At("move") : G(i) = shown /\ N(i) = sent[shown]
      BY <1>1, <1>3, <2>1, <3>1 DEF NoneMissing
    <3> QED BY <1>1, <2>0, <3>1, <3>2
  <2>2. ASSUME NEW s \in At("start")', sent'[G(s)'] > 0
        PROVE  \E i \in At("move")' : G(i)' = G(s)' /\ N(i)' = sent'[G(s)']
    <3>1. s \in At("start") /\ G(s)' = G(s) /\ G(s) \in GameIds
      BY <1>6, <1>7, StreamTypes
    <3>2. G(s) = g \/ \E i \in At("move") : G(i) = G(s) /\ N(i) = sent[G(s)]
      BY <1>1, <1>3, <2>2, <3>1 DEF NoneMissing
    <3>3. PICK h \in GameIds : h = G(s)
      BY <3>1
    <3> QED BY <2>0, <3>1, <3>2, <3>3
  <2>3. Running' => shown' # NoGame
    BY <1>1 DEF NoneMissing, Running
  <2> QED BY <2>1, <2>2, <2>3 DEF NoneMissing
<1>16. EndsLast'
  <2>0. ASSUME NEW i \in At("ended")' PROVE G(i)' \notin live'
    <3>1. CASE i \in DOMAIN fromServer
      <4>1. i \in At("ended") /\ G(i)' = G(i)
        BY <1>6, <3>1
      <4> QED BY <1>1, <1>9, <4>1 DEF EndsLast
    <3>2. CASE i \notin DOMAIN fromServer
      <4>1. i \in DOMAIN fromServer' /\ i # k
        BY <1>4 DEF At
      <4>2. G(i)' = g
        BY <1>5, <3>2, <4>1
      <4>3. ~(k = Len(fromServer) + 1 /\ Len(fromServer') = k)
        <5>1. /\ DOMAIN fromServer' = 1 .. Len(fromServer') /\ DOMAIN fromServer = 1 .. Len(fromServer)
              /\ Len(fromServer) \in Nat
          BY LenProperties DEF TypeInv
        <5> QED BY <3>2, <4>1, <5>1
      <4> QED BY <4>2, <4>3
    <3> QED BY <3>1, <3>2
  <2>1. ASSUME NEW i \in At("resigned")'
        PROVE  G(i)' \notin live' /\ \A j \in At("move")' : i < j => G(i)' # G(j)'
    <3>1. i \in At("resigned") /\ G(i)' = G(i) /\ G(i) \notin live
      BY <1>1, <1>6, <1>7 DEF EndsLast
    <3>2. G(i) # g
      BY <3>1
    <3> QED BY <1>1, <1>4, <1>7, <1>8, <1>9, <3>1, <3>2 DEF EndsLast
  <2>2. ASSUME NEW i \in At("move")', Final(i)'
        PROVE  N(i)' = sent'[G(i)'] /\ G(i)' \notin live'
    <3>1. CASE i = k
      BY <1>3, <1>4, <1>9, <2>2, <3>1
    <3>2. CASE i \in At("move")
      <4>1. G(i)' = G(i) /\ N(i)' = N(i) /\ N(i) = sent[G(i)] /\ G(i) \notin live /\ G(i) \in GameIds
        BY <1>1, <1>8, <2>2, <3>2 DEF EndsLast
      <4>2. G(i) # g
        BY <4>1
      <4> QED BY <1>3, <1>9, <4>1, <4>2
    <3> QED BY <1>7, <3>1, <3>2
  <2> QED BY <2>0, <2>1, <2>2 DEF EndsLast
<1>17. LiveInv'
  <2> SUFFICES ASSUME NEW h \in live', h \notin untold'
               PROVE  ShownLive(h)' \/ \E s \in At("start")' : StartLive(h, s)'
    BY LiveInvForms DEF LiveInv, ShownLive, StartLive
  <2>1. h = g /\ k = Len(fromServer) + 1 /\ Len(fromServer') = k
    BY <1>9
  <2>2. DOMAIN fromServer = 1 .. Len(fromServer) /\ Len(fromServer) \in Nat /\ Len(board) \in Nat
    BY StreamTypes
  <2>3. DOMAIN fromServer' = DOMAIN fromServer \cup {k}
    <3>1. DOMAIN fromServer' = 1 .. k
      BY <2>1, LenProperties DEF TypeInv
    <3> QED BY <2>1, <2>2, <3>1
  <2>4. CASE ShownLive(g)
    <3>1. Len(board) + Len(fromServer) = n
      BY <1>2, <2>4 DEF ShownLive
    <3>2. Len(board') + Len(fromServer') = sent'[h]
      BY <1>1, <1>2, <1>3, <2>1, <2>2, <3>1
    <3>3. ASSUME NEW i \in DOMAIN fromServer'
          PROVE  i \in At("move")' /\ G(i)' = h /\ N(i)' = Len(board') + i
      <4>1. CASE i = k
        <5>1. n + 1 = Len(board) + k
          BY <2>1, <2>2, <3>1
        <5> QED BY <1>1, <1>4, <2>1, <4>1, <5>1
      <4>2. CASE i \in DOMAIN fromServer
        <5>1. i \in At("move") /\ G(i) = g /\ N(i) = Len(board) + i
          BY <2>4, <4>2 DEF ShownLive
        <5> QED BY <1>1, <1>7, <1>8, <2>1, <5>1
      <4> QED BY <2>3, <4>1, <4>2
    <3>4. shown' = h /\ local_team' = Lots[h]
      BY <1>1, <2>1, <2>4 DEF ShownLive
    <3>5. ShownLive(h)'
      BY <3>2, <3>3, <3>4 DEF ShownLive
    <3> QED BY <3>5
  <2>5. CASE \E s \in At("start") : StartLive(g, s)
    <3>1. PICK s \in At("start") : StartLive(g, s)
      BY <2>5
    <3>2. s \in Nat /\ s \in DOMAIN fromServer /\ Len(fromServer) = s + n
      BY <1>2, <1>7, <2>2, <3>1 DEF StartLive
    <3>3. Len(fromServer') = s + sent'[h]
      BY <1>2, <1>3, <2>1, <3>2
    <3>4. ASSUME NEW i \in DOMAIN fromServer', i > s
          PROVE  i \in At("move")' /\ G(i)' = h /\ N(i)' = i - s
      <4>1. CASE i = k
        <5>1. n + 1 = k - s
          BY <1>2, <2>1, <3>2
        <5> QED BY <1>4, <2>1, <4>1, <5>1
      <4>2. CASE i \in DOMAIN fromServer
        <5>1. i \in At("move") /\ G(i) = g /\ N(i) = i - s
          BY <3>1, <3>4, <4>2 DEF StartLive
        <5> QED BY <1>7, <1>8, <2>1, <5>1
      <4> QED BY <2>3, <4>1, <4>2
    <3>5. s \in At("start")' /\ G(s)' = h /\ fromServer'[s].team = Lots[h]
      BY <1>6, <1>7, <2>1, <3>1, <3>2 DEF StartLive, Grown, Same
    <3>6. StartLive(h, s)'
      BY <3>3, <3>4, <3>5 DEF StartLive
    <3> QED BY <3>5, <3>6
  <2>6. g \notin untold
    BY <2>1
  <2> QED BY <1>1, <2>4, <2>5, <2>6, LiveInvForms
<1> QED BY <1>1, <1>10, <1>11, <1>13, <1>14, <1>15, <1>16, <1>17 DEF StreamInv


(* A broadcast of the live game, in which the client does not play both    *)
(* sides.                                                                  *)
LEMMA StreamBroadcast ==
  ASSUME TypeInv, TypeInv', ~strayed, StreamInv, connected, NEW g \in live, Broadcast(g),
         UNCHANGED <<waiting, self, counter, untold, strayed, clientRest>>
  PROVE  StreamInv'
<1>1. g = counter /\ self = {} /\ g \in GameIds /\ Len(fromServer) \in Nat
      /\ DOMAIN fromServer = 1 .. Len(fromServer)
  BY StreamTypes DEF StreamInv, OneGame
<1>2. \A m : Told(g, m) = <<m>>
  BY <1>1 DEF Told
<1>3. PICK end \in Ends :
        \/ /\ Send(Told(g, MoveOf(g, sent[g] + 1, end)))
           /\ live' = IF end = "playing" THEN live ELSE live \ {g}
        \/ /\ Send(Told(g, EndedOf(g)) \o Told(g, MoveOf(g, sent[g] + 1, end)))
           /\ live' = live \ {g}
        \/ /\ Send(Told(g, MoveOf(g, sent[g] + 1, end)) \o Told(g, EndedOf(g)))
           /\ live' = live \ {g}
  BY BroadcastWrites
<1>4. PICK n : n = sent[g] + 1
  OBVIOUS
<1>5. PICK m \in Messages, e \in Messages : m = MoveOf(g, n, end) /\ e = EndedOf(g)
  <2>1. n \in Nat
    BY <1>1, <1>4, StreamTypes
  <2> QED BY <1>1, <2>1, MadeTypes
<1>6. sent' = [sent EXCEPT ![g] = @ + 1]
  BY BroadcastWrites
<1>7. CASE Send(<<m>>) /\ live' = IF end = "playing" THEN live ELSE live \ {g}
  <2>1. /\ Grown /\ Len(fromServer') = Len(fromServer) + 1
        /\ DOMAIN fromServer' = 1 .. (Len(fromServer) + 1)
        /\ fromServer'[Len(fromServer) + 1] = m
        /\ \A j \in DOMAIN fromServer' : j \notin DOMAIN fromServer => j = Len(fromServer) + 1
    BY <1>7, SendsOne
  <2>2. PICK k \in DOMAIN fromServer' : k = Len(fromServer) + 1 /\ k \notin DOMAIN fromServer
    BY <1>1, <2>1
  <2> QED BY <1>1, <1>4, <1>5, <1>6, <1>7, <2>1, <2>2, StreamMoveSent
<1>8. CASE Send(<<e>> \o <<m>>) /\ live' = live \ {g}
  <2>1. /\ Grown /\ DOMAIN fromServer' = 1 .. (Len(fromServer) + 2)
        /\ fromServer'[Len(fromServer) + 1] = e /\ fromServer'[Len(fromServer) + 2] = m
        /\ \A j \in DOMAIN fromServer' :
             j \notin DOMAIN fromServer => j = Len(fromServer) + 1 \/ j = Len(fromServer) + 2
    BY <1>8, SendsTwo
  <2>2. PICK k \in DOMAIN fromServer' : k = Len(fromServer) + 2 /\ k \notin DOMAIN fromServer
    BY <1>1, <2>1
  <2> QED BY <1>1, <1>4, <1>5, <1>6, <1>8, <2>1, <2>2, StreamMoveSent
<1>9. CASE Send(<<m>> \o <<e>>) /\ live' = live \ {g}
  <2>1. /\ Grown /\ DOMAIN fromServer' = 1 .. (Len(fromServer) + 2)
        /\ fromServer'[Len(fromServer) + 1] = m /\ fromServer'[Len(fromServer) + 2] = e
        /\ \A j \in DOMAIN fromServer' :
             j \notin DOMAIN fromServer => j = Len(fromServer) + 1 \/ j = Len(fromServer) + 2
    BY <1>9, SendsTwo
  <2>2. PICK k \in DOMAIN fromServer' : k = Len(fromServer) + 1 /\ k \notin DOMAIN fromServer
    BY <1>1, <2>1
  <2> QED BY <1>1, <1>4, <1>5, <1>6, <1>9, <2>1, <2>2, StreamMoveSent
<1> QED BY <1>2, <1>3, <1>4, <1>5, <1>7, <1>8, <1>9

LEMMA StreamServer ==
  ASSUME TypeInv, TypeInv', LinkInv, StreamInv, ServerNext
  PROVE  StreamInv'
<1> SUFFICES ASSUME ~strayed' PROVE StreamInv'
  BY DEF StreamInv
<1>1. ~strayed
  BY DEF ServerNext, Connect, MatchGame, Paired, CancelMatch, Move, OpponentMoves, Resign, GameEnds
<1>2. OneGame
  BY <1>1 DEF StreamInv
<1>3. CASE Connect
  <2>1. /\ UNCHANGED <<fromServer, board, shown, local_team, outcome, saved, replayed>>
        /\ net' = "ping" /\ waiting' = FALSE /\ live' = {} /\ UNCHANGED <<self, sent, counter, untold>>
        /\ ~connected /\ fromServer = <<>>
    BY <1>3, SentFacts DEF Connect, NetConnect, gameVars, LinkInv
  <2>2. News' = {} /\ At("start")' = {} /\ At("move")' = {} /\ At("resigned")' = {} /\ At("ended")' = {}
    BY <2>1 DEF News, At
  <2>3. ~Running'
    BY <2>1 DEF LinkInv, Running
  <2>4. OneGame' /\ BoardInv' /\ SavedInv'
    BY <1>1, <2>1, <2>2 DEF StreamInv, OneGame, BoardInv, SavedInv, Clear
  <2>5. GamesInOrder' /\ MovesInOrder' /\ EndsLast'
    BY <2>2 DEF GamesInOrder, MovesInOrder, EndsLast
  <2>6. NoneMissing' /\ LiveInv'
    BY <2>1, <2>2, <2>3 DEF NoneMissing, LiveInv
  <2> QED BY <2>4, <2>5, <2>6 DEF StreamInv
<1>4. Error \in Messages /\ Error.type = "error"
  BY DEF Error, Messages
<1>5. CASE MatchGame
  <2>1. ~waiting /\ live = {} /\ UNCHANGED <<clientRest, sent, untold, strayed>>
    <3>1. strayed' = (strayed \/ waiting \/ live # {}) /\ Request("match") /\ UNCHANGED <<sent, untold>>
      BY <1>5, SentFacts DEF MatchGame
    <3>2. ~(strayed \/ waiting \/ live # {})
      BY <3>1
    <3>3. strayed \in BOOLEAN /\ strayed' \in BOOLEAN
      BY DEF TypeInv, SessionTypeOK
    <3> QED BY <3>1, <3>2, <3>3 DEF Request
  <2>2. CASE StartGame(waiting) /\ waiting' = FALSE
    <3>0. waiting = FALSE
      BY <2>1 DEF TypeInv, SessionTypeOK
    <3>1. StartGame(FALSE)
      BY <2>2, <3>0
    <3> QED BY <1>1, <2>1, <2>2, <3>1, StreamStartSent
  <2>3. CASE UNCHANGED <<live, self, counter, fromServer>>
    <3>1. OneGame'
      BY <1>2, <2>1, <2>3 DEF OneGame, clientRest, gameVars, At, G
    <3>2. /\ GamesInOrder /\ MovesInOrder /\ BoardInv /\ NoneMissing /\ EndsLast /\ SavedInv
          /\ UNCHANGED <<live, counter, sent, untold, fromServer, net, board, replayed, shown, outcome, saved>>
      BY <1>1, <2>1, <2>3 DEF StreamInv, clientRest, gameVars
    <3>3. GamesInOrder' /\ MovesInOrder' /\ EndsLast'
      BY <3>2 DEF GamesInOrder, MovesInOrder, EndsLast, News, At, G, N, Final
    <3>4. BoardInv' /\ NoneMissing' /\ SavedInv'
      BY <3>2 DEF BoardInv, NoneMissing, SavedInv, At, G, N, Running, Clear
    <3>5. LiveInv'
      BY <2>1, <3>2 DEF LiveInv
    <3> QED BY <3>1, <3>3, <3>4, <3>5 DEF StreamInv
  <2>4. CASE Send(<<[type |-> "error"]>>) /\ UNCHANGED <<waiting, live, self, counter>>
    <3>1. Send(<<Error>>)
      BY <2>4 DEF Error
    <3> QED BY <1>1, <1>4, <2>1, <2>4, <3>1, StreamQuietSent
  <2> QED BY <1>5, <2>1, <2>2, <2>3, <2>4 DEF MatchGame
<1>6. CASE Paired
  <2>1. live = {} /\ waiting' = FALSE /\ UNCHANGED <<sent, strayed, clientRest>>
    BY <1>2, <1>6, SentFacts DEF Paired, OneGame
  <2>2. CASE StartGame(FALSE) /\ UNCHANGED untold
    BY <1>1, <2>1, <2>2, StreamStartSent
  <2>3. CASE StartUntold
    BY <1>1, <2>1, <2>3, StreamUntold
  <2> QED BY <1>6, <2>2, <2>3 DEF Paired
<1>7. ASSUME UNCHANGED <<fromServer, streamVars, saved, replayed>> PROVE StreamInv'
  <2>1. ~strayed => SavedInv'
    BY <1>7 DEF StreamInv, SavedInv, streamVars, Clear
  <2> QED BY <1>7, <2>1, StreamStays
<1>8. CASE CancelMatch
  <2>1. OneGame'
    BY <1>2, <1>8, SentFacts DEF CancelMatch, Request, OneGame, clientRest, gameVars, At, G
  <2>2. /\ GamesInOrder /\ MovesInOrder /\ BoardInv /\ NoneMissing /\ EndsLast /\ SavedInv /\ LiveInv
        /\ UNCHANGED <<live, counter, sent, untold, fromServer, net, board, replayed, shown, outcome, saved>>
        /\ UNCHANGED <<connected, local_team>>
    BY <1>1, <1>8, SentFacts DEF CancelMatch, Request, StreamInv, clientRest, gameVars
  <2>3. GamesInOrder' /\ MovesInOrder' /\ EndsLast'
    BY <2>2 DEF GamesInOrder, MovesInOrder, EndsLast, News, At, G, N, Final
  <2>4. BoardInv' /\ NoneMissing' /\ SavedInv'
    BY <2>2 DEF BoardInv, NoneMissing, SavedInv, At, G, N, Running, Clear
  <2>5. LiveInv'
    BY <2>2 DEF LiveInv, At, G, N
  <2> QED BY <2>1, <2>3, <2>4, <2>5 DEF StreamInv
<1>9. CASE Move
  <2>1. UNCHANGED <<clientRest, waiting, self, counter, untold, strayed>> /\ link = "up" /\ connected
    BY <1>9 DEF Move, Request, LinkInv
  <2>2. CASE UNCHANGED <<fromServer, live, moveVars, crossed>>
    <3>1. UNCHANGED sent
      BY <2>2, SentFacts
    <3> QED BY <1>7, <2>1, <2>2, <3>1 DEF streamVars, clientRest, gameVars
  <2>3. CASE \E g \in live : Broadcast(g)
    BY <1>1, <2>1, <2>3, StreamBroadcast
  <2> QED BY <1>9, <2>2, <2>3 DEF Move
<1>10. CASE OpponentMoves
  <2>1. UNCHANGED <<clientRest, waiting, self, counter, untold, strayed>> /\ connected
    BY <1>10 DEF OpponentMoves, LinkInv
  <2>2. PICK g \in live : Broadcast(g) \/ Unanswered(g)
    BY <1>10 DEF OpponentMoves
  <2>3. CASE Broadcast(g)
    BY <1>1, <2>1, <2>3, StreamBroadcast
  <2>4. CASE Unanswered(g)
    <3>1. UNCHANGED <<sent, fromServer, live, crossed>>
      BY <2>4, UnansweredWrites
    <3> QED BY <1>7, <2>1, <3>1 DEF streamVars, clientRest, gameVars
  <2> QED BY <2>2, <2>3, <2>4
<1>11. ASSUME NEW g \in live, NEW m \in {ResignedOf(g), EndedOf(g)}, Send(Told(g, m)), live' = live \ {g},
              UNCHANGED <<clientRest, waiting, self, sent, counter, untold, strayed>>
       PROVE  StreamInv'
  <2>1. g = counter /\ self = {} /\ live' = {} /\ g \in GameIds
    BY <1>2, <1>11, StreamTypes DEF OneGame
  <2>2. Send(<<m>>) /\ m \in Messages
    BY <1>11, <2>1, MadeTypes DEF Told
  <2>3. m.type \in {"resigned", "ended"} /\ m.game = counter
    BY <2>1 DEF ResignedOf, EndedOf
  <2> QED BY <1>1, <1>11, <2>1, <2>2, <2>3, StreamQuietSent
<1>12. CASE Resign
  <2>1. UNCHANGED <<clientRest, waiting, self, sent, counter, untold, strayed>>
    BY <1>12, SentFacts DEF Resign, Request
  <2>2. CASE live = {} /\ Send(<<[type |-> "error"]>>) /\ UNCHANGED live
    <3>1. Send(<<Error>>)
      BY <2>2 DEF Error
    <3> QED BY <1>1, <1>4, <2>1, <2>2, <3>1, StreamQuietSent
  <2>3. CASE \E g \in live : Send(Told(g, ResignedOf(g))) /\ live' = live \ {g}
    BY <1>11, <2>1, <2>3
  <2> QED BY <1>12, <2>2, <2>3 DEF Resign, ResignedOf
<1>13. CASE GameEnds
  <2>1. UNCHANGED <<clientRest, waiting, self, sent, counter, untold, strayed>>
    BY <1>13, SentFacts DEF GameEnds
  <2>2. PICK g \in live : \E m \in {ResignedOf(g), EndedOf(g)} : Send(Told(g, m)) /\ live' = live \ {g}
    BY <1>13 DEF GameEnds, ResignedOf, EndedOf
  <2> QED BY <1>11, <2>1, <2>2
<1> QED
  BY <1>3, <1>5, <1>6, <1>8, <1>9, <1>10, <1>12, <1>13 DEF ServerNext

LEMMA StreamInvStep ==
  ASSUME TypeInv, TypeInv', LinkInv, LinkInv', StreamInv, [Next]_vars
  PROVE  StreamInv'
<1>1. CASE UNCHANGED vars
  <2>1. UNCHANGED <<fromServer, streamVars, saved, replayed>>
    BY <1>1, SentFacts DEF vars, clientVars, linkVars, gameVars, serverVars, streamVars
  <2>2. ~strayed => SavedInv'
    BY <2>1 DEF StreamInv, SavedInv, streamVars, Clear
  <2> QED BY <2>1, <2>2, StreamStays
<1> QED BY <1>1, StreamUi, StreamNet, StreamServer DEF Next, UiHistory, Rest

LEMMA StreamInvInit == Init => StreamInv
<1> SUFFICES ASSUME Init PROVE StreamInv
  OBVIOUS
<1>1. News = {} /\ At("start") = {} /\ At("move") = {} /\ At("resigned") = {} /\ At("ended") = {}
  BY DEF Init, InitClient, News, At
<1>2. OneGame
  <2>1. \A g \in GameIds : sent[g] = 0
    BY SessionAssumption DEF Init, sent
  <2> QED BY <1>1, <2>1 DEF Init, InitClient, OneGame
<1>3. GamesInOrder /\ MovesInOrder /\ EndsLast
  BY <1>1 DEF Init, InitClient, GamesInOrder, MovesInOrder, EndsLast
<1>4. BoardInv /\ NoneMissing /\ LiveInv /\ SavedInv
  BY <1>1 DEF Init, InitClient, BoardInv, NoneMissing, LiveInv, SavedInv, Running, Clear
<1> QED BY <1>2, <1>3, <1>4 DEF StreamInv

-----------------------------------------------------------------------------
(* A client that asks for one game at a time, and the server: what has     *)
(* been played on its board, what is still on its way and what was sent to *)
(* nobody are the moves of the game it plays, for any delay, any end that  *)
(* crosses a move, and any start or move that could not be answered.       *)
THEOREM BoardsAgree == Spec => []BoardAgrees
<1>1. ASSUME TypeInv, LinkInv, StreamInv PROVE BoardAgrees
  <2> SUFFICES ASSUME shown \in live, link = "up", ~strayed
               PROVE  LET coming == {i \in DOMAIN fromServer :
                                       fromServer[i].type = "move" /\ fromServer[i].move.game = shown}
                      IN /\ \A i \in DOMAIN board : board[i].game = shown /\ board[i].n = i
                         /\ Len(board) + Cardinality(coming) + unsent[shown] = moves[shown]
                         /\ local_team = Lots[shown]
    BY DEF BoardAgrees
  <2> DEFINE coming == {i \in DOMAIN fromServer :
                          fromServer[i].type = "move" /\ fromServer[i].move.game = shown}
  <2>1. OneGame /\ GamesInOrder /\ BoardInv /\ LiveInv /\ connected
    BY <1>1 DEF StreamInv, LinkInv
  <2>2. shown # NoGame /\ shown \in GameIds /\ shown \in Nat
    BY <1>1, StreamTypes
  <2>3. shown \notin untold /\ Clear
    <3>1. shown = counter /\ \A g \in untold : g <= counter /\ g # shown /\ g \in Nat
      BY <1>1, <2>1, StreamTypes DEF OneGame
    <3> QED BY <2>2, <3>1 DEF Clear
  <2>4. ShownLive(shown)
    <3>1. ASSUME NEW s \in At("start"), G(s) = shown PROVE FALSE
      <4>1. s \in News /\ shown < G(s)
        BY <2>1, <2>2, AtNews DEF GamesInOrder
      <4> QED BY <2>2, <3>1, <4>1
    <3> QED BY <2>1, <2>3, <3>1, LiveInvForms DEF StartLive
  <2>5. PICK n \in Nat : n = Len(fromServer) /\ DOMAIN fromServer = 1 .. n
    BY <1>1, StreamTypes
  <2>6. coming = 1 .. n
    BY <2>4, <2>5 DEF ShownLive, At, G
  <2>7. Cardinality(1 .. n) = n
    <3>1. Cardinality(1 .. n) = IF 1 > n THEN 0 ELSE n - 1 + 1
      BY FS_Interval
    <3> QED BY <2>5, <3>1
  <2>8. Cardinality(coming) = Len(fromServer)
    BY <2>5, <2>6, <2>7
  <2> HIDE DEF coming
  <2>9. Len(board) + Cardinality(coming) + unsent[shown] = moves[shown] /\ local_team = Lots[shown]
    <3>1. Len(board) + Cardinality(coming) = sent[shown] /\ local_team = Lots[shown]
      BY <2>4, <2>8 DEF ShownLive
    <3>2. sent[shown] = moves[shown] - unsent[shown]
      BY <1>1, <2>2, SentFacts
    <3>3. moves[shown] \in Nat /\ unsent[shown] \in Nat
      <4>1. moves \in [GameIds -> Nat] /\ unsent \in [GameIds -> Nat]
        BY <1>1 DEF TypeInv, SessionTypeOK
      <4> QED BY <2>2, <4>1, SessionAssumption
    <3> QED BY <3>1, <3>2, <3>3
  <2>10. \A i \in DOMAIN board : board[i].game = shown /\ board[i].n = i
    BY <2>1, <2>3 DEF BoardInv
  <2> QED BY <2>9, <2>10 DEF coming
<1>2. Init => LinkInv
  BY DEF Init, InitClient, LinkInv, Running
<1> QED
  BY <1>1, <1>2, TypeInvInit, TypeInvStep, LinkInvStep, StreamInvInit, StreamInvStep, PTL DEF Spec

(* What is saved of a game is what was played in it and sent.              *)
THEOREM RecordsAreFaithful == Spec => []RecordFaithful
<1>1. ASSUME TypeInv, StreamInv PROVE RecordFaithful
  <2> SUFFICES ASSUME ~strayed, outcome \in {"move", "resigned"}, board # <<>>,
                      \A g \in untold : g <= shown
               PROVE  LET told == moves[shown] - unsent[shown]
                      IN /\ saved.moves = IF told < MAX_PGN_MOVES THEN told ELSE MAX_PGN_MOVES
                         /\ (board[Len(board)].end = "checkmate" /\ ~replayed /\ unsent[shown] = 0) =>
                              saved.result = IF moves[shown] % 2 = 1 THEN "1-0" ELSE "0-1"
    BY DEF RecordFaithful
  <2>1. OneGame /\ SavedInv
    BY <1>1 DEF StreamInv
  <2>2. shown \in GameIds
    BY <1>1, <2>1, StreamTypes DEF SavedInv
  <2>3. Clear
    <3>1. shown # NoGame /\ shown \in Nat /\ untold \subseteq Nat
      BY <1>1, <2>2, StreamTypes
    <3>2. \A g \in untold : g <= shown /\ g # shown /\ g \in Nat
      BY <2>1, <3>1 DEF OneGame
    <3> QED BY <3>1, <3>2 DEF Clear
  <2>4. sent[shown] = moves[shown] - unsent[shown]
    BY <1>1, <2>2, SentFacts
  <2>5. unsent[shown] = 0 => sent[shown] = moves[shown]
    <3>1. moves \in [GameIds -> Nat]
      BY <1>1 DEF TypeInv, SessionTypeOK
    <3>2. moves[shown] \in Nat
      BY <2>2, <3>1, SessionAssumption
    <3> QED BY <2>4, <3>2
  <2> QED BY <2>1, <2>3, <2>4, <2>5 DEF SavedInv, Capped
<1>2. Init => LinkInv
  BY DEF Init, InitClient, LinkInv, Running
<1> QED
  BY <1>1, <1>2, TypeInvInit, TypeInvStep, LinkInvStep, StreamInvInit, StreamInvStep, PTL DEF Spec

-----------------------------------------------------------------------------
(* The dialogs of the end of a game.  While the user leaves neither a game *)
(* nor a request, and no end is told twice, one thing is on at a time: the *)
(* dialogs of a game, the next request, or the next game.                  *)
Ghosts == {"over", "resigned", "ended"}
Ghost  == dialog \in Ghosts \/ notices \cap Ghosts # {}
Asking == \E i \in DOMAIN toServer : toServer[i] = "match"

(* The messages after which nothing more comes about their game. *)
Last(i)  == fromServer[i].type \in {"resigned", "ended"} \/ (fromServer[i].type = "move" /\ Final(i))
LastNews == {i \in News : Last(i)}

(* The screen is that of what is on. *)
OnScreen ==
  /\ Running => current_screen = "game"
  /\ Pending => current_screen = "matching" /\ ~Running

OneAsked == \A i, j \in DOMAIN toServer : toServer[i] = "match" /\ toServer[j] = "match" => i = j

OneRequest ==
  /\ link = "up" /\ Asking => live = {} /\ ~waiting /\ At("start") = {}
  /\ link = "up" /\ waiting => At("start") = {}
  /\ Hidden => ~(link = "up" /\ (waiting \/ Asking)) /\ At("start") = {}
  /\ OneAsked
  /\ \A i, j \in At("start") : i = j

(* The game that the client is not told of is the last one started, and    *)
(* what comes of it ends with a last message.                              *)
LastGame == board[Len(board)].game
Unseen ==
  /\ Running => Clear
  /\ \A i \in At("start") : \A g \in untold : g < G(i)
  /\ \A i \in News : G(i) \in untold => G(i) = counter
  /\ net = "ending" /\ LastGame \in untold => News = {} /\ live = {}

UiRests ==
  /\ ui \in {"name", "replay", "request"} => ~Running /\ ~Pending /\ ~Ghost
  /\ ui = "request" => current_screen = "matching"

GhostRests ==
  /\ Ghost => ~Running /\ ~Pending
  /\ ui = "key" /\ ~seen /\ Ghost => current_screen # "main"

LiveRuns == connected /\ shown \in live => Running

EndsOnce ==
  /\ \A i \in LastNews : \A j \in News : i < j => G(i) < G(j)
  /\ \A i \in LastNews : G(i) = shown => Running /\ net # "ending"
  /\ \A i \in News : G(i) = shown \/ G(i) \in untold \/ \E j \in At("start") : j <= i /\ G(j) = G(i)
  /\ net = "ending" => Running \/ LastGame \in untold

Quiet ==
  /\ ~strayed
  /\ OnScreen /\ OneRequest /\ Unseen /\ UiRests /\ GhostRests /\ LiveRuns /\ EndsOnce

QuietInv == ~wandered /\ ~crossed => Quiet

(* The game that the client is not told of runs, or something of it is on  *)
(* its way, or its end is being handled.                                   *)
HiddenLive == link = "up" /\ untold \cap live # {}
HiddenNews == \E i \in News : G(i) \in untold
HiddenEnd  == net = "ending" /\ LastGame \in untold

LEMMA HiddenForm ==
  /\ Hidden <=> HiddenLive \/ HiddenNews \/ HiddenEnd
  /\ Hidden' <=> HiddenLive' \/ HiddenNews' \/ HiddenEnd'
BY DEF Hidden, HiddenLive, HiddenNews, HiddenEnd, News, G, LastGame

Requested == link = "up" /\ (waiting \/ Asking)

LEMMA PendingForm ==
  /\ Pending <=> Requested \/ At("start") # {} \/ Hidden
  /\ Pending' <=> Requested' \/ At("start")' # {} \/ Hidden'
BY DEF Pending, Requested, Asking, At

LEMMA LastNotLive ==
  ASSUME EndsLast
  PROVE  \A i \in LastNews : G(i) \notin live
BY DEF EndsLast, LastNews, Last, At, News

(* A running or pending game goes unseen only if it is left. *)
LEMMA ScreenLeft ==
  ASSUME UiNext, UiHistory, ~wandered'
  PROVE  /\ ~wandered
         /\ UNCHANGED current_screen \/ (~Running /\ ~Pending /\ current_screen' # "game")
<1>1. ~wandered /\ ~Leaves
  BY DEF UiHistory
<1>2. UNCHANGED current_screen \/ current_screen' \in {"main", "matching"}
  BY DEF UiNext, UiNoKey, UiAck, UiShow, UiReplayKey, UiReplay, UiReplayLeave, UiMatchKey, UiName,
         UiRequest, UiCancelKey, UiCancel, UiLeave, UiQuit, UiResignKey, UiConfirm, UiMove,
         UiNotation, UiSave, screenVars, GotoScreen
<1> QED BY <1>1, <1>2 DEF Leaves

LEMMA OthersSent ==
  ASSUME TypeInv, NEW request \in Requests \ {"match"}, Sent(request) \/ NotSent \/ UNCHANGED toServer,
         OneAsked
  PROVE  (Asking' => Asking) /\ OneAsked'
<1>1. toServer \in Seq(Requests)
  BY DEF TypeInv, SessionTypeOK
<1>2. CASE toServer' = Append(toServer, request)
  <2>1. /\ DOMAIN toServer' = 1 .. (Len(toServer) + 1) /\ DOMAIN toServer = 1 .. Len(toServer)
        /\ Len(toServer) \in Nat
        /\ toServer'[Len(toServer) + 1] = request
        /\ \A i \in 1 .. Len(toServer) : toServer'[i] = toServer[i]
    BY <1>1, <1>2, AppendProperties, LenProperties
  <2>2. \A i \in DOMAIN toServer' : toServer'[i] = "match" => i \in DOMAIN toServer /\ toServer[i] = "match"
    BY <2>1
  <2> QED BY <2>2 DEF Asking, OneAsked
<1>3. CASE UNCHANGED toServer
  BY <1>3 DEF Asking, OneAsked
<1> QED BY <1>2, <1>3 DEF Sent, NotSent

LEMMA MatchSent ==
  ASSUME TypeInv, toServer' = Append(toServer, "match"), ~Asking
  PROVE  OneAsked'
<1>1. toServer \in Seq(Requests)
  BY DEF TypeInv, SessionTypeOK
<1>2. /\ DOMAIN toServer' = 1 .. (Len(toServer) + 1) /\ DOMAIN toServer = 1 .. Len(toServer)
      /\ Len(toServer) \in Nat
      /\ \A i \in 1 .. Len(toServer) : toServer'[i] = toServer[i]
  BY <1>1, AppendProperties, LenProperties
<1>3. \A i \in DOMAIN toServer' : toServer'[i] = "match" => i = Len(toServer) + 1
  BY <1>2 DEF Asking
<1> QED BY <1>3 DEF OneAsked

(* What the UI thread sends: a match request only if there is none.        *)
LEMMA UiAsks ==
  ASSUME TypeInv, UiNext, OneRequest, UiRests
  PROVE  /\ OneAsked'
         /\ Asking' => Asking \/ (UiRequest /\ link = "up" /\ UNCHANGED current_screen)
<1>1. CASE UiRequest
  <2>1. CASE Sent("match") /\ UNCHANGED current_screen /\ link = "up"
    <3>1. toServer' = Append(toServer, "match")
      BY <2>1 DEF Sent
    <3>2. ~Asking
      BY <1>1, <2>1, PendingForm DEF UiRequest, UiRests, Requested
    <3> QED BY <1>1, <2>1, <3>1, <3>2, MatchSent
  <2>2. CASE UNCHANGED toServer
    BY <2>2 DEF OneRequest, OneAsked, Asking
  <2> QED BY <1>1, <2>1, <2>2 DEF UiRequest, Sent, NotSent
<1>2. CASE ~UiRequest
  <2>1. \E request \in Requests \ {"match"} : Sent(request) \/ NotSent \/ UNCHANGED toServer
    <3>1. \/ Sent("cancel") \/ Sent("move") \/ Sent("resign") \/ NotSent
          \/ UNCHANGED toServer
      BY <1>2 DEF UiNext, UiNoKey, UiAck, UiShow, UiReplayKey, UiReplay, UiReplayLeave, UiMatchKey,
         UiName, UiCancelKey, UiCancel, UiLeave, UiQuit, UiResignKey, UiConfirm, UiMove,
         UiNotation, UiSave, linkVars
    <3>2. {"cancel", "move", "resign"} \subseteq Requests \ {"match"}
      BY DEF Requests
    <3> QED BY <3>1, <3>2
  <2> QED BY <2>1, OthersSent DEF OneRequest
<1> QED BY <1>1, <1>2

(* What the UI thread does with the dialogs.                               *)
LEMMA UiDialogs ==
  ASSUME TypeInv, UiNext
  PROVE  /\ Ghost' => Ghost
         /\ ui' = "key" /\ ~seen' => ~Ghost'
         /\ ui' \in {"name", "replay", "request"} =>
              /\ UNCHANGED <<toServer, dialog, notices>>
              /\ ui \in {"name", "replay", "request"} \/ Key("main")
              /\ ui' = "request" => current_screen' = "matching"
<1>1. CASE UiShow
  <2>1. notices \subseteq Notices /\ dialog \in Notices \cup {"none", "error"}
    BY DEF TypeInv, SessionTypeOK
  <2>2. CASE dialog = "none" /\ notices # {}
    <3>1. /\ dialog' = Foremost(notices) /\ notices' \subseteq notices
          /\ ui' = "key" /\ (seen' <=> (dialog' # "none"))
      BY <1>1, <2>2 DEF UiShow
    <3>2. Foremost(notices) \in notices /\ Foremost(notices) # "none"
      BY <2>1, <2>2 DEF Foremost, Notices
    <3> QED BY <3>1, <3>2 DEF Ghost
  <2>3. CASE dialog # "none" \/ notices = {}
    <3>1. UNCHANGED <<dialog, notices>> /\ ui' = "key" /\ (seen' <=> (dialog' # "none"))
      BY <1>1, <2>3 DEF UiShow
    <3> QED BY <2>3, <3>1 DEF Ghost, Ghosts
  <2> QED BY <2>2, <2>3
<1>2. CASE ~UiShow
  <2>1. ui' # "key"
    BY <1>2 DEF UiNext, UiNoKey, UiAck, UiReplayKey, UiReplay, UiReplayLeave, UiMatchKey, UiName,
       UiRequest, UiCancelKey, UiCancel, UiLeave, UiQuit, UiResignKey, UiConfirm, UiMove,
       UiNotation, UiSave
  <2>2. Ghost' => Ghost
    <3>1. CASE UiAck
      BY <3>1 DEF UiAck, Ghost, Ghosts
    <3> QED BY <1>2, <3>1, UiWrites DEF Ghost
  <2>3. ASSUME ui' \in {"name", "replay", "request"}
        PROVE  /\ UNCHANGED <<toServer, dialog, notices>>
               /\ ui \in {"name", "replay", "request"} \/ Key("main")
               /\ ui' = "request" => current_screen' = "matching"
    BY <1>2, <2>3 DEF UiNext, UiNoKey, UiAck, UiReplayKey, UiReplay, UiReplayLeave, UiMatchKey, UiName,
       UiRequest, UiCancelKey, UiCancel, UiLeave, UiQuit, UiResignKey, UiConfirm, UiMove,
       UiNotation, UiSave, linkVars, screenVars, GotoScreen
  <2> QED BY <2>1, <2>2, <2>3
<1> QED BY <1>1, <1>2

LEMMA QuietUi ==
  ASSUME TypeInv, LinkInv, StreamInv, Quiet, UiNext, UiHistory, ~wandered'
  PROVE  Quiet'
<1> USE DEF Quiet
<1>1. UNCHANGED <<connected, link, fromServer, net, board, shown, outcome, serverVars>>
  BY UiWrites DEF UiHistory
<1>2. /\ UNCHANGED <<waiting, live, untold, counter, strayed>> /\ UNCHANGED At("start")
      /\ Running' <=> Running
      /\ Hidden' <=> Hidden
  <2>1. /\ UNCHANGED <<waiting, live, untold, counter, strayed>> /\ UNCHANGED At("start")
        /\ Running' <=> Running
    BY <1>1 DEF serverVars, At, Running
  <2>2. (HiddenLive' <=> HiddenLive) /\ (HiddenNews' <=> HiddenNews) /\ (HiddenEnd' <=> HiddenEnd)
    BY <1>1, <2>1 DEF HiddenLive, HiddenNews, HiddenEnd, News, G, LastGame
  <2> QED BY <2>1, <2>2, HiddenForm
<1>3. EndsOnce' /\ LiveRuns' /\ Unseen'
  <2>1. EndsOnce' /\ LiveRuns'
    BY <1>1, <1>2 DEF EndsOnce, LiveRuns, LastNews, Last, News, At, G, Final, LastGame
  <2>2. Unseen'
    BY <1>1, <1>2 DEF Unseen, Clear, News, At, G, LastGame
  <2> QED BY <2>1, <2>2
<1>4. Pending' => Pending \/ (UiRequest /\ link = "up" /\ UNCHANGED current_screen)
  <2>1. Requested' => Requested \/ (UiRequest /\ link = "up" /\ UNCHANGED current_screen)
    BY <1>1, <1>2, UiAsks DEF Requested
  <2> QED BY <1>2, <2>1, PendingForm
<1>5. ASSUME UiRequest, link = "up"
      PROVE  ~Running /\ ~Pending /\ ~Ghost /\ current_screen = "matching"
             /\ live = {} /\ ~waiting /\ At("start") = {}
  <2>1. ~Running /\ ~Pending /\ ~Ghost /\ current_screen = "matching"
    BY <1>5 DEF UiRequest, UiRests
  <2>2. ~waiting /\ At("start") = {} /\ ~HiddenLive
    BY <1>5, <2>1, PendingForm, HiddenForm DEF Requested
  <2>3. connected
    BY <1>5 DEF LinkInv
  <2>4. live = {}
    <3>1. \A g \in live : g \notin untold
      BY <1>5, <2>2 DEF HiddenLive
    <3> QED BY <2>1, <2>2, <2>3, <3>1, LiveInvForms DEF StreamInv, LiveRuns, ShownLive
  <2> QED BY <2>1, <2>2, <2>4
<1>6. OnScreen'
  <2>1. Running' => current_screen' = "game"
    BY <1>2, ScreenLeft DEF OnScreen
  <2>2. Pending' => current_screen' = "matching" /\ ~Running'
    BY <1>2, <1>4, <1>5, ScreenLeft DEF OnScreen
  <2> QED BY <2>1, <2>2 DEF OnScreen
<1>7. OneRequest'
  <2>1. OneAsked' /\ (Asking' => Asking \/ (UiRequest /\ link = "up"))
    BY UiAsks
  <2>2. link' = "up" /\ Asking' => live' = {} /\ ~waiting' /\ At("start")' = {}
    BY <1>1, <1>2, <1>5, <2>1 DEF OneRequest
  <2>3. link' = "up" /\ waiting' => At("start")' = {}
    BY <1>1, <1>2 DEF OneRequest
  <2>4. \A i, j \in At("start")' : i = j
    BY <1>2 DEF OneRequest
  <2>5. Hidden' => ~(link' = "up" /\ (waiting' \/ Asking')) /\ At("start")' = {}
    <3>1. Hidden => Pending
      BY PendingForm
    <3> QED BY <1>1, <1>2, <1>5, <2>1, <3>1 DEF OneRequest
  <2> QED BY <2>1, <2>2, <2>3, <2>4, <2>5 DEF OneRequest
<1>8. UiRests'
  <2>1. ASSUME ui' \in {"name", "replay", "request"} PROVE ~Running' /\ ~Pending' /\ ~Ghost'
    <3>1. UNCHANGED <<toServer, dialog, notices>>
      BY <2>1, UiDialogs
    <3>2. (Pending' => Pending) /\ (Ghost' => Ghost)
      <4>1. Requested' => Requested
        BY <1>1, <1>2, <3>1 DEF Requested, Asking
      <4> QED BY <1>2, <3>1, <4>1, PendingForm DEF Ghost
    <3>3. ~Running /\ ~Pending /\ ~Ghost
      <4>1. CASE ui \in {"name", "replay", "request"}
        BY <4>1 DEF UiRests
      <4>2. CASE Key("main")
        BY <4>2 DEF Key, OnScreen, GhostRests
      <4> QED BY <2>1, <4>1, <4>2, UiDialogs
    <3> QED BY <1>2, <3>2, <3>3
  <2>2. ui' = "request" => current_screen' = "matching"
    BY UiDialogs
  <2> QED BY <2>1, <2>2 DEF UiRests
<1>9. GhostRests'
  <2>1. Ghost' => ~Running' /\ ~Pending'
    BY <1>2, <1>4, <1>5, UiDialogs DEF GhostRests
  <2>2. ui' = "key" /\ ~seen' /\ Ghost' => current_screen' # "main"
    BY UiDialogs
  <2> QED BY <2>1, <2>2 DEF GhostRests
<1> QED BY <1>2, <1>3, <1>6, <1>7, <1>8, <1>9

(* Nothing that the user sees changes. *)
LEMMA ScreenRests ==
  ASSUME OnScreen, UiRests, GhostRests, Pending' => Pending, Running' => Running, Ghost' => Ghost,
         UNCHANGED <<current_screen, ui, seen>>
  PROVE  OnScreen' /\ UiRests' /\ GhostRests'
BY DEF OnScreen, UiRests, GhostRests

(* The connection is closed. *)
LEMMA QuietHangup ==
  ASSUME Quiet, Hangup, net' # "ending", Running' => Running, Ghost' => Ghost,
         UNCHANGED <<current_screen, shown, uiVars, serverVars>>
  PROVE  Quiet'
<1>1. /\ News' = {} /\ At("start")' = {} /\ LastNews' = {} /\ ~Asking' /\ OneAsked'
      /\ link' # "up" /\ ~connected'
  BY DEF Hangup, News, At, LastNews, Asking, OneAsked
<1>2. ~Pending' /\ ~Hidden'
  <2>1. ~Hidden'
    BY <1>1, HiddenForm DEF HiddenLive, HiddenNews, HiddenEnd
  <2> QED BY <1>1, <2>1, PendingForm DEF Requested
<1>3. OneRequest' /\ LiveRuns' /\ EndsOnce' /\ Unseen'
  <2>1. Running' => Clear'
    BY DEF Quiet, Unseen, Clear, serverVars
  <2> QED BY <1>1, <1>2, <2>1 DEF OneRequest, LiveRuns, EndsOnce, Unseen
<1>4. OnScreen' /\ UiRests' /\ GhostRests'
  BY <1>2, ScreenRests DEF Quiet, uiVars
<1> QED BY <1>3, <1>4 DEF Quiet, serverVars

(* What is behind a message, when it is taken. *)
LEMMA MovedQuiet ==
  ASSUME TypeInv, Quiet, NEW type \in {"move", "resigned", "ended", "error"}, Receive(type),
         UNCHANGED serverVars, UNCHANGED shown, HiddenEnd' => HiddenNews
  PROVE  /\ OneRequest' /\ (Pending' => Pending)
         /\ \A i \in At("start")' : \A g \in untold' : g < G(i)'
         /\ \A i \in News' : G(i)' \in untold' => G(i)' = counter'
         /\ \A i \in LastNews' : i \in News' /\ \E k \in LastNews : k = i + 1 /\ k # 1 /\ G(i)' = G(k)
         /\ \A i \in LastNews' : \A j \in News' : i < j => G(i)' < G(j)'
         /\ \A i \in News' : \/ G(i)' = shown' \/ G(i)' \in untold'
                              \/ \E j \in At("start")' : j <= i /\ G(j)' = G(i)'
<1>1. Moved /\ 1 \in At(type) /\ 1 \notin At("start")
  BY ReceiveMoves DEF At
<1>2. UNCHANGED <<link, toServer, waiting, live, untold, counter>>
  BY DEF Receive, serverVars
<1>3. /\ \A i \in News' : i \in Nat /\ i >= 1 /\ \E k \in News : k = i + 1 /\ Same(i, k)
      /\ \A k \in News : k \in Nat /\ (k # 1 => \E i \in News' : k = i + 1 /\ Same(i, k))
  BY <1>1 DEF Moved
<1>4. \A i \in At("start")' : i \in Nat /\ \E k \in At("start") : k = i + 1 /\ G(i)' = G(k)
  BY <1>3, AtNews DEF Same
<1>5. \A i \in LastNews' : i \in News' /\ i \in Nat /\ i >= 1
         /\ \E k \in LastNews : k = i + 1 /\ G(i)' = G(k)
  <2> TAKE i \in LastNews'
  <2>1. i \in News' /\ Last(i)'
    BY DEF LastNews
  <2>2. PICK k \in News : k = i + 1 /\ Same(i, k)
    BY <1>3, <2>1
  <2>3. Last(k)
    BY <2>1, <2>2 DEF Last, Same
  <2> QED BY <1>3, <2>1, <2>2, <2>3 DEF LastNews, Same
<1>6. Hidden' => Hidden
  <2>1. HiddenLive' => HiddenLive
    BY <1>2 DEF HiddenLive
  <2>2. HiddenNews' => HiddenNews
    BY <1>2, <1>3 DEF HiddenNews, Same
  <2> QED BY <2>1, <2>2, HiddenForm
<1>7. /\ \A i \in At("start")' : \A g \in untold' : g < G(i)'
      /\ \A i \in News' : G(i)' \in untold' => G(i)' = counter'
  BY <1>2, <1>3, <1>4 DEF Quiet, Unseen, Same
<1>8. OneRequest'
  <2>1. \A i, j \in At("start")' : i = j
    BY <1>4 DEF Quiet, OneRequest
  <2>2. At("start") = {} => At("start")' = {}
    BY <1>4
  <2> QED BY <1>2, <1>6, <2>1, <2>2 DEF Quiet, OneRequest, OneAsked, Asking
<1>9. Pending' => Pending
  <2>1. Requested' <=> Requested
    BY <1>2 DEF Requested, Asking
  <2> QED BY <1>4, <1>6, <2>1, PendingForm
<1>10. ASSUME NEW i \in LastNews', NEW j \in News', i < j PROVE G(i)' < G(j)'
  <2>1. PICK k \in LastNews : k = i + 1 /\ G(i)' = G(k)
    BY <1>5
  <2>2. PICK l \in News : l = j + 1 /\ G(j)' = G(l)
    BY <1>3 DEF Same
  <2>3. k < l
    BY <1>3, <1>5, <1>10, <2>1, <2>2
  <2> QED BY <2>1, <2>2, <2>3 DEF Quiet, EndsOnce
<1>11. ASSUME NEW i \in News', G(i)' # shown', G(i)' \notin untold'
      PROVE  \E j \in At("start")' : j <= i /\ G(j)' = G(i)'
  <2>1. PICK k \in News : k = i + 1 /\ G(i)' = G(k)
    BY <1>3 DEF Same
  <2>2. PICK l \in At("start") : l <= k /\ G(l) = G(k)
    BY <1>2, <1>11, <2>1 DEF Quiet, EndsOnce
  <2>3. l # 1 /\ l \in News
    BY <1>1, <2>2, AtNews
  <2>4. PICK j \in News' : l = j + 1 /\ Same(j, l)
    BY <1>3, <2>3
  <2>5. j \in At("start")' /\ G(j)' = G(l)
    BY <2>2, <2>4 DEF Same
  <2>6. j <= i
    BY <1>3, <2>1, <2>2, <2>4
  <2> QED BY <2>1, <2>2, <2>5, <2>6
<1>12. \A i \in LastNews' : i \in News' /\ \E k \in LastNews : k = i + 1 /\ k # 1 /\ G(i)' = G(k)
  <2> TAKE i \in LastNews'
  <2>1. PICK k \in LastNews : k = i + 1 /\ G(i)' = G(k)
    BY <1>5
  <2>2. k # 1 /\ i \in News'
    BY <1>5, <2>1
  <2> QED BY <2>1, <2>2
<1> QED BY <1>8, <1>9, <1>10, <1>11, <1>12, <1>7

(* The first message is the last of the running game, or of one that the   *)
(* client has not been told of, and nothing is behind it.                  *)
EndsShown ==
  /\ G(1) = shown /\ Running /\ net # "ending" /\ shown \notin live
  /\ \A k \in LastNews : k # 1 => G(k) # shown
EndsHidden ==
  /\ G(1) \in untold /\ live = {} /\ At("start") = {} /\ \A k \in News : k = 1
  /\ ~Running /\ ~Requested /\ current_screen = "matching" /\ ui \notin {"name", "replay", "request"}

LEMMA LastTaken ==
  ASSUME TypeInv, LinkInv, StreamInv, Quiet, connected, 1 \in LastNews
  PROVE  EndsShown \/ EndsHidden
<1>1. 1 \in News /\ 1 \notin At("start")
  BY DEF LastNews, Last, At
<1>2. \A k \in News : k \in Nat /\ k >= 1 /\ G(k) \in Nat
  BY StreamTypes
<1>3. G(1) = shown \/ G(1) \in untold
  <2> SUFFICES ASSUME NEW j \in At("start"), j <= 1 PROVE FALSE
    BY <1>1 DEF Quiet, EndsOnce
  <2>1. j = 1
    BY <1>2, AtNews
  <2> QED BY <1>1, <2>1
<1>4. \A k \in News : k # 1 => G(1) < G(k)
  <2> TAKE k \in News
  <2>1. k # 1 => 1 < k
    BY <1>2
  <2> QED BY <2>1 DEF Quiet, EndsOnce
<1>5. OneGame /\ GamesInOrder /\ EndsLast
  BY DEF StreamInv, Quiet
<1>6. CASE G(1) = shown
  <2>1. Running /\ net # "ending"
    BY <1>6 DEF Quiet, EndsOnce
  <2>2. shown \notin live
    BY <1>5, <1>6, LastNotLive
  <2>3. ASSUME NEW k \in LastNews, k # 1 PROVE G(k) # shown
    <3>1. k \in News /\ G(1) < G(k)
      BY <1>4, <2>3 DEF LastNews
    <3> QED BY <1>1, <1>2, <1>6, <3>1
  <2> QED BY <1>6, <2>1, <2>2, <2>3 DEF EndsShown
<1>7. CASE G(1) \in untold
  <2>1. G(1) = counter
    BY <1>1, <1>7 DEF Quiet, Unseen
  <2>2. Hidden
    BY <1>1, <1>7, HiddenForm DEF HiddenNews
  <2>3. ~Requested /\ At("start") = {}
    BY <2>2 DEF Quiet, OneRequest, Requested
  <2>4. ~Running /\ current_screen = "matching" /\ ui \notin {"name", "replay", "request"}
    BY <2>2, PendingForm DEF Quiet, OnScreen, UiRests
  <2>5. \A k \in News : k = 1
    <3> SUFFICES ASSUME NEW k \in News, k # 1 PROVE FALSE
      OBVIOUS
    <3>1. G(1) < G(k) /\ G(k) <= counter
      BY <1>4, <1>5 DEF GamesInOrder
    <3> QED BY <1>1, <1>2, <2>1, <3>1
  <2>6. live = {}
    BY <1>5, <2>1, LastNotLive DEF OneGame
  <2> QED BY <1>7, <2>3, <2>4, <2>5, <2>6 DEF EndsHidden
<1> QED BY <1>3, <1>6, <1>7

(* A game ends, and with it comes a dialog. *)
LEMMA QuietEnds ==
  ASSUME ~Running', ~Pending', shown \notin live, current_screen # "main",
         ui \notin {"name", "replay", "request"},
         UNCHANGED <<current_screen, uiVars, serverVars, shown>>
  PROVE  OnScreen' /\ UiRests' /\ GhostRests' /\ LiveRuns'
BY DEF OnScreen, UiRests, GhostRests, LiveRuns, serverVars, uiVars

LEMMA QuietStart ==
  ASSUME TypeInv, TypeInv', StreamInv, Quiet, NetStart, UNCHANGED serverVars
  PROVE  Quiet'
<1>1. /\ Moved /\ 1 \in At("start") /\ 1 \in News
  BY ReceiveMoves, AtNews DEF NetStart
<1>2. Pending /\ ~Running /\ ~Ghost /\ ui \notin {"name", "replay", "request"} /\ ~Hidden
  <2>1. Pending /\ ~Hidden
    BY <1>1, PendingForm DEF Quiet, OneRequest
  <2> QED BY <2>1 DEF Quiet, OnScreen, GhostRests, UiRests
<1>3. /\ current_screen' = "game" /\ shown' = G(1) /\ Running' /\ net' = "loop"
      /\ UNCHANGED <<link, toServer, dialog, notices, ui, seen, waiting, live, untold, counter, strayed>>
  BY ReceiveMoves DEF NetStart, Receive, Running, At, G, uiVars, serverVars
<1>4. link = "up" => ~waiting /\ ~Asking
  BY <1>1 DEF Quiet, OneRequest
<1>5. /\ \A i \in News' : i \in Nat /\ i >= 1 /\ \E k \in News : k = i + 1 /\ Same(i, k)
      /\ \A k \in News : k \in Nat
  BY <1>1 DEF Moved
<1>6. At("start")' = {}
  <2> SUFFICES ASSUME NEW i \in At("start")' PROVE FALSE
    OBVIOUS
  <2>1. PICK k \in News : k = i + 1 /\ Same(i, k)
    BY <1>5, AtNews
  <2>2. k \in At("start") /\ k # 1
    BY <1>5, <2>1, AtNews DEF Same
  <2> QED BY <1>1, <2>2 DEF Quiet, OneRequest
<1>7. ~Asking' \/ link' # "up"
  BY <1>3, <1>4 DEF Asking
<1>8. ~Hidden'
  <2>1. ~HiddenLive' /\ ~HiddenEnd'
    BY <1>2, <1>3, HiddenForm DEF HiddenLive, HiddenEnd
  <2>2. HiddenNews' => HiddenNews
    BY <1>3, <1>5 DEF HiddenNews, Same
  <2> QED BY <1>2, <2>1, <2>2, HiddenForm
<1>9. ~Pending' /\ ~Ghost'
  <2>1. ~Requested'
    BY <1>3, <1>4, <1>7 DEF Requested
  <2> QED BY <1>2, <1>3, <1>6, <1>8, <2>1, PendingForm DEF Ghost
<1>10. OneRequest'
  BY <1>3, <1>6, <1>7, <1>8 DEF Quiet, OneRequest, OneAsked
<1>11. Unseen'
  <2>1. Running' => Clear'
    <3>1. shown' # NoGame /\ \A g \in untold' : g < shown'
      BY <1>1, <1>3, StreamTypes DEF Quiet, Unseen
    <3> QED BY <3>1 DEF Clear
  <2>2. \A i \in News' : G(i)' \notin untold'
    BY <1>8, HiddenForm DEF HiddenNews
  <2> QED BY <1>3, <1>6, <2>1, <2>2 DEF Unseen
<1>12. \A k \in News : G(k) # shown
  <2> TAKE k \in News
  <2>1. G(k) \in Nat /\ G(1) \in Nat /\ G(k) # NoGame /\ 1 \in Nat /\ k \in Nat /\ k >= 1
        /\ (shown # NoGame => shown \in Nat)
    BY <1>1, StreamTypes
  <2>2. k = 1 \/ G(1) <= G(k)
    BY <1>1, <2>1 DEF Quiet, StreamInv, GamesInOrder
  <2>3. shown # NoGame => shown < G(1)
    BY <1>1 DEF Quiet, StreamInv, GamesInOrder
  <2> QED BY <2>1, <2>2, <2>3
<1>13. EndsOnce'
  <2>1. ASSUME NEW i \in LastNews', NEW j \in News', i < j PROVE G(i)' < G(j)'
    <3>1. i \in News' /\ Last(i)'
      BY DEF LastNews
    <3>2. PICK k \in News : k = i + 1 /\ Same(i, k)
      BY <1>5, <3>1
    <3>3. k \in LastNews
      BY <3>1, <3>2 DEF LastNews, Last, Same
    <3>4. PICK l \in News : l = j + 1 /\ Same(j, l)
      BY <1>5
    <3>5. k < l
      BY <1>5, <2>1, <3>1, <3>2, <3>4
    <3>6. G(k) < G(l)
      BY <3>3, <3>5 DEF Quiet, EndsOnce
    <3> QED BY <3>2, <3>4, <3>6 DEF Same
  <2>2. ASSUME NEW i \in News' PROVE G(i)' = shown'
    <3>1. PICK k \in News : k = i + 1 /\ Same(i, k)
      BY <1>5
    <3>2. G(k) = shown \/ \E j \in At("start") : j <= k /\ G(j) = G(k)
      BY <1>2, HiddenForm DEF Quiet, EndsOnce, HiddenNews
    <3>3. \E j \in At("start") : G(j) = G(k)
      BY <1>12, <3>2
    <3>4. G(1) = G(k)
      BY <1>1, <3>3 DEF Quiet, OneRequest
    <3> QED BY <1>3, <3>1, <3>4 DEF Same
  <2> QED BY <1>3, <2>1, <2>2 DEF EndsOnce
<1> QED
  BY <1>2, <1>3, <1>9, <1>10, <1>13, <1>11 DEF Quiet, OnScreen, UiRests, GhostRests, LiveRuns

LEMMA QuietMove ==
  ASSUME TypeInv, TypeInv', LinkInv, StreamInv, Quiet, NetMove, UNCHANGED serverVars
  PROVE  Quiet'
<1>1. /\ 1 \in At("move") /\ 1 \in News /\ connected /\ Message = fromServer[1] /\ net = "loop"
  BY ReceiveMoves, AtNews DEF NetMove
<1>2. /\ Receive("move") /\ net' = IF Final(1) THEN "ending" ELSE "loop"
      /\ UNCHANGED <<current_screen, dialog, notices, shown, outcome>>
  BY <1>1 DEF NetMove, Final
<1>3. Final(1) => LastGame' = G(1)
  <2>1. board' = Append(board, Message.move) /\ board \in Seq(Moves) /\ Message \in Messages
    BY <1>1 DEF NetMove, ApplyMove, TypeInv, SessionTypeOK, News
  <2>2. Message.move \in Moves /\ G(1) = Message.move.game
    BY <1>1, <2>1, MessageTypes DEF At, G
  <2>3. board'[Len(board')] = Message.move
    BY <2>1, <2>2, AppendProperties
  <2> QED BY <2>2, <2>3 DEF LastGame
<1>4. UNCHANGED <<connected, ui, seen, live, untold, counter, strayed>>
  BY <1>2 DEF Receive, uiVars, serverVars
<1>5. /\ OneRequest' /\ (Pending' => Pending)
      /\ \A i \in At("start")' : \A g \in untold' : g < G(i)'
      /\ \A i \in News' : G(i)' \in untold' => G(i)' = counter'
      /\ \A i \in LastNews' : i \in News' /\ \E k \in LastNews : k = i + 1 /\ k # 1 /\ G(i)' = G(k)
      /\ \A i \in LastNews' : \A j \in News' : i < j => G(i)' < G(j)'
      /\ \A i \in News' : \/ G(i)' = shown' \/ G(i)' \in untold'
                           \/ \E j \in At("start")' : j <= i /\ G(j)' = G(i)'
  <2>1. HiddenEnd' => HiddenNews
    BY <1>1, <1>2, <1>4, <1>3 DEF HiddenEnd, HiddenNews
  <2> QED BY <1>2, <2>1, MovedQuiet
<1>6. Final(1) => 1 \in LastNews
  BY <1>1 DEF LastNews, Last, At
<1>7. EndsOnce'
  <2>1. ASSUME NEW i \in LastNews', G(i)' = shown' PROVE Running' /\ net' # "ending"
    <3>1. PICK k \in LastNews : k # 1 /\ G(i)' = G(k)
      BY <1>5
    <3>2. Running
      BY <1>2, <2>1, <3>1 DEF Quiet, EndsOnce
    <3>3. ~EndsShown /\ ~EndsHidden
      BY <1>2, <2>1, <3>1 DEF EndsShown, EndsHidden, LastNews
    <3>4. ~Final(1)
      BY <1>1, <1>6, <3>3, LastTaken
    <3> QED BY <1>2, <3>2, <3>4 DEF Running
  <2>2. net' = "ending" => Running' \/ LastGame' \in untold'
    <3>1. Final(1) => EndsShown \/ EndsHidden
      BY <1>1, <1>6, LastTaken
    <3> QED BY <1>2, <1>4, <1>3, <3>1 DEF Running, EndsShown, EndsHidden
  <2> QED BY <1>5, <2>1, <2>2 DEF EndsOnce
<1>8. OnScreen' /\ UiRests' /\ GhostRests'
  BY <1>2, <1>4, <1>5, ScreenRests DEF Quiet, Running, Ghost
<1>9. LiveRuns'
  BY <1>2, <1>4 DEF Quiet, LiveRuns, Running
<1>10. Unseen'
  <2>1. Running' => Clear'
    BY <1>2, <1>4 DEF Quiet, Unseen, Clear, Running
  <2>2. ASSUME net' = "ending", LastGame' \in untold' PROVE News' = {} /\ live' = {}
    <3>1. Final(1) /\ G(1) \in untold
      BY <1>2, <1>4, <1>3, <2>2
    <3>2. ~EndsShown
      BY <3>1 DEF EndsShown, StreamInv, Quiet, OneGame
    <3>3. EndsHidden
      BY <1>1, <1>6, <3>1, <3>2, LastTaken
    <3>4. ASSUME NEW i \in News' PROVE FALSE
      <4>1. i \in Nat /\ i >= 1 /\ \E k \in News : k = i + 1
        BY <1>2, ReceiveMoves DEF Moved
      <4>2. i + 1 = 1
        BY <3>3, <4>1 DEF EndsHidden
      <4> QED BY <4>1, <4>2
    <3> QED BY <1>4, <3>3, <3>4 DEF EndsHidden
  <2> QED BY <1>5, <2>1, <2>2 DEF Unseen
<1> QED BY <1>4, <1>5, <1>7, <1>8, <1>9, <1>10 DEF Quiet

LEMMA QuietEnd ==
  ASSUME TypeInv, TypeInv', LinkInv, StreamInv, Quiet, NetResigned \/ NetEnded, UNCHANGED serverVars
  PROVE  Quiet'
<1>1. PICK type \in {"resigned", "ended"} :
        /\ Receive(type) /\ Learned(Message.game, type)
        /\ UNCHANGED <<net, current_screen, shown>>
  BY DEF NetResigned, NetEnded
<1>2. /\ 1 \in At(type) /\ connected /\ Message = fromServer[1] /\ 1 \in DOMAIN fromServer
  BY <1>1, ReceiveMoves
<1>3. 1 \in LastNews /\ G(1) = Message.game
  BY <1>2 DEF LastNews, Last, News, At, G
<1>4. EndsShown \/ EndsHidden
  BY <1>2, <1>3, LastTaken
<1>5. ~Running' /\ net' = "loop" /\ UNCHANGED <<link, toServer, ui>>
  <2>1. net = "loop"
    BY <1>1, ReceiveMoves
  <2>2. ~Running'
    BY <1>1, <1>3, <1>4 DEF Learned, Running, EndsShown, EndsHidden
  <2> QED BY <1>1, <2>1, <2>2 DEF Receive, uiVars
<1>6. /\ OneRequest' /\ (Pending' => Pending)
      /\ \A i \in At("start")' : \A g \in untold' : g < G(i)'
      /\ \A i \in News' : G(i)' \in untold' => G(i)' = counter'
      /\ \A i \in LastNews' : i \in News' /\ \E k \in LastNews : k = i + 1 /\ k # 1 /\ G(i)' = G(k)
      /\ \A i \in LastNews' : \A j \in News' : i < j => G(i)' < G(j)'
      /\ \A i \in News' : \/ G(i)' = shown' \/ G(i)' \in untold'
                           \/ \E j \in At("start")' : j <= i /\ G(j)' = G(i)'
  BY <1>1, <1>5, MovedQuiet DEF HiddenEnd
<1>7. \A i \in LastNews' : G(i)' # shown'
  BY <1>1, <1>4, <1>6 DEF EndsShown, EndsHidden, LastNews
<1>8. EndsOnce' /\ Unseen'
  BY <1>5, <1>6, <1>7 DEF EndsOnce, Unseen
<1>9. /\ ~Pending' /\ shown \notin live /\ current_screen # "main"
      /\ ui \notin {"name", "replay", "request"}
  <2>1. CASE EndsShown
    <3>1. Running /\ shown \notin live
      BY <2>1 DEF EndsShown
    <3>2. ~Pending /\ current_screen = "game" /\ ui \notin {"name", "replay", "request"}
      BY <3>1 DEF Quiet, OnScreen, UiRests
    <3> QED BY <1>6, <3>1, <3>2
  <2>2. CASE EndsHidden
    <3>1. UNCHANGED <<waiting, live, untold>>
      BY DEF serverVars
    <3>2. ~Requested'
      BY <1>5, <2>2, <3>1 DEF EndsHidden, Requested, Asking
    <3>3. News' = {}
      <4> SUFFICES ASSUME NEW i \in News' PROVE FALSE
        OBVIOUS
      <4>1. i \in Nat /\ i >= 1 /\ \E k \in News : k = i + 1
        BY <1>1, ReceiveMoves DEF Moved
      <4>2. i + 1 = 1
        BY <2>2, <4>1 DEF EndsHidden
      <4> QED BY <4>1, <4>2
    <3>4. ~Hidden'
      BY <1>5, <2>2, <3>1, <3>3, HiddenForm DEF EndsHidden, HiddenLive, HiddenNews, HiddenEnd
    <3>5. At("start")' = {}
      BY <3>3, AtNews
    <3> QED BY <2>2, <3>2, <3>4, <3>5, PendingForm DEF EndsHidden
  <2> QED BY <1>4, <2>1, <2>2
<1>10. OnScreen' /\ UiRests' /\ GhostRests' /\ LiveRuns'
  BY <1>1, <1>5, <1>9, QuietEnds DEF Receive
<1> QED BY <1>6, <1>8, <1>10 DEF Quiet, serverVars

LEMMA QuietNet ==
  ASSUME TypeInv, TypeInv', LinkInv, StreamInv, Quiet, NetNext, UNCHANGED serverVars
  PROVE  Quiet'
<1>1. CASE NetPing
  <2>1. UNCHANGED <<shown, outcome, board, current_screen, dialog, notices, uiVars>> /\ net' = "loop"
    BY <1>1 DEF NetPing, gameVars, screenVars
  <2>2. CASE Hangup
    BY <2>1, <2>2, QuietHangup DEF Running, Ghost
  <2>3. CASE UNCHANGED <<connected, link, toServer, fromServer>>
    <3>1. Hidden' => Hidden
      BY <2>1, <2>3, HiddenForm DEF HiddenLive, HiddenNews, HiddenEnd, News, G, serverVars
    <3>2. Unseen'
      BY <2>1, <2>3 DEF Quiet, Unseen, Running, Clear, News, At, G, serverVars
    <3>3. Pending' => Pending
      BY <2>3, <3>1, PendingForm DEF Requested, Asking, At, serverVars
    <3>4. OneRequest' /\ LiveRuns' /\ EndsOnce' /\ (Pending' => Pending)
      BY <2>1, <2>3, <3>1, <3>3
      DEF Quiet, OneRequest, OneAsked, LiveRuns, EndsOnce, Asking, Running, LastNews, Last,
          News, At, G, Final, serverVars
    <3>5. OnScreen' /\ UiRests' /\ GhostRests'
      BY <2>1, <3>4, ScreenRests DEF Quiet, Running, Ghost, uiVars
    <3> QED BY <3>4, <3>5, <3>2 DEF Quiet, serverVars
  <2> QED BY <1>1, <2>2, <2>3 DEF NetPing
<1>2. CASE NetLost
  <2>1. /\ Hangup /\ net' # "ending" /\ UNCHANGED <<current_screen, dialog, shown, uiVars>>
        /\ notices' \in {notices, notices \cup {"lost"}}
    BY <1>2 DEF NetLost
  <2>2. ~Running'
    BY <1>2 DEF NetLost, Learned, Running
  <2>3. Ghost' => Ghost
    BY <2>1 DEF Ghost, Ghosts
  <2> QED BY <2>1, <2>2, <2>3, QuietHangup
<1>3. CASE Cut
  <2>1. /\ link' = "cut"
        /\ UNCHANGED <<connected, toServer, fromServer, net, shown, outcome, board, current_screen, dialog,
                       notices, uiVars>>
    BY <1>3 DEF Cut, gameVars, screenVars
  <2>2. Hidden' => Hidden
    BY <2>1, HiddenForm DEF HiddenLive, HiddenNews, HiddenEnd, News, G, LastGame, serverVars
  <2>3. Pending' => Pending
    BY <2>1, <2>2, PendingForm DEF Requested, At
  <2>4. Unseen'
    BY <2>1 DEF Quiet, Unseen, Running, Clear, News, At, G, LastGame, serverVars
  <2>5. OneRequest' /\ LiveRuns' /\ EndsOnce' /\ (Pending' => Pending)
    BY <2>1, <2>2, <2>3
    DEF Quiet, OneRequest, OneAsked, LiveRuns, EndsOnce, Running, LastNews, Last, LastGame,
        News, At, G, Final, serverVars
  <2>6. OnScreen' /\ UiRests' /\ GhostRests'
    BY <2>1, <2>5, ScreenRests DEF Quiet, Running, Ghost, uiVars
  <2> QED BY <2>5, <2>6, <2>4 DEF Quiet, serverVars
<1>4. CASE NetMoveEnd
  <2>1. /\ net = "ending" /\ net' = "loop" /\ Learned(board[Len(board)].game, "move")
        /\ UNCHANGED <<connected, link, toServer, fromServer, current_screen, shown, uiVars>>
    BY <1>4 DEF NetMoveEnd
  <2>2. Hidden' => Hidden
    BY <2>1, HiddenForm DEF HiddenLive, HiddenNews, HiddenEnd, News, G, serverVars
  <2>3. (Requested' <=> Requested) /\ (Pending' => Pending)
    BY <2>1, <2>2, PendingForm DEF Requested, Asking, At, serverVars
  <2>4. OneRequest'
    BY <2>1, <2>2 DEF Quiet, OneRequest, OneAsked, Asking, At, serverVars
  <2>5. /\ ~Running' /\ ~Pending' /\ shown \notin live /\ current_screen # "main"
        /\ ui \notin {"name", "replay", "request"}
    <3>1. CASE Running
      <4>1. ~Pending /\ current_screen = "game" /\ ui \notin {"name", "replay", "request"} /\ Clear
        BY <3>1 DEF Quiet, OnScreen, UiRests, Unseen
      <4>2. board # <<>> /\ board[Len(board)].end # "playing"
        BY <2>1 DEF StreamInv, Quiet, SavedInv
      <4>3. shown \notin live
        BY <4>1, <4>2 DEF StreamInv, Quiet, BoardInv
      <4>4. Len(board) \in DOMAIN board
        <5>1. board \in Seq(Moves)
          BY DEF TypeInv, SessionTypeOK
        <5> QED BY <4>2, <5>1, TailFacts
      <4>5. board[Len(board)].game = shown
        BY <4>1, <4>4 DEF StreamInv, Quiet, BoardInv
      <4>6. ~Running'
        BY <2>1, <3>1, <4>5 DEF Learned, Running
      <4> QED BY <2>3, <4>1, <4>3, <4>6
    <3>2. CASE ~Running
      <4>1. LastGame \in untold
        BY <2>1, <3>2 DEF Quiet, EndsOnce
      <4>2. News = {} /\ live = {} /\ Hidden
        BY <2>1, <4>1, HiddenForm DEF Quiet, Unseen, HiddenEnd
      <4>3. ~Requested /\ At("start") = {} /\ Pending
        BY <4>2, PendingForm DEF Quiet, OneRequest, Requested
      <4>4. current_screen = "matching" /\ ui \notin {"name", "replay", "request"}
        BY <4>3 DEF Quiet, OnScreen, UiRests
      <4>5. ~Hidden'
        BY <2>1, <4>2, HiddenForm DEF HiddenLive, HiddenNews, HiddenEnd, News, serverVars
      <4>6. At("start")' = {}
        BY <2>1, <4>3 DEF At
      <4>7. ~Running'
        BY <2>1, <3>2 DEF Learned, Running
      <4> QED BY <2>3, <4>2, <4>3, <4>4, <4>5, <4>6, <4>7, PendingForm
    <3> QED BY <3>1, <3>2
  <2>6. Unseen'
    BY <2>1, <2>5 DEF Quiet, Unseen, News, At, G, serverVars
  <2>7. EndsOnce'
    <3>1. UNCHANGED <<News, LastNews, shown, untold, At("start")>> /\ \A i \in News : G(i)' = G(i)
      BY <2>1 DEF LastNews, Last, News, At, G, Final, serverVars
    <3>2. \A i \in LastNews : G(i) # shown
      BY <2>1 DEF Quiet, EndsOnce
    <3>3. LastNews \subseteq News
      BY DEF LastNews
    <3> QED BY <2>1, <3>1, <3>2, <3>3, AtNews DEF Quiet, EndsOnce
  <2>8. OnScreen' /\ UiRests' /\ GhostRests' /\ LiveRuns'
    BY <2>1, <2>5, QuietEnds
  <2> QED BY <2>4, <2>6, <2>7, <2>8 DEF Quiet, serverVars
<1>5. CASE NetError
  <2>1. /\ Receive("error") /\ UNCHANGED <<net, current_screen, notices, shown, outcome>>
        /\ dialog' \in {dialog, "error"}
    BY <1>5 DEF NetError
  <2>2. /\ OneRequest' /\ (Pending' => Pending)
        /\ \A i \in At("start")' : \A g \in untold' : g < G(i)'
        /\ \A i \in News' : G(i)' \in untold' => G(i)' = counter'
        /\ \A i \in LastNews' : i \in News' /\ \E k \in LastNews : k = i + 1 /\ k # 1 /\ G(i)' = G(k)
        /\ \A i \in LastNews' : \A j \in News' : i < j => G(i)' < G(j)'
        /\ \A i \in News' : \/ G(i)' = shown' \/ G(i)' \in untold'
                             \/ \E j \in At("start")' : j <= i /\ G(j)' = G(i)'
    <3>1. net' = "loop"
      BY <2>1, ReceiveMoves
    <3> QED BY <2>1, <3>1, MovedQuiet DEF HiddenEnd
  <2>3. EndsOnce' /\ LiveRuns' /\ Unseen'
    <3>1. net' = "loop"
      BY <2>1, ReceiveMoves
    <3>2. UNCHANGED <<connected, shown, live, untold, outcome>>
      BY <2>1 DEF Receive, serverVars
    <3>3. EndsOnce'
      <4>1. ASSUME NEW i \in LastNews', G(i)' = shown' PROVE Running'
        <5>1. PICK k \in LastNews : G(i)' = G(k)
          BY <2>2
        <5> QED BY <3>2, <4>1, <5>1 DEF Quiet, EndsOnce, Running
      <4> QED BY <2>2, <3>1, <4>1 DEF EndsOnce
    <3>4. LiveRuns'
      BY <3>2 DEF Quiet, LiveRuns, Running
    <3>5. Unseen'
      BY <2>2, <3>1, <3>2 DEF Quiet, Unseen, Running, Clear
    <3> QED BY <3>3, <3>4, <3>5
  <2>4. Ghost' => Ghost
    BY <2>1 DEF Ghost, Ghosts
  <2>5. OnScreen' /\ UiRests' /\ GhostRests'
    BY <2>1, <2>2, <2>4, ScreenRests DEF Quiet, Running, Receive, uiVars
  <2> QED BY <2>2, <2>3, <2>5 DEF Quiet, serverVars
<1> QED BY <1>1, <1>2, <1>3, <1>4, <1>5, QuietStart, QuietMove, QuietEnd DEF NetNext

(* A request is taken: there was one match request at most. *)
LEMMA AskingTaken ==
  ASSUME TypeInv, NEW request, Request(request), OneAsked
  PROVE  /\ OneAsked' /\ (Asking' => Asking)
         /\ request = "match" => Asking /\ ~Asking'
<1>1. /\ toServer # <<>> /\ toServer \in Seq(Requests) /\ toServer' = Tail(toServer)
      /\ Head(toServer) = request
  BY DEF Request, TypeInv, SessionTypeOK
<1>2. /\ Len(toServer) \in Nat /\ Len(toServer) >= 1 /\ request = toServer[1]
      /\ DOMAIN toServer = 1 .. Len(toServer) /\ DOMAIN toServer' = 1 .. (Len(toServer) - 1)
      /\ \A i \in 1 .. (Len(toServer) - 1) : toServer'[i] = toServer[i + 1]
  BY <1>1, TailFacts
<1>3. \A i \in DOMAIN toServer' : i \in Nat /\ i >= 1 /\ i + 1 \in DOMAIN toServer /\ toServer'[i] = toServer[i + 1]
  BY <1>2
<1>4. ASSUME NEW i \in DOMAIN toServer', NEW j \in DOMAIN toServer', toServer'[i] = "match", toServer'[j] = "match"
      PROVE  i = j
  <2>1. i + 1 = j + 1
    BY <1>3, <1>4 DEF OneAsked
  <2> QED BY <1>3, <2>1
<1>5. Asking' => Asking
  BY <1>3 DEF Asking
<1>6. ASSUME request = "match" PROVE Asking /\ ~Asking'
  <2>1. 1 \in DOMAIN toServer /\ toServer[1] = "match"
    BY <1>2, <1>6
  <2>2. ASSUME NEW i \in DOMAIN toServer', toServer'[i] = "match" PROVE FALSE
    <3>1. i + 1 = 1
      BY <1>3, <2>1, <2>2 DEF OneAsked
    <3> QED BY <1>3, <3>1
  <2> QED BY <2>1, <2>2 DEF Asking
<1> QED BY <1>4, <1>5, <1>6 DEF OneAsked

(* The messages on their way stay. *)
LEMMA GrownLast ==
  ASSUME TypeInv, Grown
  PROVE  /\ \A i \in DOMAIN fromServer : G(i)' = G(i) /\ (Last(i)' <=> Last(i))
         /\ \A i \in DOMAIN fromServer : i \in DOMAIN fromServer' /\ (i \in News' <=> i \in News)
         /\ \A i \in DOMAIN fromServer : i \in At("start")' <=> i \in At("start")
         /\ \A j \in DOMAIN fromServer' : j \notin DOMAIN fromServer => \A i \in DOMAIN fromServer : i < j
BY DEF Grown, Same, Last

(* Nothing is sent about a game. *)
LEMMA QuietServed ==
  ASSUME TypeInv, StreamInv, Quiet,
         fromServer' = fromServer \/ Send(<<Error>>),
         OneAsked', Asking' => Asking,
         waiting' => waiting \/ (Pending /\ link = "up" /\ At("start") = {} /\ ~Asking' /\ ~Hidden),
         live' \subseteq live, ~strayed', UNCHANGED <<untold, counter, clientRest>>
  PROVE  Quiet'
<1>1. UNCHANGED <<connected, link, net, board, current_screen, dialog, notices, shown, outcome, ui, seen>>
  BY DEF clientRest, screenVars, gameVars, uiVars
<1>2. /\ \A i \in DOMAIN fromServer : G(i)' = G(i) /\ (Last(i)' <=> Last(i)) /\ (i \in News' <=> i \in News)
      /\ \A i \in News' : i \in DOMAIN fromServer
      /\ At("start")' = At("start")
  <2>1. CASE fromServer' = fromServer
    BY <2>1 DEF G, Last, Final, News, At
  <2>2. CASE Send(<<Error>>)
    <3>1. Error \in Messages /\ Error.type = "error"
      BY DEF Error, Messages
    <3>2. /\ Grown
          /\ \A j \in DOMAIN fromServer' : j \notin DOMAIN fromServer => fromServer'[j] = Error
      BY <2>2, <3>1, SendsOne
    <3>3. \A j \in DOMAIN fromServer' : j \notin DOMAIN fromServer => j \notin News' /\ j \notin At("start")'
      BY <3>1, <3>2 DEF News, At
    <3>4. News' \subseteq DOMAIN fromServer' /\ At("start")' \subseteq DOMAIN fromServer'
          /\ At("start") \subseteq DOMAIN fromServer
      BY DEF News, At
    <3>5. \A i \in News' : i \in DOMAIN fromServer
      BY <3>3, <3>4
    <3>6. At("start")' = At("start")
      BY <3>2, <3>3, <3>4, GrownLast
    <3> QED BY <3>2, <3>5, <3>6, GrownLast
  <2> QED BY <2>1, <2>2
<1>3. News' = News /\ LastNews' = LastNews /\ \A i \in News : G(i)' = G(i)
  <2>1. News' = News
    BY <1>2 DEF News
  <2> QED BY <1>2, <2>1 DEF LastNews
<1>4. EndsOnce'
  <2>1. LastNews \subseteq News /\ At("start") \subseteq News
    BY AtNews DEF LastNews
  <2>2. \A i \in LastNews' : \A j \in News' : i < j => G(i)' < G(j)'
    BY <1>3, <2>1 DEF Quiet, EndsOnce
  <2>3. \A i \in LastNews' : G(i)' = shown' => Running' /\ net' # "ending"
    BY <1>1, <1>3, <2>1 DEF Quiet, EndsOnce, Running
  <2>4. \A i \in News' : \/ G(i)' = shown' \/ G(i)' \in untold'
                           \/ \E j \in At("start")' : j <= i /\ G(j)' = G(i)'
    BY <1>1, <1>2, <1>3, <2>1 DEF Quiet, EndsOnce
  <2> QED BY <1>1, <2>2, <2>3, <2>4 DEF Quiet, EndsOnce, Running, LastGame
<1>5. Hidden' => Hidden
  <2>1. (HiddenLive' => HiddenLive) /\ (HiddenNews' => HiddenNews) /\ (HiddenEnd' => HiddenEnd)
    BY <1>1, <1>3 DEF HiddenLive, HiddenNews, HiddenEnd, LastGame
  <2> QED BY <2>1, HiddenForm
<1>6. Unseen'
  <2>1. /\ Running' => Clear'
        /\ net' = "ending" /\ LastGame' \in untold' => News' = {} /\ live' = {}
    BY <1>1, <1>3 DEF Quiet, Unseen, Running, Clear, LastGame
  <2>2. /\ \A i \in At("start")' : \A g \in untold' : g < G(i)'
        /\ \A i \in News' : G(i)' \in untold' => G(i)' = counter'
    BY <1>2, <1>3, AtNews DEF Quiet, Unseen
  <2> QED BY <2>1, <2>2 DEF Unseen
<1>7. Pending' => Pending
  <2>1. Requested' => Requested \/ Pending
    BY <1>1 DEF Requested
  <2> QED BY <1>2, <1>5, <2>1, PendingForm
<1>8. OneRequest'
  <2>1. link' = "up" /\ Asking' => live' = {} /\ ~waiting' /\ At("start")' = {}
    BY <1>1, <1>2 DEF Quiet, OneRequest
  <2>2. link' = "up" /\ waiting' => At("start")' = {}
    BY <1>1, <1>2 DEF Quiet, OneRequest
  <2>3. \A i, j \in At("start")' : i = j
    BY <1>2 DEF Quiet, OneRequest
  <2>4. Hidden' => ~(link' = "up" /\ (waiting' \/ Asking')) /\ At("start")' = {}
    BY <1>1, <1>2, <1>5 DEF Quiet, OneRequest
  <2> QED BY <2>1, <2>2, <2>3, <2>4 DEF OneRequest
<1>9. OnScreen' /\ UiRests' /\ GhostRests' /\ LiveRuns'
  <2>1. OnScreen' /\ UiRests' /\ GhostRests'
    BY <1>1, <1>7, ScreenRests DEF Quiet, Running, Ghost
  <2> QED BY <1>1, <2>1 DEF Quiet, LiveRuns, Running
<1> QED BY <1>4, <1>8, <1>9, <1>6 DEF Quiet

(* A message about the live game g is sent. *)
LEMMA QuietSent ==
  ASSUME TypeInv, TypeInv', LinkInv, StreamInv, Quiet, link = "up", NEW g \in live,
         NEW m \in Messages, Send(<<m>>),
         \/ m.type = "move" /\ m.move.game = g
         \/ m.type \in {"resigned", "ended"} /\ m.game = g,
         OneAsked', Asking' => Asking,
         live' \subseteq live, ~strayed', UNCHANGED <<clientRest, waiting, untold, counter>>
  PROVE  Quiet'
<1>1. UNCHANGED <<connected, link, net, board, current_screen, dialog, notices, shown, outcome, ui, seen>>
      /\ connected
  BY DEF clientRest, screenVars, gameVars, uiVars, LinkInv
<1>2. /\ Grown /\ DOMAIN fromServer' = 1 .. (Len(fromServer) + 1)
      /\ fromServer'[Len(fromServer) + 1] = m
      /\ \A j \in DOMAIN fromServer' : j \notin DOMAIN fromServer => j = Len(fromServer) + 1
  BY SendsOne
<1>3. PICK k \in DOMAIN fromServer' : k = Len(fromServer) + 1 /\ k \notin DOMAIN fromServer /\ k \in Nat
  BY <1>2, StreamTypes
<1>4. k \in News' /\ k \notin At("start")' /\ G(k)' = g
  BY <1>2, <1>3 DEF News, At, G
<1>5. /\ \A j \in DOMAIN fromServer' : j \notin DOMAIN fromServer => j = k
      /\ \A i \in DOMAIN fromServer : i < k /\ i \in Nat
  BY <1>2, <1>3, StreamTypes
<1>6. /\ \A i \in DOMAIN fromServer : G(i)' = G(i) /\ (Last(i)' <=> Last(i))
      /\ \A i \in DOMAIN fromServer : i \in DOMAIN fromServer' /\ (i \in News' <=> i \in News)
      /\ \A i \in DOMAIN fromServer : i \in At("start")' <=> i \in At("start")
  BY <1>2, GrownLast
<1>7. /\ News \subseteq DOMAIN fromServer /\ At("start") \subseteq News /\ LastNews \subseteq News
      /\ News' \subseteq DOMAIN fromServer' /\ At("start")' \subseteq News' /\ LastNews' \subseteq News'
  BY AtNews DEF News, LastNews
<1>8. \A i \in News' : i = k \/ (i \in News /\ i < k /\ G(i)' = G(i))
  BY <1>5, <1>6, <1>7
<1>9. At("start")' = At("start")
  BY <1>4, <1>6, <1>7, <1>8
<1>10. \A i \in LastNews' : i = k \/ i \in LastNews
  BY <1>6, <1>7, <1>8 DEF LastNews
<1>11. OneGame /\ GamesInOrder /\ EndsLast /\ LiveInv /\ BoardInv /\ SavedInv
  BY DEF StreamInv, Quiet
<1>12. g = counter /\ counter \in Nat
  BY <1>11, StreamTypes DEF OneGame
<1>13. \A i \in LastNews : G(i) < g
  <2> TAKE i \in LastNews
  <2>1. G(i) # g
    BY <1>11, LastNotLive
  <2>2. G(i) <= counter /\ G(i) \in Nat
    BY <1>7, <1>11, StreamTypes DEF GamesInOrder
  <2> QED BY <1>12, <2>1, <2>2
<1>14. EndsOnce'
  <2>1. ASSUME NEW i \in LastNews', NEW j \in News', i < j PROVE G(i)' < G(j)'
    <3>1. i # k
      BY <1>3, <1>7, <1>8, <2>1, <1>5
    <3>2. i \in LastNews /\ G(i)' = G(i)
      BY <1>7, <1>8, <1>10, <3>1
    <3>3. CASE j = k
      BY <1>4, <1>13, <3>2, <3>3
    <3>4. CASE j # k
      BY <1>8, <2>1, <3>2, <3>4 DEF Quiet, EndsOnce
    <3> QED BY <3>3, <3>4
  <2>2. ASSUME NEW i \in LastNews', G(i)' = shown' PROVE Running' /\ net' # "ending"
    <3>1. CASE i \in LastNews
      <4>1. G(i) = shown
        BY <1>1, <1>6, <1>7, <2>2, <3>1
      <4> QED BY <1>1, <3>1, <4>1 DEF Quiet, EndsOnce, Running
    <3>2. CASE i = k
      <4>1. shown \in live
        BY <1>1, <1>4, <2>2, <3>2
      <4>2. Running /\ Clear
        BY <1>1, <4>1 DEF Quiet, LiveRuns, Unseen
      <4>3. net # "ending"
        BY <1>11, <4>1, <4>2 DEF SavedInv, BoardInv
      <4> QED BY <1>1, <4>3, <4>2 DEF Running
    <3> QED BY <1>10, <3>1, <3>2
  <2>3. ASSUME NEW i \in News', G(i)' # shown', G(i)' \notin untold'
        PROVE  \E j \in At("start")' : j <= i /\ G(j)' = G(i)'
    <3>1. CASE i = k
      <4>1. PICK s \in At("start") : StartLive(g, s)
        BY <1>1, <1>4, <1>11, <2>3, <3>1, LiveInvForms DEF ShownLive
      <4>2. s < k /\ s \in Nat /\ G(s)' = g
        BY <1>5, <1>6, <1>7, <4>1 DEF StartLive
      <4>3. s <= k
        BY <1>3, <4>2
      <4> QED BY <1>4, <1>9, <3>1, <4>2, <4>3
    <3>2. CASE i # k
      <4>1. i \in News /\ G(i)' = G(i) /\ G(i) # shown /\ G(i) \notin untold
        BY <1>1, <1>8, <2>3, <3>2
      <4>2. PICK j \in At("start") : j <= i /\ G(j) = G(i)
        BY <4>1 DEF Quiet, EndsOnce
      <4> QED BY <1>6, <1>7, <1>9, <4>1, <4>2
    <3> QED BY <3>1, <3>2
  <2> QED BY <1>1, <2>1, <2>2, <2>3 DEF Quiet, EndsOnce, Running, LastGame
<1>15. Hidden' => Hidden
  <2>1. (HiddenLive' => HiddenLive) /\ (HiddenEnd' => HiddenEnd)
    BY <1>1 DEF HiddenLive, HiddenEnd, LastGame
  <2>2. HiddenNews' => HiddenNews \/ HiddenLive
    BY <1>4, <1>8 DEF HiddenNews, HiddenLive
  <2> QED BY <2>1, <2>2, HiddenForm
<1>16. Unseen'
  <2>1. Running' => Clear'
    BY <1>1 DEF Quiet, Unseen, Running, Clear
  <2>2. \A i \in At("start")' : \A h \in untold' : h < G(i)'
    BY <1>6, <1>7, <1>9 DEF Quiet, Unseen
  <2>3. \A i \in News' : G(i)' \in untold' => G(i)' = counter'
    BY <1>4, <1>8, <1>12 DEF Quiet, Unseen
  <2>4. ~(net' = "ending" /\ LastGame' \in untold')
    BY <1>1 DEF Quiet, Unseen, LastGame
  <2> QED BY <2>1, <2>2, <2>3, <2>4 DEF Unseen
<1>17. Pending' => Pending
  <2>1. Requested' => Requested
    BY <1>1 DEF Requested
  <2> QED BY <1>9, <1>15, <2>1, PendingForm
<1>18. OneRequest'
  BY <1>1, <1>9, <1>15 DEF Quiet, OneRequest
<1>19. OnScreen' /\ UiRests' /\ GhostRests'
  BY <1>1, <1>17, ScreenRests DEF Quiet, Running, Ghost
<1>20. LiveRuns'
  BY <1>1 DEF Quiet, LiveRuns, Running
<1> QED BY <1>14, <1>18, <1>19, <1>20, <1>16 DEF Quiet

(* The start that was asked for is sent. *)
LEMMA QuietStarted ==
  ASSUME TypeInv, TypeInv', LinkInv, StreamInv, Quiet, link = "up", Pending, live = {}, At("start") = {},
         ~Hidden, StartGame(FALSE), ~crossed', waiting' = FALSE, OneAsked', ~Asking', ~strayed',
         UNCHANGED <<untold, clientRest>>
  PROVE  Quiet'
<1> DEFINE g == counter + 1
           m == StartOf(g, Lots[g])
<1>1. UNCHANGED <<connected, link, net, board, current_screen, dialog, notices, shown, outcome, ui, seen>>
  BY DEF clientRest, screenVars, gameVars, uiVars
<1>2. g \in GameIds /\ live' = live \cup {g} /\ Send(<<m>>)
  BY StartWrites DEF Starts
<1>3. m \in Messages /\ m.type = "start" /\ m.game = g
  BY <1>2, MadeTypes, SessionAssumption DEF StartOf
<1>4. counter \in Nat /\ g \in Nat /\ g > counter /\ Len(fromServer) \in Nat
  BY StreamTypes
<1> HIDE DEF g, m
<1>5. /\ Grown /\ DOMAIN fromServer' = 1 .. (Len(fromServer) + 1)
      /\ fromServer'[Len(fromServer) + 1] = m
      /\ \A j \in DOMAIN fromServer' : j \notin DOMAIN fromServer => j = Len(fromServer) + 1
  BY <1>2, <1>3, SendsOne
<1>6. PICK k \in DOMAIN fromServer' : k = Len(fromServer) + 1 /\ k \notin DOMAIN fromServer /\ k \in Nat
  BY <1>4, <1>5, StreamTypes
<1>7. k \in News' /\ k \in At("start")' /\ G(k)' = g /\ ~Last(k)'
  BY <1>3, <1>5, <1>6 DEF News, At, G, Last
<1>8. /\ \A j \in DOMAIN fromServer' : j \notin DOMAIN fromServer => j = k
      /\ \A i \in DOMAIN fromServer : i < k /\ i \in Nat
  BY <1>5, <1>6, StreamTypes
<1>9. /\ \A i \in DOMAIN fromServer : G(i)' = G(i) /\ (Last(i)' <=> Last(i))
      /\ \A i \in DOMAIN fromServer : i \in DOMAIN fromServer' /\ (i \in News' <=> i \in News)
      /\ \A i \in DOMAIN fromServer : i \in At("start")' <=> i \in At("start")
  BY <1>5, GrownLast
<1>10. /\ News \subseteq DOMAIN fromServer /\ LastNews \subseteq News
       /\ News' \subseteq DOMAIN fromServer' /\ At("start")' \subseteq News' /\ LastNews' \subseteq News'
  BY AtNews DEF News, LastNews
<1>11. \A i \in News' : i = k \/ (i \in News /\ i < k /\ G(i)' = G(i))
  BY <1>8, <1>9, <1>10
<1>12. \A i \in At("start")' : i = k
  BY <1>9, <1>10, <1>11
<1>13. \A i \in LastNews' : i \in LastNews
  BY <1>7, <1>9, <1>10, <1>11 DEF LastNews
<1>14. OneGame /\ GamesInOrder
  BY DEF StreamInv, Quiet
<1>15. \A i \in News : G(i) \in Nat /\ G(i) < g
  <2> TAKE i \in News
  <2>1. G(i) \in Nat /\ G(i) <= counter
    BY <1>14, StreamTypes DEF GamesInOrder
  <2> QED BY <1>4, <2>1
<1>16. shown # g
  BY <1>2, <1>4, <1>14, StreamTypes DEF OneGame
<1>17. EndsOnce'
  <2>1. ASSUME NEW i \in LastNews', NEW j \in News', i < j PROVE G(i)' < G(j)'
    <3>1. i \in LastNews /\ i \in News /\ G(i)' = G(i)
      BY <1>9, <1>10, <1>13
    <3>2. CASE j = k
      BY <1>7, <1>15, <3>1, <3>2
    <3>3. CASE j # k
      BY <1>11, <2>1, <3>1, <3>3 DEF Quiet, EndsOnce
    <3> QED BY <3>2, <3>3
  <2>2. ASSUME NEW i \in LastNews', G(i)' = shown' PROVE Running' /\ net' # "ending"
    <3>1. i \in LastNews /\ G(i) = shown
      BY <1>1, <1>9, <1>10, <1>13, <2>2
    <3> QED BY <1>1, <3>1 DEF Quiet, EndsOnce, Running
  <2>3. ASSUME NEW i \in News'
        PROVE  G(i)' = shown' \/ G(i)' \in untold' \/ \E j \in At("start")' : j <= i /\ G(j)' = G(i)'
    <3>1. CASE i = k
      <4>1. k <= k
        BY <1>6
      <4> QED BY <1>7, <3>1, <4>1
    <3>2. CASE i # k
      <4>1. i \in News /\ G(i)' = G(i)
        BY <1>11, <3>2
      <4> QED BY <1>1, <4>1 DEF Quiet, EndsOnce
    <3> QED BY <3>1, <3>2
  <2> QED BY <1>1, <2>1, <2>2, <2>3 DEF Quiet, EndsOnce, Running, LastGame
<1>18. g \notin untold /\ \A h \in untold : h \in Nat /\ h < g
  <2>1. \A h \in untold : h \in Nat /\ h <= counter
    BY <1>14, StreamTypes DEF OneGame
  <2> QED BY <1>4, <2>1
<1>19. \A i \in News' : G(i)' \notin untold'
  <2>1. \A i \in News : G(i) \notin untold
    BY HiddenForm DEF HiddenNews
  <2> QED BY <1>7, <1>11, <1>18, <2>1
<1>20. ~Hidden'
  <2>1. ~HiddenLive' /\ ~HiddenNews'
    BY <1>2, <1>18, <1>19 DEF HiddenLive, HiddenNews
  <2>2. ~HiddenEnd'
    BY <1>1, HiddenForm DEF HiddenEnd, LastGame
  <2> QED BY <2>1, <2>2, HiddenForm
<1>21. Unseen'
  <2>1. ~Running'
    BY <1>1 DEF Quiet, OnScreen, Running
  <2>2. \A i \in At("start")' : \A h \in untold' : h < G(i)'
    BY <1>7, <1>12, <1>18
  <2>3. ~(net' = "ending" /\ LastGame' \in untold')
    BY <1>20, HiddenForm DEF HiddenEnd
  <2> QED BY <1>19, <2>1, <2>2, <2>3 DEF Unseen
<1>22. OneRequest'
  BY <1>12, <1>20 DEF OneRequest
<1>23. OnScreen' /\ UiRests' /\ GhostRests'
  BY <1>1, ScreenRests DEF Quiet, Running, Ghost
<1>24. LiveRuns'
  BY <1>1, <1>2, <1>16 DEF LiveRuns
<1> QED BY <1>17, <1>22, <1>23, <1>24, <1>21 DEF Quiet

(* The client that waited is paired, and not told of it. *)
LEMMA QuietUntold ==
  ASSUME TypeInv, StreamInv, Quiet, link = "up", waiting, live = {},
         StartUntold, waiting' = FALSE, ~strayed', UNCHANGED <<toServer, clientRest>>
  PROVE  Quiet'
<1>1. UNCHANGED <<connected, link, net, board, current_screen, dialog, notices, shown, outcome, ui, seen>>
  BY DEF clientRest, screenVars, gameVars, uiVars
<1>2. PICK g \in GameIds : g = counter + 1
  BY UntoldWrites
<1>3. counter' = g /\ live' = {g} /\ untold' = untold \cup {g} /\ UNCHANGED fromServer
  BY <1>2, UntoldWrites
<1>4. UNCHANGED <<News, LastNews, At("start")>> /\ \A i \in News : G(i)' = G(i)
  BY <1>3 DEF News, LastNews, Last, Final, At, G
<1>5. Requested /\ Pending /\ ~Hidden /\ At("start") = {} /\ ~Asking /\ OneAsked /\ ~Running
  <2>1. Requested /\ Pending
    BY PendingForm DEF Requested
  <2> QED BY <2>1 DEF Quiet, OneRequest, OnScreen
<1>6. ~Requested' /\ ~Asking' /\ OneAsked' /\ ~Running'
  BY <1>1, <1>5 DEF Requested, Asking, OneAsked, Running
<1>7. \A i \in News' : G(i)' \notin untold'
  <2>1. \A i \in News : G(i) \notin untold
    BY <1>5, HiddenForm DEF HiddenNews
  <2>2. \A i \in News : G(i) \in Nat /\ G(i) <= counter /\ counter \in Nat
    BY StreamTypes DEF Quiet, StreamInv, GamesInOrder
  <2>3. \A i \in News : G(i) # g
    BY <1>2, <2>2
  <2> QED BY <1>3, <1>4, <2>1, <2>3
<1>8. net # "ending"
  <2>1. ~HiddenEnd
    BY <1>5, HiddenForm
  <2> QED BY <1>5, <2>1 DEF HiddenEnd, Quiet, EndsOnce
<1>9. Unseen' /\ EndsOnce'
  <2>1. Unseen'
    BY <1>1, <1>4, <1>5, <1>6, <1>7, <1>8 DEF Unseen
  <2>2. LastNews \subseteq News
    BY DEF LastNews
  <2>3. EndsOnce'
    BY <1>1, <1>3, <1>4, <1>5, <1>7, <1>8, <2>2 DEF Quiet, EndsOnce, HiddenNews
  <2> QED BY <2>1, <2>3
<1>10. OneRequest'
  BY <1>4, <1>5, <1>6 DEF OneRequest, Requested
<1>11. OnScreen' /\ UiRests' /\ GhostRests'
  BY <1>1, <1>5, ScreenRests DEF Quiet, Running, Ghost
<1>12. LiveRuns'
  <2>1. counter \in Nat /\ (shown # NoGame => shown \in Nat /\ shown <= counter) /\ g # NoGame
    <3>1. GameIds \subseteq Nat /\ counter \in Nat /\ (shown # NoGame => shown \in GameIds) /\ g # NoGame
      BY <1>2, StreamTypes
    <3> QED BY <3>1 DEF Quiet, StreamInv, OneGame
  <2>2. shown # g
    BY <1>2, <2>1
  <2> QED BY <1>1, <1>3, <2>2 DEF LiveRuns
<1> QED BY <1>9, <1>10, <1>11, <1>12 DEF Quiet

LEMMA QuietBroadcast ==
  ASSUME TypeInv, TypeInv', LinkInv, StreamInv, Quiet, link = "up", NEW g \in live, Broadcast(g),
         ~crossed, ~crossed', OneAsked', Asking' => Asking, UNCHANGED <<clientRest, waiting, strayed, self, untold, counter>>
  PROVE  Quiet'
<1>1. g \in GameIds /\ self = {} /\ sent[g] + 1 \in Nat
  BY StreamTypes DEF StreamInv, Quiet, OneGame
<1>2. PICK end \in Ends :
        /\ Send(Told(g, MoveOf(g, sent[g] + 1, end)))
        /\ live' = IF end = "playing" THEN live ELSE live \ {g}
  BY BroadcastWrites
<1>3. PICK m \in Messages : m = MoveOf(g, sent[g] + 1, end)
  BY <1>1, MadeTypes
<1>4. Send(<<m>>)
  BY <1>1, <1>2, <1>3 DEF Told
<1>5. m.type = "move" /\ m.move.game = g
  BY <1>3 DEF MoveOf
<1>6. live' \subseteq live /\ ~strayed'
  BY <1>2 DEF Quiet
<1> QED BY <1>4, <1>5, <1>6, QuietSent

LEMMA QuietServer ==
  ASSUME TypeInv, TypeInv', LinkInv, LinkInv', StreamInv, Quiet, ServerNext, ~crossed, ~crossed'
  PROVE  Quiet'
<1>1. CASE Connect
  <2>1. /\ UNCHANGED <<fromServer, toServer, current_screen, dialog, notices, shown, outcome, ui, seen, strayed>>
        /\ net' = "ping" /\ waiting' = FALSE /\ live' = {}
        /\ fromServer = <<>> /\ toServer = <<>>
    BY <1>1 DEF Connect, NetConnect, gameVars, screenVars, uiVars, LinkInv
  <2>2. ~Running'
    BY <1>1 DEF Connect, NetConnect, gameVars, LinkInv, Running
  <2>3. /\ News' = {} /\ At("start")' = {} /\ LastNews' = {} /\ ~Asking' /\ OneAsked'
    BY <2>1 DEF News, At, LastNews, Asking, OneAsked
  <2>4. ~Hidden'
    BY <2>1, <2>3, HiddenForm DEF HiddenLive, HiddenNews, HiddenEnd
  <2>5. ~Pending'
    BY <2>1, <2>3, <2>4, PendingForm DEF Requested
  <2>6. OneRequest' /\ LiveRuns' /\ EndsOnce' /\ Unseen'
    BY <2>1, <2>3, <2>2, <2>4 DEF OneRequest, LiveRuns, EndsOnce, Unseen
  <2>7. OnScreen' /\ UiRests' /\ GhostRests'
    BY <2>1, <2>5, ScreenRests DEF Quiet, Running, Ghost
  <2> QED BY <2>1, <2>6, <2>7 DEF Quiet
<1>2. CASE MatchGame
  <2>1. /\ Request("match") /\ strayed' = (strayed \/ waiting \/ live # {})
        /\ UNCHANGED untold
    BY <1>2 DEF MatchGame
  <2>2. link = "up" /\ UNCHANGED clientRest /\ OneAsked' /\ Asking /\ ~Asking'
    BY <2>1, AskingTaken DEF Request, Quiet, OneRequest
  <2>3. live = {} /\ ~waiting /\ At("start") = {} /\ ~Hidden
    BY <2>2 DEF Quiet, OneRequest
  <2>4. ~strayed'
    BY <2>1, <2>3 DEF Quiet
  <2>5. Pending
    BY <2>2, PendingForm DEF Requested
  <2>6. CASE StartGame(waiting) /\ waiting' = FALSE
    <3>1. waiting = FALSE
      BY <2>3 DEF TypeInv, SessionTypeOK
    <3>2. StartGame(FALSE)
      BY <2>6, <3>1
    <3> QED BY <2>1, <2>2, <2>3, <2>4, <2>5, <2>6, <3>2, QuietStarted
  <2>7. CASE UNCHANGED <<live, counter, fromServer>>
    BY <2>1, <2>2, <2>3, <2>4, <2>5, <2>7, QuietServed
  <2>8. CASE Send(<<[type |-> "error"]>>) /\ UNCHANGED <<waiting, live, counter>>
    <3>1. Send(<<Error>>)
      BY <2>8 DEF Error
    <3> QED BY <2>1, <2>2, <2>3, <2>4, <2>5, <2>8, <3>1, QuietServed
  <2> QED BY <1>2, <2>6, <2>7, <2>8 DEF MatchGame
<1>3. CASE Paired
  <2>1. /\ link = "up" /\ waiting /\ waiting' = FALSE
        /\ (StartGame(FALSE) /\ UNCHANGED untold) \/ StartUntold
        /\ UNCHANGED <<clientRest, toServer, strayed>>
    BY <1>3 DEF Paired
  <2>2. At("start") = {} /\ ~Asking /\ Pending /\ ~Hidden
    BY <2>1, PendingForm DEF Quiet, OneRequest, Requested
  <2>3. live = {}
    BY <2>1 DEF StreamInv, Quiet, OneGame
  <2>4. OneAsked' /\ ~Asking' /\ ~strayed'
    BY <2>1, <2>2 DEF Quiet, OneRequest, OneAsked, Asking
  <2> QED BY <2>1, <2>2, <2>3, <2>4, QuietStarted, QuietUntold
<1>4. CASE CancelMatch
  <2>1. /\ Request("cancel") /\ waiting' = FALSE /\ UNCHANGED <<fromServer, live, untold, counter, strayed>>
    BY <1>4 DEF CancelMatch
  <2>2. UNCHANGED clientRest /\ OneAsked' /\ (Asking' => Asking)
    BY <2>1, AskingTaken DEF Request, Quiet, OneRequest
  <2> QED BY <2>1, <2>2, QuietServed DEF Quiet
<1>5. CASE Move
  <2>1. /\ Request("move") /\ UNCHANGED <<waiting, self, untold, counter, strayed>>
    BY <1>5 DEF Move
  <2>2. link = "up" /\ UNCHANGED clientRest /\ OneAsked' /\ (Asking' => Asking)
    BY <2>1, AskingTaken DEF Request, Quiet, OneRequest
  <2>3. CASE UNCHANGED <<fromServer, live>>
    BY <2>1, <2>2, <2>3, QuietServed DEF Quiet
  <2>4. CASE \E g \in live : Broadcast(g)
    BY <2>1, <2>2, <2>4, QuietBroadcast
  <2> QED BY <1>5, <2>3, <2>4 DEF Move
<1>6. CASE OpponentMoves
  <2>1. link = "up" /\ UNCHANGED <<clientRest, toServer, waiting, self, untold, counter, strayed>>
    BY <1>6 DEF OpponentMoves
  <2>2. OneAsked' /\ (Asking' => Asking)
    BY <2>1 DEF Quiet, OneRequest, OneAsked, Asking
  <2>3. PICK g \in live : Broadcast(g) \/ Unanswered(g)
    BY <1>6 DEF OpponentMoves
  <2>4. CASE Broadcast(g)
    BY <2>1, <2>2, <2>4, QuietBroadcast
  <2>5. CASE Unanswered(g)
    <3>1. UNCHANGED <<fromServer, live>>
      BY <2>5, UnansweredWrites
    <3> QED BY <2>1, <2>2, <3>1, QuietServed DEF Quiet
  <2> QED BY <2>3, <2>4, <2>5
<1>7. ASSUME NEW g \in live, NEW m \in {ResignedOf(g), EndedOf(g)}, Send(Told(g, m)), live' = live \ {g},
             link = "up", OneAsked', Asking' => Asking, UNCHANGED <<clientRest, waiting, untold, counter, strayed>>
      PROVE  Quiet'
  <2>1. self = {} /\ g \in GameIds
    BY StreamTypes DEF StreamInv, Quiet, OneGame
  <2>2. Send(<<m>>) /\ m \in Messages
    BY <1>7, <2>1, MadeTypes DEF Told
  <2>3. m.type \in {"resigned", "ended"} /\ m.game = g
    BY DEF ResignedOf, EndedOf
  <2>4. ~strayed' /\ live' \subseteq live
    BY <1>7 DEF Quiet
  <2> QED BY <1>7, <2>2, <2>3, <2>4, QuietSent
<1>8. CASE Resign
  <2>1. /\ Request("resign") /\ UNCHANGED <<waiting, untold, counter, strayed>>
    BY <1>8 DEF Resign
  <2>2. link = "up" /\ UNCHANGED clientRest /\ OneAsked' /\ (Asking' => Asking)
    BY <2>1, AskingTaken DEF Request, Quiet, OneRequest
  <2>3. CASE Send(<<[type |-> "error"]>>) /\ UNCHANGED live
    <3>1. Send(<<Error>>)
      BY <2>3 DEF Error
    <3> QED BY <2>1, <2>2, <2>3, <3>1, QuietServed DEF Quiet
  <2>4. CASE \E g \in live : Send(Told(g, ResignedOf(g))) /\ live' = live \ {g}
    BY <1>7, <2>1, <2>2, <2>4
  <2> QED BY <1>8, <2>3, <2>4 DEF Resign, ResignedOf
<1>9. CASE GameEnds
  <2>1. link = "up" /\ UNCHANGED <<clientRest, toServer, waiting, untold, counter, strayed>>
    BY <1>9 DEF GameEnds
  <2>2. PICK g \in live : \E m \in {ResignedOf(g), EndedOf(g)} : Send(Told(g, m)) /\ live' = live \ {g}
    BY <1>9 DEF GameEnds, ResignedOf, EndedOf
  <2>3. OneAsked' /\ (Asking' => Asking)
    BY <2>1 DEF Quiet, OneRequest, OneAsked, Asking
  <2> QED BY <1>7, <2>1, <2>2, <2>3
<1> QED BY <1>1, <1>2, <1>3, <1>4, <1>5, <1>6, <1>8, <1>9 DEF ServerNext

LEMMA QuietInvStep ==
  ASSUME TypeInv, TypeInv', LinkInv, LinkInv', StreamInv, QuietInv, [Next]_vars
  PROVE  QuietInv'
<1> SUFFICES ASSUME ~wandered', ~crossed' PROVE Quiet'
  BY DEF QuietInv
<1>1. CASE UNCHANGED vars
  <2>1. Quiet
    BY <1>1 DEF QuietInv, vars, serverVars
  <2>2. UNCHANGED <<clientVars, serverVars>>
    BY <1>1 DEF vars
  <2>3. Hidden' <=> Hidden
    BY <2>2, HiddenForm DEF HiddenLive, HiddenNews, HiddenEnd, News, G, LastGame,
       clientVars, linkVars, gameVars, serverVars
  <2>4. Unseen'
    BY <2>1, <2>2 DEF Quiet, Unseen, Running, Clear, News, At, G, LastGame,
       clientVars, linkVars, gameVars, serverVars
  <2>5. OneRequest' /\ EndsOnce' /\ LiveRuns' /\ ~strayed'
    BY <2>1, <2>2, <2>3
    DEF Quiet, OneRequest, OneAsked, LiveRuns, EndsOnce, Asking, Running, LastNews, Last,
        LastGame, News, At, G, Final, clientVars, linkVars, gameVars, serverVars
  <2>6. (Pending' <=> Pending) /\ (Running' <=> Running) /\ (Ghost' <=> Ghost)
        /\ UNCHANGED <<current_screen, ui, seen>>
    BY <2>2, <2>3, PendingForm DEF Requested, Asking, At, Running, Ghost,
       clientVars, linkVars, screenVars, gameVars, serverVars
  <2>7. OnScreen' /\ UiRests' /\ GhostRests'
    BY <2>1, <2>6, ScreenRests DEF Quiet
  <2> QED BY <2>5, <2>7, <2>4 DEF Quiet
<1>2. CASE UiNext /\ UiHistory
  <2>1. ~wandered /\ ~crossed
    BY <1>2, ScreenLeft DEF UiHistory, serverVars
  <2> QED BY <1>2, <2>1, QuietUi DEF QuietInv
<1>3. CASE NetNext /\ Rest
  BY <1>3, QuietNet DEF QuietInv, Rest, serverVars
<1>4. CASE ServerNext /\ UNCHANGED wandered
  <2>1. ~crossed
    <3>1. \/ UNCHANGED crossed \/ \E g \in live : Broadcast(g) \/ Unanswered(g)
          \/ StartGame(waiting) \/ StartGame(FALSE) \/ StartUntold
      BY <1>4 DEF ServerNext, Connect, MatchGame, Paired, CancelMatch, Move, OpponentMoves, Resign, GameEnds
    <3>2. \A g \in live : Broadcast(g) \/ Unanswered(g) => crossed' = crossed \/ crossed' = TRUE
      BY DEF Broadcast, Unanswered
    <3>3. StartGame(waiting) \/ StartGame(FALSE) \/ StartUntold => crossed' = crossed \/ crossed' = TRUE
      BY DEF StartGame, StartUntold
    <3> QED BY <3>1, <3>2, <3>3
  <2>2. Quiet
    BY <1>4, <2>1 DEF QuietInv
  <2> QED BY <1>4, <2>1, <2>2, QuietServer
<1> QED BY <1>1, <1>2, <1>3, <1>4 DEF Next

LEMMA QuietInvInit == Init => QuietInv
<1> SUFFICES ASSUME Init PROVE Quiet
  BY DEF QuietInv
<1>1. /\ News = {} /\ At("start") = {} /\ LastNews = {} /\ ~Asking /\ OneAsked
      /\ link # "up" /\ ~connected /\ net = "loop" /\ ~Running /\ ~Ghost /\ ui = "show" /\ ~strayed
  BY DEF Init, InitClient, News, At, LastNews, Asking, OneAsked, Running, Ghost, Ghosts
<1>2. ~Hidden
  BY <1>1, HiddenForm DEF HiddenLive, HiddenNews, HiddenEnd
<1>3. ~Pending
  BY <1>1, <1>2, PendingForm DEF Requested
<1> QED
  BY <1>1, <1>2, <1>3 DEF Quiet, OnScreen, OneRequest, UiRests, GhostRests, LiveRuns, EndsOnce,
     Unseen

(* No dialog of a game that has ended is laid over a running one, as long  *)
(* as the user leaves neither a running game nor a pending request: what   *)
(* NoGhostDialog says of the order of the UI loop (client/main.c).         *)
THEOREM NoGhosts == Spec => []NoGhostDialog
<1>1. QuietInv => NoGhostDialog
  BY DEF QuietInv, Quiet, GhostRests, Ghost, Ghosts, NoGhostDialog
<1>2. Init => LinkInv
  BY DEF Init, InitClient, LinkInv, Running
<1> QED
  BY <1>1, <1>2, TypeInvInit, TypeInvStep, LinkInvStep, StreamInvInit, StreamInvStep,
     QuietInvInit, QuietInvStep, PTL DEF Spec
=============================================================================
