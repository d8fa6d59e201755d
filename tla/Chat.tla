-------------------------------- MODULE Chat --------------------------------
(***************************************************************************)
(* The chat of one game: the input line and the list of messages of each   *)
(* client (client/ui/chat.c, client/main.c, client/game_state.c), and the  *)
(* relay in the server (server/handlers/chat.c), which sends a line to     *)
(* white, then to black, and gives up at the first failure.                *)
(*                                                                         *)
(* A line is known by who wrote it and its number; its text is the length  *)
(* of what has been typed.  A line that no player sent (an error, a notice, *)
(* the draw nobody is offered) is Local.  The dialogs over the game screen *)
(* and the cursor on the board are left out.                               *)
(***************************************************************************)
EXTENDS Naturals, Sequences, SequencesExt

CONSTANTS MAX_CHAT_MESSAGES,  \* lines a client keeps
          MaxText,            \* characters the input line holds
          MaxLines            \* bound: lines the players write

ASSUME ChatAssumption ==
  /\ MAX_CHAT_MESSAGES \in Nat \ {0}
  /\ MaxText \in Nat \ {0}
  /\ MaxLines \in Nat

VARIABLES up,          \* [Players -> BOOLEAN], the player's connection
          input,       \* [Players -> Inputs], chat_input_mode and the cursor
          chat,        \* [Players -> Seq(Lines)], chat_messages
          toServer,    \* [Players -> Seq(Lines)], on their way
          fromServer,  \* [Players -> Seq(Lines)]
          live,        \* the game is in the server's table
          relay        \* the line the handler has sent to white, not yet to black

VARIABLES written,     \* history: lines the players sent, as they sent them
          relayed      \* history: lines the server took up, in order

clientVars == <<input, chat, written>>
serverVars == <<live, relay, relayed>>
wireVars   == <<up, toServer, fromServer>>
vars       == <<clientVars, serverVars, wireVars>>

Players == {"white", "black"}
Other(p) == IF p = "white" THEN "black" ELSE "white"
Spoken  == [by : Players, no : 1 .. MaxLines]
Local   == [by |-> "local", no |-> 0]
Lines   == Spoken \cup {Local}
Off     == [mode |-> FALSE, cursor |-> 0]
Inputs  == {Off} \cup [mode : {TRUE}, cursor : 0 .. MaxText]
NoLine  == [by |-> "nobody", no |-> 0]

Init ==
  /\ up = [p \in Players |-> TRUE]
  /\ input = [p \in Players |-> Off]
  /\ chat = [p \in Players |-> <<>>]
  /\ toServer = [p \in Players |-> <<>>]
  /\ fromServer = [p \in Players |-> <<>>]
  /\ live = TRUE
  /\ relay = NoLine
  /\ written = <<>>
  /\ relayed = <<>>

-----------------------------------------------------------------------------
(* The list of a client.                                                   *)

(* Mutant: a full list is not moved up, its last line is overwritten. *)
WithLineOver(list, line) ==
  Append(IF Len(list) >= MAX_CHAT_MESSAGES THEN SubSeq(list, 1, MAX_CHAT_MESSAGES - 1) ELSE list, line)

(* add_chat_message: a full list drops its oldest line. *)
WithLine(list, line) ==
  Append(IF Len(list) >= MAX_CHAT_MESSAGES THEN Tail(list) ELSE list, line)

AddChat(p, line) == chat' = [chat EXCEPT ![p] = WithLine(@, line)]

-----------------------------------------------------------------------------
(* The input line.  A player who leaves the game screen types no more.     *)

Typing(p) == input[p].mode
SetInput(p, i) == input' = [input EXCEPT ![p] = i]

(* Enter opens it, ... *)
EnableChatInput(p) ==
  /\ ~input[p].mode
  /\ SetInput(p, [mode |-> TRUE, cursor |-> 0])
  /\ UNCHANGED <<chat, written, serverVars, wireVars>>

(* ... printable characters fill it, and backspace takes them back; ... *)
EditChatInput(p) ==
  /\ Typing(p)
  /\ \/ input[p].cursor < MaxText /\ SetInput(p, [input[p] EXCEPT !.cursor = @ + 1])
     \/ input[p].cursor > 0 /\ SetInput(p, [input[p] EXCEPT !.cursor = @ - 1])
  /\ UNCHANGED <<chat, written, serverVars, wireVars>>

(* ... ESC closes it, and so does Enter when it is empty or holds a        *)
(* "move:", which is not a line of chat.                                   *)
DisableChatInput(p) ==
  /\ Typing(p)
  /\ SetInput(p, Off)
  /\ UNCHANGED <<chat, written, serverVars, wireVars>>

(* Enter on a text: send_chat_message.  The line is not put into the       *)
(* writer's own list, it comes back from the server.  On a lost connection *)
(* it vanishes, or the client knows and says so.                           *)
SendChatMessage(p) ==
  /\ Typing(p) /\ input[p].cursor > 0
  /\ SetInput(p, Off)
  /\ \/ /\ up[p]
        /\ Len(written) < MaxLines
        /\ LET line == [by |-> p, no |-> Len(written) + 1]
           IN /\ written' = Append(written, line)
              /\ toServer' = [toServer EXCEPT ![p] = Append(@, line)]
        /\ UNCHANGED chat
     \/ /\ ~up[p]
        /\ AddChat(p, Local) \/ UNCHANGED chat
        /\ UNCHANGED <<written, toServer>>
  /\ UNCHANGED <<up, fromServer, serverVars>>

(* '1' to '4' and 'q' are commands, while a line is being typed too.  Only *)
(* '2' adds a line: an offer of a draw in the player's own list, and       *)
(* nowhere else.                                                           *)
OfferDraw(p) ==
  /\ AddChat(p, Local)
  /\ UNCHANGED <<input, written, serverVars, wireVars>>

(* handle_chat_broadcast, and the handlers that write a line of their own. *)
ReceiveLine(p) ==
  /\ up[p]
  /\ fromServer[p] # <<>>
  /\ AddChat(p, Head(fromServer[p]))
  /\ fromServer' = [fromServer EXCEPT ![p] = Tail(@)]
  /\ UNCHANGED <<input, written, serverVars, up, toServer>>

-----------------------------------------------------------------------------
(* The server.                                                             *)

Idle == relay = NoLine
Sent(inboxes, p, line) == IF up[p] THEN [inboxes EXCEPT ![p] = Append(@, line)] ELSE inboxes

(* send_error_response, for a handler that returned -1. *)
Refused(p) == fromServer' = Sent(fromServer, p, Local)

Take(p) ==
  /\ Idle
  /\ toServer[p] # <<>>
  /\ toServer' = [toServer EXCEPT ![p] = Tail(@)]

(* find_game_by_player_fd finds no game: an error. *)
ChatWithoutGame(p) ==
  /\ Take(p)
  /\ ~live
  /\ Refused(p)
  /\ UNCHANGED <<clientVars, up, serverVars>>

(* The line goes to white; if that fails, to nobody. *)
ChatToWhite(p) ==
  /\ Take(p)
  /\ live
  /\ LET line == Head(toServer[p])
     IN /\ relayed' = Append(relayed, line)
        /\ \/ relay' = line /\ fromServer' = Sent(fromServer, "white", line)
           \/ ~up["white"] /\ Refused(p) /\ UNCHANGED relay
  /\ UNCHANGED <<clientVars, up, live>>

(* Mutant: the second line is sent to its writer. *)
ChatBackToWriter ==
  /\ ~Idle
  /\ relay' = NoLine
  /\ \/ fromServer' = Sent(fromServer, relay.by, relay)
     \/ ~up["black"] /\ Refused(relay.by)
  /\ UNCHANGED <<clientVars, up, toServer, live, relayed>>

(* ... and then to black, whatever has become of the game meanwhile. *)
ChatToBlack ==
  /\ ~Idle
  /\ relay' = NoLine
  /\ \/ fromServer' = Sent(fromServer, "black", relay)
     \/ ~up["black"] /\ Refused(relay.by)
  /\ UNCHANGED <<clientVars, up, toServer, live, relayed>>

(* A connection breaks: what was on its way to the client is lost, what it *)
(* had sent may still be read.                                             *)
Lose(p) ==
  /\ up[p]
  /\ up' = [up EXCEPT ![p] = FALSE]
  /\ fromServer' = [fromServer EXCEPT ![p] = <<>>]
  /\ \E n \in 0 .. Len(toServer[p]) : toServer' = [toServer EXCEPT ![p] = SubSeq(@, 1, n)]
  /\ UNCHANGED <<clientVars, serverVars>>

(* handle_player_disconnect: the other player is told. *)
LossNoticed(p) ==
  /\ Idle
  /\ ~up[p] /\ toServer[p] = <<>> /\ live
  /\ live' = FALSE
  /\ fromServer' = Sent(fromServer, Other(p), Local)
  /\ UNCHANGED <<clientVars, up, toServer, relay, relayed>>

(* The timer thread ends the game, in the middle of the relay too. *)
GameEnds ==
  /\ live
  /\ live' = FALSE
  /\ fromServer' = Sent(Sent(fromServer, "white", Local), "black", Local)
  /\ UNCHANGED <<clientVars, up, toServer, relay, relayed>>

Server == ChatToBlack \/ \E p \in Players : ChatWithoutGame(p) \/ ChatToWhite(p) \/ LossNoticed(p)

Next ==
  \/ \E p \in Players :
       \/ EnableChatInput(p) \/ EditChatInput(p) \/ DisableChatInput(p)
       \/ SendChatMessage(p) \/ OfferDraw(p)
       \/ ReceiveLine(p)
       \/ Lose(p)
  \/ Server
  \/ GameEnds

Spec == Init /\ [][Next]_vars

(* The server comes to every line (event_loop takes all connections that   *)
(* are ready in turn) and the network threads to all they are sent.        *)
FairSpec ==
  /\ Spec
  /\ WF_vars(ChatToBlack)
  /\ \A p \in Players : SF_vars(ChatToWhite(p) \/ ChatWithoutGame(p)) /\ WF_vars(ReceiveLine(p))

-----------------------------------------------------------------------------
(* The lines the server has taken up and, if p is still there, sent to p.  *)
Relayed(p) == IF p = "black" /\ ~Idle THEN SubSeq(relayed, 1, Len(relayed) - 1) ELSE relayed

(* Both players see one conversation: what a player has been sent, on the  *)
(* way or in the list, are lines the server took up, in that order and     *)
(* none twice, and the server took up each writer's lines in the order     *)
(* they were written.  No line is missing but the oldest, and these only   *)
(* from a list that is full.  Only when white's connection is lost does    *)
(* black miss others (handle_chat_message returns when the send to white   *)
(* fails).                                                                 *)
SameConversation ==
  /\ \A p \in Players : up[p] =>
       LET list == chat[p] \o fromServer[p]
           said == {i \in DOMAIN list : list[i] \in Spoken}
       IN \E at \in [said -> DOMAIN Relayed(p)] :
            /\ \A i \in said : list[i] = Relayed(p)[at[i]]
            /\ \A i, j \in said : i < j => at[i] < at[j]
            /\ up["white"] =>
                 \A k \in DOMAIN Relayed(p) :
                   \/ \E i \in said : at[i] = k
                   \/ Len(chat[p]) = MAX_CHAT_MESSAGES /\ \A i \in said : k < at[i]
  /\ \A k, l \in DOMAIN relayed :
       k < l /\ relayed[k].by = relayed[l].by => relayed[k].no < relayed[l].no

(* A line that has been sent comes back to both players' lists, as long as *)
(* both are connected and the game goes on.                                *)
ChatArrives ==
  [](live /\ \A p \in Players : up[p]) =>
    \A line \in Spoken : \A p \in Players :
      (line \in Range(toServer[line.by])) ~> (line \in Range(chat[p]))
=============================================================================
