------------------------------- MODULE Replay -------------------------------
(***************************************************************************)
(* Game records and their replay: write_pgn (client/pgn_save.c), the menu  *)
(* that chooses a file (client/ui/replay_menu.c) and the replay itself     *)
(* (client/replay.c), which runs on the UI thread and rebuilds             *)
(* g_game_state->game, the very board on which the network thread plays.   *)
(* Neither thread takes a lock the other one needs: the rebuilding is cut  *)
(* at the reset and at every move, and a write of the network thread has a *)
(* beginning and an end, with anything of the other thread between them.   *)
(*                                                                         *)
(* A file is a sequence of what its readers tell apart: a tag line, the    *)
(* empty line, a move number ("1.", known by its dot), a move ("e2e4"),    *)
(* and a word that is none, such as the "1-0" other programs put at the    *)
(* end.  A position is the sequence of moves applied since the reset.      *)
(***************************************************************************)
EXTENDS Integers, Sequences, SequencesExt, FiniteSets

CONSTANTS Moves,          \* moves, as from and to squares
          MAX_PGN_MOVES,  \* moves the client records
          MAX_MOVES,      \* moves the replay reads; 512 both
          Names,          \* bound: names of saved files, one for every second
          Foreign,        \* files of other programs, by name
          MaxPlies        \* bound: moves of a game

Tag    == [kind |-> "tag"]
Empty  == [kind |-> "empty"]
Number == [kind |-> "number"]
Word   == [kind |-> "word"]
Move(m) == [kind |-> "move", move |-> m]
Words  == {Tag, Empty, Number, Word} \cup {Move(m) : m \in Moves}

ASSUME ReplayAssumption ==
  /\ MAX_PGN_MOVES \in Nat
  /\ MAX_MOVES \in Nat
  /\ MAX_PGN_MOVES <= MAX_MOVES
  /\ MaxPlies \in Nat
  /\ Names \cap DOMAIN Foreign = {}
  /\ IsFiniteSet(DOMAIN Foreign)
  /\ \A name \in DOMAIN Foreign : Foreign[name] \in Seq(Words)

VARIABLES pgn_moves,  \* the moves recorded in the current game
          board,      \* game_state.game
          files,      \* the replays directory: a function on names
          ui,         \* where the UI thread is: main, the two menus, the replay
          listing,    \* the file names on display, in the order of readdir
          highlight,  \* the one marked, counted from 0
          state,      \* replay_state_t: moves, current_move, auto_play, and whether
                      \* half a second has passed since last_auto_play_time
          place,      \* where the replay is in its loop: at the test for auto-play,
                      \* at getch, before the reset, or among the moves to apply
          next,       \* the next one to apply, counted from 0
          net         \* what the network thread is writing on the board

VARIABLES records,    \* history: what was recorded when a file was saved
          touched     \* history: the network thread has written on the board since
                      \* the replay last began to set it back

gameVars == <<pgn_moves, files, records>>
menuVars == <<listing, highlight>>
loopVars == <<ui, state, place, next>>
vars     == <<gameVars, menuVars, loopVars, board, net, touched>>

Idle  == [kind |-> "idle"]
Start == [kind |-> "start"]

ReplayOf(moves) == [moves |-> moves, current |-> -1, auto_play |-> FALSE, due |-> FALSE]
NoReplay        == ReplayOf(<<>>)

Init ==
  /\ pgn_moves = <<>>
  /\ board = <<>>
  /\ files = Foreign
  /\ ui = "main"
  /\ listing = <<>>
  /\ highlight = 0
  /\ state = NoReplay
  /\ place = "auto"
  /\ next = 0
  /\ net = Idle
  /\ records = <<>>
  /\ touched = FALSE

-----------------------------------------------------------------------------
(* Writing and reading a file.                                             *)

(* Mutant: no space after the number, which makes it one word with the     *)
(* move.                                                                   *)
WritePgnGlued(moves) ==
  <<Tag, Empty>> \o
  FlattenSeq([i \in DOMAIN moves |-> IF i % 2 = 1 THEN <<Number>> ELSE <<Move(moves[i])>>])

(* write_pgn: the tags, an empty line, and a number before every second    *)
(* move.                                                                   *)
WritePgn(moves) ==
  <<Tag, Empty>> \o
  FlattenSeq([i \in DOMAIN moves |-> IF i % 2 = 1 THEN <<Number, Move(moves[i])>> ELSE <<Move(moves[i])>>])

(* What is left of a file after the first empty line; nothing, if it has   *)
(* none.                                                                   *)
AfterHeader(file) ==
  LET ends == {i \in DOMAIN file : file[i] = Empty}
  IN IF ends = {} THEN <<>>
     ELSE SubSeq(file, (CHOOSE i \in ends : \A j \in ends : i <= j) + 1, Len(file))

FirstOf(n, seq) == SubSeq(seq, 1, IF Len(seq) < n THEN Len(seq) ELSE n)

(* The words of these kinds, one after another. *)
Those(words, kinds) ==
  FlattenSeq([i \in DOMAIN words |-> IF words[i].kind \in kinds THEN <<words[i]>> ELSE <<>>])

(* load_moves: the words after the header that have no dot in them.        *)
LoadMoves(file) == FirstOf(MAX_MOVES, Those(AfterHeader(file), {"move", "word"}))

(* apply_move_from_server on what is a move; the rest is passed over.      *)
Applied(words) ==
  LET moves == Those(words, {"move"})
  IN [i \in DOMAIN moves |-> moves[i].move]

-----------------------------------------------------------------------------
(* The network thread.                                                     *)

(* handle_match_game_response and handle_move_broadcast begin to write on  *)
(* the board, wherever the UI thread is.                                   *)
NetBegins(what) ==
  /\ net = Idle
  /\ what # Start => Len(board) < MaxPlies
  /\ net' = what
  /\ UNCHANGED <<gameVars, menuVars, loopVars, board, touched>>

(* A game has started: board and record are set back. *)
NetStart ==
  /\ net = Start
  /\ board' = <<>>
  /\ pgn_moves' = <<>>
  /\ net' = Idle
  /\ touched' = (ui = "replay")
  /\ UNCHANGED <<files, records, menuVars, loopVars>>

(* A move has been applied to the board, whatever was on it, and recorded  *)
(* unless it repeats the last one or the table is full.                    *)
NetMove(m) ==
  /\ net = Move(m)
  /\ board' = Append(board, m)
  /\ pgn_moves' = IF Len(pgn_moves) < MAX_PGN_MOVES /\ (pgn_moves = <<>> \/ Last(pgn_moves) # m)
                  THEN Append(pgn_moves, m) ELSE pgn_moves
  /\ net' = Idle
  /\ touched' = (touched \/ ui = "replay")
  /\ UNCHANGED <<files, records, menuVars, loopVars>>

(* save_current_game, at the end of a game or by key: the name is the time *)
(* of day, and a second save in the same second replaces the first.        *)
Save(name) ==
  /\ pgn_moves # <<>>
  /\ files' = [n \in DOMAIN files \cup {name} |-> IF n = name THEN WritePgn(pgn_moves) ELSE files[n]]
  /\ records' = [n \in DOMAIN records \cup {name} |-> IF n = name THEN pgn_moves ELSE records[n]]
  /\ UNCHANGED <<pgn_moves, menuVars, loopVars, board, net, touched>>

-----------------------------------------------------------------------------
(* The menus.                                                              *)

(* '2' on the main screen: replay_menu asks for a name. *)
ReplayMenu ==
  /\ ui = "main"
  /\ ui' = "name"
  /\ UNCHANGED <<gameVars, menuVars, state, place, next, board, net, touched>>

(* The board is about to be set back, and the moves of the replay applied  *)
(* up to its mark: replay_to_move, from its first line.                    *)
Rebuild(replay) ==
  /\ state' = replay
  /\ place' = "reset"
  /\ touched' = FALSE
  /\ UNCHANGED <<next, board>>

(* start_replay: a file without moves leads back, any other to its start.  *)
StartReplay(name) ==
  LET moves == LoadMoves(files[name])
  IN IF moves = <<>>
     THEN ui' = "main" /\ UNCHANGED <<state, place, next, board, touched>>
     ELSE ui' = "replay" /\ Rebuild(ReplayOf(moves))

(* A name and Enter; the extension is added if need be.  A name that no    *)
(* file has is refused, and the menu stays.                                *)
NameEntered(name) ==
  /\ ui = "name"
  /\ name \in DOMAIN files
  /\ StartReplay(name)
  /\ UNCHANGED <<gameVars, menuVars, net>>

(* No name: show_replay_files lists what is there, in some order.          *)
ShowReplayFiles ==
  /\ ui = "name"
  /\ IF DOMAIN files = {}
     THEN ui' = "main" /\ UNCHANGED menuVars
     ELSE /\ ui' = "list"
          /\ listing' = SetToSeq(DOMAIN files)
          /\ highlight' = 0
  /\ UNCHANGED <<gameVars, state, place, next, board, net, touched>>

(* The arrow keys go round the list. *)
ListUp ==
  /\ ui = "list"
  /\ highlight' = (highlight + Len(listing) - 1) % Len(listing)
  /\ UNCHANGED <<gameVars, listing, loopVars, board, net, touched>>

ListDown ==
  /\ ui = "list"
  /\ highlight' = (highlight + 1) % Len(listing)
  /\ UNCHANGED <<gameVars, listing, loopVars, board, net, touched>>

ListEntered ==
  /\ ui = "list"
  /\ StartReplay(listing[highlight + 1])
  /\ UNCHANGED <<gameVars, menuVars, net>>

(* ESC in a menu; q, ESC or a signal at the getch of the replay, whose     *)
(* board stays as it is.                                                   *)
Leave ==
  /\ ui \in {"name", "list"} \/ (ui = "replay" /\ place = "keys")
  /\ ui' = "main"
  /\ state' = NoReplay
  /\ place' = "auto"
  /\ touched' = FALSE
  /\ UNCHANGED <<gameVars, menuVars, next, board, net>>

-----------------------------------------------------------------------------
(* The replay: replay_to_move, which nothing keeps apart from the writes   *)
(* of the network thread,                                                  *)

(* Mutant: the board is not set back first. *)
NoReset ==
  /\ ui = "replay" /\ place = "reset"
  /\ place' = "apply"
  /\ next' = 0
  /\ UNCHANGED <<gameVars, menuVars, ui, state, board, net, touched>>

ResetBoard ==
  /\ ui = "replay" /\ place = "reset"
  /\ board' = <<>>
  /\ place' = "apply"
  /\ next' = 0
  /\ UNCHANGED <<gameVars, menuVars, ui, state, net, touched>>

ApplyNext ==
  /\ ui = "replay" /\ place = "apply" /\ next <= state.current
  /\ board' = board \o Applied(<<state.moves[next + 1]>>)
  /\ next' = next + 1
  /\ UNCHANGED <<gameVars, menuVars, ui, state, place, net, touched>>

(* Back in the loop: a step of auto-play stamps the time and goes on to    *)
(* getch, a step by key to the loop's head.                                *)
Rebuilt ==
  /\ ui = "replay" /\ place = "apply" /\ next > state.current
  /\ place' = IF state.auto_play THEN "keys" ELSE "auto"
  /\ state' = [state EXCEPT !.due = FALSE]
  /\ next' = 0
  /\ UNCHANGED <<gameVars, menuVars, ui, board, net, touched>>

(* and its loop.                                                           *)

LastMove == Len(state.moves) - 1

GoTo(n, auto) ==
  /\ Rebuild([state EXCEPT !.current = n, !.auto_play = auto])
  /\ UNCHANGED <<gameVars, menuVars, ui, net>>

(* The head of the loop: half a second after the last step the next one.   *)
MayStep == state.auto_play /\ state.current < LastMove /\ state.due

AutoPlay ==
  /\ ui = "replay" /\ place = "auto" /\ MayStep
  /\ GoTo(state.current + 1, TRUE)

NoAutoPlay ==
  /\ ui = "replay" /\ place = "auto" /\ ~MayStep
  /\ place' = "keys"
  /\ UNCHANGED <<gameVars, menuVars, ui, state, next, board, net, touched>>

(* The keys, at getch. *)
AtKeys == ui = "replay" /\ place = "keys"

StepBack    == AtKeys /\ state.current >= 0 /\ GoTo(state.current - 1, FALSE)
StepForward == AtKeys /\ state.current < LastMove /\ GoTo(state.current + 1, FALSE)

(* Space: the half second begins. *)
ToggleAutoPlay ==
  /\ AtKeys
  /\ state' = [state EXCEPT !.auto_play = ~@, !.due = FALSE]
  /\ place' = "auto"
  /\ UNCHANGED <<gameVars, menuVars, ui, next, board, net, touched>>

(* Mutant: the time is stamped in every round. *)
StampedEveryRound ==
  /\ AtKeys
  /\ state' = [state EXCEPT !.due = FALSE]
  /\ place' = "auto"
  /\ UNCHANGED <<gameVars, menuVars, ui, next, board, net, touched>>

(* getch times out after 50 ms, or the key means nothing. *)
NoKey ==
  /\ AtKeys
  /\ place' = "auto"
  /\ UNCHANGED <<gameVars, menuVars, ui, state, next, board, net, touched>>

(* Half a second has gone by since last_auto_play_time. *)
HalfSecond ==
  /\ ui = "replay" /\ state.auto_play /\ ~state.due
  /\ state' = [state EXCEPT !.due = TRUE]
  /\ UNCHANGED <<gameVars, menuVars, ui, place, next, board, net, touched>>

Replaying == ResetBoard \/ ApplyNext \/ Rebuilt \/ AutoPlay \/ NoAutoPlay \/ NoKey

Next ==
  \/ NetBegins(Start) \/ (\E m \in Moves : NetBegins(Move(m)))
  \/ NetStart \/ (\E m \in Moves : NetMove(m)) \/ (\E name \in Names : Save(name))
  \/ ReplayMenu \/ (\E name \in DOMAIN files : NameEntered(name)) \/ ShowReplayFiles
  \/ ListUp \/ ListDown \/ ListEntered \/ Leave
  \/ Replaying \/ StepBack \/ StepForward \/ ToggleAutoPlay \/ HalfSecond

Spec == Init /\ [][Next]_vars

(* The loop of the replay goes round, for getch times out; and time        *)
(* passes.                                                                 *)
FairSpec == Spec /\ WF_vars(Replaying) /\ WF_vars(HalfSecond)

-----------------------------------------------------------------------------
(* What write_pgn wrote, load_moves reads: every saved game can be         *)
(* replayed with exactly the moves recorded, in order, and no tag, number  *)
(* or line end is taken for a move.                                        *)
RecordReadsBack ==
  \A name \in DOMAIN records :
    LoadMoves(files[name]) = [i \in DOMAIN records[name] |-> Move(records[name][i])]

(* Stepping to and fro, by hand or by auto-play, the board is the position *)
(* after the moves shown as played, however it was reached, and the mark   *)
(* stays inside the file; except once the network thread has put a move or *)
(* a start on the same board, between the steps or into the middle of one, *)
(* until the next step begins.                                             *)
ReplayShowsMoves ==
  /\ ui = "replay" =>
       /\ state.current \in -1 .. Len(state.moves) - 1
       /\ place \in {"auto", "keys"} /\ net = Idle /\ ~touched =>
            board = Applied(SubSeq(state.moves, 1, state.current + 1))
  /\ ui = "list" => highlight + 1 \in DOMAIN listing

(* Auto-play comes to the last move unless the user stops it: the half     *)
(* second ends, though the loop looks at it every 50 ms, and starts anew   *)
(* only with a step.                                                       *)
AutoPlayEnds ==
  (ui = "replay" /\ state.auto_play)
    ~> (ui # "replay" \/ ~state.auto_play \/ state.current = Len(state.moves) - 1)
=============================================================================
