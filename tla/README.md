# multiplay-chess: a TLA+ model of the server and the client

`multiplay-chess` is a terminal chess program: one server process pairs clients,
keeps the games and their clocks and checks the moves; each client shows the
board and sends requests. Messages are protocol buffers with a length prefix
over TCP. This directory holds TLA+ modules of the parts that decide whether a
game is played correctly, TLC configurations that check them on small
instances, and proofs that TLAPS checks for every instance.

## 1. Inventory

| Part | State it keeps | Operations | Modelled by |
|---|---|---|---|
| Match manager (`server/match_manager.c`) | `waiting_players`, `active_games`, two counters, the id counter, one mutex | add to matching, remove from matching, find game, remove game, player disconnect | `MatchManager` (`Lobby` is what it promises) |
| Event loop and handlers (`server/server_network.c`, `server/handlers/`) | open descriptors; a handler's local pointers into the game table | accept, match, cancel, move, resign, disconnect; chat; ping, echo | `ChessServer`; `Chat` (the relay); ping and echo left out |
| Timer thread (`timer_check_thread`, `check_game_timeouts`) | remaining times and last check of every slot | a check of all slots every 100 ms | `ChessServer` (its place among the threads), `GameClock` (its arithmetic) |
| Rules (`common/rule.c`, `common/piece.c`) | a position `game_t` | `is_move_legal`, `apply_move`, `is_in_check`, `is_checkmate`, `is_stalemate`, `is_fifty_move_rule` | `ChessRules` (operators), `ChessGame` (a game played with them) |
| Start and end of the process (`server/main.c`, `stop_timer_thread`, `cleanup_match_manager`, `logger.c`) | the thread flag and id, two mutexes | signal handler, join, destroy | `ServerShutdown` |
| Start position, FEN (`common/utils.c`) | - | `init_startpos`, `fen_parse` | `Fen` |
| Framing (`common/network.c` and the loops that receive) | a byte stream per connection, the frame being read | `send_all`, `recv_all`, message send and receive | `Framing` (`Channel` is what it promises) |
| Client network thread (`client/client_network.c`) | connection, matching and reconnection flags | connect, receive loop, reconnect, requests, stop | `ChessClient`, `ClientExit` |
| Client handlers and game state (`client/handlers/`, `client/game_state.c`) | screen, own copy of the position, clock, dialogs, chat | one per server message | `ChessClient`, `Chat` (clock on display and check marks left out) |
| User interface (`client/main.c`, `client/ui/`) | screen, pending dialogs, chat line, cursor, selection | main loop, keys, menus, drawing, SIGINT | `ChessClient`, `Chat`, `Replay`, `ClientExit`; drawing never |
| Game records (`client/game_save.c`, `pgn_save.c`, `replay.c`, `ui/replay_menu.c`) | the recorded moves, PGN files, a replay's place | save, list, load, step, auto-play | `ChessClient` (when and with which result), `Replay` (what is written, read and shown) |
| Logger (`common/logger.c`) | one mutex | a line of the log, clean-up | `ServerShutdown`, `ClientExit` |
| Generated protobuf code, tests, scripts | - | - | no |

How the parts interact. The main thread takes one event at a time from epoll
and runs its handler to the end. Handlers call the match manager, whose
operations each lock its mutex, but the move handler and the start-of-game
notification keep a pointer into the game table after the mutex has been given
back. The timer thread walks the same table with the mutex held. Replies and
broadcasts are sent in the middle of these steps, and a failed send changes
what the handler does next in two places: a start that does not reach the client
that asked is not sent to the one that waited (`handlers/match.c:109`), and a
move that cannot be answered is sent to nobody (`handlers/move.c:252`). A signal handler, on either thread,
takes the same mutex and the logger's. In a client, the UI thread runs a loop of
keys and dialogs and sends requests; the network thread connects, receives and
runs the message handlers; both write `client_state_t`, the screen mostly
without a lock. A replay runs on the UI thread and uses the board of the game.
Both programs send on a connection from two threads without a lock.

What is hard here, with the lines, is the list `hazards` in `PROJECT.json`. In
short: a game that times out while its move is being handled; a game slot that
is reused under a stale pointer; a client that is in the queue and in a game at
once; one of two notifications that fails; a clock that is read before a lock
and charged after it; 64-bit milliseconds cast to 32 bits; two move generators
that must agree; signal handlers that take locks, and a thread that is
cancelled anywhere; a client whose two threads write the screen and the flags of
its dialogs, and which ignores game ids; frames in pieces, from two senders; a
chat that is relayed to one player after the other; a replay on the board of a
game.

## 2. Modules

* **`Lobby`** - what matchmaking promises: at most one waiting player, a second
  one is paired with it under a fresh id while there is capacity, a game ends
  once. No tables, no slots.
* **`MatchManager`** - the tables of `match_manager.c`. One action per critical
  section: `EnterQueue`, `StartGame`, `NoGameSlot` are the three exits of
  `add_player_to_matching` (the fourth, "Matching queue is full", cannot be
  reached: `OneWaiter`); `LeaveQueue` is `remove_player_from_matching` and the
  first half of `handle_player_disconnect`; `EndGame` is the two assignments by
  which resignation, disconnection and timeout end a game; `RemoveGame` is
  `remove_game`. `First(S)` is where a `for` loop over a table stops. The
  instance `L` maps the tables to `Lobby`.
* **`ChessServer`** - extends `MatchManager` with the two threads. `main` is
  the main thread's place in a handler and its locals (`fd`, the slot its
  pointer refers to, the id and opponent it read); `timer` is the slot the
  timer thread is at while it holds the mutex. A handler is cut exactly where
  it works without the mutex: `Move` (the search), `MoveApplied` or
  `MoveRejected`, `MoveStamped`, `MoveReplied`, `MoveBroadcast`, `MoveRemoves`
  for `handle_move_message`; `MatchGame` and `MatchNotify` for
  `handle_match_game_message`; `Disconnect` and `Close` for a lost connection.
  The outcome of a send is a choice (`SendResults`): a closed descriptor
  fails, an open one may. The position is whose turn it is and what the last
  move led to. Four history variables record what the players were sent and what
  they were not: `undelivered` has the slots whose start did not reach the client
  that asked, `unanswered` those whose last move was not answered; the next move
  applied takes a slot out of it.
* **`GameClock`** - the clock of one slot: the wall clock, the timer thread's
  reading of it before the lock, the charge in `int32_t`, moves that turn the
  clock over unseen, reuse of the slot. The wall clock may be set at any time,
  as `gettimeofday` is not monotonic; `jumped` remembers that it was.
* **`ChessRules`** - `rule.c` and `piece.c` as operators on a position, with
  the source's names, for a board of `Files` x `Ranks`. The board is a function
  on the occupied squares. `Attacks` follows rays as `is_square_attacked` does;
  `Distance` and `SliderMove` divide as `is_move_legal` does; `BoardAfter`,
  `RightsAfter`, `EnPassantAfter`, `HalfmoveAfter` and `Lands` are the parts of
  `apply_move`.
* **`Fen`** - `fen_parse` on the fields of a FEN: the placement is folded
  character by character (`Place`), the fields one after another (`Field`), with
  the early returns as `ok`. `FenOf` is the reference it is checked against: the
  FEN of a position as the standard has it.
* **`ChessGame`** - a game as the move handler plays it with these rules, from
  a start position on one of `StartBoards`, if every reply can be sent. After a
  lost one the handler does not look for the end (`Move` has no such exit), and a
  game at the limit of fifty moves goes on beyond it; that path is in
  `ChessServer`. What the code's start position is,
  and the theorems need, is `StartAssumption`: no piece has moved, the pawns are
  on their home ranks, each side has one king, black is not in check.
* **`ServerShutdown`** - the two threads reduced to the mutexes they hold, and
  `cleanup_signal_handler` running on one of them or on both.
* **`ChessClient`** - one client. `ui` is where the UI thread is in a round of
  its loop: it handles a key (`key`) knowing what `dialog_active` was (`seen`),
  blocks in the name dialog (`name`), is between the lines of `start_matching`
  (`request`) or `cancel_matching` (`cancel`, `leave`), or shows the foremost
  pending dialog (`show`). `notices` are the four flags that ask for a dialog.
  `Net...` are the handlers of the network thread. The board is the sequence of
  moves applied since the last start, each tagged with its game; while a replay
  has it (`replayed`), it is any position.
* **`ChessSession`** - extends `ChessClient` with the server as this one
  connection sees it: in the queue or not, its live games, what it is sent and
  in which order. What the races and the lost sends of `ChessServer` let a
  client see is a choice here: a flag that falls while a move or a start is
  handled (`Broadcast`, `StartGame`, with the messages in either order, or
  without the start); a game it is paired in and not told of, because the client
  that asked could not be reached (`StartUntold`); an opponent's move that counts
  but is sent to nobody, because it could not be answered (`Unanswered`, after
  which that opponent gets no more answers). The client's own moves are
  answered as long as its connection is up. A move is named by its place among
  those of the game that are sent. A move sent twice, in a game of the client
  with itself, is sent as a pair, and in a race the pair stays together. `unsent`
  and `untold` are the histories of what was kept from the client. `Lots` fixes
  the team drawn for each game; `strayed`, `crossed` and `wandered` remember
  the conduct under which a property is not claimed: a match request while the
  server holds the client in the queue or in a game, a flag that falls while a
  move or a start is handled, and a screen left with a game running or a request
  pending (`Leaves`), a request that was met by a game it is not told of included
  (`Hidden`).
* **`Channel`** - what framing promises: on each connection messages arrive
  whole, once and in order until it is closed.
* **`Framing`** - `network.c` byte by byte. `SendMessage` begins a `send_all`,
  each `SendAll` is one `send()` of any length that fits, `RecvAll` one
  `recv()`; `HeaderDone` and `BodyDone` are the two places where a receive goes
  on or gives up. A byte is its message and its place in it, so a header made
  of stray bytes is any number. Several threads may send on a connection; one
  thread receives from all of them and blocks in `recv_all`. The instance `Ch`
  maps the connections with one sender to `Channel`.
* **`Chat`** - the chat line and list of two clients and the relay of
  `handlers/chat.c`, cut between its two sends. Lines that no player wrote
  (errors, notices, the offer of a draw, which is never sent) are `Local`; they
  take room in a list.
* **`Replay`** - a PGN file as the kinds of words its reader tells apart,
  `WritePgn` and `LoadMoves` (`Those` is the loop that skips the other words;
  files of other programs, `Foreign`, are any sequences of such words), the two
  menus, and the replay's keys and
  auto-play, beside a network thread that plays on the same board. The loop is
  cut at its test for auto-play, at `getch`, at the reset of the board
  (`ResetBoard`) and at every move applied (`ApplyNext`); `place` is where it is.
  A write of the network thread has a beginning (`NetBegins`) and an end
  (`NetMove`, `NetStart`), anywhere among these. `touched` remembers that one
  ended since the replay last began to set the board back, `due` that half a
  second has passed since the last stamp.
* **`ClientExit`** - the client's two threads reduced to the three mutexes they
  take, in the order in which they nest, with `handle_sigint` on top of the UI
  thread and `cleanup_and_exit` step by step.
* **`MC*`** - the instances for TLC. **`*Proofs`** - the theorems.

Definitions whose comment starts with "Mutant:" are plausible mistakes in the
code. No specification uses them; each is put in the place of the definition
it follows to see that a property notices (`mutants` in `PROJECT.json`).

## 3. Runs

All bounds are named constants. `tlc -config <cfg> <module>` runs each.

| Run | Bounds | Shows |
|---|---|---|
| `server` | 3 descriptors, 1 slot, 2 games | `ConflictOnlyByRace`, `FinalOnlyIfReplyLost`, `NoClosedPlayer`, and that every handler returns (`HandlerReturns`) |
| `server_rematch` | 2 descriptors, 2 slots, 2 waiting entries, 2 games, clients that ask for a game while in one | `ManagerInv` (one waiter, exact counters, live games distinct), `HandlerSlotKept`, `UntoldOnlyIfRequesterLost`, `EndsAnnounced`; the server only uses the manager's operations (`ServerCallsManager`), and these implement `Lobby` (`ImplementsLobby`) |
| `clock` | limit 4, minimal charge 2, `INT32_MAX` 12, clock up to 13, games start up to 4 | `TimeConserved`, `TimeoutAfterLimit`, `RefundOnlyByOverflow`, `GameIsFinite` |
| `rules_small` | 3 x 5 board, two positions with all kinds of piece, fifty-move limit 2 | `KingsSafe`, `EnPassantSound`, `AttackMeansCapture`, `FenReadsBack`, `MovesAreFair`, `GameEnds` |
| `rules_castling` | the castling position of `rule_test.c`, 8 x 8 | violates `CastlingPossible` (see below) |
| `shutdown` | one signal per thread | `TimerGoneBeforeDestroy`, `CleanUnlessHeld` |
| `client` | 2 games, the first of 1 half move and the second of 2, 1 connection, one request and one reply on their way (a race sends two), no match request while the client waits or plays, a PGN table of one move | `BoardAgrees`, `MatchingMeansWaiting`, `NoGhostDialog`, `RecordFaithful` |
| `client_live` | 1 game, 1 half move, 1 connection, match requests at any time | `EndIsShown` |
| `framing` | 2 connections, one with one sender and one with two, headers of 2 bytes, bodies of 1 and 2, 2 messages each, 2 bytes under way | `GarbledOnlyByTwoSenders`, `FrameIsRead`; a connection with one sender implements `Channel` (`ImplementsChannel`) |
| `chat` | lists of 2 lines, 2 lines written, input lines of 1 character | `SameConversation`, `ChatArrives` |
| `replay` | 2 moves, boards of 3 half moves for the network thread, a table of 2 moves recorded and of 3 read, 1 name to save under and 1 file of another program | `RecordReadsBack`, `ReplayShowsMoves`, `AutoPlayEnds` |
| `exit` | 2 SIGINTs | `ExitsUnlessLogHeld` |

Why the bounds are enough to see the cases. Three descriptors let a third
client wait, and then be paired with a player whose game has just ended, while
one handler is under way; one slot forces its reuse; two games are needed for
"the slot now holds another game". With rematches two descriptors already give
a client in the queue and in a game, in two games, and in a game with itself,
and two slots make the first-hit loops choose. The clock run has room for a
game, its end, and a second game in the same slot with a check that was read in
the first. The small board has pawns that double-step, meet, capture in passing
and promote, pins, mates and stalemates; the longest game has 20 half moves,
so the bound of 40 is never met. The `server` run needs 2 x 10^5 states,
`server_rematch` 2 x 10^6 (with symmetry of descriptors, sound as no action
distinguishes them), `clock` 9 x 10^4, `rules_small` 8 x 10^4, `client`
4.6 x 10^6, `client_live` 5 x 10^5, `framing` 3.4 x 10^5, `chat` 2 x 10^5,
`replay` 7 x 10^5, `exit` 10^3. Two games are what a late message or dialog
of the first needs to do harm in the second, and a game the client is not told
of in the one it is; the client is white in the first and black in
the second, where the opponent may make a move that is sent to nobody before the
client makes one that is; the second half move overflows the PGN table. A second connection
would take the run beyond five minutes: that a reconnection, on any screen,
breaks nothing is left to the proofs, which hold for every bound. The user of `client`
does not ask for a game while the server holds the connection in the queue or
in one, because the properties about boards and records are not claimed for one
who does; `client_live` has that user, down to the game against himself.
A frame does not fit what a connection holds, so every frame of `framing` is
sent and read in pieces, and the second sender can put its header between the
pieces of the first; the second connection shows what a blocked receive does to
others. Two lines and the notices between them overflow a list of two. A
table of two makes a PGN file end after white's move and after black's, and
the third half move overflows it; the file of the other program has words that
are no moves and a second empty line.

Fairness. `ChessServer`: the main thread goes on inside a handler (strong
fairness, because it competes for the mutex with a thread that sleeps 100 ms
between two checks) and the timer thread is scheduled (weak); clients owe
nothing. `GameClock`: the timer thread is scheduled and time passes. Moves are
not fair: `GameIsFinite` is about players who do nothing. `ChessGame`: the
players keep moving, which is the premise of `GameEnds`. `ServerShutdown`: a
thread leaves its critical sections, the timer thread reads its flag in every
round, and a mutex that is free again and again is got (strong fairness, as
there are other takers). `ChessSession`: the UI loop goes round because `getch`
times out after 50 ms and requests and the name dialog come to an end; the
network thread handles what arrives and the server what it is sent (all weak);
the user closes a dialog that is offered again and again (strong, because a
round without a key comes between). Nobody owes a move or a request.
`Framing`: the receiving thread goes on whenever it can (weak); senders owe
nothing, and that they finish their frames is a premise of `FrameIsRead`.
`Chat`: the event loop comes to each connection that is ready (strong, as it
has others to serve), the relay and the network threads go on (weak). `Replay`:
the loop goes round because `getch` times out (`Replaying`), and half a second
passes (`HalfSecond`). `ClientExit`: critical sections
end, a mutex that is free again and again is got, the loop comes to the flag
(strong, as there are other takers), and a cancellation takes effect; nobody
owes leaving a menu, which is a premise of the property.

What the client's properties leave out, because it is not so. A connection lost
on the matching screen is replaced without a new request, and the screen waits
for nobody: `MatchingMeansWaiting` is about the connection the request was made
on. A user who leaves a running game and starts another gets both games'
moves on one board (`strayed`). A user who leaves a game or cancels while one is
found, or a server that announces an end twice because a flag fell during a
mating move, can bring the dialog of one game up over the next (`wandered`,
`crossed`), and closing it leaves that game. A client that waits may be put into
a game without being told; its screen says that it waits, a cancellation is too
late, and what the opponent's moves do to its board is to the board of the game
before: `MatchingMeansWaiting` names that case, and `RecordFaithful` is not
claimed for the record of a game older than one it was not told of. A move sent
to nobody is missing on the board and in the record for good, the side to move
is then the wrong one, and so may be the winner (`unsent`). A user may leave a request without
meaning to: a resignation that comes too late is answered by an error, whose
dialog may come up on the matching screen of the next request, and closing it
goes to the main screen and does not cancel (`client/main.c:313`); that start
then pulls the user out of whatever he does, and the next name he gives crosses
a running game. A lost connection is forgotten if another dialog is
closed first, so `EndIsShown` does not mention it. A game that ends by a timeout
or a lost opponent is not saved, although the repository's README says that
every game is, and the result of a resignation is saved as `*`:
`RecordFaithful` is about the number of moves and about mates. A replay that is
still open when a game starts, or that is watched after a game was left, takes
the board: until the next start the board is not the server's and a record
saved then has the result of the replay's position (`replayed`). And the network
thread's writes fall into the replay's: from such a write to the replay's next
step the board may be neither's (`touched`).

### Where code and documentation disagree

`rules_castling` is a run that violates what the repository's README says (the
quotation is in `PROJECT.json`): the castling branch looks for a king's step of
two files among offsets that have none, so castling is never legal.

Others need no run of their own, because a property that holds says where they
are.

* The move handler works on the slot without the mutex. If the flag falls
  between the search and the broadcast, the players are sent a timeout that one
  side wins and a mate that the other wins. `ConflictOnlyByRace` says that this
  is the only way to two results.
* A client that waits and plays at once and disconnects is removed from the
  queue only (`match_manager.c:466`, against the comment at
  `server_network.c:199`); the live game keeps a closed descriptor, which the
  next client may be given. `NoClosedPlayer` is claimed for clients that do not
  do this (run `server`).
* The time since the last check is charged to whoever is to move at the check
  (`match_manager.c:136`, against the comment at line 142): time is conserved
  (`TimeConserved`) but not attributed.
* The server's signal handler takes locks the interrupted thread may hold,
  although `server/main.c:16` says that it uses async-signal-safe functions
  only. `CleanUnlessHeld` says that this is the only way to hang. The client's
  handler logs, and so does what follows an asynchronous cancellation:
  `ExitsUnlessLogHeld` says the same of it.
* `FinalOnlyIfReplyLost`: if the reply to the mover cannot be sent, the handler
  returns before it looks for mate (`handlers/move.c:252`), and the mated game
  stays live; nothing else leaves one behind, neither a reply lost earlier in the
  game nor a lost start. `BoardAgrees` and `RecordFaithful` say what the opponent
  then misses: that move and no other.
* `UntoldOnlyIfRequesterLost`: the opponent of a new game is told of it only if
  the send to the requester succeeded (`handlers/match.c:109`, against the
  comment in line 67).
* `SameConversation`: when white is gone, black's own lines do not come back
  to black (`handlers/chat.c:39`).
* The offer of a draw (`client/main.c:416`) is a line in the player's own list
  and is not sent. While a line is being typed, the keys '1' to '4' and 'q'
  remain commands, although the comment at `client/main.c:453` says that all keys
  are input then.

## 4. Proofs

Eight modules, for every value of the constants under the `ASSUME`s of the
component modules (positive table sizes, a positive time limit that fits
`int32_t`, a board of five ranks or more, start positions as `init_startpos`
makes them, and so on). Two theorems have a hypothesis of their own and
`GameClockProofs` has one on overflow; they are named below.

* **`ChessServerProofs`**, the match manager. `ManagerInvariant`: the conjunction `ManagerInv` of
  `ManagerTypeOK`, `OneWaiter`, `CountsExact` and `LiveGamesDistinct` is
  inductive. No part is so alone: an exact count after a removal needs that the
  entry removed was there, distinct ids need that all are below the counter.
  The three parts are theorems of their own; `server_rematch` checks the
  conjunction. `ManagerImplementsLobby`: every
  step is a lobby step under the mapping of the instance `L`; `OneWaiter` is
  what makes the mapping of the first entry to the waiter correct, `CountsExact`
  and the injectivity of slot to game what makes "fewer live games than slots"
  the lobby's capacity test.
* **`ChessServerProofs`**, the two threads. `ServerUsesManager`: every step of the two threads is
  a manager operation or leaves the tables alone, so `ServerManagerInv`
  carries the manager's invariant to the server. `ServerKeepsSlot`: the pointer
  a handler keeps without the mutex stays good. Its invariant `ThreadInv` says
  that only the main thread starts games, and only outside of other handlers,
  while ending a game leaves the slot's id and players in place.
  `ServerInvariant` adds `HistoryInv`, which says for every slot and every place
  of the handler which results may have been sent: none to a live game that the
  handler is not at the end of; those of the timer thread and those of the
  handler in a game where both came, which is what `ConflictsAreRaces` says;
  in a live game in a final position that the handler is not at, a lost reply to
  its last move (`FinalGamesLeftBehind`); in an untold live game, a send that failed
  (`UntoldGames`). `EndsAreAnnounced` is the action property from the same
  invariant. `NoGameOfTheClosed` holds for `ClientsRematch = FALSE`, as in the
  run: `PlacesInv` says that a descriptor then is in one place at most, the
  queue or one live game, so the first hit of `handle_player_disconnect` is the
  only one.
* **`GameClockProofs`**. `ClockInvariant` and from it `ClockConservesTime` and
  `NoEarlyFlag`, assuming `NoOverflow` (the clock's readings fit the cast).
  The lower bound on a lost game follows from conservation and the bounds on
  the other player's clock. `ClockTypes` and `NoRefund` need no assumption on
  overflow. That a live game has time left (`LiveHasTime`) is a part of the
  invariant.
* **`ServerShutdownProofs`**. `DestroyIsSafe`: the flag goes down, and the
  thread id is zeroed, only by a handler on main, which then waits, or by one
  on the timer thread, which keeps that thread still; so whoever skips the join
  may.
* **`FramingProofs`**. `FramingInvariant`: on a connection with one sender, what
  is dispatched, the part read of the frame at the receiver, the bytes under way
  and the part not yet sent of the frame at the sender are, put together, the
  frames of the messages given, byte by byte. So the four bytes read as a header
  are a header, and the number in it is the length of the body that follows.
  `OnlyTwoSendersGarble` assumes `MessagesFit` (no message is longer than the
  receiver takes): a longer one is refused and ends the connection, which is
  what the code is for. `FramingImplementsChannel` does not assume it: an
  end of the connection is a step of `Channel`.
* **`ChessSessionProofs`**. `TypeInv` and `LinkInv` (nothing is on its way
  without a connection, and no game runs) hold under all conduct of the user,
  and with them `MatchingInv`: on the matching screen the last request on its
  way is the match request, or the connection is queued, or an answer is coming
  that takes the screen away, which gives `MatchingIsWaiting`. `StreamInv` is
  about clients that ask for one game at a time (`~strayed`): games come one
  after another in what is on its way, each start before its moves, the moves
  without a gap behind those on the board; the live game is the one started
  last, and all that is on its way behind its start is its moves (`LiveInv`),
  unless the client is not told of it. The last move sent of a game that runs, or
  is to run, is not lost (`NoneMissing`), where those sent are the moves made less
  `unsent`; `Clear` (no game hidden from the client after the one shown)
  is where the board and the record still speak of one game.
  `BoardsAgree` and `RecordsAreFaithful` follow. `QuietInv` is about users who
  leave neither a game nor a request and games in which no flag crosses a move
  or a start: one thing is on at a time, a request, a running game, a game the
  client is not told of, or the dialogs of the last one. The screen shows it (`OnScreen`), there is one match request at
  most (`OneRequest`), the name dialog is open only when nothing is on
  (`UiRests`), and of every game the stream holds one end at most, behind
  everything else about it (`EndsOnce`). `NoGhosts` follows.

* **`ChessGameProofs`**, for boards of any size and any start position of
  `StartAssumption`. `GameInvariant`: the position is typed (`GameTypes`), a pawn
  that has not moved is at home, the en passant target is behind a pawn that has
  just come from there (`EnPassantIsSound`), there is one king a side, and the
  side that has just moved is not in check (`KingsAreSafe`). That a king is never taken needs that it was not left in check, and that a
  double step begins on the home rank needs that an unmoved pawn stands there.
  `GeneratorsAgree`: `is_square_attacked` walks from the square along the
  lines, `is_move_legal` divides the distance of the two squares; the lemma
  `DistanceIsSteps` says that the distance along an offset is `k` exactly when
  `k` steps along it lead there, and with it both find the same captures. A king has
  no offset of two files, so no legal move castles (`NoCastling`), which is the
  finding of `rules_castling` for every position. `MovesFair` is the action
  property. `PositionsReadBack`: the loop over the placement, come to file `x`
  of rank `y`, stands at the last piece before it and has put down the pieces of
  the ranks above and of the files left of it (`Read`, `GapPlaced`,
  `RankPlaced`, `PlacementRead`); each of the other fields sets its part of the
  position and no other (`SideRead` to `ClockRead`), and after a field that was
  refused, or the fifth, nothing changes (`FieldRefused`).
* **`ChatProofs`**, for lists of any length, any number of lines and any text.
  `ChatInvariant` says that a list, with what is on its way to it, follows the
  lines the server took up and sent to that client: the lines stand among them
  in their order, and where nothing else may be missing only the oldest are, and
  these only from a full list (`Follows`). Its lemma `Kept` says that a list
  made of another line by line still does, which is what becomes of a full list
  that is moved up. That a writer's lines are taken up in the order they were
  written needs the lines not yet read (`Ordered`), and that black's line comes
  last needs what the relay stands at (`RelayInv`). `OneConversation` follows.
* **`ReplayProofs`**, for games, files and tables of any length and any files of
  other programs. `ReplayInvariant`: every file that was saved is the text of
  its record (`FilesInv`), the menu lists files that are there, and the replay's
  place is inside the moves of its file (`UiInv`). `SavedGamesReadBack`: the
  words `write_pgn` puts between the moves, numbers and the result, are none
  that `load_moves` takes. `ReplayIsTrue`: in the middle of the loop of
  `replay_to_move`, if the network thread has not written since it began, the
  board is that of the moves applied so far; the loop begins at the start position
  every time, so what it leaves depends on its mark alone; a word that
  `load_moves` takes from a foreign file and that is no move changes nothing.

The folds of the community modules (`FoldLeft` in `FenParse`, `FlattenSeq` in
`FenOf` and `Replay`) are defined by recursive functions over data. The
library's induction theorems cannot be instantiated, so `Induction`, proved in
both modules that need it, is about a set of numbers: if one were missing, the
least one (`WFMin`) would have a predecessor in the set. With it the functions
exist (`FoldExists`, `RunExists`, `FlatExists`) and a fold is the last value of
its loop's variable (`FoldIsRun`); after that a proof goes token by token.

The property `NoGhostDialog` was first stated for users who never quit a game
and never cancel. The proof did not go through, and with three games TLC found
why: a request left by closing the dialog of an error (above). The history
`wandered` now says what it means, a screen left with something on.

Only model-checked: liveness (`HandlerReturns`, `GameIsFinite`, `GameEnds`,
`CleanUnlessHeld`, `EndIsShown`, `FrameIsRead`, `ChatArrives`, `AutoPlayEnds`,
`ExitsUnlessLogHeld`), which is out of the prover's reach. Every invariant and
every action property of a passing run is a theorem.

## 5. Not modelled

Names and their buffers, wait times, message texts and logging. In
`ChessServer` a send that blocks for ever or raises SIGPIPE: a send is an
outcome there. EPOLLHUP and errors of epoll itself; more than `MAX_EVENTS`
connections ready at once. The size of what the server allocates for a length
it has read. A second signal on a thread that is in the handler; SIGTSTP,
SIGCONT and SIGWINCH, which only concern the terminal. What a main thread does
with a mutex that the handler on the timer thread has destroyed, between
destruction and `_exit`. In the client: the clock on display, check marks, the
selected piece (a move may be asked for at any time), reconnection intervals,
torn reads of the screen and of the flags, two threads inside one file, more
than 100 files in the list of replays, which it cuts off. A FEN that runs over
the edge of the board. The conversions of `protocol_utils.c`, drawing, generated
code, tests, scripts.

## 6. Plan

1. *(done)* `Lobby`, `MatchManager`, `ChessServer`, `GameClock`, `ChessRules`,
   `ChessGame`, `ServerShutdown`, `ChessClient`, `ChessSession`; the proofs above.
2. *(done)* `Channel` and `Framing`; `Chat`; `Replay`, with the replay's hold on
   the board in `ChessClient`; `ClientExit`; `Fen`.
3. *(done)* The proofs about `Framing`, `ChessSession` and the histories of
   `ChessServer`; about `ChessGame` on boards of any size; about `Chat`; about
   `Replay` and the reader of FEN, with induction over what they read.
4. The client's clock against the server's; blocking sends under the mutex.
