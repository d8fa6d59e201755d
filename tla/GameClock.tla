----------------------------- MODULE GameClock -----------------------------
(***************************************************************************)
(* The chess clock of one game slot.  Only the timer thread takes time off *)
(* a player: check_game_timeouts (server/match_manager.c) reads the wall   *)
(* clock, then waits for the mutex, then charges the time since the last   *)
(* check to whoever is to move at that moment.  The move handler turns the *)
(* clock over without the mutex and without a look at the time (it only    *)
(* writes last_move_time_ms, which nothing reads).                         *)
(***************************************************************************)
EXTENDS Integers

CONSTANTS TimeLimit,    \* DEFAULT_GAME_TIME_LIMIT * 1000
          MinCharge,    \* 100 ms: a check that comes sooner is skipped
          IntMax,       \* INT32_MAX
          MaxClock,     \* bound: last reading of the wall clock
          LastStart     \* bound: no game starts after this reading

ASSUME ClockAssumption ==
  /\ TimeLimit \in Nat \ {0}
  /\ MinCharge \in Nat \ {0}
  /\ IntMax \in Nat /\ TimeLimit <= IntMax
  /\ MaxClock \in Nat /\ LastStart \in 0..MaxClock

VARIABLES now,             \* what gettimeofday would return
          jumped,          \* history: somebody has set the wall clock
          current_time_ms, \* what the timer thread read; Unread before it does
          is_active,
          side_to_move,
          remaining,       \* white_time_remaining and black_time_remaining
          last_timer_check_ms,
          started,         \* history: when the game started
          flagged          \* history: whose time ran out, or "none"

gameVars == <<is_active, side_to_move, remaining, last_timer_check_ms, started, flagged>>
wall == <<now, jumped>>
vars == <<wall, current_time_ms, gameVars>>

Team == {"white", "black"}
Other(team) == IF team = "white" THEN "black" ELSE "white"
Unread == -1
Clock == 0..MaxClock

(* The value an int32_t holds after x is stored in it. *)
Int32(x) ==
  IF x \in -(IntMax + 1)..IntMax THEN x
  ELSE ((x + IntMax + 1) % (2 * (IntMax + 1))) - (IntMax + 1)

Init ==
  /\ now \in Clock
  /\ jumped = FALSE
  /\ current_time_ms = Unread
  /\ is_active = FALSE
  /\ side_to_move = "white"
  /\ remaining = [team \in Team |-> 0]
  /\ last_timer_check_ms = 0
  /\ started = 0
  /\ flagged = "none"

(* Time passes. *)
Tick ==
  /\ now < MaxClock
  /\ now' = now + 1
  /\ UNCHANGED <<jumped, current_time_ms, gameVars>>

(* gettimeofday is not monotonic: the wall clock is set, either way. *)
ClockSet ==
  /\ now' \in Clock
  /\ jumped' = TRUE
  /\ UNCHANGED <<current_time_ms, gameVars>>

(* Mutant: last_timer_check_ms keeps the time of the slot's previous game. *)
StartGameOldCheck ==
  /\ ~is_active
  /\ now <= LastStart
  /\ is_active' = TRUE
  /\ side_to_move' = "white"
  /\ remaining' = [team \in Team |-> TimeLimit]
  /\ started' = now
  /\ flagged' = "none"
  /\ UNCHANGED <<wall, current_time_ms, last_timer_check_ms>>

(* add_player_to_matching puts a new game into the slot.                   *)
StartGame ==
  /\ ~is_active
  /\ now <= LastStart
  /\ is_active' = TRUE
  /\ side_to_move' = "white"
  /\ remaining' = [team \in Team |-> TimeLimit]
  /\ last_timer_check_ms' = now
  /\ started' = now
  /\ flagged' = "none"
  /\ UNCHANGED <<wall, current_time_ms>>

(* apply_move flips the side; no clock is stopped and none is started.     *)
Move ==
  /\ is_active
  /\ side_to_move' = Other(side_to_move)
  /\ UNCHANGED <<wall, current_time_ms, is_active, remaining,
                 last_timer_check_ms, started, flagged>>

(* Mate, resignation or disconnection ends the game. *)
GameEnds ==
  /\ is_active
  /\ is_active' = FALSE
  /\ UNCHANGED <<wall, current_time_ms, side_to_move, remaining,
                 last_timer_check_ms, started, flagged>>

(* The timer thread wakes up and reads the clock, not yet the mutex.       *)
TimerReads ==
  /\ current_time_ms = Unread
  /\ current_time_ms' = now
  /\ UNCHANGED <<wall, gameVars>>

Elapsed == current_time_ms - last_timer_check_ms

(* Mutant: a check that came too soon is stamped all the same. *)
TimerSkipsStamps ==
  /\ current_time_ms # Unread
  /\ ~is_active \/ Elapsed < MinCharge
  /\ last_timer_check_ms' = current_time_ms
  /\ current_time_ms' = Unread
  /\ UNCHANGED <<wall, is_active, side_to_move, remaining, started, flagged>>

(* The mutex is taken.  A dead slot, and one that was checked less than    *)
(* MinCharge before current_time_ms (or after it), is skipped.             *)
TimerSkips ==
  /\ current_time_ms # Unread
  /\ ~is_active \/ Elapsed < MinCharge
  /\ current_time_ms' = Unread
  /\ UNCHANGED <<wall, gameVars>>

(* What is left to the player to move after the charge. *)
Left == Int32(remaining[side_to_move] - Int32(Elapsed))

(* Mutant: the check is stamped with the time at which the lock was got,   *)
(* not with the time that was charged.                                     *)
TimerChargesStampsNow ==
  /\ current_time_ms # Unread
  /\ is_active /\ Elapsed >= MinCharge
  /\ remaining' = [remaining EXCEPT ![side_to_move] = IF Left <= 0 THEN 0 ELSE Left]
  /\ is_active' = (Left > 0)
  /\ flagged' = IF Left <= 0 THEN side_to_move ELSE "none"
  /\ last_timer_check_ms' = now
  /\ current_time_ms' = Unread
  /\ UNCHANGED <<wall, side_to_move, started>>

(* Mutant: the test for a minimal elapsed time is dropped. *)
TimerChargesAlways ==
  /\ current_time_ms # Unread
  /\ is_active
  /\ remaining' = [remaining EXCEPT ![side_to_move] = IF Left <= 0 THEN 0 ELSE Left]
  /\ is_active' = (Left > 0)
  /\ flagged' = IF Left <= 0 THEN side_to_move ELSE "none"
  /\ last_timer_check_ms' = current_time_ms
  /\ current_time_ms' = Unread
  /\ UNCHANGED <<wall, side_to_move, started>>

(* Mutant: a clock that ran out is not set to 0. *)
TimerChargesNoClamp ==
  /\ current_time_ms # Unread
  /\ is_active /\ Elapsed >= MinCharge
  /\ remaining' = [remaining EXCEPT ![side_to_move] = Left]
  /\ is_active' = (Left > 0)
  /\ flagged' = IF Left <= 0 THEN side_to_move ELSE "none"
  /\ last_timer_check_ms' = current_time_ms
  /\ current_time_ms' = Unread
  /\ UNCHANGED <<wall, side_to_move, started>>

(* The charge; no time left ends the game.                                 *)
TimerCharges ==
  /\ current_time_ms # Unread
  /\ is_active /\ Elapsed >= MinCharge
  /\ remaining' = [remaining EXCEPT ![side_to_move] = IF Left <= 0 THEN 0 ELSE Left]
  /\ is_active' = (Left > 0)
  /\ flagged' = IF Left <= 0 THEN side_to_move ELSE "none"
  /\ last_timer_check_ms' = current_time_ms
  /\ current_time_ms' = Unread
  /\ UNCHANGED <<wall, side_to_move, started>>

TimerThread == TimerReads \/ TimerSkips \/ TimerCharges

Next ==
  \/ Tick
  \/ ClockSet
  \/ StartGame
  \/ Move
  \/ GameEnds
  \/ TimerThread

Spec == Init /\ [][Next]_vars

(* The timer thread is scheduled and time passes. *)
FairSpec == Spec /\ WF_vars(TimerThread) /\ WF_vars(Tick)

-----------------------------------------------------------------------------
(* Type correctness of the slot's clock. *)
ClockTypeOK ==
  /\ now \in Clock
  /\ jumped \in BOOLEAN
  /\ current_time_ms \in Clock \cup {Unread}
  /\ is_active \in BOOLEAN
  /\ side_to_move \in Team
  /\ remaining \in [Team -> 0..IntMax]
  /\ last_timer_check_ms \in Clock
  /\ started \in Clock
  /\ flagged \in Team \cup {"none"}

(* No time is lost and none is charged twice: in a live game, what has     *)
(* been taken off the two clocks together is exactly the time from the     *)
(* start of the game to the last check, however the reads of the clock,    *)
(* the moves, the lock and the reuse of the slot fall.                     *)
TimeConserved ==
  is_active => remaining["white"] + remaining["black"]
                 = 2 * TimeLimit - (last_timer_check_ms - started)

(* A live game has time left on both clocks, and never more than it began  *)
(* with: a part of the inductive invariant.                                *)
LiveHasTime ==
  is_active => \A team \in Team : remaining[team] \in 1..TimeLimit

(* A flag falls only when the game has lasted at least one player's limit, *)
(* so a check that was late for the previous game of the slot cannot end   *)
(* the next one.                                                           *)
TimeoutAfterLimit ==
  flagged # "none" => last_timer_check_ms - started >= TimeLimit

(* A player gets time back only where the cast of the elapsed milliseconds *)
(* to int32_t overflows, which takes a clock set ahead by 24 days.         *)
RefundOnlyByOverflow ==
  [][\A team \in Team :
       /\ remaining'[team] > remaining[team]
       /\ is_active
       => Elapsed > IntMax]_vars

(* A game does not go on for ever: a flag falls if nothing else ends it    *)
(* and nobody sets the clock.                                              *)
GameIsFinite == is_active ~> ~is_active \/ jumped
=============================================================================
