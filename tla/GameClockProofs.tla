-------------------------- MODULE GameClockProofs --------------------------
(***************************************************************************)
(* Proofs about GameClock, for every time limit, every minimal charge and  *)
(* every range of the wall clock that fits the int32_t cast, whether or    *)
(* not somebody sets the clock.                                            *)
(***************************************************************************)
EXTENDS GameClock, TLAPS

(* The inductive invariant: the conservation law needs the bounds on the   *)
(* two clocks, and the lower bound on the length of a lost game needs the  *)
(* conservation law.                                                       *)
ClockInv ==
  /\ ClockTypeOK
  /\ TimeConserved
  /\ LiveHasTime
  /\ TimeoutAfterLimit

(* The wall clock stays below what the cast in check_game_timeouts holds.  *)
NoOverflow == MaxClock <= IntMax

(* What fits an int32_t is stored in it unchanged. *)
LEMMA Int32Exact ==
  ASSUME NEW x \in Int, x >= -IntMax, x <= IntMax
  PROVE  Int32(x) = x
BY ClockAssumption DEF Int32

(* The charge of check_game_timeouts is the exact elapsed time, and it is  *)
(* at least one millisecond.                                               *)
LEMMA ChargeExact ==
  ASSUME NoOverflow, ClockInv, TimerCharges
  PROVE  /\ Elapsed \in 1..MaxClock
         /\ Left = remaining[side_to_move] - Elapsed
<1>1. Elapsed \in 1..MaxClock
  BY ClockAssumption DEF ClockInv, ClockTypeOK, TimerCharges, Elapsed, Clock, Unread
<1>2. Int32(Elapsed) = Elapsed
  BY <1>1, Int32Exact, ClockAssumption DEF NoOverflow
<1>3. remaining[side_to_move] \in 0..IntMax
  BY DEF ClockInv, ClockTypeOK
<1>4. /\ remaining[side_to_move] - Elapsed \in Int
      /\ remaining[side_to_move] - Elapsed >= -IntMax
      /\ remaining[side_to_move] - Elapsed <= IntMax
  BY <1>1, <1>3, ClockAssumption DEF NoOverflow
<1>5. Left = remaining[side_to_move] - Elapsed
  BY <1>2, <1>4, Int32Exact DEF Left
<1> QED BY <1>1, <1>5

(* The charge preserves the invariant. *)
LEMMA ChargeInv ==
  ASSUME NoOverflow, ClockInv, TimerCharges
  PROVE  ClockInv'
<1> DEFINE me == side_to_move
           you == Other(side_to_move)
<1>1. /\ Elapsed \in 1..MaxClock
      /\ Left = remaining[me] - Elapsed
  BY ChargeExact
<1>2. me \in Team /\ you \in Team /\ me # you /\ Team = {me, you}
  BY DEF ClockInv, ClockTypeOK, Team, Other
<1>3. /\ remaining[me] \in 1..TimeLimit
      /\ remaining[you] \in 1..TimeLimit
  BY <1>2 DEF ClockInv, LiveHasTime, TimerCharges
<1>4. remaining[me] + remaining[you] = 2 * TimeLimit - (last_timer_check_ms - started)
  <2>1. remaining["white"] \in 1..TimeLimit /\ remaining["black"] \in 1..TimeLimit
    BY DEF ClockInv, LiveHasTime, TimerCharges, Team
  <2>2. \/ me = "white" /\ you = "black"
        \/ me = "black" /\ you = "white"
    BY DEF ClockInv, ClockTypeOK, Team, Other
  <2> QED BY <2>1, <2>2, ClockAssumption DEF ClockInv, TimeConserved, TimerCharges
<1>5. /\ last_timer_check_ms' = last_timer_check_ms + Elapsed
      /\ last_timer_check_ms' \in Clock
      /\ last_timer_check_ms \in Clock /\ started \in Clock /\ started' = started
  BY ClockAssumption DEF TimerCharges, Elapsed, ClockInv, ClockTypeOK, Clock, Unread
<1>6. /\ remaining'[me] = IF Left <= 0 THEN 0 ELSE Left
      /\ remaining'[you] = remaining[you]
  BY <1>2 DEF TimerCharges, ClockInv, ClockTypeOK
<1>7. CASE Left > 0
  <2>1. remaining'[me] = remaining[me] - Elapsed
    BY <1>1, <1>3, <1>6, <1>7, ClockAssumption
  <2>2. remaining'[me] \in 1..TimeLimit /\ remaining'[you] \in 1..TimeLimit
    BY <1>1, <1>3, <1>6, <1>7, <2>1, ClockAssumption
  <2>3. remaining'[me] + remaining'[you]
          = 2 * TimeLimit - (last_timer_check_ms' - started')
    BY <1>1, <1>3, <1>4, <1>5, <1>6, <2>1, ClockAssumption DEF Clock
  <2>4. remaining'["white"] + remaining'["black"]
          = 2 * TimeLimit - (last_timer_check_ms' - started')
    <3>1. \/ me = "white" /\ you = "black"
          \/ me = "black" /\ you = "white"
      BY DEF ClockInv, ClockTypeOK, Team, Other
    <3> QED BY <2>2, <2>3, <3>1, ClockAssumption
  <2>5. remaining' \in [Team -> 0..IntMax]
    <3>1. Left \in 0..IntMax
      BY <1>1, <1>3, <1>7, ClockAssumption
    <3> QED BY <1>7, <3>1 DEF TimerCharges, ClockInv, ClockTypeOK
  <2>6. is_active' = TRUE /\ flagged' = "none"
    <3>1. is_active' = (Left > 0)
      BY DEF TimerCharges
    <3>2. ~(Left <= 0)
      BY <1>1, <1>3, <1>7, ClockAssumption
    <3>3. flagged' = "none"
      BY <3>2 DEF TimerCharges
    <3> QED BY <1>7, <3>1, <3>3, Zenon
  <2>7. ClockTypeOK'
    BY <1>5, <2>5, <2>6 DEF ClockInv, ClockTypeOK, TimerCharges, wall
  <2> QED
    BY <1>2, <2>2, <2>4, <2>6, <2>7
    DEF ClockInv, TimeConserved, LiveHasTime, TimeoutAfterLimit
<1>8. CASE ~(Left > 0)
  <2>1. Left <= 0
    BY <1>1, <1>3, <1>8, ClockAssumption
  <2>2. is_active' = FALSE /\ flagged' = me
    <3>1. is_active' = (Left > 0)
      BY DEF TimerCharges
    <3>2. flagged' = me
      BY <2>1 DEF TimerCharges
    <3>3. (Left > 0) = FALSE
      BY <1>8, <1>1, <1>3, ClockAssumption
    <3> QED BY <3>1, <3>2, <3>3
  <2>3. remaining' \in [Team -> 0..IntMax]
    BY <2>1, ClockAssumption DEF TimerCharges, ClockInv, ClockTypeOK
  <2>4. last_timer_check_ms' - started' >= TimeLimit
    BY <1>1, <1>3, <1>4, <1>5, <2>1, ClockAssumption DEF Clock
  <2>5. ClockTypeOK'
    BY <1>5, <2>2, <2>3 DEF ClockInv, ClockTypeOK, TimerCharges, wall
  <2> QED
    BY <2>2, <2>4, <2>5
    DEF ClockInv, TimeConserved, LiveHasTime, TimeoutAfterLimit
<1> QED BY <1>7, <1>8

(* Starting a game establishes the conservation law anew. *)
LEMMA StartInv ==
  ASSUME ClockInv, StartGame
  PROVE  ClockInv'
<1>1. remaining' = [team \in Team |-> TimeLimit]
  BY DEF StartGame
<1>2. remaining'["white"] = TimeLimit /\ remaining'["black"] = TimeLimit
  BY <1>1 DEF Team
<1>3. remaining' \in [Team -> 0..IntMax]
  BY <1>1, ClockAssumption
<1>5. ClockTypeOK'
  BY <1>3 DEF ClockInv, ClockTypeOK, StartGame, Team, wall
<1>6. TimeConserved'
  BY <1>2, ClockAssumption DEF StartGame, TimeConserved, ClockInv, ClockTypeOK, Clock
<1>7. LiveHasTime'
  BY <1>1, ClockAssumption DEF LiveHasTime, Team
<1>8. TimeoutAfterLimit'
  BY DEF StartGame, TimeoutAfterLimit
<1> QED BY <1>5, <1>6, <1>7, <1>8 DEF ClockInv

(* The rest of the steps leave the two clocks alone. *)
LEMMA QuietInv ==
  ASSUME ClockInv,
         Tick \/ ClockSet \/ Move \/ GameEnds \/ TimerReads \/ TimerSkips \/ UNCHANGED vars
  PROVE  ClockInv'
<1>1. /\ remaining' = remaining /\ started' = started /\ flagged' = flagged
      /\ last_timer_check_ms' = last_timer_check_ms
  BY DEF Tick, ClockSet, Move, GameEnds, TimerReads, TimerSkips, vars, gameVars
<1>a. is_active' = is_active \/ is_active' = FALSE
  BY DEF Tick, ClockSet, Move, GameEnds, TimerReads, TimerSkips, vars, gameVars
<1>b. (is_active' => is_active) /\ is_active' \in BOOLEAN
  <2>1. is_active \in BOOLEAN
    BY DEF ClockInv, ClockTypeOK
  <2>2. CASE is_active' = is_active
    BY <2>1, <2>2, Zenon
  <2>3. CASE is_active' = FALSE
    BY <2>3, Zenon
  <2> QED BY <1>a, <2>2, <2>3
<1>2. now' \in Clock
  BY ClockAssumption DEF Tick, ClockSet, Move, GameEnds, TimerReads, TimerSkips, vars,
         ClockInv, ClockTypeOK, Clock, wall
<1>c. jumped' \in BOOLEAN
  BY DEF Tick, ClockSet, Move, GameEnds, TimerReads, TimerSkips, vars, wall,
         ClockInv, ClockTypeOK
<1>3. current_time_ms' \in Clock \cup {Unread}
  BY DEF Tick, ClockSet, Move, GameEnds, TimerReads, TimerSkips, vars, ClockInv, ClockTypeOK
<1>4. side_to_move' \in Team
  BY DEF Tick, ClockSet, Move, GameEnds, TimerReads, TimerSkips, vars, gameVars,
         ClockInv, ClockTypeOK, Other, Team
<1>6. ClockTypeOK'
  BY <1>1, <1>b, <1>c, <1>2, <1>3, <1>4 DEF ClockInv, ClockTypeOK
<1> QED
  BY <1>1, <1>b, <1>6 DEF ClockInv, TimeConserved, LiveHasTime, TimeoutAfterLimit

(* As long as the elapsed milliseconds fit an int32_t, the chess clock     *)
(* loses no time and charges none twice, a live game has time on both      *)
(* clocks, and a flag falls only in a game that has lasted TimeLimit.      *)
THEOREM ClockInvariant ==
  ASSUME NoOverflow
  PROVE  Spec => []ClockInv
<1>1. Init => ClockInv
  <2> SUFFICES ASSUME Init PROVE ClockInv
    OBVIOUS
  <2>1. remaining \in [Team -> 0..IntMax]
    BY ClockAssumption DEF Init
  <2>2. 0 \in Clock
    BY ClockAssumption DEF Clock
  <2>3. ClockTypeOK
    BY <2>1, <2>2 DEF Init, ClockTypeOK, Team
  <2> QED
    BY <2>3 DEF Init, ClockInv, TimeConserved, LiveHasTime, TimeoutAfterLimit
<1>2. ClockInv /\ [Next]_vars => ClockInv'
  <2> SUFFICES ASSUME ClockInv, [Next]_vars PROVE ClockInv'
    OBVIOUS
  <2>1. CASE StartGame
    BY <2>1, StartInv
  <2>2. CASE TimerCharges
    BY <2>2, ChargeInv
  <2>3. CASE Tick \/ ClockSet \/ Move \/ GameEnds \/ TimerReads \/ TimerSkips \/ UNCHANGED vars
    BY <2>3, QuietInv
  <2> QED BY <2>1, <2>2, <2>3 DEF Next, TimerThread
<1> QED BY <1>1, <1>2, PTL DEF Spec

(* The conservation law of the chess clock, for every constant. *)
THEOREM ClockConservesTime ==
  ASSUME NoOverflow
  PROVE  Spec => []TimeConserved
<1>1. ClockInv => TimeConserved
  BY DEF ClockInv
<1>2. Spec => []ClockInv
  BY ClockInvariant
<1> QED BY <1>1, <1>2, PTL

(* No flag falls before its game is TimeLimit old, for every constant. *)
THEOREM NoEarlyFlag ==
  ASSUME NoOverflow
  PROVE  Spec => []TimeoutAfterLimit
<1>1. ClockInv => TimeoutAfterLimit
  BY DEF ClockInv
<1>2. Spec => []ClockInv
  BY ClockInvariant
<1> QED BY <1>1, <1>2, PTL

-----------------------------------------------------------------------------
(* What is stored in an int32_t is an int32_t, overflow or not. *)
LEMMA Int32Range ==
  ASSUME NEW x \in Int
  PROVE  Int32(x) \in -(IntMax + 1)..IntMax
<1> DEFINE m == 2 * (IntMax + 1)
           y == x + IntMax + 1
<1>1. m \in Nat \ {0} /\ y \in Int /\ IntMax \in Nat
  BY ClockAssumption
<1>2. y % m \in 0..(m - 1)
  <2> HIDE DEF m, y
  <2> QED BY <1>1
<1>3. CASE x \in -(IntMax + 1)..IntMax
  BY <1>3 DEF Int32
<1>4. CASE x \notin -(IntMax + 1)..IntMax
  <2>1. Int32(x) = (y % m) - (IntMax + 1)
    BY <1>4 DEF Int32
  <2>2. m - 1 = IntMax + (IntMax + 1)
    BY <1>1
  <2> HIDE DEF m, y
  <2> QED BY <1>1, <1>2, <2>1, <2>2
<1> QED BY <1>3, <1>4

(* Type correctness needs no assumption on the range of the wall clock. *)
THEOREM ClockTypes == Spec => []ClockTypeOK
<1>1. Init => ClockTypeOK
  <2> SUFFICES ASSUME Init PROVE ClockTypeOK
    OBVIOUS
  <2>1. remaining \in [Team -> 0..IntMax]
    BY ClockAssumption DEF Init
  <2>2. 0 \in Clock
    BY ClockAssumption DEF Clock
  <2> QED BY <2>1, <2>2 DEF Init, ClockTypeOK, Team
<1>2. ClockTypeOK /\ [Next]_vars => ClockTypeOK'
  <2> SUFFICES ASSUME ClockTypeOK, [Next]_vars PROVE ClockTypeOK'
    OBVIOUS
  <2>1. CASE TimerCharges
    <3>1. remaining[side_to_move] \in Int /\ Elapsed \in Int
      BY <2>1, ClockAssumption DEF ClockTypeOK, TimerCharges, Elapsed, Clock, Unread
    <3>2. Left \in -(IntMax + 1)..IntMax
      <4>1. Int32(Elapsed) \in Int
        BY <3>1, Int32Range, ClockAssumption
      <4> QED BY <3>1, <4>1, Int32Range DEF Left
    <3>3. remaining' \in [Team -> 0..IntMax]
      BY <2>1, <3>2, ClockAssumption DEF TimerCharges, ClockTypeOK
    <3>4. is_active' \in BOOLEAN
      <4>1. is_active' = (Left > 0)
        BY <2>1 DEF TimerCharges
      <4>2. (Left > 0) \in BOOLEAN
        BY <3>2, ClockAssumption
      <4> QED BY <4>1, <4>2
    <3> QED BY <2>1, <3>3, <3>4 DEF TimerCharges, ClockTypeOK, wall
  <2>2. CASE StartGame
    <3>1. remaining' \in [Team -> 0..IntMax]
      BY <2>2, ClockAssumption DEF StartGame
    <3> QED BY <2>2, <3>1 DEF StartGame, ClockTypeOK, Team, wall
  <2>3. CASE Tick
    <3>2. now' \in Clock
      BY <2>3, ClockAssumption DEF Tick, ClockTypeOK, Clock
    <3> QED BY <2>3, <3>2 DEF Tick, ClockTypeOK, gameVars, wall
  <2>4. CASE ClockSet \/ TimerReads \/ TimerSkips \/ UNCHANGED vars
    BY <2>4 DEF ClockSet, TimerReads, TimerSkips, ClockTypeOK, vars, gameVars, wall
  <2>5. CASE Move \/ GameEnds
    BY <2>5 DEF Move, GameEnds, ClockTypeOK, Team, Other, wall
  <2> QED BY <2>1, <2>2, <2>3, <2>4, <2>5 DEF Next, TimerThread
<1> QED BY <1>1, <1>2, PTL DEF Spec

(* Whatever the wall clock does, a player of a live game is given time     *)
(* back only by an overflow of the cast in check_game_timeouts.            *)
THEOREM NoRefund == Spec => RefundOnlyByOverflow
<1>1. ClockTypeOK /\ [Next]_vars =>
        [\A team \in Team :
           /\ remaining'[team] > remaining[team]
           /\ is_active
           => Elapsed > IntMax]_vars
  <2> SUFFICES ASSUME ClockTypeOK, Next, NEW team \in Team,
                      remaining'[team] > remaining[team], is_active
               PROVE  Elapsed > IntMax
    OBVIOUS
  <2>1. remaining[team] \in 0..IntMax
    BY DEF ClockTypeOK
  <2>2. remaining' # remaining
    BY <2>1, ClockAssumption
  <2>3. TimerCharges
    BY <2>2 DEF Next, TimerThread, Tick, ClockSet, StartGame, Move, GameEnds,
                TimerReads, TimerSkips, gameVars
  <2>4. Elapsed \in Int /\ Elapsed >= 1
    BY <2>3, ClockAssumption DEF TimerCharges, ClockTypeOK, Elapsed, Clock, Unread
  <2>5. team = side_to_move
    BY <2>1, <2>3, ClockAssumption DEF TimerCharges, ClockTypeOK
  <2>6. remaining'[team] = IF Left <= 0 THEN 0 ELSE Left
    BY <2>3, <2>5 DEF TimerCharges, ClockTypeOK
  <2>7. SUFFICES ASSUME Elapsed <= IntMax PROVE FALSE
    BY <2>4, ClockAssumption
  <2>8. Int32(Elapsed) = Elapsed
    BY <2>4, <2>7, Int32Exact, ClockAssumption
  <2>9. Left = remaining[team] - Elapsed
    <3>1. /\ remaining[team] - Elapsed \in Int
          /\ remaining[team] - Elapsed >= -IntMax
          /\ remaining[team] - Elapsed <= IntMax
      BY <2>1, <2>4, <2>7, ClockAssumption
    <3> QED BY <2>5, <2>8, <3>1, Int32Exact DEF Left
  <2> QED BY <2>1, <2>4, <2>6, <2>9, ClockAssumption
<1> QED BY <1>1, ClockTypes, PTL DEF Spec, RefundOnlyByOverflow
=============================================================================
