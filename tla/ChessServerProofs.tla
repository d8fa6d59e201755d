------------------------- MODULE ChessServerProofs -------------------------
(***************************************************************************)
(* Proofs about the match manager and about the server, for any number of  *)
(* connections, waiting entries and game slots.                            *)
(*                                                                         *)
(* The first part knows MatchManager alone: its operations keep the tables *)
(* and their counters in step, and implement Lobby.  In the second, the    *)
(* two threads use the tables only through these operations, and the       *)
(* pointer that a handler keeps across the mutex stays good (ThreadInv).   *)
(* On these rests what the server sends: the histories are consistent      *)
(* (HistoryInv), every end is announced, and no game outlives a connection *)
(* of its players (PlacesInv).                                             *)
(***************************************************************************)
EXTENDS ChessServer, FiniteSetTheorems, WellFoundedInduction, TLAPS

-----------------------------------------------------------------------------
(* The match manager. *)

(* A loop that scans a table upwards finds an index whenever one qualifies:*)
(* the first hit exists and no hit is below it.                            *)
LEMMA FirstIsLeast ==
  ASSUME NEW S \in SUBSET Nat, S # {}
  PROVE  /\ First(S) \in S
         /\ \A j \in S : First(S) <= j
<1> DEFINE R == {ss \in Nat \X Nat : ss[1] < ss[2]}
<1>1. IsWellFoundedOn(R, Nat)
  BY NatLessThanWellFounded DEF OpToRel
<1>2. PICK x \in S : \A y \in S : ~(<<y, x>> \in R)
  BY <1>1, WFMin
<1>3. ASSUME NEW y \in S PROVE x <= y
  <2>1. x \in Nat /\ y \in Nat
    OBVIOUS
  <2>2. y < x => <<y, x>> \in R
    BY <2>1
  <2>3. QED
    BY <1>2, <2>1, <2>2
<1>4. QED
  BY <1>3 DEF First

(* The slot tables are finite sets of naturals, and index 1 exists.        *)
LEMMA SlotFacts ==
  /\ WaitSlots \in SUBSET Nat /\ GameSlots \in SUBSET Nat
  /\ 1 \in WaitSlots /\ \A i \in WaitSlots : 1 <= i
  /\ IsFiniteSet(WaitSlots) /\ IsFiniteSet(GameSlots)
  /\ Cardinality(GameSlots) = MAX_ACTIVE_GAMES
<1>1. IsFiniteSet(WaitSlots) /\ IsFiniteSet(GameSlots)
  BY ManagerAssumption, FS_Interval DEF WaitSlots, GameSlots
<1>2. Cardinality(GameSlots) = MAX_ACTIVE_GAMES
  BY ManagerAssumption, FS_Interval DEF GameSlots
<1>3. QED
  BY <1>1, <1>2, ManagerAssumption DEF WaitSlots, GameSlots

(* The live slots are finitely many.                                       *)
LEMMA ActiveFinite ==
  /\ Active \in SUBSET GameSlots
  /\ IsFiniteSet(Active)
<1>1. Active \in SUBSET GameSlots
  BY DEF Active
<1>2. QED
  BY <1>1, SlotFacts, FS_Subset

(* What add_player_to_matching writes when nobody waits: entry 1.          *)
LEMMA EnterQueueEffect ==
  ASSUME ManagerInv, NEW fd \in Fds, EnterQueue(fd)
  PROVE  /\ waiting_players' = [waiting_players EXCEPT ![1] = fd]
         /\ Waiting' = {1}
<1>1. WaitSlots \ Waiting = WaitSlots /\ WaitSlots # {}
  BY SlotFacts DEF EnterQueue
<1>2. First(WaitSlots \ Waiting) = 1
  <2>1. WaitSlots \in SUBSET Nat /\ WaitSlots # {}
    BY SlotFacts, <1>1
  <2>2. First(WaitSlots) \in WaitSlots /\ \A j \in WaitSlots : First(WaitSlots) <= j
    BY <2>1, FirstIsLeast
  <2>3. First(WaitSlots) \in Nat /\ First(WaitSlots) <= 1 /\ 1 <= First(WaitSlots)
    BY <2>1, <2>2, SlotFacts
  <2>4. First(WaitSlots) = 1
    BY <2>3
  <2>5. QED
    BY <1>1, <2>4
<1>3. waiting_players' = [waiting_players EXCEPT ![1] = fd]
  BY <1>2 DEF EnterQueue
<1>4. \A i \in WaitSlots : waiting_players[i] = NoFd
  BY DEF EnterQueue, Waiting
<1>5. \A i \in WaitSlots : waiting_players'[i] # NoFd <=> i = 1
  BY <1>3, <1>4, SlotFacts, ManagerAssumption DEF ManagerInv, ManagerTypeOK
<1>6. Waiting' = {1}
  BY <1>5, SlotFacts DEF Waiting
<1>7. QED
  BY <1>3, <1>6

(* What it writes when somebody waits: entry 1 is cleared and a slot that  *)
(* held no live game holds the new one.                                    *)
LEMMA StartGameEffect ==
  ASSUME ManagerInv, NEW fd \in Fds, NEW fd_is_white \in BOOLEAN,
         StartGame(fd, fd_is_white)
  PROVE  /\ Waiting = {1}
         /\ waiting_players[1] \in Fds
         /\ waiting_players' = [waiting_players EXCEPT ![1] = NoFd]
         /\ Waiting' = {}
         /\ \E s \in GameSlots \ Active :
              /\ s = First(GameSlots \ Active)
              /\ active_games' = [active_games EXCEPT ![s] =
                   [is_active |-> TRUE, game_id |-> counter,
                    white |-> IF fd_is_white THEN fd ELSE waiting_players[1],
                    black |-> IF fd_is_white THEN waiting_players[1] ELSE fd]]
              /\ Active' = Active \cup {s}
<1>1. Waiting = {1}
  BY DEF StartGame, ManagerInv, OneWaiter
<1>2. First(Waiting) = 1
  BY <1>1, FirstIsLeast
<1>3. waiting_players[1] \in Fds
  BY <1>1, SlotFacts DEF Waiting, ManagerInv, ManagerTypeOK
<1>4. waiting_players' = [waiting_players EXCEPT ![1] = NoFd]
  BY <1>2 DEF StartGame
<1>5. Waiting' = {}
  BY <1>1, <1>4, SlotFacts DEF Waiting, ManagerInv, ManagerTypeOK
<1> DEFINE s == First(GameSlots \ Active)
<1>6. s \in GameSlots \ Active
  <2>1. GameSlots \ Active # {}
    BY ActiveFinite DEF StartGame
  <2>2. QED
    BY <2>1, FirstIsLeast, SlotFacts
<1> DEFINE new == [is_active |-> TRUE, game_id |-> counter,
                   white |-> IF fd_is_white THEN fd ELSE waiting_players[1],
                   black |-> IF fd_is_white THEN waiting_players[1] ELSE fd]
<1>7. active_games' = [active_games EXCEPT ![s] = new]
  BY <1>2 DEF StartGame
<1>8. Active' = Active \cup {s}
  <2> HIDE DEF s
  <2>1. new.is_active
    OBVIOUS
  <2> HIDE DEF new
  <2>2. QED
    BY <1>6, <1>7, <2>1 DEF Active, ManagerInv, ManagerTypeOK
<1>9. QED
  BY <1>1, <1>3, <1>4, <1>5, <1>6, <1>7, <1>8

(* What cancelling or leaving the queue writes: entry 1 is cleared.        *)
LEMMA LeaveQueueEffect ==
  ASSUME ManagerInv, NEW fd \in Fds, LeaveQueue(fd)
  PROVE  /\ Waiting = {1}
         /\ waiting_players[1] = fd
         /\ waiting_players' = [waiting_players EXCEPT ![1] = NoFd]
         /\ Waiting' = {}
<1>1. WaitsAt(fd) = {1} /\ Waiting = {1}
  BY DEF LeaveQueue, WaitsAt, ManagerInv, OneWaiter
<1>2. First(WaitsAt(fd)) = 1
  BY <1>1, FirstIsLeast
<1>3. waiting_players' = [waiting_players EXCEPT ![1] = NoFd]
  BY <1>2 DEF LeaveQueue
<1>4. QED
  BY <1>1, <1>3, SlotFacts DEF Waiting, WaitsAt, ManagerInv, ManagerTypeOK

(* What ending a game writes: one live slot becomes dead.                  *)
LEMMA EndGameEffect ==
  ASSUME ManagerInv, NEW s \in GameSlots, EndGame(s)
  PROVE  /\ Active' = Active \ {s}
         /\ \A t \in GameSlots \ {s} : active_games'[t] = active_games[t]
BY DEF EndGame, Active, ManagerInv, ManagerTypeOK, Game

-----------------------------------------------------------------------------
(* init_match_manager establishes the invariant.                           *)
LEMMA ManagerInvInit == InitManager => ManagerInv
<1> SUFFICES ASSUME InitManager PROVE ManagerInv
  OBVIOUS
<1>1. Waiting = {} /\ Active = {}
  BY DEF InitManager, Waiting, Active, EmptySlot
<1>2. ManagerTypeOK
  BY DEF InitManager, ManagerTypeOK, EmptySlot, Game
<1>3. CountsExact
  BY <1>1, FS_EmptySet DEF InitManager, CountsExact
<1>4. QED
  BY <1>1, <1>2, <1>3 DEF ManagerInv, OneWaiter, LiveGamesDistinct

(* Joining the queue preserves the invariant.                              *)
LEMMA EnterQueueInv ==
  ASSUME ManagerInv, NEW fd \in Fds, EnterQueue(fd)
  PROVE  ManagerInv'
<1>1. waiting_players' = [waiting_players EXCEPT ![1] = fd] /\ Waiting' = {1}
  BY EnterQueueEffect
<1>2. UNCHANGED <<active_games, active_game_count, counter>> /\ Waiting = {}
  BY DEF EnterQueue
<1>3. Active' = Active
  BY <1>2 DEF Active
<1>4. ManagerTypeOK'
  <2>1. waiting_players' \in [WaitSlots -> Fds \cup {NoFd}]
    BY <1>1 DEF ManagerInv, ManagerTypeOK
  <2>2. waiting_count' \in Int
    BY DEF ManagerInv, ManagerTypeOK, EnterQueue
  <2>3. QED
    BY <1>2, <2>1, <2>2 DEF ManagerInv, ManagerTypeOK
<1>5. CountsExact'
  <2>1. waiting_count = 0
    BY <1>2, FS_EmptySet DEF ManagerInv, CountsExact
  <2>2. Cardinality(Waiting') = 1
    BY <1>1, FS_Singleton
  <2>3. QED
    BY <1>2, <1>3, <2>1, <2>2 DEF ManagerInv, CountsExact, EnterQueue
<1>6. LiveGamesDistinct'
  BY <1>2, <1>3 DEF ManagerInv, LiveGamesDistinct, PlayersOf
<1>7. QED
  BY <1>1, <1>4, <1>5, <1>6 DEF ManagerInv, OneWaiter

(* Pairing two players preserves the invariant: the slot it overwrites     *)
(* holds no live game and the id it writes is above every id in use.       *)
LEMMA StartGameInv ==
  ASSUME ManagerInv, NEW fd \in Fds, NEW fd_is_white \in BOOLEAN,
         StartGame(fd, fd_is_white)
  PROVE  ManagerInv'
<1> DEFINE other == waiting_players[1]
           new == [is_active |-> TRUE, game_id |-> counter,
                   white |-> IF fd_is_white THEN fd ELSE other,
                   black |-> IF fd_is_white THEN other ELSE fd]
<1>1. /\ Waiting = {1} /\ other \in Fds /\ Waiting' = {}
      /\ waiting_players' = [waiting_players EXCEPT ![1] = NoFd]
  BY StartGameEffect
<1>2. PICK s \in GameSlots \ Active :
        /\ active_games' = [active_games EXCEPT ![s] = new]
        /\ Active' = Active \cup {s}
  BY StartGameEffect
<1>3. /\ counter' = counter + 1
      /\ waiting_count' = waiting_count - 1
      /\ active_game_count' = active_game_count + 1
  BY DEF StartGame
<1>4. /\ new.game_id = counter /\ new.white \in Fds /\ new.black \in Fds
      /\ counter \in Nat \ {0}
  BY <1>1 DEF ManagerInv, ManagerTypeOK
<1>5. new \in Game
  BY <1>4 DEF Game
<1> HIDE DEF new
<1>6. ManagerTypeOK'
  <2>1. waiting_players' \in [WaitSlots -> Fds \cup {NoFd}]
    BY <1>1 DEF ManagerInv, ManagerTypeOK
  <2>2. active_games' \in [GameSlots -> Game]
    BY <1>2, <1>5 DEF ManagerInv, ManagerTypeOK
  <2>3. waiting_count' \in Int /\ active_game_count' \in Int /\ counter' \in Nat \ {0}
    BY <1>3 DEF ManagerInv, ManagerTypeOK
  <2>4. QED
    BY <2>1, <2>2, <2>3 DEF ManagerTypeOK
<1>7. CountsExact'
  <2>1. waiting_count = 1
    BY <1>1, FS_Singleton DEF ManagerInv, CountsExact
  <2>2. Cardinality(Waiting') = 0
    BY <1>1, FS_EmptySet
  <2>3. Cardinality(Active') = Cardinality(Active) + 1
    BY <1>2, ActiveFinite, FS_AddElement
  <2>4. QED
    BY <1>3, <2>1, <2>2, <2>3 DEF ManagerInv, CountsExact
<1>8. LiveGamesDistinct'
  <2>1. active_games'[s] = new
    BY <1>2 DEF ManagerInv, ManagerTypeOK
  <2>2. \A t \in Active : t # s /\ active_games'[t] = active_games[t]
    BY <1>2, ActiveFinite DEF ManagerInv, ManagerTypeOK
  <2>3. \A t \in Active : active_games[t].game_id \in 1..(counter - 1)
    BY DEF ManagerInv, LiveGamesDistinct
  <2>4. ASSUME NEW t \in Active'
        PROVE  /\ {active_games'[t].white, active_games'[t].black} \subseteq Fds
               /\ active_games'[t].game_id \in 1..(counter' - 1)
    <3>1. CASE t = s
      BY <3>1, <1>3, <1>4, <2>1
    <3>2. CASE t \in Active
      BY <3>2, <1>3, <1>4, <2>2, <2>3 DEF ManagerInv, LiveGamesDistinct, PlayersOf
    <3>3. QED
      BY <1>2, <3>1, <3>2
  <2>5. ASSUME NEW t \in Active', NEW u \in Active',
               active_games'[t].game_id = active_games'[u].game_id
        PROVE  t = u
    <3>1. CASE t = s /\ u \in Active
      BY <3>1, <2>1, <2>2, <2>3, <2>5, <1>4
    <3>2. CASE u = s /\ t \in Active
      BY <3>2, <2>1, <2>2, <2>3, <2>5, <1>4
    <3>3. CASE t \in Active /\ u \in Active
      BY <3>3, <2>2, <2>5 DEF ManagerInv, LiveGamesDistinct
    <3>4. QED
      BY <1>2, <3>1, <3>2, <3>3
  <2>6. QED
    BY <2>4, <2>5 DEF LiveGamesDistinct, PlayersOf
<1>9. QED
  BY <1>1, <1>6, <1>7, <1>8 DEF ManagerInv, OneWaiter

(* Leaving the queue preserves the invariant.                              *)
LEMMA LeaveQueueInv ==
  ASSUME ManagerInv, NEW fd \in Fds, LeaveQueue(fd)
  PROVE  ManagerInv'
<1>1. /\ Waiting = {1} /\ Waiting' = {}
      /\ waiting_players' = [waiting_players EXCEPT ![1] = NoFd]
  BY LeaveQueueEffect
<1>2. /\ UNCHANGED <<active_games, active_game_count, counter>>
      /\ waiting_count' = waiting_count - 1
  BY DEF LeaveQueue
<1>3. Active' = Active
  BY <1>2 DEF Active
<1>4. ManagerTypeOK'
  <2>1. waiting_players' \in [WaitSlots -> Fds \cup {NoFd}]
    BY <1>1 DEF ManagerInv, ManagerTypeOK
  <2>2. waiting_count' \in Int
    BY <1>2 DEF ManagerInv, ManagerTypeOK
  <2>3. QED
    BY <1>2, <2>1, <2>2 DEF ManagerInv, ManagerTypeOK
<1>5. CountsExact'
  <2>1. waiting_count = 1
    BY <1>1, FS_Singleton DEF ManagerInv, CountsExact
  <2>2. Cardinality(Waiting') = 0
    BY <1>1, FS_EmptySet
  <2>3. QED
    BY <1>2, <1>3, <2>1, <2>2 DEF ManagerInv, CountsExact
<1>6. LiveGamesDistinct'
  BY <1>2, <1>3 DEF ManagerInv, LiveGamesDistinct, PlayersOf
<1>7. QED
  BY <1>1, <1>4, <1>5, <1>6 DEF ManagerInv, OneWaiter

(* Ending a game preserves the invariant, whichever thread does it.        *)
LEMMA EndGameInv ==
  ASSUME ManagerInv, NEW s \in GameSlots, EndGame(s)
  PROVE  ManagerInv'
<1>1. /\ Active' = Active \ {s}
      /\ \A t \in GameSlots \ {s} : active_games'[t] = active_games[t]
  BY EndGameEffect
<1>2. /\ UNCHANGED <<waiting_players, waiting_count, counter>>
      /\ active_game_count' = active_game_count - 1
      /\ s \in Active
  BY DEF EndGame
<1>3. Waiting' = Waiting
  BY <1>2 DEF Waiting
<1>4. ManagerTypeOK'
  <2>1. active_games' \in [GameSlots -> Game]
    BY DEF ManagerInv, ManagerTypeOK, EndGame, Game
  <2>2. active_game_count' \in Int
    BY <1>2 DEF ManagerInv, ManagerTypeOK
  <2>3. QED
    BY <1>2, <2>1, <2>2 DEF ManagerInv, ManagerTypeOK
<1>5. CountsExact'
  <2>1. Cardinality(Active') = Cardinality(Active) - 1
    BY <1>1, <1>2, ActiveFinite, FS_RemoveElement
  <2>2. QED
    BY <1>2, <1>3, <2>1 DEF ManagerInv, CountsExact
<1>6. LiveGamesDistinct'
  <2>1. \A t \in Active' : t \in Active /\ active_games'[t] = active_games[t]
    BY <1>1, ActiveFinite
  <2>2. QED
    BY <1>2, <2>1 DEF ManagerInv, LiveGamesDistinct, PlayersOf
<1>7. QED
  BY <1>3, <1>4, <1>5, <1>6 DEF ManagerInv, OneWaiter

(* A step that leaves the tables alone preserves the invariant.            *)
LEMMA ManagerInvStutter ==
  ASSUME ManagerInv, UNCHANGED managerVars
  PROVE  ManagerInv'
BY DEF managerVars, ManagerInv, ManagerTypeOK, OneWaiter, CountsExact,
       LiveGamesDistinct, Waiting, Active, PlayersOf

(* remove_game ends one live game or changes nothing.                      *)
LEMMA RemoveGameCases ==
  ASSUME NEW id, RemoveGame(id)
  PROVE  UNCHANGED managerVars \/ \E s \in GameSlots : EndGame(s)
<1> DEFINE hits == {s \in Active : active_games[s].game_id = id}
<1>1. CASE hits = {}
  BY <1>1 DEF RemoveGame
<1>2. CASE hits # {}
  <2>1. hits \in SUBSET Nat /\ hits \subseteq GameSlots
    BY ActiveFinite, SlotFacts
  <2>2. First(hits) \in hits
    BY <1>2, <2>1, FirstIsLeast
  <2>3. EndGame(First(hits))
    BY <1>2 DEF RemoveGame
  <2>4. QED
    BY <2>1, <2>2, <2>3
<1>3. QED
  BY <1>1, <1>2

(* Every call of the match manager preserves the invariant.                 *)
LEMMA ManagerInvStep == ManagerInv /\ [ManagerNext]_managerVars => ManagerInv'
<1> SUFFICES ASSUME ManagerInv, [ManagerNext]_managerVars PROVE ManagerInv'
  OBVIOUS
<1>1. CASE \E fd \in Fds : EnterQueue(fd)
  BY <1>1, EnterQueueInv
<1>2. CASE \E fd \in Fds, fd_is_white \in BOOLEAN : StartGame(fd, fd_is_white)
  BY <1>2, StartGameInv
<1>3. CASE NoGameSlot
  BY <1>3, ManagerInvStutter DEF NoGameSlot
<1>4. CASE \E fd \in Fds : LeaveQueue(fd)
  BY <1>4, LeaveQueueInv
<1>5. CASE \E s \in GameSlots : EndGame(s)
  BY <1>5, EndGameInv
<1>6. CASE \E id \in GameIds : RemoveGame(id)
  BY <1>6, RemoveGameCases, EndGameInv, ManagerInvStutter
<1>7. CASE UNCHANGED managerVars
  BY <1>7, ManagerInvStutter
<1>8. QED
  BY <1>1, <1>2, <1>3, <1>4, <1>5, <1>6, <1>7 DEF ManagerNext

(* Whatever sequence of calls the two threads make, the tables and the     *)
(* counters of the match manager satisfy the invariant.                    *)
THEOREM ManagerInvariant == ManagerSpec => []ManagerInv
<1>1. QED
  BY ManagerInvInit, ManagerInvStep, PTL DEF ManagerSpec

(* The counters are exact, for tables of every size. *)
THEOREM ManagerCountsExact == ManagerSpec => []CountsExact
<1>1. ManagerInv => CountsExact
  BY DEF ManagerInv
<1>2. QED
  BY <1>1, ManagerInvariant, PTL

(* Live games have different ids, for tables of every size. *)
THEOREM ManagerGamesDistinct == ManagerSpec => []LiveGamesDistinct
<1>1. ManagerInv => LiveGamesDistinct
  BY DEF ManagerInv
<1>2. QED
  BY <1>1, ManagerInvariant, PTL

(* One player waits at most, for tables of every size. *)
THEOREM ManagerOneWaiter == ManagerSpec => []OneWaiter
<1>1. ManagerInv => OneWaiter
  BY DEF ManagerInv
<1>2. QED
  BY <1>1, ManagerInvariant, PTL

-----------------------------------------------------------------------------
(* The tables implement the lobby.                                         *)

Matches == {Match(s) : s \in Active}

(* As many abstract games as live slots at most: with a free slot there is *)
(* room in the lobby.                                                      *)
LEMMA RoomForAMatch ==
  ASSUME Active # GameSlots
  PROVE  Cardinality(Matches) < MAX_ACTIVE_GAMES
<1> DEFINE f == [s \in Active |-> Match(s)]
<1>1. f \in Surjection(Active, Matches)
  BY DEF Surjection, Matches
<1>2. IsFiniteSet(Matches) /\ Cardinality(Matches) <= Cardinality(Active)
  BY <1>1, ActiveFinite, FS_Surjection
<1>3. Cardinality(Active) <= Cardinality(GameSlots)
      /\ Cardinality(Active) # Cardinality(GameSlots)
  BY ActiveFinite, SlotFacts, FS_Subset
<1>4. Cardinality(Matches) \in Nat /\ Cardinality(Active) \in Nat
  BY <1>2, ActiveFinite, FS_CardinalityType
<1>5. QED
  BY <1>2, <1>3, <1>4, SlotFacts, ManagerAssumption

(* The lobby counts with the same Cardinality.                             *)
LEMMA SameCardinality ==
  ASSUME NEW S
  PROVE  L!Cardinality(S) = Cardinality(S)
BY DEF L!Cardinality, Cardinality

(* The empty tables are the empty lobby.                                   *)
LEMMA LobbyInit == InitManager => L!Init
<1> SUFFICES ASSUME InitManager PROVE L!Init
  OBVIOUS
<1>1. Active = {}
  BY DEF InitManager, Active, EmptySlot
<1>2. waiting_players[1] = NoFd
  BY SlotFacts DEF InitManager
<1>3. {Match(s) : s \in Active} = {} /\ counter - 1 = 0
  BY <1>1 DEF InitManager
<1>4. QED
  BY <1>2, <1>3 DEF L!Init

(* Joining the empty queue is waiting in the lobby.                         *)
LEMMA EnterQueueIsWait ==
  ASSUME ManagerInv, NEW fd \in Fds, EnterQueue(fd)
  PROVE  L!Wait(fd)
<1>1. waiting_players' = [waiting_players EXCEPT ![1] = fd]
  BY EnterQueueEffect
<1>2. waiting_players[1] = NoFd /\ waiting_players'[1] = fd
  BY <1>1, SlotFacts DEF EnterQueue, Waiting, ManagerInv, ManagerTypeOK
<1>3. UNCHANGED active_games /\ UNCHANGED counter
  BY DEF EnterQueue
<1>4. Active' = Active
  BY <1>3 DEF Active
<1>5. {Match(s) : s \in Active}' = {Match(s) : s \in Active}
  BY <1>3, <1>4 DEF Match
<1>6. QED
  BY <1>2, <1>3, <1>5 DEF L!Wait

(* Starting a game is pairing in the lobby.                                 *)
LEMMA StartGameIsPair ==
  ASSUME ManagerInv, NEW fd \in Fds, NEW fd_is_white \in BOOLEAN,
         StartGame(fd, fd_is_white)
  PROVE  L!Pair(fd)
<1> DEFINE other == waiting_players[1]
           W == IF fd_is_white THEN fd ELSE other
           B == IF fd_is_white THEN other ELSE fd
           new == [is_active |-> TRUE, game_id |-> counter, white |-> W, black |-> B]
           m == [game_id |-> counter, white |-> W, black |-> B]
<1>1. /\ other \in Fds
      /\ waiting_players' = [waiting_players EXCEPT ![1] = NoFd]
  BY StartGameEffect
<1>2. PICK s \in GameSlots \ Active :
        /\ active_games' = [active_games EXCEPT ![s] = new]
        /\ Active' = Active \cup {s}
  BY StartGameEffect
<1>3. counter' = counter + 1 /\ Active # GameSlots
  BY DEF StartGame
<1>4. counter \in Nat \ {0}
  BY DEF ManagerInv, ManagerTypeOK
<1>5. waiting_players[1] # NoFd /\ waiting_players'[1] = NoFd
  BY <1>1, SlotFacts, ManagerAssumption DEF ManagerInv, ManagerTypeOK
<1>6. Cardinality({Match(t) : t \in Active}) < MAX_ACTIVE_GAMES
  BY <1>3, RoomForAMatch DEF Matches
<1>7. {Match(t) : t \in Active}' = {Match(t) : t \in Active} \cup {m}
  <2>1. Match(s)' = m
    BY <1>2 DEF Match, ManagerInv, ManagerTypeOK
  <2>2. \A t \in Active : Match(t)' = Match(t)
    BY <1>2, ActiveFinite DEF Match, ManagerInv, ManagerTypeOK
  <2> HIDE DEF m
  <2>3. QED
    BY <1>2, <2>1, <2>2
<1>8. m = [game_id |-> (counter - 1) + 1, white |-> W, black |-> B]
  BY <1>4
<1>9. W \in {fd, other} /\ B \in {fd, other} /\ {W, B} = {fd, other}
  OBVIOUS
<1>10. counter' - 1 = (counter - 1) + 1
  BY <1>3, <1>4
<1> HIDE DEF W, B, m
<1>11. \E white \in {fd, waiting_players[1]}, black \in {fd, waiting_players[1]} :
         /\ {white, black} = {fd, waiting_players[1]}
         /\ {Match(t) : t \in Active}' = {Match(t) : t \in Active} \cup
              {[game_id |-> (counter - 1) + 1, white |-> white, black |-> black]}
  BY <1>7, <1>8, <1>9
<1>12. L!Cardinality({Match(t) : t \in Active}) < MAX_ACTIVE_GAMES
  BY <1>6, SameCardinality
<1>13. QED
  BY <1>5, <1>10, <1>11, <1>12 DEF L!Pair

(* Clearing the waiting entry is leaving the lobby.                         *)
LEMMA LeaveQueueIsLeave ==
  ASSUME ManagerInv, NEW fd \in Fds, LeaveQueue(fd)
  PROVE  L!Leave
<1>1. waiting_players[1] = fd /\ waiting_players' = [waiting_players EXCEPT ![1] = NoFd]
  BY LeaveQueueEffect
<1>2. waiting_players[1] # NoFd /\ waiting_players'[1] = NoFd
  BY <1>1, SlotFacts, ManagerAssumption DEF ManagerInv, ManagerTypeOK
<1>3. UNCHANGED active_games /\ UNCHANGED counter
  BY DEF LeaveQueue
<1>4. Active' = Active
  BY <1>3 DEF Active
<1>5. {Match(s) : s \in Active}' = {Match(s) : s \in Active}
  BY <1>3, <1>4 DEF Match
<1>6. QED
  BY <1>2, <1>3, <1>5 DEF L!Leave

(* Clearing is_active finishes exactly one match of the lobby.              *)
LEMMA EndGameIsFinish ==
  ASSUME ManagerInv, NEW s \in GameSlots, EndGame(s)
  PROVE  \E m \in {Match(t) : t \in Active} : L!Finish(m)
<1>1. /\ Active' = Active \ {s}
      /\ \A t \in GameSlots \ {s} : active_games'[t] = active_games[t]
  BY EndGameEffect
<1>2. s \in Active /\ UNCHANGED waiting_players /\ UNCHANGED counter
  BY DEF EndGame
<1>3. \A t \in Active : Match(t) = Match(s) => t = s
  BY <1>2 DEF Match, ManagerInv, LiveGamesDistinct
<1>4. \A t \in Active' : Match(t)' = Match(t)
  BY <1>1, ActiveFinite DEF Match
<1>5. {Match(t) : t \in Active}' = {Match(t) : t \in Active} \ {Match(s)}
  BY <1>1, <1>2, <1>3, <1>4
<1>6. L!Finish(Match(s))
  BY <1>2, <1>5 DEF L!Finish
<1>7. QED
  BY <1>2, <1>6

(* Untouched tables are an untouched lobby.                                 *)
LEMMA StutterIsStutter ==
  ASSUME UNCHANGED managerVars
  PROVE  UNCHANGED L!lobbyVars
<1>1. UNCHANGED active_games /\ UNCHANGED counter /\ UNCHANGED waiting_players
  BY DEF managerVars
<1>2. Active' = Active
  BY <1>1 DEF Active
<1>3. {Match(s) : s \in Active}' = {Match(s) : s \in Active}
  BY <1>1, <1>2 DEF Match
<1>4. QED
  BY <1>1, <1>3 DEF L!lobbyVars

(* Every call of the match manager is a step of the lobby, or none.         *)
LEMMA LobbyStep ==
  ManagerInv /\ [ManagerNext]_managerVars => [L!Next]_L!lobbyVars
<1> SUFFICES ASSUME ManagerInv, [ManagerNext]_managerVars
             PROVE  L!Next \/ UNCHANGED L!lobbyVars
  OBVIOUS
<1>1. CASE \E fd \in Fds : EnterQueue(fd)
  BY <1>1, EnterQueueIsWait DEF L!Next
<1>2. CASE \E fd \in Fds, fd_is_white \in BOOLEAN : StartGame(fd, fd_is_white)
  BY <1>2, StartGameIsPair DEF L!Next
<1>3. CASE NoGameSlot
  BY <1>3, StutterIsStutter DEF NoGameSlot
<1>4. CASE \E fd \in Fds : LeaveQueue(fd)
  BY <1>4, LeaveQueueIsLeave DEF L!Next
<1>5. CASE \E s \in GameSlots : EndGame(s)
  BY <1>5, EndGameIsFinish DEF L!Next
<1>6. CASE \E id \in GameIds : RemoveGame(id)
  BY <1>6, RemoveGameCases, EndGameIsFinish, StutterIsStutter DEF L!Next
<1>7. CASE UNCHANGED managerVars
  BY <1>7, StutterIsStutter
<1>8. QED
  BY <1>1, <1>2, <1>3, <1>4, <1>5, <1>6, <1>7 DEF ManagerNext

(* The match manager implements the lobby: one waiting player, pairings    *)
(* with fresh ids, never more than MAX_ACTIVE_GAMES games.                 *)
THEOREM ManagerImplementsLobby == ManagerSpec => ImplementsLobby
<1>1. QED
  BY LobbyInit, LobbyStep, ManagerInvariant, PTL DEF ManagerSpec, ImplementsLobby, L!Spec

-----------------------------------------------------------------------------
(* The two threads. *)

(* The steps of the two threads that leave the manager's tables alone. *)
LEMMA OutsideSteps ==
  ASSUME \/ \E fd \in Fds : Accept(fd) \/ Move(fd)
         \/ MatchNotify \/ MoveRejected \/ MoveApplied \/ MoveStamped
         \/ MoveReplied \/ MoveBroadcast \/ Close \/ TimerLocks \/ TimerPasses
  PROVE  UNCHANGED managerVars
BY DEF Accept, Move, MatchNotify, MoveRejected, MoveApplied, MoveStamped,
       MoveReplied, MoveBroadcast, Close, TimerLocks, TimerPasses

(* A live slot is a slot. *)
LEMMA EndGameSlot ==
  ASSUME NEW s, EndGame(s)
  PROVE  s \in GameSlots /\ \E t \in GameSlots : EndGame(t)
BY DEF EndGame, Active

(* MATCH_GAME is one of the three outcomes of add_player_to_matching. *)
LEMMA MatchGameStep ==
  ASSUME NEW fd \in Fds, MatchGame(fd)
  PROVE  \/ EnterQueue(fd) /\ UNCHANGED main
         \/ NoGameSlot /\ UNCHANGED main
         \/ \E fd_is_white \in BOOLEAN : StartGame(fd, fd_is_white)
BY DEF MatchGame

(* Every step of the server is a call of the match manager or none. *)
LEMMA StepIsManagerStep == [Next]_vars => [ManagerNext]_managerVars
<1> SUFFICES ASSUME [Next]_vars PROVE [ManagerNext]_managerVars
  OBVIOUS
<1>1. CASE UNCHANGED vars
  BY <1>1 DEF vars
<1>2. CASE \/ \E fd \in Fds : Accept(fd) \/ Move(fd)
           \/ MatchNotify \/ MoveRejected \/ MoveApplied \/ MoveStamped
           \/ MoveReplied \/ MoveBroadcast \/ Close \/ TimerLocks \/ TimerPasses
  BY <1>2, OutsideSteps
<1>3. ASSUME NEW fd \in Fds, MatchGame(fd) PROVE ManagerNext
  BY <1>3, MatchGameStep DEF ManagerNext
<1>4. ASSUME NEW fd \in Fds, CancelMatch(fd) PROVE ManagerNext
  BY <1>4 DEF CancelMatch, ManagerNext
<1>5. ASSUME NEW fd \in Fds, Resign(fd) PROVE ManagerNext
  <2>1. EndGame(First(GamesOf(fd)))
    BY <1>5 DEF Resign
  <2> QED BY <2>1, EndGameSlot DEF ManagerNext
<1>6. ASSUME NEW fd \in Fds, Disconnect(fd) PROVE [ManagerNext]_managerVars
  <2>1. \/ LeaveQueue(fd)
        \/ EndGame(First(GamesOf(fd)))
        \/ UNCHANGED managerVars
    BY <1>6 DEF Disconnect
  <2> QED BY <2>1, EndGameSlot DEF ManagerNext
<1>7. CASE MoveRemoves
  <2>1. RemoveGame(active_games[main.slot].game_id)
    BY <1>7 DEF MoveRemoves
  <2> QED BY <2>1, RemoveGameCases DEF ManagerNext
<1>8. CASE TimerExpires
  <2>1. EndGame(timer)
    BY <1>8 DEF TimerExpires
  <2> QED BY <2>1, EndGameSlot DEF ManagerNext
<1> QED
  BY <1>1, <1>2, <1>3, <1>4, <1>5, <1>6, <1>7, <1>8 DEF Next, HandlerStep, TimerThread

(* The two threads, whose critical sections and unlocked steps interleave, *)
(* write the tables only as the match manager's operations would, so what  *)
(* is proved of ManagerSpec holds of the server.                           *)
THEOREM ServerUsesManager == Spec => ServerCallsManager
<1>1. Init => InitManager
  BY DEF Init
<1> QED BY <1>1, StepIsManagerStep, PTL DEF Spec, ServerCallsManager, ManagerSpec

(* The tables of the running server are consistent. *)
THEOREM ServerManagerInv == Spec => []ManagerInv
<1> QED BY ServerUsesManager, ManagerInvariant, PTL DEF ServerCallsManager

-----------------------------------------------------------------------------
(* What the main thread's local variables are worth: outside of epoll_wait *)
(* and close they name a slot, the game the handler found there and its    *)
(* two players.                                                            *)
ThreadInv ==
  /\ main \in [pc : Steps, fd : Fds \cup {NoFd}, slot : GameSlots \cup {0},
               game_id : Nat, opponent : Fds \cup {NoFd}]
  /\ main.slot # 0 <=> main.pc \notin {"epoll_wait", "close"}
  /\ main.slot # 0 => main.fd \in Fds /\ main.opponent \in Fds
  /\ HandlerSlotKept

(* The ids and the players stored in the slots stay. *)
SlotsKept ==
  \A s \in GameSlots :
    /\ active_games'[s].game_id = active_games[s].game_id
    /\ active_games'[s].white = active_games[s].white
    /\ active_games'[s].black = active_games[s].black

(* Ending a game, however it ends, leaves id and players in the slot. *)
LEMMA EndGameKeepsSlots ==
  ASSUME ManagerInv, NEW t, EndGame(t)
  PROVE  SlotsKept
BY EndGameSlot DEF ManagerInv, ManagerTypeOK, EndGame, SlotsKept, Game

(* So does every step but the start of a game. *)
LEMMA StepKeepsSlots ==
  ASSUME ManagerInv, [Next]_vars,
         ~ \E fd \in Fds, fd_is_white \in BOOLEAN : MatchGame(fd) /\ StartGame(fd, fd_is_white)
  PROVE  SlotsKept
<1>0. SUFFICES ASSUME UNCHANGED active_games PROVE SlotsKept
  <2>1. CASE UNCHANGED vars
    BY <1>0, <2>1 DEF vars, managerVars
  <2>2. CASE \/ \E fd \in Fds : Accept(fd) \/ Move(fd)
             \/ MatchNotify \/ MoveRejected \/ MoveApplied \/ MoveStamped
             \/ MoveReplied \/ MoveBroadcast \/ Close \/ TimerLocks \/ TimerPasses
    BY <1>0, <2>2, OutsideSteps DEF managerVars
  <2>3. ASSUME NEW fd \in Fds, MatchGame(fd) PROVE SlotsKept
    <3>1. EnterQueue(fd) \/ NoGameSlot
      BY <2>3, MatchGameStep
    <3> QED BY <1>0, <3>1 DEF EnterQueue, NoGameSlot, managerVars
  <2>4. ASSUME NEW fd \in Fds, CancelMatch(fd) PROVE SlotsKept
    BY <1>0, <2>4 DEF CancelMatch, LeaveQueue
  <2>5. ASSUME NEW fd \in Fds, Resign(fd) PROVE SlotsKept
    <3>1. EndGame(First(GamesOf(fd)))
      BY <2>5 DEF Resign
    <3> QED BY <3>1, EndGameKeepsSlots
  <2>6. ASSUME NEW fd \in Fds, Disconnect(fd) PROVE SlotsKept
    <3>1. \/ EndGame(First(GamesOf(fd)))
          \/ UNCHANGED active_games
      BY <2>6 DEF Disconnect, LeaveQueue, managerVars
    <3> QED BY <1>0, <3>1, EndGameKeepsSlots
  <2>7. CASE MoveRemoves
    <3>1. RemoveGame(active_games[main.slot].game_id)
      BY <2>7 DEF MoveRemoves
    <3>2. UNCHANGED active_games \/ \E t \in GameSlots : EndGame(t)
      BY <3>1, RemoveGameCases DEF managerVars
    <3> QED BY <1>0, <3>2, EndGameKeepsSlots
  <2>8. CASE TimerExpires
    BY <2>8, EndGameKeepsSlots DEF TimerExpires
  <2> QED
    BY <2>1, <2>2, <2>3, <2>4, <2>5, <2>6, <2>7, <2>8 DEF Next, HandlerStep, TimerThread
<1> QED BY <1>0 DEF SlotsKept

(* The slots and the local variables of the handler stay: so does the      *)
(* invariant, also when only the program counter moves inside the handler. *)
LEMMA SameHandler ==
  ASSUME ThreadInv, SlotsKept,
         \/ UNCHANGED main
         \/ /\ main.slot # 0
            /\ \E step \in Steps \ {"epoll_wait", "close"} : Goto(step)
  PROVE  ThreadInv'
<1>1. /\ main'.slot = main.slot /\ main'.fd = main.fd
      /\ main'.game_id = main.game_id /\ main'.opponent = main.opponent
      /\ main' \in [pc : Steps, fd : Fds \cup {NoFd}, slot : GameSlots \cup {0},
                    game_id : Nat, opponent : Fds \cup {NoFd}]
      /\ main'.slot # 0 <=> main'.pc \notin {"epoll_wait", "close"}
  BY DEF ThreadInv, Goto
<1>2. HandlerSlotKept'
  <2> SUFFICES ASSUME main'.slot # 0
               PROVE  /\ active_games'[main'.slot].game_id = main'.game_id
                      /\ {main'.fd, main'.opponent}
                           = {active_games'[main'.slot].white, active_games'[main'.slot].black}
    BY DEF HandlerSlotKept, PlayersOf
  <2>1. main.slot \in GameSlots
    BY <1>1 DEF ThreadInv
  <2> QED BY <1>1, <2>1 DEF ThreadInv, HandlerSlotKept, PlayersOf, SlotsKept
<1> QED BY <1>1, <1>2 DEF ThreadInv

(* The handler is done, or about to close the connection. *)
LEMMA HandlerDone ==
  ASSUME \/ Return
         \/ \E fd \in Fds : main' = [AtEpoll EXCEPT !.pc = "close", !.fd = fd]
  PROVE  ThreadInv'
<1>0. PICK pc \in {"epoll_wait", "close"}, fd \in Fds \cup {NoFd} :
        main' = [pc |-> pc, fd |-> fd, slot |-> 0, game_id |-> 0, opponent |-> NoFd]
  <2>1. CASE Return
    BY <2>1 DEF Return, AtEpoll
  <2>2. ASSUME NEW fd \in Fds, main' = [AtEpoll EXCEPT !.pc = "close", !.fd = fd]
        PROVE  main' = [pc |-> "close", fd |-> fd, slot |-> 0, game_id |-> 0, opponent |-> NoFd]
    BY <2>2 DEF AtEpoll
  <2> QED BY <2>1, <2>2
<1>1. main'.slot = 0 /\ main'.pc \in {"epoll_wait", "close"}
  BY <1>0
<1>2. main' \in [pc : Steps, fd : Fds \cup {NoFd}, slot : GameSlots \cup {0},
                game_id : Nat, opponent : Fds \cup {NoFd}]
  BY <1>0 DEF Steps
<1> QED BY <1>1, <1>2 DEF ThreadInv, HandlerSlotKept

(* handle_move_message finds the game. *)
LEMMA MoveFinds ==
  ASSUME ManagerInv, NEW fd \in Fds, Move(fd)
  PROVE  ThreadInv'
<1> DEFINE s == First(GamesOf(fd))
<1>1. s \in GamesOf(fd)
  <2>1. GamesOf(fd) \in SUBSET Nat /\ GamesOf(fd) # {}
    BY SlotFacts, ActiveFinite DEF Move, GamesOf
  <2> QED BY <2>1, FirstIsLeast
<1>2. s \in GameSlots /\ s \in Active /\ fd \in PlayersOf(s) /\ s \in Nat /\ s # 0
  BY <1>1, ManagerAssumption DEF GamesOf, Active, GameSlots
<1>3. main' = [pc |-> "move_check", fd |-> fd, slot |-> s,
               game_id |-> active_games[s].game_id, opponent |-> OpponentOf(fd, s)]
  BY DEF Move
<1>4. UNCHANGED active_games
  BY DEF Move, managerVars
<1>5. {fd, OpponentOf(fd, s)} = PlayersOf(s)
  BY <1>2 DEF OpponentOf, PlayersOf
<1>6. OpponentOf(fd, s) \in Fds /\ active_games[s].game_id \in Nat
  BY <1>2, <1>5 DEF ManagerInv, ManagerTypeOK, LiveGamesDistinct, Game
<1> HIDE DEF s
<1>7. main' \in [pc : Steps, fd : Fds \cup {NoFd}, slot : GameSlots \cup {0},
                game_id : Nat, opponent : Fds \cup {NoFd}]
  BY <1>2, <1>3, <1>6 DEF Steps
<1>8. /\ active_games'[s].game_id = active_games[s].game_id
      /\ {active_games'[s].white, active_games'[s].black} = PlayersOf(s)
  BY <1>4 DEF PlayersOf
<1>9. HandlerSlotKept'
  BY <1>3, <1>5, <1>8 DEF HandlerSlotKept, PlayersOf
<1> QED BY <1>2, <1>3, <1>6, <1>7, <1>9 DEF ThreadInv

(* add_player_to_matching starts a game. *)
LEMMA MatchStarts ==
  ASSUME ManagerInv, NEW fd \in Fds, NEW fd_is_white \in BOOLEAN,
         Quiet, ThreadInv, MatchGame(fd), StartGame(fd, fd_is_white)
  PROVE  ThreadInv'
<1> DEFINE other == waiting_players[1]
           new == [is_active |-> TRUE, game_id |-> counter,
                   white |-> IF fd_is_white THEN fd ELSE other,
                   black |-> IF fd_is_white THEN other ELSE fd]
<1>1. PICK s \in GameSlots \ Active :
        /\ s = First(GameSlots \ Active)
        /\ active_games' = [active_games EXCEPT ![s] = new]
  BY StartGameEffect
<1>2. Waiting = {1} /\ other \in Fds /\ First(Waiting) = 1
  BY StartGameEffect, FirstIsLeast
<1>3. \/ UNCHANGED active_games
      \/ main' = [pc |-> "match_notify", fd |-> fd, slot |-> s,
                  game_id |-> counter, opponent |-> other]
  BY <1>1, <1>2 DEF MatchGame, EnterQueue, NoGameSlot, managerVars
<1>4. active_games' # active_games /\ active_games'[s] = new
  <2>1. active_games'[s] = new
    BY <1>1 DEF ManagerInv, ManagerTypeOK
  <2>2. ~active_games[s].is_active /\ new.is_active
    BY <1>1 DEF Active
  <2> QED BY <2>1, <2>2
<1>5. main' = [pc |-> "match_notify", fd |-> fd, slot |-> s,
               game_id |-> counter, opponent |-> other]
  BY <1>3, <1>4
<1>6. s # 0 /\ counter \in Nat
  BY <1>1, ManagerAssumption DEF GameSlots, ManagerInv, ManagerTypeOK
<1>7. main' \in [pc : Steps, fd : Fds \cup {NoFd}, slot : GameSlots \cup {0},
                game_id : Nat, opponent : Fds \cup {NoFd}]
  BY <1>1, <1>2, <1>5, <1>6 DEF Steps
<1>8. HandlerSlotKept'
  <2>1. /\ active_games'[s].game_id = counter
        /\ {active_games'[s].white, active_games'[s].black} = {fd, other}
    BY <1>4
  <2> QED BY <2>1, <1>5 DEF HandlerSlotKept, PlayersOf
<1> QED BY <1>2, <1>5, <1>6, <1>7, <1>8 DEF ThreadInv

(* Every step keeps the invariant of the main thread. *)
LEMMA ThreadInvStep == ManagerInv /\ ThreadInv /\ [Next]_vars => ThreadInv'
<1> SUFFICES ASSUME ManagerInv, ThreadInv, [Next]_vars PROVE ThreadInv'
  OBVIOUS
<1>1. CASE \E fd \in Fds, fd_is_white \in BOOLEAN :
             MatchGame(fd) /\ StartGame(fd, fd_is_white)
  BY <1>1, MatchStarts DEF MatchGame, Request
<1>2. CASE ~ \E fd \in Fds, fd_is_white \in BOOLEAN :
               MatchGame(fd) /\ StartGame(fd, fd_is_white)
  <2>1. SlotsKept
    BY <1>2, StepKeepsSlots
  <2>2. \/ UNCHANGED main
        \/ Return
        \/ \E fd \in Fds : main' = [AtEpoll EXCEPT !.pc = "close", !.fd = fd]
        \/ \E fd \in Fds : Move(fd)
        \/ /\ main.pc \notin {"epoll_wait", "close"}
           /\ \E step \in Steps \ {"epoll_wait", "close"} : Goto(step)
    <3>1. CASE UNCHANGED vars
      BY <3>1 DEF vars, serverVars
    <3>2. ASSUME NEW fd \in Fds, MatchGame(fd) PROVE UNCHANGED main
      BY <1>2, <3>2, MatchGameStep
    <3>3. CASE \E fd \in Fds : Accept(fd) \/ CancelMatch(fd) \/ Resign(fd)
      BY <3>3 DEF Accept, CancelMatch, Resign, serverVars
    <3>4. CASE \E fd \in Fds : Disconnect(fd)
      BY <3>4 DEF Disconnect
    <3>5. CASE MatchNotify \/ MoveRejected \/ MoveRemoves \/ Close
      BY <3>5 DEF MatchNotify, MoveRejected, MoveRemoves, Close
    <3>6. CASE MoveApplied \/ MoveStamped \/ MoveReplied \/ MoveBroadcast
      BY <3>6 DEF MoveApplied, MoveStamped, MoveReplied, MoveBroadcast, Steps
    <3>7. CASE TimerThread
      BY <3>7 DEF TimerThread, TimerLocks, TimerPasses, TimerExpires
    <3> QED
      BY <3>1, <3>2, <3>3, <3>4, <3>5, <3>6, <3>7 DEF Next, HandlerStep
  <2>3. main.pc \notin {"epoll_wait", "close"} => main.slot # 0
    BY DEF ThreadInv
  <2> QED BY <2>1, <2>2, <2>3, SameHandler, HandlerDone, MoveFinds
<1> QED BY <1>1, <1>2

(* The event loop has no local variables yet. *)
LEMMA ThreadInvInit == Init => ThreadInv
<1> SUFFICES ASSUME Init PROVE ThreadInv
  OBVIOUS
<1>1. main = [pc |-> "epoll_wait", fd |-> NoFd, slot |-> 0, game_id |-> 0, opponent |-> NoFd]
  BY DEF Init, AtEpoll
<1>2. main \in [pc : Steps, fd : Fds \cup {NoFd}, slot : GameSlots \cup {0},
               game_id : Nat, opponent : Fds \cup {NoFd}]
  BY <1>1 DEF Steps
<1> QED BY <1>1, <1>2 DEF ThreadInv, HandlerSlotKept

(* Whatever the timer thread does between the steps of a handler, and for  *)
(* any number of connections and slots: the slot the handler found is not  *)
(* given to another game before the handler returns.                       *)
THEOREM ServerKeepsSlot == Spec => []HandlerSlotKept
<1>1. Init => ThreadInv
  BY ThreadInvInit
<1>2. Spec => []ThreadInv
  BY <1>1, ThreadInvStep, ServerManagerInv, PTL DEF Spec
<1>3. ThreadInv => HandlerSlotKept
  BY DEF ThreadInv
<1> QED BY <1>2, <1>3, PTL

-----------------------------------------------------------------------------
(* The histories and the positions, as the server's properties need them.  *)
Verdict == [to : Fds, how : {"move", "resign", "disconnect", "timeout"},
            winner : Team \cup {"none"}]

HistoryTypeOK ==
  /\ open \in SUBSET Fds
  /\ position \in [GameSlots -> [side_to_move : Team, result : Results]]
  /\ timer \in 0..MAX_ACTIVE_GAMES
  /\ told \in SUBSET GameSlots
  /\ verdicts \in [GameSlots -> SUBSET Verdict]
  /\ undelivered \in SUBSET GameSlots
  /\ unanswered \in SUBSET GameSlots

(* Ids are dealt once: also a slot whose game is over keeps an id that no   *)
(* other slot has, and 0 is the id of a slot never used.                   *)
IdsOnce ==
  \A s \in GameSlots :
    /\ active_games[s].game_id < counter
    /\ \A t \in GameSlots : active_games[s].game_id = active_games[t].game_id =>
         s = t \/ active_games[s].game_id = 0

(* The handler is between a step and the next one about slot s. *)
At(steps, s) == main.slot = s /\ main.pc \in steps
BeforeVerdict == {"move_check", "move_stamp", "move_reply", "move_broadcast"}
AfterMove == {"move_stamp", "move_reply", "move_broadcast", "move_remove"}

(* A live game that nobody was told of, or whose position is final, is     *)
(* being handled, or the start or the reply to that move was lost.         *)
Unnoticed ==
  \A s \in Active :
    /\ s \in told \cup undelivered \/ At({"match_notify"}, s)
    /\ position[s].result = "playing" \/ s \in unanswered \/ At(AfterMove, s)

(* A live game has no verdict yet but the one of the move that is about to *)
(* remove it; while a move is handled only the timer ends its game; the    *)
(* mover's verdict was sent to both players; and one path gives the same   *)
(* winner to both.                                                         *)
VerdictsOf(s) ==
  /\ s \in Active => verdicts[s] = {} \/ At({"move_remove"}, s)
  /\ s \in Active => \A v \in verdicts[s] : v.how = "move"
  /\ At(BeforeVerdict, s) => \A v \in verdicts[s] : v.how = "timeout"
  /\ At({"move_remove"}, s) => \A p \in {main.fd, main.opponent} : \E v \in verdicts[s] : v.to = p
  /\ \A v, w \in verdicts[s] :
       IF v.how = w.how THEN v.winner = w.winner ELSE {v.how, w.how} = {"move", "timeout"}
VerdictsInv == \A s \in GameSlots : VerdictsOf(s)

HistoryInv == HistoryTypeOK /\ IdsOnce /\ Unnoticed /\ VerdictsInv

(* A game that ends is one of the table's, between two descriptors. *)
LEMMA LiveGameFacts ==
  ASSUME ManagerInv, NEW s, s \in Active
  PROVE  /\ s \in GameSlots /\ PlayersOf(s) \in SUBSET Fds
         /\ active_games[s].game_id \in Nat /\ active_games[s].game_id > 0
BY DEF Active, ManagerInv, LiveGamesDistinct, ManagerTypeOK, Game

(* The first game of a descriptor is one of its games. *)
LEMMA FirstGame ==
  ASSUME ManagerInv, NEW fd, GamesOf(fd) # {}
  PROVE  First(GamesOf(fd)) \in Active /\ fd \in PlayersOf(First(GamesOf(fd)))
<1>1. GamesOf(fd) \in SUBSET Nat
  BY SlotFacts, ActiveFinite DEF GamesOf
<1>2. First(GamesOf(fd)) \in GamesOf(fd)
  BY <1>1, FirstIsLeast
<1> QED BY <1>2 DEF GamesOf

(* An end that is announced adds one verdict per recipient. *)
Added(s, recipients, how, winner) ==
  /\ verdicts' \in [GameSlots -> SUBSET Verdict]
  /\ \A t \in GameSlots \ {s} : verdicts'[t] = verdicts[t]
  /\ \A v \in verdicts'[s] : v \in verdicts[s] \/ (v.how = how /\ v.winner = winner)
  /\ verdicts[s] \subseteq verdicts'[s]
  /\ \A p \in recipients : \E v \in verdicts'[s] : v.to = p

LEMMA AnnounceAdds ==
  ASSUME HistoryTypeOK, NEW s \in GameSlots, NEW recipients \in SUBSET Fds,
         NEW how \in {"move", "resign", "disconnect", "timeout"},
         NEW winner \in Team \cup {"none"}, Announce(s, recipients, how, winner)
  PROVE  Added(s, recipients, how, winner)
<1>1. {[to |-> fd, how |-> how, winner |-> winner] : fd \in recipients} \in SUBSET Verdict
  BY DEF Verdict
<1>2. /\ verdicts' \in [GameSlots -> SUBSET Verdict]
      /\ verdicts'[s] = verdicts[s] \cup {[to |-> fd, how |-> how, winner |-> winner] : fd \in recipients}
      /\ \A t \in GameSlots \ {s} : verdicts'[t] = verdicts[t]
  BY <1>1 DEF Announce, HistoryTypeOK
<1>3. \A p \in recipients : \E v \in verdicts'[s] : v.to = p
  <2> TAKE p \in recipients
  <2>1. [to |-> p, how |-> how, winner |-> winner] \in verdicts'[s]
    BY <1>2
  <2> WITNESS [to |-> p, how |-> how, winner |-> winner] \in verdicts'[s]
  <2> QED OBVIOUS
<1>4. \A v \in verdicts'[s] : v \in verdicts[s] \/ (v.how = how /\ v.winner = winner)
  <2> SUFFICES ASSUME NEW v \in verdicts'[s], v \notin verdicts[s]
               PROVE  v.how = how /\ v.winner = winner
    OBVIOUS
  <2>1. PICK fd \in recipients : v = [to |-> fd, how |-> how, winner |-> winner]
    BY <1>2
  <2> QED BY <2>1
<1> QED BY <1>2, <1>3, <1>4 DEF Added

(* MATCH_GAME gives a slot to a new game, or leaves the games alone.       *)
Starts(fd, s, fd_is_white) ==
  /\ Waiting = {1} /\ Waiting' = {} /\ Active' = Active \cup {s}
  /\ waiting_players[1] \in Fds
  /\ active_games' = [active_games EXCEPT ![s] =
       [is_active |-> TRUE, game_id |-> counter,
        white |-> IF fd_is_white THEN fd ELSE waiting_players[1],
        black |-> IF fd_is_white THEN waiting_players[1] ELSE fd]]
  /\ counter' = counter + 1
  /\ position' = [position EXCEPT ![s] = StartPos]
  /\ main' = [pc |-> "match_notify", fd |-> fd, slot |-> s, game_id |-> counter,
              opponent |-> waiting_players[1]]
  /\ told' = told \ {s}
  /\ verdicts' = [verdicts EXCEPT ![s] = {}]
  /\ undelivered' = undelivered \ {s}
  /\ unanswered' = unanswered \ {s}

LEMMA MatchGameEffect ==
  ASSUME ManagerInv, NEW fd \in Fds, MatchGame(fd)
  PROVE  /\ UNCHANGED <<open, timer>>
         /\ \/ /\ EnterQueue(fd) \/ NoGameSlot
               /\ UNCHANGED <<active_games, counter, position, main, history>>
            \/ \E s \in GameSlots \ Active, fd_is_white \in BOOLEAN : Starts(fd, s, fd_is_white)
<1>1. CASE (EnterQueue(fd) \/ NoGameSlot) /\ UNCHANGED <<position, main, history>>
  BY <1>1 DEF MatchGame, EnterQueue, NoGameSlot, managerVars
<1>2. ASSUME NEW fd_is_white \in BOOLEAN, StartGame(fd, fd_is_white),
             NEW t, t = First(GameSlots \ Active), NEW w, w = waiting_players[First(Waiting)],
             position' = [position EXCEPT ![t] = StartPos],
             main' = [pc |-> "match_notify", fd |-> fd, slot |-> t, game_id |-> counter, opponent |-> w],
             told' = told \ {t}, verdicts' = [verdicts EXCEPT ![t] = {}],
             undelivered' = undelivered \ {t}, unanswered' = unanswered \ {t}
      PROVE  \E s \in GameSlots \ Active : Starts(fd, s, fd_is_white)
  <2>1. PICK s \in GameSlots \ Active :
          /\ s = First(GameSlots \ Active)
          /\ active_games' = [active_games EXCEPT ![s] =
               [is_active |-> TRUE, game_id |-> counter,
                white |-> IF fd_is_white THEN fd ELSE waiting_players[1],
                black |-> IF fd_is_white THEN waiting_players[1] ELSE fd]]
          /\ Active' = Active \cup {s}
    BY <1>2, StartGameEffect
  <2>2. /\ Waiting = {1} /\ Waiting' = {} /\ waiting_players[1] \in Fds
    BY <1>2, StartGameEffect
  <2>3. First(Waiting) = 1
    BY <2>2, FirstIsLeast
  <2>4. counter' = counter + 1
    BY <1>2 DEF StartGame
  <2> QED BY <1>2, <2>1, <2>2, <2>3, <2>4 DEF Starts
<1> QED BY <1>1, <1>2 DEF MatchGame

(* Types of positions, histories and the timer, step by step. *)
LEMMA HistoryTypeStep ==
  ASSUME ManagerInv, ThreadInv, HistoryTypeOK, [Next]_vars
  PROVE  HistoryTypeOK'
<1> USE DEF HistoryTypeOK
<1>1. CASE UNCHANGED vars
  BY <1>1 DEF vars, serverVars
<1>2. ASSUME NEW fd \in Fds, Accept(fd) \/ CancelMatch(fd) \/ Move(fd) PROVE HistoryTypeOK'
  BY <1>2 DEF Accept, CancelMatch, Move, history, serverVars
<1>3. ASSUME NEW fd \in Fds, MatchGame(fd) PROVE HistoryTypeOK'
  <2>1. StartPos \in [side_to_move : Team, result : Results]
    BY ServerAssumption DEF StartPos, Team
  <2>2. UNCHANGED <<open, timer>>
    BY <1>3, MatchGameEffect
  <2>3. CASE UNCHANGED <<position, history>>
    BY <2>2, <2>3 DEF history
  <2>4. ASSUME NEW s \in GameSlots \ Active, NEW b \in BOOLEAN, Starts(fd, s, b)
        PROVE  HistoryTypeOK'
    BY <2>1, <2>2, <2>4 DEF Starts
  <2> QED BY <1>3, <2>3, <2>4, MatchGameEffect
<1>4. ASSUME NEW fd \in Fds, Resign(fd) PROVE HistoryTypeOK'
  <2> DEFINE s == First(GamesOf(fd))
  <2>1. s \in GameSlots /\ PlayersOf(s) \in SUBSET Fds
    BY <1>4, FirstGame, LiveGameFacts DEF Resign
  <2>2. Announce(s, PlayersOf(s), "resign", Other(TeamOf(fd, s)))
    BY <1>4 DEF Resign
  <2>3. Other(TeamOf(fd, s)) \in Team
    BY DEF Other, TeamOf, Team
  <2> HIDE DEF s
  <2>4. verdicts' \in [GameSlots -> SUBSET Verdict]
    BY <2>1, <2>2, <2>3, AnnounceAdds DEF Added
  <2> QED BY <1>4, <2>4 DEF Resign
<1>5. ASSUME NEW fd \in Fds, Disconnect(fd) PROVE HistoryTypeOK'
  <2> DEFINE s == First(GamesOf(fd))
  <2>1. /\ UNCHANGED <<open, position, timer, told, undelivered, unanswered>>
        /\ \/ UNCHANGED verdicts
           \/ /\ GamesOf(fd) # {}
              /\ Announce(s, {OpponentOf(fd, s)}, "disconnect", Other(TeamOf(fd, s)))
    BY <1>5 DEF Disconnect, history
  <2>2. ASSUME GamesOf(fd) # {} PROVE s \in GameSlots /\ {OpponentOf(fd, s)} \in SUBSET Fds
    BY <2>2, FirstGame, LiveGameFacts DEF OpponentOf, PlayersOf
  <2>3. Other(TeamOf(fd, s)) \in Team
    BY DEF Other, TeamOf, Team
  <2> HIDE DEF s
  <2>4. verdicts' \in [GameSlots -> SUBSET Verdict]
    BY <2>1, <2>2, <2>3, AnnounceAdds DEF Added
  <2> QED BY <2>1, <2>4
<1>6. CASE MatchNotify \/ MoveRejected \/ MoveStamped \/ MoveReplied \/ MoveRemoves \/ Close
  <2>1. main.pc \in {"match_notify", "move_reply"} => main.slot \in GameSlots
    BY DEF ThreadInv
  <2>2. CASE MatchNotify
    BY <2>1, <2>2 DEF MatchNotify, history
  <2>3. CASE MoveReplied
    BY <2>1, <2>3 DEF MoveReplied
  <2> QED BY <1>6, <2>2, <2>3 DEF MoveRejected, MoveStamped, MoveRemoves, Close, history
<1>7. CASE MoveApplied
  <2>1. main.slot \in GameSlots
    BY <1>7 DEF ThreadInv, MoveApplied
  <2>2. PICK result \in Results :
          position' = [position EXCEPT ![main.slot] =
             [side_to_move |-> Other(@.side_to_move), result |-> result]]
    BY <1>7 DEF MoveApplied
  <2>3. [side_to_move |-> Other(position[main.slot].side_to_move), result |-> result]
          \in [side_to_move : Team, result : Results]
    BY DEF Other, Team
  <2> QED BY <1>7, <2>1, <2>2, <2>3 DEF MoveApplied, history
<1>8. CASE MoveBroadcast
  <2> DEFINE result == position[main.slot].result
             winner == IF result = "checkmate" THEN Other(position[main.slot].side_to_move) ELSE "none"
  <2>1. UNCHANGED verdicts \/ Announce(main.slot, {main.fd, main.opponent}, "move", winner)
    BY <1>8 DEF MoveBroadcast
  <2>2. main.slot \in GameSlots /\ {main.fd, main.opponent} \in SUBSET Fds
    BY <1>8 DEF ThreadInv, MoveBroadcast
  <2>3. winner \in Team \cup {"none"}
    BY DEF Other, Team
  <2> HIDE DEF winner
  <2>4. verdicts' \in [GameSlots -> SUBSET Verdict]
    BY <2>1, <2>2, <2>3, AnnounceAdds DEF Added
  <2> QED BY <1>8, <2>4 DEF MoveBroadcast
<1>9. CASE TimerThread
  <2>0. timer' \in 0..MAX_ACTIVE_GAMES
    BY <1>9, ManagerAssumption DEF TimerThread, TimerLocks, TimerPasses, TimerExpires, NextSlot
  <2>1. CASE TimerExpires
    <3>1. timer \in GameSlots /\ PlayersOf(timer) \in SUBSET Fds
      BY <2>1, LiveGameFacts DEF TimerExpires, EndGame
    <3>2. Other(position[timer].side_to_move) \in Team
      BY DEF Other, Team
    <3>3. Announce(timer, PlayersOf(timer), "timeout", Other(position[timer].side_to_move))
      BY <2>1 DEF TimerExpires
    <3>4. verdicts' \in [GameSlots -> SUBSET Verdict]
      BY <3>1, <3>2, <3>3, AnnounceAdds DEF Added
    <3> QED BY <2>0, <2>1, <3>4 DEF TimerExpires
  <2> QED BY <1>9, <2>0, <2>1 DEF TimerThread, TimerLocks, TimerPasses, history
<1> QED
  BY <1>1, <1>2, <1>3, <1>4, <1>5, <1>6, <1>7, <1>8, <1>9 DEF Next, HandlerStep

(* Ids are dealt once, step by step. *)
LEMMA IdsOnceStep ==
  ASSUME ManagerInv, IdsOnce, [Next]_vars
  PROVE  IdsOnce'
<1>1. CASE SlotsKept /\ counter' = counter
  BY <1>1 DEF IdsOnce, SlotsKept
<1>2. ASSUME NEW fd \in Fds, MatchGame(fd) PROVE IdsOnce'
  <2>1. CASE UNCHANGED <<active_games, counter>>
    BY <2>1 DEF IdsOnce
  <2>2. ASSUME NEW s \in GameSlots \ Active, NEW b \in BOOLEAN, Starts(fd, s, b) PROVE IdsOnce'
    <3>1. /\ active_games'[s].game_id = counter /\ counter' = counter + 1
          /\ \A t \in GameSlots \ {s} : active_games'[t] = active_games[t]
      BY <2>2 DEF Starts, ManagerInv, ManagerTypeOK
    <3>2. counter \in Nat /\ \A t \in GameSlots : active_games[t].game_id \in Nat
      BY DEF ManagerInv, ManagerTypeOK, Game
    <3>3. ASSUME NEW t \in GameSlots
          PROVE  /\ active_games'[t].game_id < counter'
                 /\ t # s => active_games'[t].game_id < counter
      BY <3>1, <3>2 DEF IdsOnce
    <3>4. ASSUME NEW t \in GameSlots, NEW u \in GameSlots,
                 active_games'[t].game_id = active_games'[u].game_id
          PROVE  t = u \/ active_games'[t].game_id = 0
      <4>1. CASE t # s /\ u # s
        BY <3>1, <3>4, <4>1 DEF IdsOnce
      <4>2. CASE t = s /\ u # s
        BY <3>1, <3>2, <3>3, <3>4, <4>2
      <4>3. CASE t # s /\ u = s
        BY <3>1, <3>2, <3>3, <3>4, <4>3
      <4> QED BY <4>1, <4>2, <4>3
    <3> QED BY <3>3, <3>4 DEF IdsOnce
  <2> QED BY <1>2, <2>1, <2>2, MatchGameEffect
<1>3. CASE ~ \E fd \in Fds : MatchGame(fd)
  <2>1. SlotsKept
    BY <1>3, StepKeepsSlots
  <2>2. counter' = counter
    <3>1. UNCHANGED managerVars \/ (\E s \in GameSlots : EndGame(s)) \/ (\E fd \in Fds : LeaveQueue(fd))
      <4>1. CASE UNCHANGED vars
        BY <4>1 DEF vars
      <4>2. ASSUME NEW fd \in Fds, CancelMatch(fd) \/ Resign(fd) \/ Disconnect(fd)
            PROVE  UNCHANGED managerVars \/ (\E s \in GameSlots : EndGame(s)) \/ LeaveQueue(fd)
        BY <4>2, EndGameSlot DEF CancelMatch, Resign, Disconnect
      <4>3. CASE MoveRemoves
        BY <4>3, RemoveGameCases DEF MoveRemoves
      <4>4. CASE TimerExpires
        BY <4>4, EndGameSlot DEF TimerExpires
      <4> QED BY <1>3, <4>1, <4>2, <4>3, <4>4, OutsideSteps DEF Next, HandlerStep, TimerThread
    <3> QED BY <3>1 DEF managerVars, EndGame, LeaveQueue
  <2> QED BY <1>1, <2>1, <2>2
<1> QED BY <1>2, <1>3

(* remove_game at the end of a move ends the handler's own game or none. *)
LEMMA RemovesOwnGame ==
  ASSUME ManagerInv, IdsOnce, NEW s \in GameSlots, RemoveGame(active_games[s].game_id)
  PROVE  \/ s \in Active /\ EndGame(s)
         \/ s \notin Active /\ UNCHANGED managerVars
<1> DEFINE hits == {t \in Active : active_games[t].game_id = active_games[s].game_id}
<1>1. hits \subseteq {s} /\ (s \in Active <=> hits = {s})
  BY LiveGameFacts DEF IdsOnce
<1>2. CASE s \in Active
  <2>1. hits = {s} /\ First(hits) = s
    <3>1. hits = {s} /\ hits \in SUBSET Nat
      BY <1>1, <1>2, SlotFacts
    <3> HIDE DEF hits
    <3> QED BY <3>1, FirstIsLeast
  <2> QED BY <1>2, <2>1 DEF RemoveGame
<1>3. CASE s \notin Active
  <2>1. hits = {}
    BY <1>1, <1>3
  <2> QED BY <1>3, <2>1 DEF RemoveGame
<1> QED BY <1>2, <1>3

(* The end of a game, seen from the sets the properties speak of. *)
LEMMA Ended ==
  ASSUME ManagerInv, NEW s, EndGame(s)
  PROVE  /\ s \in Active /\ s \in GameSlots
         /\ Active' = Active \ {s}
         /\ \A t \in GameSlots : PlayersOf(t)' = PlayersOf(t)
<1>1. s \in GameSlots /\ s \in Active
  BY EndGameSlot DEF EndGame
<1> QED BY <1>1, EndGameEffect, EndGameKeepsSlots DEF PlayersOf, SlotsKept
(* Where a step of the handler leaves the main thread. *)
LEMMA HandlerMoves ==
  ASSUME ThreadInv
  PROVE  /\ \A step \in Steps : Goto(step) =>
              /\ main'.pc = step /\ main'.slot = main.slot
              /\ main'.fd = main.fd /\ main'.opponent = main.opponent
         /\ Return => main'.pc = "epoll_wait"
         /\ \A fd : main' = [AtEpoll EXCEPT !.pc = "close", !.fd = fd] =>
              main'.pc = "close" /\ main'.fd = fd
<1>1. ASSUME NEW step \in Steps, Goto(step)
      PROVE  /\ main'.pc = step /\ main'.slot = main.slot
             /\ main'.fd = main.fd /\ main'.opponent = main.opponent
  BY <1>1 DEF ThreadInv, Goto
<1>2. Return => main'.pc = "epoll_wait"
  BY DEF Return, AtEpoll
<1>3. ASSUME NEW fd, main' = [AtEpoll EXCEPT !.pc = "close", !.fd = fd]
      PROVE  main'.pc = "close" /\ main'.fd = fd
  <2>1. main' = [pc |-> "close", fd |-> fd, slot |-> 0, game_id |-> 0, opponent |-> NoFd]
    BY <1>3 DEF AtEpoll
  <2> QED BY <2>1
<1> QED BY <1>1, <1>2, <1>3

(* A game goes unnoticed after a step as before it, if the step adds no    *)
(* game, changes no position and leaves the handler where it is, or is one *)
(* of those that take the handler to or from the event loop.               *)
LEMMA StillUnnoticed ==
  ASSUME Unnoticed, Active' \subseteq Active, UNCHANGED <<position, told>>,
         undelivered \subseteq undelivered', unanswered \subseteq unanswered',
         \A s \in Active' :
           /\ At({"match_notify"}, s) => s \in told' \cup undelivered' \/ At({"match_notify"}, s)'
           /\ At(AfterMove, s) =>
                position[s].result = "playing" \/ s \in unanswered' \/ At(AfterMove, s)'
  PROVE  Unnoticed'
BY DEF Unnoticed

(* Ends of games by RESIGN, a disconnection, a timeout or a move. *)
LEMMA EndStep ==
  ASSUME ManagerInv, IdsOnce, ThreadInv
  PROVE  /\ \A fd \in Fds : Resign(fd) => EndGame(First(GamesOf(fd)))
         /\ \A fd \in Fds : Disconnect(fd) =>
              \/ Active' = Active
              \/ GamesOf(fd) # {} /\ EndGame(First(GamesOf(fd)))
         /\ TimerExpires => EndGame(timer)
         /\ MoveRemoves => main.slot \in GameSlots /\ main.slot \notin Active'
                           /\ Active' = Active \ {main.slot}
<1>1. ASSUME NEW fd \in Fds, Disconnect(fd)
      PROVE  \/ Active' = Active
             \/ GamesOf(fd) # {} /\ EndGame(First(GamesOf(fd)))
  BY <1>1 DEF Disconnect, LeaveQueue, managerVars, Active
<1>2. ASSUME MoveRemoves
      PROVE  /\ main.slot \in GameSlots /\ main.slot \notin Active'
             /\ Active' = Active \ {main.slot}
  <2>1. main.slot \in GameSlots
    BY <1>2 DEF MoveRemoves, ThreadInv
  <2>2. PICK s \in GameSlots : s = main.slot
    BY <2>1
  <2>3. RemoveGame(active_games[s].game_id)
    BY <1>2, <2>2 DEF MoveRemoves
  <2>4. \/ s \in Active /\ EndGame(s)
        \/ s \notin Active /\ UNCHANGED managerVars
    BY <2>3, RemovesOwnGame
  <2>5. Active' = Active \ {s}
    BY <2>4, Ended DEF managerVars, Active
  <2> QED BY <2>1, <2>2, <2>5
<1> QED BY <1>1, <1>2 DEF Resign, TimerExpires

(* Who is unnoticed, step by step. *)
LEMMA UnnoticedStep ==
  ASSUME ManagerInv, ThreadInv, HistoryTypeOK, IdsOnce, Unnoticed, [Next]_vars
  PROVE  Unnoticed'
<1>1. CASE UNCHANGED vars
  BY <1>1 DEF vars, managerVars, serverVars, history, Unnoticed, Active, At
<1>2. CASE \/ \E fd \in Fds : Accept(fd) \/ CancelMatch(fd) \/ Resign(fd)
           \/ TimerThread
  <2>1. UNCHANGED <<position, told, undelivered, unanswered, main>>
    BY <1>2 DEF Accept, CancelMatch, Resign, TimerThread, TimerLocks, TimerPasses,
                TimerExpires, serverVars, history
  <2>2. Active' \subseteq Active
    <3>1. CASE \/ \E fd \in Fds : Resign(fd)
               \/ TimerExpires
      BY <3>1, EndStep, Ended
    <3>2. CASE \/ \E fd \in Fds : Accept(fd) \/ CancelMatch(fd)
               \/ TimerLocks \/ TimerPasses
      BY <3>2 DEF Accept, CancelMatch, LeaveQueue, TimerLocks, TimerPasses, managerVars, Active
    <3> QED BY <1>2, <3>1, <3>2 DEF TimerThread
  <2>3. \A s \in Active' :
          /\ At({"match_notify"}, s) <=> At({"match_notify"}, s)'
          /\ At(AfterMove, s) <=> At(AfterMove, s)'
    BY <2>1 DEF At
  <2> QED BY <2>1, <2>2, <2>3, StillUnnoticed
<1>3. CASE \E fd \in Fds : Move(fd) \/ Disconnect(fd)
  <2>1. Quiet /\ UNCHANGED <<position, told, undelivered, unanswered>>
    BY <1>3 DEF Move, Disconnect, Request, history
  <2>2. Active' \subseteq Active
    <3>1. CASE \E fd \in Fds : Move(fd)
      BY <3>1 DEF Move, managerVars, Active
    <3>2. CASE \E fd \in Fds : Disconnect(fd)
      BY <3>2, EndStep, Ended
    <3> QED BY <1>3, <3>1, <3>2
  <2>3. \A s : ~At({"match_notify"}, s) /\ ~At(AfterMove, s)
    BY <2>1 DEF At, AfterMove, Quiet
  <2> QED BY <2>1, <2>2, <2>3, StillUnnoticed
<1>4. ASSUME NEW fd \in Fds, MatchGame(fd) PROVE Unnoticed'
  <2>1. CASE UNCHANGED <<active_games, position, main, history>>
    BY <2>1 DEF Unnoticed, Active, At, history
  <2>2. ASSUME NEW s \in GameSlots \ Active, NEW b \in BOOLEAN, Starts(fd, s, b)
        PROVE  Unnoticed'
    <3>1. Quiet
      BY <1>4 DEF MatchGame, Request
    <3>2. \A t : ~At({"match_notify"}, t) /\ ~At(AfterMove, t)
      BY <3>1 DEF At, AfterMove, Quiet
    <3>3. At({"match_notify"}, s)' /\ position'[s].result = "playing"
      BY <2>2 DEF Starts, At, StartPos, HistoryTypeOK
    <3>4. ASSUME NEW t \in Active, t # s
          PROVE  /\ t \in told' \cup undelivered'
                 /\ position'[t].result = "playing" \/ t \in unanswered'
      <4>1. position'[t] = position[t]
        BY <2>2, <3>4 DEF Starts, HistoryTypeOK, Active
      <4> QED BY <2>2, <3>2, <3>4, <4>1 DEF Starts, Unnoticed
    <3>5. Active' = Active \cup {s}
      BY <2>2 DEF Starts
    <3> QED BY <3>3, <3>4, <3>5 DEF Unnoticed
  <2> QED BY <1>4, <2>1, <2>2, MatchGameEffect
<1>5. CASE MatchNotify
  <2>1. /\ main.pc = "match_notify" /\ main.slot \in GameSlots
        /\ Active' = Active /\ UNCHANGED <<position, unanswered>>
    BY <1>5 DEF MatchNotify, managerVars, Active, ThreadInv, history
  <2>2. CASE GamesOf(main.fd) = {} /\ UNCHANGED history
    <3>1. main.slot \notin Active
      BY <2>1, <2>2 DEF ThreadInv, HandlerSlotKept, GamesOf
    <3>2. \A s \in Active' : ~At({"match_notify"}, s) /\ ~At(AfterMove, s)
      BY <2>1, <3>1 DEF At, AfterMove
    <3> QED BY <2>1, <2>2, <3>2, StillUnnoticed DEF history
  <2>3. CASE \/ told' = told \cup {main.slot} /\ UNCHANGED undelivered
             \/ undelivered' = undelivered \cup {main.slot} /\ UNCHANGED told
    <3>1. ASSUME NEW s \in Active
          PROVE  /\ s \in told' \cup undelivered'
                 /\ position'[s].result = "playing" \/ s \in unanswered'
      BY <2>1, <2>3 DEF Unnoticed, At, AfterMove
    <3> QED BY <2>1, <3>1 DEF Unnoticed
  <2> QED BY <1>5, <2>2, <2>3 DEF MatchNotify
<1>6. CASE MoveRejected \/ Close
  <2>1. /\ main.pc \in {"move_check", "close"} /\ Active' = Active
        /\ UNCHANGED <<position, told, undelivered, unanswered>>
    BY <1>6 DEF MoveRejected, Close, managerVars, Active, history
  <2>2. \A s : ~At({"match_notify"}, s) /\ ~At(AfterMove, s)
    BY <2>1 DEF At, AfterMove
  <2> QED BY <2>1, <2>2, StillUnnoticed
<1>7. CASE MoveApplied
  <2>1. /\ main.pc = "move_check" /\ Active' = Active
        /\ UNCHANGED <<told, undelivered>> /\ Goto("move_stamp")
        /\ unanswered' = unanswered \ {main.slot} /\ main.slot \in GameSlots
        /\ \A s \in GameSlots \ {main.slot} : position'[s] = position[s]
    BY <1>7 DEF MoveApplied, managerVars, Active, history, HistoryTypeOK, ThreadInv
  <2>2. \A s : s = main.slot => At(AfterMove, s)'
    BY <2>1, HandlerMoves DEF At, AfterMove, Steps
  <2>3. \A s : ~At({"match_notify"}, s) /\ ~At(AfterMove, s)
    BY <2>1 DEF At, AfterMove
  <2>4. ASSUME NEW s \in Active'
        PROVE  /\ s \in told' \cup undelivered'
               /\ position'[s].result = "playing" \/ s \in unanswered' \/ At(AfterMove, s)'
    <3>1. s \in Active /\ s \in GameSlots
      BY <2>1 DEF Active
    <3> QED BY <2>1, <2>2, <2>3, <3>1 DEF Unnoticed
  <2> QED BY <2>4 DEF Unnoticed
<1>8. CASE MoveStamped \/ MoveReplied
  <2>1. /\ main.pc \in {"move_stamp", "move_reply"} /\ Active' = Active
        /\ UNCHANGED <<position, told, undelivered>> /\ unanswered \subseteq unanswered'
        /\ \/ Goto("move_reply") \/ Goto("move_broadcast")
           \/ unanswered' = unanswered \cup {main.slot}
    BY <1>8 DEF MoveStamped, MoveReplied, managerVars, Active, history
  <2>2. ASSUME NEW s, At(AfterMove, s)
        PROVE  s \in unanswered' \/ At(AfterMove, s)'
    BY <2>1, <2>2, HandlerMoves DEF At, AfterMove, Steps
  <2>3. \A s : ~At({"match_notify"}, s)
    BY <2>1 DEF At
  <2> QED BY <2>1, <2>2, <2>3, StillUnnoticed
<1>9. CASE MoveBroadcast
  <2>1. /\ main.pc = "move_broadcast" /\ Active' = Active
        /\ UNCHANGED <<position, told, undelivered, unanswered>>
        /\ position[main.slot].result = "playing" \/ Goto("move_remove")
    BY <1>9 DEF MoveBroadcast, managerVars, Active
  <2>2. ASSUME NEW s, At(AfterMove, s)
        PROVE  position[s].result = "playing" \/ At(AfterMove, s)'
    BY <2>1, <2>2, HandlerMoves DEF At, AfterMove, Steps
  <2>3. \A s : ~At({"match_notify"}, s)
    BY <2>1 DEF At
  <2> QED BY <2>1, <2>2, <2>3, StillUnnoticed
<1>10. CASE MoveRemoves
  <2>1. /\ main.pc = "move_remove" /\ UNCHANGED <<position, told, undelivered, unanswered>>
        /\ Active' = Active \ {main.slot}
    BY <1>10, EndStep DEF MoveRemoves, history
  <2>2. \A s \in Active' : ~At({"match_notify"}, s) /\ ~At(AfterMove, s)
    BY <2>1 DEF At
  <2> QED BY <2>1, <2>2, StillUnnoticed
<1> QED
  BY <1>1, <1>2, <1>3, <1>4, <1>5, <1>6, <1>7, <1>8, <1>9, <1>10 DEF Next, HandlerStep
(* A slot whose verdicts stay, and that the handler is at as before or     *)
(* only comes to now.                                                      *)
LEMMA SameVerdicts ==
  ASSUME NEW s \in GameSlots, VerdictsOf(s), verdicts'[s] = verdicts[s],
         s \in Active' => s \in Active,
         At(BeforeVerdict, s)' => verdicts[s] = {} \/ At(BeforeVerdict, s),
         At({"move_remove"}, s)' =>
           At({"move_remove"}, s) /\ main'.fd = main.fd /\ main'.opponent = main.opponent,
         s \in Active' /\ At({"move_remove"}, s) => At({"move_remove"}, s)'
  PROVE  VerdictsOf(s)'
BY DEF VerdictsOf

(* A request ends the game in slot s: its first and only verdicts. *)
LEMMA FirstVerdicts ==
  ASSUME ManagerInv, HistoryTypeOK, VerdictsInv, Quiet, NEW s, EndGame(s),
         NEW recipients \in SUBSET Fds, NEW how \in {"resign", "disconnect"},
         NEW winner \in Team, Announce(s, recipients, how, winner),
         main'.pc \in {"epoll_wait", "close"}
  PROVE  VerdictsInv'
<1>1. /\ s \in GameSlots /\ s \in Active /\ Active' = Active \ {s}
  BY Ended
<1>2. /\ \A t : ~At(BeforeVerdict, t) /\ ~At({"move_remove"}, t)
      /\ \A t : ~At(BeforeVerdict, t)' /\ ~At({"move_remove"}, t)'
  BY DEF At, BeforeVerdict, Quiet
<1>3. /\ \A t \in GameSlots \ {s} : verdicts'[t] = verdicts[t]
      /\ \A v \in verdicts'[s] : v \in verdicts[s] \/ (v.how = how /\ v.winner = winner)
  <2>1. /\ how \in {"move", "resign", "disconnect", "timeout"} /\ winner \in Team \cup {"none"}
        /\ HistoryTypeOK /\ s \in GameSlots /\ recipients \in SUBSET Fds
        /\ Announce(s, recipients, how, winner)
    BY <1>1
  <2>2. Added(s, recipients, how, winner)
    BY <2>1, AnnounceAdds
  <2> QED BY <2>2 DEF Added
<1>4. verdicts[s] = {}
  BY <1>1, <1>2 DEF VerdictsInv, VerdictsOf
<1>5. VerdictsOf(s)'
  <2>1. \A v, w \in verdicts'[s] : v.how = w.how /\ v.winner = w.winner
    BY <1>3, <1>4
  <2>2. \A t : t = s => VerdictsOf(t)'
    BY <1>1, <1>2, <2>1 DEF VerdictsOf
  <2> QED BY <2>2
<1>6. ASSUME NEW t \in GameSlots \ {s} PROVE VerdictsOf(t)'
  BY <1>1, <1>2, <1>3, SameVerdicts DEF VerdictsInv
<1> QED BY <1>5, <1>6 DEF VerdictsInv

(* The timer thread ends the game in its slot, whether or not a handler is *)
(* at work on a move in it.                                                *)
LEMMA TimeoutVerdicts ==
  ASSUME ManagerInv, HistoryTypeOK, VerdictsInv, TimerExpires
  PROVE  VerdictsInv'
<1>1. /\ timer \in GameSlots /\ timer \in Active /\ Active' = Active \ {timer}
      /\ PlayersOf(timer) \in SUBSET Fds /\ UNCHANGED main
  BY Ended, LiveGameFacts DEF TimerExpires
<1>2. PICK winner \in Team : Announce(timer, PlayersOf(timer), "timeout", winner)
  BY DEF TimerExpires, Other, Team
<1>3. PICK s \in GameSlots : s = timer
  BY <1>1
<1>4. /\ \A t \in GameSlots \ {s} : verdicts'[t] = verdicts[t]
      /\ \A v \in verdicts'[s] : v \in verdicts[s] \/ (v.how = "timeout" /\ v.winner = winner)
      /\ \A v \in verdicts[s] : v \in verdicts'[s]
  <2>1. /\ Announce(s, PlayersOf(s), "timeout", winner) /\ PlayersOf(s) \in SUBSET Fds
        /\ "timeout" \in {"move", "resign", "disconnect", "timeout"} /\ winner \in Team \cup {"none"}
    BY <1>1, <1>2, <1>3
  <2> QED BY <2>1, AnnounceAdds DEF Added
<1>5. \A steps, t : At(steps, t)' <=> At(steps, t)
  BY <1>1 DEF At
<1>6. VerdictsOf(s) /\ s \in Active /\ s \notin Active'
  BY <1>1, <1>3 DEF VerdictsInv
<1>7. VerdictsOf(s)'
  <2>1. At(BeforeVerdict, s) => ~At({"move_remove"}, s)
    BY DEF At, BeforeVerdict
  <2>2. At(BeforeVerdict, s)' => \A v \in verdicts'[s] : v.how = "timeout"
    BY <1>4, <1>5, <1>6, <2>1 DEF VerdictsOf
  <2>3. At({"move_remove"}, s)' =>
          \A p \in {main'.fd, main'.opponent} : \E v \in verdicts'[s] : v.to = p
    BY <1>1, <1>4, <1>5, <1>6 DEF VerdictsOf
  <2>4. ASSUME NEW v \in verdicts'[s], NEW w \in verdicts'[s]
        PROVE  IF v.how = w.how THEN v.winner = w.winner ELSE {v.how, w.how} = {"move", "timeout"}
    <3>1. /\ (v \in verdicts[s] /\ v.how = "move") \/ (v.how = "timeout" /\ v.winner = winner)
          /\ (w \in verdicts[s] /\ w.how = "move") \/ (w.how = "timeout" /\ w.winner = winner)
      BY <1>4, <1>6 DEF VerdictsOf
    <3>2. v \in verdicts[s] /\ w \in verdicts[s] /\ v.how = w.how => v.winner = w.winner
      BY <1>6 DEF VerdictsOf
    <3> QED BY <3>1, <3>2
  <2> QED BY <1>6, <2>2, <2>3, <2>4 DEF VerdictsOf
<1>8. ASSUME NEW t \in GameSlots \ {s} PROVE VerdictsOf(t)'
  BY <1>1, <1>4, <1>5, SameVerdicts DEF VerdictsInv
<1> QED BY <1>7, <1>8 DEF VerdictsInv

(* The handler sends the verdict of the move to both players. *)
LEMMA MoveVerdicts ==
  ASSUME ManagerInv, ThreadInv, HistoryTypeOK, VerdictsInv, MoveBroadcast
  PROVE  VerdictsInv'
<1> DEFINE result == position[main.slot].result
           to_win == IF result = "checkmate" THEN Other(position[main.slot].side_to_move) ELSE "none"
<1>1. /\ main.pc = "move_broadcast" /\ main.slot \in GameSlots /\ Active' = Active
      /\ main.fd \in Fds /\ main.opponent \in Fds
      /\ \/ Return /\ UNCHANGED verdicts
         \/ Goto("move_remove") /\ Announce(main.slot, {main.fd, main.opponent}, "move", to_win)
  BY DEF MoveBroadcast, managerVars, Active, ThreadInv
<1>2. to_win \in Team \cup {"none"}
  BY DEF Other, Team
<1> HIDE DEF to_win
<1>3. PICK s \in GameSlots : s = main.slot
  BY <1>1
<1>4. /\ At(BeforeVerdict, s)
      /\ \A t : ~At({"move_remove"}, t)
      /\ \A t \in GameSlots \ {s} : ~At(BeforeVerdict, t)
  BY <1>1, <1>3 DEF At, BeforeVerdict
<1>5. CASE Return /\ UNCHANGED verdicts
  <2>1. \A t : ~At(BeforeVerdict, t)' /\ ~At({"move_remove"}, t)'
    BY <1>5, HandlerMoves DEF At, BeforeVerdict
  <2> QED BY <1>1, <1>4, <1>5, <2>1, SameVerdicts DEF VerdictsInv
<1>6. CASE Goto("move_remove") /\ Announce(main.slot, {main.fd, main.opponent}, "move", to_win)
  <2>1. /\ \A t \in GameSlots \ {s} : verdicts'[t] = verdicts[t]
        /\ \A v \in verdicts'[s] : v \in verdicts[s] \/ (v.how = "move" /\ v.winner = to_win)
        /\ \A p \in {main.fd, main.opponent} : \E v \in verdicts'[s] : v.to = p
    <3>1. /\ Announce(s, {main.fd, main.opponent}, "move", to_win)
          /\ {main.fd, main.opponent} \in SUBSET Fds
          /\ "move" \in {"move", "resign", "disconnect", "timeout"}
      BY <1>1, <1>3, <1>6
    <3>2. Added(s, {main.fd, main.opponent}, "move", to_win)
      BY <1>2, <3>1, AnnounceAdds
    <3> QED BY <3>2 DEF Added
  <2>2. main'.slot = s /\ main'.pc = "move_remove" /\ main'.fd = main.fd /\ main'.opponent = main.opponent
    BY <1>3, <1>6, HandlerMoves DEF Steps
  <2>3. /\ At({"move_remove"}, s)'
        /\ \A t : ~At(BeforeVerdict, t)'
        /\ \A t \in GameSlots \ {s} : ~At({"move_remove"}, t)'
    BY <2>2 DEF At, BeforeVerdict
  <2>4. \A v \in verdicts[s] : v.how = "timeout"
    BY <1>4 DEF VerdictsInv, VerdictsOf
  <2>5. VerdictsOf(s)'
    <3>1. s \in Active' => verdicts[s] = {}
      BY <1>1, <1>4 DEF VerdictsInv, VerdictsOf
    <3>2. s \in Active' => \A v \in verdicts'[s] : v.how = "move"
      BY <2>1, <3>1
    <3>3. ASSUME NEW v \in verdicts'[s], NEW w \in verdicts'[s]
          PROVE  IF v.how = w.how THEN v.winner = w.winner ELSE {v.how, w.how} = {"move", "timeout"}
      <4>1. /\ (v \in verdicts[s] /\ v.how = "timeout") \/ (v.how = "move" /\ v.winner = to_win)
            /\ (w \in verdicts[s] /\ w.how = "timeout") \/ (w.how = "move" /\ w.winner = to_win)
        BY <2>1, <2>4
      <4>2. v \in verdicts[s] /\ w \in verdicts[s] /\ v.how = w.how => v.winner = w.winner
        BY DEF VerdictsInv, VerdictsOf
      <4> QED BY <4>1, <4>2
    <3> QED BY <2>1, <2>2, <2>3, <3>2, <3>3 DEF VerdictsOf
  <2>6. ASSUME NEW t \in GameSlots \ {s} PROVE VerdictsOf(t)'
    BY <1>1, <1>4, <2>1, <2>3, SameVerdicts DEF VerdictsInv
  <2> QED BY <2>5, <2>6 DEF VerdictsInv
<1> QED BY <1>1, <1>5, <1>6

(* Which ends were sent, step by step. *)
LEMMA VerdictsStep ==
  ASSUME ManagerInv, ThreadInv, HistoryTypeOK, IdsOnce, VerdictsInv, [Next]_vars
  PROVE  VerdictsInv'
<1> USE DEF VerdictsInv
<1>1. CASE UNCHANGED <<Active, main, verdicts>>
  BY <1>1 DEF VerdictsOf, At
<1>2. CASE \/ UNCHANGED vars
           \/ \E fd \in Fds : Accept(fd) \/ CancelMatch(fd)
           \/ TimerLocks \/ TimerPasses
  BY <1>1, <1>2 DEF vars, managerVars, serverVars, history, Active,
                    Accept, CancelMatch, LeaveQueue, TimerLocks, TimerPasses
<1>3. ASSUME NEW fd \in Fds, MatchGame(fd) PROVE VerdictsInv'
  <2>1. CASE UNCHANGED <<active_games, position, main, history>>
    BY <1>1, <2>1 DEF Active, history
  <2>2. ASSUME NEW s \in GameSlots \ Active, NEW b \in BOOLEAN, Starts(fd, s, b)
        PROVE  VerdictsInv'
    <3>1. /\ Quiet
          /\ \A t : ~At(BeforeVerdict, t) /\ ~At({"move_remove"}, t)
      BY <1>3 DEF MatchGame, Request, At, BeforeVerdict, Quiet
    <3>2. \A t : ~At(BeforeVerdict, t)' /\ ~At({"move_remove"}, t)'
      BY <2>2 DEF Starts, At, BeforeVerdict
    <3>3. verdicts'[s] = {} /\ \A t \in GameSlots \ {s} : verdicts'[t] = verdicts[t]
      BY <2>2 DEF Starts, HistoryTypeOK
    <3>4. VerdictsOf(s)'
      BY <3>2, <3>3 DEF VerdictsOf
    <3>5. Active' = Active \cup {s}
      BY <2>2 DEF Starts
    <3>6. ASSUME NEW t \in GameSlots \ {s} PROVE VerdictsOf(t)'
      BY <3>1, <3>2, <3>3, <3>5, SameVerdicts
    <3> QED BY <3>4, <3>6
  <2> QED BY <1>3, <2>1, <2>2, MatchGameEffect
<1>4. ASSUME NEW fd \in Fds, Move(fd) PROVE VerdictsInv'
  <2>1. /\ Quiet /\ UNCHANGED verdicts /\ Active' = Active
        /\ \A t : ~At(BeforeVerdict, t) /\ ~At({"move_remove"}, t)
    BY <1>4 DEF Move, Request, At, BeforeVerdict, Quiet, history, managerVars, Active
  <2>2. /\ main'.pc = "move_check" /\ main'.slot \in Active
        /\ \A t : ~At({"move_remove"}, t)'
    BY <1>4, FirstGame DEF Move, At
  <2>3. \A s \in GameSlots : At(BeforeVerdict, s)' => verdicts[s] = {}
    BY <2>1, <2>2 DEF At, VerdictsOf
  <2> QED BY <2>1, <2>2, <2>3, SameVerdicts
<1>5. ASSUME NEW fd \in Fds, Resign(fd) PROVE VerdictsInv'
  <2>1. PICK s : s = First(GamesOf(fd))
    OBVIOUS
  <2>2. PICK winner \in Team : winner = Other(TeamOf(fd, s))
    BY DEF Other, Team
  <2>3. /\ Announce(s, PlayersOf(s), "resign", winner) /\ EndGame(s)
        /\ s \in Active
    BY <1>5, <2>1, <2>2, FirstGame DEF Resign
  <2>4. PlayersOf(s) \in SUBSET Fds
    BY <2>3, LiveGameFacts
  <2>5. Quiet /\ main'.pc \in {"epoll_wait", "close"}
    BY <1>5 DEF Resign, Request, Quiet
  <2> QED BY <2>3, <2>4, <2>5, FirstVerdicts
<1>6. ASSUME NEW fd \in Fds, Disconnect(fd) PROVE VerdictsInv'
  <2>1. Quiet /\ main'.pc \in {"epoll_wait", "close"}
    BY <1>6, HandlerMoves DEF Disconnect, Request
  <2>2. CASE UNCHANGED <<active_games, verdicts>>
    <3>1. \A t : ~At(BeforeVerdict, t)' /\ ~At({"move_remove"}, t)' /\ ~At({"move_remove"}, t)
      BY <2>1 DEF At, BeforeVerdict, Quiet
    <3> QED BY <2>2, <3>1, SameVerdicts DEF Active
  <2>3. CASE GamesOf(fd) # {} /\ ~UNCHANGED <<active_games, verdicts>>
    <3>1. PICK s : s = First(GamesOf(fd))
      OBVIOUS
    <3>2. PICK winner \in Team : winner = Other(TeamOf(fd, s))
      BY DEF Other, Team
    <3>3. Announce(s, {OpponentOf(fd, s)}, "disconnect", winner) /\ EndGame(s)
      BY <1>6, <2>3, <3>1, <3>2 DEF Disconnect, LeaveQueue, history, managerVars
    <3>4. {OpponentOf(fd, s)} \in SUBSET Fds
      BY <2>3, <3>1, FirstGame, LiveGameFacts DEF OpponentOf, PlayersOf
    <3> QED BY <2>1, <3>3, <3>4, FirstVerdicts
  <2> QED BY <1>6, <2>2, <2>3 DEF Disconnect, LeaveQueue, history, managerVars
<1>7. CASE TimerExpires
  BY <1>7, TimeoutVerdicts
<1>8. CASE MatchNotify \/ MoveRejected \/ Close
  <2>1. /\ Return /\ UNCHANGED verdicts /\ Active' = Active /\ main.pc # "move_remove"
    BY <1>8 DEF MatchNotify, MoveRejected, Close, history, managerVars, Active
  <2>2. \A t : ~At(BeforeVerdict, t)' /\ ~At({"move_remove"}, t)' /\ ~At({"move_remove"}, t)
    BY <2>1, HandlerMoves DEF At, BeforeVerdict
  <2> QED BY <2>1, <2>2, SameVerdicts
<1>9. CASE MoveApplied \/ MoveStamped \/ MoveReplied
  <2>1. /\ UNCHANGED verdicts /\ Active' = Active
        /\ main.pc \in {"move_check", "move_stamp", "move_reply"}
        /\ Return \/ \E step \in {"move_stamp", "move_reply", "move_broadcast"} : Goto(step)
    BY <1>9 DEF MoveApplied, MoveStamped, MoveReplied, history, managerVars, Active
  <2>2. \A t : At(BeforeVerdict, t)' => At(BeforeVerdict, t)
    BY <2>1, HandlerMoves DEF At, BeforeVerdict, Steps
  <2>3. \A t : ~At({"move_remove"}, t)' /\ ~At({"move_remove"}, t)
    BY <2>1, HandlerMoves DEF At, Steps
  <2> QED BY <2>1, <2>2, <2>3, SameVerdicts
<1>10. CASE MoveBroadcast
  BY <1>10, MoveVerdicts
<1>11. CASE MoveRemoves
  <2>1. /\ Return /\ UNCHANGED verdicts /\ main.slot \notin Active'
        /\ Active' = Active \ {main.slot}
    BY <1>11, EndStep DEF MoveRemoves, history
  <2>2. \A t : ~At(BeforeVerdict, t)' /\ ~At({"move_remove"}, t)'
    BY <2>1, HandlerMoves DEF At, BeforeVerdict
  <2>3. \A t \in Active' : ~At({"move_remove"}, t)
    BY <2>1 DEF At
  <2> QED BY <2>1, <2>2, <2>3, SameVerdicts
<1> QED
  BY <1>2, <1>3, <1>4, <1>5, <1>6, <1>7, <1>8, <1>9, <1>10, <1>11
     DEF Next, HandlerStep, TimerThread
(* The histories are consistent when the server starts and after every     *)
(* step.                                                                   *)
LEMMA HistoryInvStep ==
  ManagerInv /\ ThreadInv /\ HistoryInv /\ [Next]_vars => HistoryInv'
BY HistoryTypeStep, IdsOnceStep, UnnoticedStep, VerdictsStep DEF HistoryInv

LEMMA HistoryInvInit == Init => HistoryInv
<1> SUFFICES ASSUME Init PROVE HistoryInv
  OBVIOUS
<1>1. Active = {} /\ main.pc = "epoll_wait"
  BY DEF Init, InitManager, Active, EmptySlot, AtEpoll
<1>2. StartPos \in [side_to_move : Team, result : Results]
  BY ServerAssumption DEF StartPos, Team
<1>3. HistoryTypeOK
  BY <1>2, ManagerAssumption DEF Init, HistoryTypeOK
<1>4. IdsOnce
  BY DEF Init, InitManager, IdsOnce, EmptySlot
<1>5. Unnoticed
  BY <1>1 DEF Unnoticed
<1>6. VerdictsInv
  <2> SUFFICES ASSUME NEW s \in GameSlots PROVE VerdictsOf(s)
    BY DEF VerdictsInv
  <2>1. verdicts[s] = {} /\ s \notin Active /\ ~At({"move_remove"}, s)
    BY <1>1 DEF Init, At
  <2> QED BY <2>1 DEF VerdictsOf
<1> QED BY <1>3, <1>4, <1>5, <1>6 DEF HistoryInv

(* The three invariants of the server together. *)
ServerInv == ManagerInv /\ ThreadInv /\ HistoryInv

(* The tables, the handler and the histories are consistent in every state *)
(* of the two threads.                                                     *)
THEOREM ServerInvariant == Spec => []ServerInv
<1>1. Init => ThreadInv /\ HistoryInv
  BY ThreadInvInit, HistoryInvInit
<1>2. ManagerInv /\ ThreadInv /\ HistoryInv /\ [Next]_vars => ThreadInv' /\ HistoryInv'
  BY ThreadInvStep, HistoryInvStep
<1>3. Spec => []ManagerInv
  BY ServerManagerInv
<1> QED BY <1>1, <1>2, <1>3, PTL DEF Spec, ServerInv

(* The descriptors, tables, local variables and histories have their types *)
(* in every state of the two threads.                                      *)
THEOREM ServerTypes == Spec => []ServerTypeOK
<1>1. ServerInv => ServerTypeOK
  BY DEF ServerInv, ManagerInv, ThreadInv, HistoryInv, HistoryTypeOK, ServerTypeOK, Verdict
<1> QED BY <1>1, ServerInvariant, PTL

(* Two players are sent different results only where a timeout met the     *)
(* move that was being handled.                                            *)
THEOREM ConflictsAreRaces == Spec => []ConflictOnlyByRace
<1>1. ServerInv => ConflictOnlyByRace
  BY DEF ServerInv, HistoryInv, VerdictsInv, VerdictsOf, ConflictOnlyByRace
<1> QED BY <1>1, ServerInvariant, PTL

(* Between two requests, a live game in a final position is one the reply  *)
(* to whose last move, the one that led to it, could not be sent.          *)
THEOREM FinalGamesLeftBehind == Spec => []FinalOnlyIfReplyLost
<1>1. ServerInv => FinalOnlyIfReplyLost
  BY DEF ServerInv, HistoryInv, Unnoticed, FinalOnlyIfReplyLost, Quiet, At, AfterMove
<1> QED BY <1>1, ServerInvariant, PTL

(* Between two requests, a live game that was not announced is one whose   *)
(* requester could not be reached.                                         *)
THEOREM UntoldGames == Spec => []UntoldOnlyIfRequesterLost
<1>1. ServerInv => UntoldOnlyIfRequesterLost
  BY DEF ServerInv, HistoryInv, Unnoticed, UntoldOnlyIfRequesterLost, Quiet, At
<1> QED BY <1>1, ServerInvariant, PTL

-----------------------------------------------------------------------------
(* Each step that ends a live game has told its two players, or closes the *)
(* connection of the one it did not tell.                                  *)
EndKnown ==
  \A s \in Active \ Active' : \A p \in PlayersOf(s) :
    \/ \E v \in verdicts'[s] : v.to = p
    \/ main'.pc = "close" /\ main'.fd = p

LEMMA EndKnownStep ==
  ASSUME ServerInv, [Next]_vars
  PROVE  EndKnown
<1> USE DEF ServerInv, HistoryInv
<1>1. ASSUME NEW s, EndGame(s), NEW how \in {"resign", "timeout"}, NEW winner \in Team,
             Announce(s, PlayersOf(s), how, winner)
      PROVE  EndKnown
  <2>1. s \in GameSlots /\ Active \ Active' = {s} /\ PlayersOf(s) \in SUBSET Fds
    BY <1>1, Ended, LiveGameFacts
  <2>2. Added(s, PlayersOf(s), how, winner)
    <3>1. how \in {"move", "resign", "disconnect", "timeout"} /\ winner \in Team \cup {"none"}
      BY <1>1
    <3> QED BY <1>1, <2>1, <3>1, AnnounceAdds
  <2> QED BY <2>1, <2>2 DEF EndKnown, Added
<1>2. ASSUME NEW fd \in Fds, Resign(fd) PROVE EndKnown
  <2>1. PICK s : s = First(GamesOf(fd))
    OBVIOUS
  <2>2. PICK winner \in Team : winner = Other(TeamOf(fd, s))
    BY DEF Other, Team
  <2>3. Announce(s, PlayersOf(s), "resign", winner) /\ EndGame(s)
    BY <1>2, <2>1, <2>2 DEF Resign
  <2> QED BY <1>1, <2>3
<1>3. CASE TimerExpires
  <2>1. PICK winner \in Team : winner = Other(position[timer].side_to_move)
    BY DEF Other, Team
  <2>2. Announce(timer, PlayersOf(timer), "timeout", winner) /\ EndGame(timer)
    BY <1>3, <2>1 DEF TimerExpires
  <2> QED BY <1>1, <2>2
<1>4. ASSUME NEW fd \in Fds, Disconnect(fd) PROVE EndKnown
  <2>1. CASE UNCHANGED active_games
    BY <2>1 DEF EndKnown, Active
  <2>2. CASE GamesOf(fd) # {} /\ ~UNCHANGED active_games
    <3>1. PICK s : s = First(GamesOf(fd))
      OBVIOUS
    <3>2. PICK winner \in Team : winner = Other(TeamOf(fd, s))
      BY DEF Other, Team
    <3>3. Announce(s, {OpponentOf(fd, s)}, "disconnect", winner) /\ EndGame(s)
      BY <1>4, <2>2, <3>1, <3>2 DEF Disconnect, LeaveQueue, managerVars
    <3>4. s \in GameSlots /\ Active \ Active' = {s} /\ PlayersOf(s) \in SUBSET Fds
      BY <3>3, Ended, LiveGameFacts
    <3>5. PlayersOf(s) = {fd, OpponentOf(fd, s)}
      BY <2>2, <3>1, FirstGame DEF OpponentOf, PlayersOf
    <3>6. Added(s, {OpponentOf(fd, s)}, "disconnect", winner)
      BY <3>3, <3>4, <3>5, AnnounceAdds
    <3>7. main'.pc = "close" /\ main'.fd = fd
      BY <1>4, HandlerMoves DEF Disconnect
    <3> QED BY <3>4, <3>5, <3>6, <3>7 DEF EndKnown, Added
  <2> QED BY <1>4, <2>1, <2>2 DEF Disconnect, LeaveQueue, managerVars
<1>5. CASE MoveRemoves
  <2>1. /\ main.pc = "move_remove" /\ main.slot \in GameSlots /\ UNCHANGED verdicts
        /\ Active' = Active \ {main.slot}
    BY <1>5, EndStep DEF MoveRemoves, history
  <2>2. PICK s \in GameSlots : s = main.slot
    BY <2>1
  <2>3. \A p \in {main.fd, main.opponent} : \E v \in verdicts[s] : v.to = p
    BY <2>1, <2>2 DEF VerdictsInv, VerdictsOf, At
  <2>4. PlayersOf(s) = {main.fd, main.opponent}
    BY <2>1, <2>2 DEF ThreadInv, HandlerSlotKept
  <2> QED BY <2>1, <2>2, <2>3, <2>4 DEF EndKnown
<1>6. ASSUME NEW fd \in Fds, MatchGame(fd) PROVE EndKnown
  <2>1. Active \subseteq Active'
    BY <1>6, MatchGameEffect DEF Starts, Active
  <2> QED BY <2>1 DEF EndKnown
<1>7. CASE UNCHANGED active_games
  BY <1>7 DEF EndKnown, Active
<1>8. CASE \/ UNCHANGED vars
           \/ \E fd \in Fds : Accept(fd) \/ Move(fd) \/ CancelMatch(fd)
           \/ MatchNotify \/ MoveRejected \/ MoveApplied \/ MoveStamped
           \/ MoveReplied \/ MoveBroadcast \/ Close \/ TimerLocks \/ TimerPasses
  BY <1>7, <1>8, OutsideSteps DEF vars, managerVars, CancelMatch, LeaveQueue
<1> QED
  BY <1>2, <1>3, <1>4, <1>5, <1>6, <1>8 DEF Next, HandlerStep, TimerThread

(* No game ends behind the back of a player, in no interleaving of the two *)
(* threads and for any number of games.                                    *)
THEOREM EndsAreAnnounced == Spec => EndsAnnounced
<1>1. ServerInv /\ [Next]_vars => [EndKnown]_vars
  BY EndKnownStep
<1> QED BY <1>1, ServerInvariant, PTL DEF Spec, EndsAnnounced, EndKnown
-----------------------------------------------------------------------------
(* Where clients do not ask for a game while they are in one: a connection *)
(* waits or plays, at one place only, and it is open; the one about to be  *)
(* closed is at none.                                                      *)
OnePlace ==
  /\ \A s, t \in Active : PlayersOf(s) \cap PlayersOf(t) # {} => s = t
  /\ \A s \in Active, i \in Waiting : waiting_players[i] \notin PlayersOf(s)
StillOpen ==
  /\ \A s \in Active : PlayersOf(s) \subseteq open
  /\ \A i \in Waiting : waiting_players[i] \in open
Forgotten ==
  main.pc = "close" =>
    /\ \A s \in Active : main.fd \notin PlayersOf(s)
    /\ \A i \in Waiting : waiting_players[i] # main.fd
PlacesInv == OnePlace /\ StillOpen /\ Forgotten

(* A step that gives nobody a place and closes no connection. *)
LEMMA SamePlaces ==
  ASSUME PlacesInv, Active' \subseteq Active, Waiting' \subseteq Waiting,
         \A s \in Active' : PlayersOf(s)' = PlayersOf(s),
         \A i \in Waiting' : waiting_players'[i] = waiting_players[i],
         open \subseteq open',
         Forgotten'
  PROVE  PlacesInv'
<1>1. OnePlace'
  BY DEF PlacesInv, OnePlace
<1>2. StillOpen'
  BY DEF PlacesInv, StillOpen
<1> QED BY <1>1, <1>2 DEF PlacesInv

(* Connections keep to one place, step by step. *)
LEMMA PlacesStep ==
  ASSUME ClientsRematch = FALSE, ServerInv, PlacesInv, [Next]_vars
  PROVE  PlacesInv'
<1> USE DEF ServerInv
<1>1. CASE UNCHANGED <<waiting_players, active_games>> /\ open \subseteq open' /\ main'.pc # "close"
  BY <1>1, SamePlaces DEF Active, Waiting, PlayersOf, Forgotten
<1>2. CASE UNCHANGED vars
  BY <1>2 DEF vars, managerVars, serverVars, PlacesInv, OnePlace, StillOpen, Forgotten,
              Active, Waiting, PlayersOf
<1>3. CASE \/ \E fd \in Fds : Accept(fd) \/ Move(fd)
           \/ MatchNotify \/ MoveRejected \/ MoveApplied \/ MoveStamped
           \/ MoveReplied \/ MoveBroadcast
  <2>1. UNCHANGED <<waiting_players, active_games>>
    BY <1>3, OutsideSteps DEF managerVars
  <2>2. open \subseteq open'
    BY <1>3 DEF Accept, Move, MatchNotify, MoveRejected, MoveApplied, MoveStamped,
                MoveReplied, MoveBroadcast
  <2>3. main'.pc # "close"
    <3>1. CASE \E fd \in Fds : Accept(fd) \/ Move(fd)
      BY <3>1 DEF Accept, Move, Quiet
    <3>2. CASE MatchNotify \/ MoveRejected \/ MoveApplied \/ MoveStamped \/ MoveReplied \/ MoveBroadcast
      BY <3>2, HandlerMoves DEF MatchNotify, MoveRejected, MoveApplied, MoveStamped,
                                MoveReplied, MoveBroadcast, Steps
    <3> QED BY <1>3, <3>1, <3>2
  <2> QED BY <1>1, <2>1, <2>2, <2>3
<1>4. CASE TimerLocks \/ TimerPasses
  BY <1>4, SamePlaces DEF TimerLocks, TimerPasses, managerVars, Active, Waiting, PlayersOf,
                          PlacesInv, Forgotten
<1>5. ASSUME NEW s, EndGame(s), UNCHANGED open, main'.pc = "close" => main' = main PROVE PlacesInv'
  <2>1. /\ Active' = Active \ {s} /\ Active \subseteq GameSlots
        /\ \A t \in GameSlots : PlayersOf(t)' = PlayersOf(t)
        /\ Waiting' = Waiting /\ waiting_players' = waiting_players
    BY <1>5, Ended DEF EndGame, Waiting, Active
  <2>2. Forgotten'
    BY <1>5, <2>1 DEF PlacesInv, Forgotten
  <2> QED BY <1>5, <2>1, <2>2, SamePlaces
<1>6. ASSUME NEW fd \in Fds, Resign(fd) PROVE PlacesInv'
  BY <1>5, <1>6 DEF Resign
<1>7. CASE TimerExpires
  BY <1>5, <1>7 DEF TimerExpires
<1>8. CASE MoveRemoves
  <2>1. PICK s \in GameSlots : s = main.slot
    BY <1>8 DEF MoveRemoves, ThreadInv
  <2>2. RemoveGame(active_games[s].game_id) /\ UNCHANGED open /\ main'.pc # "close"
    BY <1>8, <2>1, HandlerMoves DEF MoveRemoves
  <2>3. \/ s \in Active /\ EndGame(s)
        \/ s \notin Active /\ UNCHANGED managerVars
    BY <2>1, <2>2, RemovesOwnGame DEF HistoryInv
  <2> QED BY <1>1, <1>5, <2>2, <2>3 DEF managerVars
<1>9. CASE Close
  <2>1. /\ main.pc = "close" /\ open' = open \ {main.fd} /\ main'.pc # "close"
        /\ UNCHANGED <<waiting_players, active_games>>
    BY <1>9, HandlerMoves DEF Close, managerVars
  <2>2. Active' = Active /\ Waiting' = Waiting /\ \A s : PlayersOf(s)' = PlayersOf(s)
    BY <2>1 DEF Active, Waiting, PlayersOf
  <2>3. OnePlace'
    BY <2>1, <2>2 DEF PlacesInv, OnePlace
  <2>4. StillOpen'
    BY <2>1, <2>2 DEF PlacesInv, StillOpen, Forgotten
  <2> QED BY <2>1, <2>3, <2>4 DEF PlacesInv, Forgotten
<1>10. ASSUME NEW fd \in Fds, CancelMatch(fd) PROVE PlacesInv'
  <2>1. /\ Waiting' = {} /\ UNCHANGED <<active_games, open, main>> /\ main.pc # "close"
    BY <1>10, LeaveQueueEffect DEF CancelMatch, LeaveQueue, serverVars, Request, Quiet
  <2>2. Active' = Active /\ \A s : PlayersOf(s)' = PlayersOf(s)
    BY <2>1 DEF Active, PlayersOf
  <2> QED BY <2>1, <2>2, SamePlaces DEF Forgotten
<1>11. ASSUME NEW fd \in Fds, Disconnect(fd) PROVE PlacesInv'
  <2>1. UNCHANGED open /\ main'.pc = "close" /\ main'.fd = fd
    BY <1>11, HandlerMoves DEF Disconnect
  <2>2. CASE LeaveQueue(fd)
    <3>1. /\ Waiting = {1} /\ waiting_players[1] = fd /\ Waiting' = {} /\ UNCHANGED active_games
      BY <2>2, LeaveQueueEffect DEF LeaveQueue
    <3>2. Active' = Active /\ \A s : PlayersOf(s)' = PlayersOf(s)
      BY <3>1 DEF Active, PlayersOf
    <3>3. \A s \in Active : fd \notin PlayersOf(s)
      BY <3>1 DEF PlacesInv, OnePlace
    <3>4. Forgotten'
      BY <2>1, <3>1, <3>2, <3>3 DEF Forgotten
    <3> QED BY <2>1, <3>1, <3>2, <3>4, SamePlaces
  <2>3. CASE WaitsAt(fd) = {} /\ GamesOf(fd) # {} /\ EndGame(First(GamesOf(fd)))
    <3>1. PICK s : s = First(GamesOf(fd))
      OBVIOUS
    <3>2. /\ s \in Active /\ fd \in PlayersOf(s) /\ Active' = Active \ {s} /\ Active \subseteq GameSlots
          /\ \A t \in GameSlots : PlayersOf(t)' = PlayersOf(t)
          /\ Waiting' = Waiting /\ waiting_players' = waiting_players
      BY <2>3, <3>1, Ended, FirstGame DEF EndGame, Waiting, Active
    <3>3. \A t \in Active' : fd \notin PlayersOf(t)
      BY <3>2 DEF PlacesInv, OnePlace
    <3>4. \A i \in Waiting : waiting_players[i] # fd
      BY <2>3 DEF WaitsAt
    <3>5. Forgotten'
      BY <2>1, <3>2, <3>3, <3>4 DEF Forgotten
    <3> QED BY <2>1, <3>2, <3>5, SamePlaces
  <2>4. CASE WaitsAt(fd) = {} /\ GamesOf(fd) = {} /\ UNCHANGED managerVars
    <3>1. /\ Active' = Active /\ Waiting' = Waiting /\ waiting_players' = waiting_players
          /\ \A s : PlayersOf(s)' = PlayersOf(s)
      BY <2>4 DEF managerVars, Active, Waiting, PlayersOf
    <3>2. Forgotten'
      BY <2>1, <2>4, <3>1 DEF Forgotten, WaitsAt, GamesOf
    <3> QED BY <2>1, <3>1, <3>2, SamePlaces
  <2> QED BY <1>11, <2>2, <2>3, <2>4 DEF Disconnect
<1>12. ASSUME NEW fd \in Fds, MatchGame(fd) PROVE PlacesInv'
  <2>1. /\ fd \in open /\ UNCHANGED open /\ main.pc # "close"
        /\ WaitsAt(fd) = {} /\ GamesOf(fd) = {}
    BY <1>12 DEF MatchGame, Request, Quiet
  <2>2. \A s \in Active : fd \notin PlayersOf(s)
    BY <2>1 DEF GamesOf
  <2>3. CASE EnterQueue(fd) /\ UNCHANGED main
    <3>1. /\ Waiting' = {1} /\ waiting_players'[1] = fd /\ UNCHANGED active_games
      BY <2>3, EnterQueueEffect, SlotFacts DEF EnterQueue, ManagerInv, ManagerTypeOK
    <3>2. Active' = Active /\ \A s : PlayersOf(s)' = PlayersOf(s)
      BY <3>1 DEF Active, PlayersOf
    <3>3. OnePlace'
      BY <2>2, <3>1, <3>2 DEF PlacesInv, OnePlace
    <3>4. StillOpen'
      BY <2>1, <3>1, <3>2 DEF PlacesInv, StillOpen
    <3> QED BY <2>1, <2>3, <3>3, <3>4 DEF PlacesInv, Forgotten
  <2>4. CASE NoGameSlot /\ UNCHANGED main
    BY <1>1, <2>1, <2>4 DEF NoGameSlot, managerVars
  <2>5. ASSUME NEW s \in GameSlots \ Active, NEW b \in BOOLEAN, Starts(fd, s, b)
        PROVE  PlacesInv'
    <3>1. PICK other : other = waiting_players[1]
      OBVIOUS
    <3>2. /\ Waiting = {1} /\ Waiting' = {} /\ Active' = Active \cup {s} /\ main'.pc # "close"
      BY <2>5 DEF Starts
    <3>3. PlayersOf(s)' = {fd, other}
      BY <2>5, <3>1 DEF Starts, PlayersOf, ManagerInv, ManagerTypeOK
    <3>4. \A t \in Active : t # s /\ PlayersOf(t)' = PlayersOf(t)
      BY <2>5 DEF Starts, PlayersOf, ManagerInv, ManagerTypeOK, Active
    <3>5. other \in open /\ \A t \in Active : other \notin PlayersOf(t)
      BY <3>1, <3>2 DEF PlacesInv, StillOpen, OnePlace
    <3>6. OnePlace'
      <4>1. \A t \in Active : PlayersOf(s)' \cap PlayersOf(t)' = {}
        BY <2>2, <3>3, <3>4, <3>5
      <4>2. \A t, u \in Active : PlayersOf(t)' \cap PlayersOf(u)' # {} => t = u
        BY <3>4 DEF PlacesInv, OnePlace
      <4> QED BY <3>2, <4>1, <4>2 DEF OnePlace
    <3>7. StillOpen'
      BY <2>1, <3>2, <3>3, <3>4, <3>5 DEF PlacesInv, StillOpen
    <3> QED BY <3>2, <3>6, <3>7 DEF PlacesInv, Forgotten
  <2> QED BY <1>12, <2>3, <2>4, <2>5, MatchGameEffect, MatchGameStep
<1> QED
  BY <1>2, <1>3, <1>4, <1>6, <1>7, <1>8, <1>9, <1>10, <1>11, <1>12
     DEF Next, HandlerStep, TimerThread

(* As long as no client asks for a game while it is in one, no live game   *)
(* is left with a player whose connection the server has closed: however   *)
(* connections come and go, handle_player_disconnect finds every trace.    *)
THEOREM NoGameOfTheClosed ==
  ASSUME ClientsRematch = FALSE
  PROVE  Spec => []NoClosedPlayer
<1>1. Init => PlacesInv
  <2> SUFFICES ASSUME Init PROVE PlacesInv
    OBVIOUS
  <2>1. Active = {} /\ Waiting = {} /\ main.pc = "epoll_wait"
    BY DEF Init, InitManager, Active, Waiting, EmptySlot, AtEpoll
  <2> QED BY <2>1 DEF PlacesInv, OnePlace, StillOpen, Forgotten
<1>2. ServerInv /\ PlacesInv /\ [Next]_vars => PlacesInv'
  BY PlacesStep
<1>3. PlacesInv => NoClosedPlayer
  BY DEF PlacesInv, StillOpen, NoClosedPlayer
<1> QED BY <1>1, <1>2, <1>3, ServerInvariant, PTL DEF Spec
=============================================================================
