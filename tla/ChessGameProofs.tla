-------------------------- MODULE ChessGameProofs --------------------------
(***************************************************************************)
(* Proofs about ChessGame for a board of any size, any position to begin   *)
(* on that StartAssumption allows, any limit of reversible moves and games *)
(* of any length: the two move generators agree, an en passant target is   *)
(* always the pawn's that has just passed it, no king is ever taken or     *)
(* left to be taken, a move is fair, and fen_parse reads the FEN of every  *)
(* position back.                                                          *)
(***************************************************************************)
EXTENDS ChessGame, FiniteSetTheorems, SequenceTheorems, WellFoundedInduction, TLAPS

(* A position, well typed. *)
PositionOK(G) ==
  /\ G = [board |-> G.board, side_to_move |-> G.side_to_move,
          halfmove_clock |-> G.halfmove_clock, rights |-> G.rights,
          en_passant |-> G.en_passant]
  /\ \A s \in DOMAIN G.board : s \in Squares /\ G.board[s] \in Piece
  /\ G.side_to_move \in Team
  /\ G.halfmove_clock \in 0..FiftyLimit
  /\ G.rights \subseteq Rights
  /\ G.en_passant \in Squares \cup {NoSquare}

(* A pawn that has not moved is on its home rank. *)
PawnsHome(G) ==
  \A s \in DOMAIN G.board :
    G.board[s].type = "pawn" /\ ~G.board[s].has_moved => s[2] = Home(G.board[s].team)

(* EnPassantSound, of any position. *)
EnPassantOK(G) ==
  LET t == G.en_passant
      team == Other(G.side_to_move)
      pawn == <<t[1], t[2] + Dir(team)>>
      from == <<t[1], t[2] - Dir(team)>>
  IN t # NoSquare =>
       /\ Dead(G, t) /\ Dead(G, from)
       /\ from[2] = Home(team)
       /\ ~Dead(G, pawn)
       /\ G.board[pawn] = [type |-> "pawn", team |-> team, has_moved |-> TRUE]

(* Each side has one king, and the side that has just moved, or that moves *)
(* second, is not in check.                                                *)
KingsIn(G, team) == {s \in PiecesOf(G, team) : G.board[s].type = "king"}
OneKing(G) == \A team \in Team : \E k : KingsIn(G, team) = {k}
NotInCheck(G) == ~is_in_check(G, Other(G.side_to_move))

PositionInv(G) ==
  PositionOK(G) /\ PawnsHome(G) /\ EnPassantOK(G) /\ OneKing(G) /\ NotInCheck(G)

GameInv ==
  /\ PositionInv(game_state)
  /\ result \in {"playing", "checkmate", "stalemate", "fifty"}
  /\ plies \in 0..MaxPlies
  /\ result = "playing" => game_state.halfmove_clock < FiftyLimit

-----------------------------------------------------------------------------
(* The offsets of the pieces that step and slide, and what they are like.  *)
LEMMA OffsetFacts ==
  /\ Offsets["bishop"] = Diagonal /\ Offsets["rook"] = Straight
  /\ Offsets["queen"] = Straight \cup Diagonal
  /\ Offsets["king"] = Straight \cup Diagonal
BY DEF Offsets, PieceTypes

LEMMA SliderOffsets ==
  ASSUME NEW type \in Sliders, NEW o \in Offsets[type]
  PROVE  o \in Straight \cup Diagonal
BY OffsetFacts DEF Sliders

LEMMA SquareFacts ==
  ASSUME NEW s \in Squares
  PROVE  /\ s = <<s[1], s[2]>>
         /\ s[1] \in Int /\ s[1] >= 0 /\ s[1] <= Files - 1
         /\ s[2] \in Int /\ s[2] >= 0 /\ s[2] <= Ranks - 1
         /\ s # NoSquare
BY RulesAssumption DEF Squares, NoSquare

(* A king steps to a neighbouring file or stays on its own, so it does not *)
(* castle.                                                                 *)
LEMMA NoCastling ==
  ASSUME NEW G, NEW s \in Squares, NEW d \in Squares, StepperMove(G, s, d)
  PROVE  ~IsCastling(G.board[s], s, d)
<1> SUFFICES ASSUME G.board[s].type = "king" PROVE AbsDiff(d[1], s[1]) # 2
  BY DEF IsCastling
<1>1. <<d[1] - s[1], d[2] - s[2]>> \in Straight \cup Diagonal
  BY OffsetFacts DEF StepperMove
<1>2. d[1] - s[1] \in {-1, 0, 1}
  BY <1>1, SquareFacts DEF Straight, Diagonal
<1> QED BY <1>2, SquareFacts DEF AbsDiff

-----------------------------------------------------------------------------
(* The two ways to find a square on a line: k steps of an offset lead from *)
(* s to d exactly when the code divides the distance out to be k.          *)
LEMMA DistanceIsSteps ==
  ASSUME NEW s \in Squares, NEW d \in Squares, NEW o \in Straight \cup Diagonal
  PROVE  /\ Distance(s, d, o) > 0 =>
              Distance(s, d, o) \in Reach /\ Along(s, o, Distance(s, d, o)) = d
         /\ \A k \in Reach : Along(s, o, k) = d => Distance(s, d, o) = k
         /\ Distance(s, d, o) \in Int
<1> DEFINE a == s[1]
           b == s[2]
           x == d[1]
           y == d[2]
           far == (IF Files > Ranks THEN Files ELSE Ranks) - 1
<1>1. /\ s = <<a, b>> /\ a \in Int /\ a >= 0 /\ a <= Files - 1 /\ b \in Int /\ b >= 0 /\ b <= Ranks - 1
      /\ s[1] = a /\ s[2] = b /\ d[1] = x /\ d[2] = y
      /\ d = <<x, y>> /\ x \in Int /\ x >= 0 /\ x <= Files - 1 /\ y \in Int /\ y >= 0 /\ y <= Ranks - 1
  BY SquareFacts
<1>2. Files \in Int /\ Ranks \in Int /\ far \in Int /\ far >= Files - 1 /\ far >= Ranks - 1 /\ Reach = 1..far
  BY RulesAssumption DEF Reach
<1> HIDE DEF a, b, x, y, far
<1>3. ASSUME NEW dx \in {-1, 0, 1}, NEW dy \in {-1, 0, 1}, o = <<dx, dy>>, dx # 0 \/ dy # 0
      PROVE  /\ Distance(s, d, o) > 0 =>
                  Distance(s, d, o) \in Reach /\ Along(s, o, Distance(s, d, o)) = d
             /\ \A k \in Reach : Along(s, o, k) = d => Distance(s, d, o) = k
             /\ Distance(s, d, o) \in Int
  <2> DEFINE n == Distance(s, d, o)
  <2>1. \A k \in Int : Along(s, o, k) = <<a + k * dx, b + k * dy>>
    BY <1>1, <1>3 DEF Along
  <2>2. n = IF dx = 0 THEN (IF x - a = 0 /\ dy * (y - b) > 0 THEN dy * (y - b) ELSE 0)
            ELSE IF dy = 0 THEN (IF y - b = 0 /\ dx * (x - a) > 0 THEN dx * (x - a) ELSE 0)
            ELSE (IF dx * (x - a) = dy * (y - b) /\ dx * (x - a) > 0 THEN dx * (x - a) ELSE 0)
    BY <1>1, <1>3 DEF Distance
  <2> HIDE DEF n
  <2>3. /\ n \in Int
        /\ n > 0 => n <= far /\ a + n * dx = x /\ b + n * dy = y
        /\ \A k \in 1..far : a + k * dx = x /\ b + k * dy = y => n = k
    <3>1. CASE dx = 1
      BY <1>1, <1>2, <2>2, <3>1
    <3>2. CASE dx = -1
      BY <1>1, <1>2, <2>2, <3>2
    <3>3. CASE dx = 0
      BY <1>1, <1>2, <1>3, <2>2, <3>3
    <3> QED BY <3>1, <3>2, <3>3
  <2>4. n > 0 => n \in Reach /\ Along(s, o, n) = d
    <3>1. Along(s, o, n) = <<a + n * dx, b + n * dy>>
      BY <2>1, <2>3
    <3>2. n > 0 => Along(s, o, n) = <<x, y>>
      BY <2>3, <3>1
    <3>3. n > 0 => n \in Reach
      BY <1>2, <2>3
    <3> QED BY <1>1, <3>2, <3>3
  <2>5. ASSUME NEW k \in Reach, Along(s, o, k) = d PROVE n = k
    <3>1. k \in 1..far /\ k \in Int
      BY <1>2
    <3>2. <<a + k * dx, b + k * dy>> = <<x, y>>
      BY <1>1, <2>1, <2>5, <3>1, Zenon
    <3>3. a + k * dx = x /\ b + k * dy = y
      BY <3>2
    <3> QED BY <2>3, <3>1, <3>3
  <2> QED BY <2>3, <2>4, <2>5 DEF n
<1>4. \E dx \in {-1, 0, 1}, dy \in {-1, 0, 1} : o = <<dx, dy>> /\ (dx # 0 \/ dy # 0)
  BY DEF Straight, Diagonal
<1> QED BY <1>3, <1>4

LEMMA SlidersAgree ==
  ASSUME NEW G, NEW s \in Squares, NEW d \in Squares, G.board[s].type \in Sliders
  PROVE  SliderMove(G, s, d) <=>
           \E o \in Offsets[G.board[s].type], k \in Reach :
             /\ Along(s, o, k) = d
             /\ \A j \in 1..(k - 1) : Dead(G, Along(s, o, j))
<1>1. ASSUME NEW o \in Offsets[G.board[s].type], Distance(s, d, o) > 0
      PROVE  Distance(s, d, o) \in Reach /\ Along(s, o, Distance(s, d, o)) = d
  BY <1>1, SliderOffsets, DistanceIsSteps
<1>2. ASSUME NEW o \in Offsets[G.board[s].type], NEW k \in Reach, Along(s, o, k) = d
      PROVE  Distance(s, d, o) = k /\ k > 0
  BY <1>2, SliderOffsets, DistanceIsSteps, RulesAssumption DEF Reach
<1>3. ASSUME SliderMove(G, s, d)
      PROVE  \E o \in Offsets[G.board[s].type], k \in Reach :
               /\ Along(s, o, k) = d
               /\ \A j \in 1..(k - 1) : Dead(G, Along(s, o, j))
  <2>1. PICK o \in Offsets[G.board[s].type] :
          /\ Distance(s, d, o) > 0
          /\ \A j \in 1..(Distance(s, d, o) - 1) : Dead(G, Along(s, o, j))
    BY <1>3 DEF SliderMove
  <2> QED BY <1>1, <2>1
<1>4. ASSUME NEW o \in Offsets[G.board[s].type], NEW k \in Reach, Along(s, o, k) = d,
             \A j \in 1..(k - 1) : Dead(G, Along(s, o, j))
      PROVE  SliderMove(G, s, d)
  BY <1>2, <1>4 DEF SliderMove
<1> QED BY <1>3, <1>4

LEMMA StepperOffsets ==
  ASSUME NEW type \in Steppers, NEW o \in Offsets[type]
  PROVE  o = <<o[1], o[2]>> /\ o[1] \in Int /\ o[2] \in Int
<1>1. CASE type = "king"
  BY <1>1, OffsetFacts DEF Straight, Diagonal
<1>2. CASE type = "knight"
  BY <1>2 DEF Offsets, PieceTypes
<1> QED BY <1>1, <1>2 DEF Steppers

LEMMA SteppersAgree ==
  ASSUME NEW G, NEW s \in Squares, NEW d \in Squares, G.board[s].type \in Steppers
  PROVE  StepperMove(G, s, d) <=> \E o \in Offsets[G.board[s].type] : Along(s, o, 1) = d
<1> DEFINE step == <<d[1] - s[1], d[2] - s[2]>>
           offsets == Offsets[G.board[s].type]
<1>1. ASSUME NEW o \in offsets
      PROVE  Along(s, o, 1) = d <=> o = step
  <2>1. o = <<o[1], o[2]>> /\ o[1] \in Int /\ o[2] \in Int
    BY StepperOffsets
  <2>2. Along(s, o, 1) = <<s[1] + o[1], s[2] + o[2]>>
    BY <2>1 DEF Along
  <2>3. s[1] + o[1] = d[1] /\ s[2] + o[2] = d[2] <=> o[1] = d[1] - s[1] /\ o[2] = d[2] - s[2]
    BY <2>1, SquareFacts
  <2>4. d = <<d[1], d[2]>>
    BY SquareFacts
  <2> QED BY <2>1, <2>2, <2>3, <2>4
<1>2. step \in offsets => ~(IsCastling(G.board[s], s, d) /\ s[2] = d[2])
  <2> SUFFICES ASSUME step \in offsets, G.board[s].type = "king" PROVE AbsDiff(d[1], s[1]) # 2
    BY DEF IsCastling
  <2>1. step \in Straight \cup Diagonal
    BY OffsetFacts
  <2>2. d[1] - s[1] \in {-1, 0, 1}
    BY <2>1, SquareFacts DEF Straight, Diagonal
  <2> QED BY <2>2, SquareFacts DEF AbsDiff
<1>3. StepperMove(G, s, d) <=> step \in offsets
  BY <1>2 DEF StepperMove
<1> QED BY <1>1, <1>3

(* A piece takes what it attacks and attacks what it may take.             *)
LEMMA AttackIsCapture ==
  ASSUME NEW G, PositionOK(G), NEW s \in DOMAIN G.board, NEW d \in DOMAIN G.board,
         G.board[s].team = G.side_to_move, G.board[d].team # G.side_to_move
  PROVE  Attacks(G, s, d) <=> PseudoLegal(G, s, d)
<1> DEFINE type == G.board[s].type
<1>1. /\ s \in Squares /\ d \in Squares /\ type \in PieceTypes
      /\ G.board[s].team \in Team /\ ~Dead(G, s) /\ ~Dead(G, d)
  BY DEF PositionOK, Piece, Dead
<1>2. CASE type = "pawn"
  <2>1. PawnMove(G, s, d) <=>
          d[2] = s[2] + Dir(G.board[s].team) /\ AbsDiff(d[1], s[1]) = 1
    BY <1>1, SquareFacts DEF PawnMove, Dir, AbsDiff
  <2> QED BY <1>1, <1>2, <2>1 DEF Attacks, PseudoLegal, Steppers, Sliders
<1>3. CASE type \in Steppers
  BY <1>1, <1>3, SteppersAgree DEF Attacks, PseudoLegal, Steppers, Sliders
<1>4. CASE type \in Sliders
  BY <1>1, <1>4, SlidersAgree DEF Attacks, PseudoLegal, Steppers, Sliders
<1> QED BY <1>1, <1>2, <1>3, <1>4 DEF PieceTypes, Steppers, Sliders

-----------------------------------------------------------------------------
(* What a move that the rules allow does to the board. *)
Passed(G, s, d) ==
  IF G.board[s].type = "pawn" /\ d = G.en_passant THEN {<<d[1], s[2]>>} ELSE {}

(* The pawn taken in passing is the one that has just gone past. *)
LEMMA PassedPawn ==
  ASSUME NEW G, PositionOK(G), EnPassantOK(G), NEW s \in Squares, NEW d \in Squares,
         PseudoLegal(G, s, d), NEW p \in Passed(G, s, d)
  PROVE  /\ Dead(G, d) /\ p # s /\ p # d /\ ~Dead(G, p)
         /\ G.board[p].type = "pawn" /\ G.board[p].team = Other(G.side_to_move)
<1> DEFINE me == G.side_to_move
           t == G.en_passant
           pawn == <<t[1], t[2] + Dir(Other(me))>>
<1>1. G.board[s].type = "pawn" /\ d = t /\ p = <<d[1], s[2]>>
  BY DEF Passed
<1>2. /\ Dead(G, t) /\ ~Dead(G, pawn)
      /\ G.board[pawn].team = Other(me) /\ G.board[pawn].type = "pawn"
  BY <1>1, SquareFacts DEF EnPassantOK
<1>3. /\ me \in Team /\ G.board[s].team = me /\ PawnMove(G, s, d)
      /\ ~Dead(G, s)
  BY <1>1 DEF PseudoLegal, PositionOK, Steppers, Sliders
<1>4. Dir(Other(me)) = -Dir(me) /\ Dir(me) \in {-1, 1} /\ Other(me) # me
  BY <1>3 DEF Dir, Other, Team
<1>5. s # pawn
  BY <1>2, <1>3, <1>4
<1>6. d[1] - s[1] \in {-1, 1} /\ d[2] - s[2] = Dir(me)
  <2> SUFFICES ASSUME d[1] = s[1],
                      d[2] - s[2] = Dir(me) \/ /\ d[2] - s[2] = 2 * Dir(me)
                                               /\ Dead(G, <<s[1], s[2] + Dir(me)>>)
               PROVE  FALSE
    BY <1>3, SquareFacts DEF PawnMove
  <2>1. CASE d[2] - s[2] = Dir(me)
    <3>1. s[2] = t[2] + Dir(Other(me)) /\ s[1] = t[1]
      BY <1>1, <1>4, <2>1, SquareFacts
    <3> QED BY <1>5, <3>1, SquareFacts
  <2>2. CASE d[2] - s[2] = 2 * Dir(me) /\ Dead(G, <<s[1], s[2] + Dir(me)>>)
    <3>1. s[2] + Dir(me) = t[2] + Dir(Other(me)) /\ s[1] = t[1]
      BY <1>1, <1>4, <2>2, SquareFacts
    <3> QED BY <1>2, <2>2, <3>1
  <2> QED BY <2>1, <2>2
<1>7. p = pawn
  <2>1. s[2] = t[2] + Dir(Other(me))
    BY <1>1, <1>4, <1>6, SquareFacts
  <2> QED BY <1>1, <2>1
<1> QED BY <1>1, <1>2, <1>5, <1>7 DEF Dead

LEMMA MovedBoard ==
  ASSUME NEW G, PositionOK(G), EnPassantOK(G), NEW s \in Squares, NEW d \in Squares,
         PseudoLegal(G, s, d), NEW H, H = apply_move(G, s, d)
  PROVE  /\ s # d /\ s \in DOMAIN G.board /\ G.board[s].team = G.side_to_move
         /\ DOMAIN H.board = (DOMAIN G.board \ ({s} \cup Passed(G, s, d))) \cup {d}
         /\ \A q \in DOMAIN H.board :
              H.board[q] = IF q = d THEN Lands(G.board[s], d) ELSE G.board[q]
         /\ H.side_to_move = Other(G.side_to_move)
         /\ H.halfmove_clock = HalfmoveAfter(G, s, d)
         /\ H.rights \subseteq G.rights
         /\ H.en_passant = EnPassantAfter(G, s, d)
         /\ H = [board |-> H.board, side_to_move |-> H.side_to_move,
                 halfmove_clock |-> H.halfmove_clock, rights |-> H.rights,
                 en_passant |-> H.en_passant]
<1>1. s # d /\ ~Dead(G, s) /\ G.board[s].team = G.side_to_move
  BY DEF PseudoLegal
<1>2. ~IsCastling(G.board[s], s, d)
  <2>1. CASE G.board[s].type = "king"
    BY <2>1, NoCastling DEF PseudoLegal, Steppers, Sliders
  <2> QED BY <2>1 DEF IsCastling
<1>3. H = [board          |-> BoardAfter(G, s, d),
           side_to_move   |-> Other(G.side_to_move),
           halfmove_clock |-> HalfmoveAfter(G, s, d),
           rights         |-> RightsAfter(G, s, d),
           en_passant     |-> EnPassantAfter(G, s, d)]
  BY <1>1 DEF apply_move
<1>4. BoardAfter(G, s, d) =
        [q \in (DOMAIN G.board \ ({s} \cup Passed(G, s, d))) \cup {d} |->
           IF q = d THEN Lands(G.board[s], d) ELSE G.board[q]]
  BY <1>2 DEF BoardAfter, Passed
<1>5. RightsAfter(G, s, d) \subseteq G.rights
  BY DEF RightsAfter
<1>6. H.board = BoardAfter(G, s, d)
  BY <1>3
<1>7. /\ DOMAIN H.board = (DOMAIN G.board \ ({s} \cup Passed(G, s, d))) \cup {d}
      /\ \A q \in DOMAIN H.board :
           H.board[q] = IF q = d THEN Lands(G.board[s], d) ELSE G.board[q]
  BY <1>4, <1>6
<1> QED BY <1>1, <1>3, <1>5, <1>7 DEF Dead

(* The pieces of both sides after a move: its own side has one on d in     *)
(* place of the one on s, the other side has lost what stood on d or was   *)
(* taken in passing.                                                       *)
LEMMA MovedPieces ==
  ASSUME NEW G, PositionOK(G), EnPassantOK(G), NEW s \in Squares, NEW d \in Squares,
         PseudoLegal(G, s, d), NEW H, H = apply_move(G, s, d)
  PROVE  LET me == G.side_to_move
         IN /\ s \in PiecesOf(G, me) /\ d \notin PiecesOf(G, me)
            /\ PiecesOf(H, me) = (PiecesOf(G, me) \ {s}) \cup {d}
            /\ PiecesOf(H, Other(me)) = PiecesOf(G, Other(me)) \ ({d} \cup Passed(G, s, d))
<1> DEFINE me == G.side_to_move
<1>1. /\ s # d /\ s \in DOMAIN G.board /\ G.board[s].team = me
      /\ DOMAIN H.board = (DOMAIN G.board \ ({s} \cup Passed(G, s, d))) \cup {d}
      /\ \A q \in DOMAIN H.board :
           H.board[q] = IF q = d THEN Lands(G.board[s], d) ELSE G.board[q]
  BY MovedBoard
<1>2. /\ me # Other(me) /\ Lands(G.board[s], d).team = me
      /\ d \in DOMAIN G.board => G.board[d].team # me
  BY <1>1 DEF PositionOK, Team, Other, Lands, PseudoLegal, Dead
<1>3. \A p \in Passed(G, s, d) : G.board[p].team = Other(me)
  BY PassedPawn
<1> QED BY <1>1, <1>2, <1>3 DEF PiecesOf

(* A double step sets the target behind the pawn; nothing else sets one.   *)
LEMMA DoubleStep ==
  ASSUME NEW G, PositionOK(G), PawnsHome(G), NEW s \in Squares, NEW d \in Squares,
         PseudoLegal(G, s, d), EnPassantAfter(G, s, d) # NoSquare
  PROVE  LET team == G.side_to_move
         IN /\ G.board[s].type = "pawn" /\ G.board[s].team = team
            /\ d = <<s[1], s[2] + 2 * Dir(team)>>
            /\ EnPassantAfter(G, s, d) = <<s[1], s[2] + Dir(team)>>
            /\ Dead(G, <<s[1], s[2] + Dir(team)>>)
            /\ s[2] = Home(team) /\ d[2] \notin LastRanks
<1> DEFINE team == G.side_to_move
<1>1. /\ G.board[s].type = "pawn" /\ AbsDiff(d[2], s[2]) = 2
      /\ EnPassantAfter(G, s, d) = <<d[1], (s[2] + d[2]) \div 2>>
  BY DEF EnPassantAfter
<1>2. /\ G.board[s].team = team /\ PawnMove(G, s, d) /\ s \in DOMAIN G.board
      /\ team \in Team /\ Dir(team) \in {-1, 1}
  BY <1>1 DEF PseudoLegal, Steppers, Sliders, Dead, PositionOK, Dir
<1>3. /\ d[1] - s[1] = 0 /\ d[2] - s[2] = 2 * Dir(team) /\ ~G.board[s].has_moved
      /\ Dead(G, <<s[1], s[2] + Dir(team)>>)
  BY <1>1, <1>2, SquareFacts DEF PawnMove, AbsDiff
<1>4. d = <<s[1], s[2] + 2 * Dir(team)>> /\ (s[2] + d[2]) \div 2 = s[2] + Dir(team)
  BY <1>2, <1>3, SquareFacts
<1>5. s[2] = Home(team)
  BY <1>1, <1>2, <1>3 DEF PawnsHome
<1>6. d[2] \notin LastRanks
  BY <1>2, <1>3, <1>5, SquareFacts, RulesAssumption DEF Home, Dir, LastRanks, Team
<1> QED BY <1>1, <1>2, <1>3, <1>4, <1>5, <1>6

-----------------------------------------------------------------------------
(* A legal move keeps every part of the invariant. *)
LEMMA MoveTyped ==
  ASSUME NEW G, PositionInv(G), G.halfmove_clock < FiftyLimit,
         NEW s \in Squares, NEW d \in Squares, PseudoLegal(G, s, d),
         NEW H, H = apply_move(G, s, d)
  PROVE  PositionOK(H)
<1> USE DEF PositionInv
<1>1. \A q \in DOMAIN H.board : q \in Squares /\ H.board[q] \in Piece
  <2>1. Lands(G.board[s], d) \in Piece
    BY MovedBoard DEF PositionOK, Lands, Piece, PieceTypes
  <2> QED BY <2>1, MovedBoard DEF PositionOK
<1>2. H.side_to_move \in Team
  BY MovedBoard DEF PositionOK, Other, Team
<1>3. H.halfmove_clock \in 0..FiftyLimit
  BY MovedBoard, RulesAssumption DEF PositionOK, HalfmoveAfter
<1>4. H.rights \subseteq Rights
  BY MovedBoard DEF PositionOK
<1>5. H.en_passant \in Squares \cup {NoSquare}
  <2> SUFFICES ASSUME EnPassantAfter(G, s, d) # NoSquare
               PROVE  EnPassantAfter(G, s, d) \in Squares
    BY MovedBoard
  <2>1. /\ d = <<s[1], s[2] + 2 * Dir(G.side_to_move)>>
        /\ EnPassantAfter(G, s, d) = <<s[1], s[2] + Dir(G.side_to_move)>>
    BY DoubleStep
  <2>2. Dir(G.side_to_move) \in {-1, 1}
    BY DEF Dir
  <2> QED BY <2>1, <2>2, RulesAssumption DEF Squares
<1> QED BY <1>1, <1>2, <1>3, <1>4, <1>5, MovedBoard DEF PositionOK

LEMMA MovePawnsHome ==
  ASSUME NEW G, PositionInv(G), NEW s \in Squares, NEW d \in Squares, PseudoLegal(G, s, d),
         NEW H, H = apply_move(G, s, d)
  PROVE  PawnsHome(H)
<1>1. /\ DOMAIN H.board \subseteq DOMAIN G.board \cup {d}
      /\ \A q \in DOMAIN H.board :
           H.board[q] = IF q = d THEN Lands(G.board[s], d) ELSE G.board[q]
  BY MovedBoard DEF PositionInv
<1>2. Lands(G.board[s], d).has_moved
  BY DEF Lands
<1>3. ASSUME NEW q \in DOMAIN H.board, H.board[q].type = "pawn", ~H.board[q].has_moved
      PROVE  q[2] = Home(H.board[q].team)
  <2>1. q \in DOMAIN G.board /\ H.board[q] = G.board[q]
    BY <1>1, <1>2, <1>3
  <2> QED BY <1>3, <2>1 DEF PositionInv, PawnsHome
<1> QED BY <1>3 DEF PawnsHome

LEMMA MoveEnPassant ==
  ASSUME NEW G, PositionInv(G), NEW s \in Squares, NEW d \in Squares, PseudoLegal(G, s, d),
         NEW H, H = apply_move(G, s, d)
  PROVE  EnPassantOK(H)
<1> USE DEF PositionInv
<1> DEFINE team == G.side_to_move
           t == <<s[1], s[2] + Dir(team)>>
<1> SUFFICES ASSUME H.en_passant # NoSquare PROVE EnPassantOK(H)
  BY DEF EnPassantOK
<1>1. /\ G.board[s].type = "pawn" /\ G.board[s].team = team
      /\ d = <<s[1], s[2] + 2 * Dir(team)>> /\ H.en_passant = t
      /\ Dead(G, t) /\ s[2] = Home(team) /\ d[2] \notin LastRanks
  BY MovedBoard, DoubleStep
<1>2. Other(H.side_to_move) = team /\ Dir(team) \in {-1, 1}
  BY MovedBoard DEF Other, PositionOK, Team, Dir
<1>3. /\ t # d
      /\ <<t[1], t[2] + Dir(team)>> = d
      /\ <<t[1], t[2] - Dir(team)>> = s
  BY <1>1, <1>2, SquareFacts
<1>4. Dead(H, t) /\ Dead(H, s) /\ ~Dead(H, d)
  BY <1>1, <1>3, MovedBoard DEF Dead
<1>5. H.board[d] = [type |-> "pawn", team |-> team, has_moved |-> TRUE]
  BY <1>1, MovedBoard DEF Lands
<1> QED BY <1>1, <1>2, <1>3, <1>4, <1>5 DEF EnPassantOK

(* What is taken is not a king: it would have been in check on the other   *)
(* side's move.                                                            *)
LEMMA NoKingTaken ==
  ASSUME NEW G, PositionInv(G), NEW s \in Squares, NEW d \in Squares, PseudoLegal(G, s, d),
         d \in DOMAIN G.board
  PROVE  G.board[d].type # "king"
<1> SUFFICES ASSUME G.board[d].type = "king" PROVE FALSE
  OBVIOUS
<1>1. /\ s \in DOMAIN G.board /\ G.board[s].team = G.side_to_move
      /\ G.board[d].team # G.side_to_move /\ G.board[d].team \in Team /\ G.side_to_move \in Team
  BY DEF PositionInv, PositionOK, PseudoLegal, Dead, Piece
<1>2. Attacks(G, s, d)
  BY <1>1, AttackIsCapture DEF PositionInv
<1>3. G.board[d].team = Other(G.side_to_move) /\ Other(Other(G.side_to_move)) = G.side_to_move
  BY <1>1 DEF Other, Team
<1>4. is_square_attacked(G, d, G.side_to_move)
  BY <1>1, <1>2 DEF is_square_attacked, PiecesOf
<1> QED BY <1>3, <1>4 DEF PositionInv, NotInCheck, is_in_check, PiecesOf

LEMMA MoveKings ==
  ASSUME NEW G, PositionInv(G), NEW s \in Squares, NEW d \in Squares, PseudoLegal(G, s, d),
         NEW H, H = apply_move(G, s, d)
  PROVE  OneKing(H)
<1> USE DEF PositionInv
<1> DEFINE me == G.side_to_move
<1>1. /\ s \in PiecesOf(G, me) /\ d \notin PiecesOf(G, me)
      /\ PiecesOf(H, me) = (PiecesOf(G, me) \ {s}) \cup {d}
      /\ PiecesOf(H, Other(me)) = PiecesOf(G, Other(me)) \ ({d} \cup Passed(G, s, d))
  BY MovedPieces
<1>2. /\ \A q \in DOMAIN H.board :
           H.board[q] = IF q = d THEN Lands(G.board[s], d) ELSE G.board[q]
      /\ d \in DOMAIN H.board
      /\ Lands(G.board[s], d).type = "king" <=> G.board[s].type = "king"
  BY MovedBoard DEF Lands
<1>3. PICK k : KingsIn(G, me) = {k}
  BY DEF OneKing, PositionOK
<1>4. KingsIn(H, me) = IF s = k THEN {d} ELSE {k}
  BY <1>1, <1>2, <1>3 DEF KingsIn, PiecesOf
<1>5. KingsIn(H, Other(me)) = KingsIn(G, Other(me))
  <2>1. \A q \in KingsIn(G, Other(me)) : q # d /\ q \notin Passed(G, s, d)
    BY NoKingTaken, PassedPawn DEF KingsIn, PiecesOf
  <2> QED BY <1>1, <1>2, <2>1 DEF KingsIn, PiecesOf
<1>6. \A team \in Team : team = me \/ team = Other(me)
  BY DEF PositionOK, Team, Other
<1>7. Other(me) \in Team
  BY DEF Other, Team
<1> QED BY <1>4, <1>5, <1>6, <1>7 DEF OneKing

LEMMA MoveKeeps ==
  ASSUME NEW G, PositionInv(G), G.halfmove_clock < FiftyLimit,
         NEW s \in Squares, NEW d \in Squares, is_move_legal(G, s, d)
  PROVE  PositionInv(apply_move(G, s, d))
<1> DEFINE H == apply_move(G, s, d)
<1>1. PseudoLegal(G, s, d) /\ ~is_in_check(H, G.side_to_move)
  BY DEF is_move_legal
<1>2. PositionOK(H) /\ PawnsHome(H) /\ EnPassantOK(H) /\ OneKing(H)
  BY <1>1, MoveTyped, MovePawnsHome, MoveEnPassant, MoveKings
<1>3. NotInCheck(H)
  <2>1. Other(H.side_to_move) = G.side_to_move
    BY <1>1, MovedBoard DEF PositionInv, PositionOK, Other, Team
  <2> QED BY <1>1, <2>1 DEF NotInCheck
<1> QED BY <1>2, <1>3 DEF PositionInv

(* The squares, and so the pieces of a side, are finitely many. *)
LEMMA PiecesFinite ==
  ASSUME NEW G, PositionOK(G), NEW team
  PROVE  IsFiniteSet(PiecesOf(G, team)) /\ IsFiniteSet(KingsIn(G, team))
<1>1. IsFiniteSet(0..(Files - 1)) /\ IsFiniteSet(0..(Ranks - 1))
  <2>1. 0 \in Int /\ Files - 1 \in Int /\ Ranks - 1 \in Int
    BY RulesAssumption
  <2> QED BY <2>1, FS_Interval
<1>2. IsFiniteSet(Squares)
  BY <1>1, FS_Product DEF Squares
<1>3. PiecesOf(G, team) \in SUBSET Squares /\ KingsIn(G, team) \in SUBSET Squares
  BY DEF PositionOK, PiecesOf, KingsIn
<1> QED BY <1>2, <1>3, FS_Subset

LEMMA InitInv == Init => GameInv
<1> SUFFICES ASSUME Init PROVE GameInv
  OBVIOUS
<1>1. start \in StartBoards /\ game_state = StartPosition(start)
  BY DEF Init
<1>2. PositionOK(game_state)
  BY <1>1, GameAssumption, RulesAssumption DEF PositionOK, StartPosition, Team
<1>3. PawnsHome(game_state)
  BY <1>1, StartAssumption DEF PawnsHome, StartPosition
<1>4. EnPassantOK(game_state)
  BY <1>1 DEF EnPassantOK, StartPosition
<1>5. OneKing(game_state)
  <2> SUFFICES ASSUME NEW team \in Team PROVE \E k : KingsIn(game_state, team) = {k}
    BY DEF OneKing
  <2>1. Cardinality({s \in PiecesOf(StartPosition(start), team) : start[s].type = "king"}) = 1
    BY <1>1, StartAssumption
  <2>2. {s \in PiecesOf(StartPosition(start), team) : start[s].type = "king"}
          = KingsIn(game_state, team)
    BY <1>1 DEF KingsIn, PiecesOf, StartPosition
  <2> QED BY <1>2, <2>1, <2>2, PiecesFinite, FS_Singleton
<1>6. NotInCheck(game_state)
  <2>1. Other(game_state.side_to_move) = "black"
    BY <1>1 DEF StartPosition, Other
  <2> QED BY <1>1, <2>1, StartAssumption DEF NotInCheck
<1>7. game_state.halfmove_clock = 0
  BY <1>1 DEF StartPosition
<1> QED BY <1>2, <1>3, <1>4, <1>5, <1>6, <1>7, GameAssumption, RulesAssumption
        DEF GameInv, PositionInv, Init

(* A step is a legal move of the side to move, or nothing. *)
LEMMA StepIsMove ==
  ASSUME GameInv, [Next]_vars
  PROVE  \/ UNCHANGED vars
         \/ /\ result = "playing"
            /\ \E s \in Squares, d \in Squares :
                 /\ is_move_legal(game_state, s, d)
                 /\ game_state' = apply_move(game_state, s, d)
            /\ result' = Verdict(game_state')
            /\ plies < MaxPlies /\ plies' = plies + 1
<1>1. CASE Move
  <2>1. PICK m \in LegalMoves(game_state) : game_state' = apply_move(game_state, m[1], m[2])
    BY <1>1 DEF Move
  <2>2. m[1] \in Squares /\ m[2] \in Squares /\ is_move_legal(game_state, m[1], m[2])
    BY DEF LegalMoves, PiecesOf, GameInv, PositionInv, PositionOK
  <2> QED BY <1>1, <2>1, <2>2 DEF Move
<1>2. CASE Over
  BY <1>2 DEF Over
<1> QED BY <1>1, <1>2 DEF Next

LEMMA StepInv == GameInv /\ [Next]_vars => GameInv'
<1> SUFFICES ASSUME GameInv, [Next]_vars PROVE GameInv'
  OBVIOUS
<1>1. CASE UNCHANGED vars
  BY <1>1 DEF vars, GameInv, PositionInv, PositionOK, PawnsHome, EnPassantOK, OneKing, NotInCheck
<1>2. CASE /\ result = "playing"
           /\ \E s \in Squares, d \in Squares :
                /\ is_move_legal(game_state, s, d)
                /\ game_state' = apply_move(game_state, s, d)
           /\ result' = Verdict(game_state')
           /\ plies < MaxPlies /\ plies' = plies + 1
  <2>1. PICK G : G = game_state
    OBVIOUS
  <2>2. PICK H : H = game_state'
    OBVIOUS
  <2>3. PositionInv(H)
    <3>1. PositionInv(G) /\ G.halfmove_clock < FiftyLimit
      BY <1>2, <2>1 DEF GameInv
    <3> QED BY <1>2, <2>1, <2>2, <3>1, MoveKeeps
  <2>4. /\ Verdict(H) \in {"playing", "checkmate", "stalemate", "fifty"}
        /\ Verdict(H) = "playing" => H.halfmove_clock < FiftyLimit
    <3>1. H.halfmove_clock \in Nat /\ FiftyLimit \in Nat
      BY <2>3, RulesAssumption DEF PositionInv, PositionOK
    <3> QED BY <3>1 DEF Verdict, is_fifty_move_rule
  <2>5. plies' \in 0..MaxPlies
    BY <1>2, GameAssumption DEF GameInv
  <2> QED BY <1>2, <2>2, <2>3, <2>4, <2>5 DEF GameInv
<1> QED BY <1>1, <1>2, StepIsMove

(* The inductive invariant: the position is well typed, pawns that have    *)
(* not moved are at home, an en passant target is sound, each side has its *)
(* king and the side that has just moved (apply_move, move.c) is not in    *)
(* check, in every state of every game.                                    *)
THEOREM GameInvariant == Spec => []GameInv
<1>1. Init => GameInv
  BY InitInv
<1>2. GameInv /\ [Next]_vars => GameInv'
  BY StepInv
<1> QED BY <1>1, <1>2, PTL DEF Spec

-----------------------------------------------------------------------------
(* Every position a game comes to is well typed, and the count of          *)
(* reversible moves (game_t, common/types.h) never exceeds its limit.      *)
THEOREM GameTypes == Spec => []GameTypeOK
<1>1. GameInv => GameTypeOK
  BY DEF GameInv, GameTypeOK, PositionInv, PositionOK, board
<1> QED BY <1>1, GameInvariant, PTL

(* No king is ever taken, and nobody leaves his own to be taken            *)
(* (is_move_legal, common/rule.c): the test for check after the move is    *)
(* enough also when the move takes two pieces off a line in passing.       *)
THEOREM KingsAreSafe == Spec => []KingsSafe
<1>1. GameInv => KingsSafe
  <2> SUFFICES ASSUME GameInv PROVE KingsSafe
    OBVIOUS
  <2>1. ~is_in_check(game_state, Mover)
    BY DEF GameInv, PositionInv, NotInCheck, Mover
  <2>2. ASSUME NEW team \in Team PROVE Cardinality(KingsOf(team)) = 1
    <3>1. KingsOf(team) = KingsIn(game_state, team)
      BY DEF KingsOf, KingsIn, board
    <3> QED BY <3>1, FS_Singleton DEF GameInv, PositionInv, OneKing
  <2> QED BY <2>1, <2>2 DEF KingsSafe
<1> QED BY <1>1, GameInvariant, PTL

(* The target of en passant (apply_move, common/rule.c) is always behind a *)
(* pawn of the side that has just moved, which came from its home rank.    *)
THEOREM EnPassantIsSound == Spec => []EnPassantSound
<1>1. GameInv => EnPassantSound
  BY DEF GameInv, PositionInv, EnPassantOK, EnPassantSound, Mover, board
<1> QED BY <1>1, GameInvariant, PTL

(* is_square_attacked and is_move_legal (common/rule.c) find the same      *)
(* captures, one walking the lines, the other dividing distances.          *)
THEOREM GeneratorsAgree == Spec => []AttackMeansCapture
<1>1. GameInv => AttackMeansCapture
  <2> SUFFICES ASSUME GameInv, NEW s \in DOMAIN board
               PROVE  LET by == Other(board[s].team)
                          theirs == [game_state EXCEPT !.side_to_move = by]
                      IN is_square_attacked(game_state, s, by)
                           <=> \E q \in PiecesOf(game_state, by) : PseudoLegal(theirs, q, s)
    BY DEF AttackMeansCapture
  <2> DEFINE by == Other(board[s].team)
             theirs == [game_state EXCEPT !.side_to_move = by]
  <2>1. PositionOK(game_state) /\ board[s].team \in Team /\ by \in Team /\ board[s].team # by
    BY DEF GameInv, PositionInv, PositionOK, Piece, Team, Other, board
  <2>2. /\ theirs.board = board /\ theirs.side_to_move = by
        /\ PositionOK(theirs)
    BY <2>1 DEF PositionOK, board
  <2>3. ASSUME NEW q \in PiecesOf(game_state, by)
        PROVE  Attacks(game_state, q, s) <=> PseudoLegal(theirs, q, s)
    <3>1. q \in DOMAIN theirs.board /\ theirs.board[q].team = by
      BY <2>2 DEF PiecesOf, board
    <3>2. Attacks(theirs, q, s) <=> PseudoLegal(theirs, q, s)
      <4> HIDE DEF theirs
      <4> QED BY <2>1, <2>2, <3>1, AttackIsCapture
    <3>3. Attacks(theirs, q, s) <=> Attacks(game_state, q, s)
      BY <2>2 DEF Attacks, Dead, board
    <3> QED BY <3>2, <3>3
  <2> QED BY <2>3 DEF is_square_attacked
<1> QED BY <1>1, GameInvariant, PTL

-----------------------------------------------------------------------------
(* The arithmetic of a move's material. *)
PawnsIn(P) == {s \in DOMAIN P.board : P.board[s].type = "pawn"}

LEMMA MoveMaterial ==
  ASSUME NEW G, PositionInv(G), NEW s \in Squares, NEW d \in Squares, PseudoLegal(G, s, d),
         NEW H, H = apply_move(G, s, d)
  PROVE  LET me == G.side_to_move
         IN /\ Material(H, me) = Material(G, me)
            /\ Material(G, Other(me)) - Material(H, Other(me)) =
                 IF d \in DOMAIN G.board \/ Passed(G, s, d) # {} THEN 1 ELSE 0
<1> USE DEF PositionInv
<1> DEFINE me == G.side_to_move
           mine == PiecesOf(G, me)
           theirs == PiecesOf(G, Other(me))
<1>1. /\ s \in mine /\ d \notin mine
      /\ PiecesOf(H, me) = (mine \ {s}) \cup {d}
      /\ PiecesOf(H, Other(me)) = theirs \ ({d} \cup Passed(G, s, d))
  BY MovedPieces
<1>2. IsFiniteSet(mine) /\ IsFiniteSet(theirs)
  BY PiecesFinite
<1>3. Cardinality(mine) \in Nat /\ Cardinality(theirs) \in Nat
  BY <1>2, FS_CardinalityType
<1>4. Material(H, me) = Material(G, me)
  <2>1. IsFiniteSet(mine \ {s}) /\ Cardinality(mine \ {s}) = Cardinality(mine) - 1
    BY <1>1, <1>2, FS_RemoveElement
  <2>2. Cardinality((mine \ {s}) \cup {d}) = Cardinality(mine) - 1 + 1
    BY <1>1, <2>1, FS_AddElement
  <2> QED BY <1>1, <1>3, <2>2 DEF Material
<1>5. CASE Passed(G, s, d) # {}
  <2>1. PICK p : Passed(G, s, d) = {p}
    BY <1>5 DEF Passed
  <2>2. d \notin theirs /\ p \in theirs
    BY <2>1, PassedPawn DEF PiecesOf, Dead
  <2>3. PiecesOf(H, Other(me)) = theirs \ {p}
    BY <1>1, <2>1, <2>2
  <2>4. Cardinality(theirs \ {p}) = Cardinality(theirs) - 1
    BY <1>2, <2>2, FS_RemoveElement
  <2> QED BY <1>3, <1>4, <1>5, <2>3, <2>4 DEF Material
<1>6. CASE Passed(G, s, d) = {} /\ d \in DOMAIN G.board
  <2>1. d \in theirs
    BY <1>6 DEF PiecesOf, PseudoLegal, Dead, PositionOK, Piece, Other, Team
  <2>2. PiecesOf(H, Other(me)) = theirs \ {d}
    BY <1>1, <1>6
  <2>3. Cardinality(theirs \ {d}) = Cardinality(theirs) - 1
    BY <1>2, <2>1, FS_RemoveElement
  <2> QED BY <1>3, <1>4, <1>6, <2>2, <2>3 DEF Material
<1>7. CASE Passed(G, s, d) = {} /\ d \notin DOMAIN G.board
  <2>1. PiecesOf(H, Other(me)) = theirs
    BY <1>1, <1>7 DEF PiecesOf
  <2> QED BY <1>3, <1>4, <1>7, <2>1 DEF Material
<1> QED BY <1>5, <1>6, <1>7

(* The count restarts exactly when the move cannot be undone. *)
LEMMA MoveCounts ==
  ASSUME NEW G, PositionInv(G), NEW s \in Squares, NEW d \in Squares, PseudoLegal(G, s, d),
         NEW H, H = apply_move(G, s, d)
  PROVE  H.halfmove_clock = 0 <=>
           (d \in DOMAIN G.board \/ Passed(G, s, d) # {} \/ PawnsIn(G) # PawnsIn(H))
<1> USE DEF PositionInv
<1>1. /\ s \in DOMAIN G.board /\ s \notin DOMAIN H.board
      /\ DOMAIN H.board = (DOMAIN G.board \ ({s} \cup Passed(G, s, d))) \cup {d}
      /\ \A q \in DOMAIN H.board :
           H.board[q] = IF q = d THEN Lands(G.board[s], d) ELSE G.board[q]
      /\ H.halfmove_clock = HalfmoveAfter(G, s, d)
      /\ G.halfmove_clock \in Nat
  BY MovedBoard DEF PositionOK
<1>2. CASE G.board[s].type = "pawn"
  <2>1. s \in PawnsIn(G) /\ s \notin PawnsIn(H)
    BY <1>1, <1>2 DEF PawnsIn
  <2> QED BY <1>1, <1>2, <2>1 DEF HalfmoveAfter
<1>3. CASE G.board[s].type # "pawn" /\ d \in DOMAIN G.board
  BY <1>1, <1>3 DEF HalfmoveAfter, Dead
<1>4. CASE G.board[s].type # "pawn" /\ d \notin DOMAIN G.board
  <2>1. Passed(G, s, d) = {} /\ Lands(G.board[s], d).type # "pawn"
    BY <1>4 DEF Passed, Lands
  <2>2. PawnsIn(G) = PawnsIn(H)
    BY <1>1, <1>4, <2>1 DEF PawnsIn
  <2>3. H.halfmove_clock = G.halfmove_clock + 1
    BY <1>1, <1>4 DEF HalfmoveAfter, Dead
  <2> QED BY <1>1, <1>4, <2>1, <2>2, <2>3
<1> QED BY <1>2, <1>3, <1>4

(* A move of handle_move_message takes at most one piece and it is the     *)
(* other side's, and the fifty-move count (apply_move, common/rule.c)      *)
(* restarts when, and only when, the move cannot be undone.                *)
THEOREM MovesFair == Spec => MovesAreFair
<1>1. ASSUME GameInv, [Next]_vars
      PROVE  [LET G == game_state
                  H == game_state'
                  me == G.side_to_move
                  taken == Material(G, Other(me)) - Material(H, Other(me))
                  pawns(P) == {s \in DOMAIN P.board : P.board[s].type = "pawn"}
              IN G # H =>
                   /\ Material(H, me) = Material(G, me)
                   /\ taken \in {0, 1}
                   /\ H.halfmove_clock = 0 <=> taken = 1 \/ pawns(G) # pawns(H)]_vars
  <2>1. CASE UNCHANGED vars
    BY <2>1
  <2>2. ASSUME NEW s \in Squares, NEW d \in Squares, is_move_legal(game_state, s, d),
               game_state' = apply_move(game_state, s, d)
        PROVE  LET G == game_state
                   H == game_state'
                   me == G.side_to_move
                   taken == Material(G, Other(me)) - Material(H, Other(me))
                   pawns(P) == {q \in DOMAIN P.board : P.board[q].type = "pawn"}
               IN /\ Material(H, me) = Material(G, me)
                  /\ taken \in {0, 1}
                  /\ H.halfmove_clock = 0 <=> taken = 1 \/ pawns(G) # pawns(H)
    <3>1. PICK G : G = game_state
      OBVIOUS
    <3>2. PICK H : H = game_state'
      OBVIOUS
    <3>3. PositionInv(G) /\ PseudoLegal(G, s, d) /\ H = apply_move(G, s, d)
      <4>1. PositionInv(game_state)
        BY <1>1 DEF GameInv
      <4>2. PseudoLegal(game_state, s, d)
        BY <2>2 DEF is_move_legal
      <4> QED BY <2>2, <3>1, <3>2, <4>1, <4>2
    <3>4. /\ Material(H, G.side_to_move) = Material(G, G.side_to_move)
          /\ Material(G, Other(G.side_to_move)) - Material(H, Other(G.side_to_move)) =
               IF d \in DOMAIN G.board \/ Passed(G, s, d) # {} THEN 1 ELSE 0
      BY <3>3, MoveMaterial
    <3>5. H.halfmove_clock = 0 <=>
            (d \in DOMAIN G.board \/ Passed(G, s, d) # {} \/ PawnsIn(G) # PawnsIn(H))
      BY <3>3, MoveCounts
    <3> QED BY <3>1, <3>2, <3>4, <3>5 DEF PawnsIn
  <2> QED BY <1>1, <2>1, <2>2, StepIsMove
<1> QED BY <1>1, GameInvariant, PTL DEF Spec, MovesAreFair

-----------------------------------------------------------------------------
(* Sequences read from left to right.  An induction is over a set of       *)
(* numbers: a least one outside of it would have a predecessor inside.     *)
LEMMA Induction ==
  ASSUME NEW S, 0 \in S, \A n \in Nat : n \in S => n + 1 \in S
  PROVE  \A n \in Nat : n \in S
<1> DEFINE Missing == {n \in Nat : n \notin S}
           Less == {ss \in Nat \X Nat : ss[1] < ss[2]}
<1> SUFFICES ASSUME Missing # {} PROVE FALSE
  OBVIOUS
<1>1. IsWellFoundedOn(Less, Nat)
  BY NatLessThanWellFounded DEF OpToRel
<1>2. PICK n \in Missing : \A m \in Missing : ~(<<m, n>> \in Less)
  BY <1>1, WFMin
<1>3. n \in Nat /\ n \notin S /\ n # 0
  OBVIOUS
<1>4. n - 1 \in Nat /\ n - 1 < n /\ (n - 1) + 1 = n
  BY <1>3
<1>5. n - 1 \in S
  BY <1>2, <1>3, <1>4
<1> QED BY <1>3, <1>4, <1>5

LEMMA MaxIs ==
  ASSUME NEW s \in SUBSET Int, NEW m \in s, \A i \in s : i <= m
  PROVE  Max(s) = m
<1>1. \A i \in s : i \in Int /\ m \in Int /\ m >= i /\ (i >= m => i = m)
  OBVIOUS
<1> QED BY <1>1 DEF Max

(* The two loops of fen_parse: over the characters of the placement, and   *)
(* over the fields.                                                        *)
Reads(loop, c, token) == IF loop = "placement" THEN Place(c, token) ELSE Field(c, token)

(* FoldLeft as it is defined, on the first n elements, and as the values   *)
(* the loop's variable takes.                                              *)
IsFold(f, loop, base, seq, n) ==
  f = [s \in SUBSET (1..n) |-> IF s = {} THEN base ELSE Reads(loop, f[s \ {Max(s)}], seq[Max(s)])]
IsRun(h, loop, base, seq, n) ==
  h = [k \in 0..n |-> IF k = 0 THEN base ELSE Reads(loop, h[k - 1], seq[k])]
Run(loop, base, seq, n) == CHOOSE h : IsRun(h, loop, base, seq, n)

LEMMA FoldExists ==
  ASSUME NEW loop, NEW base, NEW seq
  PROVE  \A n \in Nat : \E f : IsFold(f, loop, base, seq, n)
<1> DEFINE S == {n \in Nat : \E f : IsFold(f, loop, base, seq, n)}
<1>1. 0 \in S
  <2>1. IsFold([s \in SUBSET (1..0) |-> base], loop, base, seq, 0)
    <3>1. \A s \in SUBSET (1..0) : s = {}
      OBVIOUS
    <3> QED BY <3>1 DEF IsFold
  <2> QED BY <2>1
<1>2. ASSUME NEW n \in Nat, n \in S PROVE n + 1 \in S
  <2>1. PICK f : IsFold(f, loop, base, seq, n)
    BY <1>2
  <2> DEFINE g == [s \in SUBSET (1..(n + 1)) |->
                     IF s \in SUBSET (1..n) THEN f[s] ELSE Reads(loop, f[s \ {n + 1}], seq[n + 1])]
  <2>2. \A s \in SUBSET (1..n) : f[s] = IF s = {} THEN base ELSE Reads(loop, f[s \ {Max(s)}], seq[Max(s)])
    BY <2>1 DEF IsFold
  <2>3. ASSUME NEW s \in SUBSET (1..(n + 1))
        PROVE  g[s] = IF s = {} THEN base ELSE Reads(loop, g[s \ {Max(s)}], seq[Max(s)])
    <3>1. CASE s \in SUBSET (1..n)
      <4>1. s \ {Max(s)} \in SUBSET (1..n) /\ s \ {Max(s)} \in SUBSET (1..(n + 1))
        BY <3>1
      <4>2. g[s] = f[s] /\ g[s \ {Max(s)}] = f[s \ {Max(s)}]
        BY <3>1, <4>1
      <4> HIDE DEF g
      <4> QED BY <2>2, <3>1, <4>2
    <3>2. CASE s \notin SUBSET (1..n)
      <4>1. n + 1 \in s /\ \A i \in s : i \in Int /\ i <= n + 1
        BY <3>2
      <4>2. Max(s) = n + 1
        BY <4>1, MaxIs
      <4>3. s \ {n + 1} \in SUBSET (1..n) /\ s \ {n + 1} \in SUBSET (1..(n + 1)) /\ s # {}
        BY <4>1
      <4>4. g[s] = Reads(loop, f[s \ {n + 1}], seq[n + 1]) /\ g[s \ {n + 1}] = f[s \ {n + 1}]
        BY <3>2, <4>3
      <4> HIDE DEF g
      <4> QED BY <4>2, <4>3, <4>4
    <3> QED BY <3>1, <3>2
  <2>4. IsFold(g, loop, base, seq, n + 1)
    BY <2>3 DEF IsFold
  <2> QED BY <2>4
<1> HIDE DEF S
<1>3. \A n \in Nat : n \in S
  BY <1>1, <1>2, Induction
<1> QED BY <1>3 DEF S

LEMMA RunExists ==
  ASSUME NEW loop, NEW base, NEW seq
  PROVE  \A n \in Nat : IsRun(Run(loop, base, seq, n), loop, base, seq, n)
<1> DEFINE S == {n \in Nat : \E h : IsRun(h, loop, base, seq, n)}
<1>1. 0 \in S
  <2>1. IsRun([k \in 0..0 |-> base], loop, base, seq, 0)
    BY DEF IsRun
  <2> QED BY <2>1
<1>2. ASSUME NEW n \in Nat, n \in S PROVE n + 1 \in S
  <2>1. PICK h : IsRun(h, loop, base, seq, n)
    BY <1>2
  <2> DEFINE g == [k \in 0..(n + 1) |-> IF k = n + 1 THEN Reads(loop, h[n], seq[n + 1]) ELSE h[k]]
  <2>2. \A k \in 0..n : h[k] = IF k = 0 THEN base ELSE Reads(loop, h[k - 1], seq[k])
    BY <2>1 DEF IsRun
  <2>3. ASSUME NEW k \in 0..(n + 1)
        PROVE  g[k] = IF k = 0 THEN base ELSE Reads(loop, g[k - 1], seq[k])
    <3>1. CASE k = n + 1
      <4>1. k - 1 = n /\ n \in 0..(n + 1) /\ n # n + 1 /\ k # 0
        BY <3>1
      <4>2. g[k] = Reads(loop, h[n], seq[n + 1]) /\ g[n] = h[n]
        BY <3>1, <4>1
      <4> HIDE DEF g
      <4> QED BY <3>1, <4>1, <4>2
    <3>2. CASE k = 0
      BY <2>2, <3>2
    <3>3. CASE k # 0 /\ k # n + 1
      <4>1. k - 1 \in 0..(n + 1) /\ k - 1 # n + 1 /\ k \in 0..n
        BY <3>3
      <4>2. g[k] = h[k] /\ g[k - 1] = h[k - 1]
        BY <3>3, <4>1
      <4> HIDE DEF g
      <4> QED BY <2>2, <3>3, <4>1, <4>2
    <3> QED BY <3>1, <3>2, <3>3
  <2>4. IsRun(g, loop, base, seq, n + 1)
    BY <2>3 DEF IsRun
  <2> QED BY <2>4
<1> HIDE DEF S
<1>3. \A n \in Nat : n \in S
  BY <1>1, <1>2, Induction
<1> QED BY <1>3 DEF S, Run

LEMMA FoldIsRun ==
  ASSUME NEW loop, NEW base, NEW seq, NEW n \in Nat, NEW f, NEW h,
         IsFold(f, loop, base, seq, n), IsRun(h, loop, base, seq, n)
  PROVE  f[1..n] = h[n]
<1> DEFINE S == {k \in Nat : k <= n => f[1..k] = h[k]}
<1>1. /\ \A s \in SUBSET (1..n) : f[s] = IF s = {} THEN base ELSE Reads(loop, f[s \ {Max(s)}], seq[Max(s)])
      /\ \A k \in 0..n : h[k] = IF k = 0 THEN base ELSE Reads(loop, h[k - 1], seq[k])
  BY DEF IsFold, IsRun
<1>2. 0 \in S
  <2>1. 1..0 = {} /\ 0 \in 0..n /\ {} \in SUBSET (1..n)
    OBVIOUS
  <2> QED BY <1>1, <2>1
<1>3. ASSUME NEW k \in Nat, k \in S PROVE k + 1 \in S
  <2> SUFFICES ASSUME k + 1 <= n PROVE f[1..(k + 1)] = h[k + 1]
    OBVIOUS
  <2>1. 1..(k + 1) \in SUBSET (1..n) /\ k + 1 \in 1..(k + 1) /\ k + 1 \in 0..n /\ k + 1 # 0 /\ (k + 1) - 1 = k
    OBVIOUS
  <2>2. Max(1..(k + 1)) = k + 1
    <3>1. 1..(k + 1) \in SUBSET Int /\ k + 1 \in 1..(k + 1) /\ \A i \in 1..(k + 1) : i <= k + 1
      OBVIOUS
    <3> QED BY <3>1, MaxIs
  <2>3. (1..(k + 1)) \ {k + 1} = 1..k
    OBVIOUS
  <2>4. f[1..(k + 1)] = Reads(loop, f[1..k], seq[k + 1])
    <3> DEFINE s == 1..(k + 1)
    <3>1. s \in SUBSET (1..n) /\ s # {} /\ Max(s) = k + 1 /\ s \ {k + 1} = 1..k
      BY <2>1, <2>2, <2>3
    <3> HIDE DEF s
    <3>2. f[s] = Reads(loop, f[1..k], seq[k + 1])
      BY <1>1, <3>1
    <3> QED BY <3>2 DEF s
  <2>5. f[1..k] = h[k]
    BY <1>3
  <2> QED BY <1>1, <2>1, <2>4, <2>5
<1> HIDE DEF S
<1>4. \A k \in Nat : k \in S
  BY <1>2, <1>3, Induction
<1> QED BY <1>4 DEF S

(* The loops of fen_parse give the last value of their variable. *)
LEMMA FoldPlace ==
  ASSUME NEW base, NEW seq, Len(seq) \in Nat, DOMAIN seq = 1..Len(seq)
  PROVE  FoldLeft(Place, base, seq) = Run("placement", base, seq, Len(seq))[Len(seq)]
<1> DEFINE n == Len(seq)
           Is(f) == f = [s \in SUBSET (1..n) |-> IF s = {} THEN base ELSE Place(f[s \ {Max(s)}], seq[Max(s)])]
           f == CHOOSE g : Is(g)
<1>1. FoldLeft(Place, base, seq) = (CHOOSE g : g = [s \in SUBSET (DOMAIN seq) |-> IF s = {} THEN base ELSE Place(g[s \ {Max(s)}], seq[Max(s)])])[DOMAIN seq]
  BY DEF FoldLeft, MapThenFoldSet
<1>2. FoldLeft(Place, base, seq) = f[1..n]
  BY <1>1
<1>3. \A g : Is(g) <=> IsFold(g, "placement", base, seq, n)
  BY DEF IsFold, Reads
<1>4. n \in Nat
  OBVIOUS
<1> HIDE DEF n, Is
<1>5. Is(f)
  BY <1>3, <1>4, FoldExists
<1> HIDE DEF f
<1>6. f[1..n] = Run("placement", base, seq, n)[n]
  BY <1>3, <1>4, <1>5, RunExists, FoldIsRun
<1> QED BY <1>2, <1>6 DEF n

LEMMA FoldField ==
  ASSUME NEW base, NEW seq, Len(seq) \in Nat, DOMAIN seq = 1..Len(seq)
  PROVE  FoldLeft(Field, base, seq) = Run("fields", base, seq, Len(seq))[Len(seq)]
<1> DEFINE n == Len(seq)
           Is(f) == f = [s \in SUBSET (1..n) |-> IF s = {} THEN base ELSE Field(f[s \ {Max(s)}], seq[Max(s)])]
           f == CHOOSE g : Is(g)
<1>1. FoldLeft(Field, base, seq) = (CHOOSE g : g = [s \in SUBSET (DOMAIN seq) |-> IF s = {} THEN base ELSE Field(g[s \ {Max(s)}], seq[Max(s)])])[DOMAIN seq]
  BY DEF FoldLeft, MapThenFoldSet
<1>2. FoldLeft(Field, base, seq) = f[1..n]
  BY <1>1
<1>3. \A g : Is(g) <=> IsFold(g, "fields", base, seq, n)
  BY DEF IsFold, Reads
<1>4. n \in Nat
  OBVIOUS
<1> HIDE DEF n, Is
<1>5. Is(f)
  BY <1>3, <1>4, FoldExists
<1> HIDE DEF f
<1>6. f[1..n] = Run("fields", base, seq, n)[n]
  BY <1>3, <1>4, <1>5, RunExists, FoldIsRun
<1> QED BY <1>2, <1>6 DEF n

-----------------------------------------------------------------------------
(* The placement, one character after another.                             *)
Tokens == {Slash, OtherLetter} \cup {Digit(n) : n \in Nat}
            \cup {Letter(type, team) : type \in PieceTypes, team \in Team}
Placed(c, seq) == FoldLeft(Place, c, seq)

IsPlacing(h, c, seq, n) ==
  /\ h[n] = Placed(c, seq)
  /\ \A k \in 0..n : h[k] = IF k = 0 THEN c ELSE Place(h[k - 1], seq[k])

LEMMA PlacedRun ==
  ASSUME NEW A, NEW c, NEW seq \in Seq(A), NEW n, n = Len(seq)
  PROVE  IsPlacing(Run("placement", c, seq, n), c, seq, n)
<1>1. n \in Nat /\ DOMAIN seq = 1..n /\ Len(seq) \in Nat
  BY LenProperties
<1>2. Placed(c, seq) = Run("placement", c, seq, n)[n]
  BY <1>1, FoldPlace DEF Placed
<1>3. PICK h : h = Run("placement", c, seq, n) /\ IsRun(h, "placement", c, seq, n)
  BY <1>1, RunExists
<1>4. \A k \in 0..n : h[k] = IF k = 0 THEN c ELSE Place(h[k - 1], seq[k])
  BY <1>3 DEF IsRun, Reads
<1> QED BY <1>2, <1>3, <1>4 DEF IsPlacing

LEMMA PlacedEmpty ==
  ASSUME NEW c
  PROVE  Placed(c, << >>) = c
<1>1. PICK none, n, A : none = << >> /\ n = 0 /\ A = {c}
  OBVIOUS
<1>2. n = Len(none) /\ none \in Seq(A)
  BY <1>1, EmptySeq
<1>3. PICK h : IsPlacing(h, c, none, n)
  BY <1>2, PlacedRun
<1>4. n = 0 /\ n \in 0..n
  BY <1>1
<1> QED BY <1>1, <1>3, <1>4 DEF IsPlacing

(* One piece of text after another. *)
LEMMA PlacedConcat ==
  ASSUME NEW A, NEW c, NEW s \in Seq(A), NEW t \in Seq(A)
  PROVE  Placed(c, s \o t) = Placed(Placed(c, s), t)
<1>1. PICK m \in Nat, n \in Nat : m = Len(s) /\ n = Len(t)
  BY LenProperties
<1>2. PICK both \in Seq(A) : /\ both = s \o t
                             /\ Len(both) = m + n
                             /\ \A i \in 1..(m + n) : both[i] = IF i <= m THEN s[i] ELSE t[i - m]
  <2>1. /\ s \o t \in Seq(A) /\ Len(s \o t) = Len(s) + Len(t)
        /\ \A i \in 1..(Len(s) + Len(t)) : (s \o t)[i] = IF i <= Len(s) THEN s[i] ELSE t[i - Len(s)]
    BY ConcatProperties
  <2>2. PICK both \in Seq(A) : both = s \o t
    BY <2>1
  <2>3. /\ Len(both) = m + n
        /\ \A i \in 1..(m + n) : both[i] = IF i <= m THEN s[i] ELSE t[i - m]
    BY <1>1, <2>1, <2>2
  <2> QED BY <2>2, <2>3
<1>3. PICK f : /\ f[m] = Placed(c, s)
               /\ \A k \in 0..m : f[k] = IF k = 0 THEN c ELSE Place(f[k - 1], s[k])
  <2>1. PICK f : IsPlacing(f, c, s, m)
    BY <1>1, PlacedRun
  <2> QED BY <2>1 DEF IsPlacing
<1>4. PICK g : /\ g[m + n] = Placed(c, both)
               /\ \A k \in 0..(m + n) : g[k] = IF k = 0 THEN c ELSE Place(g[k - 1], both[k])
  <2>1. PICK l : l = m + n
    OBVIOUS
  <2>2. l = Len(both)
    BY <1>2, <2>1
  <2>3. PICK g : IsPlacing(g, c, both, l)
    BY <2>2, PlacedRun
  <2> QED BY <2>1, <2>3 DEF IsPlacing
<1>5. PICK h : /\ h[n] = Placed(f[m], t)
               /\ \A k \in 0..n : h[k] = IF k = 0 THEN f[m] ELSE Place(h[k - 1], t[k])
  <2>1. PICK d : d = f[m]
    OBVIOUS
  <2>2. PICK h : IsPlacing(h, d, t, n)
    BY <1>1, PlacedRun
  <2> QED BY <2>1, <2>2 DEF IsPlacing
<1> DEFINE S == {k \in Nat : k <= m => g[k] = f[k]}
           T == {k \in Nat : k <= n => g[m + k] = h[k]}
<1>6. 0 \in S
  BY <1>3, <1>4
<1>7. ASSUME NEW k \in Nat, k \in S PROVE k + 1 \in S
  <2> SUFFICES ASSUME k + 1 <= m PROVE g[k + 1] = f[k + 1]
    OBVIOUS
  <2>1. /\ k + 1 \in 0..m /\ k + 1 \in 0..(m + n) /\ k + 1 \in 1..(m + n) /\ k + 1 # 0 /\ (k + 1) - 1 = k
        /\ k <= m
    OBVIOUS
  <2>2. both[k + 1] = s[k + 1] /\ g[k] = f[k]
    BY <1>2, <1>7, <2>1
  <2> QED BY <1>3, <1>4, <2>1, <2>2
<1>8. \A k \in Nat : k \in S
  <2> HIDE DEF S
  <2> QED BY <1>6, <1>7, Induction
<1>9. 0 \in T
  <2>1. m \in S
    BY <1>8
  <2>2. m <= m /\ m + 0 = m /\ 0 \in 0..n
    OBVIOUS
  <2> QED BY <1>5, <2>1, <2>2
<1> HIDE DEF S
<1>10. ASSUME NEW k \in Nat, k \in T PROVE k + 1 \in T
  <2> SUFFICES ASSUME k + 1 <= n PROVE g[m + (k + 1)] = h[k + 1]
    OBVIOUS
  <2>1. /\ k + 1 \in 0..n /\ m + (k + 1) \in 0..(m + n) /\ m + (k + 1) \in 1..(m + n)
        /\ k + 1 # 0 /\ m + (k + 1) # 0 /\ ~(m + (k + 1) <= m) /\ k <= n
        /\ (k + 1) - 1 = k /\ m + (k + 1) - 1 = m + k /\ m + (k + 1) - m = k + 1
    OBVIOUS
  <2>2. both[m + (k + 1)] = t[k + 1] /\ g[m + k] = h[k]
    BY <1>2, <1>10, <2>1
  <2>3. g[m + (k + 1)] = Place(g[m + k], both[m + (k + 1)])
    BY <1>4, <2>1
  <2>4. h[k + 1] = Place(h[k], t[k + 1])
    BY <1>5, <2>1
  <2> QED BY <2>2, <2>3, <2>4
<1>11. \A k \in Nat : k \in T
  <2> HIDE DEF T
  <2> QED BY <1>9, <1>10, Induction
<1>12. g[m + n] = h[n]
  BY <1>11
<1> QED BY <1>2, <1>3, <1>4, <1>5, <1>12

(* Of one character. *)
LEMMA PlacedOne ==
  ASSUME NEW c, NEW token
  PROVE  Placed(c, <<token>>) = Place(c, token)
<1>1. PICK one : one = <<token>>
  OBVIOUS
<1>2. one \in Seq({token}) /\ Len(one) = 1 /\ one[1] = token
  BY <1>1
<1>3. PICK n, h : /\ n = 1 /\ h[n] = Placed(c, one)
                  /\ \A k \in 0..n : h[k] = IF k = 0 THEN c ELSE Place(h[k - 1], one[k])
  <2>1. PICK n, A : n = 1 /\ A = {token}
    OBVIOUS
  <2>2. n = Len(one) /\ one \in Seq(A)
    BY <1>2, <2>1
  <2>3. PICK h : IsPlacing(h, c, one, n)
    BY <2>2, PlacedRun
  <2> QED BY <2>1, <2>3 DEF IsPlacing
<1>4. 0 \in 0..1 /\ 1 \in 0..1 /\ 1 - 1 = 0 /\ 1 # 0
  OBVIOUS
<1> QED BY <1>1, <1>2, <1>3, <1>4

LEMMA PlacedAppend ==
  ASSUME NEW A, NEW c, NEW s \in Seq(A), NEW token \in A
  PROVE  Placed(c, Append(s, token)) = Place(Placed(c, s), token)
<1>1. <<token>> \in Seq(A) /\ Append(s, token) = s \o <<token>>
  BY AppendIsConcat
<1>2. PICK one \in Seq(A) : one = <<token>> /\ Append(s, token) = s \o one
  BY <1>1
<1>3. Placed(c, s \o one) = Placed(Placed(c, s), one)
  BY PlacedConcat
<1>4. \A d : Placed(d, one) = Place(d, token)
  BY <1>2, PlacedOne
<1> QED BY <1>2, <1>3, <1>4

(* Where the loop has come to while all is well. *)
At(x, y, b) == [x |-> x, y |-> y, board |-> b, ok |-> TRUE]
PutOn(b, s, p) == [q \in DOMAIN b \cup {s} |-> IF q = s THEN p ELSE b[q]]

LEMMA IsAt ==
  ASSUME NEW B, NEW e \in [x : Int, y : Int, board : B, ok : BOOLEAN], e.ok
  PROVE  e = At(e.x, e.y, e.board)
BY DEF At

LEMMA AtFields ==
  ASSUME NEW x, NEW y \in Nat, NEW b, NEW c, c = At(x, y, b)
  PROVE  /\ c = [x |-> x, y |-> y, board |-> b, ok |-> TRUE]
         /\ c.ok /\ ~(c.y < 0) /\ c.x = x /\ c.y = y /\ c.board = b
BY DEF At

LEMMA PlaceSlash ==
  ASSUME NEW x \in Nat, NEW y \in Nat, NEW b
  PROVE  Place(At(x, y, b), Slash) = At(0, y - 1, b)
<1>1. PICK c : c = At(x, y, b)
  OBVIOUS
<1>2. c = [x |-> x, y |-> y, board |-> b, ok |-> TRUE] /\ c.ok /\ ~(c.y < 0) /\ c.x = x /\ c.y = y /\ c.board = b
  BY <1>1, AtFields
<1>3. PICK v \in Int, w \in Int : v = 0 /\ w = y - 1
  OBVIOUS
<1>4. PICK e : Place(c, Slash) = e /\ e = [c EXCEPT !.x = v, !.y = w]
  BY <1>2, <1>3 DEF Place, Slash
<1>5. c \in [x : Int, y : Int, board : {b}, ok : BOOLEAN]
  BY <1>2
<1>6. e \in [x : Int, y : Int, board : {b}, ok : BOOLEAN]
  BY <1>4, <1>5
<1>7. e.x = v /\ e.y = w /\ e.board = b /\ e.ok
  BY <1>2, <1>4
<1> QED BY <1>1, <1>3, <1>4, <1>6, <1>7, IsAt

LEMMA PlaceDigit ==
  ASSUME NEW x \in Nat, NEW y \in Nat, NEW b, NEW n \in Nat
  PROVE  Place(At(x, y, b), Digit(n)) = At(x + n, y, b)
<1>1. PICK c : c = At(x, y, b)
  OBVIOUS
<1>2. c = [x |-> x, y |-> y, board |-> b, ok |-> TRUE] /\ c.ok /\ ~(c.y < 0) /\ c.x = x /\ c.y = y /\ c.board = b
  BY <1>1, AtFields
<1>3. PICK e : e = [c EXCEPT !.x = x + n]
  OBVIOUS
<1>4. Place(c, Digit(n)) = e
  BY <1>2, <1>3 DEF Place, Digit
<1>5. c \in [x : Int, y : Int, board : {b}, ok : BOOLEAN] /\ x + n \in Int
  BY <1>2
<1>6. e \in [x : Int, y : Int, board : {b}, ok : BOOLEAN] /\ e.x = x + n /\ e.y = y /\ e.board = b /\ e.ok
  BY <1>2, <1>3, <1>5
<1> QED BY <1>1, <1>4, <1>6, IsAt

LEMMA PlacePiece ==
  ASSUME NEW x \in Nat, NEW y \in Nat, NEW b, NEW type, NEW team, NEW w,
         w = PutOn(b, <<x, y>>, [type |-> type, team |-> team, has_moved |-> FALSE])
  PROVE  Place(At(x, y, b), Letter(type, team)) = At(x + 1, y, w)
<1>1. PICK c : c = At(x, y, b)
  OBVIOUS
<1>2. c = [x |-> x, y |-> y, board |-> b, ok |-> TRUE] /\ c.ok /\ ~(c.y < 0) /\ c.x = x /\ c.y = y /\ c.board = b
  BY <1>1, AtFields
<1>3. PICK e : e = [c EXCEPT !.x = x + 1, !.board = w]
  OBVIOUS
<1>4. Place(c, Letter(type, team)) = e
  <2>1. Place(c, Letter(type, team)) =
          [c EXCEPT !.x = x + 1, !.board = PutOn(b, <<x, y>>, [type |-> type, team |-> team, has_moved |-> FALSE])]
    BY <1>2 DEF Place, Letter, PutOn
  <2> QED BY <1>3, <2>1
<1>5. c \in [x : Int, y : Int, board : {b, w}, ok : BOOLEAN] /\ x + 1 \in Int
  BY <1>2
<1>6. e \in [x : Int, y : Int, board : {b, w}, ok : BOOLEAN] /\ e.x = x + 1 /\ e.y = y /\ e.board = w /\ e.ok
  BY <1>2, <1>3, <1>5
<1> QED BY <1>1, <1>4, <1>6, IsAt

LEMMA PlaceOther ==
  ASSUME NEW x \in Nat, NEW y \in Nat, NEW b
  PROVE  ~Place(At(x, y, b), OtherLetter).ok
<1>1. PICK c : c = At(x, y, b)
  OBVIOUS
<1>2. c = [x |-> x, y |-> y, board |-> b, ok |-> TRUE] /\ c.ok /\ ~(c.y < 0)
  BY <1>1, AtFields
<1>3. Place(c, OtherLetter) = [c EXCEPT !.ok = FALSE]
  BY <1>2 DEF Place, OtherLetter
<1>4. ~[c EXCEPT !.ok = FALSE].ok
  BY <1>2
<1> QED BY <1>1, <1>3, <1>4

-----------------------------------------------------------------------------
(* FlattenSeq as it is defined, and as what has been joined after each of  *)
(* the parts.                                                              *)
IsFlat(f, seqs, n) == f = [i \in 1..n |-> IF i = 1 THEN seqs[i] ELSE f[i - 1] \o seqs[i]]
Flat(seqs, n) == CHOOSE f : IsFlat(f, seqs, n)

LEMMA FlatExists ==
  ASSUME NEW seqs
  PROVE  \A n \in Nat : IsFlat(Flat(seqs, n), seqs, n)
<1> DEFINE S == {n \in Nat : \E f : IsFlat(f, seqs, n)}
<1>1. 0 \in S
  <2>1. IsFlat([i \in {} |-> i], seqs, 0)
    BY DEF IsFlat
  <2> QED BY <2>1
<1>2. ASSUME NEW n \in Nat, n \in S PROVE n + 1 \in S
  <2>1. PICK f : IsFlat(f, seqs, n)
    BY <1>2
  <2> DEFINE last == IF n = 0 THEN seqs[1] ELSE f[n] \o seqs[n + 1]
             g == [i \in 1..(n + 1) |-> IF i = n + 1 THEN last ELSE f[i]]
  <2>2. \A i \in 1..n : f[i] = IF i = 1 THEN seqs[i] ELSE f[i - 1] \o seqs[i]
    BY <2>1 DEF IsFlat
  <2>3. \A i \in 1..(n + 1) : g[i] = IF i = 1 THEN seqs[i] ELSE g[i - 1] \o seqs[i]
    BY <2>2
  <2>4. IsFlat(g, seqs, n + 1)
    BY <2>3 DEF IsFlat
  <2> QED BY <2>4
<1> HIDE DEF S
<1>3. \A n \in Nat : n \in S
  BY <1>1, <1>2, Induction
<1> QED BY <1>3 DEF S, Flat

Joins(seqs) == [i \in 0..Len(seqs) |-> IF i = 0 THEN << >> ELSE Flat(seqs, Len(seqs))[i]]

LEMMA Joined ==
  ASSUME NEW A, NEW seqs \in Seq(Seq(A)), Len(seqs) # 0
  PROVE  /\ Joins(seqs)[0] = << >> /\ Joins(seqs)[Len(seqs)] = FlattenSeq(seqs)
         /\ \A i \in 0..Len(seqs) : Joins(seqs)[i] \in Seq(A)
         /\ \A i \in 0..(Len(seqs) - 1) : Joins(seqs)[i + 1] = Joins(seqs)[i] \o seqs[i + 1]
<1> DEFINE n == Len(seqs)
<1>0. n \in Nat /\ n # 0 /\ \A i \in 1..n : seqs[i] \in Seq(A)
  BY LenProperties, ElementOfSeq
<1>1. FlattenSeq(seqs) = Flat(seqs, n)[n]
  BY <1>0 DEF FlattenSeq, Flat, IsFlat
<1>2. PICK g : g = Flat(seqs, n) /\ IsFlat(g, seqs, n) /\ g[n] = FlattenSeq(seqs)
  BY <1>0, <1>1, FlatExists
<1>3. \A i \in 1..n : g[i] = IF i = 1 THEN seqs[i] ELSE g[i - 1] \o seqs[i]
  BY <1>2 DEF IsFlat
<1> DEFINE f == Joins(seqs)
           S == {i \in Nat : i <= n => f[i] \in Seq(A)}
<1>4. f[0] = << >> /\ \A i \in 1..n : f[i] = g[i]
  BY <1>0, <1>2 DEF Joins
<1> HIDE DEF f, n
<1>5. ASSUME NEW i \in 0..(n - 1) PROVE f[i + 1] = f[i] \o seqs[i + 1]
  <2>1. i + 1 \in 1..n /\ (i + 1) - 1 = i /\ seqs[i + 1] \in Seq(A)
    BY <1>0
  <2>2. CASE i = 0
    <3>1. 1 \in 1..n /\ i + 1 = 1
      BY <2>1, <2>2
    <3>2. g[1] = seqs[1] /\ f[1] = g[1] /\ f[0] = << >>
      BY <1>3, <1>4, <3>1
    <3>3. << >> \o seqs[1] = seqs[1]
      BY <2>1, <3>1, ConcatEmptySeq
    <3> QED BY <2>2, <3>1, <3>2, <3>3
  <2>3. CASE i # 0
    <3>1. i \in 1..n /\ i + 1 # 1
      BY <1>0, <2>3
    <3> QED BY <1>3, <1>4, <2>1, <3>1
  <2> QED BY <2>2, <2>3
<1>6. 0 \in S
  BY <1>4, EmptySeq
<1>7. ASSUME NEW i \in Nat, i \in S PROVE i + 1 \in S
  <2> SUFFICES ASSUME i + 1 <= n PROVE f[i + 1] \in Seq(A)
    OBVIOUS
  <2>1. i \in 0..(n - 1) /\ i + 1 \in 1..n
    BY <1>0
  <2>2. f[i + 1] = f[i] \o seqs[i + 1] /\ seqs[i + 1] \in Seq(A)
    BY <1>0, <1>5, <2>1
  <2>3. f[i] \in Seq(A)
    BY <1>0, <1>7, <2>1
  <2> QED BY <2>2, <2>3, ConcatProperties
<1> HIDE DEF S
<1>8. \A i \in Nat : i \in S
  BY <1>6, <1>7, Induction
<1>9. \A i \in 0..n : f[i] \in Seq(A)
  BY <1>8 DEF S
<1>10. f[n] = FlattenSeq(seqs)
  BY <1>0, <1>2, <1>4
<1> QED BY <1>4, <1>5, <1>9, <1>10 DEF f, n

-----------------------------------------------------------------------------
(* The placement of a position.  Before file x of rank y the last piece    *)
(* ended at file Up, and what lies between is the gap.                     *)
Live(G, x, y) == {f \in 0..(x - 1) : ~Dead(G, <<f, y>>)}
LastOf(S) == CHOOSE f \in S : \A g \in S : g <= f
Up(G, x, y) == IF Live(G, x, y) = {} THEN 0 ELSE LastOf(Live(G, x, y)) + 1

LEMMA UpFacts ==
  ASSUME NEW G, NEW y
  PROVE  /\ Up(G, 0, y) = 0
         /\ \A x \in Nat : /\ Up(G, x, y) \in 0..x
                           /\ Gap(G, x, y) = IF x - Up(G, x, y) = 0 THEN << >> ELSE <<Digit(x - Up(G, x, y))>>
                           /\ Up(G, x + 1, y) = IF Dead(G, <<x, y>>) THEN Up(G, x, y) ELSE x + 1
<1> DEFINE IsLast(f, x) == f \in Live(G, x, y) /\ \A g \in Live(G, x, y) : g <= f
           S == {x \in Nat : Live(G, x, y) = {} \/ \E f : IsLast(f, x)}
<1>1. Live(G, 0, y) = {}
  BY DEF Live
<1>2. \A x \in Nat : Live(G, x, y) \subseteq 0..(x - 1)
  BY DEF Live
<1>3. ASSUME NEW x \in Nat, Dead(G, <<x, y>>) PROVE Live(G, x + 1, y) = Live(G, x, y)
  BY <1>3 DEF Live
<1>4. ASSUME NEW x \in Nat, ~Dead(G, <<x, y>>)
      PROVE  x \in Live(G, x + 1, y) /\ \A g \in Live(G, x + 1, y) : g <= x /\ g \in Int
  BY <1>4 DEF Live
<1>5. \A x \in Nat : x \in S
  <2>1. 0 \in S
    BY <1>1
  <2>2. ASSUME NEW x \in Nat, x \in S PROVE x + 1 \in S
    <3>1. CASE Dead(G, <<x, y>>)
      BY <1>3, <2>2, <3>1
    <3>2. CASE ~Dead(G, <<x, y>>)
      BY <1>4, <3>2
    <3> QED BY <3>1, <3>2
  <2> HIDE DEF S
  <2> QED BY <2>1, <2>2, Induction
<1>6. ASSUME NEW x \in Nat
      PROVE  /\ Up(G, x, y) \in 0..x
             /\ Gap(G, x, y) = IF x - Up(G, x, y) = 0 THEN << >> ELSE <<Digit(x - Up(G, x, y))>>
  <2>1. CASE Live(G, x, y) = {}
    <3>1. Up(G, x, y) = 0
      BY <2>1 DEF Up
    <3>2. Gap(G, x, y) = IF x = 0 THEN << >> ELSE <<Digit(x)>>
      BY <2>1 DEF Gap, Live
    <3>3. x - 0 = x /\ 0 \in 0..x
      OBVIOUS
    <3> QED BY <3>1, <3>2, <3>3
  <2>2. CASE Live(G, x, y) # {}
    <3>1. PICK m : m = LastOf(Live(G, x, y))
      OBVIOUS
    <3>2. m \in Live(G, x, y)
      BY <1>5, <2>2, <3>1 DEF LastOf
    <3>3. m \in 0..(x - 1)
      BY <1>2, <3>2
    <3>4. Up(G, x, y) = m + 1
      BY <2>2, <3>1 DEF Up
    <3>5. Gap(G, x, y) = IF x - 1 - m = 0 THEN << >> ELSE <<Digit(x - 1 - m)>>
      <4> DEFINE n == IF Live(G, x, y) = {} THEN x ELSE x - 1 - LastOf(Live(G, x, y))
      <4>1. Gap(G, x, y) = IF n = 0 THEN << >> ELSE <<Digit(n)>>
        BY DEF Gap, Live, LastOf
      <4>2. n = x - 1 - m
        BY <2>2, <3>1
      <4> HIDE DEF n
      <4> QED BY <4>1, <4>2
    <3>6. x - 1 - m = x - (m + 1) /\ m + 1 \in 0..x
      BY <3>3
    <3> QED BY <3>4, <3>5, <3>6
  <2> QED BY <2>1, <2>2
<1>7. ASSUME NEW x \in Nat PROVE Up(G, x + 1, y) = IF Dead(G, <<x, y>>) THEN Up(G, x, y) ELSE x + 1
  <2>1. CASE Dead(G, <<x, y>>)
    BY <1>3, <2>1 DEF Up
  <2>2. CASE ~Dead(G, <<x, y>>)
    <3>1. \A f \in Live(G, x + 1, y) : (\A g \in Live(G, x + 1, y) : g <= f) <=> f = x
      BY <1>4, <2>2
    <3>2. LastOf(Live(G, x + 1, y)) = x
      BY <1>4, <2>2, <3>1 DEF LastOf
    <3> QED BY <1>4, <2>2, <3>2 DEF Up
  <2> QED BY <2>1, <2>2
<1> QED BY <1>1, <1>6, <1>7 DEF Up

LEMMA TokenFacts ==
  /\ Slash \in Tokens /\ OtherLetter \in Tokens
  /\ \A n \in Nat : Digit(n) \in Tokens
  /\ \A p \in Piece : Letter(p.type, p.team) \in Tokens
BY DEF Tokens, Piece

LEMMA GapPlaced ==
  ASSUME NEW G, NEW x \in Nat, NEW y \in Nat, NEW b
  PROVE  /\ Gap(G, x, y) \in Seq(Tokens)
         /\ Placed(At(Up(G, x, y), y, b), Gap(G, x, y)) = At(x, y, b)
<1>1. PICK u \in 0..x : /\ u = Up(G, x, y)
                        /\ Gap(G, x, y) = IF x - u = 0 THEN << >> ELSE <<Digit(x - u)>>
  <2>1. \A k \in Nat : /\ Up(G, k, y) \in 0..k
                      /\ Gap(G, k, y) = IF k - Up(G, k, y) = 0 THEN << >> ELSE <<Digit(k - Up(G, k, y))>>
    BY UpFacts
  <2>2. /\ Up(G, x, y) \in 0..x
        /\ Gap(G, x, y) = IF x - Up(G, x, y) = 0 THEN << >> ELSE <<Digit(x - Up(G, x, y))>>
    BY <2>1
  <2> QED BY <2>2
<1>2. CASE x - u = 0
  <2>1. u = x
    BY <1>2
  <2>2. Gap(G, x, y) = << >>
    BY <1>1, <1>2
  <2>3. Placed(At(u, y, b), << >>) = At(u, y, b) /\ << >> \in Seq(Tokens)
    BY PlacedEmpty, EmptySeq
  <2> QED BY <1>1, <2>1, <2>2, <2>3
<1>3. CASE x - u # 0
  <2>1. x - u \in Nat /\ u \in Nat /\ u + (x - u) = x
    OBVIOUS
  <2>2. PICK n \in Nat : n = x - u /\ u + n = x /\ Gap(G, x, y) = <<Digit(n)>>
    BY <1>1, <1>3, <2>1
  <2>3. Placed(At(u, y, b), <<Digit(n)>>) = Place(At(u, y, b), Digit(n))
    BY PlacedOne
  <2>4. Place(At(u, y, b), Digit(n)) = At(u + n, y, b)
    BY <2>1, PlaceDigit
  <2>5. <<Digit(n)>> \in Seq(Tokens)
    BY TokenFacts
  <2> QED BY <1>1, <2>2, <2>3, <2>4, <2>5
<1> QED BY <1>2, <1>3

(* The pieces read so far, without their has_moved. *)
Read(G, x, y) == {s \in DOMAIN G.board : s[2] > y \/ (s[2] = y /\ s[1] < x)}
Bare(G, S) == [s \in S |-> [type |-> G.board[s].type, team |-> G.board[s].team, has_moved |-> FALSE]]

LEMMA ReadFacts ==
  ASSUME NEW G, PositionOK(G)
  PROVE  /\ Read(G, 0, Ranks - 1) = {}
         /\ Read(G, Files, 0) = DOMAIN G.board
         /\ \A y \in Nat : Read(G, Files, y) = Read(G, 0, y - 1)
         /\ \A x, y \in Nat : Read(G, x + 1, y) =
              IF Dead(G, <<x, y>>) THEN Read(G, x, y) ELSE Read(G, x, y) \cup {<<x, y>>}
<1>1. \A s \in DOMAIN G.board : s = <<s[1], s[2]>> /\ s[1] \in 0..(Files - 1) /\ s[2] \in 0..(Ranks - 1)
  BY DEF PositionOK, Squares
<1>2. Files \in Nat /\ Ranks \in Nat
  BY RulesAssumption
<1>3. Read(G, 0, Ranks - 1) = {}
  BY <1>1, <1>2 DEF Read
<1>4. Read(G, Files, 0) = DOMAIN G.board
  BY <1>1, <1>2 DEF Read
<1>5. \A y \in Nat : Read(G, Files, y) = Read(G, 0, y - 1)
  BY <1>1, <1>2 DEF Read
<1>6. ASSUME NEW x \in Nat, NEW y \in Nat
      PROVE  Read(G, x + 1, y) = IF Dead(G, <<x, y>>) THEN Read(G, x, y) ELSE Read(G, x, y) \cup {<<x, y>>}
  <2>1. \A s \in DOMAIN G.board : (s[2] = y /\ s[1] < x + 1) <=> (s[2] = y /\ s[1] < x) \/ s = <<x, y>>
    <3> SUFFICES ASSUME NEW s \in DOMAIN G.board
                 PROVE  (s[2] = y /\ s[1] < x + 1) <=> (s[2] = y /\ s[1] < x) \/ s = <<x, y>>
      OBVIOUS
    <3>1. PICK i \in Int, j \in Int : s = <<i, j>> /\ s[1] = i /\ s[2] = j
      BY <1>1
    <3>2. s = <<x, y>> <=> i = x /\ j = y
      BY <3>1
    <3> QED BY <3>1, <3>2
  <2> QED BY <2>1 DEF Read, Dead
<1> QED BY <1>3, <1>4, <1>5, <1>6

(* The next piece of the rank is put where it stands. *)
LEMMA PieceRead ==
  ASSUME NEW G, PositionOK(G), NEW x \in Nat, NEW y \in Nat, ~Dead(G, <<x, y>>)
  PROVE  PutOn(Bare(G, Read(G, x, y)), <<x, y>>,
               [type |-> G.board[<<x, y>>].type, team |-> G.board[<<x, y>>].team, has_moved |-> FALSE])
           = Bare(G, Read(G, x + 1, y))
<1>1. Read(G, x + 1, y) = Read(G, x, y) \cup {<<x, y>>}
  <2>1. \A u, v \in Nat : Read(G, u + 1, v) =
          IF Dead(G, <<u, v>>) THEN Read(G, u, v) ELSE Read(G, u, v) \cup {<<u, v>>}
    BY ReadFacts
  <2>2. Read(G, x + 1, y) = IF Dead(G, <<x, y>>) THEN Read(G, x, y) ELSE Read(G, x, y) \cup {<<x, y>>}
    BY <2>1
  <2> QED BY <2>2
<1> DEFINE p(s) == [type |-> G.board[s].type, team |-> G.board[s].team, has_moved |-> FALSE]
           b == Bare(G, Read(G, x, y))
<1>2. DOMAIN b = Read(G, x, y) /\ \A s \in Read(G, x, y) : b[s] = p(s)
  BY DEF Bare
<1>3. Bare(G, Read(G, x + 1, y)) = [s \in Read(G, x + 1, y) |-> p(s)]
  BY DEF Bare
<1>4. PutOn(b, <<x, y>>, p(<<x, y>>)) = [s \in DOMAIN b \cup {<<x, y>>} |-> IF s = <<x, y>> THEN p(<<x, y>>) ELSE b[s]]
  BY DEF PutOn
<1> HIDE DEF b, p
<1>5. PutOn(b, <<x, y>>, p(<<x, y>>)) = [s \in Read(G, x + 1, y) |-> p(s)]
  BY <1>1, <1>2, <1>4
<1> QED BY <1>3, <1>5 DEF b, p

(* A rank is read from the first file to the last. *)
LEMMA RankPlaced ==
  ASSUME NEW G, PositionOK(G), NEW y \in 0..(Ranks - 1)
  PROVE  /\ FenRank(G, y) \in Seq(Tokens)
         /\ Placed(At(0, y, Bare(G, Read(G, 0, y))), FenRank(G, y))
              = At(Files, y, Bare(G, Read(G, Files, y)))
<1>1. Files \in Nat /\ Files # 0 /\ y \in Nat
  BY RulesAssumption
<1> DEFINE part(x) == IF Dead(G, <<x, y>>) THEN << >>
                      ELSE Append(Gap(G, x, y), Letter(G.board[<<x, y>>].type, G.board[<<x, y>>].team))
           parts == [i \in 1..Files |-> part(i - 1)]
           c == At(0, y, Bare(G, Read(G, 0, y)))
           b(x) == Bare(G, Read(G, x, y))
<1>2. FenRank(G, y) = FlattenSeq(parts) \o Gap(G, Files, y)
  BY DEF FenRank
<1>3. \A x \in Nat : ~Dead(G, <<x, y>>) => Letter(G.board[<<x, y>>].type, G.board[<<x, y>>].team) \in Tokens
  BY TokenFacts DEF Dead, PositionOK
<1>4. \A x \in Nat : part(x) \in Seq(Tokens)
  BY <1>1, <1>3, GapPlaced, AppendProperties, EmptySeq
<1>5. parts \in Seq(Seq(Tokens)) /\ Len(parts) = Files /\ \A i \in 1..Files : parts[i] = part(i - 1) /\ parts[i] \in Seq(Tokens)
  <2>1. \A i \in 1..Files : part(i - 1) \in Seq(Tokens)
    BY <1>1, <1>4
  <2> HIDE DEF part
  <2>2. parts \in Seq(Seq(Tokens)) /\ Len(parts) = Files
    BY <1>1, <2>1, IsASeq
  <2> QED BY <2>1, <2>2
<1> HIDE DEF parts, c
<1>6. PICK f : /\ f[0] = << >> /\ f[Files] = FlattenSeq(parts)
               /\ \A i \in 0..Files : f[i] \in Seq(Tokens)
               /\ \A i \in 0..(Files - 1) : f[i + 1] = f[i] \o parts[i + 1]
  <2>1. /\ Joins(parts)[0] = << >> /\ Joins(parts)[Files] = FlattenSeq(parts)
        /\ \A i \in 0..Files : Joins(parts)[i] \in Seq(Tokens)
        /\ \A i \in 0..(Files - 1) : Joins(parts)[i + 1] = Joins(parts)[i] \o parts[i + 1]
    <3>1. parts \in Seq(Seq(Tokens)) /\ Len(parts) # 0 /\ Len(parts) = Files
      BY <1>1, <1>5
    <3> QED BY <3>1, Joined
  <2> QED BY <2>1
<1> DEFINE S == {x \in Nat : x <= Files => Placed(c, f[x]) = At(Up(G, x, y), y, b(x))}
<1>7. 0 \in S
  BY <1>6, PlacedEmpty, UpFacts DEF c
<1>8. ASSUME NEW x \in Nat, x \in S PROVE x + 1 \in S
  <2> SUFFICES ASSUME x + 1 <= Files PROVE Placed(c, f[x + 1]) = At(Up(G, x + 1, y), y, b(x + 1))
    OBVIOUS
  <2>1. x \in 0..Files /\ x \in 0..(Files - 1) /\ x + 1 \in 1..Files /\ (x + 1) - 1 = x /\ x <= Files
    BY <1>1
  <2>2. parts[x + 1] = part(x) /\ part(x) \in Seq(Tokens) /\ f[x] \in Seq(Tokens)
    BY <1>4, <1>5, <1>6, <2>1
  <2>3. f[x + 1] = f[x] \o part(x)
    BY <1>6, <2>1, <2>2
  <2>4. Placed(c, f[x]) = At(Up(G, x, y), y, b(x))
    BY <1>8, <2>1
  <2> HIDE DEF b, S
  <2>5. Placed(c, f[x + 1]) = Placed(At(Up(G, x, y), y, b(x)), part(x))
    <3> HIDE DEF part
    <3>1. Placed(c, f[x] \o part(x)) = Placed(Placed(c, f[x]), part(x))
      BY <2>2, PlacedConcat
    <3> QED BY <2>3, <2>4, <3>1
  <2>6. CASE Dead(G, <<x, y>>)
    <3>1. part(x) = << >> /\ Up(G, x + 1, y) = Up(G, x, y) /\ b(x + 1) = b(x)
      BY <1>1, <2>6, UpFacts, ReadFacts DEF b
    <3> HIDE DEF part
    <3> QED BY <2>5, <3>1, PlacedEmpty
  <2>7. CASE ~Dead(G, <<x, y>>)
    <3> DEFINE p == G.board[<<x, y>>]
    <3>1. part(x) = Append(Gap(G, x, y), Letter(p.type, p.team)) /\ Up(G, x + 1, y) = x + 1
      BY <2>7, UpFacts
    <3>2. Gap(G, x, y) \in Seq(Tokens) /\ Placed(At(Up(G, x, y), y, b(x)), Gap(G, x, y)) = At(x, y, b(x))
      BY <1>1, GapPlaced
    <3>3. Placed(At(Up(G, x, y), y, b(x)), Append(Gap(G, x, y), Letter(p.type, p.team)))
            = Place(At(x, y, b(x)), Letter(p.type, p.team))
      BY <1>3, <2>7, <3>2, PlacedAppend
    <3>4. Place(At(x, y, b(x)), Letter(p.type, p.team)) = At(x + 1, y, b(x + 1))
      <4>1. PutOn(b(x), <<x, y>>, [type |-> p.type, team |-> p.team, has_moved |-> FALSE]) = b(x + 1)
        BY <1>1, <2>7, PieceRead DEF b
      <4> QED BY <1>1, <4>1, PlacePiece
    <3> HIDE DEF part
    <3> QED BY <2>5, <3>1, <3>3, <3>4
  <2> QED BY <2>6, <2>7
<1>9. Placed(c, f[Files]) = At(Up(G, Files, y), y, b(Files))
  <2>1. \A x \in Nat : x \in S
    <3> HIDE DEF S
    <3> QED BY <1>7, <1>8, Induction
  <2> QED BY <1>1, <2>1
<1> HIDE DEF S, part, b
<1>10. Gap(G, Files, y) \in Seq(Tokens) /\ Placed(At(Up(G, Files, y), y, b(Files)), Gap(G, Files, y)) = At(Files, y, b(Files))
  BY <1>1, GapPlaced
<1>11. PICK text \in Seq(Tokens) : text = FlattenSeq(parts) /\ Placed(c, text) = At(Up(G, Files, y), y, b(Files))
  <2>1. Files \in 0..Files
    BY <1>1
  <2> QED BY <1>6, <1>9, <2>1
<1>12. FenRank(G, y) \in Seq(Tokens) /\ Placed(c, FenRank(G, y)) = At(Files, y, b(Files))
  <2>1. Placed(c, text \o Gap(G, Files, y)) = Placed(Placed(c, text), Gap(G, Files, y))
    BY <1>10, PlacedConcat
  <2>2. text \o Gap(G, Files, y) \in Seq(Tokens)
    BY <1>10, ConcatProperties
  <2> QED BY <1>2, <1>10, <1>11, <2>1, <2>2
<1> QED BY <1>12 DEF c, b

(* The placement is read from the last rank down to the first. *)
Placement(G) ==
  FlattenSeq([i \in 1..Ranks |-> FenRank(G, Ranks - i) \o (IF i < Ranks THEN <<Slash>> ELSE << >>)])

LEMMA PlacementRead ==
  ASSUME NEW G, PositionOK(G)
  PROVE  /\ Placement(G) \in Seq(Tokens)
         /\ Placed(At(0, Ranks - 1, ClearBoard), Placement(G)) = At(Files, 0, Bare(G, DOMAIN G.board))
<1>1. Files \in Nat /\ Ranks \in Nat /\ Ranks # 0
  BY RulesAssumption
<1> DEFINE part(i) == FenRank(G, Ranks - i) \o (IF i < Ranks THEN <<Slash>> ELSE << >>)
           parts == [i \in 1..Ranks |-> part(i)]
           c == At(0, Ranks - 1, ClearBoard)
           b(x, y) == Bare(G, Read(G, x, y))
<1>2. \A i \in 1..Ranks : part(i) \in Seq(Tokens)
  <2> SUFFICES ASSUME NEW i \in 1..Ranks PROVE part(i) \in Seq(Tokens)
    OBVIOUS
  <2>1. Ranks - i \in 0..(Ranks - 1)
    BY <1>1
  <2>2. FenRank(G, Ranks - i) \in Seq(Tokens)
    BY <2>1, RankPlaced
  <2>3. <<Slash>> \in Seq(Tokens) /\ << >> \in Seq(Tokens)
    BY TokenFacts, EmptySeq
  <2> QED BY <2>2, <2>3, ConcatProperties
<1> HIDE DEF part
<1>3. parts \in Seq(Seq(Tokens)) /\ Len(parts) = Ranks /\ \A i \in 1..Ranks : parts[i] = part(i) /\ parts[i] \in Seq(Tokens)
  <2>1. parts \in Seq(Seq(Tokens)) /\ Len(parts) = Ranks
    BY <1>1, <1>2, IsASeq
  <2> QED BY <1>2, <2>1
<1> HIDE DEF parts
<1>4. PICK f : /\ f[0] = << >> /\ f[Ranks] = FlattenSeq(parts)
               /\ \A i \in 0..Ranks : f[i] \in Seq(Tokens)
               /\ \A i \in 0..(Ranks - 1) : f[i + 1] = f[i] \o parts[i + 1]
  <2>1. /\ Joins(parts)[0] = << >> /\ Joins(parts)[Ranks] = FlattenSeq(parts)
        /\ \A i \in 0..Ranks : Joins(parts)[i] \in Seq(Tokens)
        /\ \A i \in 0..(Ranks - 1) : Joins(parts)[i + 1] = Joins(parts)[i] \o parts[i + 1]
    <3>1. parts \in Seq(Seq(Tokens)) /\ Len(parts) # 0 /\ Len(parts) = Ranks
      BY <1>1, <1>3
    <3> QED BY <3>1, Joined
  <2> QED BY <2>1
<1>5. /\ b(0, Ranks - 1) = ClearBoard /\ b(Files, 0) = Bare(G, DOMAIN G.board)
      /\ \A y \in Nat : b(Files, y) = b(0, y - 1)
  BY ReadFacts DEF Bare, ClearBoard
(* The part of rank y after the ranks above it. *)
<1>6. ASSUME NEW i \in 0..(Ranks - 1), NEW y, y = Ranks - 1 - i, Placed(c, f[i]) = At(0, y, b(0, y))
      PROVE  /\ i + 1 < Ranks => Placed(c, f[i + 1]) = At(0, y - 1, b(0, y - 1))
             /\ i + 1 = Ranks => Placed(c, f[i + 1]) = At(Files, 0, b(Files, 0))
  <2>1. /\ i \in 0..Ranks /\ i + 1 \in 1..Ranks /\ y \in 0..(Ranks - 1) /\ y \in Nat /\ Ranks - (i + 1) = y
        /\ (i + 1 = Ranks => y = 0)
    BY <1>1, <1>6
  <2>2. PICK row \in Seq(Tokens) : /\ row = FenRank(G, y)
                                   /\ Placed(At(0, y, b(0, y)), row) = At(Files, y, b(Files, y))
    BY <2>1, RankPlaced
  <2>3. PICK front \in Seq(Tokens) : front = f[i]
    BY <1>4, <2>1
  <2>4. part(i + 1) = row \o (IF i + 1 < Ranks THEN <<Slash>> ELSE << >>)
    BY <2>1, <2>2 DEF part
  <2>5. f[i + 1] = front \o part(i + 1) /\ part(i + 1) \in Seq(Tokens)
    BY <1>2, <1>3, <1>4, <2>1, <2>3
  <2> HIDE DEF b, c
  <2>6. Placed(c, front) = At(0, y, b(0, y))
    BY <1>6, <2>3
  <2>7. Placed(c, front \o part(i + 1)) = Placed(At(0, y, b(0, y)), part(i + 1))
    BY <2>5, <2>6, PlacedConcat
  <2>8. CASE i + 1 < Ranks
    <3>1. PICK slash \in Seq(Tokens) : slash = <<Slash>>
      <4>1. <<Slash>> \in Seq(Tokens)
        BY TokenFacts
      <4> QED BY <4>1
    <3>2. part(i + 1) = row \o slash
      BY <2>4, <2>8, <3>1
    <3>3. Placed(At(0, y, b(0, y)), row \o slash) = Placed(At(Files, y, b(Files, y)), slash)
      BY <2>2, PlacedConcat
    <3>4. Placed(At(Files, y, b(Files, y)), slash) = Place(At(Files, y, b(Files, y)), Slash)
      BY <3>1, PlacedOne
    <3>5. Place(At(Files, y, b(Files, y)), Slash) = At(0, y - 1, b(Files, y))
      BY <1>1, <2>1, PlaceSlash
    <3>6. b(Files, y) = b(0, y - 1)
      BY <1>5, <2>1
    <3>7. Placed(c, f[i + 1]) = Placed(At(0, y, b(0, y)), row \o slash)
      BY <2>5, <2>7, <3>2
    <3>8. Placed(c, f[i + 1]) = At(0, y - 1, b(0, y - 1))
      BY <3>3, <3>4, <3>5, <3>6, <3>7
    <3> QED BY <2>8, <3>8
  <2>9. CASE i + 1 = Ranks
    <3>1. part(i + 1) = row
      BY <1>1, <2>4, <2>9, ConcatEmptySeq
    <3> QED BY <1>1, <2>1, <2>2, <2>5, <2>7, <2>9, <3>1
  <2> QED BY <2>8, <2>9
<1> DEFINE S == {i \in Nat : i < Ranks => Placed(c, f[i]) = At(0, Ranks - 1 - i, b(0, Ranks - 1 - i))}
<1>7. 0 \in S
  <2>1. Ranks - 1 - 0 = Ranks - 1
    BY <1>1
  <2>2. Placed(c, f[0]) = c
    BY <1>4, PlacedEmpty
  <2> HIDE DEF b
  <2> QED BY <1>5, <2>1, <2>2
<1> HIDE DEF c, b
<1>8. ASSUME NEW i \in Nat, i \in S PROVE i + 1 \in S
  <2> SUFFICES ASSUME i + 1 < Ranks
               PROVE  Placed(c, f[i + 1]) = At(0, Ranks - 1 - (i + 1), b(0, Ranks - 1 - (i + 1)))
    OBVIOUS
  <2>1. PICK y : y = Ranks - 1 - i
    OBVIOUS
  <2>2. i \in 0..(Ranks - 1) /\ i < Ranks /\ y - 1 = Ranks - 1 - (i + 1)
    BY <1>1, <2>1
  <2>3. Placed(c, f[i]) = At(0, y, b(0, y))
    BY <1>8, <2>1, <2>2
  <2>4. Placed(c, f[i + 1]) = At(0, y - 1, b(0, y - 1))
    BY <1>6, <2>1, <2>2, <2>3
  <2> QED BY <2>2, <2>4
<1>9. Placed(c, f[Ranks]) = At(Files, 0, b(Files, 0))
  <2>1. \A i \in Nat : i \in S
    <3> HIDE DEF S
    <3> QED BY <1>7, <1>8, Induction
  <2>2. PICK i, y : i = Ranks - 1 /\ y = Ranks - 1 - i
    OBVIOUS
  <2>3. i \in 0..(Ranks - 1) /\ i \in Nat /\ i < Ranks /\ i + 1 = Ranks
    BY <1>1, <2>2
  <2>4. Placed(c, f[i]) = At(0, y, b(0, y))
    BY <2>1, <2>2, <2>3
  <2>5. Placed(c, f[i + 1]) = At(Files, 0, b(Files, 0))
    BY <1>6, <2>2, <2>3, <2>4
  <2> QED BY <2>3, <2>5
<1>10. Placement(G) = FlattenSeq(parts)
  BY DEF Placement, parts, part
<1>11. FlattenSeq(parts) \in Seq(Tokens)
  <2>1. Ranks \in 0..Ranks
    BY <1>1
  <2> QED BY <1>4, <2>1
<1> QED BY <1>4, <1>5, <1>9, <1>10, <1>11 DEF c

-----------------------------------------------------------------------------
(* The fields, one after another: each sets its part of the position.      *)
Pos(b, s, h, r, e) ==
  [board |-> b, side_to_move |-> s, halfmove_clock |-> h, rights |-> r, en_passant |-> e]
Reading(P, k) == [G |-> P, fld |-> k, ok |-> TRUE]
Next1(r) == [r EXCEPT !.fld = r.fld + 1]
PutBoard(n, w)     == [n EXCEPT !.G.board = w.board, !.ok = w.ok]
PutSide(n, v)      == [n EXCEPT !.G.side_to_move = v]
PutRights(n, v)    == [n EXCEPT !.G.rights = v]
PutEnPassant(n, v) == [n EXCEPT !.G.en_passant = v]
PutClock(n, v)     == [n EXCEPT !.G.halfmove_clock = v]

LEMMA IsPos ==
  ASSUME NEW B, NEW S, NEW H, NEW R, NEW E,
         NEW P \in [board : B, side_to_move : S, halfmove_clock : H, rights : R, en_passant : E]
  PROVE  P = Pos(P.board, P.side_to_move, P.halfmove_clock, P.rights, P.en_passant)
BY DEF Pos

LEMMA ReadingFields ==
  ASSUME NEW P, NEW k, NEW r, r = Reading(P, k)
  PROVE  r.G = P /\ r.fld = k /\ r.ok
BY DEF Reading

LEMMA IsReading ==
  ASSUME NEW T, NEW r \in [G : T, fld : Int, ok : BOOLEAN], r.ok
  PROVE  r = Reading(r.G, r.fld)
BY DEF Reading

LEMMA ReadingNext ==
  ASSUME NEW P, NEW k \in Int, NEW l \in Int, l = k + 1, NEW r, r = Reading(P, k)
  PROVE  Next1(r) = Reading(P, l)
<1>1. r.G = P /\ r.fld = k /\ r.ok /\ r \in [G : {P}, fld : Int, ok : BOOLEAN]
  BY DEF Reading
<1>2. PICK n : n = Next1(r) /\ n = [r EXCEPT !.fld = l]
  BY <1>1 DEF Next1
<1>3. n \in [G : {P}, fld : Int, ok : BOOLEAN]
  BY <1>1, <1>2
<1>4. n.G = P /\ n.fld = l /\ n.ok
  BY <1>1, <1>2
<1> QED BY <1>2, <1>3, <1>4, IsReading

(* What each of the assignments does. *)
LEMMA BoardPut ==
  ASSUME NEW b, NEW s, NEW h, NEW r, NEW e, NEW v, NEW k \in Int, NEW w, NEW x, NEW y, w = At(x, y, v),
         NEW n, n = Reading(Pos(b, s, h, r, e), k)
  PROVE  PutBoard(n, w) = Reading(Pos(v, s, h, r, e), k)
<1>1. PICK P : P = Pos(b, s, h, r, e)
  OBVIOUS
<1>2. /\ P.board = b /\ P.side_to_move = s /\ P.halfmove_clock = h /\ P.rights = r /\ P.en_passant = e
      /\ P \in [board : {b, v}, side_to_move : {s}, halfmove_clock : {h}, rights : {r}, en_passant : {e}]
  BY <1>1 DEF Pos
<1>3. PICK Q : Q = [P EXCEPT !.board = v]
  OBVIOUS
<1>4. Q \in [board : {b, v}, side_to_move : {s}, halfmove_clock : {h}, rights : {r}, en_passant : {e}]
  BY <1>2, <1>3
<1>5. Q.board = v /\ Q.side_to_move = s /\ Q.halfmove_clock = h /\ Q.rights = r /\ Q.en_passant = e
  BY <1>2, <1>3
<1>6. Q = Pos(v, s, h, r, e)
  BY <1>4, <1>5, IsPos
<1>7. n.G = P /\ n.fld = k /\ n.ok /\ n \in [G : {P, Q}, fld : Int, ok : BOOLEAN]
  BY <1>1 DEF Reading
<1>8. PICK z : z = [n EXCEPT !.G = Q, !.ok = TRUE]
  OBVIOUS
<1>9. z \in [G : {P, Q}, fld : Int, ok : BOOLEAN]
  BY <1>7, <1>8
<1>10. z.G = Q /\ z.fld = k /\ z.ok
  BY <1>7, <1>8
<1>11. z = Reading(Q, k)
  BY <1>9, <1>10, IsReading
<1>12. PutBoard(n, w) = z
  BY <1>3, <1>7, <1>8 DEF PutBoard, At
<1> QED BY <1>6, <1>11, <1>12

LEMMA SidePut ==
  ASSUME NEW b, NEW s, NEW h, NEW r, NEW e, NEW v, NEW k \in Int,
         NEW n, n = Reading(Pos(b, s, h, r, e), k)
  PROVE  PutSide(n, v) = Reading(Pos(b, v, h, r, e), k)
<1>1. PICK P : P = Pos(b, s, h, r, e)
  OBVIOUS
<1>2. /\ P.board = b /\ P.side_to_move = s /\ P.halfmove_clock = h /\ P.rights = r /\ P.en_passant = e
      /\ P \in [board : {b}, side_to_move : {s, v}, halfmove_clock : {h}, rights : {r}, en_passant : {e}]
  BY <1>1 DEF Pos
<1>3. PICK Q : Q = [P EXCEPT !.side_to_move = v]
  OBVIOUS
<1>4. Q \in [board : {b}, side_to_move : {s, v}, halfmove_clock : {h}, rights : {r}, en_passant : {e}]
  BY <1>2, <1>3
<1>5. Q.board = b /\ Q.side_to_move = v /\ Q.halfmove_clock = h /\ Q.rights = r /\ Q.en_passant = e
  BY <1>2, <1>3
<1>6. Q = Pos(b, v, h, r, e)
  BY <1>4, <1>5, IsPos
<1>7. n.G = P /\ n.fld = k /\ n.ok /\ n \in [G : {P, Q}, fld : Int, ok : BOOLEAN]
  BY <1>1 DEF Reading
<1>8. PICK z : z = [n EXCEPT !.G = Q]
  OBVIOUS
<1>9. z \in [G : {P, Q}, fld : Int, ok : BOOLEAN]
  BY <1>7, <1>8
<1>10. z.G = Q /\ z.fld = k /\ z.ok
  BY <1>7, <1>8
<1>11. z = Reading(Q, k)
  BY <1>9, <1>10, IsReading
<1>12. PutSide(n, v) = z
  BY <1>3, <1>7, <1>8 DEF PutSide
<1> QED BY <1>6, <1>11, <1>12

LEMMA ClockPut ==
  ASSUME NEW b, NEW s, NEW h, NEW r, NEW e, NEW v, NEW k \in Int,
         NEW n, n = Reading(Pos(b, s, h, r, e), k)
  PROVE  PutClock(n, v) = Reading(Pos(b, s, v, r, e), k)
<1>1. PICK P : P = Pos(b, s, h, r, e)
  OBVIOUS
<1>2. /\ P.board = b /\ P.side_to_move = s /\ P.halfmove_clock = h /\ P.rights = r /\ P.en_passant = e
      /\ P \in [board : {b}, side_to_move : {s}, halfmove_clock : {h, v}, rights : {r}, en_passant : {e}]
  BY <1>1 DEF Pos
<1>3. PICK Q : Q = [P EXCEPT !.halfmove_clock = v]
  OBVIOUS
<1>4. Q \in [board : {b}, side_to_move : {s}, halfmove_clock : {h, v}, rights : {r}, en_passant : {e}]
  BY <1>2, <1>3
<1>5. Q.board = b /\ Q.side_to_move = s /\ Q.halfmove_clock = v /\ Q.rights = r /\ Q.en_passant = e
  BY <1>2, <1>3
<1>6. Q = Pos(b, s, v, r, e)
  BY <1>4, <1>5, IsPos
<1>7. n.G = P /\ n.fld = k /\ n.ok /\ n \in [G : {P, Q}, fld : Int, ok : BOOLEAN]
  BY <1>1 DEF Reading
<1>8. PICK z : z = [n EXCEPT !.G = Q]
  OBVIOUS
<1>9. z \in [G : {P, Q}, fld : Int, ok : BOOLEAN]
  BY <1>7, <1>8
<1>10. z.G = Q /\ z.fld = k /\ z.ok
  BY <1>7, <1>8
<1>11. z = Reading(Q, k)
  BY <1>9, <1>10, IsReading
<1>12. PutClock(n, v) = z
  BY <1>3, <1>7, <1>8 DEF PutClock
<1> QED BY <1>6, <1>11, <1>12

LEMMA RightsPut ==
  ASSUME NEW b, NEW s, NEW h, NEW r, NEW e, NEW v, NEW k \in Int,
         NEW n, n = Reading(Pos(b, s, h, r, e), k)
  PROVE  PutRights(n, v) = Reading(Pos(b, s, h, v, e), k)
<1>1. PICK P : P = Pos(b, s, h, r, e)
  OBVIOUS
<1>2. /\ P.board = b /\ P.side_to_move = s /\ P.halfmove_clock = h /\ P.rights = r /\ P.en_passant = e
      /\ P \in [board : {b}, side_to_move : {s}, halfmove_clock : {h}, rights : {r, v}, en_passant : {e}]
  BY <1>1 DEF Pos
<1>3. PICK Q : Q = [P EXCEPT !.rights = v]
  OBVIOUS
<1>4. Q \in [board : {b}, side_to_move : {s}, halfmove_clock : {h}, rights : {r, v}, en_passant : {e}]
  BY <1>2, <1>3
<1>5. Q.board = b /\ Q.side_to_move = s /\ Q.halfmove_clock = h /\ Q.rights = v /\ Q.en_passant = e
  BY <1>2, <1>3
<1>6. Q = Pos(b, s, h, v, e)
  BY <1>4, <1>5, IsPos
<1>7. n.G = P /\ n.fld = k /\ n.ok /\ n \in [G : {P, Q}, fld : Int, ok : BOOLEAN]
  BY <1>1 DEF Reading
<1>8. PICK z : z = [n EXCEPT !.G = Q]
  OBVIOUS
<1>9. z \in [G : {P, Q}, fld : Int, ok : BOOLEAN]
  BY <1>7, <1>8
<1>10. z.G = Q /\ z.fld = k /\ z.ok
  BY <1>7, <1>8
<1>11. z = Reading(Q, k)
  BY <1>9, <1>10, IsReading
<1>12. PutRights(n, v) = z
  BY <1>3, <1>7, <1>8 DEF PutRights
<1> QED BY <1>6, <1>11, <1>12

LEMMA EnPassantPut ==
  ASSUME NEW b, NEW s, NEW h, NEW r, NEW e, NEW v, NEW k \in Int,
         NEW n, n = Reading(Pos(b, s, h, r, e), k)
  PROVE  PutEnPassant(n, v) = Reading(Pos(b, s, h, r, v), k)
<1>1. PICK P : P = Pos(b, s, h, r, e)
  OBVIOUS
<1>2. /\ P.board = b /\ P.side_to_move = s /\ P.halfmove_clock = h /\ P.rights = r /\ P.en_passant = e
      /\ P \in [board : {b}, side_to_move : {s}, halfmove_clock : {h}, rights : {r}, en_passant : {e, v}]
  BY <1>1 DEF Pos
<1>3. PICK Q : Q = [P EXCEPT !.en_passant = v]
  OBVIOUS
<1>4. Q \in [board : {b}, side_to_move : {s}, halfmove_clock : {h}, rights : {r}, en_passant : {e, v}]
  BY <1>2, <1>3
<1>5. Q.board = b /\ Q.side_to_move = s /\ Q.halfmove_clock = h /\ Q.rights = r /\ Q.en_passant = v
  BY <1>2, <1>3
<1>6. Q = Pos(b, s, h, r, v)
  BY <1>4, <1>5, IsPos
<1>7. n.G = P /\ n.fld = k /\ n.ok /\ n \in [G : {P, Q}, fld : Int, ok : BOOLEAN]
  BY <1>1 DEF Reading
<1>8. PICK z : z = [n EXCEPT !.G = Q]
  OBVIOUS
<1>9. z \in [G : {P, Q}, fld : Int, ok : BOOLEAN]
  BY <1>7, <1>8
<1>10. z.G = Q /\ z.fld = k /\ z.ok
  BY <1>7, <1>8
<1>11. z = Reading(Q, k)
  BY <1>9, <1>10, IsReading
<1>12. PutEnPassant(n, v) = z
  BY <1>3, <1>7, <1>8 DEF PutEnPassant
<1> QED BY <1>6, <1>11, <1>12

LEMMA FieldRefused ==
  ASSUME NEW r, ~r.ok \/ r.fld > 4, NEW field
  PROVE  Field(r, field) = r
BY DEF Field

(* Which of them a field is. *)
FieldCases(r, n, field, placed) ==
  CASE ~r.ok \/ r.fld > 4 -> r
    [] r.ok /\ r.fld = 0  -> PutBoard(n, placed)
    [] r.ok /\ r.fld = 1  -> PutSide(n, IF field = "b" THEN "black" ELSE "white")
    [] r.ok /\ r.fld = 2  -> PutRights(n, Rights \cap field)
    [] r.ok /\ r.fld = 3  -> IF EnPassantField(field) = {} THEN [r EXCEPT !.ok = FALSE]
                             ELSE PutEnPassant(n, CHOOSE s \in EnPassantField(field) : TRUE)
    [] r.ok /\ r.fld = 4  -> PutClock(n, field)

LEMMA FieldIsCases ==
  ASSUME NEW r, NEW field
  PROVE  Field(r, field) = FieldCases(r, Next1(r), field, Placed(At(0, Ranks - 1, ClearBoard), field))
BY DEF Field, FieldCases, Next1, Placed, At, PutBoard, PutSide, PutRights, PutEnPassant, PutClock

LEMMA FieldIsBoard ==
  ASSUME NEW r, r.ok, r.fld = 0, NEW n, n = Next1(r), NEW field, NEW placed,
         placed = Placed(At(0, Ranks - 1, ClearBoard), field)
  PROVE  Field(r, field) = PutBoard(n, placed)
<1>1. Field(r, field) = FieldCases(r, n, field, placed)
  BY FieldIsCases
<1> QED BY <1>1 DEF FieldCases

LEMMA FieldIsSide ==
  ASSUME NEW r, r.ok, r.fld = 1, NEW n, n = Next1(r), NEW field, NEW v, v = IF field = "b" THEN "black" ELSE "white"
  PROVE  Field(r, field) = PutSide(n, v)
<1>1. PICK placed : Field(r, field) = FieldCases(r, n, field, placed)
  BY FieldIsCases
<1> QED BY <1>1 DEF FieldCases

LEMMA FieldIsRights ==
  ASSUME NEW r, r.ok, r.fld = 2, NEW n, n = Next1(r), NEW field, NEW v, v = Rights \cap field
  PROVE  Field(r, field) = PutRights(n, v)
<1>1. PICK placed : Field(r, field) = FieldCases(r, n, field, placed)
  BY FieldIsCases
<1> QED BY <1>1 DEF FieldCases

LEMMA FieldIsEnPassant ==
  ASSUME NEW r, r.ok, r.fld = 3, NEW n, n = Next1(r), NEW field, NEW v, EnPassantField(field) = {v}
  PROVE  Field(r, field) = PutEnPassant(n, v)
<1>1. PICK placed : Field(r, field) = FieldCases(r, n, field, placed)
  BY FieldIsCases
<1>2. EnPassantField(field) # {} /\ (CHOOSE s \in EnPassantField(field) : TRUE) = v
  OBVIOUS
<1> QED BY <1>1, <1>2 DEF FieldCases

LEMMA FieldIsClock ==
  ASSUME NEW r, r.ok, r.fld = 4, NEW n, n = Next1(r), NEW field
  PROVE  Field(r, field) = PutClock(n, field)
<1>1. PICK placed : Field(r, field) = FieldCases(r, n, field, placed)
  BY FieldIsCases
<1> QED BY <1>1 DEF FieldCases
LEMMA BoardRead ==
  ASSUME NEW b, NEW s, NEW h, NEW r, NEW e, NEW field, NEW v, NEW w, NEW x, NEW y,
         w = Placed(At(0, Ranks - 1, ClearBoard), field), w = At(x, y, v)
  PROVE  Field(Reading(Pos(b, s, h, r, e), 0), field) = Reading(Pos(v, s, h, r, e), 1)
<1>1. PICK k \in Int, l \in Int : k = 0 /\ l = 1 /\ l = k + 1
  OBVIOUS
<1>2. PICK P, c, n : P = Pos(b, s, h, r, e) /\ c = Reading(P, k) /\ n = Next1(c)
  OBVIOUS
<1>3. c.ok /\ c.fld = k
  BY <1>2, ReadingFields
<1>4. n = Reading(P, l)
  BY <1>1, <1>2, ReadingNext
<1>5. Field(c, field) = PutBoard(n, w)
  BY <1>1, <1>2, <1>3, FieldIsBoard
<1>6. PutBoard(n, w) = Reading(Pos(v, s, h, r, e), l)
  BY <1>2, <1>4, BoardPut
<1> QED BY <1>1, <1>2, <1>5, <1>6

LEMMA BoardRefused ==
  ASSUME NEW P, NEW field, NEW placed,
         placed = Placed(At(0, Ranks - 1, ClearBoard), field), ~placed.ok
  PROVE  ~Field(Reading(P, 0), field).ok
<1>1. PICK k \in Int, l \in Int : k = 0 /\ l = 1 /\ l = k + 1
  OBVIOUS
<1>2. PICK c, n : c = Reading(P, k) /\ n = Next1(c)
  OBVIOUS
<1>3. c.ok /\ c.fld = k
  BY <1>2, ReadingFields
<1>4. n = Reading(P, l)
  BY <1>1, <1>2, ReadingNext
<1>5. Field(c, field) = PutBoard(n, placed)
  BY <1>1, <1>2, <1>3, FieldIsBoard
<1>6. DOMAIN n = {"G", "fld", "ok"}
  BY <1>4 DEF Reading
<1>7. PutBoard(n, placed).ok = placed.ok
  BY <1>6 DEF PutBoard
<1> QED BY <1>1, <1>2, <1>5, <1>7

LEMMA SideRead ==
  ASSUME NEW b, NEW s, NEW h, NEW r, NEW e, NEW field, NEW v,
         v = IF field = "b" THEN "black" ELSE "white"
  PROVE  Field(Reading(Pos(b, s, h, r, e), 1), field) = Reading(Pos(b, v, h, r, e), 2)
<1>1. PICK k \in Int, l \in Int : k = 1 /\ l = 2 /\ l = k + 1
  OBVIOUS
<1>2. PICK P, c, n : P = Pos(b, s, h, r, e) /\ c = Reading(P, k) /\ n = Next1(c)
  OBVIOUS
<1>3. c.ok /\ c.fld = k
  BY <1>2, ReadingFields
<1>4. n = Reading(P, l)
  BY <1>1, <1>2, ReadingNext
<1>5. Field(c, field) = PutSide(n, v)
  BY <1>1, <1>2, <1>3, FieldIsSide
<1>6. PutSide(n, v) = Reading(Pos(b, v, h, r, e), l)
  BY <1>2, <1>4, SidePut
<1> QED BY <1>1, <1>2, <1>5, <1>6

LEMMA RightsRead ==
  ASSUME NEW b, NEW s, NEW h, NEW r, NEW e, NEW field, NEW v, v = Rights \cap field
  PROVE  Field(Reading(Pos(b, s, h, r, e), 2), field) = Reading(Pos(b, s, h, v, e), 3)
<1>1. PICK k \in Int, l \in Int : k = 2 /\ l = 3 /\ l = k + 1
  OBVIOUS
<1>2. PICK P, c, n : P = Pos(b, s, h, r, e) /\ c = Reading(P, k) /\ n = Next1(c)
  OBVIOUS
<1>3. c.ok /\ c.fld = k
  BY <1>2, ReadingFields
<1>4. n = Reading(P, l)
  BY <1>1, <1>2, ReadingNext
<1>5. Field(c, field) = PutRights(n, v)
  BY <1>1, <1>2, <1>3, FieldIsRights
<1>6. PutRights(n, v) = Reading(Pos(b, s, h, v, e), l)
  BY <1>2, <1>4, RightsPut
<1> QED BY <1>1, <1>2, <1>5, <1>6

LEMMA EnPassantRead ==
  ASSUME NEW b, NEW s, NEW h, NEW r, NEW e, NEW field, NEW v,
         EnPassantField(field) = {v}
  PROVE  Field(Reading(Pos(b, s, h, r, e), 3), field) = Reading(Pos(b, s, h, r, v), 4)
<1>1. PICK k \in Int, l \in Int : k = 3 /\ l = 4 /\ l = k + 1
  OBVIOUS
<1>2. PICK P, c, n : P = Pos(b, s, h, r, e) /\ c = Reading(P, k) /\ n = Next1(c)
  OBVIOUS
<1>3. c.ok /\ c.fld = k
  BY <1>2, ReadingFields
<1>4. n = Reading(P, l)
  BY <1>1, <1>2, ReadingNext
<1>5. Field(c, field) = PutEnPassant(n, v)
  BY <1>1, <1>2, <1>3, FieldIsEnPassant
<1>6. PutEnPassant(n, v) = Reading(Pos(b, s, h, r, v), l)
  BY <1>2, <1>4, EnPassantPut
<1> QED BY <1>1, <1>2, <1>5, <1>6

LEMMA ClockRead ==
  ASSUME NEW b, NEW s, NEW h, NEW r, NEW e, NEW field, NEW v, v = field
  PROVE  Field(Reading(Pos(b, s, h, r, e), 4), field) = Reading(Pos(b, s, v, r, e), 5)
<1>1. PICK k \in Int, l \in Int : k = 4 /\ l = 5 /\ l = k + 1
  OBVIOUS
<1>2. PICK P, c, n : P = Pos(b, s, h, r, e) /\ c = Reading(P, k) /\ n = Next1(c)
  OBVIOUS
<1>3. c.ok /\ c.fld = k
  BY <1>2, ReadingFields
<1>4. n = Reading(P, l)
  BY <1>1, <1>2, ReadingNext
<1>5. Field(c, field) = PutClock(n, v)
  BY <1>1, <1>2, <1>3, FieldIsClock
<1>6. PutClock(n, v) = Reading(Pos(b, s, v, r, e), l)
  BY <1>2, <1>4, ClockPut
<1> QED BY <1>1, <1>2, <1>5, <1>6

-----------------------------------------------------------------------------
(* The whole text: the fields that are left after one that was refused, or *)
(* after the fifth, change nothing.                                        *)
Parsed(c, seq) == FoldLeft(Field, c, seq)

FirstFour(c, seq) == Field(Field(Field(Field(c, seq[1]), seq[2]), seq[3]), seq[4])

LEMMA FourFields ==
  ASSUME NEW A, NEW seq \in Seq(A), NEW c
  PROVE  Len(seq) = 4 => Parsed(c, seq) = FirstFour(c, seq)
<1>1. PICK n : n = Len(seq) /\ n \in Nat /\ DOMAIN seq = 1..n /\ Len(seq) \in Nat
  BY LenProperties
<1>2. Parsed(c, seq) = Run("fields", c, seq, n)[n]
  BY <1>1, FoldField DEF Parsed
<1>3. PICK h : h = Run("fields", c, seq, n) /\ IsRun(h, "fields", c, seq, n)
  BY <1>1, RunExists
<1>4. \A k \in 0..n : h[k] = IF k = 0 THEN c ELSE Field(h[k - 1], seq[k])
  BY <1>3 DEF IsRun, Reads
<1> HAVE Len(seq) = 4
<1>5. /\ h[4] = Parsed(c, seq)
      /\ h[0] = c /\ h[1] = Field(h[0], seq[1]) /\ h[2] = Field(h[1], seq[2]) /\ h[3] = Field(h[2], seq[3])
      /\ h[4] = Field(h[3], seq[4])
  BY <1>1, <1>2, <1>3, <1>4
<1> QED BY <1>5 DEF FirstFour

LEMMA SixFields ==
  ASSUME NEW A, NEW seq \in Seq(A), NEW c
  PROVE  Len(seq) = 6 => Parsed(c, seq) = Field(Field(FirstFour(c, seq), seq[5]), seq[6])
<1>1. PICK n : n = Len(seq) /\ n \in Nat /\ DOMAIN seq = 1..n /\ Len(seq) \in Nat
  BY LenProperties
<1>2. Parsed(c, seq) = Run("fields", c, seq, n)[n]
  BY <1>1, FoldField DEF Parsed
<1>3. PICK h : h = Run("fields", c, seq, n) /\ IsRun(h, "fields", c, seq, n)
  BY <1>1, RunExists
<1>4. \A k \in 0..n : h[k] = IF k = 0 THEN c ELSE Field(h[k - 1], seq[k])
  BY <1>3 DEF IsRun, Reads
<1> HAVE Len(seq) = 6
<1>5. /\ h[6] = Parsed(c, seq)
      /\ h[0] = c /\ h[1] = Field(h[0], seq[1]) /\ h[2] = Field(h[1], seq[2]) /\ h[3] = Field(h[2], seq[3])
      /\ h[4] = Field(h[3], seq[4]) /\ h[5] = Field(h[4], seq[5]) /\ h[6] = Field(h[5], seq[6])
  BY <1>1, <1>2, <1>3, <1>4
<1> QED BY <1>5 DEF FirstFour

(* What the parser begins with, and what it is to come to. *)
Emptied(G) == [G EXCEPT !.board = ClearBoard]

LEMMA Cleared ==
  ASSUME NEW G, PositionOK(G), NEW b, NEW s, NEW before, before = [G EXCEPT !.board = b, !.side_to_move = s]
  PROVE  Emptied(before) = Pos(ClearBoard, s, G.halfmove_clock, G.rights, G.en_passant)
<1> DEFINE Similar == [board : {G.board, b, ClearBoard}, side_to_move : {G.side_to_move, s},
                       halfmove_clock : {G.halfmove_clock}, rights : {G.rights}, en_passant : {G.en_passant}]
<1>1. G \in Similar
  BY DEF PositionOK
<1>2. before \in Similar
  BY <1>1
<1>3. /\ before.side_to_move = s /\ before.halfmove_clock = G.halfmove_clock
      /\ before.rights = G.rights /\ before.en_passant = G.en_passant
  BY <1>1
<1>4. PICK P : P = Emptied(before) /\ P = [before EXCEPT !.board = ClearBoard]
  BY DEF Emptied
<1>5. P \in Similar
  BY <1>2, <1>4
<1>6. /\ P.board = ClearBoard /\ P.side_to_move = s /\ P.halfmove_clock = G.halfmove_clock
      /\ P.rights = G.rights /\ P.en_passant = G.en_passant
  BY <1>2, <1>3, <1>4
<1> QED BY <1>4, <1>5, <1>6, IsPos

LEMMA Unmoved ==
  ASSUME NEW G, PositionOK(G)
  PROVE  Unmoving(G) = Pos(Bare(G, DOMAIN G.board), G.side_to_move, G.halfmove_clock, G.rights, G.en_passant)
<1>1. PICK b : b = Bare(G, DOMAIN G.board)
  OBVIOUS
<1>2. ASSUME NEW s \in DOMAIN G.board
      PROVE  [G.board[s] EXCEPT !.has_moved = FALSE] =
               [type |-> G.board[s].type, team |-> G.board[s].team, has_moved |-> FALSE]
  <2>1. PICK p \in Piece : p = G.board[s]
    BY DEF PositionOK
  <2>2. p \in [type : PieceTypes, team : Team, has_moved : BOOLEAN]
    BY DEF Piece
  <2>3. PICK q : q = [p EXCEPT !.has_moved = FALSE]
    OBVIOUS
  <2>4. q \in [type : PieceTypes, team : Team, has_moved : BOOLEAN]
    BY <2>2, <2>3
  <2>5. q.type = p.type /\ q.team = p.team /\ q.has_moved = FALSE
    BY <2>2, <2>3
  <2>6. q = [type |-> p.type, team |-> p.team, has_moved |-> FALSE]
    BY <2>4, <2>5
  <2> QED BY <2>1, <2>3, <2>6
<1>3. [s \in DOMAIN G.board |-> [G.board[s] EXCEPT !.has_moved = FALSE]] = b
  BY <1>1, <1>2 DEF Bare
<1>4. PICK P : P = [G EXCEPT !.board = b]
  OBVIOUS
<1>5. Unmoving(G) = P
  BY <1>3, <1>4 DEF Unmoving
<1> DEFINE Similar == [board : {G.board, b}, side_to_move : {G.side_to_move},
                       halfmove_clock : {G.halfmove_clock}, rights : {G.rights}, en_passant : {G.en_passant}]
<1>6. G \in Similar
  BY DEF PositionOK
<1>7. P \in Similar
  BY <1>4, <1>6
<1>8. /\ P.board = b /\ P.side_to_move = G.side_to_move /\ P.halfmove_clock = G.halfmove_clock
      /\ P.rights = G.rights /\ P.en_passant = G.en_passant
  BY <1>4, <1>6
<1> QED BY <1>1, <1>5, <1>7, <1>8, IsPos

(* The en passant field gives the square, or none, back. *)
LEMMA EnPassantWritten ==
  ASSUME NEW t \in Squares \cup {NoSquare}
  PROVE  EnPassantField(IF t = NoSquare THEN Dash ELSE SquareName(t[1], t[2] + 1)) = {t}
<1>1. CASE t = NoSquare
  BY <1>1 DEF EnPassantField, Dash
<1>2. CASE t # NoSquare
  <2>1. PICK x \in 0..(Files - 1), y \in 0..(Ranks - 1) : t = <<x, y>>
    BY <1>2 DEF Squares
  <2>2. t[1] = x /\ t[2] = y /\ y + 1 - 1 = y
    BY <2>1, RulesAssumption
  <2>3. PICK d : d = t[2] + 1 /\ d - 1 = t[2]
    BY <2>2
  <2>4. EnPassantField(SquareName(t[1], d)) = {<<t[1], d - 1>>} \cap Squares
    BY DEF EnPassantField, SquareName
  <2>5. <<t[1], d - 1>> = t /\ t \in Squares
    BY <1>2, <2>1, <2>2, <2>3
  <2>6. {<<t[1], d - 1>>} \cap Squares = {t}
    BY <2>5
  <2> QED BY <1>2, <2>3, <2>4, <2>6
<1> QED BY <1>1, <1>2

(* The fields of the text fen_parse is given, and of one cut short. *)
FenFour(fen, G) ==
  /\ fen[1] = Placement(G)
  /\ fen[2] = IF G.side_to_move = "white" THEN "w" ELSE "b"
  /\ fen[3] = G.rights
  /\ fen[4] = IF G.en_passant = NoSquare THEN Dash ELSE SquareName(G.en_passant[1], G.en_passant[2] + 1)
FenSix(fen, G) == Len(fen) = 6 /\ FenFour(fen, G) /\ fen[5] = G.halfmove_clock

LEMMA FenIsSix ==
  ASSUME NEW G, NEW fullmove
  PROVE  FenSix(FenOf(G, fullmove), G) /\ \E A : FenOf(G, fullmove) \in Seq(A)
<1>1. PICK a1, a2, a3, a4, a5, a6 :
        /\ a1 = Placement(G)
        /\ a2 = (IF G.side_to_move = "white" THEN "w" ELSE "b")
        /\ a3 = G.rights
        /\ a4 = (IF G.en_passant = NoSquare THEN Dash ELSE SquareName(G.en_passant[1], G.en_passant[2] + 1))
        /\ a5 = G.halfmove_clock
        /\ a6 = fullmove
  OBVIOUS
<1>2. FenOf(G, fullmove) = <<a1, a2, a3, a4, a5, a6>>
  BY <1>1 DEF FenOf, Placement
<1>3. PICK fen : fen = <<a1, a2, a3, a4, a5, a6>>
  OBVIOUS
<1>4. fen \in Seq({a1, a2, a3, a4, a5, a6})
  BY <1>3
<1>5. /\ Len(fen) = 6 /\ fen[1] = a1 /\ fen[2] = a2 /\ fen[3] = a3 /\ fen[4] = a4 /\ fen[5] = a5
      /\ fen[6] = a6
  BY <1>3
<1>6. FenSix(fen, G)
  BY <1>1, <1>5 DEF FenSix, FenFour
<1>7. \E A : fen \in Seq(A)
  BY <1>4
<1> QED BY <1>2, <1>3, <1>6, <1>7

(* Four fields, from a position without a piece, and all six. *)
LEMMA FourRead ==
  ASSUME NEW G, PositionOK(G), NEW fen, FenFour(fen, G),
         NEW s, NEW c,
         c = Reading(Pos(ClearBoard, s, G.halfmove_clock, G.rights, G.en_passant), 0)
  PROVE  FirstFour(c, fen) =
           Reading(Pos(Bare(G, DOMAIN G.board), G.side_to_move, G.halfmove_clock, G.rights, G.en_passant), 4)
<1>1. PICK b, t, h, r, e : /\ b = Bare(G, DOMAIN G.board) /\ t = G.side_to_move
                           /\ h = G.halfmove_clock /\ r = G.rights /\ e = G.en_passant
  OBVIOUS
<1>2. PICK r1 : r1 = Field(c, fen[1]) /\ r1 = Reading(Pos(b, s, h, r, e), 1)
  <2>1. PICK field, w, x, y : field = fen[1] /\ w = Placed(At(0, Ranks - 1, ClearBoard), field) /\ x = Files /\ y = 0
    OBVIOUS
  <2>2. field = Placement(G)
    BY <2>1 DEF FenFour
  <2>3. w = At(x, y, b)
    BY <1>1, <2>1, <2>2, PlacementRead
  <2>4. Field(Reading(Pos(ClearBoard, s, h, r, e), 0), field) = Reading(Pos(b, s, h, r, e), 1)
    BY <2>1, <2>3, BoardRead
  <2> QED BY <1>1, <2>1, <2>4
<1>3. PICK r2 : r2 = Field(r1, fen[2]) /\ r2 = Reading(Pos(b, t, h, r, e), 2)
  <2>1. PICK field : field = fen[2]
    OBVIOUS
  <2>2. t = IF field = "b" THEN "black" ELSE "white"
    BY <1>1, <2>1 DEF FenFour, PositionOK, Team
  <2>3. Field(Reading(Pos(b, s, h, r, e), 1), field) = Reading(Pos(b, t, h, r, e), 2)
    BY <2>2, SideRead
  <2> QED BY <1>2, <2>1, <2>3
<1>4. PICK r3 : r3 = Field(r2, fen[3]) /\ r3 = Reading(Pos(b, t, h, r, e), 3)
  <2>1. PICK field : field = fen[3]
    OBVIOUS
  <2>2. r = Rights \cap field
    BY <1>1, <2>1 DEF FenFour, PositionOK
  <2>3. Field(Reading(Pos(b, t, h, r, e), 2), field) = Reading(Pos(b, t, h, r, e), 3)
    BY <2>2, RightsRead
  <2> QED BY <1>3, <2>1, <2>3
<1>5. PICK r4 : r4 = Field(r3, fen[4]) /\ r4 = Reading(Pos(b, t, h, r, e), 4)
  <2>1. PICK field : field = fen[4]
    OBVIOUS
  <2>2. EnPassantField(field) = {e}
    <3>1. field = IF e = NoSquare THEN Dash ELSE SquareName(e[1], e[2] + 1)
      BY <1>1, <2>1 DEF FenFour
    <3>2. e \in Squares \cup {NoSquare}
      BY <1>1 DEF PositionOK
    <3> QED BY <3>1, <3>2, EnPassantWritten
  <2>3. Field(Reading(Pos(b, t, h, r, e), 3), field) = Reading(Pos(b, t, h, r, e), 4)
    BY <2>2, EnPassantRead
  <2> QED BY <1>4, <2>1, <2>3
<1> QED BY <1>1, <1>2, <1>3, <1>4, <1>5 DEF FirstFour

LEMMA SixRead ==
  ASSUME NEW G, PositionOK(G), NEW A, NEW fen \in Seq(A), FenSix(fen, G),
         NEW s, NEW c,
         c = Reading(Pos(ClearBoard, s, G.halfmove_clock, G.rights, G.en_passant), 0)
  PROVE  Parsed(c, fen) =
           Reading(Pos(Bare(G, DOMAIN G.board), G.side_to_move, G.halfmove_clock, G.rights, G.en_passant), 5)
<1>1. PICK b, t, h, r, e : /\ b = Bare(G, DOMAIN G.board) /\ t = G.side_to_move
                           /\ h = G.halfmove_clock /\ r = G.rights /\ e = G.en_passant
  OBVIOUS
<1>2. PICK r4 : r4 = FirstFour(c, fen) /\ r4 = Reading(Pos(b, t, h, r, e), 4)
  <2>1. FenFour(fen, G)
    BY DEF FenSix
  <2> QED BY <1>1, <2>1, FourRead
<1>3. PICK r5 : r5 = Field(r4, fen[5]) /\ r5 = Reading(Pos(b, t, h, r, e), 5)
  <2>1. PICK field : field = fen[5]
    OBVIOUS
  <2>2. h = field
    BY <1>1, <2>1 DEF FenSix
  <2>3. Field(Reading(Pos(b, t, h, r, e), 4), field) = Reading(Pos(b, t, h, r, e), 5)
    BY <2>2, ClockRead
  <2> QED BY <1>2, <2>1, <2>3
<1>4. Field(r5, fen[6]) = r5
  <2>1. r5.fld = 5
    BY <1>3, ReadingFields
  <2>2. r5.fld > 4
    BY <2>1
  <2> QED BY <2>2, FieldRefused
<1>5. Parsed(c, fen) = Field(Field(FirstFour(c, fen), fen[5]), fen[6])
  <2>1. Len(fen) = 6
    BY DEF FenSix
  <2> QED BY <2>1, SixFields
<1> QED BY <1>1, <1>2, <1>3, <1>4, <1>5

(* fen_parse as the loop over the fields. *)
Outcome(z) == [G |-> z.G, ok |-> z.ok /\ z.fld >= 5]

LEMMA FenParseIs ==
  ASSUME NEW G, NEW P, P = Emptied(G), NEW fen, NEW z, z = Parsed(Reading(P, 0), fen)
  PROVE  FenParse(G, fen) = Outcome(z)
BY DEF FenParse, Parsed, Reading, Emptied, Outcome

LEMMA WholeRead ==
  ASSUME NEW G, PositionOK(G), NEW A, NEW fen \in Seq(A), FenSix(fen, G),
         NEW b, NEW s, NEW before, before = [G EXCEPT !.board = b, !.side_to_move = s]
  PROVE  FenParse(before, fen) = [G |-> Unmoving(G), ok |-> TRUE]
<1>1. PICK P, Q : /\ P = Emptied(before)
                  /\ P = Pos(ClearBoard, s, G.halfmove_clock, G.rights, G.en_passant)
                  /\ Q = Pos(Bare(G, DOMAIN G.board), G.side_to_move, G.halfmove_clock, G.rights, G.en_passant)
  <2>1. Emptied(before) = Pos(ClearBoard, s, G.halfmove_clock, G.rights, G.en_passant)
    BY Cleared
  <2> QED BY <2>1
<1>2. PICK c, z : c = Reading(P, 0) /\ z = Parsed(c, fen)
  OBVIOUS
<1>3. z = Reading(Q, 5)
  BY <1>1, <1>2, SixRead
<1>4. z.G = Q /\ z.ok /\ z.fld = 5
  BY <1>3, ReadingFields
<1>5. (z.ok /\ z.fld >= 5) = TRUE
  BY <1>4
<1>6. FenParse(before, fen) = Outcome(z)
  BY <1>1, <1>2, FenParseIs
<1>7. Unmoving(G) = Q
  BY <1>1, Unmoved
<1> QED BY <1>4, <1>5, <1>6, <1>7 DEF Outcome

LEMMA CutShortRefused ==
  ASSUME NEW G, PositionOK(G), NEW A, NEW fen \in Seq(A), FenSix(fen, G),
         NEW b, NEW s, NEW before, before = [G EXCEPT !.board = b, !.side_to_move = s]
  PROVE  ~FenParse(before, SubSeq(fen, 1, 4)).ok
<1>1. PICK P, Q : /\ P = Emptied(before)
                  /\ P = Pos(ClearBoard, s, G.halfmove_clock, G.rights, G.en_passant)
                  /\ Q = Pos(Bare(G, DOMAIN G.board), G.side_to_move, G.halfmove_clock, G.rights, G.en_passant)
  <2>1. Emptied(before) = Pos(ClearBoard, s, G.halfmove_clock, G.rights, G.en_passant)
    BY Cleared
  <2> QED BY <2>1
<1>2. PICK short : short = SubSeq(fen, 1, 4)
  OBVIOUS
<1>3. Len(fen) = 6 /\ FenFour(fen, G)
  BY DEF FenSix
<1>4. short \in Seq(A) /\ Len(short) = 4 /\ \A i \in 1..4 : short[i] = fen[i]
  <2>1. 1 \in 1..(Len(fen) + 1) /\ 4 \in (1 - 1)..Len(fen)
    BY <1>3
  <2>2. SubSeq(fen, 1, 4) \in Seq(A)
    BY <2>1, SubSeqProperties
  <2>3. Len(SubSeq(fen, 1, 4)) = (IF 1 <= 4 THEN 4 - 1 + 1 ELSE 0)
    BY <2>1, SubSeqProperties
  <2>4. \A i \in 1 .. 4 - 1 + 1 : SubSeq(fen, 1, 4)[i] = fen[1 + i - 1]
    BY <2>1, SubSeqProperties
  <2>5. \A i \in 1..4 : i \in 1 .. 4 - 1 + 1 /\ 1 + i - 1 = i
    OBVIOUS
  <2> QED BY <1>2, <2>2, <2>3, <2>4, <2>5
<1>5. FenFour(short, G)
  BY <1>3, <1>4 DEF FenFour
<1>6. PICK c, z : c = Reading(P, 0) /\ z = Parsed(c, short)
  OBVIOUS
<1>7. FirstFour(c, short) = Reading(Q, 4)
  BY <1>1, <1>5, <1>6, FourRead
<1>8. Parsed(c, short) = FirstFour(c, short)
  BY <1>4, FourFields
<1>9. z.fld = 4
  <2>1. z = Reading(Q, 4)
    BY <1>6, <1>7, <1>8
  <2> QED BY <2>1, ReadingFields
<1>10. FenParse(before, short) = Outcome(z)
  BY <1>1, <1>6, FenParseIs
<1>11. FenParse(before, short).ok = (z.ok /\ z.fld >= 5)
  BY <1>10 DEF Outcome
<1>12. ~(z.fld >= 5)
  BY <1>9
<1> QED BY <1>2, <1>11, <1>12

LEMMA OtherLetterRefused ==
  ASSUME NEW G, PositionOK(G), NEW A, NEW fen \in Seq(A), FenSix(fen, G),
         NEW b, NEW s, NEW before, before = [G EXCEPT !.board = b, !.side_to_move = s]
  PROVE  ~FenParse(before, [fen EXCEPT ![1] = Append(@, OtherLetter)]).ok
<1>1. PICK P : P = Emptied(before)
  OBVIOUS
<1>2. PICK field : field = Append(Placement(G), OtherLetter)
  OBVIOUS
<1>3. PICK bad : bad = [fen EXCEPT ![1] = Append(@, OtherLetter)]
  OBVIOUS
<1>4. Len(fen) = 6 /\ fen[1] = Placement(G)
  BY DEF FenSix, FenFour
<1>5. bad \in Seq(A \cup {field}) /\ Len(bad) = 6 /\ bad[1] = field
  <2>1. bad = [fen EXCEPT ![1] = field]
    BY <1>2, <1>3, <1>4
  <2>2. fen \in Seq(A \cup {field}) /\ DOMAIN fen = 1..6
    BY <1>4
  <2> QED BY <1>4, <2>1, <2>2
<1>6. PICK placed : placed = Placed(At(0, Ranks - 1, ClearBoard), field)
  OBVIOUS
<1>7. ~placed.ok
  <2>0. PICK seq \in Seq(Tokens), token \in Tokens : seq = Placement(G) /\ token = OtherLetter
    BY PlacementRead, TokenFacts
  <2>1. PICK c, d : c = At(0, Ranks - 1, ClearBoard) /\ d = At(Files, 0, Bare(G, DOMAIN G.board))
    OBVIOUS
  <2>2. Placed(c, seq) = d
    BY <2>0, <2>1, PlacementRead
  <2>3. Placed(c, Append(seq, token)) = Place(Placed(c, seq), token)
    BY PlacedAppend
  <2>4. ~Place(d, OtherLetter).ok
    BY <2>1, RulesAssumption, PlaceOther
  <2> QED BY <1>2, <1>6, <2>0, <2>1, <2>2, <2>3, <2>4
<1>8. PICK c, r : c = Reading(P, 0) /\ r = Field(c, field)
  OBVIOUS
<1>9. ~r.ok
  BY <1>6, <1>7, <1>8, BoardRefused
<1>10. \A f : Field(r, f) = r
  BY <1>9, FieldRefused
<1>11. FirstFour(c, bad) = r
  BY <1>5, <1>8, <1>10 DEF FirstFour
<1>12. Parsed(c, bad) = r
  <2>1. Parsed(c, bad) = Field(Field(FirstFour(c, bad), bad[5]), bad[6])
    BY <1>5, SixFields
  <2> QED BY <1>10, <1>11, <2>1
<1>13. FenParse(before, bad) = Outcome(r)
  BY <1>1, <1>8, <1>12, FenParseIs
<1>14. FenParse(before, bad).ok = (r.ok /\ r.fld >= 5)
  BY <1>13 DEF Outcome
<1> QED BY <1>3, <1>9, <1>14

(* fen_parse (common/utils.c) reads the FEN of every position a game comes *)
(* to back into any game_t, on a board of any size and from any position   *)
(* to begin on: the pieces to their squares across gaps and ranks, side,   *)
(* castling, en passant and clock; only has_moved is lost.  A text cut     *)
(* before the clock, or with a letter that is no piece, it refuses.        *)
THEOREM PositionsReadBack == Spec => []FenReadsBack
<1>1. ASSUME GameInv PROVE FenReadsBack
  <2>1. PICK G : G = game_state
    OBVIOUS
  <2>2. PositionOK(G)
    <3>1. PositionOK(game_state)
      BY <1>1 DEF GameInv, PositionInv
    <3> QED BY <2>1, <3>1
  <2>3. PICK fen : fen = FenOf(G, plies \div 2 + 1)
    OBVIOUS
  <2>4. PICK b, s : b = start /\ s = Other(G.side_to_move)
    OBVIOUS
  <2>5. PICK before : before = [G EXCEPT !.board = b, !.side_to_move = s]
    OBVIOUS
  <2>6. FenSix(fen, G)
    BY <2>3, FenIsSix
  <2>7. PICK A : fen \in Seq(A)
    BY <2>3, FenIsSix
  <2>8. FenParse(before, fen) = [G |-> Unmoving(G), ok |-> TRUE]
    BY <2>2, <2>5, <2>6, <2>7, WholeRead
  <2>9. ~FenParse(before, SubSeq(fen, 1, 4)).ok
    BY <2>2, <2>5, <2>6, <2>7, CutShortRefused
  <2>10. ~FenParse(before, [fen EXCEPT ![1] = Append(@, OtherLetter)]).ok
    BY <2>2, <2>5, <2>6, <2>7, OtherLetterRefused
  <2>11. before = [game_state EXCEPT !.board = start, !.side_to_move = Other(@)]
    BY <2>1, <2>4, <2>5
  <2> QED BY <2>1, <2>3, <2>8, <2>9, <2>10, <2>11 DEF FenReadsBack
<1> QED BY <1>1, GameInvariant, PTL
=============================================================================
