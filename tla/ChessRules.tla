----------------------------- MODULE ChessRules -----------------------------
(***************************************************************************)
(* The rules of chess as common/rule.c and common/piece.c have them: pure  *)
(* operators on a position G, with no state.  Server and clients share     *)
(* this code.  A square is <<x, y>> = <<file, rank>>; the board is a       *)
(* function on the occupied squares only (is_dead and piece == NULL are    *)
(* one and the same in every position the program builds).  The board has  *)
(* Files x Ranks squares; the code's literals 7 and 8 are its 8 x 8.       *)
(***************************************************************************)
EXTENDS Integers, FiniteSets

CONSTANTS Files, Ranks,
          FiftyLimit    \* half moves without a pawn move or capture: 100

ASSUME RulesAssumption ==
  /\ Files \in Nat \ {0}
  /\ Ranks \in Nat /\ Ranks >= 5   \* a double step ends short of the last rank
  /\ FiftyLimit \in Nat \ {0}

Team == {"white", "black"}
Other(team) == IF team = "white" THEN "black" ELSE "white"
PieceTypes == {"pawn", "knight", "bishop", "rook", "queen", "king"}
Piece == [type : PieceTypes, team : Team, has_moved : BOOLEAN]

Squares == (0..(Files - 1)) \X (0..(Ranks - 1))
NoSquare == <<-1, -1>>
LastRanks == {0, Ranks - 1}

(* The four castling flags of game_t as a set. *)
Flank == {"kingside", "queenside"}
Rights == Team \X Flank

(* piece.c: offsets. *)
Straight == {<<1, 0>>, <<0, 1>>, <<-1, 0>>, <<0, -1>>}
Diagonal == {<<1, 1>>, <<-1, 1>>, <<-1, -1>>, <<1, -1>>}
Offsets == [type \in PieceTypes |->
  CASE type = "pawn"   -> {}
    [] type = "knight" -> {<<1, 2>>, <<2, 1>>, <<2, -1>>, <<1, -2>>,
                           <<-1, -2>>, <<-2, -1>>, <<-2, 1>>, <<-1, 2>>}
    [] type = "bishop" -> Diagonal
    [] type = "rook"   -> Straight
    [] OTHER           -> Straight \cup Diagonal]

Steppers == {"knight", "king"}
Sliders  == {"bishop", "rook", "queen"}

AbsDiff(a, b) == IF a > b THEN a - b ELSE b - a
Dir(team) == IF team = "white" THEN 1 ELSE -1
Along(s, o, k) == <<s[1] + k * o[1], s[2] + k * o[2]>>
Dead(G, s) == s \notin DOMAIN G.board
PiecesOf(G, team) == {s \in DOMAIN G.board : G.board[s].team = team}
Reach == 1..((IF Files > Ranks THEN Files ELSE Ranks) - 1)

-----------------------------------------------------------------------------
(* Mutant: the pawns of the side that attacks are taken to go the other way. *)
AttacksBackward(G, s, d) ==
  LET p == G.board[s]
  IN \/ p.type = "pawn" /\ d[2] = s[2] - Dir(p.team) /\ AbsDiff(d[1], s[1]) = 1
     \/ p.type \in Steppers /\ \E o \in Offsets[p.type] : Along(s, o, 1) = d
     \/ /\ p.type \in Sliders
        /\ \E o \in Offsets[p.type], k \in Reach :
             /\ Along(s, o, k) = d
             /\ \A j \in 1..(k - 1) : Dead(G, Along(s, o, j))

(* Whether the piece on s attacks d: the body of the loops of              *)
(* is_square_attacked.  A slider walks along each offset and stops at the  *)
(* first piece, which it attacks.                                          *)
Attacks(G, s, d) ==
  LET p == G.board[s]
  IN \/ p.type = "pawn" /\ d[2] = s[2] + Dir(p.team) /\ AbsDiff(d[1], s[1]) = 1
     \/ p.type \in Steppers /\ \E o \in Offsets[p.type] : Along(s, o, 1) = d
     \/ /\ p.type \in Sliders
        /\ \E o \in Offsets[p.type], k \in Reach :
             /\ Along(s, o, k) = d
             /\ \A j \in 1..(k - 1) : Dead(G, Along(s, o, j))

is_square_attacked(G, d, by_team) == \E s \in PiecesOf(G, by_team) : Attacks(G, s, d)

(* A side without a king is not in check. *)
is_in_check(G, team) ==
  \E s \in PiecesOf(G, team) :
    G.board[s].type = "king" /\ is_square_attacked(G, s, Other(team))

-----------------------------------------------------------------------------
(* The piece as it stands on d: moved, and a queen if it was a pawn that   *)
(* reaches either end of the board.                                        *)
Lands(p, d) ==
  [type |-> IF p.type = "pawn" /\ d[2] \in LastRanks THEN "queen" ELSE p.type,
   team |-> p.team, has_moved |-> TRUE]

IsCastling(p, s, d) == p.type = "king" /\ AbsDiff(d[1], s[1]) = 2
FlankOf(s, d) == IF d[1] > s[1] THEN "kingside" ELSE "queenside"

(* Where the rook of a castling king comes from and goes to. *)
RookFrom(s, d) == <<IF d[1] > s[1] THEN Files - 1 ELSE 0, d[2]>>
RookTo(s, d)   == <<IF d[1] > s[1] THEN d[1] - 1 ELSE d[1] + 1, d[2]>>

(* The board after the move: the pawn taken in passing is gone, the piece  *)
(* stands on d, and a castling rook has jumped over its king.              *)
BoardAfter(G, s, d) ==
  LET p == G.board[s]
      passed == IF p.type = "pawn" /\ d = G.en_passant THEN {<<d[1], s[2]>>} ELSE {}
      moved == [q \in (DOMAIN G.board \ ({s} \cup passed)) \cup {d} |->
                  IF q = d THEN Lands(p, d) ELSE G.board[q]]
      from == RookFrom(s, d)
      to == RookTo(s, d)
  IN IF ~IsCastling(p, s, d) THEN moved
     ELSE [q \in (DOMAIN moved \ {from, to}) \cup (IF from \in DOMAIN moved THEN {to} ELSE {})
             |-> IF q = to THEN moved[from] ELSE moved[q]]

(* A king move loses both rights, the first move of a corner rook its own. *)
RightsAfter(G, s, d) ==
  LET p == G.board[s]
      home == IF p.team = "white" THEN 0 ELSE Ranks - 1
  IN G.rights \ CASE p.type = "king" -> {p.team} \X Flank
                  [] p.type = "rook" /\ ~p.has_moved /\ s = <<0, home>> ->
                       {<<p.team, "queenside">>}
                  [] p.type = "rook" /\ ~p.has_moved /\ s = <<Files - 1, home>> ->
                       {<<p.team, "kingside">>}
                  [] OTHER -> {}

(* Mutant: the target of an earlier double step is kept. *)
EnPassantAfterKept(G, s, d) ==
  IF G.board[s].type = "pawn" /\ AbsDiff(d[2], s[2]) = 2
  THEN <<d[1], (s[2] + d[2]) \div 2>> ELSE G.en_passant

(* The square a pawn has just passed in a double step, or NoSquare. *)
EnPassantAfter(G, s, d) ==
  IF G.board[s].type = "pawn" /\ AbsDiff(d[2], s[2]) = 2
  THEN <<d[1], (s[2] + d[2]) \div 2>> ELSE NoSquare

(* Mutant: a capture does not restart the count. *)
HalfmoveAfterPawnsOnly(G, s, d) ==
  IF G.board[s].type = "pawn" THEN 0 ELSE G.halfmove_clock + 1

HalfmoveAfter(G, s, d) ==
  IF G.board[s].type = "pawn" \/ ~Dead(G, d) THEN 0 ELSE G.halfmove_clock + 1

(* apply_move: every field from the position before the move. *)
apply_move(G, s, d) ==
  IF Dead(G, s) THEN G
  ELSE [board          |-> BoardAfter(G, s, d),
        side_to_move   |-> Other(G.side_to_move),
        halfmove_clock |-> HalfmoveAfter(G, s, d),
        rights         |-> RightsAfter(G, s, d),
        en_passant     |-> EnPassantAfter(G, s, d)]

-----------------------------------------------------------------------------
(* The pawn's case of the switch of is_move_legal. *)
PawnMove(G, s, d) ==
  LET p == G.board[s]
      dir == Dir(p.team)
      rx == d[1] - s[1]
      ry == d[2] - s[2]
  IN \/ rx = 0 /\ ry = dir /\ Dead(G, d)
     \/ /\ rx = 0 /\ ry = 2 * dir /\ ~p.has_moved
        /\ Dead(G, d) /\ Dead(G, <<s[1], s[2] + dir>>)
     \/ rx \in {-1, 1} /\ ry = dir /\ (~Dead(G, d) \/ d = G.en_passant)

(* The right is held, the square between is free, the path unattacked.     *)
CastlingAllowed(G, s, d) ==
  LET p == G.board[s]
      mid == <<(s[1] + d[1]) \div 2, s[2]>>
  IN /\ <<p.team, FlankOf(s, d)>> \in G.rights
     /\ Dead(G, mid)
     /\ \A q \in {s, mid, d} : ~is_square_attacked(G, q, Other(p.team))

(* The offsets of piece.c hold no step of two files for the king, so the   *)
(* castling branch is never taken.                                         *)
StepperMove(G, s, d) ==
  /\ <<d[1] - s[1], d[2] - s[2]>> \in Offsets[G.board[s].type]
  /\ IsCastling(G.board[s], s, d) /\ s[2] = d[2] => CastlingAllowed(G, s, d)

(* The number of steps of offset o from s to d as the code divides it out, *)
(* or 0 where it finds them not aligned.                                   *)
Distance(s, d, o) ==
  LET rx == d[1] - s[1]
      ry == d[2] - s[2]
      ax == o[1] * rx   \* rx / o.x, as o.x is 1 or -1
      ay == o[2] * ry
  IN CASE o[1] = 0 -> IF rx = 0 /\ ay > 0 THEN ay ELSE 0
       [] o[2] = 0 -> IF ry = 0 /\ ax > 0 THEN ax ELSE 0
       [] OTHER    -> IF ax = ay /\ ax > 0 THEN ax ELSE 0

SliderMove(G, s, d) ==
  \E o \in Offsets[G.board[s].type] :
    /\ Distance(s, d, o) > 0
    /\ \A k \in 1..(Distance(s, d, o) - 1) : Dead(G, Along(s, o, k))

(* A move of the right side's piece, before the test for check. *)
PseudoLegal(G, s, d) ==
  /\ ~Dead(G, s) /\ G.board[s].team = G.side_to_move
  /\ ~Dead(G, d) => G.board[d].team # G.side_to_move
  /\ LET type == G.board[s].type
     IN \/ type = "pawn" /\ PawnMove(G, s, d)
        \/ type \in Steppers /\ StepperMove(G, s, d)
        \/ type \in Sliders /\ SliderMove(G, s, d)

(* Mutant: only a king in check has to see to its safety. *)
is_move_legal_PinsIgnored(G, s, d) ==
  /\ PseudoLegal(G, s, d)
  /\ is_in_check(G, G.side_to_move) =>
       ~is_in_check(apply_move(G, s, d), G.side_to_move)

is_move_legal(G, s, d) ==
  /\ PseudoLegal(G, s, d)
  /\ ~is_in_check(apply_move(G, s, d), G.side_to_move)

LegalMoves(G) ==
  {m \in PiecesOf(G, G.side_to_move) \X Squares : is_move_legal(G, m[1], m[2])}

HasMove(G) ==
  \E s \in PiecesOf(G, G.side_to_move), d \in Squares : is_move_legal(G, s, d)

is_checkmate(G) == is_in_check(G, G.side_to_move) /\ ~HasMove(G)
is_stalemate(G) == ~is_in_check(G, G.side_to_move) /\ ~HasMove(G)

(* Mutant: the game ends one half move late. *)
is_fifty_move_rule_Late(G) == G.halfmove_clock > FiftyLimit

is_fifty_move_rule(G) == G.halfmove_clock >= FiftyLimit
=============================================================================
