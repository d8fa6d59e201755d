-------------------------------- MODULE Fen --------------------------------
(***************************************************************************)
(* fen_parse (common/utils.c): a position from its FEN.  The text is the   *)
(* sequence of its fields.  The placement is a sequence of what the loop   *)
(* tells apart, a slash, a digit, a letter of a piece or any other one; a  *)
(* square of the en passant field has a letter, counted from 0, and a      *)
(* digit.                                                                  *)
(***************************************************************************)
EXTENDS ChessRules, Sequences, SequencesExt

Slash          == [kind |-> "slash"]
Digit(n)       == [kind |-> "digit", n |-> n]
Letter(t, w)   == [kind |-> "piece", type |-> t, team |-> w]
OtherLetter    == [kind |-> "other"]
Dash           == [kind |-> "dash"]
SquareName(l, d) == [kind |-> "square", letter |-> l, digit |-> d]

(* clear_board: no piece on any square. *)
ClearBoard == [s \in {} |-> s]

-----------------------------------------------------------------------------
(* Mutant: a digit moves on by one file. *)
PlaceOneByOne(c, token) ==
  CASE ~c.ok \/ c.y < 0        -> c
    [] token.kind = "slash"    -> [c EXCEPT !.x = 0, !.y = @ - 1]
    [] token.kind = "digit"    -> [c EXCEPT !.x = @ + 1]
    [] token.kind = "piece"    ->
         [c EXCEPT !.x = @ + 1,
                   !.board = [s \in DOMAIN @ \cup {<<c.x, c.y>>} |->
                                IF s = <<c.x, c.y>>
                                THEN [type |-> token.type, team |-> token.team, has_moved |-> FALSE]
                                ELSE @[s]]]
    [] OTHER                   -> [c EXCEPT !.ok = FALSE]

(* A character of the placement: c is the square come to, the board so     *)
(* far, and whether all was well.  Below the last rank nothing is read.    *)
Place(c, token) ==
  CASE ~c.ok \/ c.y < 0        -> c
    [] token.kind = "slash"    -> [c EXCEPT !.x = 0, !.y = @ - 1]
    [] token.kind = "digit"    -> [c EXCEPT !.x = @ + token.n]
    [] token.kind = "piece"    ->
         [c EXCEPT !.x = @ + 1,
                   !.board = [s \in DOMAIN @ \cup {<<c.x, c.y>>} |->
                                IF s = <<c.x, c.y>>
                                THEN [type |-> token.type, team |-> token.team, has_moved |-> FALSE]
                                ELSE @[s]]]
    [] OTHER                   -> [c EXCEPT !.ok = FALSE]

(* The en passant field: "-", or the name of a square on the board. *)
EnPassantField(token) ==
  CASE token.kind = "dash"   -> {NoSquare}
    [] token.kind = "square" -> {<<token.letter, token.digit - 1>>} \cap Squares
    [] OTHER                 -> {}

(* One field after another: r is the position so far and the number of     *)
(* fields read, as long as all is well.  The sixth, the number of the      *)
(* move, is ignored.                                                       *)
Field(r, field) ==
  LET next == [r EXCEPT !.fld = @ + 1]
      placed == FoldLeft(Place, [x |-> 0, y |-> Ranks - 1, board |-> ClearBoard, ok |-> TRUE], field)
      square == EnPassantField(field)
  IN CASE ~r.ok \/ r.fld > 4 -> r
       [] r.ok /\ r.fld = 0  -> [next EXCEPT !.G.board = placed.board, !.ok = placed.ok]
       [] r.ok /\ r.fld = 1  -> [next EXCEPT !.G.side_to_move = IF field = "b" THEN "black" ELSE "white"]
       [] r.ok /\ r.fld = 2  -> [next EXCEPT !.G.rights = Rights \cap field]
       [] r.ok /\ r.fld = 3  -> IF square = {} THEN [r EXCEPT !.ok = FALSE]
                                ELSE [next EXCEPT !.G.en_passant = CHOOSE s \in square : TRUE]
       [] r.ok /\ r.fld = 4  -> [next EXCEPT !.G.halfmove_clock = field]

(* fen_parse(G, fen): what is in G afterwards, and whether fen was taken.  *)
FenParse(G, fen) ==
  LET r == FoldLeft(Field, [G |-> [G EXCEPT !.board = ClearBoard], fld |-> 0, ok |-> TRUE], fen)
  IN [G |-> r.G, ok |-> r.ok /\ r.fld >= 5]

-----------------------------------------------------------------------------
(* Reference: the FEN of a position, as the standard has it. *)

(* The empty squares of rank y just before file x, as a digit if any. *)
Gap(G, x, y) ==
  LET before == {f \in 0 .. x - 1 : ~Dead(G, <<f, y>>)}
      n == IF before = {} THEN x ELSE x - 1 - (CHOOSE f \in before : \A g \in before : g <= f)
  IN IF n = 0 THEN <<>> ELSE <<Digit(n)>>

FenRank(G, y) ==
  FlattenSeq([i \in 1 .. Files |->
      IF Dead(G, <<i - 1, y>>) THEN <<>>
      ELSE Append(Gap(G, i - 1, y), Letter(G.board[<<i - 1, y>>].type, G.board[<<i - 1, y>>].team))])
    \o Gap(G, Files, y)

FenOf(G, fullmove) ==
  << FlattenSeq([i \in 1 .. Ranks |-> FenRank(G, Ranks - i) \o (IF i < Ranks THEN <<Slash>> ELSE <<>>)]),
     IF G.side_to_move = "white" THEN "w" ELSE "b",
     G.rights,
     IF G.en_passant = NoSquare THEN Dash ELSE SquareName(G.en_passant[1], G.en_passant[2] + 1),
     G.halfmove_clock,
     fullmove >>

(* A FEN has no room for has_moved. *)
Unmoving(G) == [G EXCEPT !.board = [s \in DOMAIN @ |-> [@[s] EXCEPT !.has_moved = FALSE]]]
=============================================================================
