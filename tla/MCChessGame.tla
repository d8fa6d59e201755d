---------------------------- MODULE MCChessGame ----------------------------
(* Model checking of ChessGame: boards to begin on. *)
EXTENDS ChessGame, TLC

Unmoved(type, team) == [type |-> type, team |-> team, has_moved |-> FALSE]

(* The board of "r3k2r/8/8/8/8/8/8/R3K2R" in server/rule_test.c. *)
CastlingBoard ==
  [s \in {0, 4, 7} \X {0, 7} |->
     Unmoved(IF s[1] = 4 THEN "king" ELSE "rook", IF s[2] = 0 THEN "white" ELSE "black")]

(* King, pawn and one more piece a side, in their home ranks. *)
SmallBoard(white, black) ==
     (<<0, 0>> :> Unmoved("king", "white")) @@ (<<2, 0>> :> Unmoved(white, "white"))
  @@ (<<1, 1>> :> Unmoved("pawn", "white"))
  @@ (<<2, Ranks - 2>> :> Unmoved("pawn", "black"))
  @@ (<<2, Ranks - 1>> :> Unmoved("king", "black")) @@ (<<0, Ranks - 1>> :> Unmoved(black, "black"))

CastlingBoards == {CastlingBoard}
SmallBoards == {SmallBoard("rook", "bishop"), SmallBoard("knight", "queen")}
NoRights == {}
=============================================================================
