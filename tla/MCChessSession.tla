--------------------------- MODULE MCChessSession ---------------------------
(* Model checking of ChessSession with few games, moves and connections: the *)
(* client plays white in its first game, of one half move, and black in the  *)
(* second, of two.                                                           *)
EXTENDS ChessSession

MCLots == [g \in GameIds |-> IF g = 1 THEN "white" ELSE "black"]
MCMaxMoves == [g \in GameIds |-> g]
=============================================================================
