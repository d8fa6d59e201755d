---------------------------- MODULE MCChessServer ----------------------------
(* Model checking of ChessServer with few connections and slots. *)
EXTENDS ChessServer, TLC

Symmetry == Permutations(Fds)
=============================================================================
