---------------------------- MODULE MCGameClock ----------------------------
(* Model checking of GameClock with a few ticks on the clock. *)
EXTENDS GameClock
=============================================================================
