------------------------------ MODULE MCReplay ------------------------------
(* Model checking of Replay: one saved file beside one of another program,   *)
(* with a result at its end and a line of comment before it.                 *)
EXTENDS Replay, TLC

CONSTANTS m1, m2

MCForeign == "foreign" :> <<Tag, Tag, Empty, Word, Number, Move(m1), Empty, Move(m2), Word>>
=============================================================================
