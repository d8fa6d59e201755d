----------------------------- MODULE MCFraming -----------------------------
(* Model checking of Framing: one thread receives from a connection with one *)
(* sender and from one that two threads send on.                             *)
EXTENDS Framing

CONSTANTS c1, c2, main, timer

MCSenders == [c \in Conns |-> IF c = c1 THEN {main} ELSE Threads]
MCBodyLen == <<1, 2>>
=============================================================================
