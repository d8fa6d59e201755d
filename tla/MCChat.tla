------------------------------- MODULE MCChat -------------------------------
(* Model checking of Chat: few lines, short lists. *)
EXTENDS Chat
=============================================================================
