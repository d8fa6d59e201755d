---------------------------- MODULE MCClientExit ----------------------------
(* Model checking of ClientExit. *)
EXTENDS ClientExit
=============================================================================
