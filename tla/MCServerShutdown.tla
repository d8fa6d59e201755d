-------------------------- MODULE MCServerShutdown --------------------------
(* Model checking of ServerShutdown, which has no parameters. *)
EXTENDS ServerShutdown
=============================================================================
