------------------------------- MODULE Lobby -------------------------------
(***************************************************************************)
(* What matchmaking promises, without tables, slots, counters or threads:  *)
(* at most one player waits; a second player to ask for a game is paired   *)
(* with the waiting one, in a new game with an id never used before, while *)
(* fewer than Capacity games are on; a game that is on ends once.          *)
(* MatchManager (server/match_manager.c) is shown to implement it.         *)
(***************************************************************************)
EXTENDS Naturals, FiniteSets

CONSTANTS Players,    \* whoever may ask for a game
          Nobody,     \* the value of waiter when nobody waits
          Capacity    \* how many games may be on at a time

VARIABLES waiter,     \* the player that waits for an opponent
          matches,    \* the games that are on
          issued      \* how many game ids have been handed out

lobbyVars == <<waiter, matches, issued>>

Init ==
  /\ waiter = Nobody
  /\ matches = {}
  /\ issued = 0

(* A player asks for a game and nobody is there to play. *)
Wait(p) ==
  /\ waiter = Nobody
  /\ waiter' = p
  /\ UNCHANGED <<matches, issued>>

(* A player asks for a game and takes the waiting one as opponent. *)
Pair(p) ==
  /\ waiter # Nobody
  /\ Cardinality(matches) < Capacity
  /\ \E white \in {p, waiter}, black \in {p, waiter} :
       /\ {white, black} = {p, waiter}
       /\ matches' = matches \cup
            {[game_id |-> issued + 1, white |-> white, black |-> black]}
  /\ waiter' = Nobody
  /\ issued' = issued + 1

(* The waiting player cancels or leaves. *)
Leave ==
  /\ waiter # Nobody
  /\ waiter' = Nobody
  /\ UNCHANGED <<matches, issued>>

(* A game is over: mate, draw, resignation, timeout or disconnection. *)
Finish(m) ==
  /\ matches' = matches \ {m}
  /\ UNCHANGED <<waiter, issued>>

Next ==
  \/ \E p \in Players : Wait(p) \/ Pair(p)
  \/ Leave
  \/ \E m \in matches : Finish(m)

Spec == Init /\ [][Next]_lobbyVars
=============================================================================
