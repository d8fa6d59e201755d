------------------------------ MODULE Channel ------------------------------
(* What length-prefixed messages over TCP promise: on each connection the    *)
(* messages handed over arrive whole, once and in order, until the           *)
(* connection is closed; what was still under way then is lost.              *)
EXTENDS Naturals, Sequences

CONSTANTS Conns, Messages

VARIABLES
  given,     \* the messages handed over on a connection
  received,  \* the messages that came out at the other end
  open       \* whether the receiver still holds the connection

channelVars == <<given, received, open>>

Init ==
  /\ given = [c \in Conns |-> << >>]
  /\ received = [c \in Conns |-> << >>]
  /\ open = [c \in Conns |-> TRUE]

Give(c, m) ==
  /\ given' = [given EXCEPT ![c] = Append(@, m)]
  /\ UNCHANGED <<received, open>>

Receive(c) ==
  /\ open[c]
  /\ Len(received[c]) < Len(given[c])
  /\ received' = [received EXCEPT ![c] = Append(@, given[c][Len(@) + 1])]
  /\ UNCHANGED <<given, open>>

Close(c) ==
  /\ open' = [open EXCEPT ![c] = FALSE]
  /\ UNCHANGED <<given, received>>

Next == \E c \in Conns : (\E m \in Messages : Give(c, m)) \/ Receive(c) \/ Close(c)

Spec == Init /\ [][Next]_channelVars
=============================================================================
