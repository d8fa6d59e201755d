------------------------------ MODULE Framing ------------------------------
(* Messages over TCP: common/network.c with the loops that receive them      *)
(* (event_loop and handle_client_message in server/server_network.c, the     *)
(* receive loop of client/client_network.c).                                 *)
(*                                                                           *)
(* A frame is HeaderLen bytes of length and the packed message. send_all puts *)
(* it on the connection in as many pieces as send() takes, and recv_all      *)
(* collects a part of it in as many pieces as recv() gives. No lock guards a  *)
(* connection: Senders[c] are the threads that send on c (the event loop and  *)
(* the timer thread of the server; the UI and the network thread of a         *)
(* client). One thread receives, from all its connections in turn, and        *)
(* blocks in recv_all. A byte is known by its message and its place in it.    *)
(* EINTR repeats the call and changes nothing.                               *)
EXTENDS Naturals, Sequences, FiniteSets, SequencesExt

CONSTANTS
  Conns,      \* connections of the receiving thread
  Threads,    \* threads that send
  Senders,    \* the threads that send on each connection
  HeaderLen,  \* bytes of the length, 4 in the code
  BodyLen,    \* [1..MaxGiven -> Nat], length of the n-th packed message
  Limit,      \* longest message accepted: 1 MB in a client; a server has none
  Capacity,   \* bytes a connection holds under way
  MaxGiven    \* bound: messages per connection

ASSUME FramingAssumption ==
  /\ IsFiniteSet(Conns) /\ IsFiniteSet(Threads)
  /\ Senders \in [Conns -> SUBSET Threads]
  /\ HeaderLen \in Nat \ {0} /\ Capacity \in Nat \ {0} /\ Limit \in Nat /\ MaxGiven \in Nat
  \* an empty message would be taken for a closed connection (network.c:125)
  /\ BodyLen \in [1..MaxGiven -> Nat \ {0}]

VARIABLES
  given,     \* [Conns -> Seq(Messages)], send calls in the order they began
  writer,    \* [Conns -> [Threads -> calls]], send_all calls under way, or Idle
  stream,    \* [Conns -> Seq(bytes)], bytes under way
  link,      \* the sending end of each: "up", closed ("fin") or broken ("cut")
  batch,     \* what epoll_wait returned and event_loop has not come to
  reader,    \* the message the receiving thread is in the middle of
  received,  \* [Conns -> Seq(Messages \cup {Garbage})], messages dispatched
  open,      \* [Conns -> BOOLEAN], not closed by the receiver
  mixed      \* history: two send_all calls overlapped on the connection

vars == <<given, writer, stream, link, batch, reader, received, open, mixed>>

Messages == [by : Threads, no : 1..MaxGiven]
Size(m) == HeaderLen + BodyLen[m.no]
Garbage == [no |-> 0]

Idle == [state |-> "idle"]
Lengths == 0 .. Limit + 1  \* what four stray bytes may be read as

Init ==
  /\ given = [c \in Conns |-> << >>]
  /\ writer = [c \in Conns |-> [t \in Threads |-> Idle]]
  /\ stream = [c \in Conns |-> << >>]
  /\ link = [c \in Conns |-> "up"]
  /\ batch = {}
  /\ reader = Idle
  /\ received = [c \in Conns |-> << >>]
  /\ open = [c \in Conns |-> TRUE]
  /\ mixed = [c \in Conns |-> FALSE]

-----------------------------------------------------------------------------
(* Sending.                                                                  *)

Busy(c, t) == writer[c][t] # Idle
SetWriter(c, t, w) == writer' = [writer EXCEPT ![c][t] = w]

(* send_client_message, send_server_message: a frame is packed in one buffer  *)
(* and given to send_all.                                                    *)
SendMessage(c, t) ==
  /\ ~Busy(c, t)
  /\ t \in Senders[c]
  /\ link[c] = "up"
  /\ Len(given[c]) < MaxGiven
  /\ LET m == [by |-> t, no |-> Len(given[c]) + 1]
     IN /\ given' = [given EXCEPT ![c] = Append(@, m)]
        /\ SetWriter(c, t, [state |-> "send_all", msg |-> m, total |-> 0])
  /\ mixed' = [mixed EXCEPT ![c] = @ \/ \E u \in Threads \ {t} : Busy(c, u)]
  /\ UNCHANGED <<stream, link, batch, reader, received, open>>

(* Bytes from+1 .. upto of a frame. *)
Piece(m, from, upto) == [i \in 1 .. upto - from |-> [msg |-> m, at |-> from + i]]

(* Mutant: a short send() is taken for a whole one. *)
SentOnce(c, t, w, k) ==
  /\ stream' = [stream EXCEPT ![c] = IF open[c] THEN @ \o Piece(w.msg, w.total, w.total + k) ELSE @]
  /\ SetWriter(c, t, Idle)

(* One send() of send_all takes some of the bytes left; the last one ends the *)
(* loop. What is sent to a closed connection is lost.                        *)
Sent(c, t, w, k) ==
  /\ stream' = [stream EXCEPT ![c] = IF open[c] THEN @ \o Piece(w.msg, w.total, w.total + k) ELSE @]
  /\ SetWriter(c, t, IF w.total + k = Size(w.msg) THEN Idle ELSE [w EXCEPT !.total = @ + k])

SendAll(c, t) ==
  /\ Busy(c, t)
  /\ link[c] = "up"
  /\ LET w == writer[c][t]
     IN \E k \in 1 .. Size(w.msg) - w.total :
          /\ Len(stream[c]) + k <= Capacity
          /\ Sent(c, t, w, k)
  /\ UNCHANGED <<given, link, batch, reader, received, open, mixed>>

(* send() fails: the receiver has closed the connection, or it is cut. The    *)
(* bytes sent before stay where they are.                                    *)
SendFails(c, t) ==
  /\ Busy(c, t)
  /\ ~open[c] \/ link[c] = "cut"
  /\ SetWriter(c, t, Idle)
  /\ UNCHANGED <<given, stream, link, batch, reader, received, open, mixed>>

(* The sending process ends, in the middle of a frame or not: what it sent    *)
(* can still be read.                                                        *)
SenderEnds(c) ==
  /\ link[c] = "up"
  /\ link' = [link EXCEPT ![c] = "fin"]
  /\ writer' = [writer EXCEPT ![c] = [t \in Threads |-> Idle]]
  /\ UNCHANGED <<given, stream, batch, reader, received, open, mixed>>

(* The connection breaks: what was under way is gone, both ends get errors.   *)
ConnectionCut(c) ==
  /\ link[c] = "up"
  /\ link' = [link EXCEPT ![c] = "cut"]
  /\ stream' = [stream EXCEPT ![c] = << >>]
  /\ UNCHANGED <<given, writer, batch, reader, received, open, mixed>>

-----------------------------------------------------------------------------
(* Receiving.                                                                *)

Readable(c) == open[c] /\ (stream[c] # << >> \/ link[c] # "up")

(* epoll_wait is level-triggered and returns every connection that is         *)
(* readable (there are fewer than MAX_EVENTS).                               *)
EpollWait ==
  /\ reader = Idle
  /\ batch = {}
  /\ batch' = {c \in Conns : Readable(c)}
  /\ batch' # {}
  /\ UNCHANGED <<given, writer, stream, link, reader, received, open, mixed>>

(* handle_client_message; the client's loop calls receive_server_message.     *)
HandleEvent(c) ==
  /\ reader = Idle
  /\ c \in batch
  /\ batch' = batch \ {c}
  /\ reader' = [state |-> "header", conn |-> c, got |-> << >>, len |-> HeaderLen]
  /\ UNCHANGED <<given, writer, stream, link, received, open, mixed>>

Least(a, b) == IF a < b THEN a ELSE b

(* One recv() of recv_all, which asks for what is missing and blocks while    *)
(* there is nothing.                                                         *)
Received(r, s) == Least(r.len - Len(r.got), Len(s))

RecvAll ==
  /\ reader.state \in {"header", "body"}
  /\ Len(reader.got) < reader.len
  /\ LET c == reader.conn
         k == Received(reader, stream[c])
     IN /\ k > 0
        /\ reader' = [reader EXCEPT !.got = @ \o SubSeq(stream[c], 1, k)]
        /\ stream' = [stream EXCEPT ![c] = SubSeq(@, k + 1, Len(@))]
  /\ UNCHANGED <<given, writer, link, batch, received, open, mixed>>

(* A message is not had: handle_player_disconnect (outside this module) and   *)
(* close(fd); the network thread of a client closes its socket too.           *)
Disconnect(c) ==
  /\ open' = [open EXCEPT ![c] = FALSE]
  /\ stream' = [stream EXCEPT ![c] = << >>]
  /\ reader' = Idle
  /\ UNCHANGED <<given, writer, link, batch, received, mixed>>

(* Mutant: a recv() of 0 bytes is tried again, as one that EINTR broke off. *)
RecvEndsOnError ==
  /\ reader.state \in {"header", "body"}
  /\ Len(reader.got) < reader.len
  /\ stream[reader.conn] = << >>
  /\ link[reader.conn] = "cut"
  /\ Disconnect(reader.conn)

(* recv_all meets the end of the stream (0) or an error (-1), wherever in the *)
(* frame it is.                                                              *)
RecvEnds ==
  /\ reader.state \in {"header", "body"}
  /\ Len(reader.got) < reader.len
  /\ stream[reader.conn] = << >>
  /\ link[reader.conn] # "up"
  /\ Disconnect(reader.conn)

IsHeader(got) == \E m \in Messages : got = Piece(m, 0, HeaderLen)
IsBody(got) == \E m \in Messages : got = Piece(m, HeaderLen, Size(m))

(* ntohl of the length: bytes that are no header are some number or other.    *)
LengthRead(got) == IF IsHeader(got) THEN {BodyLen[Head(got).msg.no]} ELSE Lengths

(* The length is known: above the limit the message is given up, and so is an *)
(* empty one, for which recv_all returns 0.                                  *)
HeaderDone ==
  /\ reader.state = "header"
  /\ Len(reader.got) = HeaderLen
  /\ \E n \in LengthRead(reader.got) :
       IF n > Limit \/ n = 0
       THEN Disconnect(reader.conn)
       ELSE /\ reader' = [reader EXCEPT !.state = "body", !.got = << >>, !.len = n]
            /\ UNCHANGED <<given, writer, stream, link, batch, received, open, mixed>>

(* The body is complete: unpack, dispatch. Stray bytes unpack to nothing, and *)
(* the connection is closed, or to some other message.                       *)
BodyDone ==
  /\ reader.state = "body"
  /\ Len(reader.got) = reader.len
  /\ LET c == reader.conn
     IN \/ /\ received' = [received EXCEPT ![c] =
                             Append(@, IF IsBody(reader.got) THEN Head(reader.got).msg ELSE Garbage)]
           /\ reader' = Idle
           /\ UNCHANGED <<given, writer, stream, link, batch, open, mixed>>
        \/ /\ ~IsBody(reader.got)
           /\ Disconnect(c)

-----------------------------------------------------------------------------
Receive == EpollWait \/ (\E c \in Conns : HandleEvent(c)) \/ RecvAll \/ RecvEnds \/ HeaderDone \/ BodyDone

Next ==
  \/ \E c \in Conns :
       \/ \E t \in Threads : SendMessage(c, t) \/ SendAll(c, t) \/ SendFails(c, t)
       \/ SenderEnds(c)
       \/ ConnectionCut(c)
  \/ Receive

Spec == Init /\ [][Next]_vars

(* The receiving thread goes on whenever it can; a sender owes nothing, and   *)
(* may stop in the middle of a frame.                                        *)
FairSpec == Spec /\ WF_vars(Receive)

-----------------------------------------------------------------------------
(* Properties.                                                               *)

(* Messages are garbled, doubled, invented or taken for the end of the        *)
(* connection only where two threads were inside send_all on the same         *)
(* connection at once: neither short reads and writes, nor a peer that stops  *)
(* or a connection that breaks within a frame, do it.                        *)
GarbledOnlyByTwoSenders ==
  \A c \in Conns : ~mixed[c] =>
    /\ IsPrefix(received[c], given[c])
    /\ ~open[c] => link[c] # "up"

(* A connection with one sender is a channel of whole messages, whatever is   *)
(* done to the others that the same thread receives from.                    *)
Alone == {c \in Conns : Cardinality(Senders[c]) = 1}
OnAlone(f) == [c \in Alone |-> f[c]]
Ch == INSTANCE Channel WITH
        Conns <- Alone, given <- OnAlone(given), received <- OnAlone(received), open <- OnAlone(open)
ImplementsChannel == Ch!Spec

(* The one event loop serves everybody, but only as long as everybody lets    *)
(* it: if each peer finishes each frame it begins, or goes away, and no frame *)
(* is garbled, then every frame sent is read and no receive lasts for ever.   *)
(* (A peer that stops within a frame stops the server: recv_all has no        *)
(* timeout.)                                                                 *)
HalfSent(c) == link[c] = "up" /\ open[c] /\ \E t \in Threads : Busy(c, t) /\ writer[c][t].total > 0
FrameIsRead ==
  (\A c \in Conns : []<>(~HalfSent(c)) /\ []~mixed[c])
    => /\ []<>(reader = Idle)
       /\ \A c \in Conns : \A n \in 1..MaxGiven :
            (Len(given[c]) >= n /\ \A t \in Threads : ~Busy(c, t))
              ~> (Len(received[c]) >= n \/ link[c] # "up")
=============================================================================
