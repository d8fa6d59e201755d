---------------------------- MODULE FramingProofs ----------------------------
(***************************************************************************)
(* Proofs about Framing for any set of connections and of sending threads, *)
(* any length of the header and of each message, and any capacity of a     *)
(* connection: where send_all calls do not overlap, the bytes on a         *)
(* connection are the frames in the order they were given, whatever the    *)
(* short reads and writes, the closing and the breaking of connections.    *)
(***************************************************************************)
EXTENDS Framing, SequenceTheorems, FiniteSetTheorems, TLAPS

(* The types of the model's state. *)
Calls == [state : {"send_all"}, msg : Messages, total : Nat]
Bytes == [msg : Messages, at : Nat]
Reads == [state : {"header", "body"}, conn : Conns, got : Seq(Bytes), len : Nat]

FramingTypeOK ==
  /\ given \in [Conns -> Seq(Messages)]
  /\ writer \in [Conns -> [Threads -> {Idle} \cup Calls]]
  /\ stream \in [Conns -> Seq(Bytes)]
  /\ link \in [Conns -> {"up", "fin", "cut"}]
  /\ batch \in SUBSET Conns
  /\ reader \in {Idle} \cup Reads
  /\ received \in [Conns -> Seq(Messages \cup {Garbage})]
  /\ open \in [Conns -> BOOLEAN]
  /\ mixed \in [Conns -> BOOLEAN]

(* A connection that waits in the batch, or that is read, is still open and *)
(* is not both; only its senders send on it; the n-th message has number n; *)
(* nothing is under way on a connection that is closed or broken.          *)
ConnInv ==
  /\ reader # Idle => open[reader.conn] /\ reader.conn \notin batch
  /\ \A c \in batch : open[c]
  /\ \A c \in Conns :
       /\ \A t \in Threads : Busy(c, t) => t \in Senders[c]
       /\ \A n \in 1..Len(given[c]) : given[c][n].no = n
       /\ ~open[c] \/ link[c] = "cut" => stream[c] = << >>

(* A place in the sequence of frames is <<n, a>>: a bytes of the n-th      *)
(* message are before it, and some of its bytes are not.                   *)
Reading(c) == reader # Idle /\ reader.conn = c
BodyRead == reader.state = "body" /\ Len(reader.got) = reader.len
ReadPlace(c) ==
  IF ~Reading(c) THEN <<Len(received[c]) + 1, 0>>
  ELSE IF reader.state = "header" THEN <<Len(received[c]) + 1, Len(reader.got)>>
  ELSE IF BodyRead THEN <<Len(received[c]) + 2, 0>>
  ELSE <<Len(received[c]) + 1, HeaderLen + Len(reader.got)>>

PlaceAfter(b) == IF b.at = Size(b.msg) THEN <<b.msg.no + 1, 0>> ELSE <<b.msg.no, b.at>>

WrittenTo(c, p) ==
  /\ \A t \in Threads : Busy(c, t) => p = <<Len(given[c]), writer[c][t].total>>
  /\ (\A t \in Threads : ~Busy(c, t)) => p = <<Len(given[c]) + 1, 0>>

(* At most one call of send_all is under way, and it sends the last message. *)
WriterInv(c) ==
  \A t \in Threads : Busy(c, t) =>
    /\ \A u \in Threads : Busy(c, u) => u = t
    /\ Len(given[c]) > 0
    /\ writer[c][t].msg = given[c][Len(given[c])]
    /\ writer[c][t].total < Size(writer[c][t].msg)

(* Bytes under way are bytes of the frames given, each after its           *)
(* predecessor. *)
Contiguous(c, s) ==
  \A i \in 1..Len(s) :
    /\ s[i].msg.no \in 1..Len(given[c])
    /\ s[i].msg = given[c][s[i].msg.no]
    /\ s[i].at \in 1..Size(s[i].msg)
    /\ \A j \in i..Len(s) : s[i].at + (j - i) <= Size(s[i].msg) =>
         s[j] = [msg |-> s[i].msg, at |-> s[i].at + (j - i)]
    /\ i < Len(s) /\ s[i].at = Size(s[i].msg) =>
         s[i + 1].msg.no = s[i].msg.no + 1 /\ s[i + 1].at = 1

(* They begin where the reader is and, as long as the connection is up,    *)
(* end where the writer is.                                                *)
StreamInv(c) ==
  /\ Contiguous(c, stream[c])
  /\ stream[c] # << >> => <<stream[c][1].msg.no, stream[c][1].at - 1>> = ReadPlace(c)
  /\ open[c] /\ link[c] = "up" =>
       WrittenTo(c, IF stream[c] = << >> THEN ReadPlace(c) ELSE PlaceAfter(stream[c][Len(stream[c])]))

(* The reader holds the first bytes of the next message's header or body.  *)
ReaderInv(c) ==
  Reading(c) =>
    LET n == Len(received[c]) + 1
        k == Len(reader.got)
    IN \/ /\ reader.state = "header"
          /\ reader.len = HeaderLen
          /\ k <= HeaderLen
          /\ k > 0 => n <= Len(given[c]) /\ reader.got = Piece(given[c][n], 0, k)
       \/ /\ reader.state = "body"
          /\ n <= Len(given[c])
          /\ reader.len = BodyLen[n]
          /\ k <= reader.len
          /\ reader.got = Piece(given[c][n], HeaderLen, HeaderLen + k)

ReceivedInv(c) ==
  /\ Len(received[c]) <= Len(given[c])
  /\ \A n \in 1..Len(received[c]) : received[c][n] = given[c][n]

UnmixedAt(c) == WriterInv(c) /\ StreamInv(c) /\ ReaderInv(c) /\ ReceivedInv(c)
UnmixedInv == \A c \in Conns : ~mixed[c] => UnmixedAt(c)

FramingInv == FramingTypeOK /\ ConnInv /\ UnmixedInv

-----------------------------------------------------------------------------
(* A message has a header and at least one byte of body. *)
LEMMA SizeFacts ==
  ASSUME NEW m \in Messages
  PROVE  /\ m.no \in 1..MaxGiven /\ BodyLen[m.no] \in Nat \ {0}
         /\ HeaderLen \in Nat \ {0}
         /\ Size(m) = HeaderLen + BodyLen[m.no] /\ Size(m) \in Nat
BY FramingAssumption DEF Messages, Size

(* The bytes of a piece of a frame. *)
LEMMA PieceFacts ==
  ASSUME NEW m \in Messages, NEW from \in Nat, NEW upto \in Nat, from <= upto
  PROVE  /\ Piece(m, from, upto) \in Seq(Bytes)
         /\ Len(Piece(m, from, upto)) = upto - from
         /\ \A i \in 1..(upto - from) : Piece(m, from, upto)[i] = [msg |-> m, at |-> from + i]
<1> DEFINE e(i) == [msg |-> m, at |-> from + i]
           k == upto - from
<1>1. k \in Nat /\ \A i \in 1..k : e(i) \in Bytes
  BY DEF Bytes
<1>2. Piece(m, from, upto) = [i \in 1..k |-> e(i)]
  BY DEF Piece
<1> HIDE DEF e, k
<1>3. [i \in 1..k |-> e(i)] \in Seq(Bytes)
  BY <1>1, IsASeq
<1>4. Len(Piece(m, from, upto)) = k
  BY <1>1, <1>2, <1>3, LenProperties
<1> QED BY <1>2, <1>3, <1>4 DEF e, k

(* What is left of a stream after k bytes. *)
LEMMA RestFacts ==
  ASSUME NEW s \in Seq(Bytes), NEW k \in 1..Len(s)
  PROVE  /\ SubSeq(s, 1, k) \in Seq(Bytes) /\ Len(SubSeq(s, 1, k)) = k
         /\ \A i \in 1..k : SubSeq(s, 1, k)[i] = s[i]
         /\ SubSeq(s, k + 1, Len(s)) \in Seq(Bytes)
         /\ Len(SubSeq(s, k + 1, Len(s))) = Len(s) - k
         /\ \A i \in 1..(Len(s) - k) : SubSeq(s, k + 1, Len(s))[i] = s[k + i]
<1>1. Len(s) \in Nat /\ \A i \in 1..Len(s) : s[i] \in Bytes
  BY LenProperties, ElementOfSeq
<1> QED BY <1>1, SubSeqProperties

(* The state of the reader, taken apart. *)
LEMMA ReaderTypes ==
  ASSUME FramingTypeOK, reader.state \in {"header", "body"}
  PROVE  /\ reader \in Reads /\ reader # Idle
         /\ reader.conn \in Conns /\ reader.got \in Seq(Bytes)
         /\ reader.len \in Nat /\ Len(reader.got) \in Nat
BY LenProperties DEF FramingTypeOK, Idle, Reads

(* What RecvAll gets is at most what is missing and what is there. *)
LEMMA ReceivedFacts ==
  ASSUME FramingTypeOK, RecvAll, NEW c \in Conns, c = reader.conn
  PROVE  LET k == Received(reader, stream[c])
         IN /\ k \in 1..Len(stream[c])
            /\ Len(reader.got) + k <= reader.len
            /\ reader' = [reader EXCEPT !.got = @ \o SubSeq(stream[c], 1, k)]
            /\ stream' = [stream EXCEPT ![c] = SubSeq(@, k + 1, Len(@))]
<1>1. Len(stream[c]) \in Nat
  BY LenProperties DEF FramingTypeOK
<1>2. reader.len \in Nat /\ Len(reader.got) \in Nat
  BY ReaderTypes DEF RecvAll
<1> QED BY <1>1, <1>2 DEF RecvAll, Received, Least

(* The length in a complete header, and the message of a complete body.    *)
LEMMA HeadOfHeader ==
  ASSUME NEW m \in Messages, NEW got, got = Piece(m, 0, HeaderLen)
  PROVE  IsHeader(got) /\ Head(got).msg = m /\ LengthRead(got) = {BodyLen[m.no]}
<1>1. IsHeader(got)
  BY DEF IsHeader
<1>2. /\ got \in Seq(Bytes) /\ Len(got) = HeaderLen
      /\ got[1] = [msg |-> m, at |-> 1]
  <2>1. HeaderLen \in Nat /\ HeaderLen - 0 = HeaderLen /\ 0 <= HeaderLen /\ 1 \in 1..HeaderLen
    BY FramingAssumption
  <2>2. /\ Piece(m, 0, HeaderLen) \in Seq(Bytes)
        /\ Len(Piece(m, 0, HeaderLen)) = HeaderLen - 0
        /\ \A i \in 1..(HeaderLen - 0) :
              Piece(m, 0, HeaderLen)[i] = [msg |-> m, at |-> 0 + i]
    BY <2>1, PieceFacts, Zenon
  <2> QED BY <2>1, <2>2
<1>3. Head(got) = got[1]
  BY <1>2, FramingAssumption
<1> QED BY <1>1, <1>2, <1>3 DEF LengthRead

LEMMA HeadOfBody ==
  ASSUME NEW m \in Messages, NEW got, got = Piece(m, HeaderLen, Size(m))
  PROVE  IsBody(got) /\ Head(got).msg = m
<1>1. IsBody(got)
  BY DEF IsBody
<1>2. /\ got \in Seq(Bytes) /\ Len(got) = BodyLen[m.no]
      /\ got[1] = [msg |-> m, at |-> HeaderLen + 1]
  <2>1. /\ HeaderLen \in Nat /\ Size(m) \in Nat /\ HeaderLen <= Size(m)
        /\ Size(m) - HeaderLen = BodyLen[m.no] /\ 1 \in 1..BodyLen[m.no]
    BY SizeFacts
  <2>2. /\ Piece(m, HeaderLen, Size(m)) \in Seq(Bytes)
        /\ Len(Piece(m, HeaderLen, Size(m))) = Size(m) - HeaderLen
        /\ \A i \in 1..(Size(m) - HeaderLen) :
              Piece(m, HeaderLen, Size(m))[i] = [msg |-> m, at |-> HeaderLen + i]
    BY <2>1, PieceFacts, Zenon
  <2> QED BY <2>1, <2>2
<1>3. Head(got) = got[1]
  BY <1>2, SizeFacts
<1> QED BY <1>1, <1>2, <1>3

LEMMA LengthFacts ==
  ASSUME NEW got, NEW n \in LengthRead(got)
  PROVE  n \in Nat
<1>1. CASE IsHeader(got)
  <2>1. PICK m \in Messages : got = Piece(m, 0, HeaderLen)
    BY <1>1 DEF IsHeader
  <2> QED BY <2>1, HeadOfHeader, SizeFacts
<1>2. CASE ~IsHeader(got)
  BY <1>2, FramingAssumption DEF LengthRead, Lengths
<1> QED BY <1>1, <1>2

(* Every step keeps the types. *)
LEMMA TypeStep == FramingTypeOK /\ [Next]_vars => FramingTypeOK'
<1> SUFFICES ASSUME FramingTypeOK, [Next]_vars PROVE FramingTypeOK'
  OBVIOUS
<1>1. CASE UNCHANGED vars
  BY <1>1 DEF vars, FramingTypeOK
<1>2. ASSUME NEW c \in Conns, NEW t \in Threads, SendMessage(c, t) PROVE FramingTypeOK'
  <2> DEFINE m == [by |-> t, no |-> Len(given[c]) + 1]
             w == [state |-> "send_all", msg |-> m, total |-> 0]
  <2>1. m \in Messages
    <3>1. given[c] \in Seq(Messages)
      BY DEF FramingTypeOK
    <3>2. Len(given[c]) \in Nat /\ Len(given[c]) < MaxGiven
      BY <1>2, <3>1, LenProperties DEF SendMessage
    <3> QED BY <3>2, FramingAssumption DEF Messages
  <2>2. w \in Calls
    BY <2>1 DEF Calls
  <2> HIDE DEF m, w
  <2>3. given' = [given EXCEPT ![c] = Append(@, m)] /\ writer' = [writer EXCEPT ![c][t] = w]
    BY <1>2 DEF SendMessage, SetWriter, m, w
  <2>4. given' \in [Conns -> Seq(Messages)]
    BY <2>1, <2>3, AppendProperties DEF FramingTypeOK
  <2>5. writer' \in [Conns -> [Threads -> {Idle} \cup Calls]]
    BY <2>2, <2>3 DEF FramingTypeOK
  <2>6. mixed' \in [Conns -> BOOLEAN]
    BY <1>2 DEF SendMessage, FramingTypeOK
  <2> QED BY <1>2, <2>4, <2>5, <2>6 DEF SendMessage, FramingTypeOK
<1>3. ASSUME NEW c \in Conns, NEW t \in Threads, SendAll(c, t) PROVE FramingTypeOK'
  <2> DEFINE w == writer[c][t]
  <2>1. w \in Calls /\ w.msg \in Messages /\ w.total \in Nat
    BY <1>3 DEF SendAll, Busy, FramingTypeOK, Calls
  <2>2. PICK k \in 1..(Size(w.msg) - w.total) : Sent(c, t, w, k)
    BY <1>3 DEF SendAll
  <2>3. k \in Nat /\ w.total + k \in Nat /\ w.total <= w.total + k
    BY <2>1, <2>2, SizeFacts
  <2>4. [w EXCEPT !.total = @ + k] \in Calls
    BY <2>1, <2>3 DEF Calls
  <2>5. writer' \in [Conns -> [Threads -> {Idle} \cup Calls]]
    BY <2>2, <2>4 DEF Sent, SetWriter, FramingTypeOK
  <2>6. stream[c] \o Piece(w.msg, w.total, w.total + k) \in Seq(Bytes)
    <3>1. Piece(w.msg, w.total, w.total + k) \in Seq(Bytes)
      BY <2>1, <2>3, PieceFacts, Zenon
    <3> QED BY <3>1, ConcatProperties DEF FramingTypeOK
  <2>7. stream' \in [Conns -> Seq(Bytes)]
    BY <2>2, <2>6 DEF Sent, FramingTypeOK
  <2> QED BY <1>3, <2>5, <2>7 DEF SendAll, FramingTypeOK
<1>4. ASSUME NEW c \in Conns, NEW t \in Threads, SendFails(c, t) PROVE FramingTypeOK'
  BY <1>4 DEF SendFails, SetWriter, FramingTypeOK
<1>5. ASSUME NEW c \in Conns, SenderEnds(c) \/ ConnectionCut(c) PROVE FramingTypeOK'
  <2>1. << >> \in Seq(Bytes)
    BY EmptySeq
  <2>2. CASE SenderEnds(c)
    BY <2>2 DEF SenderEnds, FramingTypeOK
  <2>3. CASE ConnectionCut(c)
    BY <2>1, <2>3 DEF ConnectionCut, FramingTypeOK
  <2> QED BY <1>5, <2>2, <2>3
<1>6. CASE EpollWait
  BY <1>6 DEF EpollWait, FramingTypeOK
<1>7. ASSUME NEW c \in Conns, HandleEvent(c) PROVE FramingTypeOK'
  <2>1. [state |-> "header", conn |-> c, got |-> << >>, len |-> HeaderLen] \in Reads
    BY FramingAssumption, EmptySeq DEF Reads
  <2> QED BY <1>7, <2>1 DEF HandleEvent, FramingTypeOK
<1>8. CASE RecvAll
  <2> DEFINE c == reader.conn
             k == Received(reader, stream[c])
  <2>1. reader \in Reads /\ c \in Conns /\ reader.got \in Seq(Bytes)
    BY <1>8, ReaderTypes DEF RecvAll
  <2>2. /\ k \in 1..Len(stream[c])
        /\ reader' = [reader EXCEPT !.got = @ \o SubSeq(stream[c], 1, k)]
        /\ stream' = [stream EXCEPT ![c] = SubSeq(@, k + 1, Len(@))]
    BY <1>8, <2>1, ReceivedFacts
  <2> HIDE DEF k
  <2>3. stream[c] \in Seq(Bytes)
    BY <2>1 DEF FramingTypeOK
  <2>4. reader.got \o SubSeq(stream[c], 1, k) \in Seq(Bytes)
    BY <2>1, <2>2, <2>3, RestFacts, ConcatProperties
  <2>5. reader' \in Reads
    BY <2>1, <2>2, <2>4 DEF Reads
  <2>6. stream' \in [Conns -> Seq(Bytes)]
    BY <2>1, <2>2, <2>3, RestFacts DEF FramingTypeOK
  <2> QED BY <1>8, <2>5, <2>6 DEF RecvAll, FramingTypeOK
<1>9. ASSUME NEW c, Disconnect(c) PROVE FramingTypeOK'
  BY <1>9, EmptySeq DEF Disconnect, FramingTypeOK
<1>10. CASE RecvEnds
  BY <1>9, <1>10 DEF RecvEnds
<1>11. CASE HeaderDone
  <2>1. PICK n \in LengthRead(reader.got) :
          \/ Disconnect(reader.conn)
          \/ /\ reader' = [reader EXCEPT !.state = "body", !.got = << >>, !.len = n]
             /\ UNCHANGED <<given, writer, stream, link, batch, received, open, mixed>>
    BY <1>11 DEF HeaderDone
  <2>2. reader \in Reads /\ n \in Nat
    BY <1>11, ReaderTypes, LengthFacts DEF HeaderDone
  <2>3. [reader EXCEPT !.state = "body", !.got = << >>, !.len = n] \in Reads
    BY <2>2, EmptySeq DEF Reads
  <2> QED BY <1>9, <2>1, <2>3 DEF FramingTypeOK
<1>12. CASE BodyDone
  <2> DEFINE c == reader.conn
             m == IF IsBody(reader.got) THEN Head(reader.got).msg ELSE Garbage
  <2>1. c \in Conns
    BY <1>12, ReaderTypes DEF BodyDone
  <2>2. m \in Messages \cup {Garbage}
    BY HeadOfBody DEF IsBody
  <2> HIDE DEF m
  <2>3. Append(received[c], m) \in Seq(Messages \cup {Garbage})
    BY <2>1, <2>2, AppendProperties DEF FramingTypeOK
  <2>4. CASE /\ received' = [received EXCEPT ![c] = Append(@, m)]
             /\ reader' = Idle
             /\ UNCHANGED <<given, writer, stream, link, batch, open, mixed>>
    BY <2>1, <2>3, <2>4 DEF FramingTypeOK
  <2> QED BY <1>9, <1>12, <2>4 DEF BodyDone, m
<1> QED
  BY <1>1, <1>2, <1>3, <1>4, <1>5, <1>6, <1>7, <1>8, <1>10, <1>11, <1>12 DEF Next, Receive

-----------------------------------------------------------------------------
(* Who sends, who is read and what may be under way, step by step. *)
LEMMA ConnStep == FramingTypeOK /\ ConnInv /\ [Next]_vars => ConnInv'
<1> SUFFICES ASSUME FramingTypeOK, ConnInv, [Next]_vars PROVE ConnInv'
  OBVIOUS
<1>1. CASE UNCHANGED vars
  BY <1>1 DEF vars, ConnInv, Busy
<1>2. ASSUME NEW c \in Conns, NEW t \in Threads, SendMessage(c, t) PROVE ConnInv'
  <2> DEFINE m == [by |-> t, no |-> Len(given[c]) + 1]
             w == [state |-> "send_all", msg |-> m, total |-> 0]
  <2>1. given' = [given EXCEPT ![c] = Append(@, m)] /\ writer' = [writer EXCEPT ![c][t] = w]
    BY <1>2 DEF SendMessage, SetWriter
  <2>2. t \in Senders[c] /\ UNCHANGED <<stream, link, batch, reader, open>>
    BY <1>2 DEF SendMessage
  <2>3. \A d \in Conns, u \in Threads : Busy(d, u)' => u \in Senders[d]
    BY <2>1, <2>2 DEF ConnInv, Busy, FramingTypeOK
  <2>4. \A d \in Conns : \A n \in 1..Len(given'[d]) : given'[d][n].no = n
    <3> SUFFICES ASSUME NEW n \in 1..Len(given'[c]) PROVE given'[c][n].no = n
      BY <2>1 DEF ConnInv, FramingTypeOK
    <3>1. given'[c] = Append(given[c], m) /\ given[c] \in Seq(Messages)
      BY <2>1 DEF FramingTypeOK
    <3>2. m.no = Len(given[c]) + 1 /\ Len(given[c]) \in Nat
      BY <3>1, LenProperties
    <3> HIDE DEF m
    <3> QED BY <3>1, <3>2 DEF ConnInv
  <2> QED BY <2>2, <2>3, <2>4 DEF ConnInv
<1>3. ASSUME NEW c \in Conns, NEW t \in Threads, SendAll(c, t) PROVE ConnInv'
  <2>1. \A d \in Conns, u \in Threads : Busy(d, u)' => Busy(d, u)
    BY <1>3 DEF SendAll, Sent, SetWriter, Busy, FramingTypeOK
  <2>2. \A d \in Conns : ~open[d] \/ link[d] = "cut" => stream'[d] = stream[d]
    BY <1>3 DEF SendAll, Sent, FramingTypeOK
  <2> QED BY <1>3, <2>1, <2>2 DEF SendAll, ConnInv
<1>4. ASSUME NEW c \in Conns, NEW t \in Threads, SendFails(c, t) PROVE ConnInv'
  <2>1. \A d \in Conns, u \in Threads : Busy(d, u)' => Busy(d, u)
    BY <1>4 DEF SendFails, SetWriter, Busy, FramingTypeOK
  <2> QED BY <1>4, <2>1 DEF SendFails, ConnInv
<1>5. ASSUME NEW c \in Conns, SenderEnds(c) PROVE ConnInv'
  <2>1. \A d \in Conns, u \in Threads : Busy(d, u)' => Busy(d, u)
    BY <1>5 DEF SenderEnds, Busy, FramingTypeOK
  <2>2. \A d \in Conns : link'[d] = "cut" => link[d] = "cut"
    BY <1>5 DEF SenderEnds, FramingTypeOK
  <2> QED BY <1>5, <2>1, <2>2 DEF SenderEnds, ConnInv
<1>6. ASSUME NEW c \in Conns, ConnectionCut(c) PROVE ConnInv'
  BY <1>6 DEF ConnectionCut, ConnInv, Busy, FramingTypeOK
<1>7. CASE EpollWait
  BY <1>7 DEF EpollWait, Readable, ConnInv, Busy, FramingTypeOK, Idle
<1>8. ASSUME NEW c \in Conns, HandleEvent(c) PROVE ConnInv'
  BY <1>8 DEF HandleEvent, ConnInv, Busy, FramingTypeOK
<1>9. CASE RecvAll
  <2> DEFINE c == reader.conn
             k == Received(reader, stream[c])
  <2>1. c \in Conns /\ reader \in Reads
    BY <1>9, ReaderTypes DEF RecvAll
  <2>2. /\ k \in 1..Len(stream[c])
        /\ reader' = [reader EXCEPT !.got = @ \o SubSeq(stream[c], 1, k)]
        /\ stream' = [stream EXCEPT ![c] = SubSeq(@, k + 1, Len(@))]
    BY <1>9, <2>1, ReceivedFacts
  <2>3. reader'.conn = c /\ reader # Idle
    BY <1>9, <2>1, <2>2, ReaderTypes DEF Reads, RecvAll
  <2>4. open[c] /\ link[c] # "cut"
    <3>1. stream[c] # << >>
      BY <2>2
    <3> QED BY <2>1, <2>3, <3>1 DEF ConnInv
  <2>5. \A d \in Conns \ {c} : stream'[d] = stream[d]
    BY <2>2 DEF FramingTypeOK
  <2> QED BY <1>9, <2>3, <2>4, <2>5 DEF RecvAll, ConnInv, Busy
<1>10. ASSUME NEW c, c = reader.conn, c \in Conns, reader # Idle, Disconnect(c) PROVE ConnInv'
  BY <1>10 DEF Disconnect, ConnInv, Busy, FramingTypeOK
<1>11. CASE RecvEnds
  BY <1>10, <1>11, ReaderTypes DEF RecvEnds
<1>12. CASE HeaderDone
  <2>1. PICK n \in LengthRead(reader.got) :
          \/ Disconnect(reader.conn)
          \/ /\ reader' = [reader EXCEPT !.state = "body", !.got = << >>, !.len = n]
             /\ UNCHANGED <<given, writer, stream, link, batch, received, open, mixed>>
    BY <1>12 DEF HeaderDone
  <2>2. reader \in Reads /\ reader # Idle /\ reader.conn \in Conns
    BY <1>12, ReaderTypes DEF HeaderDone
  <2> QED BY <1>10, <2>1, <2>2 DEF ConnInv, Busy, Reads
<1>13. CASE BodyDone
  <2>1. reader # Idle /\ reader.conn \in Conns
    BY <1>13, ReaderTypes DEF BodyDone
  <2> QED BY <1>10, <1>13, <2>1 DEF BodyDone, ConnInv, Busy
<1> QED
  BY <1>1, <1>2, <1>3, <1>4, <1>5, <1>6, <1>7, <1>8, <1>9, <1>11, <1>12, <1>13
  DEF Next, Receive

-----------------------------------------------------------------------------
(* The bytes of a stream have the types of their parts. *)
LEMMA ByteFacts ==
  ASSUME NEW s \in Seq(Bytes), NEW i \in 1..Len(s)
  PROVE  /\ s[i].msg \in Messages /\ s[i].msg.no \in Nat /\ s[i].at \in Nat
         /\ s[i] = [msg |-> s[i].msg, at |-> s[i].at]
         /\ Size(s[i].msg) \in Nat /\ Len(s) \in Nat
<1>1. s[i] \in Bytes /\ Len(s) \in Nat
  BY ElementOfSeq, LenProperties
<1> QED BY <1>1, SizeFacts DEF Bytes, Messages

(* The byte after another one of a contiguous stream is at the next place. *)
LEMMA NextByte ==
  ASSUME NEW c \in Conns, NEW s \in Seq(Bytes), Contiguous(c, s),
         NEW i \in 1..Len(s), i < Len(s)
  PROVE  <<s[i + 1].msg.no, s[i + 1].at - 1>> = PlaceAfter(s[i])
<1>1. /\ s[i].at \in 1..Size(s[i].msg)
      /\ i + 1 \in i..Len(s)
      /\ s[i].at \in Nat /\ Size(s[i].msg) \in Nat /\ i \in Nat
  <2>1. s[i].at \in 1..Size(s[i].msg)
    BY DEF Contiguous
  <2>2. s[i].at \in Nat /\ Size(s[i].msg) \in Nat /\ Len(s) \in Nat /\ i \in Nat
    <3>1. s[i].at \in Nat /\ Size(s[i].msg) \in Nat /\ Len(s) \in Nat
      BY ByteFacts, Zenon
    <3> QED BY <3>1
  <2> QED BY <2>1, <2>2
<1>2. CASE s[i].at = Size(s[i].msg)
  BY <1>2 DEF Contiguous, PlaceAfter
<1>3. CASE s[i].at < Size(s[i].msg)
  <2>1. s[i].at + ((i + 1) - i) <= Size(s[i].msg)
    BY <1>1, <1>3
  <2>2. s[i + 1] = [msg |-> s[i].msg, at |-> s[i].at + ((i + 1) - i)]
    BY <1>1, <2>1 DEF Contiguous
  <2> QED BY <1>1, <1>3, <2>2 DEF PlaceAfter
<1> QED BY <1>1, <1>2, <1>3

(* What is left of a contiguous stream is contiguous. *)
LEMMA ContiguousRest ==
  ASSUME NEW c \in Conns, NEW s \in Seq(Bytes), Contiguous(c, s), NEW k \in 1..Len(s)
  PROVE  Contiguous(c, SubSeq(s, k + 1, Len(s)))
<1> DEFINE r == SubSeq(s, k + 1, Len(s))
<1>1. /\ Len(r) = Len(s) - k /\ Len(s) \in Nat /\ k \in Nat
      /\ \A i \in 1..Len(r) : r[i] = s[k + i]
  BY RestFacts, LenProperties
<1> HIDE DEF r
<1> SUFFICES ASSUME NEW i \in 1..Len(r)
             PROVE  /\ r[i].msg.no \in 1..Len(given[c])
                    /\ r[i].msg = given[c][r[i].msg.no]
                    /\ r[i].at \in 1..Size(r[i].msg)
                    /\ \A j \in i..Len(r) : r[i].at + (j - i) <= Size(r[i].msg) =>
                         r[j] = [msg |-> r[i].msg, at |-> r[i].at + (j - i)]
                    /\ i < Len(r) /\ r[i].at = Size(r[i].msg) =>
                         r[i + 1].msg.no = r[i].msg.no + 1 /\ r[i + 1].at = 1
  BY DEF Contiguous, r
<1>2. k + i \in 1..Len(s) /\ r[i] = s[k + i]
  BY <1>1
<1>3. ASSUME NEW j \in i..Len(r), r[i].at + (j - i) <= Size(r[i].msg)
      PROVE  r[j] = [msg |-> r[i].msg, at |-> r[i].at + (j - i)]
  <2>1. k + j \in (k + i)..Len(s) /\ r[j] = s[k + j] /\ (k + j) - (k + i) = j - i
    BY <1>1
  <2> QED BY <1>2, <1>3, <2>1 DEF Contiguous
<1>4. ASSUME i < Len(r), r[i].at = Size(r[i].msg)
      PROVE  r[i + 1].msg.no = r[i].msg.no + 1 /\ r[i + 1].at = 1
  <2>1. k + i < Len(s) /\ i + 1 \in 1..Len(r) /\ k + (i + 1) = (k + i) + 1
    BY <1>1, <1>4
  <2>2. r[i + 1] = s[(k + i) + 1]
    BY <1>1, <2>1
  <2> QED BY <1>2, <1>4, <2>1, <2>2 DEF Contiguous
<1> QED BY <1>2, <1>3, <1>4 DEF Contiguous

(* So is a contiguous stream to which the next bytes of a frame are added. *)
LEMMA ContiguousMore ==
  ASSUME NEW c \in Conns, NEW s \in Seq(Bytes), Contiguous(c, s),
         NEW m \in Messages, NEW from \in Nat, NEW k \in Nat, from + k <= Size(m),
         m.no \in 1..Len(given[c]), given[c][m.no] = m,
         s # << >> => PlaceAfter(s[Len(s)]) = <<m.no, from>>
  PROVE  LET r == s \o Piece(m, from, from + k)
         IN /\ Contiguous(c, r) /\ r \in Seq(Bytes)
            /\ Len(r) = Len(s) + k
            /\ \A i \in 1..Len(s) : r[i] = s[i]
            /\ \A i \in 1..k : r[Len(s) + i] = [msg |-> m, at |-> from + i]
<1> DEFINE p == Piece(m, from, from + k)
           r == s \o p
<1>1. /\ from + k \in Nat /\ from <= from + k /\ (from + k) - from = k
      /\ Len(s) \in Nat /\ Size(m) \in Nat
  BY LenProperties, SizeFacts
<1>2. /\ p \in Seq(Bytes) /\ Len(p) = k
      /\ \A i \in 1..k : p[i] = [msg |-> m, at |-> from + i]
  <2>1. /\ p \in Seq(Bytes) /\ Len(p) = (from + k) - from
        /\ \A i \in 1..((from + k) - from) : p[i] = [msg |-> m, at |-> from + i]
    BY <1>1, PieceFacts, Zenon
  <2> QED BY <1>1, <2>1
<1> HIDE DEF p
<1>3. /\ r \in Seq(Bytes) /\ Len(r) = Len(s) + Len(p)
      /\ \A i \in 1..(Len(s) + Len(p)) : r[i] = IF i <= Len(s) THEN s[i] ELSE p[i - Len(s)]
  BY <1>2, ConcatProperties
<1> HIDE DEF r
<1>4. /\ Len(r) = Len(s) + k
      /\ \A i \in 1..Len(s) : r[i] = s[i]
      /\ \A i \in 1..k : r[Len(s) + i] = [msg |-> m, at |-> from + i]
  <2>1. ASSUME NEW i \in 1..Len(s) PROVE r[i] = s[i]
    BY <1>1, <1>2, <1>3
  <2>2. ASSUME NEW i \in 1..k PROVE r[Len(s) + i] = [msg |-> m, at |-> from + i]
    <3>1. /\ Len(s) + i \in 1..(Len(s) + Len(p)) /\ ~(Len(s) + i <= Len(s))
          /\ (Len(s) + i) - Len(s) = i
      BY <1>1, <1>2
    <3> QED BY <1>2, <1>3, <3>1
  <2> QED BY <1>2, <1>3, <2>1, <2>2
<1>5. Contiguous(c, r)
  <2> SUFFICES ASSUME NEW i \in 1..Len(r)
               PROVE  /\ r[i].msg.no \in 1..Len(given[c])
                      /\ r[i].msg = given[c][r[i].msg.no]
                      /\ r[i].at \in 1..Size(r[i].msg)
                      /\ \A j \in i..Len(r) : r[i].at + (j - i) <= Size(r[i].msg) =>
                           r[j] = [msg |-> r[i].msg, at |-> r[i].at + (j - i)]
                      /\ i < Len(r) /\ r[i].at = Size(r[i].msg) =>
                           r[i + 1].msg.no = r[i].msg.no + 1 /\ r[i + 1].at = 1
    BY DEF Contiguous
  <2>1. CASE i > Len(s)
    <3>1. /\ i - Len(s) \in 1..k /\ i = Len(s) + (i - Len(s)) /\ i \in Nat
          /\ r[i] = [msg |-> m, at |-> from + (i - Len(s))]
      <4>1. i - Len(s) \in 1..k /\ i = Len(s) + (i - Len(s)) /\ i \in Nat
        BY <1>1, <1>4, <2>1
      <4> QED BY <1>4, <4>1
    <3>2. ASSUME NEW j \in i..Len(r)
          PROVE  r[j] = [msg |-> m, at |-> r[i].at + (j - i)]
      <4>1. j - Len(s) \in 1..k /\ j = Len(s) + (j - Len(s))
        BY <1>1, <1>4, <3>1
      <4>2. r[j] = [msg |-> m, at |-> from + (j - Len(s))]
        BY <1>4, <4>1
      <4> QED BY <1>1, <3>1, <4>1, <4>2
    <3>3. i < Len(r) => r[i].at < Size(m)
      BY <1>1, <1>4, <3>1
    <3>4. r[i].at \in 1..Size(m)
      BY <1>1, <3>1
    <3> QED BY <3>1, <3>2, <3>3, <3>4
  <2>2. CASE i <= Len(s)
    <3>1. /\ i \in 1..Len(s) /\ r[i] = s[i] /\ s # << >>
          /\ Len(s) \in 1..Len(s) /\ i \in Nat
      BY <1>1, <1>4, <2>2
    <3>2. /\ s[i].at \in 1..Size(s[i].msg) /\ s[i].msg = given[c][s[i].msg.no]
          /\ s[i].msg.no \in 1..Len(given[c])
          /\ s[i].at \in Nat /\ Size(s[i].msg) \in Nat
      BY <3>1, ByteFacts DEF Contiguous
    <3>3. /\ s[Len(s)].msg = given[c][s[Len(s)].msg.no]
          /\ s[Len(s)].at \in Nat /\ Size(s[Len(s)].msg) \in Nat
          /\ s[Len(s)].at \in 1..Size(s[Len(s)].msg)
      BY <3>1, ByteFacts DEF Contiguous
    <3>4. ASSUME NEW j \in i..Len(r), r[i].at + (j - i) <= Size(r[i].msg)
          PROVE  r[j] = [msg |-> r[i].msg, at |-> r[i].at + (j - i)]
      <4>1. CASE j <= Len(s)
        BY <1>1, <1>4, <3>1, <3>4, <4>1 DEF Contiguous
      <4>2. CASE j > Len(s)
        <5>0. /\ s[i].at + (j - i) <= Size(s[i].msg)
              /\ j \in Nat /\ j > Len(s) /\ Len(s) \in Nat /\ i <= Len(s)
          BY <1>1, <1>4, <3>1, <3>4, <4>2
        <5> DEFINE a == s[i].at
                   z == Size(s[i].msg)
        <5>1. /\ Len(s) \in i..Len(s) /\ a + (Len(s) - i) < z /\ a + (Len(s) - i) <= z
              /\ a + (Len(s) - i) = from => from + (j - Len(s)) = a + (j - i)
          <6>1. a \in Nat /\ z \in Nat /\ i \in Nat /\ a + (j - i) <= z
            BY <3>1, <3>2, <5>0
          <6> HIDE DEF a, z
          <6>2. j \in Nat /\ j > Len(s) /\ Len(s) \in Nat /\ i <= Len(s)
            BY <5>0
          <6>3. Len(s) \in i..Len(s)
            BY <6>1, <6>2
          <6>4. a + (Len(s) - i) < z
            BY <6>1, <6>2
          <6>5. a + (Len(s) - i) <= z
            BY <6>1, <6>2
          <6>6. a + (Len(s) - i) = from => from + (j - Len(s)) = a + (j - i)
            BY <6>1, <6>2
          <6> QED BY <6>3, <6>4, <6>5, <6>6
        <5>2. s[Len(s)] = [msg |-> s[i].msg, at |-> s[i].at + (Len(s) - i)]
          BY <3>1, <5>1 DEF Contiguous
        <5>3. s[i].msg.no = m.no /\ s[i].at + (Len(s) - i) = from
          BY <1>1, <3>1, <3>2, <3>3, <5>1, <5>2 DEF PlaceAfter
        <5>4. s[i].msg = m
          BY <3>2, <5>3
        <5>5. /\ j - Len(s) \in 1..k /\ j = Len(s) + (j - Len(s)) /\ j \in Nat
          BY <1>1, <1>4, <3>1, <4>2
        <5>6. r[j] = [msg |-> m, at |-> from + (j - Len(s))]
          BY <1>4, <5>5
        <5>7. from + (j - Len(s)) = s[i].at + (j - i)
          BY <5>1, <5>3
        <5> QED BY <3>1, <5>4, <5>6, <5>7
      <4> QED BY <1>1, <1>4, <3>1, <4>1, <4>2
    <3>5. ASSUME i < Len(r), r[i].at = Size(r[i].msg)
          PROVE  r[i + 1].msg.no = r[i].msg.no + 1 /\ r[i + 1].at = 1
      <4>1. CASE i < Len(s)
        <5>1. i + 1 \in 1..Len(s) /\ r[i + 1] = s[i + 1]
          BY <1>1, <1>4, <3>1, <4>1
        <5> QED BY <3>1, <3>5, <4>1, <5>1 DEF Contiguous
      <4>2. CASE i = Len(s)
        <5>1. m.no = s[i].msg.no + 1 /\ from = 0
          BY <3>1, <3>5, <4>2 DEF PlaceAfter
        <5>2. r[i + 1] = [msg |-> m, at |-> 1]
          BY <1>1, <1>4, <3>5, <4>2, <5>1
        <5> QED BY <3>1, <5>1, <5>2
      <4> QED BY <1>1, <3>1, <4>1, <4>2
    <3> QED BY <3>1, <3>2, <3>4, <3>5
  <2> QED BY <1>1, <1>4, <2>1, <2>2
<1> QED BY <1>3, <1>4, <1>5 DEF r, p

-----------------------------------------------------------------------------
(* What a step that leaves a connection alone does to it: nothing. *)
LEMMA Untouched ==
  ASSUME FramingTypeOK, NEW c \in Conns, UnmixedAt(c),
         given'[c] = given[c], writer'[c] = writer[c], stream'[c] = stream[c],
         link'[c] = link[c], open'[c] = open[c], received'[c] = received[c],
         Reading(c)' <=> Reading(c), Reading(c) => reader' = reader
  PROVE  UnmixedAt(c)'
<1>1. ReadPlace(c)' = ReadPlace(c)
  BY DEF ReadPlace, BodyRead
<1>2. WriterInv(c)' /\ ReceivedInv(c)' /\ ReaderInv(c)'
  BY DEF UnmixedAt, WriterInv, ReceivedInv, ReaderInv, Busy
<1>3. Contiguous(c, stream[c])'
  BY DEF UnmixedAt, StreamInv, Contiguous
<1>4. \A q : WrittenTo(c, q) => WrittenTo(c, q)'
  BY DEF WrittenTo, Busy
<1>5. StreamInv(c)'
  BY <1>1, <1>3, <1>4 DEF UnmixedAt, StreamInv, PlaceAfter
<1> QED BY <1>2, <1>5 DEF UnmixedAt

(* send_all begins: the new message is the last one given, and nothing of  *)
(* it is written.                                                          *)
LEMMA SendMessageUnmixed ==
  ASSUME FramingInv, NEW c \in Conns, NEW t \in Threads, SendMessage(c, t), ~mixed'[c]
  PROVE  UnmixedAt(c)'
<1> DEFINE m == [by |-> t, no |-> Len(given[c]) + 1]
           w == [state |-> "send_all", msg |-> m, total |-> 0]
<1>1. /\ given'[c] = Append(given[c], m) /\ writer'[c] = [writer[c] EXCEPT ![t] = w]
      /\ UNCHANGED <<stream, link, batch, reader, received, open>>
  BY DEF SendMessage, SetWriter, FramingInv, FramingTypeOK
<1>2. ~mixed[c] /\ \A u \in Threads : ~Busy(c, u)
  BY DEF SendMessage, FramingInv, FramingTypeOK
<1>3. UnmixedAt(c)
  BY <1>2 DEF FramingInv, UnmixedInv
<1>4. m \in Messages /\ Len(given[c]) \in Nat /\ given[c] \in Seq(Messages) /\ m.no = Len(given[c]) + 1
  <2>1. given[c] \in Seq(Messages)
    BY DEF FramingInv, FramingTypeOK
  <2>2. Len(given[c]) \in Nat /\ Len(given[c]) < MaxGiven
    BY <2>1, LenProperties DEF SendMessage
  <2> QED BY <2>1, <2>2, FramingAssumption DEF Messages
<1>5. /\ w # Idle /\ w.msg = m /\ w.total = 0
      /\ \A u \in Threads : Busy(c, u)' <=> u = t
      /\ writer'[c][t] = w
  BY <1>1, <1>2 DEF FramingInv, FramingTypeOK, Busy, Idle
<1> HIDE DEF m, w
<1>6. /\ Len(given'[c]) = Len(given[c]) + 1
      /\ \A n \in 1..Len(given[c]) : given'[c][n] = given[c][n]
      /\ given'[c][Len(given'[c])] = m
  BY <1>1, <1>4, AppendProperties
<1>7. WriterInv(c)'
  BY <1>4, <1>5, <1>6, SizeFacts DEF WriterInv
<1>8. ReceivedInv(c)'
  <2>1. Len(received[c]) \in Nat
    BY LenProperties DEF FramingInv, FramingTypeOK
  <2> QED BY <1>1, <1>3, <1>4, <1>6, <2>1 DEF UnmixedAt, ReceivedInv
<1>9. ReaderInv(c)'
  <2>1. Len(received[c]) \in Nat
    BY LenProperties DEF FramingInv, FramingTypeOK
  <2>2. Reading(c)' = Reading(c)
    BY <1>1 DEF Reading
  <2>3. Len(received[c]) + 1 <= Len(given[c]) =>
          /\ Len(received[c]) + 1 <= Len(given'[c])
          /\ given'[c][Len(received[c]) + 1] = given[c][Len(received[c]) + 1]
    BY <1>4, <1>6, <2>1
  <2> QED BY <1>1, <1>3, <2>2, <2>3 DEF UnmixedAt, ReaderInv
<1>10. StreamInv(c)'
  <2>1. Contiguous(c, stream[c])'
    <3>1. Contiguous(c, stream[c]) /\ stream'[c] = stream[c]
      BY <1>1, <1>3 DEF UnmixedAt, StreamInv
    <3>2. ASSUME NEW n \in 1..Len(given[c])
          PROVE  n \in 1..Len(given'[c]) /\ given'[c][n] = given[c][n]
      BY <1>4, <1>6
    <3>3. \A i \in 1..Len(stream[c]) :
            /\ stream[c][i].msg.no \in 1..Len(given'[c])
            /\ stream[c][i].msg = given'[c][stream[c][i].msg.no]
      BY <3>1, <3>2 DEF Contiguous
    <3> QED BY <3>1, <3>3 DEF Contiguous
  <2>2. ReadPlace(c)' = ReadPlace(c)
    BY <1>1 DEF ReadPlace, Reading, BodyRead
  <2>3. \A q : WrittenTo(c, q) => WrittenTo(c, q)'
    BY <1>2, <1>5, <1>6 DEF WrittenTo
  <2> QED BY <1>1, <1>3, <2>1, <2>2, <2>3 DEF UnmixedAt, StreamInv, PlaceAfter
<1> QED BY <1>7, <1>8, <1>9, <1>10 DEF UnmixedAt

(* One send() adds the next bytes of the last message. *)
LEMMA SendAllUnmixed ==
  ASSUME FramingInv, NEW c \in Conns, NEW t \in Threads, SendAll(c, t), ~mixed'[c]
  PROVE  UnmixedAt(c)'
<1> DEFINE w == writer[c][t]
           m == w.msg
           from == w.total
           s == stream[c]
<1>1. UnmixedAt(c) /\ mixed' = mixed
  BY DEF SendAll, FramingInv, UnmixedInv
<1>2. /\ w \in Calls /\ m \in Messages /\ from \in Nat /\ w # Idle
      /\ s \in Seq(Bytes) /\ Len(s) \in Nat /\ link[c] = "up"
  BY LenProperties DEF SendAll, Busy, FramingInv, FramingTypeOK, Calls
<1>3. /\ \A u \in Threads : Busy(c, u) <=> u = t
      /\ m = given[c][Len(given[c])] /\ Len(given[c]) > 0 /\ from < Size(m)
  BY <1>1, <1>2 DEF UnmixedAt, WriterInv, Busy
<1>4. /\ Len(given[c]) \in Nat /\ m.no = Len(given[c]) /\ given[c][m.no] = m
  <2>1. Len(given[c]) \in Nat
    BY LenProperties DEF FramingInv, FramingTypeOK
  <2>2. Len(given[c]) \in 1..Len(given[c])
    BY <1>3, <2>1
  <2> QED BY <1>3, <2>1, <2>2 DEF FramingInv, ConnInv
<1>5. PICK k \in 1..(Size(m) - from) :
        /\ stream' = [stream EXCEPT ![c] = IF open[c] THEN @ \o Piece(m, from, from + k) ELSE @]
        /\ writer' = [writer EXCEPT ![c][t] =
             IF from + k = Size(m) THEN Idle ELSE [w EXCEPT !.total = @ + k]]
  BY DEF SendAll, Sent, SetWriter
<1>6. /\ k \in Nat /\ k > 0 /\ from + k <= Size(m) /\ Size(m) \in Nat
      /\ UNCHANGED <<given, link, reader, received, open>>
  BY <1>2, <1>5, SizeFacts DEF SendAll
<1>7. /\ from + k = Size(m) => \A u \in Threads : ~Busy(c, u)'
      /\ from + k # Size(m) =>
           /\ \A u \in Threads : Busy(c, u)' <=> u = t
           /\ writer'[c][t].msg = m /\ writer'[c][t].total = from + k
  BY <1>2, <1>3, <1>5 DEF Busy, FramingInv, FramingTypeOK, Calls, Idle
<1>8. WriterInv(c)'
  BY <1>2, <1>3, <1>6, <1>7 DEF WriterInv
<1>9. ReceivedInv(c)' /\ ReaderInv(c)' /\ ReadPlace(c)' = ReadPlace(c)
  BY <1>1, <1>6 DEF UnmixedAt, ReceivedInv, ReaderInv, Reading, ReadPlace, BodyRead
<1>10. StreamInv(c)'
  <2>1. CASE ~open[c]
    <3>1. stream'[c] = s /\ ~open'[c]
      BY <1>5, <1>6, <2>1 DEF FramingInv, FramingTypeOK
    <3>2. Contiguous(c, stream[c])'
      BY <1>1, <1>6, <3>1 DEF UnmixedAt, StreamInv, Contiguous
    <3> QED BY <1>1, <1>9, <3>1, <3>2 DEF UnmixedAt, StreamInv
  <2>2. CASE open[c]
    <3> DEFINE r == s \o Piece(m, from, from + k)
    <3>1. stream'[c] = r
      BY <1>5, <2>2 DEF FramingInv, FramingTypeOK
    <3>2. /\ s # << >> => PlaceAfter(s[Len(s)]) = <<m.no, from>>
          /\ s = << >> => ReadPlace(c) = <<m.no, from>>
      BY <1>1, <1>2, <1>3, <1>4, <2>2 DEF UnmixedAt, StreamInv, WrittenTo
    <3>3. /\ Contiguous(c, r) /\ r \in Seq(Bytes)
          /\ Len(r) = Len(s) + k
          /\ \A i \in 1..Len(s) : r[i] = s[i]
          /\ \A i \in 1..k : r[Len(s) + i] = [msg |-> m, at |-> from + i]
      <4>1. Contiguous(c, s) /\ m.no \in 1..Len(given[c])
        BY <1>1, <1>3, <1>4 DEF UnmixedAt, StreamInv
      <4>2. /\ s \in Seq(Bytes) /\ m \in Messages /\ from \in Nat /\ k \in Nat
            /\ from + k <= Size(m) /\ given[c][m.no] = m
        BY <1>2, <1>4, <1>6
      <4> HIDE DEF w, s, m, from
      <4> QED BY <3>2, <4>1, <4>2, ContiguousMore, ZenonT(60)
    <3> HIDE DEF r
    <3>4. /\ Len(r) > 0 /\ r # << >> /\ r[Len(r)] = [msg |-> m, at |-> from + k]
      BY <1>2, <1>6, <3>3
    <3>5. <<r[1].msg.no, r[1].at - 1>> = ReadPlace(c)
      <4>1. CASE s = << >>
        <5>1. Len(s) + 1 = 1 /\ 1 \in 1..k
          BY <1>6, <4>1
        <5>2. r[1] = [msg |-> m, at |-> from + 1]
          BY <3>3, <5>1
        <5> QED BY <1>2, <3>2, <4>1, <5>2
      <4>2. CASE s # << >>
        <5>1. 1 \in 1..Len(s)
          BY <1>2, <4>2, EmptySeq
        <5> QED BY <1>1, <3>3, <4>2, <5>1 DEF UnmixedAt, StreamInv
      <4> QED BY <4>1, <4>2
    <3>6. \A q : q = PlaceAfter(r[Len(r)]) => WrittenTo(c, q)'
      <4>1. CASE from + k = Size(m)
        <5>1. PlaceAfter(r[Len(r)]) = <<Len(given'[c]) + 1, 0>>
          BY <1>4, <1>6, <3>4, <4>1 DEF PlaceAfter
        <5> QED BY <1>7, <4>1, <5>1 DEF WrittenTo
      <4>2. CASE from + k # Size(m)
        <5>1. PlaceAfter(r[Len(r)]) = <<Len(given'[c]), from + k>>
          BY <1>4, <1>6, <3>4, <4>2 DEF PlaceAfter
        <5> QED BY <1>7, <4>2, <5>1 DEF WrittenTo
      <4> QED BY <4>1, <4>2
    <3>7. Contiguous(c, stream[c])'
      BY <1>6, <3>1, <3>3 DEF Contiguous
    <3>8. WrittenTo(c, PlaceAfter(stream[c][Len(stream[c])]))'
      BY <3>1, <3>6 DEF PlaceAfter
    <3> QED BY <1>9, <3>1, <3>4, <3>5, <3>7, <3>8 DEF StreamInv
  <2> QED BY <2>1, <2>2
<1> QED BY <1>8, <1>9, <1>10 DEF UnmixedAt

(* A failed call, the end of the sender and a broken connection: nothing   *)
(* more is written, and the order of what is under way stays.              *)
LEMMA SenderGoneUnmixed ==
  ASSUME FramingInv, NEW c \in Conns, UnmixedAt(c),
         \/ \E t \in Threads : SendFails(c, t)
         \/ SenderEnds(c)
         \/ ConnectionCut(c)
  PROVE  UnmixedAt(c)'
<1>1. /\ UNCHANGED <<given, reader, received, open>>
      /\ ~open'[c] \/ link'[c] # "up"
      /\ \A t \in Threads : Busy(c, t)' => Busy(c, t) /\ writer'[c][t] = writer[c][t]
      /\ stream'[c] = stream[c] \/ stream'[c] = << >>
  <2>1. ASSUME NEW t \in Threads, SendFails(c, t)
        PROVE  /\ \A u \in Threads : Busy(c, u)' => Busy(c, u) /\ writer'[c][u] = writer[c][u]
               /\ ~open[c] \/ link[c] # "up"
               /\ UNCHANGED <<given, reader, received, open, stream, link>>
    BY <2>1 DEF SendFails, SetWriter, Busy, FramingInv, FramingTypeOK
  <2>2. CASE SenderEnds(c)
    BY <2>2 DEF SenderEnds, Busy, FramingInv, FramingTypeOK
  <2>3. CASE ConnectionCut(c)
    BY <2>3 DEF ConnectionCut, Busy, FramingInv, FramingTypeOK
  <2> QED BY <2>1, <2>2, <2>3
<1>2. WriterInv(c)' /\ ReceivedInv(c)' /\ ReaderInv(c)' /\ ReadPlace(c)' = ReadPlace(c)
  BY <1>1 DEF UnmixedAt, WriterInv, ReceivedInv, ReaderInv, Reading, ReadPlace, BodyRead
<1>3. Contiguous(c, stream[c])'
  <2>1. CASE stream'[c] = << >>
    BY <2>1 DEF Contiguous
  <2>2. CASE stream'[c] = stream[c]
    BY <1>1, <2>2 DEF UnmixedAt, StreamInv, Contiguous
  <2> QED BY <1>1, <2>1, <2>2
<1>4. StreamInv(c)'
  BY <1>1, <1>2, <1>3 DEF UnmixedAt, StreamInv
<1> QED BY <1>2, <1>4 DEF UnmixedAt

(* The connection is closed by the receiver. *)
LEMMA DisconnectUnmixed ==
  ASSUME FramingInv, NEW c \in Conns, UnmixedAt(c), Disconnect(c)
  PROVE  UnmixedAt(c)'
<1>1. /\ UNCHANGED <<given, writer, received>> /\ reader' = Idle
      /\ ~open'[c] /\ stream'[c] = << >>
  BY DEF Disconnect, FramingInv, FramingTypeOK
<1>2. WriterInv(c)' /\ ReceivedInv(c)' /\ ReaderInv(c)'
  BY <1>1 DEF UnmixedAt, WriterInv, ReceivedInv, ReaderInv, Reading, Busy
<1>3. StreamInv(c)'
  BY <1>1 DEF StreamInv, Contiguous
<1> QED BY <1>2, <1>3 DEF UnmixedAt

(* A message is waited for. *)
LEMMA HandleEventUnmixed ==
  ASSUME FramingInv, NEW c \in Conns, UnmixedAt(c), HandleEvent(c)
  PROVE  UnmixedAt(c)'
<1>1. /\ UNCHANGED <<given, writer, stream, link, received, open>> /\ ~Reading(c)
      /\ reader' = [state |-> "header", conn |-> c, got |-> << >>, len |-> HeaderLen]
  BY DEF HandleEvent, Reading
<1>2. WriterInv(c)' /\ ReceivedInv(c)'
  BY <1>1 DEF UnmixedAt, WriterInv, ReceivedInv, Busy
<1>3. ReaderInv(c)'
  BY <1>1, FramingAssumption DEF ReaderInv
<1>4. ReadPlace(c)' = ReadPlace(c)
  BY <1>1 DEF ReadPlace, Reading
<1>5. StreamInv(c)'
  BY <1>1, <1>4 DEF UnmixedAt, StreamInv, Contiguous, WrittenTo, Busy
<1> QED BY <1>2, <1>3, <1>5 DEF UnmixedAt

(* One recv() moves the reader on by what it takes off the stream. *)
LEMMA RecvAllUnmixed ==
  ASSUME FramingInv, NEW c \in Conns, UnmixedAt(c), RecvAll, c = reader.conn
  PROVE  UnmixedAt(c)'
<1> DEFINE s == stream[c]
           n == Len(received[c]) + 1
           m == given[c][n]
           k == Received(reader, s)
           got == reader.got
           base == IF reader.state = "header" THEN 0 ELSE HeaderLen
           a == base + Len(got)
<1>1. /\ k \in 1..Len(s) /\ Len(got) + k <= reader.len
      /\ reader' = [reader EXCEPT !.got = @ \o SubSeq(s, 1, k)]
      /\ stream'[c] = SubSeq(s, k + 1, Len(s))
      /\ UNCHANGED <<given, writer, link, received, open>>
  BY ReceivedFacts DEF RecvAll, FramingInv, FramingTypeOK
<1>2. /\ s \in Seq(Bytes) /\ Len(s) \in Nat /\ k \in Nat
      /\ reader \in Reads /\ Reading(c) /\ reader.state \in {"header", "body"}
      /\ got \in Seq(Bytes) /\ Len(got) \in Nat /\ Len(got) < reader.len
      /\ n \in Nat /\ n > 0
  BY <1>1, LenProperties, ReaderTypes DEF RecvAll, FramingInv, FramingTypeOK, Reading
<1>3. Contiguous(c, s) /\ <<s[1].msg.no, s[1].at - 1>> = <<n, a>> /\ 1 \in 1..Len(s)
  <2>1. s # << >> /\ 1 \in 1..Len(s)
    BY <1>1, <1>2
  <2>2. ReadPlace(c) = <<n, a>>
    BY <1>2 DEF ReadPlace, BodyRead
  <2> QED BY <2>1, <2>2 DEF UnmixedAt, StreamInv
<1>4. /\ n \in 1..Len(given[c]) /\ m \in Messages /\ m.no = n
      /\ s[1] = [msg |-> m, at |-> a + 1] /\ a \in Nat /\ Size(m) \in Nat
      /\ base \in Nat
  <2>1. s[1].msg.no = n /\ n \in 1..Len(given[c]) /\ s[1].msg = m
    BY <1>3 DEF Contiguous
  <2>2. s[1].at \in Nat /\ s[1].at - 1 = a /\ a \in Nat /\ base \in Nat
    <3>1. base \in Nat /\ a \in Nat
      <4>1. base \in Nat
        BY FramingAssumption
      <4> HIDE DEF base, got
      <4> QED BY <1>2, <4>1
    <3>2. s[1].at \in Nat
      BY <1>2, <1>3, ByteFacts
    <3> HIDE DEF a
    <3> QED BY <1>3, <3>1, <3>2
  <2>3. s[1] = [msg |-> s[1].msg, at |-> s[1].at] /\ m \in Messages
    BY <1>2, <1>3, <2>1, ByteFacts
  <2> QED BY <2>1, <2>2, <2>3, SizeFacts
<1>5. /\ reader.state = "header" => reader.len = HeaderLen /\ base = 0
      /\ reader.state = "body" => reader.len = BodyLen[n] /\ base = HeaderLen
      /\ got = Piece(m, base, a)
      /\ Size(m) = HeaderLen + BodyLen[n] /\ BodyLen[n] \in Nat \ {0} /\ HeaderLen \in Nat \ {0}
  <2>1. Size(m) = HeaderLen + BodyLen[n] /\ BodyLen[n] \in Nat \ {0} /\ HeaderLen \in Nat \ {0}
    BY <1>4, SizeFacts
  <2>2. CASE reader.state = "header"
    <3>1. Len(got) > 0 => got = Piece(m, 0, Len(got))
      BY <1>2, <2>2 DEF UnmixedAt, ReaderInv
    <3>2. Len(got) = 0 => got = Piece(m, 0, Len(got))
      BY <1>2 DEF Piece
    <3> QED BY <1>2, <2>1, <2>2, <3>1, <3>2 DEF UnmixedAt, ReaderInv
  <2>3. CASE reader.state = "body"
    BY <1>2, <1>4, <2>1, <2>3 DEF UnmixedAt, ReaderInv
  <2> QED BY <1>2, <2>1, <2>2, <2>3
<1> HIDE DEF k, got, base, m, n, s
<1>6. a + k <= Size(m) /\ (reader.state = "header" => a + k < Size(m))
  <2>1. CASE reader.state = "header"
    <3>1. a = Len(got) /\ reader.len = HeaderLen
      BY <1>2, <1>5, <2>1
    <3> HIDE DEF a
    <3> QED BY <1>1, <1>2, <1>5, <3>1
  <2>2. CASE reader.state = "body"
    <3>1. a = HeaderLen + Len(got) /\ reader.len = BodyLen[n]
      BY <1>2, <1>5, <2>2
    <3> HIDE DEF a
    <3> QED BY <1>1, <1>2, <1>5, <2>2, <3>1
  <2> QED BY <1>2, <2>1, <2>2
<1>a. /\ Len(got) \in Nat /\ k \in Nat /\ k > 0 /\ a \in Nat /\ base \in Nat
      /\ n \in Nat /\ Size(m) \in Nat
  BY <1>1, <1>2, <1>4
\* the bytes taken are the next ones of the message
<1>7. ASSUME NEW i \in 1..k PROVE s[i] = [msg |-> m, at |-> a + i]
  <2>1. s[1].msg = m /\ s[1].at = a + 1
    BY <1>4
  <2>2. i \in 1..Len(s) /\ (a + 1) + (i - 1) = a + i /\ a + i <= Size(m)
    <3>1. k <= Len(s) /\ Len(s) \in Nat /\ a + k <= Size(m)
      BY <1>1, <1>2, <1>6
    <3> HIDE DEF a
    <3> QED BY <1>a, <3>1
  <2>3. s[i] = [msg |-> m, at |-> (a + 1) + (i - 1)]
    BY <1>3, <2>1, <2>2 DEF Contiguous
  <2> QED BY <2>2, <2>3
<1>8. /\ reader'.got \in Seq(Bytes) /\ Len(reader'.got) = Len(got) + k
      /\ reader'.got = Piece(m, base, a + k)
  <2> DEFINE new == SubSeq(s, 1, k)
  <2>1. new \in Seq(Bytes) /\ Len(new) = k /\ \A i \in 1..k : new[i] = s[i]
    BY <1>1, <1>2, RestFacts
  <2> HIDE DEF new
  <2>3. /\ got \o new \in Seq(Bytes) /\ Len(got \o new) = Len(got) + Len(new)
        /\ \A i \in 1..(Len(got) + Len(new)) :
             (got \o new)[i] = IF i <= Len(got) THEN got[i] ELSE new[i - Len(got)]
    BY <1>2, <2>1, ConcatProperties, Zenon
  <2>4. reader'.got = got \o new
    BY <1>1, <1>2 DEF Reads, new, got
  <2>5. /\ base <= a + k /\ a + k \in Nat /\ (a + k) - base = Len(got) + k
        /\ base <= a /\ a - base = Len(got)
    BY <1>2, <1>4
  <2>6. /\ Piece(m, base, a + k) \in Seq(Bytes)
        /\ Len(Piece(m, base, a + k)) = (a + k) - base
        /\ \A i \in 1..((a + k) - base) : Piece(m, base, a + k)[i] = [msg |-> m, at |-> base + i]
        /\ \A i \in 1..(a - base) : Piece(m, base, a)[i] = [msg |-> m, at |-> base + i]
    <3> HIDE DEF a
    <3> QED BY <1>4, <2>5, PieceFacts, Zenon
  <2>7. ASSUME NEW i \in 1..(Len(got) + k)
        PROVE  (got \o new)[i] = Piece(m, base, a + k)[i]
    <3>1. CASE i <= Len(got)
      <4>1. i \in 1..Len(got) /\ i \in 1..(Len(got) + Len(new)) /\ i \in 1..(a - base)
        BY <1>a, <2>1, <2>5, <3>1
      <4>2. (got \o new)[i] = got[i]
        BY <2>3, <3>1, <4>1
      <4> QED BY <1>5, <2>5, <2>6, <4>1, <4>2
    <3>2. CASE i > Len(got)
      <4>1. i - Len(got) \in 1..k /\ a + (i - Len(got)) = base + i /\ ~(i <= Len(got))
        BY <1>2, <1>4, <3>2
      <4>2. new[i - Len(got)] = [msg |-> m, at |-> a + (i - Len(got))]
        BY <1>7, <2>1, <4>1
      <4> QED BY <1>2, <2>1, <2>3, <2>5, <2>6, <4>1, <4>2
    <3>3. i <= Len(got) \/ i > Len(got)
      BY <1>a
    <3> QED BY <3>1, <3>2, <3>3
  <2>8. got \o new = Piece(m, base, a + k)
    BY <2>1, <2>3, <2>5, <2>6, <2>7, SeqEqual
  <2> QED BY <2>1, <2>3, <2>4, <2>8
<1>9. /\ reader' \in Reads /\ Reading(c)' /\ reader'.conn = c
      /\ reader'.state = reader.state /\ reader'.len = reader.len
  <2>1. reader'.conn = c /\ reader'.state = reader.state /\ reader'.len = reader.len
    BY <1>1, <1>2 DEF Reads
  <2>2. reader' \in Reads
    BY <1>1, <1>2, <1>8 DEF Reads
  <2> QED BY <2>1, <2>2 DEF Reading, Idle, Reads
<1>10. WriterInv(c)' /\ ReceivedInv(c)'
  BY <1>1 DEF UnmixedAt, WriterInv, ReceivedInv, Busy
<1>11. ReaderInv(c)'
  <2>1. /\ n' = n /\ m' = m /\ Len(reader'.got) = Len(got) + k
        /\ Len(got) + k <= reader.len /\ n <= Len(given'[c])
    BY <1>1, <1>4, <1>8 DEF n, m
  <2>2. CASE reader.state = "header"
    <3>1. reader'.got = Piece(m, 0, Len(got) + k) /\ reader'.len = HeaderLen
      BY <1>a, <1>5, <1>8, <1>9, <2>2
    <3> QED BY <1>9, <2>1, <2>2, <3>1 DEF ReaderInv, n, m
  <2>3. CASE reader.state = "body"
    <3>1. /\ reader'.got = Piece(m, HeaderLen, HeaderLen + (Len(got) + k))
          /\ reader'.len = BodyLen[n]
      BY <1>a, <1>5, <1>8, <1>9, <2>3
    <3> QED BY <1>9, <2>1, <2>3, <3>1 DEF ReaderInv, n, m
  <2> QED BY <1>2, <2>2, <2>3
<1>12. /\ s[k] = [msg |-> m, at |-> a + k] /\ k \in 1..Len(s)
       /\ ReadPlace(c)' = PlaceAfter(s[k])
  <2>1. s[k] = [msg |-> m, at |-> a + k]
    BY <1>a, <1>7
  <2>2. PlaceAfter(s[k]) = IF a + k = Size(m) THEN <<n + 1, 0>> ELSE <<n, a + k>>
    BY <1>4, <2>1 DEF PlaceAfter
  <2>3. n = Len(received'[c]) + 1 /\ n + 1 = Len(received'[c]) + 2
    BY <1>1, <1>a DEF n
  <2>4. CASE reader.state = "header"
    <3>1. PlaceAfter(s[k]) = <<n, Len(got) + k>>
      BY <1>a, <1>5, <1>6, <2>2, <2>4
    <3> QED BY <1>1, <1>8, <1>9, <2>1, <2>3, <2>4, <3>1 DEF ReadPlace
  <2>5. CASE reader.state = "body"
    <3>1. a + k = Size(m) <=> Len(got) + k = BodyLen[n]
      BY <1>a, <1>5, <2>5
    <3>2. BodyRead' <=> a + k = Size(m)
      BY <1>5, <1>8, <1>9, <2>5, <3>1 DEF BodyRead
    <3>3. HeaderLen + Len(reader'.got) = a + k
      BY <1>a, <1>5, <1>8, <2>5
    <3> QED BY <1>1, <1>9, <2>1, <2>2, <2>3, <2>5, <3>2, <3>3 DEF ReadPlace
  <2> QED BY <1>1, <1>2, <2>1, <2>4, <2>5
<1>13. StreamInv(c)'
  <2> DEFINE r == SubSeq(s, k + 1, Len(s))
  <2>1. /\ stream'[c] = r /\ r \in Seq(Bytes) /\ Len(r) = Len(s) - k
        /\ \A i \in 1..(Len(s) - k) : r[i] = s[k + i]
        /\ Contiguous(c, r)
    BY <1>1, <1>2, <1>3, RestFacts, ContiguousRest DEF s
  <2> HIDE DEF r
  <2>2. Contiguous(c, stream[c])'
    BY <1>1, <2>1 DEF Contiguous
  <2>3. CASE r # << >>
    <3>1. Len(r) \in 1..Len(r) /\ 1 \in 1..Len(r) /\ k < Len(s)
      BY <1>2, <2>1, <2>3, EmptySeq
    <3>2. r[1] = s[k + 1] /\ r[Len(r)] = s[Len(s)]
      <4>1. Len(s) \in Nat /\ k \in Nat /\ Len(s) - k \in 1..(Len(s) - k) /\ 1 \in 1..(Len(s) - k)
        BY <1>2, <2>1, <3>1
      <4>2. k + 1 = 1 + k /\ k + (Len(s) - k) = Len(s)
        BY <4>1
      <4>3. r[1] = s[k + 1] /\ r[Len(s) - k] = s[k + (Len(s) - k)]
        BY <2>1, <4>1
      <4> QED BY <2>1, <4>2, <4>3
    <3>3. <<r[1].msg.no, r[1].at - 1>> = PlaceAfter(s[k])
      BY <1>2, <1>3, <1>12, <3>1, <3>2, NextByte
    <3>4. open[c] /\ link[c] = "up" => WrittenTo(c, PlaceAfter(s[Len(s)]))
      BY <1>1, <1>2 DEF UnmixedAt, StreamInv, s
    <3>5. \A q : WrittenTo(c, q) => WrittenTo(c, q)'
      BY <1>1 DEF WrittenTo, Busy
    <3> QED BY <1>1, <1>12, <2>1, <2>2, <2>3, <3>2, <3>3, <3>4, <3>5 DEF StreamInv, PlaceAfter
  <2>4. CASE r = << >>
    <3>1. k = Len(s)
      BY <1>2, <2>1, <2>4
    <3>2. open[c] /\ link[c] = "up" => WrittenTo(c, PlaceAfter(s[Len(s)]))
      BY <1>1, <1>2 DEF UnmixedAt, StreamInv, s
    <3>3. \A q : WrittenTo(c, q) => WrittenTo(c, q)'
      BY <1>1 DEF WrittenTo, Busy
    <3> QED BY <1>1, <1>12, <2>1, <2>2, <2>4, <3>1, <3>2, <3>3 DEF StreamInv, PlaceAfter
  <2> QED BY <2>3, <2>4
<1> QED BY <1>10, <1>11, <1>13 DEF UnmixedAt

(* The length is had: the body is next. *)
LEMMA HeaderDoneUnmixed ==
  ASSUME FramingInv, NEW c \in Conns, UnmixedAt(c), c = reader.conn, HeaderDone
  PROVE  /\ UnmixedAt(c)'
         /\ Disconnect(c) => BodyLen[Len(received[c]) + 1] > Limit
<1> DEFINE n == Len(received[c]) + 1
           m == given[c][n]
<1>1. /\ reader \in Reads /\ Reading(c) /\ reader.state = "header" /\ n \in Nat /\ n > 0
      /\ Len(reader.got) = HeaderLen /\ HeaderLen \in Nat \ {0}
  BY ReaderTypes, LenProperties, FramingAssumption DEF HeaderDone, FramingInv, FramingTypeOK, Reading
<1>2. n <= Len(given[c]) /\ reader.got = Piece(m, 0, HeaderLen)
  BY <1>1 DEF UnmixedAt, ReaderInv
<1>3. m \in Messages /\ m.no = n
  <2>1. n \in 1..Len(given[c]) /\ given[c] \in Seq(Messages)
    BY <1>1, <1>2, LenProperties DEF FramingInv, FramingTypeOK
  <2> QED BY <2>1, ElementOfSeq DEF FramingInv, ConnInv
<1>4. LengthRead(reader.got) = {BodyLen[n]} /\ BodyLen[n] \in Nat \ {0}
  <2> HIDE DEF n, m
  <2>1. LengthRead(reader.got) = {BodyLen[m.no]}
    BY <1>2, <1>3, HeadOfHeader, Zenon
  <2>2. BodyLen[m.no] \in Nat \ {0}
    BY <1>3, SizeFacts
  <2> QED BY <1>3, <2>1, <2>2
<1>5. \/ Disconnect(c) /\ BodyLen[n] > Limit
      \/ /\ reader' = [reader EXCEPT !.state = "body", !.got = << >>, !.len = BodyLen[n]]
         /\ UNCHANGED <<given, writer, stream, link, batch, received, open, mixed>>
  BY <1>4 DEF HeaderDone
<1>6. CASE Disconnect(c)
  <2>1. reader' = Idle
    BY <1>6 DEF Disconnect
  <2>2. BodyLen[n] > Limit
    BY <1>1, <1>5, <2>1 DEF Idle, Reads
  <2> QED BY <1>6, <2>2, DisconnectUnmixed
<1>7. CASE /\ reader' = [reader EXCEPT !.state = "body", !.got = << >>, !.len = BodyLen[n]]
           /\ UNCHANGED <<given, writer, stream, link, batch, received, open, mixed>>
  <2>1. /\ reader'.conn = c /\ reader'.state = "body" /\ reader'.got = << >>
        /\ reader'.len = BodyLen[n] /\ reader' # Idle
    BY <1>1, <1>7 DEF Reads, Idle, Reading
  <2>2. WriterInv(c)' /\ ReceivedInv(c)'
    BY <1>7 DEF UnmixedAt, WriterInv, ReceivedInv, Busy
  <2>3. ReaderInv(c)'
    <3>1. << >> = Piece(m, HeaderLen, HeaderLen + 0)
      BY <1>1 DEF Piece
    <3> QED BY <1>2, <1>4, <1>7, <2>1, <3>1 DEF ReaderInv
  <2>4. ReadPlace(c)' = ReadPlace(c)
    <3>1. ReadPlace(c) = <<n, HeaderLen>>
      BY <1>1 DEF ReadPlace
    <3>2. ~BodyRead' /\ HeaderLen + Len(reader'.got) = HeaderLen
      BY <1>1, <1>4, <2>1 DEF BodyRead
    <3> QED BY <1>7, <2>1, <3>1, <3>2 DEF ReadPlace, Reading
  <2>5. StreamInv(c)'
    BY <1>7, <2>4 DEF UnmixedAt, StreamInv, Contiguous, WrittenTo, Busy
  <2>6. ~Disconnect(c)
    BY <2>1 DEF Disconnect
  <2> QED BY <2>2, <2>3, <2>5, <2>6 DEF UnmixedAt
<1> QED BY <1>5, <1>6, <1>7

(* The body is had: it is dispatched, and it is the next message given.    *)
LEMMA BodyDoneUnmixed ==
  ASSUME FramingInv, NEW c \in Conns, UnmixedAt(c), c = reader.conn, BodyDone
  PROVE  /\ UnmixedAt(c)'
         /\ Len(received[c]) < Len(given[c]) /\ open[c]
         /\ received' = [received EXCEPT ![c] = Append(@, given[c][Len(@) + 1])]
         /\ UNCHANGED <<given, open>>
<1> DEFINE n == Len(received[c]) + 1
           m == given[c][n]
<1>1. /\ reader \in Reads /\ Reading(c) /\ reader.state = "body" /\ reader # Idle
      /\ Len(received[c]) \in Nat /\ received[c] \in Seq(Messages \cup {Garbage})
      /\ Len(reader.got) = reader.len /\ HeaderLen \in Nat \ {0}
  BY ReaderTypes, LenProperties, FramingAssumption DEF BodyDone, FramingInv, FramingTypeOK, Reading
<1>2. n <= Len(given[c]) /\ reader.got = Piece(m, HeaderLen, HeaderLen + BodyLen[n])
  BY <1>1 DEF UnmixedAt, ReaderInv
<1>3. m \in Messages /\ m.no = n
  <2>1. n \in 1..Len(given[c]) /\ given[c] \in Seq(Messages)
    BY <1>1, <1>2, LenProperties DEF FramingInv, FramingTypeOK
  <2> QED BY <2>1, ElementOfSeq DEF FramingInv, ConnInv
<1>4. IsBody(reader.got) /\ Head(reader.got).msg = m
  <2> HIDE DEF n, m
  <2>1. Size(m) = HeaderLen + BodyLen[n]
    BY <1>3, SizeFacts
  <2>2. reader.got = Piece(m, HeaderLen, Size(m))
    BY <1>2, <2>1
  <2> QED BY <1>3, <2>2, HeadOfBody, Zenon
<1>5. /\ received' = [received EXCEPT ![c] = Append(@, m)]
      /\ reader' = Idle
      /\ UNCHANGED <<given, writer, stream, link, batch, open, mixed>>
  BY <1>4 DEF BodyDone
<1> HIDE DEF m
<1>6. /\ received'[c] = Append(received[c], m)
      /\ Len(received'[c]) = Len(received[c]) + 1
      /\ \A i \in 1..Len(received[c]) : received'[c][i] = received[c][i]
      /\ received'[c][Len(received[c]) + 1] = m
  <2>1. received'[c] = Append(received[c], m)
    BY <1>5 DEF FramingInv, FramingTypeOK
  <2> QED BY <1>1, <1>3, <2>1, AppendProperties
<1>7. WriterInv(c)' /\ ReaderInv(c)'
  BY <1>5 DEF UnmixedAt, WriterInv, ReaderInv, Reading, Busy
<1>8. Len(received[c]) < Len(given[c])
  <2>1. Len(given[c]) \in Nat
    BY LenProperties DEF FramingInv, FramingTypeOK
  <2> QED BY <1>1, <1>2, <2>1
<1>9. ReceivedInv(c)'
  <2>1. Len(received'[c]) <= Len(given'[c])
    BY <1>2, <1>5, <1>6
  <2>2. ASSUME NEW i \in 1..Len(received'[c]) PROVE received'[c][i] = given'[c][i]
    <3>1. CASE i = n
      BY <1>5, <1>6, <3>1 DEF m
    <3>2. CASE i # n
      <4>1. i \in 1..Len(received[c])
        BY <1>1, <1>6, <3>2
      <4> QED BY <1>5, <1>6, <4>1 DEF UnmixedAt, ReceivedInv
    <3> QED BY <3>1, <3>2
  <2> QED BY <2>1, <2>2 DEF ReceivedInv
<1>10. StreamInv(c)'
  <2>1. ReadPlace(c)' = ReadPlace(c)
    <3>1. ReadPlace(c) = <<Len(received[c]) + 2, 0>>
      BY <1>1 DEF ReadPlace, BodyRead
    <3>2. Len(received'[c]) + 1 = Len(received[c]) + 2
      BY <1>1, <1>6
    <3> QED BY <1>5, <3>1, <3>2 DEF ReadPlace, Reading
  <2> QED BY <1>5, <2>1 DEF UnmixedAt, StreamInv, Contiguous, WrittenTo, Busy
<1>11. open[c]
  BY <1>1 DEF FramingInv, ConnInv
<1> QED BY <1>5, <1>7, <1>8, <1>9, <1>10, <1>11 DEF UnmixedAt, m

(* A connection on which two calls overlapped stays marked. *)
LEMMA MixedStays ==
  ASSUME FramingTypeOK, [Next]_vars, NEW c \in Conns, mixed[c]
  PROVE  mixed'[c]
<1>1. ASSUME NEW d \in Conns, NEW t \in Threads, SendMessage(d, t) PROVE mixed'[c]
  BY <1>1 DEF SendMessage, FramingTypeOK
<1>2. CASE UNCHANGED mixed
  BY <1>2
<1>3. UNCHANGED mixed \/ \E d \in Conns, t \in Threads : SendMessage(d, t)
  BY DEF Next, vars, SendAll, SendFails, SenderEnds, ConnectionCut, Receive, EpollWait, HandleEvent,
         RecvAll, RecvEnds, HeaderDone, BodyDone, Disconnect
<1> QED BY <1>1, <1>2, <1>3

(* Every step keeps the connections without overlapping calls in order. *)
LEMMA UnmixedStep ==
  ASSUME FramingInv, [Next]_vars, NEW c \in Conns, ~mixed'[c]
  PROVE  UnmixedAt(c)'
<1>1. FramingTypeOK /\ ~mixed[c] /\ UnmixedAt(c)
  BY MixedStays DEF FramingInv, UnmixedInv
<1>2. CASE UNCHANGED vars
  BY <1>1, <1>2, Untouched DEF vars, Reading
<1>3. ASSUME NEW d \in Conns, NEW t \in Threads, SendMessage(d, t) PROVE UnmixedAt(c)'
  <2>1. d # c => given'[c] = given[c] /\ writer'[c] = writer[c]
    BY <1>3 DEF SendMessage, SetWriter, FramingInv, FramingTypeOK
  <2>2. UNCHANGED <<stream, link, reader, received, open>>
    BY <1>3 DEF SendMessage
  <2>3. CASE d # c
    BY <1>1, <2>1, <2>2, <2>3, Untouched DEF Reading
  <2> QED BY <1>3, <2>3, SendMessageUnmixed
<1>4. ASSUME NEW d \in Conns, NEW t \in Threads, SendAll(d, t) PROVE UnmixedAt(c)'
  <2>1. d # c => stream'[c] = stream[c] /\ writer'[c] = writer[c]
    BY <1>4 DEF SendAll, Sent, SetWriter, FramingInv, FramingTypeOK
  <2>2. UNCHANGED <<given, link, reader, received, open>>
    BY <1>4 DEF SendAll
  <2>3. CASE d # c
    BY <1>1, <2>1, <2>2, <2>3, Untouched DEF Reading
  <2> QED BY <1>4, <2>3, SendAllUnmixed
<1>5. ASSUME NEW d \in Conns,
             (\E t \in Threads : SendFails(d, t)) \/ SenderEnds(d) \/ ConnectionCut(d)
      PROVE  UnmixedAt(c)'
  <2>1. d # c => writer'[c] = writer[c] /\ link'[c] = link[c] /\ stream'[c] = stream[c]
    BY <1>5 DEF SendFails, SenderEnds, ConnectionCut, SetWriter, FramingInv, FramingTypeOK
  <2>2. UNCHANGED <<given, reader, received, open>>
    BY <1>5 DEF SendFails, SenderEnds, ConnectionCut
  <2>3. CASE d # c
    BY <1>1, <2>1, <2>2, <2>3, Untouched DEF Reading
  <2> QED BY <1>1, <1>5, <2>3, SenderGoneUnmixed
<1>6. CASE EpollWait
  BY <1>1, <1>6, Untouched DEF EpollWait, Reading
<1>7. ASSUME NEW d \in Conns, HandleEvent(d) PROVE UnmixedAt(c)'
  <2>1. /\ UNCHANGED <<given, writer, stream, link, received, open>>
        /\ d # c => ~Reading(c) /\ ~Reading(c)'
    BY <1>7 DEF HandleEvent, Reading
  <2>2. CASE d # c
    BY <1>1, <2>1, <2>2, Untouched
  <2> QED BY <1>1, <1>7, <2>2, HandleEventUnmixed
\* the steps in the middle of a message are about the connection it comes from
<1>8. ASSUME RecvAll \/ RecvEnds \/ HeaderDone \/ BodyDone, reader.conn # c
      PROVE  UnmixedAt(c)'
  <2>1. ~Reading(c) /\ reader \in Reads /\ reader.conn \in Conns
    BY <1>1, <1>8, ReaderTypes DEF Reading, RecvAll, RecvEnds, HeaderDone, BodyDone
  <2>2. /\ UNCHANGED <<given, writer, link>>
        /\ stream'[c] = stream[c] /\ open'[c] = open[c] /\ received'[c] = received[c]
        /\ ~Reading(c)'
    <3>1. CASE Disconnect(reader.conn)
      BY <1>8, <2>1, <3>1 DEF Disconnect, Reading, FramingInv, FramingTypeOK
    <3>2. CASE RecvAll
      BY <1>8, <2>1, <3>2 DEF RecvAll, Reading, Reads, FramingInv, FramingTypeOK
    <3>3. CASE HeaderDone
      <4>1. PICK n \in LengthRead(reader.got) :
              \/ Disconnect(reader.conn)
              \/ /\ reader' = [reader EXCEPT !.state = "body", !.got = << >>, !.len = n]
                 /\ UNCHANGED <<given, writer, stream, link, batch, received, open, mixed>>
        BY <3>3 DEF HeaderDone
      <4> QED BY <1>8, <2>1, <3>1, <4>1 DEF Reading, Reads
    <3>4. CASE BodyDone
      BY <1>8, <2>1, <3>1, <3>4 DEF BodyDone, Reading, FramingInv, FramingTypeOK
    <3> QED BY <1>8, <3>1, <3>2, <3>3, <3>4 DEF RecvEnds
  <2> QED BY <1>1, <2>1, <2>2, Untouched
<1>9. ASSUME RecvAll \/ RecvEnds \/ HeaderDone \/ BodyDone, reader.conn = c
      PROVE  UnmixedAt(c)'
  BY <1>1, <1>9, RecvAllUnmixed, DisconnectUnmixed, HeaderDoneUnmixed, BodyDoneUnmixed DEF RecvEnds
<1> QED
  BY <1>2, <1>3, <1>4, <1>5, <1>6, <1>7, <1>8, <1>9 DEF Next, Receive

(* The invariant of the framing layer. *)
THEOREM FramingInvariant == Spec => []FramingInv
<1>1. Init => FramingInv
  <2> SUFFICES ASSUME Init PROVE FramingInv
    OBVIOUS
  <2>1. FramingTypeOK
    BY EmptySeq DEF Init, FramingTypeOK
  <2>2. ConnInv
    BY DEF Init, ConnInv, Busy
  <2>3. ASSUME NEW c \in Conns PROVE UnmixedAt(c)
    <3>1. /\ given[c] = << >> /\ stream[c] = << >> /\ received[c] = << >> /\ ~Reading(c)
          /\ \A t \in Threads : ~Busy(c, t)
      BY DEF Init, Reading, Busy
    <3>2. ReadPlace(c) = <<1, 0>>
      BY <3>1 DEF ReadPlace
    <3> QED BY <3>1, <3>2
      DEF UnmixedAt, WriterInv, StreamInv, ReaderInv, ReceivedInv, Contiguous, WrittenTo
  <2> QED BY <2>1, <2>2, <2>3 DEF FramingInv, UnmixedInv
<1>2. FramingInv /\ [Next]_vars => FramingInv'
  BY TypeStep, ConnStep, UnmixedStep DEF FramingInv, UnmixedInv
<1> QED BY <1>1, <1>2, PTL DEF Spec

-----------------------------------------------------------------------------
(* A sequence that agrees with another one place by place is its prefix. *)
LEMMA PrefixByPlaces ==
  ASSUME NEW S, NEW T, NEW s \in Seq(S), NEW t \in Seq(T), Len(s) <= Len(t),
         \A i \in 1..Len(s) : s[i] = t[i]
  PROVE  IsPrefix(s, t)
<1>1. Len(s) \in Nat /\ Len(t) \in Nat
  BY LenProperties
<1>2. ASSUME NEW i \in 1..Len(s) PROVE s[i] \in S
  BY ElementOfSeq
<1>3. /\ SubSeq(s, 1, Len(s)) \in Seq(S) /\ Len(SubSeq(s, 1, Len(s))) = Len(s)
      /\ \A i \in 1..Len(s) : SubSeq(s, 1, Len(s))[i] = s[i]
  BY <1>1, <1>2, SubSeqProperties
<1>4. /\ SubSeq(t, 1, Len(s)) \in Seq(S) /\ Len(SubSeq(t, 1, Len(s))) = Len(s)
      /\ \A i \in 1..Len(s) : SubSeq(t, 1, Len(s))[i] = t[i]
  BY <1>1, <1>2, SubSeqProperties
<1>5. SubSeq(s, 1, Len(s)) = SubSeq(t, 1, Len(s))
  BY <1>3, <1>4, SeqEqual
<1> QED BY <1>5 DEF IsPrefix

(* Every message given is accepted: those of this program are far below    *)
(* the limit of a client, and a server has none (Limit is at least as large *)
(* as the longest message then).                                           *)
MessagesFit == \A n \in 1..MaxGiven : BodyLen[n] <= Limit

(* A connection is closed by the receiver only after its other end is gone. *)
NotClosed == \A c \in Conns : ~mixed[c] /\ ~open[c] => link[c] # "up"

LEMMA NotClosedStep ==
  ASSUME MessagesFit, FramingInv, NotClosed, [Next]_vars
  PROVE  NotClosed'
<1>1. FramingTypeOK
  BY DEF FramingInv
<1>2. \A c \in Conns : link[c] # "up" => link'[c] # "up"
  BY <1>1 DEF Next, vars, SendMessage, SendAll, SendFails, SenderEnds, ConnectionCut, Receive, EpollWait,
       HandleEvent, RecvAll, RecvEnds, HeaderDone, BodyDone, Disconnect, FramingTypeOK
<1>3. ASSUME NEW c \in Conns, ~mixed'[c], ~open'[c], open[c] PROVE link[c] # "up"
  <2>1. ~mixed[c] /\ UnmixedAt(c)
    BY <1>1, <1>3, MixedStays DEF FramingInv, UnmixedInv
  <2>2. RecvEnds \/ HeaderDone \/ BodyDone
    BY <1>3 DEF Next, vars, SendMessage, SendAll, SendFails, SenderEnds, ConnectionCut, Receive,
         EpollWait, HandleEvent, RecvAll
  <2>3. reader.conn \in Conns /\ Disconnect(reader.conn) /\ reader.conn = c
    <3>1. reader.conn \in Conns
      BY <1>1, <2>2, ReaderTypes DEF RecvEnds, HeaderDone, BodyDone
    <3>2. Disconnect(reader.conn)
      BY <1>3, <2>2 DEF RecvEnds, HeaderDone, BodyDone
    <3> QED BY <1>1, <1>3, <3>1, <3>2 DEF Disconnect, FramingTypeOK
  <2>4. ~BodyDone
    BY <1>3, <2>1, <2>3, BodyDoneUnmixed
  <2>5. ~HeaderDone
    <3> SUFFICES ASSUME HeaderDone PROVE FALSE
      OBVIOUS
    <3>1. BodyLen[Len(received[c]) + 1] > Limit
      BY <2>1, <2>3, HeaderDoneUnmixed
    <3>2. Len(received[c]) + 1 \in 1..MaxGiven
      <4> DEFINE n == Len(received[c]) + 1
      <4>1. Reading(c) /\ n \in Nat /\ n > 0 /\ HeaderLen \in Nat \ {0}
        BY <1>1, <2>3, ReaderTypes, LenProperties, FramingAssumption
        DEF HeaderDone, Reading, FramingTypeOK
      <4>2. n <= Len(given[c])
        BY <2>1, <4>1 DEF UnmixedAt, ReaderInv, HeaderDone
      <4>3. n \in 1..Len(given[c]) /\ given[c] \in Seq(Messages)
        BY <1>1, <4>1, <4>2, LenProperties DEF FramingTypeOK
      <4>4. given[c][n] \in Messages /\ given[c][n].no = n
        BY <4>3, ElementOfSeq DEF FramingInv, ConnInv
      <4> QED BY <4>4, SizeFacts
    <3> QED BY <3>1, <3>2, FramingAssumption DEF MessagesFit
  <2> QED BY <2>2, <2>3, <2>4, <2>5 DEF RecvEnds
<1> QED BY <1>1, <1>2, <1>3, MixedStays DEF NotClosed, FramingTypeOK

(* Only overlapping calls of send_all garble, double, invent or end        *)
(* anything: in every other case the messages dispatched (dispatch in      *)
(* server_network.c, the client's receive loop) are those given, in order. *)
THEOREM OnlyTwoSendersGarble ==
  ASSUME MessagesFit
  PROVE  Spec => []GarbledOnlyByTwoSenders
<1>1. Init => NotClosed
  BY DEF Init, NotClosed
<1>2. Spec => []NotClosed
  BY <1>1, NotClosedStep, FramingInvariant, PTL DEF Spec
<1>3. FramingInv /\ NotClosed => GarbledOnlyByTwoSenders
  <2> SUFFICES ASSUME FramingInv, NotClosed, NEW c \in Conns, ~mixed[c]
               PROVE  IsPrefix(received[c], given[c]) /\ (~open[c] => link[c] # "up")
    BY DEF GarbledOnlyByTwoSenders
  <2>1. received[c] \in Seq(Messages \cup {Garbage}) /\ given[c] \in Seq(Messages)
    BY DEF FramingInv, FramingTypeOK
  <2>2. ReceivedInv(c) /\ (~open[c] => link[c] # "up")
    BY DEF FramingInv, UnmixedInv, UnmixedAt, NotClosed
  <2> QED BY <2>1, <2>2, PrefixByPlaces DEF ReceivedInv
<1> QED BY <1>2, <1>3, FramingInvariant, PTL

-----------------------------------------------------------------------------
(* The refinement: a connection that one thread sends on is a Channel.     *)

(* send_all calls do not overlap on a connection with one sender. *)
AloneInv == \A c \in Alone : ~mixed[c]

LEMMA OneSender ==
  ASSUME NEW c \in Alone, NEW t \in Senders[c], NEW u \in Senders[c]
  PROVE  t = u
<1>1. c \in Conns /\ Senders[c] \in SUBSET Threads /\ IsFiniteSet(Threads)
  BY FramingAssumption DEF Alone
<1>2. IsFiniteSet(Senders[c]) /\ Cardinality(Senders[c]) = 1
  BY <1>1, FS_Subset DEF Alone
<1> QED BY <1>2, FS_Singleton

LEMMA AloneStep ==
  ASSUME FramingInv, AloneInv, [Next]_vars
  PROVE  AloneInv'
<1>1. ASSUME NEW d \in Conns, NEW t \in Threads, SendMessage(d, t), NEW c \in Alone
      PROVE  ~mixed'[c]
  <2>1. \A u \in Threads : Busy(c, u) => u \in Senders[c]
    BY DEF Alone, FramingInv, ConnInv
  <2>2. d = c => \A u \in Threads \ {t} : ~Busy(c, u)
    BY <1>1, <2>1, OneSender DEF SendMessage
  <2> QED BY <1>1, <2>2 DEF SendMessage, AloneInv, Alone, FramingInv, FramingTypeOK
<1>2. UNCHANGED mixed \/ \E d \in Conns, t \in Threads : SendMessage(d, t)
  BY DEF Next, vars, SendAll, SendFails, SenderEnds, ConnectionCut, Receive, EpollWait, HandleEvent,
         RecvAll, RecvEnds, HeaderDone, BodyDone, Disconnect
<1>3. Alone' = Alone
  BY DEF Alone
<1> QED BY <1>1, <1>2, <1>3 DEF AloneInv

(* What a step of Framing does to what a Channel has of it.                *)
LEMMA ChannelStep ==
  ASSUME FramingInv, AloneInv, [Next]_vars
  PROVE  [Ch!Next]_(Ch!channelVars)
<1>0. FramingTypeOK /\ Alone \subseteq Conns /\ Alone' = Alone
  BY DEF FramingInv, Alone
<1>1. CASE UNCHANGED <<given, received, open>>
  BY <1>1 DEF Ch!channelVars, OnAlone, Alone
<1>2. ASSUME NEW c \in Conns, NEW t \in Threads, SendMessage(c, t)
      PROVE  [Ch!Next]_(Ch!channelVars)
  <2> DEFINE m == [by |-> t, no |-> Len(given[c]) + 1]
  <2>1. given' = [given EXCEPT ![c] = Append(@, m)] /\ UNCHANGED <<received, open>>
    BY <1>2 DEF SendMessage
  <2>2. m \in Messages
    <3>1. Len(given[c]) \in Nat /\ Len(given[c]) < MaxGiven
      BY <1>0, <1>2, LenProperties DEF SendMessage, FramingTypeOK
    <3> QED BY <3>1, FramingAssumption DEF Messages
  <2> HIDE DEF m
  <2>3. OnAlone(received)' = OnAlone(received) /\ OnAlone(open)' = OnAlone(open)
    BY <2>1, <1>0 DEF OnAlone
  <2>4. CASE c \in Alone
    <3>1. OnAlone(given)' = [OnAlone(given) EXCEPT ![c] = Append(@, m)]
      BY <1>0, <2>1, <2>4 DEF OnAlone, FramingTypeOK
    <3> QED BY <2>2, <2>3, <2>4, <3>1 DEF Ch!Next, Ch!Give
  <2>5. CASE c \notin Alone
    <3>1. OnAlone(given)' = OnAlone(given)
      BY <1>0, <2>1, <2>5 DEF OnAlone, FramingTypeOK
    <3> QED BY <2>3, <3>1 DEF Ch!channelVars
  <2> QED BY <2>4, <2>5
<1>3. ASSUME NEW c \in Conns, c = reader.conn, BodyDone, UNCHANGED open
      PROVE  [Ch!Next]_(Ch!channelVars)
  <2>1. UNCHANGED given /\ (Disconnect(c) \/ \E m : received' = [received EXCEPT ![c] = Append(@, m)])
    BY <1>3 DEF BodyDone, Disconnect
  <2>2. OnAlone(given)' = OnAlone(given) /\ OnAlone(open)' = OnAlone(open)
    BY <1>0, <1>3, <2>1 DEF OnAlone
  <2>3. CASE c \in Alone
    <3>1. /\ Len(received[c]) < Len(given[c]) /\ open[c]
          /\ received' = [received EXCEPT ![c] = Append(@, given[c][Len(@) + 1])]
      BY <1>3, <2>3, BodyDoneUnmixed DEF FramingInv, UnmixedInv, AloneInv
    <3>2. OnAlone(received)' =
            [OnAlone(received) EXCEPT ![c] = Append(@, OnAlone(given)[c][Len(@) + 1])]
      BY <1>0, <2>3, <3>1 DEF OnAlone, FramingTypeOK
    <3>3. OnAlone(open)[c] /\ Len(OnAlone(received)[c]) < Len(OnAlone(given)[c])
      BY <2>3, <3>1 DEF OnAlone
    <3> QED BY <2>2, <2>3, <3>2, <3>3 DEF Ch!Next, Ch!Receive
  <2>4. CASE c \notin Alone
    <3>1. OnAlone(received)' = OnAlone(received)
      BY <1>0, <2>1, <2>4 DEF OnAlone, FramingTypeOK, Disconnect
    <3> QED BY <2>2, <3>1 DEF Ch!channelVars
  <2> QED BY <2>3, <2>4
<1>4. ASSUME NEW c \in Conns, Disconnect(c) PROVE [Ch!Next]_(Ch!channelVars)
  <2>1. OnAlone(given)' = OnAlone(given) /\ OnAlone(received)' = OnAlone(received)
    BY <1>0, <1>4 DEF Disconnect, OnAlone
  <2>2. CASE c \in Alone
    <3>1. OnAlone(open)' = [OnAlone(open) EXCEPT ![c] = FALSE]
      BY <1>0, <1>4, <2>2 DEF Disconnect, OnAlone, FramingTypeOK
    <3> QED BY <2>1, <2>2, <3>1 DEF Ch!Next, Ch!Close
  <2>3. CASE c \notin Alone
    <3>1. OnAlone(open)' = OnAlone(open)
      BY <1>0, <1>4, <2>3 DEF Disconnect, OnAlone, FramingTypeOK
    <3> QED BY <2>1, <3>1 DEF Ch!channelVars
  <2> QED BY <2>2, <2>3
<1>5. \/ UNCHANGED <<given, received, open>>
      \/ \E c \in Conns, t \in Threads : SendMessage(c, t)
      \/ BodyDone /\ UNCHANGED open
      \/ (RecvEnds \/ HeaderDone \/ BodyDone) /\ Disconnect(reader.conn)
  BY DEF Next, vars, SendAll, SendFails, SenderEnds, ConnectionCut, Receive, EpollWait, HandleEvent,
         RecvAll, RecvEnds, HeaderDone, BodyDone
<1>6. RecvEnds \/ HeaderDone \/ BodyDone => reader.conn \in Conns
  BY <1>0, ReaderTypes DEF RecvEnds, HeaderDone, BodyDone
<1> QED BY <1>1, <1>2, <1>3, <1>4, <1>5, <1>6

(* The framing layer implements the channel on every connection with one   *)
(* sender, whatever happens on the others (send_all, recv_all and the      *)
(* event loop, common/network.c and server_network.c).                     *)
THEOREM FramingImplementsChannel == Spec => ImplementsChannel
<1>1. Init => AloneInv /\ Ch!Init
  BY DEF Init, AloneInv, Alone, Ch!Init, OnAlone
<1>2. Spec => []AloneInv
  BY <1>1, AloneStep, FramingInvariant, PTL DEF Spec
<1>3. FramingInv /\ AloneInv /\ [Next]_vars => [Ch!Next]_(Ch!channelVars)
  BY ChannelStep
<1> QED BY <1>1, <1>2, <1>3, FramingInvariant, PTL DEF Spec, ImplementsChannel, Ch!Spec
=============================================================================
