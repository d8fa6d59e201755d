----------------------------- MODULE ChatProofs -----------------------------
(***************************************************************************)
(* Proofs about Chat for lists and input lines of any length and any       *)
(* number of lines: whatever is lost, cut off or written in between, both  *)
(* players see one conversation.                                           *)
(***************************************************************************)
EXTENDS Chat, SequenceTheorems, TLAPS

(* The types of the model's state. *)
ChatTypeOK ==
  /\ up \in [Players -> BOOLEAN]
  /\ chat \in [Players -> Seq(Lines)]
  /\ toServer \in [Players -> Seq(Spoken)]
  /\ fromServer \in [Players -> Seq(Lines)]
  /\ relay \in Spoken \cup {NoLine}
  /\ relayed \in Seq(Spoken)
  /\ written \in Seq(Spoken)
  /\ \A p \in Players : Len(chat[p]) <= MAX_CHAT_MESSAGES

(* The line on its way to black is the last the server took up. *)
RelayInv == ~Idle => Len(relayed) > 0 /\ relay = relayed[Len(relayed)]

(* The lines of one writer that the server has taken up, and behind them   *)
(* those it has not, have rising numbers, none higher than what has been   *)
(* written.                                                                *)
Ordered(unread, R, n) ==
  /\ \A p \in Players : \A i \in 1..Len(unread[p]) :
       /\ unread[p][i].by = p
       /\ unread[p][i].no <= n
       /\ \A j \in 1..Len(unread[p]) : i < j => unread[p][i].no < unread[p][j].no
       /\ \A k \in 1..Len(R) : R[k].by = p => R[k].no < unread[p][i].no
  /\ \A k \in 1..Len(R) : R[k].no <= n
  /\ \A k, l \in 1..Len(R) : k < l /\ R[k].by = R[l].by => R[k].no < R[l].no

OrderInv == Ordered(toServer, relayed, Len(written))

(* A list follows a sequence of lines: its lines stand in the sequence, in *)
(* its order; where nothing else may be missing, only the oldest are, and  *)
(* these only from a list that is full.                                    *)
Said(list) == {i \in 1..Len(list) : list[i] \in Spoken}
Follows(list, R, gapless, full) ==
  \E at \in [Said(list) -> 1..Len(R)] :
    /\ \A i \in Said(list) : list[i] = R[at[i]]
    /\ \A i, j \in Said(list) : i < j => at[i] < at[j]
    /\ gapless =>
         \A k \in 1..Len(R) :
           (\E i \in Said(list) : at[i] = k) \/ (full /\ \A i \in Said(list) : k < at[i])

Full(list) == Len(list) = MAX_CHAT_MESSAGES
ListInv ==
  \A p \in Players : up[p] =>
    Follows(chat[p] \o fromServer[p], Relayed(p), up["white"], Full(chat[p]))

ChatInv == ChatTypeOK /\ RelayInv /\ OrderInv /\ ListInv

-----------------------------------------------------------------------------
LEMMA LineFacts == Local \in Lines /\ Local \notin Spoken /\ NoLine \notin Spoken
BY DEF Local, NoLine, Lines, Spoken, Players

(* A list made of another one, line by line, follows what that followed:   *)
(* h says where each line was.                                             *)
LEMMA Kept ==
  ASSUME NEW R \in Seq(Spoken), NEW list, NEW new, NEW gapless, NEW full, NEW full2,
         Follows(list, R, gapless, full), full => full2,
         NEW h \in [Said(new) -> Said(list)],
         \A i \in Said(new) : new[i] = list[h[i]],
         \A i, j \in Said(new) : i < j => h[i] < h[j],
         \A i \in Said(list) :
           (\E j \in Said(new) : h[j] = i) \/ (full2 /\ \A j \in Said(new) : i < h[j])
  PROVE  Follows(new, R, gapless, full2)
<1>1. PICK at \in [Said(list) -> 1..Len(R)] :
        /\ \A i \in Said(list) : list[i] = R[at[i]]
        /\ \A i, j \in Said(list) : i < j => at[i] < at[j]
        /\ gapless =>
             \A k \in 1..Len(R) :
               (\E i \in Said(list) : at[i] = k) \/ (full /\ \A i \in Said(list) : k < at[i])
  BY DEF Follows
<1> DEFINE to == [j \in Said(new) |-> at[h[j]]]
<1>2. to \in [Said(new) -> 1..Len(R)] /\ \A j \in Said(new) : to[j] = at[h[j]] /\ h[j] \in Said(list)
  OBVIOUS
<1> HIDE DEF to
<1>3. \A i \in Said(new) : new[i] = R[to[i]]
  BY <1>1, <1>2
<1>4. \A i, j \in Said(new) : i < j => to[i] < to[j]
  BY <1>1, <1>2
<1>5. ASSUME gapless, NEW k \in 1..Len(R)
      PROVE  (\E i \in Said(new) : to[i] = k) \/ (full2 /\ \A i \in Said(new) : k < to[i])
  <2>1. CASE \E i \in Said(list) : at[i] = k
    <3>1. PICK i \in Said(list) : at[i] = k
      BY <2>1
    <3>2. CASE \E j \in Said(new) : h[j] = i
      BY <1>2, <3>1, <3>2
    <3>3. CASE full2 /\ \A j \in Said(new) : i < h[j]
      BY <1>1, <1>2, <3>1, <3>3
    <3> QED BY <3>2, <3>3
  <2>2. CASE full /\ \A i \in Said(list) : k < at[i]
    BY <1>2, <2>2
  <2> QED BY <1>1, <1>5, <2>1, <2>2
<1> QED BY <1>2, <1>3, <1>4, <1>5 DEF Follows

(* The elements of a list and what is on its way to it. *)
LEMMA Joined ==
  ASSUME NEW c \in Seq(Lines), NEW f \in Seq(Lines)
  PROVE  /\ c \o f \in Seq(Lines) /\ Len(c) \in Nat /\ Len(f) \in Nat
         /\ Len(c \o f) = Len(c) + Len(f)
         /\ \A i \in 1..Len(c) : (c \o f)[i] = c[i]
         /\ \A i \in 1..Len(f) : (c \o f)[Len(c) + i] = f[i]
<1>1. Len(c) \in Nat /\ Len(f) \in Nat
  BY LenProperties
<1>2. /\ c \o f \in Seq(Lines) /\ Len(c \o f) = Len(c) + Len(f)
      /\ \A i \in 1..Len(c) + Len(f) : (c \o f)[i] = IF i <= Len(c) THEN c[i] ELSE f[i - Len(c)]
  BY ConcatProperties
<1>3. ASSUME NEW i \in 1..Len(f) PROVE (c \o f)[Len(c) + i] = f[i]
  <2>1. Len(c) + i \in 1..Len(c) + Len(f) /\ ~(Len(c) + i <= Len(c)) /\ (Len(c) + i) - Len(c) = i
    BY <1>1
  <2> QED BY <1>2, <2>1
<1> QED BY <1>1, <1>2, <1>3

(* add_chat_message: what becomes of the list. *)
Dropped(c) == IF Full(c) THEN 1 ELSE 0

LEMMA WithLineFacts ==
  ASSUME NEW c \in Seq(Lines), Len(c) <= MAX_CHAT_MESSAGES, NEW x \in Lines
  PROVE  /\ WithLine(c, x) \in Seq(Lines)
         /\ Len(WithLine(c, x)) = Len(c) - Dropped(c) + 1
         /\ Len(WithLine(c, x)) <= MAX_CHAT_MESSAGES
         /\ Dropped(c) = 1 => Full(WithLine(c, x)) /\ Len(c) > 0
         /\ \A i \in 1..(Len(c) - Dropped(c)) : WithLine(c, x)[i] = c[i + Dropped(c)]
         /\ WithLine(c, x)[Len(c) - Dropped(c) + 1] = x
<1> DEFINE drop == Dropped(c)
<1>1. Len(c) \in Nat /\ MAX_CHAT_MESSAGES \in Nat \ {0}
  BY LenProperties, ChatAssumption
<1>2. CASE Full(c)
  <2>1. Len(c) = MAX_CHAT_MESSAGES /\ c # << >> /\ drop = 1
    BY <1>1, <1>2, EmptySeq DEF Full, Dropped
  <2>2. /\ Tail(c) \in Seq(Lines) /\ Len(Tail(c)) = Len(c) - 1
        /\ \A i \in 1..(Len(c) - 1) : Tail(c)[i] = c[i + 1]
    BY <2>1, HeadTailProperties
  <2>3. WithLine(c, x) = Append(Tail(c), x)
    BY <1>1, <2>1 DEF WithLine
  <2>4. /\ Append(Tail(c), x) \in Seq(Lines) /\ Len(Append(Tail(c), x)) = Len(c) - 1 + 1
        /\ \A i \in 1..(Len(c) - 1) : Append(Tail(c), x)[i] = Tail(c)[i]
        /\ Append(Tail(c), x)[Len(c) - 1 + 1] = x
    BY <2>2, AppendProperties
  <2> QED BY <1>1, <2>1, <2>2, <2>3, <2>4 DEF Full
<1>3. CASE ~Full(c)
  <2>1. WithLine(c, x) = Append(c, x) /\ drop = 0 /\ Len(c) < MAX_CHAT_MESSAGES
    BY <1>1, <1>3 DEF WithLine, Full, Dropped
  <2>2. /\ Append(c, x) \in Seq(Lines) /\ Len(Append(c, x)) = Len(c) + 1
        /\ \A i \in 1..Len(c) : Append(c, x)[i] = c[i]
        /\ Append(c, x)[Len(c) + 1] = x
    BY AppendProperties
  <2> QED BY <1>1, <2>1, <2>2
<1> QED BY <1>2, <1>3

(* A line of the client's own comes into the list. *)
LEMMA LocalAdded ==
  ASSUME NEW R \in Seq(Spoken), NEW c \in Seq(Lines), NEW f \in Seq(Lines), NEW gapless,
         Len(c) <= MAX_CHAT_MESSAGES, Follows(c \o f, R, gapless, Full(c)),
         NEW x \in Lines, x \notin Spoken
  PROVE  Follows(WithLine(c, x) \o f, R, gapless, Full(WithLine(c, x)))
<1> DEFINE list == c \o f
           w == WithLine(c, x)
           new == w \o f
<1>1. PICK drop \in {0, 1} : drop = Dropped(c)
  BY DEF Dropped
<1>2. /\ w \in Seq(Lines) /\ Len(w) = Len(c) - drop + 1
      /\ drop = 1 => Full(w) /\ Len(c) > 0
      /\ \A i \in 1..(Len(c) - drop) : w[i] = c[i + drop]
      /\ w[Len(c) - drop + 1] = x
  BY <1>1, WithLineFacts
<1> HIDE DEF w
<1>3. /\ Len(c) \in Nat /\ Len(f) \in Nat /\ Len(list) = Len(c) + Len(f)
      /\ \A i \in 1..Len(c) : list[i] = c[i]
      /\ \A i \in 1..Len(f) : list[Len(c) + i] = f[i]
  BY Joined
<1>4. /\ Len(new) = Len(c) - drop + 1 + Len(f)
      /\ \A i \in 1..(Len(c) - drop + 1) : new[i] = w[i]
      /\ \A i \in 1..Len(f) : new[Len(c) - drop + 1 + i] = f[i]
  <2>1. /\ Len(new) = Len(w) + Len(f)
        /\ \A i \in 1..Len(w) : new[i] = w[i]
        /\ \A i \in 1..Len(f) : new[Len(w) + i] = f[i]
    BY <1>2, Joined
  <2> QED BY <1>2, <2>1
<1> HIDE DEF list, new
<1> DEFINE h == [i \in Said(new) |-> IF i <= Len(c) - drop THEN i + drop ELSE i + drop - 1]
<1>5. ASSUME NEW i \in Said(new)
      PROVE  h[i] \in Said(list) /\ new[i] = list[h[i]] /\ i # Len(c) - drop + 1
  <2>1. i \in 1..Len(new) /\ new[i] \in Spoken
    BY DEF Said
  <2>2. i # Len(c) - drop + 1
    BY <1>2, <1>3, <1>4, <2>1
  <2>3. CASE i <= Len(c) - drop
    <3>1. i + drop \in 1..Len(c) /\ i \in 1..(Len(c) - drop) /\ i \in 1..(Len(c) - drop + 1)
      BY <1>3, <2>1, <2>3
    <3>2. new[i] = list[i + drop]
      BY <1>2, <1>3, <1>4, <3>1
    <3> QED BY <1>3, <2>1, <2>2, <2>3, <3>1, <3>2 DEF Said
  <2>4. CASE i > Len(c) - drop + 1
    <3>1. PICK k \in 1..Len(f) : k = i - (Len(c) - drop + 1)
      BY <1>3, <1>4, <2>1, <2>4
    <3>2. i = Len(c) - drop + 1 + k /\ i + drop - 1 = Len(c) + k /\ ~(i <= Len(c) - drop)
      BY <1>3, <2>1, <2>4, <3>1
    <3>3. new[i] = list[i + drop - 1]
      BY <1>3, <1>4, <3>2
    <3>4. Len(c) + k \in 1..Len(list)
      BY <1>3
    <3> QED BY <2>1, <2>2, <3>2, <3>3, <3>4 DEF Said
  <2> QED BY <1>3, <2>1, <2>2, <2>3, <2>4
<1>6. \A i, j \in Said(new) : i < j => h[i] < h[j]
  <2> SUFFICES ASSUME NEW i \in Said(new), NEW j \in Said(new), i < j PROVE h[i] < h[j]
    OBVIOUS
  <2>1. i # Len(c) - drop + 1 /\ j # Len(c) - drop + 1
    BY <1>5
  <2>2. i \in 1..Len(new) /\ j \in 1..Len(new)
    BY DEF Said
  <2>3. i \in Int /\ j \in Int
    BY <1>3, <1>4, <2>2
  <2> QED BY <1>3, <2>1, <2>3
<1>7. ASSUME NEW i \in Said(list)
      PROVE  (\E j \in Said(new) : h[j] = i) \/ (Full(w) /\ \A j \in Said(new) : i < h[j])
  <2>1. i \in 1..Len(list) /\ list[i] \in Spoken
    BY DEF Said
  <2>2. CASE i <= drop
    <3>1. i = 1 /\ drop = 1
      BY <2>1, <2>2
    <3>2. ASSUME NEW j \in Said(new) PROVE i < h[j]
      <4>1. j \in 1..Len(new) /\ j # Len(c) - drop + 1
        BY <1>5 DEF Said
      <4> QED BY <1>2, <1>3, <3>1, <4>1
    <3> QED BY <1>2, <3>1, <3>2
  <2>3. CASE i > drop /\ i <= Len(c)
    <3>1. i - drop \in 1..(Len(c) - drop) /\ i - drop \in 1..(Len(c) - drop + 1) /\ (i - drop) + drop = i
      BY <1>3, <2>1, <2>3
    <3>2. new[i - drop] = list[i] /\ i - drop \in 1..Len(new)
      BY <1>2, <1>3, <1>4, <2>1, <2>3, <3>1
    <3>3. i - drop \in Said(new)
      BY <2>1, <3>2 DEF Said
    <3>4. h[i - drop] = i
      BY <3>1, <3>3
    <3> QED BY <3>3, <3>4
  <2>4. CASE i > Len(c)
    <3>1. PICK k \in 1..Len(f) : k = i - Len(c)
      <4>1. i - Len(c) \in 1..Len(f)
        BY <1>3, <2>1, <2>4
      <4> QED BY <4>1
    <3>2. PICK j \in 1..Len(new) : j = Len(c) - drop + 1 + k
      <4>1. Len(c) - drop + 1 + k \in 1..Len(new)
        BY <1>2, <1>3, <1>4
      <4> QED BY <4>1
    <3>3. i = Len(c) + k /\ j + drop - 1 = i /\ ~(j <= Len(c) - drop)
      BY <1>3, <2>1, <3>1, <3>2
    <3>4. j \in Said(new)
      BY <1>3, <1>4, <2>1, <3>2, <3>3 DEF Said
    <3> QED BY <3>3, <3>4
  <2> QED BY <1>3, <2>1, <2>2, <2>3, <2>4
<1>8. h \in [Said(new) -> Said(list)]
  BY <1>5
<1>9. Follows(list, R, gapless, Full(c)) /\ (Full(c) => Full(w))
  BY <1>1, <1>2 DEF list, Dropped
<1> HIDE DEF h
<1>10. Follows(new, R, gapless, Full(w))
  BY <1>5, <1>6, <1>7, <1>8, <1>9, Kept
<1> QED BY <1>10 DEF new, w

(* The first line on its way comes into the list. *)
LEMMA LineRead ==
  ASSUME NEW R \in Seq(Spoken), NEW c \in Seq(Lines), NEW f \in Seq(Lines), NEW gapless,
         Len(c) <= MAX_CHAT_MESSAGES, Follows(c \o f, R, gapless, Full(c)), f # << >>
  PROVE  Follows(WithLine(c, Head(f)) \o Tail(f), R, gapless, Full(WithLine(c, Head(f))))
<1> DEFINE list == c \o f
           x == Head(f)
           w == WithLine(c, x)
           new == w \o Tail(f)
<1>1. PICK drop \in {0, 1} : drop = Dropped(c)
  BY DEF Dropped
<1>2. /\ x \in Lines /\ x = f[1] /\ Tail(f) \in Seq(Lines) /\ Len(Tail(f)) = Len(f) - 1
      /\ \A i \in 1..(Len(f) - 1) : Tail(f)[i] = f[i + 1]
  BY HeadTailProperties
<1>3. Len(f) \in Nat /\ Len(f) > 0
  BY EmptySeq
<1> HIDE DEF x
<1>4. /\ w \in Seq(Lines) /\ Len(w) = Len(c) - drop + 1
      /\ drop = 1 => Full(w) /\ Len(c) > 0
      /\ \A i \in 1..(Len(c) - drop) : w[i] = c[i + drop]
      /\ w[Len(c) - drop + 1] = x
  BY <1>1, <1>2, WithLineFacts
<1> HIDE DEF w
<1>5. /\ Len(c) \in Nat /\ Len(list) = Len(c) + Len(f)
      /\ \A i \in 1..Len(c) : list[i] = c[i]
      /\ \A i \in 1..Len(f) : list[Len(c) + i] = f[i]
  BY Joined
<1>6. /\ Len(new) = Len(w) + Len(Tail(f))
      /\ \A i \in 1..Len(w) : new[i] = w[i]
      /\ \A i \in 1..Len(Tail(f)) : new[Len(w) + i] = Tail(f)[i]
  BY <1>2, <1>4, Joined
<1> HIDE DEF list, new
<1>7. /\ Len(new) = Len(list) - drop
      /\ \A i \in 1..(Len(list) - drop) : new[i] = list[i + drop]
  <2>1. Len(new) = Len(list) - drop
    BY <1>2, <1>3, <1>4, <1>5, <1>6
  <2>2. ASSUME NEW i \in 1..(Len(list) - drop) PROVE new[i] = list[i + drop]
    <3>1. CASE i <= Len(c) - drop
      <4>1. i + drop \in 1..Len(c) /\ i \in 1..(Len(c) - drop) /\ i \in 1..Len(w)
        BY <1>4, <1>5, <3>1
      <4> QED BY <1>4, <1>5, <1>6, <4>1
    <3>2. CASE i = Len(c) - drop + 1
      <4>1. i + drop = Len(c) + 1 /\ i \in 1..Len(w) /\ 1 \in 1..Len(f)
        BY <1>3, <1>4, <1>5, <3>2
      <4> QED BY <1>2, <1>4, <1>5, <1>6, <3>2, <4>1
    <3>3. CASE i > Len(c) - drop + 1
      <4>1. PICK k \in 1..(Len(f) - 1) : k = i - (Len(c) - drop + 1)
        <5>1. i - (Len(c) - drop + 1) \in 1..(Len(f) - 1)
          BY <1>3, <1>5, <3>3
        <5> QED BY <5>1
      <4>2. i = Len(w) + k /\ i + drop = Len(c) + (k + 1) /\ k \in 1..Len(Tail(f)) /\ k + 1 \in 1..Len(f)
        BY <1>2, <1>3, <1>4, <1>5, <4>1
      <4>3. new[i] = f[k + 1]
        BY <1>2, <1>6, <4>2
      <4> QED BY <1>5, <4>2, <4>3
    <3> QED BY <1>5, <3>1, <3>2, <3>3
  <2> QED BY <2>1, <2>2
<1> DEFINE h == [i \in Said(new) |-> i + drop]
<1>8. Len(list) \in Nat
  BY <1>3, <1>5
<1>9. ASSUME NEW i \in Said(new) PROVE i + drop \in Said(list) /\ new[i] = list[i + drop] /\ i \in Nat /\ i > 0
  BY <1>7, <1>8 DEF Said
<1>10. ASSUME NEW i \in Said(list)
       PROVE  (\E j \in Said(new) : h[j] = i) \/ (Full(w) /\ \A j \in Said(new) : i < h[j])
  <2>1. i \in 1..Len(list) /\ list[i] \in Spoken
    BY DEF Said
  <2>2. CASE i <= drop
    <3>1. i = 1 /\ drop = 1
      BY <2>1, <2>2
    <3> QED BY <1>4, <1>9, <3>1
  <2>3. CASE i > drop
    <3>1. i - drop \in 1..(Len(list) - drop) /\ (i - drop) + drop = i
      BY <1>8, <2>1, <2>3
    <3>2. i - drop \in Said(new)
      BY <1>7, <2>1, <3>1 DEF Said
    <3> QED BY <3>1, <3>2
  <2> QED BY <2>1, <2>2, <2>3
<1>11. /\ h \in [Said(new) -> Said(list)]
       /\ \A i \in Said(new) : new[i] = list[h[i]]
       /\ \A i, j \in Said(new) : i < j => h[i] < h[j]
  BY <1>9
<1>12. Follows(list, R, gapless, Full(c)) /\ (Full(c) => Full(w))
  BY <1>1, <1>4 DEF list, Dropped
<1> HIDE DEF h
<1>13. Follows(new, R, gapless, Full(w))
  BY <1>10, <1>11, <1>12, Kept
<1> QED BY <1>13 DEF new, w, x

(* A line that is no player's is sent to the client. *)
LEMMA LocalSent ==
  ASSUME NEW R \in Seq(Spoken), NEW c \in Seq(Lines), NEW f \in Seq(Lines), NEW gapless, NEW full,
         Follows(c \o f, R, gapless, full), NEW x \in Lines, x \notin Spoken
  PROVE  Follows(c \o Append(f, x), R, gapless, full)
<1> DEFINE list == c \o f
           new == c \o Append(f, x)
<1>1. /\ list \in Seq(Lines) /\ new = Append(list, x)
      /\ Len(list) \in Nat /\ Len(new) = Len(list) + 1
      /\ \A i \in 1..Len(list) : new[i] = list[i]
      /\ new[Len(list) + 1] = x
  <2>1. /\ <<x>> \in Seq(Lines) /\ Append(f, x) = f \o <<x>>
        /\ list \in Seq(Lines) /\ Append(list, x) = list \o <<x>>
    BY AppendIsConcat, ConcatProperties
  <2>2. new = Append(list, x)
    BY <2>1, ConcatAssociative
  <2> QED BY <2>1, <2>2, LenProperties, AppendProperties
<1>2. Follows(list, R, gapless, full)
  OBVIOUS
<1> HIDE DEF list, new
<1>3. Said(new) = Said(list)
  BY <1>1 DEF Said
<1>4. \A i \in Said(list) : new[i] = list[i] /\ i \in Int
  BY <1>1 DEF Said
<1> DEFINE h == [i \in Said(new) |-> i]
<1>5. /\ h \in [Said(new) -> Said(list)]
      /\ \A i \in Said(new) : new[i] = list[h[i]]
      /\ \A i, j \in Said(new) : i < j => h[i] < h[j]
      /\ \A i \in Said(list) : \E j \in Said(new) : h[j] = i
  BY <1>3, <1>4
<1> HIDE DEF h
<1>6. Follows(new, R, gapless, full)
  BY <1>2, <1>5, Kept
<1> QED BY <1>6 DEF new

(* The next line is taken up, and sent to the client. *)
LEMMA LineSent ==
  ASSUME NEW R \in Seq(Spoken), NEW c \in Seq(Lines), NEW f \in Seq(Lines), NEW gapless, NEW full,
         Follows(c \o f, R, gapless, full), NEW x \in Spoken
  PROVE  Follows(c \o Append(f, x), Append(R, x), gapless, full)
<1> DEFINE list == c \o f
           new == c \o Append(f, x)
           S == Append(R, x)
<1>1. x \in Lines
  BY DEF Lines
<1>2. /\ list \in Seq(Lines) /\ Len(list) \in Nat /\ Len(new) = Len(list) + 1
      /\ \A i \in 1..Len(list) : new[i] = list[i]
      /\ new[Len(list) + 1] = x
  <2>1. /\ <<x>> \in Seq(Lines) /\ Append(f, x) = f \o <<x>>
        /\ list \in Seq(Lines) /\ Append(list, x) = list \o <<x>>
    BY <1>1, AppendIsConcat, ConcatProperties
  <2>2. new = Append(list, x)
    BY <2>1, ConcatAssociative
  <2> QED BY <1>1, <2>1, <2>2, LenProperties, AppendProperties
<1>3. /\ Len(R) \in Nat /\ Len(S) = Len(R) + 1
      /\ \A k \in 1..Len(R) : S[k] = R[k]
      /\ S[Len(R) + 1] = x
  BY LenProperties, AppendProperties
<1>4. PICK at \in [Said(list) -> 1..Len(R)] :
        /\ \A i \in Said(list) : list[i] = R[at[i]]
        /\ \A i, j \in Said(list) : i < j => at[i] < at[j]
        /\ gapless =>
             \A k \in 1..Len(R) :
               (\E i \in Said(list) : at[i] = k) \/ (full /\ \A i \in Said(list) : k < at[i])
  BY DEF Follows
<1> HIDE DEF list, new, S
<1> DEFINE last == Len(list) + 1
           to == [i \in Said(new) |-> IF i = last THEN Len(R) + 1 ELSE at[i]]
<1>5. /\ Said(new) = Said(list) \cup {last} /\ last \notin Said(list)
      /\ \A i \in Said(list) : new[i] = list[i] /\ i \in 1..Len(list)
  BY <1>2 DEF Said
<1>6. \A i \in Said(list) : at[i] \in 1..Len(R) /\ to[i] = at[i]
  BY <1>5
<1>7. to[last] = Len(R) + 1
  BY <1>5
<1>8. to \in [Said(new) -> 1..Len(S)]
  BY <1>3, <1>5, <1>6
<1> HIDE DEF to
<1>9. \A i \in Said(new) : new[i] = S[to[i]]
  BY <1>2, <1>3, <1>4, <1>5, <1>6, <1>7
<1>10. \A i, j \in Said(new) : i < j => to[i] < to[j]
  <2> SUFFICES ASSUME NEW i \in Said(new), NEW j \in Said(new), i < j PROVE to[i] < to[j]
    OBVIOUS
  <2>1. i \in Said(list)
    BY <1>2, <1>5
  <2>2. CASE j \in Said(list)
    BY <1>4, <1>6, <2>1, <2>2
  <2>3. CASE j = last
    BY <1>3, <1>6, <1>7, <2>1, <2>3
  <2> QED BY <1>5, <2>2, <2>3
<1>11. ASSUME gapless, NEW k \in 1..Len(S)
       PROVE  (\E i \in Said(new) : to[i] = k) \/ (full /\ \A i \in Said(new) : k < to[i])
  <2>1. CASE k = Len(R) + 1
    BY <1>5, <1>7, <2>1
  <2>2. CASE k \in 1..Len(R)
    <3>1. CASE \E i \in Said(list) : at[i] = k
      BY <1>5, <1>6, <3>1
    <3>2. CASE full /\ \A i \in Said(list) : k < at[i]
      <4>1. k < Len(R) + 1
        BY <1>3, <2>2
      <4> QED BY <1>5, <1>6, <1>7, <3>2, <4>1
    <3> QED BY <1>4, <1>11, <2>2, <3>1, <3>2
  <2> QED BY <1>3, <2>1, <2>2
<1> QED BY <1>8, <1>9, <1>10, <1>11 DEF Follows, new, S

(* The server takes up a line that a client misses. *)
LEMMA LineMissed ==
  ASSUME NEW R \in Seq(Spoken), NEW list, NEW gapless, NEW full,
         Follows(list, R, gapless, full), NEW x \in Spoken
  PROVE  Follows(list, Append(R, x), FALSE, full)
<1>1. PICK at \in [Said(list) -> 1..Len(R)] :
        /\ \A i \in Said(list) : list[i] = R[at[i]]
        /\ \A i, j \in Said(list) : i < j => at[i] < at[j]
  BY DEF Follows
<1>2. /\ Len(R) \in Nat /\ Len(Append(R, x)) = Len(R) + 1
      /\ \A k \in 1..Len(R) : Append(R, x)[k] = R[k]
  BY LenProperties, AppendProperties
<1>3. at \in [Said(list) -> 1..Len(Append(R, x))]
  BY <1>2
<1>4. \A i \in Said(list) : list[i] = Append(R, x)[at[i]]
  BY <1>1, <1>2
<1> QED BY <1>1, <1>3, <1>4 DEF Follows

LEMMA FollowsLess ==
  ASSUME NEW R, NEW list, NEW gapless, NEW full, Follows(list, R, gapless, full),
         NEW gapless2, gapless2 => gapless
  PROVE  Follows(list, R, gapless2, full)
BY DEF Follows

-----------------------------------------------------------------------------
(* What the operators of the model do to the state. *)
LEMMA SentFacts ==
  ASSUME ChatTypeOK, NEW inboxes \in [Players -> Seq(Lines)], NEW p \in Players, NEW x \in Lines
  PROVE  /\ Sent(inboxes, p, x) \in [Players -> Seq(Lines)]
         /\ \A q \in Players :
              Sent(inboxes, p, x)[q] = IF q = p /\ up[p] THEN Append(inboxes[q], x) ELSE inboxes[q]
<1>1. Append(inboxes[p], x) \in Seq(Lines)
  BY AppendProperties
<1> QED BY <1>1 DEF Sent

LEMMA RelayedFacts ==
  ASSUME ChatTypeOK, RelayInv, NEW p \in Players
  PROVE  /\ Relayed(p) \in Seq(Spoken)
         /\ p = "white" \/ Idle => Relayed(p) = relayed
         /\ p = "black" /\ ~Idle => relayed = Append(Relayed(p), relay) /\ relay \in Spoken
<1>1. relayed \in Seq(Spoken) /\ Len(relayed) \in Nat
  BY LenProperties DEF ChatTypeOK
<1>2. CASE p = "black" /\ ~Idle
  <2>1. /\ Len(relayed) > 0 /\ relay = relayed[Len(relayed)] /\ relay \in Spoken
        /\ Relayed(p) = SubSeq(relayed, 1, Len(relayed) - 1)
    BY <1>2 DEF RelayInv, ChatTypeOK, Idle, Relayed
  <2>2. /\ Relayed(p) \in Seq(Spoken) /\ Len(Relayed(p)) = Len(relayed) - 1
        /\ \A i \in 1..(Len(relayed) - 1) : Relayed(p)[i] = relayed[i]
    <3>1. \A i \in 1..(Len(relayed) - 1) : relayed[i] \in Spoken
      BY <1>1, ElementOfSeq
    <3>2. 1 \in Int /\ Len(relayed) - 1 \in Int
      BY <1>1
    <3>3. /\ SubSeq(relayed, 1, Len(relayed) - 1) \in Seq(Spoken)
          /\ Len(SubSeq(relayed, 1, Len(relayed) - 1)) =
               IF 1 <= Len(relayed) - 1 THEN Len(relayed) - 1 - 1 + 1 ELSE 0
          /\ \A i \in 1..(Len(relayed) - 1 - 1 + 1) :
               SubSeq(relayed, 1, Len(relayed) - 1)[i] = relayed[1 + i - 1]
      BY <3>1, <3>2, SubSeqProperties
    <3>4. /\ Len(relayed) - 1 - 1 + 1 = Len(relayed) - 1
          /\ 1 <= Len(relayed) - 1 \/ Len(relayed) - 1 = 0
      <4>1. \A n \in Nat : n > 0 => n - 1 - 1 + 1 = n - 1 /\ (1 <= n - 1 \/ n - 1 = 0)
        OBVIOUS
      <4> QED BY <1>1, <2>1, <4>1
    <3>5. \A i \in 1..(Len(relayed) - 1) : 1 + i - 1 = i
      BY <1>1
    <3> QED BY <2>1, <3>3, <3>4, <3>5
  <2>3. /\ Append(Relayed(p), relay) \in Seq(Spoken)
        /\ Len(Append(Relayed(p), relay)) = Len(relayed)
        /\ \A i \in 1..(Len(relayed) - 1) : Append(Relayed(p), relay)[i] = relayed[i]
        /\ Append(Relayed(p), relay)[Len(relayed)] = relay
    BY <1>1, <2>1, <2>2, AppendProperties
  <2>4. \A i \in 1..Len(relayed) : Append(Relayed(p), relay)[i] = relayed[i]
    BY <1>1, <2>1, <2>3
  <2>5. relayed = Append(Relayed(p), relay)
    BY <1>1, <2>3, <2>4, SeqEqual
  <2> QED BY <1>2, <2>1, <2>2, <2>5
<1>3. CASE ~(p = "black" /\ ~Idle)
  BY <1>1, <1>3 DEF Relayed
<1> QED BY <1>2, <1>3

(* Every step keeps the types. *)
LEMMA TypeStep == ChatTypeOK /\ [Next]_vars => ChatTypeOK'
<1> SUFFICES ASSUME ChatTypeOK, [Next]_vars PROVE ChatTypeOK'
  OBVIOUS
<1> USE LineFacts
<1>1. CASE UNCHANGED vars
  BY <1>1 DEF vars, clientVars, serverVars, wireVars, ChatTypeOK
<1>2. ASSUME NEW p \in Players, EnableChatInput(p) \/ EditChatInput(p) \/ DisableChatInput(p)
      PROVE  ChatTypeOK'
  BY <1>2 DEF EnableChatInput, EditChatInput, DisableChatInput, SetInput, serverVars, wireVars, ChatTypeOK
<1>3. ASSUME NEW p \in Players, NEW x \in Lines, AddChat(p, x)
      PROVE  chat' \in [Players -> Seq(Lines)] /\ \A q \in Players : Len(chat'[q]) <= MAX_CHAT_MESSAGES
  <2>1. chat' = [chat EXCEPT ![p] = WithLine(chat[p], x)]
    BY <1>3 DEF AddChat
  <2>2. WithLine(chat[p], x) \in Seq(Lines) /\ Len(WithLine(chat[p], x)) <= MAX_CHAT_MESSAGES
    BY WithLineFacts DEF ChatTypeOK
  <2> HIDE DEF WithLine
  <2> QED BY <2>1, <2>2 DEF ChatTypeOK
<1>4. ASSUME NEW p \in Players, SendChatMessage(p) PROVE ChatTypeOK'
  <2>1. CASE /\ up[p]
             /\ Len(written) < MaxLines
             /\ LET line == [by |-> p, no |-> Len(written) + 1]
                IN /\ written' = Append(written, line)
                   /\ toServer' = [toServer EXCEPT ![p] = Append(@, line)]
             /\ UNCHANGED chat
    <3> DEFINE line == [by |-> p, no |-> Len(written) + 1]
    <3>1. Len(written) \in Nat /\ line \in Spoken
      <4>1. Len(written) \in Nat
        BY LenProperties DEF ChatTypeOK
      <4> QED BY <2>1, <4>1, ChatAssumption DEF Spoken
    <3> HIDE DEF line
    <3>2. written' = Append(written, line) /\ toServer' = [toServer EXCEPT ![p] = Append(toServer[p], line)]
      BY <2>1 DEF line
    <3>3. Append(written, line) \in Seq(Spoken) /\ Append(toServer[p], line) \in Seq(Spoken)
      BY <3>1, AppendProperties DEF ChatTypeOK
    <3> QED BY <1>4, <2>1, <3>2, <3>3 DEF SendChatMessage, serverVars, ChatTypeOK
  <2>2. CASE ~up[p] /\ (AddChat(p, Local) \/ UNCHANGED chat) /\ UNCHANGED <<written, toServer>>
    BY <1>3, <1>4, <2>2 DEF SendChatMessage, serverVars, ChatTypeOK
  <2> QED BY <1>4, <2>1, <2>2 DEF SendChatMessage
<1>5. ASSUME NEW p \in Players, OfferDraw(p) PROVE ChatTypeOK'
  BY <1>3, <1>5 DEF OfferDraw, serverVars, wireVars, ChatTypeOK
<1>6. ASSUME NEW p \in Players, ReceiveLine(p) PROVE ChatTypeOK'
  <2>1. Head(fromServer[p]) \in Lines /\ Tail(fromServer[p]) \in Seq(Lines)
    BY <1>6, HeadTailProperties DEF ReceiveLine, ChatTypeOK
  <2>2. AddChat(p, Head(fromServer[p])) /\ fromServer' = [fromServer EXCEPT ![p] = Tail(fromServer[p])]
    BY <1>6 DEF ReceiveLine
  <2> QED BY <1>3, <1>6, <2>1, <2>2 DEF ReceiveLine, serverVars, ChatTypeOK
<1>7. ASSUME NEW p \in Players, Take(p)
      PROVE  /\ toServer' \in [Players -> Seq(Spoken)]
             /\ Head(toServer[p]) \in Spoken /\ Head(toServer[p]) \in Lines
  <2>1. Head(toServer[p]) \in Spoken /\ Tail(toServer[p]) \in Seq(Spoken)
    BY <1>7, HeadTailProperties DEF Take, ChatTypeOK
  <2> QED BY <1>7, <2>1 DEF Take, ChatTypeOK, Lines
<1>8. ASSUME NEW p \in Players, ChatWithoutGame(p) PROVE ChatTypeOK'
  BY <1>7, <1>8, SentFacts DEF ChatWithoutGame, Refused, clientVars, serverVars, ChatTypeOK
<1>9. ASSUME NEW p \in Players, ChatToWhite(p) PROVE ChatTypeOK'
  <2> DEFINE line == Head(toServer[p])
  <2>1. /\ toServer' \in [Players -> Seq(Spoken)] /\ line \in Spoken /\ line \in Lines
        /\ "white" \in Players
    BY <1>7, <1>9 DEF ChatToWhite, Players
  <2>2. /\ relayed' = Append(relayed, line)
        /\ \/ relay' = line /\ fromServer' = Sent(fromServer, "white", line)
           \/ relay' = relay /\ fromServer' = Sent(fromServer, p, Local)
        /\ UNCHANGED <<chat, written, up>>
    BY <1>9 DEF ChatToWhite, Refused, clientVars
  <2> HIDE DEF line
  <2>3. relayed' \in Seq(Spoken)
    BY <2>1, <2>2, AppendProperties DEF ChatTypeOK
  <2>4. fromServer' \in [Players -> Seq(Lines)]
    <3>1. fromServer \in [Players -> Seq(Lines)]
      BY DEF ChatTypeOK
    <3>2. /\ Sent(fromServer, "white", line) \in [Players -> Seq(Lines)]
          /\ Sent(fromServer, p, Local) \in [Players -> Seq(Lines)]
      BY <2>1, <3>1, SentFacts
    <3> QED BY <2>2, <3>2
  <2> QED BY <2>1, <2>2, <2>3, <2>4 DEF ChatTypeOK
<1>10. CASE ChatToBlack
  <2>1. "black" \in Players /\ relay \in Spoken /\ relay \in Lines /\ relay.by \in Players
    BY <1>10 DEF ChatToBlack, Idle, ChatTypeOK, Players, Lines, Spoken
  <2>2. fromServer' \in [Players -> Seq(Lines)]
    <3>1. fromServer \in [Players -> Seq(Lines)]
      BY DEF ChatTypeOK
    <3>2. /\ Sent(fromServer, "black", relay) \in [Players -> Seq(Lines)]
          /\ Sent(fromServer, relay.by, Local) \in [Players -> Seq(Lines)]
      BY <2>1, <3>1, SentFacts
    <3> QED BY <1>10, <3>2 DEF ChatToBlack, Refused
  <2> QED BY <1>10, <2>2 DEF ChatToBlack, clientVars, ChatTypeOK
<1>11. ASSUME NEW p \in Players, Lose(p) PROVE ChatTypeOK'
  <2>1. << >> \in Seq(Lines)
    BY EmptySeq
  <2>2. PICK n \in 0..Len(toServer[p]) : toServer' = [toServer EXCEPT ![p] = SubSeq(toServer[p], 1, n)]
    BY <1>11 DEF Lose
  <2>3. SubSeq(toServer[p], 1, n) \in Seq(Spoken)
    <3>1. Len(toServer[p]) \in Nat /\ \A i \in 1..Len(toServer[p]) : toServer[p][i] \in Spoken
      BY LenProperties, ElementOfSeq DEF ChatTypeOK
    <3>2. n \in Int /\ 1 \in Int /\ \A i \in 1..n : toServer[p][i] \in Spoken
      BY <3>1
    <3> QED BY <3>2, SubSeqProperties
  <2> QED BY <1>11, <2>1, <2>2, <2>3 DEF Lose, clientVars, serverVars, ChatTypeOK
<1>12. ASSUME NEW p \in Players, LossNoticed(p) PROVE ChatTypeOK'
  <2>1. Other(p) \in Players
    BY DEF Other, Players
  <2>2. fromServer' \in [Players -> Seq(Lines)]
    BY <1>12, <2>1, SentFacts DEF LossNoticed, ChatTypeOK
  <2> QED BY <1>12, <2>2 DEF LossNoticed, clientVars, ChatTypeOK
<1>13. CASE GameEnds
  <2>1. "white" \in Players /\ "black" \in Players
    BY DEF Players
  <2>2. Sent(fromServer, "white", Local) \in [Players -> Seq(Lines)]
    BY <2>1, SentFacts DEF ChatTypeOK
  <2>3. fromServer' \in [Players -> Seq(Lines)]
    BY <1>13, <2>1, <2>2, SentFacts DEF GameEnds
  <2> QED BY <1>13, <2>3 DEF GameEnds, clientVars, ChatTypeOK
<1> QED BY <1>1, <1>2, <1>4, <1>5, <1>6, <1>8, <1>9, <1>10, <1>11, <1>12, <1>13 DEF Next, Server

LEMMA RelayStep == ChatTypeOK /\ RelayInv /\ [Next]_vars => RelayInv'
<1> SUFFICES ASSUME ChatTypeOK, RelayInv, [Next]_vars PROVE RelayInv'
  OBVIOUS
<1>1. ASSUME NEW p \in Players, ChatToWhite(p) PROVE RelayInv'
  <2> DEFINE line == Head(toServer[p])
  <2>1. Idle /\ line \in Spoken
    BY <1>1, HeadTailProperties DEF ChatToWhite, Take, ChatTypeOK
  <2>2. relayed' = Append(relayed, line) /\ (relay' = line \/ relay' = relay)
    BY <1>1 DEF ChatToWhite
  <2> HIDE DEF line
  <2>3. Len(relayed') > 0 /\ relayed'[Len(relayed')] = line
    <3>1. Len(relayed) \in Nat
      BY LenProperties DEF ChatTypeOK
    <3>2. Len(relayed') = Len(relayed) + 1 /\ relayed'[Len(relayed) + 1] = line
      BY <2>1, <2>2, AppendProperties DEF ChatTypeOK
    <3> QED BY <3>1, <3>2
  <2> QED BY <2>1, <2>2, <2>3 DEF RelayInv, Idle
<1>2. CASE ChatToBlack
  BY <1>2 DEF ChatToBlack, RelayInv, Idle
<1>3. CASE UNCHANGED <<relay, relayed>>
  BY <1>3 DEF RelayInv, Idle
<1> QED
  BY <1>1, <1>2, <1>3
  DEF Next, Server, vars, serverVars, EnableChatInput, EditChatInput, DisableChatInput, SendChatMessage,
      OfferDraw, ReceiveLine, Lose, ChatWithoutGame, LossNoticed, GameEnds

(* What is left of the lines not yet taken up stays in order. *)
LEMMA FewerOrdered ==
  ASSUME NEW unread \in [Players -> Seq(Spoken)], NEW R \in Seq(Spoken), NEW n \in Nat,
         Ordered(unread, R, n), NEW p \in Players, NEW s \in Seq(Spoken), NEW d \in Nat,
         Len(s) + d <= Len(unread[p]), \A i \in 1..Len(s) : s[i] = unread[p][i + d]
  PROVE  Ordered([unread EXCEPT ![p] = s], R, n)
<1> DEFINE new == [unread EXCEPT ![p] = s]
<1>1. /\ new[p] = s /\ \A q \in Players : q # p => new[q] = unread[q]
      /\ Len(s) \in Nat /\ Len(unread[p]) \in Nat
  BY LenProperties
<1> HIDE DEF new
<1>2. \A i \in 1..Len(s) : i + d \in 1..Len(unread[p]) /\ s[i] = unread[p][i + d] /\ i \in Int
  BY <1>1
<1>3. ASSUME NEW i \in 1..Len(s)
      PROVE  /\ s[i].by = p /\ s[i].no <= n
             /\ \A j \in 1..Len(s) : i < j => s[i].no < s[j].no
             /\ \A k \in 1..Len(R) : R[k].by = p => R[k].no < s[i].no
  <2>1. /\ s[i].by = p /\ s[i].no <= n
        /\ \A k \in 1..Len(R) : R[k].by = p => R[k].no < s[i].no
    BY <1>2 DEF Ordered
  <2>2. ASSUME NEW j \in 1..Len(s), i < j PROVE s[i].no < s[j].no
    <3>1. i + d < j + d
      BY <1>2, <2>2
    <3> QED BY <1>2, <3>1 DEF Ordered
  <2> QED BY <2>1, <2>2
<1>4. Ordered(new, R, n)
  <2>1. ASSUME NEW q \in Players, NEW i \in 1..Len(new[q])
        PROVE  /\ new[q][i].by = q /\ new[q][i].no <= n
               /\ \A j \in 1..Len(new[q]) : i < j => new[q][i].no < new[q][j].no
               /\ \A k \in 1..Len(R) : R[k].by = q => R[k].no < new[q][i].no
    <3>1. CASE q = p
      BY <1>1, <1>3, <3>1
    <3>2. CASE q # p
      BY <1>1, <3>2 DEF Ordered
    <3> QED BY <3>1, <3>2
  <2> QED BY <2>1 DEF Ordered
<1> QED BY <1>4 DEF new

(* A line just written is the last of all. *)
LEMMA WrittenOrdered ==
  ASSUME NEW unread \in [Players -> Seq(Spoken)], NEW R \in Seq(Spoken), NEW n \in Nat,
         Ordered(unread, R, n), NEW p \in Players, NEW x \in Spoken, x.by = p, x.no = n + 1
  PROVE  Ordered([unread EXCEPT ![p] = Append(unread[p], x)], R, n + 1)
<1> DEFINE s == Append(unread[p], x)
           new == [unread EXCEPT ![p] = s]
           m == Len(unread[p])
<1>1. /\ m \in Nat /\ Len(s) = m + 1 /\ s[m + 1] = x
      /\ \A i \in 1..m : s[i] = unread[p][i]
  BY LenProperties, AppendProperties
<1>2. new[p] = s /\ \A q \in Players : q # p => new[q] = unread[q]
  OBVIOUS
<1>3. \A y \in Spoken : y.no \in Int
  BY ChatAssumption DEF Spoken
<1>4. /\ \A q \in Players : \A i \in 1..Len(unread[q]) : unread[q][i].no \in Int
      /\ \A k \in 1..Len(R) : R[k].no \in Int /\ R[k].no <= n
  BY <1>3, ElementOfSeq DEF Ordered
<1> HIDE DEF new, s
<1>5. ASSUME NEW i \in 1..(m + 1)
      PROVE  /\ s[i].by = p /\ s[i].no <= n + 1
             /\ \A j \in 1..(m + 1) : i < j => s[i].no < s[j].no
             /\ \A k \in 1..Len(R) : R[k].by = p => R[k].no < s[i].no
  <2>1. CASE i = m + 1
    <3>1. s[i].by = p /\ s[i].no = n + 1
      BY <1>1, <2>1
    <3>2. \A j \in 1..(m + 1) : ~(i < j)
      BY <1>1, <2>1
    <3>3. \A k \in 1..Len(R) : R[k].no < n + 1
      BY <1>4
    <3> QED BY <3>1, <3>2, <3>3
  <2>2. CASE i \in 1..m
    <3>1. /\ s[i] = unread[p][i] /\ s[i].no \in Int /\ s[i].no <= n /\ s[i].by = p
          /\ \A j \in 1..m : i < j => s[i].no < s[j].no
          /\ \A k \in 1..Len(R) : R[k].by = p => R[k].no < s[i].no
      BY <1>1, <1>4, <2>2 DEF Ordered
    <3>2. s[i].no < s[m + 1].no /\ s[i].no <= n + 1
      BY <1>1, <3>1
    <3>3. \A j \in 1..(m + 1) : j = m + 1 \/ j \in 1..m
      BY <1>1
    <3> QED BY <3>1, <3>2, <3>3
  <2> QED BY <1>1, <2>1, <2>2
<1>6. ASSUME NEW q \in Players, NEW i \in 1..Len(new[q])
      PROVE  /\ new[q][i].by = q /\ new[q][i].no <= n + 1
             /\ \A j \in 1..Len(new[q]) : i < j => new[q][i].no < new[q][j].no
             /\ \A k \in 1..Len(R) : R[k].by = q => R[k].no < new[q][i].no
  <2>1. CASE q = p
    BY <1>1, <1>2, <1>5, <2>1
  <2>2. CASE q # p
    <3>1. /\ new[q] = unread[q] /\ new[q][i].no \in Int /\ new[q][i].no <= n
      BY <1>2, <1>4, <2>2 DEF Ordered
    <3> QED BY <3>1 DEF Ordered
  <2> QED BY <2>1, <2>2
<1>7. /\ \A k \in 1..Len(R) : R[k].no <= n + 1
      /\ \A k, l \in 1..Len(R) : k < l /\ R[k].by = R[l].by => R[k].no < R[l].no
  BY <1>4 DEF Ordered
<1>8. Ordered(new, R, n + 1)
  BY <1>6, <1>7 DEF Ordered
<1> QED BY <1>8 DEF new, s

(* The first line of a writer is taken up. *)
LEMMA TakenOrdered ==
  ASSUME NEW unread \in [Players -> Seq(Spoken)], NEW R \in Seq(Spoken), NEW n \in Nat,
         Ordered(unread, R, n), NEW p \in Players, unread[p] # << >>
  PROVE  /\ Ordered([unread EXCEPT ![p] = Tail(unread[p])], R, n)
         /\ Ordered([unread EXCEPT ![p] = Tail(unread[p])], Append(R, Head(unread[p])), n)
<1> DEFINE s == Tail(unread[p])
           x == Head(unread[p])
           new == [unread EXCEPT ![p] = s]
           S == Append(R, x)
<1>1. /\ x \in Spoken /\ x = unread[p][1] /\ s \in Seq(Spoken)
      /\ Len(s) = Len(unread[p]) - 1 /\ Len(unread[p]) \in Nat /\ Len(unread[p]) > 0
      /\ \A i \in 1..Len(s) : s[i] = unread[p][i + 1]
  BY HeadTailProperties, EmptySeq
<1>2. Ordered(new, R, n)
  <2>1. 1 \in Nat /\ Len(s) + 1 <= Len(unread[p])
    BY <1>1
  <2> HIDE DEF s
  <2> QED BY <1>1, <2>1, FewerOrdered
<1>3. /\ Len(R) \in Nat /\ Len(S) = Len(R) + 1 /\ S[Len(R) + 1] = x
      /\ \A k \in 1..Len(R) : S[k] = R[k]
  BY <1>1, LenProperties, AppendProperties
<1>4. new[p] = s /\ \A q \in Players : q # p => new[q] = unread[q]
  OBVIOUS
<1>5. /\ x.by = p /\ x.no <= n
      /\ \A i \in 1..Len(s) : x.no < s[i].no
      /\ \A k \in 1..Len(R) : R[k].by = p => R[k].no < x.no
  <2>1. 1 \in 1..Len(unread[p])
    BY <1>1
  <2>2. \A i \in 1..Len(s) : i + 1 \in 1..Len(unread[p]) /\ 1 < i + 1
    BY <1>1
  <2> HIDE DEF s, x
  <2> QED BY <1>1, <2>1, <2>2 DEF Ordered
<1> HIDE DEF new, s, x, S
<1>6. ASSUME NEW q \in Players, NEW i \in 1..Len(new[q]), NEW k \in 1..Len(S), S[k].by = q
      PROVE  S[k].no < new[q][i].no
  <2>1. CASE k = Len(R) + 1
    BY <1>3, <1>4, <1>5, <1>6, <2>1
  <2>2. CASE k \in 1..Len(R)
    BY <1>2, <1>3, <1>6, <2>2 DEF Ordered
  <2> QED BY <1>3, <2>1, <2>2
<1>7. ASSUME NEW k \in 1..Len(S) PROVE S[k].no <= n
  <2>1. CASE k = Len(R) + 1
    BY <1>3, <1>5, <2>1
  <2>2. CASE k \in 1..Len(R)
    BY <1>2, <1>3, <2>2 DEF Ordered
  <2> QED BY <1>3, <2>1, <2>2
<1>8. ASSUME NEW k \in 1..Len(S), NEW l \in 1..Len(S), k < l, S[k].by = S[l].by
      PROVE  S[k].no < S[l].no
  <2>1. k \in 1..Len(R)
    BY <1>3, <1>8
  <2>2. CASE l = Len(R) + 1
    BY <1>3, <1>5, <1>8, <2>1, <2>2
  <2>3. CASE l \in 1..Len(R)
    BY <1>2, <1>3, <1>8, <2>1, <2>3 DEF Ordered
  <2> QED BY <1>3, <2>2, <2>3
<1>9. Ordered(new, S, n)
  BY <1>2, <1>6, <1>7, <1>8 DEF Ordered
<1> QED BY <1>2, <1>9 DEF new, s, x, S

LEMMA OrderStep == ChatTypeOK /\ OrderInv /\ [Next]_vars => OrderInv'
<1> SUFFICES ASSUME ChatTypeOK, OrderInv, [Next]_vars PROVE OrderInv'
  OBVIOUS
<1>1. /\ toServer \in [Players -> Seq(Spoken)] /\ relayed \in Seq(Spoken)
      /\ written \in Seq(Spoken) /\ Len(written) \in Nat
      /\ Ordered(toServer, relayed, Len(written))
  BY LenProperties DEF ChatTypeOK, OrderInv
<1>2. ASSUME NEW p \in Players, SendChatMessage(p) PROVE OrderInv'
  <2>1. CASE UNCHANGED <<written, toServer>>
    BY <1>2, <2>1 DEF SendChatMessage, serverVars, OrderInv
  <2>2. CASE /\ Len(written) < MaxLines
             /\ LET line == [by |-> p, no |-> Len(written) + 1]
                IN /\ written' = Append(written, line)
                   /\ toServer' = [toServer EXCEPT ![p] = Append(@, line)]
    <3> DEFINE line == [by |-> p, no |-> Len(written) + 1]
    <3>1. line \in Spoken /\ line.by = p /\ line.no = Len(written) + 1
      BY <1>1, <2>2, ChatAssumption DEF Spoken
    <3> HIDE DEF line
    <3>2. written' = Append(written, line) /\ toServer' = [toServer EXCEPT ![p] = Append(toServer[p], line)]
      BY <2>2 DEF line
    <3>3. Len(written') = Len(written) + 1
      BY <1>1, <3>1, <3>2, AppendProperties
    <3>4. Ordered(toServer', relayed, Len(written) + 1)
      BY <1>1, <3>1, <3>2, WrittenOrdered
    <3> QED BY <1>2, <3>3, <3>4 DEF SendChatMessage, serverVars, OrderInv
  <2> QED BY <1>2, <2>1, <2>2 DEF SendChatMessage
<1>3. ASSUME NEW p \in Players, Take(p), UNCHANGED written,
             relayed' = relayed \/ relayed' = Append(relayed, Head(toServer[p]))
      PROVE  OrderInv'
  <2>1. toServer[p] # << >> /\ toServer' = [toServer EXCEPT ![p] = Tail(toServer[p])]
    BY <1>3 DEF Take
  <2>2. Ordered(toServer', relayed', Len(written))
    BY <1>1, <1>3, <2>1, TakenOrdered
  <2> QED BY <1>3, <2>2 DEF OrderInv
<1>4. ASSUME NEW p \in Players, Lose(p) PROVE OrderInv'
  <2>1. PICK n \in 0..Len(toServer[p]) : toServer' = [toServer EXCEPT ![p] = SubSeq(toServer[p], 1, n)]
    BY <1>4 DEF Lose
  <2> DEFINE s == SubSeq(toServer[p], 1, n)
  <2>2. /\ Len(toServer[p]) \in Nat /\ n \in Nat /\ n <= Len(toServer[p])
        /\ \A i \in 1..n : toServer[p][i] \in Spoken
    <3>1. Len(toServer[p]) \in Nat
      BY <1>1, LenProperties
    <3>2. n \in Nat /\ n <= Len(toServer[p]) /\ \A i \in 1..n : i \in 1..Len(toServer[p])
      BY <3>1
    <3> QED BY <1>1, <3>1, <3>2, ElementOfSeq
  <2>3. s \in Seq(Spoken) /\ Len(s) = n /\ \A i \in 1..n : s[i] = toServer[p][i + 0]
    <3>1. 1 \in Int /\ n \in Int
      BY <2>2
    <3>2. /\ s \in Seq(Spoken) /\ Len(s) = IF 1 <= n THEN n - 1 + 1 ELSE 0
          /\ \A i \in 1..(n - 1 + 1) : s[i] = toServer[p][1 + i - 1]
      BY <2>2, <3>1, SubSeqProperties
    <3>3. (IF 1 <= n THEN n - 1 + 1 ELSE 0) = n /\ n - 1 + 1 = n
      BY <2>2
    <3>4. \A i \in 1..n : 1 + i - 1 = i + 0
      BY <2>2
    <3> HIDE DEF s
    <3> QED BY <3>2, <3>3, <3>4
  <2>4. 0 \in Nat /\ Len(s) + 0 <= Len(toServer[p])
    BY <2>2, <2>3
  <2> HIDE DEF s
  <2>5. Ordered([toServer EXCEPT ![p] = s], relayed, Len(written))
    BY <1>1, <2>3, <2>4, FewerOrdered
  <2> QED BY <1>4, <2>1, <2>5 DEF Lose, clientVars, serverVars, OrderInv, s
<1>5. CASE UNCHANGED <<toServer, relayed, written>>
  BY <1>5 DEF OrderInv
<1>6. ASSUME NEW p \in Players, ChatWithoutGame(p) PROVE OrderInv'
  BY <1>3, <1>6 DEF ChatWithoutGame, clientVars, serverVars
<1>7. ASSUME NEW p \in Players, ChatToWhite(p) PROVE OrderInv'
  BY <1>3, <1>7 DEF ChatToWhite, clientVars
<1>8. ASSUME NEW p \in Players,
             \/ EnableChatInput(p) \/ EditChatInput(p) \/ DisableChatInput(p)
             \/ OfferDraw(p) \/ ReceiveLine(p) \/ LossNoticed(p)
      PROVE  OrderInv'
  BY <1>5, <1>8 DEF EnableChatInput, EditChatInput, DisableChatInput, OfferDraw, ReceiveLine, LossNoticed,
                    clientVars, serverVars, wireVars
<1>9. CASE ChatToBlack \/ GameEnds \/ UNCHANGED vars
  BY <1>5, <1>9 DEF ChatToBlack, GameEnds, vars, clientVars, serverVars, wireVars
<1> QED BY <1>2, <1>4, <1>6, <1>7, <1>8, <1>9 DEF Next, Server

-----------------------------------------------------------------------------
(* What a step can do to one client's list and to what is on its way to it. *)
LEMMA OneList ==
  ASSUME NEW R \in Seq(Spoken), NEW c \in Seq(Lines), NEW f \in Seq(Lines), NEW gapless,
         Len(c) <= MAX_CHAT_MESSAGES, Follows(c \o f, R, gapless, Full(c)),
         NEW R2, NEW c2, NEW f2, NEW gapless2, gapless2 => gapless,
         \/ R2 = R /\ c2 = c /\ f2 = f
         \/ R2 = R /\ c2 = WithLine(c, Local) /\ f2 = f
         \/ R2 = R /\ f # << >> /\ c2 = WithLine(c, Head(f)) /\ f2 = Tail(f)
         \/ R2 = R /\ c2 = c /\ f2 = Append(f, Local)
         \/ \E x \in Spoken : R2 = Append(R, x) /\ c2 = c /\ f2 = Append(f, x)
         \/ \E x \in Spoken : /\ R2 = Append(R, x) /\ c2 = c /\ ~gapless2
                              /\ f2 = f \/ f2 = Append(f, Local)
  PROVE  Follows(c2 \o f2, R2, gapless2, Full(c2))
<1> USE LineFacts
<1>1. CASE R2 = R /\ c2 = c /\ f2 = f
  BY <1>1, FollowsLess
<1>2. CASE R2 = R /\ c2 = WithLine(c, Local) /\ f2 = f
  <2>1. Follows(c2 \o f2, R2, gapless, Full(c2))
    BY <1>2, LocalAdded
  <2> QED BY <2>1, FollowsLess
<1>3. CASE R2 = R /\ f # << >> /\ c2 = WithLine(c, Head(f)) /\ f2 = Tail(f)
  <2>1. Follows(c2 \o f2, R2, gapless, Full(c2))
    BY <1>3, LineRead
  <2> QED BY <2>1, FollowsLess
<1>4. CASE R2 = R /\ c2 = c /\ f2 = Append(f, Local)
  <2>1. Follows(c2 \o f2, R2, gapless, Full(c2))
    BY <1>4, LocalSent
  <2> QED BY <2>1, FollowsLess
<1>5. ASSUME NEW x \in Spoken, R2 = Append(R, x), c2 = c, f2 = Append(f, x)
      PROVE  Follows(c2 \o f2, R2, gapless2, Full(c2))
  <2>1. Follows(c2 \o f2, R2, gapless, Full(c2))
    BY <1>5, LineSent
  <2> QED BY <2>1, FollowsLess
<1>6. ASSUME NEW x \in Spoken, R2 = Append(R, x), c2 = c, ~gapless2, f2 = f \/ f2 = Append(f, Local)
      PROVE  Follows(c2 \o f2, R2, gapless2, Full(c2))
  <2>1. R2 \in Seq(Spoken)
    BY <1>6, AppendProperties
  <2>2. Follows(c \o f, R2, FALSE, Full(c))
    BY <1>6, LineMissed
  <2>3. Follows(c \o Append(f, Local), R2, FALSE, Full(c))
    BY <2>1, <2>2, LocalSent
  <2>4. Follows(c2 \o f2, R2, FALSE, Full(c2))
    BY <1>6, <2>2, <2>3
  <2> QED BY <1>6, <2>4, FollowsLess
<1> QED BY <1>1, <1>2, <1>3, <1>4, <1>5, <1>6

LEMMA ListStep == ChatTypeOK /\ RelayInv /\ ListInv /\ [Next]_vars => ListInv'
<1> SUFFICES ASSUME ChatTypeOK, RelayInv, ListInv, [Next]_vars,
                    NEW p \in Players, up'[p]
             PROVE  Follows(chat'[p] \o fromServer'[p], Relayed(p)', up'["white"], Full(chat'[p]))
  BY DEF ListInv
<1>1. up[p] /\ (up'["white"] => up["white"])
  <2>1. up' = up \/ \E q \in Players : up' = [up EXCEPT ![q] = FALSE]
    BY DEF Next, Server, vars, serverVars, wireVars, EnableChatInput, EditChatInput, DisableChatInput,
           SendChatMessage, OfferDraw, ReceiveLine, Lose, ChatWithoutGame, ChatToWhite, ChatToBlack,
           LossNoticed, GameEnds
  <2> QED BY <2>1 DEF ChatTypeOK, Players
<1>0. fromServer \in [Players -> Seq(Lines)]
  BY DEF ChatTypeOK
<1>2. /\ chat[p] \in Seq(Lines) /\ Len(chat[p]) <= MAX_CHAT_MESSAGES
      /\ fromServer[p] \in Seq(Lines) /\ Relayed(p) \in Seq(Spoken)
      /\ Follows(chat[p] \o fromServer[p], Relayed(p), up["white"], Full(chat[p]))
  BY <1>1, RelayedFacts DEF ChatTypeOK, ListInv
<1>S. \A q \in Players, x \in Lines :
        Sent(fromServer, q, x)[p] = IF p = q /\ up[q] THEN Append(fromServer[p], x) ELSE fromServer[p]
  BY <1>0, SentFacts
<1>L. Local \in Lines /\ NoLine \notin Spoken
  BY LineFacts
<1> DEFINE
      Same     == Relayed(p)' = Relayed(p)
      Still    == chat'[p] = chat[p]
      Possible ==
        \/ Same /\ Still /\ fromServer'[p] = fromServer[p]
        \/ Same /\ chat'[p] = WithLine(chat[p], Local) /\ fromServer'[p] = fromServer[p]
        \/ /\ Same /\ fromServer[p] # << >>
           /\ chat'[p] = WithLine(chat[p], Head(fromServer[p])) /\ fromServer'[p] = Tail(fromServer[p])
        \/ Same /\ Still /\ fromServer'[p] = Append(fromServer[p], Local)
        \/ \E x \in Spoken :
             Relayed(p)' = Append(Relayed(p), x) /\ Still /\ fromServer'[p] = Append(fromServer[p], x)
        \/ \E x \in Spoken :
             /\ Relayed(p)' = Append(Relayed(p), x) /\ Still /\ ~up'["white"]
             /\ fromServer'[p] = fromServer[p] \/ fromServer'[p] = Append(fromServer[p], Local)
<1>3. ASSUME UNCHANGED <<relay, relayed>> PROVE Same
  BY <1>3 DEF Relayed, Idle
<1>4. ASSUME NEW q \in Players, AddChat(q, Local) \/ UNCHANGED chat, UNCHANGED <<relay, relayed, fromServer>>
      PROVE  Possible
  <2>1. chat'[p] = chat[p] \/ chat'[p] = WithLine(chat[p], Local)
    BY <1>4 DEF AddChat, ChatTypeOK
  <2>2. Same
    BY <1>3, <1>4
  <2> HIDE DEF Same
  <2> QED BY <1>4, <2>1, <2>2
<1>5. ASSUME NEW q \in Players, fromServer' = Sent(fromServer, q, Local), UNCHANGED <<relay, relayed, chat>>
      PROVE  Possible
  <2>1. fromServer'[p] = fromServer[p] \/ fromServer'[p] = Append(fromServer[p], Local)
    BY <1>5, <1>L, <1>S
  <2>2. Same
    BY <1>3, <1>5
  <2> HIDE DEF Same
  <2> QED BY <1>5, <2>1, <2>2
<1>6. ASSUME NEW q \in Players, ReceiveLine(q) PROVE Possible
  <2>1. Same
    BY <1>3, <1>6 DEF ReceiveLine, serverVars
  <2>2. /\ fromServer[q] # << >> /\ chat' = [chat EXCEPT ![q] = WithLine(chat[q], Head(fromServer[q]))]
        /\ fromServer' = [fromServer EXCEPT ![q] = Tail(fromServer[q])]
    BY <1>6 DEF ReceiveLine, AddChat
  <2> HIDE DEF Same
  <2> QED BY <2>1, <2>2 DEF ChatTypeOK
<1>7. ASSUME NEW q \in Players, ChatToWhite(q) PROVE Possible
  <2>1. PICK x \in Spoken :
          /\ relayed' = Append(relayed, x)
          /\ \/ relay' = x /\ fromServer' = Sent(fromServer, "white", x)
             \/ ~up["white"] /\ fromServer' = Sent(fromServer, q, Local) /\ relay' = relay
    <3>1. Head(toServer[q]) \in Spoken
      BY <1>7, HeadTailProperties DEF ChatToWhite, Take, ChatTypeOK
    <3> QED BY <1>7, <3>1 DEF ChatToWhite, Refused
  <2>2. Idle /\ chat' = chat /\ up' = up /\ x \in Lines /\ "white" \in Players
    BY <1>7 DEF ChatToWhite, Take, clientVars, Lines, Players
  <2>3. Relayed(p) = relayed
    BY <2>2 DEF Relayed
  <2>4. CASE relay' = x /\ fromServer' = Sent(fromServer, "white", x)
    <3>1. fromServer'[p] = IF p = "white" THEN Append(fromServer[p], x) ELSE fromServer[p]
      BY <1>1, <2>2, <2>4, <1>S
    <3>2. CASE p = "white"
      <4>1. Relayed(p)' = Append(Relayed(p), x)
        BY <2>1, <2>3, <3>2 DEF Relayed
      <4> QED BY <2>2, <3>1, <3>2, <4>1
    <3>3. CASE p = "black"
      <4>1. Relayed(p)' = SubSeq(relayed', 1, Len(relayed') - 1)
        BY <2>4, <3>3, <1>L DEF Relayed, Idle
      <4>2. Same
        <5>1. relayed \in Seq(Spoken) /\ relayed' = relayed \o <<x>>
          BY <2>1, AppendIsConcat DEF ChatTypeOK
        <5>2. Len(relayed') - 1 = Len(relayed) /\ Len(relayed) \in Nat
          BY <2>1, <5>1, LenProperties, AppendProperties
        <5>3. SubSeq(relayed', 1, Len(relayed)) = relayed
          BY <2>1, <5>1, <5>2
        <5> QED BY <2>3, <4>1, <5>2, <5>3
      <4> HIDE DEF Same
      <4> QED BY <2>2, <3>1, <3>3, <4>2
    <3> QED BY <3>2, <3>3 DEF Players
  <2>5. CASE ~up["white"] /\ fromServer' = Sent(fromServer, q, Local) /\ relay' = relay
    <3>1. Relayed(p)' = Append(Relayed(p), x)
      BY <2>1, <2>2, <2>3, <2>5 DEF Relayed, Idle
    <3>2. fromServer'[p] = fromServer[p] \/ fromServer'[p] = Append(fromServer[p], Local)
      BY <2>5, <1>L, <1>S
    <3> QED BY <2>2, <2>5, <3>1, <3>2
  <2> QED BY <2>1, <2>4, <2>5
<1>8. ASSUME ChatToBlack PROVE Possible
  <2>1. ~Idle /\ relay' = NoLine /\ relayed' = relayed /\ chat' = chat /\ up' = up
    BY <1>8 DEF ChatToBlack, clientVars
  <2>2. PICK x \in Spoken : x = relay
    BY <2>1 DEF ChatTypeOK, Idle
  <2>3. PICK q \in Players : q = x.by
    BY DEF Spoken
  <2>4. /\ x \in Lines /\ "black" \in Players
        /\ \/ fromServer' = Sent(fromServer, "black", x)
           \/ ~up["black"] /\ fromServer' = Sent(fromServer, q, Local)
    BY <1>8, <2>2, <2>3 DEF ChatToBlack, Refused, Lines, Players
  <2>5. Relayed(p)' = relayed
    BY <2>1 DEF Relayed, Idle
  <2>6. CASE p = "white"
    <3>1. Same
      BY <2>5, <2>6, RelayedFacts
    <3>2. fromServer'[p] = fromServer[p] \/ fromServer'[p] = Append(fromServer[p], Local)
      BY <1>L, <1>S, <2>4, <2>6
    <3> HIDE DEF Same
    <3> QED BY <2>1, <3>1, <3>2
  <2>7. CASE p = "black"
    <3>1. Relayed(p)' = Append(Relayed(p), x) /\ Still
      BY <2>1, <2>2, <2>5, <2>7, RelayedFacts
    <3>2. fromServer'[p] = Append(fromServer[p], x)
      BY <1>1, <1>S, <2>4, <2>7
    <3> HIDE DEF Same, Still
    <3> QED BY <3>1, <3>2
  <2> QED BY <2>6, <2>7 DEF Players
<1>9. ASSUME NEW q \in Players, Lose(q) PROVE Possible
  <2>1. p # q
    BY <1>9 DEF Lose, ChatTypeOK
  <2>2. Same
    BY <1>3, <1>9 DEF Lose, serverVars
  <2> HIDE DEF Same
  <2> QED BY <1>9, <2>1, <2>2 DEF Lose, clientVars, ChatTypeOK
<1>10. ASSUME GameEnds PROVE Possible
  <2>1. /\ fromServer' = Sent(Sent(fromServer, "white", Local), "black", Local)
        /\ UNCHANGED <<chat, relay, relayed>>
    BY <1>10 DEF GameEnds, clientVars
  <2>2. Same
    BY <1>3, <2>1
  <2>3. "white" \in Players /\ "black" \in Players /\ (p = "white" \/ p = "black") /\ "white" # "black"
    BY DEF Players
  <2>4. fromServer'[p] = Append(fromServer[p], Local)
    <3>1. PICK f \in [Players -> Seq(Lines)] : f = Sent(fromServer, "white", Local)
      BY <1>0, <1>L, <2>3, SentFacts
    <3>2. f[p] = IF p = "white" THEN Append(fromServer[p], Local) ELSE fromServer[p]
      BY <1>1, <1>L, <1>S, <2>3, <3>1
    <3>3. Sent(f, "black", Local)[p] = IF p = "black" THEN Append(f[p], Local) ELSE f[p]
      <4>1. \A q \in Players :
              Sent(f, "black", Local)[q] = IF q = "black" /\ up["black"] THEN Append(f[q], Local) ELSE f[q]
        BY <1>L, <2>3, SentFacts
      <4> QED BY <1>1, <4>1
    <3> QED BY <2>1, <2>3, <3>1, <3>2, <3>3
  <2> HIDE DEF Same
  <2> QED BY <2>1, <2>2, <2>4
<1>11. ASSUME NEW q \in Players, EnableChatInput(q) \/ EditChatInput(q) \/ DisableChatInput(q) PROVE Possible
  BY <1>4, <1>11 DEF EnableChatInput, EditChatInput, DisableChatInput, serverVars, wireVars
<1>12. ASSUME NEW q \in Players, SendChatMessage(q) \/ OfferDraw(q) PROVE Possible
  BY <1>4, <1>12 DEF SendChatMessage, OfferDraw, serverVars, wireVars
<1>13. ASSUME NEW q \in Players, ChatWithoutGame(q) PROVE Possible
  BY <1>5, <1>13 DEF ChatWithoutGame, Refused, clientVars, serverVars
<1>14. ASSUME NEW q \in Players, LossNoticed(q) PROVE Possible
  <2>1. Other(q) \in Players
    BY DEF Other, Players
  <2> QED BY <1>5, <1>14, <2>1 DEF LossNoticed, clientVars
<1>15. ASSUME UNCHANGED vars PROVE Possible
  BY <1>4, <1>15 DEF vars, clientVars, serverVars, wireVars, Players
<1> HIDE DEF Possible
<1>16. Possible
  BY <1>6, <1>7, <1>8, <1>9, <1>10, <1>11, <1>12, <1>13, <1>14, <1>15 DEF Next, Server
<1>17. PICK R \in Seq(Spoken), c \in Seq(Lines), f \in Seq(Lines), gapless \in BOOLEAN :
         R = Relayed(p) /\ c = chat[p] /\ f = fromServer[p] /\ gapless = up["white"]
  BY <1>2 DEF ChatTypeOK, Players
<1>18. PICK c2, f2, R2, gapless2 :
         c2 = chat'[p] /\ f2 = fromServer'[p] /\ R2 = Relayed(p)' /\ gapless2 = up'["white"]
  OBVIOUS
<1>19. Follows(c2 \o f2, R2, gapless2, Full(c2))
  <2>1. \/ R2 = R /\ c2 = c /\ f2 = f
        \/ R2 = R /\ c2 = WithLine(c, Local) /\ f2 = f
        \/ R2 = R /\ f # << >> /\ c2 = WithLine(c, Head(f)) /\ f2 = Tail(f)
        \/ R2 = R /\ c2 = c /\ f2 = Append(f, Local)
        \/ \E x \in Spoken : R2 = Append(R, x) /\ c2 = c /\ f2 = Append(f, x)
        \/ \E x \in Spoken : /\ R2 = Append(R, x) /\ c2 = c /\ ~gapless2
                             /\ f2 = f \/ f2 = Append(f, Local)
    BY <1>16, <1>17, <1>18 DEF Possible
  <2>2. gapless2 => gapless
    BY <1>1, <1>17, <1>18
  <2>3. Len(c) <= MAX_CHAT_MESSAGES /\ Follows(c \o f, R, gapless, Full(c))
    BY <1>2, <1>17
  <2> QED BY <2>1, <2>2, <2>3, OneList
<1> QED BY <1>18, <1>19

LEMMA InitInv == Init => ChatInv
<1> SUFFICES ASSUME Init PROVE ChatInv
  OBVIOUS
<1>1. /\ \A S : << >> \in Seq(S)
      /\ Len(<< >>) = 0 /\ << >> \o << >> = << >>
  BY EmptySeq
<1>2. /\ up = [p \in Players |-> TRUE] /\ relay = NoLine
      /\ chat = [p \in Players |-> << >>] /\ fromServer = [p \in Players |-> << >>]
      /\ toServer = [p \in Players |-> << >>] /\ written = << >> /\ relayed = << >>
  BY DEF Init
<1>3. MAX_CHAT_MESSAGES \in Nat
  BY ChatAssumption
<1>4. ChatTypeOK
  BY <1>1, <1>2, <1>3 DEF ChatTypeOK
<1>5. RelayInv
  BY <1>2 DEF RelayInv, Idle
<1>6. OrderInv
  BY <1>1, <1>2 DEF OrderInv, Ordered
<1>7. ASSUME NEW p \in Players
      PROVE  Follows(chat[p] \o fromServer[p], Relayed(p), up["white"], Full(chat[p]))
  <2>1. chat[p] \o fromServer[p] = << >> /\ Relayed(p) = << >>
    BY <1>1, <1>2 DEF Relayed, Idle
  <2>2. Said(<< >>) = {}
    BY <1>1 DEF Said
  <2>3. \A S : [i \in {} |-> i] \in [{} -> S]
    OBVIOUS
  <2>4. \A gapless, full : Follows(<< >>, << >>, gapless, full)
    <3>1. 1..Len(<< >>) = {}
      BY <1>1
    <3>2. PICK at : at \in [{} -> 1..Len(<< >>)]
      BY <2>3
    <3> QED BY <2>2, <3>1, <3>2 DEF Follows
  <2> QED BY <2>1, <2>4
<1> QED BY <1>4, <1>5, <1>6, <1>7 DEF ChatInv, ListInv

(* The inductive invariant of the chat: the line the relay stands at is    *)
(* the last one taken up, the lines not yet taken up continue those that   *)
(* were, writer by writer, and every list follows what its client was sent *)
(* (handle_chat_message in server/handlers/chat.c, add_chat_message in     *)
(* client/game_state.c).                                                   *)
THEOREM ChatInvariant == Spec => []ChatInv
<1>1. ChatInv /\ [Next]_vars => ChatInv'
  BY TypeStep, RelayStep, OrderStep, ListStep DEF ChatInv
<1> QED BY <1>1, InitInv, PTL DEF Spec

(* Both players see one conversation: for lists of any length, and         *)
(* wherever connections break, games end and lists overflow, what a client *)
(* has or is being sent are lines the server took up, in that order and    *)
(* none twice, with none missing but the oldest of a full list, as long as *)
(* white's connection holds (add_chat_message moves a full list up by one, *)
(* handle_chat_message sends to white, then to black, and gives up at the  *)
(* first failure).                                                         *)
THEOREM OneConversation == Spec => []SameConversation
<1>1. ChatInv => SameConversation
  <2> SUFFICES ASSUME ChatInv PROVE SameConversation
    OBVIOUS
  <2>1. ASSUME NEW p \in Players, up[p]
        PROVE  LET list == chat[p] \o fromServer[p]
                   said == {i \in DOMAIN list : list[i] \in Spoken}
               IN \E at \in [said -> DOMAIN Relayed(p)] :
                    /\ \A i \in said : list[i] = Relayed(p)[at[i]]
                    /\ \A i, j \in said : i < j => at[i] < at[j]
                    /\ up["white"] =>
                         \A k \in DOMAIN Relayed(p) :
                           \/ \E i \in said : at[i] = k
                           \/ Len(chat[p]) = MAX_CHAT_MESSAGES /\ \A i \in said : k < at[i]
    <3>1. chat[p] \in Seq(Lines) /\ fromServer[p] \in Seq(Lines) /\ Relayed(p) \in Seq(Spoken)
      BY RelayedFacts DEF ChatInv, ChatTypeOK
    <3> DEFINE list == chat[p] \o fromServer[p]
    <3>2. DOMAIN list = 1..Len(list) /\ DOMAIN Relayed(p) = 1..Len(Relayed(p))
      BY <3>1, ConcatProperties, LenProperties
    <3>3. Follows(list, Relayed(p), up["white"], Full(chat[p]))
      BY <2>1 DEF ChatInv, ListInv
    <3> HIDE DEF list
    <3>4. {i \in DOMAIN list : list[i] \in Spoken} = Said(list)
      BY <3>2 DEF Said
    <3> QED BY <3>2, <3>3, <3>4 DEF Follows, Full, list
  <2>2. ASSUME NEW k \in DOMAIN relayed, NEW l \in DOMAIN relayed, k < l, relayed[k].by = relayed[l].by
        PROVE  relayed[k].no < relayed[l].no
    <3>1. DOMAIN relayed = 1..Len(relayed)
      BY LenProperties DEF ChatInv, ChatTypeOK
    <3> QED BY <2>2, <3>1 DEF ChatInv, OrderInv, Ordered
  <2> QED BY <2>1, <2>2 DEF SameConversation
<1> QED BY <1>1, ChatInvariant, PTL
=============================================================================
