---------------------------- MODULE ReplayProofs ----------------------------
(***************************************************************************)
(* Proofs about Replay for games and files of any length: what is saved is *)
(* read back, and a replay shows what it says it shows.                    *)
(*                                                                         *)
(* What FlattenSeq computes is found by induction.  An induction is over a *)
(* set of numbers or of sequences here (Induction, SeqInduction): a least  *)
(* number outside of the set would have a predecessor inside.              *)
(***************************************************************************)
EXTENDS Replay, SequenceTheorems, FiniteSetTheorems, WellFoundedInduction, TLAPS

LEMMA Induction ==
  ASSUME NEW S, 0 \in S, \A n \in Nat : n \in S => n + 1 \in S
  PROVE  \A n \in Nat : n \in S
<1> DEFINE Missing == {n \in Nat : n \notin S}
           Less == {ss \in Nat \X Nat : ss[1] < ss[2]}
<1> SUFFICES ASSUME Missing # {} PROVE FALSE
  OBVIOUS
<1>1. IsWellFoundedOn(Less, Nat)
  BY NatLessThanWellFounded DEF OpToRel
<1>2. PICK n \in Missing : \A m \in Missing : ~(<<m, n>> \in Less)
  BY <1>1, WFMin
<1>3. n \in Nat /\ n \notin S /\ n # 0
  OBVIOUS
<1>4. n - 1 \in Nat /\ n - 1 < n /\ (n - 1) + 1 = n
  BY <1>3
<1>5. n - 1 \in S
  BY <1>2, <1>3, <1>4
<1> QED BY <1>3, <1>4, <1>5

(* A sequence is empty, or its last element comes behind another one. *)
LEMMA FrontAndLast ==
  ASSUME NEW A, NEW s \in Seq(A), Len(s) # 0
  PROVE  \E front \in Seq(A), x \in A : s = Append(front, x) /\ Len(s) = Len(front) + 1
<1> DEFINE n == Len(s)
           front == SubSeq(s, 1, n - 1)
<1>1. n \in Nat /\ n > 0 /\ \A i \in 1..n : s[i] \in A
  BY LenProperties, ElementOfSeq
<1>2. front \in Seq(A) /\ Len(front) = n - 1 /\ \A i \in 1..(n - 1) : front[i] = s[i]
  <2>1. 1 \in Int /\ n - 1 \in Int /\ \A i \in 1..(n - 1) : s[i] \in A
    BY <1>1
  <2>2. /\ front \in Seq(A)
        /\ Len(front) = IF 1 <= n - 1 THEN n - 1 - 1 + 1 ELSE 0
        /\ \A i \in 1..(n - 1 - 1 + 1) : front[i] = s[1 + i - 1]
    BY <2>1, SubSeqProperties
  <2>3. (IF 1 <= n - 1 THEN n - 1 - 1 + 1 ELSE 0) = n - 1 /\ n - 1 - 1 + 1 = n - 1
    <3>1. \A m \in Nat : m > 0 => (IF 1 <= m - 1 THEN m - 1 - 1 + 1 ELSE 0) = m - 1 /\ m - 1 - 1 + 1 = m - 1
      OBVIOUS
    <3> QED BY <1>1, <3>1
  <2>4. \A i \in 1..(n - 1) : 1 + i - 1 = i
    BY <1>1
  <2> HIDE DEF front, n
  <2> QED BY <2>2, <2>3, <2>4
<1> HIDE DEF front
<1>3. s[n] \in A
  <2>1. n \in 1..n
    BY <1>1
  <2> QED BY <1>1, <2>1
<1>4. /\ Append(front, s[n]) \in Seq(A) /\ Len(Append(front, s[n])) = n
      /\ \A i \in 1..(n - 1) : Append(front, s[n])[i] = s[i]
      /\ Append(front, s[n])[n] = s[n]
  BY <1>1, <1>2, <1>3, AppendProperties
<1>5. \A i \in 1..n : Append(front, s[n])[i] = s[i]
  BY <1>1, <1>4
<1>6. Append(front, s[n]) = s
  BY <1>4, <1>5, SeqEqual
<1> QED BY <1>1, <1>2, <1>3, <1>6

LEMMA SeqInduction ==
  ASSUME NEW A, NEW T, << >> \in T,
         \A s \in Seq(A) : \A x \in A : s \in T => Append(s, x) \in T
  PROVE  \A s \in Seq(A) : s \in T
<1> DEFINE S == {n \in Nat : \A s \in Seq(A) : Len(s) = n => s \in T}
<1>1. 0 \in S
  BY EmptySeq
<1>2. ASSUME NEW n \in Nat, n \in S PROVE n + 1 \in S
  <2> SUFFICES ASSUME NEW s \in Seq(A), Len(s) = n + 1 PROVE s \in T
    OBVIOUS
  <2>1. PICK front \in Seq(A), x \in A : s = Append(front, x) /\ Len(s) = Len(front) + 1
    BY FrontAndLast
  <2>2. Len(front) = n
    BY <2>1, LenProperties
  <2> QED BY <1>2, <2>1, <2>2
<1> HIDE DEF S
<1>3. \A n \in Nat : n \in S
  BY <1>1, <1>2, Induction
<1> QED BY <1>3, LenProperties DEF S

-----------------------------------------------------------------------------
(* What FlattenSeq does to one more sequence. *)
IsFlat(f, seqs, n) == f = [i \in 1..n |-> IF i = 1 THEN seqs[i] ELSE f[i - 1] \o seqs[i]]
Flat(seqs, n) == CHOOSE f : IsFlat(f, seqs, n)

LEMMA FlatExists ==
  ASSUME NEW seqs
  PROVE  \A n \in Nat : IsFlat(Flat(seqs, n), seqs, n)
<1> DEFINE S == {n \in Nat : \E f : IsFlat(f, seqs, n)}
<1>1. 0 \in S
  <2>1. IsFlat([i \in {} |-> i], seqs, 0)
    BY DEF IsFlat
  <2> QED BY <2>1
<1>2. ASSUME NEW n \in Nat, n \in S PROVE n + 1 \in S
  <2>1. PICK f : IsFlat(f, seqs, n)
    BY <1>2
  <2> DEFINE last == IF n = 0 THEN seqs[1] ELSE f[n] \o seqs[n + 1]
             g == [i \in 1..(n + 1) |-> IF i = n + 1 THEN last ELSE f[i]]
  <2>2. \A i \in 1..n : f[i] = IF i = 1 THEN seqs[i] ELSE f[i - 1] \o seqs[i]
    BY <2>1 DEF IsFlat
  <2>3. \A i \in 1..(n + 1) : g[i] = IF i = 1 THEN seqs[i] ELSE g[i - 1] \o seqs[i]
    BY <2>2
  <2>4. IsFlat(g, seqs, n + 1)
    BY <2>3 DEF IsFlat
  <2> QED BY <2>4
<1> HIDE DEF S
<1>3. \A n \in Nat : n \in S
  BY <1>1, <1>2, Induction
<1> QED BY <1>3 DEF S, Flat

LEMMA FlattenIsFlat ==
  ASSUME NEW seqs, Len(seqs) # 0
  PROVE  FlattenSeq(seqs) = Flat(seqs, Len(seqs))[Len(seqs)]
BY DEF FlattenSeq, Flat, IsFlat

LEMMA FlattenEmpty == FlattenSeq(<< >>) = << >>
BY EmptySeq DEF FlattenSeq

LEMMA FlattenAppend ==
  ASSUME NEW A, NEW seqs \in Seq(Seq(A)), NEW s \in Seq(A)
  PROVE  /\ FlattenSeq(seqs) \in Seq(A)
         /\ FlattenSeq(Append(seqs, s)) = FlattenSeq(seqs) \o s
<1> DEFINE n == Len(seqs)
           more == Append(seqs, s)
           f == Flat(seqs, n)
           g == Flat(more, n + 1)
<1>1. n \in Nat /\ n + 1 \in Nat /\ \A i \in 1..n : seqs[i] \in Seq(A)
  BY LenProperties, ElementOfSeq
<1>2. Len(more) = n + 1 /\ more[n + 1] = s /\ \A i \in 1..n : more[i] = seqs[i]
  BY AppendProperties
<1>3. FlattenSeq(more) = g[n + 1] /\ (n # 0 => FlattenSeq(seqs) = f[n])
  <2>1. n # 0 => FlattenSeq(seqs) = f[n]
    BY FlattenIsFlat
  <2>2. n + 1 # 0
    BY <1>1
  <2> HIDE DEF more
  <2>3. Len(more) # 0
    BY <1>2, <2>2
  <2>4. FlattenSeq(more) = Flat(more, Len(more))[Len(more)]
    BY <2>3, FlattenIsFlat
  <2> QED BY <1>2, <2>1, <2>4
<1>4. IsFlat(f, seqs, n) /\ IsFlat(g, more, n + 1)
  BY <1>1, FlatExists
<1> HIDE DEF f, g, more, n
<1>5. /\ \A i \in 1..n : f[i] = IF i = 1 THEN seqs[i] ELSE f[i - 1] \o seqs[i]
      /\ \A i \in 1..(n + 1) : g[i] = IF i = 1 THEN more[i] ELSE g[i - 1] \o more[i]
  BY <1>4 DEF IsFlat
<1> DEFINE S == {k \in Nat : k \in 1..n => f[k] = g[k] /\ f[k] \in Seq(A)}
<1>6. 0 \in S
  OBVIOUS
<1>7. ASSUME NEW k \in Nat, k \in S PROVE k + 1 \in S
  <2> SUFFICES ASSUME k + 1 \in 1..n PROVE f[k + 1] = g[k + 1] /\ f[k + 1] \in Seq(A)
    OBVIOUS
  <2>1. CASE k = 0
    BY <1>1, <1>2, <1>5, <2>1
  <2>2. CASE k # 0
    <3>1. k \in 1..n /\ k + 1 # 1 /\ (k + 1) - 1 = k /\ k + 1 \in 1..(n + 1)
      BY <1>1, <2>2
    <3>2. f[k] = g[k] /\ f[k] \in Seq(A) /\ seqs[k + 1] \in Seq(A) /\ more[k + 1] = seqs[k + 1]
      BY <1>1, <1>2, <1>7, <3>1
    <3>3. f[k + 1] = f[k] \o seqs[k + 1] /\ g[k + 1] = g[k] \o more[k + 1]
      BY <1>5, <3>1
    <3> QED BY <3>2, <3>3, ConcatProperties
  <2> QED BY <2>1, <2>2
<1> HIDE DEF S
<1>8. \A k \in Nat : k \in S
  BY <1>6, <1>7, Induction
<1>9. CASE n = 0
  <2>1. seqs = << >>
    BY <1>9, EmptySeq DEF n
  <2>2. g[1] = s
    BY <1>2, <1>5, <1>9
  <2>3. FlattenSeq(seqs) = << >> /\ << >> \in Seq(A) /\ << >> \o s = s
    BY <2>1, FlattenEmpty, EmptySeq, ConcatEmptySeq
  <2> QED BY <1>3, <1>9, <2>2, <2>3 DEF more
<1>10. CASE n # 0
  <2>1. f[n] = g[n] /\ f[n] \in Seq(A)
    BY <1>1, <1>8, <1>10 DEF S
  <2>2. g[n + 1] = g[n] \o s
    <3>1. n + 1 \in 1..(n + 1) /\ n + 1 # 1 /\ (n + 1) - 1 = n
      BY <1>1, <1>10
    <3> QED BY <1>2, <1>5, <3>1
  <2> QED BY <1>3, <1>10, <2>1, <2>2 DEF more
<1> QED BY <1>9, <1>10

-----------------------------------------------------------------------------
(* Words and the files they make. *)
LEMMA WordFacts ==
  /\ Tag \in Words /\ Empty \in Words /\ Number \in Words /\ Word \in Words
  /\ \A m \in Moves : Move(m) \in Words /\ Move(m).kind = "move" /\ Move(m).move = m
  /\ Tag # Empty /\ Number.kind = "number"
  /\ \A w \in Words : w.kind = "move" => w.move \in Moves
<1>1. Tag \in Words /\ Empty \in Words /\ Number \in Words /\ Word \in Words /\ \A m \in Moves : Move(m) \in Words
  BY DEF Words
<1>2. \A m : Move(m).kind = "move" /\ Move(m).move = m
  BY DEF Move
<1>3. /\ Tag.kind = "tag" /\ Empty.kind = "empty"
      /\ Number.kind = "number" /\ Word.kind = "word"
  BY DEF Tag, Empty, Number, Word
<1>4. ASSUME NEW w \in Words, w.kind = "move" PROVE w.move \in Moves
  <2>1. w \in {Move(m) : m \in Moves}
    BY <1>3, <1>4 DEF Words
  <2> QED BY <1>2, <2>1
<1> QED BY <1>1, <1>2, <1>3, <1>4

(* Of a word more, what is left is a word more or nothing. *)
LEMMA ThoseEmpty == \A kinds : Those(<< >>, kinds) = << >>
<1> SUFFICES ASSUME NEW kinds PROVE Those(<< >>, kinds) = << >>
  OBVIOUS
<1>1. DOMAIN << >> = {} /\ [i \in {} |-> IF << >>[i].kind \in kinds THEN <<<< >>[i]>> ELSE << >>] = << >>
  OBVIOUS
<1> QED BY <1>1, FlattenEmpty DEF Those

LEMMA ThoseAppend ==
  ASSUME NEW words \in Seq(Words), NEW w \in Words, NEW kinds
  PROVE  /\ Those(words, kinds) \in Seq(Words)
         /\ Those(Append(words, w), kinds) =
              IF w.kind \in kinds THEN Append(Those(words, kinds), w) ELSE Those(words, kinds)
<1> DEFINE part(x) == IF x.kind \in kinds THEN <<x>> ELSE << >>
           parts(s) == [i \in DOMAIN s |-> part(s[i])]
           more == Append(words, w)
<1>1. \A x \in Words : part(x) \in Seq(Words)
  BY EmptySeq
<1>2. /\ DOMAIN words = 1..Len(words) /\ Len(words) \in Nat
      /\ \A i \in 1..Len(words) : words[i] \in Words
  BY LenProperties, ElementOfSeq
<1>3. /\ more \in Seq(Words) /\ Len(more) = Len(words) + 1 /\ DOMAIN more = 1..(Len(words) + 1)
      /\ \A i \in 1..Len(words) : more[i] = words[i]
      /\ more[Len(words) + 1] = w
  BY AppendProperties, LenProperties
<1> HIDE DEF part, more
<1>4. parts(words) \in Seq(Seq(Words)) /\ Len(parts(words)) = Len(words)
  BY <1>1, <1>2, IsASeq
<1>5. parts(more) \in Seq(Seq(Words)) /\ Len(parts(more)) = Len(words) + 1
  <2>1. \A i \in 1..(Len(words) + 1) : more[i] \in Words
    BY <1>3, ElementOfSeq
  <2> QED BY <1>1, <1>2, <1>3, <2>1, IsASeq
<1>6. parts(more) = Append(parts(words), part(w))
  <2>1. /\ Append(parts(words), part(w)) \in Seq(Seq(Words))
        /\ Len(Append(parts(words), part(w))) = Len(words) + 1
        /\ \A i \in 1..Len(words) : Append(parts(words), part(w))[i] = parts(words)[i]
        /\ Append(parts(words), part(w))[Len(words) + 1] = part(w)
    BY <1>1, <1>4, AppendProperties
  <2>2. \A i \in 1..(Len(words) + 1) : parts(more)[i] = Append(parts(words), part(w))[i]
    BY <1>2, <1>3, <2>1
  <2> HIDE DEF parts
  <2> QED BY <1>5, <2>1, <2>2, SeqEqual
<1>7. /\ FlattenSeq(parts(words)) \in Seq(Words)
      /\ FlattenSeq(Append(parts(words), part(w))) = FlattenSeq(parts(words)) \o part(w)
  <2> HIDE DEF parts
  <2> QED BY <1>1, <1>4, FlattenAppend
<1>8. Those(words, kinds) = FlattenSeq(parts(words)) /\ Those(more, kinds) = FlattenSeq(parts(more))
  BY DEF Those, part
<1> HIDE DEF parts
<1>9. CASE w.kind \in kinds
  BY <1>6, <1>7, <1>8, <1>9, AppendIsConcat DEF part, more
<1>10. CASE w.kind \notin kinds
  BY <1>6, <1>7, <1>8, <1>10, ConcatEmptySeq DEF part, more
<1> QED BY <1>7, <1>8, <1>9, <1>10

(* What is left are words of these kinds. *)
LEMMA ThoseKinds ==
  ASSUME NEW words \in Seq(Words), NEW kinds
  PROVE  /\ Those(words, kinds) \in Seq(Words)
         /\ \A i \in 1..Len(Those(words, kinds)) : Those(words, kinds)[i].kind \in kinds
<1> DEFINE T == {s \in Seq(Words) : /\ Those(s, kinds) \in Seq(Words)
                                    /\ \A i \in 1..Len(Those(s, kinds)) : Those(s, kinds)[i].kind \in kinds}
<1>1. << >> \in T
  <2>1. << >> \in Seq(Words) /\ Len(<< >>) = 0
    BY EmptySeq
  <2>2. Those(<< >>, kinds) = << >>
    BY ThoseEmpty
  <2>3. PICK none \in Seq(Words) : none = Those(<< >>, kinds) /\ none = << >> /\ Len(none) = 0
    BY <2>1, <2>2
  <2>4. \A i \in 1..Len(none) : FALSE
    BY <2>3
  <2> QED BY <2>1, <2>3, <2>4
<1>2. ASSUME NEW s \in Seq(Words), NEW x \in Words, s \in T PROVE Append(s, x) \in T
  <2>1. Append(s, x) \in Seq(Words)
    BY AppendProperties
  <2>2. CASE x.kind \in kinds
    <3>1. PICK t \in Seq(Words) : t = Those(s, kinds) /\ \A i \in 1..Len(t) : t[i].kind \in kinds
      BY <1>2
    <3>2. Those(Append(s, x), kinds) = Append(t, x)
      BY <2>2, <3>1, ThoseAppend
    <3>3. /\ Append(t, x) \in Seq(Words) /\ Len(Append(t, x)) = Len(t) + 1 /\ Len(t) \in Nat
          /\ \A i \in 1..Len(t) : Append(t, x)[i] = t[i]
          /\ Append(t, x)[Len(t) + 1] = x
      BY AppendProperties, LenProperties
    <3>4. \A i \in 1..(Len(t) + 1) : Append(t, x)[i].kind \in kinds
      BY <2>2, <3>1, <3>3
    <3> QED BY <2>1, <3>2, <3>3, <3>4
  <2>3. CASE x.kind \notin kinds
    BY <1>2, <2>1, <2>3, ThoseAppend
  <2> QED BY <2>2, <2>3
<1> HIDE DEF T
<1>3. words \in T
  BY <1>1, <1>2, SeqInduction
<1> QED BY <1>3 DEF T

-----------------------------------------------------------------------------
(* What is written and what is read. *)
Pieces(moves) ==
  [i \in DOMAIN moves |-> IF i % 2 = 1 THEN <<Number, Move(moves[i])>> ELSE <<Move(moves[i])>>]
AsWords(moves) == [i \in DOMAIN moves |-> Move(moves[i])]

LEMMA PiecesAppend ==
  ASSUME NEW moves \in Seq(Moves), NEW m \in Moves
  PROVE  /\ Pieces(moves) \in Seq(Seq(Words))
         /\ \E piece \in {<<Number, Move(m)>>, <<Move(m)>>} :
              Pieces(Append(moves, m)) = Append(Pieces(moves), piece)
         /\ AsWords(moves) \in Seq(Words) /\ Len(AsWords(moves)) = Len(moves)
         /\ AsWords(Append(moves, m)) = Append(AsWords(moves), Move(m))
<1> DEFINE n == Len(moves)
           more == Append(moves, m)
           piece(i, x) == IF i % 2 = 1 THEN <<Number, Move(x)>> ELSE <<Move(x)>>
<1>1. /\ DOMAIN moves = 1..n /\ n \in Nat
      /\ \A i \in 1..n : moves[i] \in Moves
  BY LenProperties, ElementOfSeq
<1>2. /\ more \in Seq(Moves) /\ Len(more) = n + 1 /\ DOMAIN more = 1..(n + 1)
      /\ \A i \in 1..n : more[i] = moves[i]
      /\ more[n + 1] = m
  BY AppendProperties, LenProperties
<1>3. \A x \in Moves : Move(x) \in Words /\ \A i : piece(i, x) \in Seq(Words)
  BY WordFacts
<1>4. \A i \in 1..(n + 1) : more[i] \in Moves
  BY <1>2, ElementOfSeq
<1> HIDE DEF more, piece, n
<1>5. /\ Pieces(moves) = [i \in 1..n |-> piece(i, moves[i])]
      /\ Pieces(more) = [i \in 1..(n + 1) |-> piece(i, more[i])]
  BY <1>1, <1>2 DEF Pieces, piece
<1>6. /\ AsWords(moves) = [i \in 1..n |-> Move(moves[i])]
      /\ AsWords(more) = [i \in 1..(n + 1) |-> Move(more[i])]
  BY <1>1, <1>2 DEF AsWords
<1>7. /\ Pieces(moves) \in Seq(Seq(Words)) /\ Len(Pieces(moves)) = n
      /\ Pieces(more) \in Seq(Seq(Words)) /\ Len(Pieces(more)) = n + 1
      /\ \A i \in 1..n : Pieces(moves)[i] = piece(i, moves[i])
      /\ \A i \in 1..(n + 1) : Pieces(more)[i] = piece(i, more[i])
  BY <1>1, <1>3, <1>4, <1>5, IsASeq
<1>8. /\ AsWords(moves) \in Seq(Words) /\ Len(AsWords(moves)) = n
      /\ AsWords(more) \in Seq(Words) /\ Len(AsWords(more)) = n + 1
      /\ \A i \in 1..n : AsWords(moves)[i] = Move(moves[i])
      /\ \A i \in 1..(n + 1) : AsWords(more)[i] = Move(more[i])
  BY <1>1, <1>3, <1>4, <1>6, IsASeq
<1>9. Pieces(more) = Append(Pieces(moves), piece(n + 1, m))
  <2> DEFINE other == Append(Pieces(moves), piece(n + 1, m))
  <2>1. /\ other \in Seq(Seq(Words)) /\ Len(other) = n + 1
        /\ \A i \in 1..n : other[i] = Pieces(moves)[i]
        /\ other[n + 1] = piece(n + 1, m)
    BY <1>3, <1>7, AppendProperties
  <2> HIDE DEF other
  <2>2. \A i \in 1..(n + 1) : Pieces(more)[i] = other[i]
    BY <1>1, <1>2, <1>7, <2>1
  <2>3. Pieces(more) = other
    BY <1>7, <2>1, <2>2, SeqEqual
  <2> QED BY <2>3 DEF other
<1>10. AsWords(more) = Append(AsWords(moves), Move(m))
  <2> DEFINE other == Append(AsWords(moves), Move(m))
  <2>1. /\ other \in Seq(Words) /\ Len(other) = n + 1
        /\ \A i \in 1..n : other[i] = AsWords(moves)[i]
        /\ other[n + 1] = Move(m)
    BY <1>3, <1>8, AppendProperties
  <2> HIDE DEF other
  <2>2. \A i \in 1..(n + 1) : AsWords(more)[i] = other[i]
    BY <1>1, <1>2, <1>8, <2>1
  <2>3. AsWords(more) = other
    BY <1>8, <2>1, <2>2, SeqEqual
  <2> QED BY <2>3 DEF other
<1>11. piece(n + 1, m) \in {<<Number, Move(m)>>, <<Move(m)>>}
  BY DEF piece
<1> QED BY <1>7, <1>8, <1>9, <1>10, <1>11 DEF more, n

(* The moves are found again among the numbers, line after line. *)
LEMMA MovesRead ==
  ASSUME NEW moves \in Seq(Moves)
  PROVE  /\ FlattenSeq(Pieces(moves)) \in Seq(Words)
         /\ Those(FlattenSeq(Pieces(moves)), {"move", "word"}) = AsWords(moves)
<1> DEFINE T == {s \in Seq(Moves) : /\ FlattenSeq(Pieces(s)) \in Seq(Words)
                                    /\ Those(FlattenSeq(Pieces(s)), {"move", "word"}) = AsWords(s)}
<1>1. << >> \in T
  <2>1. Pieces(<< >>) = << >> /\ AsWords(<< >>) = << >>
    BY DEF Pieces, AsWords
  <2>2. FlattenSeq(Pieces(<< >>)) = << >> /\ << >> \in Seq(Words) /\ << >> \in Seq(Moves)
    BY <2>1, FlattenEmpty, EmptySeq
  <2>3. Those(FlattenSeq(Pieces(<< >>)), {"move", "word"}) = << >>
    BY <2>2, ThoseEmpty
  <2> QED BY <2>1, <2>2, <2>3
<1>2. ASSUME NEW s \in Seq(Moves), NEW m \in Moves, s \in T PROVE Append(s, m) \in T
  <2>1. Append(s, m) \in Seq(Moves)
    BY AppendProperties
  <2>2. /\ Number \in Words /\ Number.kind \notin {"move", "word"}
        /\ Move(m) \in Words /\ Move(m).kind \in {"move", "word"}
    BY WordFacts
  <2>3. PICK text \in Seq(Words) :
          text = FlattenSeq(Pieces(s)) /\ Those(text, {"move", "word"}) = AsWords(s)
    BY <1>2
  <2>4. PICK piece \in {<<Number, Move(m)>>, <<Move(m)>>} :
          Pieces(Append(s, m)) = Append(Pieces(s), piece)
    BY PiecesAppend
  <2>5. piece \in Seq(Words) /\ Pieces(s) \in Seq(Seq(Words))
    <3>1. <<Number, Move(m)>> \in Seq(Words) /\ <<Move(m)>> \in Seq(Words)
      BY <2>2
    <3> QED BY <3>1, PiecesAppend
  <2>6. FlattenSeq(Pieces(Append(s, m))) = text \o piece
    BY <2>3, <2>4, <2>5, FlattenAppend
  <2>7. AsWords(Append(s, m)) = Append(AsWords(s), Move(m))
    BY PiecesAppend
  <2>8. CASE piece = <<Move(m)>>
    <3>1. text \o piece = Append(text, Move(m)) /\ Append(text, Move(m)) \in Seq(Words)
      BY <2>2, <2>8, AppendIsConcat, AppendProperties
    <3>2. Those(Append(text, Move(m)), {"move", "word"}) = Append(AsWords(s), Move(m))
      BY <2>2, <2>3, ThoseAppend
    <3> QED BY <2>1, <2>6, <2>7, <3>1, <3>2
  <2>9. CASE piece = <<Number, Move(m)>>
    <3>1. PICK numbered \in Seq(Words) : numbered = Append(text, Number)
      BY <2>2, AppendProperties
    <3>2. text \o piece = Append(numbered, Move(m)) /\ Append(numbered, Move(m)) \in Seq(Words)
      <4>1. <<Number>> \in Seq(Words) /\ <<Move(m)>> \in Seq(Words) /\ piece = <<Number>> \o <<Move(m)>>
        BY <2>2, <2>9
      <4>2. text \o piece = (text \o <<Number>>) \o <<Move(m)>>
        BY <4>1, ConcatAssociative
      <4>3. numbered = text \o <<Number>> /\ Append(numbered, Move(m)) = numbered \o <<Move(m)>>
        BY <2>2, <3>1, AppendIsConcat
      <4> QED BY <2>2, <4>2, <4>3, AppendProperties
    <3>3. Those(numbered, {"move", "word"}) = AsWords(s)
      BY <2>2, <2>3, <3>1, ThoseAppend
    <3>4. Those(Append(numbered, Move(m)), {"move", "word"}) = Append(AsWords(s), Move(m))
      BY <2>2, <3>3, ThoseAppend
    <3> QED BY <2>1, <2>6, <2>7, <3>2, <3>4
  <2> QED BY <2>8, <2>9
<1> HIDE DEF T
<1>3. moves \in T
  BY <1>1, <1>2, SeqInduction
<1> QED BY <1>3 DEF T

(* A part of a sequence from its beginning. *)
LEMMA Beginning ==
  ASSUME NEW A, NEW s \in Seq(A), NEW n \in Nat, n <= Len(s)
  PROVE  SubSeq(s, 1, n) \in Seq(A) /\ Len(SubSeq(s, 1, n)) = n
<1>1. Len(s) \in Nat /\ 1 \in Int /\ n \in Int /\ \A i \in 1..n : s[i] \in A
  <2>1. Len(s) \in Nat
    BY LenProperties
  <2>2. \A i \in 1..n : i \in 1..Len(s)
    BY <2>1
  <2> QED BY <2>1, <2>2, ElementOfSeq
<1>2. /\ SubSeq(s, 1, n) \in Seq(A)
      /\ Len(SubSeq(s, 1, n)) = IF 1 <= n THEN n - 1 + 1 ELSE 0
  BY <1>1, SubSeqProperties
<1>3. (IF 1 <= n THEN n - 1 + 1 ELSE 0) = n
  OBVIOUS
<1> QED BY <1>2, <1>3

LEMMA FirstOfFacts ==
  ASSUME NEW A, NEW s \in Seq(A), NEW n \in Nat
  PROVE  /\ FirstOf(n, s) \in Seq(A)
         /\ Len(s) <= n => FirstOf(n, s) = s
<1>1. Len(s) \in Nat
  BY LenProperties
<1> DEFINE k == IF Len(s) < n THEN Len(s) ELSE n
<1>2. k \in Nat /\ k <= Len(s) /\ (Len(s) <= n => k = Len(s))
  BY <1>1
<1>3. FirstOf(n, s) = SubSeq(s, 1, k)
  BY DEF FirstOf
<1> HIDE DEF k
<1>4. SubSeq(s, 1, k) \in Seq(A)
  BY <1>2, Beginning
<1>5. SubSeq(s, 1, Len(s)) = s
  BY SubSeqFull
<1> QED BY <1>2, <1>3, <1>4, <1>5

(* What is left of a file is a sequence of words. *)
LEMMA AfterHeaderFacts ==
  ASSUME NEW file \in Seq(Words)
  PROVE  AfterHeader(file) \in Seq(Words)
<1> DEFINE ends == {i \in DOMAIN file : file[i] = Empty}
           k == CHOOSE i \in ends : \A j \in ends : i <= j
<1>1. Len(file) \in Nat /\ DOMAIN file = 1..Len(file) /\ \A i \in 1..Len(file) : file[i] \in Words
  BY LenProperties, ElementOfSeq
<1>2. CASE ends = {}
  BY <1>2, EmptySeq DEF AfterHeader
<1>3. CASE ends # {}
  <2>1. ends \subseteq Nat /\ ends \subseteq 1..Len(file)
    BY <1>1
  <2>2. \E i \in ends : \A j \in ends : i <= j
    <3> DEFINE Less == {ss \in Nat \X Nat : ss[1] < ss[2]}
    <3> HIDE DEF ends
    <3>1. IsWellFoundedOn(Less, Nat)
      BY NatLessThanWellFounded DEF OpToRel
    <3>2. PICK i \in ends : \A j \in ends : ~(<<j, i>> \in Less)
      BY <1>3, <2>1, <3>1, WFMin
    <3>3. ASSUME NEW j \in ends PROVE i <= j
      <4>1. j \in Nat /\ i \in Nat /\ ~(<<j, i>> \in Less)
        BY <2>1, <3>2
      <4>2. j < i => <<j, i>> \in Less
        BY <4>1
      <4> HIDE DEF Less
      <4> QED BY <4>1, <4>2
    <3> QED BY <3>3
  <2>3. k \in 1..Len(file)
    BY <2>1, <2>2
  <2>4. AfterHeader(file) = SubSeq(file, k + 1, Len(file))
    BY <1>3 DEF AfterHeader
  <2> HIDE DEF k, ends
  <2>5. k + 1 \in Int /\ Len(file) \in Int /\ \A i \in (k + 1)..Len(file) : file[i] \in Words
    BY <1>1, <2>3
  <2> QED BY <2>4, <2>5, SubSeqProperties
<1> QED BY <1>2, <1>3

LEMMA LoadFacts ==
  ASSUME NEW file \in Seq(Words)
  PROVE  LoadMoves(file) \in Seq(Words)
<1>1. Those(AfterHeader(file), {"move", "word"}) \in Seq(Words)
  BY AfterHeaderFacts, ThoseKinds
<1> QED BY <1>1, FirstOfFacts, ReplayAssumption DEF LoadMoves

(* The header of a file that write_pgn wrote is one tag and the empty line. *)
LEMMA WrittenHeader ==
  ASSUME NEW text \in Seq(Words)
  PROVE  /\ <<Tag, Empty>> \o text \in Seq(Words)
         /\ AfterHeader(<<Tag, Empty>> \o text) = text
<1> DEFINE head == <<Tag, Empty>>
           file == head \o text
           n == Len(text)
           ends == {i \in DOMAIN file : file[i] = Empty}
<1>1. Tag \in Words /\ Empty \in Words /\ Tag # Empty
  BY WordFacts
<1>2. head \in Seq(Words) /\ Len(head) = 2 /\ head[1] = Tag /\ head[2] = Empty
  BY <1>1
<1> HIDE DEF head
<1>3. /\ file \in Seq(Words) /\ Len(file) = 2 + n /\ n \in Nat
      /\ \A i \in 1..(2 + n) : file[i] = IF i <= 2 THEN head[i] ELSE text[i - 2]
  <2>1. /\ file \in Seq(Words) /\ Len(file) = Len(head) + Len(text)
        /\ \A i \in 1..(Len(head) + Len(text)) :
             file[i] = IF i <= Len(head) THEN head[i] ELSE text[i - Len(head)]
    BY <1>2, ConcatProperties
  <2>2. n \in Nat
    BY LenProperties
  <2> HIDE DEF file
  <2> QED BY <1>2, <2>1, <2>2
<1>4. DOMAIN file = 1..(2 + n)
  BY <1>3, LenProperties
<1>5. 2 \in ends /\ \A i \in ends : 2 <= i /\ i \in Nat
  <2> HIDE DEF file
  <2>1. 1 \in 1..(2 + n) /\ 2 \in 1..(2 + n) /\ file[1] = Tag /\ file[2] = Empty
    BY <1>2, <1>3
  <2> QED BY <1>1, <1>4, <2>1
<1>6. (CHOOSE i \in ends : \A j \in ends : i <= j) = 2
  <2> HIDE DEF ends
  <2> QED BY <1>5
<1>7. AfterHeader(file) = SubSeq(file, 3, Len(file))
  <2>1. AfterHeader(file) = SubSeq(file, (CHOOSE i \in ends : \A j \in ends : i <= j) + 1, Len(file))
    <3>1. AfterHeader(file) =
            IF ends = {} THEN << >>
            ELSE SubSeq(file, (CHOOSE i \in ends : \A j \in ends : i <= j) + 1, Len(file))
      BY DEF AfterHeader
    <3> HIDE DEF file, ends
    <3> QED BY <1>5, <3>1
  <2> HIDE DEF file, ends
  <2>2. 2 + 1 = 3
    OBVIOUS
  <2> QED BY <1>6, <2>1, <2>2
<1> HIDE DEF file, ends
<1>8. SubSeq(file, 3, Len(file)) = text
  <2> DEFINE rest == SubSeq(file, 3, 2 + n)
  <2>1. \A i \in 3..(2 + n) : file[i] \in Words
    <3>1. \A i \in 3..(2 + n) : i \in 1..(2 + n)
      BY <1>3
    <3> QED BY <1>3, <3>1, ElementOfSeq
  <2>2. 3 \in Int /\ 2 + n \in Int
    BY <1>3
  <2>3. /\ rest \in Seq(Words)
        /\ Len(rest) = IF 3 <= 2 + n THEN 2 + n - 3 + 1 ELSE 0
        /\ \A i \in 1..(2 + n - 3 + 1) : rest[i] = file[3 + i - 1]
    BY <2>1, <2>2, SubSeqProperties
  <2>4. (IF 3 <= 2 + n THEN 2 + n - 3 + 1 ELSE 0) = n /\ 2 + n - 3 + 1 = n
    <3>1. \A m \in Nat : (IF 3 <= 2 + m THEN 2 + m - 3 + 1 ELSE 0) = m /\ 2 + m - 3 + 1 = m
      OBVIOUS
    <3> HIDE DEF n
    <3> QED BY <1>3, <3>1
  <2> HIDE DEF rest, n
  <2>5. \A i \in 1..n : 3 + i - 1 = i + 2 /\ i + 2 \in 1..(2 + n) /\ ~(i + 2 <= 2) /\ (i + 2) - 2 = i
    BY <1>3
  <2>6. Len(rest) = n /\ \A i \in 1..n : rest[i] = text[i]
    BY <1>3, <2>3, <2>4, <2>5
  <2>7. rest = text
    BY <2>3, <2>6, SeqEqual DEF n
  <2> QED BY <1>3, <2>7 DEF rest
<1> QED BY <1>3, <1>7, <1>8 DEF file, head

(* load_moves reads what write_pgn wrote. *)
LEMMA ReadsBack ==
  ASSUME NEW moves \in Seq(Moves), Len(moves) <= MAX_PGN_MOVES
  PROVE  /\ WritePgn(moves) \in Seq(Words)
         /\ LoadMoves(WritePgn(moves)) = AsWords(moves)
<1>1. WritePgn(moves) = <<Tag, Empty>> \o FlattenSeq(Pieces(moves))
  BY DEF WritePgn, Pieces
<1>2. /\ FlattenSeq(Pieces(moves)) \in Seq(Words)
      /\ Those(FlattenSeq(Pieces(moves)), {"move", "word"}) = AsWords(moves)
  BY MovesRead
<1>3. WritePgn(moves) \in Seq(Words) /\ AfterHeader(WritePgn(moves)) = FlattenSeq(Pieces(moves))
  BY <1>1, <1>2, WrittenHeader
<1>4. AsWords(moves) \in Seq(Words) /\ Len(AsWords(moves)) = Len(moves)
  <2>1. /\ DOMAIN moves = 1..Len(moves) /\ Len(moves) \in Nat
        /\ \A i \in 1..Len(moves) : Move(moves[i]) \in Words
    BY LenProperties, ElementOfSeq, WordFacts
  <2> QED BY <2>1, IsASeq DEF AsWords
<1>5. Len(moves) \in Nat /\ MAX_PGN_MOVES \in Nat /\ MAX_MOVES \in Nat /\ MAX_PGN_MOVES <= MAX_MOVES
  BY LenProperties, ReplayAssumption
<1>6. Len(AsWords(moves)) <= MAX_MOVES
  BY <1>4, <1>5
<1>7. LoadMoves(WritePgn(moves)) = FirstOf(MAX_MOVES, AsWords(moves))
  BY <1>2, <1>3 DEF LoadMoves
<1> QED BY <1>3, <1>4, <1>5, <1>6, <1>7, FirstOfFacts

-----------------------------------------------------------------------------
(* The menu of files: an order of finitely many names, and the arrow keys  *)
(* that stay inside of it.                                                 *)
LEMMA ListOfFiles ==
  ASSUME NEW S, IsFiniteSet(S), S # {}
  PROVE  SetToSeq(S) \in Seq(S) /\ Len(SetToSeq(S)) > 0
<1> DEFINE n == Cardinality(S)
<1>1. n \in Nat /\ ExistsBijection(1..n, S)
  BY FS_CardinalityType
<1>2. PICK f \in [1..n -> S] : IsInjective(f)
  BY <1>1 DEF ExistsBijection, Bijection, Injection, IsInjective
<1>3. SetToSeq(S) \in [1..n -> S]
  BY <1>2 DEF SetToSeq
<1>4. n # 0
  BY FS_EmptySet
<1> HIDE DEF n
<1>5. SetToSeq(S) \in Seq(S) /\ Len(SetToSeq(S)) = n
  BY <1>1, <1>3, LenProperties
<1> QED BY <1>1, <1>4, <1>5

LEMMA RoundTheList ==
  ASSUME NEW n \in Nat, NEW k \in Nat, k < n
  PROVE  /\ (k + 1) % n \in Nat /\ (k + 1) % n < n
         /\ (k + n - 1) % n \in Nat /\ (k + n - 1) % n < n
OBVIOUS

(* Words applied are moves, and nothing applied is the reset board. *)
LEMMA AppliedEmpty ==
  ASSUME NEW words \in Seq(Words)
  PROVE  Applied(SubSeq(words, 1, 0)) = << >>
<1>1. SubSeq(words, 1, 0) = << >>
  <2>1. SubSeq(words, 1, 0) \in Seq(Words) /\ Len(SubSeq(words, 1, 0)) = 0
    BY Beginning, LenProperties
  <2> QED BY <2>1, EmptySeq
<1>2. Applied(SubSeq(words, 1, 0)) = [i \in DOMAIN Those(<< >>, {"move"}) |-> Those(<< >>, {"move"})[i].move]
  BY <1>1 DEF Applied
<1>3. Those(<< >>, {"move"}) = << >>
  BY ThoseEmpty
<1> QED BY <1>2, <1>3

(* A move more of the file is a move more on the board, a word that is     *)
(* none leaves it.                                                         *)
LEMMA AppliedOne ==
  ASSUME NEW words \in Seq(Words), NEW w \in Words
  PROVE  /\ Applied(Append(words, w)) = Applied(words) \o Applied(<<w>>)
<1> DEFINE kinds == {"move"}
<1>1. PICK old \in Seq(Words) : old = Those(words, kinds)
  BY ThoseKinds
<1>2. << >> \in Seq(Words) /\ Append(<< >>, w) = <<w>>
  BY EmptySeq
<1>3. /\ Those(Append(words, w), kinds) = IF w.kind \in kinds THEN Append(old, w) ELSE old
      /\ Those(<<w>>, kinds) = IF w.kind \in kinds THEN <<w>> ELSE << >>
  <2>1. Those(Append(words, w), kinds) = IF w.kind \in kinds THEN Append(old, w) ELSE old
    BY <1>1, ThoseAppend
  <2>2. Those(Append(<< >>, w), kinds) = IF w.kind \in kinds THEN Append(Those(<< >>, kinds), w) ELSE Those(<< >>, kinds)
    BY <1>2, ThoseAppend
  <2>3. Those(<< >>, kinds) = << >>
    BY ThoseEmpty
  <2> QED BY <1>2, <2>1, <2>2, <2>3
<1> DEFINE board0 == [i \in DOMAIN old |-> old[i].move]
<1>4. Applied(words) = board0
  BY <1>1 DEF Applied
<1>5. board0 \in Seq({old[i].move : i \in DOMAIN old}) /\ Len(board0) = Len(old)
  <2>1. DOMAIN old = 1..Len(old) /\ Len(old) \in Nat
    BY LenProperties
  <2> QED BY <2>1, IsASeq
<1>6. CASE w.kind \in kinds
  <2> DEFINE S == {old[i].move : i \in DOMAIN old} \cup {w.move}
  <2>1. /\ Append(old, w) \in Seq(Words) /\ Len(Append(old, w)) = Len(old) + 1 /\ Len(old) \in Nat
        /\ \A i \in 1..Len(old) : Append(old, w)[i] = old[i]
        /\ Append(old, w)[Len(old) + 1] = w
        /\ DOMAIN old = 1..Len(old) /\ DOMAIN Append(old, w) = 1..(Len(old) + 1)
    BY AppendProperties, LenProperties
  <2> DEFINE more == [i \in DOMAIN Append(old, w) |-> Append(old, w)[i].move]
             one == <<w.move>>
  <2>2. /\ Applied(Append(words, w)) = more /\ Applied(<<w>>) = one
    <3>1. Applied(Append(words, w)) = more
      BY <1>3, <1>6 DEF Applied
    <3>2. Applied(<<w>>) = [i \in DOMAIN <<w>> |-> <<w>>[i].move]
      BY <1>3, <1>6 DEF Applied
    <3> QED BY <3>1, <3>2
  <2>3. board0 \in Seq(S) /\ one \in Seq(S) /\ Len(one) = 1
    <3>1. \A i \in 1..Len(old) : board0[i] \in S
      BY <2>1
    <3> QED BY <2>1, <3>1, IsASeq
  <2>4. more \in Seq(S) /\ Len(more) = Len(old) + 1
    <3>1. \A i \in 1..(Len(old) + 1) : Append(old, w)[i].move \in S
      BY <2>1
    <3> QED BY <2>1, <3>1, IsASeq
  <2>5. /\ board0 \o one \in Seq(S) /\ Len(board0 \o one) = Len(old) + 1
        /\ \A i \in 1..(Len(old) + 1) : (board0 \o one)[i] = IF i <= Len(old) THEN board0[i] ELSE one[i - Len(old)]
    BY <1>5, <2>1, <2>3, ConcatProperties
  <2>6. \A i \in 1..(Len(old) + 1) : (board0 \o one)[i] = more[i]
    BY <2>1, <2>5
  <2> HIDE DEF board0, one, more, S
  <2>7. more = board0 \o one
    BY <2>4, <2>5, <2>6, SeqEqual
  <2> QED BY <1>4, <2>2, <2>7
<1>7. CASE w.kind \notin kinds
  <2>1. Applied(Append(words, w)) = board0
    BY <1>3, <1>7 DEF Applied
  <2>2. Applied(<<w>>) = << >>
    <3>1. Applied(<<w>>) = [i \in DOMAIN << >> |-> << >>[i].move]
      BY <1>3, <1>7 DEF Applied
    <3> QED BY <3>1
  <2> HIDE DEF board0
  <2> QED BY <1>4, <1>5, <2>1, <2>2, ConcatEmptySeq
<1> QED BY <1>6, <1>7

(* The same of the file's first moves. *)
LEMMA AppliedNext ==
  ASSUME NEW words \in Seq(Words), NEW n \in Nat, n < Len(words)
  PROVE  Applied(SubSeq(words, 1, n + 1)) = Applied(SubSeq(words, 1, n)) \o Applied(<<words[n + 1]>>)
<1> DEFINE front == SubSeq(words, 1, n)
           more == SubSeq(words, 1, n + 1)
           w == words[n + 1]
<1>1. Len(words) \in Nat /\ n + 1 \in Nat /\ n + 1 \in 1..Len(words) /\ n <= Len(words) /\ n + 1 <= Len(words)
  BY LenProperties
<1>2. w \in Words
  BY <1>1, ElementOfSeq
<1>3. front \in Seq(Words) /\ Len(front) = n /\ \A i \in 1..n : front[i] = words[i]
  BY <1>1, Beginning
<1>4. more \in Seq(Words) /\ Len(more) = n + 1 /\ \A i \in 1..(n + 1) : more[i] = words[i]
  BY <1>1, Beginning
<1> HIDE DEF front, more
<1>5. /\ Append(front, w) \in Seq(Words) /\ Len(Append(front, w)) = n + 1
      /\ \A i \in 1..n : Append(front, w)[i] = front[i]
      /\ Append(front, w)[n + 1] = w
  BY <1>2, <1>3, AppendProperties
<1>6. \A i \in 1..(n + 1) : Append(front, w)[i] = more[i]
  BY <1>3, <1>4, <1>5
<1>7. more = Append(front, w)
  BY <1>4, <1>5, <1>6, SeqEqual
<1>8. Applied(Append(front, w)) = Applied(front) \o Applied(<<w>>)
  <2> HIDE DEF w
  <2> QED BY <1>2, <1>3, AppliedOne
<1> QED BY <1>7, <1>8 DEF front, more

-----------------------------------------------------------------------------
(* What is in the replays directory: files of words, and what the client   *)
(* saved in it is what write_pgn made of the record of that moment.        *)
FilesInv ==
  /\ pgn_moves \in Seq(Moves) /\ Len(pgn_moves) <= MAX_PGN_MOVES
  /\ IsFiniteSet(DOMAIN files)
  /\ \A name \in DOMAIN files : files[name] \in Seq(Words)
  /\ \A name \in DOMAIN records :
       /\ name \in DOMAIN files
       /\ records[name] \in Seq(Moves) /\ Len(records[name]) <= MAX_PGN_MOVES
       /\ files[name] = WritePgn(records[name])

(* What the UI thread has in hand: a list of files that are there, or the  *)
(* words of one file and a place in its loop.                              *)
States == [moves : Seq(Words), current : Int, auto_play : BOOLEAN, due : BOOLEAN]

UiInv ==
  /\ state \in States
  /\ ui = "list" => listing \in Seq(DOMAIN files) /\ highlight \in Nat /\ highlight < Len(listing)
  /\ ui = "replay" => state.current \in -1 .. Len(state.moves) - 1

(* The board is the replay's, as far as it has been rebuilt: all of it in  *)
(* the loop, the first moves while there are some to apply.                *)
IsBoard(b, replay, n) == b = Applied(SubSeq(replay.moves, 1, n))

BoardInv ==
  ui = "replay" =>
    /\ place \in {"auto", "keys", "reset", "apply"}
    /\ place = "apply" => next \in Nat /\ next <= state.current + 1
    /\ ~touched =>
         /\ place \in {"auto", "keys"} => IsBoard(board, state, state.current + 1)
         /\ place = "apply" => IsBoard(board, state, next)

ReplayInv == FilesInv /\ UiInv /\ BoardInv

LEMMA InitInv == Init => ReplayInv
<1> SUFFICES ASSUME Init PROVE ReplayInv
  OBVIOUS
<1>1. << >> \in Seq(Moves) /\ Len(<< >>) = 0 /\ << >> \in Seq(Words) /\ DOMAIN << >> = {}
  BY EmptySeq
<1>2. FilesInv
  BY <1>1, ReplayAssumption DEF Init, FilesInv
<1>3. UiInv
  BY <1>1 DEF Init, UiInv, States, NoReplay, ReplayOf
<1>4. BoardInv
  BY DEF Init, BoardInv
<1> QED BY <1>2, <1>3, <1>4 DEF ReplayInv

(* The record of the game and the files: only handle_move_broadcast adds   *)
(* to the one and save_current_game to the others.                         *)
LEMMA StepFiles == ReplayInv /\ [Next]_vars => FilesInv' /\ (DOMAIN files \subseteq DOMAIN files')
<1> SUFFICES ASSUME ReplayInv, [Next]_vars PROVE FilesInv' /\ DOMAIN files \subseteq DOMAIN files'
  OBVIOUS
<1> USE DEF ReplayInv
<1>1. CASE UNCHANGED gameVars
  BY <1>1 DEF FilesInv, gameVars
<1>2. CASE NetStart
  BY <1>2, EmptySeq, ReplayAssumption DEF NetStart, FilesInv
<1>3. ASSUME NEW m \in Moves, NetMove(m) PROVE FilesInv' /\ DOMAIN files \subseteq DOMAIN files'
  <2>1. files' = files /\ records' = records
    BY <1>3 DEF NetMove
  <2>2. pgn_moves' \in Seq(Moves) /\ Len(pgn_moves') <= MAX_PGN_MOVES
    <3>1. CASE Len(pgn_moves) < MAX_PGN_MOVES /\ (pgn_moves = << >> \/ Last(pgn_moves) # m)
      <4>1. pgn_moves' = Append(pgn_moves, m)
        BY <1>3, <3>1 DEF NetMove
      <4>2. Append(pgn_moves, m) \in Seq(Moves) /\ Len(Append(pgn_moves, m)) = Len(pgn_moves) + 1 /\ Len(pgn_moves) \in Nat
        BY AppendProperties, LenProperties DEF FilesInv
      <4> QED BY <3>1, <4>1, <4>2, ReplayAssumption
    <3>2. CASE ~(Len(pgn_moves) < MAX_PGN_MOVES /\ (pgn_moves = << >> \/ Last(pgn_moves) # m))
      BY <1>3, <3>2 DEF NetMove, FilesInv
    <3> QED BY <3>1, <3>2
  <2> QED BY <2>1, <2>2 DEF FilesInv
<1>4. ASSUME NEW name \in Names, Save(name) PROVE FilesInv' /\ DOMAIN files \subseteq DOMAIN files'
  <2>1. pgn_moves \in Seq(Moves) /\ Len(pgn_moves) <= MAX_PGN_MOVES /\ WritePgn(pgn_moves) \in Seq(Words)
    BY ReadsBack DEF FilesInv
  <2>2. /\ pgn_moves' = pgn_moves
        /\ DOMAIN files' = DOMAIN files \cup {name}
        /\ DOMAIN records' = DOMAIN records \cup {name}
        /\ \A n \in DOMAIN files \cup {name} : files'[n] = IF n = name THEN WritePgn(pgn_moves) ELSE files[n]
        /\ \A n \in DOMAIN records \cup {name} : records'[n] = IF n = name THEN pgn_moves ELSE records[n]
    BY <1>4 DEF Save
  <2>3. IsFiniteSet(DOMAIN files \cup {name})
    BY FS_AddElement DEF FilesInv
  <2>4. \A n \in DOMAIN files' : files'[n] \in Seq(Words)
    BY <2>1, <2>2 DEF FilesInv
  <2>5. \A n \in DOMAIN records' :
          /\ n \in DOMAIN files'
          /\ records'[n] \in Seq(Moves) /\ Len(records'[n]) <= MAX_PGN_MOVES
          /\ files'[n] = WritePgn(records'[n])
    BY <2>1, <2>2 DEF FilesInv
  <2> QED BY <2>1, <2>2, <2>3, <2>4, <2>5 DEF FilesInv
<1>5. ASSUME Next PROVE \/ UNCHANGED gameVars \/ NetStart \/ (\E m \in Moves : NetMove(m))
                        \/ \E name \in Names : Save(name)
  BY <1>5 DEF Next, ReplayMenu, NameEntered, ShowReplayFiles, ListUp, ListDown, ListEntered, Leave,
              NetBegins, Replaying, ResetBoard, ApplyNext, Rebuilt, NoAutoPlay, NoKey, HalfSecond, AtKeys,
              StepBack, StepForward, ToggleAutoPlay, AutoPlay, GoTo, gameVars
<1> QED BY <1>1, <1>2, <1>3, <1>4, <1>5 DEF vars

(* A file chosen by name or from the list starts before its first move,    *)
(* with the reset.                                                         *)
LEMMA StartsAtReset ==
  ASSUME ReplayInv, NEW name \in DOMAIN files, StartReplay(name)
  PROVE  /\ state' \in States
         /\ ui' # "list"
         /\ ui' = "replay" => state'.current \in -1 .. Len(state'.moves) - 1 /\ place' = "reset"
<1>1. PICK words \in Seq(Words) : words = LoadMoves(files[name])
  BY LoadFacts DEF ReplayInv, FilesInv
<1>2. CASE words = << >>
  BY <1>1, <1>2 DEF StartReplay, ReplayInv, UiInv
<1>3. CASE words # << >>
  <2>1. state' = [moves |-> words, current |-> -1, auto_play |-> FALSE, due |-> FALSE] /\ place' = "reset" /\ ui' = "replay"
    BY <1>1, <1>3 DEF StartReplay, Rebuild, ReplayOf
  <2>2. -1 \in -1 .. Len(words) - 1
    BY LenProperties
  <2>3. state'.moves = words /\ state'.current = -1 /\ state' \in States
    BY <2>1 DEF States
  <2> QED BY <2>1, <2>2, <2>3
<1> QED BY <1>2, <1>3

(* replay_to_move begins with the mark inside the file. *)
LEMMA GoesToMove ==
  ASSUME ReplayInv, NEW n \in -1 .. Len(state.moves) - 1, NEW auto \in BOOLEAN, GoTo(n, auto)
  PROVE  /\ state' \in States
         /\ state'.current \in -1 .. Len(state'.moves) - 1
         /\ place' = "reset"
         /\ UNCHANGED <<ui, listing, highlight>>
<1>1. state \in States /\ n \in Int
  BY LenProperties DEF ReplayInv, UiInv
<1>2. state' = [state EXCEPT !.current = n, !.auto_play = auto]
  BY DEF GoTo, Rebuild
<1>3. state'.moves = state.moves /\ state'.current = n /\ state' \in States
  BY <1>1, <1>2 DEF States
<1> QED BY <1>3 DEF GoTo, Rebuild, menuVars

(* Steps that change nothing of a replay but what its board is not told    *)
(* by: whether the half second has passed, and auto-play itself.           *)
LEMMA SameMark ==
  ASSUME UiInv, NEW auto \in BOOLEAN, NEW due \in BOOLEAN,
         state' = [state EXCEPT !.auto_play = auto, !.due = due]
  PROVE  state' \in States /\ state'.moves = state.moves /\ state'.current = state.current
<1>1. state \in States
  BY DEF UiInv
<1> QED BY <1>1 DEF States

(* The network thread's steps, and a save. *)
Elsewhere ==
  \/ NetBegins(Start) \/ (\E m \in Moves : NetBegins(Move(m)))
  \/ NetStart \/ (\E m \in Moves : NetMove(m)) \/ (\E name \in Names : Save(name))

LEMMA Steps ==
  ASSUME ReplayInv, Next
  PROVE  \/ Elsewhere
         \/ ReplayMenu \/ (\E name \in DOMAIN files : StartReplay(name) /\ UNCHANGED menuVars) \/ ShowReplayFiles
         \/ ListUp \/ ListDown \/ Leave
         \/ ResetBoard \/ ApplyNext \/ Rebuilt \/ NoAutoPlay \/ NoKey \/ ToggleAutoPlay \/ HalfSecond
         \/ \E n \in -1 .. Len(state.moves) - 1, auto \in BOOLEAN : ui = "replay" /\ GoTo(n, auto)
<1>1. CASE ListEntered
  <2>1. listing \in Seq(DOMAIN files) /\ highlight \in Nat /\ highlight < Len(listing) /\ Len(listing) \in Nat
    BY <1>1, LenProperties DEF ListEntered, ReplayInv, UiInv
  <2>2. highlight + 1 \in 1..Len(listing)
    BY <2>1
  <2>3. PICK name \in DOMAIN files : name = listing[highlight + 1]
    BY <2>1, <2>2, ElementOfSeq
  <2> QED BY <1>1, <2>3 DEF ListEntered
<1>2. CASE StepBack \/ StepForward \/ AutoPlay
  <2>1. ui = "replay" /\ state.current \in Int /\ state.current \in -1 .. Len(state.moves) - 1 /\ Len(state.moves) \in Nat
    BY <1>2, LenProperties DEF StepBack, StepForward, AutoPlay, AtKeys, ReplayInv, UiInv, States
  <2>2. state.current >= 0 => state.current - 1 \in -1 .. Len(state.moves) - 1
    BY <2>1
  <2>3. state.current < LastMove => state.current + 1 \in -1 .. Len(state.moves) - 1
    BY <2>1 DEF LastMove
  <2>4. CASE StepBack
    BY <2>1, <2>2, <2>4 DEF StepBack
  <2>5. CASE StepForward
    BY <2>1, <2>3, <2>5 DEF StepForward
  <2>6. CASE AutoPlay
    BY <2>1, <2>3, <2>6 DEF AutoPlay, MayStep
  <2> QED BY <1>2, <2>4, <2>5, <2>6
<1>3. CASE \E name \in DOMAIN files : NameEntered(name)
  BY <1>3 DEF NameEntered
<1> QED BY <1>1, <1>2, <1>3 DEF Next, Replaying, Elsewhere

LEMMA StepUi == ReplayInv /\ [Next]_vars => UiInv'
<1> SUFFICES ASSUME ReplayInv, [Next]_vars PROVE UiInv'
  OBVIOUS
<1> USE DEF ReplayInv
<1>1. DOMAIN files \subseteq DOMAIN files'
  BY StepFiles
<1>2. listing \in Seq(DOMAIN files) => listing \in Seq(DOMAIN files')
  <2>1. ASSUME listing \in Seq(DOMAIN files) PROVE listing \in Seq(DOMAIN files')
    <3>1. \E n \in Nat : listing \in [1..n -> DOMAIN files]
      BY <2>1, LenProperties
    <3> QED BY <1>1, <3>1
  <2> QED BY <2>1
<1>3. CASE UNCHANGED <<menuVars, ui, state>>
  BY <1>2, <1>3 DEF UiInv, menuVars
<1>4. CASE Elsewhere
  BY <1>3, <1>4 DEF Elsewhere, NetBegins, NetStart, NetMove, Save, loopVars
<1>5. CASE ReplayMenu
  BY <1>5 DEF ReplayMenu, UiInv
<1>6. ASSUME NEW name \in DOMAIN files, StartReplay(name) PROVE UiInv'
  BY <1>6, StartsAtReset DEF UiInv
<1>7. CASE ShowReplayFiles
  <2>1. CASE DOMAIN files = {}
    BY <1>7, <2>1 DEF ShowReplayFiles, UiInv, gameVars, menuVars
  <2>2. CASE DOMAIN files # {}
    <3>1. ui' = "list" /\ listing' = SetToSeq(DOMAIN files) /\ highlight' = 0 /\ state' = state
      BY <1>7, <2>2 DEF ShowReplayFiles
    <3>2. PICK list \in Seq(DOMAIN files) : list = SetToSeq(DOMAIN files) /\ Len(list) > 0
      BY <2>2, ListOfFiles DEF FilesInv
    <3>3. files' = files
      BY <1>7 DEF ShowReplayFiles, gameVars
    <3> QED BY <3>1, <3>2, <3>3 DEF UiInv
  <2> QED BY <2>1, <2>2
<1>8. CASE ListUp \/ ListDown
  <2>1. ui = "list" /\ listing \in Seq(DOMAIN files) /\ highlight \in Nat /\ highlight < Len(listing) /\ Len(listing) \in Nat
    BY <1>8, LenProperties DEF ListUp, ListDown, UiInv
  <2>2. PICK k \in Nat : highlight' = k /\ k < Len(listing)
    BY <1>8, <2>1, RoundTheList DEF ListUp, ListDown
  <2> QED BY <1>2, <1>8, <2>1, <2>2 DEF ListUp, ListDown, UiInv, loopVars
<1>9. CASE Leave
  BY <1>9, EmptySeq DEF Leave, UiInv, States, NoReplay, ReplayOf
<1>10. ASSUME NEW n \in -1 .. Len(state.moves) - 1, NEW auto \in BOOLEAN, ui = "replay", GoTo(n, auto) PROVE UiInv'
  BY <1>10, GoesToMove DEF UiInv
<1>11. CASE ResetBoard \/ ApplyNext \/ NoAutoPlay \/ NoKey
  BY <1>3, <1>11 DEF ResetBoard, ApplyNext, NoAutoPlay, NoKey
<1>12. CASE Rebuilt \/ ToggleAutoPlay \/ HalfSecond
  <2>1. state \in States /\ ui = "replay" /\ ui' = ui
    BY <1>12 DEF Rebuilt, ToggleAutoPlay, HalfSecond, AtKeys, UiInv
  <2>2. PICK auto \in BOOLEAN, due \in BOOLEAN : state' = [state EXCEPT !.auto_play = auto, !.due = due]
    <3>1. state.auto_play \in BOOLEAN /\ state.auto_play = state["auto_play"]
      BY <2>1 DEF States
    <3>2. state = [state EXCEPT !.auto_play = state.auto_play]
      BY <2>1 DEF States
    <3>3. CASE Rebuilt
      <4>1. state' = [state EXCEPT !.auto_play = state.auto_play, !.due = FALSE]
        BY <2>1, <3>3 DEF Rebuilt, States
      <4> QED BY <3>1, <4>1
    <3>4. CASE ToggleAutoPlay
      <4>1. state' = [state EXCEPT !.auto_play = ~state.auto_play, !.due = FALSE]
        BY <3>4 DEF ToggleAutoPlay
      <4> QED BY <3>1, <4>1
    <3>5. CASE HalfSecond
      <4>1. state' = [state EXCEPT !.auto_play = state.auto_play, !.due = TRUE]
        BY <2>1, <3>5 DEF HalfSecond, States
      <4> QED BY <3>1, <4>1
    <3> QED BY <1>12, <3>3, <3>4, <3>5
  <2>3. state' \in States /\ state'.moves = state.moves /\ state'.current = state.current
    BY <2>2, SameMark
  <2>4. UNCHANGED <<menuVars, ui>>
    BY <1>12 DEF Rebuilt, ToggleAutoPlay, HalfSecond
  <2> QED BY <1>2, <2>3, <2>4 DEF UiInv, menuVars
<1>13. CASE Next
  BY <1>4, <1>5, <1>6, <1>7, <1>8, <1>9, <1>10, <1>11, <1>12, <1>13, Steps
<1>14. CASE UNCHANGED vars
  BY <1>3, <1>14 DEF vars, loopVars
<1> QED BY <1>13, <1>14

(* The board: a step begins with a reset, goes on move by move, and ends   *)
(* with all of them applied.                                               *)
LEMMA StepBoard == ReplayInv /\ [Next]_vars => BoardInv'
<1> SUFFICES ASSUME ReplayInv, [Next]_vars PROVE BoardInv'
  OBVIOUS
<1> USE DEF ReplayInv
<1>1. CASE UNCHANGED <<loopVars, board, touched>>
  BY <1>1 DEF BoardInv, loopVars
<1>2. CASE NetStart \/ (\E m \in Moves : NetMove(m))
  BY <1>2 DEF NetStart, NetMove, BoardInv, loopVars
<1>3. CASE ui' # "replay"
  BY <1>3 DEF BoardInv
<1>4. CASE ui' = "replay" /\ place' = "reset"
  BY <1>4 DEF BoardInv
<1>5. CASE NetBegins(Start) \/ (\E m \in Moves : NetBegins(Move(m))) \/ (\E name \in Names : Save(name)) \/ ListUp \/ ListDown
  BY <1>1, <1>5 DEF NetBegins, Save, ListUp, ListDown
<1>6. CASE ReplayMenu \/ ShowReplayFiles \/ Leave
  BY <1>3, <1>6 DEF ReplayMenu, ShowReplayFiles, Leave
<1>7. ASSUME NEW name \in DOMAIN files, StartReplay(name) PROVE BoardInv'
  BY <1>3, <1>4, <1>7 DEF StartReplay, Rebuild
<1>8. ASSUME NEW n, NEW auto, ui = "replay", GoTo(n, auto) PROVE BoardInv'
  BY <1>4, <1>8 DEF GoTo, Rebuild
<1>9. CASE NoAutoPlay \/ NoKey
  BY <1>9 DEF NoAutoPlay, NoKey, AtKeys, BoardInv
<1>10. CASE ResetBoard
  <2>1. ui = "replay" /\ place' = "apply" /\ next' = 0 /\ board' = << >> /\ UNCHANGED <<ui, state, touched>>
    BY <1>10 DEF ResetBoard
  <2>2. state \in States /\ state.moves \in Seq(Words) /\ state.current \in Int /\ 0 <= state.current + 1
    <3>1. state \in States /\ state.current \in -1 .. Len(state.moves) - 1
      BY <2>1 DEF UiInv
    <3>2. state.moves \in Seq(Words) /\ state.current \in Int
      BY <3>1 DEF States
    <3> QED BY <3>1, <3>2, LenProperties
  <2>3. IsBoard(<< >>, state, 0)
    BY <2>2, AppliedEmpty DEF IsBoard
  <2> QED BY <2>1, <2>2, <2>3 DEF BoardInv
<1>11. CASE ApplyNext
  <2>1. /\ ui = "replay" /\ place = "apply" /\ next <= state.current
        /\ board' = board \o Applied(<<state.moves[next + 1]>>) /\ next' = next + 1
        /\ UNCHANGED <<ui, state, place, touched>>
    BY <1>11 DEF ApplyNext
  <2>2. next \in Nat /\ (touched \/ IsBoard(board, state, next))
    BY <2>1 DEF BoardInv
  <2>3. state.moves \in Seq(Words) /\ state.current \in Int /\ state.current \in -1 .. Len(state.moves) - 1
    BY <2>1 DEF UiInv, States
  <2>4. next + 1 \in Nat /\ next + 1 <= state.current + 1 /\ next < Len(state.moves)
    BY <2>1, <2>2, <2>3, LenProperties
  <2>5. IsBoard(board, state, next) => IsBoard(board', state, next + 1)
    BY <2>1, <2>2, <2>3, <2>4, AppliedNext DEF IsBoard
  <2> QED BY <2>1, <2>2, <2>4, <2>5 DEF BoardInv
<1>12. CASE Rebuilt
  <2>1. /\ ui = "replay" /\ place = "apply" /\ ~(next <= state.current) /\ place' \in {"auto", "keys"}
        /\ state' = [state EXCEPT !.due = FALSE] /\ UNCHANGED <<ui, board, touched>>
    <3>1. state.current \in Int /\ next \in Nat
      BY <1>12 DEF Rebuilt, UiInv, States, BoardInv
    <3> QED BY <1>12, <3>1 DEF Rebuilt
  <2>2. state \in States /\ state'.moves = state.moves /\ state'.current = state.current
    BY <2>1 DEF UiInv, States
  <2>3. next \in Nat /\ state.current \in Int /\ next <= state.current + 1 /\ (touched \/ IsBoard(board, state, next))
    BY <2>1, <2>2 DEF BoardInv, States
  <2>4. next = state.current + 1
    BY <2>1, <2>3
  <2>5. touched \/ IsBoard(board, state', state'.current + 1)
    BY <2>2, <2>3, <2>4 DEF IsBoard
  <2> QED BY <2>1, <2>5 DEF BoardInv
<1>13. CASE ToggleAutoPlay \/ HalfSecond
  <2>1. state'.moves = state.moves /\ state'.current = state.current
    BY <1>13 DEF ToggleAutoPlay, HalfSecond, UiInv, States
  <2>2. \A b, n : IsBoard(b, state', n) <=> IsBoard(b, state, n)
    BY <2>1 DEF IsBoard
  <2>3. CASE ToggleAutoPlay
    BY <2>1, <2>2, <2>3 DEF ToggleAutoPlay, AtKeys, BoardInv
  <2>4. CASE HalfSecond
    BY <2>1, <2>2, <2>4 DEF HalfSecond, BoardInv
  <2> QED BY <1>13, <2>3, <2>4
<1>14. CASE Next
  BY <1>2, <1>5, <1>6, <1>7, <1>8, <1>9, <1>10, <1>11, <1>12, <1>13, <1>14, Steps DEF Elsewhere
<1>15. CASE UNCHANGED vars
  BY <1>1, <1>15 DEF vars
<1> QED BY <1>14, <1>15

(* In every state the saved files are those of their records, the list is  *)
(* of files that are there, the replay's mark is inside its file, and the  *)
(* board is as far rebuilt as its loop has come: what save_current_game,   *)
(* show_replay_files and replay_to_move keep.                              *)
THEOREM ReplayInvariant == Spec => []ReplayInv
<1>1. ReplayInv /\ [Next]_vars => ReplayInv'
  BY StepFiles, StepUi, StepBoard DEF ReplayInv
<1> QED BY <1>1, InitInv, PTL DEF Spec

(* load_moves finds in every saved file the very moves write_pgn wrote     *)
(* into it, in their order, whatever the game and however often a name was *)
(* used again.                                                             *)
THEOREM SavedGamesReadBack == Spec => []RecordReadsBack
<1>1. ReplayInv => RecordReadsBack
  <2> SUFFICES ASSUME ReplayInv, NEW name \in DOMAIN records
               PROVE  LoadMoves(files[name]) = [i \in DOMAIN records[name] |-> Move(records[name][i])]
    BY DEF RecordReadsBack
  <2>1. PICK moves \in Seq(Moves) : moves = records[name] /\ Len(moves) <= MAX_PGN_MOVES /\ files[name] = WritePgn(moves)
    BY DEF ReplayInv, FilesInv
  <2> QED BY <2>1, ReadsBack DEF AsWords
<1> QED BY <1>1, ReplayInvariant, PTL

(* However the user goes to and fro in a game of any length, what the      *)
(* moves of replay_to_move leave one after another is the position after   *)
(* those marked as played, unless the network thread writes on the same    *)
(* board after the reset has begun; and the menu's mark is on a file.      *)
THEOREM ReplayIsTrue == Spec => []ReplayShowsMoves
<1>1. ReplayInv => ReplayShowsMoves
  <2> SUFFICES ASSUME ReplayInv PROVE ReplayShowsMoves
    OBVIOUS
  <2>1. ui = "list" => highlight + 1 \in DOMAIN listing
    <3> SUFFICES ASSUME ui = "list" PROVE highlight + 1 \in DOMAIN listing
      OBVIOUS
    <3>1. listing \in Seq(DOMAIN files) /\ highlight \in Nat /\ highlight < Len(listing)
      BY DEF ReplayInv, UiInv
    <3>2. DOMAIN listing = 1..Len(listing) /\ Len(listing) \in Nat
      BY <3>1, LenProperties
    <3> QED BY <3>1, <3>2
  <2> QED BY <2>1 DEF ReplayInv, UiInv, BoardInv, IsBoard, ReplayShowsMoves
<1> QED BY <1>1, ReplayInvariant, PTL
=============================================================================
