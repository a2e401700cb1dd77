--------------------------- MODULE FifoLogProofs ---------------------------
(***************************************************************************)
(* Proofs about FifoLog, for any number of producers and consumers, any    *)
(* sizes of the blocks and of the FIFO, and texts that LinesEndBlocks, or  *)
(* for the rows OneLine, describes.                                        *)
(*                                                                         *)
(* The argument: the two locks leave one consumer that fetches and one     *)
(* producer that writes (Locks).  What the one has got, what is in the     *)
(* FIFO and what the other has still to write is, put together, nothing or *)
(* one message (Channel), since a producer begins one when the FIFO is     *)
(* empty and a consumer goes on fetching until it has the newline.  The    *)
(* messages of one producer are in order from its text to the row: k in    *)
(* the file, then the one a consumer holds, the one in the channel and the *)
(* one it has made (InOrder), so that what is added to the row is always   *)
(* its next block.                                                         *)
(***************************************************************************)
EXTENDS FifoLog, FiniteSetTheorems, WellFoundedInduction, SequenceTheorems, TLAPS

-----------------------------------------------------------------------------
(***************************************************************************)
(* Blocks, texts and rows: what FifoLog's operators on sequences do, for   *)
(* all blocks, texts and files.  What a message is made of, where the rows *)
(* of a file end, and that AddToRow puts a line at the end of one row and  *)
(* changes no other (FileGrows), which is one more block of the text if    *)
(* the line is that of a message (BlockAdded).                             *)
(***************************************************************************)
\* A message: a mark, and a text that ends at its newline.
IsMessage(s) ==
  /\ s \in Seq(Symbols)
  /\ Len(s) \in 2 .. BLOCK + 2
  /\ IsMark(s[1])
  /\ \A k \in 2 .. Len(s) : ~IsMark(s[k])
  /\ \A k \in 1 .. Len(s) : s[k] = NL <=> k = Len(s)

-----------------------------------------------------------------------------
(***************************************************************************)
(* Symbols, pieces of sequences, and messages.                             *)
(***************************************************************************)

\* A symbol is the newline, a mark or a symbol of a text; only marks are marks.
LEMMA SymbolFacts ==
  /\ NL \in Symbols /\ ~IsMark(NL)
  /\ \A p \in Producer : Mark(Line[p]) \in Symbols /\ IsMark(Mark(Line[p]))
  /\ \A s \in Symbols : IsMark(s) => \E p \in Producer : s = Mark(Line[p])
  /\ \A l \in Nat : Mark(l) # NL /\ Mark(l)[2] = l
  <1>1. ~IsMark(NL)
    BY DEF IsMark, NL
  <1>2. \A l : IsMark(Mark(l)) /\ Mark(l)[2] = l
    BY DEF IsMark, Mark
  <1>3. \A s \in Symbols : IsMark(s) => \E p \in Producer : s = Mark(Line[p])
    <2> SUFFICES ASSUME NEW s \in Symbols, IsMark(s)
                 PROVE  \E p \in Producer : s = Mark(Line[p])
      OBVIOUS
    <2>1. CASE s \in UNION {{Text[p][i] : i \in 1 .. Len(Text[p])} : p \in Producer}
      BY <2>1, TextAssumption
    <2> QED
      BY <1>1, <2>1 DEF Symbols
  <1>4. NL \in Symbols /\ \A p \in Producer : Mark(Line[p]) \in Symbols
    BY DEF Symbols
  <1> QED
    BY <1>1, <1>2, <1>3, <1>4

\* The first n elements of a sequence and the others.
LEMMA Cut ==
  ASSUME NEW S, NEW s \in Seq(S), NEW n \in 0 .. Len(s)
  PROVE  /\ SubSeq(s, 1, n) \in Seq(S) /\ Len(SubSeq(s, 1, n)) = n
         /\ \A k \in 1 .. n : SubSeq(s, 1, n)[k] = s[k]
         /\ Drop(s, n) \in Seq(S) /\ Len(Drop(s, n)) = Len(s) - n
         /\ \A k \in 1 .. Len(s) - n : Drop(s, n)[k] = s[n + k]
         /\ SubSeq(s, 1, n) \o Drop(s, n) = s
  <1>1. \A k \in 1 .. Len(s) : s[k] \in S
    BY ElementOfSeq
  <1>2. /\ SubSeq(s, 1, n) \in Seq(S) /\ Len(SubSeq(s, 1, n)) = n
        /\ \A k \in 1 .. n : SubSeq(s, 1, n)[k] = s[k]
    BY <1>1, SubSeqProperties, LenProperties
  <1>3. /\ Drop(s, n) \in Seq(S) /\ Len(Drop(s, n)) = Len(s) - n
        /\ \A k \in 1 .. Len(s) - n : Drop(s, n)[k] = s[n + k]
    BY <1>1, SubSeqProperties, LenProperties DEF Drop
  <1>4. SubSeq(s, 1, n) \o Drop(s, n) = s
    <2>1. Len(s) \in Nat /\ 1 \in 1 .. Len(s) + 1 /\ n \in 1 - 1 .. Len(s) /\ Len(s) \in n .. Len(s)
      BY LenProperties
    <2>2. SubSeq(s, 1, n) \o SubSeq(s, n + 1, Len(s)) = SubSeq(s, 1, Len(s))
      BY <2>1, ConcatAdjacentSubSeq
    <2> QED
      BY <2>2, SubSeqFull DEF Drop
  <1> QED
    BY <1>2, <1>3, <1>4

\* Dropping more than there is leaves nothing.
LEMMA DropAll ==
  ASSUME NEW S, NEW s \in Seq(S), NEW n \in Nat, n >= Len(s)
  PROVE  Drop(s, n) = <<>> /\ Drop(s, n) \in Seq(S)
  BY SubSeqEmpty, LenProperties, EmptySeq DEF Drop

\* A block with its mark and its newline is a message.
LEMMA MessageMade ==
  ASSUME LinesEndBlocks, NEW p \in Producer, NEW k \in Nat, k * BLOCK < Len(Text[p])
  PROVE  IsMessage(Message(p, k * BLOCK))
  <1> DEFINE n == k * BLOCK
             t == Text[p]
             m == Least(n + BLOCK, Len(t))
             block == SubSeq(t, n + 1, m)
             end == IF block[Len(block)] = NL THEN <<>> ELSE <<NL>>
             head == <<Mark(Line[p])>> \o block
             s == head \o end
  <1>1. t \in Seq(Symbols) /\ Len(t) \in Nat
    BY TextAssumption, LenProperties
  <1>2. n \in Nat /\ m \in Nat /\ m > n /\ m <= n + BLOCK /\ m <= Len(t)
        /\ (m = n + BLOCK \/ m = Len(t))
    BY <1>1, SizesAssumption DEF Least
  <1>3. /\ block \in Seq(Symbols) /\ Len(block) = m - n
        /\ \A i \in 1 .. m - n : block[i] = t[n + i]
    <2>1. \A i \in n + 1 .. m : t[i] \in Symbols
      BY <1>1, <1>2, ElementOfSeq
    <2> HIDE DEF t, n, m
    <2> QED
      BY <1>2, <2>1, SubSeqProperties
  <1>4. \A i \in 1 .. m - n : ~IsMark(block[i])
    <2>1. \A i \in 1 .. Len(t) : ~IsMark(t[i])
      BY TextAssumption
    <2> HIDE DEF t, n, m, block
    <2> QED
      BY <1>1, <1>2, <1>3, <2>1
  <1>5. ASSUME NEW i \in 1 .. m - n, block[i] = NL
        PROVE  i = m - n
    <2>1. t[n + i] = NL /\ n + i \in 1 .. Len(t)
      <3> HIDE DEF t, n, m, block
      <3>1. t[n + i] = NL
        BY <1>3, <1>5
      <3> QED
        BY <3>1, <1>1, <1>2
    <2>2. CASE n + i = Len(t)
      BY <2>2, <1>1, <1>2
    <2>3. ASSUME NEW j \in 0 .. Len(t), n + i = j * BLOCK
          PROVE  i = m - n
      <3>1. j > k
        <4>1. SUFFICES ASSUME j <= k PROVE FALSE
          BY <1>1
        <4>2. j * BLOCK <= k * BLOCK
          BY <4>1, <1>1, SizesAssumption
        <4> QED
          BY <4>2, <2>3, <1>2
      <3>2. j * BLOCK >= (k + 1) * BLOCK
        BY <3>1, <1>1, SizesAssumption
      <3>3. (k + 1) * BLOCK = n + BLOCK
        BY SizesAssumption
      <3> QED
        BY <3>2, <3>3, <2>3, <1>2, <1>1, SizesAssumption
    <2> QED
      BY <2>1, <2>2, <2>3 DEF LinesEndBlocks
  <1>6. /\ head \in Seq(Symbols) /\ Len(head) = m - n + 1
        /\ head[1] = Mark(Line[p])
        /\ \A i \in 1 .. m - n : head[i + 1] = block[i]
    <2>1. <<Mark(Line[p])>> \in Seq(Symbols) /\ Len(<<Mark(Line[p])>>) = 1
          /\ <<Mark(Line[p])>>[1] = Mark(Line[p])
      BY SymbolFacts
    <2> HIDE DEF block, m, n
    <2>2. /\ head \in Seq(Symbols) /\ Len(head) = 1 + Len(block)
          /\ \A i \in 1 .. 1 + Len(block) :
               head[i] = IF i <= 1 THEN <<Mark(Line[p])>>[i] ELSE block[i - 1]
      BY <2>1, <1>3, ConcatProperties
    <2>3. \A i \in 1 .. m - n : i + 1 \in 1 .. 1 + Len(block) /\ i + 1 - 1 = i /\ ~(i + 1 <= 1)
      BY <1>2, <1>3
    <2> HIDE DEF head
    <2>4. head[1] = Mark(Line[p])
      BY <2>1, <2>2, <1>2, <1>3
    <2>5. Len(head) = m - n + 1
      BY <2>2, <1>2, <1>3
    <2>6. ASSUME NEW i \in 1 .. m - n
          PROVE  head[i + 1] = block[i]
      <3>1. head[i + 1] = IF i + 1 <= 1 THEN <<Mark(Line[p])>>[i + 1] ELSE block[i + 1 - 1]
        BY <2>2, <2>3
      <3> QED
        BY <3>1, <2>3
    <2> QED
      BY <2>2, <2>4, <2>5, <2>6
  <1>7. Message(p, k * BLOCK) = s
    BY DEF Message
  <1>8. \A i \in 2 .. m - n + 1 : head[i] = block[i - 1]
    <2> HIDE DEF head, block, m, n
    <2> QED BY <1>6, <1>2
  <1>9. Mark(Line[p]) # NL /\ IsMark(Mark(Line[p])) /\ ~IsMark(NL)
    BY SymbolFacts, LineAssumption
  <1>10. CASE block[Len(block)] = NL
    <2>1. s = head
      BY <1>10, <1>6, ConcatEmptySeq
    <2> HIDE DEF s, head, block, m, n
    <2>2. Len(s) = m - n + 1 /\ Len(s) \in 2 .. BLOCK + 2 /\ s \in Seq(Symbols)
      BY <2>1, <1>2, <1>6, SizesAssumption
    <2>3. IsMark(s[1]) /\ s[1] # NL
      BY <2>1, <1>6, <1>9
    <2>4. \A i \in 2 .. m - n + 1 : i - 1 \in 1 .. m - n /\ s[i] = block[i - 1]
      BY <2>1, <1>8, <1>2
    <2>5. s[m - n + 1] = NL
      BY <2>4, <1>10, <1>3, <1>2
    <2>6. \A i \in 2 .. Len(s) : ~IsMark(s[i])
      BY <2>2, <2>4, <1>4
    <2>7. \A i \in 1 .. Len(s) : s[i] = NL <=> i = Len(s)
      <3>1. \A i \in 1 .. Len(s) : i = 1 \/ i \in 2 .. m - n + 1
        BY <2>2
      <3>2. \A i \in 2 .. m - n + 1 : s[i] = NL => i - 1 = m - n
        BY <2>4, <1>5
      <3> QED
        BY <3>1, <3>2, <2>2, <2>3, <2>5, <1>2
    <2> QED
      BY <2>2, <2>3, <2>6, <2>7, <1>7 DEF IsMessage
  <1>11. CASE block[Len(block)] # NL
    <2>1. <<NL>> \in Seq(Symbols) /\ Len(<<NL>>) = 1 /\ <<NL>>[1] = NL
      BY SymbolFacts
    <2>2. s = head \o <<NL>>
      BY <1>11
    <2> HIDE DEF s, head
    <2>3. /\ s \in Seq(Symbols) /\ Len(s) = m - n + 2
          /\ \A i \in 1 .. m - n + 1 : s[i] = head[i]
          /\ s[m - n + 2] = NL
      <3> HIDE DEF block, m, n
      <3>1. /\ s \in Seq(Symbols) /\ Len(s) = Len(head) + 1
            /\ \A i \in 1 .. Len(head) + 1 :
                 s[i] = IF i <= Len(head) THEN head[i] ELSE <<NL>>[i - Len(head)]
        BY <2>1, <2>2, <1>6, ConcatProperties
      <3>2. Len(head) = m - n + 1 /\ m \in Nat /\ n \in Nat /\ m - n \in Nat
        BY <1>6, <1>2
      <3>3. \A i \in 1 .. m - n + 1 : s[i] = head[i]
        BY <3>1, <3>2
      <3>4. /\ m - n + 2 \in 1 .. Len(head) + 1 /\ ~(m - n + 2 <= Len(head))
            /\ m - n + 2 - Len(head) = 1
        BY <3>2
      <3>5. s[m - n + 2] = <<NL>>[m - n + 2 - Len(head)]
        BY <3>1, <3>4
      <3>7. s[m - n + 2] = NL
        BY <3>4, <3>5, <2>1
      <3>6. Len(s) = m - n + 2
        BY <3>1, <3>2
      <3> QED
        BY <3>1, <3>3, <3>6, <3>7
    <2>4. \A i \in 1 .. m - n : block[i] # NL
      BY <1>5, <1>11, <1>3
    <2> HIDE DEF block, m, n
    <2>5. Len(s) \in 2 .. BLOCK + 2
      BY <2>3, <1>2, SizesAssumption
    <2>6. IsMark(s[1]) /\ s[1] # NL
      BY <2>3, <1>6, <1>9, <1>2
    <2>7. \A i \in 2 .. m - n + 1 : i - 1 \in 1 .. m - n /\ s[i] = block[i - 1]
      BY <2>3, <1>8, <1>2
    <2>8. \A i \in 1 .. m - n + 2 : i = 1 \/ i = m - n + 2 \/ i \in 2 .. m - n + 1
      BY <1>2
    <2>9. \A i \in 2 .. Len(s) : ~IsMark(s[i])
      BY <2>3, <2>7, <1>2, <1>4, <1>9
    <2>10. \A i \in 1 .. Len(s) : s[i] = NL <=> i = Len(s)
      BY <2>3, <2>4, <2>6, <2>7, <2>8, <1>2
    <2> QED
      BY <2>3, <2>5, <2>6, <2>9, <2>10, <1>7 DEF IsMessage
  <1> QED
    BY <1>10, <1>11

\* The elements of the second of two sequences, one after the other.
LEMMA Joined ==
  ASSUME NEW S, NEW s \in Seq(S), NEW t \in Seq(S), NEW k \in 1 .. Len(t)
  PROVE  /\ s \o t \in Seq(S) /\ Len(s \o t) = Len(s) + Len(t)
         /\ Len(s) + k \in 1 .. Len(s) + Len(t)
         /\ (s \o t)[Len(s) + k] = t[k]
  <1>1. Len(s) \in Nat /\ Len(t) \in Nat
    BY LenProperties
  <1>2. /\ Len(s) + k \in 1 .. Len(s) + Len(t)
        /\ ~(Len(s) + k <= Len(s)) /\ Len(s) + k - Len(s) = k
    BY <1>1
  <1> QED
    BY <1>2, ConcatProperties

\* x is made of three pieces.
MadeOf(x, a, b, c) ==
  /\ Len(x) = Len(a) + Len(b) + Len(c)
  /\ \A k \in 1 .. Len(a) : k \in 1 .. Len(x) /\ x[k] = a[k]
  /\ \A k \in 1 .. Len(b) : Len(a) + k \in 1 .. Len(x) /\ x[Len(a) + k] = b[k]
  /\ \A k \in 1 .. Len(c) :
       Len(a) + Len(b) + k \in 1 .. Len(x) /\ x[Len(a) + Len(b) + k] = c[k]

\* Three sequences, one after the other.
LEMMA Pieces ==
  ASSUME NEW S, NEW a \in Seq(S), NEW b \in Seq(S), NEW c \in Seq(S)
  PROVE  (a \o b) \o c \in Seq(S) /\ MadeOf((a \o b) \o c, a, b, c)
  <1> DEFINE y == a \o b
             x == y \o c
  <1>1. Len(a) \in Nat /\ Len(b) \in Nat /\ Len(c) \in Nat
    BY LenProperties
  <1>2. /\ y \in Seq(S) /\ Len(y) = Len(a) + Len(b)
        /\ \A k \in 1 .. Len(a) + Len(b) : y[k] = IF k <= Len(a) THEN a[k] ELSE b[k - Len(a)]
    BY ConcatProperties
  <1> HIDE DEF y
  <1>3. /\ x \in Seq(S) /\ Len(x) = Len(y) + Len(c)
        /\ \A k \in 1 .. Len(y) + Len(c) : x[k] = IF k <= Len(y) THEN y[k] ELSE c[k - Len(y)]
    <2>1. y \in Seq(S)
      BY <1>2
    <2> QED
      BY <2>1, ConcatProperties
  <1> HIDE DEF x
  <1>4. Len(x) = Len(a) + Len(b) + Len(c)
    BY <1>2, <1>3
  <1>5. ASSUME NEW k \in 1 .. Len(a)
        PROVE  k \in 1 .. Len(x) /\ x[k] = a[k]
    BY <1>1, <1>2, <1>3
  <1>6. ASSUME NEW k \in 1 .. Len(b)
        PROVE  Len(a) + k \in 1 .. Len(x) /\ x[Len(a) + k] = b[k]
    <2>1. Len(a) + k \in 1 .. Len(x) /\ Len(a) + k \in 1 .. Len(y) /\ ~(Len(a) + k <= Len(a))
          /\ Len(a) + k - Len(a) = k
      BY <1>1, <1>2, <1>4
    <2> QED
      BY <2>1, <1>1, <1>2, <1>3
  <1>7. ASSUME NEW k \in 1 .. Len(c)
        PROVE  Len(a) + Len(b) + k \in 1 .. Len(x) /\ x[Len(a) + Len(b) + k] = c[k]
    <2>1. Len(a) + Len(b) + k \in 1 .. Len(x) /\ ~(Len(a) + Len(b) + k <= Len(y))
          /\ Len(a) + Len(b) + k - Len(y) = k
      BY <1>1, <1>2, <1>4
    <2> QED
      BY <2>1, <1>1, <1>2, <1>3
  <1> QED
    BY <1>3, <1>4, <1>5, <1>6, <1>7 DEF x, y, MadeOf

\* What is known of the pieces of a message.
LEMMA PiecesOfMessage ==
  ASSUME NEW a \in Seq(Symbols), NEW b \in Seq(Symbols), NEW c \in Seq(Symbols),
         (a \o b) \o c = <<>> \/ IsMessage((a \o b) \o c)
  PROVE  /\ Len(a) + Len(b) + Len(c) <= BLOCK + 2
         /\ a # <<>> /\ a[Len(a)] = NL => b = <<>> /\ c = <<>>
         /\ \A k \in 1 .. Len(b) : b[k] = NL => k = Len(b) /\ c = <<>>
         /\ c # <<>> /\ IsMark(c[1]) => a = <<>> /\ b = <<>>
         /\ a # <<>> /\ b = <<>> /\ c = <<>> => a[Len(a)] = NL
         /\ \A k \in 1 .. Len(a) : IsMark(a[k]) => k = 1
         /\ \A k \in 1 .. Len(b) : IsMark(b[k]) => k = 1 /\ a = <<>>
  <1> DEFINE x == (a \o b) \o c
  <1>1. /\ x \in Seq(Symbols) /\ Len(x) = Len(a) + Len(b) + Len(c)
        /\ \A k \in 1 .. Len(a) : k \in 1 .. Len(x) /\ x[k] = a[k]
        /\ \A k \in 1 .. Len(b) : Len(a) + k \in 1 .. Len(x) /\ x[Len(a) + k] = b[k]
        /\ \A k \in 1 .. Len(c) :
             Len(a) + Len(b) + k \in 1 .. Len(x) /\ x[Len(a) + Len(b) + k] = c[k]
    <2>1. x \in Seq(Symbols) /\ MadeOf(x, a, b, c)
      BY Pieces
    <2> QED
      BY <2>1 DEF MadeOf
  <1>2. /\ Len(a) \in Nat /\ Len(b) \in Nat /\ Len(c) \in Nat
        /\ (a = <<>> <=> Len(a) = 0) /\ (b = <<>> <=> Len(b) = 0) /\ (c = <<>> <=> Len(c) = 0)
    BY EmptySeq, LenProperties
  <1>3. x = <<>> \/ IsMessage(x)
    OBVIOUS
  <1> HIDE DEF x
  <1>4. CASE x = <<>>
    <2>1. Len(a) = 0 /\ Len(b) = 0 /\ Len(c) = 0
      BY <1>4, <1>1, <1>2, EmptySeq
    <2> QED
      BY <2>1, <1>2, SizesAssumption
  <1>5. CASE IsMessage(x)
    <2>1. /\ Len(x) <= BLOCK + 2
          /\ \A k \in 2 .. Len(x) : ~IsMark(x[k])
          /\ \A k \in 1 .. Len(x) : x[k] = NL <=> k = Len(x)
      BY <1>5, SizesAssumption DEF IsMessage
    <2>2. a # <<>> => Len(a) \in 1 .. Len(a) /\ (a[Len(a)] = NL <=> Len(a) = Len(x))
      BY <2>1, <1>1, <1>2
    <2>3. \A k \in 1 .. Len(b) : b[k] = NL => Len(a) + k = Len(x)
      BY <2>1, <1>1
    <2>4. \A k \in 1 .. Len(c) : IsMark(c[k]) => Len(a) + Len(b) + k = 1
      <3> SUFFICES ASSUME NEW k \in 1 .. Len(c), IsMark(c[k])
                   PROVE  Len(a) + Len(b) + k = 1
        OBVIOUS
      <3>1. Len(a) + Len(b) + k \in 1 .. Len(x) /\ IsMark(x[Len(a) + Len(b) + k])
        BY <1>1
      <3> QED
        BY <3>1, <2>1, <1>2
    <2>5. \A k \in 1 .. Len(a) : IsMark(a[k]) => k = 1
      BY <2>1, <1>1, <1>2
    <2>6. \A k \in 1 .. Len(b) : IsMark(b[k]) => Len(a) + k = 1
      BY <2>1, <1>1, <1>2
    <2>7. c # <<>> => 1 \in 1 .. Len(c)
      BY <1>2
    <2> QED
      BY <2>1, <2>2, <2>3, <2>4, <2>5, <2>6, <2>7, <1>1, <1>2
  <1> QED
    BY <1>3, <1>4, <1>5
-----------------------------------------------------------------------------
(***************************************************************************)
(* Where rows end, and writing to the file.                                *)
(***************************************************************************)

\* The newlines of s up to the place i.
EndsTo(s, i) == {k \in Ends(s) : k <= i}

\* There are finitely many newlines, and each place adds at most one.
LEMMA EndsFinite ==
  ASSUME NEW S, NEW s \in Seq(S)
  PROVE  /\ IsFiniteSet(Ends(s)) /\ RowCount(s) \in 0 .. Len(s)
         /\ \A i \in Nat : IsFiniteSet(EndsTo(s, i)) /\ Cardinality(EndsTo(s, i)) \in Nat
         /\ EndsTo(s, 0) = {} /\ EndsTo(s, Len(s)) = Ends(s)
         /\ \A i \in Nat : Cardinality(EndsTo(s, i + 1)) =
              Cardinality(EndsTo(s, i)) + IF i + 1 \in Ends(s) THEN 1 ELSE 0
  <1>1. Len(s) \in Nat
    BY LenProperties
  <1>2. IsFiniteSet(1 .. Len(s)) /\ Cardinality(1 .. Len(s)) = Len(s)
    BY <1>1, FS_Interval
  <1>3. Ends(s) \subseteq 1 .. Len(s)
    BY DEF Ends
  <1>4. IsFiniteSet(Ends(s)) /\ Cardinality(Ends(s)) <= Len(s)
    BY <1>2, <1>3, FS_Subset
  <1>5. RowCount(s) \in 0 .. Len(s)
    BY <1>1, <1>4, FS_CardinalityType DEF RowCount
  <1>6. \A i \in Nat : IsFiniteSet(EndsTo(s, i)) /\ Cardinality(EndsTo(s, i)) \in Nat
    <2> TAKE i \in Nat
    <2>1. EndsTo(s, i) \subseteq Ends(s)
      BY DEF EndsTo
    <2> QED
      BY <2>1, <1>4, FS_Subset, FS_CardinalityType
  <1>7. EndsTo(s, 0) = {} /\ EndsTo(s, Len(s)) = Ends(s)
    BY <1>1, <1>3 DEF EndsTo
  <1>8. ASSUME NEW i \in Nat
        PROVE  Cardinality(EndsTo(s, i + 1)) =
                 Cardinality(EndsTo(s, i)) + IF i + 1 \in Ends(s) THEN 1 ELSE 0
    <2>1. CASE i + 1 \in Ends(s)
      <3>1. EndsTo(s, i + 1) = EndsTo(s, i) \cup {i + 1} /\ i + 1 \notin EndsTo(s, i)
        BY <2>1, <1>3, <1>1 DEF EndsTo
      <3> QED
        BY <3>1, <2>1, <1>6, FS_AddElement
    <2>2. CASE i + 1 \notin Ends(s)
      <3>1. EndsTo(s, i + 1) = EndsTo(s, i)
        BY <2>2, <1>3, <1>1 DEF EndsTo
      <3> QED
        BY <3>1, <2>2, <1>6
    <2> QED
      BY <2>1, <2>2
  <1> QED
    BY <1>4, <1>5, <1>6, <1>7, <1>8

\* The row l ends at the l-th newline.
LEMMA RowEnd ==
  ASSUME NEW S, NEW s \in Seq(S), NEW l \in 1 .. RowCount(s)
  PROVE  /\ EndOfRow(s, l) \in Ends(s)
         /\ Cardinality(EndsTo(s, EndOfRow(s, l))) = l
  <1> DEFINE W == {i \in 0 .. Len(s) : Cardinality(EndsTo(s, i)) >= l}
  <1>1. Len(s) \in Nat /\ l \in Nat \ {0} /\ RowCount(s) \in Nat
    BY LenProperties, EndsFinite
  <1>2. Len(s) \in W
    BY <1>1, EndsFinite DEF RowCount
  <1>3. PICK i \in W : \A k \in W : i <= k
    <2>1. W \subseteq Nat
      BY <1>1
    <2> HIDE DEF W
    <2>2. PICK i \in W : \A k \in W : ~(<<k, i>> \in OpToRel(<, Nat))
      BY <1>2, <2>1, WFMin, NatLessThanWellFounded
    <2>3. \A k \in W : ~(k < i)
      BY <2>1, <2>2 DEF OpToRel
    <2> QED
      BY <2>1, <2>3
  <1>4. i \in Nat /\ i <= Len(s) /\ Cardinality(EndsTo(s, i)) >= l
    BY <1>1
  <1>5. i # 0
    <2>1. Cardinality(EndsTo(s, 0)) = 0
      BY EndsFinite, FS_EmptySet
    <2> QED
      BY <2>1, <1>4, <1>1
  <1>6. i - 1 \in Nat /\ i - 1 \in 0 .. Len(s) /\ (i - 1) + 1 = i
    BY <1>1, <1>4, <1>5
  <1>7. Cardinality(EndsTo(s, i - 1)) < l /\ Cardinality(EndsTo(s, i - 1)) \in Nat
    <2>1. Cardinality(EndsTo(s, i - 1)) \in Nat
      BY <1>6, EndsFinite
    <2>2. i - 1 \notin W
      <3> HIDE DEF W
      <3> QED
        BY <1>3, <1>4, <1>6
    <2> QED
      BY <2>1, <2>2, <1>6, <1>1
  <1>8. Cardinality(EndsTo(s, i)) =
          Cardinality(EndsTo(s, i - 1)) + IF i \in Ends(s) THEN 1 ELSE 0
    BY <1>6, EndsFinite
  <1>9. i \in Ends(s) /\ Cardinality(EndsTo(s, i)) = l
    BY <1>4, <1>7, <1>8, <1>1
  <1>10. EndOfRow(s, l) = CHOOSE k \in Ends(s) : Cardinality(EndsTo(s, k)) = l
    BY <1>1 DEF EndOfRow, EndsTo
  <1> QED
    BY <1>9, <1>10

\* Writing at a place in the file, or right behind it.
LEMMA OverwriteType ==
  ASSUME NEW s \in Seq(Symbols), NEW data \in Seq(Symbols), NEW n \in 0 .. Len(s)
  PROVE  /\ Overwrite(s, n, data) \in Seq(Symbols)
         /\ \A k \in 1 .. Len(Overwrite(s, n, data)) :
              \/ \E i \in 1 .. Len(s) : Overwrite(s, n, data)[k] = s[i]
              \/ \E i \in 1 .. Len(data) : Overwrite(s, n, data)[k] = data[i]
         /\ Len(data) + n >= Len(s) => Overwrite(s, n, data) = SubSeq(s, 1, n) \o data
  <1> DEFINE a == SubSeq(s, 1, n)
             b == Drop(s, n + Len(data))
  <1>1. Len(s) \in Nat /\ Len(data) \in Nat
    BY LenProperties
  <1>2. a \in Seq(Symbols) /\ Len(a) = n /\ \A k \in 1 .. n : a[k] = s[k]
    BY Cut
  <1>3. /\ b \in Seq(Symbols) /\ Len(b) \in Nat
        /\ \A k \in 1 .. Len(b) : \E i \in 1 .. Len(s) : b[k] = s[i]
        /\ Len(data) + n >= Len(s) => b = <<>>
    <2>1. CASE Len(data) + n >= Len(s)
      <3>1. b = <<>> /\ b \in Seq(Symbols)
        BY <2>1, <1>1, DropAll
      <3> QED
        BY <3>1
    <2>2. CASE Len(data) + n < Len(s)
      <3>1. n + Len(data) \in 0 .. Len(s)
        BY <2>2, <1>1
      <3>2. /\ b \in Seq(Symbols) /\ Len(b) = Len(s) - (n + Len(data))
            /\ \A k \in 1 .. Len(s) - (n + Len(data)) : b[k] = s[n + Len(data) + k]
        BY <3>1, Cut
      <3>3. \A k \in 1 .. Len(s) - (n + Len(data)) : n + Len(data) + k \in 1 .. Len(s)
        BY <1>1, <3>1
      <3> HIDE DEF b
      <3>4. Len(b) \in Nat
        BY <3>2, <1>1, <3>1
      <3>5. \A k \in 1 .. Len(b) : \E i \in 1 .. Len(s) : b[k] = s[i]
        BY <3>2, <3>3
      <3> QED
        BY <2>2, <3>2, <3>4, <3>5, <1>1
    <2> QED
      BY <2>1, <2>2, <1>1
  <1> HIDE DEF a, b
  <1> DEFINE c == a \o data
  <1>4. /\ c \in Seq(Symbols) /\ Len(c) = n + Len(data)
        /\ \A k \in 1 .. n + Len(data) : c[k] = IF k <= n THEN a[k] ELSE data[k - n]
    BY <1>2, ConcatProperties
  <1>5. /\ c \o b \in Seq(Symbols) /\ Len(c \o b) = Len(c) + Len(b)
        /\ \A k \in 1 .. Len(c) + Len(b) :
             (c \o b)[k] = IF k <= Len(c) THEN c[k] ELSE b[k - Len(c)]
    <2> HIDE DEF c
    <2> QED
      BY <1>4, <1>3, ConcatProperties
  <1>6. Overwrite(s, n, data) = c \o b
    BY DEF Overwrite, a, b
  <1>7. ASSUME NEW k \in 1 .. Len(c \o b)
        PROVE  \/ \E i \in 1 .. Len(s) : (c \o b)[k] = s[i]
               \/ \E i \in 1 .. Len(data) : (c \o b)[k] = data[i]
    <2>1. CASE k <= n
      <3>1. (c \o b)[k] = s[k] /\ k \in 1 .. Len(s)
        BY <2>1, <1>1, <1>2, <1>3, <1>4, <1>5
      <3> QED
        BY <3>1
    <2>2. CASE k > n /\ k <= n + Len(data)
      <3>1. (c \o b)[k] = data[k - n] /\ k - n \in 1 .. Len(data)
        BY <2>2, <1>1, <1>2, <1>3, <1>4, <1>5
      <3> QED
        BY <3>1
    <2>3. CASE k > n + Len(data)
      <3>1. (c \o b)[k] = b[k - Len(c)] /\ k - Len(c) \in 1 .. Len(b)
        BY <2>3, <1>1, <1>2, <1>3, <1>4, <1>5
      <3> QED
        BY <3>1, <1>3
    <2> QED
      BY <2>1, <2>2, <2>3, <1>5, <1>4, <1>3, <1>1
  <1>8. Len(data) + n >= Len(s) => c \o b = c
    <2> HIDE DEF c
    <2> QED
      BY <1>3, <1>4, ConcatEmptySeq
  <1> QED
    BY <1>5, <1>6, <1>7, <1>8 DEF a

\* What is in the file f was in the file or in the data, or is a newline.
FromFileOr(data, f) ==
  \A k \in 1 .. Len(f) :
    \/ f[k] = NL
    \/ \E i \in 1 .. Len(file) : f[k] = file[i]
    \/ \E i \in 1 .. Len(data) : f[k] = data[i]

\* The new file is made of the old one, the data and empty rows.
LEMMA AddToRowType ==
  ASSUME file \in Seq(Symbols), NEW c \in Consumer, outbuf[c] = file,
         NEW data \in Seq(Symbols), NEW l \in Nat \ {0}
  PROVE  /\ AddToRow(data, l, c) \in Seq(Symbols)
         /\ FromFileOr(data, AddToRow(data, l, c))
  <1>1. Len(file) \in Nat /\ Len(data) \in Nat /\ RowCount(file) \in Nat
        /\ RowCount(file) <= Len(file)
    BY LenProperties, EndsFinite
  <1>2. CASE RowCount(file) >= l
    <2> DEFINE e == EndOfRow(file, l)
               rest == Drop(file, e)
    <2>1. e \in 1 .. Len(file)
      <3>1. l \in 1 .. RowCount(file)
        BY <1>1, <1>2
      <3> QED
        BY <3>1, RowEnd DEF Ends
    <2>2. /\ rest \in Seq(Symbols) /\ Len(rest) = Len(file) - e
          /\ \A k \in 1 .. Len(file) - e : rest[k] = file[e + k]
      <3> HIDE DEF e
      <3> QED
        BY <1>1, <2>1, Cut, SMTT(30)
    <2> HIDE DEF rest
    <2>3. /\ data \o rest \in Seq(Symbols) /\ Len(data \o rest) = Len(data) + Len(rest)
          /\ \A k \in 1 .. Len(data) + Len(rest) :
               (data \o rest)[k] = IF k <= Len(data) THEN data[k] ELSE rest[k - Len(data)]
      <3>1. data \in Seq(Symbols) /\ rest \in Seq(Symbols)
        BY <2>2
      <3> QED
        BY ONLY <3>1, ConcatProperties, SMTT(30)
    <2>4. ASSUME NEW k \in 1 .. Len(data \o rest)
          PROVE  \/ \E i \in 1 .. Len(file) : (data \o rest)[k] = file[i]
                 \/ \E i \in 1 .. Len(data) : (data \o rest)[k] = data[i]
      <3>1. CASE k <= Len(data)
        BY <3>1, <1>1, <2>3
      <3>2. CASE k > Len(data)
        <4>1. (data \o rest)[k] = file[e + (k - Len(data))]
              /\ e + (k - Len(data)) \in 1 .. Len(file)
          <5> HIDE DEF e
          <5>1. k - Len(data) \in 1 .. Len(file) - e
            BY <3>2, <1>1, <2>1, <2>2, <2>3
          <5>2. k \in 1 .. Len(data) + Len(rest) /\ ~(k <= Len(data))
            BY <3>2, <1>1, <2>2, <2>3
          <5>3. (data \o rest)[k] = rest[k - Len(data)]
            BY <5>2, <2>3
          <5>4. \A j \in 1 .. Len(file) - e :
                  e + j \in 1 .. Len(file) /\ rest[j] = file[e + j]
            BY <1>1, <2>1, <2>2
          <5> QED
            BY <5>1, <5>3, <5>4
        <4> QED
          BY <4>1
      <3> QED
        BY <3>1, <3>2, <1>1, <2>3, <2>2
    <2>5. AddToRow(data, l, c) = Overwrite(file, e - 1, data \o rest)
      BY <1>2 DEF AddToRow, rest
    <2>6. e - 1 \in 0 .. Len(file)
      BY <2>1, <1>1
    <2> HIDE DEF e
    <2>7. /\ Overwrite(file, e - 1, data \o rest) \in Seq(Symbols)
          /\ \A k \in 1 .. Len(Overwrite(file, e - 1, data \o rest)) :
              \/ \E i \in 1 .. Len(file) : Overwrite(file, e - 1, data \o rest)[k] = file[i]
              \/ \E i \in 1 .. Len(data \o rest) :
                   Overwrite(file, e - 1, data \o rest)[k] = (data \o rest)[i]
      BY <2>3, <2>6, OverwriteType
    <2> DEFINE z == data \o rest
               f == Overwrite(file, e - 1, z)
    <2>8. AddToRow(data, l, c) = f /\ f \in Seq(Symbols)
      BY <2>5, <2>7
    <2>9. ASSUME NEW k \in 1 .. Len(f)
          PROVE  \/ \E i \in 1 .. Len(file) : f[k] = file[i]
                 \/ \E i \in 1 .. Len(data) : f[k] = data[i]
      <3>1. \/ \E i \in 1 .. Len(file) : f[k] = file[i]
            \/ \E i \in 1 .. Len(z) : f[k] = z[i]
        BY <2>7
      <3>2. \A i \in 1 .. Len(z) :
              \/ \E j \in 1 .. Len(file) : z[i] = file[j]
              \/ \E j \in 1 .. Len(data) : z[i] = data[j]
        BY <2>4
      <3> HIDE DEF z, f
      <3> QED
        BY <3>1, <3>2
    <2> HIDE DEF f
    <2> QED
      BY <2>8, <2>9 DEF FromFileOr
  <1>3. CASE RowCount(file) < l
    <2> DEFINE m == l - 1 - RowCount(file)
               rows == [i \in 1 .. m |-> NL]
    <2>1. m \in Nat
      BY <1>1, <1>3
    <2>2. rows \in Seq(Symbols) /\ Len(rows) = m /\ \A k \in 1 .. m : rows[k] = NL
      <3>1. rows \in [1 .. m -> Symbols] /\ DOMAIN rows = 1 .. m
        BY SymbolFacts
      <3> HIDE DEF m
      <3>2. rows \in Seq(Symbols)
        BY <3>1, <2>1, SeqDef
      <3>3. Len(rows) = m
        BY <3>1, <3>2, <2>1, LenProperties
      <3> QED
        BY <3>2, <3>3
    <2> HIDE DEF rows, m
    <2>3. /\ rows \o data \in Seq(Symbols) /\ Len(rows \o data) = m + Len(data)
          /\ \A k \in 1 .. m + Len(data) :
               (rows \o data)[k] = IF k <= m THEN rows[k] ELSE data[k - m]
      BY <2>2, ConcatProperties
    <2>4. ASSUME NEW k \in 1 .. Len(rows \o data)
          PROVE  \/ (rows \o data)[k] = NL
                 \/ \E i \in 1 .. Len(data) : (rows \o data)[k] = data[i]
      <3>1. CASE k <= m
        BY <3>1, <2>1, <1>1, <2>2, <2>3
      <3>2. CASE k > m
        <4>1. (rows \o data)[k] = data[k - m] /\ k - m \in 1 .. Len(data)
          BY <3>2, <2>1, <1>1, <2>3
        <4> QED
          BY <4>1
      <3> QED
        BY <3>1, <3>2, <2>3, <2>1, <1>1
    <2>5. AddToRow(data, l, c) = Overwrite(file, Len(file), rows \o data)
      BY <1>1, <1>3 DEF AddToRow, rows, m
    <2> DEFINE z == rows \o data
               f == Overwrite(file, Len(file), z)
    <2>6. /\ f \in Seq(Symbols)
          /\ \A k \in 1 .. Len(f) :
              \/ \E i \in 1 .. Len(file) : f[k] = file[i]
              \/ \E i \in 1 .. Len(z) : f[k] = z[i]
      <3>1. Len(file) \in 0 .. Len(file)
        BY <1>1
      <3>2. z \in Seq(Symbols)
        BY <2>3
      <3> HIDE DEF z
      <3> QED
        BY ONLY file \in Seq(Symbols), <3>1, <3>2, OverwriteType
    <2>7. AddToRow(data, l, c) = f /\ f \in Seq(Symbols)
      BY <2>5, <2>6
    <2>8. ASSUME NEW k \in 1 .. Len(f)
          PROVE  \/ f[k] = NL
                 \/ \E i \in 1 .. Len(file) : f[k] = file[i]
                 \/ \E i \in 1 .. Len(data) : f[k] = data[i]
      <3>1. \/ \E i \in 1 .. Len(file) : f[k] = file[i]
            \/ \E i \in 1 .. Len(z) : f[k] = z[i]
        BY <2>6
      <3>2. \A i \in 1 .. Len(z) : z[i] = NL \/ \E j \in 1 .. Len(data) : z[i] = data[j]
        BY <2>4
      <3> HIDE DEF z, f
      <3> QED
        BY <3>1, <3>2
    <2> HIDE DEF f
    <2> QED
      BY <2>7, <2>8 DEF FromFileOr
  <1> QED
    BY <1>1, <1>2, <1>3

-----------------------------------------------------------------------------
(***************************************************************************)
(* The rows of a file: their ends are its newlines counted from the start  *)
(* (Bounds), so a file made of pieces of another has the rows whose ends   *)
(* the pieces bring with them.                                             *)
(***************************************************************************)

\* The newlines of s, counted: the i-th is at b[i].
Bounds(b, n, s) ==
  /\ n \in Nat /\ b \in [0 .. n -> Nat] /\ b[0] = 0
  /\ \A i \in 0 .. n : \A j \in 0 .. n : i < j => b[i] < b[j]
  /\ Ends(s) = {b[i] : i \in 1 .. n}

\* The newlines counted in any way that goes up are those that end the rows.
LEMMA BoundsAreEnds ==
  ASSUME NEW S, NEW s \in Seq(S), NEW b, NEW n, Bounds(b, n, s)
  PROVE  RowCount(s) = n /\ \A i \in 0 .. n : EndOfRow(s, i) = b[i]
  <1> USE DEF Bounds
  <1>1. ASSUME NEW i \in 0 .. n
        PROVE  Cardinality({b[j] : j \in 1 .. i}) = i
    <2> DEFINE T == {b[j] : j \in 1 .. i}
               f == [j \in 1 .. i |-> b[j]]
    <2>1. IsFiniteSet(1 .. i) /\ Cardinality(1 .. i) = i
      <3>1. 1 \in Int /\ i \in Nat
        OBVIOUS
      <3> QED
        BY ONLY <3>1, FS_Interval
    <2>2. \A j, k \in 1 .. i : j # k => f[j] # f[k]
      <3> SUFFICES ASSUME NEW j \in 1 .. i, NEW k \in 1 .. i, j # k PROVE b[j] # b[k]
        OBVIOUS
      <3>1. j \in 0 .. n /\ k \in 0 .. n /\ (j < k \/ k < j)
        OBVIOUS
      <3>2. b[j] < b[k] \/ b[k] < b[j]
        BY <3>1
      <3>3. b[j] \in Nat /\ b[k] \in Nat
        BY <3>1
      <3> QED
        BY <3>2, <3>3
    <2>3. f \in Bijection(1 .. i, T)
      <3>1. f \in [1 .. i -> T]
        OBVIOUS
      <3>2. \A t \in T : \E j \in 1 .. i : f[j] = t
        OBVIOUS
      <3> HIDE DEF f, T
      <3> QED
        <4>1. \A j, k \in 1 .. i : f[j] = f[k] => j = k
          BY ONLY <2>2, Zenon
        <4>2. f \in Injection(1 .. i, T)
          BY <3>1, <4>1 DEF Injection, IsInjective
        <4>3. f \in Surjection(1 .. i, T)
          BY <3>1, <3>2 DEF Surjection
        <4> QED
          BY <4>2, <4>3 DEF Bijection
    <2> HIDE DEF f, T
    <2>4. ExistsBijection(1 .. i, T)
      BY <2>3 DEF ExistsBijection
    <2>5. Cardinality(T) = i
      BY <2>1, <2>4, FS_Bijection
    <2> QED
      BY <2>5 DEF T
  <1>2. RowCount(s) = n
    BY <1>1 DEF RowCount
  <1>3. ASSUME NEW i \in 1 .. n
        PROVE  b[i] \in Ends(s) /\ EndsTo(s, b[i]) = {b[j] : j \in 1 .. i}
    <2>1. b[i] \in Ends(s)
      OBVIOUS
    <2>2. ASSUME NEW x \in EndsTo(s, b[i])
          PROVE  x \in {b[j] : j \in 1 .. i}
      <3>1. x \in Ends(s) /\ x <= b[i]
        BY DEF EndsTo
      <3>2. PICK j \in 1 .. n : x = b[j]
        BY <3>1
      <3>3. ~(i < j)
        <4>1. i < j => b[i] < b[j]
          OBVIOUS
        <4>2. b[i] \in Nat /\ b[j] \in Nat
          OBVIOUS
        <4> QED
          BY <3>1, <3>2, <4>1, <4>2
      <3> QED
        BY <3>2, <3>3
    <2>3. ASSUME NEW j \in 1 .. i
          PROVE  b[j] \in EndsTo(s, b[i])
      <3>1. j \in 1 .. n /\ j \in 0 .. n /\ i \in 0 .. n /\ (j = i \/ j < i)
        OBVIOUS
      <3>2. b[j] <= b[i]
        <4>1. b[i] \in Nat /\ b[j] \in Nat
          BY <3>1
        <4> QED
          BY <3>1, <4>1
      <3>3. b[j] \in Ends(s)
        BY <3>1
      <3> QED
        BY <3>2, <3>3 DEF EndsTo
    <2> QED
      BY <2>1, <2>2, <2>3
  <1>4. ASSUME NEW i \in 1 .. n
        PROVE  EndOfRow(s, i) = b[i]
    <2>1. EndOfRow(s, i) \in Ends(s) /\ Cardinality(EndsTo(s, EndOfRow(s, i))) = i
      BY <1>2, RowEnd
    <2>2. PICK j \in 1 .. n : EndOfRow(s, i) = b[j]
      BY <2>1
    <2>3. Cardinality(EndsTo(s, b[j])) = j
      <3>1. j \in 0 .. n
        OBVIOUS
      <3> QED
        BY <1>3, <1>1, <3>1
    <2> QED
      BY <2>1, <2>2, <2>3
  <1>5. EndOfRow(s, 0) = b[0]
    BY DEF EndOfRow
  <1> QED
    BY <1>2, <1>4, <1>5

\* The ends of the rows are such a count.
LEMMA EndsAreBounds ==
  ASSUME NEW S, NEW s \in Seq(S)
  PROVE  Bounds([i \in 0 .. RowCount(s) |-> EndOfRow(s, i)], RowCount(s), s)
  <1> DEFINE n == RowCount(s)
             b == [i \in 0 .. n |-> EndOfRow(s, i)]
  <1>1. /\ n \in Nat /\ Len(s) \in Nat /\ n = Cardinality(Ends(s)) /\ IsFiniteSet(Ends(s))
        /\ Ends(s) \subseteq 1 .. Len(s)
    <2>1. Ends(s) \subseteq 1 .. Len(s)
      BY DEF Ends
    <2>2. RowCount(s) = Cardinality(Ends(s))
      BY DEF RowCount
    <2>3. Len(s) \in Nat
      BY LenProperties
    <2>4. IsFiniteSet(Ends(s)) /\ RowCount(s) \in 0 .. Len(s)
      BY EndsFinite
    <2> QED
      BY <2>1, <2>2, <2>3, <2>4
  <1>2. ASSUME NEW i \in 1 .. n
        PROVE  /\ b[i] \in Ends(s) /\ b[i] \in Nat \ {0} /\ Cardinality(EndsTo(s, b[i])) = i
    <2>1. b[i] = EndOfRow(s, i)
      BY <1>1
    <2> HIDE DEF b
    <2>2. b[i] \in Ends(s) /\ Cardinality(EndsTo(s, b[i])) = i
      BY <2>1, RowEnd
    <2> QED
      BY <2>2, <1>1
  <1>3. b[0] = 0
    BY <1>1 DEF EndOfRow
  <1>3a. DOMAIN b = 0 .. n /\ b = [i \in DOMAIN b |-> b[i]]
    OBVIOUS
  <1> HIDE DEF b, n
  <1>4. ASSUME NEW x \in Ends(s), NEW y \in Ends(s), x <= y
        PROVE  /\ Cardinality(EndsTo(s, x)) <= Cardinality(EndsTo(s, y))
               /\ Cardinality(EndsTo(s, x)) = Cardinality(EndsTo(s, y)) => x = y
    <2>1. x \in Nat /\ y \in Nat
      BY <1>1
    <2>2. EndsTo(s, x) \in SUBSET EndsTo(s, y) /\ y \in EndsTo(s, y)
      BY <2>1, <1>4, <1>1 DEF EndsTo
    <2>3. IsFiniteSet(EndsTo(s, y))
      BY <2>1, EndsFinite
    <2>4. /\ Cardinality(EndsTo(s, x)) <= Cardinality(EndsTo(s, y))
          /\ Cardinality(EndsTo(s, y)) = Cardinality(EndsTo(s, x)) => EndsTo(s, y) = EndsTo(s, x)
      BY <2>2, <2>3, FS_Subset
    <2>5. EndsTo(s, y) = EndsTo(s, x) => y <= x
      BY <2>2 DEF EndsTo
    <2> QED
      BY <2>1, <2>4, <2>5, <1>4
  <1>5. ASSUME NEW i \in 0 .. n, NEW j \in 0 .. n, i < j
        PROVE  b[i] < b[j]
    <2>1. j \in 1 .. n
      BY <1>1, <1>5
    <2>2. CASE i = 0
      BY <2>1, <2>2, <1>2, <1>3
    <2>3. CASE i \in 1 .. n
      <3>1. ~(b[j] <= b[i])
        <4> SUFFICES ASSUME b[j] <= b[i] PROVE FALSE
          OBVIOUS
        <4>1. Cardinality(EndsTo(s, b[j])) <= Cardinality(EndsTo(s, b[i]))
          BY <2>1, <2>3, <1>2, <1>4
        <4> QED
          BY <4>1, <2>1, <2>3, <1>2, <1>5
      <3> QED
        BY <3>1, <2>1, <2>3, <1>2
    <2> QED
      BY <2>2, <2>3, <1>1
  <1>6. ASSUME NEW x \in Ends(s)
        PROVE  \E i \in 1 .. n : x = b[i]
    <2> DEFINE i == Cardinality(EndsTo(s, x))
    <2>1. x \in Nat /\ EndsTo(s, x) \in SUBSET Ends(s) /\ x \in EndsTo(s, x)
      BY <1>1 DEF EndsTo
    <2>2. IsFiniteSet(EndsTo(s, x)) /\ i \in Nat /\ i <= n
      BY <2>1, <1>1, EndsFinite, FS_Subset DEF n
    <2>3. i # 0
      BY <2>1, <2>2, FS_EmptySet
    <2>4. i \in 1 .. n
      BY <2>2, <2>3, <1>1
    <2>5. b[i] \in Ends(s) /\ b[i] \in Nat /\ Cardinality(EndsTo(s, b[i])) = i
      BY <2>4, <1>2
    <2>6. x = b[i]
      <3> HIDE DEF i
      <3>1. Cardinality(EndsTo(s, x)) = i
        BY DEF i
      <3> QED
        BY <3>1, <2>1, <2>5, <1>4
    <2> QED
      BY <2>4, <2>6
  <1>7. Ends(s) = {b[i] : i \in 1 .. n}
    BY <1>2, <1>6
  <1>8. b \in [0 .. n -> Nat]
    <2>1. ASSUME NEW i \in 0 .. n
          PROVE  b[i] \in Nat
      <3>1. i = 0 \/ i \in 1 .. n
        BY <1>1
      <3>2. i \in 1 .. n => b[i] \in Nat
        BY <1>2, SMTT(30)
      <3> QED
        BY <3>1, <3>2, <1>3
    <2> QED
      BY <2>1, <1>3a
  <1>9. Bounds(b, n, s)
    BY <1>1, <1>3, <1>5, <1>7, <1>8 DEF Bounds
  <1> QED
    BY <1>9 DEF b, n

\* The elements of a sequence behind the first x, up to the y-th.
LEMMA SliceOf ==
  ASSUME NEW S, NEW s \in Seq(S), NEW x \in Nat, NEW y \in Nat, x <= y, y <= Len(s)
  PROVE  /\ SubSeq(s, x + 1, y) \in Seq(S) /\ Len(SubSeq(s, x + 1, y)) = y - x
         /\ \A i \in 1 .. y - x : SubSeq(s, x + 1, y)[i] = s[x + i]
  <1> DEFINE v == SubSeq(s, x + 1, y)
  <1>1. \A k \in x + 1 .. y : s[k] \in S
    <2>1. Len(s) \in Nat
      BY LenProperties
    <2> QED
      BY <2>1, ElementOfSeq
  <1>2. x + 1 \in Int /\ y \in Int
    OBVIOUS
  <1>3. /\ v \in Seq(S) /\ Len(v) = IF x + 1 <= y THEN y - (x + 1) + 1 ELSE 0
        /\ \A i \in 1 .. y - (x + 1) + 1 : v[i] = s[x + 1 + i - 1]
    BY ONLY <1>1, <1>2, SubSeqProperties
  <1> HIDE DEF v
  <1>4. Len(v) = y - x
    BY <1>3
  <1>5. \A i \in 1 .. y - x : i \in 1 .. y - (x + 1) + 1 /\ x + 1 + i - 1 = x + i
    OBVIOUS
  <1>6. \A i \in 1 .. y - x : v[i] = s[x + i]
    BY <1>3, <1>5
  <1> QED
    BY <1>3, <1>4, <1>6 DEF v

\* What is between a and c in s is in f, d places further on.
Slides(s, f, a, c, d) ==
  /\ a < c /\ c <= Len(s) /\ c - 1 + d <= Len(f)
  /\ \A k \in a + 1 .. c - 1 : f[k + d] = s[k]

\* What is between a and e in s is in f, with the m symbols of body behind it.
Longer(s, f, a, e, body, m) ==
  /\ m = Len(body) /\ a < e /\ e <= Len(s) /\ e - 1 + m <= Len(f)
  /\ \A k \in a + 1 .. e - 1 : f[k] = s[k]
  /\ \A k \in 1 .. m : f[e - 1 + k] = body[k]

\* A slice of one sequence that is a slice of another, d places further on.
LEMMA SameSlice ==
  ASSUME NEW s \in Seq(Symbols), NEW f \in Seq(Symbols),
         NEW a \in Nat, NEW c \in Nat, NEW d \in Nat, Slides(s, f, a, c, d)
  PROVE  SubSeq(f, a + d + 1, c + d - 1) = SubSeq(s, a + 1, c - 1)
  <1> DEFINE x == a + d
             y == c + d - 1
             z == c - 1
             u == SubSeq(f, x + 1, y)
             v == SubSeq(s, a + 1, z)
  <1>1. x \in Nat /\ y \in Nat /\ z \in Nat /\ x <= y /\ y <= Len(f) /\ a <= z /\ z <= Len(s)
        /\ y - x = z - a
    <2>1. Len(s) \in Nat /\ Len(f) \in Nat
      BY LenProperties
    <2> QED
      BY <2>1 DEF Slides
  <1>2. \A i \in 1 .. z - a : f[x + i] = s[a + i]
    <2>1. \A i \in 1 .. z - a : a + i \in a + 1 .. c - 1 /\ a + i + d = x + i
      OBVIOUS
    <2>2. \A k \in a + 1 .. c - 1 : f[k + d] = s[k]
      BY DEF Slides
    <2> HIDE DEF x, z
    <2> QED
      BY <2>1, <2>2
  <1> HIDE DEF x, y, z
  <1>3. /\ v \in Seq(Symbols) /\ Len(v) = z - a
        /\ \A i \in 1 .. z - a : v[i] = s[a + i]
    BY <1>1, SliceOf
  <1>4. /\ u \in Seq(Symbols) /\ Len(u) = y - x
        /\ \A i \in 1 .. y - x : u[i] = f[x + i]
    BY <1>1, SliceOf
  <1> HIDE DEF u, v
  <1>5. Len(u) = Len(v) /\ \A i \in 1 .. Len(u) : u[i] = v[i]
    <2>1. Len(u) = Len(v) /\ Len(u) = z - a
      BY <1>1, <1>3, <1>4
    <2>2. \A i \in 1 .. z - a : u[i] = f[x + i]
      BY <1>1, <1>4
    <2> QED
      BY <2>1, <2>2, <1>2, <1>3
  <1>6. u = v
    BY <1>3, <1>4, <1>5, SeqEqual
  <1> QED
    BY <1>6 DEF u, v, x, y, z

\* s and t, one behind the other.
Behind(s, t) == s \o t

\* A slice of one sequence that is a slice of another and a third sequence.
LEMMA LongerSlice ==
  ASSUME NEW s \in Seq(Symbols), NEW f \in Seq(Symbols), NEW body \in Seq(Symbols),
         NEW a \in Nat, NEW e \in Nat, NEW m \in Nat, Longer(s, f, a, e, body, m)
  PROVE  SubSeq(f, a + 1, e + m - 1) = Behind(SubSeq(s, a + 1, e - 1), body)
  <1> DEFINE z == e - 1
             y == e + m - 1
             u == SubSeq(f, a + 1, y)
             v == SubSeq(s, a + 1, z)
  <1>1. /\ m = Len(body) /\ z \in Nat /\ y \in Nat /\ a <= z /\ z <= Len(s)
        /\ a <= y /\ y <= Len(f) /\ y = z + m
    BY LenProperties DEF Longer
  <1>2. /\ \A k \in a + 1 .. z : f[k] = s[k]
        /\ \A k \in 1 .. m : f[z + k] = body[k]
    BY DEF Longer
  <1> HIDE DEF y, z
  <1>3. /\ v \in Seq(Symbols) /\ Len(v) = z - a
        /\ \A i \in 1 .. z - a : v[i] = s[a + i]
    BY <1>1, SliceOf
  <1>4. /\ u \in Seq(Symbols) /\ Len(u) = y - a
        /\ \A i \in 1 .. y - a : u[i] = f[a + i]
    BY <1>1, SliceOf
  <1>5. y - a = z - a + m
    BY <1>1
  <1>6. /\ \A i \in 1 .. z - a : a + i \in a + 1 .. z
        /\ \A i \in 1 .. y - a : ~(i <= z - a) => i - (z - a) \in 1 .. m /\ z + (i - (z - a)) = a + i
    BY <1>1
  <1> HIDE DEF u, v
  <1>7. /\ v \o body \in Seq(Symbols) /\ Len(v \o body) = Len(v) + m
        /\ \A i \in 1 .. Len(v) + m :
             (v \o body)[i] = IF i <= Len(v) THEN v[i] ELSE body[i - Len(v)]
    <2>1. v \in Seq(Symbols)
      BY <1>3
    <2> QED
      BY <2>1, <1>1, ConcatProperties
  <1>8. ASSUME NEW i \in 1 .. y - a
        PROVE  u[i] = (v \o body)[i]
    <2>1. i \in 1 .. Len(v) + m
      BY <1>3, <1>5
    <2>2. CASE i <= z - a
      BY <2>1, <2>2, <1>1, <1>2, <1>3, <1>4, <1>6, <1>7
    <2>3. CASE ~(i <= z - a)
      <3>1. f[z + (i - (z - a))] = body[i - (z - a)]
        BY <2>3, <1>2, <1>6
      <3>2. (v \o body)[i] = body[i - (z - a)]
        BY <2>1, <2>3, <1>3, <1>7
      <3> QED
        BY <3>1, <3>2, <2>3, <1>4, <1>6
    <2> QED
      BY <2>2, <2>3
  <1>9. Len(u) = Len(v \o body)
    BY <1>3, <1>4, <1>5, <1>7
  <1>10. u = v \o body
    BY <1>4, <1>7, <1>8, <1>9, SeqEqual
  <1> QED
    BY <1>10 DEF u, v, y, z, Behind

\* A row that has moved.
LEMMA RowMoved ==
  ASSUME NEW s \in Seq(Symbols), NEW f \in Seq(Symbols), NEW i \in Nat,
         NEW a \in Nat, NEW c \in Nat, NEW d \in Nat, Slides(s, f, a, c, d),
         EndOfRow(s, i - 1) = a, EndOfRow(s, i) = c,
         EndOfRow(f, i - 1) = a + d, EndOfRow(f, i) = c + d
  PROVE  Row(f, i) = Row(s, i)
  <1>1. Row(s, i) = SubSeq(s, a + 1, c - 1)
    BY DEF Row
  <1>2. Row(f, i) = SubSeq(f, a + d + 1, c + d - 1)
    <2>1. PICK v \in Nat, w \in Nat : v = a + d /\ w = c + d
      OBVIOUS
    <2>2. Row(f, i) = SubSeq(f, v + 1, w - 1)
      BY <2>1 DEF Row
    <2> QED
      BY ONLY <2>1, <2>2
  <1>3. SubSeq(f, a + d + 1, c + d - 1) = SubSeq(s, a + 1, c - 1)
    BY SameSlice
  <1> QED
    BY ONLY <1>1, <1>2, <1>3

\* A row to which something has been added.
LEMMA RowLonger ==
  ASSUME NEW s \in Seq(Symbols), NEW f \in Seq(Symbols), NEW body \in Seq(Symbols),
         NEW i \in Nat, NEW a \in Nat, NEW e \in Nat, NEW m \in Nat, Longer(s, f, a, e, body, m),
         EndOfRow(s, i - 1) = a, EndOfRow(s, i) = e,
         EndOfRow(f, i - 1) = a, EndOfRow(f, i) = e + m
  PROVE  Row(f, i) = Behind(Row(s, i), body)
  <1>1. Row(s, i) = SubSeq(s, a + 1, e - 1)
    BY DEF Row
  <1>2. Row(f, i) = SubSeq(f, a + 1, e + m - 1)
    <2>1. PICK w \in Nat : w = e + m
      OBVIOUS
    <2>2. Row(f, i) = SubSeq(f, a + 1, w - 1)
      BY <2>1 DEF Row
    <2> QED
      BY ONLY <2>1, <2>2
  <1>3. SubSeq(f, a + 1, e + m - 1) = Behind(SubSeq(s, a + 1, e - 1), body)
    BY LongerSlice
  <1> QED
    BY ONLY <1>1, <1>2, <1>3

\* What row l is: empty if the sequence has fewer rows.
RowAt(s, l) == IF l <= RowCount(s) THEN Row(s, l) ELSE <<>>

\* A line to be added: some symbols and the newline.
IsLine(data, body) ==
  /\ data \in Seq(Symbols) /\ body \in Seq(Symbols) /\ Len(data) = Len(body) + 1
  /\ \A k \in 1 .. Len(body) : data[k] = body[k] /\ body[k] # NL
  /\ data[Len(body) + 1] = NL

\* f is s with the body of a line at the end of row l.
AddedTo(f, s, l, body) ==
  /\ f \in Seq(Symbols) /\ f # <<>>
  /\ RowCount(f) = (IF l > RowCount(s) THEN l ELSE RowCount(s))
  /\ \A i \in 1 .. RowCount(f) :
       Row(f, i) = IF i = l THEN Behind(RowAt(s, l), body) ELSE RowAt(s, i)

\* A file of whole rows.
WholeRows(s) == s = <<>> \/ s[Len(s)] = NL

\* The body goes into a row that is there, before its newline.
LEMMA RowGrows ==
  ASSUME NEW s \in Seq(Symbols), NEW f \in Seq(Symbols), NEW l \in 1 .. RowCount(s),
         NEW data, NEW body, IsLine(data, body), WholeRows(s),
         MadeOf(f, SubSeq(s, 1, EndOfRow(s, l) - 1), data, Drop(s, EndOfRow(s, l)))
  PROVE  AddedTo(f, s, l, body) /\ WholeRows(f)
  <1> DEFINE n == RowCount(s)
             b == [i \in 0 .. n |-> EndOfRow(s, i)]
             e == b[l]
             m == Len(body)
             N == Len(s)
             B == [i \in 0 .. n |-> IF i < l THEN b[i] ELSE b[i] + m]
  <1>1. Bounds(b, n, s)
    BY EndsAreBounds
  <1>2. n \in Nat /\ N \in Nat /\ m \in Nat /\ l \in 1 .. n /\ l \in 0 .. n
    BY EndsFinite, LenProperties DEF IsLine
  <1>3. EndOfRow(s, l) = e /\ \A i \in 0 .. n : EndOfRow(s, i) = b[i]
    BY <1>2
  <1> HIDE DEF b, n
  <1>4. /\ b \in [0 .. n -> Nat] /\ b[0] = 0
        /\ \A i \in 0 .. n : \A j \in 0 .. n : i < j => b[i] < b[j]
        /\ Ends(s) = {b[i] : i \in 1 .. n}
    BY <1>1 DEF Bounds
  <1>5. /\ \A i \in 1 .. n : b[i] \in 1 .. N /\ s[b[i]] = NL
        /\ \A k \in 1 .. N : s[k] = NL => \E i \in 1 .. n : k = b[i]
    BY <1>4 DEF Ends
  <1>6. e \in 1 .. N /\ s[e] = NL
    BY <1>2, <1>5
  <1>7. /\ Len(f) = N + m
        /\ \A k \in 1 .. e - 1 : f[k] = s[k]
        /\ \A k \in 1 .. m : f[e - 1 + k] = body[k]
        /\ \A k \in e .. N : f[k + m] = s[k]
    <2> DEFINE x == SubSeq(s, 1, e - 1)
               z == Drop(s, e)
    <2>1. MadeOf(f, x, data, z)
      BY <1>3
    <2>2. Len(x) = e - 1 /\ \A k \in 1 .. e - 1 : x[k] = s[k]
      <3>1. e - 1 \in 0 .. Len(s)
        BY <1>6, <1>2
      <3> QED
        BY <3>1, Cut
    <2>3. Len(z) = N - e /\ \A k \in 1 .. N - e : z[k] = s[e + k]
      <3>1. e \in 0 .. Len(s)
        BY <1>6, <1>2
      <3> QED
        BY <3>1, Cut, ZenonT(40)
    <2> HIDE DEF x, z, N, e
    <2>4. /\ Len(f) = Len(x) + Len(data) + Len(z)
          /\ \A k \in 1 .. Len(x) : f[k] = x[k]
          /\ \A k \in 1 .. Len(data) : f[Len(x) + k] = data[k]
          /\ \A k \in 1 .. Len(z) : f[Len(x) + Len(data) + k] = z[k]
      BY <2>1 DEF MadeOf
    <2>5. /\ Len(data) = m + 1 /\ data[m + 1] = NL
          /\ \A k \in 1 .. m : data[k] = body[k]
      BY DEF IsLine
    <2> HIDE DEF m
    <2>6. Len(f) = N + m
      BY <1>2, <1>6, <2>2, <2>3, <2>4, <2>5
    <2>7. \A k \in 1 .. e - 1 : f[k] = s[k]
      BY <2>2, <2>4
    <2>8. \A k \in 1 .. m : k \in 1 .. m + 1
      BY <1>2
    <2>9. \A k \in 1 .. m : f[e - 1 + k] = body[k]
      BY <2>2, <2>4, <2>5, <2>8
    <2>10. f[e + m] = s[e]
      <3>1. m + 1 \in 1 .. m + 1 /\ e - 1 + (m + 1) = e + m
        BY <1>2, <1>6
      <3>2. f[e - 1 + (m + 1)] = data[m + 1]
        BY <3>1, <2>2, <2>4, <2>5
      <3> QED
        BY <3>1, <3>2, <2>5, <1>6
    <2>11. ASSUME NEW k \in e + 1 .. N
           PROVE  f[k + m] = s[k]
      <3>1. k - e \in 1 .. N - e /\ e - 1 + (m + 1) + (k - e) = k + m /\ e + (k - e) = k
        BY <1>2, <1>6
      <3>2. f[e - 1 + (m + 1) + (k - e)] = z[k - e]
        BY <3>1, <2>2, <2>3, <2>4, <2>5
      <3>3. z[k - e] = s[e + (k - e)]
        BY <3>1, <2>3
      <3> QED
        BY <3>1, <3>2, <3>3
    <2>12. \A k \in e .. N : k = e \/ k \in e + 1 .. N
      BY <1>2, <1>6
    <2>13. \A k \in e .. N : f[k + m] = s[k]
      BY <2>10, <2>11, <2>12
    <2> QED
      BY <2>6, <2>7, <2>9, <2>13
  <1>8. Bounds(B, n, f)
    <2>1. \A i \in 0 .. n : b[i] \in Nat /\ (i < l => b[i] < e) /\ (~(i < l) => b[i] >= e)
      <3>1. \A i \in 0 .. n : b[i] \in Nat
        BY <1>4
      <3>2. \A i \in 0 .. n : i < l => b[i] < e
        BY <1>2, <1>4
      <3>3. \A i \in 0 .. n : ~(i < l) => i = l \/ l < i
        BY <1>2
      <3>4. \A i \in 0 .. n : l < i => e < b[i]
        BY <1>2, <1>4
      <3> QED
        BY <3>1, <3>2, <3>3, <3>4, <1>2
    <2>2. B \in [0 .. n -> Nat] /\ \A i \in 0 .. n : B[i] = IF i < l THEN b[i] ELSE b[i] + m
      BY <2>1, <1>2
    <2> HIDE DEF B, e, m, N
    <2>3. B[0] = 0
      BY <2>2, <1>2, <1>4
    <2>4. ASSUME NEW i \in 0 .. n, NEW j \in 0 .. n, i < j
          PROVE  B[i] < B[j]
      <3>1. b[i] < b[j] /\ b[i] \in Nat /\ b[j] \in Nat /\ (j < l => i < l)
        BY <2>1, <2>4, <1>2, <1>4
      <3>2. /\ B[i] = IF i < l THEN b[i] ELSE b[i] + m
            /\ B[j] = IF j < l THEN b[j] ELSE b[j] + m
        BY <2>2
      <3> QED
        BY <3>1, <3>2, <1>2
    <2>5. ASSUME NEW i \in 1 .. n
          PROVE  B[i] \in Ends(f)
      <3>1. i \in 0 .. n /\ b[i] \in 1 .. N /\ s[b[i]] = NL
        BY <1>5, <1>2
      <3>2. CASE i < l
        <4>1. B[i] = b[i] /\ b[i] \in 1 .. e - 1
          BY <3>1, <3>2, <2>1, <2>2, <1>6, <1>2
        <4>2. f[B[i]] = NL
          BY <4>1, <3>1, <1>7
        <4>3. B[i] \in 1 .. Len(f)
          BY <4>1, <1>2, <1>6, <1>7
        <4> QED
          BY <4>2, <4>3 DEF Ends
      <3>3. CASE ~(i < l)
        <4>1. B[i] = b[i] + m /\ b[i] \in e .. N
          BY <3>1, <3>3, <2>1, <2>2, <1>6, <1>2
        <4>2. f[B[i]] = NL
          BY <4>1, <3>1, <1>7
        <4>3. B[i] \in 1 .. Len(f)
          BY <4>1, <1>2, <1>6, <1>7
        <4> QED
          BY <4>2, <4>3 DEF Ends
      <3> QED
        BY <3>2, <3>3
    <2>6. ASSUME NEW x \in Ends(f)
          PROVE  \E i \in 1 .. n : x = B[i]
      <3>1. x \in 1 .. N + m /\ f[x] = NL
        BY <1>7 DEF Ends
      <3>2. CASE x < e
        <4>1. x \in 1 .. e - 1 /\ x \in 1 .. N
          BY <3>1, <3>2, <1>2, <1>6
        <4>2. s[x] = NL
          BY <4>1, <3>1, <1>7
        <4>3. PICK i \in 1 .. n : x = b[i]
          BY <4>1, <4>2, <1>5
        <4>4. i \in 0 .. n
          OBVIOUS
        <4>5. i < l
          BY <4>3, <4>4, <3>2, <2>1, <1>6
        <4> QED
          BY <4>3, <4>4, <4>5, <2>2
      <3>3. CASE x >= e /\ x < e + m
        <4>1. x - (e - 1) \in 1 .. m /\ e - 1 + (x - (e - 1)) = x
          BY <3>1, <3>3, <1>2, <1>6
        <4>2. f[x] = body[x - (e - 1)]
          BY <4>1, <1>7
        <4>3. body[x - (e - 1)] # NL
          BY <4>1 DEF IsLine, m
        <4> QED
          BY <4>2, <4>3, <3>1
      <3>4. CASE x >= e + m
        <4>1. x - m \in e .. N /\ x - m \in 1 .. N /\ x - m + m = x
          BY <3>1, <3>4, <1>2, <1>6
        <4>2. s[x - m] = NL
          BY <4>1, <3>1, <1>7
        <4>3. PICK i \in 1 .. n : x - m = b[i]
          BY <4>1, <4>2, <1>5
        <4>4. i \in 0 .. n
          OBVIOUS
        <4>5. ~(i < l)
          BY <4>1, <4>3, <4>4, <2>1, <1>6
        <4>6. x = B[i]
          BY <4>1, <4>3, <4>4, <4>5, <2>2
        <4> QED
          BY <4>6
      <3> QED
        BY <3>1, <3>2, <3>3, <3>4, <1>2, <1>6
    <2>7. Ends(f) = {B[i] : i \in 1 .. n}
      BY <2>5, <2>6
    <2> QED
      BY <2>2, <2>3, <2>4, <2>7, <1>2 DEF Bounds
  <1>9. RowCount(f) = n /\ \A i \in 0 .. n : EndOfRow(f, i) = B[i]
    BY <1>8, BoundsAreEnds
  <1>9a. \A i \in 0 .. n : B[i] = IF i < l THEN b[i] ELSE b[i] + m
    OBVIOUS
  <1> HIDE DEF B
  <1>10. ASSUME NEW i \in 1 .. n
         PROVE  Row(f, i) = IF i = l THEN Behind(Row(s, l), body) ELSE Row(s, i)
    <2>1. i - 1 \in 0 .. n /\ i \in 0 .. n /\ i \in Nat
      BY <1>2
    <2>2. PICK a \in Nat, c \in Nat : a = b[i - 1] /\ c = b[i]
      BY <2>1, <1>4
    <2>3. PICK x \in Nat : x = e
      BY <1>6
    <2>4. PICK d \in Nat : d = m
      BY <1>2
    <2>5. EndOfRow(s, i - 1) = a /\ EndOfRow(s, i) = c
      BY <2>1, <2>2, <1>3
    <2>6. /\ EndOfRow(f, i - 1) = IF i - 1 < l THEN a ELSE a + d
          /\ EndOfRow(f, i) = IF i < l THEN c ELSE c + d
      <3>1. EndOfRow(f, i - 1) = B[i - 1] /\ EndOfRow(f, i) = B[i]
        BY <2>1, <1>9
      <3>2. /\ B[i - 1] = IF i - 1 < l THEN b[i - 1] ELSE b[i - 1] + m
            /\ B[i] = IF i < l THEN b[i] ELSE b[i] + m
        BY <2>1, <1>9a
      <3> HIDE DEF m
      <3> QED
        BY <3>1, <3>2, <2>2, <2>4
    <2>7. a < c /\ c \in 1 .. N
      BY <2>1, <2>2, <1>4, <1>5
    <2>8. /\ x \in 1 .. N /\ Len(f) = N + d
          /\ \A k \in 1 .. x - 1 : f[k] = s[k]
          /\ \A k \in 1 .. d : f[x - 1 + k] = body[k]
          /\ \A k \in x .. N : f[k + d] = s[k]
      <3> HIDE DEF e, m, N
      <3> QED
        BY <2>3, <2>4, <1>6, <1>7
    <2> HIDE DEF N, e
    <2>9. CASE i < l
      <3>1. c < x
        BY <2>1, <2>2, <2>3, <2>9, <1>2, <1>4 DEF e
      <3>2. /\ c <= N /\ c - 1 + 0 <= Len(f) /\ i - 1 < l /\ ~(i = l)
            /\ \A k \in a + 1 .. c - 1 : k \in 1 .. x - 1 /\ k + 0 = k
            /\ a = a + 0 /\ c = c + 0
        BY <3>1, <2>7, <2>8, <2>9, <1>2
      <3>3. \A k \in a + 1 .. c - 1 : f[k + 0] = s[k]
        BY <3>2, <2>8
      <3>4. /\ EndOfRow(f, i - 1) = a + 0 /\ EndOfRow(f, i) = c + 0
            /\ c <= Len(s)
        BY <3>2, <2>6, <2>9 DEF N
      <3>5. Row(f, i) = Row(s, i)
        <4>1. Slides(s, f, a, c, 0)
          BY <3>2, <3>3, <3>4, <2>7 DEF Slides
        <4> QED
          BY <4>1, <3>4, <2>1, <2>5, RowMoved
      <3> QED
        BY <3>2, <3>5
    <2>10. CASE i = l
      <3>1. c = x
        BY <2>2, <2>3, <2>10 DEF e
      <3>2. /\ c <= N /\ c - 1 + d <= Len(f) /\ i - 1 < l /\ ~(i < l)
            /\ \A k \in a + 1 .. c - 1 : k \in 1 .. x - 1
        BY <3>1, <2>7, <2>8, <2>10, <1>2
      <3>3. \A k \in a + 1 .. c - 1 : f[k] = s[k]
        BY <3>2, <2>8
      <3>4. EndOfRow(f, i - 1) = a /\ EndOfRow(f, i) = c + d /\ c <= Len(s)
        BY <3>2, <2>6 DEF N
      <3>5. \A k \in 1 .. d : f[c - 1 + k] = body[k]
        BY <3>1, <2>8
      <3>6. body \in Seq(Symbols) /\ d = Len(body)
        BY <2>4 DEF IsLine
      <3>7. Row(f, i) = Behind(Row(s, i), body)
        <4>1. Longer(s, f, a, c, body, d)
          BY <3>2, <3>3, <3>4, <3>5, <3>6, <2>7 DEF Longer
        <4>2. body \in Seq(Symbols)
          BY <3>6
        <4> QED
          BY <4>1, <4>2, <3>4, <2>1, <2>5, RowLonger, SMTT(30)
      <3> QED
        BY <3>7, <2>10
    <2>11. CASE i > l
      <3>1. x <= a
        <4>1. l \in 0 .. n /\ i - 1 \in 0 .. n /\ (l = i - 1 \/ l < i - 1)
          BY <2>1, <2>11, <1>2
        <4>2. l < i - 1 => b[l] < b[i - 1]
          BY <4>1, <1>4
        <4> QED
          BY <4>1, <4>2, <2>2, <2>3 DEF e
      <3>2. /\ c <= N /\ c - 1 + d <= Len(f) /\ ~(i - 1 < l) /\ ~(i < l) /\ ~(i = l)
            /\ \A k \in a + 1 .. c - 1 : k \in x .. N
        BY <3>1, <2>1, <2>7, <2>8, <2>11, <1>2
      <3>3. \A k \in a + 1 .. c - 1 : f[k + d] = s[k]
        BY <3>2, <2>8
      <3>4. EndOfRow(f, i - 1) = a + d /\ EndOfRow(f, i) = c + d /\ c <= Len(s)
        BY <3>2, <2>6 DEF N
      <3>5. Row(f, i) = Row(s, i)
        <4>1. Slides(s, f, a, c, d)
          BY <3>2, <3>3, <3>4, <2>7 DEF Slides
        <4> QED
          BY <4>1, <3>4, <2>1, <2>5, RowMoved
      <3> QED
        BY <3>2, <3>5
    <2> QED
      BY <2>9, <2>10, <2>11, <1>2
  <1>11. f # <<>> /\ f[Len(f)] = NL
    <2>1. s # <<>> /\ s[N] = NL
      BY <1>6, EmptySeq DEF WholeRows
    <2>2. N \in e .. N
      BY <1>6, <1>2
    <2>3. f[N + m] = NL
      BY <2>1, <2>2, <1>7
    <2>4. Len(f) # 0
      BY <1>2, <1>6, <1>7
    <2> QED
      BY <2>3, <2>4, <1>7, EmptySeq
  <1> QED
    BY <1>2, <1>9, <1>10, <1>11 DEF AddedTo, RowAt, n, WholeRows

\* f is s, which has n rows and N symbols, with g empty rows and a line of m
\* symbols behind it.
Appended(f, s, n, N, g, m, data, body) ==
  /\ n = RowCount(s) /\ N = Len(s) /\ m = Len(body)
  /\ IsLine(data, body) /\ WholeRows(s)
  /\ Len(f) = N + g + m + 1
  /\ \A k \in 1 .. N : f[k] = s[k]
  /\ \A k \in N + 1 .. N + g : f[k] = NL
  /\ \A k \in 1 .. m : f[N + g + k] = body[k]
  /\ f[N + g + m + 1] = NL

\* The body makes a row of its own behind the others, with empty rows between.
LEMMA RowAppended ==
  ASSUME NEW s \in Seq(Symbols), NEW f \in Seq(Symbols), NEW data, NEW body,
         NEW n \in Nat, NEW N \in Nat, NEW g \in Nat, NEW m \in Nat,
         Appended(f, s, n, N, g, m, data, body),
         NEW l \in Nat, l = n + g + 1
  PROVE  AddedTo(f, s, l, body) /\ WholeRows(f)
  <1>f. /\ n = RowCount(s) /\ N = Len(s) /\ m = Len(body)
        /\ Len(f) = N + g + m + 1
        /\ IsLine(data, body) /\ WholeRows(s)
    BY DEF Appended
  <1>g. /\ \A k \in 1 .. N : f[k] = s[k]
        /\ \A k \in N + 1 .. N + g : f[k] = NL
        /\ \A k \in 1 .. m : f[N + g + k] = body[k]
        /\ f[N + g + m + 1] = NL
    BY DEF Appended
  <1>1. PICK b : Bounds(b, n, s) /\ \A i \in 0 .. n : EndOfRow(s, i) = b[i]
    <2> DEFINE c == [i \in 0 .. n |-> EndOfRow(s, i)]
    <2>1. Bounds(c, n, s) /\ \A i \in 0 .. n : EndOfRow(s, i) = c[i]
      BY <1>f, EndsAreBounds
    <2> HIDE DEF c
    <2> QED
      BY <2>1
  <1>2. /\ b \in [0 .. n -> Nat] /\ b[0] = 0
        /\ \A i \in 0 .. n : \A j \in 0 .. n : i < j => b[i] < b[j]
        /\ Ends(s) = {b[i] : i \in 1 .. n}
    BY <1>1 DEF Bounds
  <1>3. /\ \A i \in 1 .. n : b[i] \in 1 .. N /\ s[b[i]] = NL
        /\ \A k \in 1 .. N : s[k] = NL => \E i \in 1 .. n : k = b[i]
    <2>1. Ends(s) = {k \in 1 .. N : s[k] = NL}
      BY <1>f DEF Ends
    <2> QED
      BY <2>1, <1>2
  <1>4. b[n] = N
    <2>1. CASE s = <<>>
      <3>1. N = 0
        BY <2>1, EmptySeq, <1>f
      <3>2. n = 0
        BY <3>1, <1>1, <1>3
      <3> QED
        BY <3>1, <3>2, <1>2
    <2>2. CASE s # <<>>
      <3>1. s[N] = NL /\ N \in 1 .. N
        <4>1. N # 0
          BY <2>2, EmptySeq, <1>f
        <4> QED
          BY <4>1, <2>2, <1>f DEF WholeRows
      <3>2. PICK i \in 1 .. n : N = b[i]
        BY <3>1, <1>3
      <3>3. n \in 1 .. n /\ b[n] \in 1 .. N
        BY <1>1, <1>3
      <3>4. i = n \/ b[i] < b[n]
        <4>1. i \in 0 .. n /\ n \in 0 .. n /\ (i = n \/ i < n)
          BY <1>1
        <4> QED
          BY <4>1, <1>2
      <3> QED
        BY <3>2, <3>3, <3>4
    <2> QED
      BY <2>1, <2>2
  <1>5. l = n + g + 1 /\ l \in Nat /\ n < l /\ n \in 0 .. n
    BY <1>1
  <1> DEFINE B == [i \in 0 .. l |-> IF i <= n THEN b[i] ELSE IF i < l THEN N + (i - n) ELSE N + g + m + 1]
  <1>6. /\ DOMAIN B = 0 .. l /\ B = [i \in 0 .. l |-> B[i]]
        /\ \A i \in 0 .. l : B[i] = IF i <= n THEN b[i] ELSE IF i < l THEN N + (i - n) ELSE N + g + m + 1
    OBVIOUS
  <1> HIDE DEF B
  <1>7. \A i \in 0 .. n : b[i] \in Nat /\ b[i] <= N
    <2>1. \A i \in 0 .. n : i = n \/ i < n
      BY <1>1
    <2> QED
      BY <2>1, <1>2, <1>4, <1>5
  <1>8. /\ \A i \in 0 .. n : B[i] = b[i] /\ i \in 0 .. l
        /\ \A i \in n .. l - 1 : B[i] = N + (i - n) /\ i \in 0 .. l
        /\ B[l] = N + g + m + 1 /\ l \in 0 .. l
    <2>1. \A i \in 0 .. n : i \in 0 .. l /\ i <= n
      BY <1>1, <1>5
    <2>2. \A i \in n .. l - 1 : i \in 0 .. l /\ i < l /\ (i = n \/ ~(i <= n))
      BY <1>1, <1>5
    <2>3. l \in 0 .. l /\ ~(l <= n) /\ ~(l < l)
      BY <1>1, <1>5
    <2>4. N + (n - n) = N
      BY <1>1
    <2> QED
      BY <2>1, <2>2, <2>3, <2>4, <1>4, <1>6
  <1>9. \A i \in 0 .. l : i \in 0 .. n \/ (i \in n + 1 .. l - 1 /\ i \in n .. l - 1) \/ i = l
    BY <1>1, <1>5
  <1>10. Bounds(B, l, f)
    <2>1. \A i \in 0 .. l : B[i] \in Nat
      BY <1>1, <1>5, <1>7, <1>8, <1>9, SMTT(30)
    <2>2. B \in [0 .. l -> Nat] /\ B[0] = 0
      <3>1. 0 \in 0 .. n
        BY <1>1
      <3> QED
        BY <3>1, <2>1, <1>2, <1>6, <1>8
    <2>3. ASSUME NEW i \in 0 .. l, NEW j \in 0 .. l, i < j
          PROVE  B[i] < B[j]
      <3>1. CASE j \in 0 .. n
        <4>1. i \in 0 .. n
          BY <3>1, <2>3, <1>1
        <4> QED
          BY <4>1, <3>1, <2>3, <1>2, <1>8
      <3>2. CASE j \in n + 1 .. l - 1 /\ j \in n .. l - 1
        <4>1. B[j] = N + (j - n) /\ N + (j - n) > N
          BY <3>2, <1>8, <1>1
        <4>2. CASE i \in 0 .. n
          <5>1. B[i] = b[i] /\ b[i] \in Nat /\ b[i] <= N
            BY <4>2, <1>7, <1>8
          <5>2. j - n \in Nat
            BY <3>2
          <5> QED
            BY <4>1, <5>1, <5>2
        <4>3. CASE i \in n .. l - 1
          BY <4>1, <4>3, <3>2, <2>3, <1>1, <1>8
        <4> QED
          BY <4>2, <4>3, <3>2, <2>3, <1>1, <1>9
      <3>3. CASE j = l
        <4>1. B[j] = N + g + m + 1
          BY <3>3, <1>8
        <4>2. CASE i \in 0 .. n
          <5>1. B[i] = b[i] /\ b[i] \in Nat /\ b[i] <= N
            BY <4>2, <1>7, <1>8
          <5> QED
            BY <4>1, <5>1
        <4>3. CASE i \in n .. l - 1
          BY <4>1, <4>3, <1>1, <1>5, <1>8
        <4> QED
          BY <4>2, <4>3, <3>3, <2>3, <1>1, <1>9
      <3> QED
        BY <3>1, <3>2, <3>3, <1>9
    <2>4. ASSUME NEW i \in 1 .. l
          PROVE  B[i] \in Ends(f)
      <3>1. i \in 0 .. l
        BY <1>5
      <3>2. CASE i \in 0 .. n
        <4>1. i \in 1 .. n
          BY <3>2
        <4>2. B[i] = b[i] /\ b[i] \in 1 .. N /\ s[b[i]] = NL
          BY <4>1, <3>2, <1>3, <1>8
        <4>3. f[b[i]] = NL /\ b[i] \in 1 .. Len(f)
          BY <4>2, <1>f, <1>g
        <4> QED
          BY <4>2, <4>3 DEF Ends
      <3>3. CASE i \in n + 1 .. l - 1 /\ i \in n .. l - 1
        <4>1. B[i] = N + (i - n) /\ N + (i - n) \in N + 1 .. N + g /\ N + (i - n) \in 1 .. Len(f)
          <5>1. B[i] = N + (i - n)
            BY <3>3, <1>8
          <5>2. PICK d \in Nat : d = i - n /\ d \in 1 .. g
            BY <3>3
          <5>3. N + d \in N + 1 .. N + g /\ N + d \in 1 .. N + g + m + 1
            BY <5>2
          <5> QED
            BY <5>1, <5>2, <5>3, <1>f
        <4> QED
          BY <4>1, <1>g DEF Ends
      <3>4. CASE i = l
        <4>1. B[i] = N + g + m + 1 /\ N + g + m + 1 \in 1 .. Len(f)
          BY <3>4, <1>8, <1>f
        <4> QED
          BY <4>1, <1>g DEF Ends
      <3> QED
        BY <3>1, <3>2, <3>3, <3>4, <1>9
    <2>5. ASSUME NEW x \in Ends(f)
          PROVE  \E i \in 1 .. l : x = B[i]
      <3>1. x \in 1 .. N + g + m + 1 /\ f[x] = NL
        BY <1>f DEF Ends
      <3>2. CASE x <= N
        <4>0. x \in 1 .. N
          <5>1. x \in Nat \ {0}
            BY <3>1
          <5> QED
            BY ONLY <5>1, <3>2, N \in Nat
        <4>1. x \in 1 .. N /\ s[x] = NL
          BY <4>0, <3>1, <1>g
        <4>2. PICK i \in 1 .. n : x = b[i]
          BY <4>1, <1>3
        <4>3. i \in 0 .. n /\ i \in 1 .. l
          BY <1>1, <1>5
        <4>4. x = B[i]
          BY <4>2, <4>3, <1>8
        <4> QED
          BY <4>3, <4>4
      <3>3. CASE x > N /\ x <= N + g
        <4>1. PICK d \in Nat : x = N + d /\ d \in 1 .. g
          <5>1. x - N \in Nat /\ x = N + (x - N) /\ x - N \in 1 .. g
            BY <3>1, <3>3
          <5> QED
            BY <5>1
        <4>0. PICK y \in Nat : y = n + d
          OBVIOUS
        <4>2. y \in 1 .. l /\ y \in n .. l - 1 /\ N + (y - n) = x
          BY <4>0, <4>1
        <4>3. x = B[y]
          BY <4>2, <1>8
        <4> QED
          BY <4>2, <4>3
      <3>4. CASE x > N + g /\ x <= N + g + m
        <4>1. x - (N + g) \in 1 .. m /\ N + g + (x - (N + g)) = x
          BY <3>1, <3>4
        <4>2. f[N + g + (x - (N + g))] = body[x - (N + g)]
          BY <4>1, <1>g
        <4>3. body[x - (N + g)] # NL
          BY <4>1, <1>f DEF IsLine
        <4> QED
          BY <4>1, <4>2, <4>3, <3>1
      <3>5. CASE x = N + g + m + 1
        <4>1. x = B[l] /\ l \in 1 .. l
          BY <3>5, <1>5, <1>8
        <4> QED
          BY <4>1
      <3> QED
        BY <3>1, <3>2, <3>3, <3>4, <3>5
    <2>6. Ends(f) = {B[i] : i \in 1 .. l}
      BY <2>4, <2>5
    <2> QED
      BY <2>2, <2>3, <2>6, <1>5 DEF Bounds
  <1>11. RowCount(f) = l /\ \A i \in 0 .. l : EndOfRow(f, i) = B[i]
    BY <1>10, BoundsAreEnds
  <1>12. ASSUME NEW i \in 1 .. n
         PROVE  Row(f, i) = Row(s, i)
    <2>1. i - 1 \in 0 .. n /\ i \in 0 .. n /\ i \in Nat
      BY <1>1
    <2>2. PICK a \in Nat, c \in Nat : a = b[i - 1] /\ c = b[i]
      BY <2>1, <1>2
    <2>3. a < c /\ c \in 1 .. N /\ a + 0 = a /\ c + 0 = c
      BY <2>1, <2>2, <1>2, <1>3
    <2>4. /\ EndOfRow(s, i - 1) = a /\ EndOfRow(s, i) = c
          /\ EndOfRow(f, i - 1) = a + 0 /\ EndOfRow(f, i) = c + 0
      <3>1. EndOfRow(f, i - 1) = b[i - 1] /\ EndOfRow(f, i) = b[i]
        BY <2>1, <1>8, <1>11
      <3> QED
        BY <3>1, <2>1, <2>2, <2>3, <1>1
    <2>5. Slides(s, f, a, c, 0)
      <3>1. \A k \in a + 1 .. c - 1 : k \in 1 .. N /\ k + 0 = k
        BY <2>3
      <3>2. \A k \in a + 1 .. c - 1 : f[k + 0] = s[k]
        BY <3>1, <1>g
      <3>3. c <= Len(s) /\ c - 1 + 0 <= Len(f)
        BY <2>3, <1>f
      <3> QED
        BY <3>2, <3>3, <2>3 DEF Slides
    <2> QED
      BY <2>1, <2>4, <2>5, RowMoved
  <1>13. ASSUME NEW i \in n + 1 .. l - 1
         PROVE  Row(f, i) = <<>>
    <2>1. i - 1 \in n .. l - 1 /\ i \in n .. l - 1
      BY <1>1, <1>5
    <2>2. PICK a \in Nat : a = N + (i - 1 - n)
      BY <2>1, <1>1
    <2>3. N + (i - n) = a + 1 /\ a + 1 - 1 = a /\ a < a + 1
      BY <2>1, <2>2, <1>1
    <2>4. EndOfRow(f, i - 1) = a /\ EndOfRow(f, i) = a + 1
      <3>1. EndOfRow(f, i - 1) = B[i - 1] /\ EndOfRow(f, i) = B[i]
        BY <2>1, <1>8, <1>11
      <3> QED
        BY <3>1, <2>1, <2>2, <2>3, <1>8
    <2>5. Row(f, i) = SubSeq(f, a + 1, a)
      BY <2>3, <2>4 DEF Row
    <2> QED
      BY <2>3, <2>5, SubSeqEmpty
  <1>14. Row(f, l) = Behind(<<>>, body)
    <2>1. PICK a \in Nat, c \in Nat : a = N + g /\ c = a + m
      OBVIOUS
    <2>2. EndOfRow(f, l - 1) = a /\ EndOfRow(f, l) = c + 1
      <3>1. l - 1 \in n .. l - 1 /\ N + (l - 1 - n) = N + g
        BY <1>1, <1>5
      <3>2. EndOfRow(f, l - 1) = B[l - 1] /\ EndOfRow(f, l) = B[l]
        BY <3>1, <1>8, <1>11
      <3> QED
        BY <3>1, <3>2, <2>1, <1>8
    <2>3. Row(f, l) = SubSeq(f, a + 1, c)
      <3>1. PICK w \in Nat : w = c + 1 /\ w - 1 = c
        OBVIOUS
      <3>2. Row(f, l) = SubSeq(f, a + 1, w - 1)
        BY <3>1, <2>2 DEF Row
      <3> QED
        BY ONLY <3>1, <3>2
    <2> DEFINE v == SubSeq(f, a + 1, c)
    <2>4. /\ v \in Seq(Symbols) /\ Len(v) = m
          /\ \A i \in 1 .. m : v[i] = f[a + i]
      <3>1. a <= c /\ c <= Len(f) /\ c - a = m
        BY <2>1, <1>f
      <3> QED
        BY <3>1, SliceOf
    <2> HIDE DEF v
    <2>5. body \in Seq(Symbols) /\ \A i \in 1 .. m : v[i] = body[i]
      BY <2>1, <2>4, <1>f, <1>g DEF IsLine
    <2>6. v = body
      BY <2>4, <2>5, SeqEqual, <1>f
    <2>7. <<>> \o body = body
      BY <2>5, ConcatEmptySeq
    <2> QED
      BY <2>3, <2>6, <2>7 DEF v, Behind
  <1>15. f # <<>> /\ f[Len(f)] = NL
    <2>1. Len(f) # 0
      BY <1>f
    <2> QED
      BY <2>1, EmptySeq, <1>f, <1>g
  <1>16. ASSUME NEW i \in 1 .. l
         PROVE  Row(f, i) = IF i = l THEN Behind(RowAt(s, l), body) ELSE RowAt(s, i)
    <2>1. i \in 1 .. n \/ i \in n + 1 .. l - 1 \/ i = l
      BY <1>1, <1>5
    <2>2. CASE i \in 1 .. n
      BY <2>2, <1>1, <1>5, <1>12, <1>f DEF RowAt
    <2>3. CASE i \in n + 1 .. l - 1
      BY <2>3, <1>1, <1>5, <1>13, <1>f DEF RowAt
    <2>4. CASE i = l
      <3>1. RowAt(s, l) = <<>>
        BY <1>1, <1>5, <1>f DEF RowAt
      <3> QED
        BY <3>1, <2>4, <1>14
    <2> QED
      BY <2>1, <2>2, <2>3, <2>4
  <1> QED
    BY <1>1, <1>5, <1>11, <1>15, <1>16, <1>f, <1>g DEF AddedTo, WholeRows

\* A line added to the file.
LEMMA FileGrows ==
  ASSUME file \in Seq(Symbols), NEW c \in Consumer, outbuf[c] = file, WholeRows(file),
         NEW data, NEW body, IsLine(data, body), NEW l \in Nat \ {0}
  PROVE  AddedTo(AddToRow(data, l, c), file, l, body) /\ WholeRows(AddToRow(data, l, c))
  <1> DEFINE f == AddToRow(data, l, c)
  <1>1. /\ Len(file) \in Nat /\ Len(data) \in Nat /\ RowCount(file) \in Nat /\ data \in Seq(Symbols)
        /\ f \in Seq(Symbols) /\ Len(data) # 0
    <2>1. data \in Seq(Symbols) /\ body \in Seq(Symbols) /\ Len(data) = Len(body) + 1
      BY DEF IsLine
    <2>2. f \in Seq(Symbols)
      BY <2>1, AddToRowType
    <2>3. Len(file) \in Nat /\ RowCount(file) \in Nat
      BY LenProperties, EndsFinite
    <2>4. Len(body) \in Nat
      BY <2>1, LenProperties
    <2> HIDE DEF f
    <2> QED
      BY <2>1, <2>2, <2>3, <2>4
  <1>2. CASE RowCount(file) >= l
    <2> DEFINE e == EndOfRow(file, l)
               a == SubSeq(file, 1, e - 1)
               rest == Drop(file, e)
    <2>1. l \in 1 .. RowCount(file) /\ e \in 1 .. Len(file)
      <3>1. l \in 1 .. RowCount(file)
        BY <1>1, <1>2
      <3> QED
        BY <3>1, RowEnd DEF Ends
    <2>2. e - 1 \in 0 .. Len(file) /\ e \in 0 .. Len(file)
      BY <1>1, <2>1
    <2>3. f = Overwrite(file, e - 1, data \o rest)
      BY <1>2 DEF AddToRow
    <2> HIDE DEF e, f
    <2>4. a \in Seq(Symbols) /\ rest \in Seq(Symbols) /\ Len(rest) = Len(file) - e
      BY <2>2, Cut
    <2> HIDE DEF a, rest
    <2>5. data \o rest \in Seq(Symbols) /\ Len(data \o rest) = Len(data) + Len(rest)
      BY <1>1, <2>4, ConcatProperties
    <2>6. Len(data \o rest) + (e - 1) >= Len(file)
      BY <1>1, <2>1, <2>4, <2>5
    <2>7. f = a \o (data \o rest)
      <3> DEFINE z == data \o rest
      <3>1. z \in Seq(Symbols) /\ Len(z) + (e - 1) >= Len(file)
        BY <2>5, <2>6
      <3>2. f = Overwrite(file, e - 1, z)
        BY <2>3
      <3> HIDE DEF z
      <3>3. Overwrite(file, e - 1, z) = SubSeq(file, 1, e - 1) \o z
        BY ONLY file \in Seq(Symbols), <2>2, <3>1, OverwriteType
      <3> QED
        BY <3>2, <3>3 DEF z, a
    <2>8. a \o (data \o rest) = (a \o data) \o rest
      <3>1. a \in Seq(Symbols) /\ data \in Seq(Symbols) /\ rest \in Seq(Symbols)
        BY <1>1, <2>4
      <3> QED
        BY ONLY <3>1, ConcatAssociative, SMTT(30)
    <2>9. MadeOf(f, a, data, rest)
      <3>1. MadeOf((a \o data) \o rest, a, data, rest)
        BY <1>1, <2>4, Pieces
      <3>2. f = (a \o data) \o rest
        BY <2>7, <2>8
      <3> QED
        BY ONLY <3>1, <3>2
    <2>10. MadeOf(f, SubSeq(file, 1, EndOfRow(file, l) - 1), data, Drop(file, EndOfRow(file, l)))
      BY <2>9 DEF a, rest, e
    <2>11. AddedTo(f, file, l, body) /\ WholeRows(f)
      BY <1>1, <2>1, <2>10, RowGrows
    <2> QED
      BY <2>11 DEF f
  <1>3. CASE RowCount(file) < l
    <2>0. PICK n \in Nat, N \in Nat, g \in Nat, m \in Nat :
            /\ n = RowCount(file) /\ N = Len(file) /\ m = Len(body) /\ l = n + g + 1
            /\ Len(data) = m + 1 /\ l - 1 - n = g
      <3>1. l - 1 - RowCount(file) \in Nat /\ l = RowCount(file) + (l - 1 - RowCount(file)) + 1
        BY <1>1, <1>3
      <3>2. Len(body) \in Nat /\ Len(data) = Len(body) + 1
        BY LenProperties DEF IsLine
      <3> QED
        BY <1>1, <3>1, <3>2
    <2> DEFINE blank == [i \in 1 .. g |-> NL]
    <2>1. blank \in Seq(Symbols) /\ Len(blank) = g /\ \A k \in 1 .. g : blank[k] = NL
      <3>1. blank \in [1 .. g -> Symbols] /\ DOMAIN blank = 1 .. g
        BY SymbolFacts
      <3>2. blank \in Seq(Symbols)
        BY <3>1, SeqDef
      <3>3. Len(blank) = g
        BY <3>1, <3>2, LenProperties
      <3> QED
        BY <3>2, <3>3
    <2>2. f = Overwrite(file, Len(file), blank \o data)
      <3>1. ~(RowCount(outbuf[c]) >= l)
        BY <1>1, <1>3
      <3> QED
        BY <2>0, <3>1 DEF AddToRow
    <2> HIDE DEF blank, f
    <2>3. blank \o data \in Seq(Symbols) /\ Len(blank \o data) \in Nat
      BY <1>1, <2>1, ConcatProperties, LenProperties
    <2>4. f = file \o (blank \o data)
      <3> DEFINE z == blank \o data
      <3>1. z \in Seq(Symbols) /\ Len(z) + Len(file) >= Len(file) /\ Len(file) \in 0 .. Len(file)
        <4>1. z \in Seq(Symbols) /\ Len(z) \in Nat
          BY <2>3
        <4> HIDE DEF z
        <4> QED
          BY <4>1, <1>1
      <3>2. f = Overwrite(file, Len(file), z)
        BY <2>2
      <3> HIDE DEF z
      <3>3. Overwrite(file, Len(file), z) = SubSeq(file, 1, Len(file)) \o z
        BY ONLY file \in Seq(Symbols), <3>1, OverwriteType
      <3>4. SubSeq(file, 1, Len(file)) = file
        BY SubSeqFull
      <3> QED
        BY <3>2, <3>3, <3>4 DEF z
    <2>5. MadeOf(f, file, blank, data)
      <3>1. file \o (blank \o data) = (file \o blank) \o data
        <4>1. file \in Seq(Symbols) /\ blank \in Seq(Symbols) /\ data \in Seq(Symbols)
          BY <1>1, <2>1
        <4> QED
          BY ONLY <4>1, ConcatAssociative, SMTT(30)
      <3>2. MadeOf((file \o blank) \o data, file, blank, data)
        BY <1>1, <2>1, Pieces
      <3>3. f = (file \o blank) \o data
        BY <2>4, <3>1
      <3> QED
        BY ONLY <3>2, <3>3
    <2>6. Appended(f, file, n, N, g, m, data, body)
      <3>1. /\ Len(f) = N + g + (m + 1)
            /\ \A k \in 1 .. N : f[k] = file[k]
            /\ \A k \in 1 .. g : f[N + k] = NL
            /\ \A k \in 1 .. m + 1 : f[N + g + k] = data[k]
        BY <2>0, <2>1, <2>5, ZenonT(40) DEF MadeOf
      <3>2. /\ data[m + 1] = NL /\ \A k \in 1 .. m : data[k] = body[k]
        BY <2>0 DEF IsLine
      <3>3. /\ N + g + (m + 1) = N + g + m + 1 /\ m + 1 \in 1 .. m + 1
            /\ \A k \in 1 .. m : k \in 1 .. m + 1
            /\ \A k \in N + 1 .. N + g : k - N \in 1 .. g /\ N + (k - N) = k
        OBVIOUS
      <3>4. /\ \A k \in 1 .. m : f[N + g + k] = body[k]
            /\ f[N + g + (m + 1)] = NL
        BY <3>1, <3>2, <3>3
      <3>5. \A k \in N + 1 .. N + g : f[k] = NL
        BY <3>1, <3>3
      <3>6. Len(f) = N + g + m + 1 /\ f[N + g + m + 1] = NL
        BY <3>1, <3>3, <3>4
      <3> QED
        BY <2>0, <3>1, <3>4, <3>5, <3>6 DEF Appended
    <2>7. AddedTo(f, file, l, body) /\ WholeRows(f)
      BY <1>1, <2>0, <2>6, RowAppended
    <2> QED
      BY <2>7 DEF f
  <1> QED
    BY <1>1, <1>2, <1>3

-----------------------------------------------------------------------------
(***************************************************************************)
(* The blocks of a text of one line, and the messages made of them.        *)
(***************************************************************************)

\* A text up to its newline.
LEMMA Chomping ==
  ASSUME OneLine, NEW p \in Producer, NEW t, t = Text[p], NEW v, v = Chomped(t)
  PROVE  /\ t \in Seq(Symbols) /\ v \in Seq(Symbols) /\ Len(t) \in Nat /\ Len(v) \in Nat
         /\ \A i \in 1 .. Len(v) : i \in 1 .. Len(t) /\ v[i] = t[i] /\ t[i] # NL
         /\ \/ Len(v) = Len(t) /\ \A i \in 1 .. Len(t) : t[i] # NL
            \/ Len(v) = Len(t) - 1 /\ t[Len(t)] = NL
  <1>1. t \in Seq(Symbols) /\ Len(t) \in Nat
    BY TextAssumption, LenProperties
  <1>2. \A i \in 1 .. Len(t) : t[i] = NL => i = Len(t)
    BY DEF OneLine
  <1>3. CASE t # <<>> /\ t[Len(t)] = NL
    <2>1. Len(t) # 0
      BY <1>1, <1>3, EmptySeq
    <2>2. v = SubSeq(t, 1, Len(t) - 1) /\ Len(t) - 1 \in 0 .. Len(t)
      BY <1>1, <1>3, <2>1 DEF Chomped
    <2>3. /\ v \in Seq(Symbols) /\ Len(v) = Len(t) - 1
          /\ \A i \in 1 .. Len(t) - 1 : v[i] = t[i]
      BY <1>1, <2>2, Cut
    <2> QED
      BY <1>1, <1>2, <1>3, <2>1, <2>3
  <1>4. CASE ~(t # <<>> /\ t[Len(t)] = NL)
    <2>1. v = t
      BY <1>4 DEF Chomped
    <2>2. \A i \in 1 .. Len(t) : t # <<>>
      BY <1>1, EmptySeq
    <2>3. \A i \in 1 .. Len(t) : t[i] # NL
      BY <1>2, <1>4, <2>2
    <2> QED
      BY <1>1, <2>1, <2>3
  <1> QED
    BY <1>3, <1>4

\* Where the block of a message ends in the text, and what the message is.
CutAt(p, k, t, v, u, x) ==
  /\ u \in Nat /\ k * BLOCK <= u /\ u <= Len(v) /\ u = Least(k * BLOCK + BLOCK, Len(v))
  /\ Len(x) = u - k * BLOCK + 2
  /\ x[1] = Mark(Line[p])
  /\ \A i \in 1 .. u - k * BLOCK : x[i + 1] = t[k * BLOCK + i]
  /\ x[Len(x)] = NL

\* A message holds a block of the text, without the newline that ends it.
LEMMA BlockOfText ==
  ASSUME OneLine, NEW p \in Producer, NEW t, t = Text[p], NEW v, v = Chomped(t),
         NEW k \in Nat, k * BLOCK < Len(t)
  PROVE  Message(p, k * BLOCK) \in Seq(Symbols) /\ \E u : CutAt(p, k, t, v, u, Message(p, k * BLOCK))
  <1>1. PICK n \in Nat : n = k * BLOCK
    BY SizesAssumption
  <1>2. /\ t \in Seq(Symbols) /\ v \in Seq(Symbols) /\ Len(t) \in Nat /\ Len(v) \in Nat
        /\ \A i \in 1 .. Len(v) : i \in 1 .. Len(t) /\ v[i] = t[i] /\ t[i] # NL
        /\ \/ Len(v) = Len(t) /\ \A i \in 1 .. Len(t) : t[i] # NL
           \/ Len(v) = Len(t) - 1 /\ t[Len(t)] = NL
    BY Chomping
  <1>3. PICK m \in Nat : /\ m = Least(n + BLOCK, Len(t)) /\ n < m /\ m <= Len(t)
                         /\ (m = n + BLOCK \/ (m = Len(t) /\ Len(t) <= n + BLOCK))
    BY <1>1, <1>2, SizesAssumption DEF Least
  <1> DEFINE block == SubSeq(t, n + 1, m)
             end == IF block[Len(block)] = NL THEN <<>> ELSE <<NL>>
             x == (<<Mark(Line[p])>> \o block) \o end
  <1>4. Message(p, k * BLOCK) = x
    BY <1>1, <1>3 DEF Message
  <1>5. /\ block \in Seq(Symbols) /\ Len(block) = m - n
        /\ \A i \in 1 .. m - n : block[i] = t[n + i]
    BY <1>2, <1>3, SliceOf
  <1>6. block[Len(block)] = t[m]
    <2> HIDE DEF block
    <2>1. m - n \in 1 .. m - n /\ n + (m - n) = m
      BY <1>3
    <2> QED
      BY <2>1, <1>5
  <1>7. /\ end \in Seq(Symbols) /\ Len(end) = IF t[m] = NL THEN 0 ELSE 1
        /\ t[m] # NL => end[1] = NL
    <2>1. CASE t[m] = NL
      <3>1. end = <<>>
        BY <2>1, <1>6
      <3> HIDE DEF end
      <3> QED
        BY <3>1, <2>1
    <2>2. CASE t[m] # NL
      <3>1. end = <<NL>>
        BY <2>2, <1>6
      <3> HIDE DEF end
      <3> QED
        BY <3>1, <2>2, SymbolFacts
    <2> QED
      BY <2>1, <2>2
  <1>8. <<Mark(Line[p])>> \in Seq(Symbols) /\ Len(<<Mark(Line[p])>>) = 1
        /\ <<Mark(Line[p])>>[1] = Mark(Line[p])
    BY SymbolFacts
  <1> HIDE DEF block, end
  <1>9. x \in Seq(Symbols) /\ MadeOf(x, <<Mark(Line[p])>>, block, end)
    BY <1>5, <1>7, <1>8, Pieces
  <1> HIDE DEF x
  <1>10. /\ Len(x) = 1 + (m - n) + Len(end)
         /\ x[1] = Mark(Line[p])
         /\ \A i \in 1 .. m - n : x[1 + i] = t[n + i]
         /\ \A i \in 1 .. Len(end) : x[1 + (m - n) + i] = end[i]
    <2> DEFINE a == <<Mark(Line[p])>>
    <2>1. Len(a) = 1 /\ a[1] = Mark(Line[p]) /\ MadeOf(x, a, block, end)
      BY <1>8, <1>9
    <2> HIDE DEF a
    <2>2. /\ Len(x) = 1 + (m - n) + Len(end)
          /\ \A i \in 1 .. 1 : x[i] = a[i]
          /\ \A i \in 1 .. m - n : x[1 + i] = block[i]
          /\ \A i \in 1 .. Len(end) : x[1 + (m - n) + i] = end[i]
      BY <2>1, <1>5 DEF MadeOf
    <2>3. x[1] = Mark(Line[p])
      BY <2>1, <2>2
    <2>4. \A i \in 1 .. m - n : x[1 + i] = t[n + i]
      BY <2>2, <1>5
    <2> QED
      BY ONLY <2>2, <2>3, <2>4
  <1>11. CASE t[m] = NL
    <2>1. m = Len(t) /\ Len(v) = m - 1
      BY <1>2, <1>3, <1>11
    <2>2. PICK u \in Nat : u = m - 1
      BY <1>3
    <2>3. n <= u /\ u <= Len(v) /\ u = Least(n + BLOCK, Len(v))
      BY <1>3, <2>1, <2>2, SizesAssumption DEF Least
    <2>4. Len(x) = u - n + 2 /\ Len(x) = 1 + (m - n) /\ n + (m - n) = m
      BY <1>3, <1>7, <1>10, <1>11, <2>2
    <2>5. x[Len(x)] = NL
      <3>1. m - n \in 1 .. m - n
        BY <1>3
      <3>2. x[1 + (m - n)] = t[n + (m - n)]
        BY <3>1, <1>10
      <3>3. x[Len(x)] = t[n + (m - n)]
        BY ONLY <3>2, <2>4
      <3>4. t[n + (m - n)] = t[m]
        BY ONLY <2>4
      <3> QED
        BY ONLY <3>3, <3>4, <1>11
    <2>6. \A i \in 1 .. u - n : i \in 1 .. m - n /\ 1 + i = i + 1
      BY <2>2, <1>3
    <2>7. \A i \in 1 .. u - n : x[i + 1] = t[n + i]
      BY <2>6, <1>10
    <2> QED
      BY <2>3, <2>4, <2>5, <2>7, <1>1, <1>4, <1>9, <1>10 DEF CutAt
  <1>12. CASE t[m] # NL
    <2>1. m <= Len(v) /\ m = Least(n + BLOCK, Len(v))
      BY <1>2, <1>3, <1>12, SizesAssumption DEF Least
    <2>2. Len(x) = m - n + 2 /\ Len(x) = 1 + (m - n) + 1 /\ Len(end) = 1
      BY <1>3, <1>7, <1>10, <1>12
    <2>3. x[Len(x)] = NL
      <3>1. x[1 + (m - n) + 1] = end[1]
        BY <1>10, <2>2
      <3> QED
        BY <3>1, <2>2, <1>7, <1>12
    <2>4. \A i \in 1 .. m - n : x[i + 1] = t[n + i]
      <3>1. \A i \in 1 .. m - n : i + 1 = 1 + i
        BY <1>3
      <3> QED
        BY <3>1, <1>10
    <2>5. CutAt(p, k, t, v, m, x)
      <3>1. x[1] = Mark(Line[p]) /\ n <= m
        BY <1>3, <1>10
      <3> QED
        BY ONLY <2>1, <2>2, <2>3, <2>4, <3>1, <1>1, m \in Nat DEF CutAt
    <2> QED
      BY <2>5, <1>4, <1>9
  <1> QED
    BY <1>11, <1>12

\* What a message adds to the row of its producer.
LEMMA BlockAdded ==
  ASSUME OneLine, NEW p \in Producer, NEW k \in Nat, k * BLOCK < Len(Text[p]),
         NEW x, x = Message(p, k * BLOCK)
  PROVE  /\ k \in 0 .. Len(Chomped(Text[p])) /\ x[1] = Mark(Line[p]) /\ k + 1 \in Nat
         /\ \E body : /\ IsLine(SubSeq(x, 2, Len(x)), body)
                      /\ Behind(Log!Blocks(p, k), body) = Log!Blocks(p, k + 1)
  <1>1. PICK t, v : t = Text[p] /\ v = Chomped(t)
    OBVIOUS
  <1>2. /\ t \in Seq(Symbols) /\ v \in Seq(Symbols) /\ Len(t) \in Nat /\ Len(v) \in Nat
        /\ \A i \in 1 .. Len(v) : i \in 1 .. Len(t) /\ v[i] = t[i] /\ t[i] # NL
        /\ \/ Len(v) = Len(t) /\ \A i \in 1 .. Len(t) : t[i] # NL
           \/ Len(v) = Len(t) - 1 /\ t[Len(t)] = NL
    BY <1>1, Chomping
  <1>3. PICK n \in Nat : n = k * BLOCK /\ n + BLOCK = (k + 1) * BLOCK /\ k <= n
    <2>1. k * BLOCK \in Nat /\ k * BLOCK + BLOCK = (k + 1) * BLOCK
      BY SizesAssumption
    <2>2. k <= k * BLOCK
      BY SizesAssumption
    <2> QED
      BY <2>1, <2>2
  <1>4. x \in Seq(Symbols) /\ \E u : CutAt(p, k, t, v, u, x)
    BY <1>1, BlockOfText
  <1>5. PICK u : CutAt(p, k, t, v, u, x)
    BY <1>4
  <1>6. /\ u \in Nat /\ n <= u /\ u <= Len(v) /\ u = Least(n + BLOCK, Len(v))
        /\ Len(x) = u - n + 2
        /\ x[1] = Mark(Line[p])
        /\ \A i \in 1 .. u - n : x[i + 1] = t[n + i]
        /\ x[Len(x)] = NL
    BY <1>3, <1>5 DEF CutAt
  <1>7. k \in 0 .. Len(v)
    BY <1>2, <1>3, <1>6
  <1> DEFINE data == SubSeq(x, 1 + 1, Len(x))
             body == SubSeq(v, n + 1, u)
  <1>8. /\ data \in Seq(Symbols) /\ Len(data) = Len(x) - 1
        /\ \A i \in 1 .. Len(x) - 1 : data[i] = x[1 + i]
    <2>1. Len(x) \in Nat /\ 1 <= Len(x)
      BY <1>6
    <2> QED
      BY <1>4, <2>1, SliceOf
  <1>9. /\ body \in Seq(Symbols) /\ Len(body) = u - n
        /\ \A i \in 1 .. u - n : body[i] = v[n + i]
    <2>1. v \in Seq(Symbols) /\ n \in Nat /\ u \in Nat /\ n <= u /\ u <= Len(v)
      BY <1>2, <1>6
    <2> QED
      BY ONLY <2>1, SliceOf
  <1> HIDE DEF data, body
  <1>10. IsLine(data, body)
    <2>1. Len(data) = Len(body) + 1 /\ Len(data) = u - n + 1 /\ Len(x) - 1 = u - n + 1
      <3>1. /\ Len(data) = Len(x) - 1 /\ Len(body) = u - n /\ Len(x) = u - n + 2
            /\ u \in Nat /\ n \in Nat
        BY <1>6, <1>8, <1>9
      <3> QED
        BY ONLY <3>1
    <2>2. ASSUME NEW i \in 1 .. Len(body)
          PROVE  data[i] = body[i] /\ body[i] # NL
      <3>1. i \in 1 .. u - n /\ i \in 1 .. Len(x) - 1 /\ 1 + i = i + 1 /\ n + i \in 1 .. Len(v)
        <4>1. i \in 1 .. u - n
          BY <1>9
        <4>2. n \in Nat /\ u \in Nat /\ u <= Len(v) /\ Len(v) \in Nat
          BY <1>2, <1>6
        <4>3. Len(x) = u - n + 2
          BY <1>6
        <4> QED
          BY ONLY <4>1, <4>2, <4>3
      <3>2. data[i] = x[i + 1] /\ x[i + 1] = t[n + i] /\ body[i] = v[n + i]
        BY <3>1, <1>6, <1>8, <1>9
      <3>3. v[n + i] = t[n + i] /\ t[n + i] # NL
        BY <3>1, <1>2
      <3> QED
        BY <3>2, <3>3
    <2>3. data[Len(body) + 1] = NL
      <3>1. Len(x) - 1 \in 1 .. Len(x) - 1 /\ 1 + (Len(x) - 1) = Len(x) /\ Len(body) + 1 = Len(x) - 1
        BY <1>6, <1>9
      <3>2. data[Len(x) - 1] = x[1 + (Len(x) - 1)]
        BY <3>1, <1>8
      <3> QED
        BY <3>1, <3>2, <1>6
    <2> QED
      BY <2>1, <2>2, <2>3, <1>8, <1>9 DEF IsLine
  <1>11. Log!Blocks(p, k) = SubSeq(v, 1, n)
    <2>1. Log!Least(n, Len(v)) = n
      BY <1>2, <1>6 DEF Log!Least
    <2> QED
      BY <2>1, <1>1, <1>3 DEF Log!Blocks
  <1>12. Log!Blocks(p, k + 1) = SubSeq(v, 1, u)
    <2>1. Log!Least(n + BLOCK, Len(v)) = u
      BY <1>6 DEF Log!Least, Least
    <2> QED
      BY <2>1, <1>1, <1>3 DEF Log!Blocks
  <1>13. SubSeq(v, 1, n) \o body = SubSeq(v, 1, u)
    <2>1. 1 \in 1 .. Len(v) + 1 /\ n \in 1 - 1 .. Len(v) /\ u \in n .. Len(v)
      BY <1>2, <1>6
    <2> QED
      BY <1>2, <2>1, ConcatAdjacentSubSeq DEF body
  <1>14. SubSeq(x, 2, Len(x)) = data
    BY DEF data
  <1> QED
    <2>1. IsLine(SubSeq(x, 2, Len(x)), body)
      BY ONLY <1>10, <1>14
    <2>2. Behind(Log!Blocks(p, k), body) = Log!Blocks(p, k + 1)
      BY ONLY <1>11, <1>12, <1>13 DEF Behind
    <2>3. k \in 0 .. Len(Chomped(Text[p])) /\ k + 1 \in Nat
      BY <1>1, <1>7
    <2> QED
      BY <2>1, <2>2, <2>3, <1>6

-----------------------------------------------------------------------------
(***************************************************************************)
(* The invariant: types, locks, and where the messages are.                *)
(***************************************************************************)
ProducerLabel ==
  {"start", "open", "read", "lock", "poll", "write", "unlock", "done", "killed"}
ConsumerLabel ==
  {"start", "open", "lock", "fetch", "load", "store", "unlock", "close", "bad", "done", "failed"}

Labels ==
  /\ pc \in [Process -> ProducerLabel \cup ConsumerLabel]
  /\ \A p \in Producer : pc[p] \in ProducerLabel
  /\ \A c \in Consumer : pc[c] \in ConsumerLabel

Types ==
  /\ Labels
  /\ met \subseteq Process /\ apart \in BOOLEAN /\ torn \in BOOLEAN
  /\ pipelock \in Producer \cup {None} /\ filelock \in Consumer \cup {None}
  /\ pipe \in Seq(Symbols) /\ Len(pipe) <= PIPE
  /\ file \in Seq(Symbols)
  /\ pos \in [Producer -> Nat]
  /\ out \in [Producer -> Seq(Symbols)]
  /\ buf \in [Consumer -> Seq(Symbols)]
  /\ outbuf \in [Consumer -> Seq(Symbols)]

\* Who holds a lock.
Locks ==
  /\ \A p \in Producer : pc[p] \in {"poll", "write", "unlock"} <=> pipelock = p
  /\ \A c \in Consumer :
       /\ pc[c] \in {"fetch", "load", "store", "unlock"} => filelock = c
       /\ filelock = c =>
            pc[c] \in {"fetch", "load", "store", "unlock", "close", "bad"}

\* A producer is between two blocks of its text, with a message to write or
\* the rest of one.
Writing ==
  \A p \in Producer :
    /\ pos[p] = Len(Text[p]) \/ (pos[p] < Len(Text[p]) /\ \E k \in Nat : pos[p] = k * BLOCK)
    /\ Len(out[p]) <= BLOCK + 2
    /\ pc[p] \in {"lock", "poll"} => IsMessage(out[p])
    /\ pc[p] = "write" => out[p] # <<>>

\* A consumer has the beginning of a line, or at least one line; while it
\* changes the file it has seen all of it.
Reading ==
  \A c \in Consumer :
    /\ Len(buf[c]) <= BLOCK + 2
    /\ pc[c] = "fetch" /\ buf[c] # <<>> => buf[c][Len(buf[c])] # NL
    /\ pc[c] \in {"load", "store"} =>
         buf[c] # <<>> /\ buf[c][Len(buf[c])] = NL /\ (~torn => IsMessage(buf[c]))
    /\ pc[c] = "store" => IsMark(buf[c][1]) /\ outbuf[c] = file
    /\ pc[c] \in {"start", "open", "lock", "unlock"} => buf[c] = <<>>
    /\ pc[c] = "bad" => torn

\* What the producer in turn has still to write, what the consumer in turn has got.
Rest == IF pipelock \in Producer /\ pc[pipelock] = "write" THEN out[pipelock] ELSE <<>>
Got == IF filelock \in Consumer /\ pc[filelock] = "fetch" THEN buf[filelock] ELSE <<>>

\* All that is on its way from the one to the other.
Chan == (Got \o pipe) \o Rest

Channel == ~torn => Chan = <<>> \/ IsMessage(Chan)

\* No mark in the file.
Clean == \A k \in 1 .. Len(file) : IsMark(file[k]) => torn

IInv == Types /\ Locks /\ Writing /\ Reading /\ Channel /\ Clean

-----------------------------------------------------------------------------
(***************************************************************************)
(* The invariant holds at first, and each action keeps it.                 *)
(***************************************************************************)

\* A process goes to another label.
LEMMA Moves ==
  ASSUME Labels, NEW p \in Process, NEW l, Goto(p, l),
         p \in Producer => l \in ProducerLabel, p \in Consumer => l \in ConsumerLabel
  PROVE  /\ Labels'
         /\ pc'[p] = l /\ \A q \in Process : q # p => pc'[q] = pc[q]
         /\ p \in Producer => \A c \in Consumer : pc'[c] = pc[c]
         /\ p \in Consumer => \A q \in Producer : pc'[q] = pc[q]
  <1>1. pc'[p] = l /\ \A q \in Process : q # p => pc'[q] = pc[q]
    BY DEF Labels, Goto
  <1>2. l \in ProducerLabel \cup ConsumerLabel
    BY DEF Process
  <1>3. pc' \in [Process -> ProducerLabel \cup ConsumerLabel]
    BY <1>2 DEF Labels, Goto
  <1>4. /\ \A q \in Producer : pc'[q] \in ProducerLabel
        /\ \A c \in Consumer : pc'[c] \in ConsumerLabel
    BY <1>1 DEF Labels, Process
  <1> QED
    BY <1>1, <1>3, <1>4, ProcessAssumption DEF Labels, Process

\* The same for a producer, which leaves the consumers where they are.
LEMMA ProducerMoves ==
  ASSUME Labels, NEW p \in Producer, NEW l \in ProducerLabel, Goto(p, l)
  PROVE  /\ Labels' /\ p \in Process
         /\ pc'[p] = l /\ \A q \in Process : q # p => pc'[q] = pc[q]
         /\ \A c \in Consumer : pc'[c] = pc[c]
  <1>1. p \in Process /\ p \notin Consumer
    BY ProcessAssumption DEF Process
  <1> QED
    BY <1>1, Moves

\* The same for a consumer, which leaves the producers where they are.
LEMMA ConsumerMoves ==
  ASSUME Labels, NEW c \in Consumer, NEW l \in ConsumerLabel, Goto(c, l)
  PROVE  /\ Labels' /\ c \in Process
         /\ pc'[c] = l /\ \A q \in Process : q # c => pc'[q] = pc[q]
         /\ \A p \in Producer : pc'[p] = pc[p]
  <1>1. c \in Process /\ c \notin Producer
    BY ProcessAssumption DEF Process
  <1> QED
    BY <1>1, Moves

\* Who can be the producer or the consumer in turn.
LEMMA Turns ==
  ASSUME Types, Locks
  PROVE  /\ \A p \in Producer : pc[p] = "write" => Rest = out[p]
         /\ (\A p \in Producer : pc[p] # "write") => Rest = <<>>
         /\ \A c \in Consumer : pc[c] = "fetch" => Got = buf[c]
         /\ (\A c \in Consumer : pc[c] # "fetch") => Got = <<>>
         /\ Rest \in Seq(Symbols) /\ Got \in Seq(Symbols)
  <1>1. /\ \A p \in Producer : pc[p] = "write" => Rest = out[p]
        /\ (\A p \in Producer : pc[p] # "write") => Rest = <<>>
    BY DEF Locks, Rest
  <1>2. /\ \A c \in Consumer : pc[c] = "fetch" => Got = buf[c]
        /\ (\A c \in Consumer : pc[c] # "fetch") => Got = <<>>
    BY DEF Locks, Got
  <1>3. Rest \in Seq(Symbols) /\ Got \in Seq(Symbols)
    BY EmptySeq DEF Types, Rest, Got
  <1> QED
    BY <1>1, <1>2, <1>3

\* All is empty at first.
LEMMA Initially ==
  ASSUME Init PROVE IInv
  <1>1. Types
    <2>1. <<>> \in Seq(Symbols) /\ Len(<<>>) <= PIPE
      BY EmptySeq, SizesAssumption
    <2> QED
      BY <2>1 DEF Init, Types, Labels, ProducerLabel, ConsumerLabel, Process
  <1>2. Locks
    BY ProcessAssumption DEF Init, Locks, Process
  <1>3. Writing
    <2>1. \A p \in Producer : Len(Text[p]) \in Nat
      BY TextAssumption, LenProperties
    <2>2. 0 = 0 * BLOCK
      BY SizesAssumption
    <2> QED
      BY <2>1, <2>2, SizesAssumption, EmptySeq DEF Init, Writing, Process
  <1>4. Reading
    BY SizesAssumption, EmptySeq DEF Init, Reading, Process
  <1>5. Channel
    <2>1. Got = <<>> /\ Rest = <<>> /\ pipe = <<>>
      BY ProcessAssumption DEF Init, Got, Rest
    <2> QED
      BY <2>1, ConcatEmptySeq, EmptySeq DEF Channel, Chan
  <1>6. Clean
    BY EmptySeq DEF Init, Clean
  <1> QED
    BY <1>1, <1>2, <1>3, <1>4, <1>5, <1>6 DEF IInv

\* What is known of what the consumer in turn has got, of the FIFO and of what
\* the producer in turn has still to write.
LEMMA InTheChannel ==
  ASSUME Types, Locks, Channel, ~torn
  PROVE  /\ Len(Got) + Len(pipe) + Len(Rest) <= BLOCK + 2
         /\ Rest # <<>> /\ IsMark(Rest[1]) => Got = <<>> /\ pipe = <<>>
         /\ Got # <<>> /\ pipe = <<>> /\ Rest = <<>> => Got[Len(Got)] = NL
         /\ \A k \in 1 .. Len(Got) : IsMark(Got[k]) => k = 1
         /\ \A k \in 1 .. Len(pipe) : IsMark(pipe[k]) => k = 1 /\ Got = <<>>
  <1>1. Got \in Seq(Symbols) /\ pipe \in Seq(Symbols) /\ Rest \in Seq(Symbols)
    BY Turns DEF Types
  <1>2. (Got \o pipe) \o Rest = <<>> \/ IsMessage((Got \o pipe) \o Rest)
    BY DEF Channel, Chan
  <1> QED
    BY ONLY <1>1, <1>2, PiecesOfMessage

\* A producer or a consumer opens the FIFO.
LEMMA OpenFifoKeeps ==
  ASSUME IInv, NEW p \in Process, OpenFifo(p) \/ Opened(p)
  PROVE  IInv'
  <1> USE DEF IInv, Types
  <1> DEFINE l == IF pc[p] = "start" THEN "open" ELSE IF p \in Producer THEN "read" ELSE "lock"
  <1>1. /\ pc[p] \in {"start", "open"} /\ Goto(p, l)
        /\ UNCHANGED <<pipe, pipelock, filelock, file, pos, out, buf, outbuf, apart, torn>>
    BY DEF OpenFifo, Opened, At, io, producerVars, consumerVars, history
  <1>2. met' \subseteq Process
    BY DEF OpenFifo, Opened, Users, Peers, Process, io
  <1>3. /\ p \in Producer => l \in {"open", "read"}
        /\ p \in Consumer => l \in {"open", "lock"}
    BY ProcessAssumption
  <1> HIDE DEF l
  <1>4. /\ Labels'
        /\ pc'[p] = l /\ \A q \in Process : q # p => pc'[q] = pc[q]
    BY <1>1, <1>3, Moves DEF ProducerLabel, ConsumerLabel
  <1>5. Types'
    BY <1>1, <1>2, <1>4
  <1>6. Locks'
    BY <1>1, <1>3, <1>4 DEF Locks, Process
  <1>7. Writing'
    BY <1>1, <1>3, <1>4 DEF Writing, Process
  <1>8. Reading'
    BY <1>1, <1>3, <1>4 DEF Reading, Process
  <1>9. Got' = Got /\ Rest' = Rest
    BY <1>1, <1>3, <1>4 DEF Got, Rest, Process
  <1>10. Channel'
    BY <1>1, <1>9 DEF Channel, Chan
  <1>11. Clean'
    BY <1>1 DEF Clean
  <1> QED
    BY <1>5, <1>6, <1>7, <1>8, <1>10, <1>11

\* A producer takes a block of its text and makes a message of it.
LEMMA ReadBlockKeeps ==
  ASSUME LinesEndBlocks, IInv, NEW p \in Producer, ReadBlock(p)
  PROVE  IInv'
  <1> USE DEF IInv, Types
  <1>1. /\ pc[p] = "read" /\ pos[p] < Len(Text[p]) /\ Goto(p, "lock")
        /\ out' = [out EXCEPT ![p] = Message(p, pos[p])]
        /\ pos' = [pos EXCEPT ![p] = Least(pos[p] + BLOCK, Len(Text[p]))]
        /\ UNCHANGED <<met, pipe, pipelock, filelock, file, buf, outbuf, apart, torn>>
    BY DEF ReadBlock, At, io, consumerVars, history
  <1>2. /\ Labels' /\ p \in Process
        /\ pc'[p] = "lock" /\ \A q \in Process : q # p => pc'[q] = pc[q]
        /\ \A c \in Consumer : pc'[c] = pc[c]
    BY <1>1, ProducerMoves DEF ProducerLabel
  <1>3. Len(Text[p]) \in Nat /\ pos[p] \in Nat
    BY TextAssumption, LenProperties
  <1>4. PICK k \in Nat : pos[p] = k * BLOCK
    <2>1. pos[p] # Len(Text[p])
      BY <1>1, <1>3
    <2> QED
      BY <2>1 DEF Writing
  <1>5. IsMessage(Message(p, pos[p]))
    BY <1>1, <1>4, MessageMade
  <1>6. \/ pos'[p] = Len(Text[p])
        \/ pos'[p] < Len(Text[p]) /\ \E j \in Nat : pos'[p] = j * BLOCK
    <2>1. pos[p] + BLOCK = (k + 1) * BLOCK /\ k + 1 \in Nat
      BY <1>4, SizesAssumption
    <2>2. pos'[p] = Least(pos[p] + BLOCK, Len(Text[p]))
      BY <1>1
    <2>3. CASE pos[p] + BLOCK < Len(Text[p])
      BY <2>1, <2>2, <2>3 DEF Least
    <2>4. CASE ~(pos[p] + BLOCK < Len(Text[p]))
      BY <2>2, <2>4 DEF Least
    <2> QED
      BY <2>3, <2>4
  <1>7. Types'
    <2>1. pos' \in [Producer -> Nat]
      BY <1>1, <1>3, SizesAssumption DEF Least
    <2>2. out' \in [Producer -> Seq(Symbols)]
      BY <1>1, <1>5 DEF IsMessage
    <2> QED
      BY <1>1, <1>2, <2>1, <2>2
  <1>8. Locks'
    BY <1>1, <1>2 DEF Locks, Process
  <1>9. Writing'
    <2>1. out'[p] = Message(p, pos[p]) /\ \A q \in Producer : q # p => out'[q] = out[q] /\ pos'[q] = pos[q]
      BY <1>1
    <2>2. Len(out'[p]) <= BLOCK + 2
      BY <2>1, <1>5, SizesAssumption DEF IsMessage
    <2> QED
      BY <1>2, <1>5, <1>6, <2>1, <2>2 DEF Writing, Process
  <1>10. Reading'
    BY <1>1, <1>2 DEF Reading
  <1>11. Got' = Got /\ Rest' = Rest
    <2>1. Got' = Got
      BY <1>1, <1>2 DEF Got
    <2>2. pipelock # p
      BY <1>1 DEF Locks
    <2> QED
      BY <1>1, <1>2, <2>1, <2>2 DEF Rest, Process
  <1>12. Channel'
    BY <1>1, <1>11 DEF Channel, Chan
  <1>13. Clean'
    BY <1>1 DEF Clean
  <1> QED
    BY <1>7, <1>8, <1>9, <1>10, <1>12, <1>13

\* A producer takes the lock, or releases it.
LEMMA FifoLockKeeps ==
  ASSUME IInv, NEW p \in Producer, LockFifo(p) \/ UnlockFifo(p)
  PROVE  IInv'
  <1> USE DEF IInv, Types
  <1> DEFINE l == IF pc[p] = "lock" THEN "poll" ELSE "read"
  <1>1. /\ \/ pc[p] = "lock" /\ l = "poll" /\ pipelock = None /\ pipelock' = p
           \/ pc[p] = "unlock" /\ l = "read" /\ pipelock = p /\ pipelock' = None
        /\ Goto(p, l)
        /\ UNCHANGED <<met, pipe, filelock, file, pos, out, buf, outbuf, apart, torn>>
    BY DEF LockFifo, UnlockFifo, At, Locks, producerVars, consumerVars, history
  <1> HIDE DEF l
  <1>2. /\ Labels' /\ p \in Process
        /\ pc'[p] = l /\ \A q \in Process : q # p => pc'[q] = pc[q]
        /\ \A c \in Consumer : pc'[c] = pc[c]
    BY <1>1, ProducerMoves DEF ProducerLabel
  <1>3. Types'
    BY <1>1, <1>2
  <1>4. Locks'
    BY <1>1, <1>2, ProcessAssumption DEF Locks, Process
  <1>5. Writing'
    BY <1>1, <1>2 DEF Writing, Process
  <1>6. Reading'
    BY <1>1, <1>2 DEF Reading
  <1>7. Got' = Got /\ Rest' = Rest
    BY <1>1, <1>2, ProcessAssumption DEF Got, Rest, Process
  <1>8. Channel'
    BY <1>1, <1>7 DEF Channel, Chan
  <1>9. Clean'
    BY <1>1 DEF Clean
  <1> QED
    BY <1>3, <1>4, <1>5, <1>6, <1>8, <1>9

\* The consumer in turn has got nothing that could be the whole of a message.
LEMMA GotOpen ==
  ASSUME IInv
  PROVE  Got = <<>> \/ Got[Len(Got)] # NL
  BY DEF IInv, Reading, Got

\* A producer finds the FIFO empty and begins to write.
LEMMA FifoEmptyKeeps ==
  ASSUME IInv, NEW p \in Producer, FifoEmpty(p)
  PROVE  IInv' /\ (~torn => Chan = <<>> /\ Chan' = out[p])
  <1> USE DEF IInv, Types
  <1>1. /\ pc[p] = "poll" /\ pipe = <<>> /\ Goto(p, "write")
        /\ UNCHANGED <<met, pipe, pipelock, filelock, file, pos, out, buf, outbuf, apart, torn>>
    BY DEF FifoEmpty, At, io, producerVars, consumerVars, history
  <1>2. /\ Labels' /\ p \in Process
        /\ pc'[p] = "write" /\ \A q \in Process : q # p => pc'[q] = pc[q]
        /\ \A c \in Consumer : pc'[c] = pc[c]
    BY <1>1, ProducerMoves DEF ProducerLabel
  <1>3. Types'
    BY <1>1, <1>2
  <1>4. Locks'
    BY <1>1, <1>2 DEF Locks, Process
  <1>5. Writing'
    <2>1. out[p] # <<>>
      BY <1>1, EmptySeq DEF Writing, IsMessage
    <2> QED
      BY <1>1, <1>2, <2>1 DEF Writing, Process
  <1>6. Reading'
    BY <1>1, <1>2 DEF Reading
  <1>7. Got' = Got /\ Rest = <<>> /\ Rest' = out[p]
    BY <1>1, <1>2, ProcessAssumption DEF Got, Rest, Process, Locks
  <1>8. ~torn => Chan = <<>> /\ Chan' = out[p]
    <2> SUFFICES ASSUME ~torn PROVE Chan = <<>> /\ Chan' = out[p]
      OBVIOUS
    <2>1. Got \in Seq(Symbols) /\ pipe \in Seq(Symbols) /\ out[p] \in Seq(Symbols)
      BY Turns
    <2>2. Got # <<>> => Got[Len(Got)] = NL
      BY <1>1, <1>7, InTheChannel
    <2>3. Got = <<>>
      BY <2>2, GotOpen
    <2> QED
      BY <1>1, <1>7, <2>1, <2>3, ConcatEmptySeq DEF Chan
  <1>9. Channel'
    BY <1>1, <1>8 DEF Channel, Writing
  <1>10. Clean'
    BY <1>1 DEF Clean
  <1> QED
    BY <1>3, <1>4, <1>5, <1>6, <1>8, <1>9, <1>10

\* A producer puts what fits into the FIFO; it stays on its way.
LEMMA WriteKeeps ==
  ASSUME IInv, NEW p \in Producer, Write(p)
  PROVE  IInv' /\ Chan' = Chan
  <1> USE DEF IInv, Types
  <1> DEFINE n == Least(Len(out[p]), PIPE - Len(pipe))
             l == IF n = Len(out[p]) THEN "unlock" ELSE "write"
             a == SubSeq(out[p], 1, n)
             b == Drop(out[p], n)
  <1>1. /\ pc[p] = "write" /\ n > 0 /\ Goto(p, l)
        /\ pipe' = pipe \o a /\ out' = [out EXCEPT ![p] = b]
        /\ UNCHANGED <<met, pipelock, filelock, file, pos, buf, outbuf, apart, torn>>
    BY DEF Write, At, consumerVars, history
  <1>2. /\ pipe \in Seq(Symbols) /\ out[p] \in Seq(Symbols) /\ Got \in Seq(Symbols)
        /\ Rest = out[p]
    BY <1>1, Turns
  <1>3. /\ Len(pipe) \in Nat /\ Len(out[p]) \in Nat /\ n \in 1 .. Len(out[p])
        /\ Len(pipe) + n <= PIPE
    BY <1>1, <1>2, LenProperties, SizesAssumption DEF Least
  <1> HIDE DEF n
  <1>4. /\ a \in Seq(Symbols) /\ Len(a) = n
        /\ b \in Seq(Symbols) /\ Len(b) = Len(out[p]) - n
        /\ a \o b = out[p]
    <2>1. n \in 0 .. Len(out[p])
      BY <1>3
    <2> QED
      BY <1>2, <2>1, Cut
  <1>5. b = <<>> <=> l = "unlock"
    <2> HIDE DEF b
    <2>1. b = <<>> <=> Len(b) = 0
      BY <1>4, EmptySeq
    <2> QED
      BY <2>1, <1>3, <1>4
  <1>6. l \in {"unlock", "write"}
    OBVIOUS
  <1> HIDE DEF a, b, l
  <1>7. /\ Labels' /\ p \in Process
        /\ pc'[p] = l /\ \A q \in Process : q # p => pc'[q] = pc[q]
        /\ \A c \in Consumer : pc'[c] = pc[c]
    BY <1>1, <1>6, ProducerMoves DEF ProducerLabel
  <1>8. Types'
    <2>1. pipe' \in Seq(Symbols) /\ Len(pipe') <= PIPE
      BY <1>1, <1>2, <1>3, <1>4, ConcatProperties
    <2>2. out' \in [Producer -> Seq(Symbols)]
      BY <1>1, <1>4
    <2> QED
      BY <1>1, <1>7, <2>1, <2>2
  <1>9. Locks'
    BY <1>1, <1>6, <1>7 DEF Locks, Process
  <1>10. Writing'
    <2>1. out'[p] = b /\ \A q \in Producer : q # p => out'[q] = out[q]
      BY <1>1
    <2>2. Len(b) <= BLOCK + 2
      BY <1>3, <1>4, SizesAssumption DEF Writing
    <2> QED
      BY <1>1, <1>5, <1>6, <1>7, <2>1, <2>2 DEF Writing, Process
  <1>11. Reading'
    BY <1>1, <1>7 DEF Reading
  <1>12. Got' = Got /\ Rest' = b
    <2>1. Got' = Got
      BY <1>1, <1>7 DEF Got
    <2>2. pipelock' = p
      BY <1>1 DEF Locks
    <2> QED
      BY <1>1, <1>5, <1>6, <1>7, <2>1, <2>2 DEF Rest
  <1>13. Chan' = Chan
    <2>0. /\ Got \in Seq(Symbols) /\ pipe \in Seq(Symbols)
          /\ a \in Seq(Symbols) /\ b \in Seq(Symbols)
      BY <1>2, <1>4
    <2>1. Got \o (pipe \o a) = (Got \o pipe) \o a
      BY ONLY <2>0, ConcatAssociative, SMTT(30)
    <2>2. Got \o pipe \in Seq(Symbols)
      BY <1>2, ConcatProperties
    <2>3. ((Got \o pipe) \o a) \o b = (Got \o pipe) \o (a \o b)
      BY ONLY <2>0, <2>2, ConcatAssociative, SMTT(30)
    <2> QED
      BY <1>1, <1>2, <1>4, <1>12, <2>1, <2>3 DEF Chan
  <1>14. Channel'
    BY <1>1, <1>13 DEF Channel, Chan
  <1>15. Clean'
    BY <1>1 DEF Clean
  <1> QED
    BY <1>8, <1>9, <1>10, <1>11, <1>13, <1>14, <1>15

\* If one process is the last to have the FIFO open, nobody else reads or writes.
LEMMA LastUser ==
  ASSUME Labels, NEW p \in Process, Users(Process) = {p}, pc[p] \notin {"fetch", "write"}
  PROVE  \A q \in Process : pc[q] \notin {"fetch", "write"}
  BY DEF Users, Ended

\* A producer is killed, or has come to the end of its text.
LEMMA ProducerLeaves ==
  ASSUME IInv, NEW p \in Producer, BrokenPipe(p) \/ ProducerDone(p)
  PROVE  /\ IInv'
         /\ ~torn' => \/ Chan' = <<>> /\ (pc[p] = "write" \/ Users(Process) = {p})
                      \/ Chan' = Chan /\ pc[p] = "read"
  <1> USE DEF IInv, Types
  <1> DEFINE l == IF pc[p] = "write" THEN "killed" ELSE "done"
  <1>1. /\ \/ /\ pc[p] = "write" /\ l = "killed" /\ pipelock = p /\ pipelock' = None
              /\ Users(Consumer) = {}
              /\ torn' = (torn \/ (Users(Process) # {p} /\ ~IsMark(out[p][1])))
           \/ /\ pc[p] = "read" /\ l = "done" /\ pipelock # p /\ pipelock' = pipelock
              /\ torn' = torn
        /\ Goto(p, l)
        /\ pipe' = IF Users(Process) = {p} THEN <<>> ELSE pipe
        /\ apart' \in BOOLEAN
        /\ UNCHANGED <<met, filelock, file, pos, out, buf, outbuf>>
    BY DEF BrokenPipe, ProducerDone, Leave, At, Locks, producerVars, consumerVars
  <1>2. l \in {"killed", "done"}
    OBVIOUS
  <1> HIDE DEF l
  <1>3. /\ Labels' /\ p \in Process
        /\ pc'[p] = l /\ \A q \in Process : q # p => pc'[q] = pc[q]
        /\ \A c \in Consumer : pc'[c] = pc[c]
    BY <1>1, <1>2, ProducerMoves DEF ProducerLabel
  <1>4. torn' \in BOOLEAN /\ (torn => torn')
    <2>1. CASE torn' = torn
      BY <2>1
    <2>2. CASE torn' = (torn \/ (Users(Process) # {p} /\ ~IsMark(out[p][1])))
      BY <2>2
    <2> QED
      BY <1>1, <2>1, <2>2
  <1>5. Types'
    <2>1. pipe' \in Seq(Symbols) /\ Len(pipe') <= PIPE
      BY <1>1, EmptySeq, SizesAssumption
    <2> QED
      BY <1>1, <1>3, <1>4, <2>1
  <1>6. Locks'
    BY <1>1, <1>2, <1>3, ProcessAssumption DEF Locks, Process
  <1>7. Writing'
    BY <1>1, <1>2, <1>3 DEF Writing, Process
  <1>8. Reading'
    BY <1>1, <1>3, <1>4 DEF Reading
  <1>9. Got' = Got
    BY <1>1, <1>3 DEF Got
  <1>10. pc[p] = "write" => Rest = out[p] /\ Rest' = <<>>
    BY <1>1, <1>2, <1>3, ProcessAssumption DEF Rest
  <1>11. pc[p] = "read" => Rest' = Rest
    BY <1>1, <1>2, <1>3 DEF Rest, Process
  <1>12. ~torn' => \/ Chan' = <<>> /\ (pc[p] = "write" \/ Users(Process) = {p})
                   \/ Chan' = Chan /\ pc[p] = "read"
    <2> SUFFICES ASSUME ~torn'
                 PROVE  \/ Chan' = <<>> /\ (pc[p] = "write" \/ Users(Process) = {p})
                        \/ Chan' = Chan /\ pc[p] = "read"
      OBVIOUS
    <2>1. ~torn
      BY <1>4
    <2>2. pc[p] = "write" => Got = <<>>
      BY <1>1, Turns DEF Users, Ended
    <2>3. CASE Users(Process) = {p}
      <3>1. pipe' = <<>>
        BY <2>3, <1>1
      <3>2. CASE pc[p] = "write"
        BY <3>1, <3>2, <1>9, <1>10, <2>2, ConcatEmptySeq, EmptySeq DEF Chan
      <3>3. CASE pc[p] = "read"
        <4>1. \A q \in Process : pc[q] \notin {"fetch", "write"}
          BY <2>3, <3>3, <1>3, LastUser
        <4>2. Got = <<>> /\ Rest = <<>>
          BY <4>1, Turns DEF Process
        <4> QED
          BY <2>3, <3>1, <3>3, <4>2, <1>9, <1>11, ConcatEmptySeq, EmptySeq DEF Chan
      <3> QED
        BY <3>2, <3>3, <1>1
    <2>4. CASE Users(Process) # {p}
      <3>1. pipe' = pipe
        BY <2>4, <1>1
      <3>2. CASE pc[p] = "write"
        <4>1. IsMark(out[p][1]) /\ out[p] # <<>>
          BY <2>4, <3>2, <1>1 DEF Writing
        <4>2. pipe = <<>>
          BY <4>1, <3>2, <2>1, <1>10, InTheChannel
        <4> QED
          BY <3>1, <3>2, <4>2, <1>9, <1>10, <2>2, ConcatEmptySeq, EmptySeq DEF Chan
      <3>3. CASE pc[p] = "read"
        BY <3>1, <3>3, <1>9, <1>11 DEF Chan
      <3> QED
        BY <3>2, <3>3, <1>1
    <2> QED
      BY <2>3, <2>4
  <1>13. Channel'
    BY <1>4, <1>12 DEF Channel
  <1>14. Clean'
    BY <1>1, <1>4 DEF Clean
  <1> QED
    BY <1>5, <1>6, <1>7, <1>8, <1>12, <1>13, <1>14

\* A consumer takes the lock on the file, or releases it.
LEMMA FileLockKeeps ==
  ASSUME IInv, NEW c \in Consumer, LockFile(c) \/ UnlockFile(c)
  PROVE  IInv'
  <1> USE DEF IInv, Types
  <1> DEFINE l == IF pc[c] = "lock" THEN "fetch" ELSE "lock"
  <1>1. /\ \/ pc[c] = "lock" /\ l = "fetch" /\ filelock = None /\ filelock' = c
           \/ pc[c] = "unlock" /\ l = "lock" /\ filelock = c /\ filelock' = None
        /\ Goto(c, l)
        /\ UNCHANGED <<met, pipe, pipelock, file, pos, out, buf, outbuf, apart, torn>>
    BY DEF LockFile, UnlockFile, At, Locks, producerVars, consumerVars, history
  <1>2. l \in {"fetch", "lock"}
    OBVIOUS
  <1> HIDE DEF l
  <1>3. /\ Labels' /\ c \in Process
        /\ pc'[c] = l /\ \A q \in Process : q # c => pc'[q] = pc[q]
        /\ \A p \in Producer : pc'[p] = pc[p]
    BY <1>1, <1>2, ConsumerMoves DEF ConsumerLabel
  <1>4. Types'
    BY <1>1, <1>3
  <1>5. Locks'
    <2>1. \A p \in Producer : pc'[p] \in {"poll", "write", "unlock"} <=> pipelock' = p
      BY <1>1, <1>3 DEF Locks
    <2>2. ASSUME NEW d \in Consumer
          PROVE  /\ pc'[d] \in {"fetch", "load", "store", "unlock"} => filelock' = d
                 /\ filelock' = d =>
                      pc'[d] \in {"fetch", "load", "store", "unlock", "close", "bad"}
      BY <1>1, <1>3, ProcessAssumption DEF Locks, Process
    <2> QED
      BY <2>1, <2>2 DEF Locks
  <1>6. Writing'
    BY <1>1, <1>3 DEF Writing
  <1>7. Reading'
    BY <1>1, <1>3 DEF Reading, Process
  <1>8. Got' = Got /\ Rest' = Rest
    <2>1. Rest' = Rest
      BY <1>1, <1>3 DEF Rest
    <2>2. Got = <<>>
      BY <1>1, ProcessAssumption DEF Got
    <2>3. CASE pc[c] = "lock"
      <3>1. Got' = buf[c]
        BY <1>1, <1>3, <2>3 DEF Got
      <3> QED
        BY <2>1, <2>2, <2>3, <3>1 DEF Reading
    <2>4. CASE pc[c] = "unlock"
      <3>1. Got' = <<>>
        BY <1>1, <2>4, ProcessAssumption DEF Got
      <3> QED
        BY <2>1, <2>2, <3>1
    <2> QED
      BY <1>1, <2>3, <2>4
  <1>9. Channel'
    BY <1>1, <1>8 DEF Channel, Chan
  <1>10. Clean'
    BY <1>1 DEF Clean
  <1> QED
    BY <1>4, <1>5, <1>6, <1>7, <1>9, <1>10

\* A consumer takes what is in the FIFO, as far as there is room: more of the
\* message, or all of it.
LEMMA FetchKeeps ==
  ASSUME IInv, NEW c \in Consumer, Fetch(c)
  PROVE  /\ IInv'
         /\ pc'[c] \in {"fetch", "load"}
         /\ pc'[c] = "fetch" => Chan' = Chan
         /\ pc'[c] = "load" /\ ~torn => Rest = <<>> /\ buf'[c] = Chan /\ Chan' = <<>>
  <1> USE DEF IInv, Types
  <1> DEFINE n == Least(Room(c), Len(pipe))
             l == IF pipe[n] = NL THEN "load" ELSE "fetch"
             a == SubSeq(pipe, 1, n)
             b == Drop(pipe, n)
             g == buf[c] \o a
  <1>1. /\ pc[c] = "fetch" /\ n > 0 /\ Goto(c, l)
        /\ buf' = [buf EXCEPT ![c] = g] /\ pipe' = b
        /\ UNCHANGED <<met, pipelock, filelock, file, pos, out, outbuf, apart, torn>>
    BY DEF Fetch, At, producerVars, history
  <1>2. pipe \in Seq(Symbols) /\ buf[c] \in Seq(Symbols) /\ Rest \in Seq(Symbols) /\ Got = buf[c]
    BY <1>1, Turns
  <1>3. /\ Len(pipe) \in Nat /\ Len(buf[c]) \in Nat /\ n \in 1 .. Len(pipe)
        /\ Len(buf[c]) + n <= BLOCK + 2
    BY <1>1, <1>2, LenProperties, SizesAssumption DEF Least, Room
  <1>4. (l = "load" /\ pipe[n] = NL) \/ (l = "fetch" /\ pipe[n] # NL)
    OBVIOUS
  <1> HIDE DEF n, l
  <1>5. /\ a \in Seq(Symbols) /\ Len(a) = n /\ a[n] = pipe[n]
        /\ b \in Seq(Symbols) /\ Len(b) = Len(pipe) - n
        /\ a \o b = pipe
    <2>1. n \in 0 .. Len(pipe) /\ n \in 1 .. n
      BY <1>3
    <2> QED
      BY <1>2, <2>1, Cut
  <1> HIDE DEF a, b
  <1>6. /\ g \in Seq(Symbols) /\ Len(g) = Len(buf[c]) + n /\ g # <<>>
        /\ g[Len(g)] = pipe[n]
    <2>1. n \in 1 .. Len(a)
      BY <1>3, <1>5
    <2>2. /\ g \in Seq(Symbols) /\ Len(g) = Len(buf[c]) + Len(a)
          /\ g[Len(buf[c]) + n] = a[n]
      <3> DEFINE s == buf[c]
      <3>1. s \in Seq(Symbols) /\ a \in Seq(Symbols)
        BY <1>2, <1>5
      <3> HIDE DEF s
      <3>2. /\ s \o a \in Seq(Symbols) /\ Len(s \o a) = Len(s) + Len(a)
            /\ (s \o a)[Len(s) + n] = a[n]
        BY ONLY <2>1, <3>1, Joined
      <3> QED
        BY <3>2 DEF s
    <2> HIDE DEF g
    <2>3. Len(g) # 0
      BY <2>2, <1>3, <1>5
    <2> QED
      BY <2>2, <2>3, <1>5, EmptySeq
  <1>7. (g \o b) \o Rest = (Got \o pipe) \o Rest
    <2> DEFINE s == buf[c]
    <2>1. s \in Seq(Symbols) /\ a \in Seq(Symbols) /\ b \in Seq(Symbols)
      BY <1>2, <1>5
    <2>2. (s \o a) \o b = s \o (a \o b)
      <3> HIDE DEF s
      <3> QED
        BY ONLY <2>1, ConcatAssociative, SMTT(30)
    <2> QED
      BY <2>2, <1>2, <1>5
  <1> HIDE DEF g
  <1>8. ~torn => LET x == (g \o b) \o Rest IN x = <<>> \/ IsMessage(x)
    BY <1>7 DEF Channel, Chan
  <1>9. ~torn /\ pipe[n] = NL => b = <<>> /\ Rest = <<>> /\ IsMessage(g)
    <2> SUFFICES ASSUME ~torn, pipe[n] = NL
                 PROVE  b = <<>> /\ Rest = <<>> /\ IsMessage(g)
      OBVIOUS
    <2>1. b = <<>> /\ Rest = <<>>
      BY <1>2, <1>5, <1>6, <1>8, PiecesOfMessage
    <2>2. (g \o b) \o Rest = g
      BY <2>1, <1>6, ConcatEmptySeq
    <2> QED
      BY <2>1, <2>2, <1>6, <1>8
  <1>10. /\ Labels' /\ c \in Process
         /\ pc'[c] = l /\ \A q \in Process : q # c => pc'[q] = pc[q]
         /\ \A p \in Producer : pc'[p] = pc[p]
    BY <1>1, <1>4, ConsumerMoves DEF ConsumerLabel
  <1>11. Types'
    <2>1. pipe' \in Seq(Symbols) /\ Len(pipe') <= PIPE
      BY <1>1, <1>3, <1>5, SizesAssumption
    <2>2. buf' \in [Consumer -> Seq(Symbols)]
      BY <1>1, <1>6
    <2> QED
      BY <1>1, <1>10, <2>1, <2>2
  <1>12. Locks'
    BY <1>1, <1>4, <1>10 DEF Locks, Process
  <1>13. Writing'
    BY <1>1, <1>10 DEF Writing
  <1>14. Reading'
    <2>1. buf'[c] = g /\ \A d \in Consumer : d # c => buf'[d] = buf[d]
      BY <1>1
    <2>2. Len(g) <= BLOCK + 2
      BY <1>3, <1>6
    <2> QED
      BY <1>1, <1>4, <1>6, <1>9, <1>10, <2>1, <2>2 DEF Reading, Process
  <1>15. Rest' = Rest
    BY <1>1, <1>10 DEF Rest
  <1>16. filelock = c
    BY <1>1 DEF Locks
  <1>17. l = "fetch" => Chan' = Chan
    <2>1. l = "fetch" => Got' = g
      BY <1>1, <1>10, <1>16 DEF Got
    <2> QED
      BY <1>1, <1>7, <1>15, <2>1 DEF Chan
  <1>18. l = "load" /\ ~torn => Rest = <<>> /\ buf'[c] = Chan /\ Chan' = <<>>
    <2> SUFFICES ASSUME l = "load", ~torn
                 PROVE  Rest = <<>> /\ buf'[c] = Chan /\ Chan' = <<>>
      OBVIOUS
    <2>1. Got' = <<>>
      BY <1>1, <1>10, <1>16 DEF Got
    <2>2. b = <<>> /\ Rest = <<>>
      BY <1>4, <1>9
    <2>3. Chan = g
      BY <1>6, <1>7, <2>2, ConcatEmptySeq DEF Chan
    <2>4. buf'[c] = g
      BY <1>1
    <2>5. Chan' = <<>>
      BY <1>1, <1>15, <2>1, <2>2, ConcatEmptySeq, EmptySeq DEF Chan
    <2> QED
      BY <2>2, <2>3, <2>4, <2>5
  <1>19. Channel'
    BY <1>1, <1>4, <1>17, <1>18 DEF Channel
  <1>20. Clean'
    BY <1>1 DEF Clean
  <1> QED
    BY <1>4, <1>10, <1>11, <1>12, <1>13, <1>14, <1>17, <1>18, <1>19, <1>20

\* A consumer that fetches has room, and at the end of the FIFO it has got nothing.
LEMMA RoomToFetch ==
  ASSUME IInv, ~torn, NEW c \in Consumer, pc[c] = "fetch"
  PROVE  /\ Room(c) > 0
         /\ pipe = <<>> /\ Users(Producer) = {} => buf[c] = <<>>
  <1> USE DEF IInv, Types
  <1>1. pipe \in Seq(Symbols) /\ buf[c] \in Seq(Symbols) /\ Rest \in Seq(Symbols) /\ Got = buf[c]
    BY Turns
  <1>2. /\ Len(buf[c]) \in Nat /\ Len(pipe) \in Nat /\ Len(Rest) \in Nat
        /\ (pipe = <<>> <=> Len(pipe) = 0) /\ (Rest = <<>> <=> Len(Rest) = 0)
        /\ (buf[c] = <<>> <=> Len(buf[c]) = 0)
    BY <1>1, EmptySeq, LenProperties
  <1>3. /\ Len(Got) + Len(pipe) + Len(Rest) <= BLOCK + 2
        /\ Got # <<>> /\ pipe = <<>> /\ Rest = <<>> => Got[Len(Got)] = NL
    BY InTheChannel
  <1>4. Got # <<>> => Got[Len(Got)] # NL
    BY GotOpen
  <1>5. Room(c) > 0
    <2> SUFFICES ASSUME Len(buf[c]) >= BLOCK + 2
                 PROVE  FALSE
      BY <1>2, SizesAssumption DEF Room
    <2>1. Len(pipe) = 0 /\ Len(Rest) = 0 /\ Len(buf[c]) # 0
      BY <1>1, <1>2, <1>3, SizesAssumption
    <2> QED
      BY <2>1, <1>1, <1>2, <1>3, <1>4
  <1>6. ASSUME pipe = <<>>, Users(Producer) = {}
        PROVE  buf[c] = <<>>
    <2>1. Rest = <<>>
      BY <1>6, Turns DEF Users, Ended
    <2> QED
      BY <2>1, <1>6, <1>1, <1>3, <1>4
  <1> QED
    BY <1>5, <1>6

\* A consumer finds the end of the FIFO, or a full buffer.
LEMMA FetchNothingKeeps ==
  ASSUME IInv, NEW c \in Consumer, FetchNothing(c)
  PROVE  IInv'
  <1> USE DEF IInv, Types
  <1> DEFINE l == IF buf[c] = <<>> THEN "close" ELSE "bad"
  <1>1. /\ pc[c] = "fetch" /\ Goto(c, l)
        /\ Room(c) = 0 \/ (pipe = <<>> /\ Users(Producer) = {})
        /\ UNCHANGED <<met, pipe, pipelock, filelock, file, pos, out, buf, outbuf, apart, torn>>
    BY DEF FetchNothing, At, io, producerVars, consumerVars, history
  <1>2. l \in {"close", "bad"} /\ (l = "bad" => torn)
    <2>1. ~torn => buf[c] = <<>>
      BY <1>1, RoomToFetch
    <2> QED
      BY <2>1
  <1>3. ~torn => buf[c] = <<>>
    BY <1>1, RoomToFetch
  <1> HIDE DEF l
  <1>4. /\ Labels' /\ c \in Process
        /\ pc'[c] = l /\ \A q \in Process : q # c => pc'[q] = pc[q]
        /\ \A p \in Producer : pc'[p] = pc[p]
    BY <1>1, <1>2, ConsumerMoves DEF ConsumerLabel
  <1>5. Types'
    BY <1>1, <1>4
  <1>6. Locks'
    BY <1>1, <1>2, <1>4 DEF Locks, Process
  <1>7. Writing'
    BY <1>1, <1>4 DEF Writing
  <1>8. Reading'
    BY <1>1, <1>2, <1>4 DEF Reading, Process
  <1>9. ~torn => Got' = Got /\ Rest' = Rest
    <2>1. Rest' = Rest
      BY <1>1, <1>4 DEF Rest
    <2>2. filelock = c
      BY <1>1 DEF Locks
    <2>3. Got' = <<>>
      BY <1>1, <1>2, <1>4, <2>2 DEF Got
    <2>4. Got = buf[c]
      BY <1>1, <2>2 DEF Got
    <2> QED
      BY <2>1, <2>3, <2>4, <1>3
  <1>10. Channel'
    BY <1>1, <1>9 DEF Channel, Chan
  <1>11. Clean'
    BY <1>1 DEF Clean
  <1> QED
    BY <1>5, <1>6, <1>7, <1>8, <1>10, <1>11

\* A consumer reads the file.
LEMMA LoadKeeps ==
  ASSUME IInv, NEW c \in Consumer, Load(c)
  PROVE  IInv'
  <1> USE DEF IInv, Types
  <1> DEFINE l == IF IsMark(buf[c][1]) THEN "store" ELSE "bad"
  <1>1. /\ pc[c] = "load" /\ Goto(c, l)
        /\ outbuf' = [outbuf EXCEPT ![c] = file]
        /\ UNCHANGED <<met, pipe, pipelock, filelock, file, pos, out, buf, apart, torn>>
    BY DEF Load, At, io, producerVars, history
  <1>2. /\ l \in {"store", "bad"} /\ (l = "bad" => torn)
        /\ (l = "store" => IsMark(buf[c][1]))
    <2>1. ~torn => IsMark(buf[c][1])
      BY <1>1 DEF Reading, IsMessage
    <2> QED
      BY <2>1
  <1> HIDE DEF l
  <1>3. /\ Labels' /\ c \in Process
        /\ pc'[c] = l /\ \A q \in Process : q # c => pc'[q] = pc[q]
        /\ \A p \in Producer : pc'[p] = pc[p]
    BY <1>1, <1>2, ConsumerMoves DEF ConsumerLabel
  <1>4. Types'
    BY <1>1, <1>3
  <1>5. Locks'
    BY <1>1, <1>2, <1>3 DEF Locks, Process
  <1>6. Writing'
    BY <1>1, <1>3 DEF Writing
  <1>7. Reading'
    <2>1. outbuf'[c] = file /\ \A d \in Consumer : d # c => outbuf'[d] = outbuf[d]
      BY <1>1
    <2> QED
      BY <1>1, <1>2, <1>3, <2>1 DEF Reading, Process
  <1>8. Got' = Got /\ Rest' = Rest
    BY <1>1, <1>2, <1>3 DEF Got, Rest, Process
  <1>9. Channel'
    BY <1>1, <1>8 DEF Channel, Chan
  <1>10. Clean'
    BY <1>1 DEF Clean
  <1> QED
    BY <1>4, <1>5, <1>6, <1>7, <1>9, <1>10

\* The first line of the buffer, which begins with a mark.
LEMMA FirstLine ==
  ASSUME IInv, NEW c \in Consumer, pc[c] \in {"load", "store"}
  PROVE  LET end == EndOfRow(buf[c], 1) IN
         /\ end \in 1 .. Len(buf[c]) /\ Len(buf[c]) \in Nat
         /\ ~torn => end = Len(buf[c])
  <1> USE DEF IInv, Types
  <1> DEFINE s == buf[c]
             end == EndOfRow(s, 1)
  <1>1. /\ s \in Seq(Symbols) /\ s # <<>> /\ s[Len(s)] = NL
        /\ ~torn => IsMessage(s)
    BY DEF Reading
  <1> HIDE DEF s
  <1>2. Len(s) \in Nat \ {0}
    BY <1>1, EmptySeq
  <1>3. Len(s) \in Ends(s)
    BY <1>1, <1>2 DEF Ends
  <1>4. RowCount(s) # 0
    <2>1. IsFiniteSet(Ends(s))
      BY <1>1, EndsFinite
    <2> QED
      BY <2>1, <1>3, FS_EmptySet DEF RowCount
  <1>5. 1 \in 1 .. RowCount(s)
    <2>1. RowCount(s) \in 0 .. Len(s)
      BY <1>1, EndsFinite
    <2> QED
      BY <2>1, <1>2, <1>4
  <1>6. end \in Ends(s)
    BY <1>1, <1>5, RowEnd
  <1>7. ~torn => end = Len(s)
    BY <1>1, <1>6 DEF IsMessage, Ends
  <1> QED
    BY <1>2, <1>6, <1>7 DEF Ends, s

\* A consumer adds the first line of its buffer to the file.
LEMMA StoreKeeps ==
  ASSUME IInv, NEW c \in Consumer, Store(c)
  PROVE  IInv'
  <1> USE DEF IInv, Types
  <1> DEFINE s == buf[c]
             end == EndOfRow(s, 1)
             rest == Drop(s, end)
             data == SubSeq(s, 2, end)
             row == s[1][2]
             l == IF rest = <<>> THEN "unlock" ELSE "load"
  <1>1. /\ pc[c] = "store" /\ Goto(c, l)
        /\ file' = AddToRow(data, row, c)
        /\ buf' = [buf EXCEPT ![c] = rest]
        /\ outbuf' = [outbuf EXCEPT ![c] = <<>>]
        /\ UNCHANGED <<met, pipe, pipelock, filelock, pos, out, apart, torn>>
    BY DEF Store, At, producerVars, history
  <1>2. /\ s \in Seq(Symbols) /\ s # <<>> /\ s[Len(s)] = NL /\ Len(s) <= BLOCK + 2
        /\ IsMark(s[1]) /\ outbuf[c] = file /\ (~torn => IsMessage(s))
    BY <1>1 DEF Reading
  <1>3. /\ end \in 1 .. Len(s) /\ Len(s) \in Nat
        /\ ~torn => end = Len(s)
    BY <1>1, FirstLine
  <1> HIDE DEF s, end
  <1>4. s[1] \in Symbols /\ row \in Nat \ {0}
    <2>1. 1 \in 1 .. Len(s)
      BY <1>3
    <2>2. s[1] \in Symbols
      BY <2>1, <1>2, ElementOfSeq
    <2>3. PICK p \in Producer : s[1] = Mark(Line[p])
      BY <2>2, <1>2, SymbolFacts
    <2>4. Line[p] \in Nat \ {0} /\ row = Line[p]
      BY <2>3, LineAssumption, SymbolFacts
    <2> QED
      BY <2>2, <2>4
  <1>5. /\ data \in Seq(Symbols)
        /\ \A k \in 1 .. Len(data) : \E i \in 2 .. end : data[k] = s[i]
    <2>1. \A i \in 2 .. end : s[i] \in Symbols
      BY <1>2, <1>3, ElementOfSeq
    <2>2. /\ data \in Seq(Symbols)
          /\ Len(data) = IF 2 <= end THEN end - 2 + 1 ELSE 0
          /\ \A k \in 1 .. end - 2 + 1 : data[k] = s[2 + k - 1]
      BY <2>1, <1>3, SubSeqProperties
    <2> HIDE DEF data
    <2>3. \A k \in 1 .. Len(data) : k \in 1 .. end - 2 + 1 /\ 2 + k - 1 \in 2 .. end
      BY <2>2, <1>3
    <2> QED
      BY <2>2, <2>3
  <1>6. /\ rest \in Seq(Symbols) /\ Len(rest) = Len(s) - end
        /\ rest # <<>> => rest[Len(rest)] = NL
        /\ ~torn => rest = <<>>
    <2>1. end \in 0 .. Len(s)
      BY <1>3
    <2>2. /\ rest \in Seq(Symbols) /\ Len(rest) = Len(s) - end
          /\ \A k \in 1 .. Len(s) - end : rest[k] = s[end + k]
      BY <2>1, <1>2, Cut
    <2> HIDE DEF rest
    <2>3. rest # <<>> => Len(rest) \in 1 .. Len(s) - end /\ end + Len(rest) = Len(s)
      BY <2>2, <1>3, EmptySeq
    <2>4. rest # <<>> => rest[Len(rest)] = NL
      BY <2>2, <2>3, <1>2
    <2> QED
      BY <2>2, <2>3, <2>4, <1>3
  <1>7. l \in {"unlock", "load"} /\ (l = "unlock" <=> rest = <<>>)
    OBVIOUS
  <1> HIDE DEF data, rest, row, l
  <1>8. /\ file' \in Seq(Symbols)
        /\ \A k \in 1 .. Len(file') :
              \/ file'[k] = NL
              \/ \E i \in 1 .. Len(file) : file'[k] = file[i]
              \/ \E i \in 1 .. Len(data) : file'[k] = data[i]
    <2>1. AddToRow(data, row, c) \in Seq(Symbols) /\ FromFileOr(data, AddToRow(data, row, c))
      BY <1>2, <1>4, <1>5, AddToRowType
    <2> QED
      BY <1>1, <2>1 DEF FromFileOr
  <1>9. /\ Labels' /\ c \in Process
        /\ pc'[c] = l /\ \A q \in Process : q # c => pc'[q] = pc[q]
        /\ \A p \in Producer : pc'[p] = pc[p]
    BY <1>1, <1>7, ConsumerMoves DEF ConsumerLabel
  <1>10. /\ buf'[c] = rest /\ \A d \in Consumer : d # c => buf'[d] = buf[d]
         /\ outbuf'[c] = <<>> /\ \A d \in Consumer : d # c => outbuf'[d] = outbuf[d]
    BY <1>1
  <1>11. Types'
    <2>1. buf' \in [Consumer -> Seq(Symbols)] /\ outbuf' \in [Consumer -> Seq(Symbols)]
      BY <1>1, <1>6, EmptySeq
    <2> QED
      BY <1>1, <1>8, <1>9, <2>1
  <1>12. Locks'
    BY <1>1, <1>7, <1>9 DEF Locks, Process
  <1>13. Writing'
    BY <1>1, <1>9 DEF Writing
  <1>14. \A d \in Consumer : d # c => pc[d] # "store"
    BY <1>1 DEF Locks
  <1>15. Reading'
    <2>1. Len(rest) <= BLOCK + 2
      BY <1>2, <1>3, <1>6, SizesAssumption
    <2>2. ASSUME NEW d \in Consumer, d # c
          PROVE  pc'[d] = pc[d] /\ pc[d] # "store" /\ buf'[d] = buf[d]
      BY <2>2, <1>9, <1>10, <1>14 DEF Process
    <2> DEFINE R(d) ==
          /\ Len(buf[d]) <= BLOCK + 2
          /\ pc[d] = "fetch" /\ buf[d] # <<>> => buf[d][Len(buf[d])] # NL
          /\ pc[d] \in {"load", "store"} =>
               buf[d] # <<>> /\ buf[d][Len(buf[d])] = NL /\ (~torn => IsMessage(buf[d]))
          /\ pc[d] = "store" => IsMark(buf[d][1]) /\ outbuf[d] = file
          /\ pc[d] \in {"start", "open", "lock", "unlock"} => buf[d] = <<>>
          /\ pc[d] = "bad" => torn
    <2>3. R(c)'
      BY <1>1, <1>6, <1>7, <1>9, <1>10, <2>1
    <2>4. ASSUME NEW d \in Consumer, d # c
          PROVE  R(d)'
      BY <2>2, <2>4, <1>1, <1>10 DEF Reading
    <2> HIDE DEF R
    <2>5. \A d \in Consumer : R(d)'
      BY <2>3, <2>4
    <2> QED
      BY <2>5 DEF Reading, R
  <1>16. Got' = Got /\ Rest' = Rest
    <2>1. Rest' = Rest
      BY <1>1, <1>9 DEF Rest
    <2>2. filelock = c /\ filelock' = c
      BY <1>1 DEF Locks
    <2> QED
      BY <1>1, <1>7, <1>9, <2>1, <2>2 DEF Got
  <1>17. Channel'
    BY <1>1, <1>16 DEF Channel, Chan
  <1>18. Clean'
    <2> SUFFICES ASSUME ~torn, NEW k \in 1 .. Len(file')
                 PROVE  ~IsMark(file'[k])
      BY <1>1 DEF Clean
    <2>1. CASE file'[k] = NL
      BY <2>1, SymbolFacts
    <2>2. ASSUME NEW i \in 1 .. Len(file), file'[k] = file[i]
          PROVE  ~IsMark(file'[k])
      BY <2>2 DEF Clean
    <2>3. ASSUME NEW i \in 1 .. Len(data), file'[k] = data[i]
          PROVE  ~IsMark(file'[k])
      <3>1. PICK j \in 2 .. end : data[i] = s[j]
        BY <1>5
      <3>2. j \in 2 .. Len(s)
        BY <1>3
      <3>3. ~IsMark(s[j])
        BY <1>2, <3>2 DEF IsMessage
      <3> QED
        BY <2>3, <3>1, <3>3
    <2> QED
      BY <1>8, <2>1, <2>2, <2>3
  <1> QED
    BY <1>11, <1>12, <1>13, <1>15, <1>17, <1>18

\* A consumer ends.
LEMMA CloseKeeps ==
  ASSUME IInv, NEW c \in Consumer, Close(c)
  PROVE  /\ IInv'
         /\ (Chan' = <<>> /\ Users(Process) = {c}) \/ Chan' = Chan
  <1> USE DEF IInv, Types
  <1> DEFINE l == IF pc[c] = "close" THEN "done" ELSE "failed"
  <1>1. /\ pc[c] \in {"close", "bad"} /\ Goto(c, l)
        /\ filelock' = IF filelock = c THEN None ELSE filelock
        /\ pipe' = IF Users(Process) = {c} THEN <<>> ELSE pipe
        /\ apart' \in BOOLEAN
        /\ UNCHANGED <<met, pipelock, file, pos, out, buf, outbuf, torn>>
    BY DEF Close, Leave, At, producerVars, consumerVars
  <1>2. l \in {"done", "failed"}
    OBVIOUS
  <1> HIDE DEF l
  <1>3. /\ Labels' /\ c \in Process
        /\ pc'[c] = l /\ \A q \in Process : q # c => pc'[q] = pc[q]
        /\ \A p \in Producer : pc'[p] = pc[p]
    BY <1>1, <1>2, ConsumerMoves DEF ConsumerLabel
  <1>4. Types'
    <2>1. pipe' \in Seq(Symbols) /\ Len(pipe') <= PIPE
      BY <1>1, EmptySeq, SizesAssumption
    <2> QED
      BY <1>1, <1>3, <2>1
  <1>5. Locks'
    BY <1>1, <1>2, <1>3, ProcessAssumption DEF Locks, Process
  <1>6. Writing'
    BY <1>1, <1>3 DEF Writing
  <1>7. Reading'
    BY <1>1, <1>2, <1>3 DEF Reading, Process
  <1>8. Got' = Got /\ Rest' = Rest
    BY <1>1, <1>2, <1>3, ProcessAssumption DEF Got, Rest, Process
  <1>9. (Chan' = <<>> /\ Users(Process) = {c}) \/ Chan' = Chan
    <2>1. CASE Users(Process) = {c}
      <3>1. \A q \in Process : pc[q] \notin {"fetch", "write"}
        BY <1>1, <1>3, <2>1, LastUser
      <3>2. Got = <<>> /\ Rest = <<>>
        BY <3>1, Turns DEF Process
      <3> QED
        BY <1>1, <1>8, <2>1, <3>2, ConcatEmptySeq, EmptySeq DEF Chan
    <2>2. CASE Users(Process) # {c}
      BY <1>1, <1>8, <2>2 DEF Chan
    <2> QED
      BY <2>1, <2>2
  <1>10. Channel'
    BY <1>1, <1>9 DEF Channel
  <1>11. Clean'
    BY <1>1 DEF Clean
  <1> QED
    BY <1>4, <1>5, <1>6, <1>7, <1>9, <1>10, <1>11

\* A step that changes nothing.
LEMMA Stutters ==
  ASSUME IInv, UNCHANGED vars
  PROVE  IInv'
  <1>1. UNCHANGED <<pc, met, pipe, pipelock, filelock, file, pos, out, buf, outbuf, apart, torn>>
    BY DEF vars, io, producerVars, consumerVars, history
  <1>2. Labels' = Labels
    BY <1>1 DEF Labels
  <1>3. Types' /\ Locks' /\ Writing' /\ Reading' /\ Clean'
    BY <1>1, <1>2 DEF IInv, Types, Locks, Writing, Reading, Clean
  <1>4. Channel'
    BY <1>1 DEF IInv, Channel, Chan, Got, Rest
  <1> QED
    BY <1>3, <1>4 DEF IInv
-----------------------------------------------------------------------------
(***************************************************************************)
(* What the runs check, for all values of the constants.                   *)
(***************************************************************************)

\* Producers and consumers that take turns at a FIFO keep the invariant,
\* whatever texts with newlines at the ends of blocks they pass.
THEOREM Invariant ==
  ASSUME LinesEndBlocks PROVE Spec => []IInv
  <1>1. Init => IInv
    BY Initially
  <1>2. IInv /\ [Next]_vars => IInv'
    <2> SUFFICES ASSUME IInv, [Next]_vars
                 PROVE  IInv'
      OBVIOUS
    <2>1. ASSUME NEW p \in Process, OpenFifo(p) \/ Opened(p)
          PROVE  IInv'
      BY <2>1, OpenFifoKeeps
    <2>2. ASSUME NEW p \in Producer, ProducerStep(p)
          PROVE  IInv'
      BY <2>2, ReadBlockKeeps, FifoLockKeeps, FifoEmptyKeeps, WriteKeeps, ProducerLeaves
      DEF ProducerStep
    <2>3. ASSUME NEW c \in Consumer, ConsumerStep(c)
          PROVE  IInv'
      BY <2>3, FileLockKeeps, FetchKeeps, FetchNothingKeeps, LoadKeeps, StoreKeeps, CloseKeeps
      DEF ConsumerStep
    <2> QED
      BY <2>1, <2>2, <2>3, Stutters DEF Next
  <1> QED
    BY <1>1, <1>2, PTL DEF Spec

\* Every variable keeps its type, no buffer overflows, and no mark gets into
\* the file unless a message was torn.
THEOREM TypeCorrect ==
  ASSUME LinesEndBlocks PROVE Spec => []TypeOK
  <1>1. IInv => TypeOK
    <2> SUFFICES ASSUME IInv PROVE TypeOK
      OBVIOUS
    <2> USE DEF IInv, Types
    <2>1. pc \in [Process -> Ended \cup {"start", "open", "read", "lock", "poll",
                    "write", "unlock", "fetch", "load", "store", "close", "bad"}]
      <3>1. ProducerLabel \cup ConsumerLabel \subseteq
              Ended \cup {"start", "open", "read", "lock", "poll",
                    "write", "unlock", "fetch", "load", "store", "close", "bad"}
        BY DEF ProducerLabel, ConsumerLabel, Ended
      <3> QED
        BY <3>1 DEF Labels
    <2>2. \A p \in Producer : pos[p] \in 0 .. Len(Text[p])
      BY TextAssumption, LenProperties DEF Writing
    <2> QED
      BY <2>1, <2>2 DEF TypeOK, Writing, Reading, Clean
  <1> QED
    BY <1>1, Invariant, PTL

\* A read never runs into the next message, never finds its buffer full and
\* never takes in invalid data (what the poll at producer.c:93 is for), unless
\* a message was torn.
THEOREM OneMessage ==
  ASSUME LinesEndBlocks PROVE Spec => []OneMessageToRead
  <1>1. IInv => OneMessageToRead
    <2> SUFFICES ASSUME IInv, ~torn, NEW c \in Consumer
                 PROVE  /\ pc[c] = "fetch" => Marks(buf[c]) + Marks(pipe) <= 1
                        /\ pc[c] = "fetch" => Room(c) > 0
                        /\ pc[c] # "bad"
      BY DEF OneMessageToRead
    <2> USE DEF IInv, Types
    <2>1. ASSUME pc[c] = "fetch"
          PROVE  Marks(buf[c]) + Marks(pipe) <= 1
      <3> DEFINE B == {i \in 1 .. Len(buf[c]) : IsMark(buf[c][i])}
                 P == {i \in 1 .. Len(pipe) : IsMark(pipe[i])}
      <3>1. /\ pipe \in Seq(Symbols) /\ buf[c] \in Seq(Symbols) /\ Rest \in Seq(Symbols)
            /\ Got = buf[c]
        BY <2>1, Turns
      <3>2. /\ \A k \in 1 .. Len(Got) : IsMark(Got[k]) => k = 1
            /\ \A k \in 1 .. Len(pipe) : IsMark(pipe[k]) => k = 1 /\ Got = <<>>
        BY InTheChannel
      <3>3. B = {} \/ P = {}
        BY <3>1, <3>2, EmptySeq
      <3>4. B \in {{}, {1}} /\ P \in {{}, {1}}
        BY <3>1, <3>2
      <3>5. Cardinality(B) \in {0, 1} /\ Cardinality(P) \in {0, 1}
            /\ (Cardinality(B) = 0 \/ Cardinality(P) = 0)
        <4> HIDE DEF B, P
        <4> QED
          BY <3>3, <3>4, FS_EmptySet, FS_Singleton
      <3> QED
        BY <3>5 DEF Marks
    <2> QED
      BY <2>1, RoomToFetch DEF Reading
  <1> QED
    BY <1>1, Invariant, PTL
-----------------------------------------------------------------------------
(***************************************************************************)
(* The rows and the messages that are on their way to them.  A producer's  *)
(* messages are at most in three places: in the buffer of the consumer     *)
(* that is about to store (Held), in the FIFO and in the hands of those    *)
(* who read and write it (Chan), and in its own hands.  InOrder says that  *)
(* they come in the order of the text, and that the row has those before.  *)
(***************************************************************************)
Held == IF filelock \in Consumer /\ pc[filelock] \in {"load", "store"} THEN buf[filelock] ELSE <<>>

Own(p, s) == s # <<>> /\ s[1] = Mark(Line[p])
One(p, s) == IF Own(p, s) THEN 1 ELSE 0

MessageOf(p, s, k) == k * BLOCK < Len(Text[p]) /\ s = Message(p, k * BLOCK)

\* k messages of p are in the file; label, at and msg are p's pc, pos and out.
InOrder(p, k, held, chan, label, at, msg) ==
  LET h == k + One(p, held)
      d == h + One(p, chan)
  IN  /\ Own(p, held) => MessageOf(p, held, k)
      /\ Own(p, chan) => MessageOf(p, chan, h)
      /\ label = "start" => ~Own(p, chan)
      /\ label = "write" => Own(p, chan)
      /\ label \in {"lock", "poll"} =>
           MessageOf(p, msg, d) /\ at = Least(d * BLOCK + BLOCK, Len(Text[p]))
      /\ label \in {"start", "open", "read", "write", "unlock"} =>
           at = Least(d * BLOCK, Len(Text[p]))

Sent(p) ==
  \E k \in Nat : /\ RowAt(file, Line[p]) = Log!Blocks(p, k)
                 /\ InOrder(p, k, Held, Chan, pc[p], pos[p], out[p])

Rowed == WholeRows(file) /\ \A p \in Producer : Sent(p)

RInv == IInv /\ (~torn => Rowed)

\* A place has one message of p or none.
LEMMA OneIs ==
  ASSUME NEW p \in Producer, NEW s
  PROVE  /\ One(p, s) \in {0, 1} /\ (One(p, s) = 1 <=> Own(p, s))
         /\ ~Own(p, <<>>) /\ One(p, <<>>) = 0
  BY DEF One, Own

\* What InOrder says of a producer that goes on without a new message.
LEMMA OrderStays ==
  ASSUME NEW p \in Producer, NEW k \in Nat, NEW held, NEW chan, NEW l, NEW m, NEW n, NEW at, NEW msg,
         InOrder(p, k, held, chan, l, at, m),
         \/ l = n /\ m = msg
         \/ l = "lock" /\ n = "poll" /\ m = msg
         \/ l = "start" /\ n = "open"
         \/ l = "open" /\ n = "read"
         \/ l = "unlock" /\ n = "read"
         \/ l = "write" /\ n \in {"write", "unlock"}
         \/ n \in {"done", "killed"}
  PROVE  InOrder(p, k, held, chan, n, at, msg)
  BY DEF InOrder

\* The same when what is in the FIFO goes with its last user.
LEMMA OrderEmptied ==
  ASSUME NEW p \in Producer, NEW k \in Nat, NEW held, NEW chan, NEW l, NEW n, NEW at, NEW msg,
         InOrder(p, k, held, chan, l, at, msg),
         n \in {"done", "killed"} \/ (n = l /\ ~Own(p, chan))
  PROVE  InOrder(p, k, held, <<>>, n, at, msg)
  <1>1. ~Own(p, <<>>) /\ One(p, <<>>) = 0
    BY OneIs
  <1>2. CASE n \in {"done", "killed"}
    BY <1>1, <1>2 DEF InOrder
  <1>3. CASE n = l /\ ~Own(p, chan)
    <2>1. One(p, chan) = 0
      BY <1>3 DEF One
    <2> QED
      BY <1>1, <1>3, <2>1 DEF InOrder
  <1> QED
    BY <1>2, <1>3

\* The same when the consumer has got the message that was in the FIFO.
LEMMA OrderFetched ==
  ASSUME NEW p \in Producer, NEW k \in Nat, NEW chan, NEW l, NEW at, NEW msg,
         InOrder(p, k, <<>>, chan, l, at, msg), l # "write"
  PROVE  InOrder(p, k, chan, <<>>, l, at, msg)
  <1>1. ~Own(p, <<>>) /\ One(p, <<>>) = 0 /\ One(p, chan) \in {0, 1}
    BY OneIs
  <1>2. PICK d \in Nat : d = k + One(p, chan)
    BY <1>1
  <1>3. k + 0 = k /\ d + 0 = d
    OBVIOUS
  <1> QED
    BY <1>1, <1>2, <1>3, l # "write" DEF InOrder

\* The same when a producer begins to write its message.
LEMMA OrderWritten ==
  ASSUME OneLine, NEW p \in Producer, NEW q \in Producer, NEW k \in Nat, NEW j \in Nat, NEW held,
         NEW l, NEW at, NEW msg, NEW at2, NEW out2,
         InOrder(p, k, held, <<>>, "poll", at, msg)
  PROVE  /\ InOrder(p, k, held, msg, "write", at, msg)
         /\ q # p /\ InOrder(q, j, held, <<>>, l, at2, out2) => InOrder(q, j, held, msg, l, at2, out2)
  <1>1. ~Own(p, <<>>) /\ One(p, <<>>) = 0 /\ One(p, held) \in {0, 1} /\ One(q, <<>>) = 0
        /\ ~Own(q, <<>>)
    BY OneIs
  <1>2. PICK h \in Nat : h = k + One(p, held) /\ h + 0 = h
    BY <1>1
  <1>3. /\ h * BLOCK < Len(Text[p]) /\ msg = Message(p, h * BLOCK)
        /\ at = Least(h * BLOCK + BLOCK, Len(Text[p]))
    BY <1>1, <1>2 DEF InOrder, MessageOf
  <1>4. msg[1] = Mark(Line[p]) /\ h + 1 \in Nat
    BY <1>3, BlockAdded
  <1>5. msg # <<>>
    <2>1. msg \in Seq(Symbols) /\ \E u : CutAt(p, h, Text[p], Chomped(Text[p]), u, msg)
      BY <1>3, BlockOfText
    <2>2. \E u \in Nat : h * BLOCK <= u /\ Len(msg) = u - h * BLOCK + 2
      BY <2>1 DEF CutAt
    <2>3. h * BLOCK \in Nat
      BY SizesAssumption
    <2>4. Len(msg) # 0
      BY <2>2, <2>3
    <2> QED
      BY <2>1, <2>4, EmptySeq
  <1>6. Own(p, msg) /\ One(p, msg) = 1
    BY <1>4, <1>5 DEF Own, One
  <1>7. q # p => ~Own(q, msg) /\ One(q, msg) = 0
    <2>1. q # p => Line[q] # Line[p]
      BY LineAssumption
    <2>2. q # p => Mark(Line[q]) # Mark(Line[p])
      BY <2>1 DEF Mark
    <2> QED
      BY <2>2, <1>4 DEF Own, One
  <1>8. InOrder(p, k, held, msg, "write", at, msg)
    <2>1. (h + 1) * BLOCK = h * BLOCK + BLOCK
      BY SizesAssumption
    <2>2. at = Least((h + 1) * BLOCK, Len(Text[p]))
      BY <1>3, <2>1
    <2>3. Own(p, held) => MessageOf(p, held, k)
      BY DEF InOrder
    <2>4. MessageOf(p, msg, h)
      BY <1>3 DEF MessageOf
    <2> QED
      BY <1>2, <1>6, <2>2, <2>3, <2>4 DEF InOrder
  <1>9. ASSUME q # p, InOrder(q, j, held, <<>>, l, at2, out2)
        PROVE  InOrder(q, j, held, msg, l, at2, out2)
    BY <1>1, <1>7, <1>9 DEF InOrder
  <1> QED
    BY <1>8, <1>9

\* The same when a producer reads a block.
LEMMA OrderRead ==
  ASSUME NEW p \in Producer, NEW k \in Nat, NEW held, NEW chan, NEW at \in Nat, NEW msg,
         InOrder(p, k, held, chan, "read", at, msg), at < Len(Text[p])
  PROVE  InOrder(p, k, held, chan, "lock", Least(at + BLOCK, Len(Text[p])), Message(p, at))
  <1>1. One(p, held) \in {0, 1} /\ One(p, chan) \in {0, 1}
    BY OneIs
  <1>2. PICK h \in Nat : h = k + One(p, held)
    BY <1>1
  <1>3. PICK d \in Nat : d = h + One(p, chan)
    BY <1>1
  <1>4. /\ at = Least(d * BLOCK, Len(Text[p]))
        /\ Own(p, held) => MessageOf(p, held, k)
        /\ Own(p, chan) => MessageOf(p, chan, h)
    BY <1>2, <1>3 DEF InOrder
  <1>5. at = d * BLOCK
    BY <1>4 DEF Least
  <1>6. MessageOf(p, Message(p, at), d)
    BY <1>5 DEF MessageOf
  <1> QED
    BY <1>2, <1>3, <1>4, <1>5, <1>6 DEF InOrder

\* The same when the row has got the message of the consumer.
LEMMA OrderStored ==
  ASSUME NEW p \in Producer, NEW k \in Nat, NEW held, NEW chan, NEW l, NEW at, NEW msg,
         InOrder(p, k, held, chan, l, at, msg)
  PROVE  InOrder(p, k + One(p, held), <<>>, chan, l, at, msg) /\ k + One(p, held) \in Nat
  <1>1. One(p, held) \in {0, 1} /\ One(p, <<>>) = 0 /\ ~Own(p, <<>>)
    BY OneIs
  <1>2. PICK h \in Nat : h = k + One(p, held) /\ h + 0 = h
    BY <1>1
  <1> QED
    BY <1>1, <1>2 DEF InOrder

\* InOrder after a step, and what the row is then.
LEMMA SentAgain ==
  ASSUME NEW p \in Producer, NEW k \in Nat, RowAt(file, Line[p])' = Log!Blocks(p, k),
         InOrder(p, k, Held', Chan', pc'[p], pos'[p], out'[p])
  PROVE  Sent(p)'
  <1>1. InOrder(p, k, Held, Chan, pc[p], pos[p], out[p])'
    OBVIOUS
  <1>2. (RowAt(file, Line[p]) = Log!Blocks(p, k))'
    OBVIOUS
  <1> QED
    BY <1>1, <1>2 DEF Sent

\* The file stays as it is.
LEMMA SentStill ==
  ASSUME NEW p \in Producer, NEW k \in Nat, RowAt(file, Line[p]) = Log!Blocks(p, k),
         file' = file, InOrder(p, k, Held', Chan', pc'[p], pos'[p], out'[p])
  PROVE  Sent(p)'
  <1>1. InOrder(p, k, Held, Chan, pc[p], pos[p], out[p])'
    OBVIOUS
  <1>2. (RowAt(file, Line[p]) = Log!Blocks(p, k))'
    OBVIOUS
  <1> QED
    BY <1>1, <1>2 DEF Sent

-----------------------------------------------------------------------------
(***************************************************************************)
(* Each action keeps the rows and the messages in order.                   *)
(***************************************************************************)
\* How a producer goes on without a new message.
Goes(l, n, m, msg) ==
  \/ l = n /\ m = msg
  \/ l = "lock" /\ n = "poll" /\ m = msg
  \/ l = "start" /\ n = "open"
  \/ l = "open" /\ n = "read"
  \/ l = "unlock" /\ n = "read"
  \/ l = "write" /\ n \in {"write", "unlock"}
  \/ n \in {"done", "killed"}

\* A step that moves no message.
LEMMA Quiet ==
  ASSUME Rowed, file' = file, Held' = Held, Chan' = Chan,
         \A p \in Producer : pos'[p] = pos[p] /\ Goes(pc[p], pc'[p], out[p], out'[p])
  PROVE  Rowed'
  <1>1. ASSUME NEW p \in Producer
        PROVE  Sent(p)'
    <2>1. PICK k \in Nat : /\ RowAt(file, Line[p]) = Log!Blocks(p, k)
                           /\ InOrder(p, k, Held, Chan, pc[p], pos[p], out[p])
      BY DEF Rowed, Sent
    <2>2. InOrder(p, k, Held, Chan, pc'[p], pos[p], out'[p])
      <3>1. Goes(pc[p], pc'[p], out[p], out'[p])
        OBVIOUS
      <3> QED
        BY ONLY <2>1, <3>1, p \in Producer, k \in Nat, OrderStays DEF Goes
    <2>3. InOrder(p, k, Held', Chan', pc'[p], pos'[p], out'[p])
      BY <2>2
    <2> QED
      BY <2>1, <2>3, SentStill
  <1>2. WholeRows(file)'
    BY DEF Rowed, WholeRows
  <1> QED
    BY <1>1, <1>2 DEF Rowed

\* A process opens the FIFO.
LEMMA OpenFifoRows ==
  ASSUME IInv, Rowed, NEW p \in Process, OpenFifo(p) \/ Opened(p)
  PROVE  Rowed'
  <1> USE DEF IInv, Types
  <1> DEFINE l == IF pc[p] = "start" THEN "open" ELSE IF p \in Producer THEN "read" ELSE "lock"
  <1>1. /\ pc[p] \in {"start", "open"} /\ Goto(p, l)
        /\ UNCHANGED <<pipe, pipelock, filelock, file, pos, out, buf, outbuf, torn>>
    BY DEF OpenFifo, Opened, At, io, producerVars, consumerVars, history
  <1>2. /\ p \in Producer => (pc[p] = "start" /\ l = "open") \/ (pc[p] = "open" /\ l = "read")
        /\ p \in Consumer => l \in {"open", "lock"}
    <2>1. p \in Producer => (pc[p] = "start" /\ l = "open") \/ (pc[p] = "open" /\ l = "read")
      BY <1>1
    <2>2. p \in Consumer => l \in {"open", "lock"}
      BY <1>1, ProcessAssumption
    <2> QED
      BY <2>1, <2>2
  <1> HIDE DEF l
  <1>3. pc'[p] = l /\ \A q \in Process : q # p => pc'[q] = pc[q]
    BY <1>1, <1>2, Moves DEF ProducerLabel, ConsumerLabel
  <1>4. Got' = Got /\ Rest' = Rest /\ Held' = Held
    BY <1>1, <1>2, <1>3 DEF Got, Rest, Held, Process
  <1>5. \A q \in Producer : pos'[q] = pos[q] /\ Goes(pc[q], pc'[q], out[q], out'[q])
    BY <1>1, <1>2, <1>3 DEF Goes, Process
  <1>6. Chan' = Chan
    BY <1>1, <1>4 DEF Chan
  <1> QED
    BY <1>1, <1>4, <1>5, <1>6, Quiet

\* A producer takes the lock, or releases it.
LEMMA FifoLockRows ==
  ASSUME IInv, Rowed, NEW p \in Producer, LockFifo(p) \/ UnlockFifo(p)
  PROVE  Rowed'
  <1> USE DEF IInv, Types
  <1> DEFINE l == IF pc[p] = "lock" THEN "poll" ELSE "read"
  <1>1. /\ \/ pc[p] = "lock" /\ l = "poll" /\ pipelock = None /\ pipelock' = p
           \/ pc[p] = "unlock" /\ l = "read" /\ pipelock = p /\ pipelock' = None
        /\ Goto(p, l)
        /\ UNCHANGED <<pipe, filelock, file, pos, out, buf>>
    BY DEF LockFifo, UnlockFifo, At, Locks, producerVars, consumerVars, history
  <1> HIDE DEF l
  <1>2. /\ p \in Process /\ pc'[p] = l /\ \A q \in Process : q # p => pc'[q] = pc[q]
        /\ \A c \in Consumer : pc'[c] = pc[c]
    BY <1>1, ProducerMoves DEF ProducerLabel
  <1>3. Got' = Got /\ Rest' = Rest /\ Held' = Held
    BY <1>1, <1>2, ProcessAssumption DEF Got, Rest, Held, Process
  <1>4. \A q \in Producer : pos'[q] = pos[q] /\ Goes(pc[q], pc'[q], out[q], out'[q])
    BY <1>1, <1>2 DEF Goes, Process
  <1>5. Chan' = Chan
    BY <1>1, <1>3 DEF Chan
  <1> QED
    BY <1>1, <1>3, <1>4, <1>5, Quiet

\* A consumer takes the lock on the file or releases it, finds the end of the
\* FIFO, or reads the file.
LEMMA ConsumerRows ==
  ASSUME IInv, Rowed, ~torn, NEW c \in Consumer,
         LockFile(c) \/ UnlockFile(c) \/ FetchNothing(c) \/ Load(c)
  PROVE  Rowed'
  <1> USE DEF IInv, Types
  <1>1. PICK l \in ConsumerLabel :
          /\ \/ pc[c] = "lock" /\ l = "fetch" /\ filelock = None /\ filelock' = c
             \/ pc[c] = "unlock" /\ l = "lock" /\ filelock = c /\ filelock' = None
             \/ pc[c] = "fetch" /\ l \in {"close", "bad"} /\ filelock = c /\ filelock' = c
             \/ pc[c] = "load" /\ l = "store" /\ filelock = c /\ filelock' = c
          /\ Goto(c, l)
          /\ UNCHANGED <<pipe, pipelock, file, pos, out, buf>>
    <2>1. CASE LockFile(c) \/ UnlockFile(c)
      BY <2>1 DEF LockFile, UnlockFile, At, Locks, producerVars, consumerVars, ConsumerLabel
    <2>2. CASE FetchNothing(c)
      BY <2>2 DEF FetchNothing, At, Locks, io, producerVars, consumerVars, ConsumerLabel
    <2>3. CASE Load(c)
      <3>1. pc[c] = "load" /\ IsMark(buf[c][1])
        BY <2>3 DEF Load, At, Reading, IsMessage
      <3> QED
        BY <2>3, <3>1 DEF Load, At, Locks, io, producerVars, ConsumerLabel
    <2> QED
      BY <2>1, <2>2, <2>3
  <1>2. /\ c \in Process /\ pc'[c] = l /\ \A q \in Process : q # c => pc'[q] = pc[q]
        /\ \A p \in Producer : pc'[p] = pc[p]
    BY <1>1, ConsumerMoves
  <1>3. Rest' = Rest
    BY <1>1, <1>2 DEF Rest
  <1>4. pc[c] \in {"lock", "unlock"} => buf[c] = <<>>
    BY DEF Reading
  <1>5. pc[c] = "fetch" => buf[c] = <<>>
    <2> SUFFICES ASSUME pc[c] = "fetch"
                 PROVE  buf[c] = <<>>
      OBVIOUS
    <2>1. FetchNothing(c)
      BY DEF LockFile, UnlockFile, Load, At
    <2>2. Room(c) = 0 \/ (pipe = <<>> /\ Users(Producer) = {})
      BY <2>1 DEF FetchNothing
    <2> QED
      BY <2>2, RoomToFetch
  <1>6. Got' = Got /\ Held' = Held
    BY <1>1, <1>2, <1>4, <1>5, ProcessAssumption DEF Got, Held, Process
  <1>7. \A q \in Producer : pos'[q] = pos[q] /\ Goes(pc[q], pc'[q], out[q], out'[q])
    BY <1>1, <1>2 DEF Goes
  <1>8. Chan' = Chan
    BY <1>1, <1>3, <1>6 DEF Chan
  <1> QED
    BY <1>1, <1>6, <1>7, <1>8, Quiet

\* A producer puts what fits into the FIFO.
LEMMA WriteRows ==
  ASSUME IInv, Rowed, NEW p \in Producer, Write(p)
  PROVE  Rowed'
  <1> USE DEF IInv, Types
  <1>0. Chan' = Chan
    BY WriteKeeps
  <1>1. PICK l \in {"unlock", "write"} :
          /\ pc[p] = "write" /\ Goto(p, l)
          /\ UNCHANGED <<filelock, file, pos, buf>>
          /\ \A q \in Producer : q # p => out'[q] = out[q]
    BY DEF Write, At, consumerVars
  <1>2. /\ p \in Process /\ pc'[p] = l /\ \A q \in Process : q # p => pc'[q] = pc[q]
        /\ \A c \in Consumer : pc'[c] = pc[c]
    BY <1>1, ProducerMoves DEF ProducerLabel
  <1>3. Held' = Held
    BY <1>1, <1>2 DEF Held
  <1>4. \A q \in Producer : pos'[q] = pos[q] /\ Goes(pc[q], pc'[q], out[q], out'[q])
    BY <1>1, <1>2 DEF Goes, Process
  <1> QED
    BY <1>0, <1>1, <1>3, <1>4, Quiet

\* A producer finds the FIFO empty and begins to write.
LEMMA FifoEmptyRows ==
  ASSUME OneLine, IInv, Rowed, ~torn, NEW p \in Producer, FifoEmpty(p)
  PROVE  Rowed'
  <1> USE DEF IInv, Types
  <1>1. /\ pc[p] = "poll" /\ Goto(p, "write")
        /\ UNCHANGED <<filelock, file, pos, out, buf>>
    BY DEF FifoEmpty, At, io, producerVars, consumerVars
  <1>2. /\ p \in Process /\ pc'[p] = "write" /\ \A q \in Process : q # p => pc'[q] = pc[q]
        /\ \A c \in Consumer : pc'[c] = pc[c]
    BY <1>1, ProducerMoves DEF ProducerLabel
  <1>3. Chan = <<>> /\ Chan' = out[p]
    BY FifoEmptyKeeps
  <1>4. Held' = Held
    BY <1>1, <1>2 DEF Held
  <1>5. PICK k \in Nat : /\ RowAt(file, Line[p]) = Log!Blocks(p, k)
                         /\ InOrder(p, k, Held, <<>>, "poll", pos[p], out[p])
    BY <1>1, <1>3 DEF Rowed, Sent
  <1>6. ASSUME NEW q \in Producer
        PROVE  Sent(q)'
    <2>1. CASE q = p
      <3>1. InOrder(p, k, Held, out[p], "write", pos[p], out[p])
        BY <1>5, OrderWritten
      <3>2. InOrder(q, k, Held', Chan', pc'[q], pos'[q], out'[q])
        BY <3>1, <2>1, <1>1, <1>2, <1>3, <1>4
      <3> QED
        BY <3>2, <2>1, <1>1, <1>5, SentStill
    <2>2. CASE q # p
      <3>1. PICK j \in Nat : /\ RowAt(file, Line[q]) = Log!Blocks(q, j)
                             /\ InOrder(q, j, Held, <<>>, pc[q], pos[q], out[q])
        BY <1>3 DEF Rowed, Sent
      <3>2. InOrder(q, j, Held, out[p], pc[q], pos[q], out[q])
        BY <3>1, <2>2, <1>5, OrderWritten
      <3>3. InOrder(q, j, Held', Chan', pc'[q], pos'[q], out'[q])
        BY <3>2, <2>2, <1>1, <1>2, <1>3, <1>4 DEF Process
      <3> QED
        BY <3>1, <3>3, <1>1, SentStill
    <2> QED
      BY <2>1, <2>2
  <1>7. WholeRows(file)'
    BY <1>1 DEF Rowed, WholeRows
  <1> QED
    BY <1>6, <1>7 DEF Rowed

\* A producer takes a block of its text and makes a message of it.
LEMMA ReadBlockRows ==
  ASSUME IInv, Rowed, NEW p \in Producer, ReadBlock(p)
  PROVE  Rowed'
  <1> USE DEF IInv, Types
  <1>1. /\ pc[p] = "read" /\ pos[p] < Len(Text[p]) /\ Goto(p, "lock")
        /\ out'[p] = Message(p, pos[p]) /\ pos'[p] = Least(pos[p] + BLOCK, Len(Text[p]))
        /\ \A q \in Producer : q # p => pos'[q] = pos[q] /\ out'[q] = out[q]
        /\ UNCHANGED <<pipe, pipelock, filelock, file, buf>>
    BY DEF ReadBlock, At, io, consumerVars
  <1>2. /\ p \in Process /\ pc'[p] = "lock" /\ \A q \in Process : q # p => pc'[q] = pc[q]
        /\ \A c \in Consumer : pc'[c] = pc[c]
    BY <1>1, ProducerMoves DEF ProducerLabel
  <1>3. pipelock # p /\ (pipelock \in Producer => pc'[pipelock] = pc[pipelock] /\ out'[pipelock] = out[pipelock])
    BY <1>1, <1>2 DEF Locks, Process
  <1>4. Got' = Got /\ Rest' = Rest /\ Held' = Held
    BY <1>1, <1>2, <1>3 DEF Got, Rest, Held
  <1>5. Chan' = Chan
    BY <1>1, <1>4 DEF Chan
  <1>6. ASSUME NEW q \in Producer
        PROVE  Sent(q)'
    <2>1. PICK k \in Nat : /\ RowAt(file, Line[q]) = Log!Blocks(q, k)
                           /\ InOrder(q, k, Held, Chan, pc[q], pos[q], out[q])
      BY DEF Rowed, Sent
    <2>2. InOrder(q, k, Held', Chan', pc'[q], pos'[q], out'[q])
      <3>1. CASE q = p
        <4>1. InOrder(p, k, Held, Chan, "read", pos[p], out[p]) /\ pos[p] \in Nat
          BY <1>1, <2>1, <3>1
        <4>2. InOrder(p, k, Held, Chan, "lock", Least(pos[p] + BLOCK, Len(Text[p])), Message(p, pos[p]))
          BY <4>1, <1>1, OrderRead
        <4> QED
          BY <4>2, <3>1, <1>1, <1>2, <1>4, <1>5
      <3>2. CASE q # p
        BY <2>1, <3>2, <1>1, <1>2, <1>4, <1>5 DEF Process
      <3> QED
        BY <3>1, <3>2
    <2> QED
      BY <2>1, <2>2, <1>1, SentStill
  <1>7. WholeRows(file)'
    BY <1>1 DEF Rowed, WholeRows
  <1> QED
    BY <1>6, <1>7 DEF Rowed

\* What is in the FIFO goes with its last user.
LEMMA Emptied ==
  ASSUME Rowed, file' = file, Held' = Held, Chan' = <<>>,
         \A q \in Producer : pos'[q] = pos[q] /\ out'[q] = out[q],
         \A q \in Producer : \/ pc'[q] \in {"done", "killed"}
                             \/ pc'[q] = pc[q] /\ (pc[q] = "start" \/ ~Own(q, Chan))
  PROVE  Rowed'
  <1>1. ASSUME NEW q \in Producer
        PROVE  Sent(q)'
    <2>1. PICK k \in Nat : /\ RowAt(file, Line[q]) = Log!Blocks(q, k)
                           /\ InOrder(q, k, Held, Chan, pc[q], pos[q], out[q])
      BY DEF Rowed, Sent
    <2>2. pc[q] = "start" => ~Own(q, Chan)
      BY <2>1 DEF InOrder
    <2>3. pc'[q] \in {"done", "killed"} \/ (pc'[q] = pc[q] /\ ~Own(q, Chan))
      BY <2>2
    <2>4. InOrder(q, k, Held, <<>>, pc'[q], pos[q], out[q])
      BY ONLY <2>1, <2>3, q \in Producer, k \in Nat, OrderEmptied
    <2>5. InOrder(q, k, Held', Chan', pc'[q], pos'[q], out'[q])
      BY <2>4
    <2> QED
      BY <2>1, <2>5, SentStill
  <1>2. WholeRows(file)'
    BY DEF Rowed, WholeRows
  <1> QED
    BY <1>1, <1>2 DEF Rowed

\* The other processes when one is the last to have the FIFO open.
LEMMA OthersOut ==
  ASSUME Labels, NEW p \in Process, Users(Process) = {p}, NEW q \in Producer, q # p
  PROVE  pc[q] \in {"start", "done", "killed"}
  <1>1. q \in Process /\ q \notin Users(Process)
    BY DEF Process
  <1> QED
    BY <1>1 DEF Users, Ended, Labels, ProducerLabel

\* The producer that writes has its own message in the FIFO.
LEMMA WritesOwn ==
  ASSUME Rowed, NEW p \in Producer, pc[p] = "write", NEW q \in Producer, q # p
  PROVE  ~Own(q, Chan)
  <1>1. Own(p, Chan)
    BY DEF Rowed, Sent, InOrder
  <1>2. Line[q] # Line[p]
    BY LineAssumption
  <1> QED
    BY <1>1, <1>2 DEF Own, Mark

\* A producer is killed, or has come to the end of its text.
LEMMA ProducerLeavesRows ==
  ASSUME IInv, Rowed, ~torn', NEW p \in Producer, BrokenPipe(p) \/ ProducerDone(p)
  PROVE  Rowed'
  <1> USE DEF IInv, Types
  <1>1. PICK l \in {"killed", "done"} :
          /\ pc[p] \in {"write", "read"} /\ Goto(p, l)
          /\ UNCHANGED <<filelock, file, pos, out, buf>>
    BY DEF BrokenPipe, ProducerDone, Leave, At, producerVars, consumerVars
  <1>2. /\ p \in Process /\ pc'[p] = l /\ \A q \in Process : q # p => pc'[q] = pc[q]
        /\ \A c \in Consumer : pc'[c] = pc[c]
    BY <1>1, ProducerMoves DEF ProducerLabel
  <1>3. Held' = Held
    BY <1>1, <1>2 DEF Held
  <1>4. CASE Chan' = <<>> /\ (pc[p] = "write" \/ Users(Process) = {p})
    <2>1. ASSUME NEW q \in Producer, q # p
          PROVE  pc'[q] \in {"done", "killed"} \/ (pc'[q] = pc[q] /\ (pc[q] = "start" \/ ~Own(q, Chan)))
      <3>1. pc'[q] = pc[q]
        BY <2>1, <1>2 DEF Process
      <3>2. CASE pc[p] = "write"
        BY <2>1, <3>1, <3>2, WritesOwn
      <3>3. CASE Users(Process) = {p}
        BY <2>1, <3>1, <3>3, <1>2, OthersOut
      <3> QED
        BY <3>2, <3>3, <1>4
    <2>2. \A q \in Producer : \/ pc'[q] \in {"done", "killed"}
                              \/ pc'[q] = pc[q] /\ (pc[q] = "start" \/ ~Own(q, Chan))
      BY <2>1, <1>2
    <2>3. \A q \in Producer : pos'[q] = pos[q] /\ out'[q] = out[q]
      BY <1>1
    <2> QED
      BY <2>2, <2>3, <1>1, <1>3, <1>4, Emptied
  <1>5. CASE Chan' = Chan
    <2>1. \A q \in Producer : pos'[q] = pos[q] /\ Goes(pc[q], pc'[q], out[q], out'[q])
      BY <1>1, <1>2 DEF Goes, Process
    <2> QED
      BY <2>1, <1>1, <1>3, <1>5, Quiet
  <1> QED
    BY <1>4, <1>5, ProducerLeaves

\* A consumer ends.
LEMMA CloseRows ==
  ASSUME IInv, Rowed, NEW c \in Consumer, Close(c)
  PROVE  Rowed'
  <1> USE DEF IInv, Types
  <1>1. PICK l \in {"done", "failed"} :
          /\ pc[c] \in {"close", "bad"} /\ Goto(c, l)
          /\ filelock' = IF filelock = c THEN None ELSE filelock
          /\ UNCHANGED <<file, pos, out, buf>>
    BY DEF Close, Leave, At, producerVars, consumerVars
  <1>2. /\ c \in Process /\ pc'[c] = l /\ \A q \in Process : q # c => pc'[q] = pc[q]
        /\ \A p \in Producer : pc'[p] = pc[p]
    BY <1>1, ConsumerMoves DEF ConsumerLabel
  <1>3. Held' = Held
    BY <1>1, <1>2, ProcessAssumption DEF Held, Process
  <1>4. \A q \in Producer : pos'[q] = pos[q] /\ out'[q] = out[q]
    BY <1>1
  <1>5. CASE Chan' = <<>> /\ Users(Process) = {c}
    <2>1. \A q \in Producer : q # c
      BY ProcessAssumption
    <2>2. \A q \in Producer : pc'[q] = pc[q] /\ pc[q] \in {"start", "done", "killed"}
      BY <2>1, <1>2, <1>5, OthersOut
    <2> QED
      BY <2>2, <1>1, <1>3, <1>4, <1>5, Emptied
  <1>6. CASE Chan' = Chan
    <2>1. \A q \in Producer : pos'[q] = pos[q] /\ Goes(pc[q], pc'[q], out[q], out'[q])
      BY <1>2, <1>4 DEF Goes
    <2> QED
      BY <2>1, <1>1, <1>3, <1>6, Quiet
  <1> QED
    BY <1>5, <1>6, CloseKeeps

\* A consumer takes what is in the FIFO.
LEMMA FetchRows ==
  ASSUME IInv, Rowed, ~torn, NEW c \in Consumer, Fetch(c)
  PROVE  Rowed'
  <1> USE DEF IInv, Types
  <1>1. PICK l \in {"load", "fetch"} :
          /\ pc[c] = "fetch" /\ Goto(c, l)
          /\ UNCHANGED <<filelock, file, pos, out>>
    BY DEF Fetch, At, producerVars
  <1>2. /\ c \in Process /\ pc'[c] = l /\ \A q \in Process : q # c => pc'[q] = pc[q]
        /\ \A p \in Producer : pc'[p] = pc[p]
    BY <1>1, ConsumerMoves DEF ConsumerLabel
  <1>3. filelock = c /\ Held = <<>>
    BY <1>1 DEF Locks, Held
  <1>4. CASE l = "fetch"
    <2>1. Chan' = Chan
      BY <1>2, <1>4, FetchKeeps
    <2>2. Held' = <<>>
      BY <1>1, <1>2, <1>3, <1>4 DEF Held
    <2>3. \A q \in Producer : pos'[q] = pos[q] /\ Goes(pc[q], pc'[q], out[q], out'[q])
      BY <1>1, <1>2 DEF Goes
    <2> QED
      BY <2>1, <2>2, <2>3, <1>1, <1>3, Quiet
  <1>5. CASE l = "load"
    <2>1. Rest = <<>> /\ buf'[c] = Chan /\ Chan' = <<>>
      BY <1>2, <1>5, FetchKeeps
    <2>2. Held' = Chan
      BY <2>1, <1>1, <1>2, <1>3, <1>5 DEF Held
    <2>3. \A q \in Producer : pc[q] # "write"
      BY <2>1, Turns DEF Writing
    <2>4. ASSUME NEW q \in Producer
          PROVE  Sent(q)'
      <3>1. PICK k \in Nat : /\ RowAt(file, Line[q]) = Log!Blocks(q, k)
                             /\ InOrder(q, k, <<>>, Chan, pc[q], pos[q], out[q])
        BY <1>3 DEF Rowed, Sent
      <3>2. InOrder(q, k, Chan, <<>>, pc[q], pos[q], out[q])
        BY <3>1, <2>3, OrderFetched
      <3>3. InOrder(q, k, Held', Chan', pc'[q], pos'[q], out'[q])
        BY <3>2, <2>1, <2>2, <1>1, <1>2
      <3> QED
        BY <3>1, <3>3, <1>1, SentStill
    <2>5. WholeRows(file)'
      BY <1>1 DEF Rowed, WholeRows
    <2> QED
      BY <2>4, <2>5 DEF Rowed
  <1> QED
    BY <1>4, <1>5

\* The rows when a line has been added.
LEMMA RowsAfter ==
  ASSUME NEW f, NEW s \in Seq(Symbols), NEW l \in Nat \ {0}, NEW body, AddedTo(f, s, l, body)
  PROVE  /\ RowAt(f, l) = Behind(RowAt(s, l), body)
         /\ \A i \in Nat \ {0} : i # l => RowAt(f, i) = RowAt(s, i)
  <1>1. RowCount(s) \in Nat /\ RowCount(f) = IF l > RowCount(s) THEN l ELSE RowCount(s)
    BY EndsFinite DEF AddedTo
  <1>2. \A i \in 1 .. RowCount(f) :
          Row(f, i) = IF i = l THEN Behind(RowAt(s, l), body) ELSE RowAt(s, i)
    BY DEF AddedTo
  <1>3. RowAt(f, l) = Behind(RowAt(s, l), body)
    <2>1. l \in 1 .. RowCount(f) /\ l <= RowCount(f)
      BY <1>1
    <2>2. RowAt(f, l) = Row(f, l)
      BY <2>1 DEF RowAt
    <2> QED
      BY <2>1, <2>2, <1>2
  <1>4. ASSUME NEW i \in Nat \ {0}, i # l
        PROVE  RowAt(f, i) = RowAt(s, i)
    <2>1. CASE i <= RowCount(f)
      <3>1. i \in 1 .. RowCount(f)
        BY <2>1, <1>1
      <3>2. RowAt(f, i) = Row(f, i)
        BY <2>1 DEF RowAt
      <3> QED
        BY <3>1, <3>2, <1>2, <1>4
    <2>2. CASE ~(i <= RowCount(f))
      <3>1. ~(i <= RowCount(s))
        BY <2>2, <1>1
      <3> QED
        BY <2>2, <3>1 DEF RowAt
    <2> QED
      BY <2>1, <2>2
  <1> QED
    BY <1>3, <1>4

\* Row p gets one more block of p's text.
Grown(p) ==
  \E k \in 0 .. Len(Chomped(Text[p])) : \E body :
    /\ RowAt(file, Line[p]) = Log!Blocks(p, k)
    /\ Behind(Log!Blocks(p, k), body) = Log!Blocks(p, k + 1)
    /\ AddedTo(file', file, Line[p], body)

\* A consumer adds its message to the file.
LEMMA StoreRows ==
  ASSUME OneLine, IInv, Rowed, ~torn, NEW c \in Consumer, Store(c)
  PROVE  Rowed' /\ \E p \in Producer : Grown(p)
  <1> USE DEF IInv, Types
  <1> DEFINE s == buf[c]
             end == EndOfRow(s, 1)
             rest == Drop(s, end)
             l == IF rest = <<>> THEN "unlock" ELSE "load"
  <1>1. /\ pc[c] = "store" /\ Goto(c, l)
        /\ file' = AddToRow(SubSeq(s, 2, end), s[1][2], c)
        /\ UNCHANGED <<pipe, pipelock, filelock, pos, out>>
    BY DEF Store, At, producerVars, history
  <1>2. s \in Seq(Symbols) /\ IsMessage(s) /\ outbuf[c] = file /\ file \in Seq(Symbols)
    BY <1>1 DEF Reading
  <1>3. end = Len(s)
    BY <1>1, FirstLine
  <1>4. l = "unlock"
    <2>1. Drop(s, Len(s)) = <<>>
      BY <1>2, DropAll
    <2> QED
      BY <2>1, <1>3
  <1>5. filelock = c /\ filelock' = c /\ Held = s
    BY <1>1 DEF Locks, Held
  <1> HIDE DEF s, end, rest, l
  <1>6. /\ c \in Process /\ pc'[c] = "unlock" /\ \A q \in Process : q # c => pc'[q] = pc[q]
        /\ \A q \in Producer : pc'[q] = pc[q]
    BY <1>1, <1>4, ConsumerMoves DEF ConsumerLabel
  <1>7. Held' = <<>> /\ Chan' = Chan
    <2>1. Held' = <<>>
      BY <1>5, <1>6 DEF Held
    <2>2. Got' = Got
      BY <1>1, <1>5, <1>6 DEF Got
    <2>3. Rest' = Rest
      BY <1>1, <1>6 DEF Rest
    <2> QED
      BY <2>1, <2>2, <2>3, <1>1 DEF Chan
  <1>8. s # <<>> /\ s[1] \in Symbols /\ IsMark(s[1])
    <2>1. Len(s) \in 2 .. BLOCK + 2 /\ IsMark(s[1])
      BY <1>2 DEF IsMessage
    <2>2. 1 \in 1 .. Len(s) /\ Len(s) # 0
      BY <2>1, SizesAssumption
    <2> QED
      BY <2>1, <2>2, <1>2, EmptySeq, ElementOfSeq
  <1>9. PICK p \in Producer : s[1] = Mark(Line[p])
    BY <1>8, SymbolFacts
  <1>10. Own(p, s) /\ One(p, s) = 1 /\ Line[p] \in Nat \ {0} /\ s[1][2] = Line[p]
    BY <1>8, <1>9, LineAssumption, SymbolFacts DEF Own, One
  <1>11. PICK k \in Nat : /\ RowAt(file, Line[p]) = Log!Blocks(p, k)
                          /\ InOrder(p, k, s, Chan, pc[p], pos[p], out[p])
    BY <1>5 DEF Rowed, Sent
  <1>12. k * BLOCK < Len(Text[p]) /\ s = Message(p, k * BLOCK)
    BY <1>10, <1>11 DEF InOrder, MessageOf
  <1>13. /\ k \in 0 .. Len(Chomped(Text[p]))
         /\ \E body : /\ IsLine(SubSeq(s, 2, Len(s)), body)
                      /\ Behind(Log!Blocks(p, k), body) = Log!Blocks(p, k + 1)
    BY <1>12, BlockAdded
  <1>14. PICK body : /\ IsLine(SubSeq(s, 2, Len(s)), body)
                     /\ Behind(Log!Blocks(p, k), body) = Log!Blocks(p, k + 1)
    BY <1>13
  <1>15. AddedTo(file', file, Line[p], body) /\ WholeRows(file')
    <2>1. file' = AddToRow(SubSeq(s, 2, Len(s)), Line[p], c)
      BY <1>1, <1>3, <1>10
    <2>2. WholeRows(file)
      BY DEF Rowed
    <2> QED
      BY <2>1, <2>2, <1>2, <1>10, <1>14, FileGrows
  <1>16. /\ RowAt(file', Line[p]) = Log!Blocks(p, k + 1)
         /\ \A i \in Nat \ {0} : i # Line[p] => RowAt(file', i) = RowAt(file, i)
    BY <1>2, <1>10, <1>11, <1>14, <1>15, RowsAfter
  <1>17. ASSUME NEW q \in Producer
         PROVE  Sent(q)'
    <2>1. CASE q = p
      <3>1. InOrder(p, k + 1, <<>>, Chan, pc[p], pos[p], out[p]) /\ k + 1 \in Nat
        BY <1>10, <1>11, OrderStored
      <3>2. InOrder(q, k + 1, Held', Chan', pc'[q], pos'[q], out'[q])
        BY <3>1, <2>1, <1>1, <1>6, <1>7
      <3>3. RowAt(file, Line[q])' = Log!Blocks(q, k + 1)
        BY <2>1, <1>16
      <3> QED
        BY <3>1, <3>2, <3>3, SentAgain
    <2>2. CASE q # p
      <3>1. PICK j \in Nat : /\ RowAt(file, Line[q]) = Log!Blocks(q, j)
                             /\ InOrder(q, j, s, Chan, pc[q], pos[q], out[q])
        BY <1>5 DEF Rowed, Sent
      <3>2. Line[q] # Line[p] /\ Line[q] \in Nat \ {0}
        BY <2>2, LineAssumption
      <3>3. One(q, s) = 0 /\ j + 0 = j
        BY <3>2, <1>9 DEF One, Own, Mark
      <3>4. InOrder(q, j, <<>>, Chan, pc[q], pos[q], out[q])
        BY <3>1, <3>3, OrderStored
      <3>5. InOrder(q, j, Held', Chan', pc'[q], pos'[q], out'[q])
        BY <3>4, <1>1, <1>6, <1>7
      <3>6. RowAt(file, Line[q])' = Log!Blocks(q, j)
        BY <3>1, <3>2, <1>16
      <3> QED
        BY <3>5, <3>6, SentAgain
    <2> QED
      BY <2>1, <2>2
  <1>18. WholeRows(file)'
    BY <1>15
  <1>19. Grown(p)
    BY <1>11, <1>13, <1>14, <1>15 DEF Grown
  <1> QED
    BY <1>17, <1>18, <1>19 DEF Rowed

\* At first no message has been made, and the file is empty.
LEMMA InitRows ==
  ASSUME Init PROVE Rowed
  <1>1. file = <<>> /\ Held = <<>> /\ Chan = <<>>
    <2>1. Got = <<>> /\ Rest = <<>> /\ Held = <<>> /\ pipe = <<>>
      BY ProcessAssumption DEF Init, Got, Rest, Held
    <2> QED
      BY <2>1, ConcatEmptySeq, EmptySeq DEF Init, Chan
  <1>2. ASSUME NEW l \in Nat \ {0}
        PROVE  RowAt(<<>>, l) = <<>>
    <2>1. Ends(<<>>) = {}
      BY EmptySeq DEF Ends
    <2>2. RowCount(<<>>) = 0
      BY <2>1, FS_EmptySet DEF RowCount
    <2> QED
      BY <2>2 DEF RowAt
  <1>3. ASSUME NEW p \in Producer
        PROVE  Sent(p)
    <2>1. pc[p] = "start" /\ pos[p] = 0 /\ Line[p] \in Nat \ {0} /\ Len(Text[p]) \in Nat
      BY LineAssumption, TextAssumption, LenProperties DEF Init, Process
    <2>2. Log!Blocks(p, 0) = <<>>
      <3>1. PICK t, v : t = Text[p] /\ v = Chomped(t)
        OBVIOUS
      <3>2. v \in Seq(Symbols) /\ Len(v) \in Nat
        <4>1. t \in Seq(Symbols)
          BY <3>1, TextAssumption
        <4>2. SubSeq(t, 1, Len(t) - 1) \in Seq(Symbols)
          <5>1. \A i \in 1 .. Len(t) - 1 : t[i] \in Symbols
            BY <4>1, ElementOfSeq, LenProperties
          <5> QED
            BY <5>1, <4>1, LenProperties, SubSeqProperties
        <4> QED
          BY <3>1, <4>1, <4>2, LenProperties DEF Chomped
      <3>3. Log!Least(0 * BLOCK, Len(v)) = 0
        BY <3>2, SizesAssumption DEF Log!Least
      <3>4. SubSeq(v, 1, 0) = <<>>
        BY <3>2, SubSeqProperties, EmptySeq
      <3> QED
        BY <3>1, <3>3, <3>4 DEF Log!Blocks
    <2>3. InOrder(p, 0, <<>>, <<>>, "start", 0, out[p])
      <3>1. One(p, <<>>) = 0 /\ ~Own(p, <<>>) /\ 0 + 0 = 0
        BY OneIs
      <3>2. 0 = Least(0 * BLOCK, Len(Text[p]))
        BY <2>1, SizesAssumption DEF Least
      <3> QED
        BY <3>1, <3>2 DEF InOrder
    <2> QED
      BY <1>1, <1>2, <2>1, <2>2, <2>3 DEF Sent
  <1> QED
    BY <1>1, <1>3 DEF Rowed, WholeRows

\* A message that is torn stays torn; only a producer that is killed tears one.
LEMMA TornStays ==
  ASSUME IInv, [Next]_vars
  PROVE  /\ torn' \in BOOLEAN /\ (torn => torn')
         /\ torn' # torn => file' = file
         /\ file' # file => \E c \in Consumer : Store(c)
  <1>0. torn \in BOOLEAN
    BY DEF IInv, Types
  <1>1. ASSUME NEW p \in Process, OpenFifo(p) \/ Opened(p)
        PROVE  torn' = torn /\ file' = file
    BY <1>1 DEF OpenFifo, Opened, io, history
  <1>2. ASSUME NEW p \in Producer, ProducerStep(p)
        PROVE  torn' \in BOOLEAN /\ (torn => torn') /\ file' = file
    <2>1. CASE ReadBlock(p) \/ LockFifo(p) \/ FifoEmpty(p) \/ Write(p) \/ UnlockFifo(p) \/ ProducerDone(p)
      BY <1>0, <2>1 DEF ReadBlock, LockFifo, FifoEmpty, Write, UnlockFifo, ProducerDone, io, history
    <2>2. CASE BrokenPipe(p)
      <3>1. torn' = (torn \/ (Users(Process) # {p} /\ ~IsMark(out[p][1]))) /\ file' = file
        BY <2>2 DEF BrokenPipe
      <3> QED
        BY <3>1
    <2> QED
      BY <1>0, <1>2, <2>1, <2>2 DEF ProducerStep
  <1>3. ASSUME NEW c \in Consumer, ConsumerStep(c)
        PROVE  torn' = torn /\ (Store(c) \/ file' = file)
    BY <1>3 DEF ConsumerStep, LockFile, Fetch, FetchNothing, Load, Store, UnlockFile, Close, io, history
  <1>4. CASE UNCHANGED vars
    BY <1>0, <1>4 DEF vars, io, history
  <1> QED
    BY <1>0, <1>1, <1>2, <1>3, <1>4 DEF Next

\* Every step keeps the order as long as no message is torn.
LEMMA RowedKept ==
  ASSUME OneLine, IInv, Rowed, ~torn, ~torn', [Next]_vars
  PROVE  Rowed'
  <1>1. ASSUME NEW p \in Process, OpenFifo(p) \/ Opened(p)
        PROVE  Rowed'
    BY <1>1, OpenFifoRows
  <1>2. ASSUME NEW p \in Producer, ProducerStep(p)
        PROVE  Rowed'
    BY <1>2, ReadBlockRows, FifoLockRows, FifoEmptyRows, WriteRows, ProducerLeavesRows
    DEF ProducerStep
  <1>3. ASSUME NEW c \in Consumer, ConsumerStep(c)
        PROVE  Rowed'
    BY <1>3, ConsumerRows, FetchRows, StoreRows, CloseRows DEF ConsumerStep
  <1>4. CASE UNCHANGED vars
    <2>1. UNCHANGED <<pc, pipe, pipelock, filelock, file, pos, out, buf>>
      BY <1>4 DEF vars, io, producerVars, consumerVars
    <2>2. Held' = Held /\ Chan' = Chan
      BY <2>1 DEF Held, Chan, Got, Rest
    <2>3. \A q \in Producer : pos'[q] = pos[q] /\ Goes(pc[q], pc'[q], out[q], out'[q])
      BY <2>1 DEF Goes
    <2> QED
      BY <2>1, <2>2, <2>3, Quiet
  <1> QED
    BY <1>1, <1>2, <1>3, <1>4 DEF Next

\* The rows as a sequence.
LEMMA RowsOf ==
  ASSUME NEW s \in Seq(Symbols)
  PROVE  /\ RowCount(s) \in Nat /\ Len(Rows(s)) = RowCount(s)
         /\ \A i \in Nat \ {0} : RowAt(s, i) = IF i <= Len(Rows(s)) THEN Rows(s)[i] ELSE <<>>
         /\ RowCount(s) = 0 => Rows(s) = <<>>
  <1>1. RowCount(s) \in Nat
    BY EndsFinite
  <1>2. PICK n \in Nat : n = RowCount(s)
    BY <1>1
  <1>3. Rows(s) = [i \in 1 .. n |-> Row(s, i)]
    BY <1>2 DEF Rows
  <1>4. Rows(s) \in Seq({Row(s, i) : i \in 1 .. n})
    BY <1>3, IsASeq
  <1>5. Len(Rows(s)) = n
    BY <1>3, <1>4, LenProperties
  <1>6. ASSUME NEW i \in Nat \ {0}
        PROVE  RowAt(s, i) = IF i <= Len(Rows(s)) THEN Rows(s)[i] ELSE <<>>
    BY <1>2, <1>3, <1>5 DEF RowAt
  <1>7. n = 0 => Rows(s) = <<>>
    BY <1>4, <1>5, EmptySeq
  <1> QED
    BY <1>2, <1>5, <1>6, <1>7

\* A row that grows by a block is a step of the abstract log.
LEMMA GrownAppends ==
  ASSUME file \in Seq(Symbols), NEW p \in Producer, Grown(p)
  PROVE  Log!AppendBlock(p)
  <1>0. PICK k \in 0 .. Len(Chomped(Text[p])) : \E body :
          /\ RowAt(file, Line[p]) = Log!Blocks(p, k)
          /\ Behind(Log!Blocks(p, k), body) = Log!Blocks(p, k + 1)
          /\ AddedTo(file', file, Line[p], body)
    BY DEF Grown
  <1>1. PICK body :
          /\ RowAt(file, Line[p]) = Log!Blocks(p, k)
          /\ Behind(Log!Blocks(p, k), body) = Log!Blocks(p, k + 1)
          /\ AddedTo(file', file, Line[p], body)
    BY <1>0
  <1>2. PICK l \in Nat \ {0} : l = Line[p]
    BY LineAssumption
  <1>3. /\ RowCount(file) \in Nat /\ Len(Rows(file)) = RowCount(file)
        /\ \A i \in Nat \ {0} : RowAt(file, i) = Log!RowOf(i)
    BY RowsOf DEF Log!RowOf
  <1>4. Log!RowOf(l) = Log!Blocks(p, k)
    BY <1>1, <1>2, <1>3
  <1>5. /\ RowCount(file') = Log!Most(l, Len(Rows(file)))
        /\ \A i \in 1 .. RowCount(file') :
             Row(file', i) = IF i = l THEN Log!Blocks(p, k + 1) ELSE RowAt(file, i)
    <2>1. Log!Most(l, Len(Rows(file))) = IF l > RowCount(file) THEN l ELSE RowCount(file)
      BY <1>2, <1>3 DEF Log!Most
    <2> QED
      BY <2>1, <1>1, <1>2 DEF AddedTo
  <1>6. Rows(file)' = [i \in 1 .. Log!Most(l, Len(Rows(file))) |->
                         IF i = l THEN Log!Blocks(p, k + 1) ELSE Log!RowOf(i)]
    <2>1. Rows(file)' = [i \in 1 .. RowCount(file') |-> Row(file', i)]
      BY DEF Rows
    <2>2. \A i \in 1 .. RowCount(file') :
             Row(file', i) = IF i = l THEN Log!Blocks(p, k + 1) ELSE Log!RowOf(i)
      <3>1. Log!Most(l, Len(Rows(file))) \in Nat
        BY <1>2, <1>3 DEF Log!Most
      <3>2. \A i \in 1 .. RowCount(file') : i \in Nat \ {0}
        BY <3>1, <1>5
      <3> QED
        BY <3>2, <1>3, <1>5
    <2> QED
      BY <2>1, <2>2, <1>5
  <1> QED
    BY <1>1, <1>2, <1>4, <1>6 DEF Log!AppendBlock

\* Every step is a step of the abstract log, or changes nothing there.
LEMMA StepRefines ==
  ASSUME OneLine, RInv, [Next]_vars
  PROVE  [Log!ANext]_Log!avars
  <1>1. IInv /\ file \in Seq(Symbols) /\ torn \in BOOLEAN
    BY DEF RInv, IInv, Types
  <1>2. torn' \in BOOLEAN /\ (torn => torn') /\ (file' # file => \E c \in Consumer : Store(c))
    BY <1>1, TornStays
  <1>3. CASE torn
    BY <1>2, <1>3 DEF Log!ANext
  <1>4. CASE ~torn /\ file' = file
    <2>1. Rows(file)' = Rows(file)
      BY <1>4
    <2>2. CASE torn' = torn
      BY <2>1, <2>2 DEF Log!avars
    <2>3. CASE torn' # torn
      BY <2>1, <2>3, <1>1, <1>2, <1>4 DEF Log!ANext, Log!Tear
    <2> QED
      BY <2>2, <2>3
  <1>5. CASE ~torn /\ file' # file
    <2>1. PICK c \in Consumer : Store(c)
      BY <1>2, <1>5
    <2>2. \E p \in Producer : Grown(p)
      BY <2>1, <1>1, <1>5, StoreRows DEF RInv
    <2>3. \E p \in Producer : Log!AppendBlock(p)
      BY <2>2, <1>1, GrownAppends
    <2>4. torn' = torn
      BY <2>1 DEF Store, history
    <2> QED
      BY <2>3, <2>4, <1>5 DEF Log!ANext
  <1> QED
    BY <1>3, <1>4, <1>5

\* For texts of one line the file is at any time, by rows, what the abstract
\* log is: each row a prefix, by whole blocks, of what its producer read;
\* nothing is lost, doubled or mixed with another row ("nie tracimy ani nie
\* mieszamy danych", wnioski.txt:1), unless a message is torn.
THEOREM RowLogImplemented ==
  ASSUME OneLine PROVE Spec => ImplementsRowLog
  <1>1. LinesEndBlocks
    BY DEF OneLine, LinesEndBlocks
  <1>2. Init => RInv
    BY Initially, InitRows DEF RInv
  <1>3. RInv /\ IInv' /\ [Next]_vars => RInv'
    <2>1. RInv /\ IInv' /\ [Next]_vars => (torn => torn') /\ IInv'
      BY TornStays DEF RInv
    <2>2. RInv /\ ~torn /\ ~torn' /\ [Next]_vars => Rowed'
      BY RowedKept DEF RInv
    <2> QED
      BY <2>1, <2>2 DEF RInv
  <1>4. Spec => []IInv
    BY <1>1, Invariant
  <1>5. Init => Log!AInit
    <2> SUFFICES ASSUME Init PROVE Log!AInit
      OBVIOUS
    <2>1. RowCount(<<>>) = 0
      <3>1. Ends(<<>>) = {}
        BY EmptySeq DEF Ends
      <3> QED
        BY <3>1, FS_EmptySet DEF RowCount
    <2>2. Rows(<<>>) = <<>>
      <3>1. <<>> \in Seq(Symbols)
        BY EmptySeq
      <3> QED
        BY <3>1, <2>1, RowsOf
    <2> QED
      BY <2>2 DEF Init, Log!AInit
  <1>6. RInv /\ [Next]_vars => [Log!ANext]_Log!avars
    BY StepRefines
  <1> QED
    BY <1>2, <1>3, <1>4, <1>5, <1>6, PTL DEF Spec, ImplementsRowLog, Log!ASpec
=============================================================================
