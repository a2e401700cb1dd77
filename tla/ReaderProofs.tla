---------------------------- MODULE ReaderProofs ----------------------------
(***************************************************************************)
(* Programs that read a file in pieces, for any file and any size of the   *)
(* buffer: the search for a text (lab3/zad3), the line filter (lab2/zad1)  *)
(* and the reader of images (lab8).  Each has an inductive invariant that  *)
(* says how what is in the buffer lies in the file, and that what has been *)
(* found, written or stored so far is what the whole file makes of the part*)
(* before; SequentialProofs puts them together.                            *)
(*                                                                         *)
(* The longest argument is that of the images.  Its first part is about the*)
(* operators: blanks, numbers and comments are read in the buffer as in the*)
(* file unless they reach the end of the buffer.  Its invariant (ImageInv) *)
(* says where in the file the reader is: between a place the formats name  *)
(* (where a token is looked for, where a sample is) and the first byte of  *)
(* what is looked for there; and that an image has more to come, and room  *)
(* for it, when the reader asks for more.  Every step keeps that, or ends  *)
(* with the answer the formats give, or was one of the steps that take the *)
(* end of the buffer for the end of a token (fragile).  A newline is       *)
(* skipped with blanks of a comment only at the front of the buffer, or    *)
(* right behind a token (Glued), which the formats allow and this reader   *)
(* does not bear (EmptyComment).                                           *)
(***************************************************************************)
EXTENDS MCSequential, SequenceTheorems, FiniteSetTheorems, WellFoundedInduction, TLAPS

LEMMA Least ==
  ASSUME NEW X, X \subseteq Nat, X # {}
  PROVE  \E m \in X : \A l \in X : m <= l
  <1>1. PICK m \in X : \A l \in X : ~(<<l, m>> \in OpToRel(<, Nat))
    BY WFMin, NatLessThanWellFounded
  <1>2. \A l \in X : ~(l < m)
    BY <1>1 DEF OpToRel
  <1> QED
    BY <1>2

-----------------------------------------------------------------------------
(***************************************************************************)
(* lab3/zad3: the search is exact for any file, any text and any size of   *)
(* buffer, however read() cuts the file.  The invariant says what a search *)
(* that goes on has learnt: the text does not occur in what has been read, *)
(* and the kept bytes are the last of it, as many as the text has.         *)
(***************************************************************************)
\* needle stands in t after the first i elements
OccursAt(t, i) == \A k \in 1..Len(needle) : t[i + k] = needle[k]
\* needle stands in the first n elements of t
OccursIn(t, n) == \E i \in Nat : i + Len(needle) <= n /\ OccursAt(t, i)
\* the first byte of the file that is still in the buffer, from 0
KeptFrom == IF off = 0 THEN 0 ELSE off - Len(needle)

Progress ==
  outcome = "reading" =>
    /\ KeptFrom \in 0..off
    /\ buf = SubSeq(src.bytes, KeptFrom + 1, off)
    /\ ~OccursIn(src.bytes, off)

SearchInv ==
  /\ src \in Contents /\ needle \in Needles /\ off \in 0..Len(src.bytes)
  /\ Progress
  /\ outcome = "found" => OccursIn(src.bytes, Len(src.bytes))
  /\ outcome = "absent" => ~OccursIn(src.bytes, Len(src.bytes))

\* The file and the text are sequences, and the text is not empty.
LEMMA InputTypes ==
  ASSUME src \in Contents, needle \in Needles
  PROVE  /\ src.bytes \in Seq(Range(src.bytes)) /\ Len(src.bytes) \in Nat
         /\ needle \in Seq(Range(needle)) /\ Len(needle) \in Nat /\ Len(needle) > 0
<1>1. src.bytes \in Seq(Range(src.bytes)) /\ needle \in Seq(Range(needle)) /\ needle # <<>>
  BY ContentsAssumption, NeedleAssumption
<1>2. Len(src.bytes) \in Nat
  BY <1>1, LenProperties
<1>3. Len(needle) \in Nat \ {0}
  BY <1>1, EmptySeq
<1> QED
  BY <1>1, <1>2, <1>3

\* Occurs, which compares subsequences, says the same as OccursIn, which
\* compares element by element.
LEMMA OccursByIndex ==
  ASSUME NEW S, NEW t \in Seq(S), NEW T, needle \in Seq(T), Len(needle) \in Nat, Len(needle) > 0
  PROVE  Occurs(t) <=> OccursIn(t, Len(t))
<1>1. Len(t) \in Nat /\ DOMAIN t = 1..Len(t) /\ \A k \in 1..Len(t) : t[k] \in S
  BY LenProperties, ElementOfSeq
<1>2. ASSUME NEW i \in Nat, i + Len(needle) <= Len(t)
      PROVE  (SubSeq(t, i + 1, i + Len(needle)) = needle) <=> OccursAt(t, i)
  <2> DEFINE s == SubSeq(t, i + 1, i + Len(needle))
  <2>1. i + 1 \in Int /\ i + Len(needle) \in Int /\ i + 1 <= i + Len(needle)
    OBVIOUS
  <2>2. \A k \in i + 1..i + Len(needle) : t[k] \in S
    BY <1>1, <1>2
  <2>3. /\ s \in Seq(S)
        /\ Len(s) = IF i + 1 <= i + Len(needle) THEN i + Len(needle) - (i + 1) + 1 ELSE 0
        /\ \A k \in 1..i + Len(needle) - (i + 1) + 1 : s[k] = t[i + 1 + k - 1]
    BY <2>1, <2>2, SubSeqProperties
  <2> HIDE DEF s
  <2>4. Len(s) = Len(needle)
    BY <2>1, <2>3
  <2>5. \A k \in 1..Len(needle) : s[k] = t[i + k]
    BY SMTT(60), <2>3
  <2>6. s \in Seq(S \cup T) /\ needle \in Seq(S \cup T)
    BY <2>3, SeqMonotonic
  <2>7. (\A k \in 1..Len(s) : s[k] = needle[k]) => s = needle
    BY <2>4, <2>6, SeqEqual
  <2>8. (s = needle) <=> OccursAt(t, i)
    BY <2>4, <2>5, <2>7 DEF OccursAt
  <2> QED
    BY <2>8 DEF s
<1>3. ASSUME NEW i \in Nat
      PROVE  i + Len(needle) <= Len(t) <=> i \in 0..Len(t) - Len(needle)
  BY <1>1
<1>4. ASSUME Occurs(t) PROVE OccursIn(t, Len(t))
  <2>1. PICK i \in 0..Len(t) - Len(needle) : SubSeq(t, i + 1, i + Len(needle)) = needle
    BY <1>4 DEF Occurs
  <2>2. i \in Nat /\ i + Len(needle) <= Len(t)
    BY <1>1, <2>1
  <2> QED
    BY <1>2, <2>1, <2>2 DEF OccursIn
<1>5. ASSUME OccursIn(t, Len(t)) PROVE Occurs(t)
  <2>1. PICK i \in Nat : i + Len(needle) <= Len(t) /\ OccursAt(t, i)
    BY <1>5 DEF OccursIn
  <2>2. i \in 0..Len(t) - Len(needle)
    BY <1>3, <2>1
  <2> QED
    BY <1>2, <2>1, <2>2 DEF Occurs
<1> QED
  BY <1>4, <1>5

\* A block is the piece of the file from KeptFrom to what has been read now.
LEMMA BlockIsPiece ==
  ASSUME SearchInv, outcome = "reading", NEW n \in Nat, n > 0, off + n <= Len(src.bytes),
         NEW block, block = buf \o SubSeq(src.bytes, off + 1, off + n)
  PROVE  /\ block = SubSeq(src.bytes, KeptFrom + 1, off + n)
         /\ block \in Seq(Range(src.bytes)) /\ Len(block) = off + n - KeptFrom
         /\ \A k \in 1..Len(block) : block[k] = src.bytes[KeptFrom + k]
<1>0. /\ src.bytes \in Seq(Range(src.bytes)) /\ Len(src.bytes) \in Nat
      /\ off \in Nat /\ KeptFrom \in 0..off /\ buf = SubSeq(src.bytes, KeptFrom + 1, off)
  BY InputTypes DEF SearchInv, Progress
<1> DEFINE S == Range(src.bytes)
           t == src.bytes
           f == KeptFrom
<1>1. t \in Seq(S) /\ Len(t) \in Nat /\ f \in Nat /\ f <= off /\ off \in Nat
  BY <1>0
<1>a. \A k \in 1..Len(t) : t[k] \in S
  BY <1>1, ElementOfSeq
<1> HIDE DEF S, t, f
<1>2. f + 1 \in 1..Len(t) + 1 /\ off \in f + 1 - 1..Len(t) /\ off + n \in off..Len(t)
  BY <1>1 DEF t
<1>3. SubSeq(t, f + 1, off) \o SubSeq(t, off + 1, off + n) = SubSeq(t, f + 1, off + n)
  BY <1>1, <1>2, ConcatAdjacentSubSeq
<1>4. block = SubSeq(t, f + 1, off + n)
  BY <1>0, <1>3 DEF t, f
<1> DEFINE lo == f + 1
           hi == off + n
<1>5. lo \in Int /\ hi \in Int /\ \A k \in lo..hi : t[k] \in S
  BY <1>1, <1>2, <1>a
<1>b. lo <= hi /\ hi - lo + 1 = off + n - f
  BY <1>1
<1> HIDE DEF lo, hi
<1>6. /\ SubSeq(t, lo, hi) \in Seq(S)
      /\ Len(SubSeq(t, lo, hi)) = IF lo <= hi THEN hi - lo + 1 ELSE 0
      /\ \A k \in 1..hi - lo + 1 : SubSeq(t, lo, hi)[k] = t[lo + k - 1]
  BY <1>5, SubSeqProperties
<1>c. block = SubSeq(t, lo, hi)
  BY <1>4 DEF lo, hi
<1>7. Len(block) = off + n - f
  BY <1>b, <1>c, <1>6
<1>8. ASSUME NEW k \in 1..Len(block) PROVE block[k] = t[f + k]
  <2>1. block[k] = t[lo + k - 1]
    BY <1>b, <1>c, <1>6, <1>7
  <2>2. lo + k - 1 = f + k
    BY <1>1, <1>7 DEF lo
  <2> QED
    BY <2>1, <2>2
<1> QED
  BY <1>4, <1>c, <1>6, <1>7, <1>8 DEF t, f, S

\* The text is found in a block only if it is in the file, and what is not
\* found in a block is not in the file so far: an occurrence that begins
\* before the block ends before it, too.
LEMMA BlockDecides ==
  ASSUME SearchInv, outcome = "reading", NEW n \in Nat, n > 0, off + n <= Len(src.bytes),
         NEW block, block = buf \o SubSeq(src.bytes, off + 1, off + n)
  PROVE  Occurs(block) <=> OccursIn(src.bytes, off + n)
<1>0. /\ needle \in Seq(Range(needle)) /\ Len(needle) \in Nat /\ Len(needle) > 0
      /\ off \in Nat /\ KeptFrom \in 0..off /\ ~OccursIn(src.bytes, off)
  BY InputTypes DEF SearchInv, Progress
<1>1. /\ block \in Seq(Range(src.bytes)) /\ Len(block) = off + n - KeptFrom
      /\ \A k \in 1..Len(block) : block[k] = src.bytes[KeptFrom + k]
  BY BlockIsPiece
<1>2. Occurs(block) <=> OccursIn(block, Len(block))
  BY <1>0, <1>1, OccursByIndex
<1>3. ASSUME NEW i \in Nat, i + Len(needle) <= Len(block)
      PROVE  OccursAt(block, i) <=> OccursAt(src.bytes, KeptFrom + i)
  <2>1. ASSUME NEW k \in 1..Len(needle)
        PROVE  block[i + k] = src.bytes[(KeptFrom + i) + k]
    <3>1. i + k \in 1..Len(block) /\ KeptFrom + (i + k) = (KeptFrom + i) + k
      BY <1>0, <1>1, <1>3
    <3> QED
      BY <1>1, <3>1
  <2> QED
    BY <2>1 DEF OccursAt
<1>4. ASSUME OccursIn(block, Len(block)) PROVE OccursIn(src.bytes, off + n)
  <2>1. PICK i \in Nat : i + Len(needle) <= Len(block) /\ OccursAt(block, i)
    BY <1>4 DEF OccursIn
  <2> DEFINE f == KeptFrom
             m == Len(needle)
  <2>a. f \in Nat /\ m \in Nat /\ i + m <= off + n - f
    BY <1>0, <1>1, <2>1
  <2> HIDE DEF f, m
  <2>b. f + i \in Nat /\ (f + i) + m <= off + n
    BY <1>0, <2>a
  <2>2. KeptFrom + i \in Nat /\ (KeptFrom + i) + Len(needle) <= off + n
    BY <2>b DEF f, m
  <2> QED
    BY <1>3, <2>1, <2>2 DEF OccursIn
<1>5. ASSUME OccursIn(src.bytes, off + n) PROVE OccursIn(block, Len(block))
  <2>1. PICK i \in Nat : i + Len(needle) <= off + n /\ OccursAt(src.bytes, i)
    BY <1>5 DEF OccursIn
  <2>2. i + Len(needle) > off
    BY <1>0, <2>1 DEF OccursIn
  <2>3. i >= KeptFrom
    BY <1>0, <2>2 DEF KeptFrom
  <2>4. i - KeptFrom \in Nat /\ (i - KeptFrom) + Len(needle) <= Len(block)
        /\ KeptFrom + (i - KeptFrom) = i
    BY <1>0, <1>1, <2>1, <2>3
  <2>5. OccursAt(block, i - KeptFrom)
    BY <1>3, <2>1, <2>4
  <2> QED
    BY <2>4, <2>5 DEF OccursIn
<1> QED
  BY <1>2, <1>4, <1>5

\* What is kept of a block that is long enough is the end of what was read.
LEMMA TailIsKept ==
  ASSUME SearchInv, outcome = "reading", NEW n \in Nat, n > 0, off + n <= Len(src.bytes),
         NEW block, block = buf \o SubSeq(src.bytes, off + 1, off + n),
         Len(block) >= Len(needle)
  PROVE  KeptTail(block) = SubSeq(src.bytes, off + n - Len(needle) + 1, off + n)
<1>0. /\ src.bytes \in Seq(Range(src.bytes)) /\ Len(src.bytes) \in Nat
      /\ Len(needle) \in Nat /\ Len(needle) > 0 /\ off \in Nat /\ KeptFrom \in 0..off
  BY InputTypes DEF SearchInv, Progress
<1>1. /\ block = SubSeq(src.bytes, KeptFrom + 1, off + n)
      /\ Len(block) = off + n - KeptFrom
  BY BlockIsPiece
<1> DEFINE S == Range(src.bytes)
           t == src.bytes
           i == KeptFrom + 1
           j == off + n
           a == Len(block) - Len(needle) + 1
           b == Len(block)
           f == KeptFrom
           m == Len(needle)
           z == Len(t)
<1>a. /\ f \in Nat /\ f <= off /\ m \in Nat /\ m > 0 /\ z \in Nat /\ off \in Nat
      /\ j = off + n /\ j <= z /\ i = f + 1 /\ b = j - f /\ a = b - m + 1 /\ b >= m
  BY <1>0, <1>1
<1>3. t \in Seq(S) /\ z = Len(t)
  BY <1>0
<1> HIDE DEF S, t, i, j, a, b, f, m, z
<1>b. i \in 1..z /\ j \in 1..z
  BY <1>a
<1>c. a \in 1..j - i + 1 /\ b \in 1..j - i + 1
  BY <1>a
<1>d. i + a - 1 = off + n - m + 1 /\ i + b - 1 = off + n
  BY <1>a
<1>2. /\ i \in 1..Len(t) /\ j \in 1..Len(t) /\ a \in 1..j - i + 1 /\ b \in 1..j - i + 1
      /\ i + a - 1 = off + n - Len(needle) + 1 /\ i + b - 1 = off + n
  BY <1>3, <1>b, <1>c, <1>d DEF m
<1>4. SubSeq(SubSeq(t, i, j), a, b) = SubSeq(t, i + a - 1, i + b - 1)
  BY <1>2, <1>3, SubSeqOfSubSeq
<1>5. KeptTail(block) = SubSeq(SubSeq(t, i, j), a, b)
  BY <1>1 DEF KeptTail, t, i, j, a, b
<1> QED
  BY <1>2, <1>4, <1>5 DEF t

\* A turn of the loop keeps the invariant.
LEMMA SearchKeeps ==
  ASSUME SearchInv, SearchBlock
  PROVE  SearchInv'
<1>0. /\ outcome = "reading" /\ off \in Nat /\ off < Len(src.bytes) /\ Len(src.bytes) \in Nat
      /\ Len(needle) \in Nat /\ Len(needle) > 0 /\ src' = src /\ needle' = needle
      /\ src.bytes \in Seq(Range(src.bytes))
      /\ src \in Contents /\ needle \in Needles
  BY InputTypes DEF SearchInv, SearchBlock
<1>1. PICK n \in 1..Min({BufSize - Len(buf), Len(src.bytes) - off}) :
        LET block == buf \o SubSeq(src.bytes, off + 1, off + n)
        IN  /\ off' = off + n
            /\ outcome' = IF First /\ src.exec /\ n >= 2 /\ ~Script THEN "binary"
                       ELSE IF Occurs(block) THEN "found"
                       ELSE IF Len(block) < Len(needle) THEN "aborted" ELSE "reading"
            /\ buf' = IF outcome' = "reading" THEN KeptTail(block) ELSE buf
  BY DEF SearchBlock
<1> DEFINE block == buf \o SubSeq(src.bytes, off + 1, off + n)
<1>2. n \in Nat /\ n > 0 /\ off + n <= Len(src.bytes)
  <2>1. Len(buf) \in Nat
    <3>1. buf = SubSeq(src.bytes, KeptFrom + 1, off) /\ KeptFrom + 1 \in Int /\ off \in Int
      BY <1>0 DEF SearchInv, Progress
    <3>2. \A k \in KeptFrom + 1..off : src.bytes[k] \in Range(src.bytes)
      BY <1>0, ElementOfSeq DEF SearchInv, Progress
    <3>3. buf \in Seq(Range(src.bytes))
      BY <3>1, <3>2, SubSeqProperties
    <3> QED
      BY <3>3, LenProperties
  <2> DEFINE x == BufSize - Len(buf)
             y == Len(src.bytes) - off
  <2>2. x \in Int /\ y \in Int
    BY <2>1, <1>0, NeedleAssumption
  <2> HIDE DEF x, y
  <2>3. \E w \in {x, y} : \A v \in {x, y} : w <= v
    BY <2>2
  <2>4. Min({x, y}) \in {x, y} /\ Min({x, y}) <= y
    BY <2>2, <2>3 DEF Min
  <2>5. n \in Int /\ 1 <= n /\ n <= y
    BY <1>1, <2>2, <2>4 DEF x, y
  <2> QED
    BY <1>0, <2>5 DEF y
<1>3. Occurs(block) <=> OccursIn(src.bytes, off + n)
  BY <1>0, <1>2, BlockDecides
<1>4. Len(block) >= Len(needle) => KeptTail(block) = SubSeq(src.bytes, off + n - Len(needle) + 1, off + n)
  BY <1>0, <1>2, TailIsKept
<1>5. Len(block) = off + n - KeptFrom /\ KeptFrom \in 0..off
  BY <1>0, <1>2, BlockIsPiece DEF SearchInv, Progress
<1>6. /\ off' = off + n
      /\ outcome' = "found" => Occurs(block)
      /\ outcome' # "absent"
      /\ outcome' = "reading" => ~Occurs(block) /\ ~(Len(block) < Len(needle)) /\ buf' = KeptTail(block)
  BY <1>1
<1> HIDE DEF block
<1>7. src' \in Contents /\ needle' \in Needles /\ off' \in 0..Len(src'.bytes)
  BY <1>0, <1>2, <1>6
<1>8. outcome' = "found" => OccursIn(src.bytes, Len(src.bytes))'
  <2>1. ASSUME OccursIn(src.bytes, off + n) PROVE OccursIn(src.bytes, Len(src.bytes))
    BY <1>0, <1>2, <2>1 DEF OccursIn
  <2>2. OccursIn(src.bytes, Len(src.bytes)) => OccursIn(src.bytes, Len(src.bytes))'
    BY <1>0 DEF OccursIn, OccursAt
  <2> QED
    BY <1>3, <1>6, <2>1, <2>2
<1>9. ASSUME outcome' = "reading"
      PROVE  KeptFrom' \in 0..off' /\ buf' = SubSeq(src'.bytes, KeptFrom' + 1, off')
             /\ ~OccursIn(src.bytes, off)'
  <2>1. Len(block) >= Len(needle)
    BY <1>0, <1>2, <1>5, <1>6, <1>9
  <2>2. KeptFrom' = off + n - Len(needle)
    BY <1>0, <1>2, <1>6 DEF KeptFrom
  <2>3. off + n - Len(needle) \in 0..off + n
    BY <1>0, <1>2, <1>5, <2>1
  <2>4. buf' = SubSeq(src'.bytes, KeptFrom' + 1, off')
    BY <1>0, <1>4, <1>6, <1>9, <2>1, <2>2
  <2>5. ~OccursIn(src.bytes, off)'
    BY <1>0, <1>3, <1>6, <1>9 DEF OccursIn, OccursAt
  <2> QED
    BY <1>6, <2>2, <2>3, <2>4, <2>5
<1>10. Progress'
  BY <1>9 DEF Progress
<1> QED
  BY <1>6, <1>7, <1>8, <1>10 DEF SearchInv

\* At the end of the file nothing is left in which the text might stand.
LEMMA EndKeeps ==
  ASSUME SearchInv, EndOfFile
  PROVE  SearchInv'
<1>1. /\ outcome = "reading" /\ off = Len(src.bytes) /\ outcome' = "absent"
      /\ src' = src /\ needle' = needle /\ off' = off
  BY DEF EndOfFile
<1>2. ~OccursIn(src.bytes, Len(src.bytes))
  BY <1>1 DEF SearchInv, Progress
<1>3. ~OccursIn(src.bytes, Len(src.bytes))'
  BY <1>1, <1>2 DEF OccursIn, OccursAt
<1> QED
  BY <1>1, <1>3 DEF SearchInv, Progress

\* Before the first read nothing is kept, and the text, which is not empty,
\* does not occur in no bytes at all.
LEMMA SearchStarts == Init => SearchInv
<1> SUFFICES ASSUME Init PROVE SearchInv
  OBVIOUS
<1>1. /\ src \in Contents /\ needle \in Needles /\ off = 0 /\ buf = <<>> /\ outcome = "reading"
      /\ src.bytes \in Seq(Range(src.bytes)) /\ Len(src.bytes) \in Nat
      /\ Len(needle) \in Nat /\ Len(needle) > 0
  BY InputTypes DEF Init
<1>2. KeptFrom = 0
  BY <1>1 DEF KeptFrom
<1>3. SubSeq(src.bytes, 1, 0) = <<>>
  BY <1>1, SubSeqEmpty
<1>4. ~OccursIn(src.bytes, 0)
  BY <1>1 DEF OccursIn
<1> QED
  BY <1>1, <1>2, <1>3, <1>4 DEF SearchInv, Progress

\* Every step of a search, and none.
LEMMA SearchStep ==
  ASSUME SearchInv, [Next]_vars
  PROVE  SearchInv'
<1>1. CASE SearchBlock
  BY <1>1, SearchKeeps
<1>2. CASE EndOfFile
  BY <1>2, EndKeeps
<1>3. CASE UNCHANGED vars
  BY <1>3 DEF vars, SearchInv, Progress, KeptFrom, OccursIn, OccursAt
<1> QED
  BY <1>1, <1>2, <1>3 DEF Next

\* A search that has ended has the right answer.
LEMMA SearchAnswers == SearchInv => SearchExact
<1> SUFFICES ASSUME SearchInv PROVE SearchExact
  OBVIOUS
<1>1. Occurs(src.bytes) <=> OccursIn(src.bytes, Len(src.bytes))
  BY InputTypes, OccursByIndex DEF SearchInv
<1> QED
  BY <1>1 DEF SearchInv, SearchExact

\* The kept bytes are no more than the text has: when a search that goes on has
\* read, they are as many, and before they are none; a search that has ended
\* leaves them.
SearchSizes == /\ Len(buf) <= Len(needle)
               /\ outcome \in {"reading", "found", "absent", "binary", "aborted"}

LEMMA KeptIsShort == SearchInv /\ outcome = "reading" => Len(buf) <= Len(needle)
<1> SUFFICES ASSUME SearchInv, outcome = "reading" PROVE Len(buf) <= Len(needle)
  OBVIOUS
<1>1. /\ KeptFrom \in 0..off /\ off \in 0..Len(src.bytes) /\ Len(src.bytes) \in Nat
      /\ Len(needle) \in Nat /\ buf = SubSeq(src.bytes, KeptFrom + 1, off)
      /\ src.bytes \in Seq(Range(src.bytes))
  BY InputTypes DEF SearchInv, Progress
<1>2. \A k \in KeptFrom + 1..off : src.bytes[k] \in Range(src.bytes)
  BY <1>1, ElementOfSeq
<1>3. Len(buf) = off - KeptFrom
  <2>1. Len(SubSeq(src.bytes, KeptFrom + 1, off)) = IF KeptFrom + 1 <= off THEN off - (KeptFrom + 1) + 1 ELSE 0
    BY <1>1, <1>2, SubSeqProperties
  <2> QED
    BY <1>1, <2>1
<1> QED
  BY <1>1, <1>3 DEF KeptFrom

LEMMA KeptIsShortNext == (SearchInv /\ outcome = "reading" => Len(buf) <= Len(needle))'
  BY KeptIsShort, PTL

LEMMA SizesStart == Init => SearchSizes
  BY InputTypes DEF Init, SearchSizes

LEMMA SizesStep ==
  ASSUME SearchInv, SearchSizes, [Next]_vars
  PROVE  SearchSizes'
<1>1. SearchInv'
  BY SearchStep
<1>2. needle' = needle /\ outcome' \in {"reading", "found", "absent", "binary", "aborted"}
  BY DEF Next, SearchBlock, EndOfFile, vars, SearchSizes
<1>3. SearchInv' /\ outcome' = "reading" => Len(buf') <= Len(needle')
  BY KeptIsShortNext
<1>4. outcome' # "reading" => buf' = buf
  BY DEF Next, SearchBlock, EndOfFile, vars
<1> QED
  BY <1>1, <1>2, <1>3, <1>4 DEF SearchSizes

LEMMA SearchTypes == SearchInv /\ SearchSizes => TypeOK
  BY DEF SearchInv, SearchSizes, TypeOK

\* A file is reported exactly when the text occurs in it, for any contents,
\* any text, any buffer larger than the text, and any way of reading
\* (lab3/zad3, main.c, search_file).
THEOREM SearchIsExact == Spec => []SearchExact
  BY SearchStarts, SearchStep, SearchAnswers, PTL DEF Spec

-----------------------------------------------------------------------------
(***************************************************************************)
(* The filter of lab2/zad1, for any text and any size of a block.  The     *)
(* output is compared with Output(src), a recursive function: what it does *)
(* is shown over the least index at which it does something else.          *)
(***************************************************************************)
\* No newline at i..j.
NoBreak(i, j) == \A k \in i..j : src[k] # "n"
Chars == {"x", " ", "n"}

LEMMA KeptIs ==
  ASSUME NEW i \in Nat, src \in Seq(Chars)
  PROVE  Lines!Kept(src, i) <=>
           \E j \in 1..Len(src) : src[j] = "x" /\ (i <= j => NoBreak(i, j - 1)) /\ (j < i => NoBreak(j, i - 1))
<1>1. Len(src) \in Nat
  BY LenProperties
<1>2. ASSUME NEW j \in 1..Len(src)
      PROVE  Lines!SameLine(src, i, j) <=> (i <= j => NoBreak(i, j - 1)) /\ (j < i => NoBreak(j, i - 1))
  <2>1. CASE i <= j
    <3>1. Lines!Min({i, j}) = i /\ Lines!Max({i, j}) = j
      BY <2>1, <1>1 DEF Lines!Min, Lines!Max
    <3> QED
      BY <3>1, <2>1, <1>1 DEF Lines!SameLine, NoBreak
  <2>2. CASE j < i
    <3>1. Lines!Min({i, j}) = j /\ Lines!Max({i, j}) = i
      BY <2>2, <1>1 DEF Lines!Min, Lines!Max
    <3> QED
      BY <3>1, <2>2, <1>1 DEF Lines!SameLine, NoBreak
  <2> QED
    BY <2>1, <2>2, <1>1
<1> QED
  BY <1>2 DEF Lines!Kept

\* Output exists.
WrittenBy(n, g) ==
  [i \in 0..n |-> IF i = 0 THEN <<>> ELSE IF Lines!Kept(src, i) THEN Append(g[i - 1], src[i]) ELSE g[i - 1]]

LEMMA OutputIs ==
  ASSUME src \in Seq(Chars)
  PROVE  /\ Lines!Output(src)[0] = <<>>
         /\ \A i \in 1..Len(src) :
              Lines!Output(src)[i] = IF Lines!Kept(src, i) THEN Append(Lines!Output(src)[i - 1], src[i]) ELSE Lines!Output(src)[i - 1]
<1> DEFINE Some(m) == \E g : g = WrittenBy(m, g)
           Bad == {m \in Nat : ~Some(m)}
<1>0. Len(src) \in Nat
  BY LenProperties
<1>1. Some(0)
  <2>1. PICK g : g = [i \in 0..0 |-> <<>>]
    OBVIOUS
  <2>2. g = WrittenBy(0, g)
    <3>1. \A i \in 0..0 : i = 0
      OBVIOUS
    <3> QED
      BY <2>1, <3>1 DEF WrittenBy
  <2> QED
    BY <2>2
<1>2. ASSUME NEW m \in Nat, Some(m) PROVE Some(m + 1)
  <2>1. PICK g : g = WrittenBy(m, g)
    BY <1>2
  <2>2. PICK h : h = WrittenBy(m + 1, g)
    OBVIOUS
  <2>3. \A i \in 0..m : h[i] = g[i]
    <3> SUFFICES ASSUME NEW i \in 0..m PROVE h[i] = g[i]
      OBVIOUS
    <3>1. i \in 0..m + 1
      OBVIOUS
    <3>2. h[i] = WrittenBy(m, g)[i]
      BY <2>2, <3>1 DEF WrittenBy
    <3> QED
      BY <2>1, <3>2
  <2>4. \A i \in 0..m + 1 : i # 0 => i - 1 \in 0..m
    OBVIOUS
  <2>5. WrittenBy(m + 1, h) = WrittenBy(m + 1, g)
    BY <2>3, <2>4 DEF WrittenBy
  <2> QED
    BY <2>2, <2>5
<1>3. Some(Len(src))
  <2> HIDE DEF Some
  <2> SUFFICES ASSUME Bad # {} PROVE FALSE
    BY <1>0
  <2>1. PICK m \in Bad : \A l \in Bad : m <= l
    BY Least
  <2>2. m # 0 /\ m \in Nat
    BY <1>1, <2>1
  <2>3. m - 1 \in Nat /\ m - 1 \notin Bad
    BY <2>1, <2>2
  <2>4. Some((m - 1) + 1)
    BY <1>2, <2>3
  <2> QED
    BY <2>1, <2>2, <2>4
<1>4. Lines!Output(src) = WrittenBy(Len(src), Lines!Output(src))
  <2>1. PICK g : g = WrittenBy(Len(src), g) /\ g = CHOOSE f : f = WrittenBy(Len(src), f)
    BY <1>3
  <2>2. Lines!Output(src) = g
    BY <2>1 DEF Lines!Output, WrittenBy
  <2> QED
    BY <2>1, <2>2
<1>5. PICK g : g = Lines!Output(src) /\ g = WrittenBy(Len(src), g)
  BY <1>4
<1>6. \A i \in 0..Len(src) :
        g[i] = IF i = 0 THEN <<>> ELSE IF Lines!Kept(src, i) THEN Append(g[i - 1], src[i]) ELSE g[i - 1]
  BY <1>5 DEF WrittenBy
<1>7. 0 \in 0..Len(src) /\ \A i \in 1..Len(src) : i \in 0..Len(src) /\ i # 0
  BY <1>0
<1>8. g[0] = <<>>
  BY <1>6, <1>7
<1>9. \A i \in 1..Len(src) : g[i] = IF Lines!Kept(src, i) THEN Append(g[i - 1], src[i]) ELSE g[i - 1]
  BY <1>6, <1>7
<1> QED
  BY Zenon, <1>5, <1>8, <1>9

LEMMA OutputSeq ==
  ASSUME src \in Seq(Chars)
  PROVE  \A i \in 0..Len(src) : Lines!Output(src)[i] \in Seq(Chars)
<1> DEFINE Bad == {i \in 0..Len(src) : Lines!Output(src)[i] \notin Seq(Chars)}
<1>1. Len(src) \in Nat /\ \A i \in 1..Len(src) : src[i] \in Chars
  BY LenProperties, ElementOfSeq
<1> SUFFICES ASSUME Bad # {} PROVE FALSE
  OBVIOUS
<1>2. PICK m \in Bad : \A l \in Bad : m <= l
  <2>1. Bad \subseteq Nat
    BY <1>1
  <2> HIDE DEF Bad
  <2> QED
    BY <2>1, Least
<1>3. m # 0
  BY <1>2, OutputIs, EmptySeq
<1>4. m \in 1..Len(src) /\ m - 1 \in 0..Len(src) /\ m - 1 \notin Bad
  BY <1>1, <1>2, <1>3
<1>5. Lines!Output(src)[m - 1] \in Seq(Chars) /\ src[m] \in Chars
  BY <1>1, <1>4
<1>6. Append(Lines!Output(src)[m - 1], src[m]) \in Seq(Chars)
  BY <1>5, AppendProperties
<1>7. Lines!Output(src)[m] = IF Lines!Kept(src, m) THEN Append(Lines!Output(src)[m - 1], src[m]) ELSE Lines!Output(src)[m - 1]
  BY <1>4, OutputIs
<1> QED
  BY <1>2, <1>5, <1>6, <1>7

\* Nothing is written of bytes that are not kept.
LEMMA OutputSkips ==
  ASSUME src \in Seq(Chars), NEW a \in 0..Len(src), NEW b \in a..Len(src),
         \A i \in a + 1..b : ~Lines!Kept(src, i)
  PROVE  Lines!Output(src)[b] = Lines!Output(src)[a]
<1> DEFINE Bad == {i \in a..b : Lines!Output(src)[i] # Lines!Output(src)[a]}
<1>1. Len(src) \in Nat
  BY LenProperties
<1>2. Bad = {}
  <2> SUFFICES ASSUME Bad # {} PROVE FALSE
    OBVIOUS
  <2>1. PICK m \in Bad : \A l \in Bad : m <= l
    <3>1. Bad \subseteq Nat
      BY <1>1
    <3> HIDE DEF Bad
    <3> QED
      BY <3>1, Least
  <2>2. m # a
    BY <2>1
  <2>3. m \in a + 1..b /\ m \in 1..Len(src) /\ m - 1 \in a..b /\ m - 1 \notin Bad
    BY <1>1, <2>1, <2>2
  <2>4. Lines!Output(src)[m] = Lines!Output(src)[m - 1]
    BY <2>3, OutputIs
  <2> QED
    BY <2>1, <2>3, <2>4
<1>3. b \in a..b
  BY <1>1
<1> QED
  BY <1>2, <1>3

\* Bytes that are all kept are written as they are.
LEMMA OutputCopies ==
  ASSUME src \in Seq(Chars), NEW a \in 0..Len(src), NEW b \in a..Len(src),
         \A i \in a + 1..b : Lines!Kept(src, i)
  PROVE  Lines!Output(src)[b] = Lines!Output(src)[a] \o SubSeq(src, a + 1, b)
<1> DEFINE Same(i) == Lines!Output(src)[i] = Lines!Output(src)[a] \o SubSeq(src, a + 1, i)
           Bad == {i \in a..b : ~Same(i)}
<1>1. Len(src) \in Nat /\ \A i \in 1..Len(src) : src[i] \in Chars
  BY LenProperties, ElementOfSeq
<1>2. Bad = {}
  <2> SUFFICES ASSUME Bad # {} PROVE FALSE
    OBVIOUS
  <2>1. PICK m \in Bad : \A l \in Bad : m <= l
    <3> HIDE DEF Same
    <3>1. Bad \subseteq Nat
      BY <1>1
    <3> HIDE DEF Bad
    <3> QED
      BY <3>1, Least
  <2>2. m # a
    <3>1. SubSeq(src, a + 1, a) = <<>>
      BY <1>1, SubSeqEmpty
    <3>2. Lines!Output(src)[a] \o <<>> = Lines!Output(src)[a]
      BY OutputSeq, ConcatEmptySeq
    <3> QED
      BY <2>1, <3>1, <3>2
  <2>3. m \in a + 1..b /\ m \in 1..Len(src) /\ m - 1 \in a..b /\ m - 1 \notin Bad /\ a + 1 \in 1..Len(src)
        /\ m \in a + 1..Len(src)
    <3> HIDE DEF Same
    <3> QED
      BY <1>1, <2>1, <2>2
  <2>4. Lines!Output(src)[m] = Append(Lines!Output(src)[m - 1], src[m])
    BY <2>3, OutputIs
  <2>5. PICK s, t, c : s = Lines!Output(src)[a] /\ t = SubSeq(src, a + 1, m - 1) /\ c = src[m]
    OBVIOUS
  <2>6. s \in Seq(Chars) /\ c \in Chars
    BY <2>5, <2>3, <1>1, OutputSeq
  <2>7. t \in Seq(Chars)
    <3>1. \A i \in a + 1..m - 1 : src[i] \in Chars
      BY <1>1, <2>3
    <3> QED
      BY <3>1, <2>3, <2>5, <1>1, SubSeqProperties
  <2>8. SubSeq(src, a + 1, m) = t \o <<c>>
    BY <2>3, <2>5, SubSeqRecursiveSecond
  <2>9. <<c>> \in Seq(Chars)
    BY <2>6
  <2>10. Append(s \o t, c) = (s \o t) \o <<c>>
    BY <2>6, <2>7, ConcatProperties, AppendIsConcat
  <2>11. (s \o t) \o <<c>> = s \o (t \o <<c>>)
    BY SMTT(60), <2>6, <2>7, <2>9, ConcatAssociative
  <2>12. Lines!Output(src)[m - 1] = s \o t
    BY <2>3, <2>5
  <2> QED
    BY <2>1, <2>4, <2>5, <2>8, <2>10, <2>11, <2>12
<1>3. b \in a..b
  BY <1>1
<1> QED
  BY <1>2, <1>3

\* What is written of the first bytes is a prefix of all that is written.
LEMMA OutputPrefix ==
  ASSUME src \in Seq(Chars), NEW a \in 0..Len(src)
  PROVE  Lines!IsPrefix(Lines!Output(src)[a], Lines!Output(src)[Len(src)])
<1> DEFINE Longer(i) == \E u \in Seq(Chars) : Lines!Output(src)[i] = Lines!Output(src)[a] \o u
           Bad == {i \in a..Len(src) : ~Longer(i)}
<1>1. Len(src) \in Nat /\ \A i \in 1..Len(src) : src[i] \in Chars
  BY LenProperties, ElementOfSeq
<1>2. PICK s \in Seq(Chars) : s = Lines!Output(src)[a]
  BY OutputSeq
<1>3. Bad = {}
  <2> SUFFICES ASSUME Bad # {} PROVE FALSE
    OBVIOUS
  <2>1. PICK m \in Bad : \A l \in Bad : m <= l
    <3> HIDE DEF Longer
    <3>1. Bad \subseteq Nat
      BY <1>1
    <3> HIDE DEF Bad
    <3> QED
      BY <3>1, Least
  <2>2. m # a
    <3>1. s = s \o <<>> /\ <<>> \in Seq(Chars)
      BY ConcatEmptySeq, EmptySeq
    <3> QED
      BY <2>1, <1>2, <3>1
  <2>3. m \in 1..Len(src) /\ m - 1 \in a..Len(src) /\ m - 1 \notin Bad
    <3> HIDE DEF Longer
    <3> QED
      BY <1>1, <2>1, <2>2
  <2>4. PICK u \in Seq(Chars) : Lines!Output(src)[m - 1] = s \o u
    BY <2>3, <1>2
  <2>5. PICK c \in Chars : c = src[m]
    BY <1>1, <2>3
  <2>6. Lines!Output(src)[m] = s \o u \/ Lines!Output(src)[m] = Append(s \o u, c)
    BY <2>3, <2>4, <2>5, OutputIs
  <2>7. Append(s \o u, c) = s \o (u \o <<c>>) /\ u \o <<c>> \in Seq(Chars)
    <3>1. <<c>> \in Seq(Chars)
      BY <2>5
    <3>2. Append(s \o u, c) = (s \o u) \o <<c>>
      BY ConcatProperties, AppendIsConcat
    <3> QED
      BY SMTT(60), <3>1, <3>2, ConcatAssociative, ConcatProperties
  <2>8. Longer(m)
    BY <2>6, <2>7, <1>2
  <2> QED
    BY <2>1, <2>8
<1>4. PICK u \in Seq(Chars) : Lines!Output(src)[Len(src)] = s \o u
  <2>1. Len(src) \in a..Len(src)
    BY <1>1
  <2> QED
    BY <2>1, <1>2, <1>3
<1>5. Lines!IsPrefix(s, s \o u)
  <2>1. Len(s) <= Len(s \o u) /\ Len(s) \in Nat /\ s \o u \in Seq(Chars)
    BY ConcatProperties, LenProperties
  <2>2. SubSeq(s, 1, Len(s)) = s
    BY SubSeqFull
  <2>3. SubSeq(s \o u, 1, Len(s)) = s
    <3>1. Len(u) \in Nat /\ Len(s \o u) = Len(s) + Len(u)
      BY ConcatProperties, LenProperties
    <3>2. \A i \in 1..Len(s) : (s \o u)[i] = s[i] /\ s[i] \in Chars
      BY <2>1, <3>1, ConcatProperties, ElementOfSeq
    <3>3. PICK t : t = s \o u
      OBVIOUS
    <3>4. \A i \in 1..Len(s) : t[i] = s[i] /\ t[i] \in Chars /\ i + 1 - 1 = i
      BY <2>1, <3>2, <3>3
    <3>5. /\ SubSeq(t, 1, Len(s)) \in Seq(Chars)
          /\ Len(SubSeq(t, 1, Len(s))) = Len(s)
          /\ \A i \in 1..Len(s) : SubSeq(t, 1, Len(s))[i] = t[i]
      BY <2>1, <3>4, SubSeqProperties
    <3>6. SubSeq(t, 1, Len(s)) = s
      BY <3>4, <3>5, SeqEqual
    <3> QED
      BY <3>3, <3>6
  <2> QED
    BY Zenon, <2>1, <2>2, <2>3 DEF Lines!IsPrefix
<1> QED
  BY <1>2, <1>4, <1>5

\* A line without a text is not kept, one with a text is kept as a whole.
LineStarts(a) == a = 0 \/ src[a] = "n"

LEMMA BlankSkipped ==
  ASSUME src \in Seq(Chars), NEW a \in 0..Len(src), NEW b \in a..Len(src),
         LineStarts(a), b = Len(src) \/ src[b] = "n", NoBreak(a + 1, b - 1),
         \A k \in a + 1..b : src[k] # "x"
  PROVE  Lines!Output(src)[b] = Lines!Output(src)[a]
<1>1. Len(src) \in Nat
  BY LenProperties
<1>2. ASSUME NEW i \in a + 1..b PROVE ~Lines!Kept(src, i)
  <2> SUFFICES ASSUME NEW j \in 1..Len(src), src[j] = "x",
                      i <= j => NoBreak(i, j - 1), j < i => NoBreak(j, i - 1)
               PROVE  FALSE
    BY <1>1, KeptIs
  <2>1. CASE j <= a
    <3>1. a \in j..i - 1 /\ j < i /\ a # 0
      BY <1>1, <2>1
    <3> QED
      BY <3>1 DEF NoBreak, LineStarts
  <2>2. CASE j > b
    <3>1. b \in i..j - 1 /\ i <= j /\ b # Len(src)
      BY <1>1, <2>2
    <3> QED
      BY <3>1 DEF NoBreak
  <2>3. CASE j \in a + 1..b
    BY <2>3
  <2> QED
    BY <1>1, <2>1, <2>2, <2>3
<1> QED
  BY <1>2, OutputSkips

LEMMA TextCopied ==
  ASSUME src \in Seq(Chars), NEW a \in Nat, NEW b \in a..Len(src), NEW c \in b..Len(src),
         NEW j \in a + 1..Len(src), src[j] = "x", NoBreak(a + 1, j), NoBreak(a + 1, c - 1)
  PROVE  Lines!Output(src)[c] = Lines!Output(src)[b] \o SubSeq(src, b + 1, c)
<1>1. Len(src) \in Nat
  BY LenProperties
<1>2. ASSUME NEW i \in b + 1..c PROVE Lines!Kept(src, i)
  <2>1. j \in 1..Len(src) /\ i \in Nat
    BY <1>1
  <2>2. i <= j => NoBreak(i, j - 1)
    BY <1>1 DEF NoBreak
  <2>3. j < i => NoBreak(j, i - 1)
    BY <1>1 DEF NoBreak
  <2> QED
    BY <2>1, <2>2, <2>3, KeptIs
<1>3. b \in 0..Len(src)
  BY <1>1
<1> QED
  BY <1>2, <1>3, OutputCopies

-----------------------------------------------------------------------------
\* How many bytes have been scanned or, in a line that is being written, written.
LineStart == scan.seek + scan.pos
Here == IF pc = "scan" THEN off - Len(buf) + p ELSE IF scan.postseek THEN LineStart ELSE off

LinesTypes ==
  /\ src \in Texts /\ off \in 0..Len(src) /\ Len(buf) \in 0..BlockSize /\ p \in 0..BlockSize
  /\ scan \in [sys : BOOLEAN, cur : 0..Len(src), seek : 0..Len(src), pos : 0..BlockSize,
               writing : BOOLEAN, postseek : BOOLEAN]
  /\ scan.seek <= scan.cur
  /\ pc \in {"read", "scan", "end"}

\* What is in the buffer, and where in the file it comes from.
BlockInv ==
  /\ pc = "scan" =>
       /\ Len(buf) <= off /\ buf = SubSeq(src, off - Len(buf) + 1, off)
       /\ scan.cur = off - Len(buf) /\ p <= Len(buf) /\ ~scan.postseek
       /\ Len(buf) = 0 => off = Len(src)
  /\ pc = "read" /\ scan.postseek => scan.writing /\ off = scan.seek /\ scan.cur = off
  /\ pc = "read" /\ ~scan.postseek => scan.cur <= off /\ (scan.sys => scan.cur = off)
  /\ pc = "end" => off = Len(src) /\ ~scan.postseek

\* The line that is scanned or written goes from LineStart on, at least to Here.
LineInv ==
  /\ LineStart <= Here /\ Here <= Len(src)
  /\ LineStarts(LineStart) /\ NoBreak(LineStart + 1, Here)

OutputInv ==
  /\ scan.writing =>
       /\ out = Lines!Output(src)[Here]
       /\ \E j \in LineStart + 1..Len(src) : src[j] = "x" /\ NoBreak(LineStart + 1, j)
  /\ ~scan.writing =>
       /\ out = Lines!Output(src)[LineStart]
       /\ \A k \in LineStart + 1..Here : src[k] # "x"

LinesInv == LinesTypes /\ BlockInv /\ LineInv /\ OutputInv

LEMMA TextIs ==
  ASSUME src \in Texts
  PROVE  /\ src \in Seq(Chars) /\ Len(src) \in Nat /\ BlockSize \in Nat \ {0}
         /\ \A k \in 1..Len(src) : src[k] \in Chars
<1>1. src \in Seq(Chars)
  BY TextsAssumption DEF Chars
<1> QED
  BY <1>1, TextsAssumption, LenProperties, ElementOfSeq

LEMMA LinesStart == Lines!Init => LinesInv
<1> SUFFICES ASSUME Lines!Init PROVE LinesInv
  OBVIOUS
<1>1. /\ src \in Texts /\ off = 0 /\ buf = <<>> /\ p = 0 /\ out = <<>> /\ pc = "read"
      /\ \E sys \in BOOLEAN : scan = [sys |-> sys, cur |-> 0, seek |-> 0, pos |-> 0,
                                      writing |-> FALSE, postseek |-> FALSE]
  BY DEF Lines!Init
<1>2. src \in Seq(Chars) /\ Len(src) \in Nat /\ BlockSize \in Nat \ {0} /\ Len(buf) = 0
  BY <1>1, TextIs, EmptySeq
<1>3. LinesTypes
  BY <1>1, <1>2 DEF LinesTypes
<1>4. Lines!Output(src)[0] = <<>>
  BY <1>2, OutputIs
<1>5. LineStart = 0 /\ Here = 0
  BY <1>1 DEF LineStart, Here
<1>6. LineInv
  BY <1>2, <1>5 DEF LineInv, LineStarts, NoBreak
<1>7. OutputInv
  BY <1>1, <1>4, <1>5 DEF OutputInv
<1>8. BlockInv
  BY <1>1 DEF BlockInv
<1> QED
  BY <1>3, <1>6, <1>7, <1>8 DEF LinesInv

LEMMA PartLength ==
  ASSUME NEW a \in Nat, NEW b \in Nat, a <= b, NEW n, n = IF a + 1 <= b THEN b - (a + 1) + 1 ELSE 0
  PROVE  n = b - a
OBVIOUS

LEMMA Gap ==
  ASSUME NEW a \in Nat, NEW b \in Nat, a <= b
  PROVE  b - a \in Nat /\ 0 <= b - a /\ b - a <= b /\ b - (b - a) = a /\ (b - a = 0 => b = a)
OBVIOUS

\* The next block is read from the place the line was left at.
LEMMA ReadKeeps ==
  ASSUME LinesInv, Lines!ReadBlock
  PROVE  LinesInv'
<1>1. /\ pc = "read" /\ pc' = "scan" /\ src' = src /\ out' = out
      /\ off' = Lines!Min({off + BlockSize, Len(src)})
      /\ buf' = SubSeq(src, off + 1, off')
      /\ scan' = [scan EXCEPT !.cur = IF scan.postseek THEN scan.seek ELSE IF scan.sys THEN scan.cur ELSE off,
                              !.postseek = FALSE]
      /\ p' = IF scan.postseek THEN scan.pos ELSE 0
  BY DEF Lines!ReadBlock
<1>2. LinesTypes /\ BlockInv /\ LineInv /\ OutputInv
  BY DEF LinesInv
<1>3. /\ src \in Texts /\ off \in 0..Len(src)
      /\ scan \in [sys : BOOLEAN, cur : 0..Len(src), seek : 0..Len(src), pos : 0..BlockSize,
                   writing : BOOLEAN, postseek : BOOLEAN]
      /\ scan.seek <= scan.cur
  BY <1>2 DEF LinesTypes
<1>4. /\ src \in Seq(Chars) /\ Len(src) \in Nat /\ BlockSize \in Nat \ {0}
      /\ \A k \in 1..Len(src) : src[k] \in Chars
  BY <1>3, TextIs
<1>5. off' = IF off + BlockSize <= Len(src) THEN off + BlockSize ELSE Len(src)
  BY <1>1, <1>3, <1>4 DEF Lines!Min
<1>6. off' \in off..Len(src) /\ off' - off <= BlockSize /\ (off' = off => off = Len(src))
  BY <1>3, <1>4, <1>5
<1>20. off \in Nat /\ off' \in Nat /\ off <= off'
  BY <1>3, <1>4, <1>6
<1>7. Len(buf') = off' - off
  <2>1. PICK o : o = off'
    OBVIOUS
  <2>2. \A k \in off + 1..o : src[k] \in Chars
    BY <1>3, <1>4, <1>6, <2>1
  <2>3. off + 1 \in Int /\ o \in Int
    BY <1>3, <1>4, <1>6, <2>1
  <2>4. Len(SubSeq(src, off + 1, o)) = IF off + 1 <= o THEN o - (off + 1) + 1 ELSE 0
    BY <2>2, <2>3, SubSeqProperties
  <2>5. Len(SubSeq(src, off + 1, o)) = o - off
    BY <1>20, <2>1, <2>4, PartLength
  <2> QED
    BY <1>1, <2>1, <2>5
<1>8. /\ scan'.seek = scan.seek /\ scan'.pos = scan.pos /\ scan'.writing = scan.writing
      /\ scan'.cur = off /\ ~scan'.postseek
  BY <1>1, <1>2, <1>3 DEF BlockInv
<1>9. scan' \in [sys : BOOLEAN, cur : 0..Len(src), seek : 0..Len(src), pos : 0..BlockSize,
                 writing : BOOLEAN, postseek : BOOLEAN]
  BY <1>1, <1>3
<1>10. Here = IF scan.postseek THEN scan.seek + scan.pos ELSE off
  BY <1>1 DEF Here, LineStart
<1>11. LineStart' = LineStart /\ Here' = off + p'
  BY <1>1, <1>3, <1>6, <1>7, <1>8 DEF LineStart, Here
<1>18. /\ scan.seek \in Nat /\ scan.pos \in 0..BlockSize /\ scan.cur \in 0..Len(src) /\ scan.seek \in 0..Len(src)
  BY <1>3, <1>4
<1>19. scan.seek <= off
  BY <1>1, <1>2, <1>3, <1>18 DEF BlockInv
<1>12. Here' = Here
  <2>1. CASE scan.postseek
    <3>1. off = scan.seek
      BY <1>1, <1>2, <2>1 DEF BlockInv
    <3> QED
      BY <2>1, <3>1, <1>1, <1>10, <1>11
  <2>2. CASE ~scan.postseek
    BY <2>2, <1>1, <1>3, <1>10, <1>11
  <2> QED
    BY <2>1, <2>2
<1>13. p' <= Len(buf') /\ p' \in 0..BlockSize
  <2>1. CASE scan.postseek
    <3>1. p' = scan.pos /\ off + scan.pos <= Len(src)
      BY <1>1, <1>2, <1>11, <1>12, <2>1 DEF LineInv
    <3> QED
      BY <3>1, <1>3, <1>4, <1>5, <1>7, <1>18
  <2>2. CASE ~scan.postseek
    <3>1. p' = 0
      BY <1>1, <2>2
    <3>2. 0 <= Len(buf')
      BY <1>7, <1>20, Gap
    <3>3. 0 \in 0..BlockSize
      BY <1>4
    <3> QED
      BY <3>1, <3>2, <3>3
  <2> QED
    BY <2>1, <2>2
<1>14. LinesTypes'
  <2>1. off' \in 0..Len(src') /\ Len(buf') \in 0..BlockSize /\ scan'.seek <= scan'.cur
    BY <1>1, <1>3, <1>4, <1>6, <1>7, <1>8, <1>19
  <2> QED
    BY <2>1, <1>1, <1>3, <1>9, <1>13 DEF LinesTypes
<1>15. BlockInv'
  <2>1. PICK b, o, n : b = buf' /\ o = off' /\ n = Len(b)
    OBVIOUS
  <2>2. n <= o /\ o - n = off /\ (n = 0 => o = Len(src)) /\ p' <= n
    <3>1. n = off' - off
      BY <2>1, <1>7
    <3>2. off' - off <= off' /\ off' - (off' - off) = off /\ (off' - off = 0 => off' = off)
      BY <1>20, Gap
    <3> QED
      BY <3>1, <3>2, <2>1, <1>6, <1>13
  <2>3. b = SubSeq(src, o - n + 1, o)
    BY <2>1, <2>2, <1>1
  <2> QED
    BY <2>1, <2>2, <2>3, <1>1, <1>8 DEF BlockInv
<1>16. LineInv'
  BY <1>1, <1>2, <1>11, <1>12 DEF LineInv, LineStarts, NoBreak
<1>17. OutputInv'
  BY <1>1, <1>2, <1>8, <1>11, <1>12 DEF OutputInv, NoBreak
<1> QED
  BY <1>14, <1>15, <1>16, <1>17 DEF LinesInv

\* The bytes in the buffer are those of the file from scan.cur on.
LEMMA BlockIs ==
  ASSUME LinesInv, pc = "scan"
  PROVE  \E base \in Nat :
           /\ base = scan.cur /\ base + Len(buf) = off /\ Here = base + p
           /\ \A i \in 1..Len(buf) : buf[i] = src[base + i]
           /\ \A a, b \in 0..Len(buf) : a <= b => SubSeq(buf, a + 1, b) = SubSeq(src, base + a + 1, base + b)
<1>1. /\ src \in Seq(Chars) /\ Len(src) \in Nat /\ BlockSize \in Nat /\ off \in 0..Len(src)
      /\ Len(buf) \in 0..BlockSize /\ p \in 0..BlockSize /\ Len(buf) <= off
      /\ buf = SubSeq(src, off - Len(buf) + 1, off) /\ scan.cur = off - Len(buf)
  BY TextIs DEF LinesInv, LinesTypes, BlockInv
<1>2. PICK m \in Nat : m = Len(buf)
  BY <1>1
<1>12. off \in Nat /\ m <= off
  BY <1>1, <1>2
<1>3. PICK base \in Nat : base = off - m /\ off - base = m
  BY <1>2, <1>12, Gap
<1>4. base + m = off /\ base = scan.cur /\ buf = SubSeq(src, base + 1, base + m)
  BY <1>1, <1>2, <1>3
<1>5. base + m <= Len(src)
  BY <1>1, <1>4
<1>6. Here = base + p
  BY <1>1, <1>2, <1>3 DEF Here
<1>7. \A k \in base + 1..base + m : src[k] \in Chars
  BY <1>1, <1>5, ElementOfSeq
<1>8. \A i \in 1..m : SubSeq(src, base + 1, base + m)[i] = src[base + i]
  <2>1. PICK e \in Nat : e = base + m
    OBVIOUS
  <2>2. /\ Len(SubSeq(src, base + 1, e)) = IF base + 1 <= e THEN e - (base + 1) + 1 ELSE 0
        /\ \A i \in 1..Len(SubSeq(src, base + 1, e)) : SubSeq(src, base + 1, e)[i] = src[base + 1 + i - 1]
    BY <1>7, <2>1, SubSeqProperties
  <2>3. Len(SubSeq(src, base + 1, e)) = m
    BY <2>1, <2>2
  <2>4. \A i \in 1..m : base + 1 + i - 1 = base + i
    OBVIOUS
  <2> QED
    BY <2>1, <2>2, <2>3, <2>4
<1>9. ASSUME NEW a \in 0..m, NEW b \in 0..m, a <= b
      PROVE  SubSeq(SubSeq(src, base + 1, base + m), a + 1, b) = SubSeq(src, base + a + 1, base + b)
  <2>1. CASE a = b
    <3>1. SubSeq(src, base + a + 1, base + b) = <<>>
      BY <1>1, <1>5, <2>1, SubSeqEmpty
    <3>2. SubSeq(SubSeq(src, base + 1, base + m), a + 1, b) = <<>>
      BY <2>1, SubSeqEmpty
    <3> QED
      BY <3>1, <3>2
  <2>2. CASE a < b
    <3>1. base + 1 \in 1..Len(src) /\ base + m \in base + 1..Len(src)
      BY <1>1, <1>5, <2>2
    <3>2. a + 1 \in 1..m + base + 1 - (base + 1) /\ b \in a + 1..m
      BY <2>2
    <3>3. base + a + 1 = base + 1 + (a + 1) - 1 /\ base + b = base + 1 + b - 1
      OBVIOUS
    <3> QED
      BY <1>1, <3>1, <3>2, <3>3, SubSeqOfSubSeq
  <2> QED
    BY <2>1, <2>2
<1>10. \A i \in 1..Len(buf) : buf[i] = src[base + i]
  BY <1>2, <1>4, <1>8
<1>11. \A a, b \in 0..Len(buf) : a <= b => SubSeq(buf, a + 1, b) = SubSeq(src, base + a + 1, base + b)
  BY ZenonT(60), <1>2, <1>4, <1>9
<1> QED
  BY <1>2, <1>4, <1>6, <1>10, <1>11

\* A step inside the block.
LEMMA BlockStays ==
  ASSUME LinesInv, pc = "scan", pc' = "scan", UNCHANGED <<src, off, buf>>, p' \in 0..Len(buf),
         scan' \in [sys : BOOLEAN, cur : 0..Len(src), seek : 0..Len(src), pos : 0..BlockSize,
                    writing : BOOLEAN, postseek : BOOLEAN],
         scan'.cur = scan.cur, ~scan'.postseek, scan'.seek <= scan'.cur
  PROVE  LinesTypes' /\ BlockInv' /\ Here' = scan.cur + p'
<1>1. /\ src \in Texts /\ off \in 0..Len(src) /\ Len(buf) \in 0..BlockSize /\ BlockSize \in Nat
      /\ Len(buf) <= off /\ buf = SubSeq(src, off - Len(buf) + 1, off)
      /\ scan.cur = off - Len(buf) /\ (Len(buf) = 0 => off = Len(src))
  BY TextIs DEF LinesInv, LinesTypes, BlockInv
<1>2. PICK m \in Nat : m = Len(buf) /\ m <= BlockSize
  <2>1. Len(buf) \in 0..BlockSize /\ BlockSize \in Nat
    BY <1>1
  <2> QED
    BY <2>1
<1>3. p' \in 0..BlockSize /\ p' <= Len(buf)
  BY <1>1, <1>2
<1>4. LinesTypes'
  BY <1>1, <1>3 DEF LinesTypes
<1>5. BlockInv'
  BY <1>1, <1>3 DEF BlockInv
<1>6. Here' = scan.cur + p'
  BY <1>1 DEF Here
<1> QED
  BY <1>4, <1>5, <1>6

\* A line is written to its end or to the end of the block.
LEMMA WriteKeeps ==
  ASSUME LinesInv, Lines!WriteLine
  PROVE  LinesInv'
<1> DEFINE Eols == {i \in p + 1..Len(buf) : buf[i] = "n"}
           Last0 == IF Eols = {} THEN Len(buf) ELSE Lines!Min(Eols)
<1>1. /\ pc = "scan" /\ p < Len(buf) /\ scan.writing
      /\ out' = out \o SubSeq(buf, p + 1, Last0) /\ p' = Last0
      /\ scan' = IF Eols = {} THEN scan ELSE [scan EXCEPT !.seek = scan.cur, !.pos = Last0, !.writing = FALSE]
      /\ src' = src /\ off' = off /\ buf' = buf /\ pc' = pc
  BY DEF Lines!WriteLine, Lines!InBlock, Lines!LineStartsAt
<1>2. LinesTypes /\ BlockInv /\ LineInv /\ OutputInv
  BY DEF LinesInv
<1>3. /\ src \in Texts /\ off \in 0..Len(src) /\ Len(buf) \in 0..BlockSize /\ p \in 0..BlockSize
      /\ scan \in [sys : BOOLEAN, cur : 0..Len(src), seek : 0..Len(src), pos : 0..BlockSize,
                   writing : BOOLEAN, postseek : BOOLEAN]
      /\ scan.seek <= scan.cur /\ ~scan.postseek
  BY <1>1, <1>2 DEF LinesTypes, BlockInv
<1>4. src \in Seq(Chars) /\ Len(src) \in Nat /\ BlockSize \in Nat
  BY <1>3, TextIs
<1>5. PICK base \in Nat :
        /\ base = scan.cur /\ base + Len(buf) = off /\ Here = base + p
        /\ \A i \in 1..Len(buf) : buf[i] = src[base + i]
        /\ \A a, b \in 0..Len(buf) : a <= b => SubSeq(buf, a + 1, b) = SubSeq(src, base + a + 1, base + b)
  BY <1>1, BlockIs
<1>6. PICK last \in p + 1..Len(buf) :
        /\ last = Last0
        /\ Eols = {} => last = Len(buf) /\ \A i \in p + 1..Len(buf) : buf[i] # "n"
        /\ Eols # {} => buf[last] = "n" /\ \A i \in p + 1..last - 1 : buf[i] # "n"
  <2>1. CASE Eols = {}
    <3>1. Last0 = Len(buf) /\ Len(buf) \in p + 1..Len(buf)
      BY <1>1, <1>3, <2>1
    <3> QED
      BY <2>1, <3>1
  <2>2. CASE Eols # {}
    <3>1. PICK m \in Eols : \A l \in Eols : m <= l
      <4>1. Eols \subseteq Nat
        BY <1>3
      <4> HIDE DEF Eols
      <4> QED
        BY <2>2, <4>1, Least
    <3>2. Lines!Min(Eols) = m
      <4>1. \A x \in Eols : x \in Int
        BY <1>3
      <4> HIDE DEF Eols
      <4> QED
        BY <3>1, <4>1 DEF Lines!Min
    <3>3. Last0 = m /\ buf[m] = "n" /\ m \in p + 1..Len(buf)
      BY <2>2, <3>1, <3>2
    <3>4. \A i \in p + 1..m - 1 : buf[i] # "n"
      BY <1>3, <3>1, <3>3
    <3> QED
      BY <2>2, <3>3, <3>4
  <2> QED
    BY <2>1, <2>2
<1> HIDE DEF Eols, Last0
<1>7. /\ last \in 1..BlockSize /\ last \in 0..Len(buf) /\ p \in 0..Len(buf) /\ p <= last
      /\ base + last \in Here..Len(src) /\ Here \in Nat /\ Here <= Len(src)
  <2>1. PICK m \in Nat : m = Len(buf) /\ m <= BlockSize
    BY <1>3
  <2>2. p \in Nat /\ last \in Nat /\ p < last /\ last <= m /\ base + m <= Len(src)
    BY <1>3, <1>5, <1>6, <2>1
  <2>3. Here = base + p /\ Len(src) \in Nat /\ BlockSize \in Nat
    BY <1>4, <1>5
  <2>4. /\ last \in 1..BlockSize /\ last \in 0..Len(buf) /\ p \in 0..Len(buf) /\ p <= last
        /\ base + last <= Len(src) /\ base + p <= base + last /\ base + p \in Nat /\ base + last \in Nat
    BY <2>1, <2>2, <2>3
  <2> QED
    BY <2>3, <2>4
<1>8. LineStart \in Nat /\ LineStart <= Here /\ NoBreak(LineStart + 1, Here) /\ LineStarts(LineStart)
  BY <1>2, <1>3, <1>4 DEF LineInv, LineStart
<1>9. out' = out \o SubSeq(src, Here + 1, base + last)
  <2>1. SubSeq(buf, p + 1, last) = SubSeq(src, base + p + 1, base + last)
    BY <1>5, <1>7
  <2> QED
    BY <1>1, <1>5, <1>6, <2>1
<1>10. NoBreak(LineStart + 1, base + last - 1) /\ (Eols = {} => NoBreak(LineStart + 1, base + last))
  <2>1. ASSUME NEW k \in LineStart + 1..base + last - 1 PROVE src[k] # "n"
    <3>1. CASE k <= Here
      BY <1>7, <1>8, <2>1, <3>1 DEF NoBreak
    <3>2. CASE k > Here
      <4>1. PICK i \in p + 1..last - 1 : k = base + i
        <5>1. k \in Int /\ k <= base + last - 1 /\ k > base + p /\ p \in Nat /\ last \in Nat
          BY <1>3, <1>5, <1>7, <1>8, <2>1, <3>2
        <5>2. PICK d \in Nat : d = k - base
          BY <5>1
        <5>3. d \in p + 1..last - 1 /\ k = base + d
          BY <5>1, <5>2
        <5> QED
          BY <5>3
      <4>2. buf[i] # "n" /\ i \in 1..Len(buf)
        BY <1>3, <1>6, <1>7, <4>1
      <4> QED
        BY <1>5, <4>1, <4>2
    <3> QED
      BY <1>7, <1>8, <2>1, <3>1, <3>2
  <2>2. ASSUME Eols = {} PROVE src[base + last] # "n"
    <3>1. last \in p + 1..Len(buf) /\ last \in 1..Len(buf)
      BY <1>3, <1>6
    <3>2. buf[last] # "n"
      BY <1>6, <2>2, <3>1
    <3> QED
      BY <1>5, <3>1, <3>2
  <2>3. \A k \in LineStart + 1..base + last : k \in LineStart + 1..base + last - 1 \/ k = base + last
    BY <1>7, <1>8
  <2> QED
    BY <2>1, <2>2, <2>3 DEF NoBreak
<1>11. out' = Lines!Output(src)[base + last]
  <2>1. out = Lines!Output(src)[Here]
    BY <1>1, <1>2 DEF OutputInv
  <2>2. PICK x \in LineStart + 1..Len(src) : src[x] = "x" /\ NoBreak(LineStart + 1, x)
    BY <1>1, <1>2 DEF OutputInv
  <2>3. Here \in LineStart..Len(src)
    BY <1>7, <1>8
  <2> QED
    <3>1. PICK a \in Nat, h \in Nat, c \in Nat : a = LineStart /\ h = Here /\ c = base + last
      BY <1>7, <1>8
    <3>2. /\ h \in a..Len(src) /\ c \in h..Len(src)
          /\ x \in a + 1..Len(src) /\ NoBreak(a + 1, x) /\ NoBreak(a + 1, c - 1)
      BY <1>7, <1>10, <2>2, <2>3, <3>1
    <3>3. Lines!Output(src)[c] = Lines!Output(src)[h] \o SubSeq(src, h + 1, c)
      BY <1>4, <2>2, <3>2, TextCopied
    <3> QED
      BY <1>9, <2>1, <3>1, <3>3
<1>12. /\ scan' \in [sys : BOOLEAN, cur : 0..Len(src), seek : 0..Len(src), pos : 0..BlockSize,
                     writing : BOOLEAN, postseek : BOOLEAN]
       /\ scan'.cur = scan.cur /\ ~scan'.postseek /\ scan'.seek <= scan'.cur
       /\ Eols = {} => scan'.seek = scan.seek /\ scan'.pos = scan.pos /\ scan'.writing
       /\ Eols # {} => scan'.seek = base /\ scan'.pos = last /\ ~scan'.writing
  <2>1. CASE Eols = {}
    BY <1>1, <1>3, <2>1
  <2>2. CASE Eols # {}
    <3>1. scan' = [scan EXCEPT !.seek = scan.cur, !.pos = last, !.writing = FALSE]
      BY <1>1, <1>6, <2>2
    <3>2. scan.cur \in 0..Len(src) /\ last \in 0..BlockSize /\ scan.cur <= scan.cur
      BY <1>3, <1>4, <1>7
    <3> QED
      BY <1>3, <1>5, <2>2, <3>1, <3>2
  <2> QED
    BY <2>1, <2>2
<1>13. LinesTypes' /\ BlockInv' /\ Here' = base + last
  <2>1. p' \in 0..Len(buf) /\ p' = last
    BY <1>1, <1>6, <1>7
  <2> QED
    BY <1>1, <1>5, <1>12, <2>1, BlockStays
<1>14. LineInv' /\ OutputInv'
  <2>1. CASE Eols = {}
    <3>1. LineStart' = LineStart
      BY <1>12, <2>1 DEF LineStart
    <3>2. LineInv'
      BY <1>1, <1>7, <1>8, <1>10, <1>13, <2>1, <3>1 DEF LineInv, LineStarts, NoBreak
    <3>3. OutputInv'
      BY <1>1, <1>2, <1>11, <1>12, <1>13, <2>1, <3>1 DEF OutputInv, NoBreak
    <3> QED
      BY <3>2, <3>3
  <2>2. CASE Eols # {}
    <3>1. LineStart' = base + last
      <4>1. LineStart' = scan'.seek + scan'.pos
        BY DEF LineStart
      <4> QED
        BY <1>12, <2>2, <4>1
    <3>2. src[base + last] = "n"
      <4>1. buf[last] = "n" /\ last \in 1..Len(buf)
        BY <1>3, <1>6, <2>2
      <4> QED
        BY <1>5, <4>1
    <3>3. PICK h \in Nat : h = base + last /\ h <= Len(src)
      BY <1>7
    <3>4. \A k : k \notin h + 1..h
      BY <3>3
    <3>5. LineInv'
      BY <1>1, <1>13, <3>1, <3>2, <3>3, <3>4 DEF LineInv, LineStarts, NoBreak
    <3>6. OutputInv'
      BY <1>1, <1>11, <1>12, <1>13, <2>2, <3>1, <3>3, <3>4 DEF OutputInv
    <3> QED
      BY <3>5, <3>6
  <2> QED
    BY <2>1, <2>2
<1> QED
  BY <1>13, <1>14 DEF LinesInv

\* A blank line is left, or one more blank of it.
LEMMA SkipKeeps ==
  ASSUME LinesInv, Lines!SkipBlank
  PROVE  LinesInv'
<1>1. /\ pc = "scan" /\ p < Len(buf) /\ ~scan.writing /\ buf[p + 1] # "x" /\ p' = p + 1
      /\ scan' = IF buf[p + 1] = "n" THEN [scan EXCEPT !.seek = scan.cur, !.pos = p + 1, !.writing = FALSE] ELSE scan
      /\ src' = src /\ off' = off /\ buf' = buf /\ pc' = pc /\ out' = out
  BY DEF Lines!SkipBlank, Lines!InBlock, Lines!LineStartsAt
<1>2. LinesTypes /\ BlockInv /\ LineInv /\ OutputInv
  BY DEF LinesInv
<1>3. /\ src \in Texts /\ off \in 0..Len(src) /\ Len(buf) \in 0..BlockSize /\ p \in 0..BlockSize
      /\ scan \in [sys : BOOLEAN, cur : 0..Len(src), seek : 0..Len(src), pos : 0..BlockSize,
                   writing : BOOLEAN, postseek : BOOLEAN]
      /\ scan.seek <= scan.cur /\ ~scan.postseek
  BY <1>1, <1>2 DEF LinesTypes, BlockInv
<1>4. src \in Seq(Chars) /\ Len(src) \in Nat /\ BlockSize \in Nat
  BY <1>3, TextIs
<1>5. PICK base \in Nat :
        /\ base = scan.cur /\ base + Len(buf) = off /\ Here = base + p
        /\ \A i \in 1..Len(buf) : buf[i] = src[base + i]
  BY <1>1, BlockIs
<1>6. PICK h \in Nat : h = Here /\ h = base + p
  BY <1>3, <1>5
<1>7. p + 1 \in 1..Len(buf) /\ p + 1 \in 0..BlockSize /\ h + 1 <= Len(src) /\ base + (p + 1) = h + 1
      /\ p + 1 \in 0..Len(buf)
  <2>1. PICK m \in Nat : m = Len(buf) /\ m <= BlockSize /\ base + m <= Len(src)
    BY <1>3, <1>5
  <2> QED
    BY SMTT(60), <1>1, <1>3, <1>4, <1>6, <2>1
<1>8. src[h + 1] = buf[p + 1]
  BY <1>5, <1>7
<1>9. PICK a \in Nat : a = LineStart /\ a <= h /\ NoBreak(a + 1, h) /\ LineStarts(a)
  BY <1>2, <1>3, <1>4, <1>6 DEF LineInv, LineStart
<1>10. out = Lines!Output(src)[a] /\ \A k \in a + 1..h : src[k] # "x"
  BY <1>1, <1>2, <1>6, <1>9 DEF OutputInv
<1>11. \A k \in a + 1..h + 1 : k \in a + 1..h \/ k = h + 1
  BY <1>9
<1>12. CASE buf[p + 1] = "n"
  <2>1. /\ scan' \in [sys : BOOLEAN, cur : 0..Len(src), seek : 0..Len(src), pos : 0..BlockSize,
                      writing : BOOLEAN, postseek : BOOLEAN]
        /\ scan'.cur = scan.cur /\ ~scan'.postseek /\ scan'.seek <= scan'.cur
        /\ scan'.seek = base /\ scan'.pos = p + 1 /\ ~scan'.writing
    <3>1. scan' = [scan EXCEPT !.seek = scan.cur, !.pos = p + 1, !.writing = FALSE]
      BY <1>1, <1>12
    <3>2. scan.cur \in 0..Len(src) /\ p + 1 \in 0..BlockSize /\ scan.cur <= scan.cur
      BY <1>3, <1>4, <1>7
    <3> QED
      BY <1>3, <1>5, <3>1, <3>2
  <2>2. LinesTypes' /\ BlockInv' /\ Here' = h + 1
    <3>1. p' \in 0..Len(buf)
      BY <1>1, <1>7
    <3> QED
      BY <1>1, <1>5, <1>7, <2>1, <3>1, BlockStays
  <2>3. LineStart' = h + 1
    <3>1. LineStart' = scan'.seek + scan'.pos
      BY DEF LineStart
    <3> QED
      BY <1>7, <2>1, <3>1
  <2>4. Lines!Output(src)[h + 1] = Lines!Output(src)[a]
    <3>1. PICK b \in Nat : b = h + 1
      OBVIOUS
    <3>2. a \in 0..Len(src) /\ b \in a..Len(src) /\ b - 1 = h
      BY <1>4, <1>7, <1>9, <3>1
    <3>3. src[b] = "n" /\ NoBreak(a + 1, b - 1)
      BY <1>8, <1>9, <1>12, <3>1, <3>2
    <3>4. \A k \in a + 1..b : src[k] # "x"
      BY <1>8, <1>10, <1>11, <1>12, <3>1
    <3> QED
      BY <1>4, <1>9, <3>1, <3>2, <3>3, <3>4, BlankSkipped
  <2>5. \A k : k \notin h + 1 + 1..h + 1
    OBVIOUS
  <2>6. LineInv'
    BY <1>1, <1>7, <1>8, <1>12, <2>2, <2>3, <2>5 DEF LineInv, LineStarts, NoBreak
  <2>7. OutputInv'
    BY <1>1, <1>10, <2>1, <2>2, <2>3, <2>4, <2>5 DEF OutputInv
  <2> QED
    BY <2>2, <2>6, <2>7 DEF LinesInv
<1>13. CASE buf[p + 1] # "n"
  <2>1. scan' = scan
    BY <1>1, <1>13
  <2>2. LinesTypes' /\ BlockInv' /\ Here' = h + 1
    <3>1. p' \in 0..Len(buf)
      BY <1>1, <1>7
    <3> QED
      BY <1>1, <1>3, <1>5, <1>7, <2>1, <3>1, BlockStays
  <2>3. LineStart' = a
    BY <1>9, <2>1 DEF LineStart
  <2>4. NoBreak(a + 1, h + 1) /\ \A k \in a + 1..h + 1 : src[k] # "x"
    BY <1>1, <1>8, <1>9, <1>10, <1>11, <1>13 DEF NoBreak
  <2>5. LineInv'
    BY <1>1, <1>7, <1>9, <2>2, <2>3, <2>4 DEF LineInv, LineStarts, NoBreak
  <2>6. OutputInv'
    BY <1>1, <1>10, <2>1, <2>2, <2>3, <2>4 DEF OutputInv
  <2> QED
    BY <2>2, <2>5, <2>6 DEF LinesInv
<1> QED
  BY <1>12, <1>13

\* A text is found: back to the start of its line.
LEMMA FoundKeeps ==
  ASSUME LinesInv, Lines!FoundText
  PROVE  LinesInv'
<1>1. /\ pc = "scan" /\ p < Len(buf) /\ ~scan.writing /\ buf[p + 1] = "x"
      /\ scan.cur # scan.seek =>
           /\ off' = scan.seek /\ pc' = "read" /\ p' = p
           /\ scan' = [scan EXCEPT !.cur = scan.seek, !.writing = TRUE, !.postseek = TRUE]
      /\ scan.cur = scan.seek =>
           p' = scan.pos /\ off' = off /\ pc' = pc /\ scan' = [scan EXCEPT !.writing = TRUE]
      /\ src' = src /\ buf' = buf /\ out' = out
  BY DEF Lines!FoundText, Lines!InBlock
<1>2. LinesTypes /\ BlockInv /\ LineInv /\ OutputInv
  BY DEF LinesInv
<1>3. /\ src \in Texts /\ off \in 0..Len(src) /\ Len(buf) \in 0..BlockSize /\ p \in 0..BlockSize
      /\ scan \in [sys : BOOLEAN, cur : 0..Len(src), seek : 0..Len(src), pos : 0..BlockSize,
                   writing : BOOLEAN, postseek : BOOLEAN]
      /\ scan.seek <= scan.cur /\ ~scan.postseek
  BY <1>1, <1>2 DEF LinesTypes, BlockInv
<1>4. src \in Seq(Chars) /\ Len(src) \in Nat /\ BlockSize \in Nat
  BY <1>3, TextIs
<1>5. PICK base \in Nat :
        /\ base = scan.cur /\ base + Len(buf) = off /\ Here = base + p
        /\ \A i \in 1..Len(buf) : buf[i] = src[base + i]
  BY <1>1, BlockIs
<1>6. PICK h \in Nat : h = Here /\ h = base + p
  BY <1>3, <1>5
<1>7. p + 1 \in 1..Len(buf) /\ h + 1 <= Len(src) /\ base + (p + 1) = h + 1 /\ p <= Len(buf)
  <2>1. PICK m \in Nat : m = Len(buf) /\ m <= BlockSize /\ base + m <= Len(src)
    BY <1>3, <1>5
  <2> QED
    BY SMTT(60), <1>1, <1>3, <1>4, <1>6, <2>1
<1>8. src[h + 1] = "x"
  BY <1>1, <1>5, <1>7
<1>9. PICK a \in Nat : a = LineStart /\ a = scan.seek + scan.pos /\ a <= h /\ NoBreak(a + 1, h) /\ LineStarts(a)
  BY <1>2, <1>3, <1>4, <1>6 DEF LineInv, LineStart
<1>10. out = Lines!Output(src)[a]
  BY <1>1, <1>2, <1>9 DEF OutputInv
<1>11. h + 1 \in a + 1..Len(src) /\ NoBreak(a + 1, h + 1)
  <2>1. \A k \in a + 1..h + 1 : k \in a + 1..h \/ k = h + 1
    BY <1>9
  <2> QED
    BY <1>4, <1>7, <1>8, <1>9, <2>1 DEF NoBreak
<1>12. /\ scan' \in [sys : BOOLEAN, cur : 0..Len(src), seek : 0..Len(src), pos : 0..BlockSize,
                     writing : BOOLEAN, postseek : BOOLEAN]
       /\ scan'.seek = scan.seek /\ scan'.pos = scan.pos /\ scan'.writing
       /\ scan.cur # scan.seek => scan'.cur = scan.seek /\ scan'.postseek
       /\ scan.cur = scan.seek => scan'.cur = scan.cur /\ ~scan'.postseek
  BY <1>1, <1>3
<1>13. LineStart' = a
  BY <1>9, <1>12 DEF LineStart
<1>14. LinesTypes' /\ BlockInv' /\ Here' = a
  <2>1. CASE scan.cur # scan.seek
    <3>1. scan.seek \in 0..Len(src) /\ scan.seek <= scan.seek
      BY <1>3, <1>4
    <3>2. LinesTypes'
      BY <1>1, <1>3, <1>12, <2>1, <3>1 DEF LinesTypes
    <3>3. BlockInv'
      BY <1>1, <1>12, <2>1 DEF BlockInv
    <3>4. Here' = a
      BY <1>1, <1>12, <1>13, <2>1 DEF Here
    <3> QED
      BY <3>2, <3>3, <3>4
  <2>2. CASE scan.cur = scan.seek
    <3>1. scan.cur + scan.pos = a
      BY <1>9, <2>2
    <3>2. scan.pos \in 0..Len(buf)
      <4>1. scan.pos \in Nat /\ p \in Nat /\ Len(buf) \in Nat /\ base + scan.pos <= base + p
        BY <1>3, <1>5, <1>6, <1>9, <3>1
      <4> QED
        BY <1>7, <4>1
    <3>3. scan'.seek <= scan'.cur
      BY <1>3, <1>12, <2>2
    <3>4. p' \in 0..Len(buf) /\ pc' = "scan" /\ UNCHANGED <<src, off, buf>>
      BY <1>1, <2>2, <3>2
    <3>5. LinesTypes' /\ BlockInv' /\ Here' = scan.cur + p'
      BY <1>1, <1>12, <2>2, <3>3, <3>4, BlockStays
    <3> QED
      BY <1>1, <2>2, <3>1, <3>5
  <2> QED
    BY <2>1, <2>2
<1>15. \A k : k \notin a + 1..a
  BY <1>9
<1>16. LineInv'
  <2>1. a <= Len(src) /\ a <= a
    BY <1>4, <1>7, <1>9
  <2> QED
    BY <1>1, <1>9, <1>13, <1>14, <1>15, <2>1 DEF LineInv, LineStarts, NoBreak
<1>17. OutputInv'
  <2>1. \E x \in a + 1..Len(src) : src[x] = "x" /\ NoBreak(a + 1, x)
    BY <1>8, <1>11
  <2> QED
    BY <1>1, <1>10, <1>12, <1>13, <1>14, <2>1 DEF OutputInv, NoBreak
<1> QED
  BY <1>14, <1>16, <1>17 DEF LinesInv

\* The block is done, or the file.
LEMMA BlockDoneKeeps ==
  ASSUME LinesInv, Lines!BlockDone
  PROVE  LinesInv'
<1>1. /\ pc = "scan" /\ p >= Len(buf)
      /\ scan' = [scan EXCEPT !.cur = IF scan.sys THEN scan.cur + Len(buf) ELSE scan.cur]
      /\ pc' = IF buf = <<>> THEN "end" ELSE "read"
      /\ src' = src /\ off' = off /\ buf' = buf /\ p' = p /\ out' = out
  BY DEF Lines!BlockDone
<1>2. LinesTypes /\ BlockInv /\ LineInv /\ OutputInv
  BY DEF LinesInv
<1>3. /\ src \in Texts /\ off \in 0..Len(src) /\ Len(buf) \in 0..BlockSize /\ p \in 0..BlockSize
      /\ scan \in [sys : BOOLEAN, cur : 0..Len(src), seek : 0..Len(src), pos : 0..BlockSize,
                   writing : BOOLEAN, postseek : BOOLEAN]
      /\ scan.seek <= scan.cur /\ ~scan.postseek /\ p <= Len(buf) /\ (Len(buf) = 0 => off = Len(src))
  BY <1>1, <1>2 DEF LinesTypes, BlockInv
<1>4. src \in Seq(Chars) /\ Len(src) \in Nat /\ BlockSize \in Nat
  BY <1>3, TextIs
<1>5. PICK base \in Nat : base = scan.cur /\ base + Len(buf) = off /\ Here = base + p
  BY <1>1, BlockIs
<1>6. p = Len(buf) /\ Here = off /\ base <= off
  BY <1>1, <1>3, <1>5
<1>7. PICK c : c = IF scan.sys THEN scan.cur + Len(buf) ELSE scan.cur
  OBVIOUS
<1>8. c \in 0..Len(src) /\ scan.seek <= c /\ c <= off /\ (scan.sys => c = off)
  BY <1>3, <1>4, <1>5, <1>6, <1>7
<1>9. /\ scan' \in [sys : BOOLEAN, cur : 0..Len(src), seek : 0..Len(src), pos : 0..BlockSize,
                     writing : BOOLEAN, postseek : BOOLEAN]
      /\ scan'.cur = c /\ scan'.seek = scan.seek /\ scan'.pos = scan.pos
      /\ scan'.writing = scan.writing /\ scan'.sys = scan.sys /\ ~scan'.postseek
  BY <1>1, <1>3, <1>7, <1>8
<1>10. LinesTypes'
  BY <1>1, <1>3, <1>8, <1>9 DEF LinesTypes
<1>11. BlockInv'
  <2>1. buf = <<>> => off = Len(src)
    BY <1>3, EmptySeq
  <2> QED
    BY <1>1, <1>8, <1>9, <2>1 DEF BlockInv
<1>12. LineStart' = LineStart
  BY <1>9 DEF LineStart
<1>13. Here' = Here
  BY <1>1, <1>6, <1>9 DEF Here
<1>14. LineInv'
  BY <1>1, <1>2, <1>12, <1>13 DEF LineInv, LineStarts, NoBreak
<1>15. OutputInv'
  BY <1>1, <1>2, <1>9, <1>12, <1>13 DEF OutputInv, NoBreak
<1> QED
  BY <1>10, <1>11, <1>14, <1>15 DEF LinesInv

LEMMA LinesStep == LinesInv /\ Lines!Next => LinesInv'
BY ReadKeeps, WriteKeeps, SkipKeeps, FoundKeeps, BlockDoneKeeps DEF Lines!Next

LEMMA LinesStays ==
  ASSUME LinesInv, UNCHANGED <<src, off, buf, p, scan, out, pc>>
  PROVE  LinesInv'
<1>1. LineStart' = LineStart /\ Here' = Here
  BY DEF LineStart, Here
<1>2. LinesTypes' /\ BlockInv'
  BY DEF LinesInv, LinesTypes, BlockInv
<1>3. LineInv' /\ OutputInv'
  BY <1>1 DEF LinesInv, LineInv, LineStarts, OutputInv, NoBreak
<1> QED
  BY <1>2, <1>3 DEF LinesInv

LEMMA LinesAnswers == LinesInv => Lines!LinesKept /\ Lines!TypeOK
<1> SUFFICES ASSUME LinesInv PROVE Lines!LinesKept /\ Lines!TypeOK
  OBVIOUS
<1>1. LinesTypes /\ BlockInv /\ LineInv /\ OutputInv
  BY DEF LinesInv
<1>2. /\ src \in Texts /\ off \in 0..Len(src) /\ Len(buf) \in 0..BlockSize /\ p \in 0..BlockSize
      /\ scan \in [sys : BOOLEAN, cur : 0..Len(src), seek : 0..Len(src), pos : 0..BlockSize,
                   writing : BOOLEAN, postseek : BOOLEAN]
      /\ scan.seek <= scan.cur
  BY <1>1 DEF LinesTypes
<1>3. src \in Seq(Chars) /\ Len(src) \in Nat /\ BlockSize \in Nat
  BY <1>2, TextIs
<1>4. PICK a \in Nat, h \in Nat : a = LineStart /\ h = Here /\ a <= h /\ h <= Len(src)
  <2>1. LineStart \in Nat
    <3>1. scan.seek \in Nat /\ scan.pos \in Nat
      BY <1>2, <1>3
    <3> QED
      BY <3>1 DEF LineStart
  <2>2. Here \in Int
    <3>1. off \in Int /\ Len(buf) \in Int /\ p \in Int
      BY <1>2, <1>3
    <3> QED
      BY <2>1, <3>1 DEF Here
  <2>3. LineStart <= Here /\ Here <= Len(src)
    BY <1>1 DEF LineInv
  <2>4. Here \in Nat
    BY <2>1, <2>2, <2>3
  <2> QED
    BY <2>1, <2>3, <2>4
<1>5. out = Lines!Output(src)[a] \/ out = Lines!Output(src)[h]
  BY <1>1, <1>4 DEF OutputInv
<1>6. Lines!IsPrefix(out, Lines!Output(src)[Len(src)])
  <2>1. a \in 0..Len(src) /\ h \in 0..Len(src)
    BY <1>3, <1>4
  <2> QED
    BY <1>3, <1>5, <2>1, OutputPrefix
<1>7. ASSUME pc = "end" PROVE out = Lines!Output(src)[Len(src)]
  <2>1. h = Len(src)
    BY <1>1, <1>4, <1>7 DEF BlockInv, Here
  <2>2. CASE scan.writing
    BY <1>1, <1>4, <2>1, <2>2 DEF OutputInv
  <2>3. CASE ~scan.writing
    <3>1. out = Lines!Output(src)[a] /\ \A k \in a + 1..h : src[k] # "x"
      BY <1>1, <1>4, <2>3 DEF OutputInv
    <3>2. LineStarts(a) /\ NoBreak(a + 1, h - 1)
      BY <1>1, <1>3, <1>4 DEF LineInv, NoBreak
    <3>3. a \in 0..Len(src) /\ h \in a..Len(src)
      BY <1>3, <1>4
    <3> QED
      BY <1>3, <2>1, <3>1, <3>2, <3>3, BlankSkipped
  <2> QED
    BY <2>2, <2>3
<1>8. Lines!TypeOK
  BY <1>1, <1>2, <1>3 DEF Lines!TypeOK, LinesTypes
<1> QED
  BY <1>6, <1>7, <1>8 DEF Lines!LinesKept

-----------------------------------------------------------------------------
(***************************************************************************)
(* lab8: bytes, blanks and numbers.                                        *)
(***************************************************************************)
Octet == 0..255
Bytes == Seq(Octet)

LEMMA LeastByte ==
  ASSUME NEW X, X \subseteq Nat, X # {}
  PROVE  Pnm!Min(X) \in X /\ \A l \in X : Pnm!Min(X) <= l
  <1>1. \E m \in X : \A l \in X : m <= l
    BY Least
  <1> QED
    BY <1>1 DEF Pnm!Min

\* A number that is the least of a set.
LEMMA MinUnique ==
  ASSUME NEW X, X \subseteq Nat, NEW m \in X, \A l \in X : m <= l
  PROVE  Pnm!Min(X) = m
  <1>1. Pnm!Min(X) \in X /\ Pnm!Min(X) <= m
    BY LeastByte
  <1>2. m <= Pnm!Min(X) /\ m \in Nat /\ Pnm!Min(X) \in Nat
    BY <1>1
  <1> QED
    BY <1>1, <1>2

LEMMA AtIs ==
  ASSUME NEW t \in Bytes
  PROVE  /\ Len(t) \in Nat
         /\ \A i \in 1..Len(t) : t[i] \in Octet /\ Pnm!At(t, i) = t[i]
         /\ \A i \in Nat \ {0} : Pnm!At(t, i) \in Octet
         /\ \A i \in Nat : Pnm!At(t, i) # 0 => i <= Len(t)
         /\ \A i \in Nat : i > Len(t) => Pnm!At(t, i) = 0
  <1>1. Len(t) \in Nat /\ \A i \in 1..Len(t) : t[i] \in Octet
    BY LenProperties, ElementOfSeq DEF Bytes
  <1>3. \A i \in 1..Len(t) : Pnm!At(t, i) = t[i]
    BY <1>1 DEF Pnm!At
  <1>4. \A i \in Nat \ {0} : i <= Len(t) => i \in 1..Len(t)
    BY <1>1
  <1>5. \A i \in Nat \ {0} : Pnm!At(t, i) \in Octet
    <2>1. 0 \in Octet
      BY DEF Octet
    <2> QED
      BY <1>1, <1>4, <2>1 DEF Pnm!At
  <1>6. \A i \in Nat : Pnm!At(t, i) # 0 => i <= Len(t)
    BY DEF Pnm!At
  <1>7. \A i \in Nat : i > Len(t) => Pnm!At(t, i) = 0
    BY <1>1 DEF Pnm!At
  <1> QED
    BY <1>1, <1>3, <1>5, <1>6, <1>7

LEMMA ZeroIs == ~Pnm!IsSpace(0) /\ ~Pnm!IsDigit(0) /\ 0 \notin {43, 45} /\ 0 # Pnm!Hash
  BY DEF Pnm!IsSpace, Pnm!IsDigit, Pnm!Hash

\* The value of digits is a number, made digit by digit.
ValueBy(t, from, m, g) ==
  [j \in from - 1..m |-> IF j < from THEN 0 ELSE 10 * g[j - 1] + t[j] - 48]

LEMMA ValueExists ==
  ASSUME NEW t, NEW from \in Nat \ {0}, NEW e \in Nat
  PROVE  \E g : g = ValueBy(t, from, from - 1 + e, g)
  <1> DEFINE Some(m) == \E g : g = ValueBy(t, from, from - 1 + m, g)
             Bad == {m \in Nat : ~Some(m)}
  <1>0. from - 1 \in Nat
    OBVIOUS
  <1>1. Some(0)
    <2>1. PICK g : g = [j \in from - 1..from - 1 |-> 0]
      OBVIOUS
    <2>2. \A j \in from - 1..from - 1 + 0 : j < from
      OBVIOUS
    <2>3. from - 1 + 0 = from - 1
      OBVIOUS
    <2>4. g = ValueBy(t, from, from - 1 + 0, g)
      BY <2>1, <2>2, <2>3 DEF ValueBy
    <2> QED
      BY <2>4
  <1>2. ASSUME NEW m \in Nat, Some(m) PROVE Some(m + 1)
    <2>0. PICK z \in Nat : z = from - 1 + m /\ z + 1 = from - 1 + (m + 1)
      OBVIOUS
    <2>1. PICK g : g = ValueBy(t, from, z, g)
      BY <1>2, <2>0
    <2>2. PICK h : h = ValueBy(t, from, z + 1, g)
      OBVIOUS
    <2>3. \A j \in from - 1..z : h[j] = g[j]
      <3> SUFFICES ASSUME NEW j \in from - 1..z PROVE h[j] = g[j]
        OBVIOUS
      <3>1. j \in from - 1..z + 1
        BY <2>0
      <3>2. h[j] = ValueBy(t, from, z, g)[j]
        BY <2>2, <3>1 DEF ValueBy
      <3> QED
        BY <2>1, <3>2
    <2>4. \A j \in from - 1..z + 1 : ~(j < from) => j - 1 \in from - 1..z
      BY <2>0
    <2>5. ValueBy(t, from, z + 1, h) = ValueBy(t, from, z + 1, g)
      BY <2>3, <2>4 DEF ValueBy
    <2> QED
      BY <2>0, <2>2, <2>5
  <1> HIDE DEF Some
  <1>3. Some(e)
    <2> SUFFICES ASSUME Bad # {} PROVE FALSE
      OBVIOUS
    <2>1. PICK m \in Bad : \A l \in Bad : m <= l
      BY Least
    <2>2. m # 0 /\ m \in Nat
      BY <1>1, <2>1
    <2>3. m - 1 \in Nat /\ m - 1 \notin Bad
      BY <2>1, <2>2
    <2>4. Some((m - 1) + 1)
      BY <1>2, <2>3
    <2> QED
      BY <2>1, <2>2, <2>4
  <1> QED
    BY <1>3 DEF Some

LEMMA ValueEquals ==
  ASSUME NEW t \in Bytes, NEW from \in Nat \ {0}
  PROVE  \A j \in from - 1..Len(t) :
           Pnm!Value(t, from)[j] = IF j < from THEN 0 ELSE 10 * Pnm!Value(t, from)[j - 1] + t[j] - 48
  <1> SUFFICES ASSUME from - 1 <= Len(t)
               PROVE  \A j \in from - 1..Len(t) :
                        Pnm!Value(t, from)[j] = IF j < from THEN 0 ELSE 10 * Pnm!Value(t, from)[j - 1] + t[j] - 48
    BY AtIs
  <1>1. PICK g : g = ValueBy(t, from, Len(t), g) /\ g = CHOOSE x : x = ValueBy(t, from, Len(t), x)
    <2>1. Len(t) \in Nat
      BY AtIs
    <2>2. Len(t) - (from - 1) \in Nat /\ from - 1 + (Len(t) - (from - 1)) = Len(t)
      BY <2>1
    <2>3. \E g : g = ValueBy(t, from, from - 1 + (Len(t) - (from - 1)), g)
      BY ZenonT(60), <2>2, ValueExists
    <2> QED
      BY <2>2, <2>3
  <1>2. Pnm!Value(t, from) = g
    BY <1>1 DEF Pnm!Value, ValueBy
  <1>3. \A j \in from - 1..Len(t) : g[j] = IF j < from THEN 0 ELSE 10 * g[j - 1] + t[j] - 48
    BY <1>1 DEF ValueBy
  <1> QED
    BY <1>2, <1>3

LEMMA ValueIs ==
  ASSUME NEW t \in Bytes, NEW from \in Nat \ {0}
  PROVE  \A j \in from - 1..Len(t) : Pnm!Value(t, from)[j] \in Int
  <1>0. Len(t) \in Nat /\ from - 1 \in Nat /\ \A j \in 1..Len(t) : t[j] \in Int
    <2>1. Octet \subseteq Int
      BY DEF Octet
    <2>2. Len(t) \in Nat /\ \A j \in 1..Len(t) : t[j] \in Octet
      BY AtIs
    <2>3. \A j \in 1..Len(t) : t[j] \in Int
      BY <2>1, <2>2
    <2>4. from - 1 \in Nat
      OBVIOUS
    <2> QED
      BY <2>2, <2>3, <2>4
  <1>1. PICK g : g = Pnm!Value(t, from)
    OBVIOUS
  <1>2. \A j \in from - 1..Len(t) : g[j] = IF j < from THEN 0 ELSE 10 * g[j - 1] + t[j] - 48
    BY <1>1, ValueEquals
  <1> DEFINE Wrong == {j \in from - 1..Len(t) : g[j] \notin Int}
  <1> SUFFICES ASSUME Wrong # {} PROVE FALSE
    BY <1>1
  <1>8. PICK m \in Wrong : \A l \in Wrong : m <= l
    <2>1. Wrong \subseteq Nat
      BY <1>0
    <2> HIDE DEF Wrong
    <2> QED
      BY <2>1, Least
  <1>9. m \in from - 1..Len(t) /\ ~(m < from)
    BY <1>2, <1>8
  <1>10. m - 1 \in from - 1..Len(t) /\ m - 1 \notin Wrong /\ m \in 1..Len(t)
    BY <1>0, <1>8, <1>9
  <1>11. g[m] = 10 * g[m - 1] + t[m] - 48 /\ g[m - 1] \in Int /\ t[m] \in Int
    BY <1>0, <1>2, <1>9, <1>10
  <1> QED
    BY SMTT(60), <1>8, <1>11

\* k is the first that is no blank.
BlanksTo(t, i, k) == /\ k \in i..Len(t) + 1 /\ ~Pnm!IsSpace(Pnm!At(t, k))
                     /\ \A j \in i..k - 1 : Pnm!IsSpace(Pnm!At(t, j))

LEMMA BlanksIs ==
  ASSUME NEW t \in Bytes, NEW i \in 1..Len(t) + 1
  PROVE  BlanksTo(t, i, Pnm!Blanks(t, i))
  <1>0. Len(t) \in Nat
    BY AtIs
  <1> DEFINE X == {j \in i..Len(t) + 1 : ~Pnm!IsSpace(Pnm!At(t, j))}
  <1>1. X \subseteq Nat
    BY <1>0
  <1>2. Len(t) + 1 \in X
    BY <1>0, AtIs, ZeroIs
  <1>3. Pnm!Blanks(t, i) = Pnm!Min(X)
    BY DEF Pnm!Blanks
  <1> HIDE DEF X
  <1>4. PICK k \in X : k = Pnm!Min(X) /\ \A l \in X : k <= l
    BY <1>1, <1>2, LeastByte
  <1>5. k \in i..Len(t) + 1 /\ ~Pnm!IsSpace(Pnm!At(t, k)) /\ \A j \in i..Len(t) + 1 : j < k => Pnm!IsSpace(Pnm!At(t, j))
    <2>1. k \in i..Len(t) + 1 /\ ~Pnm!IsSpace(Pnm!At(t, k))
      BY <1>4 DEF X
    <2>2. \A j \in i..Len(t) + 1 : j \in X \/ Pnm!IsSpace(Pnm!At(t, j))
      BY DEF X
    <2>3. \A j \in i..Len(t) + 1 : j < k => j \notin X
      BY <1>0, <1>4, <2>1
    <2> QED
      BY <2>1, <2>2, <2>3
  <1>6. \A j \in i..k - 1 : j \in i..Len(t) + 1 /\ j < k
    BY <1>0, <1>5
  <1> QED
    BY <1>3, <1>4, <1>5, <1>6 DEF BlanksTo

LEMMA BlanksUnique ==
  ASSUME NEW t \in Bytes, NEW i \in 1..Len(t) + 1, NEW k, BlanksTo(t, i, k)
  PROVE  Pnm!Blanks(t, i) = k
  <1>0. Len(t) \in Nat
    BY AtIs
  <1>1. PICK m : m = Pnm!Blanks(t, i) /\ BlanksTo(t, i, m)
    BY BlanksIs
  <1>2. m \in Nat /\ k \in Nat /\ m \in i..Len(t) + 1 /\ k \in i..Len(t) + 1
    BY <1>0, <1>1 DEF BlanksTo
  <1>3. ~(m \in i..k - 1) /\ ~(k \in i..m - 1)
    BY <1>1 DEF BlanksTo
  <1> QED
    BY <1>1, <1>2, <1>3

\* m is the first from f on that is no digit.
DigitsTo(t, f, m) == /\ m \in f..Len(t) + 1 /\ ~Pnm!IsDigit(Pnm!At(t, m))
                     /\ \A j \in f..m - 1 : Pnm!IsDigit(Pnm!At(t, j))
RunEnd(t, f) == Pnm!Min({j \in f..Len(t) + 1 : ~Pnm!IsDigit(Pnm!At(t, j))})

LEMMA RunEndIs ==
  ASSUME NEW t \in Bytes, NEW f \in 1..Len(t) + 1
  PROVE  DigitsTo(t, f, RunEnd(t, f))
  <1>0. Len(t) \in Nat
    BY AtIs
  <1> DEFINE X == {j \in f..Len(t) + 1 : ~Pnm!IsDigit(Pnm!At(t, j))}
  <1>1. X \subseteq Nat
    BY <1>0
  <1>2. Len(t) + 1 \in X
    BY <1>0, AtIs, ZeroIs
  <1>3. RunEnd(t, f) = Pnm!Min(X)
    BY DEF RunEnd
  <1> HIDE DEF X
  <1>4. PICK k \in X : k = Pnm!Min(X) /\ \A l \in X : k <= l
    BY <1>1, <1>2, LeastByte
  <1>5. k \in f..Len(t) + 1 /\ ~Pnm!IsDigit(Pnm!At(t, k)) /\ \A j \in f..Len(t) + 1 : j < k => Pnm!IsDigit(Pnm!At(t, j))
    <2>1. k \in f..Len(t) + 1 /\ ~Pnm!IsDigit(Pnm!At(t, k))
      BY <1>4 DEF X
    <2>2. \A j \in f..Len(t) + 1 : j \in X \/ Pnm!IsDigit(Pnm!At(t, j))
      BY DEF X
    <2>3. \A j \in f..Len(t) + 1 : j < k => j \notin X
      BY <1>0, <1>4, <2>1
    <2> QED
      BY <2>1, <2>2, <2>3
  <1>6. \A j \in f..k - 1 : j \in f..Len(t) + 1 /\ j < k
    BY <1>0, <1>5
  <1> QED
    BY <1>3, <1>4, <1>5, <1>6 DEF DigitsTo

LEMMA RunEndUnique ==
  ASSUME NEW t \in Bytes, NEW f \in 1..Len(t) + 1, NEW k, DigitsTo(t, f, k)
  PROVE  RunEnd(t, f) = k
  <1>0. Len(t) \in Nat
    BY AtIs
  <1>1. PICK m : m = RunEnd(t, f) /\ DigitsTo(t, f, m)
    BY RunEndIs
  <1>2. m \in Nat /\ k \in Nat /\ m \in f..Len(t) + 1 /\ k \in f..Len(t) + 1
    BY <1>0, <1>1 DEF DigitsTo
  <1>3. ~(m \in f..k - 1) /\ ~(k \in f..m - 1)
    BY <1>1 DEF DigitsTo
  <1> QED
    BY <1>1, <1>2, <1>3

\* The parts of what strtol reads: blanks, where the digits begin, where they end.
LEMMA DigitsIs ==
  ASSUME NEW t \in Bytes, NEW i \in 1..Len(t) + 1
  PROVE  /\ Pnm!Blanks(t, i) \in i..Len(t) + 1 /\ Pnm!Digits(t, i) \in i..Len(t) + 1
         /\ Pnm!Digits(t, i) = IF Pnm!At(t, Pnm!Blanks(t, i)) \in {43, 45} THEN Pnm!Blanks(t, i) + 1 ELSE Pnm!Blanks(t, i)
  <1>0. Len(t) \in Nat /\ i \in Nat
    BY AtIs
  <1>1. PICK k : k = Pnm!Blanks(t, i) /\ k \in i..Len(t) + 1
    BY BlanksIs DEF BlanksTo
  <1>2. Pnm!At(t, k) \in {43, 45} => k # Len(t) + 1
    BY <1>0, AtIs
  <1>3. Pnm!Digits(t, i) = k + IF Pnm!At(t, k) \in {43, 45} THEN 1 ELSE 0
    BY <1>1 DEF Pnm!Digits
  <1> QED
    BY <1>0, <1>1, <1>2, <1>3

LEMMA StrtolIs ==
  ASSUME NEW t \in Bytes, NEW i \in 1..Len(t) + 1
  PROVE  Pnm!Strtol(t, i) =
           IF RunEnd(t, Pnm!Digits(t, i)) = Pnm!Digits(t, i) THEN [val |-> 0, rest |-> i]
           ELSE [val |-> IF Pnm!At(t, Pnm!Blanks(t, i)) = 45
                         THEN -(Pnm!Value(t, Pnm!Digits(t, i))[RunEnd(t, Pnm!Digits(t, i)) - 1])
                         ELSE Pnm!Value(t, Pnm!Digits(t, i))[RunEnd(t, Pnm!Digits(t, i)) - 1],
                 rest |-> RunEnd(t, Pnm!Digits(t, i))]
  BY DEF Pnm!Strtol, RunEnd

\* The same, with names for the parts.
Parsed(t, i, k, f, m) ==
  /\ k \in i..Len(t) + 1 /\ f \in k..Len(t) + 1 /\ m \in f..Len(t) + 1
  /\ BlanksTo(t, i, k) /\ f = (IF Pnm!At(t, k) \in {43, 45} THEN k + 1 ELSE k) /\ DigitsTo(t, f, m)
  /\ k = Pnm!Blanks(t, i) /\ f = Pnm!Digits(t, i)

LEMMA StrtolParts ==
  ASSUME NEW t \in Bytes, NEW i \in 1..Len(t) + 1
  PROVE  \E k, f, m : /\ Parsed(t, i, k, f, m)
                      /\ m = f => Pnm!Strtol(t, i).val = 0 /\ Pnm!Strtol(t, i).rest = i
                      /\ m # f => /\ Pnm!Strtol(t, i).rest = m
                                  /\ Pnm!Strtol(t, i).val = IF Pnm!At(t, k) = 45 THEN -(Pnm!Value(t, f)[m - 1])
                                                            ELSE Pnm!Value(t, f)[m - 1]
  <1>0. Len(t) \in Nat /\ i \in Nat \ {0}
    BY AtIs
  <1>1. PICK k, f, m : k = Pnm!Blanks(t, i) /\ f = Pnm!Digits(t, i) /\ m = RunEnd(t, f)
    OBVIOUS
  <1>2. k \in i..Len(t) + 1 /\ f \in i..Len(t) + 1 /\ f = IF Pnm!At(t, k) \in {43, 45} THEN k + 1 ELSE k
    BY <1>1, DigitsIs
  <1>3. f \in k..Len(t) + 1 /\ f \in 1..Len(t) + 1
    BY <1>0, <1>2
  <1>4. BlanksTo(t, i, k)
    BY <1>1, BlanksIs
  <1>5. DigitsTo(t, f, m)
    BY <1>1, <1>3, RunEndIs
  <1>6. m \in f..Len(t) + 1
    BY <1>5 DEF DigitsTo
  <1>7. Parsed(t, i, k, f, m)
    BY <1>1, <1>2, <1>3, <1>4, <1>5, <1>6 DEF Parsed
  <1>8. Pnm!Strtol(t, i) = IF m = f THEN [val |-> 0, rest |-> i]
                           ELSE [val |-> IF Pnm!At(t, k) = 45 THEN -(Pnm!Value(t, f)[m - 1]) ELSE Pnm!Value(t, f)[m - 1],
                                 rest |-> m]
    BY <1>1, StrtolIs
  <1>9. /\ m = f => Pnm!Strtol(t, i).val = 0 /\ Pnm!Strtol(t, i).rest = i
        /\ m # f => /\ Pnm!Strtol(t, i).rest = m
                    /\ Pnm!Strtol(t, i).val = IF Pnm!At(t, k) = 45 THEN -(Pnm!Value(t, f)[m - 1]) ELSE Pnm!Value(t, f)[m - 1]
    BY <1>8
  <1> QED
    BY <1>7, <1>9

LEMMA StrtolType ==
  ASSUME NEW t \in Bytes, NEW i \in 1..Len(t) + 1
  PROVE  /\ Pnm!Strtol(t, i).val \in Int /\ Pnm!Strtol(t, i).rest \in i..Len(t) + 1
         /\ Pnm!Strtol(t, i).val # 0 => Pnm!Strtol(t, i).rest > i
         /\ Pnm!Strtol(t, i).rest # i => Pnm!Strtol(t, i).rest > Pnm!Blanks(t, i)
         /\ Pnm!Strtol(t, i).rest # i => Pnm!At(t, Pnm!Blanks(t, i)) # Pnm!Hash
  <1>0. Len(t) \in Nat /\ i \in Nat \ {0}
    BY AtIs
  <1>1. PICK k, f, m : /\ Parsed(t, i, k, f, m)
                       /\ m = f => Pnm!Strtol(t, i).val = 0 /\ Pnm!Strtol(t, i).rest = i
                       /\ m # f => /\ Pnm!Strtol(t, i).rest = m
                                   /\ Pnm!Strtol(t, i).val = IF Pnm!At(t, k) = 45 THEN -(Pnm!Value(t, f)[m - 1])
                                                             ELSE Pnm!Value(t, f)[m - 1]
    BY StrtolParts
  <1>2. /\ k = Pnm!Blanks(t, i) /\ k \in i..Len(t) + 1 /\ f \in k..Len(t) + 1
        /\ f = IF Pnm!At(t, k) \in {43, 45} THEN k + 1 ELSE k
    BY <1>1 DEF Parsed
  <1>3. m \in f..Len(t) + 1 /\ DigitsTo(t, f, m)
    BY <1>1 DEF Parsed
  <1>4. CASE m = f
    <2>1. Pnm!Strtol(t, i).val = 0 /\ Pnm!Strtol(t, i).rest = i
      BY <1>1, <1>4
    <2>2. i \in i..Len(t) + 1
      BY <1>0
    <2> QED
      BY <2>1, <2>2
  <1>5. CASE m # f
    <2>1. m - 1 \in f - 1..Len(t) /\ f \in Nat \ {0}
      BY <1>0, <1>2, <1>3, <1>5
    <2>2. PICK v \in Int : v = Pnm!Value(t, f)[m - 1]
      BY <2>1, ValueIs
    <2>3. Pnm!Strtol(t, i).rest = m
      BY <1>1, <1>5
    <2>4. Pnm!Strtol(t, i).val = IF Pnm!At(t, k) = 45 THEN -v ELSE v
      BY <1>1, <1>5, <2>2
    <2>5. Pnm!Strtol(t, i).val \in Int
      BY <2>2, <2>4
    <2>6. m > i /\ m > k /\ m \in i..Len(t) + 1
      BY <1>0, <1>2, <1>3, <1>5
    <2>7. Pnm!At(t, k) # Pnm!Hash
      <3>1. f \in f..m - 1
        BY <1>0, <1>2, <1>3, <1>5
      <3>2. Pnm!IsDigit(Pnm!At(t, f))
        BY <1>3, <3>1 DEF DigitsTo
      <3> QED
        BY <1>2, <3>2 DEF Pnm!IsDigit, Pnm!Hash
    <2> QED
      BY <1>2, <2>3, <2>5, <2>6, <2>7
  <1> QED
    BY <1>4, <1>5

-----------------------------------------------------------------------------
(***************************************************************************)
(* What is read in the buffer s, which stands in the file t behind base,   *)
(* is what would be read there in the file, unless it reaches the end.     *)
(***************************************************************************)
Stands(t, base, s, i) ==
  /\ base \in Nat /\ base + Len(s) <= Len(t) /\ i \in 1..Len(s) + 1
  /\ \A j \in i..Len(s) : s[j] = t[base + j]

LEMMA AtStands ==
  ASSUME NEW t \in Bytes, NEW s \in Bytes, NEW base, NEW i, Stands(t, base, s, i)
  PROVE  /\ Len(s) \in Nat /\ Len(t) \in Nat /\ base \in Nat /\ i \in 1..Len(s) + 1 /\ i \in Nat \ {0}
         /\ base + i \in 1..Len(t) + 1
         /\ \A j \in i..Len(s) : Pnm!At(t, base + j) = Pnm!At(s, j)
  <1>0. Len(s) \in Nat /\ Len(t) \in Nat /\ base \in Nat /\ i \in 1..Len(s) + 1 /\ base + Len(s) <= Len(t)
    BY AtIs DEF Stands
  <1>1. i \in Nat \ {0} /\ base + i \in 1..Len(t) + 1
    BY <1>0
  <1>2. \A j \in i..Len(s) : j \in 1..Len(s) /\ base + j \in 1..Len(t)
    BY <1>0
  <1>3. \A j \in i..Len(s) : s[j] = t[base + j]
    BY DEF Stands
  <1>4. \A j \in 1..Len(s) : Pnm!At(s, j) = s[j]
    BY AtIs
  <1>5. \A j \in 1..Len(t) : Pnm!At(t, j) = t[j]
    BY AtIs
  <1> QED
    BY <1>0, <1>1, <1>2, <1>3, <1>4, <1>5

LEMMA BlanksStand ==
  ASSUME NEW t \in Bytes, NEW s \in Bytes, NEW base, NEW i, Stands(t, base, s, i), Pnm!Blanks(s, i) <= Len(s)
  PROVE  Pnm!Blanks(t, base + i) = base + Pnm!Blanks(s, i)
  <1>0. /\ Len(s) \in Nat /\ Len(t) \in Nat /\ base \in Nat /\ i \in 1..Len(s) + 1 /\ i \in Nat \ {0}
        /\ base + i \in 1..Len(t) + 1
        /\ \A j \in i..Len(s) : Pnm!At(t, base + j) = Pnm!At(s, j)
    BY AtStands
  <1>9. base + Len(s) <= Len(t)
    BY DEF Stands
  <1>1. PICK k : k = Pnm!Blanks(s, i) /\ BlanksTo(s, i, k)
    BY <1>0, BlanksIs
  <1>2. k \in i..Len(s) /\ ~Pnm!IsSpace(Pnm!At(s, k)) /\ \A j \in i..k - 1 : Pnm!IsSpace(Pnm!At(s, j))
    BY <1>0, <1>1 DEF BlanksTo
  <1>3. \A j \in base + i..base + k - 1 : j - base \in i..k - 1 /\ j - base \in i..Len(s) /\ base + (j - base) = j
    BY <1>0, <1>2
  <1>4. base + k \in base + i..Len(t) + 1 /\ k \in Nat
    BY <1>0, <1>2, <1>9
  <1>5. ~Pnm!IsSpace(Pnm!At(t, base + k))
    BY <1>0, <1>2
  <1>6. \A j \in base + i..base + k - 1 : Pnm!IsSpace(Pnm!At(t, j))
    <2> SUFFICES ASSUME NEW j \in base + i..base + k - 1 PROVE Pnm!IsSpace(Pnm!At(t, j))
      OBVIOUS
    <2>1. PICK l : l = j - base /\ l \in i..k - 1 /\ l \in i..Len(s) /\ base + l = j
      BY <1>3
    <2> QED
      BY <1>0, <1>2, <2>1
  <1>7. BlanksTo(t, base + i, base + k)
    <2>1. PICK a, z : a = base + i /\ z = base + k
      OBVIOUS
    <2>2. z \in a..Len(t) + 1
      BY <1>4, <2>1
    <2>4. ~Pnm!IsSpace(Pnm!At(t, z))
      BY <1>5, <2>1
    <2>5. \A j \in a..z - 1 : Pnm!IsSpace(Pnm!At(t, j))
      <3>1. z - 1 = base + k - 1
        BY <1>0, <1>4, <2>1
      <3> QED
        BY <1>6, <2>1, <3>1
    <2>3. BlanksTo(t, a, z)
      BY <2>2, <2>4, <2>5 DEF BlanksTo
    <2> QED
      BY <2>1, <2>3
  <1> QED
    BY <1>0, <1>1, <1>7, BlanksUnique

LEMMA DigitsStand ==
  ASSUME NEW t \in Bytes, NEW s \in Bytes, NEW base, NEW i, Stands(t, base, s, i), Pnm!Digits(s, i) <= Len(s)
  PROVE  /\ Pnm!Blanks(s, i) \in i..Len(s)
         /\ Pnm!Blanks(t, base + i) = base + Pnm!Blanks(s, i) /\ Pnm!Digits(t, base + i) = base + Pnm!Digits(s, i)
         /\ Pnm!At(t, base + Pnm!Blanks(s, i)) = Pnm!At(s, Pnm!Blanks(s, i))
  <1>0. /\ Len(s) \in Nat /\ Len(t) \in Nat /\ base \in Nat /\ i \in 1..Len(s) + 1 /\ i \in Nat \ {0}
        /\ base + i \in 1..Len(t) + 1
        /\ \A j \in i..Len(s) : Pnm!At(t, base + j) = Pnm!At(s, j)
    BY AtStands
  <1>1. PICK k, f : /\ k = Pnm!Blanks(s, i) /\ f = Pnm!Digits(s, i) /\ k \in i..Len(s) + 1
                    /\ f = IF Pnm!At(s, k) \in {43, 45} THEN k + 1 ELSE k
    BY <1>0, DigitsIs
  <1>2. k \in i..Len(s) /\ k \in Nat
    BY <1>0, <1>1
  <1>3. Pnm!Blanks(t, base + i) = base + k
    BY <1>1, <1>2, BlanksStand
  <1>4. Pnm!At(t, base + k) = Pnm!At(s, k)
    BY <1>0, <1>2
  <1>5. Pnm!Digits(t, base + i) = IF Pnm!At(t, base + k) \in {43, 45} THEN base + k + 1 ELSE base + k
    BY ZenonT(60), <1>0, <1>3, DigitsIs
  <1> QED
    BY <1>0, <1>1, <1>2, <1>3, <1>4, <1>5

LEMMA RunStands ==
  ASSUME NEW t \in Bytes, NEW s \in Bytes, NEW base, NEW i, Stands(t, base, s, i),
         NEW f \in i..Len(s), NEW m, DigitsTo(s, f, m), NEW n, DigitsTo(t, base + f, n)
  PROVE  /\ m <= Len(s) => n = base + m
         /\ m > Len(s) => n > base + Len(s)
  <1>0. /\ Len(s) \in Nat /\ Len(t) \in Nat /\ base \in Nat /\ i \in Nat \ {0}
        /\ \A j \in i..Len(s) : Pnm!At(t, base + j) = Pnm!At(s, j)
    BY AtStands
  <1>9. base + Len(s) <= Len(t)
    BY DEF Stands
  <1>1. m \in f..Len(s) + 1 /\ f \in Nat /\ m \in Nat /\ \A j \in f..m - 1 : Pnm!IsDigit(Pnm!At(s, j))
    BY <1>0 DEF DigitsTo
  <1>2. \A j \in f..m - 1 : Pnm!IsDigit(Pnm!At(t, base + j))
    <2>1. \A j \in f..m - 1 : j \in i..Len(s)
      BY <1>0, <1>1
    <2> QED
      BY <1>0, <1>1, <2>1
  <1>3. n \in base + f..Len(t) + 1 /\ ~Pnm!IsDigit(Pnm!At(t, n)) /\ \A j \in base + f..n - 1 : Pnm!IsDigit(Pnm!At(t, j))
    BY DEF DigitsTo
  <1>4. PICK l \in Nat : n = base + l /\ l >= f
    <2>1. n - base \in Nat /\ n = base + (n - base) /\ n - base >= f
      BY <1>0, <1>1, <1>3
    <2> QED
      BY <2>1
  <1>5. ~(l < m)
    <2> SUFFICES ASSUME l < m PROVE FALSE
      OBVIOUS
    <2>1. l \in f..m - 1
      BY <1>1, <1>4
    <2>2. Pnm!IsDigit(Pnm!At(t, base + l))
      BY <1>2, <2>1
    <2> QED
      BY <1>3, <1>4, <2>2
  <1>6. m <= Len(s) => ~(m < l)
    <2> SUFFICES ASSUME m <= Len(s), m < l PROVE FALSE
      OBVIOUS
    <2>1. base + m \in base + f..n - 1 /\ m \in i..Len(s)
      BY <1>0, <1>1, <1>4
    <2>2. Pnm!IsDigit(Pnm!At(t, base + m))
      BY <1>3, <2>1
    <2>3. Pnm!IsDigit(Pnm!At(s, m))
      BY <1>0, <2>1, <2>2
    <2> QED
      BY <2>3 DEF DigitsTo
  <1> QED
    BY <1>0, <1>1, <1>4, <1>5, <1>6

LEMMA ValueStands ==
  ASSUME NEW t \in Bytes, NEW s \in Bytes, NEW base, NEW i, Stands(t, base, s, i), NEW f \in i..Len(s)
  PROVE  \A j \in f - 1..Len(s) : Pnm!Value(t, base + f)[base + j] = Pnm!Value(s, f)[j]
  <1>0. /\ Len(s) \in Nat /\ Len(t) \in Nat /\ base \in Nat /\ i \in Nat \ {0}
    BY AtStands
  <1>9. base + Len(s) <= Len(t) /\ \A j \in i..Len(s) : s[j] = t[base + j]
    BY DEF Stands
  <1>1. f \in Nat \ {0} /\ base + f \in Nat \ {0}
    BY <1>0
  <1>2. PICK u : u = Pnm!Value(s, f)
    OBVIOUS
  <1>3. PICK v : v = Pnm!Value(t, base + f)
    OBVIOUS
  <1>4. \A j \in f - 1..Len(s) : u[j] = IF j < f THEN 0 ELSE 10 * u[j - 1] + s[j] - 48
    BY <1>1, <1>2, ValueEquals
  <1>5. \A j \in (base + f) - 1..Len(t) : v[j] = IF j < base + f THEN 0 ELSE 10 * v[j - 1] + t[j] - 48
    BY <1>1, <1>3, ValueEquals
  <1> DEFINE Wrong == {j \in f - 1..Len(s) : v[base + j] # u[j]}
  <1> SUFFICES ASSUME Wrong # {} PROVE FALSE
    BY <1>2, <1>3
  <1>6. PICK m \in Wrong : \A l \in Wrong : m <= l
    <2>1. Wrong \subseteq Nat
      BY <1>1
    <2> HIDE DEF Wrong
    <2> QED
      BY <2>1, Least
  <1>7. m \in f - 1..Len(s) /\ m \in Nat /\ v[base + m] # u[m]
    BY <1>1, <1>6
  <1>8. base + m \in (base + f) - 1..Len(t) /\ (base + m < base + f <=> m < f)
    BY <1>0, <1>1, <1>7, <1>9
  <1>10. CASE m < f
    BY <1>4, <1>5, <1>7, <1>8, <1>10
  <1>11. CASE ~(m < f)
    <2>1. m - 1 \in f - 1..Len(s) /\ ~(m <= m - 1) /\ m \in i..Len(s) /\ base + m - 1 = base + (m - 1)
      BY <1>0, <1>1, <1>7, <1>11
    <2>2. m - 1 \notin Wrong
      BY <1>6, <2>1
    <2>3. v[base + (m - 1)] = u[m - 1]
      BY <2>1, <2>2
    <2>4. s[m] = t[base + m]
      BY <1>9, <2>1
    <2>5. u[m] = 10 * u[m - 1] + s[m] - 48
      BY <1>4, <1>7, <1>11
    <2>6. v[base + m] = 10 * v[(base + m) - 1] + t[base + m] - 48
      BY <1>5, <1>8, <1>11
    <2>7. (base + m) - 1 = base + (m - 1)
      BY <1>0, <1>7
    <2> QED
      BY <1>7, <2>3, <2>4, <2>5, <2>6, <2>7
  <1> QED
    BY <1>10, <1>11

\* A number of the buffer that does not reach its end is one of the file; one that
\* does goes on in the file, or ends where the buffer ends.
LEMMA StrtolStands ==
  ASSUME NEW t \in Bytes, NEW s \in Bytes, NEW base, NEW i, Stands(t, base, s, i), Pnm!Digits(s, i) <= Len(s)
  PROVE  /\ Pnm!Strtol(s, i).rest <= Len(s) =>
              /\ Pnm!Strtol(t, base + i).val = Pnm!Strtol(s, i).val
              /\ Pnm!Strtol(t, base + i).rest = base + Pnm!Strtol(s, i).rest
         /\ Pnm!Strtol(s, i).rest > Len(s) => Pnm!Strtol(t, base + i).rest > base + Len(s)
  <1>0. /\ Len(s) \in Nat /\ Len(t) \in Nat /\ base \in Nat /\ i \in Nat \ {0} /\ i \in 1..Len(s) + 1
        /\ base + i \in 1..Len(t) + 1 /\ \A j \in i..Len(s) : Pnm!At(t, base + j) = Pnm!At(s, j)
    BY AtStands
  <1>1. PICK k, f, m : /\ Parsed(s, i, k, f, m)
                       /\ m = f => Pnm!Strtol(s, i).val = 0 /\ Pnm!Strtol(s, i).rest = i
                       /\ m # f => /\ Pnm!Strtol(s, i).rest = m
                                   /\ Pnm!Strtol(s, i).val = IF Pnm!At(s, k) = 45 THEN -(Pnm!Value(s, f)[m - 1])
                                                             ELSE Pnm!Value(s, f)[m - 1]
    BY <1>0, StrtolParts
  <1>2. PICK k1, f1, n : /\ Parsed(t, base + i, k1, f1, n)
                         /\ n = f1 => Pnm!Strtol(t, base + i).val = 0 /\ Pnm!Strtol(t, base + i).rest = base + i
                         /\ n # f1 => /\ Pnm!Strtol(t, base + i).rest = n
                                      /\ Pnm!Strtol(t, base + i).val = IF Pnm!At(t, k1) = 45 THEN -(Pnm!Value(t, f1)[n - 1])
                                                                       ELSE Pnm!Value(t, f1)[n - 1]
    BY <1>0, StrtolParts
  <1>3. /\ k = Pnm!Blanks(s, i) /\ f = Pnm!Digits(s, i) /\ k \in i..Len(s) + 1 /\ f \in k..Len(s) + 1 /\ m \in f..Len(s) + 1
        /\ DigitsTo(s, f, m)
    BY <1>1 DEF Parsed
  <1>4. k1 = Pnm!Blanks(t, base + i) /\ f1 = Pnm!Digits(t, base + i) /\ n \in f1..Len(t) + 1 /\ DigitsTo(t, f1, n)
    BY <1>2 DEF Parsed
  <1>5. k1 = base + k /\ f1 = base + f /\ Pnm!At(t, base + k) = Pnm!At(s, k)
    BY <1>3, <1>4, DigitsStand
  <1>6. f \in i..Len(s) /\ f \in Nat /\ m \in Nat /\ m <= Len(s) + 1 /\ f <= m
    BY <1>0, <1>3
  <1>7. m <= Len(s) => n = base + m
    BY <1>3, <1>4, <1>5, <1>6, RunStands
  <1>8. m > Len(s) => n > base + Len(s)
    BY <1>3, <1>4, <1>5, <1>6, RunStands
  <1>9. n \in Nat
    BY <1>0, <1>4, <1>5, <1>6
  <1>10. CASE m = f
    <2>1. n = f1
      BY <1>0, <1>5, <1>6, <1>7, <1>10
    <2>2. Pnm!Strtol(s, i).val = 0 /\ Pnm!Strtol(s, i).rest = i
      BY <1>1, <1>10
    <2>3. Pnm!Strtol(t, base + i).val = 0 /\ Pnm!Strtol(t, base + i).rest = base + i
      BY <1>2, <2>1
    <2>4. ~(i > Len(s))
      BY <1>0, <1>6
    <2> QED
      BY <2>2, <2>3, <2>4
  <1>11. CASE m # f
    <2>1. Pnm!Strtol(s, i).rest = m
      BY <1>1, <1>11
    <2>2. Pnm!Strtol(s, i).val = IF Pnm!At(s, k) = 45 THEN -(Pnm!Value(s, f)[m - 1]) ELSE Pnm!Value(s, f)[m - 1]
      BY <1>1, <1>11
    <2>3. n # f1
      BY <1>0, <1>5, <1>6, <1>7, <1>8, <1>9, <1>11
    <2>4. Pnm!Strtol(t, base + i).rest = n
      BY <1>2, <2>3
    <2>5. Pnm!Strtol(t, base + i).val = IF Pnm!At(t, k1) = 45 THEN -(Pnm!Value(t, f1)[n - 1]) ELSE Pnm!Value(t, f1)[n - 1]
      BY <1>2, <2>3
    <2>6. m <= Len(s) => Pnm!Value(t, f1)[n - 1] = Pnm!Value(s, f)[m - 1]
      <3>1. m <= Len(s) => m - 1 \in f - 1..Len(s) /\ n - 1 = base + (m - 1)
        BY <1>0, <1>6, <1>7
      <3>2. \A j \in f - 1..Len(s) : Pnm!Value(t, base + f)[base + j] = Pnm!Value(s, f)[j]
        BY <1>6, ValueStands
      <3> QED
        BY <1>5, <3>1, <3>2
    <2>7. m <= Len(s) => Pnm!Strtol(t, base + i).val = Pnm!Strtol(s, i).val
      BY <1>5, <2>2, <2>5, <2>6
    <2> QED
      BY <1>7, <1>8, <2>1, <2>4, <2>7
  <1> QED
    BY <1>10, <1>11

-----------------------------------------------------------------------------
(***************************************************************************)
(* Blanks and comments that are passed.                                    *)
(***************************************************************************)
LEMMA BlankPassed ==
  ASSUME NEW t \in Bytes, NEW i \in 1..Len(t), Pnm!IsSpace(Pnm!At(t, i))
  PROVE  Pnm!Blanks(t, i + 1) = Pnm!Blanks(t, i)
  <1>0. Len(t) \in Nat /\ i \in Nat /\ i \in 1..Len(t) + 1 /\ i + 1 \in 1..Len(t) + 1
    BY AtIs
  <1>1. PICK k : k = Pnm!Blanks(t, i) /\ BlanksTo(t, i, k)
    BY <1>0, BlanksIs
  <1>2. k \in i..Len(t) + 1 /\ k # i /\ ~Pnm!IsSpace(Pnm!At(t, k)) /\ \A j \in i..k - 1 : Pnm!IsSpace(Pnm!At(t, j))
    BY <1>1 DEF BlanksTo
  <1>3. k \in i + 1..Len(t) + 1 /\ \A j \in i + 1..k - 1 : j \in i..k - 1
    BY <1>0, <1>2
  <1>4. BlanksTo(t, i + 1, k)
    BY <1>2, <1>3 DEF BlanksTo
  <1> QED
    BY <1>0, <1>1, <1>4, BlanksUnique

LEMMA NoBlank ==
  ASSUME NEW t \in Bytes, NEW i \in 1..Len(t) + 1, ~Pnm!IsSpace(Pnm!At(t, i))
  PROVE  Pnm!Blanks(t, i) = i
  <1>0. Len(t) \in Nat /\ i \in Nat
    BY AtIs
  <1>1. i \in i..Len(t) + 1 /\ \A j \in i..i - 1 : FALSE
    BY <1>0
  <1>2. BlanksTo(t, i, i)
    BY <1>1 DEF BlanksTo
  <1> QED
    BY <1>2, BlanksUnique

\* Between a place and the first that is no blank, the first is the same.
LEMMA BlanksBetween ==
  ASSUME NEW t \in Bytes, NEW i \in 1..Len(t) + 1, NEW j \in i..Pnm!Blanks(t, i)
  PROVE  Pnm!Blanks(t, j) = Pnm!Blanks(t, i)
  <1>0. Len(t) \in Nat /\ i \in Nat
    BY AtIs
  <1>1. PICK k : k = Pnm!Blanks(t, i) /\ BlanksTo(t, i, k) /\ j \in i..k
    BY <1>0, BlanksIs
  <1>2. k \in i..Len(t) + 1 /\ ~Pnm!IsSpace(Pnm!At(t, k)) /\ \A l \in i..k - 1 : Pnm!IsSpace(Pnm!At(t, l))
    BY <1>1 DEF BlanksTo
  <1>3. j \in 1..Len(t) + 1 /\ k \in j..Len(t) + 1 /\ \A l \in j..k - 1 : l \in i..k - 1
    BY <1>0, <1>1, <1>2
  <1>4. BlanksTo(t, j, k)
    BY <1>2, <1>3 DEF BlanksTo
  <1> QED
    BY <1>1, <1>3, <1>4, BlanksUnique

-----------------------------------------------------------------------------
(***************************************************************************)
(* The reader of lab8: the types, for any files and any size of the        *)
(* buffer.  The image never grows beyond what the header announces: a      *)
(* sample of two bytes finds room for both, because the size and the limit *)
(* are even.                                                               *)
(***************************************************************************)
Header == [state : 0..4, incomment : BOOLEAN, fmt : 1..6,
           width : Nat \ {0}, height : Nat \ {0}, maxval : Nat \ {0}]

PnmInv ==
  /\ src \in Files /\ off \in 0..Len(src)
  /\ buf \in Bytes /\ Len(buf) <= BufLen /\ p \in 1..Len(buf) + 1
  /\ hdr \in Header
  /\ image \in Seq(Int) /\ Len(image) <= Pnm!Limit(hdr)
  /\ hdr.state # 4 => image = <<>>
  /\ hdr.maxval > 255 => \E k \in Nat : Len(image) = 2 * k
  /\ pc \in {"read", "space", "comment", "token", "end"}
  /\ outcome \in {"reading", "ok", "badformat", "early"}
  /\ fragile \in BOOLEAN

LEMMA BufAt ==
  ASSUME PnmInv
  PROVE  /\ Len(buf) \in Nat /\ p \in Nat /\ BufLen \in Nat
         /\ \A i \in 1..Len(buf) : buf[i] \in Octet /\ Pnm!At(buf, i) = buf[i]
         /\ \A i \in Nat \ {0} : Pnm!At(buf, i) \in Octet
         /\ \A i \in Nat : Pnm!At(buf, i) # 0 => i <= Len(buf)
  <1>1. buf \in Bytes /\ BufLen \in Nat /\ p \in 1..Len(buf) + 1
    BY FilesAssumption DEF PnmInv
  <1>2. /\ Len(buf) \in Nat
        /\ \A i \in 1..Len(buf) : buf[i] \in Octet /\ Pnm!At(buf, i) = buf[i]
        /\ \A i \in Nat \ {0} : Pnm!At(buf, i) \in Octet
        /\ \A i \in Nat : Pnm!At(buf, i) # 0 => i <= Len(buf)
    BY <1>1, AtIs
  <1> QED
    BY <1>1, <1>2

LEMMA BufStrtol ==
  ASSUME PnmInv
  PROVE  Pnm!Strtol(buf, p).val \in Int /\ Pnm!Strtol(buf, p).rest \in p..Len(buf) + 1
  <1>1. buf \in Bytes /\ p \in 1..Len(buf) + 1
    BY DEF PnmInv
  <1> QED
    BY <1>1, StrtolType

LEMMA ByteSeqs ==
  ASSUME PnmInv
  PROVE  \A i \in 1..Len(buf) + 1 : SubSeq(buf, i, Len(buf)) \in Bytes /\ Len(SubSeq(buf, i, Len(buf))) = Len(buf) - i + 1
  <1> SUFFICES ASSUME NEW i \in 1..Len(buf) + 1
               PROVE  SubSeq(buf, i, Len(buf)) \in Bytes /\ Len(SubSeq(buf, i, Len(buf))) = Len(buf) - i + 1
    OBVIOUS
  <1>1. buf \in Bytes /\ Len(buf) \in Nat
    BY LenProperties DEF PnmInv
  <1>2. \A k \in i..Len(buf) : k \in 1..Len(buf)
    BY <1>1
  <1>3. SubSeq(buf, i, Len(buf)) \in Bytes
    BY <1>1, <1>2, SubSeqProperties DEF Bytes
  <1>4. Len(SubSeq(buf, i, Len(buf))) = Len(buf) - i + 1
    <2>1. i \in Int /\ Len(buf) \in Int /\ i <= Len(buf) + 1
      BY <1>1
    <2> QED
      BY <1>1, <1>2, <2>1, SubSeqProperties
  <1> QED
    BY <1>3, <1>4

LEMMA MoreDataKeeps ==
  ASSUME PnmInv, NEW i \in 1..Len(buf) + 1, Pnm!MoreDataFrom(i)
  PROVE  PnmInv'
  <1>1. Len(buf) \in Nat /\ BufLen \in Nat /\ i \in Nat /\ Len(buf) <= BufLen /\ 1 <= i
    BY BufAt DEF PnmInv
  <1>2. PICK new \in Bytes : new = SubSeq(buf, i, Len(buf)) /\ Len(new) = Len(buf) - i + 1
    BY ByteSeqs
  <1>3. buf' = new /\ p' = 1 /\ pc' = "read" /\ UNCHANGED <<src, off, hdr, image, outcome, fragile>>
    BY <1>2 DEF Pnm!MoreDataFrom
  <1>4. Len(new) \in Nat
    BY LenProperties
  <1>5. Len(new) <= BufLen /\ 1 \in 1..Len(new) + 1
    BY <1>1, <1>2, <1>4
  <1>6. Pnm!Limit(hdr') = Pnm!Limit(hdr)
    BY <1>3 DEF Pnm!Limit, Pnm!Count, Pnm!Channels, Pnm!SampleSize
  <1> QED
    BY <1>3, <1>5, <1>6 DEF PnmInv

LEMMA EndKeepsPnm ==
  ASSUME PnmInv, Pnm!End(outcome'), outcome' \in {"ok", "badformat", "early"}, fragile' \in BOOLEAN
  PROVE  PnmInv'
  <1>1. Pnm!Limit(hdr') = Pnm!Limit(hdr)
    BY DEF Pnm!End, Pnm!Limit, Pnm!Channels, Pnm!SampleSize
  <1> QED
    BY <1>1 DEF PnmInv, Pnm!End

\* A step that leaves buffer, header and image alone.
LEMMA MoveKeeps ==
  ASSUME PnmInv, UNCHANGED <<src, off, buf, hdr, image, outcome>>, p' \in 1..Len(buf) + 1,
         pc' \in {"read", "space", "comment", "token", "end"}, fragile' \in BOOLEAN
  PROVE  PnmInv'
  <1>1. Pnm!Limit(hdr') = Pnm!Limit(hdr)
    BY DEF Pnm!Limit, Pnm!Count, Pnm!Channels, Pnm!SampleSize
  <1> QED
    BY <1>1 DEF PnmInv

LEMMA PnmReads ==
  ASSUME PnmInv, Pnm!Read
  PROVE  PnmInv'
  <1>1. Len(buf) \in Nat /\ BufLen \in Nat /\ Len(buf) <= BufLen /\ p \in Nat \ {0} /\ p <= Len(buf) + 1
    BY BufAt DEF PnmInv
  <1>2. src \in Bytes /\ Len(src) \in Nat /\ off \in 0..Len(src)
    BY FilesAssumption, LenProperties DEF PnmInv, Octet, Bytes
  <1> DEFINE room == Pnm!Min({BufLen - Len(buf), Len(src) - off})
  <1>3. room = BufLen - Len(buf) \/ room = Len(src) - off
    BY <1>1, <1>2 DEF Pnm!Min
  <1>4. room <= BufLen - Len(buf) /\ room <= Len(src) - off /\ room \in Nat
    <2>1. BufLen - Len(buf) \in Nat /\ Len(src) - off \in Nat
      <3>1. PICK l \in Nat, e \in Nat, b \in Nat, o \in Nat :
              l = Len(buf) /\ e = Len(src) /\ b = BufLen /\ o = off /\ l <= b /\ o <= e
        BY <1>1, <1>2
      <3>2. b - l \in Nat /\ e - o \in Nat
        BY <3>1
      <3> QED
        BY <3>1, <3>2
    <2>2. PICK a \in Nat, c \in Nat : a = BufLen - Len(buf) /\ c = Len(src) - off
      BY <2>1
    <2>3. \E m \in {a, c} : \A l \in {a, c} : m <= l
      BY <2>2
    <2>4. Pnm!Min({a, c}) \in {a, c} /\ \A l \in {a, c} : Pnm!Min({a, c}) <= l
      BY <2>3 DEF Pnm!Min
    <2>5. room = Pnm!Min({a, c})
      BY <2>2
    <2> QED
      BY <2>2, <2>4, <2>5
  <1>5. CASE room = 0
    <2>1. Pnm!End("early") /\ fragile' = fragile
      BY <1>5 DEF Pnm!Read
    <2>2. outcome' = "early"
      BY <2>1 DEF Pnm!End
    <2> QED
      BY <2>1, <2>2, EndKeepsPnm DEF PnmInv
  <1>6. CASE room # 0
    <2>1. PICK n \in 1..room : /\ buf' = buf \o SubSeq(src, off + 1, off + n)
                               /\ off' = off + n
      BY <1>6 DEF Pnm!Read
    <2>2. pc' = "space" /\ UNCHANGED <<src, p, hdr, image, outcome, fragile>>
      BY <1>6 DEF Pnm!Read
    <2> HIDE DEF room
    <2>3. n \in Nat /\ n <= BufLen - Len(buf) /\ off + n \in 0..Len(src) /\ off \in Nat
      <3>1. PICK l \in Nat, e \in Nat, b \in Nat, o \in Nat, r \in Nat :
              l = Len(buf) /\ e = Len(src) /\ b = BufLen /\ o = off /\ r = room
        BY <1>1, <1>2, <1>4
      <3>2. r <= b - l /\ r <= e - o /\ n \in 1..r
        BY <1>4, <2>1, <3>1
      <3>3. n \in Nat /\ n <= b - l /\ o + n \in 0..e
        BY <3>2
      <3> QED
        BY <3>1, <3>3
    <2>4. \A k \in off + 1..off + n : k \in 1..Len(src)
      BY <1>2, <2>3
    <2>5. PICK new \in Bytes : new = SubSeq(src, off + 1, off + n) /\ Len(new) = n
      <3>1. SubSeq(src, off + 1, off + n) \in Bytes
        BY <1>2, <2>3, <2>4, SubSeqProperties DEF Bytes
      <3>2. Len(SubSeq(src, off + 1, off + n)) = (off + n) - (off + 1) + 1
        BY <1>2, <2>3, <2>4, SubSeqProperties
      <3>3. (off + n) - (off + 1) + 1 = n
        BY <2>3
      <3> QED
        BY <3>1, <3>2, <3>3
    <2>6. buf' \in Bytes /\ Len(buf') = Len(buf) + n
      BY <2>1, <2>5, ConcatProperties DEF PnmInv, Bytes
    <2>7. Len(buf') <= BufLen /\ p \in 1..Len(buf') + 1
      BY <1>1, <2>3, <2>6
    <2>8. Pnm!Limit(hdr') = Pnm!Limit(hdr)
      BY <2>2 DEF Pnm!Limit, Pnm!Count, Pnm!Channels, Pnm!SampleSize
    <2>9. off' \in 0..Len(src)
      BY <2>1, <2>3
    <2> QED
      BY <2>2, <2>6, <2>7, <2>8, <2>9 DEF PnmInv
  <1> QED
    BY <1>5, <1>6

\* A step that changes the mark of a comment.
LEMMA RemarkKeeps ==
  ASSUME PnmInv, UNCHANGED <<src, off, buf, image, outcome>>, p' \in 1..Len(buf) + 1,
         NEW mark \in BOOLEAN, hdr' = [hdr EXCEPT !.incomment = mark],
         pc' \in {"read", "space", "comment", "token", "end"}, fragile' \in BOOLEAN
  PROVE  PnmInv'
  <1>1. /\ hdr' \in Header /\ hdr'.state = hdr.state /\ hdr'.fmt = hdr.fmt
        /\ hdr'.maxval = hdr.maxval /\ hdr'.width = hdr.width /\ hdr'.height = hdr.height
    BY DEF PnmInv, Header
  <1>2. Pnm!Limit(hdr') = Pnm!Limit(hdr)
    BY <1>1 DEF Pnm!Limit, Pnm!Count, Pnm!Channels, Pnm!SampleSize
  <1> QED
    BY <1>1, <1>2 DEF PnmInv

\* What the header announces is a number of bytes, even where a sample takes two.
LEMMA LimitIs ==
  ASSUME NEW g \in Header
  PROVE  Pnm!Limit(g) \in Nat /\ (g.maxval > 255 => \E k \in Nat : Pnm!Limit(g) = 2 * k)
  <1>1. PICK w \in Nat, h \in Nat, m \in Nat, c \in Nat :
          w = g.width /\ h = g.height /\ m = g.maxval /\ c = Pnm!Channels(g)
    BY DEF Header, Pnm!Channels
  <1>2. PICK k \in Nat : k = w * h * c
    <2>1. w * h \in Nat
      OBVIOUS
    <2> QED
      BY <2>1
  <1>3. Pnm!SampleSize(g) = IF m <= 255 THEN 1 ELSE 2
    BY <1>1 DEF Pnm!SampleSize
  <1>4. Pnm!Limit(g) = k * (IF m <= 255 THEN 1 ELSE 2)
    BY <1>1, <1>2, <1>3 DEF Pnm!Limit, Pnm!Count
  <1>5. CASE m <= 255
    BY <1>1, <1>4, <1>5
  <1>6. CASE m > 255
    <2>1. Pnm!Limit(g) = k * 2
      BY <1>4, <1>6
    <2> QED
      BY <2>1
  <1> QED
    BY <1>5, <1>6

\* A step that changes the header before the first sample.
LEMMA HeaderKeeps ==
  ASSUME PnmInv, UNCHANGED <<src, off, buf, image, outcome>>, p' \in 1..Len(buf) + 1,
         hdr' \in Header, image = <<>>,
         pc' \in {"read", "space", "comment", "token", "end"}, fragile' \in BOOLEAN
  PROVE  PnmInv'
  <1>1. Pnm!Limit(hdr') \in Nat
    BY LimitIs
  <1>2. Len(image') = 0 /\ image' = <<>>
    OBVIOUS
  <1>3. Len(image') <= Pnm!Limit(hdr') /\ \E k \in Nat : Len(image') = 2 * k
    <2>1. 0 = 2 * 0 /\ 0 \in Nat
      OBVIOUS
    <2> QED
      BY <1>1, <1>2, <2>1
  <1> QED
    BY <1>2, <1>3 DEF PnmInv

LEMMA PnmSpaces ==
  ASSUME PnmInv, Pnm!SkipSpace
  PROVE  PnmInv'
  <1>0. Len(buf) \in Nat /\ p \in Nat \ {0} /\ p \in 1..Len(buf) + 1
    BY BufAt DEF PnmInv
  <1>1. CASE hdr.state \in 1..3 /\ ~Pnm!Has(1)
    <2>1. Pnm!MoreDataFrom(p)
      BY <1>1 DEF Pnm!SkipSpace, Pnm!MoreData
    <2> QED
      BY <1>0, <2>1, MoreDataKeeps
  <1>2. CASE ~(hdr.state \in 1..3 /\ ~Pnm!Has(1)) /\ hdr.state \in 1..3 /\ Pnm!IsSpace(Pnm!At(buf, p))
    <2>1. p' = p + 1 /\ fragile' \in BOOLEAN /\ UNCHANGED <<src, off, buf, hdr, image, outcome, pc>>
      BY <1>2 DEF Pnm!SkipSpace, PnmInv
    <2>2. p + 1 \in 1..Len(buf) + 1
      BY <1>0, <1>2 DEF Pnm!Has
    <2> QED
      BY <2>1, <2>2, MoveKeeps DEF PnmInv
  <1>3. CASE ~(hdr.state \in 1..3 /\ ~Pnm!Has(1)) /\ ~(hdr.state \in 1..3 /\ Pnm!IsSpace(Pnm!At(buf, p)))
    <2>1. PICK mark \in BOOLEAN : hdr' = [hdr EXCEPT !.incomment = mark]
      BY <1>3 DEF Pnm!SkipSpace, PnmInv, Header
    <2>2. pc' = "comment" /\ UNCHANGED <<src, off, buf, image, outcome, p, fragile>>
      BY <1>3 DEF Pnm!SkipSpace
    <2> QED
      BY <2>1, <2>2, RemarkKeeps DEF PnmInv
  <1> QED
    BY <1>1, <1>2, <1>3

LEMMA PnmComments ==
  ASSUME PnmInv, Pnm!SkipComment
  PROVE  PnmInv'
  <1>0. Len(buf) \in Nat /\ p \in Nat \ {0} /\ p \in 1..Len(buf) + 1
    BY BufAt DEF PnmInv
  <1> DEFINE ends == hdr.incomment /\ Pnm!At(buf, p) = Pnm!NL
             last == ends /\ hdr.state = 4
  <1>1. CASE hdr.incomment /\ ~Pnm!Has(1)
    <2>1. Pnm!MoreDataFrom(p)
      BY <1>1 DEF Pnm!SkipComment, Pnm!MoreData
    <2> QED
      BY <1>0, <2>1, MoreDataKeeps
  <1>2. CASE ~(hdr.incomment /\ ~Pnm!Has(1)) /\ last /\ ~Pnm!IsSpace(Pnm!At(buf, p + 1))
    <2>1. Pnm!End("badformat") /\ fragile' \in BOOLEAN
      BY <1>2 DEF Pnm!SkipComment, PnmInv
    <2>2. outcome' = "badformat"
      BY <2>1 DEF Pnm!End
    <2> QED
      BY <2>1, <2>2, EndKeepsPnm
  <1>3. CASE ~(hdr.incomment /\ ~Pnm!Has(1)) /\ ~(last /\ ~Pnm!IsSpace(Pnm!At(buf, p + 1)))
    <2>1. /\ p' = p + (IF last THEN 2 ELSE IF hdr.incomment THEN 1 ELSE 0)
          /\ hdr' = [hdr EXCEPT !.incomment = @ /\ ~ends]
          /\ pc' = IF hdr.incomment THEN pc ELSE "token"
          /\ UNCHANGED <<src, off, buf, image, outcome, fragile>>
      BY <1>3 DEF Pnm!SkipComment
    <2>2. pc' \in {"read", "space", "comment", "token", "end"}
      BY <2>1 DEF PnmInv
    <2>3. PICK mark \in BOOLEAN : hdr' = [hdr EXCEPT !.incomment = mark]
      BY <2>1 DEF PnmInv, Header
    <2>4. p' \in 1..Len(buf) + 1
      <3>1. last => p + 1 <= Len(buf)
        <4>1. ~Pnm!IsSpace(0)
          BY DEF Pnm!IsSpace
        <4>2. last => Pnm!At(buf, p + 1) # 0
          BY <1>3, <4>1
        <4> HIDE DEF last
        <4> QED
          BY <1>0, <4>2, BufAt
      <3>2. hdr.incomment => p <= Len(buf)
        BY <1>0, <1>3 DEF Pnm!Has
      <3>3. CASE last
        BY <1>0, <2>1, <3>1, <3>3
      <3>4. CASE ~last /\ hdr.incomment
        <4>1. p' = p + 1
          BY <2>1, <3>4
        <4> QED
          BY <1>0, <3>2, <3>4, <4>1
      <3>5. CASE ~last /\ ~hdr.incomment
        <4>1. p' = p + 0
          BY <2>1, <3>5
        <4> QED
          BY <1>0, <4>1
      <3> QED
        BY <3>3, <3>4, <3>5
    <2> HIDE DEF last, ends
    <2> QED
      BY <2>1, <2>2, <2>3, <2>4, RemarkKeeps DEF PnmInv
  <1> QED
    BY <1>1, <1>2, <1>3

LEMMA HeaderStarts ==
  ASSUME NEW h \in Header, NEW f \in 1..6, NEW mark \in BOOLEAN
  PROVE  [h EXCEPT !.state = 1, !.fmt = f, !.incomment = mark] \in Header
  <1>1. 1 \in 0..4
    OBVIOUS
  <1>2. [h EXCEPT !.state = 1] \in Header
    BY <1>1 DEF Header
  <1>3. ASSUME NEW g \in Header PROVE [g EXCEPT !.fmt = f] \in Header /\ [g EXCEPT !.incomment = mark] \in Header
    BY DEF Header
  <1> QED
    BY <1>2, <1>3

LEMMA PnmMagic ==
  ASSUME PnmInv, Pnm!Magic
  PROVE  PnmInv'
  <1>0. Len(buf) \in Nat /\ p \in Nat \ {0} /\ p \in 1..Len(buf) + 1
    BY BufAt DEF PnmInv
  <1>1. CASE ~Pnm!Has(3)
    <2>1. Pnm!MoreDataFrom(p)
      BY <1>1 DEF Pnm!Magic, Pnm!MoreData
    <2> QED
      BY <1>0, <2>1, MoreDataKeeps
  <1> DEFINE good == Pnm!At(buf, p) = 80 /\ Pnm!At(buf, p + 1) \in 49..54 /\ (Pnm!At(buf, p + 2) = Pnm!Hash \/ Pnm!IsSpace(Pnm!At(buf, p + 2)))
  <1>2. CASE Pnm!Has(3) /\ ~good
    <2>1. Pnm!End("badformat") /\ fragile' = fragile
      BY <1>2 DEF Pnm!Magic
    <2>2. outcome' = "badformat"
      BY <2>1 DEF Pnm!End
    <2> QED
      BY <2>1, <2>2, EndKeepsPnm DEF PnmInv
  <1>3. CASE Pnm!Has(3) /\ good
    <2>1. /\ hdr.state = 0 /\ Pnm!At(buf, p + 1) \in 49..54
          /\ hdr' = [hdr EXCEPT !.state = 1, !.fmt = Pnm!At(buf, p + 1) - 48, !.incomment = (Pnm!At(buf, p + 2) = Pnm!Hash)]
          /\ p' = p + 3 /\ pc' = "space"
          /\ UNCHANGED <<src, off, buf, image, outcome, fragile>>
      BY <1>3 DEF Pnm!Magic
    <2>2. PICK f \in 1..6 : f = Pnm!At(buf, p + 1) - 48
      BY <2>1
    <2>3. PICK mark \in BOOLEAN : hdr' = [hdr EXCEPT !.state = 1, !.fmt = f, !.incomment = mark]
      BY ZenonT(60), <2>1, <2>2
    <2>4. hdr' \in Header
      <3>1. hdr \in Header
        BY DEF PnmInv
      <3> HIDE DEF good
      <3> QED
        BY <2>3, <3>1, f \in 1..6, mark \in BOOLEAN, HeaderStarts
    <2>5. p' \in 1..Len(buf) + 1
      BY <1>0, <1>3, <2>1 DEF Pnm!Has
    <2>6. image = <<>>
      BY <2>1 DEF PnmInv
    <2> QED
      BY <2>1, <2>4, <2>5, <2>6, HeaderKeeps DEF PnmInv
  <1> QED
    BY <1>1, <1>2, <1>3

LEMMA PnmNumbers ==
  ASSUME PnmInv, Pnm!Number
  PROVE  PnmInv'
  <1>0. Len(buf) \in Nat /\ p \in Nat \ {0} /\ p \in 1..Len(buf) + 1
    BY BufAt DEF PnmInv
  <1> DEFINE num == Pnm!Strtol(buf, p)
             after == Pnm!At(buf, num.rest)
             field == <<"width", "height", "maxval">>[hdr.state]
             good == num.val > 0 /\ (after = Pnm!Hash \/ Pnm!IsSpace(after))
  <1>1. num.val \in Int /\ num.rest \in p..Len(buf) + 1
    BY BufStrtol
  <1>2. CASE Pnm!At(buf, p) # 0 /\ num.rest > Len(buf)
    <2>1. Pnm!MoreDataFrom(p)
      BY <1>2 DEF Pnm!Number, Pnm!MoreData
    <2> QED
      BY <1>0, <2>1, MoreDataKeeps
  <1>3. CASE ~(Pnm!At(buf, p) # 0 /\ num.rest > Len(buf)) /\ ~good
    <2>1. Pnm!End("badformat") /\ fragile' \in BOOLEAN
      BY <1>3 DEF Pnm!Number, PnmInv
    <2>2. outcome' = "badformat"
      BY <2>1 DEF Pnm!End
    <2> QED
      BY <2>1, <2>2, EndKeepsPnm
  <1>4. CASE ~(Pnm!At(buf, p) # 0 /\ num.rest > Len(buf)) /\ good
    <2>1. /\ hdr.state \in 1..3
          /\ hdr' = [hdr EXCEPT ![field] = num.val,
                                !.incomment = @ \/ after = Pnm!Hash,
                                !.state = IF @ = 2 /\ ~Pnm!HasMaxval(hdr) THEN 4 ELSE @ + 1]
          /\ p' = num.rest + 1 /\ pc' = "space"
          /\ UNCHANGED <<src, off, buf, image, outcome, fragile>>
      BY <1>4 DEF Pnm!Number
    <2>2. num.val \in Nat \ {0}
      <3>1. PICK v \in Int : v = num.val
        BY <1>1
      <3>2. v > 0
        BY <1>4, <3>1
      <3> QED
        BY <3>1, <3>2
    <2>3. num.rest \in p..Len(buf)
      <3>1. PICK r \in p..Len(buf) + 1 : r = num.rest
        BY <1>1
      <3>2. r \in Nat /\ r <= Len(buf)
        <4>1. r \in Nat
          BY <1>0
        <4>2. Pnm!At(buf, r) # 0
          <5>1. ~Pnm!IsSpace(0) /\ Pnm!Hash # 0
            BY DEF Pnm!IsSpace, Pnm!Hash
          <5> QED
            BY <1>4, <3>1, <5>1
        <4> QED
          BY <4>1, <4>2, BufAt
      <3> QED
        BY <1>0, <3>1, <3>2
    <2>4. p' \in 1..Len(buf) + 1
      <3>1. PICK r \in p..Len(buf) : r = num.rest
        BY <2>3
      <3>2. p' = r + 1
        BY <2>1, <3>1
      <3> QED
        BY <1>0, <3>2
    <2>5. image = <<>> /\ hdr.incomment \in BOOLEAN /\ hdr \in Header
      <3>0. hdr.state \in 1..3
        BY <2>1
      <3> HIDE DEF num, after, field, good
      <3>1. hdr.state # 4
        BY <3>0
      <3> QED
        BY <3>1 DEF PnmInv, Header
    <2>6. PICK v \in Nat \ {0}, mark \in BOOLEAN, st \in 0..4 :
            hdr' = [hdr EXCEPT ![field] = v, !.incomment = mark, !.state = st]
      <3> DEFINE mark == hdr.incomment \/ after = Pnm!Hash
                 st == IF hdr.state = 2 /\ ~Pnm!HasMaxval(hdr) THEN 4 ELSE hdr.state + 1
      <3>1. mark \in BOOLEAN
        BY <2>5 DEF mark
      <3>2. st \in 0..4
        <4>1. hdr.state \in 1..3
          BY <2>1
        <4> HIDE DEF num, after, field, good
        <4>2. hdr.state + 1 \in 0..4
          BY <4>1
        <4> QED
          BY SMTT(60), <4>2
      <3>3. hdr' = [hdr EXCEPT ![field] = num.val, !.incomment = mark, !.state = st]
        <4>0. hdr.state \in 1..3
          BY <2>1
        <4> HIDE DEF num, after, good
        <4>1. field \in {"width", "height", "maxval"}
          BY <4>0
        <4>2. field # "incomment" /\ field # "state"
          BY <4>1
        <4>3. /\ hdr' = [hdr EXCEPT ![field] = num.val,
                                    !.incomment = hdr.incomment \/ after = Pnm!Hash,
                                    !.state = IF hdr.state = 2 /\ ~Pnm!HasMaxval(hdr) THEN 4 ELSE hdr.state + 1]
          <5>1. hdr.state \in 1..3
            BY <2>1
          <5> HIDE DEF field, num, after
          <5> QED
            BY <2>1, <2>5, <4>2 DEF Header
        <4> QED
          BY ZenonT(60), <4>3
      <3> HIDE DEF num, mark, st, field
      <3> QED
        BY <2>2, <3>1, <3>2, <3>3
    <2>7. hdr' \in Header
      <3>0. hdr.state \in 1..3
        BY <2>1
      <3> HIDE DEF num, after, good
      <3>1. field \in {"width", "height", "maxval"}
        BY <3>0
      <3>2. hdr \in Header
        BY DEF PnmInv
      <3> HIDE DEF field
      <3> QED
        BY <2>6, <3>1, <3>2 DEF Header
    <2> HIDE DEF num, after, field, good
    <2> QED
      BY <2>1, <2>4, <2>5, <2>7, HeaderKeeps DEF PnmInv
  <1> QED
    BY <1>2, <1>3, <1>4

\* A step that reads a byte or more and stores a sample.
LEMMA SampleKeeps ==
  ASSUME PnmInv, Len(image) < Pnm!Limit(hdr), hdr.state = 4, NEW val, val \in 0..hdr.maxval, Pnm!Store(val),
         buf' \in Bytes, Len(buf') = Len(buf), p' \in 1..Len(buf) + 1
  PROVE  PnmInv'
  <1>0. hdr \in Header /\ image \in Seq(Int)
    BY DEF PnmInv
  <1>1. PICK m \in Nat, v \in Nat, n \in Nat : m = hdr.maxval /\ v = val /\ n = Len(image) /\ v <= m
    <2>1. hdr.maxval \in Nat
      BY <1>0 DEF Header
    <2>2. Len(image) \in Nat
      BY <1>0, LenProperties
    <2>3. val \in Nat /\ val <= hdr.maxval
      BY <2>1
    <2> QED
      BY <2>1, <2>2, <2>3
  <1>2. PICK more \in Seq(Int) :
          /\ more = IF Pnm!SampleSize(hdr) = 1 THEN <<val>> ELSE <<val \div 256, val % 256>>
          /\ Len(more) = IF m <= 255 THEN 1 ELSE 2
    <2>1. Pnm!SampleSize(hdr) = IF m <= 255 THEN 1 ELSE 2
      BY <1>1 DEF Pnm!SampleSize
    <2>2. v \div 256 \in Int /\ v % 256 \in Int
      OBVIOUS
    <2>3. <<v>> \in Seq(Int) /\ Len(<<v>>) = 1
      OBVIOUS
    <2>4. PICK a \in Int, c \in Int : a = v \div 256 /\ c = v % 256
      BY <2>2
    <2>5. <<a, c>> \in Seq(Int) /\ Len(<<a, c>>) = 2
      OBVIOUS
    <2>6. CASE m <= 255
      <3>1. Pnm!SampleSize(hdr) = 1 /\ val = v
        BY <1>1, <2>1, <2>6
      <3>2. (IF Pnm!SampleSize(hdr) = 1 THEN <<val>> ELSE <<val \div 256, val % 256>>) = <<v>>
        BY <3>1
      <3> QED
        BY <2>3, <2>6, <3>2
    <2>7. CASE ~(m <= 255)
      <3>1. Pnm!SampleSize(hdr) = 2 /\ val = v
        BY <1>1, <2>1, <2>7
      <3>2. (IF Pnm!SampleSize(hdr) = 1 THEN <<val>> ELSE <<val \div 256, val % 256>>) = <<a, c>>
        BY <2>4, <3>1
      <3> QED
        BY <2>5, <2>7, <3>2
    <2> QED
      BY <2>6, <2>7
  <1>3. image' = image \o more /\ UNCHANGED <<src, off, hdr, pc, outcome, fragile>>
    <2>1. val \in 0..hdr.maxval
      OBVIOUS
    <2> QED
      BY ZenonT(60), <1>2, <2>1 DEF Pnm!Store
  <1>4. image' \in Seq(Int) /\ Len(image') = n + Len(more)
    BY <1>0, <1>1, <1>2, <1>3, ConcatProperties
  <1>5. Pnm!Limit(hdr') = Pnm!Limit(hdr)
    BY <1>3 DEF Pnm!Limit, Pnm!Count, Pnm!Channels, Pnm!SampleSize
  <1>6. PICK e \in Nat : e = Pnm!Limit(hdr) /\ (m > 255 => \E k \in Nat : e = 2 * k)
    BY <1>0, <1>1, LimitIs
  <1>7. m > 255 => \E k \in Nat : n = 2 * k
    BY <1>1 DEF PnmInv
  <1>8. Len(image') <= e /\ (m > 255 => \E k \in Nat : Len(image') = 2 * k)
    <2>1. n < e
      BY <1>1, <1>6
    <2>2. CASE m <= 255
      <3>1. Len(image') = n + 1
        BY <1>2, <1>4, <2>2
      <3> QED
        BY <2>1, <2>2, <3>1
    <2>3. CASE m > 255
      <3>1. Len(image') = n + 2
        BY <1>2, <1>4, <2>3
      <3>2. PICK k \in Nat, l \in Nat : n = 2 * k /\ e = 2 * l
        BY <1>6, <1>7, <2>3
      <3>3. n + 2 <= e /\ n + 2 = 2 * (k + 1) /\ k + 1 \in Nat
        BY <2>1, <3>2
      <3> QED
        BY <3>1, <3>3
    <2> QED
      BY <2>2, <2>3
  <1>9. hdr' = hdr /\ p' \in 1..Len(buf') + 1 /\ Len(buf') <= BufLen
    BY <1>3 DEF PnmInv
  <1>10. Len(image') <= Pnm!Limit(hdr') /\ (hdr'.maxval > 255 => \E k \in Nat : Len(image') = 2 * k)
    BY <1>1, <1>5, <1>6, <1>8, <1>9
  <1> QED
    BY <1>3, <1>4, <1>9, <1>10 DEF PnmInv

LEMMA PnmBits ==
  ASSUME PnmInv, Pnm!DataBit
  PROVE  PnmInv'
  <1>0. Len(buf) \in Nat /\ p \in Nat \ {0} /\ p \in 1..Len(buf) + 1
    BY BufAt DEF PnmInv
  <1>1. CASE ~Pnm!Has(1)
    <2>1. Pnm!MoreDataFrom(p)
      BY <1>1 DEF Pnm!DataBit, Pnm!MoreData
    <2> QED
      BY <1>0, <2>1, MoreDataKeeps
  <1>2. CASE Pnm!Has(1)
    <2>1. /\ hdr.state = 4 /\ Len(image) < Pnm!Limit(hdr)
          /\ Pnm!Store(Pnm!At(buf, p) % 2)
          /\ buf' = [buf EXCEPT ![p] = @ \div 2]
          /\ p' = IF Len(image) % 8 = 7 THEN p + 1 ELSE p
      BY <1>2 DEF Pnm!DataBit, Pnm!AtData
    <2>2. p \in 1..Len(buf)
      BY <1>0, <1>2 DEF Pnm!Has
    <2>3. PICK b \in Octet : b = buf[p] /\ Pnm!At(buf, p) = b
      BY <2>2, BufAt
    <2>4. b \div 2 \in Octet /\ b % 2 \in 0..1
      BY DEF Octet
    <2>5. buf' \in Bytes /\ Len(buf') = Len(buf)
      <3>1. buf' = [buf EXCEPT ![p] = b \div 2]
        BY <2>1, <2>3
      <3>2. buf \in Bytes
        BY DEF PnmInv
      <3>3. PICK d \in Octet : d = b \div 2
        BY <2>4
      <3> QED
        BY <2>2, <3>1, <3>2, <3>3, ExceptSeq DEF Bytes
    <2>6. b % 2 \in 0..hdr.maxval
      <3>1. PICK m \in Nat \ {0} : m = hdr.maxval
        BY DEF PnmInv, Header
      <3> QED
        BY <2>4, <3>1
    <2>7. p' \in 1..Len(buf) + 1
      <3>1. p' = p + 1 \/ p' = p
        BY <2>1
      <3> QED
        BY <1>0, <2>2, <3>1
    <2> QED
      BY <2>1, <2>3, <2>5, <2>6, <2>7, SampleKeeps
  <1> QED
    BY <1>1, <1>2

\* Refused samples end the reading.
LEMMA RefusalKeeps ==
  ASSUME PnmInv, NEW val, val \notin 0..hdr.maxval, Pnm!Store(val)
  PROVE  PnmInv'
  <1>1. Pnm!End("badformat") /\ fragile' = fragile
    BY DEF Pnm!Store
  <1>2. outcome' = "badformat"
    BY <1>1 DEF Pnm!End
  <1> QED
    BY <1>1, <1>2, EndKeepsPnm DEF PnmInv

LEMMA PnmBytes ==
  ASSUME PnmInv, Pnm!DataBinary
  PROVE  PnmInv'
  <1>0. Len(buf) \in Nat /\ p \in Nat \ {0} /\ p \in 1..Len(buf) + 1
    BY BufAt DEF PnmInv
  <1> DEFINE val == IF Pnm!SampleSize(hdr) = 1 THEN Pnm!At(buf, p) ELSE 256 * Pnm!At(buf, p) + Pnm!At(buf, p + 1)
  <1>1. CASE ~Pnm!Has(Pnm!SampleSize(hdr))
    <2>1. Pnm!MoreDataFrom(p)
      BY <1>1 DEF Pnm!DataBinary, Pnm!MoreData
    <2> QED
      BY <1>0, <2>1, MoreDataKeeps
  <1>2. CASE Pnm!Has(Pnm!SampleSize(hdr)) /\ ~(val <= hdr.maxval)
    <2>1. Pnm!Store(val)
      BY <1>2 DEF Pnm!DataBinary
    <2>2. val \notin 0..hdr.maxval
      BY <1>2
    <2> HIDE DEF val
    <2> QED
      BY <2>1, <2>2, RefusalKeeps
  <1>3. CASE Pnm!Has(Pnm!SampleSize(hdr)) /\ val <= hdr.maxval
    <2>1. /\ hdr.state = 4 /\ Len(image) < Pnm!Limit(hdr)
          /\ Pnm!Store(val) /\ p' = p + Pnm!SampleSize(hdr) /\ UNCHANGED buf
      BY <1>3 DEF Pnm!DataBinary, Pnm!AtData
    <2>2. val \in 0..hdr.maxval
      <3>1. p + 1 \in Nat \ {0}
        BY <1>0
      <3>2. PICK a \in Octet, c \in Octet : a = Pnm!At(buf, p) /\ c = Pnm!At(buf, p + 1)
        BY <1>0, <3>1, BufAt
      <3>3. val \in Nat
        BY <3>2 DEF Octet
      <3>4. PICK m \in Nat : m = hdr.maxval
        BY DEF PnmInv, Header
      <3> HIDE DEF val
      <3> QED
        BY <1>3, <3>3, <3>4
    <2>3. Pnm!SampleSize(hdr) \in 1..2
      BY DEF Pnm!SampleSize
    <2>4. p' \in 1..Len(buf) + 1
      <3>1. PICK q \in 1..2 : q = Pnm!SampleSize(hdr)
        BY <2>3
      <3>2. p + q <= Len(buf) + 1 /\ p' = p + q
        BY <1>3, <2>1, <3>1 DEF Pnm!Has
      <3> QED
        BY <1>0, <3>2
    <2>5. buf' \in Bytes /\ Len(buf') = Len(buf)
      BY <2>1 DEF PnmInv
    <2> HIDE DEF val
    <2> QED
      BY <2>1, <2>2, <2>4, <2>5, SampleKeeps
  <1> QED
    BY <1>1, <1>2, <1>3

LEMMA PnmTexts ==
  ASSUME PnmInv, Pnm!DataAscii
  PROVE  PnmInv'
  <1>0. Len(buf) \in Nat /\ p \in Nat \ {0} /\ p \in 1..Len(buf) + 1
    BY BufAt DEF PnmInv
  <1> DEFINE num == Pnm!Strtol(buf, p)
  <1>1. num.val \in Int /\ num.rest \in p..Len(buf) + 1
    BY BufStrtol
  <1>2. CASE Pnm!IsSpace(Pnm!At(buf, p)) /\ ~Pnm!Has(3)
    <2>1. Pnm!MoreDataFrom(p + 1)
      BY <1>2 DEF Pnm!DataAscii
    <2>2. p + 1 \in 1..Len(buf) + 1
      <3>1. Pnm!At(buf, p) # 0
        BY <1>2 DEF Pnm!IsSpace
      <3> QED
        BY <1>0, <3>1, BufAt
    <2> QED
      BY <2>1, <2>2, MoreDataKeeps
  <1>3. CASE Pnm!IsSpace(Pnm!At(buf, p)) /\ Pnm!Has(3)
    <2>1. p' = p + 1 /\ UNCHANGED <<src, off, buf, hdr, image, pc, outcome, fragile>>
      BY <1>3 DEF Pnm!DataAscii
    <2>2. p' \in 1..Len(buf) + 1
      BY <1>0, <1>3, <2>1 DEF Pnm!Has
    <2> QED
      BY <2>1, <2>2, MoveKeeps DEF PnmInv
  <1>4. CASE ~Pnm!IsSpace(Pnm!At(buf, p)) /\ Pnm!At(buf, p) # 0 /\ num.rest > Len(buf)
    <2>1. Pnm!MoreDataFrom(p)
      BY <1>4 DEF Pnm!DataAscii, Pnm!MoreData
    <2> QED
      BY <1>0, <2>1, MoreDataKeeps
  <1> DEFINE good == num.rest > p /\ num.val \in 0..hdr.maxval
  <1>5. CASE ~Pnm!IsSpace(Pnm!At(buf, p)) /\ ~(Pnm!At(buf, p) # 0 /\ num.rest > Len(buf)) /\ good
    <2>1. /\ hdr.state = 4 /\ Len(image) < Pnm!Limit(hdr)
          /\ Pnm!Store(num.val) /\ p' = num.rest /\ UNCHANGED buf
      BY <1>5 DEF Pnm!DataAscii, Pnm!AtData
    <2>2. num.val \in 0..hdr.maxval
      BY <1>5
    <2> HIDE DEF num
    <2>3. p' \in 1..Len(buf) + 1
      <3>1. PICK r \in p..Len(buf) + 1 : r = num.rest
        BY <1>1
      <3>2. p' = r
        BY <2>1, <3>1
      <3> QED
        BY <1>0, <3>2
    <2>4. buf' \in Bytes /\ Len(buf') = Len(buf)
      BY <2>1 DEF PnmInv
    <2> QED
      BY <2>1, <2>2, <2>3, <2>4, SampleKeeps
  <1>6. CASE ~Pnm!IsSpace(Pnm!At(buf, p)) /\ ~(Pnm!At(buf, p) # 0 /\ num.rest > Len(buf)) /\ ~good
    <2>1. Pnm!End("badformat") /\ fragile' \in BOOLEAN
      BY <1>6 DEF Pnm!DataAscii, PnmInv
    <2>2. outcome' = "badformat"
      BY <2>1 DEF Pnm!End
    <2> QED
      BY <2>1, <2>2, EndKeepsPnm
  <1> QED
    BY <1>2, <1>3, <1>4, <1>5, <1>6

LEMMA PnmStarts == Pnm!Init => PnmInv
  <1> SUFFICES ASSUME Pnm!Init PROVE PnmInv
    OBVIOUS
  <1>1. hdr \in Header
    BY DEF Pnm!Init, Header
  <1>2. src \in Files /\ Len(src) \in Nat /\ BufLen \in Nat
    BY FilesAssumption, LenProperties DEF Pnm!Init
  <1>3. Pnm!Limit(hdr) \in Nat
    BY <1>1, LimitIs
  <1>4. buf = <<>> /\ image = <<>> /\ Len(buf) = 0 /\ Len(image) = 0 /\ p = 1 /\ off = 0
    BY DEF Pnm!Init
  <1>5. off \in 0..Len(src) /\ p \in 1..Len(buf) + 1 /\ Len(buf) <= BufLen /\ Len(image) <= Pnm!Limit(hdr)
    BY <1>2, <1>3, <1>4
  <1>6. ~(hdr.maxval > 255)
    BY DEF Pnm!Init
  <1>7. buf \in Bytes /\ image \in Seq(Int)
    BY <1>4 DEF Bytes
  <1>8. pc = "read" /\ outcome = "reading" /\ fragile = FALSE
    BY DEF Pnm!Init
  <1> QED
    BY <1>1, <1>2, <1>4, <1>5, <1>6, <1>7, <1>8 DEF PnmInv

LEMMA PnmStep ==
  ASSUME PnmInv, [Pnm!Next]_Pnm!vars
  PROVE  PnmInv'
  <1>1. CASE Pnm!Finish
    <2>1. Pnm!End("ok") /\ fragile' = fragile
      BY <1>1 DEF Pnm!Finish
    <2>2. outcome' = "ok"
      BY <2>1 DEF Pnm!End
    <2> QED
      BY <2>1, <2>2, EndKeepsPnm DEF PnmInv
  <1>2. CASE UNCHANGED Pnm!vars
    <2>1. UNCHANGED <<src, off, buf, hdr, image, outcome, p, pc, fragile>>
      BY <1>2 DEF Pnm!vars
    <2> QED
      BY <2>1, MoveKeeps DEF PnmInv
  <1> QED
    BY <1>1, <1>2, PnmReads, PnmSpaces, PnmComments, PnmMagic, PnmNumbers, PnmBits, PnmBytes, PnmTexts
    DEF Pnm!Next

LEMMA PnmAnswers ==
  ASSUME PnmInv
  PROVE  Pnm!TypeOK
  <1>1. hdr.state \in 0..4 /\ hdr.incomment \in BOOLEAN
    BY DEF PnmInv, Header
  <1> QED
    BY <1>1 DEF PnmInv, Pnm!TypeOK

-----------------------------------------------------------------------------
(***************************************************************************)
(* Comments, and where the next token of the header begins.                *)
(***************************************************************************)
LEMMA CommentEndIs ==
  ASSUME NEW t \in Bytes, NEW i \in 1..Len(t) + 1
  PROVE  Pnm!CommentEnd(t, i) \in i..Len(t) + 1
  <1>0. Len(t) \in Nat /\ i \in Nat
    BY AtIs
  <1> DEFINE X == {Len(t) + 1} \cup {j \in i + 1..Len(t) + 1 : t[j - 1] = Pnm!NL}
  <1>1. X \subseteq i..Len(t) + 1 /\ Len(t) + 1 \in X
    BY <1>0
  <1>2. i..Len(t) + 1 \subseteq Nat
    BY <1>0
  <1>3. Pnm!CommentEnd(t, i) = Pnm!Min(X)
    BY DEF Pnm!CommentEnd
  <1> HIDE DEF X
  <1>4. Pnm!Min(X) \in X
    BY <1>1, <1>2, LeastByte
  <1> QED
    BY <1>1, <1>3, <1>4

\* A byte of a comment that does not end it.
LEMMA CommentOn ==
  ASSUME NEW t \in Bytes, NEW i \in 1..Len(t), Pnm!At(t, i) # Pnm!NL
  PROVE  Pnm!CommentEnd(t, i + 1) = Pnm!CommentEnd(t, i)
  <1>0. Len(t) \in Nat /\ i \in Nat /\ t[i] # Pnm!NL
    BY AtIs
  <1>1. ASSUME NEW j \in i + 1..Len(t) + 1, t[j - 1] = Pnm!NL PROVE j \in (i + 1) + 1..Len(t) + 1
    <2>1. j - 1 # i
      BY <1>0, <1>1
    <2> QED
      BY <1>0, <2>1
  <1>2. \A j \in (i + 1) + 1..Len(t) + 1 : j \in i + 1..Len(t) + 1
    BY <1>0
  <1>3. {j \in i + 1..Len(t) + 1 : t[j - 1] = Pnm!NL} = {j \in (i + 1) + 1..Len(t) + 1 : t[j - 1] = Pnm!NL}
    BY <1>1, <1>2
  <1> QED
    BY <1>3 DEF Pnm!CommentEnd

LEMMA CommentStops ==
  ASSUME NEW t \in Bytes, NEW i \in 1..Len(t), Pnm!At(t, i) = Pnm!NL
  PROVE  Pnm!CommentEnd(t, i) = i + 1
  <1>0. Len(t) \in Nat /\ i \in Nat /\ t[i] = Pnm!NL
    BY AtIs
  <1> DEFINE X == {Len(t) + 1} \cup {j \in i + 1..Len(t) + 1 : t[j - 1] = Pnm!NL}
  <1>1. X \subseteq Nat /\ \A l \in X : i + 1 <= l
    BY <1>0
  <1>2. i + 1 \in X
    <2>1. i + 1 \in i + 1..Len(t) + 1 /\ (i + 1) - 1 = i
      BY <1>0
    <2> QED
      BY <1>0, <2>1
  <1>3. Pnm!CommentEnd(t, i) = Pnm!Min(X)
    BY DEF Pnm!CommentEnd
  <1> HIDE DEF X
  <1> QED
    BY <1>1, <1>2, <1>3, MinUnique

\* The next token from i on, outside of a comment.
FreeToken(t, i) ==
  IF Pnm!At(t, Pnm!Blanks(t, i)) = Pnm!Hash THEN Pnm!CommentEnd(t, Pnm!Blanks(t, i)) ELSE Pnm!Blanks(t, i)

LEMMA FreeTokenIs ==
  ASSUME NEW t \in Bytes, NEW i \in 1..Len(t) + 1
  PROVE  FreeToken(t, i) \in i..Len(t) + 1
  <1>0. Len(t) \in Nat /\ i \in Nat
    BY AtIs
  <1>1. PICK k \in i..Len(t) + 1 : k = Pnm!Blanks(t, i)
    BY DigitsIs
  <1>2. k \in 1..Len(t) + 1
    BY <1>0, <1>1
  <1>3. Pnm!CommentEnd(t, k) \in k..Len(t) + 1
    BY <1>2, CommentEndIs
  <1>4. Pnm!CommentEnd(t, k) \in i..Len(t) + 1
    BY <1>0, <1>2, <1>1, <1>3
  <1> QED
    BY <1>1, <1>4 DEF FreeToken

\* h says where a token is looked for.
Spot(t, h) == h.at \in 1..Len(t) + 1 /\ h.comment \in BOOLEAN

LEMMA TokenIs ==
  ASSUME NEW t \in Bytes, NEW h, Spot(t, h)
  PROVE  /\ Pnm!Token(t, h) \in h.at..Len(t) + 1 /\ Pnm!Token(t, h) \in 1..Len(t) + 1
         /\ h.comment => Pnm!Token(t, h) = Pnm!CommentEnd(t, h.at)
         /\ ~h.comment => Pnm!Token(t, h) = FreeToken(t, h.at)
  <1>0. Len(t) \in Nat /\ h.at \in 1..Len(t) + 1
    BY AtIs DEF Spot
  <1>1. PICK i \in 1..Len(t) + 1 : i = h.at
    BY <1>0
  <1>2. h.comment => Pnm!Token(t, h) = Pnm!CommentEnd(t, i)
    BY <1>1 DEF Pnm!Token
  <1>3. ~h.comment => Pnm!Token(t, h) = FreeToken(t, i)
    BY <1>1 DEF Pnm!Token, FreeToken
  <1>4. Pnm!CommentEnd(t, i) \in i..Len(t) + 1 /\ FreeToken(t, i) \in i..Len(t) + 1
    BY CommentEndIs, FreeTokenIs
  <1>5. Pnm!Token(t, h) \in i..Len(t) + 1
    BY <1>2, <1>3, <1>4
  <1>6. Pnm!Token(t, h) \in 1..Len(t) + 1
    BY <1>0, <1>5
  <1> QED
    BY <1>1, <1>2, <1>3, <1>5, <1>6

\* What strtol reads is the same from everywhere between a place and the first
\* that is no blank.
LEMMA StrtolBetween ==
  ASSUME NEW t \in Bytes, NEW i \in 1..Len(t) + 1, NEW j \in i..Pnm!Blanks(t, i)
  PROVE  /\ j \in 1..Len(t) + 1
         /\ Pnm!Blanks(t, j) = Pnm!Blanks(t, i)
         /\ Pnm!Strtol(t, j).val = Pnm!Strtol(t, i).val
         /\ Pnm!Strtol(t, j).rest # j => Pnm!Strtol(t, j).rest = Pnm!Strtol(t, i).rest
         /\ Pnm!Strtol(t, j).rest = j => Pnm!Strtol(t, i).rest = i
  <1>0. Len(t) \in Nat /\ i \in Nat /\ Pnm!Blanks(t, i) \in i..Len(t) + 1
    BY AtIs, DigitsIs
  <1>1. j \in 1..Len(t) + 1 /\ j \in Nat
    BY <1>0
  <1>2. PICK k : k = Pnm!Blanks(t, i) /\ k = Pnm!Blanks(t, j)
    BY BlanksBetween
  <1>3. PICK f : f = Pnm!Digits(t, i) /\ f = Pnm!Digits(t, j)
    BY <1>2 DEF Pnm!Digits
  <1>4. PICK m : m = RunEnd(t, f)
    OBVIOUS
  <1>5. PICK v : v = IF Pnm!At(t, k) = 45 THEN -(Pnm!Value(t, f)[m - 1]) ELSE Pnm!Value(t, f)[m - 1]
    OBVIOUS
  <1>6. Pnm!Strtol(t, i) = IF m = f THEN [val |-> 0, rest |-> i] ELSE [val |-> v, rest |-> m]
    BY ZenonT(60), <1>2, <1>3, <1>4, <1>5, StrtolIs
  <1>7. Pnm!Strtol(t, j) = IF m = f THEN [val |-> 0, rest |-> j] ELSE [val |-> v, rest |-> m]
    BY <1>1, <1>2, <1>3, <1>4, <1>5, StrtolIs
  <1>f. f \in k..Len(t) + 1 /\ f \in 1..Len(t) + 1 /\ k \in Nat
    <2>1. k \in i..Len(t) + 1
      BY <1>0, <1>2
    <2>2. f \in i..Len(t) + 1
      BY <1>3, DigitsIs
    <2>3. f = k + 1 \/ f = k
      BY <1>2, <1>3, DigitsIs
    <2> QED
      BY <1>0, <2>1, <2>2, <2>3
  <1>m. m \in f..Len(t) + 1
    <2>1. DigitsTo(t, f, m)
      BY <1>f, <1>4, RunEndIs
    <2> QED
      BY <2>1 DEF DigitsTo
  <1>8. m # f => m > k
    BY <1>0, <1>f, <1>m
  <1>9. j <= k
    BY <1>0, <1>2
  <1>10. CASE m = f
    <2>1. Pnm!Strtol(t, i).val = 0 /\ Pnm!Strtol(t, j).val = 0 /\ Pnm!Strtol(t, i).rest = i /\ Pnm!Strtol(t, j).rest = j
      BY <1>6, <1>7, <1>10
    <2> QED
      BY <1>1, <1>2, <2>1
  <1>11. CASE m # f
    <2>1. Pnm!Strtol(t, i).val = v /\ Pnm!Strtol(t, j).val = v /\ Pnm!Strtol(t, i).rest = m /\ Pnm!Strtol(t, j).rest = m
      BY <1>6, <1>7, <1>11
    <2>2. m # j
      <3>1. m > k /\ k \in Nat /\ j \in Nat
        BY <1>0, <1>1, <1>2, <1>8, <1>11
      <3>2. m \in Int
        BY <1>0, <1>f, <1>m
      <3> QED
        BY <1>9, <3>1, <3>2
    <2> QED
      BY <1>1, <1>2, <2>1, <2>2
  <1> QED
    BY <1>10, <1>11

-----------------------------------------------------------------------------
(***************************************************************************)
(* Where the samples are.                                                  *)
(***************************************************************************)
TextBy(t, s, m, g) == [k \in 0..m |-> IF k = 0 THEN s ELSE Pnm!Strtol(t, g[k - 1]).rest]

LEMMA TextExists ==
  ASSUME NEW t, NEW s, NEW c \in Nat
  PROVE  \E g : g = TextBy(t, s, c, g)
  <1> DEFINE Some(m) == \E g : g = TextBy(t, s, m, g)
             Bad == {m \in Nat : ~Some(m)}
  <1>1. Some(0)
    <2>1. PICK g : g = [k \in 0..0 |-> s]
      OBVIOUS
    <2>2. \A k \in 0..0 : k = 0
      OBVIOUS
    <2>3. g = TextBy(t, s, 0, g)
      BY <2>1, <2>2 DEF TextBy
    <2> QED
      BY <2>3
  <1>2. ASSUME NEW m \in Nat, Some(m) PROVE Some(m + 1)
    <2>1. PICK g : g = TextBy(t, s, m, g)
      BY <1>2
    <2>2. PICK h : h = TextBy(t, s, m + 1, g)
      OBVIOUS
    <2>3. \A k \in 0..m : h[k] = g[k]
      <3> SUFFICES ASSUME NEW k \in 0..m PROVE h[k] = g[k]
        OBVIOUS
      <3>1. k \in 0..m + 1
        OBVIOUS
      <3>2. h[k] = TextBy(t, s, m, g)[k]
        BY <2>2, <3>1 DEF TextBy
      <3> QED
        BY <2>1, <3>2
    <2>4. \A k \in 0..m + 1 : k # 0 => k - 1 \in 0..m
      OBVIOUS
    <2>5. TextBy(t, s, m + 1, h) = TextBy(t, s, m + 1, g)
      BY <2>3, <2>4 DEF TextBy
    <2> QED
      BY <2>2, <2>5
  <1> HIDE DEF Some
  <1>3. Some(c)
    <2> SUFFICES ASSUME Bad # {} PROVE FALSE
      OBVIOUS
    <2>1. PICK m \in Bad : \A l \in Bad : m <= l
      BY Least
    <2>2. m # 0 /\ m \in Nat
      BY <1>1, <2>1
    <2>3. m - 1 \in Nat /\ m - 1 \notin Bad
      BY <2>1, <2>2
    <2>4. Some((m - 1) + 1)
      BY <1>2, <2>3
    <2> QED
      BY <2>1, <2>2, <2>4
  <1> QED
    BY <1>3 DEF Some

LEMMA PlaceOfText ==
  ASSUME NEW b, Pnm!IsAscii(Pnm!Announced(b)), Pnm!Count(Pnm!Announced(b)) \in Nat
  PROVE  /\ Pnm!Place(b)[0] = Pnm!Start(b)
         /\ \A k \in 1..Pnm!Count(Pnm!Announced(b)) : Pnm!Place(b)[k] = Pnm!Strtol(b, Pnm!Place(b)[k - 1]).rest
  <1>1. PICK c \in Nat : c = Pnm!Count(Pnm!Announced(b))
    OBVIOUS
  <1>2. PICK g : g = TextBy(b, Pnm!Start(b), c, g) /\ g = CHOOSE x : x = TextBy(b, Pnm!Start(b), c, x)
    <2>1. \E g : g = TextBy(b, Pnm!Start(b), c, g)
      BY TextExists
    <2> QED
      BY <2>1
  <1>3. Pnm!Place(b) = g
    BY <1>1, <1>2 DEF Pnm!Place, Pnm!PlacesFrom, TextBy
  <1>4. g[0] = Pnm!Start(b)
    BY <1>2 DEF TextBy
  <1>5. \A k \in 1..c : g[k] = Pnm!Strtol(b, g[k - 1]).rest
    BY <1>2 DEF TextBy
  <1> QED
    BY <1>1, <1>3, <1>4, <1>5

LEMMA PlaceOfBytes ==
  ASSUME NEW b, ~Pnm!IsAscii(Pnm!Announced(b)), NEW k \in 0..Pnm!Count(Pnm!Announced(b))
  PROVE  Pnm!Place(b)[k] = Pnm!Start(b) + IF Pnm!Announced(b).fmt = 4 THEN k \div 8 ELSE k * Pnm!SampleSize(Pnm!Announced(b))
  BY DEF Pnm!Place, Pnm!PlacesFrom

-----------------------------------------------------------------------------
(***************************************************************************)
(* The header of a file b, field by field.                                 *)
(***************************************************************************)
From(b, st) == IF st = 1 THEN Pnm!BeforeWidth(b) ELSE IF st = 2 THEN Pnm!BeforeHeight(b) ELSE Pnm!BeforeMaxval(b)
Sought(b, st) == Pnm!Token(b, From(b, st))

\* What a header h that has been read so far says is what the file says.
Known(b, h) ==
  /\ h.state >= 1 => Pnm!IsMagic(b) /\ h.fmt = b[2] - 48
  /\ h.state >= 2 => Pnm!IsField(b, From(b, 1)) /\ h.width = Pnm!Field(b, From(b, 1)).val
  /\ h.state >= 3 => Pnm!IsField(b, From(b, 2)) /\ h.height = Pnm!Field(b, From(b, 2)).val
  /\ h.state = 3 => Pnm!HasMaxval(h)
  /\ h.state < 4 => h.maxval = 1
  /\ h.state = 4 /\ Pnm!HasMaxval(h) => Pnm!IsField(b, From(b, 3)) /\ h.maxval = Pnm!Field(b, From(b, 3)).val
  /\ h.state = 4 /\ ~Pnm!HasMaxval(h) => h.maxval = 1

LEMMA BehindIs ==
  ASSUME NEW b \in Bytes, NEW h, Spot(b, h), Pnm!IsField(b, h)
  PROVE  /\ Spot(b, Pnm!Behind(b, h))
         /\ Pnm!Blanks(b, Pnm!Token(b, h)) < Pnm!Field(b, h).rest /\ Pnm!Field(b, h).rest <= Len(b)
  <1>1. PICK s \in 1..Len(b) + 1 : s = Pnm!Token(b, h)
    BY TokenIs
  <1>2. Len(b) \in Nat
    BY AtIs
  <1>3. PICK v, r : v = Pnm!Strtol(b, s).val /\ r = Pnm!Strtol(b, s).rest
    OBVIOUS
  <1>4. v \in Int /\ r \in s..Len(b) + 1 /\ (v # 0 => r > s) /\ (r # s => r > Pnm!Blanks(b, s))
    BY <1>3, StrtolType
  <1>5. v > 0 /\ r <= Len(b)
    BY <1>1, <1>3 DEF Pnm!IsField, Pnm!Field
  <1>6. r \in 1..Len(b) /\ r > Pnm!Blanks(b, s)
    BY <1>2, <1>4, <1>5
  <1>7. Pnm!Behind(b, h) = [at |-> r + 1, comment |-> b[r] = Pnm!Hash]
    BY <1>1, <1>3 DEF Pnm!Behind, Pnm!Field
  <1>8. r + 1 \in 1..Len(b) + 1
    BY <1>2, <1>6
  <1>9. Spot(b, Pnm!Behind(b, h))
    BY <1>7, <1>8 DEF Spot
  <1> QED
    BY <1>1, <1>3, <1>5, <1>6, <1>9 DEF Pnm!Field

LEMMA FromIs ==
  ASSUME NEW b \in Bytes, NEW h \in Header, Known(b, h), NEW st \in 1..3, st <= h.state
  PROVE  Spot(b, From(b, st)) /\ Sought(b, st) \in 1..Len(b) + 1
  <1>0. h.state \in 0..4 /\ Len(b) \in Nat
    BY AtIs DEF Header
  <1>1. Spot(b, From(b, 1))
    <2>1. Pnm!IsMagic(b)
      BY <1>0 DEF Known
    <2>2. 4 \in 1..Len(b) + 1
      BY <1>0, <2>1 DEF Pnm!IsMagic
    <2> QED
      BY <2>2 DEF From, Pnm!BeforeWidth, Spot
  <1>2. h.state >= 2 => Spot(b, From(b, 2))
    <2>1. h.state >= 2 => Pnm!IsField(b, From(b, 1))
      BY DEF Known
    <2>2. From(b, 2) = Pnm!Behind(b, From(b, 1))
      BY DEF From, Pnm!BeforeHeight
    <2> QED
      BY <1>1, <2>1, <2>2, BehindIs
  <1>3. h.state >= 3 => Spot(b, From(b, 3))
    <2>1. h.state >= 3 => Pnm!IsField(b, From(b, 2)) /\ Spot(b, From(b, 2))
      BY <1>0, <1>2 DEF Known
    <2>2. From(b, 3) = Pnm!Behind(b, From(b, 2))
      BY DEF From, Pnm!BeforeMaxval
    <2> QED
      BY <2>1, <2>2, BehindIs
  <1>4. Spot(b, From(b, st))
    <2>1. CASE st = 1
      BY <1>1, <2>1
    <2>2. CASE st = 2
      BY <1>2, <2>2
    <2>3. CASE st = 3
      BY <1>3, <2>3
    <2> QED
      BY <2>1, <2>2, <2>3
  <1> QED
    BY <1>4, TokenIs DEF Sought

\* What an image says behind its magic is what the header says that has been read.
LEMMA AnnouncedIs ==
  ASSUME NEW b \in Bytes, NEW h \in Header, Known(b, h), h.state = 4
  PROVE  /\ Pnm!HasFields(b) /\ Pnm!IsMagic(b)
         /\ Pnm!Announced(b).fmt = h.fmt /\ Pnm!Announced(b).width = h.width
         /\ Pnm!Announced(b).height = h.height /\ Pnm!Announced(b).maxval = h.maxval
  <1>1. /\ Pnm!IsMagic(b) /\ h.fmt = b[2] - 48
        /\ Pnm!IsField(b, From(b, 1)) /\ h.width = Pnm!Field(b, From(b, 1)).val
        /\ Pnm!IsField(b, From(b, 2)) /\ h.height = Pnm!Field(b, From(b, 2)).val
    BY DEF Known
  <1>2. From(b, 1) = Pnm!BeforeWidth(b) /\ From(b, 2) = Pnm!BeforeHeight(b) /\ From(b, 3) = Pnm!BeforeMaxval(b)
    BY DEF From
  <1>3. Pnm!Announced(b).fmt = h.fmt /\ Pnm!Announced(b).width = h.width /\ Pnm!Announced(b).height = h.height
    BY <1>1, <1>2 DEF Pnm!Announced
  <1>4. Pnm!Announced(b).maxval = IF h.fmt \in {1, 4} THEN 1 ELSE Pnm!Field(b, From(b, 3)).val
    BY <1>1, <1>2 DEF Pnm!Announced
  <1>5. Pnm!HasMaxval(Pnm!Announced(b)) <=> Pnm!HasMaxval(h)
    BY <1>3 DEF Pnm!HasMaxval
  <1>6. Pnm!HasMaxval(h) => Pnm!IsField(b, From(b, 3)) /\ h.maxval = Pnm!Field(b, From(b, 3)).val
    BY DEF Known
  <1>7. ~Pnm!HasMaxval(h) => h.maxval = 1
    BY DEF Known
  <1>8. Pnm!Announced(b).maxval = h.maxval
    BY <1>4, <1>6, <1>7 DEF Pnm!HasMaxval
  <1>9. Pnm!HasFields(b)
    BY <1>1, <1>2, <1>5, <1>6 DEF Pnm!HasFields
  <1> QED
    BY <1>1, <1>3, <1>8, <1>9

\* The same for what is computed from them.
LEMMA AnnouncedSizes ==
  ASSUME NEW b \in Bytes, NEW h \in Header, Known(b, h), h.state = 4
  PROVE  /\ Pnm!Count(Pnm!Announced(b)) = Pnm!Count(h) /\ Pnm!Limit(Pnm!Announced(b)) = Pnm!Limit(h)
         /\ Pnm!SampleSize(Pnm!Announced(b)) = Pnm!SampleSize(h)
         /\ Pnm!IsAscii(Pnm!Announced(b)) <=> Pnm!IsAscii(h)
         /\ Pnm!HasMaxval(Pnm!Announced(b)) <=> Pnm!HasMaxval(h)
         /\ Pnm!Announced(b).fmt = h.fmt /\ Pnm!Announced(b).maxval = h.maxval
  <1>1. PICK a : a = Pnm!Announced(b)
    OBVIOUS
  <1>2. a.fmt = h.fmt /\ a.width = h.width /\ a.height = h.height /\ a.maxval = h.maxval
    BY <1>1, AnnouncedIs
  <1>3. Pnm!Channels(a) = Pnm!Channels(h) /\ Pnm!SampleSize(a) = Pnm!SampleSize(h)
    BY <1>2 DEF Pnm!Channels, Pnm!SampleSize
  <1>4. Pnm!Count(a) = Pnm!Count(h)
    BY <1>2, <1>3 DEF Pnm!Count
  <1>5. Pnm!Limit(a) = Pnm!Limit(h)
    BY <1>3, <1>4 DEF Pnm!Limit
  <1>6. (Pnm!IsAscii(a) <=> Pnm!IsAscii(h)) /\ (Pnm!HasMaxval(a) <=> Pnm!HasMaxval(h))
    BY <1>2 DEF Pnm!IsAscii, Pnm!HasMaxval
  <1> QED
    BY <1>1, <1>2, <1>3, <1>4, <1>5, <1>6

\* An image has the field that is read, and the number fits in the buffer.
LEMMA ImageField ==
  ASSUME NEW b \in Files, NEW h \in Header, Known(b, h), h.state \in 1..3, Pnm!IsImage(b)
  PROVE  /\ Pnm!IsField(b, From(b, h.state))
         /\ Pnm!Field(b, From(b, h.state)).rest - Sought(b, h.state) < BufLen
  <1>1. Pnm!HasFields(b) /\ Pnm!NumbersFit(b)
    BY FilesAssumption DEF Pnm!IsImage
  <1>2. h.state = 3 => Pnm!HasMaxval(Pnm!Announced(b))
    <2>1. h.state = 3 => Pnm!HasMaxval(h) /\ h.fmt = b[2] - 48
      BY DEF Known
    <2>2. Pnm!Announced(b).fmt = b[2] - 48
      BY DEF Pnm!Announced
    <2> QED
      BY <2>1, <2>2 DEF Pnm!HasMaxval
  <1>3. PICK S : S = {Pnm!BeforeWidth(b), Pnm!BeforeHeight(b)}
                     \cup IF Pnm!HasMaxval(Pnm!Announced(b)) THEN {Pnm!BeforeMaxval(b)} ELSE {}
    OBVIOUS
  <1>4. \A g \in S : Pnm!Field(b, g).rest - Pnm!Token(b, g) < BufLen
    BY <1>1, <1>3 DEF Pnm!NumbersFit
  <1>5. From(b, h.state) \in S
    BY <1>2, <1>3 DEF From
  <1>6. Pnm!IsField(b, From(b, h.state))
    <2>1. CASE h.state = 1
      BY <1>1, <2>1 DEF From, Pnm!HasFields
    <2>2. CASE h.state = 2
      BY <1>1, <2>2 DEF From, Pnm!HasFields
    <2>3. CASE h.state = 3
      BY <1>1, <1>2, <2>3 DEF From, Pnm!HasFields
    <2> QED
      BY <2>1, <2>2, <2>3
  <1> QED
    BY <1>4, <1>5, <1>6 DEF Sought

-----------------------------------------------------------------------------
(***************************************************************************)
(* The invariant: as long as no end of the buffer was overlooked, what has *)
(* been parsed is what the formats say of the file up to here.             *)
(***************************************************************************)
Pow == <<1, 2, 4, 8, 16, 32, 64, 128>>
\* some bits of the byte at p have been taken and shifted out
Midway(h, img) == h.state = 4 /\ h.fmt = 4 /\ Len(img) % 8 # 0

\* The buffer s holds, from i on, what stands behind base in the file b.
Held(b, h, img, base, s, i) ==
  IF Midway(h, img) THEN /\ i <= Len(s) /\ Stands(b, base, s, i + 1)
                         /\ s[i] = b[base + i] \div Pow[(Len(img) % 8) + 1]
  ELSE Stands(b, base, s, i)

\* In the header: s is where the next token of the file b begins, at is where the
\* reader is.
Seeking(b, s, inc, at, place) ==
  /\ at \in 1..Len(b) + 1
  /\ inc => place \in {"read", "space", "comment"} /\ Pnm!CommentEnd(b, at) = s
  /\ ~inc /\ place \in {"comment", "token"} => s <= at /\ at <= Pnm!Blanks(b, s)
  /\ ~inc /\ place \in {"read", "space"} =>
       \/ FreeToken(b, at) = s
       \/ s <= at /\ at <= Pnm!Blanks(b, s) /\ Pnm!At(b, Pnm!Blanks(b, s)) # Pnm!Hash

\* The first m samples have been read, and the next one is looked for at at.
Got(b, h, img, at, m) ==
  /\ m \in 0..Pnm!Count(h) /\ Len(img) = m * Pnm!SampleSize(h)
  /\ \A k \in 1..m : Pnm!IsSample(b, k)
  /\ \A k \in 1..Len(img) : img[k] = Pnm!ImageOf(b)[k]
  /\ Pnm!Place(b)[m] \in 1..Len(b) + 1
  /\ IF Pnm!IsAscii(h) THEN at \in Pnm!Place(b)[m]..Pnm!Blanks(b, Pnm!Place(b)[m]) ELSE at = Pnm!Place(b)[m]

Gathering(b, h, img, at, place) ==
  IF h.incomment
  THEN /\ place \in {"read", "space", "comment"} /\ img = <<>> /\ at \in 1..Len(b) + 1
       /\ Pnm!AfterHeader(b).comment /\ Pnm!CommentEnd(b, at) = Pnm!CommentEnd(b, Pnm!AfterHeader(b).at)
  ELSE Pnm!DataSeparate(b) /\ \E m \in Nat : Got(b, h, img, at, m)

\* There is more to read and room for it, if the file is an image.
Room == Pnm!IsImage(src) => off < Len(src) /\ Len(buf) < BufLen
FileIndex == (off - Len(buf)) + p

Following ==
  /\ Held(src, hdr, image, off - Len(buf), buf, p)
  /\ Known(src, hdr)
  /\ hdr.state = 0 => FileIndex = 1 /\ ~hdr.incomment
  /\ hdr.state \in 1..3 => Seeking(src, Sought(src, hdr.state), hdr.incomment, FileIndex, pc)
  /\ hdr.state = 4 => Gathering(src, hdr, image, FileIndex, pc)
  /\ pc = "read" => Room

Settled == IF Pnm!IsImage(src) THEN outcome = "ok" /\ image = Pnm!ImageOf(src) ELSE outcome # "ok"

ImageInv ==
  /\ outcome = "reading" <=> pc # "end"
  /\ ~fragile /\ pc # "end" => Following
  /\ ~fragile /\ pc = "end" => Settled

\* Where blanks are skipped in a comment, and not all of the buffer before is
\* blanks, the comment is directly behind a token, and of blanks as far as here.
Glued ==
  /\ pc = "read" => p = 1
  /\ /\ pc = "space" /\ hdr.state \in 1..3 /\ hdr.incomment
     /\ \E j \in 1..p - 1 : ~Pnm!IsSpace(Pnm!At(buf, j))
     => /\ From(src, hdr.state).comment /\ From(src, hdr.state).at <= FileIndex
        /\ \A j \in From(src, hdr.state).at..FileIndex - 1 : Pnm!IsSpace(Pnm!At(src, j))

ReadInv == Pnm!EmptyComment(src) \/ (ImageInv /\ (~fragile => Glued))

LEMMA ImageAnswers == ReadInv => Pnm!ReadAsWritten
  BY DEF ReadInv, ImageInv, Settled, Pnm!ReadAsWritten

\* Where the buffer stands in the file.
LEMMA ReaderSizes ==
  ASSUME PnmInv
  PROVE  /\ src \in Bytes /\ buf \in Bytes /\ src \in Files
         /\ Len(src) \in Nat /\ Len(buf) \in Nat /\ off \in Nat /\ off <= Len(src)
         /\ p \in Nat \ {0} /\ p \in 1..Len(buf) + 1 /\ p <= Len(buf) + 1
         /\ BufLen \in Nat /\ BufLen >= 3 /\ Len(buf) <= BufLen /\ hdr \in Header /\ hdr.state \in 0..4 /\ hdr.incomment \in BOOLEAN
  <1>1. src \in Bytes /\ BufLen \in Nat /\ BufLen >= 3 /\ src \in Files
    BY FilesAssumption DEF PnmInv, Bytes, Octet
  <1>2. buf \in Bytes /\ p \in 1..Len(buf) + 1 /\ Len(buf) <= BufLen /\ off \in 0..Len(src) /\ hdr \in Header
    BY DEF PnmInv
  <1>3. Len(src) \in Nat /\ Len(buf) \in Nat
    BY <1>1, <1>2, AtIs
  <1>4. hdr.state \in 0..4 /\ hdr.incomment \in BOOLEAN
    BY <1>2 DEF Header
  <1> QED
    BY <1>1, <1>2, <1>3, <1>4

\* An end of the reading.
LEMMA EndSettles ==
  ASSUME ImageInv, pc # "end", Pnm!End(outcome'), outcome' # "reading", ~fragile' => ~fragile,
         ~fragile' => IF Pnm!IsImage(src) THEN outcome' = "ok" /\ image = Pnm!ImageOf(src) ELSE outcome' # "ok"
  PROVE  ImageInv'
  <1>1. pc' = "end" /\ UNCHANGED <<src, image>>
    BY DEF Pnm!End
  <1> QED
    BY <1>1 DEF ImageInv, Settled

LEMMA EndRefuses ==
  ASSUME ImageInv, pc # "end", Pnm!End("badformat"), ~fragile' => ~fragile, ~fragile' => ~Pnm!IsImage(src)
  PROVE  ImageInv'
  <1>1. outcome' = "badformat" /\ Pnm!End(outcome')
    BY DEF Pnm!End
  <1>2. outcome' # "reading" /\ outcome' # "ok"
    BY <1>1
  <1> QED
    BY <1>1, <1>2, EndSettles

\* What is in the buffer from i on moves to its front.
LEMMA MoveHeld ==
  ASSUME PnmInv, Held(src, hdr, image, off - Len(buf), buf, p), NEW i \in p..Len(buf) + 1, Pnm!MoreDataFrom(i),
         i = p \/ ~Midway(hdr, image)
  PROVE  Midway(hdr, image) \/ (Held(src, hdr, image, off - Len(buf), buf, p))'
  <1> SUFFICES ASSUME ~Midway(hdr, image) PROVE (Held(src, hdr, image, off - Len(buf), buf, p))'
    OBVIOUS
  <1>0. /\ buf \in Bytes /\ Len(src) \in Nat /\ Len(buf) \in Nat /\ off \in Nat /\ off <= Len(src) /\ p \in Nat \ {0}
    BY ReaderSizes
  <1>1. Stands(src, off - Len(buf), buf, p)
    BY DEF Held
  <1>2. buf' = SubSeq(buf, i, Len(buf)) /\ p' = 1 /\ UNCHANGED <<src, off, hdr, image>>
    BY DEF Pnm!MoreDataFrom
  <1>3. i \in Nat \ {0} /\ i \in 1..Len(buf) + 1
    BY <1>0
  <1>4. PICK d \in Bytes : d = buf' /\ Len(d) = Len(buf) - i + 1
    BY <1>2, <1>3, ByteSeqs
  <1>5. \A j \in 1..Len(d) : d[j] = buf[i + j - 1]
    <2>1. \A k \in i..Len(buf) : k \in 1..Len(buf)
      BY <1>0, <1>3
    <2>2. i \in Int /\ Len(buf) \in Int
      BY <1>0, <1>3
    <2>3. \A j \in 1..Len(buf) - i + 1 : SubSeq(buf, i, Len(buf))[j] = buf[i + j - 1]
      BY <1>0, <2>1, <2>2, SubSeqProperties DEF Bytes
    <2> QED
      BY <1>2, <1>4, <2>3
  <1>6. PICK c \in Int, n \in Nat : c = off - Len(d) /\ n = Len(buf) /\ off - Len(buf) \in Nat /\ c = (off - n) + (i - 1)
    BY <1>0, <1>1, <1>3, <1>4 DEF Stands
  <1>7. Stands(src, c, d, 1)
    <2>1. c \in Nat /\ c + Len(d) <= Len(src) /\ 1 \in 1..Len(d) + 1
      BY <1>0, <1>3, <1>4, <1>6
    <2>2. ASSUME NEW j \in 1..Len(d) PROVE d[j] = src[c + j]
      <3>1. i + j - 1 \in p..Len(buf) /\ (off - Len(buf)) + (i + j - 1) = c + j
        BY <1>0, <1>3, <1>4, <1>6
      <3>2. \A k \in p..Len(buf) : buf[k] = src[(off - Len(buf)) + k]
        BY <1>1 DEF Stands
      <3>3. buf[i + j - 1] = src[c + j]
        BY <3>1, <3>2
      <3> QED
        BY <1>5, <3>3
    <2> QED
      BY <2>1, <2>2 DEF Stands
  <1>8. ~(Midway(hdr, image))'
    BY <1>2 DEF Midway
  <1>9. off' - Len(buf') = c
    BY <1>2, <1>4, <1>6
  <1>10. (Stands(src, off - Len(buf), buf, p))'
    BY <1>2, <1>4, <1>7, <1>9
  <1> QED
    BY <1>8, <1>10 DEF Held

\* Where the reader is does not move with the buffer.
LEMMA MoveHere ==
  ASSUME PnmInv, NEW i \in p..Len(buf) + 1, Pnm!MoreDataFrom(i)
  PROVE  FileIndex' = FileIndex + (i - p) /\ Len(buf') = Len(buf) - i + 1 /\ off' = off
  <1>0. Len(buf) \in Nat /\ off \in Nat /\ p \in Nat \ {0}
    BY ReaderSizes
  <1>2. buf' = SubSeq(buf, i, Len(buf)) /\ p' = 1 /\ UNCHANGED <<src, off, hdr, image>>
    BY DEF Pnm!MoreDataFrom
  <1>3. i \in 1..Len(buf) + 1
    BY <1>0
  <1>4. PICK l \in Int : l = Len(buf') /\ l = Len(buf) - i + 1
    <2>1. Len(SubSeq(buf, i, Len(buf))) = Len(buf) - i + 1
      BY <1>3, ByteSeqs
    <2>2. Len(buf) - i + 1 \in Int
      BY <1>0, <1>3
    <2> QED
      BY <1>2, <2>1, <2>2
  <1>5. FileIndex' = (off - l) + 1
    BY <1>2, <1>4 DEF FileIndex
  <1> QED
    BY <1>0, <1>2, <1>4, <1>5 DEF FileIndex

LEMMA MoreKeeps ==
  ASSUME PnmInv, ImageInv, pc # "end", NEW i \in p..Len(buf) + 1, Pnm!MoreDataFrom(i),
         ~fragile => /\ ~Midway(hdr, image)
                     /\ hdr.state = 0 => i = p
                     /\ hdr.state \in 1..3 => Seeking(src, Sought(src, hdr.state), hdr.incomment, FileIndex + (i - p), "read")
                     /\ hdr.state = 4 => Gathering(src, hdr, image, FileIndex + (i - p), "read")
                     /\ Pnm!IsImage(src) => off < Len(src) /\ Len(buf) - i + 1 < BufLen
  PROVE  ImageInv'
  <1>1. pc' = "read" /\ UNCHANGED <<src, off, hdr, image, outcome, fragile>>
    BY DEF Pnm!MoreDataFrom
  <1>2. ASSUME ~fragile PROVE Following'
    <2>1. Following /\ ~Midway(hdr, image)
      BY <1>2 DEF ImageInv
    <2>2. (Held(src, hdr, image, off - Len(buf), buf, p))'
      BY <2>1, MoveHeld DEF Following
    <2>3. FileIndex' = FileIndex + (i - p) /\ Len(buf') = Len(buf) - i + 1
      BY MoveHere
    <2>4. (Known(src, hdr))'
      BY <1>1, <2>1 DEF Following, Known
    <2>5. hdr'.state = 0 => FileIndex' = 1 /\ ~hdr'.incomment
      <3>1. hdr.state = 0 => FileIndex = 1 /\ ~hdr.incomment /\ i - p = 0
        BY <1>2, <2>1, ReaderSizes DEF Following
      <3> QED
        BY <1>1, <2>3, <3>1
    <2>6. hdr'.state \in 1..3 => Seeking(src', Sought(src', hdr'.state), hdr'.incomment, FileIndex', pc')
      BY <1>1, <1>2, <2>3
    <2>7. hdr'.state = 4 => Gathering(src', hdr', image', FileIndex', pc')
      BY <1>1, <1>2, <2>3
    <2>8. Room'
      BY <1>1, <1>2, <2>3 DEF Room
    <2> QED
      BY <2>2, <2>4, <2>5, <2>6, <2>7, <2>8 DEF Following
  <1> QED
    BY <1>1, <1>2 DEF ImageInv

\* read() appends some of the rest of the file.
LEMMA HeldGrows ==
  ASSUME PnmInv, Held(src, hdr, image, off - Len(buf), buf, p), NEW n \in Nat, off + n <= Len(src), n >= 1,
         buf' = buf \o SubSeq(src, off + 1, off + n), off' = off + n, UNCHANGED <<src, p, hdr, image>>
  PROVE  (Held(src, hdr, image, off - Len(buf), buf, p))' /\ FileIndex' = FileIndex
  <1>0. /\ src \in Bytes /\ buf \in Bytes /\ Len(src) \in Nat /\ Len(buf) \in Nat /\ off \in Nat /\ p \in 1..Len(buf) + 1
    BY ReaderSizes
  <1>1. PICK new \in Bytes : /\ new = SubSeq(src, off + 1, off + n) /\ Len(new) = n
                             /\ \A j \in 1..n : new[j] = src[off + j]
    <2>1. \A k \in off + 1..off + n : k \in 1..Len(src)
      BY <1>0
    <2>2. off + 1 \in Int /\ off + n \in Int /\ off + 1 <= (off + n) + 1
      BY <1>0
    <2>3. SubSeq(src, off + 1, off + n) \in Bytes
      BY <1>0, <2>1, <2>2, SubSeqProperties DEF Bytes
    <2>4. Len(SubSeq(src, off + 1, off + n)) = (off + n) - (off + 1) + 1
      BY <1>0, <2>1, <2>2, SubSeqProperties DEF Bytes
    <2>5. \A j \in 1..(off + n) - (off + 1) + 1 : SubSeq(src, off + 1, off + n)[j] = src[off + 1 + j - 1]
      BY <1>0, <2>1, <2>2, SubSeqProperties DEF Bytes
    <2>6. (off + n) - (off + 1) + 1 = n /\ \A j \in 1..n : off + 1 + j - 1 = off + j
      BY <1>0
    <2>7. PICK new \in Bytes : new = SubSeq(src, off + 1, off + n)
      BY <2>3
    <2>8. Len(new) = n
      BY <2>4, <2>6, <2>7
    <2>9. \A j \in 1..n : new[j] = src[off + j]
      <3> SUFFICES ASSUME NEW j \in 1..n PROVE new[j] = src[off + j]
        OBVIOUS
      <3>1. j \in 1..(off + n) - (off + 1) + 1 /\ off + 1 + j - 1 = off + j
        BY <2>6
      <3>2. new[j] = src[off + 1 + j - 1]
        BY <2>5, <2>7, <3>1
      <3> QED
        BY <3>1, <3>2
    <2> QED
      BY <2>7, <2>8, <2>9
  <1>2. PICK d \in Bytes : d = buf' /\ Len(d) = Len(buf) + n
    <2>1. buf' = buf \o new
      BY <1>1
    <2>2. buf \o new \in Seq(Octet) /\ Len(buf \o new) = Len(buf) + Len(new)
      BY <1>0, ConcatProperties DEF Bytes
    <2> QED
      BY <1>1, <2>1, <2>2 DEF Bytes
  <1>3. \A j \in 1..Len(buf) : d[j] = buf[j]
    BY <1>0, <1>1, <1>2, ConcatProperties DEF Bytes
  <1>4. \A j \in Len(buf) + 1..Len(d) : d[j] = src[(off - Len(buf)) + j]
    <2> SUFFICES ASSUME NEW j \in Len(buf) + 1..Len(d) PROVE d[j] = src[(off - Len(buf)) + j]
      OBVIOUS
    <2>1. j - Len(buf) \in 1..n /\ j \in Len(buf) + 1..Len(buf) + Len(new)
      BY <1>0, <1>1, <1>2
    <2>2. d[j] = new[j - Len(buf)]
      BY <1>0, <1>1, <1>2, <2>1, ConcatProperties DEF Bytes
    <2>3. off + (j - Len(buf)) = (off - Len(buf)) + j
      BY <1>0, <2>1
    <2>4. new[j - Len(buf)] = src[off + (j - Len(buf))]
      BY <1>1, <2>1
    <2> QED
      BY <2>2, <2>3, <2>4
  <1>5. PICK base \in Int : base = off - Len(buf) /\ base = off' - Len(buf')
    <2>1. off - Len(buf) \in Int /\ off - Len(buf) = (off + n) - Len(d)
      BY <1>0, <1>2
    <2>2. off' - Len(buf') = (off + n) - Len(d)
      BY <1>2
    <2> QED
      BY <2>1, <2>2
  <1>6. ASSUME NEW i \in p..Len(buf) + 1, Stands(src, base, buf, i) PROVE Stands(src, base, d, i)
    <2>1. base \in Nat /\ base + Len(d) <= Len(src) /\ i \in 1..Len(d) + 1
      BY <1>0, <1>2, <1>5, <1>6 DEF Stands
    <2>2. ASSUME NEW j \in i..Len(d) PROVE d[j] = src[base + j]
      <3>1. CASE j <= Len(buf)
        <4>1. j \in 1..Len(buf) /\ j \in i..Len(buf)
          BY <1>0, <3>1
        <4> QED
          BY <1>3, <1>6, <4>1 DEF Stands
      <3>2. CASE ~(j <= Len(buf))
        <4>1. j \in Len(buf) + 1..Len(d)
          BY <1>0, <1>2, <3>2
        <4> QED
          BY <1>4, <1>5, <4>1
      <3> QED
        BY <3>1, <3>2
    <2> QED
      BY <2>1, <2>2 DEF Stands
  <1>7. FileIndex' = FileIndex
    BY <1>5 DEF FileIndex
  <1>8. CASE Midway(hdr, image)
    <2>1. p <= Len(buf) /\ Stands(src, base, buf, p + 1) /\ buf[p] = src[base + p] \div Pow[(Len(image) % 8) + 1]
      BY <1>5, <1>8 DEF Held
    <2>2. p + 1 \in p..Len(buf) + 1 /\ p \in 1..Len(buf) /\ p <= Len(d)
      BY <1>0, <1>2, <2>1
    <2>3. Stands(src, base, d, p + 1)
      BY <1>6, <2>1, <2>2
    <2>4. d[p] = src[base + p] \div Pow[(Len(image) % 8) + 1]
      BY <1>3, <2>1, <2>2
    <2>5. Held(src, hdr, image, base, d, p)
      BY <1>8, <2>2, <2>3, <2>4 DEF Held
    <2> QED
      BY <1>2, <1>5, <1>7, <2>5
  <1>9. CASE ~Midway(hdr, image)
    <2>1. Stands(src, base, buf, p)
      BY <1>5, <1>9 DEF Held
    <2>2. p \in p..Len(buf) + 1
      BY <1>0
    <2>3. Stands(src, base, d, p)
      BY <1>6, <2>1, <2>2
    <2>4. Held(src, hdr, image, base, d, p)
      BY <1>9, <2>3 DEF Held
    <2> QED
      BY <1>2, <1>5, <1>7, <2>4
  <1> QED
    BY <1>8, <1>9

LEMMA ReadFollows ==
  ASSUME PnmInv, ImageInv, Pnm!Read
  PROVE  ImageInv'
  <1>0. /\ src \in Bytes /\ buf \in Bytes /\ Len(src) \in Nat /\ Len(buf) \in Nat /\ off \in Nat /\ off <= Len(src)
        /\ BufLen \in Nat /\ Len(buf) <= BufLen
    BY ReaderSizes
  <1> DEFINE room == Pnm!Min({BufLen - Len(buf), Len(src) - off})
  <1>1. PICK a \in Nat, c \in Nat : a = BufLen - Len(buf) /\ c = Len(src) - off
    <2>1. PICK l \in Nat, e \in Nat, m \in Nat, o \in Nat :
            l = Len(buf) /\ e = Len(src) /\ m = BufLen /\ o = off /\ l <= m /\ o <= e
      BY <1>0
    <2>2. m - l \in Nat /\ e - o \in Nat
      BY <2>1
    <2> QED
      BY <2>1, <2>2
  <1>2. room \in {a, c} /\ room <= a /\ room <= c
    <2>1. Pnm!Min({a, c}) \in {a, c} /\ \A l \in {a, c} : Pnm!Min({a, c}) <= l
      BY LeastByte
    <2>2. room = Pnm!Min({a, c})
      BY <1>1
    <2> QED
      BY <2>1, <2>2
  <1>3. pc = "read"
    BY DEF Pnm!Read
  <1>4. CASE room = 0
    <2>1. Pnm!End("early") /\ fragile' = fragile
      BY <1>4 DEF Pnm!Read
    <2>2. outcome' = "early" /\ Pnm!End(outcome')
      BY <2>1 DEF Pnm!End
    <2>3. ASSUME ~fragile PROVE ~Pnm!IsImage(src)
      <3>1. Room
        BY <1>3, <2>3 DEF ImageInv, Following
      <3>2. a = 0 \/ c = 0
        BY <1>2, <1>4
      <3> QED
        BY <1>0, <1>1, <3>1, <3>2 DEF Room
    <2>4. pc # "end" /\ outcome' # "reading" /\ outcome' # "ok"
      BY <1>3, <2>2
    <2> QED
      BY <2>1, <2>2, <2>3, <2>4, EndSettles
  <1>5. CASE room # 0
    <2>1. PICK n \in 1..room : buf' = buf \o SubSeq(src, off + 1, off + n) /\ off' = off + n
      BY <1>5 DEF Pnm!Read
    <2>2. pc' = "space" /\ UNCHANGED <<src, p, hdr, image, outcome, fragile>>
      BY <1>5 DEF Pnm!Read
    <2> HIDE DEF room
    <2>3. n \in Nat /\ n >= 1 /\ off + n <= Len(src)
      <3>1. room \in Nat
        BY <1>2
      <3>2. n \in Nat /\ n >= 1 /\ n <= c
        BY <1>2, <3>1
      <3> QED
        BY <1>0, <1>1, <3>2
    <2>4. ASSUME ~fragile PROVE Following'
      <3>1. Following
        BY <1>3, <2>4 DEF ImageInv
      <3>2. (Held(src, hdr, image, off - Len(buf), buf, p))' /\ FileIndex' = FileIndex
        BY <2>1, <2>2, <2>3, <3>1, HeldGrows DEF Following
      <3>3. (Known(src, hdr))'
        BY <2>2, <3>1 DEF Following, Known
      <3>4. hdr'.state = 0 => FileIndex' = 1 /\ ~hdr'.incomment
        BY <2>2, <3>1, <3>2 DEF Following
      <3>5. hdr'.state \in 1..3 => Seeking(src', Sought(src', hdr'.state), hdr'.incomment, FileIndex', pc')
        <4>1. hdr.state \in 1..3 => Seeking(src, Sought(src, hdr.state), hdr.incomment, FileIndex, "space")
          BY <1>3, <3>1 DEF Following, Seeking
        <4> QED
          BY <2>2, <3>2, <4>1
      <3>6. hdr'.state = 4 => Gathering(src', hdr', image', FileIndex', pc')
        <4>1. hdr.state = 4 => Gathering(src, hdr, image, FileIndex, "space")
          BY <1>3, <3>1 DEF Following, Gathering
        <4> QED
          BY <2>2, <3>2, <4>1
      <3>7. pc' # "read"
        BY <2>2
      <3> QED
        BY <3>2, <3>3, <3>4, <3>5, <3>6, <3>7 DEF Following
    <2>5. pc' # "end" /\ outcome' = outcome /\ fragile' = fragile
      BY <2>2
    <2> QED
      BY <1>3, <2>4, <2>5 DEF ImageInv
  <1> QED
    BY <1>4, <1>5

LEMMA HereIs ==
  ASSUME PnmInv, Following
  PROVE  /\ off - Len(buf) \in Nat /\ FileIndex \in Nat \ {0} /\ FileIndex \in 1..Len(src) + 1
         /\ FileIndex = (off - Len(buf)) + p /\ (p = Len(buf) + 1 <=> FileIndex = off + 1)
  <1>0. /\ Len(src) \in Nat /\ Len(buf) \in Nat /\ off \in Nat /\ off <= Len(src) /\ p \in Nat \ {0} /\ p <= Len(buf) + 1
    BY ReaderSizes
  <1>1. off - Len(buf) \in Nat
    BY DEF Following, Held, Stands
  <1> QED
    BY <1>0, <1>1 DEF FileIndex

LEMMA HeldStands ==
  ASSUME PnmInv, Following, ~Midway(hdr, image)
  PROVE  Stands(src, off - Len(buf), buf, p)
  BY DEF Following, Held

\* A byte of the buffer is the byte of the file.
LEMMA HeldByte ==
  ASSUME PnmInv, Following, ~Midway(hdr, image), NEW j \in p..Len(buf)
  PROVE  /\ FileIndex + (j - p) \in 1..Len(src) /\ Pnm!At(src, FileIndex + (j - p)) = Pnm!At(buf, j)
         /\ FileIndex + (j - p) = (off - Len(buf)) + j
  <1>0. /\ src \in Bytes /\ buf \in Bytes /\ Len(src) \in Nat /\ Len(buf) \in Nat /\ off \in Nat /\ off <= Len(src)
        /\ p \in Nat \ {0}
    BY ReaderSizes
  <1>1. off - Len(buf) \in Nat /\ FileIndex = (off - Len(buf)) + p
    BY HereIs
  <1>2. PICK base \in Nat : base = off - Len(buf)
    BY <1>1
  <1>3. Stands(src, base, buf, p)
    BY <1>2, HeldStands
  <1>4. Pnm!At(src, base + j) = Pnm!At(buf, j)
    BY SMTT(60), <1>0, <1>3, AtStands
  <1>5. FileIndex + (j - p) = base + j /\ base + j \in 1..Len(src)
    BY <1>0, <1>1, <1>2
  <1> QED
    BY <1>2, <1>4, <1>5

LEMMA StandsOn ==
  ASSUME NEW t, NEW base, NEW s, NEW i, Len(s) \in Nat, Stands(t, base, s, i), NEW j \in i..Len(s) + 1
  PROVE  Stands(t, base, s, j)
  <1>1. base \in Nat /\ base + Len(s) <= Len(t) /\ i \in 1..Len(s) + 1 /\ \A k \in i..Len(s) : s[k] = t[base + k]
    BY DEF Stands
  <1>2. j \in 1..Len(s) + 1 /\ \A k \in j..Len(s) : k \in i..Len(s)
    BY <1>1
  <1> QED
    BY <1>1, <1>2 DEF Stands

\* A step that leaves the buffer alone and passes some bytes of it.
LEMMA PassKeeps ==
  ASSUME PnmInv, ImageInv, pc # "end", UNCHANGED <<src, off, buf, image, outcome>>,
         NEW mark \in BOOLEAN, hdr' = [hdr EXCEPT !.incomment = mark],
         NEW k \in p..Len(buf) + 1, p' = k, pc' \in {"space", "comment", "token"}, ~fragile' => ~fragile,
         ~fragile' => /\ k = p \/ ~Midway(hdr, image)
                      /\ hdr.state = 0 => k = p /\ ~mark
                      /\ hdr.state \in 1..3 => Seeking(src, Sought(src, hdr.state), mark, FileIndex + (k - p), pc')
                      /\ hdr.state = 4 => Gathering(src, hdr', image, FileIndex + (k - p), pc')
  PROVE  ImageInv'
  <1>1. /\ hdr'.state = hdr.state /\ hdr'.incomment = mark /\ hdr'.fmt = hdr.fmt
        /\ hdr'.width = hdr.width /\ hdr'.height = hdr.height /\ hdr'.maxval = hdr.maxval
    <2>1. hdr \in Header
      BY ReaderSizes
    <2> QED
      BY <2>1 DEF Header
  <1>2. ASSUME ~fragile' PROVE Following'
    <2>1. Following
      BY <1>2 DEF ImageInv
    <2>0. Len(buf) \in Nat /\ p \in Nat \ {0} /\ p \in 1..Len(buf) + 1 /\ off \in Nat
      BY ReaderSizes
    <2>2. FileIndex' = FileIndex + (k - p)
      <3>1. PICK base \in Nat : base = off - Len(buf) /\ FileIndex = base + p
        BY <2>1, HereIs
      <3>2. FileIndex' = base + k
        BY <3>1 DEF FileIndex
      <3> QED
        BY <2>0, <3>1, <3>2
    <2>3. Midway(hdr', image) <=> Midway(hdr, image)
      BY <1>1 DEF Midway
    <2>4. (Held(src, hdr, image, off - Len(buf), buf, p))'
      <3>1. CASE k = p
        BY <1>1, <2>1, <2>3, <3>1 DEF Following, Held
      <3>2. CASE ~Midway(hdr, image)
        <4>1. Stands(src, off - Len(buf), buf, k)
          BY <2>0, <2>1, <3>2, HeldStands, StandsOn
        <4>2. Held(src, hdr', image, off - Len(buf), buf, k)
          BY <2>3, <3>2, <4>1 DEF Held
        <4> QED
          BY <4>2
      <3> QED
        BY <1>2, <3>1, <3>2
    <2>5. Known(src, hdr')
      <3>1. Pnm!HasMaxval(hdr') <=> Pnm!HasMaxval(hdr)
        BY <1>1 DEF Pnm!HasMaxval
      <3> QED
        BY <1>1, <2>1, <3>1 DEF Following, Known
    <2>6. (Known(src, hdr))'
      BY <2>5
    <2>7. hdr'.state = 0 => FileIndex' = 1 /\ ~hdr'.incomment
      BY <1>1, <1>2, <2>0, <2>1, <2>2 DEF Following
    <2>8. hdr'.state \in 1..3 => Seeking(src', Sought(src', hdr'.state), hdr'.incomment, FileIndex', pc')
      BY <1>1, <1>2, <2>2
    <2>9. hdr'.state = 4 => Gathering(src', hdr', image', FileIndex', pc')
      BY <1>1, <1>2, <2>2
    <2>10. pc' # "read"
      OBVIOUS
    <2> QED
      BY <2>4, <2>6, <2>7, <2>8, <2>9, <2>10 DEF Following
  <1>3. pc' # "end" /\ outcome' = outcome
    OBVIOUS
  <1> QED
    BY <1>2, <1>3 DEF ImageInv

\* In the header of an image the reader is before a byte of the number it looks for.
LEMMA SeekingInside ==
  ASSUME PnmInv, pc # "end", Following, hdr.state \in 1..3, Pnm!IsImage(src)
  PROVE  FileIndex < Len(src)
  <1>0. src \in Bytes /\ src \in Files /\ Len(src) \in Nat /\ hdr \in Header
    BY ReaderSizes
  <1>1. PICK s \in 1..Len(src) + 1 : s = Sought(src, hdr.state)
    <2>1. hdr.state \in 1..3 /\ hdr.state <= hdr.state /\ Known(src, hdr)
      BY DEF Following
    <2> QED
      BY <1>0, <2>1, FromIs
  <1>2. Spot(src, From(src, hdr.state))
    <2>1. hdr.state \in 1..3 /\ hdr.state <= hdr.state /\ Known(src, hdr)
      BY DEF Following
    <2> QED
      BY <1>0, <2>1, FromIs
  <1>3. Pnm!IsField(src, From(src, hdr.state))
    BY <1>0, ImageField DEF Following
  <1>4. PICK k \in s..Len(src) + 1 : k = Pnm!Blanks(src, s)
    BY <1>0, DigitsIs
  <1>5. k < Len(src)
    <2>1. /\ Pnm!Blanks(src, s) < Pnm!Field(src, From(src, hdr.state)).rest
          /\ Pnm!Field(src, From(src, hdr.state)).rest <= Len(src)
      BY <1>0, <1>1, <1>2, <1>3, BehindIs DEF Sought
    <2>2. Pnm!Strtol(src, s).rest \in s..Len(src) + 1 /\ Pnm!Field(src, From(src, hdr.state)) = Pnm!Strtol(src, s)
      BY <1>0, <1>1, StrtolType DEF Sought, Pnm!Field
    <2> QED
      BY <1>0, <1>4, <2>1, <2>2
  <1>6. FileIndex <= k
    <2>1. Seeking(src, s, hdr.incomment, FileIndex, pc)
      BY <1>1 DEF Following
    <2>2. FileIndex \in 1..Len(src) + 1 /\ FileIndex \in Nat
      BY HereIs
    <2>3. FreeToken(src, FileIndex) \in FileIndex..Len(src) + 1 /\ Pnm!CommentEnd(src, FileIndex) \in FileIndex..Len(src) + 1
      BY <1>0, <2>2, FreeTokenIs, CommentEndIs
    <2>4. FileIndex <= s \/ FileIndex <= k
      <3>1. pc \in {"read", "space", "comment", "token"} \/ pc = "end"
        BY DEF PnmInv
      <3>2. Pnm!CommentEnd(src, FileIndex) = s \/ FreeToken(src, FileIndex) = s => FileIndex <= s
        BY <2>3
      <3>3. CASE hdr.incomment
        BY <2>1, <3>2, <3>3 DEF Seeking
      <3>4. CASE ~hdr.incomment /\ pc # "end"
        BY <1>4, <2>1, <3>1, <3>2, <3>4 DEF Seeking
      <3> QED
        BY <3>3, <3>4
    <2> QED
      BY <1>0, <1>4, <2>2, <2>4
  <1> QED
    BY <1>0, <1>4, <1>5, <1>6, HereIs

\* A reader in the header that has nothing left in the buffer.
LEMMA SeekingMore ==
  ASSUME PnmInv, ImageInv, hdr.state \in 1..3, p = Len(buf) + 1, Pnm!MoreDataFrom(p), pc \in {"space", "comment"},
         ~fragile => Seeking(src, Sought(src, hdr.state), hdr.incomment, FileIndex, "read")
  PROVE  ImageInv'
  <1>0. Len(buf) \in Nat /\ p \in Nat \ {0} /\ p \in p..Len(buf) + 1 /\ p - p = 0 /\ BufLen \in Nat /\ BufLen >= 3 /\ off \in Nat
    BY ReaderSizes
  <1>1. ASSUME ~fragile
        PROVE  /\ ~Midway(hdr, image) /\ hdr.state # 4 /\ hdr.state # 0
               /\ Seeking(src, Sought(src, hdr.state), hdr.incomment, FileIndex + (p - p), "read")
               /\ Pnm!IsImage(src) => off < Len(src) /\ Len(buf) - p + 1 < BufLen
    <2>1. Following
      BY <1>1 DEF ImageInv
    <2>2. FileIndex + (p - p) = FileIndex /\ FileIndex = off + 1
      BY <1>0, <2>1, HereIs
    <2>3. hdr.state # 4 /\ hdr.state # 0
      OBVIOUS
    <2>4. ~Midway(hdr, image)
      BY <2>3 DEF Midway
    <2>5. Pnm!IsImage(src) => off < Len(src)
      <3>1. Pnm!IsImage(src) => FileIndex < Len(src)
        BY <2>1, SeekingInside
      <3>2. Len(src) \in Nat
        BY ReaderSizes
      <3> QED
        BY <1>0, <2>2, <3>1, <3>2
    <2>6. Len(buf) - p + 1 < BufLen
      BY <1>0
    <2> QED
      BY <1>1, <2>2, <2>3, <2>4, <2>5, <2>6
  <1>2. pc # "end"
    OBVIOUS
  <1> QED
    BY <1>0, <1>1, <1>2, MoreKeeps

\* No newline is skipped behind a byte that is no blank.
LEMMA NoBlankComment ==
  ASSUME PnmInv, Following, Glued, ~Pnm!EmptyComment(src), pc = "space", hdr.state \in 1..3, hdr.incomment,
         p <= Len(buf), Pnm!IsSpace(Pnm!At(buf, p)), NEW j \in 1..p, ~Pnm!IsSpace(Pnm!At(buf, j))
  PROVE  Pnm!At(buf, p) # Pnm!NL
  <1>0. /\ src \in Bytes /\ Len(src) \in Nat /\ Len(buf) \in Nat /\ p \in Nat \ {0} /\ hdr \in Header
    BY ReaderSizes
  <1>1. j \in 1..p - 1
    BY <1>0
  <1>2. PICK h, at : h = From(src, hdr.state) /\ at = FileIndex
    OBVIOUS
  <1>3. h.comment /\ h.at <= at /\ \A l \in h.at..at - 1 : Pnm!IsSpace(Pnm!At(src, l))
    BY <1>1, <1>2 DEF Glued
  <1>4. Spot(src, h) /\ Known(src, hdr)
    <2>1. hdr.state \in 1..3 /\ hdr.state <= hdr.state /\ Known(src, hdr)
      BY DEF Following
    <2> QED
      BY <1>0, <1>2, <2>1, FromIs
  <1>5. PICK i \in 1..Len(src) + 1 : i = h.at
    BY <1>4 DEF Spot
  <1>6. at \in 1..Len(src) /\ Pnm!At(src, at) = Pnm!At(buf, p)
    <2>1. p \in p..Len(buf) /\ ~Midway(hdr, image)
      BY <1>0 DEF Midway
    <2>2. FileIndex + (p - p) \in 1..Len(src) /\ Pnm!At(src, FileIndex + (p - p)) = Pnm!At(buf, p)
      BY <2>1, HeldByte
    <2>3. FileIndex + (p - p) = at
      BY <1>0, <1>2, HereIs
    <2> QED
      BY <2>2, <2>3
  <1>7. \A l \in i..at : Pnm!IsSpace(Pnm!At(src, l))
    <2>1. \A l \in i..at : l = at \/ l \in i..at - 1
      BY <1>5, <1>6, <1>0
    <2> QED
      BY <1>3, <1>5, <1>6, <2>1
  <1>8. PICK k : k = Pnm!Blanks(src, i) /\ BlanksTo(src, i, k)
    BY <1>0, BlanksIs
  <1>9. k \in i..Len(src) + 1 /\ ~Pnm!IsSpace(Pnm!At(src, k))
    BY <1>8 DEF BlanksTo
  <1>10. at \in i..k - 1
    <2>1. k \notin i..at
      BY <1>7, <1>9
    <2> QED
      BY <1>0, <1>3, <1>5, <1>6, <1>9, <2>1
  <1>11. Pnm!At(src, at) = src[at]
    BY <1>0, <1>6, AtIs
  <1>12. ASSUME Pnm!At(buf, p) = Pnm!NL PROVE FALSE
    <2>1. Pnm!IsBlankComment(src, h)
      BY <1>3, <1>5, <1>6, <1>8, <1>10, <1>11, <1>12 DEF Pnm!IsBlankComment
    <2>2. Pnm!IsMagic(src) /\ hdr.fmt = src[2] - 48
      BY <1>4 DEF Known
    <2>3. CASE hdr.state = 1
      BY <1>2, <2>1, <2>2, <2>3 DEF From, Pnm!EmptyComment
    <2>4. CASE hdr.state = 2
      <3>1. Pnm!IsField(src, Pnm!BeforeWidth(src))
        BY <1>4, <2>4 DEF Known, From
      <3> QED
        BY <1>2, <2>1, <2>2, <2>4, <3>1 DEF From, Pnm!EmptyComment
    <2>5. CASE hdr.state = 3
      <3>1. Pnm!IsField(src, Pnm!BeforeWidth(src)) /\ Pnm!IsField(src, Pnm!BeforeHeight(src))
        BY <1>4, <2>5 DEF Known, From
      <3>2. Pnm!HasMaxval(Pnm!Announced(src))
        BY <1>4, <2>2, <2>5 DEF Known, Pnm!HasMaxval, Pnm!Announced
      <3> QED
        BY <1>2, <2>1, <2>2, <2>5, <3>1, <3>2 DEF From, Pnm!EmptyComment
    <2> QED
      BY <2>3, <2>4, <2>5
  <1> QED
    BY <1>12

LEMMA SpaceFollows ==
  ASSUME PnmInv, ImageInv, ~fragile => Glued, ~Pnm!EmptyComment(src), Pnm!SkipSpace
  PROVE  ImageInv'
  <1>0. /\ src \in Bytes /\ buf \in Bytes /\ Len(src) \in Nat /\ Len(buf) \in Nat /\ p \in Nat \ {0} /\ p <= Len(buf) + 1
        /\ hdr \in Header /\ hdr.state \in 0..4 /\ hdr.incomment \in BOOLEAN
    BY ReaderSizes
  <1>p. pc = "space" /\ pc # "end"
    BY DEF Pnm!SkipSpace
  <1>1. CASE hdr.state \in 1..3 /\ ~Pnm!Has(1)
    <2>1. Pnm!MoreDataFrom(p)
      BY <1>1 DEF Pnm!SkipSpace, Pnm!MoreData
    <2>2. p = Len(buf) + 1
      BY <1>0, <1>1 DEF Pnm!Has
    <2>3. ~fragile => Seeking(src, Sought(src, hdr.state), hdr.incomment, FileIndex, "read")
      BY <1>1, <1>p DEF ImageInv, Following, Seeking
    <2> QED
      BY <1>1, <1>p, <2>1, <2>2, <2>3, SeekingMore
  <1>2. CASE hdr.state \in 1..3 /\ Pnm!Has(1) /\ Pnm!IsSpace(Pnm!At(buf, p))
    <2>1. /\ p' = p + 1
          /\ fragile' = (fragile \/ (/\ hdr.incomment /\ Pnm!At(buf, p) = Pnm!NL
                                     /\ \A j \in 1..p : Pnm!IsSpace(Pnm!At(buf, j))))
          /\ UNCHANGED <<src, off, buf, hdr, image, outcome, pc>>
      BY <1>2 DEF Pnm!SkipSpace
    <2>2. p + 1 \in p..Len(buf) + 1 /\ p \in p..Len(buf)
      BY <1>0, <1>2 DEF Pnm!Has
    <2>3. hdr' = [hdr EXCEPT !.incomment = hdr.incomment]
      BY <1>0, <2>1 DEF Header
    <2>4. ASSUME ~fragile'
          PROVE  Seeking(src, Sought(src, hdr.state), hdr.incomment, FileIndex + ((p + 1) - p), "space")
      <3>f. ~fragile /\ Following
        BY <1>p, <2>1, <2>4 DEF ImageInv
      <3>g. hdr.incomment => Pnm!At(buf, p) # Pnm!NL
        <4>1. CASE \A j \in 1..p : Pnm!IsSpace(Pnm!At(buf, j))
          BY <2>1, <2>4, <4>1
        <4>2. CASE ~\A j \in 1..p : Pnm!IsSpace(Pnm!At(buf, j))
          <5>1. p <= Len(buf)
            BY <1>0, <2>2
          <5> QED
            BY <1>2, <1>p, <3>f, <4>2, <5>1, NoBlankComment
        <4> QED
          BY <4>1, <4>2
      <3>1. ~fragile /\ Following /\ (hdr.incomment => Pnm!At(buf, p) # Pnm!NL)
        BY <3>f, <3>g
      <3>2. PICK at : at = FileIndex
        OBVIOUS
      <3>3. at \in 1..Len(src) + 1 /\ at \in Nat /\ FileIndex + ((p + 1) - p) = at + 1
        BY <1>0, <3>1, <3>2, HereIs
      <3>4. ~Midway(hdr, image)
        BY <1>2 DEF Midway
      <3>5. at \in 1..Len(src) /\ Pnm!At(src, at) = Pnm!At(buf, p)
        <4>1. FileIndex + (p - p) \in 1..Len(src) /\ Pnm!At(src, FileIndex + (p - p)) = Pnm!At(buf, p)
          BY <2>2, <3>1, <3>4, HeldByte
        <4>2. FileIndex + (p - p) = at
          BY <1>0, <3>2, <3>3
        <4> QED
          BY <4>1, <4>2
      <3>6. PICK s : s = Sought(src, hdr.state)
        OBVIOUS
      <3>7. Seeking(src, s, hdr.incomment, at, "space")
        BY <1>2, <1>p, <3>1, <3>2, <3>6 DEF Following
      <3>8. at + 1 \in 1..Len(src) + 1
        BY <1>0, <3>5
      <3>9. hdr.incomment => Pnm!CommentEnd(src, at + 1) = s
        <4>1. hdr.incomment => Pnm!CommentEnd(src, at) = s
          BY <3>7 DEF Seeking
        <4> QED
          BY <1>0, <3>1, <3>5, <4>1, CommentOn
      <3>10. ~hdr.incomment =>
               \/ FreeToken(src, at + 1) = s
               \/ s <= at + 1 /\ at + 1 <= Pnm!Blanks(src, s) /\ Pnm!At(src, Pnm!Blanks(src, s)) # Pnm!Hash
        <4> SUFFICES ASSUME ~hdr.incomment
                     PROVE  \/ FreeToken(src, at + 1) = s
                            \/ s <= at + 1 /\ at + 1 <= Pnm!Blanks(src, s) /\ Pnm!At(src, Pnm!Blanks(src, s)) # Pnm!Hash
          OBVIOUS
        <4>1. Pnm!IsSpace(Pnm!At(src, at))
          BY <1>2, <3>5
        <4>2. CASE FreeToken(src, at) = s
          <5>1. Pnm!Blanks(src, at + 1) = Pnm!Blanks(src, at)
            BY <1>0, <3>5, <4>1, BlankPassed
          <5>2. FreeToken(src, at + 1) = FreeToken(src, at)
            BY <5>1 DEF FreeToken
          <5> QED
            BY <4>2, <5>2
        <4>3. CASE s <= at /\ at <= Pnm!Blanks(src, s) /\ Pnm!At(src, Pnm!Blanks(src, s)) # Pnm!Hash
          <5>1. s \in 1..Len(src) + 1
            <6>1. hdr.state \in 1..3 /\ hdr.state <= hdr.state /\ Known(src, hdr)
              BY <1>2, <3>1 DEF Following
            <6> QED
              BY <1>0, <3>6, <6>1, FromIs
          <5>2. PICK k : k = Pnm!Blanks(src, s) /\ BlanksTo(src, s, k)
            BY <1>0, <5>1, BlanksIs
          <5>3. k \in s..Len(src) + 1 /\ ~Pnm!IsSpace(Pnm!At(src, k))
            BY <5>2 DEF BlanksTo
          <5>4. at # k
            BY <4>1, <5>3
          <5>5. s <= at + 1 /\ at + 1 <= k
            BY <1>0, <3>3, <4>3, <5>1, <5>2, <5>3, <5>4
          <5> QED
            BY <4>3, <5>2, <5>5
        <4>4. \/ FreeToken(src, at) = s
              \/ s <= at /\ at <= Pnm!Blanks(src, s) /\ Pnm!At(src, Pnm!Blanks(src, s)) # Pnm!Hash
          BY <3>7 DEF Seeking
        <4> QED
          BY <4>2, <4>3, <4>4
      <3> QED
        BY <3>3, <3>6, <3>8, <3>9, <3>10 DEF Seeking
    <2>5. ~fragile' => ~fragile
      BY <2>1
    <2>6. hdr.state # 0 /\ hdr.state # 4 /\ ~Midway(hdr, image)
      BY <1>2 DEF Midway
    <2>7. pc' = "space"
      BY <1>p, <2>1
    <2>8. UNCHANGED <<src, off, buf, image, outcome>>
      BY <2>1
    <2> QED
      BY ZenonT(60), <1>0, <1>p, <2>1, <2>2, <2>3, <2>4, <2>5, <2>6, <2>7, <2>8, PassKeeps
  <1>3. CASE ~(hdr.state \in 1..3 /\ ~Pnm!Has(1)) /\ ~(hdr.state \in 1..3 /\ Pnm!IsSpace(Pnm!At(buf, p)))
    <2> DEFINE mark == hdr.incomment \/ (hdr.state \in 1..3 /\ Pnm!At(buf, p) = Pnm!Hash)
    <2>1. /\ UNCHANGED <<src, off, buf, image, outcome, p, fragile>> /\ pc' = "comment"
          /\ hdr' = [hdr EXCEPT !.incomment = hdr.incomment \/ (hdr.state \in 1..3 /\ Pnm!At(buf, p) = Pnm!Hash)]
      BY <1>3 DEF Pnm!SkipSpace
    <2>2. mark \in BOOLEAN /\ hdr' = [hdr EXCEPT !.incomment = mark]
      BY <1>0, <2>1
    <2>3. ASSUME ~fragile
          PROVE  /\ hdr.state = 0 => ~mark
                 /\ hdr.state \in 1..3 => Seeking(src, Sought(src, hdr.state), mark, FileIndex, "comment")
                 /\ hdr.state = 4 => Gathering(src, hdr', image, FileIndex, "comment")
      <3>1. Following
        BY <1>p, <2>3 DEF ImageInv
      <3>2. hdr.state = 0 => ~mark
        BY <3>1 DEF Following
      <3>3. ASSUME hdr.state \in 1..3 PROVE Seeking(src, Sought(src, hdr.state), mark, FileIndex, "comment")
        <4>1. PICK at, s : at = FileIndex /\ s = Sought(src, hdr.state)
          OBVIOUS
        <4>2. Seeking(src, s, hdr.incomment, at, "space")
          BY <1>p, <3>1, <3>3, <4>1 DEF Following
        <4>3. at \in 1..Len(src) + 1 /\ at \in Nat
          BY <1>0, <3>1, <4>1, HereIs
        <4>4. p \in p..Len(buf) /\ ~Midway(hdr, image)
          BY <1>0, <1>3, <3>3 DEF Pnm!Has, Midway
        <4>5. Pnm!At(src, at) = Pnm!At(buf, p)
          <5>1. Pnm!At(src, FileIndex + (p - p)) = Pnm!At(buf, p)
            BY <3>1, <4>4, HeldByte
          <5>2. FileIndex + (p - p) = at
            BY <1>0, <4>1, <4>3
          <5> QED
            BY <5>1, <5>2
        <4>6. ~Pnm!IsSpace(Pnm!At(src, at))
          BY <1>3, <3>3, <4>5
        <4>7. Pnm!Blanks(src, at) = at
          BY <1>0, <4>3, <4>6, NoBlank
        <4>8. s \in 1..Len(src) + 1
          <5>1. hdr.state \in 1..3 /\ hdr.state <= hdr.state /\ Known(src, hdr)
            BY <3>1, <3>3 DEF Following
          <5> QED
            BY <1>0, <4>1, <5>1, FromIs
        <4>9. PICK k \in s..Len(src) + 1 : k = Pnm!Blanks(src, s)
          BY <1>0, <4>8, DigitsIs
        <4>10. hdr.incomment => Pnm!CommentEnd(src, at) = s
          BY <4>2 DEF Seeking
        <4>11. ASSUME ~hdr.incomment
               PROVE  /\ Pnm!At(src, at) = Pnm!Hash => Pnm!CommentEnd(src, at) = s
                      /\ Pnm!At(src, at) # Pnm!Hash => s <= at /\ at <= k
          <5>1. CASE FreeToken(src, at) = s
            <6>1. Pnm!At(src, at) = Pnm!Hash => Pnm!CommentEnd(src, at) = s
              BY <4>7, <5>1 DEF FreeToken
            <6>2. Pnm!At(src, at) # Pnm!Hash => s = at
              BY <4>7, <5>1 DEF FreeToken
            <6> QED
              BY <4>3, <4>8, <4>9, <6>1, <6>2
          <5>2. CASE s <= at /\ at <= k /\ Pnm!At(src, k) # Pnm!Hash
            <6>1. at \in s..k
              BY <1>0, <4>3, <4>8, <4>9, <5>2
            <6>2. Pnm!Blanks(src, at) = k
              BY <1>0, <4>8, <4>9, <6>1, BlanksBetween
            <6> QED
              BY <4>7, <5>2, <6>2
          <5> QED
            BY <4>2, <4>9, <4>11, <5>1, <5>2 DEF Seeking
        <4>12. mark <=> hdr.incomment \/ Pnm!At(src, at) = Pnm!Hash
          BY <3>3, <4>5
        <4> HIDE DEF mark
        <4>13. mark => Pnm!CommentEnd(src, at) = s
          BY <4>10, <4>11, <4>12
        <4>14. ~mark => s <= at /\ at <= k
          BY <4>11, <4>12
        <4>15. Seeking(src, s, mark, at, "comment")
          BY <4>3, <4>9, <4>13, <4>14 DEF Seeking
        <4> QED
          BY <4>1, <4>15
      <3>4. ASSUME hdr.state = 4 PROVE Gathering(src, hdr', image, FileIndex, "comment")
        <4>1. hdr' = hdr
          <5>1. mark = hdr.incomment
            BY <1>0, <3>4
          <5> HIDE DEF mark
          <5> QED
            BY <1>0, <2>2, <5>1 DEF Header
        <4>2. Gathering(src, hdr, image, FileIndex, "space")
          BY <1>p, <3>1, <3>4 DEF Following
        <4> QED
          BY <4>1, <4>2 DEF Gathering
      <3> QED
        BY <3>2, <3>3, <3>4
    <2> HIDE DEF mark
    <2>4. p \in p..Len(buf) + 1 /\ p' = p
      BY <1>0, <2>1
    <2>5. ASSUME ~fragile
          PROVE  /\ hdr.state \in 1..3 => Seeking(src, Sought(src, hdr.state), mark, FileIndex + (p - p), "comment")
                 /\ hdr.state = 4 => Gathering(src, hdr', image, FileIndex + (p - p), "comment")
      <3>1. Following
        BY <1>p, <2>5 DEF ImageInv
      <3>2. FileIndex + (p - p) = FileIndex
        BY <1>0, <3>1, HereIs
      <3> QED
        BY <2>3, <2>5, <3>2
    <2>6. UNCHANGED <<src, off, buf, image, outcome>> /\ pc' = "comment" /\ (~fragile' => ~fragile)
      BY <2>1
    <2> QED
      BY <1>p, <2>2, <2>3, <2>4, <2>5, <2>6, PassKeeps
  <1> QED
    BY <1>1, <1>2, <1>3

LEMMA CountSizes ==
  ASSUME NEW h \in Header
  PROVE  /\ Pnm!Count(h) \in Nat /\ Pnm!SampleSize(h) \in {1, 2} /\ Pnm!Limit(h) = Pnm!Count(h) * Pnm!SampleSize(h)
         /\ (Pnm!SampleSize(h) = 1 <=> h.maxval <= 255)
  <1>1. PICK w \in Nat, e \in Nat, c \in Nat : w = h.width /\ e = h.height /\ c = Pnm!Channels(h)
    BY DEF Header, Pnm!Channels
  <1>2. w * e * c \in Nat
    <2>1. w * e \in Nat
      OBVIOUS
    <2> QED
      BY <2>1
  <1>3. Pnm!SampleSize(h) \in {1, 2} /\ (Pnm!SampleSize(h) = 1 <=> h.maxval <= 255)
    BY DEF Pnm!SampleSize
  <1> QED
    BY <1>1, <1>2, <1>3 DEF Pnm!Count, Pnm!Limit

\* Before the first sample.
LEMMA GotStarts ==
  ASSUME NEW b \in Bytes, NEW h \in Header, Known(b, h), h.state = 4, NEW at \in 1..Len(b) + 1, at = Pnm!Start(b)
  PROVE  Got(b, h, <<>>, at, 0)
  <1>0. Len(b) \in Nat /\ at \in Nat
    BY AtIs
  <1>1. PICK c \in Nat : c = Pnm!Count(h) /\ c = Pnm!Count(Pnm!Announced(b))
    BY CountSizes, AnnouncedSizes
  <1>2. Pnm!Place(b)[0] = at
    <2>1. CASE Pnm!IsAscii(Pnm!Announced(b))
      BY <1>1, <2>1, PlaceOfText
    <2>2. CASE ~Pnm!IsAscii(Pnm!Announced(b))
      <3>1. 0 \in 0..Pnm!Count(Pnm!Announced(b))
        BY <1>1
      <3>2. PICK u \in {1, 2} : u = Pnm!SampleSize(Pnm!Announced(b))
        BY CountSizes, AnnouncedSizes
      <3>3. Pnm!Place(b)[0] = at + IF Pnm!Announced(b).fmt = 4 THEN 0 \div 8 ELSE 0 * u
        BY <2>2, <3>1, <3>2, PlaceOfBytes
      <3>4. 0 \div 8 = 0 /\ 0 * u = 0
        BY <3>2
      <3> QED
        BY <1>0, <3>3, <3>4
    <2> QED
      BY <2>1, <2>2
  <1>3. Pnm!Blanks(b, at) \in at..Len(b) + 1
    BY DigitsIs
  <1>4. at \in at..Pnm!Blanks(b, at)
    BY <1>0, <1>3
  <1>5. Len(<<>>) = 0 /\ 0 * Pnm!SampleSize(h) = 0
    BY CountSizes
  <1>6. 0 \in 0..Pnm!Count(h)
    BY <1>1
  <1> QED
    BY <1>2, <1>4, <1>5, <1>6 DEF Got

\* A comment after the header of an image ends before the end of the file.
LEMMA CommentInside ==
  ASSUME PnmInv, Following, hdr.state = 4, hdr.incomment, Pnm!IsImage(src)
  PROVE  FileIndex <= Len(src)
  <1>0. src \in Bytes /\ Len(src) \in Nat
    BY ReaderSizes
  <1>1. FileIndex \in 1..Len(src) + 1 /\ FileIndex \in Nat
    BY HereIs
  <1>2. Pnm!AfterHeader(src).comment /\ Pnm!CommentEnd(src, FileIndex) = Pnm!CommentEnd(src, Pnm!AfterHeader(src).at)
    BY DEF Following, Gathering
  <1>3. PICK e \in FileIndex..Len(src) + 1 : e = Pnm!CommentEnd(src, FileIndex)
    BY <1>0, <1>1, CommentEndIs
  <1>4. Pnm!IsSpace(Pnm!At(src, e))
    BY <1>2, <1>3 DEF Pnm!IsImage, Pnm!DataSeparate
  <1>5. Pnm!At(src, e) # 0
    BY <1>4, ZeroIs
  <1>6. e \in Nat /\ e <= Len(src)
    BY <1>0, <1>1, <1>3, <1>5, AtIs
  <1> QED
    BY <1>1, <1>3, <1>6

LEMMA CommentMore ==
  ASSUME PnmInv, ImageInv, Pnm!SkipComment, hdr.incomment, ~Pnm!Has(1)
  PROVE  ImageInv'
  <1>0. /\ src \in Bytes /\ Len(src) \in Nat /\ Len(buf) \in Nat /\ p \in Nat \ {0} /\ p <= Len(buf) + 1 /\ off \in Nat
        /\ hdr.state \in 0..4 /\ BufLen \in Nat /\ BufLen >= 3
    BY ReaderSizes
  <1>p. pc = "comment" /\ pc # "end"
    BY DEF Pnm!SkipComment
  <1>1. Pnm!MoreDataFrom(p)
    BY DEF Pnm!SkipComment, Pnm!MoreData
  <1>2. p = Len(buf) + 1 /\ p \in p..Len(buf) + 1
    BY <1>0 DEF Pnm!Has
  <1>3. CASE hdr.state \in 1..3
    <2>1. ~fragile => Seeking(src, Sought(src, hdr.state), hdr.incomment, FileIndex, "read")
      BY <1>3, <1>p DEF ImageInv, Following, Seeking
    <2> QED
      BY <1>1, <1>2, <1>3, <1>p, <2>1, SeekingMore
  <1>4. CASE hdr.state \notin 1..3
    <2>1. ASSUME ~fragile
          PROVE  /\ ~Midway(hdr, image) /\ hdr.state # 0
                 /\ Gathering(src, hdr, image, FileIndex + (p - p), "read")
                 /\ Pnm!IsImage(src) => off < Len(src) /\ Len(buf) - p + 1 < BufLen
      <3>1. Following
        BY <1>p, <2>1 DEF ImageInv
      <3>2. hdr.state = 4
        BY <1>0, <1>4, <3>1 DEF Following
      <3>3. Gathering(src, hdr, image, FileIndex, "comment")
        BY <1>p, <3>1, <3>2 DEF Following
      <3>4. image = <<>> /\ Gathering(src, hdr, image, FileIndex, "read")
        BY <3>3 DEF Gathering
      <3>5. ~Midway(hdr, image)
        <4>1. Len(image) = 0
          BY <3>4
        <4>2. 0 % 8 = 0
          OBVIOUS
        <4> QED
          BY <4>1, <4>2 DEF Midway
      <3>6. FileIndex + (p - p) = FileIndex /\ FileIndex = off + 1
        BY <1>0, <1>2, <3>1, HereIs
      <3>7. Pnm!IsImage(src) => off < Len(src)
        <4>1. Pnm!IsImage(src) => FileIndex <= Len(src)
          BY <3>1, <3>2, CommentInside
        <4> QED
          BY <1>0, <3>6, <4>1
      <3>8. Len(buf) - p + 1 < BufLen
        BY <1>0, <1>2
      <3> QED
        BY <3>2, <3>4, <3>5, <3>6, <3>7, <3>8
    <2> QED
      BY <1>1, <1>2, <1>4, <1>p, <2>1, MoreKeeps
  <1> QED
    BY <1>3, <1>4

LEMMA CommentFollows ==
  ASSUME PnmInv, ImageInv, Pnm!SkipComment
  PROVE  ImageInv'
  <1>0. /\ src \in Bytes /\ buf \in Bytes /\ Len(src) \in Nat /\ Len(buf) \in Nat /\ p \in Nat \ {0} /\ p <= Len(buf) + 1
        /\ hdr \in Header /\ hdr.state \in 0..4 /\ hdr.incomment \in BOOLEAN /\ off \in Nat
    BY ReaderSizes
  <1>p. pc = "comment" /\ pc # "end"
    BY DEF Pnm!SkipComment
  <1> DEFINE ends == hdr.incomment /\ Pnm!At(buf, p) = Pnm!NL
             last == ends /\ hdr.state = 4
  \* what is known of a byte of a comment
  <1>f. ASSUME ~fragile, hdr.incomment, Pnm!Has(1)
        PROVE  /\ Following /\ ~Midway(hdr, image) /\ hdr.state # 0 /\ p \in 1..Len(buf)
               /\ FileIndex \in 1..Len(src) /\ FileIndex \in Nat /\ Pnm!At(src, FileIndex) = Pnm!At(buf, p)
               /\ hdr.state = 4 => image = <<>>
    <2>1. Following
      BY <1>p, <1>f DEF ImageInv
    <2>2. hdr.state # 0 /\ (hdr.state = 4 => image = <<>>)
      BY <1>f, <2>1 DEF Following, Gathering
    <2>3. ~Midway(hdr, image)
      <3>1. image = <<>> => Len(image) = 0
        OBVIOUS
      <3>2. 0 % 8 = 0
        OBVIOUS
      <3> QED
        BY <2>2, <3>1, <3>2 DEF Midway
    <2>4. p \in p..Len(buf) /\ p \in 1..Len(buf)
      BY <1>0, <1>f DEF Pnm!Has
    <2>5. FileIndex + (p - p) \in 1..Len(src) /\ Pnm!At(src, FileIndex + (p - p)) = Pnm!At(buf, p)
      BY <2>1, <2>3, <2>4, HeldByte
    <2>6. FileIndex + (p - p) = FileIndex /\ FileIndex \in Nat
      BY <1>0, <2>1, HereIs
    <2> QED
      BY <2>1, <2>2, <2>3, <2>4, <2>5, <2>6
  <1>1. CASE hdr.incomment /\ ~Pnm!Has(1)
    BY <1>1, CommentMore
  <1>2. CASE ~(hdr.incomment /\ ~Pnm!Has(1)) /\ last /\ ~Pnm!IsSpace(Pnm!At(buf, p + 1))
    <2>1. Pnm!End("badformat") /\ fragile' = (fragile \/ p = Len(buf))
      BY <1>2 DEF Pnm!SkipComment
    <2>2. ASSUME ~fragile' PROVE ~Pnm!IsImage(src)
      <3>1. ~fragile /\ p # Len(buf)
        BY <2>1, <2>2
      <3>2. /\ Following /\ ~Midway(hdr, image) /\ p \in 1..Len(buf)
            /\ FileIndex \in 1..Len(src) /\ FileIndex \in Nat /\ Pnm!At(src, FileIndex) = Pnm!NL
        BY <1>2, <1>f, <3>1
      <3>3. p + 1 \in p..Len(buf)
        BY <1>0, <3>1, <3>2
      <3>4. FileIndex + ((p + 1) - p) = FileIndex + 1
        BY <1>0, <3>2
      <3>5. Pnm!At(src, FileIndex + 1) = Pnm!At(buf, p + 1)
        BY <3>2, <3>3, <3>4, HeldByte
      <3>6. Pnm!CommentEnd(src, FileIndex) = FileIndex + 1
        BY <1>0, <3>2, CommentStops
      <3>7. Gathering(src, hdr, image, FileIndex, pc) /\ hdr.incomment
        BY <1>2, <3>2 DEF Following
      <3>8. Pnm!AfterHeader(src).comment /\ Pnm!CommentEnd(src, Pnm!AfterHeader(src).at) = FileIndex + 1
        BY <3>6, <3>7 DEF Gathering
      <3>9. ~Pnm!DataSeparate(src)
        BY <1>2, <3>5, <3>8 DEF Pnm!DataSeparate
      <3> QED
        BY <3>9 DEF Pnm!IsImage
    <2> QED
      BY <1>p, <2>1, <2>2, EndRefuses
  <1>3. CASE ~(hdr.incomment /\ ~Pnm!Has(1)) /\ ~(last /\ ~Pnm!IsSpace(Pnm!At(buf, p + 1)))
    <2>1. /\ p' = p + (IF last THEN 2 ELSE IF hdr.incomment THEN 1 ELSE 0)
          /\ hdr' = [hdr EXCEPT !.incomment = hdr.incomment /\ ~ends]
          /\ pc' = IF hdr.incomment THEN "comment" ELSE "token"
          /\ UNCHANGED <<src, off, buf, image, outcome, fragile>>
      BY <1>3, <1>p DEF Pnm!SkipComment
    <2>u. UNCHANGED <<src, off, buf, image, outcome>> /\ (~fragile' => ~fragile)
      BY <2>1
    \* outside of a comment
    <2>2. CASE ~hdr.incomment
      <3>a. ~last /\ (hdr.incomment /\ ~ends) = FALSE /\ p + 0 = p
        BY <1>0, <2>2
      <3>b. pc' = "token"
        BY <2>1, <2>2
      <3>c. p' = p
        BY <2>1, <2>2, <3>a
      <3>d. hdr' = [hdr EXCEPT !.incomment = FALSE]
        BY <2>1, <3>a
      <3>1. p' = p /\ pc' = "token" /\ hdr' = [hdr EXCEPT !.incomment = FALSE]
        BY <3>b, <3>c, <3>d
      <3>2. hdr' = hdr
        BY <1>0, <2>2, <3>1 DEF Header
      <3>3. ASSUME ~fragile'
            PROVE  /\ hdr.state \in 1..3 => Seeking(src, Sought(src, hdr.state), FALSE, FileIndex + (p - p), "token")
                   /\ hdr.state = 4 => Gathering(src, hdr', image, FileIndex + (p - p), "token")
        <4>1. Following
          BY <1>p, <2>u, <3>3 DEF ImageInv
        <4>2. FileIndex + (p - p) = FileIndex
          BY <1>0, <4>1, HereIs
        <4>3. hdr.state \in 1..3 => Seeking(src, Sought(src, hdr.state), FALSE, FileIndex, "token")
          BY <1>p, <2>2, <4>1 DEF Following, Seeking
        <4>4. hdr.state = 4 => Gathering(src, hdr, image, FileIndex, "token")
          BY <2>2, <4>1 DEF Following, Gathering
        <4> QED
          BY <3>2, <4>2, <4>3, <4>4
      <3>4. p \in p..Len(buf) + 1
        BY <1>0
      <3> HIDE DEF last, ends
      <3> QED
        BY <1>p, <2>u, <3>1, <3>3, <3>4, PassKeeps
    \* a byte of the comment
    <2>3. CASE hdr.incomment /\ ~ends
      <3>1. p' = p + 1 /\ pc' = "comment" /\ hdr' = [hdr EXCEPT !.incomment = TRUE]
        BY <1>0, <2>1, <2>3
      <3>2. hdr' = hdr
        BY <1>0, <2>3, <3>1 DEF Header
      <3>3. ASSUME ~fragile'
            PROVE  /\ ~Midway(hdr, image) /\ hdr.state # 0
                   /\ hdr.state \in 1..3 => Seeking(src, Sought(src, hdr.state), TRUE, FileIndex + ((p + 1) - p), "comment")
                   /\ hdr.state = 4 => Gathering(src, hdr', image, FileIndex + ((p + 1) - p), "comment")
        <4>1. /\ Following /\ ~Midway(hdr, image) /\ hdr.state # 0
              /\ FileIndex \in 1..Len(src) /\ FileIndex \in Nat /\ Pnm!At(src, FileIndex) # Pnm!NL
          BY <1>3, <1>f, <2>3, <2>u, <3>3
        <4>2. PICK at : at = FileIndex + 1 /\ at = FileIndex + ((p + 1) - p) /\ at \in 1..Len(src) + 1
          BY <1>0, <4>1
        <4>3. Pnm!CommentEnd(src, at) = Pnm!CommentEnd(src, FileIndex)
          BY <1>0, <4>1, <4>2, CommentOn
        <4>4. hdr.state \in 1..3 => Seeking(src, Sought(src, hdr.state), TRUE, at, "comment")
          BY <2>3, <4>1, <4>2, <4>3 DEF Following, Seeking
        <4>5. hdr.state = 4 => Gathering(src, hdr, image, at, "comment")
          BY <2>3, <4>1, <4>2, <4>3 DEF Following, Gathering
        <4> QED
          BY <3>2, <4>1, <4>2, <4>4, <4>5
      <3>4. p + 1 \in p..Len(buf) + 1
        BY <1>0, <1>3, <2>3 DEF Pnm!Has
      <3> HIDE DEF last, ends
      <3> QED
        BY <1>p, <2>u, <3>1, <3>3, <3>4, PassKeeps
    \* the end of a comment in the header
    <2>4. CASE ends /\ ~last
      <3>0. hdr.incomment /\ hdr.state # 4
        BY <2>4
      <3>1. p' = p + 1 /\ pc' = "comment" /\ hdr' = [hdr EXCEPT !.incomment = FALSE]
        BY <2>1, <2>4, <3>0
      <3>3. ASSUME ~fragile'
            PROVE  /\ ~Midway(hdr, image) /\ hdr.state # 0
                   /\ hdr.state \in 1..3 => Seeking(src, Sought(src, hdr.state), FALSE, FileIndex + ((p + 1) - p), "comment")
        <4>1. /\ Following /\ ~Midway(hdr, image) /\ hdr.state # 0
              /\ FileIndex \in 1..Len(src) /\ FileIndex \in Nat /\ Pnm!At(src, FileIndex) = Pnm!NL
          BY <1>3, <1>f, <2>4, <2>u, <3>3
        <4>2. PICK at : at = FileIndex + 1 /\ at = FileIndex + ((p + 1) - p) /\ at \in 1..Len(src) + 1
          BY <1>0, <4>1
        <4>3. Pnm!CommentEnd(src, FileIndex) = at
          BY <1>0, <4>1, <4>2, CommentStops
        <4>4. ASSUME hdr.state \in 1..3 PROVE Sought(src, hdr.state) = at
          <5>1. PICK s : s = Sought(src, hdr.state)
            OBVIOUS
          <5>2. Seeking(src, s, hdr.incomment, FileIndex, pc)
            BY <4>1, <4>4, <5>1 DEF Following
          <5>3. Pnm!CommentEnd(src, FileIndex) = s
            BY <3>0, <5>2 DEF Seeking
          <5>4. s = at
            BY <4>3, <5>3
          <5> QED
            BY <5>1, <5>4
        <4>5. Pnm!Blanks(src, at) \in at..Len(src) + 1 /\ at \in Nat
          <5>1. src \in Bytes /\ at \in 1..Len(src) + 1
            BY <1>0, <4>2
          <5>2. Pnm!Blanks(src, at) \in at..Len(src) + 1
            BY <5>1, DigitsIs
          <5> QED
            BY <4>1, <4>2, <5>2
        <4>6. at <= at /\ at <= Pnm!Blanks(src, at)
          BY <1>0, <4>5
        <4>7. Seeking(src, at, FALSE, at, "comment")
          BY <4>2, <4>6 DEF Seeking
        <4> QED
          BY <4>1, <4>2, <4>4, <4>7
      <3>4. p + 1 \in p..Len(buf) + 1
        BY <1>0, <1>3, <3>0 DEF Pnm!Has
      <3> HIDE DEF last, ends
      <3> QED
        BY <1>p, <2>u, <3>0, <3>1, <3>3, <3>4, PassKeeps
    \* the end of a comment before the data
    <2>5. CASE last
      <3>0. hdr.incomment /\ hdr.state = 4 /\ Pnm!At(buf, p) = Pnm!NL /\ Pnm!Has(1) /\ Pnm!IsSpace(Pnm!At(buf, p + 1))
        BY <1>3, <2>5
      <3>1. p' = p + 2 /\ pc' = "comment" /\ hdr' = [hdr EXCEPT !.incomment = FALSE]
        BY <2>1, <2>5, <3>0
      <3>2. p + 1 \in p..Len(buf) /\ p + 2 \in p..Len(buf) + 1
        <4>1. Pnm!At(buf, p + 1) # 0
          BY <3>0, ZeroIs
        <4>2. p + 1 \in Nat
          BY <1>0
        <4>3. p + 1 <= Len(buf)
          BY <1>0, <4>1, <4>2, AtIs
        <4> QED
          BY <1>0, <4>3
      <3>3. ASSUME ~fragile'
            PROVE  /\ ~Midway(hdr, image)
                   /\ Gathering(src, hdr', image, FileIndex + ((p + 2) - p), "comment")
        <4>1. /\ Following /\ ~Midway(hdr, image) /\ image = <<>>
              /\ FileIndex \in 1..Len(src) /\ FileIndex \in Nat /\ Pnm!At(src, FileIndex) = Pnm!NL
          BY <1>f, <2>u, <3>0, <3>3
        <4>2. PICK at : at = FileIndex + 2 /\ at = FileIndex + ((p + 2) - p)
          BY <1>0, <4>1
        <4>3. Pnm!At(src, FileIndex + 1) = Pnm!At(buf, p + 1) /\ FileIndex + 1 \in 1..Len(src)
          <5>1. FileIndex + ((p + 1) - p) = FileIndex + 1
            BY <1>0, <4>1
          <5> QED
            BY <3>2, <4>1, <5>1, HeldByte
        <4>4. Pnm!AfterHeader(src).comment /\ Pnm!CommentEnd(src, Pnm!AfterHeader(src).at) = FileIndex + 1
          <5>1. Pnm!CommentEnd(src, FileIndex) = FileIndex + 1
            BY <1>0, <4>1, CommentStops
          <5> QED
            BY <3>0, <4>1, <5>1 DEF Following, Gathering
        <4>5. Pnm!DataSeparate(src)
          BY <3>0, <4>3, <4>4 DEF Pnm!DataSeparate
        <4>6. Pnm!Start(src) = at /\ at \in 1..Len(src) + 1
          <5>1. Pnm!Start(src) = (FileIndex + 1) + 1
            BY <4>4 DEF Pnm!Start
          <5> QED
            BY <1>0, <4>1, <4>2, <4>3, <5>1
        <4>7. PICK g \in Header : g = hdr' /\ g.state = 4 /\ ~g.incomment /\ Known(src, g)
          <5>1. PICK g : g = hdr'
            OBVIOUS
          <5>2. g = [hdr EXCEPT !.incomment = FALSE]
            BY <3>1, <5>1
          <5>3. g \in Header /\ ~g.incomment /\ g.state = hdr.state /\ g.fmt = hdr.fmt
                /\ g.width = hdr.width /\ g.height = hdr.height /\ g.maxval = hdr.maxval
            BY <1>0, <5>2 DEF Header
          <5>4. Pnm!HasMaxval(g) <=> Pnm!HasMaxval(hdr)
            BY <5>3 DEF Pnm!HasMaxval
          <5>5. Known(src, g)
            BY <4>1, <5>3, <5>4 DEF Following, Known
          <5> QED
            BY <3>0, <5>1, <5>3, <5>5
        <4>8. Got(src, g, <<>>, at, 0)
          BY <1>0, <4>6, <4>7, GotStarts
        <4>9. Gathering(src, g, image, at, "comment")
          BY <4>1, <4>5, <4>7, <4>8 DEF Gathering
        <4> QED
          BY <4>1, <4>2, <4>7, <4>9
      <3>4. hdr.state # 0 /\ hdr.state \notin 1..3
        BY <3>0
      <3> HIDE DEF last, ends
      <3> QED
        BY <1>p, <2>u, <3>1, <3>2, <3>3, <3>4, PassKeeps
    <2> QED
      BY <2>2, <2>3, <2>4, <2>5
  <1> QED
    BY <1>1, <1>2, <1>3

-----------------------------------------------------------------------------
(***************************************************************************)
(* The header, field by field.                                             *)
(***************************************************************************)
\* A step that reads a field of the header.
LEMMA FieldKeeps ==
  ASSUME PnmInv, ImageInv, pc # "end", UNCHANGED <<src, off, buf, image, outcome>>,
         NEW g \in Header, hdr' = g, NEW k \in p..Len(buf) + 1, p' = k, pc' = "space", ~fragile' => ~fragile,
         ~fragile' => /\ ~Midway(hdr, image) /\ ~Midway(g, image) /\ g.state # 0
                      /\ Known(src, g)
                      /\ g.state \in 1..3 => Seeking(src, Sought(src, g.state), g.incomment, FileIndex + (k - p), "space")
                      /\ g.state = 4 => Gathering(src, g, image, FileIndex + (k - p), "space")
  PROVE  ImageInv'
  <1>1. ASSUME ~fragile' PROVE Following'
    <2>1. Following
      BY <1>1 DEF ImageInv
    <2>0. Len(buf) \in Nat /\ p \in Nat \ {0} /\ p \in 1..Len(buf) + 1 /\ off \in Nat
      BY ReaderSizes
    <2>2. FileIndex' = FileIndex + (k - p)
      <3>1. PICK base \in Nat : base = off - Len(buf) /\ FileIndex = base + p
        BY <2>1, HereIs
      <3>2. FileIndex' = base + k
        BY <3>1 DEF FileIndex
      <3> QED
        BY <2>0, <3>1, <3>2
    <2>3. (Held(src, hdr, image, off - Len(buf), buf, p))'
      <3>1. Stands(src, off - Len(buf), buf, k)
        BY <1>1, <2>0, <2>1, HeldStands, StandsOn
      <3>2. Held(src, g, image, off - Len(buf), buf, k)
        BY <1>1, <3>1 DEF Held
      <3> QED
        BY <3>2
    <2>4. (Known(src, hdr))'
      <3>1. Known(src, g)
        BY <1>1
      <3> QED
        BY <3>1
    <2>5. hdr'.state = 0 => FileIndex' = 1 /\ ~hdr'.incomment
      BY <1>1
    <2>6. hdr'.state \in 1..3 => Seeking(src', Sought(src', hdr'.state), hdr'.incomment, FileIndex', pc')
      BY <1>1, <2>2
    <2>7. hdr'.state = 4 => Gathering(src', hdr', image', FileIndex', pc')
      BY <1>1, <2>2
    <2>8. pc' # "read"
      OBVIOUS
    <2> QED
      BY <2>3, <2>4, <2>5, <2>6, <2>7, <2>8 DEF Following
  <1>2. pc' # "end" /\ outcome' = outcome
    OBVIOUS
  <1> QED
    BY <1>1, <1>2 DEF ImageInv

\* The first three bytes of the file.
LEMMA MagicBytes ==
  ASSUME PnmInv, Following, hdr.state = 0, Pnm!Has(3)
  PROVE  /\ Len(src) >= 3 /\ src[1] = Pnm!At(buf, p) /\ src[2] = Pnm!At(buf, p + 1) /\ src[3] = Pnm!At(buf, p + 2)
         /\ 4 \in 1..Len(src) + 1 /\ p + 3 \in p..Len(buf) + 1
  <1>0. src \in Bytes /\ Len(src) \in Nat /\ Len(buf) \in Nat /\ p \in Nat \ {0}
    BY ReaderSizes
  <1>1. FileIndex = 1 /\ ~Midway(hdr, image)
    BY DEF Following, Midway
  <1>2. p \in p..Len(buf) /\ p + 1 \in p..Len(buf) /\ p + 2 \in p..Len(buf)
    BY <1>0 DEF Pnm!Has
  <1>3. FileIndex + (p - p) = 1 /\ FileIndex + ((p + 1) - p) = 2 /\ FileIndex + ((p + 2) - p) = 3
    BY <1>0, <1>1
  <1>4. 1 \in 1..Len(src) /\ Pnm!At(src, 1) = Pnm!At(buf, p)
    BY <1>1, <1>2, <1>3, HeldByte
  <1>5. 2 \in 1..Len(src) /\ Pnm!At(src, 2) = Pnm!At(buf, p + 1)
    BY <1>1, <1>2, <1>3, HeldByte
  <1>6. 3 \in 1..Len(src) /\ Pnm!At(src, 3) = Pnm!At(buf, p + 2)
    BY <1>1, <1>2, <1>3, HeldByte
  <1>7. Pnm!At(src, 1) = src[1] /\ Pnm!At(src, 2) = src[2] /\ Pnm!At(src, 3) = src[3]
    BY <1>0, <1>4, <1>5, <1>6, AtIs
  <1>8. Len(src) >= 3 /\ 4 \in 1..Len(src) + 1 /\ p + 3 \in p..Len(buf) + 1
    BY <1>0, <1>2, <1>6
  <1> QED
    BY <1>4, <1>5, <1>6, <1>7, <1>8

LEMMA MagicFollows ==
  ASSUME PnmInv, ImageInv, Pnm!Magic
  PROVE  ImageInv'
  <1>0. /\ src \in Bytes /\ buf \in Bytes /\ Len(src) \in Nat /\ Len(buf) \in Nat /\ p \in Nat \ {0} /\ p <= Len(buf) + 1
        /\ hdr \in Header /\ off \in Nat /\ BufLen \in Nat /\ BufLen >= 3
    BY ReaderSizes
  <1>p. pc = "token" /\ hdr.state = 0 /\ pc # "end"
    BY DEF Pnm!Magic
  <1>i. image = <<>> /\ Len(image) = 0 /\ ~Midway(hdr, image)
    <2>1. image = <<>>
      BY <1>p DEF PnmInv
    <2> QED
      BY <1>p, <2>1 DEF Midway
  <1>f. ASSUME ~fragile PROVE Following /\ FileIndex = 1 /\ FileIndex = (off - Len(buf)) + p
    <2>1. Following
      BY <1>p, <1>f DEF ImageInv
    <2> QED
      BY <1>p, <2>1, HereIs DEF Following
  <1> DEFINE good == /\ Pnm!At(buf, p) = 80 /\ Pnm!At(buf, p + 1) \in 49..54
                     /\ (Pnm!At(buf, p + 2) = Pnm!Hash \/ Pnm!IsSpace(Pnm!At(buf, p + 2)))
  <1>1. CASE ~Pnm!Has(3)
    <2>1. Pnm!MoreDataFrom(p)
      BY <1>1 DEF Pnm!Magic, Pnm!MoreData
    <2>2. Len(buf) + 1 - p < 3
      BY <1>0, <1>1 DEF Pnm!Has
    <2>3. ASSUME ~fragile PROVE Pnm!IsImage(src) => off < Len(src) /\ Len(buf) - p + 1 < BufLen
      <3>1. Pnm!IsImage(src) => Len(src) >= 3
        BY DEF Pnm!IsImage, Pnm!IsMagic
      <3>2. off < 3 /\ Len(buf) - p + 1 < 3
        BY <1>0, <1>f, <2>2, <2>3
      <3> QED
        BY <1>0, <3>1, <3>2
    <2>4. p \in p..Len(buf) + 1 /\ hdr.state \notin 1..3 /\ hdr.state # 4
      BY <1>0, <1>p
    <2> QED
      BY <1>p, <1>i, <2>1, <2>3, <2>4, MoreKeeps
  <1>b. ASSUME ~fragile, Pnm!Has(3)
        PROVE  /\ Len(src) >= 3 /\ src[1] = Pnm!At(buf, p) /\ src[2] = Pnm!At(buf, p + 1) /\ src[3] = Pnm!At(buf, p + 2)
               /\ 4 \in 1..Len(src) + 1 /\ p + 3 \in p..Len(buf) + 1
    BY <1>b, <1>f, <1>p, MagicBytes
  <1>2. CASE Pnm!Has(3) /\ ~good
    <2>1. Pnm!End("badformat") /\ fragile' = fragile
      BY <1>2 DEF Pnm!Magic
    <2>2. ~fragile => ~Pnm!IsImage(src)
      BY <1>2, <1>b DEF Pnm!IsImage, Pnm!IsMagic
    <2> QED
      BY <1>p, <2>1, <2>2, EndRefuses
  <1>3. CASE Pnm!Has(3) /\ good
    <2>1. /\ hdr' = [hdr EXCEPT !.state = 1, !.fmt = Pnm!At(buf, p + 1) - 48, !.incomment = Pnm!At(buf, p + 2) = Pnm!Hash]
          /\ p' = p + 3 /\ pc' = "space"
          /\ UNCHANGED <<src, off, buf, image, outcome, fragile>>
      BY <1>3 DEF Pnm!Magic
    <2>2. PICK f \in 1..6, inc \in BOOLEAN : f = Pnm!At(buf, p + 1) - 48 /\ inc = (Pnm!At(buf, p + 2) = Pnm!Hash)
      <3>1. PICK c \in 49..54 : c = Pnm!At(buf, p + 1)
        BY <1>3
      <3>2. c - 48 \in 1..6
        OBVIOUS
      <3> QED
        BY <3>1, <3>2
    <2>3. PICK g : g = [hdr EXCEPT !.state = 1, !.fmt = f, !.incomment = inc]
      OBVIOUS
    <2>4. g \in Header /\ g.state = 1 /\ g.fmt = f /\ g.incomment = inc /\ g.maxval = hdr.maxval
      <3>1. g \in Header
        BY <1>0, <2>3, HeaderStarts
      <3>2. g.state = 1 /\ g.fmt = f
        BY <1>0, <2>3 DEF Header
      <3>3. g.incomment = inc /\ g.maxval = hdr.maxval
        BY <1>0, <2>3 DEF Header
      <3> QED
        BY SMTT(60), <3>1, <3>2, <3>3
    <2>5. hdr' = g
      BY <2>1, <2>2, <2>3
    <2>6. ~Midway(g, image)
      BY <2>4 DEF Midway
    <2>7. ASSUME ~fragile
          PROVE  /\ p + 3 \in p..Len(buf) + 1 /\ Known(src, g)
                 /\ Seeking(src, Sought(src, 1), g.incomment, FileIndex + ((p + 3) - p), "space")
      <3>1. /\ Len(src) >= 3 /\ src[1] = Pnm!At(buf, p) /\ src[2] = Pnm!At(buf, p + 1) /\ src[3] = Pnm!At(buf, p + 2)
            /\ 4 \in 1..Len(src) + 1 /\ p + 3 \in p..Len(buf) + 1
        BY <1>3, <1>b, <2>7
      <3>2. Pnm!IsMagic(src) /\ g.fmt = src[2] - 48 /\ g.incomment = (src[3] = Pnm!Hash)
        BY <1>3, <2>2, <2>4, <3>1 DEF Pnm!IsMagic
      <3>3. g.maxval = 1
        BY <1>p, <1>f, <2>4, <2>7 DEF Following, Known
      <3>4. Known(src, g)
        BY <2>4, <3>2, <3>3 DEF Known
      <3>5. FileIndex + ((p + 3) - p) = 4
        BY <1>0, <1>f, <2>7
      <3>6. PICK h : h = Pnm!BeforeWidth(src)
        OBVIOUS
      <3>7. h.at = 4 /\ h.comment = (src[3] = Pnm!Hash) /\ Spot(src, h)
        BY <3>1, <3>6 DEF Pnm!BeforeWidth, Spot
      <3>8. PICK s : s = Sought(src, 1) /\ s = Pnm!Token(src, h)
        BY <3>6 DEF Sought, From
      <3>9. /\ g.incomment => s = Pnm!CommentEnd(src, 4)
            /\ ~g.incomment => s = FreeToken(src, 4)
        BY <1>0, <3>2, <3>7, <3>8, TokenIs
      <3>10. Seeking(src, s, g.incomment, 4, "space")
        BY <3>1, <3>9 DEF Seeking
      <3> QED
        BY <3>1, <3>4, <3>5, <3>8, <3>10
    <2>8. p + 3 \in p..Len(buf) + 1
      BY <1>0, <1>3 DEF Pnm!Has
    <2>9. UNCHANGED <<src, off, buf, image, outcome>> /\ p' = p + 3 /\ pc' = "space" /\ (~fragile' => ~fragile)
      BY <2>1
    <2>10. g.state # 0 /\ g.state # 4
      BY <2>4
    <2> QED
      BY <1>p, <1>i, <2>4, <2>5, <2>6, <2>7, <2>8, <2>9, <2>10, FieldKeeps
  <1> QED
    BY <1>1, <1>2, <1>3

-----------------------------------------------------------------------------
(***************************************************************************)
(* A number of the file, met in the buffer.                                *)
(***************************************************************************)
LEMMA DigitsBefore ==
  ASSUME NEW t \in Bytes, NEW i \in 1..Len(t) + 1
  PROVE  /\ Pnm!Strtol(t, i).rest # i => Pnm!Digits(t, i) < Pnm!Strtol(t, i).rest
         /\ Pnm!At(t, i) = 0 => Pnm!Strtol(t, i).rest = i /\ Pnm!Digits(t, i) = i
  <1>0. Len(t) \in Nat /\ i \in Nat
    BY AtIs
  <1>1. PICK k, f, m : /\ Parsed(t, i, k, f, m)
                       /\ m = f => Pnm!Strtol(t, i).val = 0 /\ Pnm!Strtol(t, i).rest = i
                       /\ m # f => Pnm!Strtol(t, i).rest = m
    BY StrtolParts
  <1>2. /\ k \in i..Len(t) + 1 /\ f \in k..Len(t) + 1 /\ m \in f..Len(t) + 1
        /\ BlanksTo(t, i, k) /\ f = (IF Pnm!At(t, k) \in {43, 45} THEN k + 1 ELSE k) /\ DigitsTo(t, f, m)
        /\ f = Pnm!Digits(t, i)
    BY <1>1 DEF Parsed
  <1>3. k \in Nat /\ f \in Nat /\ m \in Nat /\ f <= m
    BY <1>0, <1>2
  <1>4. m # f => f < m
    BY <1>3
  <1>5. ASSUME Pnm!At(t, i) = 0 PROVE f = i /\ m = i
    <2>1. \A j \in i..k - 1 : Pnm!IsSpace(Pnm!At(t, j))
      BY <1>2 DEF BlanksTo
    <2>2. k = i
      <3> SUFFICES ASSUME k # i PROVE FALSE
        OBVIOUS
      <3>1. i \in i..k - 1
        BY <1>0, <1>2
      <3>2. Pnm!IsSpace(0)
        BY <1>5, <2>1, <3>1
      <3> QED
        BY <3>2, ZeroIs
    <2>3. f = i
      BY <1>2, <1>5, <2>2, ZeroIs
    <2>4. m = f
      <3> SUFFICES ASSUME m # f PROVE FALSE
        OBVIOUS
      <3>1. f \in f..m - 1
        BY <1>3, <1>4
      <3>2. Pnm!IsDigit(Pnm!At(t, f))
        BY <1>2, <3>1 DEF DigitsTo
      <3> QED
        BY <1>5, <2>3, <3>2, ZeroIs
    <2> QED
      BY <2>3, <2>4
  <1>6. Pnm!Strtol(t, i).rest # i => Pnm!Digits(t, i) < Pnm!Strtol(t, i).rest
    BY <1>1, <1>2, <1>4
  <1>7. Pnm!At(t, i) = 0 => Pnm!Strtol(t, i).rest = i
    BY <1>1, <1>5
  <1> QED
    BY <1>2, <1>5, <1>6, <1>7

\* The number that is sought from index s of the file on, when the reader is
\* between s and its first character.
LEMMA TokenMet ==
  ASSUME PnmInv, Following, ~Midway(hdr, image), NEW s \in 1..Len(src) + 1, FileIndex \in s..Pnm!Blanks(src, s),
         Pnm!Digits(buf, p) <= Len(buf)
  PROVE  /\ Pnm!Strtol(buf, p).rest > Len(buf) =>
              Pnm!Strtol(src, s).rest > off /\ Pnm!At(src, Pnm!Blanks(src, s)) # Pnm!Hash
         /\ Pnm!Strtol(buf, p).rest <= Len(buf) =>
              /\ Pnm!Strtol(src, s).val = Pnm!Strtol(buf, p).val
              /\ Pnm!Strtol(buf, p).rest # p => Pnm!Strtol(src, s).rest = (off - Len(buf)) + Pnm!Strtol(buf, p).rest
              /\ Pnm!Strtol(buf, p).rest = p => Pnm!Strtol(src, s).rest = s
  <1>0. /\ src \in Bytes /\ buf \in Bytes /\ Len(src) \in Nat /\ Len(buf) \in Nat /\ off \in Nat
        /\ p \in Nat \ {0} /\ p \in 1..Len(buf) + 1 /\ p <= Len(buf) + 1
    BY ReaderSizes
  <1>1. PICK base \in Nat : base = off - Len(buf) /\ FileIndex = base + p
    BY HereIs
  <1>2. Stands(src, base, buf, p)
    BY <1>1, HeldStands
  <1>3. PICK r \in p..Len(buf) + 1, v \in Int : r = Pnm!Strtol(buf, p).rest /\ v = Pnm!Strtol(buf, p).val
    BY <1>0, StrtolType
  <1>4. PICK at : at = base + p
    OBVIOUS
  <1>5. at \in 1..Len(src) + 1 /\ at \in Nat /\ at \in s..Pnm!Blanks(src, s)
    <2>1. at = FileIndex
      BY <1>1, <1>4
    <2> QED
      BY <2>1, HereIs
  <1>6. PICK R, V : R = Pnm!Strtol(src, at).rest /\ V = Pnm!Strtol(src, at).val
    OBVIOUS
  <1>7. /\ r <= Len(buf) => V = v /\ R = base + r
        /\ r > Len(buf) => R > base + Len(buf)
    BY <1>0, <1>2, <1>3, <1>4, <1>6, StrtolStands
  <1>8. PICK S, W : S = Pnm!Strtol(src, s).rest /\ W = Pnm!Strtol(src, s).val
    OBVIOUS
  <1>9. /\ Pnm!Blanks(src, at) = Pnm!Blanks(src, s) /\ V = W /\ (R # at => R = S) /\ (R = at => S = s)
    BY <1>0, <1>5, <1>6, <1>8, StrtolBetween
  <1>10. R \in at..Len(src) + 1 /\ (R # at => Pnm!At(src, Pnm!Blanks(src, at)) # Pnm!Hash)
    BY <1>0, <1>5, <1>6, StrtolType
  <1>11. r > Len(buf) => S > off /\ Pnm!At(src, Pnm!Blanks(src, s)) # Pnm!Hash
    <2>1. ASSUME r > Len(buf) PROVE R > off /\ R # at
      <3>1. R > base + Len(buf) /\ base + Len(buf) = off
        BY <1>0, <1>1, <1>7, <2>1
      <3>2. at <= off
        <4>1. p <= Len(buf)
          <5>1. Pnm!Digits(buf, p) \in p..Len(buf) + 1
            BY <1>0, DigitsIs
          <5> QED
            BY <1>0, <5>1
        <4> QED
          BY <1>0, <1>1, <1>4, <4>1
      <3>3. R \in Nat
        BY <1>0, <1>5, <1>10
      <3> QED
        BY <1>0, <1>5, <3>1, <3>2, <3>3
    <2> QED
      BY <1>9, <1>10, <2>1
  <1>12. ASSUME r <= Len(buf) PROVE W = v /\ (r # p => S = base + r) /\ (r = p => S = s)
    <2>1. V = v /\ R = base + r
      BY <1>7, <1>12
    <2>2. R = at <=> r = p
      BY SMTT(60), <1>0, <1>3, <1>4, <2>1
    <2> QED
      BY <1>9, <2>1, <2>2
  <1> QED
    BY <1>1, <1>3, <1>8, <1>11, <1>12

\* The reader in the header, before a number.
LEMMA BeforeNumber ==
  ASSUME PnmInv, Following, hdr.state \in 1..3, pc = "token"
  PROVE  /\ ~hdr.incomment /\ ~Midway(hdr, image) /\ image = <<>> /\ Known(src, hdr) /\ Spot(src, From(src, hdr.state))
         /\ Sought(src, hdr.state) \in 1..Len(src) + 1
         /\ FileIndex \in Sought(src, hdr.state)..Pnm!Blanks(src, Sought(src, hdr.state))
  <1>0. src \in Bytes /\ hdr \in Header /\ Len(src) \in Nat
    BY ReaderSizes
  <1>1. PICK s : s = Sought(src, hdr.state)
    OBVIOUS
  <1>2. Known(src, hdr) /\ hdr.state <= hdr.state
    BY DEF Following
  <1>3. s \in 1..Len(src) + 1 /\ Spot(src, From(src, hdr.state))
    BY <1>0, <1>1, <1>2, FromIs
  <1>4. Seeking(src, s, hdr.incomment, FileIndex, pc)
    BY <1>1 DEF Following
  <1>5. ~hdr.incomment /\ s <= FileIndex /\ FileIndex <= Pnm!Blanks(src, s)
    BY <1>4 DEF Seeking
  <1>6. FileIndex \in Nat
    BY HereIs
  <1>7. Pnm!Blanks(src, s) \in s..Len(src) + 1
    BY <1>0, <1>3, DigitsIs
  <1>8. FileIndex \in s..Pnm!Blanks(src, s)
    BY <1>0, <1>3, <1>5, <1>6, <1>7
  <1>9. hdr.state # 4
    OBVIOUS
  <1>10. image = <<>> /\ ~Midway(hdr, image)
    BY <1>9 DEF PnmInv, Midway
  <1> QED
    BY <1>1, <1>2, <1>3, <1>5, <1>8, <1>10

\* A number that may go on behind the end of the buffer.
LEMMA NumberMore ==
  ASSUME PnmInv, ImageInv, hdr.state \in 1..3, pc = "token", Pnm!MoreDataFrom(p),
         Pnm!At(buf, p) # 0, Pnm!Strtol(buf, p).rest > Len(buf)
  PROVE  ImageInv'
  <1>0. /\ src \in Bytes /\ buf \in Bytes /\ src \in Files /\ Len(src) \in Nat /\ Len(buf) \in Nat /\ off \in Nat /\ hdr \in Header
        /\ p \in Nat \ {0} /\ p \in 1..Len(buf) + 1 /\ p \in p..Len(buf) + 1 /\ p - p = 0 /\ BufLen \in Nat
    BY ReaderSizes
  <1>1. p <= Len(buf)
    BY <1>0, AtIs
  <1>2. Pnm!Digits(buf, p) <= Len(buf)
    <2>1. PICK r \in p..Len(buf) + 1 : r = Pnm!Strtol(buf, p).rest
      BY <1>0, StrtolType
    <2>2. r = Len(buf) + 1 /\ r # p
      BY <1>0, <1>1, <2>1
    <2>3. Pnm!Digits(buf, p) < r
      BY <1>0, <2>1, <2>2, DigitsBefore
    <2>4. Pnm!Digits(buf, p) \in p..Len(buf) + 1
      BY <1>0, DigitsIs
    <2> QED
      BY <1>0, <2>2, <2>3, <2>4
  <1>3. ASSUME ~fragile
        PROVE  /\ ~Midway(hdr, image)
               /\ Seeking(src, Sought(src, hdr.state), hdr.incomment, FileIndex + (p - p), "read")
               /\ Pnm!IsImage(src) => off < Len(src) /\ Len(buf) - p + 1 < BufLen
    <2>1. Following
      BY <1>3 DEF ImageInv
    <2>2. PICK s \in 1..Len(src) + 1 : s = Sought(src, hdr.state)
      BY <2>1, BeforeNumber
    <2>3. ~hdr.incomment /\ ~Midway(hdr, image) /\ Known(src, hdr) /\ FileIndex \in s..Pnm!Blanks(src, s)
      BY <2>1, <2>2, BeforeNumber
    <2>4. PICK e : e = Pnm!Strtol(src, s).rest
      OBVIOUS
    <2>5. e > off /\ Pnm!At(src, Pnm!Blanks(src, s)) # Pnm!Hash
      BY <1>2, <2>1, <2>3, <2>4, TokenMet
    <2>6. PICK at \in Nat : at = FileIndex /\ at = FileIndex + (p - p) /\ at \in 1..Len(src) + 1 /\ at = (off - Len(buf)) + p
      BY <1>0, <2>1, HereIs
    <2>7. Pnm!Blanks(src, s) \in s..Len(src) + 1
      BY <1>0, DigitsIs
    <2>8. s <= at /\ at <= Pnm!Blanks(src, s)
      BY <1>0, <2>3, <2>6, <2>7
    <2>9. Seeking(src, s, hdr.incomment, at, "read")
      BY <2>3, <2>5, <2>6, <2>8 DEF Seeking
    <2>10. ASSUME Pnm!IsImage(src) PROVE off < Len(src) /\ Len(buf) - p + 1 < BufLen
      <3>1. Pnm!IsField(src, From(src, hdr.state)) /\ Pnm!Field(src, From(src, hdr.state)).rest - s < BufLen
        BY <1>0, <2>2, <2>3, <2>10, ImageField
      <3>2. Pnm!Field(src, From(src, hdr.state)).rest = e
        BY <2>2, <2>4 DEF Pnm!Field, Sought
      <3>3. e <= Len(src) /\ e - s < BufLen
        BY <3>1, <3>2 DEF Pnm!IsField
      <3>4. e \in s..Len(src) + 1
        BY <1>0, <2>4, StrtolType
      <3> QED
        BY <1>0, <2>5, <2>6, <2>8, <3>3, <3>4
    <2> QED
      BY <2>2, <2>3, <2>6, <2>9, <2>10
  <1>4. pc # "end" /\ hdr.state # 0 /\ hdr.state # 4
    OBVIOUS
  <1> QED
    BY <1>0, <1>3, <1>4, MoreKeeps

\* A number in the buffer with something behind it is the field of the file, or
\* the file has none there.
LEMMA FieldMet ==
  ASSUME PnmInv, Following, hdr.state \in 1..3, pc = "token", Pnm!Digits(buf, p) <= Len(buf),
         NEW r, r = Pnm!Strtol(buf, p).rest, NEW v, v = Pnm!Strtol(buf, p).val, Pnm!At(buf, p) = 0 \/ r <= Len(buf),
         NEW after, after = Pnm!At(buf, r), NEW h, h = From(src, hdr.state)
  PROVE  /\ Pnm!IsField(src, h) <=> v > 0 /\ (after = Pnm!Hash \/ Pnm!IsSpace(after))
         /\ v > 0 => /\ Pnm!Field(src, h).val = v /\ r \in p..Len(buf)
                     /\ Pnm!Behind(src, h).at = FileIndex + ((r + 1) - p)
                     /\ Pnm!Behind(src, h).comment = (after = Pnm!Hash)
  <1>0. /\ src \in Bytes /\ buf \in Bytes /\ Len(src) \in Nat /\ Len(buf) \in Nat /\ off \in Nat
        /\ p \in Nat \ {0} /\ p \in 1..Len(buf) + 1
    BY ReaderSizes
  <1>1. PICK s \in 1..Len(src) + 1 : s = Sought(src, hdr.state) /\ s = Pnm!Token(src, h)
    BY BeforeNumber DEF Sought
  <1>2. ~Midway(hdr, image) /\ FileIndex \in s..Pnm!Blanks(src, s)
    BY <1>1, BeforeNumber
  <1>3. r \in p..Len(buf) + 1 /\ v \in Int /\ (v # 0 => r > p)
    BY <1>0, StrtolType
  <1>4. r <= Len(buf)
    <2>1. Pnm!At(buf, p) = 0 => r = p /\ Pnm!Digits(buf, p) = p
      BY <1>0, DigitsBefore
    <2> QED
      BY <1>0, <1>3, <2>1
  <1>5. PICK e, w : e = Pnm!Strtol(src, s).rest /\ w = Pnm!Strtol(src, s).val
    OBVIOUS
  <1>6. w = v /\ (r # p => e = (off - Len(buf)) + r)
    BY <1>1, <1>2, <1>4, <1>5, TokenMet
  <1>7. Pnm!Field(src, h).val = w /\ Pnm!Field(src, h).rest = e
    BY <1>1, <1>5 DEF Pnm!Field
  <1>8. ASSUME v > 0
        PROVE  /\ r \in p..Len(buf) /\ e \in 1..Len(src) /\ e + 1 = FileIndex + ((r + 1) - p) /\ src[e] = after
    <2>1. r \in p..Len(buf) /\ r # p
      BY <1>0, <1>3, <1>4, <1>8
    <2>2. FileIndex + (r - p) \in 1..Len(src) /\ Pnm!At(src, FileIndex + (r - p)) = Pnm!At(buf, r)
          /\ FileIndex + (r - p) = (off - Len(buf)) + r
      BY <1>2, <2>1, HeldByte
    <2>3. e = FileIndex + (r - p)
      BY <1>6, <2>1, <2>2
    <2>4. e \in 1..Len(src) /\ Pnm!At(src, e) = after
      BY <2>2, <2>3
    <2>5. src[e] = after
      BY <1>0, <2>4, AtIs
    <2>6. FileIndex \in Nat
      BY HereIs
    <2>7. e + 1 = FileIndex + ((r + 1) - p)
      BY SMTT(60), <1>0, <1>3, <2>3, <2>6
    <2> QED
      BY <2>1, <2>4, <2>5, <2>7
  <1>9. Pnm!IsField(src, h) <=> w > 0 /\ e <= Len(src) /\ (src[e] = Pnm!Hash \/ Pnm!IsSpace(src[e]))
    BY <1>7 DEF Pnm!IsField
  <1>10. Pnm!IsField(src, h) <=> v > 0 /\ (after = Pnm!Hash \/ Pnm!IsSpace(after))
    BY <1>0, <1>6, <1>8, <1>9
  <1>11. Pnm!Behind(src, h) = [at |-> e + 1, comment |-> src[e] = Pnm!Hash]
    BY <1>7 DEF Pnm!Behind
  <1>12. v > 0 => /\ Pnm!Behind(src, h).at = FileIndex + ((r + 1) - p)
                  /\ Pnm!Behind(src, h).comment = (after = Pnm!Hash)
    BY <1>8, <1>11
  <1> QED
    BY <1>6, <1>7, <1>8, <1>10, <1>12

\* Header g is header h with its next field read.
FieldAdded(h, v, mark, g) ==
  /\ g.fmt = h.fmt /\ g.incomment = mark
  /\ g.state = IF h.state = 2 /\ ~Pnm!HasMaxval(h) THEN 4 ELSE h.state + 1
  /\ g.width = IF h.state = 1 THEN v ELSE h.width
  /\ g.height = IF h.state = 2 THEN v ELSE h.height
  /\ g.maxval = IF h.state = 3 THEN v ELSE h.maxval

\* The header with the number v read.
Read(h, v, mark) == [h EXCEPT ![<<"width", "height", "maxval">>[h.state]] = v,
                              !.incomment = h.incomment \/ mark,
                              !.state = IF h.state = 2 /\ ~Pnm!HasMaxval(h) THEN 4 ELSE h.state + 1]

LEMMA FieldRead ==
  ASSUME NEW h \in Header, h.state \in 1..3, ~h.incomment, NEW v \in Nat \ {0}, NEW mark \in BOOLEAN,
         NEW g, g = Read(h, v, mark)
  PROVE  g \in Header /\ FieldAdded(h, v, mark, g)
  <1>1. PICK st \in 0..4 : st = IF h.state = 2 /\ ~Pnm!HasMaxval(h) THEN 4 ELSE h.state + 1
    <2>1. PICK n \in 1..3 : n = h.state
      OBVIOUS
    <2>2. n + 1 \in 0..4 /\ 4 \in 0..4
      OBVIOUS
    <2> QED
      BY <2>1, <2>2
  <1>2. PICK field : field = <<"width", "height", "maxval">>[h.state]
    OBVIOUS
  <1>3. /\ h.state = 1 <=> field = "width"
        /\ h.state = 2 <=> field = "height"
        /\ h.state = 3 <=> field = "maxval"
        /\ field \in {"width", "height", "maxval"}
    <2>1. CASE h.state = 1
      BY <1>2, <2>1
    <2>2. CASE h.state = 2
      BY <1>2, <2>2
    <2>3. CASE h.state = 3
      BY <1>2, <2>3
    <2> QED
      BY <2>1, <2>2, <2>3
  <1>4. (h.incomment \/ mark) = mark
    OBVIOUS
  <1>5. g = [h EXCEPT ![field] = v, !.incomment = mark, !.state = st]
    BY <1>1, <1>2, <1>4 DEF Read
  <1>6. g \in Header /\ g.fmt = h.fmt /\ g.incomment = mark /\ g.state = st
    <2>1. field \in {"width", "height", "maxval"} /\ st \in 0..4
      BY <1>1, <1>3
    <2>2. g \in Header
      BY ZenonT(60), <1>5, <2>1 DEF Header
    <2>3. g.fmt = h.fmt /\ g.incomment = mark /\ g.state = st
      BY <1>5, <2>1 DEF Header
    <2> QED
      BY <2>2, <2>3
  <1>7. /\ g.width = IF field = "width" THEN v ELSE h.width
        /\ g.height = IF field = "height" THEN v ELSE h.height
        /\ g.maxval = IF field = "maxval" THEN v ELSE h.maxval
    <2>1. CASE field = "width"
      BY <1>5, <2>1 DEF Header
    <2>2. CASE field = "height"
      BY <1>5, <2>2 DEF Header
    <2>3. CASE field = "maxval"
      BY <1>5, <2>3 DEF Header
    <2> QED
      BY <1>3, <2>1, <2>2, <2>3
  <1>8. (field = "width" <=> h.state = 1) /\ (field = "height" <=> h.state = 2) /\ (field = "maxval" <=> h.state = 3)
    BY <1>3
  <1> QED
    BY <1>1, <1>6, <1>7, <1>8 DEF FieldAdded

\* What is known with one more field, and where the next one is looked for.
LEMMA MoreKnown ==
  ASSUME NEW b \in Bytes, NEW h \in Header, h.state \in 1..3, Known(b, h), NEW v, NEW mark, NEW g \in Header,
         FieldAdded(h, v, mark, g), Pnm!IsField(b, From(b, h.state)), v = Pnm!Field(b, From(b, h.state)).val
  PROVE  /\ Known(b, g) /\ g.state \in 2..4
         /\ g.state # 4 => From(b, g.state) = Pnm!Behind(b, From(b, h.state))
         /\ g.state = 4 => Pnm!AfterHeader(b) = Pnm!Behind(b, From(b, h.state))
  <1>1. (Pnm!HasMaxval(g) <=> Pnm!HasMaxval(h)) /\ (Pnm!HasMaxval(Pnm!Announced(b)) <=> Pnm!HasMaxval(h))
    <2>1. g.fmt = h.fmt /\ h.fmt = b[2] - 48
      BY DEF FieldAdded, Known
    <2>2. Pnm!Announced(b).fmt = b[2] - 48
      BY DEF Pnm!Announced
    <2> QED
      BY <2>1, <2>2 DEF Pnm!HasMaxval
  <1>2. Pnm!IsMagic(b) /\ g.fmt = b[2] - 48
    BY DEF FieldAdded, Known
  <1>3. CASE h.state = 1
    <2>1. g.state = 2 /\ g.width = v /\ g.maxval = h.maxval
      BY <1>3 DEF FieldAdded
    <2>2. h.maxval = 1
      BY <1>3 DEF Known
    <2>3. Known(b, g)
      BY <1>2, <1>3, <2>1, <2>2 DEF Known
    <2>4. From(b, 2) = Pnm!Behind(b, From(b, 1))
      BY DEF From, Pnm!BeforeHeight
    <2> QED
      BY <1>3, <2>1, <2>3, <2>4
  <1>4. CASE h.state = 2
    <2>1. g.width = h.width /\ g.height = v /\ g.maxval = h.maxval
      BY <1>4 DEF FieldAdded
    <2>2. h.maxval = 1 /\ Pnm!IsField(b, From(b, 1)) /\ h.width = Pnm!Field(b, From(b, 1)).val
      BY <1>4 DEF Known
    <2>3. From(b, 3) = Pnm!Behind(b, From(b, 2)) /\ Pnm!BeforeMaxval(b) = From(b, 3)
      BY DEF From, Pnm!BeforeMaxval
    <2>4. CASE Pnm!HasMaxval(h)
      <3>1. g.state = 3
        BY <1>4, <2>4 DEF FieldAdded
      <3>2. Known(b, g)
        BY <1>1, <1>2, <1>4, <2>1, <2>2, <2>4, <3>1 DEF Known
      <3> QED
        BY <1>4, <2>3, <3>1, <3>2
    <2>5. CASE ~Pnm!HasMaxval(h)
      <3>1. g.state = 4
        BY <1>4, <2>5 DEF FieldAdded
      <3>2. Known(b, g)
        BY <1>1, <1>2, <1>4, <2>1, <2>2, <2>5, <3>1 DEF Known
      <3>3. Pnm!AfterHeader(b) = From(b, 3)
        BY <1>1, <2>3, <2>5 DEF Pnm!AfterHeader
      <3> QED
        BY <1>4, <2>3, <3>1, <3>2, <3>3
    <2> QED
      BY <2>4, <2>5
  <1>5. CASE h.state = 3
    <2>1. g.state = 4 /\ g.width = h.width /\ g.height = h.height /\ g.maxval = v
      BY <1>5 DEF FieldAdded
    <2>2. /\ Pnm!IsField(b, From(b, 1)) /\ h.width = Pnm!Field(b, From(b, 1)).val
          /\ Pnm!IsField(b, From(b, 2)) /\ h.height = Pnm!Field(b, From(b, 2)).val
          /\ Pnm!HasMaxval(h)
      BY <1>5 DEF Known
    <2>3. Known(b, g)
      BY <1>1, <1>2, <1>5, <2>1, <2>2 DEF Known
    <2>4. Pnm!BeforeMaxval(b) = From(b, 3)
      BY DEF From
    <2>5. Pnm!AfterHeader(b) = Pnm!Behind(b, From(b, 3))
      BY <1>1, <2>2, <2>4 DEF Pnm!AfterHeader
    <2> QED
      BY <1>5, <2>1, <2>3, <2>5
  <1> QED
    BY <1>3, <1>4, <1>5

\* What comes behind a field.
LEMMA NextSought ==
  ASSUME NEW b \in Bytes, NEW g \in Header, Known(b, g), g.state \in 2..4, NEW h, Spot(b, h), h.comment = g.incomment,
         g.state # 4 => h = From(b, g.state), g.state = 4 => h = Pnm!AfterHeader(b)
  PROVE  /\ g.state # 4 => Seeking(b, Sought(b, g.state), g.incomment, h.at, "space")
         /\ g.state = 4 => Gathering(b, g, <<>>, h.at, "space")
  <1>0. h.at \in 1..Len(b) + 1 /\ g.incomment \in BOOLEAN
    BY DEF Spot, Header
  <1>1. ASSUME g.state # 4 PROVE Seeking(b, Sought(b, g.state), g.incomment, h.at, "space")
    <2>1. PICK s : s = Sought(b, g.state) /\ s = Pnm!Token(b, h)
      BY <1>1 DEF Sought
    <2>2. /\ g.incomment => s = Pnm!CommentEnd(b, h.at)
          /\ ~g.incomment => s = FreeToken(b, h.at)
      BY <2>1, TokenIs
    <2>3. Seeking(b, s, g.incomment, h.at, "space")
      BY <1>0, <2>2 DEF Seeking
    <2> QED
      BY <2>1, <2>3
  <1>2. ASSUME g.state = 4 PROVE Gathering(b, g, <<>>, h.at, "space")
    <2>1. PICK at \in 1..Len(b) + 1 : at = h.at /\ at = Pnm!AfterHeader(b).at
      BY <1>0, <1>2
    <2>2. Pnm!AfterHeader(b).comment <=> g.incomment
      BY <1>2
    <2>3. CASE g.incomment
      BY <2>1, <2>2, <2>3 DEF Gathering
    <2>4. CASE ~g.incomment
      <3>1. Pnm!DataSeparate(b) /\ Pnm!Start(b) = at
        BY <2>1, <2>2, <2>4 DEF Pnm!DataSeparate, Pnm!Start
      <3>2. Got(b, g, <<>>, at, 0)
        BY <1>2, <3>1, GotStarts
      <3> QED
        BY <2>1, <2>4, <3>1, <3>2 DEF Gathering
    <2> QED
      BY <2>3, <2>4
  <1> QED
    BY <1>1, <1>2

LEMMA ReadHeader ==
  ASSUME hdr \in Header, NEW v, NEW mark
  PROVE  [hdr EXCEPT ![<<"width", "height", "maxval">>[hdr.state]] = v,
                     !.incomment = @ \/ mark,
                     !.state = IF @ = 2 /\ ~Pnm!HasMaxval(hdr) THEN 4 ELSE @ + 1] = Read(hdr, v, mark)
  BY DEF Read

\* A number that is read is the field of the file, and the next one is looked for
\* behind it.
LEMMA NumberRead ==
  ASSUME PnmInv, Following, pc = "token", hdr.state \in 1..3,
         NEW num, num = Pnm!Strtol(buf, p), num.val > 0, Pnm!At(buf, num.rest) = Pnm!Hash \/ Pnm!IsSpace(Pnm!At(buf, num.rest)),
         NEW g, g = Read(hdr, num.val, Pnm!At(buf, num.rest) = Pnm!Hash)
  PROVE  /\ g \in Header /\ g.state \in 2..4 /\ Known(src, g) /\ num.rest <= Len(buf) /\ image = <<>>
         /\ \E k : /\ Spot(src, k) /\ k.at = FileIndex + ((num.rest + 1) - p) /\ k.comment = g.incomment
                   /\ g.state # 4 => From(src, g.state) = k
                   /\ g.state = 4 => Pnm!AfterHeader(src) = k
  <1>0. /\ src \in Bytes /\ src \in Files /\ buf \in Bytes /\ Len(src) \in Nat /\ Len(buf) \in Nat
        /\ p \in Nat \ {0} /\ p \in 1..Len(buf) + 1 /\ hdr \in Header
    BY ReaderSizes
  <1>a. PICK r \in p..Len(buf) + 1, v \in Int : r = Pnm!Strtol(buf, p).rest /\ v = Pnm!Strtol(buf, p).val
    BY <1>0, StrtolType
  <1>b. PICK after : after = Pnm!At(buf, r)
    OBVIOUS
  <1>c. PICK mark \in BOOLEAN : mark = (after = Pnm!Hash)
    OBVIOUS
  <1>d. r = num.rest /\ v = num.val /\ v > 0 /\ (after = Pnm!Hash \/ Pnm!IsSpace(after)) /\ g = Read(hdr, v, mark)
    BY ZenonT(60), <1>a, <1>b, <1>c
  <1>1. v \in Nat \ {0}
    BY <1>d
  <1>2. r <= Len(buf)
    <2>1. Pnm!At(buf, r) # 0 /\ r \in Nat
      BY <1>0, <1>a, <1>b, <1>d, ZeroIs
    <2> QED
      BY <1>0, <2>1, AtIs
  <1>3. Pnm!Digits(buf, p) <= Len(buf)
    <2>1. r > p /\ r # p
      <3>1. v # 0
        BY <1>d
      <3>2. r > p
        BY <1>0, <1>a, <3>1, StrtolType
      <3> QED
        BY <1>0, <3>2
    <2>2. Pnm!Digits(buf, p) < r
      BY <1>0, <1>a, <2>1, DigitsBefore
    <2>3. Pnm!Digits(buf, p) \in p..Len(buf) + 1
      BY <1>0, DigitsIs
    <2> QED
      BY <1>0, <1>2, <2>2, <2>3
  <1>4. ~hdr.incomment /\ ~Midway(hdr, image) /\ image = <<>> /\ Known(src, hdr) /\ Spot(src, From(src, hdr.state))
    BY BeforeNumber
  <1>5. g \in Header /\ FieldAdded(hdr, v, mark, g)
    BY <1>0, <1>1, <1>d, <1>4, FieldRead
  <1>6. PICK h : h = From(src, hdr.state)
    OBVIOUS
  <1>7. PICK k : k = Pnm!Behind(src, h)
    OBVIOUS
  <1>8. /\ Pnm!IsField(src, h) /\ Pnm!Field(src, h).val = v
        /\ k.at = FileIndex + ((r + 1) - p) /\ k.comment = mark
    BY <1>a, <1>b, <1>c, <1>d, <1>2, <1>3, <1>6, <1>7, FieldMet
  <1>9. Spot(src, k)
    BY <1>0, <1>4, <1>6, <1>7, <1>8, BehindIs
  <1>10. /\ Known(src, g) /\ g.state \in 2..4
         /\ g.state # 4 => From(src, g.state) = k
         /\ g.state = 4 => Pnm!AfterHeader(src) = k
    BY ZenonT(60), <1>0, <1>4, <1>5, <1>6, <1>7, <1>8, MoreKnown
  <1>11. k.comment = g.incomment
    BY <1>5, <1>8 DEF FieldAdded
  <1> QED
    BY <1>d, <1>2, <1>4, <1>5, <1>8, <1>9, <1>10, <1>11

LEMMA NumberFollows ==
  ASSUME PnmInv, ImageInv, Pnm!Number
  PROVE  ImageInv'
  <1>0. /\ src \in Bytes /\ src \in Files /\ buf \in Bytes /\ Len(src) \in Nat /\ Len(buf) \in Nat
        /\ p \in Nat \ {0} /\ p \in 1..Len(buf) + 1 /\ hdr \in Header
    BY ReaderSizes
  <1>p. pc = "token" /\ hdr.state \in 1..3 /\ pc # "end"
    BY DEF Pnm!Number
  <1>1. PICK r \in p..Len(buf) + 1, v \in Int : r = Pnm!Strtol(buf, p).rest /\ v = Pnm!Strtol(buf, p).val
    BY <1>0, StrtolType
  <1>2. PICK after : after = Pnm!At(buf, r)
    OBVIOUS
  <1>3. CASE Pnm!At(buf, p) # 0 /\ r > Len(buf)
    <2>1. Pnm!MoreDataFrom(p)
      BY <1>1, <1>3 DEF Pnm!Number, Pnm!MoreData
    <2> QED
      BY <1>1, <1>p, <1>3, <2>1, NumberMore
  <1>4. CASE ~(Pnm!At(buf, p) # 0 /\ r > Len(buf)) /\ ~(v > 0 /\ (after = Pnm!Hash \/ Pnm!IsSpace(after)))
    <2>1. Pnm!End("badformat") /\ fragile' = (fragile \/ Pnm!Digits(buf, p) > Len(buf))
      BY <1>1, <1>2, <1>4 DEF Pnm!Number
    <2>2. ASSUME ~fragile' PROVE ~Pnm!IsImage(src)
      <3>1. Following
        BY <1>p, <2>1, <2>2 DEF ImageInv
      <3>2. Pnm!Digits(buf, p) <= Len(buf)
        <4>1. Pnm!Digits(buf, p) \in p..Len(buf) + 1 /\ ~(Pnm!Digits(buf, p) > Len(buf))
          BY <1>0, <2>1, <2>2, DigitsIs
        <4> QED
          BY <1>0, <4>1
      <3>3. Pnm!At(buf, p) = 0 \/ r <= Len(buf)
        BY <1>0, <1>1, <1>4
      <3>4. PICK h : h = From(src, hdr.state)
        OBVIOUS
      <3>5. ~Pnm!IsField(src, h)
        BY <1>p, <1>1, <1>2, <1>4, <3>1, <3>2, <3>3, <3>4, FieldMet
      <3>6. Known(src, hdr)
        BY <3>1 DEF Following
      <3> QED
        BY <1>0, <1>p, <3>4, <3>5, <3>6, ImageField
    <2> QED
      BY <1>p, <2>1, <2>2, EndRefuses
  <1>5. CASE ~(Pnm!At(buf, p) # 0 /\ r > Len(buf)) /\ v > 0 /\ (after = Pnm!Hash \/ Pnm!IsSpace(after))
    <2>1. /\ hdr' = Read(hdr, v, after = Pnm!Hash)
          /\ p' = r + 1 /\ pc' = "space"
          /\ UNCHANGED <<src, off, buf, image, outcome, fragile>>
      <3>1. hdr' = [hdr EXCEPT ![<<"width", "height", "maxval">>[hdr.state]] = v,
                               !.incomment = @ \/ after = Pnm!Hash,
                               !.state = IF @ = 2 /\ ~Pnm!HasMaxval(hdr) THEN 4 ELSE @ + 1]
        BY <1>1, <1>2, <1>5 DEF Pnm!Number
      <3>2. p' = r + 1 /\ pc' = "space" /\ UNCHANGED <<src, off, buf, image, outcome, fragile>>
        BY <1>1, <1>2, <1>5 DEF Pnm!Number
      <3> QED
        BY ZenonT(60), <1>0, <3>1, <3>2, ReadHeader
    <2>2. PICK mark \in BOOLEAN : mark = (after = Pnm!Hash)
      OBVIOUS
    <2>3. PICK g : g = Read(hdr, v, mark)
      OBVIOUS
    <2>4. hdr' = g
      BY <2>1, <2>2, <2>3
    <2>5. v \in Nat \ {0}
      BY <1>5
    <2>d. r <= Len(buf)
      <3>1. Pnm!At(buf, r) # 0 /\ r \in Nat
        BY <1>0, <1>1, <1>2, <1>5, ZeroIs
      <3> QED
        BY <1>0, <3>1, AtIs
    <2>7. ASSUME ~fragile
          PROVE  /\ g \in Header /\ ~Midway(hdr, image) /\ ~Midway(g, image) /\ g.state # 0 /\ Known(src, g)
                 /\ g.state \in 1..3 => Seeking(src, Sought(src, g.state), g.incomment, FileIndex + ((r + 1) - p), "space")
                 /\ g.state = 4 => Gathering(src, g, image, FileIndex + ((r + 1) - p), "space")
      <3>1. Following
        BY <1>p, <2>7 DEF ImageInv
      <3>2. /\ g \in Header /\ g.state \in 2..4 /\ Known(src, g) /\ image = <<>>
            /\ \E k : /\ Spot(src, k) /\ k.at = FileIndex + ((r + 1) - p) /\ k.comment = g.incomment
                      /\ g.state # 4 => From(src, g.state) = k
                      /\ g.state = 4 => Pnm!AfterHeader(src) = k
        <4>1. PICK num : num = Pnm!Strtol(buf, p) /\ r = num.rest /\ v = num.val
          BY <1>1
        <4>2. num.val > 0 /\ (Pnm!At(buf, num.rest) = Pnm!Hash \/ Pnm!IsSpace(Pnm!At(buf, num.rest)))
          BY <1>2, <1>5, <4>1
        <4>3. g = Read(hdr, num.val, Pnm!At(buf, num.rest) = Pnm!Hash)
          BY ZenonT(60), <1>2, <2>2, <2>3, <4>1
        <4>4. /\ g \in Header /\ g.state \in 2..4 /\ Known(src, g) /\ image = <<>>
              /\ \E k : /\ Spot(src, k) /\ k.at = FileIndex + ((num.rest + 1) - p) /\ k.comment = g.incomment
                        /\ g.state # 4 => From(src, g.state) = k
                        /\ g.state = 4 => Pnm!AfterHeader(src) = k
          BY SMTT(60), <1>p, <3>1, <4>1, <4>2, <4>3, NumberRead
        <4> QED
          BY <4>1, <4>4
      <3>3. PICK k : /\ Spot(src, k) /\ k.at = FileIndex + ((r + 1) - p) /\ k.comment = g.incomment
                     /\ g.state # 4 => From(src, g.state) = k
                     /\ g.state = 4 => Pnm!AfterHeader(src) = k
        BY <3>2
      <3>4. /\ g.state # 4 => Seeking(src, Sought(src, g.state), g.incomment, k.at, "space")
            /\ g.state = 4 => Gathering(src, g, <<>>, k.at, "space")
        BY <1>0, <3>2, <3>3, NextSought
      <3>5. ~Midway(hdr, image) /\ ~Midway(g, image)
        <4>1. Len(image) = 0 /\ 0 % 8 = 0
          BY <3>2
        <4> QED
          BY <4>1 DEF Midway
      <3>6. g.state # 0 /\ (g.state \in 1..3 => g.state # 4)
        BY <3>2
      <3> QED
        BY <3>2, <3>3, <3>4, <3>5, <3>6
    <2>8. r + 1 \in p..Len(buf) + 1
      BY <1>0, <1>1, <2>d
    <2>9. UNCHANGED <<src, off, buf, image, outcome>> /\ p' = r + 1 /\ pc' = "space" /\ fragile' = fragile
      BY <2>1
    <2>10. CASE ~fragile
      <3>1. g \in Header
        BY <2>7, <2>10
      <3> QED
        BY <1>p, <2>4, <2>7, <2>8, <2>9, <2>10, <3>1, FieldKeeps
    <2>11. CASE fragile
      BY <1>p, <2>9, <2>11 DEF ImageInv
    <2> QED
      BY <2>10, <2>11
  <1> QED
    BY <1>3, <1>4, <1>5

-----------------------------------------------------------------------------
(***************************************************************************)
(* The samples.                                                            *)
(***************************************************************************)
LEMMA ImageByte ==
  ASSUME NEW b \in Bytes, NEW h \in Header, Known(b, h), h.state = 4, NEW m \in Nat, m < Pnm!Count(h)
  PROVE  /\ Pnm!SampleSize(h) = 1 => Pnm!ImageOf(b)[m + 1] = Pnm!Sample(b, m + 1)
         /\ Pnm!SampleSize(h) = 2 => /\ Pnm!ImageOf(b)[2 * m + 1] = Pnm!Sample(b, m + 1) \div 256
                                     /\ Pnm!ImageOf(b)[2 * m + 2] = Pnm!Sample(b, m + 1) % 256
  <1>1. PICK c \in Nat, u \in {1, 2} : c = Pnm!Count(h) /\ u = Pnm!SampleSize(h) /\ Pnm!Limit(h) = c * u
    BY CountSizes
  <1>2. Pnm!Limit(Pnm!Announced(b)) = c * u /\ Pnm!SampleSize(Pnm!Announced(b)) = u
    BY <1>1, AnnouncedSizes
  <1>3. m < c
    BY <1>1
  <1>4. CASE u = 1
    <2>1. m + 1 \in 1..c * u
      BY <1>3, <1>4
    <2>2. Pnm!ImageOf(b)[m + 1] = Pnm!Sample(b, m + 1)
      BY <1>2, <1>4, <2>1 DEF Pnm!ImageOf
    <2> QED
      BY <1>1, <1>4, <2>2
  <1>5. CASE u = 2
    <2>1. PICK k, l : k = 2 * m + 1 /\ l = 2 * m + 2
      OBVIOUS
    <2>2. k \in 1..c * u /\ l \in 1..c * u
      BY <1>3, <1>5, <2>1
    <2>3. k % 2 = 1 /\ (k + 1) \div 2 = m + 1 /\ l % 2 # 1 /\ l \div 2 = m + 1
      BY <2>1
    <2>4. Pnm!ImageOf(b)[k] = Pnm!Sample(b, m + 1) \div 256
      BY <1>2, <1>5, <2>2, <2>3 DEF Pnm!ImageOf
    <2>5. Pnm!ImageOf(b)[l] = Pnm!Sample(b, m + 1) % 256
      BY <1>2, <1>5, <2>2, <2>3 DEF Pnm!ImageOf
    <2> QED
      BY <1>1, <1>5, <2>1, <2>4, <2>5
  <1> QED
    BY <1>4, <1>5

\* Where the reader is before sample m + 1.
Placed(b, h, at, m) ==
  /\ Pnm!Place(b)[m] \in 1..Len(b) + 1
  /\ IF Pnm!IsAscii(h) THEN at \in Pnm!Place(b)[m]..Pnm!Blanks(b, Pnm!Place(b)[m]) ELSE at = Pnm!Place(b)[m]

LEMMA SampleAdds ==
  ASSUME NEW b \in Bytes, NEW h \in Header, Known(b, h), h.state = 4, NEW img \in Seq(Int), NEW at, NEW m \in Nat,
         Got(b, h, img, at, m), m < Pnm!Count(h), NEW val \in Nat, val = Pnm!Sample(b, m + 1), Pnm!IsSample(b, m + 1),
         NEW new, new = img \o IF Pnm!SampleSize(h) = 1 THEN <<val>> ELSE <<val \div 256, val % 256>>,
         NEW to, Placed(b, h, to, m + 1)
  PROVE  Got(b, h, new, to, m + 1)
  <1>1. PICK c \in Nat, u \in {1, 2} : c = Pnm!Count(h) /\ u = Pnm!SampleSize(h)
    BY CountSizes
  <1>2. /\ Len(img) = m * u /\ \A k \in 1..m : Pnm!IsSample(b, k)
        /\ \A k \in 1..Len(img) : img[k] = Pnm!ImageOf(b)[k]
    BY <1>1 DEF Got
  <1>3. PICK n \in Nat : n = Len(img)
    BY LenProperties
  <1>4. m + 1 \in 0..c /\ \A k \in 1..m + 1 : Pnm!IsSample(b, k)
    <2>1. \A k \in 1..m + 1 : k \in 1..m \/ k = m + 1
      OBVIOUS
    <2> QED
      BY SMTT(60), <1>1, <1>2, <2>1
  <1>5. Len(new) = (m + 1) * u /\ \A k \in 1..Len(new) : new[k] = Pnm!ImageOf(b)[k]
    <2>1. CASE u = 1
      <3>1. new = img \o <<val>> /\ <<val>> \in Seq(Int) /\ Len(<<val>>) = 1
        BY <1>1, <2>1
      <3>2. Len(new) = n + 1 /\ \A k \in 1..n : new[k] = img[k]
        BY <1>3, <3>1, ConcatProperties
      <3>3. new[n + 1] = val
        BY <1>3, <3>1, ConcatProperties
      <3>4. n = m
        BY <1>2, <1>3, <2>1
      <3>5. Pnm!ImageOf(b)[m + 1] = val
        <4>1. Pnm!SampleSize(h) = 1
          BY <1>1, <2>1
        <4>2. Pnm!ImageOf(b)[m + 1] = Pnm!Sample(b, m + 1)
          BY <4>1, ImageByte
        <4> QED
          BY <4>2
      <3>6. \A k \in 1..n + 1 : k \in 1..n \/ k = n + 1
        OBVIOUS
      <3>7. \A k \in 1..n + 1 : new[k] = Pnm!ImageOf(b)[k]
        <4>1. \A k \in 1..n : img[k] = Pnm!ImageOf(b)[k]
          BY ZenonT(60), <1>2, <1>3
        <4>2. \A k \in 1..n : new[k] = img[k]
          BY <3>2
        <4>3. new[n + 1] = Pnm!ImageOf(b)[n + 1]
          BY <3>3, <3>4, <3>5
        <4> QED
          BY ZenonT(60), <3>6, <4>1, <4>2, <4>3
      <3> QED
        BY <2>1, <3>2, <3>4, <3>7
    <2>2. CASE u = 2
      <3>0. PICK d \in Int, e \in Int : d = val \div 256 /\ e = val % 256
        OBVIOUS
      <3>1. PICK q \in Seq(Int) : new = img \o q /\ Len(q) = 2 /\ q[1] = d /\ q[2] = e
        <4>1. <<d, e>> \in Seq(Int) /\ Len(<<d, e>>) = 2 /\ <<d, e>>[1] = d /\ <<d, e>>[2] = e
          OBVIOUS
        <4>2. Pnm!SampleSize(h) # 1
          BY <1>1, <2>2
        <4>3. new = img \o <<val \div 256, val % 256>>
          BY <4>2
        <4>4. new = img \o <<d, e>>
          BY <3>0, <4>3
        <4> QED
          BY <4>1, <4>4
      <3>2. Len(new) = n + 2 /\ \A k \in 1..n : new[k] = img[k]
        <4>1. Len(img \o q) = Len(img) + Len(q) /\ \A k \in 1..Len(img) : (img \o q)[k] = img[k]
          BY ConcatProperties
        <4> QED
          BY <1>3, <3>1, <4>1
      <3>3. new[n + 1] = d
        <4>1. n + 1 \in Len(img) + 1..Len(img) + Len(q) /\ (n + 1) - Len(img) = 1
          BY <1>3, <3>1
        <4>2. (img \o q)[n + 1] = q[(n + 1) - Len(img)]
          BY <4>1, ConcatProperties
        <4> QED
          BY <3>1, <4>1, <4>2
      <3>m. new[n + 2] = e
        <4>1. n + 2 \in Len(img) + 1..Len(img) + Len(q) /\ (n + 2) - Len(img) = 2
          BY <1>3, <3>1
        <4>2. (img \o q)[n + 2] = q[(n + 2) - Len(img)]
          BY <4>1, ConcatProperties
        <4> QED
          BY <3>1, <4>1, <4>2
      <3>4. n = 2 * m /\ (m + 1) * u = n + 2
        BY <1>2, <1>3, <2>2
      <3>5. Pnm!ImageOf(b)[2 * m + 1] = d /\ Pnm!ImageOf(b)[2 * m + 2] = e
        <4>1. Pnm!SampleSize(h) = 2
          BY <1>1, <2>2
        <4>2. /\ Pnm!ImageOf(b)[2 * m + 1] = Pnm!Sample(b, m + 1) \div 256
              /\ Pnm!ImageOf(b)[2 * m + 2] = Pnm!Sample(b, m + 1) % 256
          BY <4>1, ImageByte
        <4>3. Pnm!Sample(b, m + 1) = val
          OBVIOUS
        <4> QED
          BY <3>0, <4>2, <4>3
      <3>6. \A k \in 1..n + 2 : k \in 1..n \/ k = n + 1 \/ k = n + 2
        OBVIOUS
      <3>7. \A k \in 1..n + 2 : new[k] = Pnm!ImageOf(b)[k]
        <4>1. \A k \in 1..n : new[k] = Pnm!ImageOf(b)[k]
          <5>1. \A k \in 1..n : img[k] = Pnm!ImageOf(b)[k]
            BY ZenonT(60), <1>2, <1>3
          <5>2. \A k \in 1..n : new[k] = img[k]
            BY <3>2
          <5> QED
            BY ZenonT(60), <5>1, <5>2
        <4>2. n + 1 = 2 * m + 1 /\ n + 2 = 2 * m + 2
          BY <3>4
        <4>3. new[n + 1] = Pnm!ImageOf(b)[n + 1]
          BY <3>3, <3>5, <4>2
        <4>4. new[n + 2] = Pnm!ImageOf(b)[n + 2]
          BY <3>m, <3>5, <4>2
        <4> QED
          BY ZenonT(60), <3>6, <4>1, <4>3, <4>4
      <3> QED
        BY ZenonT(60), <3>2, <3>4, <3>7
    <2> QED
      BY <2>1, <2>2
  <1> QED
    BY ZenonT(60), <1>1, <1>4, <1>5 DEF Got, Placed

\* The reader before a sample.
LEMMA BeforeSample ==
  ASSUME PnmInv, Following, Pnm!AtData
  PROVE  /\ Known(src, hdr) /\ ~hdr.incomment /\ Pnm!DataSeparate(src) /\ hdr.state = 4
         /\ \E m \in Nat : /\ m < Pnm!Count(hdr) /\ Got(src, hdr, image, FileIndex, m) /\ Placed(src, hdr, FileIndex, m)
                           /\ m + 1 \in 1..Pnm!Count(hdr)
                           /\ Pnm!IsImage(src) => Pnm!IsSample(src, m + 1)
  <1>0. src \in Bytes /\ hdr \in Header
    BY ReaderSizes
  <1>1. pc = "token" /\ hdr.state = 4 /\ Len(image) < Pnm!Limit(hdr)
    BY DEF Pnm!AtData
  <1>2. Known(src, hdr) /\ Gathering(src, hdr, image, FileIndex, pc)
    BY <1>1 DEF Following
  <1>3. ~hdr.incomment
    BY <1>1, <1>2 DEF Gathering
  <1>4. Pnm!DataSeparate(src)
    BY <1>2, <1>3 DEF Gathering
  <1>5. PICK m \in Nat : Got(src, hdr, image, FileIndex, m)
    BY <1>2, <1>3 DEF Gathering
  <1>6. PICK c \in Nat, u \in {1, 2} : c = Pnm!Count(hdr) /\ u = Pnm!SampleSize(hdr) /\ Pnm!Limit(hdr) = c * u
    BY <1>0, CountSizes
  <1>7. Len(image) = m * u
    BY <1>5, <1>6 DEF Got
  <1>8. m < c
    <2>1. m * u < c * u
      BY <1>1, <1>6, <1>7
    <2>2. CASE u = 1
      BY <2>1, <2>2
    <2>3. CASE u = 2
      BY <2>1, <2>3
    <2> QED
      BY <2>2, <2>3
  <1>9. m + 1 \in 1..Pnm!Count(hdr) /\ m < Pnm!Count(hdr)
    BY <1>6, <1>8
  <1>10. Pnm!IsImage(src) => Pnm!IsSample(src, m + 1)
    <2>1. Pnm!Count(Pnm!Announced(src)) = Pnm!Count(hdr)
      BY <1>0, <1>1, <1>2, AnnouncedSizes
    <2> QED
      BY <1>9, <2>1 DEF Pnm!IsImage
  <1>11. Placed(src, hdr, FileIndex, m)
    BY <1>5 DEF Got, Placed
  <1> QED
    BY <1>1, <1>2, <1>3, <1>4, <1>5, <1>9, <1>10, <1>11

\* A sample that is stored.
LEMMA StoreFollows ==
  ASSUME PnmInv, ImageInv, Pnm!AtData, NEW val \in 0..hdr.maxval, Pnm!Store(val), Len(buf') = Len(buf),
         NEW k \in p..Len(buf) + 1, p' = k,
         ~fragile => /\ Held(src, hdr, image', off - Len(buf), buf', k)
                     /\ \A m \in Nat : m < Pnm!Count(hdr) /\ Got(src, hdr, image, FileIndex, m) /\ Placed(src, hdr, FileIndex, m) =>
                          /\ val = Pnm!Sample(src, m + 1) /\ Pnm!IsSample(src, m + 1)
                          /\ Placed(src, hdr, FileIndex + (k - p), m + 1)
  PROVE  ImageInv'
  <1>0. src \in Bytes /\ hdr \in Header /\ Len(buf) \in Nat /\ p \in Nat \ {0} /\ off \in Nat
    BY ReaderSizes
  <1>1. /\ image' = image \o IF Pnm!SampleSize(hdr) = 1 THEN <<val>> ELSE <<val \div 256, val % 256>>
        /\ UNCHANGED <<src, off, hdr, pc, outcome, fragile>>
    BY DEF Pnm!Store
  <1>2. pc = "token" /\ hdr.state = 4
    BY DEF Pnm!AtData
  <1>3. val \in Nat
    <2>1. hdr.maxval \in Nat
      BY <1>0 DEF Header
    <2> QED
      BY <2>1
  <1>4. image \in Seq(Int)
    BY DEF PnmInv
  <1>5. ASSUME ~fragile PROVE Following'
    <2>1. Following
      BY <1>2, <1>5 DEF ImageInv
    <2>2. PICK m \in Nat : m < Pnm!Count(hdr) /\ Got(src, hdr, image, FileIndex, m) /\ Placed(src, hdr, FileIndex, m)
      BY <2>1, BeforeSample
    <2>3. Known(src, hdr) /\ ~hdr.incomment /\ Pnm!DataSeparate(src)
      BY <2>1, BeforeSample
    <2>4. PICK to : to = FileIndex + (k - p)
      OBVIOUS
    <2>5. val = Pnm!Sample(src, m + 1) /\ Pnm!IsSample(src, m + 1) /\ Placed(src, hdr, to, m + 1)
      BY <1>5, <2>2, <2>4
    <2>6. PICK new : new = image'
      OBVIOUS
    <2>7. Got(src, hdr, new, to, m + 1)
      BY ZenonT(60), <1>0, <1>1, <1>2, <1>3, <1>4, <2>2, <2>3, <2>5, <2>6, SampleAdds
    <2>8. Gathering(src, hdr, new, to, "token")
      <3>1. m + 1 \in Nat
        OBVIOUS
      <3> QED
        BY <2>3, <2>7, <3>1 DEF Gathering
    <2>9. FileIndex' = to
      <3>1. PICK base \in Nat : base = off - Len(buf) /\ FileIndex = base + p
        BY <2>1, HereIs
      <3>2. FileIndex' = base + k
        BY <1>1, <3>1 DEF FileIndex
      <3> QED
        BY <1>0, <2>4, <3>1, <3>2
    <2>10. hdr'.state = 4 => Gathering(src', hdr', image', FileIndex', pc')
      BY <1>1, <1>2, <2>6, <2>8, <2>9
    <2>11. (Held(src, hdr, image, off - Len(buf), buf, p))'
      <3>1. Held(src, hdr, image', off - Len(buf), buf', k)
        BY <1>5
      <3> QED
        BY <1>1, <3>1
    <2>12. (Known(src, hdr))'
      BY <1>1, <2>3 DEF Known
    <2>13. hdr'.state # 0 /\ hdr'.state \notin 1..3 /\ pc' # "read"
      BY <1>1, <1>2
    <2> QED
      BY <2>10, <2>11, <2>12, <2>13 DEF Following
  <1>6. pc' # "end" /\ outcome' = outcome /\ fragile' = fragile
    BY <1>1, <1>2
  <1> QED
    BY <1>2, <1>5, <1>6 DEF ImageInv

\* A sample that is refused.
LEMMA SampleRefused ==
  ASSUME PnmInv, ImageInv, Pnm!AtData, Pnm!End("badformat"), ~fragile' => ~fragile,
         ~fragile' => \A m \in Nat : m < Pnm!Count(hdr) /\ Got(src, hdr, image, FileIndex, m) /\ Placed(src, hdr, FileIndex, m) =>
                         ~Pnm!IsSample(src, m + 1)
  PROVE  ImageInv'
  <1>1. pc # "end"
    BY DEF Pnm!AtData
  <1>2. ASSUME ~fragile' PROVE ~Pnm!IsImage(src)
    <2>1. Following
      BY <1>1, <1>2 DEF ImageInv
    <2>2. PICK m \in Nat : /\ m < Pnm!Count(hdr) /\ Got(src, hdr, image, FileIndex, m) /\ Placed(src, hdr, FileIndex, m)
                           /\ Pnm!IsImage(src) => Pnm!IsSample(src, m + 1)
      BY <2>1, BeforeSample
    <2> QED
      BY <1>2, <2>2
  <1> QED
    BY <1>1, <1>2, EndRefuses

LEMMA FinishFollows ==
  ASSUME PnmInv, ImageInv, Pnm!Finish
  PROVE  ImageInv'
  <1>0. src \in Bytes /\ hdr \in Header /\ hdr.state \in 0..4
    BY ReaderSizes
  <1>1. pc = "token" /\ hdr.state = 4 /\ Len(image) = Pnm!Limit(hdr) /\ Pnm!End("ok") /\ fragile' = fragile
    BY DEF Pnm!Finish
  <1>2. ASSUME ~fragile PROVE Pnm!IsImage(src) /\ image = Pnm!ImageOf(src)
    <2>1. Following
      BY <1>1, <1>2 DEF ImageInv
    <2>2. Known(src, hdr) /\ Gathering(src, hdr, image, FileIndex, "token")
      BY <1>1, <2>1 DEF Following
    <2>3. Pnm!DataSeparate(src) /\ \E m \in Nat : Got(src, hdr, image, FileIndex, m)
      BY <2>2 DEF Gathering
    <2>4. PICK m \in Nat : Got(src, hdr, image, FileIndex, m)
      BY <2>3
    <2>5. PICK c \in Nat, u \in {1, 2} : c = Pnm!Count(hdr) /\ u = Pnm!SampleSize(hdr) /\ Pnm!Limit(hdr) = c * u
      BY <1>0, CountSizes
    <2>6. m = c
      <3>1. m * u = c * u
        BY <1>1, <2>4, <2>5 DEF Got
      <3> QED
        BY <3>1
    <2>7. Pnm!Count(Pnm!Announced(src)) = c /\ Pnm!Limit(Pnm!Announced(src)) = Pnm!Limit(hdr)
      BY <1>0, <1>1, <2>2, <2>5, AnnouncedSizes
    <2>8. Pnm!IsMagic(src) /\ Pnm!HasFields(src)
      BY <1>0, <1>1, <2>2, AnnouncedIs
    <2>9. \A k \in 1..c : Pnm!IsSample(src, k)
      BY <2>4, <2>6 DEF Got
    <2>10. Pnm!IsImage(src)
      BY <2>3, <2>7, <2>8, <2>9 DEF Pnm!IsImage
    <2>11. image = Pnm!ImageOf(src)
      <3>1. PICK n \in Nat : n = Len(image) /\ image \in [1..n -> Int]
        <4>1. image \in Seq(Int)
          BY DEF PnmInv
        <4> QED
          BY <4>1, LenProperties
      <3>2. \A k \in 1..n : image[k] = Pnm!ImageOf(src)[k]
        BY <2>4, <3>1 DEF Got
      <3>3. PICK f : f = Pnm!ImageOf(src)
        OBVIOUS
      <3>4. DOMAIN f = 1..n /\ f = [k \in 1..n |-> f[k]]
        BY <1>1, <2>7, <3>1, <3>3 DEF Pnm!ImageOf
      <3>5. image = [k \in 1..n |-> image[k]]
        BY <3>1
      <3> QED
        BY <3>2, <3>3, <3>4, <3>5
    <2> QED
      BY <2>10, <2>11
  <1>3. outcome' = "ok" /\ Pnm!End(outcome') /\ pc # "end" /\ outcome' # "reading"
    BY <1>1 DEF Pnm!End
  <1> QED
    BY <1>1, <1>2, <1>3, EndSettles

-----------------------------------------------------------------------------
(***************************************************************************)
(* Samples of bytes.                                                       *)
(***************************************************************************)
LEMMA StartIs ==
  ASSUME NEW b \in Bytes, NEW h \in Header, Known(b, h), h.state = 4
  PROVE  Pnm!Start(b) \in Nat
  <1>0. Len(b) \in Nat
    BY AtIs
  <1>1. Spot(b, From(b, 3)) /\ From(b, 3) = Pnm!BeforeMaxval(b)
    <2>1. 3 \in 1..3 /\ 3 <= h.state
      OBVIOUS
    <2>2. From(b, 3) = Pnm!BeforeMaxval(b)
      BY DEF From
    <2> QED
      BY <2>1, <2>2, FromIs
  <1>2. Spot(b, Pnm!AfterHeader(b))
    <2>1. CASE Pnm!HasMaxval(Pnm!Announced(b))
      <3>1. Pnm!HasFields(b)
        BY AnnouncedIs
      <3>2. Pnm!IsField(b, Pnm!BeforeMaxval(b))
        BY <2>1, <3>1 DEF Pnm!HasFields
      <3>3. Spot(b, Pnm!Behind(b, Pnm!BeforeMaxval(b)))
        BY <1>1, <3>2, BehindIs
      <3> QED
        BY <2>1, <3>3 DEF Pnm!AfterHeader
    <2>2. CASE ~Pnm!HasMaxval(Pnm!Announced(b))
      BY <1>1, <2>2 DEF Pnm!AfterHeader
    <2> QED
      BY <2>1, <2>2
  <1>3. PICK at \in 1..Len(b) + 1 : at = Pnm!AfterHeader(b).at
    BY <1>2 DEF Spot
  <1>4. Pnm!CommentEnd(b, at) \in at..Len(b) + 1
    BY CommentEndIs
  <1>5. at \in Nat /\ Pnm!CommentEnd(b, at) + 1 \in Nat
    BY <1>0, <1>4
  <1> QED
    BY <1>3, <1>5 DEF Pnm!Start

\* From one sample to the next, in bytes.
LEMMA PlaceGoesOn ==
  ASSUME NEW b \in Bytes, NEW h \in Header, Known(b, h), h.state = 4, ~Pnm!IsAscii(h), NEW m \in Nat, m < Pnm!Count(h)
  PROVE  Pnm!Place(b)[m + 1] = Pnm!Place(b)[m] + IF h.fmt = 4 THEN (IF m % 8 = 7 THEN 1 ELSE 0) ELSE Pnm!SampleSize(h)
  <1>1. PICK c \in Nat, u \in {1, 2} : c = Pnm!Count(h) /\ u = Pnm!SampleSize(h)
    BY CountSizes
  <1>2. /\ Pnm!Count(Pnm!Announced(b)) = c /\ Pnm!SampleSize(Pnm!Announced(b)) = u
        /\ ~Pnm!IsAscii(Pnm!Announced(b)) /\ Pnm!Announced(b).fmt = h.fmt
    BY <1>1, AnnouncedSizes
  <1>3. PICK s \in Nat : s = Pnm!Start(b)
    BY StartIs
  <1>4. m \in 0..c /\ m + 1 \in 0..c
    BY <1>1
  <1>5. Pnm!Place(b)[m] = s + IF h.fmt = 4 THEN m \div 8 ELSE m * u
    BY <1>2, <1>3, <1>4, PlaceOfBytes
  <1>6. Pnm!Place(b)[m + 1] = s + IF h.fmt = 4 THEN (m + 1) \div 8 ELSE (m + 1) * u
    BY <1>2, <1>3, <1>4, PlaceOfBytes
  <1>7. (m + 1) \div 8 = m \div 8 + IF m % 8 = 7 THEN 1 ELSE 0
    OBVIOUS
  <1>8. (m + 1) * u = m * u + u /\ m * u \in Nat
    OBVIOUS
  <1>9. CASE h.fmt = 4
    BY <1>5, <1>6, <1>7, <1>9
  <1>10. CASE h.fmt # 4
    BY <1>1, <1>5, <1>6, <1>8, <1>10
  <1> QED
    BY <1>9, <1>10

LEMMA FormatIs ==
  ASSUME PnmInv, Following, hdr.state = 4
  PROVE  /\ hdr.fmt = 4 => ~Pnm!IsAscii(hdr) /\ hdr.maxval = 1 /\ Pnm!SampleSize(hdr) = 1
         /\ hdr.fmt \in {5, 6} => ~Pnm!IsAscii(hdr) /\ hdr.fmt # 4 /\ ~Midway(hdr, image)
         /\ Pnm!IsAscii(hdr) => hdr.fmt # 4 /\ ~Midway(hdr, image)
  <1>1. Known(src, hdr)
    BY DEF Following
  <1>2. hdr.fmt = 4 => hdr.maxval = 1
    BY <1>1 DEF Known, Pnm!HasMaxval
  <1>3. hdr.maxval = 1 => Pnm!SampleSize(hdr) = 1
    BY DEF Pnm!SampleSize
  <1>4. hdr.fmt \in {5, 6} => hdr.fmt # 4 /\ ~Pnm!IsAscii(hdr)
    BY DEF Pnm!IsAscii
  <1>5. hdr.fmt = 4 => ~Pnm!IsAscii(hdr)
    BY DEF Pnm!IsAscii
  <1>6. hdr.fmt # 4 => ~Midway(hdr, image)
    BY DEF Midway
  <1> QED
    BY <1>2, <1>3, <1>4, <1>5, <1>6

\* There are not enough bytes for a sample in the buffer.
LEMMA BytesMore ==
  ASSUME PnmInv, ImageInv, Pnm!AtData, Pnm!MoreDataFrom(p), NEW u \in {1, 2}, ~Pnm!Has(u),
         (hdr.fmt = 4 /\ u = 1) \/ (hdr.fmt \in {5, 6} /\ u = Pnm!SampleSize(hdr))
  PROVE  ImageInv'
  <1>0. /\ src \in Bytes /\ Len(src) \in Nat /\ Len(buf) \in Nat /\ off \in Nat /\ hdr \in Header
        /\ p \in Nat \ {0} /\ p <= Len(buf) + 1 /\ p \in p..Len(buf) + 1 /\ p - p = 0 /\ BufLen \in Nat /\ BufLen >= 3
    BY ReaderSizes
  <1>1. pc = "token" /\ hdr.state = 4 /\ pc # "end"
    BY DEF Pnm!AtData
  <1>2. p + u > Len(buf) + 1
    BY <1>0 DEF Pnm!Has
  <1>3. ASSUME ~fragile
        PROVE  /\ ~Midway(hdr, image) /\ Gathering(src, hdr, image, FileIndex + (p - p), "read")
               /\ Pnm!IsImage(src) => off < Len(src) /\ Len(buf) - p + 1 < BufLen
    <2>1. Following
      BY <1>1, <1>3 DEF ImageInv
    <2>2. PICK at \in Nat : at = FileIndex /\ at = FileIndex + (p - p) /\ at = (off - Len(buf)) + p
      BY <1>0, <2>1, HereIs
    <2>3. ~Midway(hdr, image)
      <3>1. CASE hdr.fmt = 4
        <4>1. p = Len(buf) + 1
          BY <1>0, <1>2, <3>1
        <4>2. ~(p <= Len(buf))
          BY <1>0, <4>1
        <4> QED
          BY <2>1, <4>2 DEF Following, Held
      <3>2. CASE hdr.fmt # 4
        BY <3>2 DEF Midway
      <3> QED
        BY <3>1, <3>2
    <2>4. Gathering(src, hdr, image, at, "read")
      <3>1. Gathering(src, hdr, image, at, "token")
        BY <1>1, <2>1, <2>2 DEF Following
      <3> QED
        BY <3>1 DEF Gathering
    <2>5. ASSUME Pnm!IsImage(src) PROVE off < Len(src) /\ Len(buf) - p + 1 < BufLen
      <3>1. PICK m \in Nat : Placed(src, hdr, FileIndex, m) /\ Pnm!IsSample(src, m + 1)
        BY <2>1, <2>5, BeforeSample
      <3>2. ~Pnm!IsAscii(hdr) /\ Known(src, hdr)
        BY <1>1, <2>1, FormatIs, BeforeSample
      <3>3. Pnm!Place(src)[m] = at
        BY <2>2, <3>1, <3>2 DEF Placed
      <3>4. /\ ~Pnm!IsAscii(Pnm!Announced(src)) /\ Pnm!Announced(src).fmt = hdr.fmt
            /\ Pnm!SampleSize(Pnm!Announced(src)) = Pnm!SampleSize(hdr)
        BY <1>0, <1>1, <3>2, AnnouncedSizes
      <3>5. (m + 1) - 1 = m
        OBVIOUS
      <3>6. at + u <= Len(src) + 1
        BY SMTT(60), <3>1, <3>3, <3>4, <3>5 DEF Pnm!IsSample, Pnm!IsComplete
      <3> QED
        BY <1>0, <1>2, <2>2, <3>6
    <2> QED
      BY <2>2, <2>3, <2>4, <2>5
  <1>4. hdr.state # 0 /\ hdr.state \notin 1..3
    BY <1>1
  <1> QED
    BY <1>0, <1>1, <1>3, <1>4, MoreKeeps

LEMMA BytesFollow ==
  ASSUME PnmInv, ImageInv, Pnm!DataBinary
  PROVE  ImageInv'
  <1>0. /\ src \in Bytes /\ buf \in Bytes /\ Len(src) \in Nat /\ Len(buf) \in Nat /\ off \in Nat /\ hdr \in Header
        /\ p \in Nat \ {0} /\ p <= Len(buf) + 1
    BY ReaderSizes
  <1>1. Pnm!AtData /\ hdr.fmt \in {5, 6} /\ hdr.state = 4 /\ pc # "end"
    BY DEF Pnm!DataBinary, Pnm!AtData
  <1>2. PICK u \in {1, 2} : u = Pnm!SampleSize(hdr)
    BY <1>0, CountSizes
  <1>3. CASE ~Pnm!Has(u)
    <2>1. Pnm!MoreDataFrom(p)
      BY <1>2, <1>3 DEF Pnm!DataBinary, Pnm!MoreData
    <2> QED
      BY <1>1, <1>2, <1>3, <2>1, BytesMore
  <1>4. CASE Pnm!Has(u)
    <2>1. PICK val : val = IF u = 1 THEN Pnm!At(buf, p) ELSE 256 * Pnm!At(buf, p) + Pnm!At(buf, p + 1)
      OBVIOUS
    <2>2. val \in Nat
      <3>1. Pnm!At(buf, p) \in Octet /\ Pnm!At(buf, p + 1) \in Octet
        BY <1>0, AtIs
      <3> QED
        BY SMTT(60), <2>1, <3>1 DEF Octet
    <2>3. PICK k : k = p + u
      OBVIOUS
    <2>4. k \in p..Len(buf) + 1 /\ p \in p..Len(buf) /\ (u = 2 => p + 1 \in p..Len(buf))
      BY <1>0, <1>4, <2>3 DEF Pnm!Has
    \* what the file says
    <2>5. ASSUME ~fragile, NEW m \in Nat, m < Pnm!Count(hdr), Placed(src, hdr, FileIndex, m)
          PROVE  /\ val = Pnm!Sample(src, m + 1) /\ (Pnm!IsSample(src, m + 1) <=> val <= hdr.maxval)
                 /\ Placed(src, hdr, FileIndex + (k - p), m + 1)
      <3>1. Following
        BY <1>1, <2>5 DEF ImageInv
      <3>2. ~Pnm!IsAscii(hdr) /\ hdr.fmt # 4 /\ ~Midway(hdr, image) /\ Known(src, hdr)
        BY <1>1, <3>1, FormatIs, BeforeSample
      <3>3. PICK at \in Nat : at = FileIndex /\ at \in 1..Len(src) + 1
        BY <1>0, <3>1, HereIs
      <3>4. Pnm!Place(src)[m] = at
        BY <2>5, <3>2, <3>3 DEF Placed
      <3>5. /\ ~Pnm!IsAscii(Pnm!Announced(src)) /\ Pnm!Announced(src).fmt = hdr.fmt
            /\ Pnm!SampleSize(Pnm!Announced(src)) = u /\ Pnm!Announced(src).maxval = hdr.maxval
        BY <1>0, <1>1, <1>2, <3>2, AnnouncedSizes
      <3>6. Pnm!At(src, at) = Pnm!At(buf, p) /\ at \in 1..Len(src)
        <4>1. Pnm!At(src, FileIndex + (p - p)) = Pnm!At(buf, p) /\ FileIndex + (p - p) \in 1..Len(src)
          BY <2>4, <3>1, <3>2, HeldByte
        <4>2. FileIndex + (p - p) = at
          BY <1>0, <3>3
        <4> QED
          BY <4>1, <4>2
      <3>7. u = 2 => Pnm!At(src, at + 1) = Pnm!At(buf, p + 1) /\ at + 1 \in 1..Len(src)
        <4>1. u = 2 => Pnm!At(src, FileIndex + ((p + 1) - p)) = Pnm!At(buf, p + 1) /\ FileIndex + ((p + 1) - p) \in 1..Len(src)
          BY <2>4, <3>1, <3>2, HeldByte
        <4>2. FileIndex + ((p + 1) - p) = at + 1
          BY <1>0, <3>3
        <4> QED
          BY <4>1, <4>2
      <3>8. src[at] = Pnm!At(buf, p) /\ (u = 2 => src[at + 1] = Pnm!At(buf, p + 1))
        BY <1>0, <3>6, <3>7, AtIs
      <3>9. (m + 1) - 1 = m
        OBVIOUS
      <3>10. Pnm!Sample(src, m + 1) = val
        <4>1. Pnm!Sample(src, m + 1) = IF u = 1 THEN src[at] ELSE 256 * src[at] + src[at + 1]
          BY <3>2, <3>4, <3>5, <3>9 DEF Pnm!Sample, Pnm!SampleAt
        <4> QED
          BY <2>1, <3>8, <4>1
      <3>11. at + u <= Len(src) + 1
        BY <1>0, <3>6, <3>7
      <3>12. Pnm!IsSample(src, m + 1) <=> val \in 0..hdr.maxval
        BY <3>2, <3>4, <3>5, <3>9, <3>10, <3>11 DEF Pnm!IsSample, Pnm!IsComplete
      <3>13. val \in 0..hdr.maxval <=> val <= hdr.maxval
        <4>1. hdr.maxval \in Nat
          BY <1>0 DEF Header
        <4> QED
          BY <2>2, <4>1
      <3>14. Pnm!Place(src)[m + 1] = at + u
        BY <1>0, <1>1, <1>2, <2>5, <3>2, <3>4, PlaceGoesOn
      <3>15. at + u \in 1..Len(src) + 1 /\ FileIndex + (k - p) = at + u
        BY <1>0, <2>3, <3>3, <3>11
      <3>16. Placed(src, hdr, FileIndex + (k - p), m + 1)
        BY <3>2, <3>14, <3>15 DEF Placed
      <3> QED
        BY <3>10, <3>12, <3>13, <3>16
    <2>6. CASE val <= hdr.maxval
      <3>1. Pnm!Store(val) /\ p' = k /\ buf' = buf
        BY <1>2, <1>4, <2>1, <2>3, <2>6 DEF Pnm!DataBinary
      <3>2. val \in 0..hdr.maxval
        <4>1. hdr.maxval \in Nat
          BY <1>0 DEF Header
        <4> QED
          BY <2>2, <2>6, <4>1
      <3>3. ASSUME ~fragile PROVE Held(src, hdr, image', off - Len(buf), buf', k)
        <4>1. Following
          BY <1>1, <3>3 DEF ImageInv
        <4>2. Stands(src, off - Len(buf), buf, k)
          <5>1. ~Midway(hdr, image)
            BY <1>1, <4>1, FormatIs
          <5> QED
            BY <1>0, <2>4, <4>1, <5>1, HeldStands, StandsOn
        <4>3. ~Midway(hdr, image')
          BY <1>1 DEF Midway
        <4> QED
          BY <3>1, <4>2, <4>3 DEF Held
      <3> QED
        BY <1>1, <2>4, <2>5, <2>6, <3>1, <3>2, <3>3, StoreFollows
    <2>7. CASE ~(val <= hdr.maxval)
      <3>1. Pnm!Store(val)
        BY <1>2, <1>4, <2>1, <2>7 DEF Pnm!DataBinary
      <3>2. val \notin 0..hdr.maxval
        <4>1. hdr.maxval \in Nat
          BY <1>0 DEF Header
        <4> QED
          BY <2>7, <4>1
      <3>3. Pnm!End("badformat") /\ fragile' = fragile
        BY <3>1, <3>2 DEF Pnm!Store
      <3> QED
        BY <1>1, <2>5, <2>7, <3>3, SampleRefused
    <2> QED
      BY <2>6, <2>7
  <1> QED
    BY <1>3, <1>4

-----------------------------------------------------------------------------
(***************************************************************************)
(* Samples of bits.                                                        *)
(***************************************************************************)
LEMMA Halves ==
  ASSUME NEW x \in Octet, NEW r \in 0..7
  PROVE  /\ r = 0 => x \div Pow[r + 1] = x
         /\ r # 7 => (x \div Pow[r + 1]) \div 2 = x \div Pow[r + 2]
         /\ x \div Pow[r + 1] \in Octet
  <1>0. x \in Nat /\ x <= 255
    BY DEF Octet
  <1>1. /\ Pow[1] = 1 /\ Pow[2] = 2 /\ Pow[3] = 4 /\ Pow[4] = 8
        /\ Pow[5] = 16 /\ Pow[6] = 32 /\ Pow[7] = 64 /\ Pow[8] = 128
    BY DEF Pow
  <1>2. CASE r = 0
    <2>1. Pow[r + 1] = 1 /\ Pow[r + 2] = 2
      BY <1>1, <1>2
    <2>2. x \div 1 = x /\ (x \div 1) \div 2 = x \div 2 /\ x \div 1 \in Octet
      BY <1>0
    <2> QED
      BY <1>2, <2>1, <2>2
  <1>3. CASE r = 1
    <2>1. Pow[r + 1] = 2 /\ Pow[r + 2] = 4
      BY <1>1, <1>3
    <2>2. (x \div 2) \div 2 = x \div 4 /\ x \div 2 \in Octet
      BY <1>0 DEF Octet
    <2> QED
      BY <1>3, <2>1, <2>2
  <1>4. CASE r = 2
    <2>1. Pow[r + 1] = 4 /\ Pow[r + 2] = 8
      BY <1>1, <1>4
    <2>2. (x \div 4) \div 2 = x \div 8 /\ x \div 4 \in Octet
      BY <1>0 DEF Octet
    <2> QED
      BY <1>4, <2>1, <2>2
  <1>5. CASE r = 3
    <2>1. Pow[r + 1] = 8 /\ Pow[r + 2] = 16
      BY <1>1, <1>5
    <2>2. (x \div 8) \div 2 = x \div 16 /\ x \div 8 \in Octet
      BY <1>0 DEF Octet
    <2> QED
      BY <1>5, <2>1, <2>2
  <1>6. CASE r = 4
    <2>1. Pow[r + 1] = 16 /\ Pow[r + 2] = 32
      BY <1>1, <1>6
    <2>2. (x \div 16) \div 2 = x \div 32 /\ x \div 16 \in Octet
      BY <1>0 DEF Octet
    <2> QED
      BY <1>6, <2>1, <2>2
  <1>7. CASE r = 5
    <2>1. Pow[r + 1] = 32 /\ Pow[r + 2] = 64
      BY <1>1, <1>7
    <2>2. (x \div 32) \div 2 = x \div 64 /\ x \div 32 \in Octet
      BY <1>0 DEF Octet
    <2> QED
      BY <1>7, <2>1, <2>2
  <1>8. CASE r = 6
    <2>1. Pow[r + 1] = 64 /\ Pow[r + 2] = 128
      BY <1>1, <1>8
    <2>2. (x \div 64) \div 2 = x \div 128 /\ x \div 64 \in Octet
      BY <1>0 DEF Octet
    <2> QED
      BY <1>8, <2>1, <2>2
  <1>9. CASE r = 7
    <2>1. Pow[r + 1] = 128
      BY <1>1, <1>9
    <2>2. x \div 128 \in Octet
      BY <1>0 DEF Octet
    <2> QED
      BY <1>9, <2>1, <2>2
  <1> QED
    BY <1>2, <1>3, <1>4, <1>5, <1>6, <1>7, <1>8, <1>9

LEMMA BitsFollow ==
  ASSUME PnmInv, ImageInv, Pnm!DataBit
  PROVE  ImageInv'
  <1>0. /\ src \in Bytes /\ buf \in Bytes /\ Len(src) \in Nat /\ Len(buf) \in Nat /\ off \in Nat /\ hdr \in Header
        /\ p \in Nat \ {0} /\ p <= Len(buf) + 1
    BY ReaderSizes
  <1>1. Pnm!AtData /\ hdr.fmt = 4 /\ hdr.state = 4 /\ pc # "end"
    BY DEF Pnm!DataBit, Pnm!AtData
  <1>2. CASE ~Pnm!Has(1)
    <2>1. Pnm!MoreDataFrom(p)
      BY <1>2 DEF Pnm!DataBit, Pnm!MoreData
    <2>2. 1 \in {1, 2}
      OBVIOUS
    <2> QED
      BY <1>1, <1>2, <2>1, <2>2, BytesMore
  <1>3. CASE Pnm!Has(1)
    <2>1. p \in 1..Len(buf) /\ p <= Len(buf)
      BY <1>0, <1>3 DEF Pnm!Has
    <2>2. PICK c \in Octet : c = buf[p] /\ c = Pnm!At(buf, p)
      BY <1>0, <2>1, AtIs
    <2>3. PICK val \in 0..1, d \in Octet : val = c % 2 /\ d = c \div 2
      <3>1. c % 2 \in 0..1 /\ c \div 2 \in Octet
        BY DEF Octet
      <3> QED
        BY <3>1
    <2>4. PICK n \in Nat : n = Len(image) /\ image \in Seq(Int)
      BY LenProperties DEF PnmInv
    <2>5. PICK k : k = IF n % 8 = 7 THEN p + 1 ELSE p
      OBVIOUS
    <2>6. Pnm!Store(val) /\ buf' = [buf EXCEPT ![p] = d] /\ p' = k
      BY <1>3, <2>2, <2>3, <2>4, <2>5 DEF Pnm!DataBit
    <2>7. k \in p..Len(buf) + 1
      BY <1>0, <2>1, <2>5
    <2>8. val \in 0..hdr.maxval /\ val \in Nat
      <3>1. hdr.maxval \in Nat \ {0}
        BY <1>0 DEF Header
      <3> QED
        BY <3>1
    <2>9. PICK e \in Bytes : e = buf' /\ Len(e) = Len(buf) /\ e[p] = d /\ \A j \in 1..Len(buf) : j # p => e[j] = buf[j]
      <3>1. [buf EXCEPT ![p] = d] \in Seq(Octet) /\ Len([buf EXCEPT ![p] = d]) = Len(buf)
        BY <1>0, <2>1, ExceptSeq DEF Bytes
      <3>2. [buf EXCEPT ![p] = d][p] = d /\ \A j \in 1..Len(buf) : j # p => [buf EXCEPT ![p] = d][j] = buf[j]
        BY <1>0, <2>1, ExceptSeq DEF Bytes
      <3> QED
        BY <2>6, <3>1, <3>2 DEF Bytes
    \* the byte of the file
    <2>10. ASSUME ~fragile
           PROVE  \E base \in Nat, x \in Octet, r \in 0..7 :
                    /\ base = off - Len(buf) /\ FileIndex = base + p /\ FileIndex \in 1..Len(src) /\ x = src[base + p] /\ r = n % 8
                    /\ c = x \div Pow[r + 1] /\ Stands(src, base, buf, p + 1)
      <3>1. Following
        BY <1>1, <2>10 DEF ImageInv
      <3>2. PICK base \in Nat : base = off - Len(buf) /\ FileIndex = base + p
        BY <3>1, HereIs
      <3>3. base + p \in 1..Len(src)
        <4>1. off <= Len(src)
          BY ReaderSizes
        <4> QED
          BY <1>0, <2>1, <3>2, <4>1
      <3>4. PICK x \in Octet : x = src[base + p]
        BY <1>0, <3>3, AtIs
      <3>5. PICK r \in 0..7 : r = n % 8
        OBVIOUS
      <3>6. Midway(hdr, image) <=> r # 0
        BY <1>1, <2>4, <3>5 DEF Midway
      <3>7. c = x \div Pow[r + 1] /\ Stands(src, base, buf, p + 1)
        <4>1. CASE r # 0
          <5>1. Stands(src, base, buf, p + 1) /\ buf[p] = src[base + p] \div Pow[(Len(image) % 8) + 1]
            BY <3>1, <3>2, <3>6, <4>1 DEF Following, Held
          <5> QED
            BY <2>2, <2>4, <3>4, <3>5, <5>1
        <4>2. CASE r = 0
          <5>1. Stands(src, base, buf, p)
            BY <3>1, <3>2, <3>6, <4>2 DEF Following, Held
          <5>2. p + 1 \in p..Len(buf) + 1 /\ p \in p..Len(buf)
            BY <1>0, <2>1
          <5>3. Stands(src, base, buf, p + 1)
            BY <1>0, <5>1, <5>2, StandsOn
          <5>4. c = x
            BY <2>2, <3>4, <5>1, <5>2 DEF Stands
          <5>5. x \div Pow[r + 1] = x
            BY <4>2, Halves
          <5> QED
            BY SMTT(60), <5>3, <5>4, <5>5
        <4> QED
          BY <4>1, <4>2
      <3> QED
        BY <3>2, <3>3, <3>4, <3>5, <3>7
    <2>11. ASSUME ~fragile PROVE Held(src, hdr, image', off - Len(buf), buf', k)
      <3>1. PICK base \in Nat, x \in Octet, r \in 0..7 :
              /\ base = off - Len(buf) /\ x = src[base + p] /\ r = n % 8
              /\ c = x \div Pow[r + 1] /\ Stands(src, base, buf, p + 1)
        BY <2>10, <2>11
      <3>2. Following
        BY <1>1, <2>11 DEF ImageInv
      <3>3. PICK new : new = image' /\ Len(new) = n + 1
        <4>1. Pnm!SampleSize(hdr) = 1
          BY <1>1, <3>2, FormatIs
        <4>2. image' = image \o <<val>>
          BY <2>6, <2>8, <4>1 DEF Pnm!Store
        <4>3. <<val>> \in Seq(Int) /\ Len(<<val>>) = 1
          OBVIOUS
        <4>4. Len(image \o <<val>>) = n + 1
          BY <2>4, <4>3, ConcatProperties
        <4> QED
          BY <4>2, <4>4
      <3>4. Stands(src, base, e, p + 1)
        <4>1. base + Len(e) <= Len(src) /\ p + 1 \in 1..Len(e) + 1
          BY <2>9, <3>1 DEF Stands
        <4>2. \A j \in p + 1..Len(e) : e[j] = src[base + j]
          <5>1. \A j \in p + 1..Len(buf) : j \in 1..Len(buf) /\ j # p
            BY <1>0
          <5> QED
            BY <2>9, <3>1, <5>1 DEF Stands
        <4> QED
          BY <4>1, <4>2 DEF Stands
      <3>5. CASE r = 7
        <4>1. (n + 1) % 8 = 0 /\ k = p + 1
          BY <2>5, <3>1, <3>5
        <4>2. ~Midway(hdr, new)
          BY <3>3, <4>1 DEF Midway
        <4>3. Held(src, hdr, new, base, e, k)
          BY <3>4, <4>1, <4>2 DEF Held
        <4> QED
          BY <2>9, <3>1, <3>3, <4>3
      <3>6. CASE r # 7
        <4>1. (n + 1) % 8 = r + 1 /\ r + 1 # 0 /\ k = p
          BY <2>5, <3>1, <3>6
        <4>2. Midway(hdr, new)
          BY <1>1, <3>3, <4>1 DEF Midway
        <4>3. e[p] = x \div Pow[r + 2]
          <5>1. (x \div Pow[r + 1]) \div 2 = x \div Pow[r + 2]
            BY <3>6, Halves
          <5> QED
            BY <2>3, <2>9, <3>1, <5>1
        <4>4. (Len(new) % 8) + 1 = r + 2
          BY <3>3, <4>1
        <4>5. p <= Len(e)
          BY <2>1, <2>9
        <4>6. Held(src, hdr, new, base, e, p)
          BY <3>1, <3>4, <4>2, <4>3, <4>4, <4>5 DEF Held
        <4> QED
          BY <2>9, <3>1, <3>3, <4>1, <4>6
      <3> QED
        BY <3>5, <3>6
    <2>12. ASSUME ~fragile, NEW m \in Nat, m < Pnm!Count(hdr), Got(src, hdr, image, FileIndex, m), Placed(src, hdr, FileIndex, m)
           PROVE  /\ val = Pnm!Sample(src, m + 1) /\ Pnm!IsSample(src, m + 1)
                  /\ Placed(src, hdr, FileIndex + (k - p), m + 1)
      <3>1. Following
        BY <1>1, <2>12 DEF ImageInv
      <3>2. PICK base \in Nat, x \in Octet, r \in 0..7 :
              /\ base = off - Len(buf) /\ FileIndex = base + p /\ FileIndex \in 1..Len(src) /\ x = src[base + p] /\ r = n % 8
              /\ c = x \div Pow[r + 1]
        BY <2>10, <2>12
      <3>3. PICK at \in Nat : at = FileIndex /\ at \in 1..Len(src) /\ x = src[at]
        BY <1>0, <3>2
      <3>4. ~Pnm!IsAscii(hdr) /\ Known(src, hdr) /\ hdr.maxval = 1 /\ Pnm!SampleSize(hdr) = 1
        BY <1>1, <3>1, FormatIs, BeforeSample
      <3>5. m = n
        <4>1. Len(image) = m * Pnm!SampleSize(hdr)
          BY <2>12 DEF Got
        <4> QED
          BY <2>4, <3>4, <4>1
      <3>6. Pnm!Place(src)[m] = at
        BY <2>12, <3>3, <3>4 DEF Placed
      <3>7. /\ ~Pnm!IsAscii(Pnm!Announced(src)) /\ Pnm!Announced(src).fmt = 4 /\ Pnm!Announced(src).maxval = 1
        BY <1>0, <1>1, <3>4, AnnouncedSizes
      <3>8. (m + 1) - 1 = m /\ ((m + 1) - 1) % 8 = r
        BY <3>2, <3>5
      <3>9. Pnm!Sample(src, m + 1) = (src[at] \div Pow[r + 1]) % 2
        BY <3>6, <3>7, <3>8 DEF Pnm!Sample, Pnm!SampleAt, Pow
      <3>10. Pnm!Sample(src, m + 1) = val
        BY <2>3, <3>2, <3>3, <3>9
      <3>11. at + 1 <= Len(src) + 1
        BY <1>0, <3>3
      <3>12. Pnm!IsSample(src, m + 1)
        BY <3>6, <3>7, <3>8, <3>10, <3>11 DEF Pnm!IsSample, Pnm!IsComplete
      <3>13. Pnm!Place(src)[m + 1] = at + IF r = 7 THEN 1 ELSE 0
        BY ZenonT(60), <1>0, <1>1, <2>12, <3>2, <3>4, <3>5, <3>6, PlaceGoesOn
      <3>14. FileIndex + (k - p) = at + IF r = 7 THEN 1 ELSE 0
        BY <1>0, <2>5, <3>2, <3>3
      <3>15. at + (IF r = 7 THEN 1 ELSE 0) \in 1..Len(src) + 1
        BY <1>0, <3>3
      <3>16. Placed(src, hdr, FileIndex + (k - p), m + 1)
        BY <3>4, <3>13, <3>14, <3>15 DEF Placed
      <3> QED
        BY <3>10, <3>12, <3>16
    <2>13. Len(buf') = Len(buf)
      BY <2>9
    <2> QED
      BY <1>1, <2>6, <2>7, <2>8, <2>11, <2>12, <2>13, StoreFollows
  <1> QED
    BY <1>2, <1>3

-----------------------------------------------------------------------------
(***************************************************************************)
(* Samples of text.                                                        *)
(***************************************************************************)
\* A sample that is written as a number.
LEMMA TextSample ==
  ASSUME NEW b \in Bytes, NEW h \in Header, Known(b, h), h.state = 4, Pnm!IsAscii(h), NEW m \in Nat, m < Pnm!Count(h),
         NEW s, s = Pnm!Place(b)[m]
  PROVE  /\ Pnm!Place(b)[m + 1] = Pnm!Strtol(b, s).rest
         /\ Pnm!Sample(b, m + 1) = Pnm!Strtol(b, s).val
         /\ Pnm!IsSample(b, m + 1) <=> /\ s < Pnm!Strtol(b, s).rest /\ Pnm!Strtol(b, s).rest <= Len(b)
                                       /\ Pnm!Strtol(b, s).val \in 0..h.maxval
         /\ b \in Files /\ Pnm!IsImage(b) => Pnm!Strtol(b, s).rest - Pnm!Blanks(b, s) < BufLen
  <1>1. PICK c \in Nat : c = Pnm!Count(h)
    BY CountSizes
  <1>2. Pnm!Count(Pnm!Announced(b)) = c /\ Pnm!IsAscii(Pnm!Announced(b)) /\ Pnm!Announced(b).maxval = h.maxval
    BY <1>1, AnnouncedSizes
  <1>3. m + 1 \in 1..c /\ (m + 1) - 1 = m
    BY <1>1
  <1>4. Pnm!Place(b)[m + 1] = Pnm!Strtol(b, s).rest
    <2>1. Pnm!Place(b)[m + 1] = Pnm!Strtol(b, Pnm!Place(b)[(m + 1) - 1]).rest
      BY <1>2, <1>3, PlaceOfText
    <2> QED
      BY <1>3, <2>1
  <1>5. Pnm!Sample(b, m + 1) = Pnm!Strtol(b, s).val
    BY <1>2, <1>3 DEF Pnm!Sample, Pnm!SampleAt
  <1>6. Pnm!IsSample(b, m + 1) <=> /\ s < Pnm!Strtol(b, s).rest /\ Pnm!Strtol(b, s).rest <= Len(b)
                                   /\ Pnm!Strtol(b, s).val \in 0..h.maxval
    BY <1>2, <1>3, <1>5 DEF Pnm!IsSample, Pnm!IsComplete
  <1>7. ASSUME b \in Files, Pnm!IsImage(b) PROVE Pnm!Strtol(b, s).rest - Pnm!Blanks(b, s) < BufLen
    <2>1. Pnm!NumbersFit(b)
      BY <1>7, FilesAssumption
    <2>2. \A k \in 1..c : Pnm!Place(b)[k] - Pnm!Blanks(b, Pnm!Place(b)[k - 1]) < BufLen
      BY <1>2, <2>1 DEF Pnm!NumbersFit
    <2>3. Pnm!Place(b)[m + 1] - Pnm!Blanks(b, Pnm!Place(b)[(m + 1) - 1]) < BufLen
      BY <1>3, <2>2
    <2> QED
      BY <1>3, <1>4, <2>3
  <1> QED
    BY <1>4, <1>5, <1>6, <1>7

\* The reader before a sample that is written as a number.
LEMMA BeforeText ==
  ASSUME PnmInv, Following, Pnm!AtData, Pnm!IsAscii(hdr), NEW m \in Nat, Placed(src, hdr, FileIndex, m),
         NEW s, s = Pnm!Place(src)[m]
  PROVE  /\ s \in 1..Len(src) + 1 /\ FileIndex \in s..Pnm!Blanks(src, s) /\ ~Midway(hdr, image)
         /\ s \in Nat /\ FileIndex \in Nat /\ Pnm!Blanks(src, s) \in s..Len(src) + 1 /\ s <= FileIndex /\ FileIndex <= Pnm!Blanks(src, s)
  <1>0. src \in Bytes /\ Len(src) \in Nat
    BY ReaderSizes
  <1>1. s \in 1..Len(src) + 1 /\ FileIndex \in s..Pnm!Blanks(src, s)
    BY DEF Placed
  <1>2. ~Midway(hdr, image)
    BY FormatIs DEF Pnm!AtData
  <1>3. Pnm!Blanks(src, s) \in s..Len(src) + 1
    BY <1>0, <1>1, DigitsIs
  <1>4. s \in Nat
    BY <1>0, <1>1
  <1> QED
    BY <1>0, <1>1, <1>2, <1>3, <1>4

\* A blank before a sample is passed.
LEMMA TextBlank ==
  ASSUME PnmInv, Following, Pnm!AtData, Pnm!IsAscii(hdr), Pnm!IsSpace(Pnm!At(buf, p)), p \in 1..Len(buf),
         NEW place
  PROVE  /\ Gathering(src, hdr, image, FileIndex + ((p + 1) - p), place)
         /\ Pnm!IsImage(src) => FileIndex + 1 < Len(src)
  <1>0. src \in Bytes /\ Len(src) \in Nat /\ hdr \in Header /\ p \in Nat /\ Len(buf) \in Nat
    BY ReaderSizes
  <1>1. /\ Known(src, hdr) /\ ~hdr.incomment /\ Pnm!DataSeparate(src) /\ hdr.state = 4
    BY BeforeSample
  <1>2. PICK m \in Nat : /\ m < Pnm!Count(hdr) /\ Got(src, hdr, image, FileIndex, m) /\ Placed(src, hdr, FileIndex, m)
                         /\ Pnm!IsImage(src) => Pnm!IsSample(src, m + 1)
    BY BeforeSample
  <1>3. PICK s : s = Pnm!Place(src)[m]
    OBVIOUS
  <1>4. PICK at \in Nat : at = FileIndex
    BY HereIs
  <1>5. s \in 1..Len(src) + 1 /\ s \in Nat /\ s <= at /\ at <= Pnm!Blanks(src, s) /\ ~Midway(hdr, image)
    BY <1>2, <1>3, <1>4, BeforeText
  <1>6. Pnm!IsSpace(Pnm!At(src, at))
    <2>1. p \in p..Len(buf)
      BY <1>0
    <2>2. Pnm!At(src, FileIndex + (p - p)) = Pnm!At(buf, p)
      BY <1>5, <2>1, HeldByte
    <2>3. FileIndex + (p - p) = at
      BY <1>0, <1>4
    <2> QED
      BY <2>2, <2>3
  <1>7. PICK k : k = Pnm!Blanks(src, s) /\ BlanksTo(src, s, k)
    BY <1>0, <1>5, BlanksIs
  <1>8. k \in s..Len(src) + 1 /\ at # k
    BY <1>6, <1>7 DEF BlanksTo
  <1>9. at + 1 \in s..k /\ FileIndex + ((p + 1) - p) = at + 1
    BY <1>0, <1>4, <1>5, <1>7, <1>8
  <1>10. Got(src, hdr, image, at + 1, m)
    <2>1. at + 1 \in Pnm!Place(src)[m]..Pnm!Blanks(src, Pnm!Place(src)[m])
      BY <1>3, <1>7, <1>9
    <2> QED
      BY <1>2, <2>1 DEF Got
  <1>11. Gathering(src, hdr, image, at + 1, place)
    BY <1>1, <1>10 DEF Gathering
  <1>12. ASSUME Pnm!IsImage(src) PROVE at + 1 < Len(src)
    <2>1. PICK e : e = Pnm!Strtol(src, s).rest
      OBVIOUS
    <2>2. s < e /\ e <= Len(src)
      BY <1>0, <1>1, <1>2, <1>3, <1>12, <2>1, TextSample
    <2>3. e \in s..Len(src) + 1 /\ (e # s => e > k)
      BY <1>0, <1>5, <1>7, <2>1, StrtolType
    <2>4. e \in Nat /\ k \in Nat /\ e > k
      BY <1>0, <1>5, <1>8, <2>2, <2>3
    <2> QED
      BY <1>0, <1>8, <1>9, <2>2, <2>4
  <1> QED
    BY <1>4, <1>9, <1>11, <1>12

LEMMA TextBlankMore ==
  ASSUME PnmInv, ImageInv, Pnm!AtData, Pnm!IsAscii(hdr), Pnm!IsSpace(Pnm!At(buf, p)), ~Pnm!Has(3), Pnm!MoreDataFrom(p + 1)
  PROVE  ImageInv'
  <1>0. /\ buf \in Bytes /\ Len(src) \in Nat /\ Len(buf) \in Nat /\ off \in Nat
        /\ p \in Nat \ {0} /\ p <= Len(buf) + 1 /\ BufLen \in Nat /\ BufLen >= 3
    BY ReaderSizes
  <1>1. pc = "token" /\ hdr.state = 4 /\ pc # "end"
    BY DEF Pnm!AtData
  <1>2. p <= Len(buf)
    <2>1. Pnm!At(buf, p) # 0
      BY ZeroIs
    <2> QED
      BY <1>0, <2>1, AtIs
  <1>3. p \in 1..Len(buf) /\ p + 1 \in p..Len(buf) + 1
    BY <1>0, <1>2
  <1>4. p + 3 > Len(buf) + 1
    BY <1>0 DEF Pnm!Has
  <1>5. ASSUME ~fragile
        PROVE  /\ ~Midway(hdr, image) /\ Gathering(src, hdr, image, FileIndex + ((p + 1) - p), "read")
               /\ Pnm!IsImage(src) => off < Len(src) /\ Len(buf) - (p + 1) + 1 < BufLen
    <2>1. Following
      BY <1>1, <1>5 DEF ImageInv
    <2>2. ~Midway(hdr, image)
      BY <1>1, <2>1, FormatIs
    <2>3. Gathering(src, hdr, image, FileIndex + ((p + 1) - p), "read")
      BY <1>3, <2>1, TextBlank
    <2>4. ASSUME Pnm!IsImage(src) PROVE off < Len(src) /\ Len(buf) - (p + 1) + 1 < BufLen
      <3>1. PICK at \in Nat : at = FileIndex /\ at = (off - Len(buf)) + p
        BY <2>1, HereIs
      <3>2. at + 1 < Len(src)
        BY <1>3, <2>1, <2>4, <3>1, TextBlank
      <3> QED
        BY <1>0, <1>4, <3>1, <3>2
    <2> QED
      BY <2>2, <2>3, <2>4
  <1>6. hdr.state # 0 /\ hdr.state \notin 1..3
    BY <1>1
  <1> QED
    BY <1>1, <1>3, <1>5, <1>6, MoreKeeps

LEMMA TextBlankPassed ==
  ASSUME PnmInv, ImageInv, Pnm!AtData, Pnm!IsAscii(hdr), Pnm!IsSpace(Pnm!At(buf, p)), p' = p + 1,
         UNCHANGED <<src, off, buf, hdr, image, pc, outcome, fragile>>
  PROVE  ImageInv'
  <1>0. /\ buf \in Bytes /\ Len(buf) \in Nat /\ p \in Nat \ {0} /\ p <= Len(buf) + 1 /\ hdr \in Header
    BY ReaderSizes
  <1>1. pc = "token" /\ hdr.state = 4 /\ pc # "end"
    BY DEF Pnm!AtData
  <1>2. p <= Len(buf)
    <2>1. Pnm!At(buf, p) # 0
      BY ZeroIs
    <2> QED
      BY <1>0, <2>1, AtIs
  <1>3. p \in 1..Len(buf) /\ p + 1 \in p..Len(buf) + 1
    BY <1>0, <1>2
  <1>4. PICK mark \in BOOLEAN : mark = hdr.incomment
    BY <1>0 DEF Header
  <1>5. hdr' = [hdr EXCEPT !.incomment = mark]
    BY <1>0, <1>4 DEF Header
  <1>6. ASSUME ~fragile'
        PROVE  ~Midway(hdr, image) /\ Gathering(src, hdr', image, FileIndex + ((p + 1) - p), pc')
    <2>1. Following
      BY <1>1, <1>6 DEF ImageInv
    <2>2. ~Midway(hdr, image)
      BY <1>1, <2>1, FormatIs
    <2>3. Gathering(src, hdr, image, FileIndex + ((p + 1) - p), "token")
      BY <1>3, <2>1, TextBlank
    <2> QED
      BY <1>1, <2>2, <2>3
  <1>7. hdr.state # 0 /\ hdr.state \notin 1..3 /\ pc' = "token" /\ (~fragile' => ~fragile)
    BY <1>1
  <1>8. UNCHANGED <<src, off, buf, image, outcome>>
    OBVIOUS
  <1> QED
    BY ZenonT(60), <1>1, <1>3, <1>4, <1>5, <1>6, <1>7, <1>8, PassKeeps

\* A sample that may go on behind the end of the buffer.
LEMMA TextMore ==
  ASSUME PnmInv, ImageInv, Pnm!AtData, Pnm!IsAscii(hdr), ~Pnm!IsSpace(Pnm!At(buf, p)), Pnm!MoreDataFrom(p),
         Pnm!At(buf, p) # 0, Pnm!Strtol(buf, p).rest > Len(buf)
  PROVE  ImageInv'
  <1>0. /\ src \in Bytes /\ buf \in Bytes /\ src \in Files /\ Len(src) \in Nat /\ Len(buf) \in Nat /\ off \in Nat /\ hdr \in Header
        /\ p \in Nat \ {0} /\ p \in 1..Len(buf) + 1 /\ p \in p..Len(buf) + 1 /\ p - p = 0 /\ BufLen \in Nat
    BY ReaderSizes
  <1>p. pc = "token" /\ hdr.state = 4 /\ pc # "end"
    BY DEF Pnm!AtData
  <1>1. p <= Len(buf)
    BY <1>0, AtIs
  <1>2. Pnm!Digits(buf, p) <= Len(buf)
    <2>1. PICK r \in p..Len(buf) + 1 : r = Pnm!Strtol(buf, p).rest
      BY <1>0, StrtolType
    <2>2. r = Len(buf) + 1 /\ r # p
      BY <1>0, <1>1, <2>1
    <2>3. Pnm!Digits(buf, p) < r
      BY <1>0, <2>1, <2>2, DigitsBefore
    <2>4. Pnm!Digits(buf, p) \in p..Len(buf) + 1
      BY <1>0, DigitsIs
    <2> QED
      BY <1>0, <2>2, <2>3, <2>4
  <1>3. ASSUME ~fragile
        PROVE  /\ ~Midway(hdr, image) /\ Gathering(src, hdr, image, FileIndex + (p - p), "read")
               /\ Pnm!IsImage(src) => off < Len(src) /\ Len(buf) - p + 1 < BufLen
    <2>1. Following
      BY <1>p, <1>3 DEF ImageInv
    <2>2. ~Midway(hdr, image)
      BY <1>p, <2>1, FormatIs
    <2>3. PICK at \in Nat : at = FileIndex /\ at = FileIndex + (p - p) /\ at \in 1..Len(src) + 1 /\ at = (off - Len(buf)) + p
      BY <1>0, <2>1, HereIs
    <2>4. Gathering(src, hdr, image, at, "read")
      <3>1. Gathering(src, hdr, image, at, "token")
        BY <1>p, <2>1, <2>3 DEF Following
      <3> QED
        BY <3>1 DEF Gathering
    <2>5. ASSUME Pnm!IsImage(src) PROVE off < Len(src) /\ Len(buf) - p + 1 < BufLen
      <3>1. PICK m \in Nat : m < Pnm!Count(hdr) /\ Placed(src, hdr, FileIndex, m) /\ Pnm!IsSample(src, m + 1)
        BY <2>1, <2>5, BeforeSample
      <3>2. Known(src, hdr)
        BY <2>1, BeforeSample
      <3>3. PICK s : s = Pnm!Place(src)[m]
        OBVIOUS
      <3>4. s \in 1..Len(src) + 1 /\ FileIndex \in s..Pnm!Blanks(src, s) /\ s \in Nat
        BY <2>1, <3>1, <3>3, BeforeText
      <3>5. PICK e : e = Pnm!Strtol(src, s).rest
        OBVIOUS
      <3>6. e > off
        BY <1>2, <2>1, <2>2, <3>4, <3>5, TokenMet
      <3>7. e <= Len(src) /\ e - Pnm!Blanks(src, s) < BufLen
        BY <1>0, <1>p, <2>5, <3>1, <3>2, <3>3, <3>5, TextSample
      <3>8. e \in s..Len(src) + 1
        BY <1>0, <3>4, <3>5, StrtolType
      <3>9. Pnm!Blanks(src, s) = at
        <4>1. ~Pnm!IsSpace(Pnm!At(src, at))
          <5>1. p \in p..Len(buf)
            BY <1>0, <1>1
          <5>2. Pnm!At(src, FileIndex + (p - p)) = Pnm!At(buf, p)
            BY <2>1, <2>2, <5>1, HeldByte
          <5> QED
            BY <2>3, <5>2
        <4>2. Pnm!Blanks(src, at) = at
          BY <1>0, <2>3, <4>1, NoBlank
        <4>3. at \in s..Pnm!Blanks(src, s)
          BY <2>3, <3>4
        <4>4. Pnm!Blanks(src, at) = Pnm!Blanks(src, s)
          BY <1>0, <3>4, <4>3, BlanksBetween
        <4> QED
          BY <4>2, <4>4
      <3>10. e - at < BufLen /\ e \in Nat
        BY <1>0, <3>4, <3>7, <3>8, <3>9
      <3> QED
        BY <1>0, <2>3, <3>6, <3>7, <3>10
    <2> QED
      BY <2>2, <2>3, <2>4, <2>5
  <1>4. hdr.state # 0 /\ hdr.state \notin 1..3
    BY <1>p
  <1> QED
    BY <1>0, <1>p, <1>3, <1>4, MoreKeeps

\* A number in the buffer with something behind it is the sample of the file.
LEMMA TextMet ==
  ASSUME PnmInv, Following, Pnm!AtData, Pnm!IsAscii(hdr), Pnm!Digits(buf, p) <= Len(buf),
         NEW r, r = Pnm!Strtol(buf, p).rest, NEW v, v = Pnm!Strtol(buf, p).val, r <= Len(buf),
         NEW m \in Nat, m < Pnm!Count(hdr), Placed(src, hdr, FileIndex, m)
  PROVE  /\ Pnm!IsSample(src, m + 1) <=> r # p /\ v \in 0..hdr.maxval
         /\ Pnm!IsSample(src, m + 1) => /\ Pnm!Sample(src, m + 1) = v
                                        /\ Placed(src, hdr, FileIndex + (r - p), m + 1)
  <1>0. /\ src \in Bytes /\ buf \in Bytes /\ Len(src) \in Nat /\ Len(buf) \in Nat /\ off \in Nat /\ off <= Len(src)
        /\ hdr \in Header /\ p \in Nat \ {0} /\ p \in 1..Len(buf) + 1
    BY ReaderSizes
  <1>1. Known(src, hdr) /\ hdr.state = 4
    BY BeforeSample
  <1>2. PICK s : s = Pnm!Place(src)[m]
    OBVIOUS
  <1>3. s \in 1..Len(src) + 1 /\ FileIndex \in s..Pnm!Blanks(src, s) /\ ~Midway(hdr, image) /\ s \in Nat /\ s <= FileIndex
    BY <1>2, BeforeText
  <1>4. r \in p..Len(buf) + 1 /\ r \in Nat
    <2>1. r \in p..Len(buf) + 1
      BY <1>0, StrtolType
    <2> QED
      BY <1>0, <2>1
  <1>5. PICK e, w : e = Pnm!Strtol(src, s).rest /\ w = Pnm!Strtol(src, s).val
    OBVIOUS
  <1>6. w = v /\ (r # p => e = (off - Len(buf)) + r) /\ (r = p => e = s)
    BY <1>3, <1>5, TokenMet
  <1>7. /\ Pnm!Place(src)[m + 1] = e /\ Pnm!Sample(src, m + 1) = w
        /\ Pnm!IsSample(src, m + 1) <=> s < e /\ e <= Len(src) /\ w \in 0..hdr.maxval
    BY <1>0, <1>1, <1>2, <1>5, TextSample
  <1>8. PICK at \in Nat : at = FileIndex /\ at = (off - Len(buf)) + p
    BY HereIs
  <1>9. ASSUME r # p PROVE e = at + (r - p) /\ s < e /\ e <= Len(src) /\ e \in Nat
    <2>1. e = (off - Len(buf)) + r /\ r > p
      BY <1>0, <1>4, <1>6, <1>9
    <2>2. PICK base \in Nat : base = off - Len(buf)
      BY HereIs
    <2>3. base + Len(buf) = off
      BY <1>0, <2>2
    <2>4. e = base + r /\ at = base + p /\ e \in Nat
      BY <1>4, <1>8, <2>1, <2>2
    <2>p. p \in Nat
      BY <1>0
    <2>5. s < e /\ e = at + (r - p)
      <3>1. s <= at /\ s \in Nat
        BY <1>3, <1>8
      <3>2. p < r
        BY <2>1
      <3>3. at < e
        BY <1>4, <2>p, <2>4, <3>2
      <3>4. e = at + (r - p)
        BY <1>4, <2>p, <2>4
      <3>5. s < e
        BY <2>4, <3>1, <3>3
      <3> QED
        BY <3>4, <3>5
    <2>6. e <= Len(src)
      BY SMTT(60), <1>0, <1>4, <2>3, <2>4
    <2> QED
      BY <2>4, <2>5, <2>6
  <1>10. r = p => ~(s < e)
    BY <1>3, <1>6
  <1>11. Pnm!IsSample(src, m + 1) <=> r # p /\ v \in 0..hdr.maxval
    BY <1>6, <1>7, <1>9, <1>10
  <1>12. ASSUME r # p PROVE Placed(src, hdr, FileIndex + (r - p), m + 1)
    <2>1. e \in 1..Len(src) + 1 /\ FileIndex + (r - p) = e
      BY SMTT(60), <1>0, <1>3, <1>8, <1>9, <1>12
    <2>2. Pnm!Blanks(src, e) \in e..Len(src) + 1
      BY <1>0, <2>1, DigitsIs
    <2>3. e \in e..Pnm!Blanks(src, e)
      BY <1>0, <2>1, <2>2
    <2> QED
      BY <1>7, <2>1, <2>3 DEF Placed
  <1> QED
    BY <1>6, <1>7, <1>11, <1>12

LEMMA TextFollows ==
  ASSUME PnmInv, ImageInv, Pnm!DataAscii
  PROVE  ImageInv'
  <1>0. /\ src \in Bytes /\ buf \in Bytes /\ Len(src) \in Nat /\ Len(buf) \in Nat /\ off \in Nat /\ hdr \in Header
        /\ p \in Nat \ {0} /\ p \in 1..Len(buf) + 1 /\ p <= Len(buf) + 1
    BY ReaderSizes
  <1>p. Pnm!AtData /\ Pnm!IsAscii(hdr) /\ pc = "token" /\ hdr.state = 4 /\ pc # "end"
    BY DEF Pnm!DataAscii, Pnm!AtData
  <1>1. PICK r \in p..Len(buf) + 1, v \in Int : r = Pnm!Strtol(buf, p).rest /\ v = Pnm!Strtol(buf, p).val
    BY <1>0, StrtolType
  <1>2. CASE Pnm!IsSpace(Pnm!At(buf, p)) /\ ~Pnm!Has(3)
    <2>1. Pnm!MoreDataFrom(p + 1)
      BY <1>2 DEF Pnm!DataAscii
    <2> QED
      BY <1>p, <1>2, <2>1, TextBlankMore
  <1>3. CASE Pnm!IsSpace(Pnm!At(buf, p)) /\ Pnm!Has(3)
    <2>1. p' = p + 1 /\ UNCHANGED <<src, off, buf, hdr, image, pc, outcome, fragile>>
      BY <1>3 DEF Pnm!DataAscii
    <2> QED
      BY <1>p, <1>3, <2>1, TextBlankPassed
  <1>4. CASE ~Pnm!IsSpace(Pnm!At(buf, p)) /\ Pnm!At(buf, p) # 0 /\ r > Len(buf)
    <2>1. Pnm!MoreDataFrom(p)
      BY <1>1, <1>4 DEF Pnm!DataAscii, Pnm!MoreData
    <2> QED
      BY <1>1, <1>p, <1>4, <2>1, TextMore
  <1>5. CASE ~Pnm!IsSpace(Pnm!At(buf, p)) /\ ~(Pnm!At(buf, p) # 0 /\ r > Len(buf)) /\ r > p /\ v \in 0..hdr.maxval
    <2>1. Pnm!Store(v) /\ p' = r /\ buf' = buf
      BY <1>1, <1>5 DEF Pnm!DataAscii
    <2>2. r <= Len(buf) /\ r # p
      <3>1. r # p
        BY <1>0, <1>1, <1>5
      <3>2. Pnm!At(buf, p) # 0
        BY <1>0, <1>1, <3>1, DigitsBefore
      <3> QED
        BY <1>0, <1>1, <1>5, <3>1, <3>2
    <2>3. Pnm!Digits(buf, p) <= Len(buf)
      <3>1. Pnm!Digits(buf, p) < r
        BY <1>0, <1>1, <2>2, DigitsBefore
      <3>2. Pnm!Digits(buf, p) \in p..Len(buf) + 1
        BY <1>0, DigitsIs
      <3> QED
        BY <1>0, <1>1, <2>2, <3>1, <3>2
    <2>4. ASSUME ~fragile PROVE Held(src, hdr, image', off - Len(buf), buf', r)
      <3>1. Following
        BY <1>p, <2>4 DEF ImageInv
      <3>2. ~Midway(hdr, image) /\ hdr.fmt # 4
        BY <1>p, <3>1, FormatIs
      <3>3. Stands(src, off - Len(buf), buf, p)
        BY <3>1, <3>2, HeldStands
      <3>4. Stands(src, off - Len(buf), buf, r)
        BY <1>0, <1>1, <3>3, StandsOn
      <3>5. ~Midway(hdr, image')
        BY <3>2 DEF Midway
      <3> QED
        BY <2>1, <3>4, <3>5 DEF Held
    <2>5. ASSUME ~fragile, NEW m \in Nat, m < Pnm!Count(hdr), Placed(src, hdr, FileIndex, m)
          PROVE  /\ v = Pnm!Sample(src, m + 1) /\ Pnm!IsSample(src, m + 1)
                 /\ Placed(src, hdr, FileIndex + (r - p), m + 1)
      <3>1. Following
        BY <1>p, <2>5 DEF ImageInv
      <3>2. Pnm!IsSample(src, m + 1)
        BY <1>1, <1>p, <1>5, <2>2, <2>3, <2>5, <3>1, TextMet
      <3> QED
        BY <1>1, <1>p, <2>2, <2>3, <2>5, <3>1, <3>2, TextMet
    <2>6. v \in 0..hdr.maxval /\ Len(buf') = Len(buf) /\ r \in p..Len(buf) + 1
      BY <1>1, <1>5, <2>1
    <2> QED
      BY <1>p, <2>1, <2>4, <2>5, <2>6, StoreFollows
  <1>6. CASE ~Pnm!IsSpace(Pnm!At(buf, p)) /\ ~(Pnm!At(buf, p) # 0 /\ r > Len(buf)) /\ ~(r > p /\ v \in 0..hdr.maxval)
    <2>1. Pnm!End("badformat") /\ fragile' = (fragile \/ Pnm!Digits(buf, p) > Len(buf))
      BY <1>1, <1>6 DEF Pnm!DataAscii
    <2>2. ASSUME ~fragile', NEW m \in Nat, m < Pnm!Count(hdr), Placed(src, hdr, FileIndex, m)
          PROVE  ~Pnm!IsSample(src, m + 1)
      <3>1. Following
        BY <1>p, <2>1, <2>2 DEF ImageInv
      <3>2. Pnm!Digits(buf, p) <= Len(buf)
        <4>1. Pnm!Digits(buf, p) \in p..Len(buf) + 1 /\ ~(Pnm!Digits(buf, p) > Len(buf))
          BY <1>0, <2>1, <2>2, DigitsIs
        <4> QED
          BY <1>0, <4>1
      <3>3. r <= Len(buf)
        <4>1. Pnm!At(buf, p) = 0 => r = p /\ Pnm!Digits(buf, p) = p
          BY <1>0, <1>1, DigitsBefore
        <4> QED
          BY <1>0, <1>1, <1>6, <3>2, <4>1
      <3>4. ~(r # p /\ v \in 0..hdr.maxval)
        <4>1. r # p => r > p
          BY <1>0, <1>1
        <4> QED
          BY <1>6, <4>1
      <3> QED
        BY <1>1, <1>p, <2>2, <3>1, <3>2, <3>3, <3>4, TextMet
    <2>3. ~fragile' => ~fragile
      BY <2>1
    <2> QED
      BY <1>p, <2>1, <2>2, <2>3, SampleRefused
  <1> QED
    BY <1>2, <1>3, <1>4, <1>5, <1>6

-----------------------------------------------------------------------------
(***************************************************************************)
(* Blanks of a comment are skipped only at the front of the buffer or      *)
(* right behind a token.                                                   *)
(***************************************************************************)
LEMMA HerePassed ==
  ASSUME PnmInv, Following, UNCHANGED <<off, buf>>, NEW k \in p..Len(buf) + 1, p' = k
  PROVE  FileIndex' = FileIndex + (k - p)
  <1>1. Len(buf) \in Nat /\ p \in Nat \ {0} /\ off - Len(buf) \in Nat /\ FileIndex = (off - Len(buf)) + p
    BY ReaderSizes, HereIs
  <1>2. FileIndex' = (off - Len(buf)) + k
    BY DEF FileIndex
  <1> QED
    BY <1>1, <1>2

LEMMA GluedElsewhere ==
  ASSUME pc' # "space", pc' = "read" => p' = 1
  PROVE  Glued'
  BY DEF Glued

LEMMA SpaceGlued ==
  ASSUME PnmInv, ImageInv, Glued, ~fragile, Pnm!SkipSpace
  PROVE  Glued'
  <1>0. Len(src) \in Nat /\ Len(buf) \in Nat /\ p \in Nat \ {0} /\ p <= Len(buf) + 1 /\ hdr \in Header
    BY ReaderSizes
  <1>p. pc = "space"
    BY DEF Pnm!SkipSpace
  <1>f. Following
    BY <1>p DEF ImageInv
  <1>1. CASE hdr.state \in 1..3 /\ ~Pnm!Has(1)
    <2>1. pc' = "read" /\ p' = 1
      BY <1>1 DEF Pnm!SkipSpace, Pnm!MoreData, Pnm!MoreDataFrom
    <2> QED
      BY <2>1, GluedElsewhere
  <1>2. CASE hdr.state \in 1..3 /\ Pnm!Has(1) /\ Pnm!IsSpace(Pnm!At(buf, p))
    <2>1. p' = p + 1 /\ UNCHANGED <<src, off, buf, hdr, pc>>
      BY <1>2 DEF Pnm!SkipSpace
    <2>2. p + 1 \in p..Len(buf) + 1 /\ p \in p..Len(buf)
      BY <1>0, <1>2 DEF Pnm!Has
    <2>3. PICK at, h : at = FileIndex /\ h = From(src, hdr.state)
      OBVIOUS
    <2>4. at \in Nat /\ FileIndex' = at + 1
      <3>1. FileIndex \in Nat
        BY <1>f, HereIs
      <3>2. FileIndex' = FileIndex + ((p + 1) - p)
        BY <1>f, <2>1, <2>2, HerePassed
      <3> QED
        BY <1>0, <2>3, <3>1, <3>2
    <2>5. Pnm!IsSpace(Pnm!At(src, at))
      <3>1. ~Midway(hdr, image)
        BY <1>2 DEF Midway
      <3>2. Pnm!At(src, FileIndex + (p - p)) = Pnm!At(buf, p)
        BY <1>f, <2>2, <3>1, HeldByte
      <3>3. FileIndex + (p - p) = at
        BY <1>0, <2>3, <2>4
      <3> QED
        BY <1>2, <3>2, <3>3
    <2>6. ASSUME hdr.incomment, NEW j \in 1..(p + 1) - 1, ~Pnm!IsSpace(Pnm!At(buf, j))
          PROVE  h.comment /\ h.at <= at + 1 /\ \A l \in h.at..(at + 1) - 1 : Pnm!IsSpace(Pnm!At(src, l))
      <3>1. j # p /\ j \in 1..p - 1
        <4>1. j # p
          BY <1>2, <2>6
        <4> QED
          BY <1>0, <4>1
      <3>2. h.comment /\ h.at <= at /\ \A l \in h.at..at - 1 : Pnm!IsSpace(Pnm!At(src, l))
        BY <1>2, <1>p, <2>3, <2>6, <3>1 DEF Glued
      <3>3. h.at \in Nat
        <4>1. hdr.state <= hdr.state /\ Known(src, hdr)
          BY <1>2, <1>f DEF Following
        <4>2. Spot(src, h)
          BY <1>0, <1>2, <2>3, <4>1, FromIs, ReaderSizes
        <4> QED
          BY <4>2 DEF Spot
      <3>4. \A l \in h.at..(at + 1) - 1 : l = at \/ l \in h.at..at - 1
        BY <2>4, <3>3
      <3>5. h.at <= at + 1
        BY <2>4, <3>2, <3>3
      <3> QED
        BY <2>5, <3>2, <3>4, <3>5
    <2>7. /\ pc' = "space" /\ pc' # "read" /\ hdr' = hdr /\ buf' = buf /\ src' = src
          /\ p' - 1 = (p + 1) - 1 /\ FileIndex' - 1 = (at + 1) - 1
      BY <1>p, <2>1, <2>4
    <2>8. From(src, hdr.state)' = h
      BY <2>3, <2>7 DEF From
    <2> QED
      BY <2>4, <2>6, <2>7, <2>8 DEF Glued
  <1>3. CASE ~(hdr.state \in 1..3 /\ ~Pnm!Has(1)) /\ ~(hdr.state \in 1..3 /\ Pnm!IsSpace(Pnm!At(buf, p)))
    <2>1. pc' = "comment"
      BY <1>3 DEF Pnm!SkipSpace
    <2> QED
      BY <2>1, GluedElsewhere
  <1> QED
    BY <1>1, <1>2, <1>3

LEMMA MagicGlued ==
  ASSUME PnmInv, ImageInv, ~fragile, Pnm!Magic
  PROVE  Glued'
  <1>0. Len(src) \in Nat /\ Len(buf) \in Nat /\ p \in Nat \ {0} /\ hdr \in Header
    BY ReaderSizes
  <1>p. pc = "token" /\ hdr.state = 0
    BY DEF Pnm!Magic
  <1>f. Following
    BY <1>p DEF ImageInv
  <1>1. CASE ~Pnm!Has(3)
    <2>1. pc' = "read" /\ p' = 1
      BY <1>1 DEF Pnm!Magic, Pnm!MoreData, Pnm!MoreDataFrom
    <2> QED
      BY <2>1, GluedElsewhere
  <1> DEFINE good == /\ Pnm!At(buf, p) = 80 /\ Pnm!At(buf, p + 1) \in 49..54
                     /\ (Pnm!At(buf, p + 2) = Pnm!Hash \/ Pnm!IsSpace(Pnm!At(buf, p + 2)))
  <1>2. CASE Pnm!Has(3) /\ ~good
    <2>1. pc' = "end"
      BY <1>2 DEF Pnm!Magic, Pnm!End
    <2> QED
      BY <2>1, GluedElsewhere
  <1>3. CASE Pnm!Has(3) /\ good
    <2>1. /\ hdr' = [hdr EXCEPT !.state = 1, !.fmt = Pnm!At(buf, p + 1) - 48, !.incomment = Pnm!At(buf, p + 2) = Pnm!Hash]
          /\ p' = p + 3 /\ pc' = "space" /\ UNCHANGED <<src, off, buf>>
      BY <1>3 DEF Pnm!Magic
    <2>2. src[3] = Pnm!At(buf, p + 2) /\ p + 3 \in p..Len(buf) + 1
      BY <1>3, <1>p, <1>f, MagicBytes
    <2>3. FileIndex' = 4
      <3>1. FileIndex' = FileIndex + ((p + 3) - p)
        BY <1>f, <2>1, <2>2, HerePassed
      <3>2. FileIndex = 1
        BY <1>p, <1>f DEF Following
      <3> QED
        BY <1>0, <3>1, <3>2
    <2>4. hdr'.state = 1 /\ (hdr'.incomment => src[3] = Pnm!Hash)
      <3>1. PICK inc \in BOOLEAN : inc = (Pnm!At(buf, p + 2) = Pnm!Hash)
        OBVIOUS
      <3>2. hdr' = [hdr EXCEPT !.state = 1, !.fmt = Pnm!At(buf, p + 1) - 48, !.incomment = inc]
        BY <2>1, <3>1
      <3>3. hdr'.state = 1 /\ hdr'.incomment = inc
        BY <1>0, <3>2 DEF Header
      <3> QED
        BY <2>2, <3>1, <3>3
    <2>5. PICK h : h = Pnm!BeforeWidth(src)
      OBVIOUS
    <2>6. h.at = 4 /\ h.comment = (src[3] = Pnm!Hash)
      BY <2>5 DEF Pnm!BeforeWidth
    <2>7. From(src, hdr.state)' = h
      BY <2>1, <2>4, <2>5 DEF From
    <2>8. hdr'.incomment => h.comment
      BY <2>4, <2>6
    <2>9. h.at <= 4 /\ \A l \in h.at..4 - 1 : Pnm!IsSpace(Pnm!At(src, l))
      BY <2>6
    <2> QED
      BY <2>1, <2>3, <2>7, <2>8, <2>9 DEF Glued
  <1> QED
    BY <1>1, <1>2, <1>3

LEMMA NumberGlued ==
  ASSUME PnmInv, ImageInv, ~fragile, Pnm!Number
  PROVE  Glued'
  <1>0. /\ Len(src) \in Nat /\ Len(buf) \in Nat /\ p \in Nat \ {0} /\ p \in 1..Len(buf) + 1 /\ hdr \in Header
        /\ buf \in Bytes
    BY ReaderSizes
  <1>p. pc = "token" /\ hdr.state \in 1..3
    BY DEF Pnm!Number
  <1>f. Following
    BY <1>p DEF ImageInv
  <1>1. PICK num : num = Pnm!Strtol(buf, p)
    OBVIOUS
  <1>2. PICK after : after = Pnm!At(buf, num.rest)
    OBVIOUS
  <1> DEFINE good == num.val > 0 /\ (after = Pnm!Hash \/ Pnm!IsSpace(after))
             more == Pnm!At(buf, p) # 0 /\ num.rest > Len(buf)
  <1>3. CASE more
    <2>1. pc' = "read" /\ p' = 1
      BY <1>1, <1>3 DEF Pnm!Number, Pnm!MoreData, Pnm!MoreDataFrom
    <2> QED
      BY <2>1, GluedElsewhere
  <1>4. CASE ~more /\ ~good
    <2>1. pc' = "end"
      BY <1>1, <1>2, <1>4 DEF Pnm!Number, Pnm!End
    <2> QED
      BY <2>1, GluedElsewhere
  <1>5. CASE ~more /\ good
    <2>1. /\ hdr' = [hdr EXCEPT ![<<"width", "height", "maxval">>[hdr.state]] = num.val,
                                !.incomment = @ \/ after = Pnm!Hash,
                                !.state = IF @ = 2 /\ ~Pnm!HasMaxval(hdr) THEN 4 ELSE @ + 1]
          /\ p' = num.rest + 1 /\ pc' = "space" /\ UNCHANGED <<src, off, buf>>
      BY <1>1, <1>2, <1>5 DEF Pnm!Number
    <2>2. PICK v \in Int, r \in p..Len(buf) + 1 : v = num.val /\ r = num.rest
      BY <1>0, <1>1, StrtolType
    <2>3. hdr' = Read(hdr, num.val, after = Pnm!Hash)
      BY ZenonT(60), <1>0, <1>p, <2>1, <2>2, ReadHeader
    <2>4. /\ num.rest <= Len(buf)
          /\ \E k : /\ Spot(src, k) /\ k.at = FileIndex + ((num.rest + 1) - p) /\ k.comment = hdr'.incomment
                    /\ hdr'.state # 4 => From(src, hdr'.state) = k
      <3>1. hdr' = Read(hdr, num.val, Pnm!At(buf, num.rest) = Pnm!Hash)
        BY ZenonT(60), <1>2, <2>3
      <3>2. num.val > 0 /\ (Pnm!At(buf, num.rest) = Pnm!Hash \/ Pnm!IsSpace(Pnm!At(buf, num.rest)))
        BY <1>2, <1>5
      <3> QED
        BY SMTT(60), <1>p, <1>f, <1>1, <3>1, <3>2, NumberRead
    <2>5. PICK k : /\ Spot(src, k) /\ k.at = FileIndex + ((num.rest + 1) - p) /\ k.comment = hdr'.incomment
                   /\ hdr'.state # 4 => From(src, hdr'.state) = k
      BY <2>4
    <2>6. FileIndex' = k.at
      <3>1. num.rest + 1 \in p..Len(buf) + 1
        BY <1>0, <2>2, <2>4
      <3> QED
        BY <1>f, <2>1, <2>5, <3>1, HerePassed
    <2>7. k.at \in Nat
      BY <2>5 DEF Spot
    <2>8. k.at <= k.at /\ \A l \in k.at..k.at - 1 : Pnm!IsSpace(Pnm!At(src, l))
      BY <2>7
    <2>9. hdr'.state \in 1..3 => From(src, hdr.state)' = k
      <3>0. PICK st : st = hdr'.state
        OBVIOUS
      <3>1. src' = src /\ (st \in 1..3 => st # 4)
        <4>1. src' = src
          BY <2>1
        <4>2. st \in 1..3 => st # 4
          OBVIOUS
        <4> QED
          BY <4>1, <4>2
      <3>2. From(src, hdr.state)' = From(src, hdr'.state)
        BY <3>1 DEF From
      <3> QED
        BY <2>5, <3>0, <3>1, <3>2
    <2> QED
      BY <2>1, <2>5, <2>6, <2>8, <2>9 DEF Glued
  <1> QED
    BY <1>3, <1>4, <1>5

LEMMA GlueStep ==
  ASSUME PnmInv, ImageInv, ~fragile => Glued, [Pnm!Next]_Pnm!vars, ~fragile'
  PROVE  Glued'
  <1>1. CASE Pnm!Read
    <2>1. pc = "read" /\ ~fragile /\ (pc' = "end" \/ (pc' = "space" /\ p' = p))
      BY <1>1 DEF Pnm!Read, Pnm!End
    <2>2. p = 1
      BY <2>1 DEF Glued
    <2>3. CASE pc' = "end"
      BY <2>3, GluedElsewhere
    <2>4. CASE pc' = "space" /\ p' = p
      <3>1. ~\E j \in 1..p' - 1 : TRUE
        BY <2>2, <2>4
      <3> QED
        BY <2>4, <3>1 DEF Glued
    <2> QED
      BY <2>1, <2>3, <2>4
  <1>2. CASE Pnm!SkipSpace
    <2>1. ~fragile
      BY <1>2 DEF Pnm!SkipSpace, Pnm!MoreData, Pnm!MoreDataFrom
    <2> QED
      BY <1>2, <2>1, SpaceGlued
  <1>3. CASE Pnm!SkipComment
    <2>1. pc' # "space" /\ (pc' = "read" => p' = 1)
      BY <1>3 DEF Pnm!SkipComment, Pnm!MoreData, Pnm!MoreDataFrom, Pnm!End
    <2> QED
      BY <2>1, GluedElsewhere
  <1>4. CASE Pnm!Magic
    <2>1. ~fragile
      BY <1>4 DEF Pnm!Magic, Pnm!MoreData, Pnm!MoreDataFrom
    <2> QED
      BY <1>4, <2>1, MagicGlued
  <1>5. CASE Pnm!Number
    <2>1. ~fragile
      BY <1>5 DEF Pnm!Number, Pnm!MoreData, Pnm!MoreDataFrom
    <2> QED
      BY <1>5, <2>1, NumberGlued
  <1>6. CASE Pnm!DataBit \/ Pnm!DataBinary \/ Pnm!DataAscii
    <2>1. pc' # "space" /\ (pc' = "read" => p' = 1)
      BY <1>6 DEF Pnm!DataBit, Pnm!DataBinary, Pnm!DataAscii, Pnm!AtData, Pnm!Store, Pnm!MoreData, Pnm!MoreDataFrom, Pnm!End
    <2> QED
      BY <2>1, GluedElsewhere
  <1>7. CASE Pnm!Finish
    <2>1. pc' = "end"
      BY <1>7 DEF Pnm!Finish, Pnm!End
    <2> QED
      BY <2>1, GluedElsewhere
  <1>8. CASE UNCHANGED Pnm!vars
    <2>1. UNCHANGED <<src, off, buf, p, hdr, pc, fragile>>
      BY <1>8 DEF Pnm!vars
    <2> QED
      BY <2>1 DEF Glued, FileIndex
  <1> QED
    BY <1>1, <1>2, <1>3, <1>4, <1>5, <1>6, <1>7, <1>8 DEF Pnm!Next

-----------------------------------------------------------------------------
(***************************************************************************)
(* The invariant of the reader.                                            *)
(***************************************************************************)
LEMMA ImageStarts ==
  ASSUME Pnm!Init
  PROVE  ImageInv
  <1>1. PnmInv
    BY PnmStarts
  <1>0. src \in Bytes /\ Len(src) \in Nat /\ BufLen \in Nat /\ BufLen >= 3
    BY <1>1, ReaderSizes
  <1>2. off = 0 /\ buf = <<>> /\ Len(buf) = 0 /\ p = 1 /\ image = <<>> /\ pc = "read" /\ outcome = "reading" /\ fragile = FALSE
    BY DEF Pnm!Init
  <1>3. hdr.state = 0 /\ ~hdr.incomment /\ hdr.maxval = 1
    BY DEF Pnm!Init
  <1>4. off - Len(buf) = 0 /\ FileIndex = 1
    <2>1. PICK l \in Nat : l = Len(buf) /\ l = 0
      BY <1>2
    <2>2. off - l = 0 /\ (off - l) + p = 1
      BY <1>2, <2>1
    <2> QED
      BY <2>1, <2>2 DEF FileIndex
  <1>5. Held(src, hdr, image, off - Len(buf), buf, p)
    <2>1. ~Midway(hdr, image)
      BY <1>3 DEF Midway
    <2>2. Stands(src, 0, buf, p)
      BY <1>0, <1>2 DEF Stands
    <2> QED
      BY <1>4, <2>1, <2>2 DEF Held
  <1>6. Known(src, hdr)
    BY <1>3 DEF Known
  <1>7. Room
    <2>1. Pnm!IsImage(src) => Len(src) >= 3
      BY DEF Pnm!IsImage, Pnm!IsMagic
    <2> QED
      BY <1>0, <1>2, <2>1 DEF Room
  <1>8. Following
    BY <1>3, <1>4, <1>5, <1>6, <1>7 DEF Following
  <1> QED
    BY <1>2, <1>8 DEF ImageInv

LEMMA ImageStays ==
  ASSUME ImageInv, UNCHANGED Pnm!vars
  PROVE  ImageInv'
  <1>1. UNCHANGED <<src, off, buf, p, hdr, image, pc, outcome, fragile>>
    BY DEF Pnm!vars
  <1>2. Following' = Following
    BY <1>1 DEF Following, Room, FileIndex
  <1>3. Settled' = Settled
    BY <1>1 DEF Settled
  <1> QED
    BY <1>1, <1>2, <1>3 DEF ImageInv

LEMMA ImageStep ==
  ASSUME PnmInv, ImageInv, ~fragile => Glued, ~Pnm!EmptyComment(src), [Pnm!Next]_Pnm!vars
  PROVE  ImageInv'
  <1>1. ASSUME Pnm!Read PROVE ImageInv'
    BY <1>1, ReadFollows
  <1>2. ASSUME Pnm!SkipSpace PROVE ImageInv'
    BY <1>2, SpaceFollows
  <1>3. ASSUME Pnm!SkipComment PROVE ImageInv'
    BY <1>3, CommentFollows
  <1>4. ASSUME Pnm!Magic PROVE ImageInv'
    BY <1>4, MagicFollows
  <1>5. ASSUME Pnm!Number PROVE ImageInv'
    BY <1>5, NumberFollows
  <1>6. ASSUME Pnm!DataBit PROVE ImageInv'
    BY <1>6, BitsFollow
  <1>7. ASSUME Pnm!DataBinary PROVE ImageInv'
    BY <1>7, BytesFollow
  <1>8. ASSUME Pnm!DataAscii PROVE ImageInv'
    BY <1>8, TextFollows
  <1>9. ASSUME Pnm!Finish PROVE ImageInv'
    BY <1>9, FinishFollows
  <1>10. ASSUME UNCHANGED Pnm!vars PROVE ImageInv'
    BY <1>10, ImageStays
  <1> QED
    BY <1>1, <1>2, <1>3, <1>4, <1>5, <1>6, <1>7, <1>8, <1>9, <1>10 DEF Pnm!Next

\* The file stays what it is.
LEMMA FileStays ==
  ASSUME [Pnm!Next]_Pnm!vars
  PROVE  src' = src
  <1>1. CASE Pnm!Read \/ Pnm!SkipSpace \/ Pnm!SkipComment
    BY <1>1 DEF Pnm!Read, Pnm!SkipSpace, Pnm!SkipComment, Pnm!MoreData, Pnm!MoreDataFrom, Pnm!End
  <1>2. CASE Pnm!Magic \/ Pnm!Number \/ Pnm!Finish
    BY <1>2 DEF Pnm!Magic, Pnm!Number, Pnm!Finish, Pnm!MoreData, Pnm!MoreDataFrom, Pnm!End
  <1>3. CASE Pnm!DataBit \/ Pnm!DataBinary \/ Pnm!DataAscii
    BY <1>3 DEF Pnm!DataBit, Pnm!DataBinary, Pnm!DataAscii, Pnm!Store, Pnm!MoreData, Pnm!MoreDataFrom, Pnm!End
  <1>4. CASE UNCHANGED Pnm!vars
    BY <1>4 DEF Pnm!vars
  <1> QED
    BY <1>1, <1>2, <1>3, <1>4 DEF Pnm!Next

LEMMA ReaderStarts ==
  ASSUME Pnm!Init
  PROVE  ReadInv
  <1>1. pc = "read" /\ p = 1
    BY DEF Pnm!Init
  <1> QED
    BY <1>1, ImageStarts DEF ReadInv, Glued

LEMMA ReaderStep ==
  ASSUME PnmInv, ReadInv, [Pnm!Next]_Pnm!vars
  PROVE  ReadInv'
  <1>1. src' = src
    BY FileStays
  <1>2. CASE Pnm!EmptyComment(src)
    BY <1>1, <1>2 DEF ReadInv
  <1>3. CASE ~Pnm!EmptyComment(src)
    <2>1. ImageInv /\ (~fragile => Glued)
      BY <1>3 DEF ReadInv
    <2> QED
      BY <1>3, <2>1, ImageStep, GlueStep DEF ReadInv
  <1> QED
    BY <1>2, <1>3
=============================================================================
