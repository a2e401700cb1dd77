-------------------------- MODULE SequentialProofs --------------------------
(***************************************************************************)
(* Sequential parts of the programs for every value of their constants:    *)
(* the parser of pipelines (lab5/zad1), the table of results (lab1/zad1),  *)
(* the walk over a tree (lab2/zad3) and the hash map (lab5/zad1); those that*)
(* read files otherwise are in ReaderProofs.  Each has an inductive invariant*)
(* of its own; only one part runs, so together they are one for SSpec.     *)
(***************************************************************************)
EXTENDS ReaderProofs, SequenceTheorems, FiniteSetTheorems, WellFoundedInduction, TLAPS

-----------------------------------------------------------------------------
(***************************************************************************)
(* lab5/zad1, the parser of pipelines, for any script over its signs and   *)
(* any size of a piece: what it has made and run is what the grammar of    *)
(* the whole text says of the lines before, however read() cuts the text   *)
(* into pieces, and no pointer into a piece is older than the piece.       *)
(*                                                                         *)
(* The argument: the grammar is a recursive function over the text, line   *)
(* by line and part by part.  The first half turns it into facts about the *)
(* place behind a sign (what a line, a part, a name is when it ends there, *)
(* and that nothing changes between two signs); the second half states     *)
(* what the parser knows at such a place (ParserInv) and shows it for each *)
(* step.  A name that a piece ends in is in scratch, and it is the text    *)
(* since the last sign without the blanks before it.                       *)
(***************************************************************************)
Space == " "
Sym == {"a", "b", Space, "=", "|", "n", "^"}
Word == Seq(Sym)

LEMMA SpaceIs == Space # "n" /\ Space # "=" /\ Space # "|" /\ Space # "^"
  BY Zenon DEF Space

LEMMA TrimText ==
  ASSUME NEW t, NEW i, NEW k
  PROVE  Parser!Trim(t, i, k) = IF {j \in i..k : t[j] # Space} = {} THEN <<>>
                                ELSE SubSeq(t, Parser!Min({j \in i..k : t[j] # Space}),
                                               Parser!Max({j \in i..k : t[j] # Space}))
  BY Zenon DEF Parser!Trim, Space

LEMMA StripText ==
  ASSUME NEW w
  PROVE  Parser!Strip(w) = SubSeq(w, 1, Parser!Max({0} \cup {j \in 1..Len(w) : w[j] # Space}))
  BY Zenon DEF Parser!Strip, Space

LEMMA LeastIs ==
  ASSUME NEW X, X \subseteq Nat, X # {}
  PROVE  Parser!Min(X) \in X /\ \A l \in X : Parser!Min(X) <= l
  <1>1. \E m \in X : \A l \in X : m <= l
    BY Least
  <1> QED
    BY <1>1 DEF Parser!Min

LEMMA GreatestIs ==
  ASSUME NEW a \in Int, NEW X, X \subseteq Int, X # {}, \A l \in X : l <= a
  PROVE  Parser!Max(X) \in X /\ \A l \in X : l <= Parser!Max(X)
  <1> DEFINE Y == {n \in Nat : a - n \in X}
  <1>1. Y \subseteq Nat /\ Y # {}
    <2>1. PICK x \in X : TRUE
      OBVIOUS
    <2>2. a - x \in Nat /\ a - (a - x) = x
      BY <2>1
    <2> QED
      BY <2>1, <2>2
  <1>2. PICK n \in Y : \A l \in Y : n <= l
    <2> HIDE DEF Y
    <2> QED
      BY <1>1, Least
  <1>3. \A l \in X : l <= a - n
    <2> SUFFICES ASSUME NEW l \in X PROVE l <= a - n
      OBVIOUS
    <2>1. a - l \in Nat /\ a - (a - l) = l
      OBVIOUS
    <2>2. n <= a - l
      BY <1>2, <2>1
    <2> QED
      BY <1>2, <2>2
  <1>4. \E m \in X : \A l \in X : l <= m
    BY <1>2, <1>3
  <1> QED
    BY <1>4 DEF Parser!Max

\* The place that memchr finds.
Finds(b, c, i, m) ==
  \/ m = 0 /\ \A j \in i..Len(b) : b[j] # c
  \/ m \in i..Len(b) /\ b[m] = c /\ \A j \in i..m - 1 : b[j] # c

LEMMA NextInIs ==
  ASSUME NEW b, Len(b) \in Nat, NEW c, NEW i \in Nat \ {0}
  PROVE  Finds(b, c, i, Parser!NextIn(b, c, i))
  <1> DEFINE at == {j \in i..Len(b) : b[j] = c}
  <1>1. CASE at = {}
    <2>1. Parser!NextIn(b, c, i) = 0
      BY <1>1 DEF Parser!NextIn
    <2> QED
      BY <1>1, <2>1 DEF Finds
  <1>2. CASE at # {}
    <2>1. at \subseteq Nat
      OBVIOUS
    <2>2. Parser!NextIn(b, c, i) = Parser!Min(at)
      BY <1>2 DEF Parser!NextIn
    <2> HIDE DEF at
    <2>3. PICK m \in at : m = Parser!Min(at) /\ \A l \in at : m <= l
      BY <1>2, <2>1, LeastIs
    <2> USE DEF at
    <2>4. \A j \in i..m - 1 : b[j] # c
      <3> SUFFICES ASSUME NEW j \in i..m - 1, b[j] = c PROVE FALSE
        OBVIOUS
      <3>1. j \in at /\ ~(m <= j)
        BY <2>3
      <3> QED
        BY <2>3, <3>1
    <2> QED
      BY <2>2, <2>3, <2>4 DEF Finds
  <1> QED
    BY <1>1, <1>2

LEMMA FindsOne ==
  ASSUME NEW b, Len(b) \in Nat, NEW c, NEW i \in Nat \ {0}, NEW m, NEW l, Finds(b, c, i, m), Finds(b, c, i, l)
  PROVE  m = l
  BY DEF Finds

\* Symbols that are not the searched one can be left out.
LEMMA NextInSkips ==
  ASSUME NEW b, Len(b) \in Nat, NEW c, NEW i \in Nat \ {0}, NEW k \in Nat \ {0},
         i <= k, k <= Len(b) + 1, \A j \in i..k - 1 : b[j] # c
  PROVE  Parser!NextIn(b, c, k) = Parser!NextIn(b, c, i)
  <1>1. PICK m : m = Parser!NextIn(b, c, k) /\ Finds(b, c, k, m)
    BY NextInIs
  <1>2. Finds(b, c, i, m)
    <2>1. \A j \in i..Len(b) : j \in i..k - 1 \/ j \in k..Len(b)
      OBVIOUS
    <2>2. CASE m = 0 /\ \A j \in k..Len(b) : b[j] # c
      BY <2>1, <2>2 DEF Finds
    <2>3. CASE m \in k..Len(b) /\ b[m] = c /\ \A j \in k..m - 1 : b[j] # c
      <3>1. m \in i..Len(b) /\ \A j \in i..m - 1 : j \in i..k - 1 \/ j \in k..m - 1
        BY <2>3
      <3> QED
        BY <2>3, <3>1 DEF Finds
    <2> QED
      BY <1>1, <2>2, <2>3 DEF Finds
  <1>3. Finds(b, c, i, Parser!NextIn(b, c, i))
    BY NextInIs
  <1> QED
    BY <1>1, <1>2, <1>3, FindsOne

-----------------------------------------------------------------------------
\* Blanks around a word do not belong to it.
Blank(t, i, k) == \A j \in i..k : t[j] = Space

LEMMA TrimBlank ==
  ASSUME NEW t, NEW i, NEW k, Blank(t, i, k)
  PROVE  Parser!Trim(t, i, k) = <<>>
  <1>1. {j \in i..k : t[j] # Space} = {}
    BY DEF Blank
  <1> QED
    BY <1>1, TrimText

LEMMA TrimIs ==
  ASSUME NEW t \in Word, NEW i \in Nat \ {0}, NEW k \in Nat, k <= Len(t),
         NEW w \in i..k, Blank(t, i, w - 1), t[w] # Space
  PROVE  \E z \in w..k : t[z] # Space /\ Blank(t, z + 1, k) /\ Parser!Trim(t, i, k) = SubSeq(t, w, z)
  <1> DEFINE X == {j \in i..k : t[j] # Space}
  <1>1. X \subseteq Nat /\ X \subseteq Int /\ X # {} /\ w \in X /\ \A l \in X : l <= k
    OBVIOUS
  <1>2. PICK z \in X : z = Parser!Max(X) /\ \A l \in X : l <= z
    <2>1. k \in Int
      OBVIOUS
    <2> HIDE DEF X
    <2>2. Parser!Max(X) \in X /\ \A l \in X : l <= Parser!Max(X)
      BY <1>1, <2>1, GreatestIs
    <2> QED
      BY <2>2
  <1>3. Parser!Min(X) = w
    <2>1. Parser!Min(X) \in X /\ \A l \in X : Parser!Min(X) <= l
      <3> HIDE DEF X
      <3> QED
        BY <1>1, LeastIs
    <2>2. PICK m \in X : m = Parser!Min(X) /\ m <= w
      BY <1>1, <2>1
    <2>3. ~(m \in i..w - 1)
      BY <2>2 DEF Blank
    <2> QED
      BY <2>2, <2>3
  <1>4. Parser!Trim(t, i, k) = SubSeq(t, w, z)
    BY <1>1, <1>2, <1>3, TrimText
  <1>5. z \in w..k /\ t[z] # Space
    BY <1>1, <1>2
  <1>6. Blank(t, z + 1, k)
    <2> SUFFICES ASSUME NEW j \in z + 1..k, t[j] # Space PROVE FALSE
      BY DEF Blank
    <2>1. j \in X /\ ~(j <= z)
      BY <1>2, <1>5
    <2> QED
      BY <1>2, <2>1
  <1> QED
    BY <1>4, <1>5, <1>6

\* A part of a text.
LEMMA Piece ==
  ASSUME NEW t \in Word, NEW w \in Nat \ {0}, NEW z \in Nat, w <= z + 1, z <= Len(t)
  PROVE  /\ SubSeq(t, w, z) \in Word /\ Len(SubSeq(t, w, z)) = z - w + 1
         /\ \A j \in 1..z - w + 1 : SubSeq(t, w, z)[j] = t[w + j - 1]
  <1>0. Len(t) \in Nat /\ \A j \in w..z : j \in 1..Len(t)
    BY LenProperties
  <1>1. SubSeq(t, w, z) \in Word
    BY <1>0, SubSeqProperties DEF Word
  <1>2. Len(SubSeq(t, w, z)) = z - w + 1
    <2>1. w \in Int /\ z \in Int /\ w <= z + 1
      OBVIOUS
    <2> QED
      BY <1>0, <2>1, SubSeqProperties DEF Word
  <1>3. \A j \in 1..z - w + 1 : SubSeq(t, w, z)[j] = t[w + j - 1]
    BY <1>0, SubSeqProperties DEF Word
  <1> QED
    BY <1>1, <1>2, <1>3

\* What Strip leaves of a word is what Trim finds of it in the text.
LEMMA StripIsTrim ==
  ASSUME NEW t \in Word, NEW i \in Nat \ {0}, NEW k \in Nat, k <= Len(t),
         NEW w \in i..k, Blank(t, i, w - 1), t[w] # Space
  PROVE  Parser!Strip(SubSeq(t, w, k)) = Parser!Trim(t, i, k)
  <1>0. PICK s \in Word : s = SubSeq(t, w, k) /\ Len(s) = k - w + 1 /\ \A j \in 1..k - w + 1 : s[j] = t[w + j - 1]
    <2>1. w \in Nat \ {0} /\ w <= k + 1
      OBVIOUS
    <2> QED
      BY <2>1, Piece
  <1>1. PICK z \in w..k : t[z] # Space /\ Blank(t, z + 1, k) /\ Parser!Trim(t, i, k) = SubSeq(t, w, z)
    BY TrimIs
  <1> DEFINE X == {0} \cup {j \in 1..Len(s) : s[j] # Space}
             n == z - w + 1
  <1>2. n \in X
    <2>1. n \in 1..Len(s) /\ w + n - 1 = z
      BY <1>0, <1>1
    <2> QED
      BY <1>0, <1>1, <2>1
  <1>3. \A l \in X : l <= n
    <2> SUFFICES ASSUME NEW l \in 1..Len(s), s[l] # Space, l > n PROVE FALSE
      BY <1>0, <1>1
    <2>1. w + l - 1 \in z + 1..k /\ s[l] = t[w + l - 1]
      BY <1>0, <1>1
    <2> QED
      BY <1>1, <2>1 DEF Blank
  <1>4. Parser!Max(X) = n
    <2>0. n \in Nat
      BY <1>1
    <2>1. X \subseteq Int
      OBVIOUS
    <2> HIDE DEF X, n
    <2>2. Parser!Max(X) \in X /\ \A l \in X : l <= Parser!Max(X)
      BY <1>2, <1>3, <2>0, <2>1, GreatestIs
    <2>3. Parser!Max(X) <= n /\ n <= Parser!Max(X) /\ Parser!Max(X) \in Int
      BY <1>2, <1>3, <2>1, <2>2
    <2> QED
      BY <2>0, <2>3
  <1>5. Parser!Strip(s) = SubSeq(s, 1, n)
    BY <1>4, StripText
  <1> HIDE DEF X
  <1>6. SubSeq(s, 1, n) = SubSeq(t, w, z)
    <2>1. n \in Nat /\ n <= Len(s)
      BY <1>0, <1>1
    <2>0. w \in Nat \ {0} /\ z \in Nat /\ w <= z + 1 /\ z <= Len(t) /\ 1 <= n + 1 /\ Len(t) \in Nat
      <3>1. Len(t) \in Nat
        BY LenProperties DEF Word
      <3> QED
        BY <1>1, <3>1
    <2> HIDE DEF n
    <2>2. PICK u \in Word : u = SubSeq(s, 1, n) /\ Len(u) = n - 1 + 1 /\ \A j \in 1..n - 1 + 1 : u[j] = s[1 + j - 1]
      <3>1. 1 \in Nat \ {0} /\ n \in Nat /\ 1 <= n + 1 /\ n <= Len(s) /\ s \in Word
        BY <2>0, <2>1
      <3> QED
        BY ZenonT(60), <3>1, Piece
    <2>3. PICK v \in Word : v = SubSeq(t, w, z) /\ Len(v) = z - w + 1 /\ \A j \in 1..z - w + 1 : v[j] = t[w + j - 1]
      BY ZenonT(60), <2>0, Piece
    <2>4. Len(u) = Len(v) /\ Len(u) = n
      BY <2>1, <2>2, <2>3 DEF n
    <2>5. \A j \in 1..Len(u) : u[j] = v[j]
      <3> SUFFICES ASSUME NEW j \in 1..Len(u) PROVE u[j] = v[j]
        OBVIOUS
      <3>1. j \in 1..n - 1 + 1 /\ 1 + j - 1 = j /\ j \in 1..z - w + 1 /\ j \in 1..k - w + 1
        BY <1>0, <1>1, <2>1, <2>2, <2>3, <2>4
      <3>2. u[j] = s[j] /\ v[j] = t[w + j - 1] /\ s[j] = t[w + j - 1]
        BY <1>0, <2>2, <2>3, <3>1
      <3> QED
        BY <3>2
    <2> QED
      BY <2>2, <2>3, <2>4, <2>5, SeqEqual DEF Word
  <1> QED
    BY <1>0, <1>1, <1>5, <1>6

\* What a trimmed part begins with and consists of.
LEMMA TrimBegins ==
  ASSUME NEW t \in Word, NEW i \in Nat \ {0}, NEW k \in Nat, k <= Len(t),
         NEW w \in i..k, Blank(t, i, w - 1), t[w] # Space
  PROVE  /\ Parser!Trim(t, i, k) # <<>> /\ Parser!Trim(t, i, k)[1] = t[w]
         /\ \A j \in w..k : t[j] # Space => \E n \in 1..Len(Parser!Trim(t, i, k)) : Parser!Trim(t, i, k)[n] = t[j]
         /\ \A n \in 1..Len(Parser!Trim(t, i, k)) : \E j \in w..k : Parser!Trim(t, i, k)[n] = t[j]
  <1>1. PICK z \in w..k : t[z] # Space /\ Blank(t, z + 1, k) /\ Parser!Trim(t, i, k) = SubSeq(t, w, z)
    BY TrimIs
  <1>2. w \in Nat \ {0} /\ z \in Nat /\ w <= z + 1 /\ z <= Len(t) /\ w <= z /\ z <= k
    BY LenProperties, <1>1 DEF Word
  <1>3. PICK v \in Word : v = Parser!Trim(t, i, k) /\ Len(v) = z - w + 1 /\ \A j \in 1..z - w + 1 : v[j] = t[w + j - 1]
    BY <1>1, <1>2, Piece
  <1>4. v # <<>> /\ v[1] = t[w]
    <2>1. 1 \in 1..z - w + 1 /\ w + 1 - 1 = w /\ Len(v) # 0
      BY <1>2, <1>3
    <2>2. v[1] = t[w + 1 - 1]
      BY <1>3, <2>1
    <2>3. v # <<>>
      BY <2>1
    <2> QED
      BY <2>1, <2>2, <2>3
  <1>5. ASSUME NEW j \in w..k, t[j] # Space PROVE \E n \in 1..Len(v) : v[n] = t[j]
    <2>1. ~(j \in z + 1..k)
      BY <1>1, <1>5 DEF Blank
    <2>2. j - w + 1 \in 1..z - w + 1 /\ w + (j - w + 1) - 1 = j
      BY <1>2, <2>1
    <2>3. v[j - w + 1] = t[j]
      BY <1>3, <2>2
    <2> QED
      BY <1>3, <2>2, <2>3
  <1>6. ASSUME NEW n \in 1..Len(v) PROVE \E j \in w..k : v[n] = t[j]
    <2>1. w + n - 1 \in w..k
      BY <1>2, <1>3
    <2> QED
      BY <1>3, <2>1
  <1> QED
    BY <1>3, <1>4, <1>5, <1>6

\* A trimmed part is a word.
LEMMA TrimWord ==
  ASSUME NEW t \in Word, NEW i \in Nat \ {0}, NEW k \in Int, k <= Len(t)
  PROVE  Parser!Trim(t, i, k) \in Word
  <1> DEFINE X == {j \in i..k : t[j] # Space}
  <1>1. CASE X = {}
    <2>1. Parser!Trim(t, i, k) = <<>>
      BY <1>1, TrimText
    <2> QED
      BY <2>1, EmptySeq DEF Word
  <1>2. CASE X # {}
    <2>1. X \subseteq Nat /\ k \in Nat
      BY <1>2
    <2> HIDE DEF X
    <2>2. PICK w \in X : \A l \in X : w <= l
      BY <1>2, <2>1, Least
    <2> USE DEF X
    <2>3. w \in i..k /\ t[w] # Space
      BY <2>2
    <2>4. Blank(t, i, w - 1)
      <3> SUFFICES ASSUME NEW j \in i..w - 1, t[j] # Space PROVE FALSE
        BY DEF Blank
      <3>1. j \in X /\ ~(w <= j)
        BY <2>3
      <3> QED
        BY <2>2, <3>1
    <2>5. PICK z \in w..k : Parser!Trim(t, i, k) = SubSeq(t, w, z)
      BY <2>1, <2>3, <2>4, TrimIs
    <2>6. w \in Nat \ {0} /\ z \in Nat /\ w <= z + 1 /\ z <= Len(t)
      BY <2>3, LenProperties DEF Word
    <2> QED
      BY <2>5, <2>6, Piece
  <1> QED
    BY <1>1, <1>2

-----------------------------------------------------------------------------
\* The last sign before a place, or from.
IsLast(t, c, from, to, m) ==
  m \in from..to - 1 /\ (m = from \/ t[m] = c) /\ \A j \in m + 1..to - 1 : t[j] # c

LEMMA LastIs ==
  ASSUME NEW t, NEW c, NEW from \in Nat, NEW to \in Nat, from < to, NEW m, IsLast(t, c, from, to, m)
  PROVE  Parser!LastSign(t, c, from, to) = m
  <1> DEFINE X == {from} \cup {j \in from + 1..to - 1 : t[j] = c}
  <1>1. m \in X /\ m \in Nat
    BY DEF IsLast
  <1>2. \A l \in X : l <= m
    <2> SUFFICES ASSUME NEW l \in X, ~(l <= m) PROVE FALSE
      OBVIOUS
    <2>1. l \in m + 1..to - 1 /\ t[l] = c
      BY DEF IsLast
    <2> QED
      BY <2>1 DEF IsLast
  <1>3. X \subseteq Int
    OBVIOUS
  <1> HIDE DEF X
  <1>4. Parser!Max(X) \in X /\ \A l \in X : l <= Parser!Max(X)
    BY <1>1, <1>2, <1>3, GreatestIs
  <1>5. Parser!Max(X) <= m /\ m <= Parser!Max(X) /\ Parser!Max(X) \in Int
    BY <1>1, <1>2, <1>3, <1>4
  <1>6. Parser!Max(X) = m
    BY <1>1, <1>5
  <1> USE DEF X
  <1> QED
    BY <1>6 DEF Parser!LastSign

LEMMA GrowsBy ==
  ASSUME NEW S, NEW u \in Seq(S), NEW v \in Seq(S), NEW w \in S,
         Len(u) <= Len(v), \A i \in 1..Len(u) : v[i] = u[i]
  PROVE  Len(u) <= Len(Append(v, w)) /\ \A i \in 1..Len(u) : Append(v, w)[i] = u[i]
  <1>1. Len(Append(v, w)) = Len(v) + 1 /\ \A i \in 1..Len(v) : Append(v, w)[i] = v[i]
    BY AppendProperties
  <1>2. Len(u) \in Nat /\ Len(v) \in Nat
    BY LenProperties
  <1>3. \A i \in 1..Len(u) : i \in 1..Len(v)
    BY <1>2
  <1> QED
    BY <1>1, <1>2, <1>3

-----------------------------------------------------------------------------
\* The parts before a place exist and are words.
PartsBy(t, from, m, g) ==
  [k \in from..m |-> IF k = from THEN <<>>
                     ELSE IF t[k] = "|" THEN Append(g[k - 1], Parser!Part(t, from, k)) ELSE g[k - 1]]

LEMMA PartsExist ==
  ASSUME NEW t, NEW from \in Nat, NEW m \in Nat
  PROVE  \E g : g = PartsBy(t, from, from + m, g)
  <1> DEFINE Some(l) == \E g : g = PartsBy(t, from, from + l, g)
             Bad == {l \in Nat : ~Some(l)}
  <1>1. Some(0)
    <2>1. PICK g : g = [k \in from..from |-> <<>>]
      OBVIOUS
    <2>2. \A k \in from..from + 0 : k = from
      OBVIOUS
    <2>3. from + 0 = from
      OBVIOUS
    <2>4. g = PartsBy(t, from, from + 0, g)
      BY <2>1, <2>2, <2>3 DEF PartsBy
    <2> QED
      BY <2>4
  <1>2. ASSUME NEW l \in Nat, Some(l) PROVE Some(l + 1)
    <2>0. PICK e \in Nat : e = from + l /\ e + 1 = from + (l + 1) /\ from <= e
      OBVIOUS
    <2>1. PICK g : g = PartsBy(t, from, e, g)
      BY <1>2, <2>0
    <2>2. PICK h : h = PartsBy(t, from, e + 1, g)
      OBVIOUS
    <2>3. \A k \in from..e : h[k] = g[k]
      <3> SUFFICES ASSUME NEW k \in from..e PROVE h[k] = g[k]
        OBVIOUS
      <3>1. k \in from..e + 1
        BY <2>0
      <3>2. h[k] = PartsBy(t, from, e, g)[k]
        BY <2>2, <3>1 DEF PartsBy
      <3> QED
        BY <2>1, <3>2
    <2>4. \A k \in from..e + 1 : k # from => k - 1 \in from..e
      BY <2>0
    <2>5. PartsBy(t, from, e + 1, h) = PartsBy(t, from, e + 1, g)
      BY <2>3, <2>4 DEF PartsBy
    <2> QED
      BY <2>0, <2>2, <2>5
  <1> HIDE DEF Some
  <1> SUFFICES ASSUME Bad # {} PROVE FALSE
    BY DEF Some
  <1>3. PICK l \in Bad : \A x \in Bad : l <= x
    BY Least
  <1>4. l # 0 /\ l \in Nat
    BY <1>1, <1>3
  <1>5. l - 1 \in Nat /\ l - 1 \notin Bad
    BY <1>3, <1>4
  <1>6. Some((l - 1) + 1)
    BY <1>2, <1>5
  <1> QED
    BY <1>3, <1>4, <1>6

LEMMA PartsAre ==
  ASSUME NEW t, Len(t) \in Nat, NEW from \in 0..Len(t)
  PROVE  /\ Parser!PartsBefore(t, from)[from] = <<>>
         /\ \A k \in from + 1..Len(t) :
              Parser!PartsBefore(t, from)[k] =
                IF t[k] = "|" THEN Append(Parser!PartsBefore(t, from)[k - 1], Parser!Part(t, from, k))
                ELSE Parser!PartsBefore(t, from)[k - 1]
  <1>1. PICK g : g = PartsBy(t, from, Len(t), g) /\ g = CHOOSE x : x = PartsBy(t, from, Len(t), x)
    <2>1. PICK l \in Nat : from + l = Len(t) /\ from \in Nat
      <3>1. Len(t) - from \in Nat /\ from + (Len(t) - from) = Len(t) /\ from \in Nat
        OBVIOUS
      <3> QED
        BY <3>1
    <2>2. \E g : g = PartsBy(t, from, from + l, g)
      BY ZenonT(60), <2>1, PartsExist
    <2>3. \E g : g = PartsBy(t, from, Len(t), g)
      BY <2>1, <2>2
    <2> QED
      BY SMTT(60), <2>3
  <1>2. Parser!PartsBefore(t, from) = g
    BY <1>1 DEF Parser!PartsBefore, PartsBy
  <1>3. from \in from..Len(t) /\ \A k \in from + 1..Len(t) : k \in from..Len(t) /\ k # from
    OBVIOUS
  <1>4. g[from] = <<>>
    BY <1>1, <1>3 DEF PartsBy
  <1>5. \A k \in from + 1..Len(t) :
          g[k] = IF t[k] = "|" THEN Append(g[k - 1], Parser!Part(t, from, k)) ELSE g[k - 1]
    BY <1>1, <1>3 DEF PartsBy
  <1> QED
    BY <1>2, <1>4, <1>5

LEMMA LastBounds ==
  ASSUME NEW t, NEW c, NEW from \in Nat, NEW to \in Nat, from < to
  PROVE  Parser!LastSign(t, c, from, to) \in from..to - 1
  <1> DEFINE X == {from} \cup {j \in from + 1..to - 1 : t[j] = c}
  <1>1. X \subseteq Int /\ X # {} /\ \A l \in X : l <= to - 1 /\ from <= l
    OBVIOUS
  <1>2. to - 1 \in Int
    OBVIOUS
  <1> HIDE DEF X
  <1>3. Parser!Max(X) \in X
    BY <1>1, <1>2, GreatestIs
  <1>4. Parser!Max(X) \in from..to - 1
    <2>1. PICK x \in Int : x = Parser!Max(X) /\ from <= x /\ x <= to - 1
      BY <1>1, <1>3
    <2> QED
      BY <2>1
  <1> USE DEF X
  <1> QED
    BY <1>4 DEF Parser!LastSign

LEMMA PartWord ==
  ASSUME NEW t \in Word, NEW from \in Nat, NEW to \in Nat, from < to, to <= Len(t) + 1
  PROVE  Parser!Part(t, from, to) \in Word
  <1>1. PICK m \in from..to - 1 : m = Parser!LastSign(t, "|", from, to)
    BY LastBounds
  <1>2. m + 1 \in Nat \ {0} /\ to - 1 \in Int /\ to - 1 <= Len(t)
    BY LenProperties DEF Word
  <1>3. Parser!Trim(t, m + 1, to - 1) \in Word
    BY <1>2, TrimWord
  <1> QED
    BY <1>1, <1>3 DEF Parser!Part

LEMMA PartsWords ==
  ASSUME NEW t \in Word, NEW from \in 0..Len(t)
  PROVE  \A k \in from..Len(t) : Parser!PartsBefore(t, from)[k] \in Seq(Word)
  <1>0. Len(t) \in Nat /\ from \in Nat
    BY LenProperties DEF Word
  <1> DEFINE Bad == {k \in from..Len(t) : Parser!PartsBefore(t, from)[k] \notin Seq(Word)}
  <1> SUFFICES ASSUME Bad # {} PROVE FALSE
    OBVIOUS
  <1>1. PICK k \in Bad : \A l \in Bad : k <= l
    <2>1. Bad \subseteq Nat
      BY <1>0
    <2> HIDE DEF Bad
    <2> QED
      BY <2>1, Least
  <1>2. k # from
    <2>1. <<>> \in Seq(Word)
      BY EmptySeq
    <2>2. Parser!PartsBefore(t, from)[from] = <<>>
      BY <1>0, PartsAre
    <2> QED
      BY <1>1, <2>1, <2>2
  <1>3. k \in from + 1..Len(t) /\ k - 1 \in from..Len(t) /\ ~(k <= k - 1) /\ k \in Nat /\ from < k /\ k <= Len(t) + 1
    BY <1>0, <1>1, <1>2
  <1>4. Parser!PartsBefore(t, from)[k - 1] \in Seq(Word)
    BY <1>1, <1>3
  <1>5. Parser!Part(t, from, k) \in Word
    BY <1>0, <1>3, PartWord
  <1>6. Append(Parser!PartsBefore(t, from)[k - 1], Parser!Part(t, from, k)) \in Seq(Word)
    BY <1>4, <1>5, AppendProperties
  <1>7. Parser!PartsBefore(t, from)[k] =
          IF t[k] = "|" THEN Append(Parser!PartsBefore(t, from)[k - 1], Parser!Part(t, from, k))
          ELSE Parser!PartsBefore(t, from)[k - 1]
    <2>1. Len(t) \in Nat /\ from \in 0..Len(t) /\ k \in from + 1..Len(t)
      BY <1>0, <1>3
    <2> QED
      BY <2>1, PartsAre
  <1>8. Parser!PartsBefore(t, from)[k] \in Seq(Word)
    BY <1>4, <1>6, <1>7
  <1> QED
    BY <1>1, <1>8

\* Without a pipe there is no new part.
LEMMA PartsFlat ==
  ASSUME NEW t \in Word, NEW from \in 0..Len(t), NEW a \in from..Len(t), NEW e \in a..Len(t),
         \A j \in a + 1..e : t[j] # "|"
  PROVE  Parser!PartsBefore(t, from)[e] = Parser!PartsBefore(t, from)[a]
  <1>0. Len(t) \in Nat /\ from \in Nat /\ a \in Nat
    BY LenProperties DEF Word
  <1> DEFINE Bad == {k \in a..e : Parser!PartsBefore(t, from)[k] # Parser!PartsBefore(t, from)[a]}
  <1> SUFFICES ASSUME Bad # {} PROVE FALSE
    BY <1>0
  <1>1. PICK k \in Bad : \A l \in Bad : k <= l
    <2>1. Bad \subseteq Nat
      BY <1>0
    <2> HIDE DEF Bad
    <2> QED
      BY <2>1, Least
  <1>2. k # a /\ k \in a..e
    BY <1>1
  <1>3. k \in from + 1..Len(t) /\ k - 1 \in a..e /\ ~(k <= k - 1) /\ k \in a + 1..e
    BY <1>0, <1>2
  <1>4. Parser!PartsBefore(t, from)[k - 1] = Parser!PartsBefore(t, from)[a]
    BY <1>1, <1>3
  <1>5. Parser!PartsBefore(t, from)[k] = Parser!PartsBefore(t, from)[k - 1]
    BY <1>0, <1>3, PartsAre
  <1> QED
    BY <1>1, <1>4, <1>5

\* What was a part remains one.
Extends(u, v) == Len(u) <= Len(v) /\ \A i \in 1..Len(u) : v[i] = u[i]

LEMMA PartsRemain ==
  ASSUME NEW t \in Word, NEW from \in 0..Len(t), NEW a \in from..Len(t), NEW e \in a..Len(t)
  PROVE  Extends(Parser!PartsBefore(t, from)[a], Parser!PartsBefore(t, from)[e])
  <1>0. Len(t) \in Nat /\ from \in Nat /\ a \in Nat
    BY LenProperties DEF Word
  <1>a. \A k \in a..e : Parser!PartsBefore(t, from)[k] \in Seq(Word) /\ Len(Parser!PartsBefore(t, from)[k]) \in Nat
    <2>1. \A k \in a..e : k \in from..Len(t)
      BY <1>0
    <2> QED
      BY <1>0, <2>1, PartsWords, LenProperties
  <1> DEFINE Bad == {k \in a..e : ~Extends(Parser!PartsBefore(t, from)[a], Parser!PartsBefore(t, from)[k])}
  <1> SUFFICES ASSUME Bad # {} PROVE FALSE
    BY <1>0
  <1>1. PICK k \in Bad : \A l \in Bad : k <= l
    <2>1. Bad \subseteq Nat
      BY <1>0
    <2> HIDE DEF Bad
    <2> QED
      BY <2>1, Least
  <1>2. k # a /\ k \in a..e
    <2>1. a \in a..e
      BY <1>0
    <2>2. Extends(Parser!PartsBefore(t, from)[a], Parser!PartsBefore(t, from)[a])
      BY <1>a, <2>1 DEF Extends
    <2> QED
      BY <1>1, <2>2
  <1>3. k \in from + 1..Len(t) /\ k - 1 \in a..e /\ ~(k <= k - 1) /\ k \in Nat /\ from < k /\ k <= Len(t) + 1
    BY <1>0, <1>2
  <1>4. Extends(Parser!PartsBefore(t, from)[a], Parser!PartsBefore(t, from)[k - 1])
    BY <1>1, <1>3
  <1>5. Parser!PartsBefore(t, from)[k] = Parser!PartsBefore(t, from)[k - 1]
        \/ Parser!PartsBefore(t, from)[k] = Append(Parser!PartsBefore(t, from)[k - 1], Parser!Part(t, from, k))
    BY ZenonT(60), <1>0, <1>3, PartsAre
  <1>6. Parser!Part(t, from, k) \in Word
    BY <1>0, <1>3, PartWord
  <1>7. PICK u \in Seq(Word), v \in Seq(Word), w \in Word :
          u = Parser!PartsBefore(t, from)[a] /\ v = Parser!PartsBefore(t, from)[k - 1] /\ w = Parser!Part(t, from, k)
    <2>1. a \in a..e
      BY <1>0
    <2> QED
      BY <1>a, <1>3, <1>6, <2>1
  <1>8. Extends(u, v) => Extends(u, Append(v, w))
    BY GrowsBy DEF Extends
  <1> QED
    BY <1>1, <1>4, <1>5, <1>7, <1>8

LEMMA LineSkipped ==
  ASSUME NEW t, NEW acc, NEW from, NEW to, acc.outcome # "ok"
  PROVE  Parser!Line(t, acc, from, to, "program") = acc
  BY Zenon DEF Parser!Line

-----------------------------------------------------------------------------
\* b is where the part at h begins: the last pipe, or the place from.
Begins(t, from, b, h) ==
  b \in from..h /\ (b = from \/ t[b] = "|") /\ \A j \in b + 1..h : t[j] # "|"
\* k ends the part that h lies in, of a line that ends at to.
Ends(t, h, k, to) == k \in h + 1..to /\ (k = to \/ t[k] = "|") /\ \A j \in h + 1..k - 1 : t[j] # "|"

LEMMA PartEnds ==
  ASSUME NEW t, NEW h \in Nat, NEW to \in Nat, h < to
  PROVE  \E k \in Nat : Ends(t, h, k, to)
  <1> DEFINE X == {k \in h + 1..to : k = to \/ t[k] = "|"}
  <1>1. X \subseteq Nat /\ to \in X
    OBVIOUS
  <1>2. PICK k \in X : \A l \in X : k <= l
    <2> HIDE DEF X
    <2> QED
      BY <1>1, Least
  <1>3. \A j \in h + 1..k - 1 : t[j] # "|"
    <2> SUFFICES ASSUME NEW j \in h + 1..k - 1, t[j] = "|" PROVE FALSE
      OBVIOUS
    <2>1. j \in X /\ ~(k <= j)
      BY <1>2
    <2> QED
      BY <1>2, <2>1
  <1>4. k \in Nat
    BY <1>1, <1>2
  <1> QED
    BY <1>2, <1>3, <1>4 DEF Ends

LEMMA PartIs ==
  ASSUME NEW t, NEW from \in Nat, NEW h \in Nat, NEW b, Begins(t, from, b, h),
         NEW k \in Nat, h < k, \A j \in h + 1..k - 1 : t[j] # "|"
  PROVE  Parser!Part(t, from, k) = Parser!Trim(t, b + 1, k - 1)
  <1>1. IsLast(t, "|", from, k, b)
    <2>1. b \in from..k - 1
      BY DEF Begins
    <2>2. \A j \in b + 1..k - 1 : j \in b + 1..h \/ j \in h + 1..k - 1
      BY DEF Begins
    <2> QED
      BY <2>1, <2>2 DEF IsLast, Begins
  <1>2. from < k
    BY DEF Begins
  <1>3. Parser!LastSign(t, "|", from, k) = b
    BY <1>1, <1>2, LastIs
  <1> QED
    BY <1>3 DEF Parser!Part

\* The parts of a line go on from those before h with the one that h lies in.
LEMMA PartsGoOn ==
  ASSUME NEW t \in Word, NEW from \in 0..Len(t), NEW h \in from..Len(t), NEW b, Begins(t, from, b, h),
         NEW to \in h + 1..Len(t), NEW k, Ends(t, h, k, to),
         NEW done, done = Parser!PartsBefore(t, from)[h]
  PROVE  /\ Parser!Parts(t, from, to) \in Seq(Word)
         /\ Len(done) + 1 <= Len(Parser!Parts(t, from, to))
         /\ \A i \in 1..Len(done) : Parser!Parts(t, from, to)[i] = done[i]
         /\ Parser!Parts(t, from, to)[Len(done) + 1] = Parser!Trim(t, b + 1, k - 1)
         /\ k = to => Parser!Parts(t, from, to) = Append(done, Parser!Trim(t, b + 1, k - 1))
  <1>0. Len(t) \in Nat /\ from \in Nat /\ h \in Nat /\ to \in Nat /\ k \in Nat /\ h < k /\ k <= to /\ to <= Len(t)
    BY LenProperties DEF Word, Ends
  <1>1. done \in Seq(Word) /\ Len(done) \in Nat
    BY PartsWords, LenProperties
  <1>2. Parser!Part(t, from, k) = Parser!Trim(t, b + 1, k - 1) /\ Parser!Part(t, from, k) \in Word
    <2>1. from < k /\ k <= Len(t) + 1
      BY <1>0
    <2>2. \A j \in h + 1..k - 1 : t[j] # "|"
      BY DEF Ends
    <2>3. Parser!Part(t, from, k) = Parser!Trim(t, b + 1, k - 1)
      BY <1>0, <2>2, PartIs
    <2>4. Parser!Part(t, from, k) \in Word
      BY <1>0, <2>1, PartWord
    <2> QED
      BY <2>3, <2>4
  <1>3. PICK w \in Word : w = Parser!Trim(t, b + 1, k - 1) /\ Parser!Part(t, from, k) = w
    BY <1>2
  <1>4. Append(done, w) \in Seq(Word) /\ Len(Append(done, w)) = Len(done) + 1
        /\ (\A i \in 1..Len(done) : Append(done, w)[i] = done[i]) /\ Append(done, w)[Len(done) + 1] = w
    BY <1>1, <1>3, AppendProperties
  <1>5. Parser!PartsBefore(t, from)[k - 1] = done
    <2>1. k - 1 \in h..Len(t) /\ \A j \in h + 1..k - 1 : t[j] # "|"
      BY <1>0 DEF Ends
    <2> QED
      BY <1>0, <2>1, PartsFlat
  <1>6. CASE k = to
    <2>1. Parser!Parts(t, from, to) = Append(done, w)
      BY <1>3, <1>5, <1>6 DEF Parser!Parts
    <2>2. Len(done) + 1 <= Len(Append(done, w))
      BY <1>1, <1>4
    <2> QED
      BY <1>3, <1>4, <2>1, <2>2
  <1>7. CASE k # to
    <2>1. t[k] = "|" /\ k \in from + 1..Len(t) /\ k < to
      BY <1>0, <1>7 DEF Ends
    <2>2. Parser!PartsBefore(t, from)[k] = Append(done, w)
      BY <1>0, <1>3, <1>5, <2>1, PartsAre
    <2>3. k \in from..Len(t) /\ to - 1 \in k..Len(t) /\ to - 1 \in from..Len(t)
      BY <1>0, <2>1
    <2>4. PICK v \in Seq(Word) : v = Parser!PartsBefore(t, from)[to - 1] /\ Extends(Append(done, w), v)
      BY <2>2, <2>3, PartsRemain, PartsWords
    <2>5. PICK u \in Word : u = Parser!Part(t, from, to)
      BY <1>0, <2>1, PartWord
    <2>6. Parser!Parts(t, from, to) = Append(v, u)
      BY <2>4, <2>5 DEF Parser!Parts
    <2>7. Append(v, u) \in Seq(Word)
      BY AppendProperties
    <2>8. Len(Append(done, w)) <= Len(Append(v, u)) /\ \A i \in 1..Len(Append(done, w)) : Append(v, u)[i] = Append(done, w)[i]
      BY SMTT(60), <1>4, <2>4, GrowsBy DEF Extends
    <2>9. \A i \in 1..Len(done) : i \in 1..Len(Append(done, w))
      BY <1>1, <1>4
    <2>10. Len(done) + 1 \in 1..Len(Append(done, w))
      BY <1>1, <1>4
    <2>11. \A i \in 1..Len(done) : Append(v, u)[i] = done[i]
      BY <1>4, <2>8, <2>9
    <2>12. Append(v, u)[Len(done) + 1] = w
      BY <1>4, <2>8, <2>10
    <2>13. Len(done) + 1 <= Len(Append(v, u))
      BY <1>4, <2>8
    <2> QED
      BY <1>3, <1>7, <2>6, <2>7, <2>11, <2>12, <2>13
  <1> QED
    BY <1>6, <1>7

-----------------------------------------------------------------------------
\* What the lines before a place amount to.
LinesBy(t, by, m, g) ==
  [k \in 0..m |-> IF k = 0 THEN [defs |-> <<>>, ran |-> <<>>, outcome |-> "ok"]
                  ELSE IF t[k] = "n" THEN Parser!Line(t, g[k - 1], Parser!LastSign(t, "n", 0, k), k, by)
                  ELSE g[k - 1]]

LEMMA ObeyedExists ==
  ASSUME NEW t, NEW by, NEW m \in Nat
  PROVE  \E g : g = LinesBy(t, by, m, g)
  <1> DEFINE Some(l) == \E g : g = LinesBy(t, by, l, g)
             Bad == {l \in Nat : ~Some(l)}
  <1>1. Some(0)
    <2>1. PICK g : g = [k \in 0..0 |-> [defs |-> <<>>, ran |-> <<>>, outcome |-> "ok"]]
      OBVIOUS
    <2>2. \A k \in 0..0 : k = 0
      OBVIOUS
    <2>3. g = LinesBy(t, by, 0, g)
      BY <2>1, <2>2 DEF LinesBy
    <2> QED
      BY <2>3
  <1>2. ASSUME NEW l \in Nat, Some(l) PROVE Some(l + 1)
    <2>1. PICK g : g = LinesBy(t, by, l, g)
      BY <1>2
    <2>2. PICK h : h = LinesBy(t, by, l + 1, g)
      OBVIOUS
    <2>3. \A k \in 0..l : h[k] = g[k]
      <3> SUFFICES ASSUME NEW k \in 0..l PROVE h[k] = g[k]
        OBVIOUS
      <3>1. k \in 0..l + 1
        OBVIOUS
      <3>2. h[k] = LinesBy(t, by, l, g)[k]
        BY <2>2, <3>1 DEF LinesBy
      <3> QED
        BY <2>1, <3>2
    <2>4. \A k \in 0..l + 1 : k # 0 => k - 1 \in 0..l
      OBVIOUS
    <2>5. LinesBy(t, by, l + 1, h) = LinesBy(t, by, l + 1, g)
      BY <2>3, <2>4 DEF LinesBy
    <2> QED
      BY <2>2, <2>5
  <1> HIDE DEF Some
  <1> SUFFICES ASSUME Bad # {} PROVE FALSE
    BY DEF Some
  <1>3. PICK l \in Bad : \A x \in Bad : l <= x
    BY Least
  <1>4. l # 0 /\ l \in Nat
    BY <1>1, <1>3
  <1>5. l - 1 \in Nat /\ l - 1 \notin Bad
    BY <1>3, <1>4
  <1>6. Some((l - 1) + 1)
    BY <1>2, <1>5
  <1> QED
    BY <1>3, <1>4, <1>6

LEMMA LinesAre ==
  ASSUME NEW t, NEW by, Len(t) \in Nat
  PROVE  /\ Parser!Obeyed(t, by)[0] = [defs |-> <<>>, ran |-> <<>>, outcome |-> "ok"]
         /\ \A k \in 1..Len(t) :
              Parser!Obeyed(t, by)[k] =
                IF t[k] = "n" THEN Parser!Line(t, Parser!Obeyed(t, by)[k - 1], Parser!LastSign(t, "n", 0, k), k, by)
                ELSE Parser!Obeyed(t, by)[k - 1]
  <1>1. PICK g : g = LinesBy(t, by, Len(t), g) /\ g = CHOOSE x : x = LinesBy(t, by, Len(t), x)
    BY ObeyedExists
  <1>2. Parser!Obeyed(t, by) = g
    BY <1>1 DEF Parser!Obeyed, LinesBy
  <1>3. 0 \in 0..Len(t) /\ \A k \in 1..Len(t) : k \in 0..Len(t) /\ k # 0
    OBVIOUS
  <1>4. g[0] = [defs |-> <<>>, ran |-> <<>>, outcome |-> "ok"]
    BY <1>1, <1>3 DEF LinesBy
  <1>5. \A k \in 1..Len(t) :
          g[k] = IF t[k] = "n" THEN Parser!Line(t, g[k - 1], Parser!LastSign(t, "n", 0, k), k, by) ELSE g[k - 1]
    BY <1>1, <1>3 DEF LinesBy
  <1> QED
    BY <1>2, <1>4, <1>5

\* Without a newline nothing is obeyed, and nothing after a wrong line.
LEMMA ObeyedIs ==
  ASSUME NEW t, Len(t) \in Nat
  PROVE  /\ Parser!Obeyed(t, "program")[0] = [defs |-> <<>>, ran |-> <<>>, outcome |-> "ok"]
         /\ \A k \in 1..Len(t) :
              Parser!Obeyed(t, "program")[k] =
                IF t[k] = "n" THEN Parser!Line(t, Parser!Obeyed(t, "program")[k - 1], Parser!LastSign(t, "n", 0, k), k, "program")
                ELSE Parser!Obeyed(t, "program")[k - 1]
  BY LinesAre

LEMMA ObeyedFlat ==
  ASSUME NEW t, Len(t) \in Nat, NEW a \in 0..Len(t), NEW e \in a..Len(t),
         (\A j \in a + 1..e : t[j] # "n") \/ Parser!Obeyed(t, "program")[a].outcome # "ok"
  PROVE  Parser!Obeyed(t, "program")[e] = Parser!Obeyed(t, "program")[a]
  <1>0. a \in Nat
    OBVIOUS
  <1> DEFINE Bad == {k \in a..e : Parser!Obeyed(t, "program")[k] # Parser!Obeyed(t, "program")[a]}
  <1> SUFFICES ASSUME Bad # {} PROVE FALSE
    BY <1>0
  <1>1. PICK k \in Bad : \A l \in Bad : k <= l
    <2>1. Bad \subseteq Nat
      BY <1>0
    <2> HIDE DEF Bad
    <2> QED
      BY <2>1, Least
  <1>2. k # a /\ k \in a..e
    BY <1>1
  <1>3. k \in 1..Len(t) /\ k - 1 \in a..e /\ ~(k <= k - 1) /\ k \in a + 1..e
    BY <1>0, <1>2
  <1>4. Parser!Obeyed(t, "program")[k - 1] = Parser!Obeyed(t, "program")[a]
    BY <1>1, <1>3
  <1>5. CASE t[k] # "n"
    <2>1. Parser!Obeyed(t, "program")[k] = Parser!Obeyed(t, "program")[k - 1]
      BY <1>3, <1>5, ObeyedIs
    <2> QED
      BY <1>1, <1>4, <2>1
  <1>6. CASE t[k] = "n" /\ Parser!Obeyed(t, "program")[a].outcome # "ok"
    <2>1. Parser!Obeyed(t, "program")[k] = Parser!Line(t, Parser!Obeyed(t, "program")[k - 1], Parser!LastSign(t, "n", 0, k), k, "program")
      BY <1>3, <1>6, ObeyedIs
    <2>2. Parser!Obeyed(t, "program")[k - 1].outcome # "ok"
      BY <1>4, <1>6
    <2>3. Parser!Obeyed(t, "program")[k] = Parser!Obeyed(t, "program")[k - 1]
      BY <2>1, <2>2, LineSkipped
    <2> QED
      BY <1>1, <1>4, <2>3
  <1> QED
    BY <1>3, <1>5, <1>6

\* ls is the end of the line before the one that h lies in.
LineFrom(t, ls, h) ==
  ls \in 0..h /\ (ls = 0 \/ t[ls] = "n") /\ \A j \in ls + 1..h : t[j] # "n"

LEMMA LineBegan ==
  ASSUME NEW t, NEW h \in Nat, NEW ls, LineFrom(t, ls, h),
         NEW k \in Nat, h < k, \A j \in h + 1..k - 1 : t[j] # "n"
  PROVE  Parser!LastSign(t, "n", 0, k) = ls
  <1>1. IsLast(t, "n", 0, k, ls)
    <2>1. ls \in 0..k - 1
      BY DEF LineFrom
    <2>2. \A j \in ls + 1..k - 1 : j \in ls + 1..h \/ j \in h + 1..k - 1
      BY DEF LineFrom
    <2> QED
      BY <2>1, <2>2 DEF IsLast, LineFrom
  <1> QED
    BY <1>1, LastIs

\* The next newline: what it makes of the line.
LEMMA LineEnds ==
  ASSUME NEW t, Len(t) \in Nat, NEW h \in 0..Len(t), NEW ls, LineFrom(t, ls, h),
         NEW to \in h + 1..Len(t), t[to] = "n", \A j \in h + 1..to - 1 : t[j] # "n"
  PROVE  Parser!Obeyed(t, "program")[to] = Parser!Line(t, Parser!Obeyed(t, "program")[h], ls, to, "program")
  <1>0. h \in Nat /\ to \in Nat /\ h < to /\ to \in 1..Len(t) /\ to - 1 \in h..Len(t)
    OBVIOUS
  <1>1. Parser!LastSign(t, "n", 0, to) = ls
    BY <1>0, LineBegan
  <1>2. Parser!Obeyed(t, "program")[to - 1] = Parser!Obeyed(t, "program")[h]
    BY <1>0, ObeyedFlat
  <1>3. Parser!Obeyed(t, "program")[to] = Parser!Line(t, Parser!Obeyed(t, "program")[to - 1], Parser!LastSign(t, "n", 0, to), to, "program")
    BY <1>0, ObeyedIs
  <1> QED
    BY <1>1, <1>2, <1>3

\* A line that is wrong wherever it ends is the last one, or is never complete.
LEMMA WrongForGood ==
  ASSUME NEW t, Len(t) \in Nat, NEW h \in 0..Len(t) - 1, NEW ls, LineFrom(t, ls, h),
         NEW bad, bad.outcome # "ok",
         \A to \in h + 1..Len(t) :
           t[to] = "n" /\ (\A j \in h + 1..to - 1 : t[j] # "n") => Parser!Line(t, Parser!Obeyed(t, "program")[h], ls, to, "program") = bad
  PROVE  \/ Parser!Obeyed(t, "program")[Len(t)] = bad
         \/ Parser!Obeyed(t, "program")[Len(t)] = Parser!Obeyed(t, "program")[h] /\ t[Len(t)] # "n"
  <1>0. h \in Nat /\ h \in 0..Len(t) /\ Len(t) \in h + 1..Len(t) /\ Len(t) \in h..Len(t)
    OBVIOUS
  <1> DEFINE X == {k \in h + 1..Len(t) : t[k] = "n"}
  <1>1. CASE X = {}
    <2>1. \A j \in h + 1..Len(t) : t[j] # "n"
      BY <1>1
    <2>2. Parser!Obeyed(t, "program")[Len(t)] = Parser!Obeyed(t, "program")[h]
      BY <1>0, <2>1, ObeyedFlat
    <2> QED
      BY <1>0, <2>1, <2>2
  <1>2. CASE X # {}
    <2>1. X \subseteq Nat
      BY <1>0
    <2> HIDE DEF X
    <2>2. PICK to \in X : \A l \in X : to <= l
      BY <1>2, <2>1, Least
    <2> USE DEF X
    <2>3. to \in h + 1..Len(t) /\ t[to] = "n"
      BY <2>2
    <2>4. \A j \in h + 1..to - 1 : t[j] # "n"
      <3> SUFFICES ASSUME NEW j \in h + 1..to - 1, t[j] = "n" PROVE FALSE
        OBVIOUS
      <3>1. j \in X /\ ~(to <= j)
        BY <1>0, <2>3
      <3> QED
        BY <2>2, <3>1
    <2> HIDE DEF X
    <2>a. Parser!Line(t, Parser!Obeyed(t, "program")[h], ls, to, "program") = bad
      BY <2>3, <2>4
    <2>5. Parser!Obeyed(t, "program")[to] = bad
      BY <1>0, <2>3, <2>4, <2>a, LineEnds
    <2>6. to \in 0..Len(t) /\ Len(t) \in to..Len(t)
      BY <1>0, <2>3
    <2>7. Parser!Obeyed(t, "program")[Len(t)] = Parser!Obeyed(t, "program")[to]
      BY <2>5, <2>6, ObeyedFlat
    <2> QED
      BY <2>5, <2>7
  <1> QED
    BY <1>1, <1>2

-----------------------------------------------------------------------------
HasSign(w, c) == \E i \in 1..Len(w) : w[i] = c
\* The program looks at the first symbol of a word.
LEMMA ProgramWrong ==
  ASSUME NEW w
  PROVE  Parser!Wrong(w, "program") <=> Parser!WrongStart(w)
  <1>1. "program" # "grammar"
    OBVIOUS
  <1> QED
    BY Zenon, <1>1 DEF Parser!Wrong

\* A part that an expression may have.
GoodPart(w, known) == ~Parser!WrongStart(w) /\ ~HasSign(w, "=") /\ w \in known
Judged(w, known) == IF Parser!WrongStart(w) \/ HasSign(w, "=") THEN "syntax"
                    ELSE IF known = {} THEN "aborted" ELSE "unknown"

LEMMA VerdictBad ==
  ASSUME NEW parts \in Seq(Word), NEW known, NEW n \in Nat, n + 1 <= Len(parts),
         \A i \in 1..n : GoodPart(parts[i], known), ~GoodPart(parts[n + 1], known)
  PROVE  Parser!Verdict(parts, known, "program") = Judged(parts[n + 1], known)
  <1> DEFINE X == {i \in DOMAIN parts : Parser!Wrong(parts[i], "program") \/ Parser!Contains(parts[i], "=") \/ parts[i] \notin known}
  <1>0. DOMAIN parts = 1..Len(parts) /\ Len(parts) \in Nat
    BY LenProperties
  <1>1. \A i \in 1..Len(parts) : i \in X <=> ~GoodPart(parts[i], known)
    BY <1>0, ProgramWrong DEF GoodPart, HasSign, Parser!Contains
  <1>2. n + 1 \in X /\ X \subseteq Nat
    BY <1>0, <1>1
  <1>3. \A i \in X : i \in 1..Len(parts) /\ ~GoodPart(parts[i], known)
    BY <1>0, <1>1
  <1> HIDE DEF X
  <1>4. PICK m \in X : m = Parser!Min(X) /\ \A l \in X : m <= l
    BY <1>2, LeastIs
  <1>5. m = n + 1
    <2>1. m <= n + 1 /\ m \in 1..Len(parts) /\ ~(m \in 1..n)
      BY <1>2, <1>3, <1>4
    <2> QED
      BY <2>1
  <1>6. X # {} /\ parts[Parser!Min(X)] = parts[n + 1]
    BY <1>2, <1>4, <1>5
  <1> USE DEF X
  <1> QED
    BY <1>6, ProgramWrong, Zenon DEF Parser!Verdict, Judged, HasSign, Parser!Contains

LEMMA VerdictGood ==
  ASSUME NEW parts \in Seq(Word), NEW known, \A i \in 1..Len(parts) : GoodPart(parts[i], known)
  PROVE  Parser!Verdict(parts, known, "program") = "ok"
  <1>0. DOMAIN parts = 1..Len(parts)
    BY LenProperties
  <1>1. {i \in DOMAIN parts : Parser!Wrong(parts[i], "program") \/ Parser!Contains(parts[i], "=") \/ parts[i] \notin known} = {}
    BY <1>0, ProgramWrong DEF GoodPart, HasSign, Parser!Contains
  <1> QED
    BY <1>1, Zenon DEF Parser!Verdict

\* What becomes of a line.
Acc(d, r, o) == [defs |-> d, ran |-> r, outcome |-> o]

LEMMA ExpressionWrong ==
  ASSUME NEW t, NEW d, NEW r, NEW from, NEW to, NEW v, v # "ok",
         Parser!Trim(t, from + 1, to - 1) # <<>>, ~Parser!IsDefinition(t, from, to),
         Parser!Verdict(Parser!Parts(t, from, to), DOMAIN d, "program") = v
  PROVE  Parser!Line(t, Acc(d, r, "ok"), from, to, "program") = Acc(d, r, v)
  <1>1. PICK acc : acc = Acc(d, r, "ok")
    OBVIOUS
  <1>2. acc.outcome = "ok" /\ acc.defs = d /\ acc.ran = r
    BY <1>1 DEF Acc
  <1>3. Parser!Line(t, acc, from, to, "program") = [acc EXCEPT !.outcome = v, !.ran = acc.ran]
    BY <1>2, Zenon DEF Parser!Line
  <1> QED
    BY <1>1, <1>3 DEF Acc

\* What runs: the commands of all names, one after the other.
Called(r, parts, d) == Append(r, Parser!FlattenSeq([i \in DOMAIN parts |-> d[parts[i]]]))

LEMMA ExpressionRuns ==
  ASSUME NEW t, NEW d, NEW r, NEW from, NEW to, NEW v,
         Parser!Trim(t, from + 1, to - 1) # <<>>, ~Parser!IsDefinition(t, from, to),
         Parser!Verdict(Parser!Parts(t, from, to), DOMAIN d, "program") = "ok",
         v = Called(r, Parser!Parts(t, from, to), d)
  PROVE  Parser!Line(t, Acc(d, r, "ok"), from, to, "program") = Acc(d, v, "ok")
  <1>1. PICK acc : acc = Acc(d, r, "ok")
    OBVIOUS
  <1>2. acc.outcome = "ok" /\ acc.defs = d /\ acc.ran = r
    BY <1>1 DEF Acc
  <1>4. Parser!Line(t, acc, from, to, "program") = [acc EXCEPT !.outcome = "ok", !.ran = v]
    BY <1>2, Zenon DEF Parser!Line, Called
  <1> QED
    BY <1>1, <1>4 DEF Acc

\* Where the equals sign of a definition stands.
LEMMA DefinedAt ==
  ASSUME NEW t, NEW from \in Nat, NEW to \in Nat, NEW e \in from + 1..to - 1,
         t[e] = "=", \A j \in from + 1..e - 1 : t[j] # "=" /\ t[j] # "|"
  PROVE  /\ Parser!IsDefinition(t, from, to)
         /\ Parser!Min({j \in from + 1..to - 1 : t[j] = "="}) = e
  <1> DEFINE X == {j \in from + 1..to - 1 : t[j] = "="}
  <1>1. \A j \in from + 1..e : t[j] # "|"
    <2>1. \A j \in from + 1..e : j = e \/ j \in from + 1..e - 1
      OBVIOUS
    <2> QED
      BY <2>1
  <1>2. e \in X /\ X \subseteq Nat
    OBVIOUS
  <1>3. \A j \in X : j \in from + 1..to - 1 /\ t[j] = "="
    OBVIOUS
  <1>4. Parser!IsDefinition(t, from, to)
    BY <1>1 DEF Parser!IsDefinition
  <1> HIDE DEF X
  <1>5. PICK m \in X : m = Parser!Min(X) /\ \A l \in X : m <= l
    BY <1>2, LeastIs
  <1>6. m <= e /\ m \in from + 1..to - 1 /\ ~(m \in from + 1..e - 1)
    BY <1>2, <1>3, <1>5
  <1>7. m = e
    BY <1>6
  <1> USE DEF X
  <1> QED
    BY <1>4, <1>5, <1>7

LEMMA DefinitionWrong ==
  ASSUME NEW t, NEW d, NEW r, NEW from, NEW to, NEW e,
         Parser!Trim(t, from + 1, to - 1) # <<>>, Parser!IsDefinition(t, from, to),
         Parser!Min({j \in from + 1..to - 1 : t[j] = "="}) = e,
         \/ Parser!WrongStart(Parser!Trim(t, from + 1, e - 1))
         \/ \E i \in DOMAIN Parser!Parts(t, e, to) : Parser!WrongStart(Parser!Parts(t, e, to)[i])
  PROVE  Parser!Line(t, Acc(d, r, "ok"), from, to, "program") = Acc(d, r, "syntax")
  <1>1. PICK acc : acc = Acc(d, r, "ok")
    OBVIOUS
  <1>2. acc.outcome = "ok" /\ acc.defs = d /\ acc.ran = r
    BY <1>1 DEF Acc
  <1>3. Parser!Line(t, acc, from, to, "program") = [acc EXCEPT !.outcome = "syntax"]
    BY <1>2, ProgramWrong, Zenon DEF Parser!Line, Parser!FirstEquals
  <1> QED
    BY <1>1, <1>3 DEF Acc

Defined(name, commands, d) == (name :> commands) @@ d

\* The line behind from that ends at to defines name, and no word of it is wrong.
Makes(t, from, to, name, commands) ==
  /\ Parser!Trim(t, from + 1, to - 1) # <<>> /\ Parser!IsDefinition(t, from, to)
  /\ name = Parser!Trim(t, from + 1, Parser!FirstEquals(t, from, to) - 1)
  /\ commands = Parser!Parts(t, Parser!FirstEquals(t, from, to), to)
  /\ ~Parser!WrongStart(name) /\ \A i \in DOMAIN commands : ~Parser!WrongStart(commands[i])

LEMMA DefinitionMade ==
  ASSUME NEW t, NEW d, NEW r, NEW from, NEW to, NEW name, NEW commands,
         Makes(t, from, to, name, commands)
  PROVE  Parser!Line(t, Acc(d, r, "ok"), from, to, "program") = Acc(Defined(name, commands, d), r, "ok")
  <1>1. PICK acc : acc = Acc(d, r, "ok")
    OBVIOUS
  <1>2. acc.outcome = "ok" /\ acc.defs = d /\ acc.ran = r
    BY <1>1 DEF Acc
  <1>3. Parser!Line(t, acc, from, to, "program") = [acc EXCEPT !.defs = Defined(name, commands, d)]
    BY <1>2, ProgramWrong, Zenon DEF Parser!Line, Defined, Makes
  <1> QED
    BY <1>1, <1>3 DEF Acc

-----------------------------------------------------------------------------
(***************************************************************************)
(* Where the parser is in the text t when h symbols of it are behind it:   *)
(* the line began behind ls, its parts (after the name of a definition)    *)
(* behind st, the part in hand behind b.                                   *)
(***************************************************************************)
WordStart(c) == c # "n" /\ c # "|" /\ c # "=" /\ c # "^" /\ c # Space

Places(t, h, kind, ls, st, b) ==
  /\ LineFrom(t, ls, h)
  /\ kind = "DEF" => /\ st \in ls + 1..h /\ t[st] = "="
                     /\ \A j \in ls + 1..st - 1 : t[j] # "=" /\ t[j] # "|"
  /\ kind # "DEF" => st = ls /\ \A j \in ls + 1..h : t[j] # "="
  /\ Begins(t, st, b, h)
  /\ kind = "ANY" => b = ls
  /\ kind = "EXP" => b # ls

\* The words so far, none of them wrong.
Said(t, h, kind, ex, d, ls, st) ==
  LET done == Parser!PartsBefore(t, st)[h]
  IN  IF kind = "DEF"
      THEN /\ ex = <<Parser!Trim(t, ls + 1, st - 1)>> \o done
           /\ ~Parser!WrongStart(Parser!Trim(t, ls + 1, st - 1))
           /\ \A i \in 1..Len(done) : ~Parser!WrongStart(done[i])
      ELSE /\ ex = done
           /\ \A i \in 1..Len(done) : GoodPart(done[i], DOMAIN d)

\* A word has begun, and scratch is what there is of it, or there are only blanks.
InWord(t, h, w, sc, b) ==
  /\ w \in b + 1..h + 1 /\ w <= Len(t)
  /\ Blank(t, b + 1, w - 1) /\ WordStart(t[w]) /\ sc = SubSeq(t, w, h)
Between(t, h, sc, b) == sc = <<>> /\ Blank(t, b + 1, h)
Hand(t, h, inside, sc, b) ==
  IF inside THEN \E w : InWord(t, h, w, sc, b) ELSE Between(t, h, sc, b)

ScriptAt(t, h, s, sc, ex, d, r) ==
  \E ls, st, b : /\ Places(t, h, s.kind, ls, st, b)
                 /\ Said(t, h, s.kind, ex, d, ls, st)
                 /\ Hand(t, h, s.inside, sc, b)
                 /\ Parser!Obeyed(t, "program")[h] = Acc(d, r, "ok")

\* What LinesObeyed says.
Finished(t, d, r, o) ==
  \/ Parser!Obeyed(t, "program")[Len(t)] = Acc(d, r, o)
  \/ Parser!Obeyed(t, "program")[Len(t)] = Acc(d, r, "ok") /\ t[Len(t)] # "n"

LEMMA NonBlank ==
  ASSUME NEW t \in Word, NEW i \in Nat \ {0}, NEW k \in Nat, k <= Len(t), NEW j \in i..k, t[j] # Space
  PROVE  Parser!Trim(t, i, k) # <<>>
  <1> DEFINE X == {l \in i..k : t[l] # Space}
  <1>1. X \subseteq Nat /\ X # {}
    OBVIOUS
  <1>2. PICK w \in X : \A l \in X : w <= l
    <2> HIDE DEF X
    <2> QED
      BY <1>1, Least
  <1>3. w \in i..k /\ t[w] # Space
    BY <1>2
  <1>4. Blank(t, i, w - 1)
    <2> SUFFICES ASSUME NEW l \in i..w - 1, t[l] # Space PROVE FALSE
      BY DEF Blank
    <2>1. l \in X /\ ~(w <= l)
      BY <1>3
    <2> QED
      BY <1>2, <2>1
  <1> QED
    BY <1>3, <1>4, TrimBegins

LEMMA NoDefinition ==
  ASSUME NEW t, NEW from \in Nat, NEW to \in Nat, NEW q \in from + 1..to, q = to \/ t[q] = "|",
         \A j \in from + 1..q - 1 : t[j] # "="
  PROVE  ~Parser!IsDefinition(t, from, to)
  <1> SUFFICES ASSUME NEW e \in from + 1..to - 1, t[e] = "=", \A j \in from + 1..e : t[j] # "|" PROVE FALSE
    BY DEF Parser!IsDefinition
  <1>1. ~(e \in from + 1..q - 1)
    OBVIOUS
  <1>2. q <= e /\ q \in from + 1..e /\ q # to
    BY <1>1
  <1> QED
    BY <1>2

LEMMA Joined ==
  ASSUME NEW t \in Word, NEW w \in Nat \ {0}, NEW h \in Nat, NEW e \in Nat, w <= h + 1, h <= e, e <= Len(t)
  PROVE  SubSeq(t, w, h) \o SubSeq(t, h + 1, e) = SubSeq(t, w, e)
  <1>0. w <= e + 1 /\ h <= Len(t) /\ h + 1 \in Nat \ {0} /\ h + 1 <= e + 1
    BY LenProperties DEF Word
  <1>1. PICK u \in Word : u = SubSeq(t, w, h) /\ Len(u) = h - w + 1 /\ \A j \in 1..h - w + 1 : u[j] = t[w + j - 1]
    BY <1>0, Piece
  <1>2. PICK v \in Word : v = SubSeq(t, h + 1, e) /\ Len(v) = e - (h + 1) + 1 /\ \A j \in 1..e - (h + 1) + 1 : v[j] = t[(h + 1) + j - 1]
    BY ZenonT(60), <1>0, Piece
  <1>3. PICK s \in Word : s = SubSeq(t, w, e) /\ Len(s) = e - w + 1 /\ \A j \in 1..e - w + 1 : s[j] = t[w + j - 1]
    BY ZenonT(60), <1>0, Piece
  <1>4. /\ u \o v \in Word /\ Len(u \o v) = Len(u) + Len(v)
        /\ \A j \in 1..Len(u) + Len(v) : (u \o v)[j] = IF j <= Len(u) THEN u[j] ELSE v[j - Len(u)]
    BY ConcatProperties DEF Word
  <1>5. Len(u \o v) = Len(s)
    BY <1>1, <1>2, <1>3, <1>4
  <1>6. \A j \in 1..Len(s) : (u \o v)[j] = s[j]
    <2> SUFFICES ASSUME NEW j \in 1..Len(s) PROVE (u \o v)[j] = s[j]
      OBVIOUS
    <2>1. j \in 1..e - w + 1 /\ j \in 1..Len(u) + Len(v) /\ s[j] = t[w + j - 1]
      BY <1>3, <1>4, <1>5
    <2>2. CASE j <= Len(u)
      <3>1. j \in 1..h - w + 1
        BY <1>1, <2>1, <2>2
      <3>2. u[j] = t[w + j - 1]
        BY <1>1, <3>1
      <3> QED
        BY <1>4, <2>1, <2>2, <3>2
    <2>3. CASE ~(j <= Len(u))
      <3>1. j - Len(u) \in 1..e - (h + 1) + 1 /\ (h + 1) + (j - Len(u)) - 1 = w + j - 1
        BY <1>1, <2>1, <2>3
      <3>2. v[j - Len(u)] = t[w + j - 1]
        BY <1>2, <3>1
      <3> QED
        BY <1>4, <2>1, <2>3, <3>2
    <2> QED
      BY <2>2, <2>3
  <1> QED
    BY <1>1, <1>2, <1>3, <1>4, <1>5, <1>6, SeqEqual DEF Word

\* The word in hand, when it ends before to.
LEMMA WordIs ==
  ASSUME NEW t \in Word, NEW h \in 0..Len(t), NEW b \in 0..h, NEW w, NEW sc, InWord(t, h, w, sc, b),
         NEW to \in h + 1..Len(t), ~WordStart(t[to])
  PROVE  /\ Parser!Strip(sc \o SubSeq(t, h + 1, to - 1)) = Parser!Trim(t, b + 1, to - 1)
         /\ ~Parser!WrongStart(Parser!Trim(t, b + 1, to - 1))
         /\ Parser!Trim(t, b + 1, to - 1) \in Word
         /\ (\A j \in b + 1..to - 1 : t[j] # "=") => ~HasSign(Parser!Trim(t, b + 1, to - 1), "=")
         /\ w \in b + 1..to - 1 /\ t[w] # Space
  <1>0. Len(t) \in Nat /\ h \in Nat /\ b \in Nat /\ to \in Nat /\ w \in Nat
    BY LenProperties DEF Word, InWord
  <1>1. w # to
    BY DEF InWord
  <1>2. w \in b + 1..to - 1 /\ Blank(t, b + 1, w - 1) /\ t[w] # Space /\ WordStart(t[w])
    BY <1>0, <1>1 DEF InWord, WordStart
  <1>3. b + 1 \in Nat \ {0} /\ to - 1 \in Nat /\ to - 1 <= Len(t)
    BY <1>0
  <1>4. sc \o SubSeq(t, h + 1, to - 1) = SubSeq(t, w, to - 1)
    <2>1. w \in Nat \ {0} /\ w <= h + 1 /\ h <= to - 1 /\ sc = SubSeq(t, w, h)
      BY <1>0, <1>2 DEF InWord
    <2> QED
      BY <1>0, <1>3, <2>1, Joined
  <1>5. Parser!Strip(SubSeq(t, w, to - 1)) = Parser!Trim(t, b + 1, to - 1)
    BY <1>2, <1>3, StripIsTrim
  <1>6. PICK W : W = Parser!Trim(t, b + 1, to - 1)
    OBVIOUS
  <1>7. W # <<>> /\ W[1] = t[w] /\ (\A n \in 1..Len(W) : \E j \in w..to - 1 : W[n] = t[j])
    <2>1. Parser!Trim(t, b + 1, to - 1) # <<>> /\ Parser!Trim(t, b + 1, to - 1)[1] = t[w]
      BY <1>2, <1>3, TrimBegins
    <2>2. \A n \in 1..Len(Parser!Trim(t, b + 1, to - 1)) : \E j \in w..to - 1 : Parser!Trim(t, b + 1, to - 1)[n] = t[j]
      BY <1>2, <1>3, TrimBegins
    <2> QED
      BY <1>6, <2>1, <2>2
  <1>8. ~Parser!WrongStart(W)
    BY <1>2, <1>7 DEF Parser!WrongStart, WordStart
  <1>9. (\A j \in b + 1..to - 1 : t[j] # "=") => ~HasSign(W, "=")
    <2>1. \A j \in w..to - 1 : j \in b + 1..to - 1
      BY <1>0, <1>2
    <2> QED
      BY <1>7, <2>1 DEF HasSign
  <1>10. Parser!Trim(t, b + 1, to - 1) \in Word
    BY <1>3, TrimWord
  <1> QED
    BY <1>2, <1>4, <1>5, <1>6, <1>8, <1>9, <1>10

LEMMA PlacesAre ==
  ASSUME NEW t \in Word, NEW h \in 0..Len(t), NEW kind, NEW ls, NEW st, NEW b, Places(t, h, kind, ls, st, b)
  PROVE  /\ Len(t) \in Nat /\ h \in Nat /\ ls \in Nat /\ st \in Nat /\ b \in Nat
         /\ ls <= st /\ st <= b /\ b <= h /\ h <= Len(t)
         /\ Parser!PartsBefore(t, st)[h] \in Seq(Word) /\ Len(Parser!PartsBefore(t, st)[h]) \in Nat
  <1>1. Len(t) \in Nat /\ h \in Nat
    BY LenProperties DEF Word
  <1>2. ls \in Nat /\ ls <= h
    BY <1>1 DEF Places, LineFrom
  <1>3. st \in Nat /\ ls <= st /\ st <= h
    BY <1>1, <1>2 DEF Places
  <1>4. b \in Nat /\ st <= b /\ b <= h
    BY <1>1, <1>3 DEF Places, Begins
  <1>5. Parser!PartsBefore(t, st)[h] \in Seq(Word)
    <2>1. st \in 0..Len(t) /\ h \in st..Len(t)
      BY <1>1, <1>3
    <2> QED
      BY <2>1, PartsWords
  <1> QED
    BY <1>1, <1>2, <1>3, <1>4, <1>5, LenProperties

\* A wrong part makes the line wrong, wherever the line ends.
LEMMA WrongPart ==
  ASSUME NEW t \in Word, NEW h \in 0..Len(t), NEW kind, NEW ls, NEW st, NEW b, NEW ex, NEW d, NEW r,
         Places(t, h, kind, ls, st, b), Said(t, h, kind, ex, d, ls, st),
         NEW to \in h + 1..Len(t), NEW k, Ends(t, h, k, to),
         NEW w, w = Parser!Trim(t, b + 1, k - 1), NEW v,
         kind = "DEF" => Parser!WrongStart(w) /\ v = "syntax",
         kind # "DEF" => /\ ~GoodPart(w, DOMAIN d) /\ v = Judged(w, DOMAIN d)
                         /\ ~Parser!IsDefinition(t, ls, to)
                         /\ Parser!Trim(t, ls + 1, to - 1) # <<>>
  PROVE  Parser!Line(t, Acc(d, r, "ok"), ls, to, "program") = Acc(d, r, v)
  <1>0. /\ Len(t) \in Nat /\ h \in Nat /\ ls \in Nat /\ st \in Nat /\ b \in Nat
        /\ ls <= st /\ st <= b /\ b <= h /\ h <= Len(t)
    BY PlacesAre
  <1>1. PICK done \in Seq(Word) : done = Parser!PartsBefore(t, st)[h] /\ Len(done) \in Nat
    BY PlacesAre
  <1>2. st \in 0..Len(t) /\ h \in st..Len(t) /\ Begins(t, st, b, h) /\ to \in Nat /\ to <= Len(t) /\ h < to
    BY <1>0 DEF Places
  <1>3. PICK parts \in Seq(Word) : /\ parts = Parser!Parts(t, st, to) /\ Len(done) + 1 <= Len(parts)
                                   /\ (\A i \in 1..Len(done) : parts[i] = done[i]) /\ parts[Len(done) + 1] = w
    BY <1>1, <1>2, PartsGoOn
  <1>4. CASE kind # "DEF"
    <2>1. \A i \in 1..Len(done) : GoodPart(parts[i], DOMAIN d)
      BY <1>1, <1>3, <1>4 DEF Said
    <2>2. Parser!Verdict(parts, DOMAIN d, "program") = v
      BY <1>1, <1>3, <1>4, <2>1, VerdictBad
    <2>3. st = ls /\ v # "ok"
      BY <1>4 DEF Places, Judged
    <2> QED
      BY <1>3, <1>4, <2>2, <2>3, ExpressionWrong
  <1>5. CASE kind = "DEF"
    <2>1. st \in ls + 1..to - 1 /\ t[st] = "=" /\ \A j \in ls + 1..st - 1 : t[j] # "=" /\ t[j] # "|"
      BY <1>0, <1>2, <1>5 DEF Places
    <2>2. Parser!IsDefinition(t, ls, to) /\ Parser!Min({j \in ls + 1..to - 1 : t[j] = "="}) = st
      BY <1>0, <1>2, <2>1, DefinedAt
    <2>3. Parser!Trim(t, ls + 1, to - 1) # <<>>
      <3>1. ls + 1 \in Nat \ {0} /\ to - 1 \in Nat /\ to - 1 <= Len(t)
        BY <1>0, <1>2
      <3>2. t[st] # Space
        BY <2>1, SpaceIs
      <3> QED
        BY <2>1, <3>1, <3>2, NonBlank
    <2>4. Len(done) + 1 \in DOMAIN Parser!Parts(t, st, to) /\ Parser!WrongStart(Parser!Parts(t, st, to)[Len(done) + 1])
      <3>1. DOMAIN parts = 1..Len(parts) /\ Len(parts) \in Nat
        BY LenProperties
      <3> QED
        BY <1>1, <1>3, <1>5, <3>1
    <2> QED
      BY <1>5, <2>2, <2>3, <2>4, DefinitionWrong
  <1> QED
    BY <1>4, <1>5

\* A line that is wrong wherever it ends: what the program says is true.
LEMMA WrongLine ==
  ASSUME NEW t \in Word, NEW h \in 0..Len(t) - 1, NEW kind, NEW ls, NEW st, NEW b, NEW d, NEW r, NEW v,
         Places(t, h, kind, ls, st, b), Parser!Obeyed(t, "program")[h] = Acc(d, r, "ok"), v # "ok",
         \A to \in h + 1..Len(t) :
           t[to] = "n" /\ (\A j \in h + 1..to - 1 : t[j] # "n") => Parser!Line(t, Acc(d, r, "ok"), ls, to, "program") = Acc(d, r, v)
  PROVE  Finished(t, d, r, v)
  <1>1. Len(t) \in Nat /\ LineFrom(t, ls, h)
    BY LenProperties DEF Places, Word
  <1>2. PICK bad : bad = Acc(d, r, v) /\ bad.outcome # "ok"
    BY DEF Acc
  <1>3. \A to \in h + 1..Len(t) :
          t[to] = "n" /\ (\A j \in h + 1..to - 1 : t[j] # "n") => Parser!Line(t, Parser!Obeyed(t, "program")[h], ls, to, "program") = bad
    BY <1>2
  <1>4. Parser!Obeyed(t, "program")[Len(t)] = bad \/ (Parser!Obeyed(t, "program")[Len(t)] = Parser!Obeyed(t, "program")[h] /\ t[Len(t)] # "n")
    BY <1>1, <1>2, <1>3, WrongForGood
  <1> QED
    BY <1>2, <1>4 DEF Finished

\* In an expression that has had a pipe, an equals sign makes no definition.
LEMMA OnlyExpression ==
  ASSUME NEW t \in Word, NEW h \in 0..Len(t), NEW ls, NEW st, NEW b, Places(t, h, "EXP", ls, st, b),
         NEW to \in h + 1..Len(t)
  PROVE  ~Parser!IsDefinition(t, ls, to) /\ Parser!Trim(t, ls + 1, to - 1) # <<>>
  <1>0. /\ Len(t) \in Nat /\ h \in Nat /\ ls \in Nat /\ st \in Nat /\ b \in Nat
        /\ ls <= st /\ st <= b /\ b <= h /\ h <= Len(t)
    BY PlacesAre
  <1>1. st = ls /\ b # ls /\ t[b] = "|" /\ (\A j \in ls + 1..h : t[j] # "=")
    BY <1>0 DEF Places, Begins
  <1>2. b \in ls + 1..to /\ (\A j \in ls + 1..b - 1 : j \in ls + 1..h) /\ to \in Nat
    BY <1>0, <1>1
  <1>3. ~Parser!IsDefinition(t, ls, to)
    BY <1>0, <1>1, <1>2, NoDefinition
  <1>4. Parser!Trim(t, ls + 1, to - 1) # <<>>
    <2>1. ls + 1 \in Nat \ {0} /\ to - 1 \in Nat /\ to - 1 <= Len(t) /\ b \in ls + 1..to - 1
      BY <1>0, <1>1
    <2>2. t[b] # Space
      BY <1>1, SpaceIs
    <2> QED
      BY <2>1, <2>2, NonBlank
  <1> QED
    BY <1>3, <1>4

\* A sign where a word should begin.
LEMMA WrongSign ==
  ASSUME NEW t \in Word, NEW h \in 0..Len(t) - 1, NEW s, NEW sc, NEW ex, NEW d, NEW r,
         s.kind \in {"ANY", "DEF", "EXP"}, ~s.inside, ScriptAt(t, h, s, sc, ex, d, r),
         t[h + 1] \in {"=", "|", "^"} \/ (t[h + 1] = "n" /\ s.kind # "ANY")
  PROVE  Finished(t, d, r, "syntax")
  <1>h. h \in 0..Len(t) /\ Len(t) \in Nat
    BY LenProperties DEF Word
  <1>1. PICK ls, st, b : /\ Places(t, h, s.kind, ls, st, b) /\ Said(t, h, s.kind, ex, d, ls, st)
                         /\ Between(t, h, sc, b) /\ Parser!Obeyed(t, "program")[h] = Acc(d, r, "ok")
    BY DEF ScriptAt, Hand
  <1>0. /\ Len(t) \in Nat /\ h \in Nat /\ ls \in Nat /\ st \in Nat /\ b \in Nat
        /\ ls <= st /\ st <= b /\ b <= h /\ h < Len(t)
    BY <1>h, <1>1, PlacesAre
  <1>2. ASSUME NEW to \in h + 1..Len(t), t[to] = "n", \A j \in h + 1..to - 1 : t[j] # "n"
        PROVE  Parser!Line(t, Acc(d, r, "ok"), ls, to, "program") = Acc(d, r, "syntax")
    <2>0. to \in Nat /\ h < to /\ to <= Len(t)
      BY <1>0
    <2>1. PICK k \in Nat : Ends(t, h, k, to)
      BY <1>0, <2>0, PartEnds
    <2>2. PICK w : w = Parser!Trim(t, b + 1, k - 1)
      OBVIOUS
    <2>k. k \in h + 1..to /\ b + 1 \in Nat \ {0} /\ k - 1 \in Nat /\ k - 1 <= Len(t) /\ h + 1 \in h + 1..to
      BY <1>0, <2>0, <2>1 DEF Ends
    <2>3. Parser!WrongStart(w)
      <3>1. CASE k = h + 1
        <4>1. k - 1 = h
          BY <1>0, <3>1
        <4>2. w = <<>>
          BY <1>1, <2>2, <4>1, TrimBlank DEF Between
        <4> QED
          BY <4>2 DEF Parser!WrongStart
      <3>2. CASE k # h + 1
        <4>1. h + 1 \in h + 1..k - 1 /\ h + 1 \in b + 1..k - 1 /\ h + 1 \in h + 1..to - 1 /\ (h + 1) - 1 = h
          BY <1>0, <2>k, <3>2
        <4>2. t[h + 1] # "|" /\ t[h + 1] # "n"
          BY <1>2, <2>1, <4>1 DEF Ends
        <4>3. t[h + 1] \in {"=", "^"} /\ t[h + 1] # Space
          BY <4>2, SpaceIs
        <4>4. Blank(t, b + 1, (h + 1) - 1)
          BY <1>1, <4>1 DEF Between
        <4>5. Parser!Trim(t, b + 1, k - 1) # <<>> /\ Parser!Trim(t, b + 1, k - 1)[1] = t[h + 1]
          BY SMTT(60), <2>k, <4>1, <4>3, <4>4, TrimBegins
        <4> QED
          BY <2>2, <4>3, <4>5 DEF Parser!WrongStart
      <3> QED
        BY <3>1, <3>2
    <2>4. ~GoodPart(w, DOMAIN d) /\ "syntax" = Judged(w, DOMAIN d)
      BY <2>3 DEF GoodPart, Judged
    <2>5. CASE s.kind = "DEF"
      BY <1>h, <1>1, <2>1, <2>2, <2>3, <2>5, WrongPart
    <2>6. CASE s.kind = "EXP"
      <3>1. ~Parser!IsDefinition(t, ls, to) /\ Parser!Trim(t, ls + 1, to - 1) # <<>>
        BY <1>h, <1>1, <2>6, OnlyExpression
      <3>2. s.kind # "DEF"
        BY <2>6
      <3> QED
        BY <1>h, <1>1, <2>1, <2>2, <2>4, <3>1, <3>2, WrongPart
    <2>7. CASE s.kind = "ANY"
      <3>0. b = ls /\ st = ls /\ s.kind # "DEF" /\ (\A j \in ls + 1..h : t[j] # "=") /\ (\A j \in ls + 1..h : t[j] # "|")
        BY <1>1, <2>7 DEF Places, Begins
      <3>1. t[h + 1] \in {"=", "|", "^"}
        BY <2>7
      <3>2. Parser!Trim(t, ls + 1, to - 1) # <<>>
        <4>1. to # h + 1
          BY <1>2, <3>1
        <4>2. h + 1 \in ls + 1..to - 1 /\ to - 1 \in Nat /\ to - 1 <= Len(t) /\ ls + 1 \in Nat \ {0}
          BY <1>0, <2>0, <4>1
        <4>3. t[h + 1] # Space
          BY <3>1, SpaceIs
        <4> QED
          BY <4>2, <4>3, NonBlank
      <3>3. CASE ~Parser!IsDefinition(t, ls, to)
        BY <1>h, <1>1, <2>1, <2>2, <2>4, <3>0, <3>2, <3>3, WrongPart
      <3>4. CASE Parser!IsDefinition(t, ls, to)
        <4>1. PICK e \in ls + 1..to - 1 : e = Parser!Min({j \in ls + 1..to - 1 : t[j] = "="}) /\ t[e] = "="
          <5> DEFINE X == {j \in ls + 1..to - 1 : t[j] = "="}
          <5>1. X \subseteq Nat /\ X # {}
            BY <1>0, <3>4 DEF Parser!IsDefinition
          <5> HIDE DEF X
          <5>2. Parser!Min(X) \in X
            BY <5>1, LeastIs
          <5> USE DEF X
          <5> QED
            BY <5>2
        <4>2. ~(e \in ls + 1..h) /\ e \in Nat /\ h + 1 <= e
          BY <1>0, <3>0, <4>1
        <4>3. Parser!WrongStart(Parser!Trim(t, ls + 1, e - 1))
          <5>1. CASE e = h + 1
            <6>1. e - 1 = h
              BY <1>0, <5>1
            <6>2. Parser!Trim(t, ls + 1, e - 1) = <<>>
              BY <1>1, <3>0, <6>1, TrimBlank DEF Between
            <6> QED
              BY <6>2 DEF Parser!WrongStart
          <5>2. CASE e # h + 1
            <6>1. h + 1 \in ls + 1..e - 1 /\ (h + 1) - 1 = h /\ e - 1 \in Nat /\ e - 1 <= Len(t) /\ ls + 1 \in Nat \ {0}
              BY <1>0, <2>0, <4>1, <4>2, <5>2
            <6>2. t[h + 1] \in {"=", "^"}
              <7>1. t[h + 1] # "|"
                <8>1. PICK x \in ls + 1..to - 1 : t[x] = "=" /\ \A j \in ls + 1..x : t[j] # "|"
                  BY <3>4 DEF Parser!IsDefinition
                <8>2. ~(x \in ls + 1..h)
                  BY <3>0, <8>1
                <8>3. h + 1 \in ls + 1..x
                  BY <1>0, <8>1, <8>2
                <8> QED
                  BY <8>1, <8>3
              <7> QED
                BY <3>1, <7>1
            <6>3. t[h + 1] # Space /\ Blank(t, ls + 1, (h + 1) - 1)
              BY <1>1, <3>0, <6>1, <6>2, SpaceIs DEF Between
            <6>4. Parser!Trim(t, ls + 1, e - 1) # <<>> /\ Parser!Trim(t, ls + 1, e - 1)[1] = t[h + 1]
              BY <6>1, <6>3, TrimBegins
            <6> QED
              BY <6>2, <6>4 DEF Parser!WrongStart
          <5> QED
            BY <5>1, <5>2
        <4> QED
          BY ZenonT(60), <3>2, <3>4, <4>1, <4>3, DefinitionWrong
      <3> QED
        BY <3>3, <3>4
    <2> QED
      BY <2>5, <2>6, <2>7
  <1> QED
    BY <1>1, <1>2, WrongLine

-----------------------------------------------------------------------------
\* No sign that ends a word between h and to.
Free(t, h, to, kind) ==
  \A j \in h + 1..to - 1 : t[j] # "n" /\ t[j] # "|" /\ (kind # "DEF" => t[j] # "=")

\* A second sign of a definition in an expression.
LEMMA TrimHolds ==
  ASSUME NEW t \in Word, NEW i \in Nat \ {0}, NEW k \in Nat, k <= Len(t),
         NEW w \in i..k, Blank(t, i, w - 1), t[w] # Space, NEW j \in w..k, t[j] # Space
  PROVE  HasSign(Parser!Trim(t, i, k), t[j])
  BY TrimBegins DEF HasSign

LEMMA WrongEquals ==
  ASSUME NEW t \in Word, NEW h \in 0..Len(t) - 1, NEW s, NEW sc, NEW ex, NEW d, NEW r,
         s.kind = "EXP", s.inside, ScriptAt(t, h, s, sc, ex, d, r),
         NEW at \in h + 1..Len(t), t[at] = "=", Free(t, h, at, s.kind)
  PROVE  Finished(t, d, r, "syntax")
  <1>h. h \in 0..Len(t) /\ Len(t) \in Nat
    BY LenProperties DEF Word
  <1>1. PICK ls, st, b, x : /\ Places(t, h, "EXP", ls, st, b) /\ Said(t, h, "EXP", ex, d, ls, st)
                            /\ InWord(t, h, x, sc, b) /\ Parser!Obeyed(t, "program")[h] = Acc(d, r, "ok")
    BY DEF ScriptAt, Hand
  <1>0. /\ Len(t) \in Nat /\ h \in Nat /\ ls \in Nat /\ st \in Nat /\ b \in Nat
        /\ ls <= st /\ st <= b /\ b <= h /\ h < Len(t)
    BY <1>h, <1>1, PlacesAre
  <1>2. ASSUME NEW to \in h + 1..Len(t), t[to] = "n", \A j \in h + 1..to - 1 : t[j] # "n"
        PROVE  Parser!Line(t, Acc(d, r, "ok"), ls, to, "program") = Acc(d, r, "syntax")
    <2>0. to \in Nat /\ h < to /\ to <= Len(t) /\ at < to
      <3>1. ~(to \in h + 1..at - 1) /\ to # at
        BY <1>2 DEF Free
      <3> QED
        BY <1>0, <3>1
    <2>1. PICK k \in Nat : Ends(t, h, k, to)
      BY <1>0, <2>0, PartEnds
    <2>2. PICK w : w = Parser!Trim(t, b + 1, k - 1)
      OBVIOUS
    <2>k. k \in h + 1..to /\ b + 1 \in Nat \ {0} /\ k - 1 \in Nat /\ k - 1 <= Len(t) /\ at < k
      <3>1. k \in h + 1..to /\ (k = to \/ t[k] = "|")
        BY <2>1 DEF Ends
      <3>2. ~(k \in h + 1..at - 1) /\ k # at
        BY <2>0, <3>1 DEF Free
      <3> QED
        BY <1>0, <2>0, <3>1, <3>2
    <2>3. HasSign(w, "=")
      <3>1. x \in b + 1..h + 1 /\ Blank(t, b + 1, x - 1) /\ t[x] # Space
        BY <1>1 DEF InWord, WordStart
      <3>2. x \in b + 1..k - 1 /\ at \in x..k - 1 /\ t[at] # Space
        BY <1>0, <2>k, <3>1, SpaceIs
      <3>3. HasSign(Parser!Trim(t, b + 1, k - 1), t[at])
        BY <2>k, <3>1, <3>2, TrimHolds
      <3> QED
        BY <2>2, <3>3
    <2>4. ~GoodPart(w, DOMAIN d) /\ "syntax" = Judged(w, DOMAIN d)
      BY <2>3 DEF GoodPart, Judged
    <2>5. ~Parser!IsDefinition(t, ls, to) /\ Parser!Trim(t, ls + 1, to - 1) # <<>>
      BY <1>h, <1>1, OnlyExpression
    <2> QED
      BY <1>h, <1>1, <2>1, <2>2, <2>4, <2>5, WrongPart
  <1> QED
    BY <1>1, <1>2, WrongLine

\* The end of a word of an expression: no definition before it, and what the word is.
NameIs(t, h, ls, b, sc, at) ==
  /\ \A j \in ls + 1..at - 1 : t[j] # "="
  /\ \A j \in b + 1..at - 1 : t[j] # "|"
  /\ Parser!Strip(sc \o SubSeq(t, h + 1, at - 1)) = Parser!Trim(t, b + 1, at - 1)
  /\ ~Parser!WrongStart(Parser!Trim(t, b + 1, at - 1))
  /\ ~HasSign(Parser!Trim(t, b + 1, at - 1), "=")
  /\ Parser!Trim(t, ls + 1, at - 1) # <<>>

LEMMA NameEnds ==
  ASSUME NEW t \in Word, NEW h \in 0..Len(t), NEW kind, kind # "DEF",
         NEW ls, NEW st, NEW b, Places(t, h, kind, ls, st, b), NEW x, NEW sc, InWord(t, h, x, sc, b),
         NEW at \in h + 1..Len(t), t[at] \in {"|", "n", "="}, Free(t, h, at, kind)
  PROVE  NameIs(t, h, ls, b, sc, at)
  <1>0. /\ Len(t) \in Nat /\ h \in Nat /\ ls \in Nat /\ st \in Nat /\ b \in Nat
        /\ ls <= st /\ st <= b /\ b <= h /\ h <= Len(t) /\ st = ls
    BY PlacesAre DEF Places
  <1>1. \A j \in ls + 1..at - 1 : t[j] # "="
    <2>1. \A j \in ls + 1..at - 1 : j \in ls + 1..h \/ j \in h + 1..at - 1
      BY <1>0
    <2> QED
      BY <2>1 DEF Places, Free
  <1>2. \A j \in b + 1..at - 1 : t[j] # "|"
    <2>1. \A j \in b + 1..at - 1 : j \in b + 1..h \/ j \in h + 1..at - 1
      BY <1>0
    <2> QED
      BY <2>1 DEF Places, Free, Begins
  <1>3. b \in 0..h /\ ~WordStart(t[at])
    BY <1>0 DEF WordStart
  <1>4. \A j \in b + 1..at - 1 : t[j] # "="
    <2>1. \A j \in b + 1..at - 1 : j \in ls + 1..at - 1
      BY <1>0
    <2> QED
      BY <1>1, <2>1
  <1>5. /\ Parser!Strip(sc \o SubSeq(t, h + 1, at - 1)) = Parser!Trim(t, b + 1, at - 1)
        /\ ~Parser!WrongStart(Parser!Trim(t, b + 1, at - 1))
        /\ ~HasSign(Parser!Trim(t, b + 1, at - 1), "=")
        /\ x \in b + 1..at - 1 /\ t[x] # Space
    BY <1>3, <1>4, WordIs
  <1>6. Parser!Trim(t, ls + 1, at - 1) # <<>>
    <2>1. ls + 1 \in Nat \ {0} /\ at - 1 \in Nat /\ at - 1 <= Len(t) /\ x \in ls + 1..at - 1
      BY <1>0, <1>5
    <2> QED
      BY <1>5, <2>1, NonBlank
  <1> QED
    BY <1>1, <1>2, <1>5, <1>6 DEF NameIs

\* A name that is not known.
LEMMA UnknownName ==
  ASSUME NEW t \in Word, NEW h \in 0..Len(t) - 1, NEW s, NEW sc, NEW ex, NEW d, NEW r,
         s.kind \in {"ANY", "EXP"}, s.inside, ScriptAt(t, h, s, sc, ex, d, r),
         NEW at \in h + 1..Len(t), t[at] \in {"|", "n"}, Free(t, h, at, s.kind),
         Parser!Strip(sc \o SubSeq(t, h + 1, at - 1)) \notin DOMAIN d
  PROVE  Finished(t, d, r, IF DOMAIN d = {} THEN "aborted" ELSE "unknown")
  <1>h. h \in 0..Len(t) /\ Len(t) \in Nat
    BY LenProperties DEF Word
  <1>1. PICK ls, st, b, x : /\ Places(t, h, s.kind, ls, st, b) /\ Said(t, h, s.kind, ex, d, ls, st)
                            /\ InWord(t, h, x, sc, b) /\ Parser!Obeyed(t, "program")[h] = Acc(d, r, "ok")
    BY DEF ScriptAt, Hand
  <1>0. /\ Len(t) \in Nat /\ h \in Nat /\ ls \in Nat /\ st \in Nat /\ b \in Nat
        /\ ls <= st /\ st <= b /\ b <= h /\ h < Len(t)
    BY <1>h, <1>1, PlacesAre
  <1>a. s.kind # "DEF" /\ t[at] \in {"|", "n", "="}
    OBVIOUS
  <1>b. /\ \A j \in ls + 1..at - 1 : t[j] # "="
        /\ \A j \in b + 1..at - 1 : t[j] # "|"
        /\ Parser!Strip(sc \o SubSeq(t, h + 1, at - 1)) = Parser!Trim(t, b + 1, at - 1)
        /\ ~Parser!WrongStart(Parser!Trim(t, b + 1, at - 1))
        /\ ~HasSign(Parser!Trim(t, b + 1, at - 1), "=")
        /\ Parser!Trim(t, ls + 1, at - 1) # <<>>
    <2>1. NameIs(t, h, ls, b, sc, at)
      BY <1>h, <1>1, <1>a, NameEnds
    <2> QED
      BY <2>1 DEF NameIs
  <1>3. PICK w : w = Parser!Trim(t, b + 1, at - 1) /\ Parser!Strip(sc \o SubSeq(t, h + 1, at - 1)) = w
                 /\ ~Parser!WrongStart(w) /\ ~HasSign(w, "=")
    BY <1>b
  <1>4. (\A j \in ls + 1..at - 1 : t[j] # "=") /\ Parser!Trim(t, ls + 1, at - 1) # <<>>
    BY <1>b
  <1>5. PICK v : v = (IF DOMAIN d = {} THEN "aborted" ELSE "unknown") /\ v # "ok"
    OBVIOUS
  <1>6. ~GoodPart(w, DOMAIN d) /\ v = Judged(w, DOMAIN d)
    BY <1>3, <1>5 DEF GoodPart, Judged
  <1>2. ASSUME NEW to \in h + 1..Len(t), t[to] = "n", \A j \in h + 1..to - 1 : t[j] # "n"
        PROVE  Parser!Line(t, Acc(d, r, "ok"), ls, to, "program") = Acc(d, r, v)
    <2>0. to \in Nat /\ h < to /\ to <= Len(t) /\ at <= to /\ (at = to \/ t[at] = "|")
      <3>1. ~(to \in h + 1..at - 1)
        BY <1>2 DEF Free
      <3>2. t[at] = "n" => ~(at \in h + 1..to - 1)
        BY <1>2
      <3> QED
        BY <1>0, <3>1, <3>2
    <2>1. Ends(t, h, at, to)
      BY <1>0, <2>0 DEF Ends, Free
    <2>2. ~Parser!IsDefinition(t, ls, to)
      <3>1. at \in ls + 1..to /\ ls \in Nat /\ to \in Nat
        BY <1>0, <2>0
      <3> QED
        BY <1>4, <2>0, <3>1, NoDefinition
    <2>3. Parser!Trim(t, ls + 1, to - 1) # <<>>
      <3>1. x \in b + 1..h + 1 /\ t[x] # Space /\ x # at
        BY <1>1 DEF InWord, WordStart
      <3>2. ls + 1 \in Nat \ {0} /\ to - 1 \in Nat /\ to - 1 <= Len(t) /\ x \in ls + 1..to - 1
        BY <1>0, <2>0, <3>1
      <3> QED
        BY <3>1, <3>2, NonBlank
    <2> QED
      BY <1>h, <1>1, <1>3, <1>6, <1>a, <2>1, <2>2, <2>3, WrongPart
  <1>7. Finished(t, d, r, v)
    BY <1>1, <1>2, <1>5, WrongLine
  <1> QED
    BY <1>5, <1>7

LEMMA LineBlank ==
  ASSUME NEW t, NEW acc, NEW from, NEW to, Parser!Trim(t, from + 1, to - 1) = <<>>
  PROVE  Parser!Line(t, acc, from, to, "program") = acc
  BY Zenon DEF Parser!Line

-----------------------------------------------------------------------------
\* The steps of the parser that go on, as steps in the text.
Fresh == [kind |-> "ANY", inside |-> FALSE]

\* A line begins.
LEMMA LineBegins ==
  ASSUME NEW t \in Word, NEW h \in 0..Len(t), h = 0 \/ t[h] = "n", NEW d, NEW r,
         Parser!Obeyed(t, "program")[h] = Acc(d, r, "ok")
  PROVE  ScriptAt(t, h, Fresh, <<>>, <<>>, d, r)
  <1>0. Len(t) \in Nat /\ h \in Nat
    BY LenProperties DEF Word
  <1>1. Parser!PartsBefore(t, h)[h] = <<>>
    BY <1>0, PartsAre
  <1>2. Places(t, h, "ANY", h, h, h)
    <2>1. LineFrom(t, h, h) /\ Begins(t, h, h, h) /\ \A j \in h + 1..h : t[j] # "="
      BY <1>0 DEF LineFrom, Begins
    <2> QED
      BY <2>1 DEF Places
  <1>3. Said(t, h, "ANY", <<>>, d, h, h)
    <2>1. \A i \in 1..Len(<<>>) : FALSE
      OBVIOUS
    <2> QED
      BY <1>1, <2>1 DEF Said
  <1>4. Hand(t, h, FALSE, <<>>, h)
    BY <1>0 DEF Hand, Between, Blank
  <1> QED
    BY <1>2, <1>3, <1>4 DEF ScriptAt, Fresh

\* A symbol that belongs to the same line and part.
LEMMA PlacesMove ==
  ASSUME NEW t \in Word, NEW h \in 0..Len(t), NEW e \in h..Len(t), NEW kind, NEW ls, NEW st, NEW b,
         NEW ex, NEW d, NEW r,
         Places(t, h, kind, ls, st, b), Said(t, h, kind, ex, d, ls, st), Parser!Obeyed(t, "program")[h] = Acc(d, r, "ok"),
         \A j \in h + 1..e : t[j] # "n" /\ t[j] # "|" /\ (kind # "DEF" => t[j] # "=")
  PROVE  /\ Places(t, e, kind, ls, st, b) /\ Said(t, e, kind, ex, d, ls, st)
         /\ Parser!Obeyed(t, "program")[e] = Acc(d, r, "ok")
  <1>0. /\ Len(t) \in Nat /\ h \in Nat /\ ls \in Nat /\ st \in Nat /\ b \in Nat
        /\ ls <= st /\ st <= b /\ b <= h /\ h <= Len(t)
    BY PlacesAre
  <1>1. e \in Nat /\ h <= e /\ e <= Len(t)
    BY <1>0
  <1>2. LineFrom(t, ls, e)
    <2>1. \A j \in ls + 1..e : j \in ls + 1..h \/ j \in h + 1..e
      BY <1>0, <1>1
    <2>2. ls \in 0..e
      BY <1>0, <1>1
    <2> QED
      BY <2>1, <2>2 DEF Places, LineFrom
  <1>3. Begins(t, st, b, e)
    <2>1. \A j \in b + 1..e : j \in b + 1..h \/ j \in h + 1..e
      BY <1>0, <1>1
    <2>2. b \in st..e
      BY <1>0, <1>1
    <2> QED
      BY <2>1, <2>2 DEF Places, Begins
  <1>4. kind = "DEF" => st \in ls + 1..e
    BY <1>0, <1>1 DEF Places
  <1>5. kind # "DEF" => \A j \in ls + 1..e : t[j] # "="
    <2>1. \A j \in ls + 1..e : j \in ls + 1..h \/ j \in h + 1..e
      BY <1>0, <1>1
    <2> QED
      BY <2>1 DEF Places
  <1>6. Places(t, e, kind, ls, st, b)
    BY <1>2, <1>3, <1>4, <1>5 DEF Places
  <1>7. Parser!PartsBefore(t, st)[e] = Parser!PartsBefore(t, st)[h]
    <2>1. st \in 0..Len(t) /\ h \in st..Len(t) /\ \A j \in h + 1..e : t[j] # "|"
      BY <1>0, <1>1
    <2> QED
      BY <2>1, PartsFlat
  <1>8. Said(t, e, kind, ex, d, ls, st)
    BY <1>7 DEF Said
  <1>9. Parser!Obeyed(t, "program")[e] = Parser!Obeyed(t, "program")[h]
    BY <1>0, ObeyedFlat
  <1> QED
    BY <1>6, <1>8, <1>9

\* A blank before a word.
LEMMA StepBlank ==
  ASSUME NEW t \in Word, NEW h \in 0..Len(t) - 1, NEW s, NEW sc, NEW ex, NEW d, NEW r,
         ~s.inside, ScriptAt(t, h, s, sc, ex, d, r), t[h + 1] = Space
  PROVE  ScriptAt(t, h + 1, s, sc, ex, d, r)
  <1>h. h \in 0..Len(t) /\ Len(t) \in Nat /\ h + 1 \in h..Len(t) /\ h \in Nat
    BY LenProperties DEF Word
  <1>1. PICK ls, st, b : /\ Places(t, h, s.kind, ls, st, b) /\ Said(t, h, s.kind, ex, d, ls, st)
                         /\ Between(t, h, sc, b) /\ Parser!Obeyed(t, "program")[h] = Acc(d, r, "ok")
    BY DEF ScriptAt, Hand
  <1>2. \A j \in h + 1..h + 1 : t[j] # "n" /\ t[j] # "|" /\ t[j] # "="
    <2>1. \A j \in h + 1..h + 1 : j = h + 1
      BY <1>h
    <2> QED
      BY <2>1, SpaceIs
  <1>3. /\ Places(t, h + 1, s.kind, ls, st, b) /\ Said(t, h + 1, s.kind, ex, d, ls, st)
        /\ Parser!Obeyed(t, "program")[h + 1] = Acc(d, r, "ok")
    <2>1. h \in 0..Len(t) /\ h + 1 \in h..Len(t)
      BY <1>h
    <2>2. \A j \in h + 1..h + 1 : t[j] # "n" /\ t[j] # "|" /\ (s.kind # "DEF" => t[j] # "=")
      BY <1>2
    <2> QED
      BY SMTT(60), <1>1, <2>1, <2>2, PlacesMove
  <1>4. Between(t, h + 1, sc, b)
    <2>1. b \in Nat
      BY <1>h, <1>1, PlacesAre
    <2>2. \A j \in b + 1..h + 1 : j \in b + 1..h \/ j = h + 1
      BY <1>h, <2>1
    <2> QED
      BY <1>1, <2>2 DEF Between, Blank
  <1> QED
    BY <1>3, <1>4 DEF ScriptAt, Hand

\* A line of blanks.
LEMMA StepNewline ==
  ASSUME NEW t \in Word, NEW h \in 0..Len(t) - 1, NEW s, NEW sc, NEW ex, NEW d, NEW r,
         ~s.inside, s.kind = "ANY", ScriptAt(t, h, s, sc, ex, d, r), t[h + 1] = "n"
  PROVE  ScriptAt(t, h + 1, Fresh, sc, ex, d, r)
  <1>h. h \in 0..Len(t) /\ Len(t) \in Nat /\ h + 1 \in 1..Len(t) /\ h + 1 \in h + 1..Len(t) /\ h + 1 \in 0..Len(t) /\ h \in Nat
    BY LenProperties DEF Word
  <1>1. PICK ls, st, b : /\ Places(t, h, "ANY", ls, st, b) /\ Said(t, h, "ANY", ex, d, ls, st)
                         /\ Between(t, h, sc, b) /\ Parser!Obeyed(t, "program")[h] = Acc(d, r, "ok")
    BY DEF ScriptAt, Hand
  <1>0. /\ ls \in Nat /\ st \in Nat /\ b \in Nat /\ st = ls /\ b = ls
        /\ ls <= h /\ LineFrom(t, ls, h) /\ Begins(t, ls, ls, h)
    BY ZenonT(60), <1>h, <1>1, PlacesAre DEF Places
  <1>2. Parser!Trim(t, ls + 1, (h + 1) - 1) = <<>>
    <2>1. (h + 1) - 1 = h
      BY <1>h
    <2> QED
      BY <1>0, <1>1, <2>1, TrimBlank DEF Between
  <1>3. Parser!Line(t, Acc(d, r, "ok"), ls, h + 1, "program") = Acc(d, r, "ok")
    BY <1>2, LineBlank
  <1>4. \A j \in h + 1..(h + 1) - 1 : t[j] # "n"
    BY <1>h
  <1>5. Parser!Obeyed(t, "program")[h + 1] = Parser!Line(t, Parser!Obeyed(t, "program")[h], ls, h + 1, "program")
    BY <1>h, <1>0, <1>4, LineEnds
  <1>6. sc = <<>> /\ ex = <<>>
    <2>1. ls \in 0..Len(t) /\ ls \in ls..Len(t) /\ h \in ls..Len(t)
      BY <1>h, <1>0
    <2>2. \A j \in ls + 1..h : t[j] # "|"
      BY <1>0 DEF Begins
    <2>3. Parser!PartsBefore(t, ls)[h] = Parser!PartsBefore(t, ls)[ls]
      BY <2>1, <2>2, PartsFlat
    <2>4. Parser!PartsBefore(t, ls)[ls] = <<>>
      BY <1>h, <2>1, PartsAre
    <2>5. ex = Parser!PartsBefore(t, ls)[h]
      BY <1>0, <1>1 DEF Said
    <2> QED
      BY <1>1, <2>3, <2>4, <2>5 DEF Between
  <1>7. Parser!Obeyed(t, "program")[h + 1] = Acc(d, r, "ok")
    BY <1>1, <1>3, <1>5
  <1> QED
    BY <1>h, <1>6, <1>7, LineBegins

\* A word begins.
LEMMA StepEnter ==
  ASSUME NEW t \in Word, NEW h \in 0..Len(t) - 1, NEW s, NEW e, NEW sc, NEW ex, NEW d, NEW r,
         ~s.inside, ScriptAt(t, h, s, sc, ex, d, r), WordStart(t[h + 1]), e.kind = s.kind, e.inside
  PROVE  ScriptAt(t, h, e, sc, ex, d, r)
  <1>h. h \in 0..Len(t) /\ Len(t) \in Nat /\ h \in Nat /\ h + 1 <= Len(t)
    BY LenProperties DEF Word
  <1>1. PICK ls, st, b : /\ Places(t, h, s.kind, ls, st, b) /\ Said(t, h, s.kind, ex, d, ls, st)
                         /\ Between(t, h, sc, b) /\ Parser!Obeyed(t, "program")[h] = Acc(d, r, "ok")
    BY DEF ScriptAt, Hand
  <1>2. InWord(t, h, h + 1, sc, b)
    <2>1. b \in Nat /\ b <= h
      BY <1>h, <1>1, PlacesAre
    <2>2. h + 1 \in b + 1..h + 1 /\ (h + 1) - 1 = h
      BY <1>h, <2>1
    <2>3. SubSeq(t, h + 1, h) = <<>>
      <3>1. h + 1 \in Nat \ {0} /\ h + 1 <= h + 1 /\ h <= Len(t)
        BY <1>h
      <3>2. SubSeq(t, h + 1, h) \in Word /\ Len(SubSeq(t, h + 1, h)) = h - (h + 1) + 1
        BY <1>h, <3>1, Piece
      <3>3. Len(SubSeq(t, h + 1, h)) = 0
        BY <1>h, <3>2
      <3> QED
        BY <3>2, <3>3, EmptySeq DEF Word
    <2> QED
      BY <1>h, <1>1, <2>2, <2>3 DEF InWord, Between
  <1>3. Hand(t, h, e.inside, sc, b)
    BY <1>2 DEF Hand
  <1> QED
    BY <1>1, <1>3 DEF ScriptAt

\* A word goes on in the next piece.
LEMMA StepContinue ==
  ASSUME NEW t \in Word, NEW h \in 0..Len(t), NEW e \in h..Len(t), NEW s, NEW sc, NEW ex, NEW d, NEW r,
         s.inside, ScriptAt(t, h, s, sc, ex, d, r), Free(t, h, e + 1, s.kind)
  PROVE  ScriptAt(t, e, s, sc \o SubSeq(t, h + 1, e), ex, d, r)
  <1>h. Len(t) \in Nat /\ h \in Nat /\ e \in Nat /\ h <= e /\ e <= Len(t)
    BY LenProperties DEF Word
  <1>1. PICK ls, st, b, x : /\ Places(t, h, s.kind, ls, st, b) /\ Said(t, h, s.kind, ex, d, ls, st)
                            /\ InWord(t, h, x, sc, b) /\ Parser!Obeyed(t, "program")[h] = Acc(d, r, "ok")
    BY DEF ScriptAt, Hand
  <1>2. \A j \in h + 1..e : t[j] # "n" /\ t[j] # "|" /\ (s.kind # "DEF" => t[j] # "=")
    <2>1. (e + 1) - 1 = e
      BY <1>h
    <2> QED
      BY <2>1 DEF Free
  <1>3. /\ Places(t, e, s.kind, ls, st, b) /\ Said(t, e, s.kind, ex, d, ls, st)
        /\ Parser!Obeyed(t, "program")[e] = Acc(d, r, "ok")
    BY <1>h, <1>1, <1>2, PlacesMove
  <1>4. InWord(t, e, x, sc \o SubSeq(t, h + 1, e), b)
    <2>1. b \in Nat /\ b <= h
      BY <1>h, <1>1, PlacesAre
    <2>2. x \in Nat \ {0} /\ x <= h + 1 /\ x \in b + 1..e + 1 /\ sc = SubSeq(t, x, h)
      BY <1>h, <1>1, <2>1 DEF InWord
    <2>3. sc \o SubSeq(t, h + 1, e) = SubSeq(t, x, e)
      BY <1>h, <2>2, Joined
    <2> QED
      BY <1>1, <2>2, <2>3 DEF InWord
  <1>5. Hand(t, e, s.inside, sc \o SubSeq(t, h + 1, e), b)
    BY <1>4 DEF Hand
  <1> QED
    BY <1>3, <1>5 DEF ScriptAt

LEMMA AddedWord ==
  ASSUME NEW done \in Seq(Word), NEW w \in Word
  PROVE  /\ Append(done, w) \in Seq(Word) /\ Len(Append(done, w)) = Len(done) + 1
         /\ \A i \in 1..Len(Append(done, w)) : (i \in 1..Len(done) /\ Append(done, w)[i] = done[i])
                                               \/ (i = Len(done) + 1 /\ Append(done, w)[i] = w)
  <1>1. Len(done) \in Nat
    BY LenProperties
  <1>2. Append(done, w) \in Seq(Word) /\ Len(Append(done, w)) = Len(done) + 1
        /\ (\A i \in 1..Len(done) : Append(done, w)[i] = done[i]) /\ Append(done, w)[Len(done) + 1] = w
    BY AppendProperties
  <1>3. \A i \in 1..Len(Append(done, w)) : i \in 1..Len(done) \/ i = Len(done) + 1
    BY <1>1, <1>2
  <1> QED
    BY <1>2, <1>3

LEMMA NamedWords ==
  ASSUME NEW name \in Word, NEW done \in Seq(Word), NEW w \in Word
  PROVE  /\ Append(<<name>> \o done, w) = <<name>> \o Append(done, w)
         /\ <<name>> \o done \in Seq(Word)
         /\ (<<name>> \o done)[1] = name /\ Tail(<<name>> \o done) = done
  <1>0. <<name>> \in Seq(Word) /\ Len(<<name>>) = 1 /\ <<name>>[1] = name
    OBVIOUS
  <1>1. <<name>> \o done \in Seq(Word)
    BY <1>0, ConcatProperties
  <1>2. Append(<<name>> \o done, w) = (<<name>> \o done) \o <<w>> /\ Append(done, w) = done \o <<w>>
    BY <1>1, AppendIsConcat
  <1>3. <<w>> \in Seq(Word)
    OBVIOUS
  <1>4. (<<name>> \o done) \o <<w>> = <<name>> \o (done \o <<w>>)
    BY <1>0, <1>3, ConcatAssociative
  <1>5. (<<name>> \o done)[1] = name
    <2>1. Len(<<name>> \o done) = 1 + Len(done) /\ Len(done) \in Nat
          /\ \A i \in 1..1 + Len(done) : (<<name>> \o done)[i] = IF i <= 1 THEN <<name>>[i] ELSE done[i - 1]
      BY <1>0, ConcatProperties, LenProperties
    <2>2. 1 \in 1..1 + Len(done) /\ 1 <= 1
      BY <2>1
    <2> QED
      BY <1>0, <2>1, <2>2
  <1>6. Tail(<<name>> \o done) = done
    <2>1. Len(<<name>> \o done) = 1 + Len(done) /\ Len(done) \in Nat
          /\ \A i \in 1..1 + Len(done) : (<<name>> \o done)[i] = IF i <= 1 THEN <<name>>[i] ELSE done[i - 1]
      BY <1>0, ConcatProperties, LenProperties
    <2>2. <<name>> \o done # <<>>
      BY <1>1, <2>1
    <2>3. PICK u \in Seq(Word) : u = Tail(<<name>> \o done) /\ Len(u) = Len(<<name>> \o done) - 1
                                 /\ \A i \in 1..Len(<<name>> \o done) - 1 : u[i] = (<<name>> \o done)[i + 1]
      BY <1>1, <2>2, HeadTailProperties
    <2>4. Len(u) = Len(done)
      BY <2>1, <2>3
    <2>5. \A i \in 1..Len(u) : u[i] = done[i]
      <3> SUFFICES ASSUME NEW i \in 1..Len(u) PROVE u[i] = done[i]
        OBVIOUS
      <3>1. i \in 1..Len(<<name>> \o done) - 1 /\ i + 1 \in 1..1 + Len(done) /\ ~(i + 1 <= 1) /\ (i + 1) - 1 = i
        BY <2>1, <2>4
      <3> QED
        BY <2>1, <2>3, <3>1
    <2> QED
      BY <2>3, <2>4, <2>5, SeqEqual
  <1> QED
    BY <1>1, <1>2, <1>4, <1>5, <1>6

\* The word that ends at a sign, and the parts with it.
LEMMA PartAdded ==
  ASSUME NEW t \in Word, NEW h \in 0..Len(t), NEW kind, NEW ls, NEW st, NEW b, NEW ex, NEW d, NEW r,
         Places(t, h, kind, ls, st, b), Said(t, h, kind, ex, d, ls, st), Parser!Obeyed(t, "program")[h] = Acc(d, r, "ok"),
         NEW x, NEW sc, InWord(t, h, x, sc, b),
         NEW at \in h + 1..Len(t), t[at] \in {"|", "n", "="}, Free(t, h, at, kind),
         NEW w, w = Parser!Strip(sc \o SubSeq(t, h + 1, at - 1))
  PROVE  /\ Places(t, at - 1, kind, ls, st, b) /\ Parser!Obeyed(t, "program")[at - 1] = Acc(d, r, "ok")
         /\ w \in Word /\ ~Parser!WrongStart(w) /\ (kind # "DEF" => ~HasSign(w, "="))
         /\ Parser!PartsBefore(t, st)[at - 1] = Parser!PartsBefore(t, st)[h]
         /\ Parser!Part(t, st, at) = w
         /\ kind = "ANY" => w = Parser!Trim(t, ls + 1, at - 1)
  <1>0. /\ Len(t) \in Nat /\ h \in Nat /\ ls \in Nat /\ st \in Nat /\ b \in Nat
        /\ ls <= st /\ st <= b /\ b <= h /\ h <= Len(t)
    BY PlacesAre
  <1>1. at - 1 \in h..Len(t) /\ at \in Nat /\ at - 1 \in Nat /\ at - 1 < at /\ b \in 0..h
    BY <1>0
  <1>2. \A j \in h + 1..at - 1 : t[j] # "n" /\ t[j] # "|" /\ (kind # "DEF" => t[j] # "=")
    BY DEF Free
  <1>3. /\ Places(t, at - 1, kind, ls, st, b) /\ Said(t, at - 1, kind, ex, d, ls, st)
        /\ Parser!Obeyed(t, "program")[at - 1] = Acc(d, r, "ok")
    BY <1>1, <1>2, PlacesMove
  <1>4. ~WordStart(t[at])
    BY DEF WordStart
  <1>5. w = Parser!Trim(t, b + 1, at - 1) /\ ~Parser!WrongStart(w) /\ w \in Word
    BY <1>1, <1>4, WordIs
  <1>6. kind # "DEF" => ~HasSign(w, "=")
    <2>1. (\A j \in b + 1..at - 1 : t[j] # "=") => ~HasSign(w, "=")
      BY <1>1, <1>4, <1>5, WordIs
    <2>2. kind # "DEF" => \A j \in b + 1..at - 1 : t[j] # "="
      <3>1. \A j \in b + 1..at - 1 : j \in ls + 1..at - 1
        BY <1>0, <1>1
      <3> QED
        BY <1>3, <3>1 DEF Places
    <2> QED
      BY <2>1, <2>2
  <1>7. Parser!PartsBefore(t, st)[at - 1] = Parser!PartsBefore(t, st)[h]
    <2>1. st \in 0..Len(t) /\ h \in st..Len(t)
      BY <1>0
    <2> QED
      BY <1>1, <1>2, <2>1, PartsFlat
  <1>8. Parser!Part(t, st, at) = w
    <2>1. Begins(t, st, b, h)
      BY DEF Places
    <2>2. h < at
      BY <1>0
    <2>3. Parser!Part(t, st, at) = Parser!Trim(t, b + 1, at - 1)
      BY SMTT(60), <1>0, <1>1, <1>2, <2>1, <2>2, PartIs
    <2> QED
      BY <1>5, <2>3
  <1>9. kind = "ANY" => b = ls
    BY DEF Places
  <1> QED
    BY <1>3, <1>5, <1>6, <1>7, <1>8, <1>9

\* A pipe.
LEMMA StepPipe ==
  ASSUME NEW t \in Word, NEW h \in 0..Len(t), NEW s, NEW e, NEW sc, NEW ex, NEW d, NEW r,
         s.kind \in {"ANY", "DEF", "EXP"}, s.inside, ScriptAt(t, h, s, sc, ex, d, r),
         NEW at \in h + 1..Len(t), t[at] = "|", Free(t, h, at, s.kind),
         NEW w, w = Parser!Strip(sc \o SubSeq(t, h + 1, at - 1)), s.kind # "DEF" => w \in DOMAIN d,
         e.kind = (IF s.kind = "ANY" THEN "EXP" ELSE s.kind), ~e.inside
  PROVE  ScriptAt(t, at, e, <<>>, Append(ex, w), d, r)
  <1>1. PICK ls, st, b, x : /\ Places(t, h, s.kind, ls, st, b) /\ Said(t, h, s.kind, ex, d, ls, st)
                            /\ InWord(t, h, x, sc, b) /\ Parser!Obeyed(t, "program")[h] = Acc(d, r, "ok")
    BY DEF ScriptAt, Hand
  <1>0. /\ Len(t) \in Nat /\ h \in Nat /\ ls \in Nat /\ st \in Nat /\ b \in Nat
        /\ ls <= st /\ st <= b /\ b <= h /\ h <= Len(t)
    BY <1>1, PlacesAre
  <1>2. PICK kind, next : kind = s.kind /\ next = e.kind
    OBVIOUS
  <1>a. at \in Nat /\ h < at /\ at <= Len(t)
    BY <1>0
  <1>3. /\ Places(t, at - 1, kind, ls, st, b) /\ Parser!Obeyed(t, "program")[at - 1] = Acc(d, r, "ok")
        /\ w \in Word /\ ~Parser!WrongStart(w) /\ (kind # "DEF" => ~HasSign(w, "="))
        /\ Parser!PartsBefore(t, st)[at - 1] = Parser!PartsBefore(t, st)[h] /\ Parser!Part(t, st, at) = w
    BY <1>1, <1>2, PartAdded
  <1>4. PICK done \in Seq(Word) : done = Parser!PartsBefore(t, st)[h]
    BY <1>1, PlacesAre
  <1>5. Parser!PartsBefore(t, st)[at] = Append(done, w)
    <2>1. st \in 0..Len(t) /\ at \in st + 1..Len(t)
      BY <1>0, <1>a
    <2>2. Parser!PartsBefore(t, st)[at] = IF t[at] = "|" THEN Append(Parser!PartsBefore(t, st)[at - 1], Parser!Part(t, st, at))
                                          ELSE Parser!PartsBefore(t, st)[at - 1]
      <3>1. \A k \in st + 1..Len(t) :
              Parser!PartsBefore(t, st)[k] =
                IF t[k] = "|" THEN Append(Parser!PartsBefore(t, st)[k - 1], Parser!Part(t, st, k))
                ELSE Parser!PartsBefore(t, st)[k - 1]
        BY <1>0, <2>1, PartsAre
      <3> QED
        BY <2>1, <3>1
    <2> QED
      BY <1>3, <1>4, <2>2
  <1>6. Parser!Obeyed(t, "program")[at] = Acc(d, r, "ok")
    <2>1. at \in 1..Len(t) /\ t[at] # "n"
      BY <1>0, <1>a
    <2> QED
      BY <1>0, <1>3, <2>1, ObeyedIs
  <1>7. Places(t, at, next, ls, st, at)
    <2>1. LineFrom(t, ls, at)
      <3>1. ls \in 0..at /\ \A j \in ls + 1..at : j \in ls + 1..at - 1 \/ j = at
        BY <1>0, <1>a
      <3> QED
        BY <1>3, <3>1 DEF Places, LineFrom
    <2>2. Begins(t, st, at, at)
      <3>1. at \in st..at /\ \A j \in at + 1..at : FALSE
        BY <1>0, <1>a
      <3> QED
        BY <3>1 DEF Begins
    <2>3. at # ls /\ next # "ANY" /\ (next = "DEF" <=> kind = "DEF")
      BY <1>0, <1>2, <1>a
    <2>4. kind = "DEF" => st \in ls + 1..at
      BY <1>0, <1>3, <1>a DEF Places
    <2>5. kind # "DEF" => \A j \in ls + 1..at : t[j] # "="
      <3>1. \A j \in ls + 1..at : j \in ls + 1..at - 1 \/ j = at
        BY <1>0, <1>a
      <3> QED
        BY <1>3, <3>1 DEF Places
    <2>6. kind # "DEF" => st = ls
      BY <1>3 DEF Places
    <2>7. kind = "DEF" => t[st] = "=" /\ \A j \in ls + 1..st - 1 : t[j] # "=" /\ t[j] # "|"
      BY <1>3 DEF Places
    <2> QED
      BY <2>1, <2>2, <2>3, <2>4, <2>5, <2>6, <2>7 DEF Places
  <1>8. Said(t, at, next, Append(ex, w), d, ls, st)
    <2>1. \A i \in 1..Len(Append(done, w)) : (i \in 1..Len(done) /\ Append(done, w)[i] = done[i])
                                             \/ (i = Len(done) + 1 /\ Append(done, w)[i] = w)
      BY <1>3, AddedWord
    <2>2. CASE kind = "DEF"
      <3>1. next = "DEF"
        BY <1>2, <2>2
      <3>2. PICK name : name = Parser!Trim(t, ls + 1, st - 1)
        OBVIOUS
      <3>3. ex = <<name>> \o done /\ ~Parser!WrongStart(name) /\ \A i \in 1..Len(done) : ~Parser!WrongStart(done[i])
        BY <1>1, <1>2, <1>4, <2>2, <3>2 DEF Said
      <3>4. name \in Word
        <4>1. ls + 1 \in Nat \ {0} /\ st - 1 \in Int /\ st - 1 <= Len(t)
          BY <1>0
        <4> QED
          BY <3>2, <4>1, TrimWord
      <3>5. Append(ex, w) = <<name>> \o Append(done, w)
        BY <1>3, <3>3, <3>4, NamedWords
      <3>6. \A i \in 1..Len(Append(done, w)) : ~Parser!WrongStart(Append(done, w)[i])
        BY <1>3, <2>1, <3>3
      <3> QED
        BY <1>5, <3>1, <3>2, <3>3, <3>5, <3>6 DEF Said
    <2>3. CASE kind # "DEF"
      <3>1. next # "DEF"
        BY <1>2, <2>3
      <3>2. ex = done /\ \A i \in 1..Len(done) : GoodPart(done[i], DOMAIN d)
        BY <1>1, <1>2, <1>4, <2>3 DEF Said
      <3>3. GoodPart(w, DOMAIN d)
        BY <1>2, <1>3, <2>3 DEF GoodPart
      <3>4. \A i \in 1..Len(Append(done, w)) : GoodPart(Append(done, w)[i], DOMAIN d)
        BY <2>1, <3>2, <3>3
      <3> QED
        BY <1>5, <3>1, <3>2, <3>4 DEF Said
    <2> QED
      BY <2>2, <2>3
  <1>9. Hand(t, at, e.inside, <<>>, at)
    <2>1. \A j \in at + 1..at : FALSE
      BY <1>a
    <2> QED
      BY <2>1 DEF Hand, Between, Blank
  <1> QED
    BY <1>2, <1>6, <1>7, <1>8, <1>9 DEF ScriptAt

\* The name of a definition.
LEMMA StepName ==
  ASSUME NEW t \in Word, NEW h \in 0..Len(t), NEW s, NEW e, NEW sc, NEW ex, NEW d, NEW r,
         s.kind = "ANY", s.inside, ScriptAt(t, h, s, sc, ex, d, r),
         NEW at \in h + 1..Len(t), t[at] = "=", Free(t, h, at, s.kind),
         NEW w, w = Parser!Strip(sc \o SubSeq(t, h + 1, at - 1)), e.kind = "DEF", ~e.inside
  PROVE  ScriptAt(t, at, e, <<>>, Append(ex, w), d, r)
  <1>1. PICK ls, st, b, x : /\ Places(t, h, "ANY", ls, st, b) /\ Said(t, h, "ANY", ex, d, ls, st)
                            /\ InWord(t, h, x, sc, b) /\ Parser!Obeyed(t, "program")[h] = Acc(d, r, "ok")
    BY DEF ScriptAt, Hand
  <1>0. /\ Len(t) \in Nat /\ h \in Nat /\ ls \in Nat /\ st \in Nat /\ b \in Nat
        /\ ls <= st /\ st <= b /\ b <= h /\ h <= Len(t)
    BY <1>1, PlacesAre
  <1>a. at \in Nat /\ h < at /\ at <= Len(t)
    BY <1>0
  <1>2. Free(t, h, at, "ANY")
    OBVIOUS
  <1>3. /\ Places(t, at - 1, "ANY", ls, st, b) /\ Parser!Obeyed(t, "program")[at - 1] = Acc(d, r, "ok")
        /\ w \in Word /\ ~Parser!WrongStart(w) /\ ("ANY" = "ANY" => w = Parser!Trim(t, ls + 1, at - 1))
    BY <1>1, <1>2, PartAdded
  <1>4. st = ls /\ b = ls
    BY <1>1 DEF Places
  <1>5. ex = <<>>
    <2>1. ls \in 0..Len(t) /\ ls \in ls..Len(t) /\ h \in ls..Len(t)
      BY <1>0
    <2>2. \A j \in ls + 1..h : t[j] # "|"
      BY <1>1, <1>4 DEF Places, Begins
    <2>3. Parser!PartsBefore(t, ls)[h] = Parser!PartsBefore(t, ls)[ls]
      BY <2>1, <2>2, PartsFlat
    <2>4. Parser!PartsBefore(t, ls)[ls] = <<>>
      BY <1>0, <2>1, PartsAre
    <2>5. ex = Parser!PartsBefore(t, ls)[h]
      BY <1>1, <1>4 DEF Said
    <2> QED
      BY <2>3, <2>4, <2>5
  <1>6. Parser!PartsBefore(t, at)[at] = <<>>
    <2>1. at \in 0..Len(t)
      BY <1>0, <1>a
    <2> QED
      BY <1>0, <2>1, PartsAre
  <1>7. Parser!Obeyed(t, "program")[at] = Acc(d, r, "ok")
    <2>1. at \in 1..Len(t) /\ t[at] # "n"
      BY <1>0, <1>a
    <2> QED
      BY <1>0, <1>3, <2>1, ObeyedIs
  <1>8. Places(t, at, "DEF", ls, at, at)
    <2>1. LineFrom(t, ls, at)
      <3>1. ls \in 0..at /\ \A j \in ls + 1..at : j \in ls + 1..at - 1 \/ j = at
        BY <1>0, <1>a
      <3> QED
        BY <1>3, <3>1 DEF Places, LineFrom
    <2>2. Begins(t, at, at, at)
      <3>1. at \in at..at /\ \A j \in at + 1..at : FALSE
        BY <1>0, <1>a
      <3> QED
        BY <3>1 DEF Begins
    <2>3. at \in ls + 1..at
      BY <1>0, <1>a
    <2>4. \A j \in ls + 1..at - 1 : t[j] # "="
      BY <1>3 DEF Places
    <2>5. \A j \in ls + 1..at - 1 : t[j] # "|"
      BY <1>3, <1>4 DEF Places, Begins
    <2> QED
      BY <2>1, <2>2, <2>3, <2>4, <2>5 DEF Places
  <1>9. Said(t, at, "DEF", Append(ex, w), d, ls, at)
    <2>1. Append(ex, w) = <<w>> \o <<>>
      <3>1. <<w>> \o <<>> = <<w>>
        <4>1. <<w>> \in Seq(Word)
          BY <1>3
        <4> QED
          BY <4>1, ConcatEmptySeq
      <3>2. Append(<<>>, w) = <<w>>
        OBVIOUS
      <3> QED
        BY <1>5, <3>1, <3>2
    <2>2. \A i \in 1..Len(<<>>) : FALSE
      OBVIOUS
    <2> QED
      BY <1>3, <1>6, <2>1, <2>2 DEF Said
  <1>10. Hand(t, at, e.inside, <<>>, at)
    <2>1. \A j \in at + 1..at : FALSE
      BY <1>a
    <2> QED
      BY <2>1 DEF Hand, Between, Blank
  <1> QED
    BY <1>7, <1>8, <1>9, <1>10 DEF ScriptAt

\* A line that runs a pipeline.
RunsOn(t, at, d, r, parts) ==
  /\ \A i \in DOMAIN parts : parts[i] \in DOMAIN d
  /\ ScriptAt(t, at, Fresh, <<>>, <<>>, d, Called(r, parts, d))

LEMMA StepRun ==
  ASSUME NEW t \in Word, NEW h \in 0..Len(t), NEW s, NEW sc, NEW ex, NEW d, NEW r,
         s.kind \in {"ANY", "EXP"}, s.inside, ScriptAt(t, h, s, sc, ex, d, r),
         NEW at \in h + 1..Len(t), t[at] = "n", Free(t, h, at, s.kind),
         NEW w, w = Parser!Strip(sc \o SubSeq(t, h + 1, at - 1)), w \in DOMAIN d
  PROVE  RunsOn(t, at, d, r, Append(ex, w))
  <1>p. PICK parts : parts = Append(ex, w)
    OBVIOUS
  <1>1. PICK ls, st, b, x : /\ Places(t, h, s.kind, ls, st, b) /\ Said(t, h, s.kind, ex, d, ls, st)
                            /\ InWord(t, h, x, sc, b) /\ Parser!Obeyed(t, "program")[h] = Acc(d, r, "ok")
    BY DEF ScriptAt, Hand
  <1>0. /\ Len(t) \in Nat /\ h \in Nat /\ ls \in Nat /\ st \in Nat /\ b \in Nat
        /\ ls <= st /\ st <= b /\ b <= h /\ h <= Len(t)
    BY <1>1, PlacesAre
  <1>a. at \in Nat /\ h < at /\ at <= Len(t)
    BY <1>0
  <1>b. s.kind # "DEF" /\ t[at] \in {"|", "n", "="}
    OBVIOUS
  <1>2. NameIs(t, h, ls, b, sc, at)
    BY <1>1, <1>b, NameEnds
  <1>3. /\ w \in Word /\ ~Parser!WrongStart(w) /\ (s.kind # "DEF" => ~HasSign(w, "="))
        /\ Parser!PartsBefore(t, st)[at - 1] = Parser!PartsBefore(t, st)[h] /\ Parser!Part(t, st, at) = w
    BY <1>1, <1>b, PartAdded
  <1>4. PICK done \in Seq(Word) : done = Parser!PartsBefore(t, st)[h]
    BY <1>1, PlacesAre
  <1>5. st = ls /\ ex = done /\ \A i \in 1..Len(done) : GoodPart(done[i], DOMAIN d)
    BY <1>1, <1>4, <1>b DEF Places, Said
  <1>6. parts = Parser!Parts(t, ls, at)
    BY <1>3, <1>4, <1>5, <1>p DEF Parser!Parts
  <1>7. \A i \in 1..Len(parts) : GoodPart(parts[i], DOMAIN d)
    <2>1. GoodPart(w, DOMAIN d)
      BY <1>3, <1>b DEF GoodPart
    <2>2. \A i \in 1..Len(Append(done, w)) : (i \in 1..Len(done) /\ Append(done, w)[i] = done[i])
                                             \/ (i = Len(done) + 1 /\ Append(done, w)[i] = w)
      BY <1>3, AddedWord
    <2> QED
      BY <1>5, <1>p, <2>1, <2>2
  <1>8. parts \in Seq(Word)
    BY <1>3, <1>5, <1>p, AddedWord
  <1>9. Parser!Verdict(parts, DOMAIN d, "program") = "ok"
    BY <1>7, <1>8, VerdictGood
  <1>10. ~Parser!IsDefinition(t, ls, at) /\ Parser!Trim(t, ls + 1, at - 1) # <<>>
    <2>1. (\A j \in ls + 1..at - 1 : t[j] # "=") /\ Parser!Trim(t, ls + 1, at - 1) # <<>>
      BY <1>2 DEF NameIs
    <2>2. at \in ls + 1..at
      BY <1>0, <1>a
    <2> QED
      BY <1>0, <1>a, <2>1, <2>2, NoDefinition
  <1>11. PICK v : v = Called(r, parts, d)
    OBVIOUS
  <1>12. Parser!Line(t, Acc(d, r, "ok"), ls, at, "program") = Acc(d, v, "ok")
    <2>1. v = Called(r, Parser!Parts(t, ls, at), d) /\ Parser!Verdict(Parser!Parts(t, ls, at), DOMAIN d, "program") = "ok"
      BY <1>6, <1>9, <1>11
    <2> QED
      BY <1>10, <2>1, ExpressionRuns
  <1>13. Parser!Obeyed(t, "program")[at] = Parser!Line(t, Parser!Obeyed(t, "program")[h], ls, at, "program")
    <2>1. LineFrom(t, ls, h)
      BY <1>1 DEF Places
    <2>2. \A j \in h + 1..at - 1 : t[j] # "n"
      BY DEF Free
    <2> QED
      BY <1>0, <2>1, <2>2, LineEnds
  <1>14. ScriptAt(t, at, Fresh, <<>>, <<>>, d, v)
    <2>1. at \in 0..Len(t) /\ Parser!Obeyed(t, "program")[at] = Acc(d, v, "ok")
      BY <1>0, <1>1, <1>12, <1>13, <1>a
    <2> QED
      BY <2>1, LineBegins
  <1>15. \A i \in DOMAIN parts : parts[i] \in DOMAIN d
    <2>1. DOMAIN parts = 1..Len(parts)
      BY <1>8, LenProperties
    <2> QED
      BY <1>7, <2>1 DEF GoodPart
  <1>16. RunsOn(t, at, d, r, parts)
    BY <1>11, <1>14, <1>15 DEF RunsOn
  <1> QED
    BY <1>16, <1>p

\* A line that makes a definition.
LEMMA StepDefine ==
  ASSUME NEW t \in Word, NEW h \in 0..Len(t), NEW s, NEW sc, NEW ex, NEW d, NEW r,
         s.kind = "DEF", s.inside, ScriptAt(t, h, s, sc, ex, d, r),
         NEW at \in h + 1..Len(t), t[at] = "n", Free(t, h, at, s.kind),
         NEW w, w = Parser!Strip(sc \o SubSeq(t, h + 1, at - 1)),
         NEW words, words = Append(ex, w)
  PROVE  ScriptAt(t, at, Fresh, <<>>, <<>>, Defined(words[1], Tail(words), d), r)
  <1>1. PICK ls, st, b, x : /\ Places(t, h, "DEF", ls, st, b) /\ Said(t, h, "DEF", ex, d, ls, st)
                            /\ InWord(t, h, x, sc, b) /\ Parser!Obeyed(t, "program")[h] = Acc(d, r, "ok")
    BY DEF ScriptAt, Hand
  <1>0. /\ Len(t) \in Nat /\ h \in Nat /\ ls \in Nat /\ st \in Nat /\ b \in Nat
        /\ ls <= st /\ st <= b /\ b <= h /\ h <= Len(t)
    BY <1>1, PlacesAre
  <1>a. at \in Nat /\ h < at /\ at <= Len(t)
    BY <1>0
  <1>b. t[at] \in {"|", "n", "="} /\ Free(t, h, at, "DEF")
    OBVIOUS
  <1>3. /\ w \in Word /\ ~Parser!WrongStart(w)
        /\ Parser!PartsBefore(t, st)[at - 1] = Parser!PartsBefore(t, st)[h] /\ Parser!Part(t, st, at) = w
    BY <1>1, <1>b, PartAdded
  <1>4. PICK done \in Seq(Word) : done = Parser!PartsBefore(t, st)[h]
    BY <1>1, PlacesAre
  <1>5. PICK name : name = Parser!Trim(t, ls + 1, st - 1)
    OBVIOUS
  <1>6. ex = <<name>> \o done /\ ~Parser!WrongStart(name) /\ \A i \in 1..Len(done) : ~Parser!WrongStart(done[i])
    BY <1>1, <1>4, <1>5 DEF Said
  <1>7. st \in ls + 1..h /\ t[st] = "=" /\ \A j \in ls + 1..st - 1 : t[j] # "=" /\ t[j] # "|"
    BY <1>1 DEF Places
  <1>8. name \in Word
    <2>1. ls + 1 \in Nat \ {0} /\ st - 1 \in Int /\ st - 1 <= Len(t)
      BY <1>0
    <2> QED
      BY <1>5, <2>1, TrimWord
  <1>9. PICK commands \in Seq(Word) : commands = Append(done, w)
    BY <1>3, AddedWord
  <1>10. words[1] = name /\ Tail(words) = commands
    <2>1. Append(<<name>> \o done, w) = <<name>> \o Append(done, w)
      BY SMTT(60), <1>3, <1>8, NamedWords
    <2>2. ex = <<name>> \o done
      BY <1>6
    <2>3. words = Append(<<name>> \o done, w)
      BY <2>2, Zenon
    <2>4. words = <<name>> \o commands
      BY <1>9, <2>1, <2>3, Zenon
    <2> QED
      BY SMTT(60), <1>3, <1>8, <1>9, <2>4, NamedWords
  <1>11. commands = Parser!Parts(t, st, at)
    BY <1>3, <1>4, <1>9 DEF Parser!Parts
  <1>12. \A i \in DOMAIN commands : ~Parser!WrongStart(commands[i])
    <2>1. \A i \in 1..Len(Append(done, w)) : (i \in 1..Len(done) /\ Append(done, w)[i] = done[i])
                                             \/ (i = Len(done) + 1 /\ Append(done, w)[i] = w)
      BY <1>3, AddedWord
    <2>2. DOMAIN commands = 1..Len(commands)
      BY LenProperties
    <2> QED
      BY <1>3, <1>6, <1>9, <2>1, <2>2
  <1>13. Parser!IsDefinition(t, ls, at) /\ Parser!Min({j \in ls + 1..at - 1 : t[j] = "="}) = st
    <2>1. st \in ls + 1..at - 1
      BY <1>0, <1>7, <1>a
    <2> QED
      BY <1>0, <1>7, <1>a, <2>1, DefinedAt
  <1>14. Parser!Trim(t, ls + 1, at - 1) # <<>>
    <2>1. ls + 1 \in Nat \ {0} /\ at - 1 \in Nat /\ at - 1 <= Len(t) /\ st \in ls + 1..at - 1
      BY <1>0, <1>7, <1>a
    <2>2. t[st] # Space
      BY <1>7, SpaceIs
    <2> QED
      BY <2>1, <2>2, NonBlank
  <1>15. Parser!Line(t, Acc(d, r, "ok"), ls, at, "program") = Acc(Defined(name, commands, d), r, "ok")
    <2>1. Parser!FirstEquals(t, ls, at) = st
      BY <1>13 DEF Parser!FirstEquals
    <2>2. name = Parser!Trim(t, ls + 1, Parser!FirstEquals(t, ls, at) - 1)
      BY <1>5, <2>1
    <2>3. commands = Parser!Parts(t, Parser!FirstEquals(t, ls, at), at)
      BY <1>11, <2>1
    <2>4. Makes(t, ls, at, name, commands)
      BY <1>6, <1>12, <1>13, <1>14, <2>2, <2>3, Zenon DEF Makes
    <2> QED
      BY <2>4, DefinitionMade
  <1>16. Parser!Obeyed(t, "program")[at] = Parser!Line(t, Parser!Obeyed(t, "program")[h], ls, at, "program")
    <2>1. LineFrom(t, ls, h)
      BY <1>1 DEF Places
    <2>2. \A j \in h + 1..at - 1 : t[j] # "n"
      BY DEF Free
    <2> QED
      BY <1>0, <2>1, <2>2, LineEnds
  <1>17. ScriptAt(t, at, Fresh, <<>>, <<>>, Defined(name, commands, d), r)
    <2>1. at \in 0..Len(t) /\ Parser!Obeyed(t, "program")[at] = Acc(Defined(name, commands, d), r, "ok")
      BY <1>0, <1>1, <1>15, <1>16, <1>a
    <2> QED
      BY <2>1, LineBegins
  <1> QED
    BY <1>10, <1>17

-----------------------------------------------------------------------------
(***************************************************************************)
(* The pieces: what the pointers say of the rest of a piece, and where the *)
(* piece lies in the file.                                                 *)
(***************************************************************************)
IsEnd(c, kind) == c = "n" \/ c = "|" \/ (c = "=" /\ kind # "DEF")
EndAt(b, i, kind, m) ==
  \/ m = 0 /\ \A j \in i..Len(b) : ~IsEnd(b[j], kind)
  \/ m \in i..Len(b) /\ IsEnd(b[m], kind) /\ \A j \in i..m - 1 : ~IsEnd(b[j], kind)
Pointers(b, i, kind, q) ==
  /\ Finds(b, "n", i, q.nl) /\ Finds(b, "|", i, q.pi)
  /\ kind # "DEF" => Finds(b, "=", i, q.eq)

LEMMA FindsBefore ==
  ASSUME NEW b, Len(b) \in Nat, NEW c, NEW i \in Nat \ {0}, NEW z, Finds(b, c, i, z),
         NEW m \in Nat, m <= Len(b) + 1, z = 0 \/ m <= z
  PROVE  \A j \in i..m - 1 : b[j] # c
  <1>1. CASE z = 0
    <2>1. ~(z \in i..Len(b))
      BY <1>1
    <2> QED
      BY <2>1 DEF Finds
  <1>2. CASE z # 0
    <2>1. z \in i..Len(b) /\ \A j \in i..z - 1 : b[j] # c
      BY <1>2 DEF Finds
    <2>2. \A j \in i..m - 1 : j \in i..z - 1
      BY <1>2, <2>1
    <2> QED
      BY <2>1, <2>2
  <1> QED
    BY <1>1, <1>2

\* A pointer that is not passed stays good.
LEMMA FindsMoves ==
  ASSUME NEW b, Len(b) \in Nat, NEW c, NEW i \in Nat \ {0}, NEW k \in Nat \ {0}, NEW m, Finds(b, c, i, m),
         i <= k, k <= Len(b) + 1, \A j \in i..k - 1 : b[j] # c
  PROVE  Finds(b, c, k, m)
  <1>1. CASE m = 0 /\ \A j \in i..Len(b) : b[j] # c
    <2>1. \A j \in k..Len(b) : j \in i..Len(b)
      OBVIOUS
    <2> QED
      BY <1>1, <2>1 DEF Finds
  <1>2. CASE m \in i..Len(b) /\ b[m] = c /\ \A j \in i..m - 1 : b[j] # c
    <2>1. ~(m \in i..k - 1)
      BY <1>2
    <2>2. m \in k..Len(b) /\ \A j \in k..m - 1 : j \in i..m - 1
      BY <1>2, <2>1
    <2> QED
      BY <1>2, <2>2 DEF Finds
  <1> QED
    BY <1>1, <1>2 DEF Finds

LEMMA TermIs ==
  ASSUME NEW b, Len(b) \in Nat, NEW i \in Nat \ {0}, NEW kind, NEW q, Pointers(b, i, kind, q),
         NEW ends, ends = {q.nl, q.pi} \cup (IF kind = "DEF" THEN {} ELSE {q.eq}),
         NEW m, m = IF ends = {0} THEN 0 ELSE Parser!Min(ends \ {0})
  PROVE  EndAt(b, i, kind, m)
  <1>1. PICK u, v, y : u = q.nl /\ v = q.pi /\ y = q.eq
    OBVIOUS
  <1>2. Finds(b, "n", i, u) /\ Finds(b, "|", i, v) /\ (kind # "DEF" => Finds(b, "=", i, y))
    BY <1>1 DEF Pointers
  <1>3. u \in ends /\ v \in ends /\ (kind # "DEF" => y \in ends)
    BY <1>1
  <1>4. \A z \in ends : z = u \/ z = v \/ (z = y /\ kind # "DEF")
    BY <1>1
  <1>5. \A z \in ends : z = 0 \/ (z \in i..Len(b) /\ IsEnd(b[z], kind))
    BY <1>2, <1>4 DEF Finds, IsEnd
  <1>6. CASE ends = {0}
    <2>1. m = 0 /\ u = 0 /\ v = 0 /\ (kind # "DEF" => y = 0)
      BY <1>3, <1>6
    <2>2. ~(0 \in i..Len(b))
      OBVIOUS
    <2>3. \A j \in i..Len(b) : b[j] # "n" /\ b[j] # "|" /\ (kind # "DEF" => b[j] # "=")
      BY <1>2, <2>1, <2>2 DEF Finds
    <2> QED
      BY <2>1, <2>3 DEF EndAt, IsEnd
  <1>7. CASE ends # {0}
    <2>1. m = Parser!Min(ends \ {0})
      BY <1>7
    <2>2. ends \ {0} \subseteq Nat /\ ends \ {0} # {}
      <3>1. \A z \in ends \ {0} : z \in i..Len(b)
        BY <1>5
      <3>2. \A z \in i..Len(b) : z \in Nat
        OBVIOUS
      <3>3. ends \ {0} # {}
        BY <1>3, <1>7
      <3> QED
        BY <3>1, <3>2, <3>3
    <2>3. PICK X : X = ends \ {0} /\ X \subseteq Nat /\ X # {}
      BY <2>2
    <2>4. m \in X /\ \A l \in X : m <= l
      BY <2>1, <2>3, LeastIs
    <2>5. m \in i..Len(b) /\ IsEnd(b[m], kind) /\ m \in Nat /\ m <= Len(b) + 1
      <3>1. m \in ends /\ m # 0
        BY <2>3, <2>4
      <3>2. m \in i..Len(b) /\ IsEnd(b[m], kind)
        BY <1>5, <3>1
      <3>3. m \in Nat /\ m <= Len(b) + 1
        <4>1. \A z \in i..Len(b) : z \in Nat /\ z <= Len(b) + 1
          OBVIOUS
        <4> QED
          BY <3>2, <4>1
      <3> QED
        BY <3>2, <3>3
    <2>6. (u = 0 \/ m <= u) /\ (v = 0 \/ m <= v) /\ (kind # "DEF" => y = 0 \/ m <= y)
      BY <1>3, <2>3, <2>4
    <2>7. \A j \in i..m - 1 : b[j] # "n"
      BY <1>2, <2>5, <2>6, FindsBefore
    <2>8. \A j \in i..m - 1 : b[j] # "|"
      BY ZenonT(60), <1>2, <2>5, <2>6, FindsBefore
    <2>9. kind # "DEF" => \A j \in i..m - 1 : b[j] # "="
      BY ZenonT(60), <1>2, <2>5, <2>6, FindsBefore
    <2> QED
      BY <2>5, <2>7, <2>8, <2>9 DEF EndAt, IsEnd
  <1> QED
    BY <1>6, <1>7

\* The piece b is what stands behind base in the text.
Holds(t, base, b) == /\ base \in Nat /\ b \in Word /\ Len(b) \in Nat /\ base + Len(b) <= Len(t)
                     /\ \A j \in 1..Len(b) : b[j] = t[base + j]

LEMMA BufFree ==
  ASSUME NEW t \in Word, NEW base, NEW b, Holds(t, base, b), NEW kind, NEW i \in 1..Len(b) + 1, NEW m \in i..Len(b) + 1,
         \A j \in i..m - 1 : ~IsEnd(b[j], kind), NEW h, h = base + i - 1, NEW at, at = base + m
  PROVE  Free(t, h, at, kind)
  <1>0. base \in Nat /\ Len(b) \in Nat /\ i \in Nat /\ m \in Nat /\ 1 <= i /\ i <= m /\ m <= Len(b) + 1
    BY DEF Holds
  <1> SUFFICES ASSUME NEW j \in h + 1..at - 1
               PROVE  t[j] # "n" /\ t[j] # "|" /\ (kind # "DEF" => t[j] # "=")
    BY DEF Free
  <1>1. j - base \in i..m - 1 /\ j - base \in 1..Len(b) /\ base + (j - base) = j
    BY <1>0
  <1>2. b[j - base] = t[j]
    BY <1>1 DEF Holds
  <1> QED
    BY <1>1, <1>2 DEF IsEnd

\* From i to m is a part of the piece; it is a part of the text too.
Spans(b, i, m) == i \in 1..Len(b) + 1 /\ m \in i - 1..Len(b)
SamePart(t, base, b, i, m) == SubSeq(b, i, m) = SubSeq(t, base + i, base + m)

LEMMA BufPiece ==
  ASSUME NEW t \in Word, NEW base, NEW b, Holds(t, base, b), NEW i, NEW m, Spans(b, i, m)
  PROVE  SamePart(t, base, b, i, m)
  <1> USE DEF Spans
  <1>0. /\ base \in Nat /\ Len(b) \in Nat /\ Len(t) \in Nat /\ i \in Nat /\ m \in Nat /\ 1 <= i /\ i <= m + 1
        /\ m <= Len(b) /\ base + Len(b) <= Len(t) /\ b \in Word
    BY LenProperties DEF Holds, Word
  <1>k. PICK k, e : k = base + i /\ e = base + m
    OBVIOUS
  <1>1. i \in Nat \ {0} /\ k \in Nat \ {0} /\ e \in Nat /\ k <= e + 1 /\ e <= Len(t) /\ k = base + i
    BY <1>0, <1>k
  <1>2. PICK u \in Word : u = SubSeq(b, i, m) /\ Len(u) = m - i + 1 /\ \A j \in 1..m - i + 1 : u[j] = b[i + j - 1]
    <2>0. b \in Word /\ i \in Nat \ {0} /\ m \in Nat /\ i <= m + 1 /\ m <= Len(b)
      BY <1>0, <1>1
    <2>1. SubSeq(b, i, m) \in Word /\ Len(SubSeq(b, i, m)) = m - i + 1
      BY <2>0, Piece
    <2>2. \A j \in 1..m - i + 1 : SubSeq(b, i, m)[j] = b[i + j - 1]
      BY <2>0, Piece
    <2> QED
      BY <2>1, <2>2
  <1>3. PICK v \in Word : v = SubSeq(t, k, e) /\ Len(v) = e - k + 1 /\ \A j \in 1..e - k + 1 : v[j] = t[k + j - 1]
    <2>1. SubSeq(t, k, e) \in Word /\ Len(SubSeq(t, k, e)) = e - k + 1
      BY <1>1, Piece
    <2>2. \A j \in 1..e - k + 1 : SubSeq(t, k, e)[j] = t[k + j - 1]
      BY <1>1, Piece
    <2> QED
      BY <2>1, <2>2
  <1>4. e - k + 1 = m - i + 1
    BY <1>0, <1>1, <1>k
  <1>5. \A j \in 1..Len(u) : u[j] = v[j]
    <2> SUFFICES ASSUME NEW j \in 1..Len(u) PROVE u[j] = v[j]
      OBVIOUS
    <2>1. j \in 1..m - i + 1 /\ j \in 1..e - k + 1
      BY <1>2, <1>4
    <2>2. i + j - 1 \in 1..Len(b) /\ base + (i + j - 1) = k + j - 1
      BY <1>0, <1>1, <2>1
    <2>3. b[i + j - 1] = t[k + j - 1]
      BY <2>2 DEF Holds
    <2> QED
      BY <1>2, <1>3, <2>1, <2>3
  <1>6. u = v
    <2>1. u \in Seq(Sym) /\ v \in Seq(Sym) /\ Len(u) = Len(v)
      BY <1>2, <1>3, <1>4 DEF Word
    <2> QED
      BY <1>5, <2>1, SeqEqual
  <1> QED
    BY <1>2, <1>3, <1>6, <1>k DEF SamePart

\* The words of the line are words, and the one that ends is the last.
LEMMA LastWord ==
  ASSUME NEW t \in Word, NEW h \in 0..Len(t), NEW s, NEW sc, NEW ex, NEW d, NEW r,
         s.inside, ScriptAt(t, h, s, sc, ex, d, r),
         NEW at \in h + 1..Len(t), t[at] \in {"|", "n", "="}, Free(t, h, at, s.kind),
         NEW w, w = Parser!Strip(sc \o SubSeq(t, h + 1, at - 1))
  PROVE  Parser!Last(Append(ex, w)) = w
  <1>1. PICK ls, st, b, x : /\ Places(t, h, s.kind, ls, st, b) /\ Said(t, h, s.kind, ex, d, ls, st)
                            /\ InWord(t, h, x, sc, b) /\ Parser!Obeyed(t, "program")[h] = Acc(d, r, "ok")
    BY DEF ScriptAt, Hand
  <1>0. /\ Len(t) \in Nat /\ h \in Nat /\ ls \in Nat /\ st \in Nat /\ b \in Nat
        /\ ls <= st /\ st <= b /\ b <= h /\ h <= Len(t)
    BY <1>1, PlacesAre
  <1>2. w \in Word
    BY <1>1, PartAdded
  <1>3. PICK done \in Seq(Word) : done = Parser!PartsBefore(t, st)[h]
    BY <1>1, PlacesAre
  <1>4. ex \in Seq(Word)
    <2>1. CASE s.kind = "DEF"
      <3>1. PICK name : name = Parser!Trim(t, ls + 1, st - 1)
        OBVIOUS
      <3>2. name \in Word
        <4>1. ls + 1 \in Nat \ {0} /\ st - 1 \in Int /\ st - 1 <= Len(t)
          BY <1>0
        <4> QED
          BY <3>1, <4>1, TrimWord
      <3>3. ex = <<name>> \o done
        BY <1>1, <1>3, <2>1, <3>1 DEF Said
      <3> QED
        BY <1>2, <3>2, <3>3, NamedWords
    <2>2. CASE s.kind # "DEF"
      BY <1>1, <1>3, <2>2 DEF Said
    <2> QED
      BY <2>1, <2>2
  <1>5. Append(ex, w)[Len(ex) + 1] = w /\ Len(Append(ex, w)) = Len(ex) + 1
    BY <1>2, <1>4, AppendProperties
  <1> QED
    BY <1>5 DEF Parser!Last

\* An unfinished word without letters so far cannot end at once.
LEMMA NotAtOnce ==
  ASSUME NEW t \in Word, NEW h \in 0..Len(t), NEW s, NEW sc, NEW ex, NEW d, NEW r,
         s.inside, ScriptAt(t, h, s, sc, ex, d, r), h + 1 <= Len(t), sc = <<>>
  PROVE  WordStart(t[h + 1])
  <1>1. PICK ls, st, b, x : Places(t, h, s.kind, ls, st, b) /\ InWord(t, h, x, sc, b)
    BY DEF ScriptAt, Hand
  <1>0. Len(t) \in Nat /\ h \in Nat /\ b \in Nat /\ b <= h
    BY <1>1, PlacesAre
  <1>2. x \in Nat \ {0} /\ x <= h + 1 /\ h <= Len(t) /\ WordStart(t[x]) /\ sc = SubSeq(t, x, h)
    BY <1>0, <1>1 DEF InWord
  <1>3. Len(sc) = h - x + 1
    BY ZenonT(60), <1>0, <1>2, Piece
  <1>4. Len(<<>>) = 0
    OBVIOUS
  <1>5. x = h + 1
    BY <1>0, <1>2, <1>3, <1>4
  <1> QED
    BY <1>2, <1>5

-----------------------------------------------------------------------------
(***************************************************************************)
(* The invariant of the parser: the piece is what stands in the file       *)
(* before off, the pointers that may be asked are those of the rest of the *)
(* piece, and what was made and run is what the lines before say.          *)
(***************************************************************************)
Base == off - Len(buf)
Behind == Base + p - 1

ParserTypes ==
  /\ src \in Scripts /\ off \in 0..Len(src) /\ Holds(src, Base, buf) /\ Len(buf) <= ChunkSize
  /\ p \in 1..Len(buf) + 1
  /\ sm \in [kind : {"ANY", "DEF", "EXP"}, inside : BOOLEAN]
  /\ ptr \in [nl : 0..Len(buf), eq : 0..Len(buf), pi : 0..Len(buf)]
  /\ pc \in {"read", "parse", "end"}
  /\ outcome \in {"reading", "ok", "syntax", "unknown", "aborted"}
  /\ pc = "read" => p = Len(buf) + 1
  /\ pc = "end" <=> outcome # "reading"
ParserPointers == pc = "parse" => Pointers(buf, p, sm.kind, ptr)
ParserPlace == pc # "end" => ScriptAt(src, Behind, sm, scratch, expr, defs, ran)
ParserDone == pc = "end" => Finished(src, defs, ran, outcome)
ParserInv == ParserTypes /\ ParserPointers /\ ParserPlace /\ ParserDone

LEMMA ScriptsAre == Scripts \subseteq Word /\ ChunkSize \in Nat \ {0}
  BY ScriptsAssumption, Zenon DEF Word, Sym, Space

\* The numbers behind the names.
NumbersAre(t, base, b, i, h) ==
  /\ t = src /\ t \in Word /\ Len(t) \in Nat /\ base = Base /\ base \in Nat /\ b = buf /\ b \in Word /\ Len(b) \in Nat
  /\ base + Len(b) = off /\ off \in Nat /\ off <= Len(t) /\ Holds(t, base, b)
  /\ i = p /\ i \in Nat /\ 1 <= i /\ i <= Len(b) + 1 /\ h = Behind /\ h = base + i - 1 /\ h \in Nat /\ h <= off

LEMMA Numbers ==
  ASSUME ParserTypes
  PROVE  \E t, base, b, i, h : NumbersAre(t, base, b, i, h)
  <1>1. PICK t, base, b, i, h : t = src /\ base = Base /\ b = buf /\ i = p /\ h = Behind
    OBVIOUS
  <1>2. t \in Word /\ Len(t) \in Nat
    BY <1>1, ScriptsAre, LenProperties DEF ParserTypes, Word
  <1>3. Holds(t, base, b) /\ base \in Nat /\ b \in Word /\ Len(b) \in Nat
    BY <1>1 DEF ParserTypes, Holds
  <1>4. off \in Nat /\ off <= Len(t) /\ i \in Nat /\ 1 <= i /\ i <= Len(b) + 1
    BY <1>1, <1>2, <1>3 DEF ParserTypes
  <1>5. base = off - Len(b) /\ h = base + i - 1
    BY <1>1 DEF Base, Behind
  <1>6. base + Len(b) = off
    BY <1>3, <1>4, <1>5
  <1>7. h \in Nat /\ h <= off
    BY <1>3, <1>4, <1>5, <1>6
  <1> QED
    BY <1>1, <1>2, <1>3, <1>4, <1>5, <1>6, <1>7 DEF NumbersAre

\* Where a word ends, in the file.
WordEndIs(t, base, b, i, h, m, at, kind) ==
  /\ m \in i..Len(b) /\ at = base + m /\ at \in h + 1..Len(t) /\ t[at] = b[m] /\ Free(t, h, at, kind)
  /\ SubSeq(b, i, m - 1) = SubSeq(t, h + 1, at - 1)
  /\ \A j \in i..m - 1 : ~IsEnd(b[j], kind)
  /\ IsEnd(b[m], kind)

LEMMA EndOf ==
  ASSUME ParserTypes, ParserPointers, Parser!Parsing
  PROVE  EndAt(buf, p, sm.kind, Parser!Term)
  <1>1. PICK t, base, b, i, h : NumbersAre(t, base, b, i, h)
    BY Numbers
  <1>2. b = buf /\ Len(b) \in Nat /\ i = p /\ i \in Nat \ {0}
    BY <1>1 DEF NumbersAre
  <1>3. Pointers(b, i, sm.kind, ptr)
    BY <1>2 DEF ParserPointers, Parser!Parsing
  <1>4. PICK ends : ends = {ptr.nl, ptr.pi} \cup (IF sm.kind = "DEF" THEN {} ELSE {ptr.eq})
    OBVIOUS
  <1>5. Parser!Term = IF ends = {0} THEN 0 ELSE Parser!Min(ends \ {0})
    BY <1>4, Zenon DEF Parser!Term
  <1> QED
    BY <1>2, <1>3, <1>4, <1>5, TermIs

LEMMA EndInText ==
  ASSUME NEW t, NEW base, NEW b, NEW i, NEW h, NumbersAre(t, base, b, i, h), NEW kind, NEW m, EndAt(b, i, kind, m), m # 0
  PROVE  \E at : WordEndIs(t, base, b, i, h, m, at, kind)
  <1>1. PICK at : at = base + m
    OBVIOUS
  <1>2. m \in i..Len(b) /\ IsEnd(b[m], kind) /\ \A j \in i..m - 1 : ~IsEnd(b[j], kind)
    BY DEF EndAt
  <1>0. /\ t \in Word /\ Len(t) \in Nat /\ base \in Nat /\ Len(b) \in Nat /\ Holds(t, base, b) /\ base + Len(b) <= Len(t)
        /\ i \in Nat /\ 1 <= i /\ i <= Len(b) + 1 /\ h = base + i - 1 /\ h \in Nat /\ m \in Nat /\ i <= m /\ m <= Len(b)
    <2>1. /\ t \in Word /\ Len(t) \in Nat /\ base \in Nat /\ Len(b) \in Nat /\ Holds(t, base, b) /\ base + Len(b) = off
          /\ off <= Len(t) /\ i \in Nat /\ 1 <= i /\ i <= Len(b) + 1 /\ h = base + i - 1 /\ h \in Nat
      BY DEF NumbersAre
    <2> QED
      BY <1>2, <2>1
  <1>3. at \in h + 1..Len(t) /\ m \in 1..Len(b) /\ i \in 1..Len(b) + 1 /\ m \in i..Len(b) + 1 /\ m - 1 \in i - 1..Len(b)
    BY <1>0, <1>1
  <1>4. t[at] = b[m]
    BY <1>1, <1>3, <1>0 DEF Holds
  <1>5. Free(t, h, at, kind)
    BY <1>0, <1>1, <1>2, <1>3, BufFree
  <1>6. SubSeq(b, i, m - 1) = SubSeq(t, h + 1, at - 1)
    <2>1. PICK k \in i - 1..Len(b), e \in Nat : k = m - 1 /\ e = at - 1 /\ e = base + k
      BY <1>0, <1>1
    <2>2. base + i = h + 1
      BY <1>0
    <2>3. t \in Word /\ Holds(t, base, b) /\ Spans(b, i, k)
      BY <1>0, <1>3, <2>1 DEF Spans
    <2>4. SamePart(t, base, b, i, k)
      BY <2>3, BufPiece
    <2>5. SubSeq(b, i, k) = SubSeq(t, h + 1, e)
      BY <2>1, <2>2, <2>4 DEF SamePart
    <2> QED
      BY <2>1, <2>5
  <1> QED
    BY <1>1, <1>2, <1>3, <1>4, <1>5, <1>6 DEF WordEndIs

\* The pointers behind a place that is not behind any of them.
LEMMA PointersMove ==
  ASSUME NEW b, Len(b) \in Nat, NEW i \in Nat \ {0}, NEW k \in Nat \ {0}, i <= k, k <= Len(b) + 1,
         NEW kind, NEW q, Pointers(b, i, kind, q)
  PROVE  /\ (\A j \in i..k - 1 : b[j] # "n") => Finds(b, "n", k, q.nl)
         /\ (\A j \in i..k - 1 : b[j] # "|") => Finds(b, "|", k, q.pi)
         /\ (\A j \in i..k - 1 : b[j] # "=") /\ kind # "DEF" => Finds(b, "=", k, q.eq)
  <1>1. Finds(b, "n", i, q.nl) /\ Finds(b, "|", i, q.pi) /\ (kind # "DEF" => Finds(b, "=", i, q.eq))
    BY DEF Pointers
  <1>2. PICK u, v, y : u = q.nl /\ v = q.pi /\ y = q.eq
    OBVIOUS
  <1>3. (\A j \in i..k - 1 : b[j] # "n") => Finds(b, "n", k, u)
    BY <1>1, <1>2, FindsMoves
  <1>4. (\A j \in i..k - 1 : b[j] # "|") => Finds(b, "|", k, v)
    BY <1>1, <1>2, FindsMoves
  <1>5. (\A j \in i..k - 1 : b[j] # "=") /\ kind # "DEF" => Finds(b, "=", k, y)
    BY <1>1, <1>2, FindsMoves
  <1> QED
    BY <1>2, <1>3, <1>4, <1>5

LEMMA ParserStarts ==
  ASSUME Parser!Init
  PROVE  ParserInv
  <1>1. src \in Word /\ Len(src) \in Nat /\ src \in Scripts
    BY ScriptsAre, LenProperties DEF Parser!Init, Word
  <1>2. off = 0 /\ buf = <<>> /\ p = 1 /\ Len(buf) = 0 /\ Base = 0 /\ Behind = 0 /\ buf \in Word
    <2>1. off = 0 /\ buf = <<>> /\ p = 1
      BY DEF Parser!Init
    <2>2. Len(buf) = 0 /\ buf \in Word
      BY <2>1 DEF Word
    <2>3. Base = 0
      <3>1. off = 0 /\ Len(buf) = 0
        BY <2>1, <2>2
      <3> QED
        BY <3>1 DEF Base
    <2> QED
      BY <2>1, <2>2, <2>3 DEF Behind
  <1>3. Holds(src, Base, buf)
    BY <1>1, <1>2 DEF Holds
  <1>4. ptr \in [nl : 0..Len(buf), eq : 0..Len(buf), pi : 0..Len(buf)]
    BY <1>2 DEF Parser!Init
  <1>5. sm = Fresh
    BY DEF Parser!Init, Parser!AnyBeforeWord, Fresh
  <1>6. ParserTypes
    <2>1. sm \in [kind : {"ANY", "DEF", "EXP"}, inside : BOOLEAN]
      BY <1>5 DEF Fresh
    <2>2. pc = "read" /\ outcome = "reading"
      BY DEF Parser!Init
    <2>3. off \in 0..Len(src) /\ p \in 1..Len(buf) + 1 /\ p = Len(buf) + 1 /\ Len(buf) <= ChunkSize
      BY <1>1, <1>2, ScriptsAre
    <2> QED
      BY <1>1, <1>3, <1>4, <2>1, <2>2, <2>3 DEF ParserTypes
  <1>7. ScriptAt(src, Behind, sm, scratch, expr, defs, ran)
    <2>1. scratch = <<>> /\ expr = <<>> /\ defs = <<>> /\ ran = <<>>
      BY DEF Parser!Init
    <2>2. Parser!Obeyed(src, "program")[0] = Acc(<<>>, <<>>, "ok")
      BY <1>1, ObeyedIs DEF Acc
    <2>3. 0 \in 0..Len(src)
      BY <1>1
    <2>4. ScriptAt(src, 0, Fresh, <<>>, <<>>, <<>>, <<>>)
      BY <1>1, <2>2, <2>3, LineBegins
    <2> QED
      BY <1>2, <1>5, <2>1, <2>4
  <1> QED
    BY <1>6, <1>7 DEF ParserInv, ParserPointers, ParserPlace, ParserDone, Parser!Init

\* What a file says by the grammar and by the program is the same where they agree
\* on its words.
LEMMA NameAgreed ==
  ASSUME NEW w \in Word, Parser!AgreedName(w)
  PROVE  Parser!Wrong(w, "grammar") <=> Parser!Wrong(w, "program")
  <1>0. Len(w) \in Nat /\ (w # <<>> <=> Len(w) # 0)
    BY LenProperties, EmptySeq DEF Word
  <1>1. CASE w = <<>>
    BY <1>1, ProgramWrong DEF Parser!Wrong, Parser!WrongStart
  <1>2. CASE w # <<>>
    <2>1. w[1] # "=" /\ \A i \in 2..Len(w) : w[i] # "^"
      BY <1>2 DEF Parser!AgreedName, Parser!InnerControl
    <2>2. 1 \in 1..Len(w) /\ \A i \in 1..Len(w) : i = 1 \/ i \in 2..Len(w)
      BY <1>0, <1>2
    <2>3. Parser!Contains(w, "^") <=> w[1] = "^"
      BY <2>1, <2>2 DEF Parser!Contains
    <2>4. Parser!WrongStart(w) <=> w[1] = "^"
      BY <1>2, <2>1 DEF Parser!WrongStart
    <2>5. Parser!Wrong(w, "grammar") <=> Parser!Contains(w, "^")
      BY <1>2 DEF Parser!Wrong
    <2> QED
      BY <2>3, <2>4, <2>5, ProgramWrong
  <1> QED
    BY <1>1, <1>2

LEMMA PartAgreed ==
  ASSUME NEW w \in Word, ~Parser!InnerControl(w)
  PROVE  Parser!Wrong(w, "grammar") \/ Parser!Contains(w, "=") <=> Parser!Wrong(w, "program") \/ Parser!Contains(w, "=")
  <1>1. CASE w # <<>> /\ w[1] = "="
    <2>1. Len(w) \in Nat /\ Len(w) # 0
      BY <1>1, LenProperties, EmptySeq DEF Word
    <2>2. 1 \in 1..Len(w)
      BY <2>1
    <2> QED
      BY <1>1, <2>2 DEF Parser!Contains
  <1>2. CASE ~(w # <<>> /\ w[1] = "=")
    <2>1. Parser!AgreedName(w)
      BY <1>2 DEF Parser!AgreedName
    <2> QED
      BY <2>1, NameAgreed
  <1> QED
    BY <1>1, <1>2

LEMMA VerdictAgreed ==
  ASSUME NEW parts \in Seq(Word), NEW known, \A i \in DOMAIN parts : ~Parser!InnerControl(parts[i])
  PROVE  Parser!Verdict(parts, known, "grammar") = Parser!Verdict(parts, known, "program")
  <1> DEFINE Sign(w, by) == Parser!Wrong(w, by) \/ Parser!Contains(w, "=")
             X == {i \in DOMAIN parts : Sign(parts[i], "program") \/ parts[i] \notin known}
  <1>0. DOMAIN parts = 1..Len(parts) /\ Len(parts) \in Nat /\ \A i \in DOMAIN parts : parts[i] \in Word
    BY LenProperties, ElementOfSeq
  <1>1. \A i \in DOMAIN parts : Sign(parts[i], "grammar") <=> Sign(parts[i], "program")
    BY <1>0, PartAgreed
  <1>2. {i \in DOMAIN parts : Sign(parts[i], "grammar") \/ parts[i] \notin known} = X
    BY <1>1
  <1>3. X \subseteq DOMAIN parts /\ X \subseteq Nat
    BY <1>0
  <1>4. X # {} => Parser!Min(X) \in DOMAIN parts
    <2> HIDE DEF X
    <2> QED
      BY <1>3, LeastIs
  <1>5. X # {} => (Sign(parts[Parser!Min(X)], "grammar") <=> Sign(parts[Parser!Min(X)], "program"))
    <2> HIDE DEF X, Sign
    <2> QED
      BY <1>1, <1>4
  <1>6. PICK w : w = parts[Parser!Min(X)]
    OBVIOUS
  <1>7. X # {} => (Sign(w, "grammar") <=> Sign(w, "program"))
    <2> HIDE DEF X, Sign
    <2> QED
      BY <1>5, <1>6
  <1>8. Parser!Verdict(parts, known, "grammar") =
          IF X = {} THEN "ok" ELSE IF Sign(w, "grammar") THEN "syntax" ELSE IF known = {} THEN "aborted" ELSE "unknown"
    BY <1>2, <1>6, Zenon DEF Parser!Verdict
  <1>9. Parser!Verdict(parts, known, "program") =
          IF X = {} THEN "ok" ELSE IF Sign(w, "program") THEN "syntax" ELSE IF known = {} THEN "aborted" ELSE "unknown"
    BY <1>6, Zenon DEF Parser!Verdict
  <1> HIDE DEF X, Sign
  <1> QED
    BY <1>7, <1>8, <1>9

LEMMA PartsWord ==
  ASSUME NEW t \in Word, NEW from \in Nat, NEW to \in 1..Len(t), from < to
  PROVE  Parser!Parts(t, from, to) \in Seq(Word)
  <1>0. Len(t) \in Nat /\ from \in 0..Len(t) /\ to - 1 \in from..Len(t)
    BY LenProperties DEF Word
  <1>1. Parser!PartsBefore(t, from)[to - 1] \in Seq(Word)
    BY <1>0, PartsWords
  <1>2. Parser!Part(t, from, to) \in Word
    BY <1>0, PartWord
  <1> QED
    BY <1>1, <1>2, AppendProperties DEF Parser!Parts

LEMMA LineAgreed ==
  ASSUME NEW t \in Word, Parser!Undisputed(t), NEW to \in 1..Len(t), t[to] = "n", NEW acc,
         NEW from, from = Parser!LastSign(t, "n", 0, to)
  PROVE  Parser!Line(t, acc, from, to, "grammar") = Parser!Line(t, acc, from, to, "program")
  <1>0. Len(t) \in Nat /\ from \in Nat /\ from < to
    <2>1. Len(t) \in Nat
      BY LenProperties DEF Word
    <2>2. from \in 0..to - 1
      BY <2>1, LastBounds
    <2> QED
      BY <2>1, <2>2
  <1>1. PICK eq : eq = Parser!FirstEquals(t, from, to)
    OBVIOUS
  <1>2. PICK commands, parts : commands = Parser!Parts(t, eq, to) /\ parts = Parser!Parts(t, from, to)
    OBVIOUS
  <1>3. PICK name : name = Parser!Trim(t, from + 1, eq - 1)
    OBVIOUS
  <1>4. IF Parser!IsDefinition(t, from, to)
        THEN Parser!AgreedName(name) /\ \A i \in DOMAIN commands : Parser!AgreedName(commands[i])
        ELSE \A i \in DOMAIN parts : ~Parser!InnerControl(parts[i])
    BY <1>1, <1>2, <1>3, Zenon DEF Parser!Undisputed
  <1>5. CASE acc.outcome # "ok" \/ Parser!Trim(t, from + 1, to - 1) = <<>>
    <2>1. Parser!Line(t, acc, from, to, "grammar") = acc
      BY <1>5, Zenon DEF Parser!Line
    <2>2. Parser!Line(t, acc, from, to, "program") = acc
      BY <1>5, Zenon DEF Parser!Line
    <2> QED
      BY <2>1, <2>2
  <1>6. CASE acc.outcome = "ok" /\ Parser!Trim(t, from + 1, to - 1) # <<>> /\ Parser!IsDefinition(t, from, to)
    <2>1. eq \in from + 1..to - 1
      <3> DEFINE X == {e \in from + 1..to - 1 : t[e] = "="}
      <3>1. X \subseteq Nat /\ X # {} /\ X \subseteq from + 1..to - 1
        BY <1>0, <1>6 DEF Parser!IsDefinition
      <3>2. eq = Parser!Min(X)
        BY <1>1 DEF Parser!FirstEquals
      <3> HIDE DEF X
      <3> QED
        BY <3>1, <3>2, LeastIs
    <2>2. commands \in Seq(Word)
      BY <1>0, <1>2, <2>1, PartsWord
    <2>3. name \in Word
      <3>1. from + 1 \in Nat \ {0} /\ eq - 1 \in Int /\ eq - 1 <= Len(t)
        BY <1>0, <2>1
      <3> QED
        BY <1>3, <3>1, TrimWord
    <2>4. Parser!Wrong(name, "grammar") <=> Parser!Wrong(name, "program")
      BY <1>4, <1>6, <2>3, NameAgreed
    <2>5. \A i \in DOMAIN commands : Parser!Wrong(commands[i], "grammar") <=> Parser!Wrong(commands[i], "program")
      <3>1. \A i \in DOMAIN commands : commands[i] \in Word
        BY <2>2, LenProperties, ElementOfSeq
      <3> QED
        BY <1>4, <1>6, <3>1, NameAgreed
    <2>6. PICK bad \in BOOLEAN : bad = (Parser!Wrong(name, "program") \/ \E i \in DOMAIN commands : Parser!Wrong(commands[i], "program"))
      OBVIOUS
    <2>7. bad <=> (Parser!Wrong(name, "grammar") \/ \E i \in DOMAIN commands : Parser!Wrong(commands[i], "grammar"))
      BY <2>4, <2>5, <2>6
    <2>8. PICK made : made = (name :> commands) @@ acc.defs
      OBVIOUS
    <2>9. Parser!Line(t, acc, from, to, "grammar") =
            IF bad THEN [acc EXCEPT !.outcome = "syntax"] ELSE [acc EXCEPT !.defs = made]
      BY <1>1, <1>2, <1>3, <1>6, <2>7, <2>8, Zenon DEF Parser!Line
    <2>10. Parser!Line(t, acc, from, to, "program") =
            IF bad THEN [acc EXCEPT !.outcome = "syntax"] ELSE [acc EXCEPT !.defs = made]
      BY <1>1, <1>2, <1>3, <1>6, <2>6, <2>8, Zenon DEF Parser!Line
    <2> QED
      BY <2>9, <2>10
  <1>7. CASE acc.outcome = "ok" /\ Parser!Trim(t, from + 1, to - 1) # <<>> /\ ~Parser!IsDefinition(t, from, to)
    <2>1. parts \in Seq(Word)
      BY <1>0, <1>2, PartsWord
    <2>2. Parser!Verdict(parts, DOMAIN acc.defs, "grammar") = Parser!Verdict(parts, DOMAIN acc.defs, "program")
      BY <1>4, <1>7, <2>1, VerdictAgreed
    <2>3. PICK v : v = Parser!Verdict(parts, DOMAIN acc.defs, "program")
      OBVIOUS
    <2>4. PICK runs : runs = Append(acc.ran, Parser!FlattenSeq([i \in DOMAIN parts |-> acc.defs[parts[i]]]))
      OBVIOUS
    <2>5. Parser!Line(t, acc, from, to, "grammar") =
            [acc EXCEPT !.outcome = v, !.ran = IF v # "ok" THEN acc.ran ELSE runs]
      BY <1>2, <1>7, <2>2, <2>3, <2>4, Zenon DEF Parser!Line
    <2>6. Parser!Line(t, acc, from, to, "program") =
            [acc EXCEPT !.outcome = v, !.ran = IF v # "ok" THEN acc.ran ELSE runs]
      BY <1>2, <1>7, <2>3, <2>4, Zenon DEF Parser!Line
    <2> QED
      BY <2>5, <2>6
  <1> QED
    BY <1>5, <1>6, <1>7

LEMMA FileAgreed ==
  ASSUME NEW t \in Word, Parser!Undisputed(t)
  PROVE  \A k \in 0..Len(t) : Parser!Obeyed(t, "grammar")[k] = Parser!Obeyed(t, "program")[k]
  <1>0. Len(t) \in Nat
    BY LenProperties DEF Word
  <1> DEFINE Bad == {k \in 0..Len(t) : Parser!Obeyed(t, "grammar")[k] # Parser!Obeyed(t, "program")[k]}
  <1> SUFFICES ASSUME Bad # {} PROVE FALSE
    OBVIOUS
  <1>1. PICK k \in Bad : \A l \in Bad : k <= l
    <2>1. Bad \subseteq Nat
      BY <1>0
    <2> QED
      BY <2>1, Least
  <1>2. k \in 0..Len(t) /\ Parser!Obeyed(t, "grammar")[k] # Parser!Obeyed(t, "program")[k]
    BY <1>1
  <1>3. k # 0
    <2>1. Parser!Obeyed(t, "grammar")[0] = Parser!Obeyed(t, "program")[0]
      BY <1>0, LinesAre
    <2> QED
      BY <1>2, <2>1
  <1>4. k \in 1..Len(t) /\ k - 1 \in 0..Len(t)
    BY <1>0, <1>2, <1>3
  <1>5. PICK acc : acc = Parser!Obeyed(t, "program")[k - 1] /\ acc = Parser!Obeyed(t, "grammar")[k - 1]
    <2>1. k - 1 \notin Bad
      BY <1>1, <1>4
    <2> QED
      BY <1>4, <2>1
  <1>6. PICK ls : ls = Parser!LastSign(t, "n", 0, k)
    OBVIOUS
  <1>7. Parser!Obeyed(t, "grammar")[k] = IF t[k] = "n" THEN Parser!Line(t, acc, ls, k, "grammar") ELSE acc
    BY <1>0, <1>4, <1>5, <1>6, LinesAre
  <1>8. Parser!Obeyed(t, "program")[k] = IF t[k] = "n" THEN Parser!Line(t, acc, ls, k, "program") ELSE acc
    BY <1>0, <1>4, <1>5, <1>6, LinesAre
  <1>9. t[k] = "n" => Parser!Line(t, acc, ls, k, "grammar") = Parser!Line(t, acc, ls, k, "program")
    BY <1>4, <1>6, LineAgreed
  <1> QED
    BY <1>2, <1>7, <1>8, <1>9

LEMMA ParserAnswers ==
  ASSUME ParserInv
  PROVE  Parser!TypeOK /\ Parser!LinesObeyed /\ Parser!PointersFresh
  <1>1. Parser!TypeOK
    <2>1. \A k \in DOMAIN ptr : ptr[k] \in 0..Len(buf)
      BY DEF ParserInv, ParserTypes
    <2> QED
      BY <2>1 DEF ParserInv, ParserTypes, Holds, Parser!TypeOK
  <1>2. Parser!LinesObeyed
    <2> SUFFICES ASSUME outcome # "reading"
                 PROVE  Parser!ObeyedBy("program") /\ (Parser!Undisputed(src) => Parser!ObeyedBy("grammar"))
      BY DEF Parser!LinesObeyed
    <2>1. Finished(src, defs, ran, outcome)
      BY DEF ParserInv, ParserTypes, ParserDone
    <2>2. PICK f : f = Parser!Obeyed(src, "program")[Len(src)]
      OBVIOUS
    <2>3. f = Acc(defs, ran, outcome) \/ (f = Acc(defs, ran, "ok") /\ Parser!Last(src) # "n")
      BY <2>1, <2>2 DEF Finished, Parser!Last
    <2>4. f.defs = defs /\ f.ran = ran /\ (f.outcome = outcome \/ (f.outcome = "ok" /\ Parser!Last(src) # "n"))
      BY <2>3 DEF Acc
    <2>5. Parser!ObeyedBy("program")
      BY <2>2, <2>4, Zenon DEF Parser!ObeyedBy
    <2>6. ASSUME Parser!Undisputed(src) PROVE Parser!ObeyedBy("grammar")
      <3>1. src \in Word /\ Len(src) \in 0..Len(src)
        <4>1. src \in Word
          BY ScriptsAssumption DEF ParserInv, ParserTypes, Word, Sym, Space
        <4>2. Len(src) \in Nat
          BY <4>1, LenProperties DEF Word
        <4> QED
          BY <4>1, <4>2
      <3>2. f = Parser!Obeyed(src, "grammar")[Len(src)]
        BY <2>2, <2>6, <3>1, FileAgreed
      <3> QED
        BY <2>4, <3>2, Zenon DEF Parser!ObeyedBy
    <2> QED
      BY <2>5, <2>6
  <1>3. Parser!PointersFresh
    <2> SUFFICES ASSUME Parser!Parsing, sm.inside
                 PROVE  /\ Parser!Term = 0 \/ Parser!Term >= p
                        /\ \A i \in p..Len(buf) : (buf[i] \in {"n", "|"} \/ (buf[i] = "=" /\ sm.kind # "DEF"))
                                                      => Parser!Term \in p..i
                        /\ scratch # <<>> \/ Parser!Term # p
      BY DEF Parser!PointersFresh
    <2>1. PICK t, base, b, i, h : NumbersAre(t, base, b, i, h)
      BY Numbers DEF ParserInv
    <2>2. PICK m, kind : m = Parser!Term /\ kind = sm.kind /\ EndAt(b, i, kind, m)
      BY <2>1, EndOf DEF ParserInv, NumbersAre
    <2>3. Len(b) \in Nat /\ i \in Nat /\ 1 <= i /\ i = p /\ b = buf
      BY <2>1 DEF NumbersAre
    <2>4. m = 0 \/ m >= i
      BY <2>2, <2>3 DEF EndAt
    <2>5. ASSUME NEW j \in i..Len(b), IsEnd(b[j], kind) PROVE m \in i..j
      <3>1. m \in i..Len(b) /\ ~(j \in i..m - 1)
        BY <2>2, <2>5 DEF EndAt
      <3> QED
        BY <2>3, <3>1
    <2>6. ASSUME scratch = <<>>, m = i PROVE FALSE
      <3>1. m # 0
        BY <2>3, <2>6
      <3>2. PICK at : WordEndIs(t, base, b, i, h, m, at, kind)
        BY <2>1, <2>2, <3>1, EndInText
      <3>3. at = base + i /\ t[at] = b[m] /\ IsEnd(b[m], kind) /\ at \in h + 1..Len(t)
        BY <2>6, <3>2 DEF WordEndIs
      <3>4. h = base + i - 1 /\ base \in Nat /\ h \in Nat /\ t = src /\ h = Behind /\ t \in Word /\ Len(t) \in Nat
        BY <2>1 DEF NumbersAre
      <3>5. at = h + 1 /\ h \in 0..Len(t) /\ h + 1 <= Len(t)
        BY <2>3, <3>3, <3>4
      <3>6. ScriptAt(t, h, sm, scratch, expr, defs, ran)
        BY <3>4 DEF ParserInv, ParserPlace, Parser!Parsing
      <3>7. WordStart(t[h + 1])
        BY <2>6, <3>4, <3>5, <3>6, NotAtOnce
      <3> QED
        BY <3>3, <3>5, <3>7 DEF WordStart, IsEnd
    <2>7. \A j \in i..Len(b) : (b[j] \in {"n", "|"} \/ (b[j] = "=" /\ kind # "DEF")) => m \in i..j
      BY <2>5 DEF IsEnd
    <2> QED
      BY <2>2, <2>3, <2>4, <2>6, <2>7
  <1> QED
    BY <1>1, <1>2, <1>3

-----------------------------------------------------------------------------
\* A step that only moves on in the piece: what has to be shown of it.
LEMMA MovesOn ==
  ASSUME ParserTypes, UNCHANGED <<src, off, buf>>, p' \in 1..Len(buf) + 1,
         sm' \in [kind : {"ANY", "DEF", "EXP"}, inside : BOOLEAN],
         ptr' \in [nl : 0..Len(buf), eq : 0..Len(buf), pi : 0..Len(buf)],
         pc' = "parse", outcome' = "reading",
         Pointers(buf, p', sm'.kind, ptr'),
         NEW h, h = Base + p' - 1, ScriptAt(src, h, sm', scratch', expr', defs', ran')
  PROVE  ParserInv'
  <1>1. src' = src /\ off' = off /\ buf' = buf
    OBVIOUS
  <1>2. Base' = Base
    BY <1>1 DEF Base
  <1>3. Behind' = h
    BY <1>2 DEF Behind
  <1>4. ParserTypes'
    BY <1>1, <1>2 DEF ParserTypes
  <1> QED
    BY <1>1, <1>3, <1>4 DEF ParserInv, ParserPointers, ParserPlace, ParserDone

\* A step that refuses the file.
LEMMA Refuses ==
  ASSUME ParserTypes, NEW how \in {"syntax", "unknown", "aborted"}, Parser!Fail(how), Finished(src, defs, ran, how)
  PROVE  ParserInv'
  <1>1. /\ UNCHANGED <<src, off, buf>> /\ UNCHANGED <<p, sm, ptr>> /\ UNCHANGED <<defs, ran>>
        /\ pc' = "end" /\ outcome' = how
    BY DEF Parser!Fail
  <1>2. Base' = Base
    BY <1>1 DEF Base
  <1>3. ParserTypes'
    BY <1>1, <1>2 DEF ParserTypes
  <1>4. Finished(src', defs', ran', outcome')
    BY <1>1
  <1> QED
    BY <1>1, <1>3, <1>4 DEF ParserInv, ParserPointers, ParserPlace, ParserDone

LEMMA FindsType ==
  ASSUME NEW b, Len(b) \in Nat, NEW c, NEW k \in Nat \ {0}, NEW m, Finds(b, c, k, m)
  PROVE  m \in 0..Len(b)
  BY DEF Finds

\* The next piece, or the end of the file.
LEMMA ReadStep ==
  ASSUME ParserInv, Parser!ReadChunk
  PROVE  ParserInv'
  <1>1. PICK t, base, b, i, h : NumbersAre(t, base, b, i, h)
    BY Numbers DEF ParserInv
  <1>2. /\ t = src /\ t \in Word /\ Len(t) \in Nat /\ base = Base /\ base \in Nat /\ b = buf /\ Len(b) \in Nat
        /\ base + Len(b) = off /\ off \in Nat /\ off <= Len(t) /\ Holds(t, base, b) /\ i = p /\ h = base + i - 1 /\ h = Behind
    BY <1>1 DEF NumbersAre
  <1>3. i = Len(b) + 1 /\ pc = "read"
    BY <1>2 DEF ParserInv, ParserTypes, Parser!ReadChunk
  <1>4. h = off
    BY <1>2, <1>3
  <1>5. ScriptAt(t, off, sm, scratch, expr, defs, ran)
    BY <1>2, <1>3, <1>4 DEF ParserInv, ParserPlace
  <1>6. UNCHANGED <<src, sm, scratch, expr, defs, ran>>
    BY DEF Parser!ReadChunk
  <1>t. ParserTypes
    BY DEF ParserInv
  <1>7. CASE off = Len(src)
    <2>1. pc' = "end" /\ outcome' = "ok" /\ UNCHANGED <<off, buf, p, ptr>>
      BY <1>7 DEF Parser!ReadChunk
    <2>2. Base' = Base
      BY <2>1 DEF Base
    <2>3. ParserTypes'
      BY <1>t, <1>6, <2>1, <2>2 DEF ParserTypes
    <2>4. Finished(src', defs', ran', outcome')
      <3>1. Parser!Obeyed(t, "program")[off] = Acc(defs, ran, "ok")
        BY <1>5 DEF ScriptAt
      <3> QED
        BY <1>2, <1>6, <1>7, <2>1, <3>1 DEF Finished
    <2> QED
      BY <2>1, <2>3, <2>4 DEF ParserInv, ParserPointers, ParserPlace, ParserDone
  <1>8. CASE off # Len(src)
    <2>1. PICK n \in 1..Parser!Min({ChunkSize, Len(src) - off}) :
            /\ off' = off + n /\ buf' = SubSeq(src, off + 1, off + n) /\ p' = 1
            /\ ptr' = [nl |-> Parser!NextIn(buf', "n", 1), eq |-> Parser!NextIn(buf', "=", 1),
                       pi |-> Parser!NextIn(buf', "|", 1)]
            /\ pc' = "parse" /\ UNCHANGED outcome
      BY <1>8 DEF Parser!ReadChunk
    <2>2. n \in Nat /\ 1 <= n /\ n <= ChunkSize /\ off + n <= Len(t)
      <3>1. PICK X : X = {ChunkSize, Len(src) - off}
        OBVIOUS
      <3>2. X \subseteq Nat /\ X # {}
        BY <1>2, <3>1, ScriptsAre
      <3>3. Parser!Min(X) \in X /\ \A l \in X : Parser!Min(X) <= l
        BY <3>2, LeastIs
      <3>4. Parser!Min(X) \in Nat /\ Parser!Min(X) <= ChunkSize /\ Parser!Min(X) <= Len(t) - off
        BY <1>2, <3>1, <3>2, <3>3
      <3>5. n \in 1..Parser!Min(X)
        BY <3>1
      <3> QED
        BY <1>2, <3>4, <3>5, ScriptsAre
    <2>3. PICK k, e : k = off + 1 /\ e = off + n /\ k \in Nat \ {0} /\ e \in Nat /\ k <= e + 1 /\ e <= Len(t)
      BY <1>2, <2>2
    <2>4. PICK c : c = SubSeq(t, k, e)
      OBVIOUS
    <2>5. c \in Word /\ Len(c) = e - k + 1 /\ \A j \in 1..e - k + 1 : c[j] = t[k + j - 1]
      BY <1>2, <2>3, <2>4, Piece
    <2>6. e - k + 1 = n
      BY <1>2, <2>2, <2>3
    <2>7. Holds(t, off, c)
      <3>1. \A j \in 1..Len(c) : c[j] = t[off + j]
        <4> SUFFICES ASSUME NEW j \in 1..Len(c) PROVE c[j] = t[off + j]
          OBVIOUS
        <4>1. j \in 1..e - k + 1 /\ k + j - 1 = off + j
          BY <1>2, <2>3, <2>5
        <4> QED
          BY <2>5, <4>1
      <3> QED
        BY <1>2, <2>2, <2>5, <2>6, <3>1 DEF Holds
    <2>8. buf' = c /\ off' = off + n /\ p' = 1 /\ Len(c) = n
      BY <1>2, <2>1, <2>3, <2>4, <2>5, <2>6
    <2>9. Base' = off
      <3>1. Base' = (off + n) - n
        BY <2>8 DEF Base
      <3> QED
        BY <1>2, <2>2, <3>1
    <2>10. Behind' = off
      <3>1. Behind' = off + 1 - 1
        BY <2>8, <2>9 DEF Behind
      <3> QED
        BY <1>2, <3>1
    <2>11. PICK u, v, y : /\ u = Parser!NextIn(c, "n", 1) /\ v = Parser!NextIn(c, "=", 1) /\ y = Parser!NextIn(c, "|", 1)
                          /\ Finds(c, "n", 1, u) /\ Finds(c, "=", 1, v) /\ Finds(c, "|", 1, y)
      <3>1. 1 \in Nat \ {0} /\ Len(c) \in Nat
        BY <2>2, <2>8
      <3> QED
        BY <3>1, NextInIs
    <2>12. ptr' = [nl |-> u, eq |-> v, pi |-> y]
      BY <2>1, <2>8, <2>11
    <2>13. u \in 0..Len(c) /\ v \in 0..Len(c) /\ y \in 0..Len(c)
      <3>1. 1 \in Nat \ {0} /\ Len(c) \in Nat
        BY <2>2, <2>8
      <3>2. u \in 0..Len(c)
        BY <2>11, <3>1, FindsType
      <3>3. v \in 0..Len(c)
        BY <2>11, <3>1, FindsType
      <3>4. y \in 0..Len(c)
        BY <2>11, <3>1, FindsType
      <3> QED
        BY <3>2, <3>3, <3>4
    <2>14. ptr' \in [nl : 0..Len(buf'), eq : 0..Len(buf'), pi : 0..Len(buf')]
      BY <2>8, <2>12, <2>13
    <2>15. outcome = "reading" /\ outcome' = "reading" /\ pc' = "parse"
      BY <1>3, <1>t, <2>1 DEF ParserTypes
    <2>16. ParserTypes'
      <3>1. src' \in Scripts /\ sm' \in [kind : {"ANY", "DEF", "EXP"}, inside : BOOLEAN]
        BY <1>6, <1>t DEF ParserTypes
      <3>2. off' \in 0..Len(src') /\ Len(buf') <= ChunkSize /\ p' \in 1..Len(buf') + 1
        BY <1>2, <1>6, <2>2, <2>8
      <3>3. Holds(src', Base', buf')
        BY <1>2, <1>6, <2>7, <2>8, <2>9
      <3> QED
        BY <2>14, <2>15, <3>1, <3>2, <3>3 DEF ParserTypes
    <2>17. Pointers(buf', p', sm'.kind, ptr')
      BY <2>8, <2>11, <2>12 DEF Pointers
    <2>18. ScriptAt(src', Behind', sm', scratch', expr', defs', ran')
      BY <1>2, <1>5, <1>6, <2>10
    <2> QED
      BY <2>15, <2>16, <2>17, <2>18 DEF ParserInv, ParserPointers, ParserPlace, ParserDone
  <1> QED
    BY <1>7, <1>8

LEMMA DoneStep ==
  ASSUME ParserInv, Parser!ChunkDone
  PROVE  ParserInv'
  <1>1. /\ UNCHANGED <<src, off, buf>> /\ UNCHANGED <<p, sm, ptr>> /\ UNCHANGED <<scratch, expr, defs, ran, outcome>>
        /\ pc = "parse" /\ pc' = "read" /\ p > Len(buf)
    BY DEF Parser!ChunkDone
  <1>2. Base' = Base
    BY <1>1 DEF Base
  <1>3. Behind' = Behind
    BY <1>1, <1>2 DEF Behind
  <1>4. p = Len(buf) + 1
    <2>1. p \in 1..Len(buf) + 1 /\ Len(buf) \in Nat
      BY DEF ParserInv, ParserTypes, Holds
    <2> QED
      BY <1>1, <2>1
  <1>5. ParserTypes'
    BY <1>1, <1>2, <1>4 DEF ParserInv, ParserTypes
  <1>6. ScriptAt(src', Behind', sm', scratch', expr', defs', ran')
    BY <1>1, <1>3 DEF ParserInv, ParserPlace
  <1> QED
    BY <1>1, <1>5, <1>6 DEF ParserInv, ParserPointers, ParserPlace, ParserDone

\* The parser looks at a symbol of the piece.
SymbolIs(t, base, b, i, h) ==
  /\ NumbersAre(t, base, b, i, h) /\ i <= Len(b) /\ h + 1 = base + i /\ h \in 0..Len(t) - 1 /\ h \in 0..Len(t)
  /\ t[h + 1] = b[i] /\ h + 1 \in h + 1..Len(t)
  /\ Pointers(b, i, sm.kind, ptr) /\ outcome = "reading" /\ pc = "parse"
  /\ ScriptAt(t, h, sm, scratch, expr, defs, ran)

LEMMA AtSymbol ==
  ASSUME ParserInv, Parser!Parsing
  PROVE  \E t, base, b, i, h : SymbolIs(t, base, b, i, h)
  <1>1. PICK t, base, b, i, h : NumbersAre(t, base, b, i, h)
    BY Numbers DEF ParserInv
  <1>2. /\ t = src /\ t \in Word /\ Len(t) \in Nat /\ base = Base /\ base \in Nat /\ b = buf /\ Len(b) \in Nat
        /\ base + Len(b) = off /\ off \in Nat /\ off <= Len(t) /\ Holds(t, base, b) /\ i = p /\ i \in Nat /\ 1 <= i
        /\ h = base + i - 1 /\ h = Behind /\ h \in Nat
    BY <1>1 DEF NumbersAre
  <1>3. i <= Len(b) /\ pc = "parse"
    BY <1>2 DEF Parser!Parsing
  <1>4. h + 1 = base + i /\ h \in 0..Len(t) - 1 /\ h \in 0..Len(t) /\ i \in 1..Len(b) /\ h + 1 \in h + 1..Len(t)
    BY <1>2, <1>3
  <1>5. t[h + 1] = b[i]
    <2>1. b[i] = t[base + i]
      BY <1>2, <1>4 DEF Holds
    <2> QED
      BY <1>4, <2>1
  <1>6. ScriptAt(t, h, sm, scratch, expr, defs, ran) /\ Pointers(b, i, sm.kind, ptr) /\ outcome = "reading"
    BY <1>2, <1>3 DEF ParserInv, ParserPlace, ParserPointers, ParserTypes
  <1> QED
    BY <1>1, <1>3, <1>4, <1>5, <1>6 DEF SymbolIs

LEMMA BeforeWordIs ==
  ASSUME Parser!BeforeWord
  PROVE  /\ Parser!Parsing /\ ~sm.inside
         /\ IF \/ buf[p] \in {"=", "|", "^"}
               \/ buf[p] = "n" /\ sm.kind # "ANY"
            THEN Parser!Fail("syntax") /\ UNCHANGED <<scratch, expr>>
            ELSE /\ p' = IF buf[p] \in {Space, "n"} THEN p + 1 ELSE p
                 /\ ptr' = IF buf[p] = "n" THEN [ptr EXCEPT !.nl = Parser!NextIn(buf, "n", p + 1)] ELSE ptr
                 /\ sm' = [sm EXCEPT !.inside = buf[p] \notin {Space, "n"}]
                 /\ UNCHANGED <<src, off, buf, scratch, expr, defs, ran, pc, outcome>>
  BY Zenon DEF Parser!BeforeWord, Space

LEMMA BeforeStep ==
  ASSUME ParserInv, Parser!BeforeWord
  PROVE  ParserInv'
  <1>1. PICK t, base, b, i, h : SymbolIs(t, base, b, i, h)
    BY AtSymbol, BeforeWordIs
  <1>2. /\ t = src /\ t \in Word /\ Len(t) \in Nat /\ base = Base /\ base \in Nat /\ b = buf /\ Len(b) \in Nat
        /\ i = p /\ i \in Nat \ {0} /\ i <= Len(b) /\ h + 1 = base + i /\ h \in 0..Len(t) - 1 /\ h = base + i - 1
        /\ t[h + 1] = b[i] /\ Pointers(b, i, sm.kind, ptr) /\ outcome = "reading" /\ pc = "parse"
        /\ ScriptAt(t, h, sm, scratch, expr, defs, ran)
    BY <1>1 DEF SymbolIs, NumbersAre
  <1>3. /\ ~sm.inside
        /\ IF \/ b[i] \in {"=", "|", "^"}
              \/ b[i] = "n" /\ sm.kind # "ANY"
           THEN Parser!Fail("syntax") /\ UNCHANGED <<scratch, expr>>
           ELSE /\ p' = IF b[i] \in {Space, "n"} THEN i + 1 ELSE i
                /\ ptr' = IF b[i] = "n" THEN [ptr EXCEPT !.nl = Parser!NextIn(b, "n", i + 1)] ELSE ptr
                /\ sm' = [sm EXCEPT !.inside = b[i] \notin {Space, "n"}]
                /\ UNCHANGED <<src, off, buf, scratch, expr, defs, ran, pc, outcome>>
    BY <1>2, BeforeWordIs
  <1>t. /\ ParserTypes /\ sm \in [kind : {"ANY", "DEF", "EXP"}, inside : BOOLEAN]
        /\ ptr \in [nl : 0..Len(b), eq : 0..Len(b), pi : 0..Len(b)]
    BY <1>2 DEF ParserInv, ParserTypes
  <1>4. CASE b[i] \in {"=", "|", "^"} \/ (b[i] = "n" /\ sm.kind # "ANY")
    <2>1. Finished(t, defs, ran, "syntax")
      <3>1. sm.kind \in {"ANY", "DEF", "EXP"}
        BY <1>t
      <3> QED
        <4>1. t[h + 1] \in {"=", "|", "^"} \/ (t[h + 1] = "n" /\ sm.kind # "ANY")
          BY <1>2, <1>4
        <4>2. ~sm.inside
          BY <1>3
        <4> QED
          BY <1>2, <3>1, <4>1, <4>2, WrongSign
    <2>2. Parser!Fail("syntax")
      BY <1>3, <1>4
    <2> QED
      BY <1>2, <1>t, <2>1, <2>2, Refuses
  <1>5. CASE ~(b[i] \in {"=", "|", "^"} \/ (b[i] = "n" /\ sm.kind # "ANY"))
    <2>1. /\ p' = IF b[i] \in {Space, "n"} THEN i + 1 ELSE i
          /\ ptr' = IF b[i] = "n" THEN [ptr EXCEPT !.nl = Parser!NextIn(b, "n", i + 1)] ELSE ptr
          /\ sm' = [sm EXCEPT !.inside = b[i] \notin {Space, "n"}]
          /\ UNCHANGED <<src, off, buf>> /\ UNCHANGED <<scratch, expr, defs, ran>> /\ pc' = "parse" /\ outcome' = "reading"
      BY <1>2, <1>3, <1>5
    <2>2. sm' \in [kind : {"ANY", "DEF", "EXP"}, inside : BOOLEAN] /\ sm'.kind = sm.kind
          /\ (sm'.inside <=> b[i] \notin {Space, "n"})
      BY <1>t, <2>1
    <2>3. i + 1 \in Nat \ {0} /\ i + 1 \in 1..Len(b) + 1 /\ i \in 1..Len(b) + 1 /\ i <= i + 1 /\ i + 1 <= Len(b) + 1
          /\ base + (i + 1) - 1 = h + 1 /\ \A j \in i..(i + 1) - 1 : j = i
      BY <1>2
    <2>4. CASE b[i] = Space
      <3>1. p' = i + 1 /\ ptr' = ptr /\ ~sm'.inside /\ b[i] # "n" /\ b[i] # "|" /\ b[i] # "="
        BY <2>1, <2>2, <2>4, SpaceIs
      <3>2. sm' = sm
        <4>1. sm'.inside = sm.inside
          BY <1>3, <1>t, <2>2, <3>1
        <4> QED
          BY <1>t, <2>2, <4>1
      <3>3. ScriptAt(t, h + 1, sm, scratch, expr, defs, ran)
        BY <1>2, <1>3, <2>4, StepBlank
      <3>4. Pointers(b, i + 1, sm.kind, ptr)
        <4>1. \A j \in i..(i + 1) - 1 : b[j] # "n" /\ b[j] # "|" /\ b[j] # "="
          BY <2>3, <3>1
        <4>2. Finds(b, "n", i + 1, ptr.nl)
          BY <1>2, <2>3, <4>1, PointersMove
        <4>3. Finds(b, "|", i + 1, ptr.pi)
          BY <1>2, <2>3, <4>1, PointersMove
        <4>4. sm.kind # "DEF" => Finds(b, "=", i + 1, ptr.eq)
          BY <1>2, <2>3, <4>1, PointersMove
        <4> QED
          BY <4>2, <4>3, <4>4 DEF Pointers
      <3>5. PICK k : k = h + 1 /\ k = Base + p' - 1 /\ ScriptAt(src, k, sm', scratch', expr', defs', ran')
        BY <1>2, <2>1, <2>3, <3>1, <3>2, <3>3
      <3>6. /\ p' \in 1..Len(buf) + 1 /\ ptr' \in [nl : 0..Len(buf), eq : 0..Len(buf), pi : 0..Len(buf)]
            /\ Pointers(buf, p', sm'.kind, ptr')
        BY <1>2, <1>t, <2>3, <3>1, <3>2, <3>4
      <3> QED
        BY <1>t, <2>1, <2>2, <3>5, <3>6, MovesOn
    <2>5. CASE b[i] = "n"
      <3>1. PICK u : u = Parser!NextIn(b, "n", i + 1) /\ Finds(b, "n", i + 1, u) /\ u \in 0..Len(b)
        BY <1>2, <2>3, NextInIs, FindsType
      <3>2. p' = i + 1 /\ ptr' = [ptr EXCEPT !.nl = u] /\ ~sm'.inside /\ sm.kind = "ANY"
        BY <1>5, <2>1, <2>2, <2>5, <3>1
      <3>3. sm' = Fresh
        BY <2>2, <3>2 DEF Fresh
      <3>4. ScriptAt(t, h + 1, Fresh, scratch, expr, defs, ran)
        BY <1>2, <1>3, <2>5, <3>2, StepNewline
      <3>5. ptr'.nl = u /\ ptr'.pi = ptr.pi /\ ptr'.eq = ptr.eq
            /\ ptr' \in [nl : 0..Len(b), eq : 0..Len(b), pi : 0..Len(b)]
        BY <1>t, <3>1, <3>2
      <3>6. Pointers(b, i + 1, sm'.kind, ptr')
        <4>1. \A j \in i..(i + 1) - 1 : b[j] # "|" /\ b[j] # "="
          BY <2>3, <2>5
        <4>2. Finds(b, "|", i + 1, ptr.pi)
          BY <1>2, <2>3, <4>1, PointersMove
        <4>3. sm.kind # "DEF" => Finds(b, "=", i + 1, ptr.eq)
          BY <1>2, <2>3, <4>1, PointersMove
        <4> QED
          BY <2>2, <3>1, <3>5, <4>2, <4>3 DEF Pointers
      <3>7. PICK k : k = h + 1 /\ k = Base + p' - 1 /\ ScriptAt(src, k, sm', scratch', expr', defs', ran')
        BY <1>2, <2>1, <2>3, <3>2, <3>3, <3>4
      <3>8. /\ p' \in 1..Len(buf) + 1 /\ ptr' \in [nl : 0..Len(buf), eq : 0..Len(buf), pi : 0..Len(buf)]
            /\ Pointers(buf, p', sm'.kind, ptr')
        BY <1>2, <2>3, <3>2, <3>5, <3>6
      <3> QED
        BY <1>t, <2>1, <2>2, <3>7, <3>8, MovesOn
    <2>6. CASE b[i] # Space /\ b[i] # "n"
      <3>1. p' = i /\ ptr' = ptr /\ sm'.inside /\ WordStart(b[i])
        BY <1>5, <2>1, <2>2, <2>6 DEF WordStart
      <3>2. ScriptAt(t, h, sm', scratch, expr, defs, ran)
        BY <1>2, <1>3, <2>2, <3>1, StepEnter
      <3>3. ScriptAt(src, h, sm', scratch', expr', defs', ran') /\ h = Base + p' - 1
        BY <1>2, <2>1, <3>1, <3>2
      <3>4. /\ p' \in 1..Len(buf) + 1 /\ ptr' \in [nl : 0..Len(buf), eq : 0..Len(buf), pi : 0..Len(buf)]
            /\ Pointers(buf, p', sm'.kind, ptr')
        BY <1>2, <1>t, <2>2, <2>3, <3>1
      <3> QED
        BY <1>t, <2>1, <2>2, <3>3, <3>4, MovesOn
    <2> QED
      BY <2>4, <2>5, <2>6
  <1> QED
    BY <1>4, <1>5

LEMMA ContinueStep ==
  ASSUME ParserInv, Parser!WordContinues
  PROVE  ParserInv'
  <1>0. /\ Parser!Parsing /\ sm.inside /\ Parser!Term = 0 /\ scratch' = scratch \o SubSeq(buf, p, Len(buf)) /\ p' = Len(buf) + 1
        /\ UNCHANGED <<src, off, buf>> /\ UNCHANGED <<sm, ptr>> /\ UNCHANGED <<expr, defs, ran>> /\ UNCHANGED <<pc, outcome>>
    BY DEF Parser!WordContinues
  <1>1. PICK t, base, b, i, h : SymbolIs(t, base, b, i, h)
    BY <1>0, AtSymbol
  <1>2. /\ t = src /\ t \in Word /\ Len(t) \in Nat /\ base = Base /\ base \in Nat /\ b = buf /\ Len(b) \in Nat
        /\ base + Len(b) = off /\ off \in Nat /\ off <= Len(t) /\ Holds(t, base, b)
        /\ i = p /\ i \in Nat \ {0} /\ i <= Len(b) /\ h \in 0..Len(t) /\ h = base + i - 1
        /\ Pointers(b, i, sm.kind, ptr) /\ outcome = "reading" /\ pc = "parse"
        /\ ScriptAt(t, h, sm, scratch, expr, defs, ran)
    BY <1>1 DEF SymbolIs, NumbersAre
  <1>t. /\ ParserTypes /\ sm \in [kind : {"ANY", "DEF", "EXP"}, inside : BOOLEAN]
        /\ ptr \in [nl : 0..Len(b), eq : 0..Len(b), pi : 0..Len(b)]
    BY <1>2 DEF ParserInv, ParserTypes
  <1>3. \A j \in i..Len(b) : ~IsEnd(b[j], sm.kind)
    <2>1. EndAt(b, i, sm.kind, 0)
      BY <1>0, <1>2, EndOf DEF ParserInv
    <2>2. ~(0 \in i..Len(b))
      BY <1>2
    <2> QED
      BY <2>1, <2>2 DEF EndAt
  <1>4. PICK n, k : n = Len(b) /\ k = n + 1
    OBVIOUS
  <1>5. /\ i \in 1..Len(b) + 1 /\ k \in i..Len(b) + 1 /\ k - 1 = n /\ off + 1 = base + k /\ off = base + n /\ off \in h..Len(t)
        /\ n \in i - 1..Len(b) /\ k \in Nat \ {0} /\ i <= k /\ k <= Len(b) + 1 /\ base + k - 1 = off
    BY <1>2, <1>4
  <1>6. \A j \in i..k - 1 : ~IsEnd(b[j], sm.kind)
    BY <1>3, <1>4, <1>5
  <1>7. Free(t, h, off + 1, sm.kind)
    <2>1. PICK at : at = off + 1 /\ at = base + k
      BY <1>5
    <2> QED
      BY <1>2, <1>5, <1>6, <2>1, BufFree
  <1>8. SubSeq(b, i, n) = SubSeq(t, h + 1, off)
    <2>1. Spans(b, i, n) /\ t \in Word /\ Holds(t, base, b)
      BY <1>2, <1>5 DEF Spans
    <2>2. off = base + n /\ h + 1 = base + i
      BY <1>2, <1>5
    <2>3. SamePart(t, base, b, i, n)
      BY <2>1, BufPiece
    <2> QED
      BY <2>2, <2>3 DEF SamePart
  <1>9. ScriptAt(t, off, sm, scratch \o SubSeq(t, h + 1, off), expr, defs, ran)
    BY <1>0, <1>2, <1>5, <1>7, StepContinue
  <1>10. ScriptAt(src, off, sm', scratch', expr', defs', ran')
    BY <1>0, <1>2, <1>4, <1>8, <1>9
  <1>11. Pointers(b, k, sm.kind, ptr)
    <2>1. \A j \in i..k - 1 : b[j] # "n" /\ b[j] # "|" /\ (sm.kind # "DEF" => b[j] # "=")
      BY <1>6 DEF IsEnd
    <2>2. Finds(b, "n", k, ptr.nl)
      BY <1>2, <1>5, <2>1, PointersMove
    <2>3. Finds(b, "|", k, ptr.pi)
      BY <1>2, <1>5, <2>1, PointersMove
    <2>4. sm.kind # "DEF" => Finds(b, "=", k, ptr.eq)
      BY <1>2, <1>5, <2>1, PointersMove
    <2> QED
      BY <2>2, <2>3, <2>4 DEF Pointers
  <1>12. p' = k /\ off = Base + p' - 1 /\ p' \in 1..Len(buf) + 1
    BY <1>0, <1>2, <1>4, <1>5
  <1>13. /\ sm' \in [kind : {"ANY", "DEF", "EXP"}, inside : BOOLEAN]
         /\ ptr' \in [nl : 0..Len(buf), eq : 0..Len(buf), pi : 0..Len(buf)]
         /\ Pointers(buf, p', sm'.kind, ptr') /\ pc' = "parse" /\ outcome' = "reading"
    BY <1>0, <1>2, <1>11, <1>12, <1>t
  <1> QED
    BY <1>0, <1>10, <1>12, <1>13, <1>t, MovesOn

\* A word ends at the sign c.
WordHere(t, base, b, i, h, m, at, w, c) ==
  /\ SymbolIs(t, base, b, i, h) /\ m = Parser!Term /\ WordEndIs(t, base, b, i, h, m, at, sm.kind)
  /\ w = Parser!Strip(scratch \o SubSeq(t, h + 1, at - 1)) /\ Parser!Words = Append(expr, w)
  /\ Parser!Last(Append(expr, w)) = w /\ t[at] = c /\ b[m] = c /\ sm.inside

LEMMA AtEnd ==
  ASSUME ParserInv, NEW c \in {"n", "|", "="}, Parser!WordEnds(c)
  PROVE  \E t, base, b, i, h, m, at, w : WordHere(t, base, b, i, h, m, at, w, c)
  <1>0. Parser!Parsing /\ sm.inside /\ Parser!Term # 0 /\ buf[Parser!Term] = c
    BY DEF Parser!WordEnds
  <1>1. PICK t, base, b, i, h : SymbolIs(t, base, b, i, h)
    BY <1>0, AtSymbol
  <1>2. NumbersAre(t, base, b, i, h) /\ t \in Word /\ b = buf /\ i = p /\ h \in 0..Len(t)
        /\ ScriptAt(t, h, sm, scratch, expr, defs, ran)
    BY <1>1 DEF SymbolIs, NumbersAre
  <1>3. PICK m : m = Parser!Term /\ EndAt(b, i, sm.kind, m) /\ m # 0 /\ b[m] = c
    BY <1>0, <1>2, EndOf DEF ParserInv
  <1>4. PICK at : WordEndIs(t, base, b, i, h, m, at, sm.kind)
    BY <1>2, <1>3, EndInText
  <1>5. at \in h + 1..Len(t) /\ t[at] = c /\ Free(t, h, at, sm.kind) /\ SubSeq(b, i, m - 1) = SubSeq(t, h + 1, at - 1)
    BY <1>3, <1>4 DEF WordEndIs
  <1>6. PICK w : w = Parser!Strip(scratch \o SubSeq(t, h + 1, at - 1))
    OBVIOUS
  <1>7. Parser!Words = Append(expr, w)
    BY <1>2, <1>3, <1>5, <1>6, Zenon DEF Parser!Words
  <1>8. Parser!Last(Append(expr, w)) = w
    <2>1. t[at] \in {"|", "n", "="}
      BY <1>5
    <2> QED
      BY <1>0, <1>2, <1>5, <1>6, <2>1, LastWord
  <1> QED
    BY <1>0, <1>1, <1>3, <1>4, <1>5, <1>6, <1>7, <1>8 DEF WordHere

\* What WordHere says, for the steps that follow.
LEMMA WordFacts ==
  ASSUME ParserInv, NEW t, NEW base, NEW b, NEW i, NEW h, NEW m, NEW at, NEW w, NEW c, WordHere(t, base, b, i, h, m, at, w, c)
  PROVE  /\ t = src /\ t \in Word /\ Len(t) \in Nat /\ base = Base /\ base \in Nat /\ b = buf /\ Len(b) \in Nat
         /\ i = p /\ i \in Nat \ {0} /\ h \in 0..Len(t) /\ h \in 0..Len(t) - 1
         /\ m = Parser!Term /\ m + 1 \in Nat \ {0} /\ i <= m + 1 /\ m + 1 <= Len(b) + 1 /\ m + 1 \in 1..Len(b) + 1
         /\ at \in h + 1..Len(t) /\ at = base + (m + 1) - 1 /\ t[at] = c /\ b[m] = c /\ Free(t, h, at, sm.kind)
         /\ Pointers(b, i, sm.kind, ptr) /\ outcome = "reading" /\ pc = "parse"
         /\ ScriptAt(t, h, sm, scratch, expr, defs, ran) /\ sm.inside
         /\ \A j \in i..(m + 1) - 1 : j = m \/ ~IsEnd(b[j], sm.kind)
         /\ ParserTypes /\ sm \in [kind : {"ANY", "DEF", "EXP"}, inside : BOOLEAN]
         /\ ptr \in [nl : 0..Len(b), eq : 0..Len(b), pi : 0..Len(b)]
  <1>1. /\ t = src /\ t \in Word /\ Len(t) \in Nat /\ base = Base /\ base \in Nat /\ b = buf /\ Len(b) \in Nat
        /\ i = p /\ i \in Nat /\ 1 <= i /\ h \in 0..Len(t) /\ h \in 0..Len(t) - 1
        /\ Pointers(b, i, sm.kind, ptr) /\ outcome = "reading" /\ pc = "parse"
        /\ ScriptAt(t, h, sm, scratch, expr, defs, ran)
    BY DEF WordHere, SymbolIs, NumbersAre
  <1>2. /\ m \in i..Len(b) /\ at = base + m /\ at \in h + 1..Len(t) /\ Free(t, h, at, sm.kind)
        /\ \A j \in i..m - 1 : ~IsEnd(b[j], sm.kind)
    BY DEF WordHere, WordEndIs
  <1>3. m = Parser!Term /\ t[at] = c /\ b[m] = c /\ sm.inside
    BY DEF WordHere
  <1>4. m + 1 \in Nat \ {0} /\ i <= m + 1 /\ m + 1 <= Len(b) + 1 /\ m + 1 \in 1..Len(b) + 1 /\ i \in Nat \ {0}
        /\ base + m = base + (m + 1) - 1 /\ \A j \in i..(m + 1) - 1 : j = m \/ j \in i..m - 1
    BY <1>1, <1>2
  <1>5. /\ ParserTypes /\ sm \in [kind : {"ANY", "DEF", "EXP"}, inside : BOOLEAN]
        /\ ptr \in [nl : 0..Len(b), eq : 0..Len(b), pi : 0..Len(b)]
    BY <1>1 DEF ParserInv, ParserTypes
  <1>6. at = base + (m + 1) - 1
    BY <1>2, <1>4
  <1>7. \A j \in i..(m + 1) - 1 : j = m \/ ~IsEnd(b[j], sm.kind)
    BY <1>2, <1>4
  <1> QED
    BY <1>1, <1>2, <1>3, <1>4, <1>5, <1>6, <1>7

LEMMA UnknownStep ==
  ASSUME ParserInv, NEW c \in {"n", "|"}, NEW t, NEW base, NEW b, NEW i, NEW h, NEW m, NEW at, NEW w,
         WordHere(t, base, b, i, h, m, at, w, c), sm.kind # "DEF", ~Parser!Known(Parser!Last(Parser!Words)),
         Parser!FailUnknown
  PROVE  ParserInv'
  <1>1. /\ t = src /\ t \in Word /\ h \in 0..Len(t) - 1 /\ at \in h + 1..Len(t) /\ t[at] = c /\ Free(t, h, at, sm.kind)
        /\ ScriptAt(t, h, sm, scratch, expr, defs, ran) /\ sm.inside /\ ParserTypes
        /\ sm \in [kind : {"ANY", "DEF", "EXP"}, inside : BOOLEAN]
    BY WordFacts
  <1>2. w = Parser!Strip(scratch \o SubSeq(t, h + 1, at - 1)) /\ Parser!Last(Parser!Words) = w
    BY DEF WordHere
  <1>3. w \notin DOMAIN defs
    BY <1>2 DEF Parser!Known
  <1>4. PICK how : how = (IF DOMAIN defs = {} THEN "aborted" ELSE "unknown")
    OBVIOUS
  <1>5. Finished(t, defs, ran, how)
    <2>1. sm.kind \in {"ANY", "EXP"} /\ t[at] \in {"|", "n"}
      BY <1>1
    <2> QED
      BY <1>1, <1>2, <1>3, <1>4, <2>1, UnknownName
  <1>6. Parser!Fail(how) /\ how \in {"syntax", "unknown", "aborted"}
    BY <1>4 DEF Parser!FailUnknown
  <1> QED
    BY <1>1, <1>5, <1>6, Refuses

LEMMA PipeStep ==
  ASSUME ParserInv, Parser!EndPart
  PROVE  ParserInv'
  <1>0. Parser!WordEnds("|")
    BY DEF Parser!EndPart
  <1>1. PICK t, base, b, i, h, m, at, w : WordHere(t, base, b, i, h, m, at, w, "|")
    BY <1>0, AtEnd
  <1>2. CASE sm.kind # "DEF" /\ ~Parser!Known(Parser!Last(Parser!Words))
    <2>1. Parser!FailUnknown
      BY <1>2 DEF Parser!EndPart
    <2> QED
      BY <1>1, <1>2, <2>1, UnknownStep
  <1>3. CASE ~(sm.kind # "DEF" /\ ~Parser!Known(Parser!Last(Parser!Words)))
    <2>1. /\ t = src /\ t \in Word /\ Len(t) \in Nat /\ base = Base /\ base \in Nat /\ b = buf /\ Len(b) \in Nat
          /\ i = p /\ i \in Nat \ {0} /\ h \in 0..Len(t)
          /\ m = Parser!Term /\ m + 1 \in Nat \ {0} /\ i <= m + 1 /\ m + 1 <= Len(b) + 1 /\ m + 1 \in 1..Len(b) + 1
          /\ at \in h + 1..Len(t) /\ at = base + (m + 1) - 1 /\ t[at] = "|" /\ b[m] = "|" /\ Free(t, h, at, sm.kind)
          /\ Pointers(b, i, sm.kind, ptr) /\ outcome = "reading" /\ pc = "parse"
          /\ ScriptAt(t, h, sm, scratch, expr, defs, ran) /\ sm.inside
          /\ \A j \in i..(m + 1) - 1 : j = m \/ ~IsEnd(b[j], sm.kind)
          /\ ParserTypes /\ sm \in [kind : {"ANY", "DEF", "EXP"}, inside : BOOLEAN]
          /\ ptr \in [nl : 0..Len(b), eq : 0..Len(b), pi : 0..Len(b)]
      BY <1>1, WordFacts
    <2>2. w = Parser!Strip(scratch \o SubSeq(t, h + 1, at - 1)) /\ Parser!Words = Append(expr, w) /\ Parser!Last(Parser!Words) = w
      BY <1>1 DEF WordHere
    <2>3. PICK k : k = m + 1
      OBVIOUS
    <2>4. /\ scratch' = <<>> /\ expr' = Append(expr, w)
          /\ sm' = [kind |-> IF sm.kind = "ANY" THEN "EXP" ELSE sm.kind, inside |-> FALSE]
          /\ p' = k /\ ptr' = [ptr EXCEPT !.pi = Parser!NextIn(b, "|", k)]
          /\ UNCHANGED <<src, off, buf>> /\ UNCHANGED <<defs, ran>> /\ UNCHANGED <<pc, outcome>>
      BY <1>3, <2>1, <2>2, <2>3 DEF Parser!EndPart
    <2>5. sm.kind # "DEF" => w \in DOMAIN defs
      BY <1>3, <2>2 DEF Parser!Known
    <2>6. /\ sm' \in [kind : {"ANY", "DEF", "EXP"}, inside : BOOLEAN] /\ ~sm'.inside
          /\ sm'.kind = (IF sm.kind = "ANY" THEN "EXP" ELSE sm.kind) /\ sm.kind \in {"ANY", "DEF", "EXP"}
      BY <2>1, <2>4
    <2>7. ScriptAt(t, at, sm', <<>>, Append(expr, w), defs, ran)
      <3>1. PICK s, e : s = sm /\ e = sm'
        OBVIOUS
      <3>2. /\ t \in Word /\ h \in 0..Len(t) /\ s.kind \in {"ANY", "DEF", "EXP"} /\ s.inside
            /\ ScriptAt(t, h, s, scratch, expr, defs, ran)
            /\ at \in h + 1..Len(t) /\ t[at] = "|" /\ Free(t, h, at, s.kind)
        BY <2>1, <2>6, <3>1
      <3>3. /\ w = Parser!Strip(scratch \o SubSeq(t, h + 1, at - 1)) /\ (s.kind # "DEF" => w \in DOMAIN defs)
            /\ e.kind = (IF s.kind = "ANY" THEN "EXP" ELSE s.kind) /\ ~e.inside
        BY <2>2, <2>5, <2>6, <3>1
      <3>4. ScriptAt(t, at, e, <<>>, Append(expr, w), defs, ran)
        BY <3>2, <3>3, StepPipe
      <3> QED
        BY <3>1, <3>4
    <2>8. PICK u : u = Parser!NextIn(b, "|", k) /\ Finds(b, "|", k, u) /\ u \in 0..Len(b)
      BY <2>1, <2>3, NextInIs, FindsType
    <2>9. ptr'.pi = u /\ ptr'.nl = ptr.nl /\ ptr'.eq = ptr.eq
          /\ ptr' \in [nl : 0..Len(b), eq : 0..Len(b), pi : 0..Len(b)]
      BY <2>1, <2>4, <2>8
    <2>10. Pointers(b, k, sm'.kind, ptr')
      <3>1. \A j \in i..k - 1 : b[j] # "n" /\ (sm.kind # "DEF" => b[j] # "=")
        BY <2>1, <2>3 DEF IsEnd
      <3>2. Finds(b, "n", k, ptr.nl)
        BY <2>1, <2>3, <3>1, PointersMove
      <3>3. sm.kind # "DEF" => Finds(b, "=", k, ptr.eq)
        BY <2>1, <2>3, <3>1, PointersMove
      <3> QED
        BY <2>6, <2>8, <2>9, <3>2, <3>3 DEF Pointers
    <2>11. ScriptAt(src, at, sm', scratch', expr', defs', ran') /\ at = Base + p' - 1
      BY <2>1, <2>3, <2>4, <2>7
    <2>12. /\ p' \in 1..Len(buf) + 1 /\ ptr' \in [nl : 0..Len(buf), eq : 0..Len(buf), pi : 0..Len(buf)]
           /\ Pointers(buf, p', sm'.kind, ptr') /\ pc' = "parse" /\ outcome' = "reading"
      BY <2>1, <2>3, <2>4, <2>9, <2>10
    <2> QED
      BY <2>1, <2>4, <2>6, <2>11, <2>12, MovesOn
  <1> QED
    BY <1>2, <1>3

LEMMA NameStep ==
  ASSUME ParserInv, Parser!EndName
  PROVE  ParserInv'
  <1>0. Parser!WordEnds("=")
    BY DEF Parser!EndName
  <1>1. PICK t, base, b, i, h, m, at, w : WordHere(t, base, b, i, h, m, at, w, "=")
    BY <1>0, AtEnd
  <1>2. /\ t = src /\ t \in Word /\ Len(t) \in Nat /\ base = Base /\ base \in Nat /\ b = buf /\ Len(b) \in Nat
        /\ i = p /\ i \in Nat \ {0} /\ h \in 0..Len(t) /\ h \in 0..Len(t) - 1
        /\ m = Parser!Term /\ m + 1 \in Nat \ {0} /\ i <= m + 1 /\ m + 1 <= Len(b) + 1 /\ m + 1 \in 1..Len(b) + 1
        /\ at \in h + 1..Len(t) /\ at = base + (m + 1) - 1 /\ t[at] = "=" /\ b[m] = "=" /\ Free(t, h, at, sm.kind)
        /\ Pointers(b, i, sm.kind, ptr) /\ outcome = "reading" /\ pc = "parse"
        /\ ScriptAt(t, h, sm, scratch, expr, defs, ran) /\ sm.inside
        /\ \A j \in i..(m + 1) - 1 : j = m \/ ~IsEnd(b[j], sm.kind)
        /\ ParserTypes /\ sm \in [kind : {"ANY", "DEF", "EXP"}, inside : BOOLEAN]
        /\ ptr \in [nl : 0..Len(b), eq : 0..Len(b), pi : 0..Len(b)]
    BY <1>1, WordFacts
  <1>3. w = Parser!Strip(scratch \o SubSeq(t, h + 1, at - 1)) /\ Parser!Words = Append(expr, w)
    BY <1>1 DEF WordHere
  <1>4. sm.kind # "DEF"
    <2>1. IsEnd(b[m], sm.kind)
      BY <1>1 DEF WordHere, WordEndIs
    <2> QED
      BY <1>2, <2>1 DEF IsEnd
  <1>5. CASE sm.kind # "ANY"
    <2>1. sm.kind = "EXP" /\ Parser!Fail("syntax")
      BY <1>2, <1>4, <1>5 DEF Parser!EndName
    <2>2. Finished(t, defs, ran, "syntax")
      BY <1>2, <2>1, WrongEquals
    <2> QED
      BY <1>2, <2>1, <2>2, Refuses
  <1>6. CASE sm.kind = "ANY"
    <2>3. PICK k : k = m + 1
      OBVIOUS
    <2>4. /\ scratch' = <<>> /\ expr' = Append(expr, w) /\ sm' = [kind |-> "DEF", inside |-> FALSE]
          /\ p' = k /\ ptr' = [ptr EXCEPT !.eq = Parser!NextIn(b, "=", k)]
          /\ UNCHANGED <<src, off, buf>> /\ UNCHANGED <<defs, ran>> /\ UNCHANGED <<pc, outcome>>
      BY <1>2, <1>3, <1>6, <2>3 DEF Parser!EndName
    <2>6. sm' \in [kind : {"ANY", "DEF", "EXP"}, inside : BOOLEAN] /\ ~sm'.inside /\ sm'.kind = "DEF"
      BY <2>4
    <2>7. ScriptAt(t, at, sm', <<>>, Append(expr, w), defs, ran)
      BY <1>2, <1>3, <1>6, <2>6, StepName
    <2>8. PICK u : u = Parser!NextIn(b, "=", k) /\ Finds(b, "=", k, u) /\ u \in 0..Len(b)
      BY <1>2, <2>3, NextInIs, FindsType
    <2>9. ptr'.pi = ptr.pi /\ ptr'.nl = ptr.nl /\ ptr' \in [nl : 0..Len(b), eq : 0..Len(b), pi : 0..Len(b)]
      BY <1>2, <2>4, <2>8
    <2>10. Pointers(b, k, sm'.kind, ptr')
      <3>1. \A j \in i..k - 1 : b[j] # "n" /\ b[j] # "|"
        BY <1>2, <2>3 DEF IsEnd
      <3>2. Finds(b, "n", k, ptr.nl)
        BY <1>2, <2>3, <3>1, PointersMove
      <3>3. Finds(b, "|", k, ptr.pi)
        BY <1>2, <2>3, <3>1, PointersMove
      <3> QED
        BY <2>6, <2>9, <3>2, <3>3 DEF Pointers
    <2>11. ScriptAt(src, at, sm', scratch', expr', defs', ran') /\ at = Base + p' - 1
      BY <1>2, <2>3, <2>4, <2>7
    <2>12. /\ p' \in 1..Len(buf) + 1 /\ ptr' \in [nl : 0..Len(buf), eq : 0..Len(buf), pi : 0..Len(buf)]
           /\ Pointers(buf, p', sm'.kind, ptr') /\ pc' = "parse" /\ outcome' = "reading"
      BY <1>2, <2>3, <2>4, <2>9, <2>10
    <2> QED
      BY <1>2, <2>4, <2>6, <2>11, <2>12, MovesOn
  <1> QED
    BY <1>5, <1>6

LEMMA LineStep ==
  ASSUME ParserInv, Parser!EndLine
  PROVE  ParserInv'
  <1>0. Parser!WordEnds("n")
    BY DEF Parser!EndLine
  <1>1. PICK t, base, b, i, h, m, at, w : WordHere(t, base, b, i, h, m, at, w, "n")
    BY <1>0, AtEnd
  <1>2. CASE sm.kind # "DEF" /\ ~Parser!Known(Parser!Last(Parser!Words))
    <2>1. Parser!FailUnknown
      BY <1>2 DEF Parser!EndLine
    <2> QED
      BY <1>1, <1>2, <2>1, UnknownStep
  <1>3. CASE ~(sm.kind # "DEF" /\ ~Parser!Known(Parser!Last(Parser!Words)))
    <2>1. /\ t = src /\ t \in Word /\ Len(t) \in Nat /\ base = Base /\ base \in Nat /\ b = buf /\ Len(b) \in Nat
          /\ i = p /\ i \in Nat \ {0} /\ h \in 0..Len(t)
          /\ m = Parser!Term /\ m + 1 \in Nat \ {0} /\ i <= m + 1 /\ m + 1 <= Len(b) + 1 /\ m + 1 \in 1..Len(b) + 1
          /\ at \in h + 1..Len(t) /\ at = base + (m + 1) - 1 /\ t[at] = "n" /\ b[m] = "n" /\ Free(t, h, at, sm.kind)
          /\ Pointers(b, i, sm.kind, ptr) /\ outcome = "reading" /\ pc = "parse"
          /\ ScriptAt(t, h, sm, scratch, expr, defs, ran) /\ sm.inside
          /\ \A j \in i..(m + 1) - 1 : j = m \/ ~IsEnd(b[j], sm.kind)
          /\ ParserTypes /\ sm \in [kind : {"ANY", "DEF", "EXP"}, inside : BOOLEAN]
          /\ ptr \in [nl : 0..Len(b), eq : 0..Len(b), pi : 0..Len(b)]
      BY <1>1, WordFacts
    <2>2. w = Parser!Strip(scratch \o SubSeq(t, h + 1, at - 1)) /\ Parser!Words = Append(expr, w) /\ Parser!Last(Parser!Words) = w
      BY <1>1 DEF WordHere
    <2>3. PICK k : k = m + 1
      OBVIOUS
    <2>a. PICK words : words = Append(expr, w) /\ words = Parser!Words
      BY <2>2
    <2>b. sm.kind \in {"ANY", "DEF", "EXP"}
      BY <2>1
    <2>5. sm.kind # "DEF" => w \in DOMAIN defs
      BY <1>3, <2>2 DEF Parser!Known
    <2>6. sm.kind # "DEF" =>
            /\ \A j \in DOMAIN words : words[j] \in DOMAIN defs
            /\ ScriptAt(t, at, Fresh, <<>>, <<>>, defs, Called(ran, words, defs))
      <3> SUFFICES ASSUME sm.kind # "DEF"
                   PROVE  /\ \A j \in DOMAIN words : words[j] \in DOMAIN defs
                          /\ ScriptAt(t, at, Fresh, <<>>, <<>>, defs, Called(ran, words, defs))
        OBVIOUS
      <3>1. sm.kind \in {"ANY", "EXP"} /\ w \in DOMAIN defs
        BY <2>b, <2>5
      <3>2. PICK s : s = sm
        OBVIOUS
      <3>3. /\ t \in Word /\ h \in 0..Len(t) /\ s.kind \in {"ANY", "EXP"} /\ s.inside
            /\ ScriptAt(t, h, s, scratch, expr, defs, ran)
            /\ at \in h + 1..Len(t) /\ t[at] = "n" /\ Free(t, h, at, s.kind)
        BY <2>1, <3>1, <3>2
      <3>4. w = Parser!Strip(scratch \o SubSeq(t, h + 1, at - 1)) /\ w \in DOMAIN defs /\ words = Append(expr, w)
        BY <2>2, <2>a, <3>1
      <3>5. RunsOn(t, at, defs, ran, Append(expr, w))
        BY <3>3, <3>4, StepRun
      <3>6. RunsOn(t, at, defs, ran, words)
        BY <2>a, <3>5
      <3> QED
        BY <3>6 DEF RunsOn
    <2>7. sm.kind = "DEF" => ScriptAt(t, at, Fresh, <<>>, <<>>, Defined(words[1], Tail(words), defs), ran)
      BY ZenonT(60), <2>1, <2>2, <2>a, StepDefine
    <2>8. ~(sm.kind # "DEF" /\ \E j \in DOMAIN Parser!Words : ~Parser!Known(Parser!Words[j]))
      BY <2>6, <2>a DEF Parser!Known
    <2>4. /\ IF sm.kind = "DEF"
             THEN defs' = Defined(Parser!Words[1], Tail(Parser!Words), defs) /\ UNCHANGED ran
             ELSE ran' = Called(ran, Parser!Words, defs) /\ UNCHANGED defs
          /\ scratch' = <<>> /\ expr' = <<>> /\ sm' = Parser!AnyBeforeWord
          /\ p' = Parser!Term + 1
          /\ ptr' = Parser!AfterLine
          /\ UNCHANGED <<src, off, buf, pc, outcome>>
      BY <1>3, <2>8, Zenon DEF Parser!EndLine, Defined, Called
    <2>9. /\ sm' = Fresh /\ p' = k
          /\ ptr' = [ptr EXCEPT !.nl = Parser!NextIn(b, "n", k), !.eq = Parser!NextIn(b, "=", k)]
      BY <2>1, <2>3, <2>4 DEF Fresh, Parser!AnyBeforeWord, Parser!AfterLine
    <2>10. ScriptAt(t, at, Fresh, <<>>, <<>>, defs', ran')
      <3>1. CASE sm.kind = "DEF"
        BY <2>4, <2>7, <2>a, <3>1
      <3>2. CASE sm.kind # "DEF"
        BY <2>4, <2>6, <2>a, <3>2
      <3> QED
        BY <3>1, <3>2
    <2>11. PICK u, v : /\ u = Parser!NextIn(b, "n", k) /\ v = Parser!NextIn(b, "=", k)
                       /\ Finds(b, "n", k, u) /\ Finds(b, "=", k, v)
      BY <2>1, <2>3, NextInIs
    <2>12. u \in 0..Len(b) /\ v \in 0..Len(b)
      <3>1. u \in 0..Len(b)
        BY <2>1, <2>3, <2>11, FindsType
      <3>2. v \in 0..Len(b)
        BY <2>1, <2>3, <2>11, FindsType
      <3> QED
        BY <3>1, <3>2
    <2>13. ptr'.nl = u /\ ptr'.eq = v /\ ptr'.pi = ptr.pi /\ ptr' \in [nl : 0..Len(b), eq : 0..Len(b), pi : 0..Len(b)]
      BY <2>1, <2>9, <2>11, <2>12
    <2>14. Pointers(b, k, sm'.kind, ptr')
      <3>1. \A j \in i..k - 1 : b[j] # "|"
        BY <2>1, <2>3 DEF IsEnd
      <3>2. Finds(b, "|", k, ptr.pi)
        BY <2>1, <2>3, <3>1, PointersMove
      <3> QED
        BY <2>11, <2>13, <3>2 DEF Pointers
    <2>15. ScriptAt(src, at, sm', scratch', expr', defs', ran') /\ at = Base + p' - 1
      BY <2>1, <2>3, <2>4, <2>9, <2>10
    <2>16. /\ p' \in 1..Len(buf) + 1 /\ ptr' \in [nl : 0..Len(buf), eq : 0..Len(buf), pi : 0..Len(buf)]
           /\ Pointers(buf, p', sm'.kind, ptr') /\ pc' = "parse" /\ outcome' = "reading"
           /\ sm' \in [kind : {"ANY", "DEF", "EXP"}, inside : BOOLEAN] /\ UNCHANGED <<src, off, buf>>
      BY <2>1, <2>3, <2>4, <2>9, <2>13, <2>14 DEF Fresh
    <2> QED
      BY <2>1, <2>15, <2>16, MovesOn
  <1> QED
    BY <1>2, <1>3

LEMMA ParserGoesOn ==
  ASSUME ParserInv, [Parser!Next]_Parser!vars
  PROVE  ParserInv'
  <1>1. CASE Parser!Next
    BY <1>1, ReadStep, DoneStep, BeforeStep, ContinueStep, LineStep, PipeStep, NameStep DEF Parser!Next
  <1>2. CASE UNCHANGED Parser!vars
    <2>1. /\ UNCHANGED <<src, off, buf>> /\ UNCHANGED <<p, sm, ptr>> /\ UNCHANGED <<scratch, expr, defs, ran>>
          /\ UNCHANGED <<pc, outcome>>
      BY <1>2 DEF Parser!vars
    <2>2. Base' = Base
      BY <2>1 DEF Base
    <2>3. Behind' = Behind
      BY <2>1, <2>2 DEF Behind
    <2>4. ParserTypes'
      BY <2>1, <2>2 DEF ParserInv, ParserTypes
    <2> QED
      BY <2>1, <2>3, <2>4 DEF ParserInv, ParserPointers, ParserPlace, ParserDone
  <1> QED
    BY <1>1, <1>2

-----------------------------------------------------------------------------
(***************************************************************************)
(* lab1/zad1: handles stand for their texts, for any set of texts and any  *)
(* number of results.  HandlesTrue and the types together are inductive: a *)
(* slot beyond the length is zero because calloc cleared it and the length *)
(* never goes back over a slot that was filled.                            *)
(***************************************************************************)
WcInv == Wc!TypeOK /\ Wc!HandlesTrue

\* A table that has grown is larger than the results in it, keeps them, and
\* is zero behind them.
LEMMA GrownTable ==
  ASSUME Wc!TypeOK
  PROVE  /\ Wc!Grown \in Seq(Outputs \cup {Null})
         /\ Len(Wc!Grown) \in Nat /\ DOMAIN Wc!Grown = 1..Len(Wc!Grown) /\ Len(Wc!Grown) > len
         /\ \A i \in 1..len : Wc!Grown[i] = data[i]
         /\ \A i \in len + 1..Len(Wc!Grown) :
              Wc!Grown[i] = IF i \in DOMAIN data THEN data[i] ELSE Null
<1>0. data \in Seq(Outputs \cup {Null}) /\ len \in 0..Len(data)
  BY DEF Wc!TypeOK
<1> /\ len \in Nat /\ Len(data) \in Nat /\ len <= Len(data) /\ DOMAIN data = 1..Len(data)
  BY <1>0
<1>1. CASE Len(data) > len
  <2>1. Wc!Grown = data
    BY <1>1 DEF Wc!Grown
  <2> QED
    BY <1>0, <1>1, <2>1
<1>2. CASE ~(Len(data) > len)
  <2>1. Len(data) <= len
    BY <1>0, <1>2
  <2>2. PICK c \in Nat : c > len /\ Wc!Grown = [i \in 1..c |-> IF i <= len THEN data[i] ELSE Null]
    <3>1. CASE Len(data) = 0
      <4>1. 4 \in Nat /\ 4 > len
        BY <2>1, <3>1
      <4>2. Wc!Grown = [i \in 1..4 |-> IF i <= len THEN data[i] ELSE Null]
        BY <1>2, <3>1 DEF Wc!Grown
      <4> QED
        BY <4>1, <4>2
    <3>2. CASE Len(data) # 0
      <4>1. 2 * Len(data) \in Nat /\ 2 * Len(data) > len
        BY <2>1, <3>2
      <4>2. Wc!Grown = [i \in 1..2 * Len(data) |-> IF i <= len THEN data[i] ELSE Null]
        BY <1>2, <3>2 DEF Wc!Grown
      <4> QED
        BY <4>1, <4>2
    <3> QED
      BY <3>1, <3>2
  <2>3. Wc!Grown \in [1..c -> Outputs \cup {Null}]
    BY <1>0, <2>1, <2>2
  <2>4. Wc!Grown \in Seq(Outputs \cup {Null}) /\ Len(Wc!Grown) = c
    BY <2>2, <2>3
  <2>5. Len(Wc!Grown) \in Nat /\ Len(Wc!Grown) > len
    BY <2>2, <2>4
  <2>6. DOMAIN Wc!Grown = 1..Len(Wc!Grown)
    BY <2>4
  <2>7. \A i \in 1..len : Wc!Grown[i] = data[i]
    BY <2>2
  <2>8. \A i \in len + 1..Len(Wc!Grown) : Wc!Grown[i] = Null /\ i \notin DOMAIN data
    BY <2>1, <2>2, <2>4
  <2> QED
    BY <2>4, <2>5, <2>6, <2>7, <2>8
<1> QED
  BY <1>1, <1>2

\* Growing the table keeps the invariant.
LEMMA GrowingKeeps ==
  ASSUME WcInv, data' = Wc!Grown, UNCHANGED <<len, loaded, deleted>>, tmpfile' \in Outputs \cup {Null}
  PROVE  WcInv'
<1> /\ len \in Nat /\ loaded \in Seq(Outputs) /\ deleted \subseteq DOMAIN loaded
    /\ DOMAIN data = 1..Len(data) /\ Len(data) \in Nat
  BY DEF WcInv, Wc!TypeOK
<1>1. /\ Wc!Grown \in Seq(Outputs \cup {Null}) /\ Len(Wc!Grown) \in Nat /\ Len(Wc!Grown) > len
      /\ \A i \in 1..len : Wc!Grown[i] = data[i]
      /\ \A i \in len + 1..Len(Wc!Grown) : Wc!Grown[i] = IF i \in DOMAIN data THEN data[i] ELSE Null
  BY GrownTable DEF WcInv
<1>2. Wc!TypeOK'
  BY <1>1 DEF Wc!TypeOK
<1>3. Wc!HandlesTrue'
  BY <1>1 DEF Wc!HandlesTrue, WcInv
<1> QED
  BY <1>2, <1>3 DEF WcInv

\* Loading a result keeps the invariant.
LEMMA LoadKeeps ==
  ASSUME WcInv, Wc!LoadResult
  PROVE  WcInv'
<1> /\ len \in Nat /\ loaded \in Seq(Outputs) /\ deleted \subseteq DOMAIN loaded
    /\ DOMAIN data = 1..Len(data) /\ Len(data) \in Nat /\ tmpfile \in Outputs
    /\ DOMAIN loaded = 1..Len(loaded) /\ len = Len(loaded)
  BY DEF WcInv, Wc!TypeOK, Wc!HandlesTrue, Wc!LoadResult
<1>1. /\ Wc!Grown \in Seq(Outputs \cup {Null}) /\ Len(Wc!Grown) \in Nat /\ Len(Wc!Grown) > len
      /\ DOMAIN Wc!Grown = 1..Len(Wc!Grown)
      /\ \A i \in 1..len : Wc!Grown[i] = data[i]
      /\ \A i \in len + 1..Len(Wc!Grown) : Wc!Grown[i] = IF i \in DOMAIN data THEN data[i] ELSE Null
  BY GrownTable DEF WcInv
<1>2. /\ data' = [Wc!Grown EXCEPT ![len + 1] = tmpfile] /\ len' = len + 1
      /\ loaded' = Append(loaded, tmpfile) /\ UNCHANGED <<tmpfile, deleted>>
  BY DEF Wc!LoadResult
<1>3. data' \in Seq(Outputs \cup {Null}) /\ Len(data') = Len(Wc!Grown)
  BY <1>1, <1>2
<1>4. loaded' \in Seq(Outputs) /\ Len(loaded') = len + 1 /\ DOMAIN loaded' = 1..len + 1
  BY <1>2
<1>5. Wc!TypeOK'
  BY <1>1, <1>2, <1>3, <1>4 DEF Wc!TypeOK
<1>6. ASSUME NEW i \in 1..len'
      PROVE  data'[i] = IF i \in deleted' THEN Null ELSE loaded'[i]
  <2>1. CASE i = len + 1
    BY <1>1, <1>2, <2>1
  <2>2. CASE i \in 1..len
    <3>1. data[i] = IF i \in deleted THEN Null ELSE loaded[i]
      BY <2>2 DEF WcInv, Wc!HandlesTrue
    <3>2. data'[i] = data[i] /\ loaded'[i] = loaded[i]
      BY <1>1, <1>2, <2>2
    <3> QED
      BY <1>2, <3>1, <3>2
  <2> QED
    BY <1>2, <2>1, <2>2
<1>7. ASSUME NEW i \in len' + 1..Len(data')
      PROVE  data'[i] = Null
  <2>1. i \in len + 1..Len(Wc!Grown) /\ i # len + 1 /\ data'[i] = Wc!Grown[i]
    BY <1>1, <1>2, <1>3
  <2> QED
    BY <1>1, <2>1 DEF WcInv, Wc!HandlesTrue
<1>8. Wc!HandlesTrue'
  BY <1>2, <1>4, <1>6, <1>7 DEF Wc!HandlesTrue
<1> QED
  BY <1>5, <1>8 DEF WcInv

\* Deleting a result, or a handle that stands for none, keeps the invariant.
LEMMA DeleteKeeps ==
  ASSUME WcInv, NEW h \in Int, Wc!DelResult(h)
  PROVE  WcInv'
<1> /\ len \in Nat /\ loaded \in Seq(Outputs) /\ deleted \subseteq DOMAIN loaded
    /\ data \in Seq(Outputs \cup {Null}) /\ DOMAIN data = 1..Len(data) /\ Len(data) \in Nat
    /\ DOMAIN loaded = 1..Len(loaded) /\ len = Len(loaded) /\ len <= Len(data)
  BY DEF WcInv, Wc!TypeOK, Wc!HandlesTrue
<1>1. CASE h \notin 0..len - 1
  <2>1. UNCHANGED Wc!vars
    BY <1>1 DEF Wc!DelResult, Wc!vars
  <2> QED
    BY <2>1 DEF Wc!vars, WcInv, Wc!TypeOK, Wc!HandlesTrue
<1>2. CASE h \in 0..len - 1
  <2>1. /\ data' = [data EXCEPT ![h + 1] = Null] /\ deleted' = deleted \cup {h + 1}
        /\ UNCHANGED <<len, tmpfile, loaded>>
    BY <1>2 DEF Wc!DelResult
  <2>2. h + 1 \in 1..len
    BY <1>2
  <2>3. data' \in Seq(Outputs \cup {Null}) /\ Len(data') = Len(data)
    BY <2>1, <2>2
  <2>4. Wc!TypeOK'
    BY <2>1, <2>2, <2>3 DEF Wc!TypeOK, WcInv
  <2>5. Wc!HandlesTrue'
    BY <2>1, <2>2, <2>3 DEF Wc!HandlesTrue, WcInv
  <2> QED
    BY <2>4, <2>5 DEF WcInv
<1> QED
  BY <1>1, <1>2

LEMMA WcStarts == Wc!Init => WcInv
  BY DEF Wc!Init, WcInv, Wc!TypeOK, Wc!HandlesTrue

LEMMA WcStep ==
  ASSUME WcInv, [Wc!Next]_(Wc!vars)
  PROVE  WcInv'
<1>1. CASE Wc!StatsToTmpfile
  BY <1>1 DEF Wc!StatsToTmpfile, WcInv, Wc!TypeOK, Wc!HandlesTrue
<1>2. CASE Wc!LoadFails
  <2>1. CASE UNCHANGED data
    BY <1>2, <2>1 DEF Wc!LoadFails, WcInv, Wc!TypeOK, Wc!HandlesTrue
  <2>2. CASE data' = Wc!Grown
    BY <1>2, <2>2, GrowingKeeps DEF Wc!LoadFails, WcInv, Wc!TypeOK
  <2> QED
    BY <1>2, <2>1, <2>2 DEF Wc!LoadFails
<1>3. CASE Wc!LoadResult
  BY <1>3, LoadKeeps
<1>4. ASSUME NEW h \in -1..MaxLoads, Wc!DelResult(h) PROVE WcInv'
  BY <1>4, DeleteKeeps, LoadsAssumption
<1>5. CASE Wc!Destroy
  BY <1>5 DEF Wc!Destroy, WcInv, Wc!TypeOK, Wc!HandlesTrue
<1>6. CASE UNCHANGED Wc!vars
  BY <1>6 DEF Wc!vars, WcInv, Wc!TypeOK, Wc!HandlesTrue
<1> QED
  BY <1>1, <1>2, <1>3, <1>4, <1>5, <1>6 DEF Wc!Next

\* The assertion in load_result (libwc.c, line 145) never fails: the slot a
\* new result gets is free.
THEOREM SlotFree == Wc!Spec => []Wc!NextSlotFree
<1>1. WcInv => Wc!NextSlotFree
  <2> SUFFICES ASSUME WcInv PROVE Wc!NextSlotFree
    OBVIOUS
  <2>1. len \in Nat /\ Len(data) \in Nat /\ DOMAIN data = 1..Len(data)
    BY DEF WcInv, Wc!TypeOK
  <2>2. /\ Len(Wc!Grown) \in Nat /\ Len(Wc!Grown) > len
        /\ \A i \in len + 1..Len(Wc!Grown) :
             Wc!Grown[i] = IF i \in DOMAIN data THEN data[i] ELSE Null
    BY GrownTable DEF WcInv
  <2> QED
    BY <2>1, <2>2 DEF Wc!NextSlotFree, WcInv, Wc!HandlesTrue
<1> QED
  BY <1>1, WcStarts, WcStep, PTL DEF Wc!Spec

-----------------------------------------------------------------------------
(***************************************************************************)
(* lab2/zad3: the walk over any tree, with a stack of any size.            *)
(***************************************************************************)
Opened(k) == SubSeq(path, 1, k - 1)
OfKind(k) == {q \in seen : Stats!Sort(q) = k}
NoFailure == stats["fail"] = 0

StatsTypes ==
  /\ status \in {"start", "walk", "done", "failed"}
  /\ stats \in [Stats!Kinds \cup {"fail"} -> Nat]
  /\ left \in Seq(SUBSET Stats!Name) /\ path \in Seq(Stats!Name) /\ Len(left) <= MaxDirs

\* The stack is the path: each open directory was reported, and what it has
\* still to return was not.
StackInv ==
  status = "walk" =>
    /\ Len(left) > 0 /\ Len(path) = Len(left) - 1
    /\ \A k \in 1..Len(left) :
         /\ Opened(k) \in seen /\ Kind[Opened(k)] = "dir"
         /\ \A e \in left[k] : Append(Opened(k), e) \in DOMAIN Kind \ seen

\* What was reported can be reached, and so was everything above it.
SeenInv ==
  /\ IsFiniteSet(seen) /\ seen \subseteq Stats!Reachable
  /\ \A q \in Seq(Stats!Name), e \in Stats!Name : Append(q, e) \in seen => q \in seen
  /\ \A k \in Stats!Kinds : stats[k] = Cardinality(OfKind(k))

\* Without a failure, what is missing of a directory is still to come.
ComesYet ==
  NoFailure =>
    /\ status \in {"walk", "done"} => <<>> \in seen
    /\ status \in {"walk", "done"} =>
         \A q \in seen : Kind[q] = "dir" =>
           \A e \in Stats!EntriesOf(q) :
             \/ Append(q, e) \in seen
             \/ status = "walk" /\ \E k \in 1..Len(left) : q = Opened(k) /\ e \in left[k]

StatsInv ==
  /\ StatsTypes /\ StackInv /\ SeenInv /\ ComesYet
  /\ status = "start" => left = <<>> /\ path = <<>> /\ seen = {} /\ stats = [k \in Stats!Kinds \cup {"fail"} |-> 0]

-----------------------------------------------------------------------------

\* A path with one more name.
LEMMA LongerPath ==
  ASSUME NEW N, NEW q \in Seq(N), NEW e \in N
  PROVE  /\ Append(q, e) \in Seq(N) /\ Len(Append(q, e)) = Len(q) + 1 /\ Len(q) \in Nat
         /\ SubSeq(q, 1, Len(q)) = q
         /\ \A k \in 0..Len(q) : SubSeq(Append(q, e), 1, k) = SubSeq(q, 1, k)
<1>1. /\ Len(q) \in Nat /\ Append(q, e) \in Seq(N) /\ Len(Append(q, e)) = Len(q) + 1
      /\ \A i \in 1..Len(q) : Append(q, e)[i] = q[i] /\ q[i] \in N
  BY LenProperties, AppendProperties, ElementOfSeq
<1>2. ASSUME NEW k \in 0..Len(q) PROVE SubSeq(Append(q, e), 1, k) = SubSeq(q, 1, k)
  <2>1. PICK r : r = Append(q, e)
    OBVIOUS
  <2>2. k \in Int /\ 1 \in Int /\ k - 1 + 1 = k /\ \A i \in 1..k : r[i] = q[i] /\ r[i] \in N /\ 1 + i - 1 = i
    BY <1>1, <2>1
  <2>3. /\ SubSeq(r, 1, k) \in Seq(N) /\ Len(SubSeq(r, 1, k)) = (IF 1 <= k THEN k - 1 + 1 ELSE 0)
        /\ \A i \in 1..k - 1 + 1 : SubSeq(r, 1, k)[i] = r[1 + i - 1]
    BY <2>2, SubSeqProperties
  <2>4. /\ SubSeq(q, 1, k) \in Seq(N) /\ Len(SubSeq(q, 1, k)) = (IF 1 <= k THEN k - 1 + 1 ELSE 0)
        /\ \A i \in 1..k - 1 + 1 : SubSeq(q, 1, k)[i] = q[1 + i - 1]
    BY <2>2, SubSeqProperties
  <2>5. Len(SubSeq(r, 1, k)) = k
    BY <2>3, <1>1
  <2>6. \A i \in 1..Len(SubSeq(r, 1, k)) : SubSeq(r, 1, k)[i] = SubSeq(q, 1, k)[i]
    BY <2>2, <2>3, <2>4, <2>5
  <2>7. SubSeq(r, 1, k) = SubSeq(q, 1, k)
    BY <2>3, <2>4, <2>6, SeqEqual
  <2> QED
    BY <2>1, <2>7
<1> QED
  BY <1>1, <1>2, SubSeqFull

\* The path of a directory above another.
LEMMA ShorterPath ==
  ASSUME NEW N, NEW q \in Seq(N), NEW m \in 1..Len(q)
  PROVE  /\ SubSeq(q, 1, m - 1) \in Seq(N) /\ q[m] \in N /\ Len(SubSeq(q, 1, m - 1)) = m - 1
         /\ SubSeq(q, 1, m) = Append(SubSeq(q, 1, m - 1), q[m])
         /\ \A k \in 0..m - 1 : SubSeq(SubSeq(q, 1, m - 1), 1, k) = SubSeq(q, 1, k)
<1>1. Len(q) \in Nat /\ \A i \in 1..Len(q) : q[i] \in N
  BY LenProperties, ElementOfSeq
<1> DEFINE r == SubSeq(q, 1, m - 1)
<1>2. m - 1 \in Int /\ 1 \in Int /\ m - 1 - 1 + 1 = m - 1 /\ \A i \in 1..m - 1 : q[i] \in N /\ 1 + i - 1 = i
  BY <1>1
<1>3. r \in Seq(N) /\ Len(r) = (IF 1 <= m - 1 THEN m - 1 - 1 + 1 ELSE 0)
      /\ \A i \in 1..m - 1 - 1 + 1 : r[i] = q[1 + i - 1]
  BY <1>2, SubSeqProperties
<1>4. Len(r) = m - 1 /\ \A i \in 1..m - 1 : r[i] = q[i]
  BY <1>1, <1>2, <1>3
<1>5. q[m] \in N
  BY <1>1
<1> HIDE DEF r
<1>6. Append(r, q[m]) = SubSeq(q, 1, m)
  <2>1. /\ Append(r, q[m]) \in Seq(N) /\ Len(Append(r, q[m])) = m
        /\ \A i \in 1..m - 1 : Append(r, q[m])[i] = r[i]
        /\ Append(r, q[m])[m] = q[m]
    BY <1>1, <1>3, <1>4, <1>5, AppendProperties
  <2>2. m \in Int /\ m - 1 + 1 = m /\ \A i \in 1..m : q[i] \in N /\ 1 + i - 1 = i
    BY <1>1
  <2>3. /\ SubSeq(q, 1, m) \in Seq(N) /\ Len(SubSeq(q, 1, m)) = (IF 1 <= m THEN m - 1 + 1 ELSE 0)
        /\ \A i \in 1..m - 1 + 1 : SubSeq(q, 1, m)[i] = q[1 + i - 1]
    BY <2>2, SubSeqProperties
  <2>4. Len(SubSeq(q, 1, m)) = m
    BY <1>1, <2>3
  <2>5. \A i \in 1..m : Append(r, q[m])[i] = SubSeq(q, 1, m)[i]
    BY <1>1, <1>4, <2>1, <2>2, <2>3
  <2> QED
    BY <2>1, <2>3, <2>4, <2>5, SeqEqual
<1>7. \A k \in 0..m - 1 : SubSeq(r, 1, k) = SubSeq(q, 1, k)
  <2> TAKE k \in 0..m - 1
  <2>2. k \in Int /\ 1 \in Int /\ k - 1 + 1 = k
        /\ \A i \in 1..k : r[i] = q[i] /\ r[i] \in N /\ q[i] \in N /\ 1 + i - 1 = i
    BY <1>1, <1>4
  <2>3. /\ SubSeq(r, 1, k) \in Seq(N) /\ Len(SubSeq(r, 1, k)) = (IF 1 <= k THEN k - 1 + 1 ELSE 0)
        /\ \A i \in 1..k - 1 + 1 : SubSeq(r, 1, k)[i] = r[1 + i - 1]
    BY <2>2, SubSeqProperties
  <2>4. /\ SubSeq(q, 1, k) \in Seq(N) /\ Len(SubSeq(q, 1, k)) = (IF 1 <= k THEN k - 1 + 1 ELSE 0)
        /\ \A i \in 1..k - 1 + 1 : SubSeq(q, 1, k)[i] = q[1 + i - 1]
    BY <2>2, SubSeqProperties
  <2>5. Len(SubSeq(r, 1, k)) = k
    BY <1>1, <2>3
  <2>6. \A i \in 1..Len(SubSeq(r, 1, k)) : SubSeq(r, 1, k)[i] = SubSeq(q, 1, k)[i]
    BY <2>2, <2>3, <2>4, <2>5
  <2> QED
    BY <2>3, <2>4, <2>6, SeqEqual
<1> QED
  BY <1>3, <1>4, <1>5, <1>6, <1>7 DEF r

\* A reachable directory makes its entries reachable.
LEMMA EntryReachable ==
  ASSUME NEW q \in Stats!Reachable, Kind[q] = "dir", NEW e \in Stats!Name, Append(q, e) \in DOMAIN Kind
  PROVE  Append(q, e) \in Stats!Reachable
<1>1. q \in Seq(Stats!Name) /\ \A k \in 0..Len(q) - 1 : Kind[SubSeq(q, 1, k)] = "dir"
  BY KindAssumption DEF Stats!Reachable
<1>2. /\ Len(Append(q, e)) = Len(q) + 1 /\ Len(q) \in Nat /\ SubSeq(q, 1, Len(q)) = q
      /\ \A k \in 0..Len(q) : SubSeq(Append(q, e), 1, k) = SubSeq(q, 1, k)
  BY <1>1, LongerPath
<1>3. ASSUME NEW k \in 0..Len(Append(q, e)) - 1 PROVE Kind[SubSeq(Append(q, e), 1, k)] = "dir"
  <2>1. PICK n \in Nat : n = Len(q)
    BY <1>2
  <2>5. Len(Append(q, e)) = n + 1
    BY <1>2, <2>1
  <2>2. k \in 0..n /\ (k \in 0..n - 1 \/ k = n)
    <3>1. k \in 0..(n + 1) - 1
      BY SMTT(60), <2>5
    <3> QED
      BY <3>1
  <2>3. SubSeq(Append(q, e), 1, k) = SubSeq(q, 1, k)
    BY <1>2, <2>1, <2>2
  <2>4. Kind[SubSeq(q, 1, k)] = "dir"
    <3>1. CASE k = n
      BY <1>2, <2>1, <3>1
    <3>2. CASE k \in 0..n - 1
      BY <1>1, <2>1, <3>2
    <3> QED
      BY <2>2, <3>1, <3>2
  <2> QED
    BY <2>3, <2>4
<1> QED
  BY <1>3 DEF Stats!Reachable

\* Who has the root, and with every directory its entries, has everything.
LEMMA AllReachable ==
  ASSUME NEW X, <<>> \in X, \A q \in X : Kind[q] = "dir" => \A e \in Stats!EntriesOf(q) : Append(q, e) \in X
  PROVE  Stats!Reachable \subseteq X
<1> SUFFICES ASSUME NEW q \in Stats!Reachable PROVE q \in X
  OBVIOUS
<1>1. /\ q \in DOMAIN Kind /\ q \in Seq(Stats!Name) /\ \A k \in 0..Len(q) - 1 : Kind[SubSeq(q, 1, k)] = "dir"
      /\ \A k \in 0..Len(q) - 1 : SubSeq(q, 1, k) \in DOMAIN Kind
  BY KindAssumption DEF Stats!Reachable
<1>2. Len(q) \in Nat /\ SubSeq(q, 1, Len(q)) = q /\ SubSeq(q, 1, 0) = <<>>
  BY <1>1, LenProperties, SubSeqFull, SubSeqEmpty
<1> DEFINE Wrong == {k \in 0..Len(q) : SubSeq(q, 1, k) \notin X}
<1>3. Wrong = {}
  <2> SUFFICES ASSUME Wrong # {} PROVE FALSE
    OBVIOUS
  <2>1. PICK m \in Wrong : \A l \in Wrong : m <= l
    <3>1. Wrong \subseteq Nat
      BY <1>2
    <3> HIDE DEF Wrong
    <3> QED
      BY <3>1, Least
  <2>2. m \in 0..Len(q) /\ SubSeq(q, 1, m) \notin X
    OBVIOUS
  <2>3. m # 0
    BY <1>2, <2>2
  <2>4. m \in 1..Len(q) /\ m - 1 \in 0..Len(q) - 1 /\ m - 1 \in 0..Len(q) /\ ~(m <= m - 1)
    BY <1>2, <2>2, <2>3
  <2>5. SubSeq(q, 1, m - 1) \in X
    BY <2>1, <2>4
  <2> HIDE DEF Wrong
  <2>6. q[m] \in Stats!Name /\ SubSeq(q, 1, m) = Append(SubSeq(q, 1, m - 1), q[m])
    BY <1>1, <2>4, ShorterPath
  <2>7. SubSeq(q, 1, m) \in DOMAIN Kind
    <3>0. PICK n \in Nat : n = Len(q)
      BY <1>2
    <3>1. m = Len(q) \/ m \in 0..Len(q) - 1
      BY <2>2, <3>0
    <3> QED
      BY <1>1, <1>2, <3>1
  <2>8. q[m] \in Stats!EntriesOf(SubSeq(q, 1, m - 1))
    BY <2>6, <2>7 DEF Stats!EntriesOf
  <2> QED
    BY <1>1, <2>2, <2>4, <2>5, <2>6, <2>8
<1>4. Len(q) \in 0..Len(q)
  <2>1. PICK n \in Nat : n = Len(q)
    BY <1>2
  <2> QED
    BY <2>1
<1> QED
  BY <1>2, <1>3, <1>4

-----------------------------------------------------------------------------
LEMMA SameCardinality == \A S : Stats!Cardinality(S) = Cardinality(S)
  BY Zenon DEF Stats!Cardinality, Cardinality

\* What is reported for the first time is counted once.
LEMMA ReportKeeps ==
  ASSUME StatsTypes, SeenInv, NEW q \in Stats!Reachable, q \notin seen,
         \A r \in Seq(Stats!Name), e \in Stats!Name : q = Append(r, e) => r \in seen,
         seen' = seen \cup {q},
         \A k \in Stats!Kinds : stats'[k] = IF k = Stats!Sort(q) THEN stats[k] + 1 ELSE stats[k]
  PROVE  SeenInv'
<1>1. IsFiniteSet(seen') /\ seen' \subseteq Stats!Reachable
  BY FS_AddElement DEF SeenInv
<1>2. \A r \in Seq(Stats!Name), e \in Stats!Name : Append(r, e) \in seen' => r \in seen'
  BY DEF SeenInv
<1>3. ASSUME NEW k \in Stats!Kinds PROVE stats'[k] = Cardinality({r \in seen' : Stats!Sort(r) = k})
  <2>1. stats[k] = Cardinality(OfKind(k)) /\ IsFiniteSet(OfKind(k))
    <3>1. OfKind(k) \in SUBSET seen
      BY DEF OfKind
    <3> QED
      BY <3>1, FS_Subset DEF SeenInv
  <2>2. CASE k = Stats!Sort(q)
    <3>1. {r \in seen' : Stats!Sort(r) = k} = OfKind(k) \cup {q} /\ q \notin OfKind(k)
      BY <2>2 DEF OfKind
    <3> QED
      BY ZenonT(60), <2>1, <2>2, <3>1, FS_AddElement
  <2>3. CASE k # Stats!Sort(q)
    <3>1. {r \in seen' : Stats!Sort(r) = k} = OfKind(k)
      BY <2>3 DEF OfKind
    <3> QED
      BY <2>1, <2>3, <3>1
  <2> QED
    BY <2>2, <2>3
<1> QED
  BY <1>1, <1>2, <1>3 DEF SeenInv, OfKind

\* The open directory, and one of the entries it has still to return.
LEMMA TopEntry ==
  ASSUME StatsInv, status = "walk", NEW e \in Stats!Last(left)
  PROVE  /\ e \in Stats!Name /\ path \in seen /\ Kind[path] = "dir"
         /\ Append(path, e) \in Stats!Reachable /\ Append(path, e) \notin seen
         /\ Append(path, e) \in Seq(Stats!Name)
         /\ Stats!Sort(Append(path, e)) \in Stats!Kinds
         /\ \A r \in Seq(Stats!Name), f \in Stats!Name : Append(path, e) = Append(r, f) => r \in seen
<1>1. /\ left \in Seq(SUBSET Stats!Name) /\ Len(left) \in Nat /\ Len(left) > 0 /\ Len(path) = Len(left) - 1
      /\ path \in Seq(Stats!Name) /\ Len(path) \in Nat
  BY LenProperties DEF StatsInv, StatsTypes, StackInv
<1>2. Len(left) \in 1..Len(left) /\ Stats!Last(left) = left[Len(left)] /\ left[Len(left)] \subseteq Stats!Name
  <2>1. Len(left) \in 1..Len(left)
    BY <1>1
  <2> QED
    BY <1>1, <2>1, ElementOfSeq DEF Stats!Last
<1>3. Opened(Len(left)) = path
  BY <1>1, SubSeqFull DEF Opened
<1>4. /\ e \in Stats!Name /\ path \in seen /\ Kind[path] = "dir"
      /\ Append(path, e) \in DOMAIN Kind /\ Append(path, e) \notin seen
  BY <1>2, <1>3 DEF StatsInv, StackInv
<1>5. Append(path, e) \in Stats!Reachable
  BY <1>4, EntryReachable DEF StatsInv, SeenInv
<1>6. Append(path, e) \in Seq(Stats!Name)
  BY <1>1, <1>4, AppendProperties
<1>7. Stats!Sort(Append(path, e)) \in Stats!Kinds
  BY <1>4, KindAssumption DEF Stats!Sort, Stats!Kinds
<1>8. \A r \in Seq(Stats!Name), f \in Stats!Name : Append(path, e) = Append(r, f) => r \in seen
  BY <1>1, <1>4, AppendInjective
<1> QED
  BY <1>4, <1>5, <1>6, <1>7, <1>8

\* The stack after an entry of the open directory was returned.
LEMMA TakeIs ==
  ASSUME StatsInv, status = "walk", NEW e
  PROVE  /\ Stats!Take(e) \in Seq(SUBSET Stats!Name) /\ Len(Stats!Take(e)) = Len(left)
         /\ Len(left) \in Nat \ {0} /\ Stats!Last(left) = left[Len(left)]
         /\ Stats!Take(e)[Len(left)] = Stats!Last(left) \ {e}
         /\ \A k \in 1..Len(left) : k # Len(left) => Stats!Take(e)[k] = left[k]
<1>1. left \in Seq(SUBSET Stats!Name) /\ Len(left) \in Nat \ {0} /\ Len(left) \in 1..Len(left)
  <2>1. left \in Seq(SUBSET Stats!Name) /\ Len(left) \in Nat /\ Len(left) > 0
    BY LenProperties DEF StatsInv, StatsTypes, StackInv
  <2> QED
    BY <2>1
<1>2. PICK x \in SUBSET Stats!Name : x = left[Len(left)] \ {e}
  <2>1. left[Len(left)] \in SUBSET Stats!Name
    BY <1>1, ElementOfSeq
  <2> QED
    BY <2>1
<1>3. Stats!Take(e) = [left EXCEPT ![Len(left)] = x]
  BY <1>2 DEF Stats!Take
<1> QED
  BY <1>1, <1>2, <1>3, ExceptSeq DEF Stats!Last

\* The directories that are open are those on the path.
LEMMA OpenedAre ==
  ASSUME StatsInv, status = "walk"
  PROVE  /\ Len(left) \in Nat \ {0} /\ Len(path) = Len(left) - 1 /\ path \in Seq(Stats!Name)
         /\ Opened(Len(left)) = path
         /\ \A k \in 1..Len(left) : Opened(k) \in Seq(Stats!Name) /\ Len(Opened(k)) = k - 1 /\ left[k] \subseteq Stats!Name
<1>1. /\ left \in Seq(SUBSET Stats!Name) /\ Len(left) \in Nat \ {0} /\ Len(path) = Len(left) - 1
      /\ path \in Seq(Stats!Name) /\ Len(path) \in Nat
  <2>1. left \in Seq(SUBSET Stats!Name) /\ Len(left) \in Nat /\ Len(left) > 0 /\ Len(path) = Len(left) - 1
    BY LenProperties DEF StatsInv, StatsTypes, StackInv
  <2> QED
    BY <2>1 DEF StatsInv, StatsTypes
<1>2. Opened(Len(left)) = path
  BY <1>1, SubSeqFull DEF Opened
<1>3. ASSUME NEW k \in 1..Len(left) PROVE Opened(k) \in Seq(Stats!Name) /\ Len(Opened(k)) = k - 1
  <2>1. CASE k = Len(left)
    BY <1>1, <1>2, <2>1
  <2>2. CASE k # Len(left)
    <3>1. k \in 1..Len(path)
      BY <1>1, <2>2
    <3> QED
      BY <1>1, <3>1, ShorterPath DEF Opened
  <2> QED
    BY <2>1, <2>2
<1>4. \A k \in 1..Len(left) : left[k] \in SUBSET Stats!Name
  BY <1>1, ElementOfSeq
<1> QED
  BY <1>1, <1>2, <1>3, <1>4

LEMMA StayKeeps ==
  ASSUME StatsInv, status = "walk", NEW e \in Stats!Last(left), Stats!Stay(e),
         seen \subseteq seen', seen' \subseteq seen \cup {Append(path, e)}, SeenInv',
         stats' \in [Stats!Kinds \cup {"fail"} -> Nat],
         NoFailure' => NoFailure /\ Append(path, e) \in seen' /\ Kind[Append(path, e)] # "dir"
  PROVE  StatsInv'
<1>1. left' = Stats!Take(e) /\ path' = path /\ status' = status
  BY DEF Stats!Stay
<1>2. /\ left' \in Seq(SUBSET Stats!Name) /\ Len(left') = Len(left)
      /\ left'[Len(left)] = left[Len(left)] \ {e} /\ e \in left[Len(left)]
      /\ \A k \in 1..Len(left) : k # Len(left) => left'[k] = left[k]
  BY <1>1, TakeIs
<1>3. StatsTypes'
  BY <1>1, <1>2 DEF StatsInv, StatsTypes
<1>4. \A k : Opened(k)' = Opened(k)
  BY <1>1 DEF Opened
<1>5. StackInv'
  <2>1. Len(left') > 0 /\ Len(path') = Len(left') - 1
    BY <1>1, <1>2 DEF StatsInv, StackInv
  <2>2. ASSUME NEW k \in 1..Len(left)
        PROVE  /\ Opened(k) \in seen' /\ Kind[Opened(k)] = "dir"
               /\ \A f \in left'[k] : Append(Opened(k), f) \in DOMAIN Kind \ seen'
    <3>1. /\ Opened(k) \in seen /\ Kind[Opened(k)] = "dir"
          /\ \A f \in left[k] : Append(Opened(k), f) \in DOMAIN Kind \ seen
      BY DEF StatsInv, StackInv
    <3>2. ASSUME NEW f \in left'[k] PROVE Append(Opened(k), f) # Append(path, e)
      <4>1. e \in Stats!Name /\ path \in Seq(Stats!Name)
        BY TopEntry, OpenedAre
      <4>2. Opened(k) \in Seq(Stats!Name) /\ Len(Opened(k)) = k - 1 /\ Len(path) = Len(left) - 1 /\ Len(left) \in Nat
        BY OpenedAre
      <4>3. f \in Stats!Name
        BY <1>2, OpenedAre
      <4>4. CASE k = Len(left)
        BY <1>2, <4>1, <4>2, <4>3, <4>4, AppendInjective
      <4>5. CASE k # Len(left)
        <5>1. Opened(k) # path
          BY <4>2, <4>5
        <5> QED
          BY <4>1, <4>2, <4>3, <5>1, AppendInjective
      <4> QED
        BY <4>4, <4>5
    <3>3. left'[k] \subseteq left[k]
      BY <1>2
    <3> QED
      BY <3>1, <3>2, <3>3
  <2> QED
    BY <1>2, <1>4, <2>1, <2>2 DEF StackInv
<1>6. ComesYet'
  <2> SUFFICES ASSUME NoFailure'
               PROVE  /\ <<>> \in seen'
                      /\ \A q \in seen' : Kind[q] = "dir" =>
                           \A f \in Stats!EntriesOf(q) :
                             \/ Append(q, f) \in seen'
                             \/ \E k \in 1..Len(left') : q = Opened(k)' /\ f \in left'[k]
    BY <1>1 DEF ComesYet
  <2>1. <<>> \in seen
    BY DEF StatsInv, ComesYet
  <2>2. ASSUME NEW q \in seen', Kind[q] = "dir", NEW f \in Stats!EntriesOf(q), Append(q, f) \notin seen'
        PROVE  \E k \in 1..Len(left') : q = Opened(k)' /\ f \in left'[k]
    <3>1. q \in seen /\ Append(q, f) \notin seen
      BY <2>2
    <3>2. PICK k \in 1..Len(left) : q = Opened(k) /\ f \in left[k]
      BY <2>2, <3>1 DEF StatsInv, ComesYet
    <3>3. ~(k = Len(left) /\ f = e)
      BY <2>2, <3>2, OpenedAre
    <3>4. f \in left'[k]
      BY <1>2, <3>2, <3>3
    <3> QED
      BY <1>2, <1>4, <3>2, <3>4
  <2> QED
    BY <2>1, <2>2
<1> QED
  BY <1>1, <1>3, <1>5, <1>6 DEF StatsInv

LEMMA AscendKeeps ==
  ASSUME StatsInv, status = "walk", Stats!Ascend, seen' = seen,
         stats' \in [Stats!Kinds \cup {"fail"} -> Nat],
         \A k \in Stats!Kinds : stats'[k] = stats[k],
         NoFailure' => NoFailure /\ Stats!Last(left) = {}
  PROVE  StatsInv'
<1>1. /\ Len(left) \in Nat \ {0} /\ Len(path) = Len(left) - 1 /\ path \in Seq(Stats!Name)
      /\ left \in Seq(SUBSET Stats!Name)
  BY OpenedAre DEF StatsInv, StatsTypes
<1>2. SeenInv'
  BY DEF StatsInv, SeenInv, OfKind
<1>3. ASSUME NoFailure'
      PROVE  /\ NoFailure /\ <<>> \in seen
             /\ \A q \in seen : Kind[q] = "dir" =>
                  \A e \in Stats!EntriesOf(q) :
                    \/ Append(q, e) \in seen
                    \/ \E k \in 1..Len(left) - 1 : q = Opened(k) /\ e \in left[k]
  <2>1. NoFailure /\ left[Len(left)] = {}
    BY <1>3 DEF Stats!Last
  <2>2. ASSUME NEW q \in seen, Kind[q] = "dir", NEW e \in Stats!EntriesOf(q), Append(q, e) \notin seen
        PROVE  \E k \in 1..Len(left) - 1 : q = Opened(k) /\ e \in left[k]
    <3>1. PICK k \in 1..Len(left) : q = Opened(k) /\ e \in left[k]
      BY <2>1, <2>2 DEF StatsInv, ComesYet
    <3>2. k # Len(left)
      BY <2>1, <3>1
    <3> QED
      BY <1>1, <3>1, <3>2
  <2> QED
    BY <2>1, <2>2 DEF StatsInv, ComesYet
<1>4. CASE Len(left) = 1
  <2>1. status' = "done" /\ left' = left /\ path' = path
    BY <1>4 DEF Stats!Ascend
  <2>2. StatsTypes' /\ StackInv'
    BY <2>1 DEF StatsInv, StatsTypes, StackInv
  <2>3. ComesYet'
    <3>1. \A k \in 1..Len(left) - 1 : FALSE
      BY <1>4
    <3> QED
      BY <1>3, <2>1, <3>1 DEF ComesYet
  <2> QED
    BY <1>2, <2>1, <2>2, <2>3 DEF StatsInv
<1>5. CASE Len(left) # 1
  <2>1. left' = Stats!Front(left) /\ path' = Stats!Front(path) /\ status' = status
    BY <1>5 DEF Stats!Ascend
  <2>2. /\ left' \in Seq(SUBSET Stats!Name) /\ Len(left') = Len(left) - 1
        /\ \A k \in 1..Len(left) - 1 : left'[k] = left[k]
    <3>1. /\ Len(left) - 1 \in Int /\ 1 \in Int /\ 1 <= Len(left) - 1 /\ Len(left) - 1 - 1 + 1 = Len(left) - 1
          /\ \A i \in 1..Len(left) - 1 : i \in 1..Len(left) /\ 1 + i - 1 = i
      BY <1>1, <1>5
    <3>2. \A i \in 1..Len(left) - 1 : left[i] \in SUBSET Stats!Name
      BY <1>1, <3>1, ElementOfSeq
    <3>3. left' = SubSeq(left, 1, Len(left) - 1)
      BY <2>1 DEF Stats!Front
    <3>4. /\ SubSeq(left, 1, Len(left) - 1) \in Seq(SUBSET Stats!Name)
          /\ Len(SubSeq(left, 1, Len(left) - 1)) = (IF 1 <= Len(left) - 1 THEN Len(left) - 1 - 1 + 1 ELSE 0)
          /\ \A i \in 1..Len(left) - 1 - 1 + 1 : SubSeq(left, 1, Len(left) - 1)[i] = left[1 + i - 1]
      BY <3>1, <3>2, SubSeqProperties
    <3> QED
      BY <3>1, <3>3, <3>4
  <2>3. /\ path' \in Seq(Stats!Name) /\ Len(path') = Len(left) - 1 - 1
        /\ \A k \in 0..Len(left) - 1 - 1 : SubSeq(path', 1, k) = SubSeq(path, 1, k)
    <3>1. Len(path) \in 1..Len(path)
      BY <1>1, <1>5
    <3>2. path' = SubSeq(path, 1, Len(path) - 1)
      BY <2>1 DEF Stats!Front
    <3> QED
      BY <1>1, <3>1, <3>2, ShorterPath
  <2>4. \A k \in 1..Len(left) - 1 : Opened(k)' = Opened(k)
    <3>1. \A k \in 1..Len(left) - 1 : k - 1 \in 0..Len(left) - 1 - 1
      BY <1>1
    <3> QED
      BY <2>3, <3>1 DEF Opened
  <2>5. StatsTypes'
    <3>1. Len(left') <= MaxDirs
      BY <1>1, <2>2, KindAssumption DEF StatsInv, StatsTypes
    <3> QED
      BY <2>1, <2>2, <2>3, <3>1 DEF StatsInv, StatsTypes
  <2>6. StackInv'
    <3>1. Len(left') > 0 /\ Len(path') = Len(left') - 1
      BY <1>1, <1>5, <2>2, <2>3
    <3>2. \A k \in 1..Len(left') : k \in 1..Len(left) - 1 /\ k \in 1..Len(left)
      BY <1>1, <2>2
    <3>3. \A k \in 1..Len(left') :
            /\ Opened(k)' \in seen' /\ Kind[Opened(k)'] = "dir"
            /\ \A e \in left'[k] : Append(Opened(k)', e) \in DOMAIN Kind \ seen'
      BY <2>2, <2>4, <3>2 DEF StatsInv, StackInv
    <3> QED
      BY <3>1, <3>3 DEF StackInv
  <2>7. ComesYet'
    BY <1>3, <2>1, <2>2, <2>4 DEF ComesYet
  <2> QED
    BY <1>2, <2>1, <2>5, <2>6, <2>7 DEF StatsInv
<1> QED
  BY <1>4, <1>5

LEMMA PushKeeps ==
  ASSUME StatsInv, status = "walk", NEW e \in Stats!Last(left), Kind[Append(path, e)] = "dir",
         Len(left) < MaxDirs, status' = status, path' = Append(path, e),
         left' = Append(Stats!Take(e), Stats!EntriesOf(Append(path, e))),
         seen' = seen \cup {Append(path, e)}, SeenInv',
         stats' \in [Stats!Kinds \cup {"fail"} -> Nat], stats'["fail"] = stats["fail"]
  PROVE  StatsInv'
<1> DEFINE q == Append(path, e)
<1>1. /\ Len(left) \in Nat \ {0} /\ Len(path) = Len(left) - 1 /\ path \in Seq(Stats!Name)
      /\ Opened(Len(left)) = path
      /\ \A k \in 1..Len(left) : Opened(k) \in Seq(Stats!Name) /\ Len(Opened(k)) = k - 1 /\ left[k] \subseteq Stats!Name
  BY OpenedAre
<1>2. /\ e \in Stats!Name /\ q \notin seen /\ q \in Seq(Stats!Name) /\ Len(q) = Len(left)
      /\ \A k \in 0..Len(path) : SubSeq(q, 1, k) = SubSeq(path, 1, k)
      /\ SubSeq(q, 1, Len(q)) = q
  <2>1. e \in Stats!Name /\ q \notin seen
    BY TopEntry
  <2>2. q \in Seq(Stats!Name) /\ Len(q) = Len(path) + 1
        /\ \A k \in 0..Len(path) : SubSeq(q, 1, k) = SubSeq(path, 1, k)
    BY <1>1, <2>1, LongerPath
  <2> HIDE DEF q
  <2>3. Len(q) = Len(left)
    BY <1>1, <2>2
  <2> QED
    BY <2>1, <2>2, <2>3, SubSeqFull
<1>3. Stats!EntriesOf(q) \in SUBSET Stats!Name
  BY DEF Stats!EntriesOf
<1>4. /\ left' \in Seq(SUBSET Stats!Name) /\ Len(left') = Len(left) + 1
      /\ left'[Len(left) + 1] = Stats!EntriesOf(q)
      /\ left'[Len(left)] = left[Len(left)] \ {e} /\ e \in left[Len(left)]
      /\ \A k \in 1..Len(left) : k # Len(left) => left'[k] = left[k]
  <2> DEFINE t == Stats!Take(e)
  <2>1. /\ t \in Seq(SUBSET Stats!Name) /\ Len(t) = Len(left) /\ e \in left[Len(left)]
        /\ t[Len(left)] = left[Len(left)] \ {e}
        /\ \A k \in 1..Len(left) : k # Len(left) => t[k] = left[k]
    BY TakeIs
  <2>2. left' = Append(t, Stats!EntriesOf(q))
    OBVIOUS
  <2> HIDE DEF t, q
  <2>3. /\ left' \in Seq(SUBSET Stats!Name) /\ Len(left') = Len(t) + 1
        /\ \A i \in 1..Len(t) : left'[i] = t[i]
        /\ left'[Len(t) + 1] = Stats!EntriesOf(q)
    BY <1>3, <2>1, <2>2, AppendProperties
  <2>4. Len(left) \in 1..Len(left)
    BY <1>1
  <2> QED
    BY <2>1, <2>3, <2>4
<1>5. path' = q /\ seen' = seen \cup {q}
  OBVIOUS
<1>6. \A k \in 1..Len(left) : Opened(k)' = Opened(k)
  <2>1. \A k \in 1..Len(left) : k - 1 \in 0..Len(path)
    BY <1>1
  <2> HIDE DEF q
  <2> QED
    BY <1>2, <1>5, <2>1 DEF Opened
<1>7. ASSUME NEW k, k = Len(left) + 1 PROVE Opened(k)' = q
  <2> HIDE DEF q
  <2>1. Opened(k)' = SubSeq(q, 1, k - 1)
    BY <1>5 DEF Opened
  <2>2. k - 1 = Len(q)
    BY <1>1, <1>2, <1>7
  <2> QED
    BY <1>2, <2>1, <2>2
<1>8. StatsTypes'
  <2>1. Len(left') <= MaxDirs
    BY <1>1, <1>4, KindAssumption
  <2> QED
    BY <1>2, <1>4, <1>5, <2>1 DEF StatsInv, StatsTypes
<1>9. \A k \in 1..Len(left') : k \in 1..Len(left) \/ k = Len(left) + 1
  BY <1>1, <1>4
<1>10. StackInv'
  <2>1. Len(left') > 0 /\ Len(path') = Len(left') - 1
    BY <1>1, <1>2, <1>4, <1>5
  <2>2. ASSUME NEW k \in 1..Len(left)
        PROVE  /\ Opened(k) \in seen' /\ Kind[Opened(k)] = "dir"
               /\ \A f \in left'[k] : Append(Opened(k), f) \in DOMAIN Kind \ seen'
    <3>1. /\ Opened(k) \in seen /\ Kind[Opened(k)] = "dir"
          /\ \A f \in left[k] : Append(Opened(k), f) \in DOMAIN Kind \ seen
      BY DEF StatsInv, StackInv
    <3>2. ASSUME NEW f \in left'[k] PROVE Append(Opened(k), f) # Append(path, e)
      <4>1. f \in Stats!Name /\ (k = Len(left) => f # e)
        BY <1>1, <1>4
      <4>2. CASE k = Len(left)
        BY <1>1, <1>2, <4>1, <4>2, AppendInjective
      <4>3. CASE k # Len(left)
        <5>1. Opened(k) # path
          BY <1>1, <4>3
        <5> QED
          BY <1>1, <1>2, <4>1, <5>1, AppendInjective
      <4> QED
        BY <4>2, <4>3
    <3>3. left'[k] \subseteq left[k]
      BY <1>4
    <3> QED
      BY <3>1, <3>2, <3>3
  <2>3. ASSUME NEW f \in Stats!EntriesOf(q)
        PROVE  Append(q, f) \in DOMAIN Kind \ seen'
    <3>1. f \in Stats!Name /\ Append(q, f) \in DOMAIN Kind
      BY DEF Stats!EntriesOf
    <3> HIDE DEF q
    <3>2. Append(q, f) \notin seen
      BY <1>2, <3>1 DEF StatsInv, SeenInv
    <3>3. Append(q, f) # q
      <4>1. Len(Append(q, f)) = Len(q) + 1 /\ Len(q) \in Nat
        BY <1>2, <3>1, LongerPath
      <4> QED
        BY <4>1
    <3> QED
      BY <1>5, <3>1, <3>2, <3>3
  <2>4. q \in seen' /\ Kind[q] = "dir"
    OBVIOUS
  <2> HIDE DEF q
  <2>5. \A k \in 1..Len(left') :
          /\ Opened(k)' \in seen' /\ Kind[Opened(k)'] = "dir"
          /\ \A f \in left'[k] : Append(Opened(k)', f) \in DOMAIN Kind \ seen'
    <3> TAKE k \in 1..Len(left')
    <3>1. CASE k \in 1..Len(left)
      BY <1>6, <2>2, <3>1
    <3>2. CASE k = Len(left) + 1
      <4>1. Opened(k)' = q
        BY <1>7, <3>2
      <4> QED
        BY <1>4, <2>3, <2>4, <3>2, <4>1
    <3> QED
      BY <1>9, <3>1, <3>2
  <2> QED
    BY <2>1, <2>5 DEF StackInv
<1>11. ComesYet'
  <2> SUFFICES ASSUME NoFailure'
               PROVE  /\ <<>> \in seen'
                      /\ \A r \in seen' : Kind[r] = "dir" =>
                           \A f \in Stats!EntriesOf(r) :
                             \/ Append(r, f) \in seen'
                             \/ \E k \in 1..Len(left') : r = Opened(k)' /\ f \in left'[k]
    BY DEF ComesYet
  <2>0. NoFailure
    BY DEF StatsInv, NoFailure
  <2>1. <<>> \in seen
    BY <2>0 DEF StatsInv, ComesYet
  <2>2. ASSUME NEW r \in seen', Kind[r] = "dir", NEW f \in Stats!EntriesOf(r), Append(r, f) \notin seen'
        PROVE  \E k \in 1..Len(left') : r = Opened(k)' /\ f \in left'[k]
    <3>0. \A k \in 1..Len(left) : k \in 1..Len(left')
      BY <1>1, <1>4
    <3>1. CASE r = q
      <4>1. Len(left) + 1 \in 1..Len(left')
        BY <1>1, <1>4
      <4>2. PICK k \in 1..Len(left') : k = Len(left) + 1
        BY <4>1
      <4>3. Opened(k)' = q
        BY <1>7, <4>2
      <4> QED
        BY <1>4, <2>2, <3>1, <4>2, <4>3
    <3>2. CASE r # q
      <4>1. r \in seen /\ Append(r, f) \notin seen
        BY <1>5, <2>2, <3>2
      <4>2. PICK k \in 1..Len(left) : r = Opened(k) /\ f \in left[k]
        BY <2>0, <2>2, <4>1 DEF StatsInv, ComesYet
      <4>3. ~(k = Len(left) /\ f = e)
        BY <1>1, <2>2, <4>2
      <4>4. f \in left'[k]
        BY <1>4, <4>2, <4>3
      <4> QED
        BY <1>6, <3>0, <4>2, <4>4
    <3> QED
      BY <3>1, <3>2
  <2> QED
    BY <2>1, <2>2
<1> QED
  BY <1>8, <1>10, <1>11 DEF StatsInv

\* The root is reported first.
LEMMA StartKeeps ==
  ASSUME StatsInv, Stats!Start \/ Stats!StartFails
  PROVE  StatsInv'
<1>1. /\ status = "start" /\ left = <<>> /\ path = <<>> /\ seen = {}
      /\ stats = [k \in Stats!Kinds \cup {"fail"} |-> 0]
  BY DEF StatsInv, Stats!Start, Stats!StartFails
<1>2. <<>> \in Seq(Stats!Name) /\ <<>> \in Seq(SUBSET Stats!Name) /\ Len(<<>>) = 0
  BY EmptySeq
<1>3. MaxDirs \in Nat \ {0} /\ <<>> \in Stats!Reachable /\ Stats!Sort(<<>>) \in Stats!Kinds
  <2>1. \A k \in 0..Len(<<>>) - 1 : FALSE
    BY <1>2
  <2> QED
    BY <2>1, KindAssumption DEF Stats!Reachable, Stats!Sort, Stats!Kinds
<1>4. CASE Stats!StartFails
  <2>1. /\ stats' = [stats EXCEPT !["fail"] = stats["fail"] + 1]
        /\ status' = "done" /\ left' = left /\ path' = path /\ seen' = seen
    BY <1>4 DEF Stats!StartFails, Stats!Count
  <2>2. /\ stats' \in [Stats!Kinds \cup {"fail"} -> Nat] /\ stats'["fail"] = 1
        /\ \A k \in Stats!Kinds : stats'[k] = stats[k]
    BY <1>1, <2>1 DEF Stats!Kinds
  <2>3. StatsTypes' /\ StackInv' /\ ComesYet'
    BY <2>1, <2>2 DEF StatsInv, StatsTypes, StackInv, ComesYet, NoFailure
  <2>4. SeenInv'
    BY <2>1, <2>2 DEF StatsInv, SeenInv, OfKind
  <2> QED
    BY <2>1, <2>3, <2>4 DEF StatsInv
<1>5. CASE Stats!Start
  <2>1. /\ stats' = [stats EXCEPT ![Stats!Sort(<<>>)] = stats[Stats!Sort(<<>>)] + 1]
        /\ seen' = {<<>>} /\ path' = <<>>
        /\ IF Kind[<<>>] = "dir" THEN left' = <<Stats!EntriesOf(<<>>)>> /\ status' = "walk"
           ELSE status' = "done" /\ left' = left
    BY <1>1, <1>5 DEF Stats!Start, Stats!Report, Stats!Count
  <2>2. /\ stats' \in [Stats!Kinds \cup {"fail"} -> Nat] /\ stats'["fail"] = 0
        /\ \A k \in Stats!Kinds : stats'[k] = IF k = Stats!Sort(<<>>) THEN stats[k] + 1 ELSE stats[k]
    BY <1>1, <1>3, <2>1 DEF Stats!Kinds
  <2>3. SeenInv'
    <3>1. \A r \in Seq(Stats!Name), e \in Stats!Name : <<>> = Append(r, e) => r \in seen
      BY AppendProperties
    <3>2. seen' = seen \cup {<<>>} /\ <<>> \notin seen
      BY <1>1, <2>1
    <3> QED
      BY <1>3, <2>2, <3>1, <3>2, ReportKeeps DEF StatsInv
  <2>4. CASE Kind[<<>>] = "dir"
    <3>1. PICK x \in SUBSET Stats!Name : x = Stats!EntriesOf(<<>>)
      BY DEF Stats!EntriesOf
    <3>2. /\ left' \in Seq(SUBSET Stats!Name) /\ Len(left') = 1 /\ left'[1] = x
          /\ status' = "walk"
      <4>1. left' = <<x>> /\ status' = "walk"
        BY <2>1, <2>4, <3>1
      <4>2. <<x>> \in Seq(SUBSET Stats!Name) /\ Len(<<x>>) = 1 /\ <<x>>[1] = x
        OBVIOUS
      <4> QED
        BY <4>1, <4>2
    <3>3. StatsTypes'
      BY <1>2, <1>3, <2>1, <2>2, <3>2 DEF StatsTypes
    <3>4. Opened(1)' = <<>>
      BY <2>1, SubSeqEmpty DEF Opened
    <3>5. \A e \in x : Append(<<>>, e) \in DOMAIN Kind \ seen'
      <4>1. \A e \in x : e \in Stats!Name /\ Append(<<>>, e) \in DOMAIN Kind
        BY <3>1 DEF Stats!EntriesOf
      <4>2. \A e \in x : Append(<<>>, e) # <<>>
        BY <1>2, <4>1, AppendProperties
      <4> QED
        BY <2>1, <4>1, <4>2
    <3>6. \A k : k \in 1..Len(left') <=> k = 1
      BY <3>2
    <3>7. StackInv'
      <4>1. Len(left') > 0 /\ Len(path') = Len(left') - 1 /\ <<>> \in seen'
        BY <1>2, <2>1, <3>2
      <4>2. \A k \in 1..Len(left') :
              /\ Opened(k)' \in seen' /\ Kind[Opened(k)'] = "dir"
              /\ \A e \in left'[k] : Append(Opened(k)', e) \in DOMAIN Kind \ seen'
        <5> TAKE k \in 1..Len(left')
        <5>1. k = 1
          BY <3>6
        <5>2. Opened(k)' = <<>>
          BY <3>4, <5>1 DEF Opened
        <5> QED
          BY <2>4, <3>2, <3>5, <4>1, <5>1, <5>2
      <4> QED
        BY <4>1, <4>2 DEF StackInv
    <3>8. ComesYet'
      BY <2>1, <3>1, <3>2, <3>4, <3>6 DEF ComesYet
    <3> QED
      BY <2>3, <3>2, <3>3, <3>7, <3>8 DEF StatsInv
  <2>5. CASE Kind[<<>>] # "dir"
    <3>1. status' = "done" /\ left' = left
      BY <2>1, <2>5
    <3>2. StatsTypes' /\ StackInv' /\ ComesYet'
      BY <1>2, <2>1, <2>2, <2>5, <3>1 DEF StatsInv, StatsTypes, StackInv, ComesYet
    <3> QED
      BY <2>3, <3>1, <3>2 DEF StatsInv
  <2> QED
    BY <2>4, <2>5
<1> QED
  BY <1>4, <1>5

LEMMA StatsStart == Stats!Init => StatsInv
<1> SUFFICES ASSUME Stats!Init PROVE StatsInv
  OBVIOUS
<1>1. /\ status = "start" /\ left = <<>> /\ path = <<>> /\ seen = {}
      /\ stats = [k \in Stats!Kinds \cup {"fail"} |-> 0]
  BY DEF Stats!Init
<1>2. <<>> \in Seq(Stats!Name) /\ <<>> \in Seq(SUBSET Stats!Name) /\ Len(<<>>) = 0 /\ MaxDirs \in Nat
  BY EmptySeq, KindAssumption
<1>3. StatsTypes
  BY <1>1, <1>2 DEF StatsTypes
<1>4. SeenInv
  <2>1. \A k : OfKind(k) = {}
    BY <1>1 DEF OfKind
  <2>2. \A k \in Stats!Kinds : stats[k] = 0
    BY <1>1
  <2> QED
    BY <1>1, <2>1, <2>2, FS_EmptySet DEF SeenInv
<1> QED
  BY <1>1, <1>3, <1>4 DEF StatsInv, StackInv, ComesYet

\* The counters after a report and after a failure.
LEMMA CountIs ==
  ASSUME StatsTypes, NEW k \in Stats!Kinds \cup {"fail"}, Stats!Count(k)
  PROVE  /\ stats' \in [Stats!Kinds \cup {"fail"} -> Nat]
         /\ \A l \in Stats!Kinds \cup {"fail"} : stats'[l] = IF l = k THEN stats[l] + 1 ELSE stats[l]
  BY DEF Stats!Count, StatsTypes

LEMMA EntryKeeps ==
  ASSUME StatsInv, status = "walk", NEW e \in Stats!Last(left),
         Stats!StatFails(e) \/ Stats!NoDirectory(e) \/ Stats!TooDeep(e) \/ Stats!Descend(e)
  PROVE  StatsInv'
<1> DEFINE q == Append(path, e)
<1>1. /\ e \in Stats!Name /\ q \in Stats!Reachable /\ q \notin seen /\ Stats!Sort(q) \in Stats!Kinds
      /\ \A r \in Seq(Stats!Name), f \in Stats!Name : q = Append(r, f) => r \in seen
  BY TopEntry
<1>2. StatsTypes /\ SeenInv /\ "fail" \notin Stats!Kinds /\ stats["fail"] \in Nat
  BY DEF StatsInv, StatsTypes, Stats!Kinds
<1>3. CASE Stats!StatFails(e)
  <2>1. Stats!Stay(e) /\ Stats!Count("fail") /\ seen' = seen
    BY <1>3 DEF Stats!StatFails
  <2>2. /\ stats' \in [Stats!Kinds \cup {"fail"} -> Nat] /\ stats'["fail"] = stats["fail"] + 1
        /\ \A k \in Stats!Kinds : stats'[k] = stats[k]
    BY <1>2, <2>1, CountIs
  <2>3. SeenInv'
    BY <1>2, <2>1, <2>2 DEF SeenInv, OfKind
  <2>4. ~NoFailure'
    BY <1>2, <2>2 DEF NoFailure
  <2> QED
    BY <2>1, <2>2, <2>3, <2>4, StayKeeps
<1>4. ASSUME Stats!Report(q)
      PROVE  /\ seen' = seen \cup {q} /\ SeenInv' /\ stats'["fail"] = stats["fail"]
             /\ stats' \in [Stats!Kinds \cup {"fail"} -> Nat]
  <2>1. Stats!Count(Stats!Sort(q)) /\ seen' = seen \cup {q}
    BY <1>4 DEF Stats!Report
  <2>2. /\ stats' \in [Stats!Kinds \cup {"fail"} -> Nat]
        /\ \A l \in Stats!Kinds \cup {"fail"} : stats'[l] = IF l = Stats!Sort(q) THEN stats[l] + 1 ELSE stats[l]
    BY <1>1, <1>2, <2>1, CountIs
  <2> HIDE DEF q
  <2>3. SeenInv'
    BY <1>1, <1>2, <2>1, <2>2, ReportKeeps
  <2> QED
    BY <1>1, <1>2, <2>1, <2>2, <2>3
<1>5. CASE Stats!NoDirectory(e)
  <2>1. Kind[q] # "dir" /\ Stats!Stay(e) /\ Stats!Report(q)
    BY <1>5 DEF Stats!NoDirectory
  <2>2. NoFailure' => NoFailure
    BY <1>4, <2>1 DEF NoFailure
  <2> QED
    BY <1>4, <2>1, <2>2, StayKeeps
<1>6. CASE Stats!TooDeep(e)
  <2>1. /\ Kind[q] = "dir" /\ Stats!Stay(e) /\ seen' = seen \cup {q}
        /\ stats' = [stats EXCEPT !["dir"] = stats["dir"] + 1, !["fail"] = stats["fail"] + 1]
    BY <1>6 DEF Stats!TooDeep
  <2>2. Stats!Sort(q) = "dir" /\ "dir" \in Stats!Kinds
    BY <2>1 DEF Stats!Sort, Stats!Kinds
  <2>3. /\ stats' \in [Stats!Kinds \cup {"fail"} -> Nat] /\ stats'["fail"] = stats["fail"] + 1
        /\ \A k \in Stats!Kinds : stats'[k] = IF k = Stats!Sort(q) THEN stats[k] + 1 ELSE stats[k]
    BY <1>2, <2>1, <2>2 DEF StatsTypes, Stats!Kinds
  <2> HIDE DEF q
  <2>4. SeenInv'
    BY <1>1, <1>2, <2>1, <2>3, ReportKeeps
  <2>5. ~NoFailure'
    BY <1>2, <2>3 DEF NoFailure
  <2> QED
    BY <2>1, <2>3, <2>4, <2>5, StayKeeps DEF q
<1>7. CASE Stats!Descend(e)
  <2>1. Kind[q] = "dir" /\ Len(left) < MaxDirs /\ Stats!Report(q)
    BY <1>7 DEF Stats!Descend
  <2>2. CASE left' = Append(Stats!Take(e), Stats!EntriesOf(q)) /\ path' = q /\ status' = status
    BY <1>4, <2>1, <2>2, PushKeeps
  <2>3. CASE status' = "failed" /\ left' = left /\ path' = path
    <3>1. StatsTypes' /\ StackInv' /\ ComesYet'
      BY <1>2, <1>4, <2>1, <2>3 DEF StatsTypes, StackInv, ComesYet
    <3> QED
      BY <1>4, <2>1, <2>3, <3>1 DEF StatsInv
  <2> QED
    BY <1>7, <2>2, <2>3 DEF Stats!Descend
<1> QED
  BY <1>3, <1>5, <1>6, <1>7

LEMMA StatsStep == StatsInv /\ [Stats!Next]_treeVars => StatsInv'
<1> SUFFICES ASSUME StatsInv, [Stats!Next]_treeVars PROVE StatsInv'
  OBVIOUS
<1>1. CASE Stats!Start \/ Stats!StartFails
  BY <1>1, StartKeeps
<1>2. CASE Stats!EndOfDir
  <2>1. status = "walk" /\ Stats!Last(left) = {} /\ Stats!Ascend /\ stats' = stats /\ seen' = seen
    BY <1>2 DEF Stats!EndOfDir
  <2>2. stats' \in [Stats!Kinds \cup {"fail"} -> Nat] /\ (NoFailure' => NoFailure)
    BY <2>1 DEF StatsInv, StatsTypes, NoFailure
  <2> QED
    BY <2>1, <2>2, AscendKeeps
<1>3. CASE Stats!ReadFails
  <2>1. status = "walk" /\ Stats!Ascend /\ Stats!Count("fail") /\ seen' = seen
    BY <1>3 DEF Stats!ReadFails
  <2>2. /\ stats' \in [Stats!Kinds \cup {"fail"} -> Nat] /\ stats'["fail"] = stats["fail"] + 1
        /\ \A k \in Stats!Kinds : stats'[k] = stats[k]
    BY <2>1, CountIs DEF StatsInv, Stats!Kinds
  <2>3. ~NoFailure'
    BY <2>2 DEF NoFailure, StatsInv, StatsTypes
  <2> QED
    BY <2>1, <2>2, <2>3, AscendKeeps
<1>4. CASE Stats!ReadEntry
  BY <1>4, EntryKeeps DEF Stats!ReadEntry
<1>5. CASE UNCHANGED treeVars
  BY <1>5 DEF treeVars, StatsInv, StatsTypes, StackInv, SeenInv, ComesYet, Opened, OfKind, NoFailure
<1> QED
  BY <1>1, <1>2, <1>3, <1>4, <1>5 DEF Stats!Next

LEMMA StatsAnswers == StatsInv => Stats!EntriesOnce /\ Stats!TypeOK
<1> SUFFICES ASSUME StatsInv PROVE Stats!EntriesOnce /\ Stats!TypeOK
  OBVIOUS
<1>1. ASSUME status = "walk"
      PROVE  /\ Len(path) = Len(left) - 1
             /\ \A k \in DOMAIN left : \A e \in left[k] :
                  Append(SubSeq(path, 1, k - 1), e) \in DOMAIN Kind \ seen
  <2>1. DOMAIN left = 1..Len(left)
    BY LenProperties DEF StatsInv, StatsTypes
  <2> QED
    BY <1>1, <2>1 DEF StatsInv, StackInv, Opened
<1>2. \A k \in Stats!Kinds : stats[k] = Stats!Cardinality({q \in seen : Stats!Sort(q) = k})
  BY SameCardinality DEF StatsInv, SeenInv, OfKind
<1>3. ASSUME status = "done", seen # Stats!Reachable PROVE stats["fail"] > 0
  <2> SUFFICES ASSUME NoFailure PROVE FALSE
    BY DEF StatsInv, StatsTypes, NoFailure
  <2>1. <<>> \in seen /\ \A q \in seen : Kind[q] = "dir" => \A e \in Stats!EntriesOf(q) : Append(q, e) \in seen
    BY <1>3 DEF StatsInv, ComesYet
  <2> QED
    BY <1>3, <2>1, AllReachable DEF StatsInv, SeenInv
<1>4. Stats!TypeOK
  BY DEF Stats!TypeOK, StatsInv, StatsTypes, SeenInv, Stats!Reachable
<1> QED
  BY <1>1, <1>2, <1>3, <1>4 DEF Stats!EntriesOnce

-----------------------------------------------------------------------------
(***************************************************************************)
(* lab5/zad1: the hash map for any hash function, any names and any sizes  *)
(* that are powers of two.  An odd step visits every cell of such a table; *)
(* every pair is where a search for its key ends, which putting another    *)
(* pair and copying into a new table keep; and a cell is always free.      *)
(***************************************************************************)
\* What is a multiple of a power of two stays one without an odd factor.
Divides(m, x) == \E e \in Nat : x = m * e
OddFactorAside(m) ==
  \A x \in Nat, q \in Nat : q % 2 = 1 /\ Divides(m, x * q) => Divides(m, x)

LEMMA PowersOfTwo == \A size \in Sizes : size \in Nat /\ size > 3 /\ OddFactorAside(size)
<1> DEFINE Bad == {size \in Sizes : ~(size > 3 /\ OddFactorAside(size))}
<1>1. Sizes \subseteq Nat \ {0} /\ \A size \in Sizes : size = 4 \/ \E t \in Sizes : size = 2 * t
  BY MapAssumption
<1>2. SUFFICES ASSUME Bad # {} PROVE FALSE
  BY <1>1
<1>3. PICK size \in Bad : \A t \in Bad : size <= t
  BY <1>1, <1>2, Least
<1>4. CASE size = 4
  <2>1. OddFactorAside(4)
    <3> SUFFICES ASSUME NEW x \in Nat, NEW q \in Nat, q % 2 = 1, Divides(4, x * q)
                 PROVE  Divides(4, x)
      BY DEF OddFactorAside
    <3>0. PICK e \in Nat : x * q = 4 * e
      BY DEF Divides
    <3>1. PICK a \in Nat : q = 4 * a + 1 \/ q = 4 * a + 3
      <4>1. PICK b \in Nat : q = 2 * b + 1
        <5>1. q = 2 * (q \div 2) + 1 /\ q \div 2 \in Nat
          OBVIOUS
        <5> QED
          BY <5>1
      <4>2. PICK a \in Nat : b = 2 * a \/ b = 2 * a + 1
        <5>1. (b = 2 * (b \div 2) \/ b = 2 * (b \div 2) + 1) /\ b \div 2 \in Nat
          OBVIOUS
        <5> QED
          BY <5>1
      <4> QED
        BY <4>1, <4>2
    <3>2. x * a \in Nat
      OBVIOUS
    <3>3. CASE q = 4 * a + 1
      <4>1. x * q = 4 * (x * a) + x
        BY <3>3
      <4>2. x = 4 * (e - x * a) /\ e - x * a \in Nat
        BY <3>0, <3>2, <4>1
      <4> QED
        BY <4>2 DEF Divides
    <3>4. CASE q = 4 * a + 3
      <4>1. x * q = 4 * (x * a) + 3 * x
        BY <3>4
      <4>2. 3 * x = 4 * (e - x * a)
        BY <3>0, <4>1, <3>2
      <4>3. x = 4 * (x - (e - x * a)) /\ x - (e - x * a) \in Int
        BY <4>2, <3>2
      <4>4. x - (e - x * a) \in Nat
        BY <4>3
      <4> QED
        BY <4>3, <4>4 DEF Divides
    <3> QED
      BY <3>1, <3>3, <3>4
  <2> QED
    BY <1>3, <1>4, <2>1
<1>5. CASE size # 4
  <2>1. PICK t \in Sizes : size = 2 * t
    BY <1>1, <1>3, <1>5
  <2>2. t \in Nat /\ size \in Nat
    BY <1>1, <1>3
  <2>4. t \notin Bad
    <3> HIDE DEF Bad
    <3> QED
      BY <1>1, <1>3, <2>1
  <2>5. t > 3 /\ OddFactorAside(t)
    BY <2>4
  <2>6. OddFactorAside(size)
    <3> SUFFICES ASSUME NEW x \in Nat, NEW q \in Nat, q % 2 = 1, Divides(size, x * q)
                 PROVE  Divides(size, x)
      BY DEF OddFactorAside
    <3>0. PICK e \in Nat : x * q = size * e
      BY DEF Divides
    <3>1. x * q = t * (2 * e) /\ 2 * e \in Nat /\ x * q \in Nat
      BY <3>0, <2>1, <2>2
    <3>2. PICK y \in Nat : x = t * y
      BY <3>1, <2>5 DEF OddFactorAside, Divides
    <3>3. t * (y * q) = t * (2 * e) /\ y * q \in Nat
      BY <3>1, <3>2, <2>2
    <3>4. y * q = 2 * e
      BY <3>3, <2>2, <2>5
    <3>5. PICK a \in Nat : q = 2 * a + 1
      <4>1. q = 2 * (q \div 2) + 1 /\ q \div 2 \in Nat
        OBVIOUS
      <4> QED
        BY <4>1
    <3>6. y * q = 2 * (y * a) + y /\ y * a \in Nat
      BY <3>5
    <3>7. y = 2 * (e - y * a) /\ e - y * a \in Nat
      BY <3>4, <3>6
    <3>8. x = size * (e - y * a)
      BY <3>2, <3>7, <2>1, <2>2
    <3> QED
      BY <3>7, <3>8 DEF Divides
  <2> QED
    BY <1>3, <2>1, <2>2, <2>5, <2>6
<1> QED
  BY <1>4, <1>5

LEMMA Rest ==
  ASSUME NEW x \in Int, NEW m \in Nat \ {0}
  PROVE  \E q, r \in Int : q = x \div m /\ r = x % m /\ x = m * q + r /\ 0 <= r /\ r < m
  OBVIOUS

\* The step of a search is odd.
LEMMA OddStep ==
  ASSUME hash \in HashFunctions, NEW k \in Keys
  PROVE  hash[k] \in Nat /\ Map!Step(k) \in Nat /\ Map!Step(k) % 2 = 1
<1>1. hash[k] \in Nat /\ HashRange \in Nat \ {0}
  BY MapAssumption
<1>2. PICK d : d = ((hash[k] \div 32) - hash[k]) % HashRange
  OBVIOUS
<1>3. (hash[k] \div 32) - hash[k] \in Int
  BY <1>1
<1>4. d \in Nat
  BY <1>1, <1>2, <1>3
<1>5. Map!Step(k) = IF d % 2 = 0 THEN d + 1 ELSE d
  BY <1>2 DEF Map!Step
<1> QED
  BY <1>1, <1>4, <1>5

\* The path of a key visits every cell of a table.
LEMMA PathVisits ==
  ASSUME hash \in HashFunctions, NEW k \in Keys, NEW size \in Sizes
  PROVE  /\ \A i \in Nat : Map!Path(size, k, i) \in 0..size - 1
         /\ \A i, j \in 0..size - 1 : Map!Path(size, k, i) = Map!Path(size, k, j) => i = j
         /\ \A c \in 0..size - 1 : \E i \in 0..size - 1 : c = Map!Path(size, k, i)
<1> DEFINE At(i) == Map!Path(size, k, i)
<1>1. PICK h \in Nat, q \in Nat : h = hash[k] /\ q = Map!Step(k) /\ q % 2 = 1
  BY OddStep
<1>2. size \in Nat /\ size > 3 /\ OddFactorAside(size)
  BY PowersOfTwo
<1>3. \A i \in Nat : At(i) = (h + i * q) % size /\ h + i * q \in Nat
  BY <1>1 DEF Map!Path
<1>4. \A i \in Nat : At(i) \in 0..size - 1
  BY <1>2, <1>3
<1>5. ASSUME NEW i \in 0..size - 1, NEW j \in 0..size - 1, At(i) = At(j), i < j PROVE FALSE
  <2>1. PICK a \in Nat, b \in Nat : a = h + i * q /\ b = h + j * q
    BY <1>3
  <2>2. a % size = b % size
    BY <1>3, <1>5, <2>1
  <2>5. PICK e \in Int : b - a = size * e
    <3>1. PICK u \in Int, v \in Int, r \in Int : a = size * u + r /\ b = size * v + r
      <4>1. PICK u, r \in Int : r = a % size /\ a = size * u + r
        BY <1>2, Rest
      <4>2. PICK v, t \in Int : t = b % size /\ b = size * v + t
        BY <1>2, Rest
      <4> QED
        BY <4>1, <4>2, <2>2
    <3>2. b - a = size * (v - u)
      BY <3>1, <1>2
    <3> QED
      BY <3>2
  <2>6. b - a = (j - i) * q /\ j - i \in Nat
    BY <2>1, <1>5
  <2>7. (j - i) * q \in Nat
    BY <2>6
  <2>8. e \in Nat
    BY <2>5, <2>6, <2>7, <1>2
  <2>9. Divides(size, (j - i) * q)
    BY <2>5, <2>6, <2>8 DEF Divides
  <2>10. PICK f \in Nat : j - i = size * f
    BY <1>1, <1>2, <2>6, <2>9 DEF OddFactorAside, Divides
  <2>11. f # 0
    BY <2>10, <1>2, <1>5
  <2>12. size * f >= size
    BY <2>11, <1>2
  <2> QED
    BY <2>10, <2>12, <1>2
<1>6. \A i, j \in 0..size - 1 : At(i) = At(j) => i = j
  <2> HIDE DEF At
  <2> QED
    BY <1>2, <1>5
<1>7. ASSUME NEW c \in 0..size - 1 PROVE \E i \in 0..size - 1 : c = At(i)
  <2> DEFINE f == [i \in 0..size - 1 |-> At(i)]
  <2>1. f \in Injection(0..size - 1, 0..size - 1)
    <3> HIDE DEF At
    <3> QED
      BY SMTT(60), <1>2, <1>4, <1>6 DEF Injection, IsInjective
  <2>2. IsFiniteSet(0..size - 1)
    BY <1>2, FS_Interval
  <2>3. f \in Surjection(0..size - 1, 0..size - 1)
    <3> HIDE DEF f
    <3> QED
      BY <2>1, <2>2, FS_Injection
  <2>4. \E i \in 0..size - 1 : f[i] = c
    BY <2>3 DEF Surjection
  <2> QED
    BY <2>4
<1> QED
  BY <1>4, <1>6, <1>7

-----------------------------------------------------------------------------
\* What a cell may hold, the cells in use and what is in them.
Cells == [key : Keys, val : Vals] \cup {Map!Empty}
Used(tab) == {c \in DOMAIN tab : tab[c] # Map!Empty}
Pairs(tab) == {tab[c] : c \in Used(tab)}
Tables(size) == [0..size - 1 -> Cells]
\* Every pair is where a search for its key ends.
Sound(tab) == \A c \in Used(tab) : Map!Cell(tab, tab[c].key) = c

LEMMA SameCount == \A S : Map!Cardinality(S) = Cardinality(S)
  BY Zenon DEF Map!Cardinality, Map!IsFiniteSet, Cardinality, IsFiniteSet

LEMMA TableIs ==
  ASSUME NEW size \in Sizes, NEW tab \in Tables(size)
  PROVE  /\ size \in Nat /\ size > 3 /\ Map!Size(tab) = size /\ DOMAIN tab = 0..size - 1
         /\ \A c \in 0..size - 1 :
              /\ c \in Used(tab) => tab[c] \in [key : Keys, val : Vals] /\ tab[c].key \in Keys /\ tab[c].key # None
              /\ c \notin Used(tab) => tab[c] = Map!Empty /\ tab[c].key = None
         /\ Used(tab) \subseteq 0..size - 1 /\ IsFiniteSet(Used(tab))
         /\ Cardinality(Used(tab)) \in Nat
         /\ Cardinality(Used(tab)) < size => \E c \in 0..size - 1 : tab[c] = Map!Empty
<1>1. size \in Nat /\ size > 3 /\ DOMAIN tab = 0..size - 1
  BY PowersOfTwo DEF Tables
<1>2. IsFiniteSet(0..size - 1) /\ Cardinality(0..size - 1) = size
  BY <1>1, FS_Interval
<1>3. Map!Size(tab) = size
  BY <1>1, <1>2, SameCount DEF Map!Size
<1>4. ASSUME NEW c \in 0..size - 1
      PROVE  /\ c \in Used(tab) => tab[c] \in [key : Keys, val : Vals] /\ tab[c].key \in Keys /\ tab[c].key # None
             /\ c \notin Used(tab) => tab[c] = Map!Empty /\ tab[c].key = None
  <2>1. tab[c] \in Cells
    BY DEF Tables
  <2>2. c \in Used(tab) <=> tab[c] # Map!Empty
    BY <1>1 DEF Used
  <2>3. Map!Empty.key = None
    BY DEF Map!Empty
  <2> QED
    BY <2>1, <2>2, <2>3, MapAssumption DEF Cells
<1>5. Used(tab) \subseteq 0..size - 1
  BY <1>1 DEF Used
<1>6. IsFiniteSet(Used(tab)) /\ Cardinality(Used(tab)) \in Nat
  BY <1>2, <1>5, FS_Subset, FS_CardinalityType
<1>7. Cardinality(Used(tab)) < size => Used(tab) # 0..size - 1
  BY <1>1, <1>2
<1> QED
  BY <1>1, <1>3, <1>4, <1>5, <1>6, <1>7

\* The cell at which a search ends is the first on its path that stops it.
Stops(tab, k, c) == tab[c].key \in {k, None}
LEMMA FirstCell ==
  ASSUME hash \in HashFunctions, NEW k \in Keys, NEW size \in Sizes, NEW tab \in Tables(size),
         NEW m \in 0..size - 1, Stops(tab, k, Map!Path(size, k, m)),
         \A i \in 0..m - 1 : ~Stops(tab, k, Map!Path(size, k, i))
  PROVE  Map!Cell(tab, k) = Map!Path(size, k, m)
<1> DEFINE S == {i \in 0..size - 1 : tab[Map!Path(size, k, i)].key \in {k, None}}
<1>1. size \in Nat /\ size > 3 /\ Map!Size(tab) = size
  BY TableIs
<1>2. m \in S /\ \A i \in S : m <= i
  BY <1>1 DEF Stops
<1>3. \A x \in S : (\A i \in S : x <= i) => x = m
  <2> SUFFICES ASSUME NEW x \in S, \A i \in S : x <= i PROVE x = m
    OBVIOUS
  <2>1. x <= m /\ m <= x /\ x \in Int /\ m \in Int
    BY <1>1, <1>2
  <2> QED
    BY <2>1
<1>4. Map!Min(S) = m
  <2> HIDE DEF S
  <2> QED
    BY <1>2, <1>3 DEF Map!Min
<1> QED
  BY <1>1, <1>4 DEF Map!Cell

\* A search ends at some cell of the table, if one is free or has the key.
LEMMA SearchStops ==
  ASSUME hash \in HashFunctions, NEW k \in Keys, NEW size \in Sizes, NEW tab \in Tables(size),
         \E c \in 0..size - 1 : Stops(tab, k, c)
  PROVE  \E m \in 0..size - 1 :
           /\ Map!Cell(tab, k) = Map!Path(size, k, m) /\ Map!Path(size, k, m) \in 0..size - 1
           /\ Stops(tab, k, Map!Path(size, k, m))
           /\ \A i \in 0..m - 1 : ~Stops(tab, k, Map!Path(size, k, i))
<1> DEFINE S == {i \in 0..size - 1 : Stops(tab, k, Map!Path(size, k, i))}
<1>1. size \in Nat /\ size > 3
  BY TableIs
<1>2. \E i \in 0..size - 1 : Stops(tab, k, Map!Path(size, k, i))
  BY PathVisits
<1>3. S \subseteq Nat /\ S # {}
  BY <1>1, <1>2
<1>4. PICK m \in S : \A i \in S : m <= i
  <2> HIDE DEF S
  <2> QED
    BY <1>3, Least
<1>5. \A i \in 0..m - 1 : ~Stops(tab, k, Map!Path(size, k, i))
  <2> SUFFICES ASSUME NEW i \in 0..m - 1, Stops(tab, k, Map!Path(size, k, i)) PROVE FALSE
    OBVIOUS
  <2>1. i \in S
    BY <1>1
  <2>2. m <= i
    BY <2>1, <1>4
  <2> QED
    BY <2>2, <1>1
<1>6. Map!Path(size, k, m) \in 0..size - 1
  BY <1>1, PathVisits
<1>7. Map!Cell(tab, k) = Map!Path(size, k, m)
  BY <1>4, <1>5, FirstCell
<1> QED
  BY <1>4, <1>5, <1>6, <1>7

\* A search for a key that is in a cell ends there; if it ends at a free cell,
\* the key is in none.
LEMMA SearchIsRight ==
  ASSUME hash \in HashFunctions, NEW k \in Keys, NEW size \in Sizes, NEW tab \in Tables(size),
         Sound(tab), \E c \in 0..size - 1 : tab[c] = Map!Empty
  PROVE  LET cell == Map!Cell(tab, k)
         IN  /\ cell \in 0..size - 1
             /\ cell \in Used(tab) => tab[cell].key = k
             /\ \A c \in Used(tab) : tab[c].key = k => c = cell
<1>1. \E c \in 0..size - 1 : Stops(tab, k, c)
  BY TableIs DEF Stops, Map!Empty
<1>2. PICK m \in 0..size - 1 :
        /\ Map!Cell(tab, k) = Map!Path(size, k, m) /\ Map!Path(size, k, m) \in 0..size - 1
        /\ Stops(tab, k, Map!Path(size, k, m))
  BY <1>1, SearchStops
<1>3. ASSUME Map!Cell(tab, k) \in Used(tab) PROVE tab[Map!Cell(tab, k)].key = k
  BY <1>2, <1>3, TableIs DEF Stops
<1>4. \A c \in Used(tab) : tab[c].key = k => c = Map!Cell(tab, k)
  BY DEF Sound
<1> QED
  BY <1>2, <1>3, <1>4

Put(tab, k, v) == [tab EXCEPT ![Map!Cell(tab, k)] = [key |-> k, val |-> v]]

\* Putting a pair where the search for its key ends keeps all other pairs
\* where searches find them.
LEMMA PutKeeps ==
  ASSUME hash \in HashFunctions, NEW k \in Keys, NEW v \in Vals, NEW size \in Sizes, NEW tab \in Tables(size),
         Sound(tab), \E c \in 0..size - 1 : tab[c] = Map!Empty
  PROVE  /\ Put(tab, k, v) \in Tables(size) /\ Sound(Put(tab, k, v))
         /\ Used(Put(tab, k, v)) = Used(tab) \cup {Map!Cell(tab, k)}
         /\ Pairs(Put(tab, k, v)) = {e \in Pairs(tab) : e.key # k} \cup {[key |-> k, val |-> v]}
         /\ Map!Cell(tab, k) \in 0..size - 1
         /\ Map!Cell(tab, k) \in Used(tab) <=> \E e \in Pairs(tab) : e.key = k
<1>12. PICK cell, pair, new : cell = Map!Cell(tab, k) /\ pair = [key |-> k, val |-> v] /\ new = [tab EXCEPT ![cell] = pair]
  OBVIOUS
<1>13. new = Put(tab, k, v)
  BY <1>12 DEF Put
<1> USE <1>12
<1>0. size \in Nat
  BY TableIs
<1>1. /\ cell \in 0..size - 1
      /\ cell \in Used(tab) => tab[cell].key = k
      /\ \A c \in Used(tab) : tab[c].key = k => c = cell
  BY SearchIsRight
<1>2. pair \in [key : Keys, val : Vals] /\ pair.key = k /\ pair # Map!Empty /\ k # None /\ pair \in Cells
  BY MapAssumption DEF Map!Empty, Cells
<1>3. /\ DOMAIN tab = 0..size - 1 /\ DOMAIN new = 0..size - 1 /\ new[cell] = pair
      /\ \A c \in 0..size - 1 : c # cell => new[c] = tab[c]
  BY <1>1, TableIs
<1>4. new \in Tables(size)
  <2>1. new = [c \in 0..size - 1 |-> IF c = cell THEN pair ELSE tab[c]]
    BY <1>1, <1>3
  <2>2. \A c \in 0..size - 1 : tab[c] \in Cells
    BY DEF Tables
  <2>3. \A c \in 0..size - 1 : new[c] \in Cells
    BY <2>2, <1>2, <1>3
  <2> QED
    BY <2>1, <2>3 DEF Tables
<1>5. Used(new) = Used(tab) \cup {cell}
  BY <1>1, <1>2, <1>3 DEF Used
<1>6. Pairs(new) = {e \in Pairs(tab) : e.key # k} \cup {pair}
  <2>1. \A c \in Used(tab) : c # cell => c \in 0..size - 1 /\ new[c] = tab[c] /\ tab[c].key # k
    BY <1>1, <1>3, TableIs
  <2>2. \A c \in Used(tab) : tab[c].key # k => c # cell
    BY <1>1
  <2>3. Pairs(new) = {new[c] : c \in Used(tab) \cup {cell}}
    BY <1>5 DEF Pairs
  <2>4. ASSUME NEW e \in Pairs(tab), e.key # k PROVE e \in Pairs(new)
    <3>1. PICK c \in Used(tab) : e = tab[c]
      BY DEF Pairs
    <3> QED
      BY <3>1, <2>1, <2>2, <2>3, <2>4
  <2>5. ASSUME NEW e \in Pairs(new), e # pair PROVE e \in Pairs(tab) /\ e.key # k
    <3>1. PICK c \in Used(tab) \cup {cell} : e = new[c]
      BY <2>3
    <3>2. c # cell /\ c \in Used(tab)
      BY <3>1, <2>5, <1>3
    <3> QED
      BY <3>1, <3>2, <2>1 DEF Pairs
  <2>6. pair \in Pairs(new)
    BY <2>3, <1>3
  <2> QED
    BY <2>4, <2>5, <2>6
<1>7. cell \notin Used(tab) => \A e \in Pairs(tab) : e.key # k
  BY <1>1 DEF Pairs
<1>8. cell \in Used(tab) => \E e \in Pairs(tab) : e.key = k
  BY <1>1 DEF Pairs
<1>9. ASSUME NEW c \in Used(new) PROVE Map!Cell(new, new[c].key) = c
  <2>1. CASE c = cell
    <3>1. \E d \in 0..size - 1 : Stops(tab, k, d)
      BY TableIs DEF Stops, Map!Empty
    <3>2. PICK m \in 0..size - 1 :
            /\ cell = Map!Path(size, k, m)
            /\ \A i \in 0..m - 1 : ~Stops(tab, k, Map!Path(size, k, i))
            /\ Stops(tab, k, Map!Path(size, k, m))
      BY <3>1, SearchStops
    <3>3. Stops(new, k, Map!Path(size, k, m))
      BY <3>2, <1>2, <1>3 DEF Stops
    <3>4. ASSUME NEW i \in 0..m - 1 PROVE ~Stops(new, k, Map!Path(size, k, i))
      <4>1. Map!Path(size, k, i) # cell
        BY <3>2
      <4>2. i \in Nat
        BY <1>0
      <4>3. Map!Path(size, k, i) \in 0..size - 1
        BY <4>2, PathVisits
      <4> QED
        BY <3>2, <4>1, <4>3, <1>3 DEF Stops
    <3>5. Map!Cell(new, k) = cell
      BY <3>2, <3>3, <3>4, <1>4, FirstCell
    <3> QED
      BY <2>1, <3>5, <1>2, <1>3
  <2>2. CASE c # cell
    <3>1. PICK key \in Keys : key = tab[c].key /\ c \in Used(tab) /\ c \in 0..size - 1 /\ new[c] = tab[c]
      BY <2>2, <1>3, <1>5, TableIs
    <3>2. key # k /\ Map!Cell(tab, key) = c
      BY <2>2, <3>1, <1>1 DEF Sound
    <3>3. Stops(tab, key, c)
      BY <3>1 DEF Stops
    <3>4. PICK m \in 0..size - 1 :
            /\ c = Map!Path(size, key, m)
            /\ \A i \in 0..m - 1 : ~Stops(tab, key, Map!Path(size, key, i))
      BY <3>1, <3>2, <3>3, SearchStops
    <3>5. Stops(new, key, Map!Path(size, key, m))
      BY <3>1, <3>4 DEF Stops
    <3>6. ASSUME NEW i \in 0..m - 1 PROVE ~Stops(new, key, Map!Path(size, key, i))
      <4>0. i \in Nat
        BY <1>0
      <4>1. Map!Path(size, key, i) \in 0..size - 1
        BY <4>0, PathVisits
      <4>2. CASE Map!Path(size, key, i) = cell
        BY <4>2, <3>2, <1>2, <1>3 DEF Stops
      <4>3. CASE Map!Path(size, key, i) # cell
        BY <4>1, <4>3, <3>4, <1>3 DEF Stops
      <4> QED
        BY <4>2, <4>3
    <3>7. Map!Cell(new, key) = c
      BY ZenonT(60), <3>1, <3>4, <3>5, <3>6, <1>4, FirstCell
    <3> QED
      BY <3>1, <3>7
  <2> QED
    BY <2>1, <2>2
<1>10. Sound(new)
  BY <1>9 DEF Sound
<1> QED
  BY <1>13, <1>1, <1>4, <1>5, <1>6, <1>7, <1>8, <1>10

-----------------------------------------------------------------------------
\* The table after i cells of tab have been looked at, for i up to n; g is
\* this function again.
Looked(tab, size, n, g) ==
  [i \in 0..n |->
     IF i = 0 THEN [c \in 0..size - 1 |-> Map!Empty]
     ELSE IF tab[i - 1] = Map!Empty THEN g[i - 1]
     ELSE [g[i - 1] EXCEPT ![Map!Cell(g[i - 1], tab[i - 1].key)] = tab[i - 1]]]

LEMMA CopiedIs ==
  ASSUME NEW tab, NEW size, NEW n \in Nat, Map!Size(tab) = n
  PROVE  \E g : g = Looked(tab, size, n, g) /\ Map!Copied(tab, size) = g[n]
<1> DEFINE Some(m) == \E g : g = Looked(tab, size, m, g)
           Bad == {m \in Nat : ~Some(m)}
<1>1. Some(0)
  <2>1. PICK g : g = [i \in 0..0 |-> [c \in 0..size - 1 |-> Map!Empty]]
    OBVIOUS
  <2>2. g = Looked(tab, size, 0, g)
    <3>1. \A i \in 0..0 : i = 0
      OBVIOUS
    <3> QED
      BY <2>1, <3>1 DEF Looked
  <2> QED
    BY <2>2
<1>2. ASSUME NEW m \in Nat, Some(m) PROVE Some(m + 1)
  <2>1. PICK g : g = Looked(tab, size, m, g)
    BY <1>2
  <2>2. PICK h : h = Looked(tab, size, m + 1, g)
    OBVIOUS
  <2>3. \A i \in 0..m : h[i] = g[i]
    <3> SUFFICES ASSUME NEW i \in 0..m PROVE h[i] = g[i]
      OBVIOUS
    <3>1. i \in 0..m + 1
      OBVIOUS
    <3>2. h[i] = Looked(tab, size, m, g)[i]
      BY <2>2, <3>1 DEF Looked
    <3> QED
      BY <2>1, <3>2
  <2>4. \A i \in 0..m + 1 : i # 0 => i - 1 \in 0..m
    OBVIOUS
  <2>5. Looked(tab, size, m + 1, h) = Looked(tab, size, m + 1, g)
    BY <2>3, <2>4 DEF Looked
  <2> QED
    BY <2>2, <2>5
<1>3. Some(n)
  <2> HIDE DEF Some
  <2> SUFFICES ASSUME Bad # {} PROVE FALSE
    OBVIOUS
  <2>1. PICK m \in Bad : \A l \in Bad : m <= l
    BY Least
  <2>2. m # 0 /\ m \in Nat
    BY <1>1, <2>1
  <2>3. m - 1 \in Nat /\ m - 1 \notin Bad
    BY <2>1, <2>2
  <2>4. Some((m - 1) + 1)
    BY <1>2, <2>3
  <2> QED
    BY <2>1, <2>2, <2>4
<1>4. PICK g : g = Looked(tab, size, n, g) /\ g = CHOOSE f : f = Looked(tab, size, n, f)
  BY <1>3
<1>5. Map!Copied(tab, size) = g[n]
  BY <1>4 DEF Map!Copied, Looked
<1> QED
  BY <1>4, <1>5

\* A new table that is larger than the number of pairs gets them all.
LEMMA CopyKeeps ==
  ASSUME hash \in HashFunctions, NEW n \in Nat, NEW tab \in [0..n - 1 -> Cells], Map!Size(tab) = n,
         Sound(tab), IsFiniteSet(Used(tab)),
         NEW size \in Sizes, Cardinality(Used(tab)) < size,
         NEW new, new = Map!Copied(tab, size)
  PROVE  /\ new \in Tables(size) /\ Sound(new) /\ Pairs(new) = Pairs(tab)
         /\ Cardinality(Used(new)) = Cardinality(Used(tab))
<1> DEFINE Before(i) == {c \in Used(tab) : c < i}
           Good(t, i) == /\ t \in Tables(size) /\ Sound(t) /\ Pairs(t) = {tab[c] : c \in Before(i)}
                         /\ Cardinality(Used(t)) = Cardinality(Before(i))
<1>1. PICK g : g = Looked(tab, size, n, g) /\ new = g[n]
  BY CopiedIs
<1>2. /\ Used(tab) \subseteq 0..n - 1 /\ Before(n) = Used(tab) /\ Before(0) = {}
      /\ \A i \in Nat : IsFiniteSet(Before(i)) /\ Cardinality(Before(i)) <= Cardinality(Used(tab))
  <2>1. Used(tab) \subseteq 0..n - 1
    BY DEF Used
  <2>2. ASSUME NEW i \in Nat PROVE IsFiniteSet(Before(i)) /\ Cardinality(Before(i)) <= Cardinality(Used(tab))
    <3>1. Before(i) \in SUBSET Used(tab)
      OBVIOUS
    <3> HIDE DEF Before
    <3> QED
      BY <3>1, FS_Subset
  <2>3. Before(n) = Used(tab) /\ Before(0) = {}
    BY <2>1
  <2> QED
    BY <2>1, <2>2, <2>3
<1>3. Good(g[0], 0)
  <2>1. g[0] = [c \in 0..size - 1 |-> Map!Empty]
    BY <1>1 DEF Looked
  <2>2. g[0] \in Tables(size)
    BY <2>1 DEF Tables, Cells
  <2>3. Used(g[0]) = {}
    BY <2>1 DEF Used
  <2> QED
    BY <2>2, <2>3, <1>2, FS_EmptySet DEF Sound, Pairs
<1>4. ASSUME NEW i \in 0..n - 1, Good(g[i], i) PROVE Good(g[i + 1], i + 1)
  <2>1. g[i + 1] = IF tab[i] = Map!Empty THEN g[i]
                   ELSE [g[i] EXCEPT ![Map!Cell(g[i], tab[i].key)] = tab[i]]
    <3>1. i + 1 \in 0..n /\ i + 1 # 0 /\ (i + 1) - 1 = i
      OBVIOUS
    <3> QED
      BY ZenonT(60), <1>1, <3>1 DEF Looked
  <2>2. CASE tab[i] = Map!Empty
    <3>1. Before(i + 1) = Before(i)
      BY <1>2, <2>2 DEF Used
    <3> QED
      BY <3>1, <1>4, <2>1, <2>2
  <2>3. CASE tab[i] # Map!Empty
    <3>1. i \in Used(tab) /\ tab[i] \in [key : Keys, val : Vals]
      BY <2>3 DEF Used, Cells
    <3>2. PICK k \in Keys, v \in Vals : tab[i] = [key |-> k, val |-> v] /\ k = tab[i].key
      BY <3>1
    <3>3. Before(i + 1) = Before(i) \cup {i} /\ i \notin Before(i)
      BY <1>2, <3>1
    <3>4. PICK t : t = g[i]
      OBVIOUS
    <3>5. /\ t \in Tables(size) /\ Sound(t) /\ Pairs(t) = {tab[c] : c \in Before(i)}
          /\ Cardinality(Used(t)) = Cardinality(Before(i))
      BY <1>4, <3>4
    <3>6. \E c \in 0..size - 1 : t[c] = Map!Empty
      <4>0. i \in Nat
        OBVIOUS
      <4>1. Cardinality(Before(i)) <= Cardinality(Used(tab))
        <5> HIDE DEF Before
        <5> QED
          BY <4>0, <1>2
      <4>2. Cardinality(Used(tab)) \in Nat /\ size \in Nat /\ Cardinality(Used(t)) \in Nat
        BY <3>5, FS_CardinalityType, TableIs
      <4>3. Cardinality(Used(t)) < size
        <5> HIDE DEF Before
        <5> QED
          BY <4>1, <4>2, <3>5
      <4> QED
        BY <3>5, <4>3, TableIs
    <3>7. PICK cell, u : cell = Map!Cell(t, k) /\ u = [t EXCEPT ![cell] = tab[i]]
      OBVIOUS
    <3>13. u = Put(t, k, v)
      BY <3>2, <3>7 DEF Put
    <3>8. /\ u \in Tables(size) /\ Sound(u) /\ Used(u) = Used(t) \cup {cell}
          /\ Pairs(u) = {e \in Pairs(t) : e.key # k} \cup {tab[i]}
          /\ cell \in Used(t) => \E e \in Pairs(t) : e.key = k
      <4> HIDE DEF Before, Good
      <4>1. t \in Tables(size) /\ Sound(t) /\ tab[i] = [key |-> k, val |-> v]
        BY <3>2, <3>5
      <4>2. /\ Put(t, k, v) \in Tables(size) /\ Sound(Put(t, k, v))
            /\ Used(Put(t, k, v)) = Used(t) \cup {Map!Cell(t, k)}
            /\ Pairs(Put(t, k, v)) = {e \in Pairs(t) : e.key # k} \cup {[key |-> k, val |-> v]}
            /\ Map!Cell(t, k) \in Used(t) <=> \E e \in Pairs(t) : e.key = k
        BY <4>1, <3>6, PutKeeps
      <4> QED
        BY Zenon, <4>1, <4>2, <3>7, <3>13
    <3>9. \A e \in Pairs(t) : e.key # k
      <4> SUFFICES ASSUME NEW c \in Before(i), tab[c].key = k PROVE FALSE
        BY <3>5
      <4>1. Map!Cell(tab, k) = c /\ Map!Cell(tab, k) = i
        BY <3>1, <3>2 DEF Sound
      <4> QED
        BY <3>3, <4>1
    <3>10. Pairs(u) = {tab[c] : c \in Before(i + 1)}
      <4>1. Pairs(u) = Pairs(t) \cup {tab[i]}
        BY <3>8, <3>9
      <4> HIDE DEF Before
      <4> QED
        BY <4>1, <3>2, <3>3, <3>5
    <3>11. Cardinality(Used(u)) = Cardinality(Before(i + 1))
      <4>1. cell \notin Used(t)
        BY <3>8, <3>9
      <4>2. IsFiniteSet(Used(t)) /\ IsFiniteSet(Before(i))
        BY <3>5, <1>2, TableIs
      <4> HIDE DEF Before
      <4>3. Cardinality(Used(u)) = Cardinality(Used(t)) + 1
        BY <4>1, <4>2, <3>8, FS_AddElement
      <4>4. Cardinality(Before(i + 1)) = Cardinality(Before(i)) + 1
        BY <4>2, <3>3, FS_AddElement
      <4> QED
        BY <4>3, <4>4, <3>5
    <3>12. g[i + 1] = u
      BY <2>1, <2>3, <3>2, <3>4, <3>7
    <3> HIDE DEF Before
    <3> QED
      BY <3>8, <3>10, <3>11, <3>12
  <2> QED
    BY <2>2, <2>3
<1>5. Good(g[n], n)
  <2> DEFINE Bad == {i \in 0..n : ~Good(g[i], i)}
  <2> HIDE DEF Good
  <2> SUFFICES ASSUME Bad # {} PROVE FALSE
    OBVIOUS
  <2>1. PICK m \in Bad : \A l \in Bad : m <= l
    <3>1. Bad \subseteq Nat
      OBVIOUS
    <3> QED
      BY <3>1, Least
  <2>2. m # 0
    BY <1>3, <2>1
  <2>3. m - 1 \in 0..n - 1 /\ (m - 1) + 1 = m
    BY <2>1, <2>2
  <2>4. m - 1 \notin Bad
    BY <2>1, <2>3
  <2>5. Good(g[m - 1], m - 1)
    BY <2>3, <2>4
  <2>6. Good(g[m], m)
    BY <1>4, <2>3, <2>5
  <2> QED
    BY <2>1, <2>6
<1> HIDE DEF Before
<1> QED
  BY ZenonT(60), <1>1, <1>2, <1>5 DEF Pairs

-----------------------------------------------------------------------------
\* The size of a new table is one of which a third is above the count.
LEMMA NewSizeIs ==
  ASSUME NEW count \in Nat, count <= Cardinality(Keys)
  PROVE  Map!NewSize(count) \in Sizes /\ count < Map!NewSize(count)
<1> DEFINE S == {size \in Sizes : size \div 3 > count}
<1>1. PICK big \in Sizes : big \div 3 > Cardinality(Keys)
  BY MapAssumption
<1>2. Cardinality(Keys) \in Nat /\ big \in Nat
  BY MapAssumption, FS_CardinalityType
<1>3. big \in S
  <2>1. big \div 3 \in Int
    BY <1>2
  <2> QED
    BY <1>1, <1>2, <2>1
<1>4. S \subseteq Nat
  BY MapAssumption
<1>5. \E m \in S : \A l \in S : m <= l
  <2> HIDE DEF S
  <2> QED
    BY <1>3, <1>4, Least
<1>6. Map!NewSize(count) \in S
  <2>1. Map!NewSize(count) = Map!Min(S)
    BY DEF Map!NewSize
  <2> HIDE DEF S
  <2> QED
    BY <1>5, <2>1 DEF Map!Min
<1>7. \A size \in Nat : size \div 3 > count => count < size
  OBVIOUS
<1> QED
  BY <1>4, <1>6, <1>7

\* Growing, if it is needed, keeps the pairs and leaves a cell free.
LEMMA ResizeKeeps ==
  ASSUME hash \in HashFunctions, NEW n \in Nat, n = 0 \/ n \in Sizes,
         NEW tab \in [0..n - 1 -> Cells], Map!Size(tab) = n,
         Sound(tab), IsFiniteSet(Used(tab)),
         NEW count \in Nat, count = Cardinality(Used(tab)), count <= Cardinality(Keys)
  PROVE  \E size \in Sizes :
           /\ Map!Resized(tab, count) \in Tables(size) /\ Sound(Map!Resized(tab, count))
           /\ Pairs(Map!Resized(tab, count)) = Pairs(tab)
           /\ Cardinality(Used(Map!Resized(tab, count))) = count /\ count < size
<1>0. PICK new : new = Map!Resized(tab, count)
  OBVIOUS
<1>1. CASE n * 4 > count * 5
  <2>1. new = tab
    BY <1>0, <1>1 DEF Map!Resized
  <2>2. n \in Sizes /\ count < n
    BY <1>1
  <2> QED
    BY <1>0, <2>1, <2>2 DEF Tables
<1>2. CASE ~(n * 4 > count * 5)
  <2>1. PICK size \in Sizes : size = Map!NewSize(count) /\ count < size
    BY NewSizeIs
  <2>2. new = Map!Copied(tab, size)
    BY <1>0, <1>2, <2>1 DEF Map!Resized
  <2>3. Cardinality(Used(tab)) < size
    BY <2>1
  <2>4. /\ new \in Tables(size) /\ Sound(new) /\ Pairs(new) = Pairs(tab)
        /\ Cardinality(Used(new)) = Cardinality(Used(tab))
    BY <2>2, <2>3, CopyKeeps
  <2> QED
    BY <1>0, <2>1, <2>4
<1> QED
  BY <1>1, <1>2

\* The table holds the pairs of content where searches find them, as many as
\* elems says, and has a free cell.
Remembered(f) == {[key |-> k, val |-> f[k]] : k \in DOMAIN f}
MapInv ==
  /\ hash \in HashFunctions
  /\ table # <<>> => \E size \in Sizes : table \in Tables(size) /\ elems < size
  /\ Sound(table) /\ Cardinality(Used(table)) = elems
  /\ Pairs(table) = Remembered(content)
  /\ DOMAIN content \subseteq Keys /\ elems = Cardinality(DOMAIN content)

LEMMA NoTable ==
  /\ <<>> \in [0..0 - 1 -> Cells] /\ Map!Size(<<>>) = 0
  /\ Used(<<>>) = {} /\ Pairs(<<>>) = {} /\ Sound(<<>>)
<1>1. DOMAIN <<>> = {} /\ 0..0 - 1 = {}
  OBVIOUS
<1>2. Map!Size(<<>>) = 0
  BY <1>1, SameCount, FS_EmptySet DEF Map!Size
<1>3. Used(<<>>) = {}
  BY <1>1 DEF Used
<1>4. <<>> \in [0..0 - 1 -> Cells]
  <2>1. <<>> = [c \in {} |-> Map!Empty]
    BY <1>1
  <2>2. [c \in {} |-> Map!Empty] \in [{} -> Cells]
    OBVIOUS
  <2> QED
    BY <1>1, <2>1, <2>2
<1> QED
  BY <1>2, <1>3, <1>4 DEF Pairs, Sound

LEMMA MapStarts == Map!Init => MapInv
<1> SUFFICES ASSUME Map!Init PROVE MapInv
  OBVIOUS
<1>1. hash \in HashFunctions /\ table = <<>> /\ elems = 0 /\ content = <<>>
  BY DEF Map!Init
<1>2. DOMAIN content = {}
  BY <1>1
<1>3. Remembered(content) = {}
  BY <1>2 DEF Remembered
<1> QED
  BY <1>1, <1>2, <1>3, NoTable, FS_EmptySet DEF MapInv

\* What is said of the cells alone is said of the next ones.
LEMMA SoundNext ==
  ASSUME hash' = hash, NEW t, t = table', Sound(t)
  PROVE  Sound(table)' /\ Pairs(table)' = Pairs(t) /\ Used(table)' = Used(t)
<1>1. Used(table)' = Used(t)
  BY DEF Used
<1>2. Pairs(table)' = Pairs(t)
  BY <1>1 DEF Pairs
<1>3. ASSUME NEW c \in Used(t) PROVE Map!Cell(table, table[c].key)' = c
  <2>1. Map!Cell(t, t[c].key) = c
    BY DEF Sound
  <2>2. Map!Cell(table, table[c].key)' = Map!Cell(t, t[c].key)
    BY Zenon DEF Map!Cell, Map!Path, Map!Step
  <2> QED
    BY Zenon, <2>1, <2>2
<1> QED
  BY <1>1, <1>2, <1>3 DEF Sound

LEMMA AddKeeps ==
  ASSUME MapInv, NEW k \in Keys, NEW v \in Vals, Map!HashAdd(k, v)
  PROVE  MapInv'
<1>1. /\ hash \in HashFunctions
      /\ table # <<>> => \E size \in Sizes : table \in Tables(size) /\ elems < size
      /\ Sound(table) /\ Cardinality(Used(table)) = elems
      /\ Pairs(table) = Remembered(content)
      /\ DOMAIN content \subseteq Keys /\ elems = Cardinality(DOMAIN content)
  BY DEF MapInv
<1>2. /\ IsFiniteSet(Keys) /\ IsFiniteSet(DOMAIN content) /\ elems \in Nat
      /\ Cardinality(Keys) \in Nat /\ elems <= Cardinality(Keys)
  BY <1>1, MapAssumption, FS_Subset, FS_CardinalityType
<1>3. PICK tab : tab = IF table = <<>> THEN Map!Resized(table, 0) ELSE table
  OBVIOUS
<1>4. PICK size \in Sizes :
        /\ tab \in Tables(size) /\ elems < size /\ Sound(tab)
        /\ Cardinality(Used(tab)) = elems /\ Pairs(tab) = Remembered(content)
  <2>1. CASE table # <<>>
    BY <2>1, <1>1, <1>3
  <2>2. CASE table = <<>>
    <3>1. elems = 0 /\ Pairs(table) = {}
      BY <1>1, <2>2, NoTable, FS_EmptySet
    <3>2. tab = Map!Resized(<<>>, 0)
      BY <1>3, <2>2
    <3>3. \E size \in Sizes :
            /\ tab \in Tables(size) /\ Sound(tab) /\ Pairs(tab) = Pairs(<<>>)
            /\ Cardinality(Used(tab)) = 0 /\ 0 < size
      <4>1. PICK n, t : n = 0 /\ t = <<>> /\ n \in Nat
        OBVIOUS
      <4>2. /\ t \in [0..n - 1 -> Cells] /\ Map!Size(t) = n /\ Sound(t) /\ IsFiniteSet(Used(t))
            /\ n = Cardinality(Used(t)) /\ n <= Cardinality(Keys)
        <5>1. Used(t) = {} /\ Map!Size(t) = n /\ Sound(t)
          BY <4>1, NoTable
        <5>2. t \in [0..n - 1 -> Cells]
          BY Zenon, <4>1, NoTable
        <5>3. IsFiniteSet(Used(t)) /\ Cardinality(Used(t)) = 0
          BY <5>1, FS_EmptySet
        <5>4. n <= Cardinality(Keys)
          BY <4>1, <1>2
        <5> QED
          BY Zenon, <4>1, <5>1, <5>2, <5>3, <5>4
      <4>3. tab = Map!Resized(t, n)
        BY <3>2, <4>1
      <4>4. \E size \in Sizes :
              /\ Map!Resized(t, n) \in Tables(size) /\ Sound(Map!Resized(t, n))
              /\ Pairs(Map!Resized(t, n)) = Pairs(t)
              /\ Cardinality(Used(Map!Resized(t, n))) = n /\ n < size
        BY <4>1, <4>2, <1>1, ResizeKeeps
      <4> QED
        BY <4>1, <4>3, <4>4
    <3> QED
      BY <3>1, <3>3, <1>1, <2>2
  <2> QED
    BY <2>1, <2>2
<1>5. \E c \in 0..size - 1 : tab[c] = Map!Empty
  BY <1>4, TableIs
<1>6. PICK cell, added, pair :
        cell = Map!Cell(tab, k) /\ added = Put(tab, k, v) /\ pair = [key |-> k, val |-> v]
  OBVIOUS
<1>7. /\ added \in Tables(size) /\ Sound(added) /\ Used(added) = Used(tab) \cup {cell}
      /\ Pairs(added) = {e \in Pairs(tab) : e.key # k} \cup {pair}
      /\ cell \in 0..size - 1
      /\ cell \in Used(tab) <=> \E e \in Pairs(tab) : e.key = k
  <2>1. /\ Put(tab, k, v) \in Tables(size) /\ Sound(Put(tab, k, v))
        /\ Used(Put(tab, k, v)) = Used(tab) \cup {Map!Cell(tab, k)}
        /\ Pairs(Put(tab, k, v)) = {e \in Pairs(tab) : e.key # k} \cup {[key |-> k, val |-> v]}
        /\ Map!Cell(tab, k) \in 0..size - 1
        /\ Map!Cell(tab, k) \in Used(tab) <=> \E e \in Pairs(tab) : e.key = k
    BY <1>1, <1>4, <1>5, PutKeeps
  <2> QED
    BY Zenon, <1>6, <2>1
<1>8. cell \in Used(tab) <=> k \in DOMAIN content
  <2>1. (\E e \in Pairs(tab) : e.key = k) <=> k \in DOMAIN content
    <3>1. ASSUME NEW e \in Pairs(tab), e.key = k PROVE k \in DOMAIN content
      BY <3>1, <1>4 DEF Remembered
    <3>2. ASSUME k \in DOMAIN content PROVE [key |-> k, val |-> content[k]] \in Pairs(tab)
      BY <3>2, <1>4 DEF Remembered
    <3> QED
      BY <3>1, <3>2
  <2> QED
    BY <1>7, <2>1
<1>9. PICK new : new = IF tab[cell] = Map!Empty THEN elems + 1 ELSE elems
  OBVIOUS
<1>10. /\ elems' = new /\ hash' = hash
       /\ table' = IF new = elems THEN added ELSE Map!Resized(added, new)
       /\ content' = [x \in DOMAIN content \cup {k} |-> IF x = k THEN v ELSE content[x]]
  BY <1>3, <1>6, <1>9 DEF Map!HashAdd, Put
<1>11. tab[cell] = Map!Empty <=> cell \notin Used(tab)
  BY <1>4, <1>7, TableIs DEF Used
<1>12. new \in Nat /\ Cardinality(Used(added)) = new
  <2>1. IsFiniteSet(Used(tab)) /\ Cardinality(Used(tab)) = elems
    BY <1>4, TableIs
  <2>2. Cardinality(Used(added)) = IF cell \in Used(tab) THEN elems ELSE elems + 1
    BY <2>1, <1>7, FS_AddElement
  <2> QED
    BY <2>2, <1>2, <1>9, <1>11
<1>13. /\ DOMAIN content' = DOMAIN content \cup {k} /\ DOMAIN content' \subseteq Keys
       /\ new = Cardinality(DOMAIN content') /\ new <= Cardinality(Keys)
  <2>1. PICK D : D = DOMAIN content /\ IsFiniteSet(D) /\ Cardinality(D) = elems /\ D \subseteq Keys
    BY <1>1, <1>2
  <2>2. DOMAIN content' = D \cup {k}
    BY <1>10, <2>1
  <2>3. Cardinality(D \cup {k}) = new
    BY <2>1, <1>8, <1>9, <1>11, FS_AddElement
  <2>4. Cardinality(D \cup {k}) <= Cardinality(Keys)
    BY <2>1, <1>2, FS_Subset
  <2> QED
    BY <2>1, <2>2, <2>3, <2>4
<1>14. Pairs(added) = Remembered(content')
  <2>1. PICK f : f = content'
    OBVIOUS
  <2>2. f = [x \in DOMAIN content \cup {k} |-> IF x = k THEN v ELSE content[x]]
    BY <1>10, <2>1
  <2>3. ASSUME NEW e \in Pairs(added) PROVE e \in Remembered(f)
    <3>1. CASE e = pair
      BY <3>1, <2>2, <1>6 DEF Remembered
    <3>2. CASE e # pair
      <4>1. e \in Remembered(content) /\ e.key # k
        BY <2>3, <3>2, <1>4, <1>7
      <4>2. PICK x \in DOMAIN content : e = [key |-> x, val |-> content[x]] /\ x # k
        BY <4>1 DEF Remembered
      <4> QED
        BY <4>2, <2>2 DEF Remembered
    <3> QED
      BY <3>1, <3>2
  <2>4. ASSUME NEW x \in DOMAIN f PROVE [key |-> x, val |-> f[x]] \in Pairs(added)
    <3>1. CASE x = k
      BY <3>1, <2>2, <1>6, <1>7
    <3>2. CASE x # k
      <4>1. x \in DOMAIN content /\ f[x] = content[x]
        BY <2>2, <2>4, <3>2
      <4>2. [key |-> x, val |-> content[x]] \in Pairs(tab)
        BY <4>1, <1>4 DEF Remembered
      <4> QED
        BY <4>1, <4>2, <3>2, <1>7
    <3> QED
      BY <3>1, <3>2
  <2>5. Pairs(added) = Remembered(f)
    BY <2>3, <2>4 DEF Remembered
  <2> QED
    BY <2>1, <2>5 DEF Remembered
<1>15. \E s \in Sizes :
         /\ table' \in Tables(s) /\ Sound(table)' /\ Pairs(table)' = Pairs(added)
         /\ Cardinality(Used(table))' = new /\ new < s
  <2>0. \E s \in Sizes :
          \E t \in Tables(s) :
            /\ t = IF new = elems THEN added ELSE Map!Resized(added, new)
            /\ Sound(t) /\ Pairs(t) = Pairs(added)
            /\ Cardinality(Used(t)) = new /\ new < s
    <3>1. CASE new = elems
      BY <3>1, <1>4, <1>7, <1>12
    <3>2. CASE new # elems
      <4>1. /\ size \in Nat /\ added \in [0..size - 1 -> Cells] /\ Map!Size(added) = size
            /\ IsFiniteSet(Used(added))
        BY <1>7, TableIs DEF Tables
      <4>2. PICK t : t = Map!Resized(added, new)
        OBVIOUS
      <4>3. \E s \in Sizes :
              /\ Map!Resized(added, new) \in Tables(s) /\ Sound(Map!Resized(added, new))
              /\ Pairs(Map!Resized(added, new)) = Pairs(added)
              /\ Cardinality(Used(Map!Resized(added, new))) = new /\ new < s
        BY <4>1, <1>1, <1>7, <1>12, <1>13, ResizeKeeps
      <4> QED
        BY <3>2, <4>2, <4>3
    <3> QED
      BY <3>1, <3>2
  <2>1. PICK s, t : s \in Sizes /\ t = table' /\ t \in Tables(s) /\ Sound(t) /\ Pairs(t) = Pairs(added)
                              /\ Cardinality(Used(t)) = new /\ new < s
    BY <2>0, <1>10
  <2>2. hash' = hash
    BY <1>10
  <2> QED
    BY Zenon, <2>1, <2>2, SoundNext
<1> QED
  BY <1>1, <1>10, <1>13, <1>14, <1>15 DEF MapInv, Remembered

LEMMA MapStep == MapInv /\ [Map!Next]_mapVars => MapInv'
<1> SUFFICES ASSUME MapInv, [Map!Next]_mapVars PROVE MapInv'
  OBVIOUS
<1>1. ASSUME NEW k \in Keys, NEW v \in Vals, Map!HashAdd(k, v) PROVE MapInv'
  BY <1>1, AddKeeps
<1>2. CASE Map!HashClear
  <2>1. hash' = hash /\ table' = <<>> /\ elems' = 0 /\ content' = <<>> /\ hash \in HashFunctions
    BY <1>2 DEF Map!HashClear, MapInv
  <2>2. Map!Init'
    BY <2>1 DEF Map!Init
  <2> QED
    BY <2>2, MapStarts, PTL
<1>3. CASE UNCHANGED mapVars
  <2>1. hash' = hash /\ table' = table /\ elems' = elems /\ content' = content
    BY <1>3 DEF mapVars
  <2>2. PICK t : t = table
    OBVIOUS
  <2>3. Sound(t)
    BY <2>2 DEF MapInv, Sound
  <2>4. Sound(table)' /\ Pairs(table)' = Pairs(t) /\ Used(table)' = Used(t)
    BY <2>1, <2>2, <2>3, SoundNext
  <2> QED
    BY <2>1, <2>2, <2>4 DEF MapInv, Remembered
<1> QED
  BY <1>1, <1>2, <1>3 DEF Map!Next

LEMMA MapAnswers == MapInv => Map!SearchEnds /\ Map!MapAgrees /\ Map!TypeOK
<1> SUFFICES ASSUME MapInv PROVE Map!SearchEnds /\ Map!MapAgrees /\ Map!TypeOK
  OBVIOUS
<1>1. /\ hash \in HashFunctions
      /\ table # <<>> => \E size \in Sizes : table \in Tables(size) /\ elems < size
      /\ Sound(table) /\ Cardinality(Used(table)) = elems
      /\ Pairs(table) = Remembered(content)
      /\ DOMAIN content \subseteq Keys /\ elems = Cardinality(DOMAIN content)
  BY DEF MapInv
<1>2. elems \in Nat
  BY <1>1, MapAssumption, FS_Subset, FS_CardinalityType
<1>3. elems = Map!Cardinality(DOMAIN content)
  BY <1>1, SameCount
<1>4. CASE table = <<>>
  <2>1. DOMAIN table = {}
    BY <1>4
  <2> QED
    BY <1>1, <1>2, <1>3, <1>4, <2>1 DEF Map!SearchEnds, Map!MapAgrees, Map!TypeOK
<1>5. CASE table # <<>>
  <2>1. PICK size \in Sizes : table \in Tables(size) /\ elems < size
    BY <1>1, <1>5
  <2>2. /\ Map!Size(table) = size /\ DOMAIN table = 0..size - 1
        /\ \E c \in 0..size - 1 : table[c] = Map!Empty
    BY <1>1, <2>1, TableIs
  <2>3. ASSUME NEW k \in Keys
        PROVE  {Map!Path(Map!Size(table), k, i) : i \in DOMAIN table} = DOMAIN table
    <3>1. \A i \in 0..size - 1 : Map!Path(size, k, i) \in 0..size - 1
      <4>1. \A i \in 0..size - 1 : i \in Nat
        BY <2>1, TableIs
      <4> QED
        BY <4>1, <1>1, PathVisits
    <3>2. \A c \in 0..size - 1 : \E i \in 0..size - 1 : c = Map!Path(size, k, i)
      BY <1>1, PathVisits
    <3>3. {Map!Path(size, k, i) : i \in 0..size - 1} = 0..size - 1
      BY <3>1, <3>2
    <3> QED
      BY Zenon, <2>2, <3>3
  <2>4. Map!SearchEnds
    BY <2>2, <2>3 DEF Map!SearchEnds
  <2>5. ASSUME NEW k \in Keys
        PROVE  Map!HashGet(k) = IF k \in DOMAIN content THEN content[k] ELSE None
    <3>1. PICK cell : cell = Map!Cell(table, k)
      OBVIOUS
    <3>2. /\ cell \in 0..size - 1
          /\ cell \in Used(table) => table[cell].key = k
          /\ \A c \in Used(table) : table[c].key = k => c = cell
      BY <1>1, <2>1, <2>2, <3>1, SearchIsRight
    <3>3. CASE k \in DOMAIN content
      <4>1. [key |-> k, val |-> content[k]] \in Pairs(table)
        BY <1>1, <3>3 DEF Remembered
      <4>2. PICK c \in Used(table) : table[c] = [key |-> k, val |-> content[k]]
        BY <4>1 DEF Pairs
      <4>3. c = cell
        BY <3>2, <4>2
      <4> QED
        BY <3>1, <3>3, <4>2, <4>3 DEF Map!HashGet
    <3>4. CASE k \notin DOMAIN content
      <4>1. cell \notin Used(table)
        <5> SUFFICES ASSUME cell \in Used(table) PROVE FALSE
          OBVIOUS
        <5>1. table[cell] \in Remembered(content)
          BY <1>1 DEF Pairs
        <5> QED
          BY <3>2, <3>4, <5>1 DEF Remembered
      <4>2. table[cell] = Map!Empty
        BY <2>1, <3>2, <4>1, TableIs
      <4> QED
        BY <3>1, <3>4, <4>2 DEF Map!HashGet, Map!Empty
    <3> QED
      BY <3>3, <3>4
  <2>6. Map!MapAgrees
    BY <1>3, <2>5 DEF Map!MapAgrees
  <2>7. Map!TypeOK
    BY <1>1, <1>2, <2>1, <2>2 DEF Map!TypeOK, Tables, Cells
  <2> QED
    BY <2>4, <2>6, <2>7
<1> QED
  BY <1>4, <1>5

-----------------------------------------------------------------------------
(***************************************************************************)
(* All of them.                                                            *)
(***************************************************************************)
SeqInv == /\ prog = "search" => SearchInv /\ SearchSizes
          /\ prog = "libwc" => WcInv
          /\ prog = "stats" => StatsInv
          /\ prog = "map" => MapInv
          /\ prog = "lines" => LinesInv
          /\ prog = "pnm" => PnmInv /\ ReadInv
          /\ prog = "parser" => ParserInv

LEMMA SeqStarts == SInit => SeqInv
  BY SearchStarts, SizesStart, WcStarts, StatsStart, MapStarts, LinesStart, PnmStarts, ReaderStarts, ParserStarts
  DEF SInit, SeqInv

LEMMA SeqSteps ==
  ASSUME SeqInv, [SNext]_allVars
  PROVE  SeqInv'
<1>1. CASE SearchFile
  BY <1>1, SearchStep, SizesStep DEF SearchFile, SeqInv
<1>2. CASE UseLibWc
  BY <1>2, WcStep DEF UseLibWc, SeqInv
<1>3. CASE ReadImage
  BY <1>3, PnmStep, ReaderStep DEF ReadImage, SeqInv
<1>4. CASE ParseScript
  BY <1>4, ParserGoesOn DEF ParseScript, SeqInv
<1>5. CASE CountTree
  BY <1>5, StatsStep DEF CountTree, SeqInv
<1>6. CASE UseMap
  BY <1>6, MapStep DEF UseMap, SeqInv
<1>7. CASE CopyLines
  BY <1>7, LinesStep DEF CopyLines, SeqInv
<1>8. CASE UNCHANGED allVars
  <2>1. UNCHANGED prog /\ UNCHANGED vars /\ UNCHANGED Wc!vars /\ UNCHANGED treeVars /\ UNCHANGED mapVars
        /\ UNCHANGED <<src, off, buf, p, scan, out, pc>> /\ UNCHANGED Pnm!vars /\ UNCHANGED Parser!vars
    BY <1>8 DEF allVars, inputVars, wcVars, lineVars, pnmVars, parserVars, vars, Wc!vars, Pnm!vars, Parser!vars
  <2> QED
    BY <2>1, SearchStep, SizesStep, WcStep, StatsStep, MapStep, LinesStays, PnmStep, ReaderStep, ParserGoesOn DEF SeqInv
<1> QED
  BY <1>1, <1>2, <1>3, <1>4, <1>5, <1>6, <1>7, <1>8 DEF SNext

\* The invariants of all hold in every state of a run of SSpec.
THEOREM SequentialInvariant == SSpec => []SeqInv
  BY SeqStarts, SeqSteps, PTL DEF SSpec

\* lab3/zad3 (main.c, search_file): a text is found exactly when it is there,
\* across blocks too.
THEOREM EveryTextFound == SSpec => []FoundExactly
<1>1. SeqInv => FoundExactly
  BY SearchAnswers DEF SeqInv, FoundExactly
<1> QED
  BY <1>1, SequentialInvariant, PTL

\* lab1/zad1 (libwc.c, lines 32-170): a handle stands for its text until it
\* is deleted, through growth and failing allocations.
THEOREM EveryHandleKept == SSpec => []HandlesKept
<1>1. SeqInv => HandlesKept
  BY DEF SeqInv, WcInv, HandlesKept
<1> QED
  BY <1>1, SequentialInvariant, PTL

\* lab2/zad3 (main.c, walk): every entry of the tree that can be reached is
\* counted once, through the limit of the stack, or a failure is counted.
THEOREM EveryEntryCounted == SSpec => []TreeCounted
<1>1. SeqInv => TreeCounted
  BY StatsAnswers DEF SeqInv, TreeCounted
<1> QED
  BY <1>1, SequentialInvariant, PTL

\* lab5/zad1 (main.c, hash_add, hash_get): the map answers like a function and
\* every search in it ends, through collisions, overwriting and growth, for
\* any hash function.
THEOREM EveryNameRemembered == SSpec => []MapIsFunction
<1>1. SeqInv => MapIsFunction
  BY MapAnswers DEF SeqInv, MapIsFunction
<1> QED
  BY <1>1, SequentialInvariant, PTL

\* lab2/zad1 (main.c, the loop over blocks): what is written is at any time a prefix
\* of the lines that hold more than blanks, and at the end all of them,
\* however the lines lie in the blocks, in both builds.
THEOREM EveryLineCopied == SSpec => []LinesCopied
<1>1. SeqInv => LinesCopied
  BY LinesAnswers DEF SeqInv, LinesCopied
<1> QED
  BY <1>1, SequentialInvariant, PTL

\* lab8 (the loop of main.c that reads an image): of the files that have no empty
\* comment directly behind a token of the header, those that are images are read as
\* they were written and no other is accepted, however read() cuts them - unless the
\* end of the buffer fell before the blanks that end a comment (line 207), behind a
\* comment before the data (214) or behind the sign of a number (244 and 279).
THEOREM EveryImageRead == SSpec => []ImageAsWritten
<1>1. SeqInv => ImageAsWritten
  BY ImageAnswers DEF SeqInv, ImageAsWritten
<1> QED
  BY <1>1, SequentialInvariant, PTL

\* lab5/zad1 (main.c, parser_sm and main): whatever the script is and however
\* read() cuts it, the definitions made and the pipelines run are those of the
\* complete lines up to the first wrong one, and a pointer the parser asks is
\* one into the piece it has now.  What a word may be is as the program says,
\* and as the grammar of line 293 says where the two agree on the words of the
\* script: no command begins with "=", no word hides a control character.
THEOREM EveryScriptObeyed == SSpec => []ScriptObeyed
<1>1. SeqInv => ScriptObeyed
  BY ParserAnswers DEF SeqInv, ScriptObeyed
<1> QED
  BY <1>1, SequentialInvariant, PTL

\* Every sequential part keeps within its buffers, tables and stacks: the image
\* of lab8 within what its header announces, the kept bytes of lab3/zad3 within the
\* text, the pointers of lab5/zad1 within the piece, the results of lab1/zad1
\* within the table.
THEOREM SequentialTypes == SSpec => []TypesOK
<1>1. SeqInv => TypesOK
  <2> SUFFICES ASSUME SeqInv PROVE TypesOK
    OBVIOUS
  <2>1. prog = "pnm" => Pnm!TypeOK
    BY PnmAnswers DEF SeqInv
  <2>2. prog = "lines" => Lines!TypeOK
    BY LinesAnswers DEF SeqInv
  <2>3. prog = "search" => TypeOK
    BY SearchTypes DEF SeqInv
  <2>4. prog = "parser" => Parser!TypeOK
    BY ParserAnswers DEF SeqInv
  <2>5. prog = "map" => Map!TypeOK
    BY MapAnswers DEF SeqInv
  <2>6. prog = "libwc" => Wc!TypeOK
    BY DEF SeqInv, WcInv
  <2>7. prog = "stats" => Stats!TypeOK
    BY StatsAnswers DEF SeqInv
  <2> QED
    BY <2>1, <2>2, <2>3, <2>4, <2>5, <2>6, <2>7 DEF TypesOK
<1> QED
  BY <1>1, SequentialInvariant, PTL
=============================================================================
