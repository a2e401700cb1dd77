------------------------------ MODULE Counting ------------------------------
(***************************************************************************)
(* How many of a finite set of processes are at one of some labels, and    *)
(* what a step of one process does to that number: semaphores, slots and   *)
(* counters of the programs are accounted for in these terms.              *)
(***************************************************************************)
EXTENDS Integers, FiniteSetTheorems, TLAPS

\* The number of processes of X that f puts at a label of L.
Count(f, X, L) == Cardinality({x \in X : f[x] \in L})

\* What moving from label `from` to label `to` adds to the number of processes in L.
Step(from, to, L) ==
  IF from \notin L /\ to \in L THEN 1 ELSE IF from \in L /\ to \notin L THEN -1 ELSE 0

\* The number of processes at some labels is a natural number, and it is that
\* of all processes only if all of them are there.
LEMMA CountType ==
  ASSUME NEW f, NEW X, NEW L, IsFiniteSet(X)
  PROVE  /\ IsFiniteSet({x \in X : f[x] \in L})
         /\ Count(f, X, L) \in Nat
         /\ Count(f, X, L) <= Cardinality(X)
         /\ Count(f, X, L) = Cardinality(X) => \A x \in X : f[x] \in L
  <1> DEFINE S == {x \in X : f[x] \in L}
  <1>1. S \subseteq X
    OBVIOUS
  <1>2. IsFiniteSet(S) /\ Cardinality(S) <= Cardinality(X)
    BY <1>1, FS_Subset
  <1>3. Cardinality(S) = Cardinality(X) => S = X
    BY <1>1, FS_Subset
  <1>4. Cardinality(S) \in Nat
    BY <1>2, FS_CardinalityType
  <1> QED
    BY <1>2, <1>3, <1>4 DEF Count

\* If none is counted, none is there.
LEMMA CountNone ==
  ASSUME NEW f, NEW X, NEW L, IsFiniteSet(X), Count(f, X, L) = 0
  PROVE  \A x \in X : f[x] \notin L
  <1> DEFINE S == {x \in X : f[x] \in L}
  <1>1. IsFiniteSet(S) /\ Cardinality(S) = 0
    BY CountType DEF Count
  <1>2. S = {}
    <2> HIDE DEF S
    <2> QED
      BY <1>1, FS_EmptySet
  <1> QED
    BY <1>2

\* How a count changes when one process t moves to label l.
LEMMA CountMove ==
  ASSUME NEW f, NEW X \in SUBSET DOMAIN f, IsFiniteSet(X),
         NEW L, NEW t \in DOMAIN f, NEW l
  PROVE  Count([f EXCEPT ![t] = l], X, L) =
           Count(f, X, L) + (IF t \in X THEN Step(f[t], l, L) ELSE 0)
  <1> DEFINE g == [f EXCEPT ![t] = l]
             S == {x \in X : f[x] \in L}
             T == {x \in X : g[x] \in L}
  <1>0. IsFiniteSet(S) /\ Cardinality(S) \in Nat
    BY CountType DEF Count
  <1>1. ASSUME t \notin X \/ (f[t] \in L <=> l \in L) PROVE T = S
    BY <1>1
  <1>2. ASSUME t \in X, f[t] \notin L, l \in L PROVE Cardinality(T) = Cardinality(S) + 1
    <2>1. T = S \cup {t} /\ t \notin S
      BY <1>2
    <2> HIDE DEF S, T
    <2> QED
      BY <1>0, <2>1, FS_AddElement
  <1>3. ASSUME t \in X, f[t] \in L, l \notin L PROVE Cardinality(T) = Cardinality(S) - 1
    <2>1. T = S \ {t} /\ t \in S
      BY <1>3
    <2> HIDE DEF S, T
    <2> QED
      BY <1>0, <2>1, FS_RemoveElement
  <1>4. Cardinality(T) = Cardinality(S) + (IF t \in X THEN Step(f[t], l, L) ELSE 0)
    <2> HIDE DEF S, T
    <2> QED
      BY <1>0, <1>1, <1>2, <1>3 DEF Step
  <1> QED
    BY <1>4 DEF Count

\* If fewer labels are looked at fewer processes are counted, and one that is
\* at a label left out makes the difference.
LEMMA CountLess ==
  ASSUME NEW f, NEW X, NEW L, NEW M, IsFiniteSet(X), L \subseteq M
  PROVE  /\ Count(f, X, L) <= Count(f, X, M)
         /\ \A x \in X : f[x] \in M \ L => Count(f, X, L) < Count(f, X, M)
  <1> DEFINE S == {x \in X : f[x] \in L}
             T == {x \in X : f[x] \in M}
  <1>1. IsFiniteSet(T) /\ S \subseteq T
    BY CountType
  <1>2. Cardinality(S) <= Cardinality(T) /\ (Cardinality(S) = Cardinality(T) => S = T)
    BY <1>1, FS_Subset
  <1>3. Cardinality(S) \in Nat /\ Cardinality(T) \in Nat
    BY CountType DEF Count
  <1>4. \A x \in X : f[x] \in M \ L => S # T
    OBVIOUS
  <1> HIDE DEF S, T
  <1>5. \A x \in X : f[x] \in M \ L => Cardinality(S) < Cardinality(T)
    BY <1>2, <1>3, <1>4
  <1> QED
    BY <1>2, <1>5 DEF Count, S, T

\* If one process at most is counted, no two are there.
LEMMA CountOne ==
  ASSUME NEW f, NEW X, NEW L, IsFiniteSet(X), Count(f, X, L) <= 1,
         NEW x \in X, NEW y \in X, f[x] \in L, f[y] \in L
  PROVE  x = y
  <1> DEFINE S == {z \in X : f[z] \in L}
  <1>1. IsFiniteSet(S) /\ Cardinality(S) \in Nat /\ Cardinality(S) <= 1
    BY CountType DEF Count
  <1>2. x \in S /\ y \in S
    OBVIOUS
  <1> HIDE DEF S
  <1>3. Cardinality(S) # 0
    BY <1>1, <1>2, FS_EmptySet
  <1>4. Cardinality(S) = 1
    BY <1>1, <1>3
  <1> QED
    BY <1>1, <1>2, <1>4, FS_Singleton
=============================================================================
