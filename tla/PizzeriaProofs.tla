---------------------------- MODULE PizzeriaProofs ----------------------------
(***************************************************************************)
(* Proofs about Pizzeria, for any number of cooks, couriers and places and *)
(* for both builds.                                                        *)
(*                                                                         *)
(* The argument: every semaphore and the processes that took it add up     *)
(* (SemaphoreSums).  For the two locks this is mutual exclusion, for the   *)
(* three counting semaphores it says that a process let through finds a    *)
(* place, or a pizza, that nobody else will use.  The places are accounted *)
(* for one by one: those of the oven by the cooks that bake (OvenInv),     *)
(* those of the table by their age in the ring (RingInv).                  *)
(***************************************************************************)
EXTENDS Pizzeria, Counting, WellFoundedInduction, SequenceTheorems, TLAPS

\* The labels at which a process has taken a semaphore and not given it back,
\* by a post or, for the places of the table, by changing ontable.
Held(s) ==
  CASE s = "OVEN_LK" -> AtOven
    [] s = "OVEN_CAP" -> {"oven_lk", "remove", "removed", "find", "insert",
                          "inserted", "bake"}
    [] s = "TABLE_LK" -> {"put", "count", "counted", "get", "clear", "taken"}
    [] s = "TABLE_CAP" -> {"put_lk", "put", "count", "taken", "table_free"}
    [] s = "TABLE_AVAIL" -> {"get_lk", "get", "clear", "counted", "avail"}

\* What there is of a semaphore when nobody has taken it.
Supply(s) ==
  CASE s \in {"OVEN_LK", "TABLE_LK"} -> 1
    [] s = "OVEN_CAP" -> SLOTS
    [] s = "TABLE_CAP" -> SLOTS - ontable
    [] s = "TABLE_AVAIL" -> ontable

SemaphoreSums ==
  \A s \in Semaphore : sem[s] + Count(pc, Process, Held(s)) = Supply(s)

Types ==
  /\ build \in {"posix", "sysv"}
  /\ sem \in [Semaphore -> Nat]
  /\ ovenslots \in [Place -> PizzaType \cup {-1}]
  /\ tableslots \in [Place -> PizzaType \cup {-1}]
  /\ tablehead \in Place /\ tabletail \in Place
  /\ inoven \in Nat /\ ontable \in Nat
  /\ pc \in [Process -> CookLabels \cup CourierLabels]
  /\ \A c \in Cook : pc[c] \in CookLabels
  /\ \A d \in Courier : pc[d] \in CourierLabels
  /\ slot \in [Cook -> Place]
  /\ pizza \in [Process -> PizzaType \cup {None}]

\* Where a process has a pizza and where a courier has none.
WithPizza == {"oven_cap", "oven_lk", "find", "insert", "clear", "taken",
              "table_free", "deliver"} \cup Baking \cup Carrying
NoPizza == {"await", "get_lk", "get"}

HandsInv ==
  \A p \in Process : /\ pc[p] \in WithPizza => pizza[p] \in PizzaType
                     /\ pc[p] \in NoPizza => pizza[p] = None

OvenInv ==
  /\ FreePlaceFound /\ OwnPizza
  /\ inoven = Count(pc, Process, Baking)
  /\ Count(ovenslots, Place, PizzaType) = inoven

\* How long a place of the table has been in use, and the place x steps on.
Age(i) == IF tabletail <= i THEN i - tabletail ELSE i - tabletail + SLOTS
Wrap(x) == IF x < SLOTS THEN x ELSE x - SLOTS

\* The places in use are the ontable first of the ring, and the one at its
\* head while a cook has put a pizza there that it has not counted yet.
RingInv ==
  /\ tablehead = Wrap(tabletail + ontable)
  /\ \A i \in Place : tableslots[i] # -1 <=>
       Age(i) < ontable \/ (i = tablehead /\ \E p \in Process : At(p, "count"))
  /\ \A p \in Process : At(p, "count") => tableslots[tablehead] = pizza[p]
  /\ Count(tableslots, Place, PizzaType) = ontable + Count(pc, Process, {"count"})

IInv == Types /\ SemaphoreSums /\ HandsInv /\ OvenInv /\ RingInv

-------------------------------------------------------------------------------
(***************************************************************************)
(* Counting processes and semaphores.                                      *)
(***************************************************************************)
\* The processes and the places are finite sets.
LEMMA Finite ==
  /\ IsFiniteSet(Process) /\ IsFiniteSet(Place) /\ Cardinality(Place) = SLOTS
  <1>1. IsFiniteSet(Process)
    BY ProcessAssumption, FS_Union DEF Process
  <1>2. IsFiniteSet(Place) /\ Cardinality(Place) = SLOTS
    <2>1. 0 \in Int /\ SLOTS - 1 \in Int /\ 0 <= SLOTS - 1
      BY SlotsAssumption
    <2> QED
      BY <2>1, FS_Interval, SlotsAssumption DEF Place
  <1> QED
    BY <1>1, <1>2

\* What a step of one process does to the number of processes at some labels.
LEMMA ProcessMoves ==
  ASSUME Types, NEW p \in Process, NEW l, Goto(p, l), NEW L
  PROVE  /\ Count(pc, Process, L) \in Nat
         /\ Count(pc', Process, L) = Count(pc, Process, L) + Step(pc[p], l, L)
  <1>1. /\ Process \in SUBSET DOMAIN pc /\ p \in DOMAIN pc
        /\ pc' = [pc EXCEPT ![p] = l]
    BY DEF Types, Goto
  <1>2. Count([pc EXCEPT ![p] = l], Process, L) =
          Count(pc, Process, L) + (IF p \in Process THEN Step(pc[p], l, L) ELSE 0)
    BY <1>1, Finite, CountMove
  <1>3. Count(pc, Process, L) \in Nat
    BY Finite, CountType
  <1> QED
    BY <1>1, <1>2, <1>3

\* A process that holds a semaphore is counted, so there is one to hold.
LEMMA HeldIsSupplied ==
  ASSUME IInv, NEW s \in Semaphore, NEW p \in Process, pc[p] \in Held(s)
  PROVE  Supply(s) \in Int /\ Count(pc, Process, Held(s)) <= Supply(s) /\ Supply(s) >= 1
  <1>1. Count(pc, Process, Held(s)) \in Nat
    BY Finite, CountType
  <1>2. Count(pc, Process, Held(s)) # 0
    BY Finite, CountNone
  <1>3. sem[s] \in Nat /\ sem[s] + Count(pc, Process, Held(s)) = Supply(s)
    BY DEF IInv, Types, SemaphoreSums
  <1> QED
    BY <1>1, <1>2, <1>3

\* The two locks exclude: no two processes are in the same critical section.
LEMMA Alone ==
  ASSUME IInv, NEW s \in {"OVEN_LK", "TABLE_LK"}, NEW p \in Process, NEW q \in Process,
         pc[p] \in Held(s), pc[q] \in Held(s)
  PROVE  p = q
  <1>1. s \in Semaphore /\ Supply(s) = 1
    BY DEF Semaphore, Supply
  <1>2. Count(pc, Process, Held(s)) <= 1
    BY <1>1, HeldIsSupplied
  <1> QED
    BY <1>2, Finite, CountOne

\* A step that takes and gives what it changes in the semaphores and in the
\* supply keeps the sums.
LEMMA SumsStep ==
  ASSUME Types, SemaphoreSums, NEW p \in Process, NEW l, Goto(p, l),
         \A s \in Semaphore : /\ sem'[s] \in Nat /\ Supply(s) \in Int /\ Supply(s)' \in Int
                              /\ sem'[s] - sem[s] + Step(pc[p], l, Held(s))
                                   = Supply(s)' - Supply(s)
  PROVE  SemaphoreSums'
  <1>1. ASSUME NEW s \in Semaphore
        PROVE  sem'[s] + Count(pc', Process, Held(s)) = Supply(s)'
    <2> DEFINE n == Count(pc, Process, Held(s))
               m == Count(pc', Process, Held(s))
               d == Step(pc[p], l, Held(s))
    <2>1. n \in Nat /\ m = n + d
      BY ProcessMoves
    <2>2. d \in Int
      BY DEF Step
    <2>3. sem[s] \in Nat /\ sem[s] + n = Supply(s)
      BY DEF Types, SemaphoreSums
    <2>4. sem'[s] \in Nat /\ Supply(s) \in Int /\ Supply(s)' \in Int
          /\ sem'[s] - sem[s] + d = Supply(s)' - Supply(s)
      OBVIOUS
    <2> HIDE DEF n, m, d
    <2>5. sem'[s] + m = Supply(s)'
      BY <2>1, <2>2, <2>3, <2>4
    <2> QED
      BY <2>5 DEF m
  <1>2. \A s \in Semaphore : Held(s)' = Held(s)
    BY DEF Held
  <1> QED
    BY <1>1, <1>2 DEF SemaphoreSums

-------------------------------------------------------------------------------
(***************************************************************************)
(* Steps of one process on semaphores, with nothing else changed.          *)
(***************************************************************************)
\* From label `from` to label `to` just the semaphores of S are taken, or given.
Takes(from, to, S) ==
  \A s \in Semaphore : Step(from, to, Held(s)) = IF s \in S THEN 1 ELSE 0
Gives(from, to, S) ==
  \A s \in Semaphore : Step(from, to, Held(s)) = IF s \in S THEN -1 ELSE 0

\* Nothing the other invariants say of a process changes between the labels.
Quiet(from, to) ==
  /\ to \in CookLabels <=> from \in CookLabels
  /\ to \in CourierLabels <=> from \in CourierLabels
  /\ from # "count" /\ to # "count" /\ to # "insert"
  /\ from \in Baking <=> to \in Baking
  /\ to \in WithPizza => from \in WithPizza
  /\ to \in NoPizza => from \in NoPizza

\* If nothing is taken or given the semaphores and the table's counter stay.
LEMMA SumsStay ==
  ASSUME Types, SemaphoreSums, NEW p \in Process, NEW l, Goto(p, l),
         Takes(pc[p], l, {}), UNCHANGED <<sem, ontable>>
  PROVE  SemaphoreSums'
  <1>1. ASSUME NEW s \in Semaphore
        PROVE  /\ sem'[s] \in Nat /\ sem'[s] = sem[s]
               /\ Supply(s) \in Int /\ Supply(s)' = Supply(s)
               /\ Step(pc[p], l, Held(s)) = 0
    BY SlotsAssumption DEF Types, Supply, Takes, Semaphore
  <1> QED
    BY <1>1, SumsStep

\* Taking semaphores keeps the sums if the labels say so.
LEMMA DownStep ==
  ASSUME Types, SemaphoreSums, NEW p \in Process, NEW from, NEW to,
         NEW S \in SUBSET Semaphore, Down(S), Move(p, from, to), Takes(from, to, S)
  PROVE  sem' \in [Semaphore -> Nat] /\ SemaphoreSums'
  <1>1. Goto(p, to) /\ pc[p] = from /\ ontable' = ontable
    BY DEF Move, At, table
  <1>2. sem' \in [Semaphore -> Nat]
    BY DEF Down, Types
  <1>3. ASSUME NEW s \in Semaphore
        PROVE  /\ sem'[s] \in Nat /\ Supply(s) \in Int /\ Supply(s)' = Supply(s)
               /\ sem'[s] - sem[s] + Step(pc[p], to, Held(s)) = 0
    <2>1. Supply(s) \in Int /\ Supply(s)' = Supply(s)
      BY <1>1, SlotsAssumption DEF Types, Supply, Semaphore
    <2>2. sem[s] \in Nat /\ sem'[s] = IF s \in S THEN sem[s] - 1 ELSE sem[s]
      BY DEF Down, Types
    <2>3. Step(pc[p], to, Held(s)) = IF s \in S THEN 1 ELSE 0
      BY <1>1 DEF Takes
    <2> QED
      BY <1>2, <2>1, <2>2, <2>3
  <1>4. SemaphoreSums'
    BY <1>1, <1>3, SumsStep
  <1> QED
    BY <1>2, <1>4

\* Giving semaphores back keeps the sums if the labels say so.
LEMMA UpStep ==
  ASSUME Types, SemaphoreSums, NEW p \in Process, NEW from, NEW to,
         NEW S \in SUBSET Semaphore, Up(S), Move(p, from, to), Gives(from, to, S)
  PROVE  sem' \in [Semaphore -> Nat] /\ SemaphoreSums'
  <1>1. Goto(p, to) /\ pc[p] = from /\ ontable' = ontable
    BY DEF Move, At, table
  <1>2. sem' \in [Semaphore -> Nat]
    BY DEF Up, Types
  <1>3. ASSUME NEW s \in Semaphore
        PROVE  /\ sem'[s] \in Nat /\ Supply(s) \in Int /\ Supply(s)' = Supply(s)
               /\ sem'[s] - sem[s] + Step(pc[p], to, Held(s)) = 0
    <2>1. Supply(s) \in Int /\ Supply(s)' = Supply(s)
      BY <1>1, SlotsAssumption DEF Types, Supply, Semaphore
    <2>2. sem[s] \in Nat /\ sem'[s] = IF s \in S THEN sem[s] + 1 ELSE sem[s]
      BY DEF Up, Types
    <2>3. Step(pc[p], to, Held(s)) = IF s \in S THEN -1 ELSE 0
      BY <1>1 DEF Gives
    <2> QED
      BY <1>2, <2>1, <2>2, <2>3
  <1>4. SemaphoreSums'
    BY <1>1, <1>3, SumsStep
  <1> QED
    BY <1>2, <1>4

\* A quiet move keeps the rest of the invariant.
LEMMA MoveKeeps ==
  ASSUME IInv, NEW p \in Process, NEW from, NEW to, Move(p, from, to), Quiet(from, to),
         sem' \in [Semaphore -> Nat], SemaphoreSums'
  PROVE  IInv'
  <1> USE DEF IInv
  <1>1. /\ Goto(p, to) /\ pc[p] = from
        /\ UNCHANGED <<build, ovenslots, inoven, slot, pizza>>
        /\ UNCHANGED <<tableslots, tablehead, tabletail, ontable>>
    BY DEF Move, At, oven, table
  <1>2. /\ pc' = [pc EXCEPT ![p] = to] /\ pc'[p] = to
        /\ \A q \in Process : q # p => pc'[q] = pc[q]
    BY <1>1 DEF Goto, Types
  <1>3. \A c \in Cook : c \in Process
    BY DEF Process
  <1>4. Types'
    <2>1. /\ to \in CookLabels \cup CourierLabels
          /\ p \in Cook => to \in CookLabels
          /\ p \in Courier => to \in CourierLabels
      BY <1>1 DEF Types, Quiet
    <2> QED
      BY <1>1, <1>2, <2>1 DEF Types, Place, Process
  <1>5. HandsInv'
    BY <1>1, <1>2 DEF HandsInv, Quiet
  <1>6. /\ Count(pc', Process, Baking) = Count(pc, Process, Baking)
        /\ Count(pc', Process, {"count"}) = Count(pc, Process, {"count"})
    BY <1>1, ProcessMoves DEF Step, Quiet
  <1>7. OvenInv'
    <2>1. FreePlaceFound'
      BY <1>1, <1>2, <1>3 DEF OvenInv, FreePlaceFound, At, Place, Quiet
    <2>2. OwnPizza'
      BY <1>1, <1>2, <1>3 DEF OvenInv, OwnPizza, Quiet
    <2>3. Place' = Place /\ Baking' = Baking
      BY DEF Place, Baking
    <2> QED
      BY <1>1, <1>6, <2>1, <2>2 DEF OvenInv, Place, Baking
  <1>8. RingInv'
    <2>1. \A q \in Process : At(q, "count")' <=> At(q, "count")
      BY <1>1, <1>2 DEF At, Quiet
    <2> QED
      BY <1>1, <1>6, <2>1 DEF RingInv, Place, Age, Wrap
  <1> QED
    BY <1>4, <1>5, <1>7, <1>8

\* Two waits, one after the other or in one semop.
LEMMA WaitsKeep ==
  ASSUME IInv, NEW p \in Process, NEW from, NEW between, NEW to,
         NEW first \in Semaphore, NEW second \in Semaphore,
         Wait2(p, first, second, from, between, to),
         Takes(from, between, {first}), Quiet(from, between),
         Takes(between, to, {second}), Quiet(between, to),
         Takes(from, to, {first, second}), Quiet(from, to)
  PROVE  IInv'
  <1>1. CASE Down({first}) /\ Move(p, from, between)
    BY <1>1, DownStep, MoveKeeps DEF IInv
  <1>2. CASE Down({second}) /\ Move(p, between, to)
    BY <1>2, DownStep, MoveKeeps DEF IInv
  <1>3. CASE Down({first, second}) /\ Move(p, from, to)
    BY <1>3, DownStep, MoveKeeps DEF IInv
  <1> QED
    BY <1>1, <1>2, <1>3 DEF Wait2

\* Two posts, one after the other or in one semop.
LEMMA PostsKeep ==
  ASSUME IInv, NEW p \in Process, NEW from, NEW between, NEW to,
         NEW first \in Semaphore, NEW second \in Semaphore,
         Post2(p, first, second, from, between, to),
         Gives(from, between, {first}), Quiet(from, between),
         Gives(between, to, {second}), Quiet(between, to),
         Gives(from, to, {first, second}), Quiet(from, to)
  PROVE  IInv'
  <1>1. CASE Up({first}) /\ Move(p, from, between)
    BY <1>1, UpStep, MoveKeeps DEF IInv
  <1>2. CASE Up({second}) /\ Move(p, between, to)
    BY <1>2, UpStep, MoveKeeps DEF IInv
  <1>3. CASE Up({first, second}) /\ Move(p, from, to)
    BY <1>3, UpStep, MoveKeeps DEF IInv
  <1> QED
    BY <1>1, <1>2, <1>3 DEF Post2

\* The labels at which each semaphore is held, expanded.
LEMMA HeldSets ==
  /\ Semaphore = {"OVEN_LK", "OVEN_CAP", "TABLE_LK", "TABLE_CAP", "TABLE_AVAIL"}
  /\ Held("OVEN_LK") = {"find", "insert", "inserted", "remove", "removed", "remove_unlk"}
  /\ Held("OVEN_CAP") = {"oven_lk", "remove", "removed", "find", "insert",
                         "inserted", "bake"}
  /\ Held("TABLE_LK") = {"put", "count", "counted", "get", "clear", "taken"}
  /\ Held("TABLE_CAP") = {"put_lk", "put", "count", "taken", "table_free"}
  /\ Held("TABLE_AVAIL") = {"get_lk", "get", "clear", "counted", "avail"}
  BY DEF Semaphore, Held, AtOven

\* Waiting for the oven: its capacity, then its lock.
LEMMA OvenWait ==
  ASSUME IInv, NEW c \in Cook, oven_before_insert(c)
  PROVE  IInv'
  <1>1. /\ Takes("oven_cap", "oven_lk", {"OVEN_CAP"})
        /\ Takes("oven_lk", "find", {"OVEN_LK"})
        /\ Takes("oven_cap", "find", {"OVEN_CAP", "OVEN_LK"})
    BY HeldSets DEF Takes, Step
  <1>2. /\ Quiet("oven_cap", "oven_lk") /\ Quiet("oven_lk", "find")
        /\ Quiet("oven_cap", "find")
    BY DEF Quiet, CookLabels, CourierLabels, AtOven, Baking, Carrying, WithPizza, NoPizza
  <1>3. c \in Process /\ "OVEN_CAP" \in Semaphore /\ "OVEN_LK" \in Semaphore
    BY HeldSets DEF Process
  <1> QED
    BY <1>1, <1>2, <1>3, WaitsKeep DEF oven_before_insert

\* Giving the lock of the oven back and taking it again.
LEMMA OvenLock ==
  ASSUME IInv, NEW c \in Cook, oven_after_insert(c) \/ oven_before_remove(c)
  PROVE  IInv'
  <1>1. c \in Process /\ {"OVEN_LK"} \in SUBSET Semaphore
    BY HeldSets DEF Process
  <1>2. CASE oven_after_insert(c)
    <2>1. Gives("inserted", "bake", {"OVEN_LK"})
      BY HeldSets DEF Gives, Step
    <2>2. Quiet("inserted", "bake")
      BY DEF Quiet, CookLabels, CourierLabels, AtOven, Baking, Carrying, WithPizza, NoPizza
    <2> QED
      BY <1>1, <1>2, <2>1, <2>2, UpStep, MoveKeeps DEF oven_after_insert, IInv
  <1>3. CASE oven_before_remove(c)
    <2>1. Takes("bake", "remove", {"OVEN_LK"})
      BY HeldSets DEF Takes, Step
    <2>2. Quiet("bake", "remove")
      BY DEF Quiet, CookLabels, CourierLabels, AtOven, Baking, Carrying, WithPizza, NoPizza
    <2> QED
      BY <1>1, <1>3, <2>1, <2>2, DownStep, MoveKeeps DEF oven_before_remove, IInv
  <1> QED
    BY <1>2, <1>3

\* Leaving the oven: its capacity, then its lock.
LEMMA OvenPost ==
  ASSUME IInv, NEW c \in Cook, oven_after_remove(c)
  PROVE  IInv'
  <1>1. /\ Gives("removed", "remove_unlk", {"OVEN_CAP"})
        /\ Gives("remove_unlk", "table_cap", {"OVEN_LK"})
        /\ Gives("removed", "table_cap", {"OVEN_CAP", "OVEN_LK"})
    BY HeldSets DEF Gives, Step
  <1>2. /\ Quiet("removed", "remove_unlk") /\ Quiet("remove_unlk", "table_cap")
        /\ Quiet("removed", "table_cap")
    BY DEF Quiet, CookLabels, CourierLabels, AtOven, Baking, Carrying, WithPizza, NoPizza
  <1>3. c \in Process /\ "OVEN_CAP" \in Semaphore /\ "OVEN_LK" \in Semaphore
    BY HeldSets DEF Process
  <1> QED
    BY <1>1, <1>2, <1>3, PostsKeep DEF oven_after_remove

\* A cook waits for a place on the table, then for its lock.
LEMMA TablePutWait ==
  ASSUME IInv, NEW c \in Cook, table_before_put(c)
  PROVE  IInv'
  <1>1. /\ Takes("table_cap", "put_lk", {"TABLE_CAP"})
        /\ Takes("put_lk", "put", {"TABLE_LK"})
        /\ Takes("table_cap", "put", {"TABLE_CAP", "TABLE_LK"})
    BY HeldSets DEF Takes, Step
  <1>2. /\ Quiet("table_cap", "put_lk") /\ Quiet("put_lk", "put")
        /\ Quiet("table_cap", "put")
    BY DEF Quiet, CookLabels, CourierLabels, AtOven, Baking, Carrying, WithPizza, NoPizza
  <1>3. c \in Process /\ "TABLE_CAP" \in Semaphore /\ "TABLE_LK" \in Semaphore
    BY HeldSets DEF Process
  <1> QED
    BY <1>1, <1>2, <1>3, WaitsKeep DEF table_before_put

\* It gives the lock back and posts the pizza it has put.
LEMMA TablePutPost ==
  ASSUME IInv, NEW c \in Cook, table_after_put(c)
  PROVE  IInv'
  <1>1. /\ Gives("counted", "avail", {"TABLE_LK"})
        /\ Gives("avail", "prepare", {"TABLE_AVAIL"})
        /\ Gives("counted", "prepare", {"TABLE_LK", "TABLE_AVAIL"})
    BY HeldSets DEF Gives, Step
  <1>2. /\ Quiet("counted", "avail") /\ Quiet("avail", "prepare")
        /\ Quiet("counted", "prepare")
    BY DEF Quiet, CookLabels, CourierLabels, AtOven, Baking, Carrying, WithPizza, NoPizza
  <1>3. c \in Process /\ "TABLE_AVAIL" \in Semaphore /\ "TABLE_LK" \in Semaphore
    BY HeldSets DEF Process
  <1> QED
    BY <1>1, <1>2, <1>3, PostsKeep DEF table_after_put

\* A courier waits for a pizza, then for the lock of the table.
LEMMA TableGetWait ==
  ASSUME IInv, NEW d \in Courier, table_before_get(d)
  PROVE  IInv'
  <1>1. /\ Takes("await", "get_lk", {"TABLE_AVAIL"})
        /\ Takes("get_lk", "get", {"TABLE_LK"})
        /\ Takes("await", "get", {"TABLE_AVAIL", "TABLE_LK"})
    BY HeldSets DEF Takes, Step
  <1>2. Quiet("await", "get_lk") /\ Quiet("get_lk", "get") /\ Quiet("await", "get")
    BY DEF Quiet, CookLabels, CourierLabels, AtOven, Baking, Carrying, WithPizza, NoPizza
  <1>3. d \in Process /\ "TABLE_AVAIL" \in Semaphore /\ "TABLE_LK" \in Semaphore
    BY HeldSets DEF Process
  <1> QED
    BY <1>1, <1>2, <1>3, WaitsKeep DEF table_before_get

\* It gives the lock back and posts the place it has cleared.
LEMMA TableGetPost ==
  ASSUME IInv, NEW d \in Courier, table_after_get(d)
  PROVE  IInv'
  <1>1. /\ Gives("taken", "table_free", {"TABLE_LK"})
        /\ Gives("table_free", "deliver", {"TABLE_CAP"})
        /\ Gives("taken", "deliver", {"TABLE_LK", "TABLE_CAP"})
    BY HeldSets DEF Gives, Step
  <1>2. /\ Quiet("taken", "table_free") /\ Quiet("table_free", "deliver")
        /\ Quiet("taken", "deliver")
    BY DEF Quiet, CookLabels, CourierLabels, AtOven, Baking, Carrying, WithPizza, NoPizza
  <1>3. d \in Process /\ "TABLE_CAP" \in Semaphore /\ "TABLE_LK" \in Semaphore
    BY HeldSets DEF Process
  <1> QED
    BY <1>1, <1>2, <1>3, PostsKeep DEF table_after_get

-------------------------------------------------------------------------------
(***************************************************************************)
(* Steps of one process on what is shared, or on what is its own.          *)
(***************************************************************************)
\* What a process changes of its pizza it changes of its own.
LEMMA OwnStep ==
  ASSUME IInv, NEW p \in Process, NEW l, Goto(p, l), NEW v \in PizzaType \cup {None},
         pizza' = [pizza EXCEPT ![p] = v],
         UNCHANGED <<build, sem, oven, table, slot>>, Takes(pc[p], l, {}),
         l \in CookLabels <=> pc[p] \in CookLabels,
         l \in CourierLabels <=> pc[p] \in CourierLabels,
         {pc[p], l} \cap (Baking \cup {"count", "insert"}) = {},
         l \in WithPizza => v \in PizzaType, l \in NoPizza => v = None
  PROVE  IInv'
  <1> USE DEF IInv
  <1>1. /\ UNCHANGED <<ovenslots, inoven, slot, build, sem>>
        /\ UNCHANGED <<tableslots, tablehead, tabletail, ontable>>
    BY DEF oven, table
  <1>2. /\ pc' = [pc EXCEPT ![p] = l] /\ pc'[p] = l
        /\ \A q \in Process : q # p => pc'[q] = pc[q]
        /\ pizza'[p] = v /\ \A q \in Process : q # p => pizza'[q] = pizza[q]
    BY DEF Goto, Types
  <1>3. \A c \in Cook : c \in Process
    BY DEF Process
  <1>4. Types'
    BY <1>1, <1>2, ProcessAssumption DEF Types, Place, Process
  <1>5. SemaphoreSums'
    BY <1>1, SumsStay
  <1>6. HandsInv'
    BY <1>2 DEF HandsInv
  <1>7. /\ Count(pc', Process, Baking) = Count(pc, Process, Baking)
        /\ Count(pc', Process, {"count"}) = Count(pc, Process, {"count"})
    BY ProcessMoves DEF Step
  <1>8. OvenInv'
    <2>1. FreePlaceFound'
      BY <1>1, <1>2, <1>3 DEF OvenInv, FreePlaceFound, At, Place
    <2>2. OwnPizza'
      BY <1>1, <1>2, <1>3 DEF OvenInv, OwnPizza
    <2> QED
      BY <1>1, <1>7, <2>1, <2>2 DEF OvenInv, Place, Baking
  <1>9. RingInv'
    <2>1. \A q \in Process : At(q, "count") => q # p /\ pizza'[q] = pizza[q]
      BY <1>2 DEF At
    <2>2. \A q \in Process : At(q, "count")' <=> At(q, "count")
      BY <1>2 DEF At
    <2> QED
      BY <1>1, <1>7, <2>1, <2>2 DEF RingInv, Place, Age, Wrap
  <1> QED
    BY <1>4, <1>5, <1>6, <1>8, <1>9

\* A cook takes the pizza it prepares into its hands.
LEMMA PrepareStep ==
  ASSUME IInv, NEW c \in Cook, Prepare(c)
  PROVE  IInv'
  <1>1. PICK type \in PizzaType : pizza' = [pizza EXCEPT ![c] = type]
    BY DEF Prepare
  <1>2. /\ c \in Process /\ pc[c] = "prepare" /\ Goto(c, "oven_cap")
        /\ UNCHANGED <<build, sem, oven, table, slot>>
    BY DEF Prepare, Process, At
  <1>3. Takes("prepare", "oven_cap", {})
    BY HeldSets DEF Takes, Step
  <1>4. /\ {"prepare", "oven_cap"} \subseteq CookLabels
        /\ {"prepare", "oven_cap"} \cap CourierLabels = {}
        /\ {"prepare", "oven_cap"} \cap (Baking \cup {"count", "insert"}) = {}
        /\ "oven_cap" \notin NoPizza
    BY DEF CookLabels, CourierLabels, AtOven, Baking, NoPizza
  <1> QED
    BY <1>1, <1>2, <1>3, <1>4, OwnStep

\* A courier reads the pizza at the tail of the ring: there is one, because it
\* waited for it.
LEMMA GetStep ==
  ASSUME IInv, NEW d \in Courier, Get(d)
  PROVE  IInv' /\ ontable >= 1 /\ tableslots[tabletail] \in PizzaType
  <1>1. /\ d \in Process /\ pc[d] = "get" /\ Goto(d, "clear")
        /\ pizza' = [pizza EXCEPT ![d] = tableslots[tabletail]]
        /\ UNCHANGED <<build, sem, oven, table, slot>>
    BY DEF Get, Process, At
  <1>2. ontable >= 1
    BY <1>1, HeldSets, HeldIsSupplied DEF Supply
  <1>3. tableslots[tabletail] \in PizzaType
    <2>1. tabletail \in Place /\ Age(tabletail) = 0 /\ ontable \in Nat
      BY DEF IInv, Types, Age, Place
    <2>2. tableslots[tabletail] # -1
      BY <1>2, <2>1 DEF IInv, RingInv
    <2> QED
      BY <2>1, <2>2 DEF IInv, Types
  <1>4. Takes("get", "clear", {})
    BY HeldSets DEF Takes, Step
  <1>5. /\ {"get", "clear"} \subseteq CourierLabels
        /\ {"get", "clear"} \cap CookLabels = {}
        /\ {"get", "clear"} \cap (Baking \cup {"count", "insert"}) = {}
        /\ "clear" \notin NoPizza
    BY DEF CookLabels, CourierLabels, AtOven, Baking, NoPizza
  <1>6. IInv'
    BY <1>1, <1>3, <1>4, <1>5, OwnStep
  <1> QED
    BY <1>2, <1>3, <1>6

\* A courier delivers its pizza.
LEMMA DeliverStep ==
  ASSUME IInv, NEW d \in Courier, Deliver(d)
  PROVE  IInv'
  <1>1. /\ d \in Process /\ pc[d] = "deliver" /\ Goto(d, "await")
        /\ pizza' = [pizza EXCEPT ![d] = None]
        /\ UNCHANGED <<build, sem, oven, table, slot>>
    BY DEF Deliver, Process, At
  <1>2. Takes("deliver", "await", {})
    BY HeldSets DEF Takes, Step
  <1>3. /\ {"deliver", "await"} \subseteq CourierLabels
        /\ {"deliver", "await"} \cap CookLabels = {}
        /\ {"deliver", "await"} \cap (Baking \cup {"count", "insert"}) = {}
        /\ "await" \notin WithPizza
    BY DEF CookLabels, CourierLabels, AtOven, Baking, WithPizza, Carrying
  <1> QED
    BY <1>1, <1>2, <1>3, OwnStep

\* A cook past the capacity of the oven and its lock finds a free place: those
\* that bake are fewer than those that hold the capacity.
LEMMA PlaceToFind ==
  ASSUME IInv, NEW c \in Cook, pc[c] = "find"
  PROVE  FreeSlot \in Place /\ ovenslots[FreeSlot] = -1
  <1>1. Count(ovenslots, Place, PizzaType) < SLOTS
    <2>1. c \in Process /\ pc[c] \in Held("OVEN_CAP") \ Baking
          /\ Baking \subseteq Held("OVEN_CAP") /\ "OVEN_CAP" \in Semaphore
      BY HeldSets DEF Process, Baking
    <2>2. Count(pc, Process, Baking) < Count(pc, Process, Held("OVEN_CAP"))
      BY <2>1, Finite, CountLess
    <2>3. Count(pc, Process, Held("OVEN_CAP")) <= SLOTS
      BY <2>1, HeldIsSupplied DEF Supply
    <2>4. /\ Count(pc, Process, Baking) \in Nat
          /\ Count(pc, Process, Held("OVEN_CAP")) \in Nat
      BY Finite, CountType
    <2>5. Count(ovenslots, Place, PizzaType) = Count(pc, Process, Baking)
      BY DEF IInv, OvenInv
    <2> QED
      BY <2>2, <2>3, <2>4, <2>5, SlotsAssumption
  <1> DEFINE free == {i \in Place : ovenslots[i] < 0}
  <1>2. \A i \in Place : i \in free <=> ovenslots[i] = -1
    <2>1. \A v \in PizzaType \cup {-1} : v < 0 <=> v = -1
      BY TypeAssumption
    <2>2. \A i \in Place : ovenslots[i] \in PizzaType \cup {-1}
      BY DEF IInv, Types
    <2> QED
      BY <2>1, <2>2
  <1>3. free # {}
    <2>1. ASSUME free = {}
          PROVE  FALSE
      <3>1. {i \in Place : ovenslots[i] \in PizzaType} = Place
        BY <1>2, <2>1 DEF IInv, Types
      <3>2. Count(ovenslots, Place, PizzaType) = SLOTS
        BY <3>1, Finite DEF Count
      <3> QED
        BY <1>1, <3>2, SlotsAssumption
    <2> QED
      BY <2>1
  <1>4. \E i \in free : \A k \in free : i <= k
    <2>1. free \subseteq Nat
      BY DEF Place
    <2> HIDE DEF free
    <2>2. PICK i \in free : \A k \in free : ~(<<k, i>> \in OpToRel(<, Nat))
      BY <1>3, <2>1, WFMin, NatLessThanWellFounded
    <2>3. \A k \in free : ~(k < i)
      BY <2>1, <2>2 DEF OpToRel
    <2> QED
      BY <2>1, <2>3
  <1>5. FreeSlot = CHOOSE i \in free : \A k \in free : i <= k
    BY <1>3 DEF FreeSlot
  <1>6. FreeSlot \in free
    <2> HIDE DEF free
    <2> QED
      BY <1>4, <1>5
  <1> QED
    BY <1>2, <1>6

\* The cook remembers the place it has found.
LEMMA FindSlotStep ==
  ASSUME IInv, NEW c \in Cook, FindSlot(c)
  PROVE  IInv'
  <1> USE DEF IInv
  <1>1. /\ c \in Process /\ pc[c] = "find" /\ Goto(c, "insert")
        /\ slot' = [slot EXCEPT ![c] = FreeSlot]
        /\ UNCHANGED <<build, sem, ovenslots, inoven, pizza>>
        /\ UNCHANGED <<tableslots, tablehead, tabletail, ontable>>
    BY DEF FindSlot, Process, At, oven, table
  <1>2. /\ pc' = [pc EXCEPT ![c] = "insert"] /\ pc'[c] = "insert"
        /\ \A q \in Process : q # c => pc'[q] = pc[q]
        /\ \A b \in Cook : slot'[b] = IF b = c THEN FreeSlot ELSE slot[b]
    BY <1>1 DEF Goto, Types
  <1>3. FreeSlot \in Place /\ ovenslots[FreeSlot] = -1
    BY <1>1, PlaceToFind
  <1>4. Types'
    BY <1>1, <1>2, <1>3, ProcessAssumption
    DEF Types, Place, Process, CookLabels, CourierLabels, AtOven
  <1>5. SemaphoreSums'
    <2>1. Takes("find", "insert", {})
      BY HeldSets DEF Takes, Step
    <2> QED
      BY <1>1, <2>1, SumsStay
  <1>6. HandsInv'
    BY <1>1, <1>2 DEF HandsInv, WithPizza, NoPizza
  <1>7. /\ Count(pc', Process, Baking) = Count(pc, Process, Baking)
        /\ Count(pc', Process, {"count"}) = Count(pc, Process, {"count"})
    BY <1>1, ProcessMoves DEF Step, Baking
  <1>8. OvenInv'
    <2>1. FreePlaceFound'
      BY <1>1, <1>2, <1>3 DEF OvenInv, FreePlaceFound, At, Place, Process
    <2>2. OwnPizza'
      BY <1>1, <1>2 DEF OvenInv, OwnPizza, Baking, Process
    <2> QED
      BY <1>1, <1>7, <2>1, <2>2 DEF OvenInv, Place, Baking
  <1>9. RingInv'
    <2>1. \A q \in Process : At(q, "count")' <=> At(q, "count")
      BY <1>1, <1>2 DEF At
    <2> QED
      BY <1>1, <1>7, <2>1 DEF RingInv, Place, Age, Wrap
  <1> QED
    BY <1>4, <1>5, <1>6, <1>8, <1>9

\* What writing one place does to the number of places in use.
LEMMA PlaceWritten ==
  ASSUME NEW slots \in [Place -> PizzaType \cup {-1}], NEW i \in Place, NEW v
  PROVE  Count([slots EXCEPT ![i] = v], Place, PizzaType)
           = Count(slots, Place, PizzaType) + Step(slots[i], v, PizzaType)
         /\ Count(slots, Place, PizzaType) \in Nat
  <1>1. Place \in SUBSET DOMAIN slots /\ i \in DOMAIN slots
    OBVIOUS
  <1>2. Count(slots, Place, PizzaType) \in Nat
    BY Finite, CountType
  <1>3. Count([slots EXCEPT ![i] = v], Place, PizzaType)
          = Count(slots, Place, PizzaType)
              + (IF i \in Place THEN Step(slots[i], v, PizzaType) ELSE 0)
    BY <1>1, Finite, CountMove
  <1> QED
    BY <1>2, <1>3

\* A cook fills the place it found, still free because no other cook was let
\* into the oven.
LEMMA InsertStep ==
  ASSUME IInv, NEW c \in Cook, Insert(c)
  PROVE  IInv'
  <1> USE DEF IInv
  <1>1. /\ c \in Process /\ pc[c] = "insert" /\ Goto(c, "inserted")
        /\ ovenslots' = [ovenslots EXCEPT ![slot[c]] = pizza[c]]
        /\ inoven' = inoven + 1
        /\ UNCHANGED <<build, sem, slot, pizza>>
        /\ UNCHANGED <<tableslots, tablehead, tabletail, ontable>>
    BY DEF Insert, Process, At, table
  <1>2. /\ pc' = [pc EXCEPT ![c] = "inserted"] /\ pc'[c] = "inserted"
        /\ \A q \in Process : q # c => pc'[q] = pc[q]
    BY <1>1 DEF Goto, Types
  <1>3. slot[c] \in Place /\ ovenslots[slot[c]] = -1 /\ pizza[c] \in PizzaType
    BY <1>1 DEF OvenInv, FreePlaceFound, At, HandsInv, WithPizza
  <1>4. /\ -1 \notin PizzaType
        /\ \A i \in Place : ovenslots'[i] = IF i = slot[c] THEN pizza[c] ELSE ovenslots[i]
    BY <1>1, TypeAssumption DEF Types
  <1>5. Types'
    BY <1>1, <1>2, <1>3, ProcessAssumption
    DEF Types, Place, Process, CookLabels, CourierLabels, AtOven
  <1>6. SemaphoreSums'
    <2>1. Takes("insert", "inserted", {})
      BY HeldSets DEF Takes, Step
    <2> QED
      BY <1>1, <2>1, SumsStay
  <1>7. HandsInv'
    BY <1>1, <1>2, <1>3 DEF HandsInv, NoPizza
  <1>8. /\ Count(pc', Process, Baking) = inoven + 1
        /\ Count(pc', Process, {"count"}) = Count(pc, Process, {"count"})
    <2>1. inoven = Count(pc, Process, Baking)
      BY DEF OvenInv
    <2> QED
      BY <1>1, <2>1, ProcessMoves DEF Step, Baking
  <1>9. Count(ovenslots', Place, PizzaType) = inoven + 1
    <2>1. Count(ovenslots', Place, PizzaType)
            = Count(ovenslots, Place, PizzaType) + Step(ovenslots[slot[c]], pizza[c], PizzaType)
      BY <1>1, <1>3, PlaceWritten DEF Types
    <2>2. Step(ovenslots[slot[c]], pizza[c], PizzaType) = 1
      BY <1>3, <1>4 DEF Step
    <2> QED
      BY <2>1, <2>2 DEF OvenInv
  <1>10. FreePlaceFound'
    <2>1. \A b \in Cook : pc'[b] # "insert"
      <3>1. \A b \in Cook : pc[b] = "insert" => b = c
        BY <1>1, HeldSets, Alone DEF Process
      <3> QED
        BY <1>2, <3>1 DEF Process
    <2> QED
      BY <2>1 DEF FreePlaceFound, At
  <1>11. OwnPizza'
    <2>1. \A b \in Cook : b # c /\ pc[b] \in Baking =>
            pizza[b] \in PizzaType /\ ovenslots[slot[b]] = pizza[b] /\ slot[b] # slot[c]
      BY <1>3, <1>4 DEF OvenInv, OwnPizza, HandsInv, WithPizza, Process
    <2>2. \A b \in Cook : b # c => (pc'[b] \in Baking <=> pc[b] \in Baking)
      BY <1>2 DEF Process
    <2>3. \A b \in Cook : slot[b] \in Place
      BY DEF Types
    <2> QED
      BY <1>1, <1>3, <1>4, <2>1, <2>2, <2>3 DEF OvenInv, OwnPizza
  <1>12. OvenInv'
    BY <1>1, <1>8, <1>9, <1>10, <1>11 DEF OvenInv, Place, Baking
  <1>13. RingInv'
    <2>1. \A q \in Process : At(q, "count")' <=> At(q, "count")
      BY <1>1, <1>2 DEF At
    <2> QED
      BY <1>1, <1>8, <2>1 DEF RingInv, Place, Age, Wrap
  <1> QED
    BY <1>5, <1>6, <1>7, <1>12, <1>13

\* A cook takes its own pizza out and frees its place, and nobody else's.
LEMMA RemoveStep ==
  ASSUME IInv, NEW c \in Cook, Remove(c)
  PROVE  IInv'
  <1> USE DEF IInv
  <1>1. /\ c \in Process /\ pc[c] = "remove" /\ Goto(c, "removed")
        /\ pizza' = [pizza EXCEPT ![c] = ovenslots[slot[c]]]
        /\ ovenslots' = [ovenslots EXCEPT ![slot[c]] = -1]
        /\ slot' = [slot EXCEPT ![c] = 0]
        /\ inoven' = inoven - 1
        /\ UNCHANGED <<build, sem>>
        /\ UNCHANGED <<tableslots, tablehead, tabletail, ontable>>
    BY DEF Remove, Process, At, table
  <1>2. /\ pc' = [pc EXCEPT ![c] = "removed"] /\ pc'[c] = "removed"
        /\ \A q \in Process : q # c => pc'[q] = pc[q]
    BY <1>1 DEF Goto, Types
  <1>3. slot[c] \in Place /\ pizza[c] \in PizzaType /\ ovenslots[slot[c]] = pizza[c]
    BY <1>1 DEF OvenInv, OwnPizza, HandsInv, WithPizza, Baking, Types
  <1>4. pizza' = pizza
    BY <1>1, <1>3 DEF Types
  <1>5. /\ -1 \notin PizzaType
        /\ \A i \in Place : ovenslots'[i] = IF i = slot[c] THEN -1 ELSE ovenslots[i]
        /\ \A b \in Cook : b # c => slot'[b] = slot[b]
    BY <1>1, TypeAssumption DEF Types
  <1>6. /\ Count(pc', Process, Baking) = inoven - 1
        /\ Count(pc', Process, {"count"}) = Count(pc, Process, {"count"})
        /\ inoven - 1 \in Nat
    <2>1. inoven = Count(pc, Process, Baking)
      BY DEF OvenInv
    <2>2. Count(pc', Process, Baking) \in Nat
      BY Finite, CountType
    <2>3. Step("remove", "removed", Baking) = -1
      BY DEF Step, Baking
    <2>4. Step("remove", "removed", {"count"}) = 0
      BY DEF Step
    <2>5. /\ Count(pc', Process, Baking) = Count(pc, Process, Baking) - 1
          /\ Count(pc', Process, {"count"}) = Count(pc, Process, {"count"})
      BY <1>1, <2>3, <2>4, ProcessMoves
    <2> QED
      BY <2>1, <2>2, <2>5
  <1>7. Types'
    BY <1>1, <1>2, <1>4, <1>6, ProcessAssumption, SlotsAssumption
    DEF Types, Place, Process, CookLabels, CourierLabels, AtOven
  <1>8. SemaphoreSums'
    <2>1. Takes("remove", "removed", {})
      BY HeldSets DEF Takes, Step
    <2> QED
      BY <1>1, <2>1, SumsStay
  <1>9. HandsInv'
    BY <1>1, <1>2, <1>3, <1>4 DEF HandsInv, NoPizza
  <1>10. Count(ovenslots', Place, PizzaType) = inoven - 1
    <2>1. Count(ovenslots', Place, PizzaType)
            = Count(ovenslots, Place, PizzaType) + Step(ovenslots[slot[c]], -1, PizzaType)
      BY <1>1, <1>3, PlaceWritten DEF Types
    <2>2. Step(ovenslots[slot[c]], -1, PizzaType) = -1
      BY <1>3, <1>5 DEF Step
    <2> QED
      BY <2>1, <2>2 DEF OvenInv, Types
  <1>11. FreePlaceFound'
    <2>1. \A b \in Cook : pc'[b] # "insert"
      <3>1. \A b \in Cook : pc[b] = "insert" => b = c
        BY <1>1, HeldSets, Alone DEF Process
      <3> QED
        BY <1>1, <1>2, <3>1 DEF Process
    <2> QED
      BY <2>1 DEF FreePlaceFound, At
  <1>12. OwnPizza'
    <2>1. \A b \in Cook : b # c /\ pc[b] \in Baking =>
            ovenslots[slot[b]] = pizza[b] /\ slot[b] # slot[c]
      BY <1>1 DEF OvenInv, OwnPizza, Baking
    <2>2. \A b \in Cook : b # c => (pc'[b] \in Baking <=> pc[b] \in Baking)
      BY <1>2 DEF Process
    <2>3. \A b \in Cook : slot[b] \in Place
      BY DEF Types
    <2>4. pc'[c] \notin Baking
      BY <1>2 DEF Baking
    <2> QED
      BY <1>4, <1>5, <2>1, <2>2, <2>3, <2>4 DEF OvenInv, OwnPizza
  <1>13. OvenInv'
    BY <1>1, <1>6, <1>10, <1>11, <1>12 DEF OvenInv, Place, Baking
  <1>14. RingInv'
    <2>1. \A q \in Process : At(q, "count")' <=> At(q, "count")
      BY <1>1, <1>2 DEF At
    <2> QED
      BY <1>1, <1>4, <1>6, <2>1 DEF RingInv, Place, Age, Wrap
  <1> QED
    BY <1>7, <1>8, <1>9, <1>13, <1>14

-------------------------------------------------------------------------------
(***************************************************************************)
(* The ring on the table.                                                  *)
(***************************************************************************)
\* The remainder the code takes is one step around the ring.
LEMMA RemainderWraps ==
  ASSUME NEW x \in 0 .. 2 * SLOTS - 1
  PROVE  x % SLOTS = Wrap(x) /\ Wrap(x) \in Place
  <1>1. Wrap(x) \in Place
    BY SlotsAssumption DEF Wrap, Place
  <1>2. CASE x < SLOTS
    <2>1. SLOTS \in Nat \ {0} /\ x \in 0 .. SLOTS - 1
      BY <1>2, SlotsAssumption
    <2>2. x % SLOTS = x
      BY <2>1, Z3
    <2> QED
      BY <1>1, <1>2, <2>2 DEF Wrap
  <1>3. CASE x >= SLOTS
    <2>1. SLOTS \in Nat \ {0} /\ x \in SLOTS .. 2 * SLOTS - 1
      BY <1>3, SlotsAssumption
    <2>2. x % SLOTS = x - SLOTS
      BY <2>1, Z3
    <2>3. ~(x < SLOTS)
      BY <1>3, <2>1
    <2> QED
      BY <1>1, <2>2, <2>3 DEF Wrap
  <1> QED
    BY <1>2, <1>3, SlotsAssumption

\* The pizzas on the table fit on it, and with room left its head is the place
\* that is reached after all of them.
LEMMA TableSize ==
  ASSUME IInv
  PROVE  /\ ontable \in 0 .. SLOTS
         /\ \A i \in Place : Age(i) \in 0 .. SLOTS - 1
         /\ \A i \in Place : ontable < SLOTS => (Age(i) = ontable <=> i = tablehead)
  <1>1. "TABLE_CAP" \in Semaphore /\ Supply("TABLE_CAP") = SLOTS - ontable
    BY HeldSets DEF Supply
  <1>2. /\ sem["TABLE_CAP"] \in Nat /\ ontable \in Nat /\ tabletail \in Place
        /\ sem["TABLE_CAP"] + Count(pc, Process, Held("TABLE_CAP")) = SLOTS - ontable
        /\ tablehead = Wrap(tabletail + ontable)
    BY <1>1 DEF IInv, Types, SemaphoreSums, RingInv
  <1>3. Count(pc, Process, Held("TABLE_CAP")) \in Nat
    BY Finite, CountType
  <1>4. ontable \in 0 .. SLOTS
    BY <1>2, <1>3, SlotsAssumption
  <1> QED
    BY <1>2, <1>4, SlotsAssumption DEF Age, Wrap, Place

\* A cook past the capacity of the table and its lock finds a free place at the
\* head of the ring.
LEMMA HeadIsFree ==
  ASSUME IInv, NEW c \in Process, pc[c] = "put"
  PROVE  /\ tablehead \in Place /\ tableslots[tablehead] = -1
         /\ \A q \in Process : pc[q] # "count"
  <1>1. SLOTS - ontable >= 1
    BY HeldSets, HeldIsSupplied DEF Supply
  <1>2. tablehead \in Place /\ ontable \in Nat
    BY DEF IInv, Types
  <1>3. ~(Age(tablehead) < ontable)
    BY <1>1, <1>2, TableSize, SlotsAssumption
  <1>4. \A q \in Process : pc[q] # "count"
    BY HeldSets, Alone
  <1> QED
    BY <1>2, <1>3, <1>4 DEF IInv, RingInv, At

\* A cook puts its pizza on the free place at the head of the ring.
LEMMA PutStep ==
  ASSUME IInv, NEW c \in Cook, Put(c)
  PROVE  IInv'
  <1> USE DEF IInv
  <1>1. /\ c \in Process /\ pc[c] = "put" /\ Goto(c, "count")
        /\ tableslots' = [tableslots EXCEPT ![tablehead] = pizza[c]]
        /\ UNCHANGED <<build, sem, slot, pizza, ovenslots, inoven>>
        /\ UNCHANGED <<tablehead, tabletail, ontable>>
    BY DEF Put, Process, At, oven
  <1>2. /\ pc' = [pc EXCEPT ![c] = "count"] /\ pc'[c] = "count"
        /\ \A q \in Process : q # c => pc'[q] = pc[q]
    BY <1>1 DEF Goto, Types
  <1>3. pizza[c] \in PizzaType /\ -1 \notin PizzaType
    BY <1>1, TypeAssumption DEF HandsInv, WithPizza, Carrying
  <1>4. tablehead \in Place /\ tableslots[tablehead] = -1
    BY <1>1, HeadIsFree
  <1>5. \A q \in Process : pc[q] # "count"
    BY <1>1, HeadIsFree
  <1>6. Types'
    BY <1>1, <1>2, <1>3, ProcessAssumption
    DEF Types, Place, Process, CookLabels, CourierLabels
  <1>7. SemaphoreSums'
    <2>1. Takes("put", "count", {})
      BY HeldSets DEF Takes, Step
    <2> QED
      BY <1>1, <2>1, SumsStay
  <1>8. HandsInv'
    BY <1>1, <1>2, <1>3 DEF HandsInv, NoPizza
  <1>9. /\ Count(pc', Process, Baking) = Count(pc, Process, Baking)
         /\ Count(pc', Process, {"count"}) = Count(pc, Process, {"count"}) + 1
    BY <1>1, ProcessMoves DEF Step, Baking
  <1>10. OvenInv'
    <2>1. FreePlaceFound'
      BY <1>1, <1>2 DEF OvenInv, FreePlaceFound, At, Place, Process
    <2>2. OwnPizza'
      BY <1>1, <1>2 DEF OvenInv, OwnPizza, Baking, Process
    <2> QED
      BY <1>1, <1>9, <2>1, <2>2 DEF OvenInv, Place, Baking
  <1>11. Count(tableslots', Place, PizzaType) = Count(tableslots, Place, PizzaType) + 1
    <2>1. Step(tableslots[tablehead], pizza[c], PizzaType) = 1
      BY <1>3, <1>4 DEF Step
    <2> QED
      BY <1>1, <1>4, <2>1, PlaceWritten DEF Types
  <1>12. RingInv'
    <2>1. \A i \in Place : tableslots'[i] = IF i = tablehead THEN pizza[c] ELSE tableslots[i]
      BY <1>1 DEF Types
    <2>2. \A q \in Process : At(q, "count")' <=> q = c
      BY <1>1, <1>2, <1>5 DEF At
    <2>3. \A i \in Place : tableslots'[i] # -1 <=> Age(i) < ontable \/ i = tablehead
      BY <1>3, <1>5, <2>1 DEF RingInv, At
    <2>4. \A i \in Place : Age(i)' = Age(i)
      BY <1>1 DEF Age
    <2>5. Count(tableslots', Place, PizzaType) = ontable + Count(pc', Process, {"count"})
      <3>1. Count(pc, Process, {"count"}) \in Nat
        BY Finite, CountType
      <3> QED
        BY <1>9, <1>11, <3>1 DEF RingInv, Types
    <2>6. tableslots'[tablehead] = pizza[c]
      BY <1>4, <2>1
    <2>7. /\ tablehead' = Wrap(tabletail + ontable)' /\ Place' = Place
      BY <1>1 DEF RingInv, Wrap, Place
    <2>8. \A i \in Place' : tableslots'[i] # -1 <=>
            Age(i)' < ontable' \/ (i = tablehead' /\ \E q \in Process : At(q, "count")')
      BY <1>1, <2>2, <2>3, <2>4, <2>7
    <2>9. \A q \in Process : At(q, "count")' => tableslots'[tablehead'] = pizza'[q]
      BY <1>1, <2>2, <2>6
    <2> QED
      BY <1>1, <2>5, <2>7, <2>8, <2>9 DEF RingInv, Process
  <1> QED
    BY <1>6, <1>7, <1>8, <1>10, <1>12

\* The cook counts the pizza it has put, and the ring's head moves past it.
LEMMA CountPutStep ==
  ASSUME IInv, NEW c \in Cook, CountPut(c)
  PROVE  /\ IInv'
         /\ ontable < SLOTS /\ tableslots[tablehead] = pizza[c] /\ pizza[c] \in PizzaType
  <1> USE DEF IInv
  <1>1. /\ c \in Process /\ pc[c] = "count" /\ Goto(c, "counted")
        /\ tablehead' = (tablehead + 1) % SLOTS
        /\ ontable' = ontable + 1
        /\ pizza' = [pizza EXCEPT ![c] = None]
        /\ UNCHANGED <<build, sem, slot, ovenslots, inoven>>
        /\ UNCHANGED <<tableslots, tabletail>>
    BY DEF CountPut, Process, At, oven
  <1>2. /\ pc' = [pc EXCEPT ![c] = "counted"] /\ pc'[c] = "counted"
        /\ \A q \in Process : q # c => pc'[q] = pc[q]
        /\ \A q \in Process : q # c => pizza'[q] = pizza[q]
    BY <1>1 DEF Goto, Types
  <1>3. ontable < SLOTS
    <2>1. SLOTS - ontable >= 1
      BY <1>1, HeldSets, HeldIsSupplied DEF Supply
    <2> QED
      BY <2>1, SlotsAssumption DEF Types
  <1>4. \A q \in Process : pc[q] = "count" => q = c
    BY <1>1, HeldSets, Alone
  <1>5. tablehead' = Wrap(tabletail + ontable + 1) /\ tablehead' \in Place
    <2>1. /\ tabletail \in 0 .. SLOTS - 1 /\ tablehead \in 0 .. SLOTS - 1
          /\ ontable \in 0 .. SLOTS - 1
      <3>1. tabletail \in Place /\ tablehead \in Place /\ ontable \in Nat
        BY DEF Types
      <3> QED
        BY <1>3, <3>1, SlotsAssumption DEF Place
    <2>2. tablehead' = Wrap(tablehead + 1) /\ tablehead' \in Place
      <3>1. tablehead + 1 \in 0 .. 2 * SLOTS - 1
        BY <2>1, SlotsAssumption
      <3> QED
        BY <1>1, <3>1, RemainderWraps
    <2>3. tablehead = Wrap(tabletail + ontable)
      BY DEF RingInv
    <2> QED
      BY <2>1, <2>2, <2>3, SlotsAssumption DEF Wrap
  <1>6. tableslots[tablehead] = pizza[c] /\ pizza[c] \in PizzaType
    BY <1>1 DEF RingInv, At, HandsInv, WithPizza, Carrying
  <1>7. Types'
    BY <1>1, <1>2, <1>5, ProcessAssumption
    DEF Types, Place, Process, CookLabels, CourierLabels
  <1>8. SemaphoreSums'
    <2>1. ASSUME NEW s \in Semaphore
          PROVE  /\ sem'[s] \in Nat /\ sem'[s] = sem[s]
                 /\ Supply(s) \in Int /\ Supply(s)' \in Int
                 /\ Step("count", "counted", Held(s)) = Supply(s)' - Supply(s)
      <3>1. /\ ontable \in Nat /\ ontable' = ontable + 1 /\ SLOTS \in Nat
            /\ sem'[s] = sem[s] /\ sem[s] \in Nat
        BY <1>1, SlotsAssumption DEF Types
      <3>2. CASE s \in {"OVEN_LK", "TABLE_LK", "OVEN_CAP"}
        BY <3>1, <3>2, HeldSets DEF Supply, Step
      <3>3. CASE s = "TABLE_CAP"
        BY <3>1, <3>3, HeldSets DEF Supply, Step
      <3>4. CASE s = "TABLE_AVAIL"
        BY <3>1, <3>4, HeldSets DEF Supply, Step
      <3> QED
        BY <3>2, <3>3, <3>4, HeldSets
    <2> QED
      BY <1>1, <2>1, SumsStep DEF Types
  <1>9. HandsInv'
    BY <1>1, <1>2 DEF HandsInv, WithPizza, NoPizza, Baking, Carrying
  <1>10. /\ Count(pc', Process, Baking) = Count(pc, Process, Baking)
         /\ Count(pc', Process, {"count"}) = Count(pc, Process, {"count"}) - 1
    <2>1. Step("count", "counted", Baking) = 0 /\ Step("count", "counted", {"count"}) = -1
      BY DEF Step, Baking
    <2> QED
      BY <1>1, <2>1, ProcessMoves
  <1>11. OvenInv'
    <2>1. FreePlaceFound'
      BY <1>1, <1>2 DEF OvenInv, FreePlaceFound, At, Place, Process
    <2>2. OwnPizza'
      BY <1>1, <1>2 DEF OvenInv, OwnPizza, Baking, Process
    <2> QED
      BY <1>1, <1>10, <2>1, <2>2 DEF OvenInv, Place, Baking
  <1>12. RingInv'
    <2>1. \A q \in Process : ~At(q, "count")'
      BY <1>2, <1>4 DEF At
    <2>2. \A i \in Place : Age(i) < ontable + 1 <=> Age(i) < ontable \/ i = tablehead
      <3>1. ontable \in Nat
        BY DEF Types
      <3>2. ASSUME NEW i \in Place
            PROVE  Age(i) < ontable + 1 <=> Age(i) < ontable \/ i = tablehead
        <4>1. Age(i) \in 0 .. SLOTS - 1 /\ (Age(i) = ontable <=> i = tablehead)
          BY <1>3, TableSize
        <4> QED
          BY <3>1, <4>1
      <3> QED
        BY <3>2
    <2>3. \A i \in Place : Age(i)' = Age(i)
      BY <1>1 DEF Age
    <2>4. \A i \in Place : tableslots[i] # -1 <=> Age(i) < ontable + 1
      BY <1>1, <2>2 DEF RingInv, At
    <2>5. Count(tableslots', Place, PizzaType) = ontable + 1 + Count(pc', Process, {"count"})
      <3>1. Count(pc, Process, {"count"}) \in Nat
        BY Finite, CountType
      <3> QED
        BY <1>1, <1>10, <3>1 DEF RingInv, Types
    <2>6. Place' = Place /\ Wrap(tabletail + ontable)' = Wrap(tabletail + ontable + 1)
      BY <1>1 DEF Place, Wrap, Types
    <2>7. \A i \in Place' : tableslots'[i] # -1 <=>
            Age(i)' < ontable' \/ (i = tablehead' /\ \E q \in Process : At(q, "count")')
      BY <1>1, <2>1, <2>3, <2>4, <2>6
    <2> QED
      BY <1>1, <1>5, <2>1, <2>5, <2>6, <2>7 DEF RingInv, Process
  <1> QED
    BY <1>3, <1>6, <1>7, <1>8, <1>9, <1>11, <1>12

\* The courier clears the place at the tail, and the ring's tail moves on.
LEMMA ClearStep ==
  ASSUME IInv, NEW d \in Courier, Clear(d)
  PROVE  IInv' /\ ontable >= 1
  <1> USE DEF IInv
  <1>1. /\ d \in Process /\ pc[d] = "clear" /\ Goto(d, "taken")
        /\ tableslots' = [tableslots EXCEPT ![tabletail] = -1]
        /\ tabletail' = (tabletail + 1) % SLOTS
        /\ ontable' = ontable - 1
        /\ UNCHANGED <<build, sem, slot, pizza, ovenslots, inoven>>
        /\ UNCHANGED tablehead
    BY DEF Clear, Process, At, oven
  <1>2. /\ pc' = [pc EXCEPT ![d] = "taken"] /\ pc'[d] = "taken"
        /\ \A q \in Process : q # d => pc'[q] = pc[q]
    BY <1>1 DEF Goto, Types
  <1>3. ontable \in 1 .. SLOTS
    <2>1. ontable >= 1
      BY <1>1, HeldSets, HeldIsSupplied DEF Supply
    <2> QED
      BY <2>1, TableSize, SlotsAssumption
  <1>4. \A q \in Process : pc[q] # "count"
    BY <1>1, HeldSets, Alone
  <1>5. /\ tabletail \in Place /\ tabletail' = Wrap(tabletail + 1) /\ tabletail' \in Place
    <2>1. tabletail \in Place /\ tabletail + 1 \in 0 .. 2 * SLOTS - 1
      BY SlotsAssumption DEF Types, Place
    <2> QED
      BY <1>1, <2>1, RemainderWraps
  <1>6. tableslots[tabletail] \in PizzaType /\ -1 \notin PizzaType
    <2>1. Age(tabletail) = 0
      BY <1>5 DEF Age, Place
    <2>2. tableslots[tabletail] # -1
      BY <1>3, <1>5, <2>1 DEF RingInv
    <2> QED
      BY <1>5, <2>2, TypeAssumption DEF Types
  <1>7. Types'
    BY <1>1, <1>2, <1>3, <1>5, ProcessAssumption
    DEF Types, Place, Process, CookLabels, CourierLabels
  <1>8. SemaphoreSums'
    <2>1. ASSUME NEW s \in Semaphore
          PROVE  /\ sem'[s] \in Nat /\ sem'[s] = sem[s]
                 /\ Supply(s) \in Int /\ Supply(s)' \in Int
                 /\ Step("clear", "taken", Held(s)) = Supply(s)' - Supply(s)
      <3>1. /\ ontable \in Nat /\ ontable' = ontable - 1 /\ SLOTS \in Nat
            /\ sem'[s] = sem[s] /\ sem[s] \in Nat
        BY <1>1, SlotsAssumption DEF Types
      <3>2. CASE s \in {"OVEN_LK", "TABLE_LK", "OVEN_CAP"}
        BY <3>1, <3>2, HeldSets DEF Supply, Step
      <3>3. CASE s = "TABLE_CAP"
        BY <3>1, <3>3, HeldSets DEF Supply, Step
      <3>4. CASE s = "TABLE_AVAIL"
        BY <3>1, <3>4, HeldSets DEF Supply, Step
      <3> QED
        BY <3>2, <3>3, <3>4, HeldSets
    <2> QED
      BY <1>1, <2>1, SumsStep DEF Types
  <1>9. HandsInv'
    BY <1>1, <1>2 DEF HandsInv, WithPizza, NoPizza, Baking, Carrying
  <1>10. /\ Count(pc', Process, Baking) = Count(pc, Process, Baking)
         /\ Count(pc', Process, {"count"}) = Count(pc, Process, {"count"})
    <2>1. Step("clear", "taken", Baking) = 0 /\ Step("clear", "taken", {"count"}) = 0
      BY DEF Step, Baking
    <2> QED
      BY <1>1, <2>1, ProcessMoves
  <1>11. OvenInv'
    <2>1. FreePlaceFound'
      BY <1>1, <1>2 DEF OvenInv, FreePlaceFound, At, Place, Process
    <2>2. OwnPizza'
      BY <1>1, <1>2 DEF OvenInv, OwnPizza, Baking, Process
    <2> QED
      BY <1>1, <1>10, <2>1, <2>2 DEF OvenInv, Place, Baking
  <1>12. Count(tableslots', Place, PizzaType) = Count(tableslots, Place, PizzaType) - 1
    <2>1. Step(tableslots[tabletail], -1, PizzaType) = -1
      BY <1>6 DEF Step
    <2>2. tableslots \in [Place -> PizzaType \cup {-1}]
      BY DEF Types
    <2>3. /\ Count(tableslots', Place, PizzaType) = Count(tableslots, Place, PizzaType)
                                                     + Step(tableslots[tabletail], -1, PizzaType)
          /\ Count(tableslots, Place, PizzaType) \in Nat
      BY <1>1, <1>5, <2>2, PlaceWritten
    <2> QED
      BY <2>1, <2>3
  <1>13. RingInv'
    <2>1. \A q \in Process : ~At(q, "count") /\ ~At(q, "count")'
      BY <1>2, <1>4 DEF At
    <2>2. \A i \in Place : i # tabletail => Age(i)' = Age(i) - 1
      BY <1>5, SlotsAssumption DEF Age, Wrap, Place
    <2>3. Age(tabletail) = 0 /\ (\A i \in Place : i = tabletail => ~(Age(i)' < ontable'))
      BY <1>1, <1>3, <1>5, SlotsAssumption DEF Age, Wrap, Place
    <2>4. \A i \in Place : tableslots'[i] = IF i = tabletail THEN -1 ELSE tableslots[i]
      BY <1>1 DEF Types
    <2>5. \A i \in Place : tableslots'[i] # -1 <=> Age(i)' < ontable'
      <3>1. ASSUME NEW i \in Place, i # tabletail
            PROVE  tableslots'[i] # -1 <=> Age(i)' < ontable'
        <4>1. Age(i) \in 0 .. SLOTS - 1 /\ Age(i)' = Age(i) - 1
          BY <3>1, <2>2, TableSize
        <4>2. tableslots'[i] # -1 <=> Age(i) < ontable
          BY <3>1, <2>1, <2>4 DEF RingInv
        <4> QED
          BY <1>1, <1>3, <4>1, <4>2
      <3> QED
        BY <2>3, <2>4, <3>1
    <2>6. Count(tableslots', Place, PizzaType) = ontable' + Count(pc', Process, {"count"})
      <3>1. Count(pc, Process, {"count"}) \in Nat
        BY Finite, CountType
      <3> QED
        BY <1>1, <1>10, <1>12, <3>1 DEF RingInv, Types
    <2>7. tablehead' = Wrap(tabletail' + ontable')
      <3>1. tablehead = Wrap(tabletail + ontable)
        BY DEF RingInv
      <3> QED
        BY <1>1, <1>3, <1>5, <3>1, SlotsAssumption DEF Wrap, Place
    <2>8. Place' = Place /\ Wrap(tabletail + ontable)' = Wrap(tabletail' + ontable')
      BY DEF Place, Wrap
    <2>9. \A i \in Place' : tableslots'[i] # -1 <=>
            Age(i)' < ontable' \/ (i = tablehead' /\ \E q \in Process : At(q, "count")')
      BY <2>1, <2>5, <2>8
    <2> QED
      BY <2>1, <2>6, <2>7, <2>8, <2>9 DEF RingInv, Process
  <1> QED
    BY <1>3, <1>7, <1>8, <1>9, <1>11, <1>13

-------------------------------------------------------------------------------
(***************************************************************************)
(* The invariant, and what it implies.                                     *)
(***************************************************************************)
\* It holds when main has set the shared memory up.
LEMMA Initially == Init => IInv
  <1> SUFFICES ASSUME Init
               PROVE  IInv
    OBVIOUS
  <1>1. \A p \in Process : pc[p] \in {"prepare", "await"} /\ pizza[p] = None
    BY DEF Init
  <1>2. Types
    <2>1. 0 \in Place
      BY SlotsAssumption DEF Place
    <2>2. sem \in [Semaphore -> Nat]
      BY SlotsAssumption DEF Init, Semaphore
    <2> QED
      BY <2>1, <2>2, ProcessAssumption
      DEF Init, Types, Process, CookLabels, CourierLabels
  <1>3. ASSUME NEW L, "prepare" \notin L, "await" \notin L
        PROVE  Count(pc, Process, L) = 0
    <2>1. {p \in Process : pc[p] \in L} = {}
      BY <1>1, <1>3
    <2> QED
      BY <2>1, FS_EmptySet DEF Count
  <1>4. SemaphoreSums
    <2>1. \A s \in Semaphore : Count(pc, Process, Held(s)) = 0
      BY <1>3, HeldSets
    <2>2. \A s \in Semaphore : sem[s] = Supply(s) /\ sem[s] \in Nat
      BY SlotsAssumption DEF Init, Supply, Semaphore
    <2> QED
      BY <2>1, <2>2 DEF SemaphoreSums
  <1>5. HandsInv
    BY <1>1 DEF HandsInv, WithPizza, Baking, Carrying
  <1>6. \A i \in Place : ovenslots[i] = -1 /\ tableslots[i] = -1
    BY DEF Init
  <1>7. Count(ovenslots, Place, PizzaType) = 0 /\ Count(tableslots, Place, PizzaType) = 0
    <2>1. /\ {i \in Place : ovenslots[i] \in PizzaType} = {}
          /\ {i \in Place : tableslots[i] \in PizzaType} = {}
      BY <1>6, TypeAssumption
    <2> QED
      BY <2>1, FS_EmptySet DEF Count
  <1>8. OvenInv
    <2>1. \A c \in Cook : pc[c] = "prepare"
      BY DEF Init, Process
    <2>2. FreePlaceFound /\ OwnPizza
      BY <2>1 DEF FreePlaceFound, OwnPizza, At, Baking
    <2>3. Count(pc, Process, Baking) = 0
      BY <1>3 DEF Baking
    <2> QED
      BY <1>7, <2>2, <2>3 DEF OvenInv, Init
  <1>9. RingInv
    <2>1. \A p \in Process : ~At(p, "count")
      BY <1>1 DEF At
    <2>2. Count(pc, Process, {"count"}) = 0
      BY <1>3
    <2>3. tablehead = 0 /\ tabletail = 0 /\ ontable = 0 /\ Wrap(0) = 0
      BY SlotsAssumption DEF Init, Wrap
    <2>4. \A i \in Place : ~(Age(i) < 0)
      BY <2>3 DEF Age, Place
    <2> QED
      BY <1>6, <1>7, <2>1, <2>2, <2>3, <2>4 DEF RingInv
  <1> QED
    BY <1>2, <1>4, <1>5, <1>8, <1>9 DEF IInv

\* Every step of every process keeps it.
LEMMA Inductive == IInv /\ [Next]_vars => IInv'
  <1> SUFFICES ASSUME IInv, [Next]_vars
               PROVE  IInv'
    OBVIOUS
  <1>1. CASE UNCHANGED vars
    <2>1. /\ UNCHANGED <<build, sem, pc, slot, pizza, ovenslots, inoven>>
          /\ UNCHANGED <<tableslots, tablehead, tabletail, ontable>>
      BY <1>1 DEF vars, oven, table
    <2>2. Types'
      BY <2>1 DEF IInv, Types
    <2>3. SemaphoreSums'
      <3>1. \A s \in Semaphore : Supply(s)' = Supply(s)
        BY <2>1, HeldSets DEF Supply
      <3> QED
        BY <2>1, <3>1 DEF IInv, SemaphoreSums, Count
    <2>4. HandsInv'
      BY <2>1 DEF IInv, HandsInv
    <2>5. OvenInv'
      BY <2>1 DEF IInv, OvenInv, FreePlaceFound, OwnPizza, At, Count
    <2>6. RingInv'
      BY <2>1 DEF IInv, RingInv, Age, Wrap, At, Count
    <2> QED
      BY <2>2, <2>3, <2>4, <2>5, <2>6 DEF IInv
  <1>2. ASSUME NEW c \in Cook, CookStep(c)
        PROVE  IInv'
    BY <1>2, PrepareStep, OvenWait, FindSlotStep, InsertStep, OvenLock, RemoveStep,
       OvenPost, TablePutWait, PutStep, CountPutStep, TablePutPost DEF CookStep
  <1>3. ASSUME NEW d \in Courier, CourierStep(d)
        PROVE  IInv'
    BY <1>3, TableGetWait, GetStep, ClearStep, TableGetPost, DeliverStep DEF CourierStep
  <1> QED
    BY <1>1, <1>2, <1>3 DEF Next

\* The invariant holds in every state of both programs.
THEOREM Invariant == Spec => []IInv
  BY Initially, Inductive, PTL DEF Spec

\* Semaphores and counters stay within the places there are, indices inside
\* the arrays.
THEOREM TypeCorrect == Spec => []TypeOK
  <1>1. IInv => TypeOK
    <2> SUFFICES ASSUME IInv
                 PROVE  TypeOK
      OBVIOUS
    <2> USE DEF IInv
    <2>1. ontable \in 0 .. SLOTS
      BY TableSize
    <2>2. ASSUME NEW s \in Semaphore
          PROVE  sem[s] \in 0 .. SLOTS
      <3>1. sem[s] \in Nat /\ sem[s] + Count(pc, Process, Held(s)) = Supply(s)
        BY DEF Types, SemaphoreSums
      <3>2. Count(pc, Process, Held(s)) \in Nat
        BY Finite, CountType
      <3>3. Supply(s) \in 0 .. SLOTS
        BY <2>1, SlotsAssumption DEF Supply, Semaphore
      <3> QED
        BY <3>1, <3>2, <3>3, SlotsAssumption
    <2>3. inoven \in 0 .. SLOTS
      <3>1. inoven = Cardinality({i \in Place : ovenslots[i] \in PizzaType})
        BY DEF OvenInv, Count
      <3>2. Count(ovenslots, Place, PizzaType) <= SLOTS
        BY Finite, CountType
      <3> QED
        BY <3>1, <3>2, SlotsAssumption DEF Count, Types
    <2>4. sem \in [Semaphore -> 0 .. SLOTS]
      BY <2>2 DEF Types
    <2> QED
      BY <2>1, <2>3, <2>4 DEF Types, TypeOK
  <1> QED
    BY <1>1, Invariant, PTL

\* The assertion of oven_insert never fails: there is a place for every cook
\* let into the oven, and nobody takes it.
THEOREM FreePlace == Spec => []FreePlaceFound
  <1>1. IInv => FreePlaceFound
    BY DEF IInv, OvenInv
  <1> QED
    BY <1>1, Invariant, PTL

\* Every cook takes its own pizza out of the oven.
THEOREM OwnPizzaBack == Spec => []OwnPizza
  <1>1. IInv => OwnPizza
    BY DEF IInv, OvenInv
  <1> QED
    BY <1>1, Invariant, PTL

\* The assertion of table_get never fails, and a cook overwrites no pizza.
THEOREM TableIsReady == Spec => []TableReady
  <1>1. IInv => TableReady
    <2> SUFFICES ASSUME IInv
                 PROVE  TableReady
      OBVIOUS
    <2>1. ASSUME NEW d \in Courier, At(d, "clear")
          PROVE  pizza[d] \in PizzaType
      BY <2>1 DEF IInv, HandsInv, At, WithPizza, Process
    <2>2. ASSUME NEW c \in Cook, At(c, "put")
          PROVE  tableslots[tablehead] = -1
      BY <2>2, HeadIsFree DEF Process, At
    <2> QED
      BY <2>1, <2>2 DEF TableReady
  <1> QED
    BY <1>1, Invariant, PTL

\* Whoever holds a lock, or finds it free, reads true counters.
THEOREM CountersAreTrue == Spec => []CountersTrue
  <1>1. IInv => CountersTrue
    <2> SUFFICES ASSUME IInv
                 PROVE  CountersTrue
      OBVIOUS
    <2> USE DEF IInv
    <2>1. ASSUME NEW slots \in [Place -> PizzaType \cup {-1}]
          PROVE  Cardinality(Occupied(slots)) = Count(slots, Place, PizzaType)
      <3>1. Occupied(slots) = {i \in Place : slots[i] \in PizzaType}
        BY TypeAssumption DEF Occupied
      <3> QED
        BY <3>1 DEF Count
    <2>2. inoven = Cardinality(Occupied(ovenslots))
      BY <2>1 DEF Types, OvenInv
    <2>3. ASSUME sem["TABLE_LK"] = 1
          PROVE  ontable = Cardinality(Occupied(tableslots))
      <3>1. 1 + Count(pc, Process, Held("TABLE_LK")) = 1
        BY <2>3, HeldSets DEF SemaphoreSums, Supply
      <3>2. /\ Count(pc, Process, Held("TABLE_LK")) \in Nat
            /\ Count(pc, Process, {"count"}) \in Nat
        BY Finite, CountType
      <3>3. Count(pc, Process, {"count"}) <= Count(pc, Process, Held("TABLE_LK"))
        BY Finite, CountLess, HeldSets
      <3>4. Count(pc, Process, {"count"}) = 0
        BY <3>1, <3>2, <3>3
      <3> QED
        BY <2>1, <3>4 DEF Types, RingInv
    <2> QED
      BY <2>2, <2>3 DEF CountersTrue
  <1> QED
    BY <1>1, Invariant, PTL

-------------------------------------------------------------------------------
(***************************************************************************)
(* The refinement: a cook that fills its place bakes, one that frees it    *)
(* takes out, one that counts its pizza on the table serves; a courier     *)
(* that reads the pizza collects it.  Every other step is invisible.       *)
(***************************************************************************)
OvenMap == [c \in Cook |-> IF pc[c] \in Baking THEN ovenslots[slot[c]] ELSE None]
HandsMap == [c \in Cook |-> IF pc[c] \in Carrying THEN pizza[c] ELSE None]
BagMap == [d \in Courier |-> pizza[d]]

\* The i-th place of the ring has been in use for i - 1 others.
LEMMA AgeOfEntry ==
  ASSUME IInv, NEW i \in 1 .. SLOTS
  PROVE  LET k == (tabletail + i - 1) % SLOTS
         IN  k \in Place /\ k = Wrap(tabletail + i - 1) /\ Age(k) = i - 1
  <1> DEFINE x == tabletail + i - 1
  <1>1. tabletail \in Place
    BY DEF IInv, Types
  <1>2. x \in 0 .. 2 * SLOTS - 1
    BY <1>1, SlotsAssumption DEF Place
  <1>3. x % SLOTS = Wrap(x) /\ Wrap(x) \in Place
    BY <1>2, RemainderWraps
  <1>4. Age(Wrap(x)) = i - 1
    BY <1>1, SlotsAssumption DEF Age, Wrap, Place
  <1> QED
    BY <1>3, <1>4

\* The queue on the table is a sequence of pizzas.
LEMMA QueueType ==
  ASSUME IInv
  PROVE  /\ Queued \in [1 .. ontable -> PizzaType]
         /\ Queued \in Seq(PizzaType) /\ Len(Queued) = ontable
  <1>1. ontable \in Nat /\ ontable \in 0 .. SLOTS
    BY TableSize DEF IInv, Types
  <1>2. ASSUME NEW i \in 1 .. ontable
        PROVE  tableslots[(tabletail + i - 1) % SLOTS] \in PizzaType
    <2> DEFINE k == (tabletail + i - 1) % SLOTS
    <2>1. i \in 1 .. SLOTS /\ i - 1 < ontable
      BY <1>1, SlotsAssumption
    <2>2. k \in Place /\ Age(k) < ontable
      BY <2>1, AgeOfEntry
    <2> HIDE DEF k
    <2>3. tableslots[k] # -1 /\ tableslots[k] \in PizzaType \cup {-1}
      BY <2>2 DEF IInv, RingInv, Types
    <2> QED
      BY <2>3 DEF k
  <1>3. Queued \in [1 .. ontable -> PizzaType]
    BY <1>2 DEF Queued
  <1> QED
    BY <1>1, <1>3

\* Writing a place of the table that is not in use does not change the queue.
LEMMA QueueStays ==
  ASSUME IInv, UNCHANGED <<tabletail, ontable>>,
         \A k \in Place : Age(k) < ontable => tableslots'[k] = tableslots[k]
  PROVE  Queued' = Queued
  <1>1. ontable \in 0 .. SLOTS
    BY TableSize
  <1>2. ASSUME NEW i \in 1 .. ontable
        PROVE  tableslots'[(tabletail + i - 1) % SLOTS] = tableslots[(tabletail + i - 1) % SLOTS]
    <2> DEFINE k == (tabletail + i - 1) % SLOTS
    <2>1. i \in 1 .. SLOTS /\ i - 1 < ontable
      BY <1>1, SlotsAssumption
    <2>2. k \in Place /\ Age(k) < ontable
      BY <2>1, AgeOfEntry
    <2> HIDE DEF k
    <2>3. tableslots'[k] = tableslots[k]
      BY <2>2
    <2> QED
      BY <2>3 DEF k
  <1> QED
    BY <1>2 DEF Queued

\* Counting the pizza at the head of the ring appends it to the queue.
LEMMA QueueAppended ==
  ASSUME IInv, NEW c \in Cook, CountPut(c)
  PROVE  Queued' = Append(Queued, pizza[c])
  <1>1. /\ ontable' = ontable + 1
        /\ UNCHANGED <<tableslots, tabletail>>
    BY DEF CountPut
  <1>2. /\ ontable \in Nat /\ ontable < SLOTS
        /\ tableslots[tablehead] = pizza[c] /\ pizza[c] \in PizzaType
    BY CountPutStep DEF IInv, Types
  <1>3. (tabletail + (ontable + 1) - 1) % SLOTS = tablehead
    <2>1. ontable + 1 \in 1 .. SLOTS /\ tabletail \in Int
      BY <1>2, SlotsAssumption DEF IInv, Types, Place
    <2>2. (tabletail + (ontable + 1) - 1) % SLOTS = Wrap(tabletail + (ontable + 1) - 1)
      BY <2>1, AgeOfEntry
    <2>3. tabletail + (ontable + 1) - 1 = tabletail + ontable
      BY <1>2, <2>1
    <2> QED
      BY <2>2, <2>3 DEF IInv, RingInv
  <1>4. Queued \in Seq(PizzaType) /\ Len(Queued) = ontable
    BY QueueType
  <1>5. /\ Append(Queued, pizza[c]) \in [1 .. ontable + 1 -> PizzaType]
        /\ \A i \in 1 .. ontable : Append(Queued, pizza[c])[i] = Queued[i]
        /\ Append(Queued, pizza[c])[ontable + 1] = pizza[c]
    <2> DEFINE q == Append(Queued, pizza[c])
    <2>1. /\ q \in Seq(PizzaType) /\ Len(q) = ontable + 1
          /\ \A i \in 1 .. ontable : q[i] = Queued[i]
          /\ q[ontable + 1] = pizza[c]
      BY <1>2, <1>4, AppendProperties
    <2> HIDE DEF q
    <2>2. q \in [1 .. ontable + 1 -> PizzaType]
      BY <2>1, LenProperties
    <2> QED
      BY <2>1, <2>2 DEF q
  <1>6. Queued' = [i \in 1 .. ontable + 1 |-> tableslots[(tabletail + i - 1) % SLOTS]]
    BY <1>1 DEF Queued
  <1>7. ASSUME NEW i \in 1 .. ontable + 1
        PROVE  Append(Queued, pizza[c])[i] = tableslots[(tabletail + i - 1) % SLOTS]
    <2>1. CASE i = ontable + 1
      <3>1. tableslots[(tabletail + i - 1) % SLOTS] = tableslots[tablehead]
        BY <1>3, <2>1
      <3> QED
        BY <1>2, <1>5, <2>1, <3>1
    <2>2. CASE i \in 1 .. ontable
      <3>1. Queued[i] = tableslots[(tabletail + i - 1) % SLOTS]
        BY <2>2 DEF Queued
      <3> QED
        BY <1>5, <2>2, <3>1
    <2>3. i = ontable + 1 \/ i \in 1 .. ontable
      BY <1>2
    <2> QED
      BY <2>1, <2>2, <2>3
  <1> QED
    BY <1>5, <1>6, <1>7

\* Clearing the place at the tail takes the first pizza off the queue.
LEMMA QueueTail ==
  ASSUME IInv, NEW d \in Courier, Clear(d)
  PROVE  Queued' = Tail(Queued)
  <1>1. /\ tableslots' = [tableslots EXCEPT ![tabletail] = -1]
        /\ tabletail' = (tabletail + 1) % SLOTS
        /\ ontable' = ontable - 1
    BY DEF Clear
  <1>2. ontable \in 1 .. SLOTS /\ tabletail \in Place /\ SLOTS \in Nat
    BY ClearStep, TableSize, SlotsAssumption DEF IInv, Types
  <1>3. Queued \in Seq(PizzaType) /\ Len(Queued) = ontable /\ Queued # <<>>
    BY <1>2, QueueType
  <1>4. /\ Tail(Queued) \in [1 .. ontable - 1 -> PizzaType]
        /\ \A i \in 1 .. ontable - 1 : Tail(Queued)[i] = Queued[i + 1]
    BY <1>2, <1>3, HeadTailProperties, LenProperties
  <1>5. ASSUME NEW i \in 1 .. ontable - 1
        PROVE  tableslots'[(tabletail' + i - 1) % SLOTS] = Queued[i + 1]
    <2> DEFINE k == (tabletail + (i + 1) - 1) % SLOTS
    <2>1. i + 1 \in 1 .. SLOTS /\ i \in 1 .. SLOTS
      BY <1>2
    <2>2. k \in Place /\ k = Wrap(tabletail + (i + 1) - 1) /\ Age(k) = (i + 1) - 1
      BY <2>1, AgeOfEntry
    <2>3. tabletail' = Wrap(tabletail + 1) /\ tabletail' \in Place
      <3>1. tabletail + 1 \in 0 .. 2 * SLOTS - 1
        BY <1>2 DEF Place
      <3> QED
        BY <1>1, <3>1, RemainderWraps
    <2>4. (tabletail' + i - 1) % SLOTS = Wrap(tabletail' + i - 1)
      <3>1. tabletail' + i - 1 \in 0 .. 2 * SLOTS - 1
        BY <1>2, <2>1, <2>3 DEF Place
      <3> QED
        BY <3>1, RemainderWraps
    <2>5. Wrap(tabletail' + i - 1) = Wrap(tabletail + (i + 1) - 1)
      BY <1>2, <2>1, <2>3 DEF Wrap, Place
    <2>6. k # tabletail
      BY <1>2, <2>2 DEF Age, Place
    <2>7. Queued[i + 1] = tableslots[k]
      BY <1>2 DEF Queued
    <2>8. tableslots'[k] = tableslots[k]
      <3> HIDE DEF k
      <3> QED
        BY <1>1, <2>2, <2>6 DEF IInv, Types
    <2> QED
      BY <2>2, <2>4, <2>5, <2>7, <2>8
  <1>6. Queued' = [i \in 1 .. ontable - 1 |-> tableslots'[(tabletail' + i - 1) % SLOTS]]
    BY <1>1 DEF Queued
  <1> QED
    BY <1>4, <1>5, <1>6

\* The steps on semaphores, as moves: none of them puts a pizza into the oven,
\* takes one out of a hand or is between the two halves of a collection.
LEMMA SemaphoreMoves ==
  ASSUME NEW p,
         \/ oven_before_insert(p) \/ oven_after_insert(p) \/ oven_before_remove(p)
         \/ oven_after_remove(p) \/ table_before_put(p) \/ table_after_put(p)
         \/ table_before_get(p) \/ table_after_get(p)
  PROVE  \E from, to : /\ Move(p, from, to)
                       /\ from \in Baking <=> to \in Baking
                       /\ from \in Carrying <=> to \in Carrying
                       /\ from # "clear" /\ to # "clear"
  <1> DEFINE Invisible(from, to) == /\ from \in Baking <=> to \in Baking
                                    /\ from \in Carrying <=> to \in Carrying
                                    /\ from # "clear" /\ to # "clear"
  <1>1. \A l, m \in {"oven_cap", "oven_lk", "find"} : Invisible(l, m)
    BY DEF Baking, Carrying
  <1>2. \A l, m \in {"inserted", "bake", "remove"} : Invisible(l, m)
    BY DEF Baking, Carrying
  <1>3. \A l, m \in {"removed", "remove_unlk", "table_cap", "put_lk", "put"} : Invisible(l, m)
    BY DEF Baking, Carrying
  <1>4. \A l, m \in {"counted", "avail", "prepare"} : Invisible(l, m)
    BY DEF Baking, Carrying
  <1>5. \A l, m \in {"await", "get_lk", "get"} : Invisible(l, m)
    BY DEF Baking, Carrying
  <1>6. \A l, m \in {"taken", "table_free", "deliver"} : Invisible(l, m)
    BY DEF Baking, Carrying
  <1> HIDE DEF Invisible
  <1>7. \E from, to : Move(p, from, to) /\ Invisible(from, to)
    <2>1. CASE oven_before_insert(p)
      BY <1>1, <2>1 DEF oven_before_insert, Wait2
    <2>2. CASE oven_after_insert(p)
      BY <1>2, <2>2 DEF oven_after_insert
    <2>3. CASE oven_before_remove(p)
      BY <1>2, <2>3 DEF oven_before_remove
    <2>4. CASE oven_after_remove(p)
      BY <1>3, <2>4 DEF oven_after_remove, Post2
    <2>5. CASE table_before_put(p)
      BY <1>3, <2>5 DEF table_before_put, Wait2
    <2>6. CASE table_after_put(p)
      BY <1>4, <2>6 DEF table_after_put, Post2
    <2>7. CASE table_before_get(p)
      BY <1>5, <2>7 DEF table_before_get, Wait2
    <2>8. CASE table_after_get(p)
      BY <1>6, <2>8 DEF table_after_get, Post2
    <2> QED
      BY <2>1, <2>2, <2>3, <2>4, <2>5, <2>6, <2>7, <2>8
  <1> QED
    BY <1>7 DEF Invisible

\* Such a move changes nothing the shop sees.
LEMMA MoveInvisible ==
  ASSUME IInv, NEW p \in Process, NEW from, NEW to, Move(p, from, to),
         from \in Baking <=> to \in Baking, from \in Carrying <=> to \in Carrying,
         from # "clear", to # "clear"
  PROVE  UNCHANGED Shop!avars
  <1>1. /\ pc[p] = from /\ pc' = [pc EXCEPT ![p] = to]
        /\ UNCHANGED <<ovenslots, tableslots, tabletail, ontable, slot, pizza>>
    BY DEF Move, At, Goto, oven, table
  <1>2. pc'[p] = to /\ \A q \in Process : q # p => pc'[q] = pc[q]
    BY <1>1 DEF IInv, Types
  <1>3. \A q \in Process : /\ pc'[q] \in Baking <=> pc[q] \in Baking
                           /\ pc'[q] \in Carrying <=> pc[q] \in Carrying
                           /\ pc'[q] = "clear" <=> pc[q] = "clear"
    BY <1>1, <1>2
  <1>4. OvenMap' = OvenMap /\ HandsMap' = HandsMap /\ BagMap' = BagMap
    BY <1>1, <1>3 DEF OvenMap, HandsMap, BagMap, Process
  <1>5. TableQueue' = TableQueue
    BY <1>1, <1>3 DEF TableQueue, Queued, At, Process
  <1> QED
    BY <1>4, <1>5 DEF Shop!avars, OvenMap, HandsMap, BagMap

\* What a cook's step that is none of the table's leaves of the shop.
LEMMA TableUntouched ==
  ASSUME IInv, NEW c \in Cook, NEW l, l # "clear", Goto(c, l),
         UNCHANGED <<tabletail, ontable>>,
         \A k \in Place : Age(k) < ontable => tableslots'[k] = tableslots[k],
         \A d \in Courier : pizza'[d] = pizza[d]
  PROVE  TableQueue' = TableQueue /\ BagMap' = BagMap
  <1>1. \A d \in Courier : pc'[d] = pc[d]
    BY ProcessAssumption DEF IInv, Types, Goto, Process
  <1>2. Queued' = Queued
    BY QueueStays
  <1> QED
    BY <1>1, <1>2 DEF TableQueue, BagMap, At

\* With a courier between its two steps nobody else is at the table.
LEMMA NobodyClears ==
  ASSUME IInv, NEW p \in Process, pc[p] \in Held("TABLE_LK"), pc[p] # "clear"
  PROVE  \A q \in Process : pc[q] # "clear"
  BY HeldSets, Alone

\* Preparing a pizza and finding a place are invisible.
LEMMA CookInvisible ==
  ASSUME IInv, NEW c \in Cook, Prepare(c) \/ FindSlot(c) \/ Put(c)
  PROVE  UNCHANGED Shop!avars
  <1>1. /\ c \in Process /\ \A d \in Courier : d # c
    BY ProcessAssumption DEF Process
  <1>2. TableQueue' = TableQueue /\ BagMap' = BagMap
    <2>1. /\ Goto(c, "oven_cap") \/ Goto(c, "insert") \/ Goto(c, "count")
          /\ UNCHANGED <<tabletail, ontable>>
          /\ \A d \in Courier : pizza'[d] = pizza[d]
      BY <1>1 DEF Prepare, FindSlot, Put, table, IInv, Types, Process
    <2>2. \A k \in Place : Age(k) < ontable => tableslots'[k] = tableslots[k]
      <3>1. CASE Prepare(c) \/ FindSlot(c)
        BY <3>1 DEF Prepare, FindSlot, table
      <3>2. CASE Put(c)
        <4>1. pc[c] = "put" /\ tableslots' = [tableslots EXCEPT ![tablehead] = pizza[c]]
          BY <3>2 DEF Put, At
        <4>2. tablehead \in Place /\ tableslots[tablehead] = -1
          BY <1>1, <4>1, HeadIsFree
        <4>3. ~(Age(tablehead) < ontable)
          BY <4>2 DEF IInv, RingInv
        <4> QED
          BY <4>1, <4>3 DEF IInv, Types
      <3> QED
        BY <3>1, <3>2
    <2> QED
      BY <2>1, <2>2, TableUntouched
  <1>3. OvenMap' = OvenMap /\ HandsMap' = HandsMap
    <2>1. CASE Prepare(c)
      BY <1>1, <2>1
      DEF Prepare, At, Goto, oven, OvenMap, HandsMap, Baking, Carrying, IInv, Types, Process
    <2>2. CASE FindSlot(c)
      BY <1>1, <2>2
      DEF FindSlot, At, Goto, oven, OvenMap, HandsMap, Baking, Carrying, IInv, Types, Process
    <2>3. CASE Put(c)
      BY <1>1, <2>3
      DEF Put, At, Goto, oven, OvenMap, HandsMap, Baking, Carrying, IInv, Types, Process
    <2> QED
      BY <2>1, <2>2, <2>3
  <1> QED
    BY <1>2, <1>3 DEF Shop!avars, OvenMap, HandsMap, BagMap

\* None is told apart from every pizza.
LEMMA NoneIsNoPizza == None \notin PizzaType
  <1>1. \A n \in PizzaType : n \in Int
    BY TypeAssumption
  <1>2. None \notin Int
    BY TypeAssumption
  <1> QED
    BY <1>1, <1>2, Zenon

\* The shop counts as its implementation does.
LEMMA SameCardinality == \A S : Shop!Cardinality(S) = Cardinality(S)
  BY DEF Shop!Cardinality, Cardinality

\* The ovens and hands that are not None, and what a step of c changes of them.
LEMMA MapsOfCook ==
  ASSUME IInv, NEW c \in Cook
  PROVE  /\ OvenMap \in [Cook -> PizzaType \cup {None}]
         /\ HandsMap \in [Cook -> PizzaType \cup {None}]
         /\ \A b \in Cook : OvenMap[b] # None <=> pc[b] \in Baking
         /\ \A b \in Cook : pc[b] \in Baking => OvenMap[b] = pizza[b]
         /\ HandsMap[c] # None <=> pc[c] \in Carrying
         /\ None \notin PizzaType
  <1>1. None \notin PizzaType
    BY NoneIsNoPizza
  <1>2. \A b \in Cook : /\ pc[b] \in Baking \cup Carrying => pizza[b] \in PizzaType
                        /\ pc[b] \in Baking => ovenslots[slot[b]] = pizza[b]
    BY DEF IInv, HandsInv, OvenInv, OwnPizza, WithPizza, Process
  <1> QED
    BY <1>1, <1>2 DEF OvenMap, HandsMap

\* A cook at its empty place finds the oven not full.
LEMMA RoomToBake ==
  ASSUME IInv, NEW c \in Cook, pc[c] = "insert"
  PROVE  Cardinality({b \in Cook : OvenMap[b] # None}) < SLOTS
  <1>1. {b \in Cook : OvenMap[b] # None} = {b \in Cook : pc[b] \in Baking}
    BY MapsOfCook
  <1>2. {b \in Cook : pc[b] \in Baking} \subseteq {p \in Process : pc[p] \in Baking}
    BY DEF Process
  <1>3. /\ Cardinality({b \in Cook : pc[b] \in Baking}) <= Count(pc, Process, Baking)
        /\ Cardinality({b \in Cook : pc[b] \in Baking}) \in Nat
        /\ Count(pc, Process, Baking) \in Nat
    <2>1. IsFiniteSet({p \in Process : pc[p] \in Baking})
      BY Finite, CountType
    <2>2. /\ IsFiniteSet({b \in Cook : pc[b] \in Baking})
          /\ Cardinality({b \in Cook : pc[b] \in Baking})
               <= Cardinality({p \in Process : pc[p] \in Baking})
      BY <1>2, <2>1, FS_Subset
    <2> QED
      BY <2>1, <2>2, FS_CardinalityType DEF Count
  <1>4. Count(pc, Process, Baking) < SLOTS
    <2>1. c \in Process /\ pc[c] \in Held("OVEN_CAP") \ Baking
          /\ Baking \subseteq Held("OVEN_CAP") /\ "OVEN_CAP" \in Semaphore
      BY HeldSets DEF Process, Baking
    <2>2. Count(pc, Process, Baking) < Count(pc, Process, Held("OVEN_CAP"))
      BY <2>1, Finite, CountLess
    <2>3. Count(pc, Process, Held("OVEN_CAP")) <= SLOTS
      BY <2>1, HeldIsSupplied DEF Supply
    <2>4. Count(pc, Process, Held("OVEN_CAP")) \in Nat
      BY Finite, CountType
    <2> QED
      BY <1>3, <2>2, <2>3, <2>4, SlotsAssumption
  <1> QED
    BY <1>1, <1>3, <1>4, SlotsAssumption

\* Filling the place is baking.
LEMMA InsertBakes ==
  ASSUME IInv, IInv', NEW c \in Cook, Insert(c)
  PROVE  Shop!Bake(c)
  <1>1. /\ c \in Process /\ pc[c] = "insert" /\ Goto(c, "inserted")
        /\ UNCHANGED <<slot, pizza, tableslots, tabletail, ontable>>
        /\ pc'[c] = "inserted" /\ \A b \in Cook : b # c => pc'[b] = pc[b]
    BY DEF Insert, Process, At, table, IInv, Types, Goto
  <1>2. TableQueue' = TableQueue /\ BagMap' = BagMap
    BY <1>1, TableUntouched
  <1>3. /\ OvenMap[c] = None /\ HandsMap[c] = None
        /\ HandsMap' = HandsMap
    <2>1. \A b \in Cook : pc'[b] \in Carrying <=> pc[b] \in Carrying
      BY <1>1 DEF Carrying
    <2> QED
      BY <1>1, <2>1, MapsOfCook DEF HandsMap, Baking, Carrying
  <1>4. pizza[c] \in PizzaType
    BY <1>1 DEF IInv, HandsInv, WithPizza
  <1>5. OvenMap' = [OvenMap EXCEPT ![c] = pizza[c]]
    <2>1. ASSUME NEW b \in Cook
          PROVE  (IF pc'[b] \in Baking THEN ovenslots'[slot'[b]] ELSE None)
                   = IF b = c THEN pizza[c] ELSE OvenMap[b]
      <3>1. pc'[b] \in Baking => ovenslots'[slot'[b]] = pizza[b]
        BY <1>1 DEF IInv, OvenInv, OwnPizza
      <3>2. pc[b] \in Baking => ovenslots[slot[b]] = pizza[b]
        BY DEF IInv, OvenInv, OwnPizza
      <3> QED
        BY <1>1, <3>1, <3>2 DEF OvenMap, Baking
    <2>2. OvenMap' = [b \in Cook |-> IF pc'[b] \in Baking THEN ovenslots'[slot'[b]] ELSE None]
      BY DEF OvenMap, Baking
    <2> QED
      BY <2>1, <2>2 DEF OvenMap
  <1>6. Shop!Cardinality({b \in Cook : OvenMap[b] # None}) < SLOTS
    BY <1>1, RoomToBake, SameCardinality
  <1> QED
    BY <1>1, <1>2, <1>3, <1>4, <1>5, <1>6
    DEF Shop!Bake, OvenMap, HandsMap, BagMap

\* Freeing the place is taking the pizza out.
LEMMA RemoveTakesOut ==
  ASSUME IInv, IInv', NEW c \in Cook, Remove(c)
  PROVE  Shop!TakeOut(c)
  <1>1. /\ c \in Process /\ pc[c] = "remove" /\ Goto(c, "removed")
        /\ pizza' = [pizza EXCEPT ![c] = ovenslots[slot[c]]]
        /\ UNCHANGED <<tableslots, tabletail, ontable>>
        /\ pc'[c] = "removed" /\ \A b \in Cook : b # c => pc'[b] = pc[b]
    BY DEF Remove, Process, At, table, IInv, Types, Goto
  <1>2. pizza' = pizza
    BY <1>1 DEF IInv, Types, OvenInv, OwnPizza, Baking
  <1>3. TableQueue' = TableQueue /\ BagMap' = BagMap
    BY <1>1, <1>2, TableUntouched
  <1>4. OvenMap[c] # None /\ OvenMap[c] = pizza[c]
    BY <1>1, MapsOfCook DEF Baking
  <1>5. HandsMap' = [HandsMap EXCEPT ![c] = OvenMap[c]]
    BY <1>1, <1>2, <1>4 DEF HandsMap, Carrying
  <1>6. OvenMap' = [OvenMap EXCEPT ![c] = None]
    <2>1. ASSUME NEW b \in Cook
          PROVE  (IF pc'[b] \in Baking THEN ovenslots'[slot'[b]] ELSE None)
                   = IF b = c THEN None ELSE OvenMap[b]
      <3>1. pc'[b] \in Baking => ovenslots'[slot'[b]] = pizza[b]
        BY <1>2 DEF IInv, OvenInv, OwnPizza
      <3>2. pc[b] \in Baking => ovenslots[slot[b]] = pizza[b]
        BY DEF IInv, OvenInv, OwnPizza
      <3> QED
        BY <1>1, <3>1, <3>2 DEF OvenMap, Baking
    <2>2. OvenMap' = [b \in Cook |-> IF pc'[b] \in Baking THEN ovenslots'[slot'[b]] ELSE None]
      BY DEF OvenMap, Baking
    <2> QED
      BY <2>1, <2>2 DEF OvenMap
  <1> QED
    BY <1>3, <1>4, <1>5, <1>6 DEF Shop!TakeOut, OvenMap, HandsMap, BagMap

\* Counting the pizza on the table is serving it.
LEMMA CountPutServes ==
  ASSUME IInv, NEW c \in Cook, CountPut(c)
  PROVE  Shop!Serve(c)
  <1>1. /\ c \in Process /\ pc[c] = "count" /\ Goto(c, "counted")
        /\ pizza' = [pizza EXCEPT ![c] = None]
        /\ UNCHANGED <<ovenslots, slot>>
        /\ pc'[c] = "counted" /\ \A q \in Process : q # c => pc'[q] = pc[q]
        /\ \A q \in Process : q # c => pizza'[q] = pizza[q]
        /\ \A b \in Cook : b \in Process
        /\ \A d \in Courier : d \in Process /\ d # c
    BY ProcessAssumption DEF CountPut, Process, At, oven, IInv, Types, Goto
  <1>2. \A d \in Courier : ~At(d, "clear") /\ ~At(d, "clear")'
    <2>1. \A q \in Process : pc[q] # "clear"
      BY <1>1, NobodyClears, HeldSets
    <2> QED
      BY <1>1, <2>1 DEF At
  <1>3. HandsMap[c] = pizza[c] /\ HandsMap[c] # None
    BY <1>1, MapsOfCook DEF HandsMap, Carrying
  <1>4. TableQueue = Queued /\ TableQueue' = Append(Queued, pizza[c])
    BY <1>2, QueueAppended DEF TableQueue
  <1>5. Len(TableQueue) < SLOTS
    BY <1>4, QueueType, CountPutStep
  <1>6. HandsMap' = [HandsMap EXCEPT ![c] = None]
    BY <1>1 DEF HandsMap, Carrying
  <1>7. OvenMap' = OvenMap
    BY <1>1 DEF OvenMap, Baking
  <1>8. BagMap' = BagMap
    BY <1>1 DEF BagMap
  <1> QED
    BY <1>3, <1>4, <1>5, <1>6, <1>7, <1>8 DEF Shop!Serve, OvenMap, HandsMap, BagMap

\* What a courier's step leaves of the cooks' part of the shop.
LEMMA CooksUntouched ==
  ASSUME IInv, NEW d \in Courier, NEW l, Goto(d, l), UNCHANGED <<ovenslots, slot>>,
         \A c \in Cook : pizza'[c] = pizza[c]
  PROVE  OvenMap' = OvenMap /\ HandsMap' = HandsMap
  <1>1. \A c \in Cook : pc'[c] = pc[c]
    BY ProcessAssumption DEF IInv, Types, Goto, Process
  <1> QED
    BY <1>1 DEF OvenMap, HandsMap, Baking, Carrying

\* Reading the pizza at the tail is collecting it.
LEMMA GetCollects ==
  ASSUME IInv, NEW d \in Courier, Get(d)
  PROVE  Shop!Collect(d)
  <1>1. /\ d \in Process /\ pc[d] = "get" /\ Goto(d, "clear") /\ pc'[d] = "clear"
        /\ pizza' = [pizza EXCEPT ![d] = tableslots[tabletail]]
        /\ UNCHANGED <<ovenslots, slot, tableslots, tabletail, ontable>>
        /\ \A c \in Cook : pizza'[c] = pizza[c]
    BY ProcessAssumption DEF Get, Process, At, oven, table, IInv, Types, Goto
  <1>2. OvenMap' = OvenMap /\ HandsMap' = HandsMap
    BY <1>1, CooksUntouched
  <1>3. \A q \in Courier : ~At(q, "clear")
    BY <1>1, NobodyClears, HeldSets DEF At, Process
  <1>4. TableQueue = Queued
    BY <1>3 DEF TableQueue
  <1>5. TableQueue' = Tail(Queued)
    <2>1. Queued' = Queued
      BY <1>1 DEF Queued
    <2> QED
      BY <1>1, <2>1 DEF TableQueue, At
  <1>6. Queued # <<>> /\ Head(Queued) = tableslots[tabletail]
    <2>1. ontable >= 1 /\ ontable \in Nat /\ tabletail \in Place
      BY GetStep DEF IInv, Types
    <2>2. Queued \in Seq(PizzaType) /\ Len(Queued) = ontable
      BY QueueType
    <2>3. Queued # <<>> /\ Head(Queued) = Queued[1]
      BY <2>1, <2>2
    <2>4. Queued[1] = tableslots[(tabletail + 1 - 1) % SLOTS]
      BY <2>1 DEF Queued
    <2>5. (tabletail + 1 - 1) % SLOTS = tabletail
      <3>1. tabletail + 1 - 1 = tabletail /\ tabletail \in 0 .. 2 * SLOTS - 1
        BY <2>1, SlotsAssumption DEF Place
      <3>2. Wrap(tabletail) = tabletail
        BY <2>1, SlotsAssumption DEF Wrap, Place
      <3> QED
        BY <3>1, <3>2, RemainderWraps
    <2> QED
      BY <2>3, <2>4, <2>5
  <1>7. BagMap[d] = None /\ BagMap' = [BagMap EXCEPT ![d] = tableslots[tabletail]]
    BY <1>1 DEF BagMap, IInv, Types, HandsInv, NoPizza, Process
  <1> QED
    BY <1>2, <1>4, <1>5, <1>6, <1>7 DEF Shop!Collect, OvenMap, HandsMap, BagMap

\* Clearing its place is invisible: the pizza has been collected.
LEMMA ClearInvisible ==
  ASSUME IInv, NEW d \in Courier, Clear(d)
  PROVE  UNCHANGED Shop!avars
  <1>1. /\ d \in Process /\ pc[d] = "clear" /\ Goto(d, "taken") /\ pc'[d] = "taken"
        /\ UNCHANGED <<ovenslots, slot, pizza>>
        /\ \A q \in Process : q # d => pc'[q] = pc[q]
    BY DEF Clear, Process, At, oven, IInv, Types, Goto
  <1>2. OvenMap' = OvenMap /\ HandsMap' = HandsMap
    BY <1>1, CooksUntouched
  <1>3. \A q \in Courier : ~At(q, "clear")'
    <2>1. \A q \in Process : pc[q] = "clear" => q = d
      BY <1>1, HeldSets, Alone
    <2> QED
      BY <1>1, <2>1 DEF At, Process
  <1>4. TableQueue = Tail(Queued) /\ TableQueue' = Tail(Queued)
    BY <1>1, <1>3, QueueTail DEF TableQueue, At
  <1>5. BagMap' = BagMap
    BY <1>1 DEF BagMap
  <1> QED
    BY <1>2, <1>4, <1>5 DEF Shop!avars, OvenMap, HandsMap, BagMap

\* Delivering is delivering.
LEMMA DeliverDelivers ==
  ASSUME IInv, NEW d \in Courier, Deliver(d)
  PROVE  Shop!Deliver(d)
  <1>1. /\ d \in Process /\ pc[d] = "deliver" /\ Goto(d, "await")
        /\ pizza' = [pizza EXCEPT ![d] = None]
        /\ UNCHANGED <<ovenslots, slot, tableslots, tabletail, ontable>>
        /\ \A c \in Cook : pizza'[c] = pizza[c]
        /\ \A q \in Courier : pc'[q] = "clear" <=> pc[q] = "clear"
    BY ProcessAssumption DEF Deliver, Process, At, oven, table, IInv, Types, Goto
  <1>2. OvenMap' = OvenMap /\ HandsMap' = HandsMap
    BY <1>1, CooksUntouched
  <1>3. TableQueue' = TableQueue
    BY <1>1 DEF TableQueue, Queued, At
  <1>4. BagMap[d] # None /\ BagMap' = [BagMap EXCEPT ![d] = None]
    BY <1>1, NoneIsNoPizza DEF BagMap, IInv, Types, HandsInv, WithPizza, Process
  <1> QED
    BY <1>2, <1>3, <1>4 DEF Shop!Deliver, OvenMap, HandsMap, BagMap

\* Every step of a process is a step of the shop or invisible.
LEMMA StepRefines == IInv /\ IInv' /\ [Next]_vars => [Shop!ANext]_(Shop!avars)
  <1> SUFFICES ASSUME IInv, IInv', [Next]_vars
               PROVE  Shop!ANext \/ UNCHANGED Shop!avars
    OBVIOUS
  <1>1. CASE UNCHANGED vars
    <2>1. UNCHANGED <<ovenslots, tableslots, tabletail, ontable, slot, pizza, pc>>
      BY <1>1 DEF vars, oven, table
    <2>2. OvenMap' = OvenMap /\ HandsMap' = HandsMap /\ BagMap' = BagMap
      BY <2>1 DEF OvenMap, HandsMap, BagMap
    <2>3. TableQueue' = TableQueue
      BY <2>1 DEF TableQueue, Queued, At
    <2> QED
      BY <2>2, <2>3 DEF Shop!avars, OvenMap, HandsMap, BagMap
  <1>2. ASSUME NEW p \in Process,
               \/ oven_before_insert(p) \/ oven_after_insert(p) \/ oven_before_remove(p)
               \/ oven_after_remove(p) \/ table_before_put(p) \/ table_after_put(p)
               \/ table_before_get(p) \/ table_after_get(p)
        PROVE  UNCHANGED Shop!avars
    BY <1>2, SemaphoreMoves, MoveInvisible
  <1>3. ASSUME NEW c \in Cook, CookStep(c)
        PROVE  Shop!ANext \/ UNCHANGED Shop!avars
    <2>1. c \in Process
      BY DEF Process
    <2>2. CASE Prepare(c) \/ FindSlot(c) \/ Put(c)
      BY <2>2, CookInvisible
    <2>3. CASE Insert(c)
      BY <2>3, InsertBakes DEF Shop!ANext
    <2>4. CASE Remove(c)
      BY <2>4, RemoveTakesOut DEF Shop!ANext
    <2>5. CASE CountPut(c)
      BY <2>5, CountPutServes DEF Shop!ANext
    <2> QED
      BY <1>2, <1>3, <2>1, <2>2, <2>3, <2>4, <2>5 DEF CookStep
  <1>4. ASSUME NEW d \in Courier, CourierStep(d)
        PROVE  Shop!ANext \/ UNCHANGED Shop!avars
    <2>1. d \in Process
      BY DEF Process
    <2>2. CASE Get(d)
      BY <2>2, GetCollects DEF Shop!ANext
    <2>3. CASE Clear(d)
      BY <2>3, ClearInvisible
    <2>4. CASE Deliver(d)
      BY <2>4, DeliverDelivers DEF Shop!ANext
    <2> QED
      BY <1>2, <1>4, <2>1, <2>2, <2>3, <2>4 DEF CourierStep
  <1> QED
    BY <1>1, <1>3, <1>4 DEF Next

\* The cooks and couriers of lab7 implement the abstract shop, in both builds.
THEOREM ShopImplemented == Spec => ImplementsPizzaShop
  <1>1. Init => Shop!AInit
    <2> SUFFICES ASSUME Init
                 PROVE  Shop!AInit
      OBVIOUS
    <2>1. /\ \A c \in Cook : pc[c] = "prepare"
          /\ \A d \in Courier : pc[d] = "await" /\ pizza[d] = None
      BY ProcessAssumption DEF Init, Process
    <2>2. OvenMap = [c \in Cook |-> None] /\ HandsMap = [c \in Cook |-> None]
      BY <2>1 DEF OvenMap, HandsMap, Baking, Carrying
    <2>3. BagMap = [d \in Courier |-> None]
      BY <2>1 DEF BagMap
    <2>4. TableQueue = <<>>
      <3>1. TableQueue = Queued
        BY <2>1 DEF TableQueue, At
      <3>2. Queued \in Seq(PizzaType) /\ Len(Queued) = 0
        BY Initially, QueueType DEF Init
      <3> QED
        BY <3>1, <3>2, EmptySeq
    <2> QED
      BY <2>2, <2>3, <2>4 DEF Shop!AInit, OvenMap, HandsMap, BagMap
  <1> QED
    BY <1>1, Invariant, StepRefines, PTL DEF Spec, ImplementsPizzaShop, Shop!ASpec
===============================================================================
