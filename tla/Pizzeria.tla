------------------------------ MODULE Pizzeria ------------------------------
(***************************************************************************)
(* lab7/main.c: cooks and couriers, all processes of their own, share an   *)
(* oven and a table of SLOTS places each in shared memory, under five      *)
(* semaphores.  The Makefile builds the program twice: with POSIX          *)
(* semaphores a pair of operations is two calls, with System V semaphores  *)
(* it is one atomic semop.                                                 *)
(*                                                                         *)
(* Every step between two semaphore calls is one action, except that the   *)
(* accesses to shared memory inside a critical section are split where     *)
(* another process could see or destroy what a broken lock lets it.  A nap *)
(* is the time a process may stay between two actions.                     *)
(***************************************************************************)
EXTENDS Integers, Sequences, FiniteSets

CONSTANTS Cook, Courier,    \* the processes main() starts
          PizzaType,        \* the values of rand() % 10
          SLOTS,
          None              \* a local variable that is not set

ASSUME ProcessAssumption ==
  IsFiniteSet(Cook) /\ IsFiniteSet(Courier) /\ Cook \cap Courier = {}
ASSUME SlotsAssumption == SLOTS \in Nat \ {0}
ASSUME TypeAssumption == PizzaType \subseteq Nat /\ None \notin Int

VARIABLES
  build,                    \* which of the two programs runs
  sem,                      \* the five semaphores
  ovenslots, tableslots,    \* struct shared: -1 marks a free place
  tablehead, tabletail, inoven, ontable,
  pc,                       \* where each process is
  slot,                     \* the local variable of each cook
  pizza                     \* type, then cooked, of a cook; pizza of a courier
  \* (both go back to their first value after their last use in the loop)

table == <<tableslots, tablehead, tabletail, ontable>>
oven == <<ovenslots, inoven>>
vars == <<build, sem, oven, table, pc, slot, pizza>>

Place == 0 .. SLOTS - 1
Process == Cook \cup Courier
Semaphore == {"OVEN_LK", "OVEN_CAP", "TABLE_LK", "TABLE_CAP", "TABLE_AVAIL"}

\* setup_shm, run by main before it starts the others.
Init ==
  /\ build \in {"posix", "sysv"}
  /\ sem = [s \in Semaphore |->
              CASE s \in {"OVEN_LK", "TABLE_LK"} -> 1
                [] s \in {"OVEN_CAP", "TABLE_CAP"} -> SLOTS
                [] s = "TABLE_AVAIL" -> 0]
  /\ ovenslots = [i \in Place |-> -1]
  /\ tableslots = [i \in Place |-> -1]
  /\ tablehead = 0 /\ tabletail = 0
  /\ inoven = 0 /\ ontable = 0
  /\ pc = [p \in Process |-> IF p \in Cook THEN "prepare" ELSE "await"]
  /\ slot = [c \in Cook |-> 0]
  /\ pizza = [p \in Process |-> None]

At(p, label) == pc[p] = label
Goto(p, label) == pc' = [pc EXCEPT ![p] = label]

(***************************************************************************)
(* Semaphore operations, one or two at a time.                             *)
(***************************************************************************)
Down(S) ==
  /\ \A s \in S : sem[s] > 0
  /\ sem' = [s \in Semaphore |-> IF s \in S THEN sem[s] - 1 ELSE sem[s]]

Up(S) == sem' = [s \in Semaphore |-> IF s \in S THEN sem[s] + 1 ELSE sem[s]]

Move(p, from, to) ==
  /\ At(p, from)
  /\ Goto(p, to)
  /\ UNCHANGED <<build, oven, table, slot, pizza>>

Wait2(p, first, second, from, between, to) ==
  \/ build = "posix" /\ Down({first}) /\ Move(p, from, between)
  \/ build = "posix" /\ Down({second}) /\ Move(p, between, to)
  \/ build = "sysv" /\ Down({first, second}) /\ Move(p, from, to)

Post2(p, first, second, from, between, to) ==
  \/ build = "posix" /\ Up({first}) /\ Move(p, from, between)
  \/ build = "posix" /\ Up({second}) /\ Move(p, between, to)
  \/ build = "sysv" /\ Up({first, second}) /\ Move(p, from, to)

\* Variant: the capacity of the oven is not waited for.
oven_insert_no_capacity(c) ==
  Down({"OVEN_LK"}) /\ Move(c, "oven_cap", "find")

\* Variant: the lock of the oven is not taken.
oven_insert_no_lock(c) ==
  Down({"OVEN_CAP"}) /\ Move(c, "oven_cap", "find")

oven_before_insert(c) ==
  Wait2(c, "OVEN_CAP", "OVEN_LK", "oven_cap", "oven_lk", "find")

oven_after_insert(c) == Up({"OVEN_LK"}) /\ Move(c, "inserted", "bake")

oven_before_remove(c) == Down({"OVEN_LK"}) /\ Move(c, "bake", "remove")

oven_after_remove(c) ==
  Post2(c, "OVEN_CAP", "OVEN_LK", "removed", "remove_unlk", "table_cap")

\* Variant: the two waits are swapped, the lock first.
table_put_lock_first(c) ==
  Wait2(c, "TABLE_LK", "TABLE_CAP", "table_cap", "put_lk", "put")

table_before_put(c) ==
  Wait2(c, "TABLE_CAP", "TABLE_LK", "table_cap", "put_lk", "put")

\* Variant: TABLE_CAP is posted in place of TABLE_AVAIL.
table_put_wrong_post(c) ==
  Post2(c, "TABLE_LK", "TABLE_CAP", "counted", "avail", "prepare")

table_after_put(c) ==
  Post2(c, "TABLE_LK", "TABLE_AVAIL", "counted", "avail", "prepare")

\* Variant: a courier does not wait for a pizza.
table_get_any_time(d) == Down({"TABLE_LK"}) /\ Move(d, "await", "get")

table_before_get(d) ==
  Wait2(d, "TABLE_AVAIL", "TABLE_LK", "await", "get_lk", "get")

table_after_get(d) ==
  Post2(d, "TABLE_LK", "TABLE_CAP", "taken", "table_free", "deliver")

(***************************************************************************)
(* cook_main.                                                              *)
(***************************************************************************)
Prepare(c) ==
  /\ At(c, "prepare")
  /\ \E type \in PizzaType : pizza' = [pizza EXCEPT ![c] = type]
  /\ Goto(c, "oven_cap")
  /\ UNCHANGED <<build, sem, oven, table, slot>>

\* The loop over ovenslots; slot is SLOTS when there is no free place.
FreeSlot ==
  LET free == {i \in Place : ovenslots[i] < 0}
  IN  IF free = {} THEN SLOTS
      ELSE CHOOSE i \in free : \A k \in free : i <= k

FindSlot(c) ==
  /\ At(c, "find")
  /\ slot' = [slot EXCEPT ![c] = FreeSlot]
  /\ Goto(c, "insert")
  /\ UNCHANGED <<build, sem, oven, table, pizza>>

Insert(c) ==
  /\ At(c, "insert")
  /\ ovenslots' = [ovenslots EXCEPT ![slot[c]] = pizza[c]]
  /\ inoven' = inoven + 1
  /\ Goto(c, "inserted")
  /\ UNCHANGED <<build, sem, table, slot, pizza>>

\* Variant: the place is freed without updating the counter.
RemoveUncounted(c) ==
  /\ At(c, "remove")
  /\ pizza' = [pizza EXCEPT ![c] = ovenslots[slot[c]]]
  /\ ovenslots' = [ovenslots EXCEPT ![slot[c]] = -1]
  /\ slot' = [slot EXCEPT ![c] = 0]
  /\ Goto(c, "removed")
  /\ UNCHANGED <<build, sem, inoven, table>>

Remove(c) ==
  /\ At(c, "remove")
  /\ pizza' = [pizza EXCEPT ![c] = ovenslots[slot[c]]]
  /\ ovenslots' = [ovenslots EXCEPT ![slot[c]] = -1]
  /\ slot' = [slot EXCEPT ![c] = 0]
  /\ inoven' = inoven - 1
  /\ Goto(c, "removed")
  /\ UNCHANGED <<build, sem, table>>

Put(c) ==
  /\ At(c, "put")
  /\ tableslots' = [tableslots EXCEPT ![tablehead] = pizza[c]]
  /\ Goto(c, "count")
  /\ UNCHANGED <<build, sem, oven, tablehead, tabletail, ontable, slot, pizza>>

CountPut(c) ==
  /\ At(c, "count")
  /\ tablehead' = (tablehead + 1) % SLOTS
  /\ ontable' = ontable + 1
  /\ pizza' = [pizza EXCEPT ![c] = None]
  /\ Goto(c, "counted")
  /\ UNCHANGED <<build, sem, oven, tableslots, tabletail, slot>>

CookStep(c) ==
  \/ Prepare(c)
  \/ oven_before_insert(c) \/ FindSlot(c) \/ Insert(c) \/ oven_after_insert(c)
  \/ oven_before_remove(c) \/ Remove(c) \/ oven_after_remove(c)
  \/ table_before_put(c) \/ Put(c) \/ CountPut(c) \/ table_after_put(c)

(***************************************************************************)
(* deliv_main.                                                             *)
(***************************************************************************)
\* Variant: the courier takes from the head of the ring.
GetLast(d) ==
  /\ At(d, "get")
  /\ pizza' = [pizza EXCEPT ![d] = tableslots[(tablehead + SLOTS - 1) % SLOTS]]
  /\ Goto(d, "clear")
  /\ UNCHANGED <<build, sem, oven, table, slot>>

Get(d) ==
  /\ At(d, "get")
  /\ pizza' = [pizza EXCEPT ![d] = tableslots[tabletail]]
  /\ Goto(d, "clear")
  /\ UNCHANGED <<build, sem, oven, table, slot>>

Clear(d) ==
  /\ At(d, "clear")
  /\ tableslots' = [tableslots EXCEPT ![tabletail] = -1]
  /\ tabletail' = (tabletail + 1) % SLOTS
  /\ ontable' = ontable - 1
  /\ Goto(d, "taken")
  /\ UNCHANGED <<build, sem, oven, tablehead, slot, pizza>>

Deliver(d) ==
  /\ At(d, "deliver")
  /\ pizza' = [pizza EXCEPT ![d] = None]
  /\ Goto(d, "await")
  /\ UNCHANGED <<build, sem, oven, table, slot>>

CourierStep(d) ==
  table_before_get(d) \/ Get(d) \/ Clear(d) \/ table_after_get(d) \/ Deliver(d)

Next == (\E c \in Cook : CookStep(c)) \/ (\E d \in Courier : CourierStep(d))

Spec == Init /\ [][Next]_vars

(***************************************************************************)
(* Every process that can go on does, and one that waits on a semaphore    *)
(* gets through if the semaphore is positive again and again: processes    *)
(* nap for seconds between two uses of a semaphore and none of them can    *)
(* take it every time.                                                     *)
(***************************************************************************)
Fairness ==
  /\ \A c \in Cook :
       /\ WF_vars(CookStep(c))
       /\ SF_vars(oven_before_insert(c))
       /\ SF_vars(oven_before_remove(c))
       /\ SF_vars(table_before_put(c))
  /\ \A d \in Courier : WF_vars(CourierStep(d)) /\ SF_vars(table_before_get(d))

FairSpec == Spec /\ Fairness

(***************************************************************************)
(* Cooks with a pizza in the oven, with one in their hands, and those that *)
(* hold the lock of the oven or, in the POSIX build, are to give it back.  *)
(***************************************************************************)
Baking == {"inserted", "bake", "remove"}
Carrying == {"removed", "remove_unlk", "table_cap", "put_lk", "put", "count"}
AtOven == {"find", "insert", "inserted", "remove", "removed", "remove_unlk"}

CookLabels == {"prepare", "oven_cap", "oven_lk", "bake", "table_cap", "put_lk",
               "put", "count", "counted", "avail"} \cup AtOven
CourierLabels == {"await", "get_lk", "get", "clear", "taken", "table_free",
                  "deliver"}

(***************************************************************************)
(* Every variable keeps its type; the ring indices stay inside the table.  *)
(***************************************************************************)
TypeOK ==
  /\ build \in {"posix", "sysv"}
  /\ sem \in [Semaphore -> 0 .. SLOTS]
  /\ ovenslots \in [Place -> PizzaType \cup {-1}]
  /\ tableslots \in [Place -> PizzaType \cup {-1}]
  /\ tablehead \in Place /\ tabletail \in Place
  /\ inoven \in 0 .. SLOTS /\ ontable \in 0 .. SLOTS
  /\ pc \in [Process -> CookLabels \cup CourierLabels]
  /\ slot \in [Cook -> Place]
  /\ pizza \in [Process -> PizzaType \cup {None}]

(***************************************************************************)
(* A cook that has come past the capacity and the lock finds a free place  *)
(* (the assertion of main.c:274) and it is still free when it fills it.    *)
(***************************************************************************)
FreePlaceFound ==
  \A c \in Cook : At(c, "insert") => slot[c] \in Place /\ ovenslots[slot[c]] = -1

(***************************************************************************)
(* Whatever other cooks do meanwhile, a cook takes out of the oven the     *)
(* pizza it put in (main.c:275, 283), and no two cooks share a place.      *)
(***************************************************************************)
OwnPizza ==
  \A c \in Cook : pc[c] \in Baking =>
    /\ ovenslots[slot[c]] = pizza[c]
    /\ \A b \in Cook \ {c} : pc[b] \in Baking => slot[b] # slot[c]

(***************************************************************************)
(* A courier that was let through finds a pizza at the tail of the ring    *)
(* (the assertion of main.c:303) and a cook an empty place at the head.    *)
(***************************************************************************)
TableReady ==
  /\ \A d \in Courier : At(d, "clear") => pizza[d] \in PizzaType
  /\ \A c \in Cook : At(c, "put") => tableslots[tablehead] = -1

(***************************************************************************)
(* Between critical sections the two counters in shared memory, which the  *)
(* reports print, are the numbers of occupied places.                      *)
(***************************************************************************)
Occupied(slots) == {i \in Place : slots[i] # -1}

CountersTrue ==
  /\ sem["OVEN_LK"] = 1 => inoven = Cardinality(Occupied(ovenslots))
  /\ sem["TABLE_LK"] = 1 => ontable = Cardinality(Occupied(tableslots))

(***************************************************************************)
(* The oven, the hands, the ring on the table and the bags implement those *)
(* of the abstract shop.  A courier has collected its pizza from the       *)
(* moment it has read it, although the place is cleared a step later.      *)
(***************************************************************************)
Queued == [i \in 1 .. ontable |-> tableslots[(tabletail + i - 1) % SLOTS]]

TableQueue ==
  IF \E d \in Courier : At(d, "clear") THEN Tail(Queued) ELSE Queued

Shop == INSTANCE PizzaShop WITH
  oven <- [c \in Cook |-> IF pc[c] \in Baking THEN ovenslots[slot[c]] ELSE None],
  hands <- [c \in Cook |-> IF pc[c] \in Carrying THEN pizza[c] ELSE None],
  table <- TableQueue,
  bag <- [d \in Courier |-> pizza[d]]

ImplementsPizzaShop == Shop!ASpec

(***************************************************************************)
(* A pizza that is put into the oven is served, and every pizza on the     *)
(* table makes a courier come for it.                                      *)
(***************************************************************************)
EveryPizzaServed == \A c \in Cook : At(c, "bake") ~> At(c, "prepare")
===============================================================================
