------------------------------ MODULE PizzaShop ------------------------------
(***************************************************************************)
(* What lab7 promises: an oven that holds at most SLOTS pizzas, each of    *)
(* them its cook's own, and a table that is a queue of at most SLOTS       *)
(* pizzas.  A cook takes out what it put in, and couriers collect pizzas   *)
(* in the order in which cooks served them.                                *)
(***************************************************************************)
EXTENDS Naturals, Sequences, FiniteSets

CONSTANTS Cook, Courier, PizzaType, SLOTS, None

VARIABLES oven,     \* the pizza each cook has in the oven, or None
          hands,    \* the pizza each cook carries to the table, or None
          table,    \* the queue on the table
          bag       \* the pizza each courier is delivering, or None

avars == <<oven, hands, table, bag>>

AInit ==
  /\ oven = [c \in Cook |-> None]
  /\ hands = [c \in Cook |-> None]
  /\ table = <<>>
  /\ bag = [d \in Courier |-> None]

Bake(c) ==
  /\ oven[c] = None /\ hands[c] = None
  /\ Cardinality({b \in Cook : oven[b] # None}) < SLOTS
  /\ \E p \in PizzaType : oven' = [oven EXCEPT ![c] = p]
  /\ UNCHANGED <<hands, table, bag>>

TakeOut(c) ==
  /\ oven[c] # None
  /\ hands' = [hands EXCEPT ![c] = oven[c]]
  /\ oven' = [oven EXCEPT ![c] = None]
  /\ UNCHANGED <<table, bag>>

Serve(c) ==
  /\ hands[c] # None
  /\ Len(table) < SLOTS
  /\ table' = Append(table, hands[c])
  /\ hands' = [hands EXCEPT ![c] = None]
  /\ UNCHANGED <<oven, bag>>

Collect(d) ==
  /\ bag[d] = None
  /\ table # <<>>
  /\ bag' = [bag EXCEPT ![d] = Head(table)]
  /\ table' = Tail(table)
  /\ UNCHANGED <<oven, hands>>

Deliver(d) ==
  /\ bag[d] # None
  /\ bag' = [bag EXCEPT ![d] = None]
  /\ UNCHANGED <<oven, hands, table>>

ANext ==
  \/ \E c \in Cook : Bake(c) \/ TakeOut(c) \/ Serve(c)
  \/ \E d \in Courier : Collect(d) \/ Deliver(d)

ASpec == AInit /\ [][ANext]_avars
===============================================================================
