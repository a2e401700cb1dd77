----------------------------- MODULE MCPizzeria -----------------------------
(***************************************************************************)
(* Small instances of Pizzeria: more cooks than places, so that the oven   *)
(* and the table fill up, and two couriers that compete for a pizza.       *)
(***************************************************************************)
EXTENDS Pizzeria, TLC

Interchangeable == Permutations(Cook) \cup Permutations(Courier)
===============================================================================
