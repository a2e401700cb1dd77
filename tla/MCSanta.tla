------------------------------- MODULE MCSanta -------------------------------
(***************************************************************************)
(* Small instances of Santa.  There is one elf more than a group holds, so *)
(* that one is always outside while a group is served; the reindeer are as *)
(* many as Santa waits for, as in main.c.  Elves are interchangeable and   *)
(* so are reindeer: safety is checked up to their permutations.            *)
(***************************************************************************)
EXTENDS Santa, TLC

Interchangeable == Permutations(Elf) \cup Permutations(Reindeer)
===============================================================================
