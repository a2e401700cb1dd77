------------------------------- MODULE LibWc -------------------------------
(***************************************************************************)
(* The table of results of lab1/zad1: libwc_stats_to_tmpfile leaves the    *)
(* output of wc in a temporary file, libwc_load_result copies the file     *)
(* into a new slot of a growing table and returns the slot as a handle.    *)
(* Every allocation may fail.                                              *)
(***************************************************************************)
EXTENDS Integers, Sequences, FiniteSets, TLC

CONSTANTS
  Outputs,    \* what wc may write
  Null,       \* NULL, or no temporary file
  MaxLoads    \* bound on the number of results ever loaded

VARIABLES
  data,       \* ctx->data: capacity is its length
  len,        \* ctx->len
  tmpfile,    \* what the temporary file holds
  loaded,     \* history: what each handle was given for
  deleted     \* history: handles that were deleted
vars == <<data, len, tmpfile, loaded, deleted>>

TypeOK == /\ data \in Seq(Outputs \cup {Null}) /\ len \in 0..Len(data)
          /\ tmpfile \in Outputs \cup {Null}
          /\ loaded \in Seq(Outputs) /\ deleted \subseteq DOMAIN loaded

Init == data = <<>> /\ len = 0 /\ tmpfile = Null /\ loaded = <<>> /\ deleted = {}

StatsToTmpfile == /\ tmpfile' \in Outputs
                  /\ UNCHANGED <<data, len, loaded, deleted>>

\* ensure_space: twice the capacity, at first 4; new slots are zeroed
Grown == IF Len(data) > len THEN data
         ELSE LET cap == IF Len(data) = 0 THEN 4 ELSE 2 * Len(data)
              IN  [i \in 1..cap |-> IF i <= len THEN data[i] ELSE Null]

\* assert(ctx->data[idx] == NULL) in load_result
NextSlotFree == Grown[len + 1] = Null

\* Variant: the length is not taken back when there is no memory.
LoadFailsKeepsSlot == /\ tmpfile # Null
                      /\ data' = Grown /\ len' = len + 1
                      /\ UNCHANGED <<tmpfile, loaded, deleted>>

\* the table cannot grow, there is no file, or there is no memory for the text
LoadFails == /\ \/ UNCHANGED data
                \/ data' = Grown
             /\ UNCHANGED <<len, tmpfile, loaded, deleted>>
LoadResult ==
  /\ tmpfile # Null /\ Len(loaded) < MaxLoads
  /\ NextSlotFree
  /\ data' = [Grown EXCEPT ![len + 1] = tmpfile]
  /\ len' = len + 1
  /\ loaded' = Append(loaded, tmpfile)
  /\ UNCHANGED <<tmpfile, deleted>>

DelResult(h) ==
  /\ IF h \notin 0..len - 1 THEN UNCHANGED <<data, deleted>>
     ELSE /\ data' = [data EXCEPT ![h + 1] = Null]
          /\ deleted' = deleted \cup {h + 1}
  /\ UNCHANGED <<len, tmpfile, loaded>>

\* destroy, and create again: the table is dropped and the file removed
Destroy == /\ data' = <<>> /\ len' = 0 /\ tmpfile' = Null
           /\ loaded' = <<>> /\ deleted' = {}

Next == \/ StatsToTmpfile \/ LoadFails \/ LoadResult
        \/ \E h \in -1..MaxLoads : DelResult(h)
        \/ Destroy
Spec == Init /\ [][Next]_vars
-----------------------------------------------------------------------------
\* A handle stands for the text it was given for until it is deleted, however
\* the table grows and whatever fails; a slot is never given twice, and the
\* next slot is free.
HandlesTrue ==
  /\ len = Len(loaded)
  /\ \A i \in 1..len : data[i] = IF i \in deleted THEN Null ELSE loaded[i]
  /\ \A i \in len + 1..Len(data) : data[i] = Null
=============================================================================
