------------------------------ MODULE HashMap ------------------------------
(***************************************************************************)
(* The hash map of lab5/zad1: open addressing in a table whose size is a   *)
(* power of two, with a step that depends on the key.  The table grows     *)
(* right after an insertion that fills more than four fifths of it.        *)
(* Nothing is ever deleted (hash_del is commented out), so the count of    *)
(* tombstones is always zero and left out.                                 *)
(***************************************************************************)
EXTENDS Integers, FiniteSetsExt

CONSTANTS Keys, Vals,
  None,            \* NULL
  HashFunctions,   \* functions from keys to their hashes, in 0..HashRange - 1
  HashRange,       \* a power of two above every hash and table size (2^64)
  Sizes            \* of tables: 4, 8, 16, ...

VARIABLES
  hash,      \* hashfn
  table,     \* the cells, from 0
  elems,     \* the count of used cells
  content    \* history: the last value added under each key
vars == <<hash, table, elems, content>>

Empty == [key |-> None, val |-> None]
Size(tab) == Cardinality(DOMAIN tab)
TypeOK == /\ elems \in Nat /\ hash \in HashFunctions
          /\ \A i \in DOMAIN table : table[i] = Empty \/ table[i] \in [key : Keys, val : Vals]

\* Variant: the step may be even.
StepAnyParity(k) == ((hash[k] \div 32) - hash[k]) % HashRange

\* ((hash >> 5) - hash) | 1
Step(k) == LET d == ((hash[k] \div 32) - hash[k]) % HashRange
           IN  IF d % 2 = 0 THEN d + 1 ELSE d

\* The i-th cell at which a search for k looks.
Path(size, k, i) == (hash[k] + i * Step(k)) % size

\* _hash_get_cell: the first cell on the key's path that is its own or empty
Cell(tab, k) ==
  Path(Size(tab), k,
       Min({i \in 0..Size(tab) - 1 : tab[Path(Size(tab), k, i)].key \in {k, None}}))

\* smallest size, from 4 in powers of two, of which a third is above the count
NewSize(count) == Min({size \in Sizes : size \div 3 > count})

\* the cells in use are put into a new table from the first to the last
Copied(tab, size) ==
  LET new[i \in 0..Size(tab)] ==
        IF i = 0 THEN [c \in 0..size - 1 |-> Empty]
        ELSE IF tab[i - 1] = Empty THEN new[i - 1]
        ELSE [new[i - 1] EXCEPT ![Cell(new[i - 1], tab[i - 1].key)] = tab[i - 1]]
  IN  new[Size(tab)]
Resized(tab, count) ==
  IF Size(tab) * 4 > count * 5 THEN tab ELSE Copied(tab, NewSize(count))

Init == /\ hash \in HashFunctions
        /\ table = <<>> /\ elems = 0 /\ content = <<>>

HashAdd(k, v) ==
  LET tab == IF table = <<>> THEN Resized(table, 0) ELSE table
      cell == Cell(tab, k)
      new == IF tab[cell] = Empty THEN elems + 1 ELSE elems
      added == [tab EXCEPT ![cell] = [key |-> k, val |-> v]]
  IN  /\ table' = IF new = elems THEN added ELSE Resized(added, new)
      /\ elems' = new
      /\ content' = [x \in DOMAIN content \cup {k} |-> IF x = k THEN v ELSE content[x]]
      /\ UNCHANGED hash

HashGet(k) == table[Cell(table, k)].val

HashClear == /\ table # <<>>
             /\ table' = <<>> /\ elems' = 0 /\ content' = <<>>
             /\ UNCHANGED hash

Next == (\E k \in Keys, v \in Vals : HashAdd(k, v)) \/ HashClear
Spec == Init /\ [][Next]_vars
-----------------------------------------------------------------------------
\* The table answers like a function, for names that were defined and for
\* names that were not, through collisions, overwriting and growth.
MapAgrees ==
  /\ elems = Cardinality(DOMAIN content)
  /\ table # <<>> => \A k \in Keys :
       HashGet(k) = IF k \in DOMAIN content THEN content[k] ELSE None

\* A search always ends: its path visits every cell and one of them is empty.
SearchEnds ==
  table # <<>> =>
    /\ \E i \in DOMAIN table : table[i] = Empty
    /\ \A k \in Keys : {Path(Size(table), k, i) : i \in DOMAIN table} = DOMAIN table
=============================================================================
