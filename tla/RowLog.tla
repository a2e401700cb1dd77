------------------------------- MODULE RowLog -------------------------------
(***************************************************************************)
(* What lab5/zad3 promises: a file of rows, where row l grows by one block *)
(* of the text of the producer of row l at a time, in the order in which   *)
(* that producer reads them, and no other row changes, as long as no       *)
(* message is torn.                                                        *)
(***************************************************************************)
EXTENDS Naturals, Sequences

CONSTANTS Producer,
          Line,         \* the row of each producer
          Text,         \* what it reads, up to a final newline
          BLOCK         \* how much of it at a time

VARIABLES rows, torn

avars == <<rows, torn>>

Least(m, n) == IF m < n THEN m ELSE n
Most(m, n) == IF m < n THEN n ELSE m

\* The first k blocks of p's text.
Blocks(p, k) == SubSeq(Text[p], 1, Least(k * BLOCK, Len(Text[p])))

RowOf(l) == IF l <= Len(rows) THEN rows[l] ELSE <<>>

AInit == rows = <<>> /\ torn = FALSE

AppendBlock(p) ==
  \E k \in 0 .. Len(Text[p]) :
    /\ RowOf(Line[p]) = Blocks(p, k)
    /\ rows' = [l \in 1 .. Most(Line[p], Len(rows)) |->
                  IF l = Line[p] THEN Blocks(p, k + 1) ELSE RowOf(l)]

\* A producer is killed in the middle of a message.
Tear == ~torn /\ torn' = TRUE /\ UNCHANGED rows

ANext ==
  \/ ~torn /\ (\E p \in Producer : AppendBlock(p)) /\ UNCHANGED torn
  \/ Tear
  \/ torn /\ torn'

ASpec == AInit /\ [][ANext]_avars
=============================================================================
