----------------------------- MODULE MCFifoLog -----------------------------
(***************************************************************************)
(* Small instances of FifoLog: a text of two blocks that ends with a       *)
(* newline, as those of test.sh, texts of one block that do not, rows that *)
(* come in the wrong order and leave a gap, and a FIFO that is smaller     *)
(* than a message.                                                         *)
(***************************************************************************)
EXTENDS FifoLog

Char(p, k) == <<"char", p, k>>

CONSTANTS p1, p2, p3

MCLine == [p \in {p1, p2, p3} |-> IF p = p1 THEN 3 ELSE IF p = p2 THEN 1 ELSE 4]
MCText == [p \in {p1, p2, p3} |->
             IF p = p1 THEN <<Char(p, 1), Char(p, 2), Char(p, 3), NL>>
             ELSE <<Char(p, 1)>>]

ASSUME MCTextAssumption == LinesEndBlocks /\ OneLine
=============================================================================
