----------------------------- MODULE FileSearch -----------------------------
(***************************************************************************)
(* The search of one file in lab3/zad3: blocks are read behind the last    *)
(* bytes of the block before, as many as the searched text has, so that a  *)
(* text which lies across two blocks is found.                             *)
(***************************************************************************)
EXTENDS Naturals, Sequences, SequencesExt, FiniteSetsExt

CONSTANTS
  Contents,   \* the files: records [bytes, exec]
  Needles,    \* the texts that may be searched for
  BufSize     \* sizeof(buf), larger than any needle

ASSUME NeedleAssumption ==
  BufSize \in Nat /\ \A n \in Needles : n \in Seq(Range(n)) /\ n # <<>> /\ Len(n) < BufSize
ASSUME ContentsAssumption == \A c \in Contents : c.bytes \in Seq(Range(c.bytes))

VARIABLES
  src,      \* the file
  needle,   \* the searched text
  off,      \* bytes of the file that have been read
  buf,      \* the kept bytes, and with them the last block
  outcome   \* reading, found, absent, binary (not searched) or aborted
vars == <<src, needle, off, buf, outcome>>

Occurs(t) == \E i \in 0..Len(t) - Len(needle) : SubSeq(t, i + 1, i + Len(needle)) = needle

TypeOK ==
  /\ src \in Contents /\ needle \in Needles /\ off \in 0..Len(src.bytes)
  /\ Len(buf) <= Len(needle)
  /\ outcome \in {"reading", "found", "absent", "binary", "aborted"}

Init == /\ src \in Contents /\ needle \in Needles
        /\ off = 0 /\ buf = <<>> /\ outcome = "reading"

First == off = 0
Script == IsPrefix(<<"#", "!">>, src.bytes)

\* Variant: every block is searched by itself.
NothingKept(block) == <<>>
KeptTail(block) == SubSeq(block, Len(block) - Len(needle) + 1, Len(block))

\* one turn of the loop: read, look for a shebang, search, keep the tail
SearchBlock ==
  /\ outcome = "reading" /\ off < Len(src.bytes)
  /\ \E n \in 1..Min({BufSize - Len(buf), Len(src.bytes) - off}) :
       LET block == buf \o SubSeq(src.bytes, off + 1, off + n)
       IN  /\ off' = off + n
           /\ outcome' = IF First /\ src.exec /\ n >= 2 /\ ~Script THEN "binary"
                       ELSE IF Occurs(block) THEN "found"
                       ELSE IF Len(block) < Len(needle) THEN "aborted" ELSE "reading"
           /\ buf' = IF outcome' = "reading" THEN KeptTail(block) ELSE buf
  /\ UNCHANGED <<src, needle>>

EndOfFile ==
  /\ outcome = "reading" /\ off = Len(src.bytes)
  /\ outcome' = "absent"
  /\ UNCHANGED <<src, needle, off, buf>>

Next == SearchBlock \/ EndOfFile
Spec == Init /\ [][Next]_vars /\ WF_vars(Next)
-----------------------------------------------------------------------------
\* A file is reported exactly when the text occurs in it, wherever the blocks
\* end; only an executable that is no script, or a file that aborts the
\* search, goes without an answer.
SearchExact ==
  /\ outcome = "found" => Occurs(src.bytes)
  /\ outcome = "absent" => ~Occurs(src.bytes)

\* The assertion at line 180: a block that does not hold the text is at least
\* as long as the text.
NeverAborts == outcome # "aborted"
=============================================================================
