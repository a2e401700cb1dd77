----------------------------- MODULE LineFilter -----------------------------
(***************************************************************************)
(* lab2/zad1: copy a file without its blank lines, in blocks.  The program *)
(* scans a line for a byte that is not blank; when it finds one it goes    *)
(* back to the start of the line, which may lie in an earlier block, and   *)
(* writes.  Both builds are modelled: read/lseek, which counts offsets     *)
(* itself, and fread/fseek, which asks ftell.                              *)
(***************************************************************************)
EXTENDS Naturals, Sequences, SequencesExt, FiniteSetsExt

CONSTANTS
  Texts,     \* contents of the input file: sequences of "x", " " and "n" (newline)
  BlockSize  \* sizeof(buf)

VARIABLES
  src,    \* the input file
  off,    \* its file position
  buf,    \* the block in memory
  p,      \* curpos
  scan,   \* sys: which build; cur: curseekoff; seek, pos: lineseekoff and linepos;
          \* writing and postseek as in the program
  out,    \* the output file
  pc      \* read, scan or end
vars == <<src, off, buf, p, scan, out, pc>>

TypeOK ==
  /\ src \in Texts /\ off \in 0..Len(src) /\ Len(buf) <= BlockSize
  /\ p \in 0..BlockSize /\ scan.pos \in 0..BlockSize
  /\ scan.cur \in 0..Len(src) /\ scan.seek \in 0..scan.cur
  /\ pc \in {"read", "scan", "end"}

Init ==
  /\ src \in Texts /\ off = 0 /\ buf = <<>> /\ p = 0 /\ out = <<>> /\ pc = "read"
  /\ \E sys \in BOOLEAN : scan = [sys |-> sys, cur |-> 0, seek |-> 0, pos |-> 0,
                                  writing |-> FALSE, postseek |-> FALSE]

ReadBlock ==
  /\ pc = "read"
  /\ off' = Min({off + BlockSize, Len(src)})
  /\ buf' = SubSeq(src, off + 1, off')
  /\ scan' = [scan EXCEPT !.cur = IF scan.postseek THEN scan.seek
                                  ELSE IF scan.sys THEN @ ELSE off,
                          !.postseek = FALSE]
  /\ p' = IF scan.postseek THEN scan.pos ELSE 0
  /\ pc' = "scan"
  /\ UNCHANGED <<src, out>>

InBlock == pc = "scan" /\ p < Len(buf)
\* Variant: the start of a line is remembered without its block.
LineStartsInBlock(i) == [scan EXCEPT !.pos = i, !.writing = FALSE]
LineStartsAt(i) == [scan EXCEPT !.seek = scan.cur, !.pos = i, !.writing = FALSE]

\* writing: everything up to the end of the line or of the block
WriteLine ==
  /\ InBlock /\ scan.writing
  /\ LET eols == {i \in p + 1..Len(buf) : buf[i] = "n"}
         last == IF eols = {} THEN Len(buf) ELSE Min(eols)
     IN  /\ out' = out \o SubSeq(buf, p + 1, last)
         /\ p' = last
         /\ scan' = IF eols = {} THEN scan ELSE LineStartsAt(last)
  /\ UNCHANGED <<src, off, buf, pc>>

\* scanning: the line that ends here was blank, or another blank of it
SkipBlank ==
  /\ InBlock /\ ~scan.writing /\ buf[p + 1] # "x"
  /\ p' = p + 1
  /\ scan' = IF buf[p + 1] = "n" THEN LineStartsAt(p + 1) ELSE scan
  /\ UNCHANGED <<src, off, buf, out, pc>>

\* scanning: back to the start of the line, by a seek if it is not in this block
FoundText ==
  /\ InBlock /\ ~scan.writing /\ buf[p + 1] = "x"
  /\ IF scan.cur # scan.seek
     THEN /\ off' = scan.seek /\ pc' = "read" /\ UNCHANGED p
          /\ scan' = [scan EXCEPT !.cur = scan.seek, !.writing = TRUE, !.postseek = TRUE]
     ELSE /\ p' = scan.pos /\ UNCHANGED <<off, pc>>
          /\ scan' = [scan EXCEPT !.writing = TRUE]
  /\ UNCHANGED <<src, buf, out>>

\* Variant: the end of the file is not noticed.
BlockDoneReadsOn ==
  /\ pc = "scan" /\ p >= Len(buf)
  /\ scan' = [scan EXCEPT !.cur = IF scan.sys THEN @ + Len(buf) ELSE @]
  /\ pc' = "read"
  /\ UNCHANGED <<src, off, buf, p, out>>

BlockDone ==
  /\ pc = "scan" /\ p >= Len(buf)
  /\ scan' = [scan EXCEPT !.cur = IF scan.sys THEN @ + Len(buf) ELSE @]
  /\ pc' = IF buf = <<>> THEN "end" ELSE "read"
  /\ UNCHANGED <<src, off, buf, p, out>>

Next == ReadBlock \/ WriteLine \/ SkipBlank \/ FoundText \/ BlockDone
Spec == Init /\ [][Next]_vars /\ WF_vars(Next)
-----------------------------------------------------------------------------
SameLine(text, i, j) == \A k \in Min({i, j})..Max({i, j}) - 1 : text[k] # "n"
Kept(text, i) == \E j \in 1..Len(text) : text[j] = "x" /\ SameLine(text, i, j)

\* What is to be written of the first i bytes: of the lines that hold more
\* than blanks.
Output(text) ==
  LET lines[i \in 0..Len(text)] ==
        IF i = 0 THEN <<>>
        ELSE IF Kept(text, i) THEN Append(lines[i - 1], text[i]) ELSE lines[i - 1]
  IN  lines

\* What has been written is at any time a prefix of the lines that hold more
\* than blanks, in their order, each once; at the end it is all of them,
\* however the lines lie in the blocks.
LinesKept == IsPrefix(out, Output(src)[Len(src)]) /\ (pc = "end" => out = Output(src)[Len(src)])
=============================================================================
