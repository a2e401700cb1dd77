--------------------------- MODULE PipelineParser ---------------------------
(***************************************************************************)
(* The parser of lab5/zad1: definitions "name = command | command" and     *)
(* expressions "name | name", one in a line, arrive in pieces of any       *)
(* length.  A word may begin in one piece and end in another; pointers to  *)
(* the next newline, equals sign and pipe of a piece are kept and renewed  *)
(* only where they may have become old.  The map of definitions is a       *)
(* function here (HashMap shows how the program keeps it), and running a   *)
(* pipeline is one step (Pipeline shows it).                               *)
(***************************************************************************)
EXTENDS Naturals, Sequences, SequencesExt, FiniteSetsExt, TLC

CONSTANTS
  Scripts,   \* input files: sequences of "a", "b" (letters), " ", "=", "|",
             \* "n" (newline) and "^" (a control character, but not NUL)
  ChunkSize  \* sizeof(buf) in main

VARIABLES
  src,      \* the input file
  off,      \* bytes of it that have been read
  buf,      \* the piece being parsed
  p,        \* index in buf of begin
  sm,       \* [kind |-> ANY, DEF or EXP, inside |-> inside of a word?]
  ptr,      \* index in buf of the next newline (nl), "=" (eq) and "|" (pi), or 0
  scratch,  \* the first part of a word that is not complete
  expr,     \* cur_expr: the words of the line so far
  defs,     \* definitions: a function from names to sequences of commands
  ran,      \* the pipelines that have been run, as sequences of commands
  pc,       \* read, parse or end
  outcome   \* reading, or how it ended: ok, syntax, unknown, aborted
vars == <<src, off, buf, p, sm, ptr, scratch, expr, defs, ran, pc, outcome>>

NextIn(b, c, i) == LET at == {j \in i..Len(b) : b[j] = c}     \* memchr
                   IN  IF at = {} THEN 0 ELSE Min(at)
\* spaces at the end of a word do not belong to it
Strip(w) == SubSeq(w, 1, Max({0} \cup {i \in 1..Len(w) : w[i] # " "}))
AnyBeforeWord == [kind |-> "ANY", inside |-> FALSE]

TypeOK ==
  /\ src \in Scripts /\ off \in 0..Len(src) /\ Len(buf) <= ChunkSize
  /\ p \in 1..Len(buf) + 1
  /\ sm \in [kind : {"ANY", "DEF", "EXP"}, inside : BOOLEAN]
  /\ \A k \in DOMAIN ptr : ptr[k] \in 0..Len(buf)
  /\ pc \in {"read", "parse", "end"}
  /\ outcome \in {"reading", "ok", "syntax", "unknown", "aborted"}

Init ==
  /\ src \in Scripts /\ off = 0 /\ buf = <<>> /\ p = 1 /\ sm = AnyBeforeWord
  /\ ptr = [nl |-> 0, eq |-> 0, pi |-> 0]
  /\ scratch = <<>> /\ expr = <<>> /\ defs = <<>> /\ ran = <<>>
  /\ pc = "read" /\ outcome = "reading"

\* main: the next piece, or the end, where a line without its newline is forgotten
ReadChunk ==
  /\ pc = "read"
  /\ IF off = Len(src)
     THEN /\ pc' = "end" /\ outcome' = "ok"
          /\ UNCHANGED <<off, buf, p, ptr>>
     ELSE \E n \in 1..Min({ChunkSize, Len(src) - off}) :
            /\ off' = off + n /\ buf' = SubSeq(src, off + 1, off + n) /\ p' = 1
            /\ ptr' = [nl |-> NextIn(buf', "n", 1), eq |-> NextIn(buf', "=", 1),
                       pi |-> NextIn(buf', "|", 1)]
            /\ pc' = "parse" /\ UNCHANGED outcome
  /\ UNCHANGED <<src, sm, scratch, expr, defs, ran>>

Parsing == pc = "parse" /\ p <= Len(buf)
Fail(how) == /\ pc' = "end" /\ outcome' = how
             /\ UNCHANGED <<src, off, buf, p, sm, ptr, defs, ran>>

ChunkDone == /\ pc = "parse" /\ p > Len(buf) /\ pc' = "read"
             /\ UNCHANGED <<src, off, buf, p, sm, ptr, scratch, expr, defs, ran, outcome>>

BeforeWord ==
  /\ Parsing /\ ~sm.inside
  /\ IF \/ buf[p] \in {"=", "|", "^"}
        \/ buf[p] = "n" /\ sm.kind # "ANY"
     THEN Fail("syntax") /\ UNCHANGED <<scratch, expr>>
     ELSE /\ p' = IF buf[p] \in {" ", "n"} THEN p + 1 ELSE p
          /\ ptr' = IF buf[p] = "n" THEN [ptr EXCEPT !.nl = NextIn(buf, "n", p + 1)] ELSE ptr
          /\ sm' = [sm EXCEPT !.inside = buf[p] \notin {" ", "n"}]
          /\ UNCHANGED <<src, off, buf, scratch, expr, defs, ran, pc, outcome>>

\* where the word ends in this piece, or 0; commands may hold an equals sign
Term ==
  LET ends == {ptr.nl, ptr.pi} \cup (IF sm.kind = "DEF" THEN {} ELSE {ptr.eq})
  IN  IF ends = {0} THEN 0 ELSE Min(ends \ {0})
Words == Append(expr, Strip(scratch \o SubSeq(buf, p, Term - 1)))
WordEnds(c) == Parsing /\ sm.inside /\ Term # 0 /\ buf[Term] = c

WordContinues ==
  /\ Parsing /\ sm.inside /\ Term = 0
  /\ scratch' = scratch \o SubSeq(buf, p, Len(buf))
  /\ p' = Len(buf) + 1
  /\ UNCHANGED <<src, off, buf, sm, ptr, expr, defs, ran, pc, outcome>>

\* hash_get of a name that must be there: in a map that never got a
\* definition, the assertion in _hash_get_cell stops the program first
Known(name) == name \in DOMAIN defs
FailUnknown == /\ Fail(IF DOMAIN defs = {} THEN "aborted" ELSE "unknown")
               /\ scratch' = <<>> /\ expr' = Words

\* Variant: equals signs in commands leave an old pointer behind.
AfterLineOldEquals == [ptr EXCEPT !.nl = NextIn(buf, "n", Term + 1)]
AfterLine == [ptr EXCEPT !.nl = NextIn(buf, "n", Term + 1), !.eq = NextIn(buf, "=", Term + 1)]

\* a newline runs the pipeline or makes the definition
EndLine ==
  /\ WordEnds("n")
  /\ IF sm.kind # "DEF" /\ ~Known(Last(Words)) THEN FailUnknown
     ELSE IF sm.kind # "DEF" /\ \E i \in DOMAIN Words : ~Known(Words[i])
     THEN Fail("aborted") /\ UNCHANGED <<scratch, expr>>    \* assert(elem != NULL)
     ELSE /\ IF sm.kind = "DEF"
             THEN defs' = (Words[1] :> Tail(Words)) @@ defs /\ UNCHANGED ran
             ELSE /\ ran' = Append(ran, FlattenSeq([i \in DOMAIN Words |-> defs[Words[i]]]))
                  /\ UNCHANGED defs
          /\ scratch' = <<>> /\ expr' = <<>> /\ sm' = AnyBeforeWord
          /\ p' = Term + 1
          /\ ptr' = AfterLine
          /\ UNCHANGED <<src, off, buf, pc, outcome>>

\* a pipe sign: the line is an expression unless it is a definition
EndPart ==
  /\ WordEnds("|")
  /\ IF sm.kind # "DEF" /\ ~Known(Last(Words)) THEN FailUnknown
     ELSE /\ scratch' = <<>> /\ expr' = Words
          /\ sm' = [kind |-> IF sm.kind = "ANY" THEN "EXP" ELSE sm.kind, inside |-> FALSE]
          /\ p' = Term + 1
          /\ ptr' = [ptr EXCEPT !.pi = NextIn(buf, "|", Term + 1)]
          /\ UNCHANGED <<src, off, buf, defs, ran, pc, outcome>>

\* an equals sign ends the name of a definition
EndName ==
  /\ WordEnds("=")
  /\ IF sm.kind # "ANY" THEN Fail("syntax") /\ scratch' = <<>> /\ expr' = Words
     ELSE /\ scratch' = <<>> /\ expr' = Words
          /\ sm' = [kind |-> "DEF", inside |-> FALSE]
          /\ p' = Term + 1
          /\ ptr' = [ptr EXCEPT !.eq = NextIn(buf, "=", Term + 1)]
          /\ UNCHANGED <<src, off, buf, defs, ran, pc, outcome>>

Next == \/ ReadChunk \/ ChunkDone \/ BeforeWord \/ WordContinues
        \/ EndLine \/ EndPart \/ EndName
Spec == Init /\ [][Next]_vars /\ WF_vars(Next)
-----------------------------------------------------------------------------
(* What is said of a whole file t: complete lines, each parsed by itself,  *)
(* until one is wrong; blank lines say nothing.  What a word may be is     *)
(* said in two ways ("by"): by the grammar at line 293, or by the program. *)
Trim(t, i, k) == LET text == {j \in i..k : t[j] # " "}
                 IN  IF text = {} THEN <<>> ELSE SubSeq(t, Min(text), Max(text))
\* NAME and IDENT hold no control character, and a NAME may begin with "=" (lines
\* 296 and 297); the program looks at the first symbol of a word only, and lets no
\* word begin with "=" (lines 360 and 375).
WrongStart(w) == w = <<>> \/ w[1] \in {"=", "^"}
Wrong(w, by) == IF by = "grammar" THEN w = <<>> \/ Contains(w, "^") ELSE WrongStart(w)

\* the last sign c between from and to, or from
LastSign(t, c, from, to) == Max({from} \cup {j \in from + 1..to - 1 : t[j] = c})
\* the part that ends before to, and all before it, of a text that begins behind from
Part(t, from, to) == Trim(t, LastSign(t, "|", from, to) + 1, to - 1)
PartsBefore(t, from) ==
  LET parts[k \in from..Len(t)] ==
        IF k = from THEN <<>>
        ELSE IF t[k] = "|" THEN Append(parts[k - 1], Part(t, from, k)) ELSE parts[k - 1]
  IN  parts
Parts(t, from, to) == Append(PartsBefore(t, from)[to - 1], Part(t, from, to))

\* the first part of an expression that is wrong, or ok
Verdict(parts, known, by) ==
  LET bad == {i \in DOMAIN parts : Wrong(parts[i], by) \/ Contains(parts[i], "=") \/ parts[i] \notin known}
  IN  IF bad = {} THEN "ok"
      ELSE LET w == parts[Min(bad)]
           IN  IF Wrong(w, by) \/ Contains(w, "=") THEN "syntax"
               ELSE IF known = {} THEN "aborted" ELSE "unknown"

\* a definition has an equals sign before the first pipe
IsDefinition(t, from, to) ==
  \E e \in from + 1..to - 1 : t[e] = "=" /\ \A j \in from + 1..e : t[j] # "|"

FirstEquals(t, from, to) == Min({e \in from + 1..to - 1 : t[e] = "="})

\* the line between the newlines from and to
Line(t, acc, from, to, by) ==
  LET eq == FirstEquals(t, from, to)
      name == Trim(t, from + 1, eq - 1)
      commands == Parts(t, eq, to)
      parts == Parts(t, from, to)
      verdict == Verdict(parts, DOMAIN acc.defs, by)
  IN  IF acc.outcome # "ok" \/ Trim(t, from + 1, to - 1) = <<>> THEN acc
      ELSE IF IsDefinition(t, from, to)
      THEN IF Wrong(name, by) \/ \E i \in DOMAIN commands : Wrong(commands[i], by)
           THEN [acc EXCEPT !.outcome = "syntax"]
           ELSE [acc EXCEPT !.defs = (name :> commands) @@ @]
      ELSE [acc EXCEPT !.outcome = verdict,
                       !.ran = IF verdict # "ok" THEN @
                               ELSE Append(@, FlattenSeq([i \in DOMAIN parts |-> acc.defs[parts[i]]]))]
\* the lines that are complete after k symbols
Obeyed(t, by) ==
  LET obeyed[k \in 0..Len(t)] ==
        IF k = 0 THEN [defs |-> <<>>, ran |-> <<>>, outcome |-> "ok"]
        ELSE IF t[k] = "n" THEN Line(t, obeyed[k - 1], LastSign(t, "n", 0, k), k, by) ELSE obeyed[k - 1]
  IN  obeyed

\* Grammar and program agree on the words of a file: no control character in a word
\* behind its first symbol, no command that begins with an equals sign.
InnerControl(w) == \E i \in 2..Len(w) : w[i] = "^"
AgreedName(w) == ~InnerControl(w) /\ (w # <<>> => w[1] # "=")
Undisputed(t) ==
  \A to \in {k \in 1..Len(t) : t[k] = "n"} :
    LET from == LastSign(t, "n", 0, to)
        eq == FirstEquals(t, from, to)
        commands == Parts(t, eq, to)
        parts == Parts(t, from, to)
    IN  IF IsDefinition(t, from, to)
        THEN /\ AgreedName(Trim(t, from + 1, eq - 1))
             /\ \A i \in DOMAIN commands : AgreedName(commands[i])
        ELSE \A i \in DOMAIN parts : ~InnerControl(parts[i])

\* However read() cuts the file, exactly the definitions and pipelines of its
\* complete lines are made and run, up to the first line that is wrong - by the
\* program's own notion of a word, and by the grammar's where the two agree on the
\* words of the file.  (A last line without its newline, which the grammar knows, is
\* not obeyed, but may be refused.)
ObeyedBy(by) ==
  LET whole == Obeyed(src, by)[Len(src)]
  IN  /\ defs = whole.defs /\ ran = whole.ran
      /\ outcome = whole.outcome \/ (whole.outcome = "ok" /\ Last(src) # "n")
LinesObeyed ==
  outcome # "reading" => ObeyedBy("program") /\ (Undisputed(src) => ObeyedBy("grammar"))

\* A remembered pointer is never behind the next such sign when it decides
\* where a word ends, and a word is never empty when its end is stripped.
PointersFresh ==
  Parsing /\ sm.inside =>
    /\ Term = 0 \/ Term >= p
    /\ \A i \in p..Len(buf) : (buf[i] \in {"n", "|"} \/ (buf[i] = "=" /\ sm.kind # "DEF"))
                                 => Term \in p..i
    /\ scratch # <<>> \/ Term # p
=============================================================================
