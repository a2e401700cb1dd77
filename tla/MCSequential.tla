---------------------------- MODULE MCSequential ----------------------------
(***************************************************************************)
(* The sequential parts of the programs, one at a time: prog says which,   *)
(* and the variables of the others are idle.  Each is run over a few       *)
(* inputs, with every way in which read() may cut them (lab2/zad1: with    *)
(* full blocks, as from a regular file).                                   *)
(***************************************************************************)
EXTENDS FileSearch, Integers, TLC

CONSTANTS
  Files, BufLen,           \* of the image reader
  Texts, BlockSize,        \* of the line filter
  Scripts, ChunkSize,      \* of the parser
  Keys, Vals, None, HashFunctions, HashRange, Sizes,   \* of the hash map
  Outputs, Null, MaxLoads,  \* of the table of results
  Kind, MaxDirs, MaxFailures   \* of the walk
ASSUME LoadsAssumption == MaxLoads \in Nat

VARIABLES prog, p, pc, hdr, image, fragile, scan, out,
          sm, ptr, scratch, expr, defs, ran,
          hash, table, elems, content, data, len, tmpfile, loaded, deleted,
          left, path, stats, seen, status
-----------------------------------------------------------------------------
(* Images: samples of one and two bytes, three channels, bits, comments    *)
(* before, between and after numbers, an empty one behind a number, a      *)
(* sample above maxval, a negative width, a number without anything behind *)
(* it, an end too early.                                                   *)
P(fmt, rest) == <<80, 48 + fmt, 10>> \o rest
Image(bytes, samples) == [bytes |-> bytes, good |-> TRUE, data |-> samples]
NoImage(bytes) == [bytes |-> bytes, good |-> FALSE, data |-> <<>>]
W2H1 == <<50, 32, 49, 10>>
MCExamples == {
  Image(P(1, W2H1 \o <<49, 32, 48, 10>>), <<1, 0>>),
  Image(P(2, W2H1 \o <<57, 10, 55, 32, 32, 48, 10>>), <<7, 0>>),
  Image(P(2, <<43, 50, 32, 49, 10, 57, 10, 43, 55, 45, 48, 10>>), <<7, 0>>),
  Image(P(4, <<57, 32, 49, 10, 181, 1>>), <<1, 0, 1, 0, 1, 1, 0, 1, 1>>),
  Image(P(5, W2H1 \o <<50, 53, 54, 10, 1, 0, 0, 200>>), <<1, 0, 0, 200>>),
  Image(P(6, <<49, 32, 49, 10, 57, 10, 9, 3, 1>>), <<9, 3, 1>>),
  Image(<<80, 50, 32, 35, 97, 10, 50, 35, 98, 10, 49, 32, 57, 35, 10, 10, 55, 32, 48, 10>>, <<7, 0>>),
  Image(P(2, <<50, 32, 49, 35, 10, 57, 10, 55, 32, 48, 10>>), <<7, 0>>),
  NoImage(P(5, W2H1 \o <<57, 10, 10, 8>>)),
  NoImage(P(3, <<49, 32, 49, 10, 57, 10, 9, 32, 1>>)),
  NoImage(P(2, W2H1 \o <<57, 10, 55, 32, 49, 50, 10>>)),
  NoImage(P(7, W2H1)),
  NoImage(P(2, <<45, 50, 32, 49, 10>>)),
  NoImage(P(2, W2H1 \o <<57, 10, 55, 32, 48>>))}
MCFiles == {e.bytes : e \in MCExamples}
Pnm == INSTANCE PnmReader WITH BufSize <- BufLen
ASSUME FilesAssumption ==
  /\ BufLen \in Nat /\ BufLen >= 3
  /\ \A b \in Files : b \in Seq(0..255) /\ (Pnm!IsImage(b) => Pnm!NumbersFit(b))
\* What the formats say of the examples is what was meant with them.
ASSUME ExamplesMeant ==
  \A e \in MCExamples : (Pnm!IsImage(e.bytes) <=> e.good) /\ (e.good => Pnm!ImageOf(e.bytes) = e.data)

(* Texts: all of up to five characters, in blocks of two.                  *)
MCTexts == UNION {[1..k -> {"x", " ", "n"}] : k \in 0..5}
Lines == INSTANCE LineFilter
ASSUME TextsAssumption == BlockSize \in Nat \ {0} /\ Texts \subseteq Seq({"x", " ", "n"})

(* Files to search: all of up to five letters, a script and a program.     *)
MCContents == [bytes : UNION {[1..n -> {"a", "b"}] : n \in 0..5}
                       \cup {<<"#", "!", "a", "b">>, <<"#", "b", "a">>}, exec : BOOLEAN]
MCNeedles == {<<"a">>, <<"a", "b">>, <<"a", "a", "b">>}

(* Command files: three lines out of definitions with one and two          *)
(* commands, with an equals sign in a command, expressions of known and    *)
(* unknown names, blank lines, syntax errors, a line without its newline,  *)
(* and two that grammar and program do not read alike.                     *)
MCLines == {<<"a", "=", "b", "n">>, <<"a", "=", " ", "b", " ", "|", "a", "=", "n">>,
            <<"a", " ", "|", "a", "n">>, <<"a", "|", "a", "=", "n">>, <<" ", "n">>, <<"b", "|", "a", "=", "n">>,
            <<"a">>, <<"^", "a", "n">>, <<"b", "=", "|", "n">>,
            <<"a", "=", "=", "b", "n">>, <<"b", "=", "a", "^", "n">>}
MCScripts == {x \o y \o z : x, y, z \in MCLines}
Parser == INSTANCE PipelineParser
ASSUME ScriptsAssumption ==
  /\ ChunkSize \in Nat \ {0}
  /\ Scripts \subseteq Seq({"a", "b", " ", "=", "|", "n", "^"})

(* Hashes: all the same, in a row, with the same step, in two clusters.    *)
MCKeys == 1..5
MCHashFunctions == {[k \in MCKeys |-> 0], [k \in MCKeys |-> k], [k \in MCKeys |-> 31 * k],
                    [k \in MCKeys |-> IF k < 3 THEN 63 ELSE 40 * k]}
MCSizes == {2 ^ k : k \in 2..9}
Map == INSTANCE HashMap

(* NULL is no name; a size is 4 or twice a size, so a power of two; there  *)
(* is memory for a table of all names.                                     *)
ASSUME MapAssumption ==
  /\ None \notin Keys /\ IsFiniteSet(Keys)
  /\ HashRange \in Nat \ {0} /\ HashFunctions \subseteq [Keys -> 0..HashRange - 1]
  /\ Sizes \subseteq Nat \ {0} /\ \A size \in Sizes : size = 4 \/ \E t \in Sizes : size = 2 * t
  /\ \E size \in Sizes : size \div 3 > Cardinality(Keys)

Wc == INSTANCE LibWc

(* A tree with a directory below the limit of the stack, one at it and one *)
(* without permission.                                                     *)
MCKind == [q \in {<<>>, <<"d">>, <<"f">>, <<"k">>, <<"k", "g">>, <<"d", "l">>, <<"d", "e">>, <<"d", "e", "h">>} |->
             IF q \in {<<>>, <<"d">>, <<"d", "e">>} THEN "dir"
             ELSE IF q = <<"k">> THEN "locked" ELSE IF q = <<"d", "l">> THEN "link" ELSE "file"]
Stats == INSTANCE TreeStats

(* Above every path there are paths; dirs has a place.                     *)
ASSUME KindAssumption ==
  /\ MaxDirs \in Nat \ {0}
  /\ <<>> \in DOMAIN Kind
  /\ \A q \in DOMAIN Kind :
       /\ q \in Seq(Stats!Name) /\ Kind[q] \in {"dir", "locked", "file", "link"}
       /\ \A k \in 0..Len(q) - 1 : SubSeq(q, 1, k) \in DOMAIN Kind
-----------------------------------------------------------------------------
Idle == "idle"
inputVars == <<src, off, buf>>
pnmVars == <<hdr, image, fragile>>
lineVars == <<scan, out>>
parserVars == <<sm, ptr, scratch, expr, defs, ran>>
mapVars == <<hash, table, elems, content>>
wcVars == <<data, len, tmpfile, loaded, deleted>>
treeVars == <<left, path, stats, seen, status>>
allVars == <<prog, p, pc, needle, outcome, inputVars, pnmVars, lineVars, parserVars, mapVars, wcVars, treeVars>>

NoInput == src = Idle /\ off = Idle /\ buf = Idle
NoCursor == p = Idle /\ pc = Idle
NoPnm == hdr = Idle /\ image = Idle /\ fragile = Idle
NoLines == scan = Idle /\ out = Idle
NoParser == /\ sm = Idle /\ ptr = Idle /\ scratch = Idle
            /\ expr = Idle /\ defs = Idle /\ ran = Idle
NoMap == hash = Idle /\ table = Idle /\ elems = Idle /\ content = Idle
NoWc == data = Idle /\ len = Idle /\ tmpfile = Idle /\ loaded = Idle /\ deleted = Idle
NoTree == left = Idle /\ path = Idle /\ stats = Idle /\ seen = Idle /\ status = Idle

SInit ==
  \/ /\ prog = "pnm" /\ Pnm!Init /\ needle = Idle
     /\ NoLines /\ NoParser /\ NoMap /\ NoWc /\ NoTree
  \/ /\ prog = "lines" /\ Lines!Init /\ needle = Idle /\ outcome = Idle
     /\ NoPnm /\ NoParser /\ NoMap /\ NoWc /\ NoTree
  \/ /\ prog = "search" /\ Init /\ NoCursor
     /\ NoPnm /\ NoLines /\ NoParser /\ NoMap /\ NoWc /\ NoTree
  \/ /\ prog = "parser" /\ Parser!Init /\ needle = Idle
     /\ NoPnm /\ NoLines /\ NoMap /\ NoWc /\ NoTree
  \/ /\ prog = "map" /\ Map!Init /\ needle = Idle /\ outcome = Idle
     /\ NoInput /\ NoCursor /\ NoPnm /\ NoLines /\ NoParser /\ NoWc /\ NoTree
  \/ /\ prog = "libwc" /\ Wc!Init /\ needle = Idle /\ outcome = Idle
     /\ NoInput /\ NoCursor /\ NoPnm /\ NoLines /\ NoParser /\ NoMap /\ NoTree
  \/ /\ prog = "stats" /\ Stats!Init /\ needle = Idle /\ outcome = Idle
     /\ NoInput /\ NoCursor /\ NoPnm /\ NoLines /\ NoParser /\ NoMap /\ NoWc

ReadImage == /\ prog = "pnm" /\ Pnm!Next
             /\ UNCHANGED <<prog, needle, lineVars, parserVars, mapVars, wcVars, treeVars>>
CopyLines == /\ prog = "lines" /\ Lines!Next
             /\ UNCHANGED <<prog, needle, outcome, pnmVars, parserVars, mapVars, wcVars, treeVars>>
SearchFile == /\ prog = "search" /\ Next
              /\ UNCHANGED <<prog, p, pc, pnmVars, lineVars, parserVars, mapVars, wcVars, treeVars>>
ParseScript == /\ prog = "parser" /\ Parser!Next
               /\ UNCHANGED <<prog, needle, pnmVars, lineVars, mapVars, wcVars, treeVars>>
UseMap == /\ prog = "map" /\ Map!Next
          /\ UNCHANGED <<prog, p, pc, needle, outcome, inputVars, pnmVars, lineVars, parserVars, wcVars, treeVars>>
UseLibWc == /\ prog = "libwc" /\ Wc!Next
            /\ UNCHANGED <<prog, p, pc, needle, outcome, inputVars, pnmVars, lineVars, parserVars, mapVars, treeVars>>
CountTree == /\ prog = "stats" /\ Stats!Next
             /\ UNCHANGED <<prog, p, pc, needle, outcome, inputVars, pnmVars, lineVars, parserVars, mapVars, wcVars>>

SNext == ReadImage \/ CopyLines \/ SearchFile \/ ParseScript \/ UseMap \/ UseLibWc \/ CountTree
SSpec == SInit /\ [][SNext]_allVars
         /\ WF_allVars(ReadImage \/ CopyLines \/ SearchFile \/ ParseScript \/ CountTree)
-----------------------------------------------------------------------------
\* The variables of the program that runs have their types: buffers stay
\* within their size, indices within the buffers, counters within the table.
TypesOK == /\ prog = "pnm" => Pnm!TypeOK
           /\ prog = "lines" => Lines!TypeOK
           /\ prog = "search" => TypeOK
           /\ prog = "parser" => Parser!TypeOK
           /\ prog = "map" => Map!TypeOK
           /\ prog = "libwc" => Wc!TypeOK
           /\ prog = "stats" => Stats!TypeOK

\* lab8: an image is read as it was written, however read() cuts it, except
\* at four places that do not look for the end of the buffer, and unless it has
\* an empty comment directly behind a token of its header.
ImageAsWritten == prog = "pnm" => Pnm!ReadAsWritten

\* lab2/zad1: the output is the lines with more than blanks, in their order.
LinesCopied == prog = "lines" => Lines!LinesKept

\* lab3/zad3: a text is found exactly when it is there, across blocks too.
FoundExactly == prog = "search" => SearchExact

\* lab5/zad1: the complete lines are obeyed up to the first wrong one, with
\* pointers into the buffer that are never old.
ScriptObeyed == prog = "parser" => Parser!LinesObeyed /\ Parser!PointersFresh

\* lab5/zad1: the hash map answers like a function, and every search in it
\* ends.
MapIsFunction == prog = "map" => Map!SearchEnds /\ Map!MapAgrees

\* lab1/zad1: a handle stands for its text until it is deleted.
HandlesKept == prog = "libwc" => Wc!HandlesTrue

\* lab2/zad3: every entry of the tree is counted once, or a failure is.
TreeCounted == prog = "stats" => Stats!EntriesOnce

\* Every program that reads a file or a tree comes to an end: none reads nothing or
\* goes back to the same place again and again.
ReadersEnd ==
  /\ prog \in {"pnm", "lines", "parser"} => <>(pc = "end")
  /\ prog = "search" => <>(outcome # "reading")
  /\ prog = "stats" => <>(status \in {"done", "failed"})

\* The assertion of lab3/zad3 at line 180: a block without the text is at
\* least as long as the text.
AssertionHolds == prog = "search" => NeverAborts
=============================================================================
