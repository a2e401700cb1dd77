------------------------------ MODULE FifoLog ------------------------------
(***************************************************************************)
(* lab5/zad3/producer.c and consumer.c: producers cut a text into blocks   *)
(* and write each, marked with the row of the producer, into a FIFO; any   *)
(* number of consumers read them and add them to that row of one file.     *)
(* Producers exclude each other by a lock on the FIFO, consumers by a lock *)
(* on the file.                                                            *)
(*                                                                         *)
(* Text, messages and the file are sequences of symbols: a newline, the    *)
(* mark of a row (ten digits and a colon) and symbols that stand for a     *)
(* character of a text.  Every system call is one action; naps, calls      *)
(* interrupted by a signal and files that cannot be opened are left out.   *)
(***************************************************************************)
EXTENDS Integers, Sequences, FiniteSets

CONSTANTS Producer, Consumer,
          Line,         \* the row of each producer (its argument)
          Text,         \* its input file
          BLOCK,        \* the block size, the same for all
          PIPE,         \* the capacity of the FIFO
          None          \* nobody

ASSUME ProcessAssumption ==
  Producer \cap Consumer = {} /\ None \notin Producer \cup Consumer
ASSUME SizesAssumption == BLOCK \in Nat \ {0} /\ PIPE \in Nat \ {0}
ASSUME LineAssumption ==
  /\ Line \in [Producer -> Nat \ {0}]
  /\ \A p, q \in Producer : Line[p] = Line[q] => p = q

NL == <<"newline">>
Mark(l) == <<"mark", l>>
IsMark(s) == s[1] = "mark"

Symbols == {NL} \cup {Mark(Line[p]) : p \in Producer}
                \cup UNION {{Text[p][i] : i \in 1 .. Len(Text[p])} : p \in Producer}

ASSUME TextAssumption ==
  /\ DOMAIN Text = Producer
  /\ \A p \in Producer : Text[p] \in Seq(Symbols)
  /\ \A p \in Producer : \A i \in 1 .. Len(Text[p]) : ~IsMark(Text[p][i])

\* The texts the consumers can take: a newline is the last symbol of a block or
\* of the text.  MCFifoLog assumes it, and so do the theorems, by name.
LinesEndBlocks ==
  \A p \in Producer : \A i \in 1 .. Len(Text[p]) :
    Text[p][i] = NL => i = Len(Text[p]) \/ \E k \in 0 .. Len(Text[p]) : i = k * BLOCK

\* The texts that go into one row each: those of test.sh (testdata).
OneLine ==
  \A p \in Producer : \A i \in 1 .. Len(Text[p]) : Text[p][i] = NL => i = Len(Text[p])

VARIABLES
  pc,         \* where each process is
  met,        \* processes whose open() has seen one of the other kind
  pipe,       \* the bytes in the FIFO
  pipelock,   \* the producer that holds flock(fifofd)
  filelock,   \* the consumer that holds flock(outfd)
  file,       \* the output file
  pos,        \* how much of its input each producer has read
  out,        \* what a producer has still to write of its message
  buf,        \* what a consumer has read and not yet added to the file
  outbuf,     \* the file as a consumer read it
  apart,      \* a process left before another had opened the FIFO
  torn        \* bytes of a message whose producer was killed stayed in the FIFO

io == <<met, pipe, pipelock, filelock, file>>
producerVars == <<pos, out>>
consumerVars == <<buf, outbuf>>
history == <<apart, torn>>
vars == <<pc, io, producerVars, consumerVars, history>>

Process == Producer \cup Consumer

Init ==
  /\ pc = [p \in Process |-> "start"]
  /\ met = {}
  /\ pipe = <<>>
  /\ pipelock = None /\ filelock = None
  /\ file = <<>>
  /\ pos = [p \in Producer |-> 0]
  /\ out = [p \in Producer |-> <<>>]
  /\ buf = [c \in Consumer |-> <<>>]
  /\ outbuf = [c \in Consumer |-> <<>>]
  /\ apart = FALSE /\ torn = FALSE

At(p, label) == pc[p] = label
Goto(p, label) == pc' = [pc EXCEPT ![p] = label]

(***************************************************************************)
(* The FIFO: open() counts the process among the users of its end at once  *)
(* and returns when it has seen one of the other.                          *)
(***************************************************************************)
Ended == {"done", "failed", "killed"}
Users(P) == {p \in P : pc[p] \notin Ended \cup {"start"}}
Peers(p) == IF p \in Producer THEN Consumer ELSE Producer

OpenFifo(p) ==
  /\ At(p, "start")
  /\ met' = IF Users(Peers(p)) = {} THEN met ELSE met \cup Users(Peers(p)) \cup {p}
  /\ Goto(p, "open")
  /\ UNCHANGED <<pipe, pipelock, filelock, file, producerVars, consumerVars, history>>

Opened(p) ==
  /\ At(p, "open")
  /\ p \in met
  /\ Goto(p, IF p \in Producer THEN "read" ELSE "lock")
  /\ UNCHANGED <<io, producerVars, consumerVars, history>>

\* The last one to close the FIFO takes what is in it along.
Leave(p, label) ==
  /\ Goto(p, label)
  /\ pipe' = IF Users(Process) = {p} THEN <<>> ELSE pipe
  /\ apart' = (apart \/ \E q \in Process : pc[q] \in {"start", "open"})

Least(m, n) == IF m < n THEN m ELSE n
Drop(s, n) == SubSeq(s, n + 1, Len(s))

(***************************************************************************)
(* A producer.                                                             *)
(***************************************************************************)
\* The block after the first n symbols, marked and ended by a newline.
Message(p, n) ==
  LET block == SubSeq(Text[p], n + 1, Least(n + BLOCK, Len(Text[p])))
      end == IF block[Len(block)] = NL THEN <<>> ELSE <<NL>>
  IN  <<Mark(Line[p])>> \o block \o end

ReadBlock(p) ==
  /\ At(p, "read")
  /\ pos[p] < Len(Text[p])
  /\ out' = [out EXCEPT ![p] = Message(p, pos[p])]
  /\ pos' = [pos EXCEPT ![p] = Least(@ + BLOCK, Len(Text[p]))]
  /\ Goto(p, "lock")
  /\ UNCHANGED <<io, consumerVars, history>>

LockFifo(p) ==
  /\ At(p, "lock")
  /\ pipelock = None
  /\ pipelock' = p
  /\ Goto(p, "poll")
  /\ UNCHANGED <<met, pipe, filelock, file, producerVars, consumerVars, history>>

\* Variant: the producer does not wait for the FIFO to be empty.
DoesNotWait(p) ==
  /\ At(p, "poll")
  /\ Goto(p, "write")
  /\ UNCHANGED <<io, producerVars, consumerVars, history>>

\* FIONREAD finds the FIFO empty.
FifoEmpty(p) ==
  /\ At(p, "poll")
  /\ pipe = <<>>
  /\ Goto(p, "write")
  /\ UNCHANGED <<io, producerVars, consumerVars, history>>

\* write() puts in what fits and goes on when there is room again.
Write(p) ==
  LET n == Least(Len(out[p]), PIPE - Len(pipe))
  IN  /\ At(p, "write")
      /\ Users(Consumer) # {}
      /\ n > 0
      /\ pipe' = pipe \o SubSeq(out[p], 1, n)
      /\ out' = [out EXCEPT ![p] = Drop(@, n)]
      /\ Goto(p, IF n = Len(out[p]) THEN "unlock" ELSE "write")
      /\ UNCHANGED <<met, pipelock, filelock, file, pos, consumerVars, history>>

\* SIGPIPE ends a producer that writes with no consumer left; its lock goes with it.
BrokenPipe(p) ==
  /\ At(p, "write")
  /\ Users(Consumer) = {}
  /\ Leave(p, "killed")
  /\ pipelock' = None
  /\ torn' = (torn \/ (Users(Process) # {p} /\ ~IsMark(out[p][1])))
  /\ UNCHANGED <<met, filelock, file, producerVars, consumerVars>>

UnlockFifo(p) ==
  /\ At(p, "unlock")
  /\ pipelock' = None
  /\ Goto(p, "read")
  /\ UNCHANGED <<met, pipe, filelock, file, producerVars, consumerVars, history>>

\* End of the input: close() and return.
ProducerDone(p) ==
  /\ At(p, "read")
  /\ pos[p] = Len(Text[p])
  /\ Leave(p, "done")
  /\ UNCHANGED <<met, pipelock, filelock, file, producerVars, consumerVars, torn>>

ProducerStep(p) ==
  \/ ReadBlock(p) \/ LockFifo(p) \/ FifoEmpty(p) \/ Write(p) \/ BrokenPipe(p)
  \/ UnlockFifo(p) \/ ProducerDone(p)

(***************************************************************************)
(* The file, and the search for a row in it.                               *)
(***************************************************************************)
Ends(s) == {i \in 1 .. Len(s) : s[i] = NL}
RowCount(s) == Cardinality(Ends(s))

\* Where the row l ends, for l up to the number of rows.
EndOfRow(s, l) ==
  IF l = 0 THEN 0
  ELSE CHOOSE i \in Ends(s) : Cardinality({k \in Ends(s) : k <= i}) = l

\* write() at an offset.
Overwrite(s, offset, data) ==
  SubSeq(s, 1, offset) \o data \o Drop(s, offset + Len(data))

\* Variant: the text is inserted after the newline of the row.
InsertAfterNewline(data, l, c) ==
  IF RowCount(outbuf[c]) >= l
  THEN LET e == EndOfRow(outbuf[c], l)
       IN  Overwrite(file, e, data \o Drop(outbuf[c], e))
  ELSE Overwrite(file, Len(outbuf[c]),
                 [i \in 1 .. l - 1 - RowCount(outbuf[c]) |-> NL] \o data)

\* data, which ends with a newline, replaces the newline of row l and the rest
\* of the file follows; a row that is not there yet is put at the end, after as
\* many empty rows as are missing.
AddToRow(data, l, c) ==
  IF RowCount(outbuf[c]) >= l
  THEN LET e == EndOfRow(outbuf[c], l)
       IN  Overwrite(file, e - 1, data \o Drop(outbuf[c], e))
  ELSE Overwrite(file, Len(outbuf[c]),
                 [i \in 1 .. l - 1 - RowCount(outbuf[c]) |-> NL] \o data)

(***************************************************************************)
(* A consumer.                                                             *)
(***************************************************************************)
\* Variant: the file is not locked.
ReadsUnlocked(c) ==
  /\ At(c, "lock")
  /\ Goto(c, "fetch")
  /\ UNCHANGED <<io, producerVars, consumerVars, history>>

LockFile(c) ==
  /\ At(c, "lock")
  /\ filelock = None
  /\ filelock' = c
  /\ Goto(c, "fetch")
  /\ UNCHANGED <<met, pipe, pipelock, file, producerVars, consumerVars, history>>

\* The buffer has room for a mark, a block and a newline.
Room(c) == BLOCK + 2 - Len(buf[c])

\* read() takes what is there, and the loop stops at a newline.
Fetch(c) ==
  LET n == Least(Room(c), Len(pipe))
  IN  /\ At(c, "fetch")
      /\ n > 0
      /\ buf' = [buf EXCEPT ![c] = @ \o SubSeq(pipe, 1, n)]
      /\ pipe' = Drop(pipe, n)
      /\ Goto(c, IF pipe[n] = NL THEN "load" ELSE "fetch")
      /\ UNCHANGED <<met, pipelock, filelock, file, producerVars, outbuf, history>>

\* read() returns 0: no producer has the FIFO open, or the buffer is full.
FetchNothing(c) ==
  /\ At(c, "fetch")
  /\ Room(c) = 0 \/ (pipe = <<>> /\ Users(Producer) = {})
  /\ Goto(c, IF buf[c] = <<>> THEN "close" ELSE "bad")
  /\ UNCHANGED <<io, producerVars, consumerVars, history>>

\* The first line in the buffer must begin with a mark; the file is read.
Load(c) ==
  /\ At(c, "load")
  /\ outbuf' = [outbuf EXCEPT ![c] = file]
  /\ Goto(c, IF IsMark(buf[c][1]) THEN "store" ELSE "bad")
  /\ UNCHANGED <<io, producerVars, buf, history>>

\* The consumer ends, after the last message or because of invalid data; its
\* lock goes with it.
Close(c) ==
  /\ pc[c] \in {"close", "bad"}
  /\ Leave(c, IF At(c, "close") THEN "done" ELSE "failed")
  /\ filelock' = IF filelock = c THEN None ELSE filelock
  /\ UNCHANGED <<met, pipelock, file, producerVars, consumerVars, torn>>

\* Variant: the mark is written to the file with the text.
StoreWithMark(c) ==
  LET end == EndOfRow(buf[c], 1)
      rest == Drop(buf[c], end)
  IN  /\ At(c, "store")
      /\ file' = AddToRow(SubSeq(buf[c], 1, end), buf[c][1][2], c)
      /\ buf' = [buf EXCEPT ![c] = rest]
      /\ outbuf' = [outbuf EXCEPT ![c] = <<>>]
      /\ Goto(c, IF rest = <<>> THEN "unlock" ELSE "load")
      /\ UNCHANGED <<met, pipe, pipelock, filelock, producerVars, history>>

\* The rest of the buffer is another line, if reads have coalesced.
Store(c) ==
  LET end == EndOfRow(buf[c], 1)
      rest == Drop(buf[c], end)
  IN  /\ At(c, "store")
      /\ file' = AddToRow(SubSeq(buf[c], 2, end), buf[c][1][2], c)
      /\ buf' = [buf EXCEPT ![c] = rest]
      /\ outbuf' = [outbuf EXCEPT ![c] = <<>>]
      /\ Goto(c, IF rest = <<>> THEN "unlock" ELSE "load")
      /\ UNCHANGED <<met, pipe, pipelock, filelock, producerVars, history>>

UnlockFile(c) ==
  /\ At(c, "unlock")
  /\ filelock' = None
  /\ Goto(c, "lock")
  /\ UNCHANGED <<met, pipe, pipelock, file, producerVars, consumerVars, history>>

ConsumerStep(c) ==
  \/ LockFile(c) \/ Fetch(c) \/ FetchNothing(c) \/ Load(c) \/ Store(c)
  \/ UnlockFile(c) \/ Close(c)

Next ==
  \/ \E p \in Process : OpenFifo(p) \/ Opened(p)
  \/ \E p \in Producer : ProducerStep(p)
  \/ \E c \in Consumer : ConsumerStep(c)

Spec == Init /\ [][Next]_vars

(***************************************************************************)
(* Every process that can go on does.  The locks need no more: a process   *)
(* takes one as many times as there are blocks, and then ends.             *)
(***************************************************************************)
Fairness ==
  /\ \A p \in Process : WF_vars(OpenFifo(p)) /\ WF_vars(Opened(p))
  /\ \A p \in Producer : WF_vars(ProducerStep(p))
  /\ \A c \in Consumer : WF_vars(ConsumerStep(c))

FairSpec == Spec /\ Fairness

(***************************************************************************)
(* Every variable keeps its type, what is read and written stays within    *)
(* the buffers of blocksize + 12 bytes and the FIFO, and no mark gets into *)
(* the file unless a message was torn.                                     *)
(***************************************************************************)
TypeOK ==
  /\ pc \in [Process -> Ended \cup {"start", "open", "read", "lock", "poll",
                    "write", "unlock", "fetch", "load", "store", "close", "bad"}]
  /\ met \subseteq Process /\ apart \in BOOLEAN
  /\ pipelock \in Producer \cup {None} /\ filelock \in Consumer \cup {None}
  /\ pipe \in Seq(Symbols) /\ Len(pipe) <= PIPE
  /\ torn \in BOOLEAN
  /\ file \in Seq(Symbols)
  /\ \A i \in 1 .. Len(file) : IsMark(file[i]) => torn
  /\ \A p \in Producer : pos[p] \in 0 .. Len(Text[p])
  /\ \A p \in Producer : out[p] \in Seq(Symbols) /\ Len(out[p]) <= BLOCK + 2
  /\ \A c \in Consumer : buf[c] \in Seq(Symbols) /\ Len(buf[c]) <= BLOCK + 2
  /\ \A c \in Consumer : outbuf[c] \in Seq(Symbols)

(***************************************************************************)
(* A read never runs into the message that follows (the assumption of the  *)
(* poll at producer.c:93): the bytes in the FIFO and in the buffer of the  *)
(* consumer that reads begin at most one message between them, a full      *)
(* buffer ends a line, and no data is invalid.  A producer that is killed  *)
(* in the middle of a message, with the FIFO open elsewhere, leaves a      *)
(* beginning behind to which the next message is joined: torn.             *)
(***************************************************************************)
Marks(s) == Cardinality({i \in 1 .. Len(s) : IsMark(s[i])})

OneMessageToRead ==
  ~torn => \A c \in Consumer :
             /\ pc[c] = "fetch" => Marks(buf[c]) + Marks(pipe) <= 1
             /\ pc[c] = "fetch" => Room(c) > 0
             /\ pc[c] # "bad"

(***************************************************************************)
(* Between two updates the rows of the file are those of the abstract log: *)
(* row l is a prefix of what the producer of row l read, nothing is lost,  *)
(* doubled or mixed with another row ("niezależnie od ilości producentów   *)
(* i konsumentów nie tracimy ani nie mieszamy danych", wnioski.txt:1).     *)
(* The abstract log promises nothing once a message is torn.               *)
(***************************************************************************)
Row(s, l) == SubSeq(s, EndOfRow(s, l - 1) + 1, EndOfRow(s, l) - 1)
Rows(s) == [l \in 1 .. RowCount(s) |-> Row(s, l)]

Chomped(t) ==
  IF t # <<>> /\ t[Len(t)] = NL THEN SubSeq(t, 1, Len(t) - 1) ELSE t

Log == INSTANCE RowLog WITH
  rows <- Rows(file), torn <- torn, Text <- [p \in Producer |-> Chomped(Text[p])]

ImplementsRowLog == Log!ASpec

(***************************************************************************)
(* The file when all is done: each text in its row, the other rows empty.  *)
(***************************************************************************)
Complete ==
  \A p \in Producer :
    \/ Text[p] = <<>>
    \/ Line[p] <= RowCount(file) /\ Row(file, Line[p]) = Chomped(Text[p])

AllEnded == \A p \in Process : pc[p] \in Ended

(***************************************************************************)
(* If all have the FIFO open before the first closes it, as in the tests,  *)
(* all end and the file is complete (test.sh waits for each and compares). *)
(***************************************************************************)
EndsTogether == <>(apart \/ (AllEnded /\ Complete))

(***************************************************************************)
(* When all have ended no data is lost, in whatever order they started     *)
(* (wnioski.txt:1).  The code does not guarantee it: a consumer that sees  *)
(* the end of the FIFO leaves a producer behind that has just opened it.   *)
(***************************************************************************)
NothingLost == AllEnded => Complete
=============================================================================
