# Models of the SysOpy2022 programs

The repository holds the programs of a course on operating systems: small C
programs, each of its own, about processes, signals, pipes, threads and
semaphores. This directory models those whose correctness depends on the order
in which processes, threads or signals run, and those whose correctness depends
on how the input is cut into pieces or on which call fails.

## 1. Inventory

### Concurrent programs

| program | state | operations | how parts interact | what is hard | what makes it correct |
|---|---|---|---|---|---|
| `lab9` Santa | `ctx_t`: mutex, condition, three semaphores, two counters, `elfids` | Santa's loop, elf, reindeer | shared memory under one mutex; tokens through semaphores | tokens any thread can take, signals that are lost, counters reset after the tokens are out | array index in bounds, no lost wake-up, deliveries with everybody home, the program ends |
| `lab7` pizzeria | `struct shared`: oven, ring of the table, two counters; five semaphores | cook, courier; eight semaphore operations | shared memory between processes | order of waits, a place remembered without the lock, two builds with different atomicity | a free place and a pizza are found, own pizza, FIFO, no deadlock |
| `lab4/zad3a`, `zad3b` signals | `counter`, `finished`, `sending`, `confirmed` in each process; pending signals | two handlers, two main programs | signals | signals that merge, handlers between any two instructions | counts agree, both end |
| `lab5/zad3` FIFO log | file, its lock, position of every reader, FIFO | producer, consumer | FIFO, one file under `flock` | partial reads, end of file with no writer, several readers | every line ends in the row of its producer |
| `lab5/zad1` pipelines | state of the parser, hash map of named pipelines, pipe ends, children | parse, define, run | pipes, `fork`/`exec`, `wait` | words across reads, pointers kept across words, growth of the table, descriptors left open | every complete line obeyed, the map agrees with a function, each command has its two ends, the pipeline ends |
| `lab8` negative | read buffer, state of the header, image, `out` | parse, divide among threads, invert | threads over one output buffer without a lock | tokens across reads, two-byte samples, uneven division | the image as written, one writer of each byte, the negative of all |
| `lab3/zad3` search | block with the tail of the last, one process per directory, stdio buffers | walk, search, wait | `fork`, exit status, shared standard output | a text across two blocks, failing children, copied buffers | the search is exact, success means that all was printed |
| `lab3/zad2` integral | accumulators and files of the workers | add, store, collect | `fork`, files, exit status | old or unfinished files, the order in which bins are filled | every sample once |
| `lab4/zad1`, `zad2` | disposition, mask, pending signal, children | `signal`, `raise`, `fork`, `exec`, `sigaction` | signals | inheritance, a signal before, in or after `waitpid` | what the reports say |

### Sequential programs

| program | state | operations | what is hard | what makes it correct |
|---|---|---|---|---|
| `lab1/zad1` libwc | growing table of results, temporary file | run `wc`, load, delete, destroy | failing allocations after a slot was taken | a handle stands for its text |
| `lab2/zad1` line filter | block, remembered start of line, file position | scan, go back, write | a line that starts in an earlier block | lines with text, in order, once |
| `lab2/zad3` tree statistics | stack of open directories, path, counters | report, descend, ascend | entries that vanish, the limit of the stack | every entry counted once, or a failure |

Also here: `lab1/zad2` (command line over libwc), `lab2/zad2` (counts a
character), `lab3/zad1` (forks n children), `lab5/zad2` (lists mail through
`popen`), `lab10/zad1` (client and server that only set up their sockets so
far). Makefiles, `lab1/zad2/data` and the reports with measured times hold no
logic.

`PROJECT.json` lists each of these as a component with its status, and the
hazards at their lines.

## 2. Modules

| module | models | state |
|---|---|---|
| `Santa` | `lab9/main.c` | detailed; one action per step between two synchronisation calls |
| `Workshop` | what lab9 promises | abstract; `Santa` implements it |
| `MCSanta` | constants and symmetry for TLC | |
| `Counting` | how many processes are at some labels, and lemmas about it | used by their proofs |
| `Pizzeria` | `lab7/main.c`, both builds | detailed; variable `build` selects POSIX or System V |
| `PizzaShop` | what lab7 promises | abstract; `Pizzeria` implements it |
| `MCPizzeria` | constants and symmetry for TLC | |
| `SignalEcho` | `lab4/zad3a/main.c` and `lab4/zad3b/main.c` | detailed; `program` and `realtime` select the build |
| `FifoLog` | `lab5/zad3/producer.c` and `consumer.c` | detailed; one action per system call |
| `RowLog` | what lab5/zad3 promises | abstract; `FifoLog` implements it |
| `MCFifoLog` | texts, rows and sizes for TLC | |
| `PnmReader` | the reader of `lab8/main.c` | detailed; one action per step of the parser |
| `Negative` | the threads of `lab8/main.c` | detailed; one action per sample |
| `PipelineParser` | the parser of `lab5/zad1/main.c` | detailed; one action per word |
| `HashMap` | its hash map, for any hash function | one action per operation |
| `Pipeline` | its pipes and children | detailed; one action per system call |
| `FileSearch` | search of one file, `lab3/zad3/main.c` | one action per block |
| `TreeWalk` | its processes | detailed; one action per directory entry |
| `Integral` | `lab3/zad2/main.c` | one action per sample and per file |
| `LineFilter` | `lab2/zad1/main.c`, both builds | one action per branch of the loop |
| `TreeStats` | `lab2/zad3/main.c` | one action per directory entry |
| `LibWc` | `lab1/zad1/libwc.c` | one action per operation |
| `Dispositions` | `lab4/zad1/main.c`, both builds | one action per call |
| `SignalFlags` | `lab4/zad2/main.c` | one action per call |
| `MCSequential`, `MCConcurrent` | inputs for TLC; one of the smaller programs at a time, chosen by `prog` | |
| `SantaProofs`, `PizzeriaProofs`, `SignalEchoProofs`, `FifoLogProofs` | theorems about the module of that name | |
| `ReaderProofs` | lemmas and invariants of the three programs that read a file in blocks: `FileSearch`, `LineFilter`, `PnmReader` | |
| `SequentialProofs` | the same for `PipelineParser`, `LibWc`, `TreeStats` and `HashMap`; with the module above, the theorems about `MCSequential` | |
| `ConcurrentProofs` | theorems about `Pipeline`, `Dispositions`, `SignalFlags`, `Negative`, `TreeWalk` and `Integral`, and through them about `MCConcurrent` | |

In a detailed module a definition marked `Variant` in its comment is a plausible
error in the definition below it; it is not part of the specification and is there
to see which property notices it (the pairs are in `PROJECT.json`).

### lab9: Santa

`pc[t]` is where an elf or a reindeer is in its thread and `santa` where Santa is;
the other variables are the fields of `ctx_t`, his locals `j` and `deliveries`,
and `announced`, a history variable: the elves he named since they last
registered. Locking the mutex, waiting on a semaphore, posting one token, each
access to the counters, the signal and the unlock are actions. `pthread_cond_wait`
is three: release and sleep; wake (by a signal, or spuriously); take the mutex
again. `nap` and `report` leave no trace, a nap is the freedom of the scheduler.
When `main` returns the threads end with it (`Running`).

`Workshop` has three counters. Santa's step "reset the counter" is the abstract
delivery or help; the tokens posted before it are invisible.

### lab7: pizzeria

A place of the oven or the table holds -1 or the type of a pizza. The two builds
differ in the calls that take or give two semaphores: the POSIX build takes two
steps with an intermediate label, System V one. Accesses to shared memory inside a
critical section are split where a lost lock would show: finding a place and
filling it, writing the ring and moving its index, reading the tail and clearing
it. `rand() % 10` is a member of `PizzaType`. Local variables go back to a fixed
value after their last use, which changes no behaviour and keeps the state space
small. `setup_shm` is the initial state.

`PizzaShop` has one oven entry, one pair of hands and one bag per process and a
queue on the table. The queue is the part of the ring from tail to head; a
courier has collected its pizza from the moment it read it.

### lab4/zad3: signals

`pending[p][s]` counts the signals of kind s pending for p: at most one for a
standard signal, any number for a real-time one. A handler runs while the main
program of its process stands still; that goes on when nothing is pending any
more (`handling`). Since handlers of different signals may be stacked on each
other, they run in any order. A handler is one action; the main programs are
split at every signal they send and at every write to a static variable that
a handler reads. `early` is a history variable: the parent handled a `SIGINC`
after it had sent its last signal and before `counter = 0`.

### lab5/zad3: FIFO log

Texts, messages and the file are sequences of symbols (newline, mark of a row,
character). `out[p]` is what a producer has still to write, `buf[c]` what a
consumer has read, `outbuf[c]` its copy of the file, `pos[p]` the position in
the input. A read takes what is in the FIFO, a write puts in what fits, so a
message larger than the FIFO passes in parts. `open` on a FIFO counts the
process at once and returns when it has seen one of the other end (`met`).
A consumer that reads 0 bytes leaves in a second step, and a write with no
consumer left ends the producer (`SIGPIPE`). An update of the file is two
steps, the copy and the writes, so that a missing lock would show. `apart` is a
history variable: somebody left before all had the FIFO open.

The FIFO keeps its bytes as long as one process has it open, a reader or a
writer; the last one to close it (`Leave`) takes them along. So a producer that
`SIGPIPE` kills in the middle of a message leaves the first part of it behind if
another process has opened the FIFO in the meantime, and the next message is
joined to it. `torn` is a history variable that says it happened: from then on a
consumer may find invalid data, or put a line in which a mark stands in the
middle into the file.

`RowLog` is a file of rows; a row grows by one block of its producer's text. It
promises nothing once a message is torn.

### lab8: the reader and the threads

`PnmReader` keeps the whole file in `src` and lets `read()` return any number of
bytes that fit. `buf` and `p` are the buffer and the pointer of the program,
`hdr` its local variables; `Has(n)` is the macro `CHK(n)` and `MoreData` the
label `moredata`. Bytes are numbers; the NUL behind the buffer, at which
`strtol` and the tests of one byte stop, is part of the model (`At`). Four
places judge a byte without a look at the end of the buffer, so there the result
depends on how the file was cut: the blanks that end a comment (l.207), the byte
after a comment before the data (l.214), and a number of which only the sign has
arrived (l.244 and 279). `fragile` is a history variable that says it happened.
Apart from the cut, the loop at l.207 takes the newline of a comment that is empty,
or blank, directly behind a token (`P5#`, then a newline) for one of the blanks, and
l.210 then eats the next line as the comment. Such an image, which is valid, is
misread wherever the buffer ends; the model does the same, and `EmptyComment`
describes these files by their bytes alone, with no buffer. `ReadAsWritten` is
about all other files and all other ways of reading.

The second half of the module is what the formats say of a whole file, with no
buffer: `IsImage` and `ImageOf` are put together from the place of each number of
the header (`Token`, `Field`), the byte that parts the header from the data, and
the place and the value of each sample (`Place`, `Sample`). A number that, with
the blanks between a comment and it, fills the buffer of 4096 bytes leaves no room
to read on, and the program reports an early end of the file; `NumbersFit`
excludes such images.

In `Negative` each thread is at a byte of the image. Threads write to `out`
without a lock; `writers` remembers who wrote which byte. `blk` divides the
columns in bytes also when a sample takes two, and takes the low byte from a
signed `char` (l.135); it may read one byte behind the image, whose value is
any. `WholeSamples` is the case in which neither matters; `OneWriter` and
`Negated` hold then, and for `num` always.

### lab5/zad1: pipelines

`PipelineParser` reads pieces of at most `ChunkSize` symbols. `ptr` holds the
three pointers that the program keeps across words (`nl`, `eq`, `pi`); each is
renewed only where the program renews it. `scratch` is the first part of a word
that is not complete. The reference (`Obeyed`) splits the file in lines and each
line at its signs, and has two notions of a word (`Wrong`). The comment at l.293
is a grammar: no word holds a control character, and a `NAME` may begin with an
equals sign (l.296). The program looks at the first symbol of a word only (l.375),
so it takes a control character further in, and calls a command that begins with
an equals sign (`a==b`) a syntax error (l.360). `LinesObeyed` asserts that the
program obeys a script by its own notion, whatever the script, and by the
grammar's when the two agree on the words of the script (`Undisputed`). The runs
have scripts on which they differ: without either half of `Undisputed` the
property is violated. Three more things the program does
are not in the grammar, or differ from it, and are part of both readings: a line
of blanks is nothing, a last line without its newline is not obeyed, and a name
that is not defined ends the program; if no name is defined at all, the search in
the empty table fails an assertion (outcome `aborted`). The control character of
the model, `^`, is any but NUL. Bytes from 128 on, which count as control
characters where `char` is signed, are not in the alphabet.

`HashMap` leaves the hash function open. Hashes, the step and the size of the
table are as in the code; the 64 bits are parameters (`HashRange`, and `Sizes`:
4, 8, 16, ..., which `newsize` runs through). That the doubling stops when
`newsize` would overflow is left out. `content` is the function the table stands
for.

In `Pipeline` a descriptor is the end of a pipe; `fork` copies what the parent
holds, and an end of file or `SIGPIPE` comes when nobody holds the other end.
The commands are not part of the repository: they copy, and may leave early.

### lab3/zad3: search of a tree

`FileSearch` is the loop over the blocks of one file; `off` bytes have been read
and `buf` holds the bytes kept from before, then with the block just read.
`TreeWalk` has one process per directory with its stdio buffer, which `fork`
copies: in a file a line may therefore come more than once. A file shorter than
the text (`Short`) aborts its process; an open, a read or a fork may fail, and a
process that ends by itself leaves its children alone. A failing `lstat` is
different (l.117): the process prints a message, leaves the entry out and goes on,
and its exit status does not tell (`StatFails`). `missed` are the entries this
happened to. So a search may report success without a match that was missed, or
without all that lies below a directory that was; `SuccessIsComplete` says that it
is complete but for these (`Due`), and that every other failure reaches the root.

### lab3/zad2: integral

A floating-point sum is replaced by how often each sample is in it, which is
what the properties are about. `bins` and `mask` are `accum` and the counter
whose trailing zeros choose the bin. A worker may fail at any time.
`SamplesAssumption` is that the bins suffice: the numbers of samples and of
workers have no more bits than `accum` has entries (32 in the code).

### lab2/zad1, lab2/zad3, lab1/zad1

`scan` of `LineFilter` holds the offsets `curseekoff` and `lineseekoff`, the
index `linepos` and two flags; the builds differ in who counts the offset.
`left` of `TreeStats` are the entries the open directories have still to return,
in any order; a failing `lstat` or `readdir` is an action. In `LibWc` the
capacity is the length of `data`; each way in which a result cannot be loaded
leaves the length as it was, with the table grown or not.

### lab4/zad1, lab4/zad2

`Dispositions` has a parent and a child with disposition, mask and one pending
signal each; the kernel's rules of `fork` and `exec` are external definitions.
`SignalFlags` has the process of one experiment and the process that sends it a
signal; delivery is an action that precedes the next step of the receiver and
interrupts a `waitpid` that has nothing to return. `caught` is a history variable: where
the process was when its handler ran. Without `SA_RESTART` the experiment fails exactly
when that was in `waitpid`.

## 3. Runs

| run | instance | checks |
|---|---|---|
| `santa_safety` | 4 elves in groups of 3, 3 reindeer, 2 deliveries, elves and reindeer interchangeable | type, index, accounting, deliveries, wake-ups, unreachable case, implements `Workshop`; no deadlock |
| `santa_live` | 2 elves, groups of 1, 2 reindeer, 2 deliveries | the program ends |
| `santa_solved` | 3 elves in groups of 2, 2 reindeer | **violated**: an elf takes another's token |
| `pizzeria_safety` | 3 cooks, 2 couriers, 2 places, 2 types, both builds | type, free place, own pizza, ring, counters, implements `PizzaShop`; no deadlock |
| `pizzeria_live` | 2 cooks, 2 couriers, 1 place, both builds | every pizza is served |
| `signal_echo` | both programs, standard and real-time, 0 to 4 signals | type, one in flight, both counts, end |
| `signal_deadlock` | as above, 0 or 1 signals | **violated**: the exchange hangs |
| `fifo_log` | 3 producers (a text of two blocks, two of one), 2 consumers, rows 3, 1 and 4, blocks of 2, FIFO of 3 | type and buffers, one message at a time, implements `RowLog`, all end with a complete file |
| `fifo_lost` | the same | **violated**: a text is lost |
| `sequential` | 14 images in buffers of 7; all texts of up to 5 characters in blocks of 2, both builds; all files of up to 5 letters in buffers of 4; command files of 3 lines out of 11 in pieces of 4; 5 keys with 4 hash functions; 5 results; a tree of 8 paths, stack of 2, 2 failures | types and buffers; each program against its reference definition; the readers and the walk end |
| `search_aborts` | the files of `sequential` | **violated**: the assertion at l.180 |
| `concurrent` | 4 images with 1 to 3 threads; pipelines of 1 to 4 commands over pipes of one byte; a tree of 4 directories on 3 levels, one short file, two failures; up to 6 samples and 3 workers; every mode of lab4/zad1 and experiment of lab4/zad2 | types; one writer and the negative; pipe ends; success is complete; samples once; signals as reported; nobody waits for ever |

Bounds. One elf more than a group is enough for an elf of the next group to meet
the tokens of the last; a second delivery lets fast reindeer meet those of the
first. More cooks than places fill the oven and the table, two couriers compete,
and the ring wraps after two pizzas. Four signals exceed every number the signal
programs treat specially (0, 1, several). The FIFO is smaller than a message, rows
are inserted before and after existing ones with a gap, and one text ends in a
newline of its own. It takes three producers for a torn message: one is killed,
one keeps the FIFO open, one writes what is joined to it.

The buffers of the readers are smaller than the inputs, so every token meets the
end of a buffer at each of its bytes; in the file search, the image reader and the
parser every length of a `read()` is tried. `LineFilter` reads full blocks, as it
gets them from a regular file; there the texts, all of up to five characters, move
the cuts. The images cover the six formats, samples of one and two bytes, comments
at every place and the ways to be wrong. Five characters hold a line that starts
two blocks before its text. The eleven lines of the parser hold each sign before
and after each other, blank lines, each kind of error, and two that program and
grammar judge differently; three lines let a definition be used and overwritten.
The hash functions put all keys on one path, on paths with the same step, or in
two clusters, and the table grows from 4 cells to 16. The fifth result makes the
table of libwc grow. The tree of `TreeStats` has a directory at the limit, that of
`TreeWalk` one below each depth but the greatest. Two threads do not divide a
width of three evenly, nor three a width of two. Six samples fill three bins.
`CHECK_DEADLOCK FALSE` stands where the processes end or, as found, stall; the
liveness property says when they must not.

Fairness. In `Santa` and `Pizzeria` each thread that can step does (weak
fairness), and one that asks for a mutex or a semaphore gets it if it is free
again and again (strong fairness): between two uses of a lock every thread naps
for seconds, so nobody can hold it each time another is scheduled. Spurious
wake-ups are never assumed. In `SignalEcho` both processes are scheduled and the
kernel delivers pending signals (weak fairness). In `FifoLog` every process that
can go on does (weak fairness); each lock is taken a bounded number of times. The
programs in `sequential` are single processes that go on while they can (weak
fairness of their next step). In `Pipeline` and `TreeWalk` the parent and each
child go on while they can; that a command leaves early is not assumed. Fairness
asks of a process in `TreeWalk` that it takes some step, which never has to be a
failure since failures are bounded.

What the four violations show:

- `santa_solved`. `elf_sem` is one semaphore for all elves. When one helped elf
  leaves, a newcomer gets its slot, registers for the next group and may take a
  token posted for a named elf that has not run yet. It says "problem solved"
  without having been helped, and the named elf waits for the next group. The
  sums still hold (`ElfAccounting`), so nothing stalls.
- `signal_deadlock`. In `zad3b` the parent sends `SIGFIN` while `sending` is still
  true. If the child answers before the next line runs, the parent takes its
  `SIGINC` for a confirmation and does not answer; both wait for ever.
  `signal_echo` shows that this is the only way to hang.
- `fifo_lost`. A consumer leaves at the first end of file. A producer that opens
  the FIFO between that read and the consumer's `close` has no reader when it
  writes. If it opens the FIFO later it waits for ever; `EndsTogether` therefore
  asks only about runs in which nobody leaves before all have it open, as the
  naps of the producers achieve in `test.sh`. With a third producer the part that
  the killed one had written can stay in the FIFO (`torn`), and what is read next
  is invalid: data is mixed as well as lost.
- `search_aborts`. The assertion at l.180 of lab3/zad3 takes every block to be at
  least as long as the text, which a file that is shorter (or a short first
  read) is not. The process aborts, and with it the search of its directory;
  `SuccessMeansAll` shows that the search then does not report success.

Met while modelling, and stated by no run of their own: the four places of the
reader of lab8 (`fragile`); an empty comment directly behind a token of the
header, which is eaten together with the next line (`EmptyComment`) although the
comment at l.204 says that the code is always between tokens there; the words on
which the parser of lab5/zad1 and its grammar differ (`Undisputed`); a failing
`lstat` of lab3/zad3, which the exit status hides (`missed`); the division of
two-byte columns (`WholeSamples`); lab2/zad3 does not close a directory that it
cannot read; lines printed twice by lab3/zad3 when its output is not a terminal;
`libwc_destroy` frees the results but not the table that holds them.

## 4. Proofs

`SantaProofs` proves, for any finite sets of elves and reindeer, any group size
and any number of deliveries, from `ThreadsAssumption` and `SizesAssumption`
alone, every safety property of `santa_safety` (`TypeCorrect`, `ElvesAddUp`,
`ElfIndexSafe`, `DeliversWithAll`, `WakeupsNotLost`, `UnreachableCase`) and that
`Santa` implements `Workshop` (`WorkshopImplemented`).

None of the properties is inductive. `IInv` adds to the types

- who holds the mutex (`LockOwner`),
- that the reason for Santa's round holds until he resets the counter
  (`SantaRound`): he holds the mutex, so nobody can register,
- the sums: elves inside and free slots, elves waiting and tokens, reindeer at
  home and tokens (`ElfAccounting`, `ReindeerAccounting`),
- who is about to signal while Santa sleeps with work (`WakeupPending`); it
  tells elves from reindeer, since the signal of one does not stand for the
  other's.

The bounds on the counters follow from the sums: an elf about to register is
inside and not counted, so fewer than `MAXELFWAIT` are. The lemma `CountMove` of
`Counting` says what moving one thread does to the number of threads at a set
of labels; `ElfMoves`, `ReindeerMoves` and `NoMoves` apply it to the three
counts, and the step lemmas then need linear arithmetic only.

`PizzeriaProofs` proves, for any finite sets of cooks and couriers, any number of
places and both builds, from `ProcessAssumption`, `SlotsAssumption` and
`TypeAssumption`, every safety property of `pizzeria_safety` and that `Pizzeria`
implements `PizzaShop` (`ShopImplemented`). `IInv` adds to the types

- `SemaphoreSums`: the value of a semaphore and the processes between its wait
  and its post add up to what there is of it. For the two locks that is mutual
  exclusion, for the three others it says that somebody let through finds a
  place, or a pizza, which nobody else will use;
- `HandsInv`: who has a pizza, from the label;
- `OvenInv`: the occupied places of the oven are those of the cooks that bake,
  one each, so that every cook gets its own pizza back;
- `RingInv`: a place of the table is occupied exactly when its age, counted from
  the tail, is less than `ontable`, and the head is where the next one goes.

`CountMove` serves again, for processes at labels and for occupied places. For
the refinement the queue of `PizzaShop` is the ring read from the tail; a cook
that counts its pizza appends to it, a courier that takes one leaves its tail.

`SignalEchoProofs` proves the safety properties of `signal_echo` for any number
of signals and all four builds, from `CntAssumption`. `Control` and `Drained`
say whose turn it is and that nothing is pending once a `SIGFIN` was handled;
`Counted` (zad3a) that what was counted and what is pending is what was sent
less what was absorbed; `Token` (zad3b) that there is one `SIGINC`, on its way
to the child, on its way back or confirmed, and that the parent's counter is
right in each case, or `early` is set.

`FifoLogProofs` proves types, `OneMessageToRead` and that the file is at any time what
the abstract log is (`RowLogImplemented`), for any producers and consumers, any
texts, any block size and any size of the FIFO.

- Types and `OneMessageToRead` hold for texts that `LinesEndBlocks` describes: a
  newline stands only where a block ends. A newline elsewhere ends a message
  early and the rest of it is taken for invalid data (consumer.c:92): the
  hypothesis is the code's, not the proof's. `RowLogImplemented` needs `OneLine`,
  the texts that `test.sh` makes: of a text of several lines the row does not
  keep the newlines. TLC evaluates both on the texts of the run
  (`MCTextAssumption`).
- The invariant has the two locks (`Locks`), what a producer has in hand
  (`Writing`), what a consumer has (`Reading`), that no mark gets into the file
  (`Clean`), and `Channel`: what the consumer in turn has fetched, what is in the
  FIFO and what the producer in turn has still to write is, put together,
  nothing or one message. A producer begins when the FIFO is empty, and a
  consumer goes on until it has the newline.
- `Channel` holds only until a producer that `SIGPIPE` kills leaves the first part
  of its message in the FIFO (`torn`, see lab5/zad3 above), a case which the
  search for this invariant brought up. The three properties therefore speak of
  runs in which it does not happen.
- `InOrder` follows the blocks of one producer: k of them are in its row, then
  one that a consumer is storing, one in the channel and one in the producer's
  hand, in the order of the text. Its first section has what this rests on:
  `FileGrows` (adding a line puts it at the end of one row and changes no other,
  although the code rewrites the file from that place on) and `BlockAdded` (the
  line of a message is the next block of the text).

`ReaderProofs` and `SequentialProofs` prove the types and seven more properties of
`sequential`, all its invariants, for every value of the constants. Only one
program runs at a time, so its invariant is the conjunction of those of the
programs (`SequentialInvariant`). The first of the two modules holds the arguments
about the search of a file, the line filter and the image.

- libwc, for any texts and any number of results (`MaxLoads` a natural number):
  a handle stands for its text (`EveryHandleKept`) and the assertion of
  `libwc_load_result` holds (`SlotFree`). Types and `HandlesTrue` together are
  inductive: slots behind the length are null because growth clears them
  and the length never goes back over a slot that was filled. `GrownTable` says
  what growth keeps.
- The search of a file is exact (`SearchIsExact`, `EveryTextFound`) for any
  contents, any text, any buffer larger than the text and any way of reading,
  from `NeedleAssumption` and `ContentsAssumption`. `SearchExact` is not
  inductive; the invariant adds what a search that goes on has learnt: the text does
  not occur in what was read, and the kept bytes are the last of it, as many as
  the text has. `BlockIsPiece` makes the kept bytes and the new block one piece
  of the file, `BlockDecides` shows that an occurrence which ends in the new
  block lies in that piece, and `TailIsKept` that the tail is the end of what
  was read. `OccursByIndex` goes from subsequences to single elements, which is
  what the prover reasons about. That the search ends is model-checked.
- The walk of lab2/zad3 counts every entry once (`EveryEntryCounted`), for any
  tree and any size of the stack, from `KindAssumption` (above every path there
  are paths). `StackInv` says that the directories open are those on the path,
  that each was reported, and that none of the entries it has still to return
  was; `ComesYet` that as long as nothing failed, an entry of a reported directory was
  reported or is still to come. At the end nothing is, so what was reported is
  closed under entries, and `AllReachable` makes it everything.

- The hash map of lab5/zad1 answers like a function and every search in it ends
  (`EveryNameRemembered`), for any hash function and any number of names, from
  `MapAssumption`: `NULL` is no name, every size is 4 or twice a size, hashes
  are taken modulo `HashRange`, and there is a size that suffices for all names (the
  code says that memory ends before the sizes do). `MapInv` says that a search
  for the key of a used cell ends at that cell (`Sound`), that the pairs in the cells
  are those of the reference function (`Pairs`, `Remembered`), and that fewer cells are
  used than the table has. `PowersOfTwo`: an odd factor does not help a number
  to become a multiple of a power of two; hence `PathVisits`: an odd step
  visits every cell once. `PutKeeps` shows that filling the cell where a search
  ended disturbs no other search: on the path of another key it can
  only take away a free cell behind that key. `CopyKeeps` is the loop that fills the
  new table; `CopiedIs` shows that the recursive function which describes it exists.
- The line filter copies the lines with text, whole, in order and once
  (`EveryLineCopied`), for any text and any size of the block, from
  `TextsAssumption`. The invariant says where in the file the block lies and
  what each stop of the loop has in hand, also after the step back to the start of
  a line (`BlockInv`); that the line being scanned begins behind a newline and
  has none before the place reached (`LineInv`); and that the output is the
  reference of the text up to that line or, while it is being written, up to that place
  (`OutputInv`). `Output` is a recursive function; `OutputIs` shows that it exists,
  `BlankSkipped` and `TextCopied` what it does over a piece without a newline,
  which is what one step of the program passes.
- The parser of lab5/zad1 obeys a script line by line (`EveryScriptObeyed`), for
  any script over its signs and any size of a piece, from `ScriptsAssumption`: by
  its own notion of a word always, and by the grammar's if the two agree on the
  words of the script; the first half of `SequentialProofs` holds the argument.
  The reference (`Obeyed`, `Parts`) is a pair of recursive functions over the
  whole text; `LinesAre`, `ObeyedIs` and `PartsAre` show that they exist,
  `ObeyedFlat` and `PartsFlat` that nothing changes between two signs, by the
  least place at which something would. `ScriptAt` says what the parser knows at a
  place of the text: what the complete lines made and ran, that the parts of the
  line so far are in `expr` and none of them is wrong, and that `scratch` and the
  text behind the last sign together are the word in hand. `StripIsTrim` is the
  detail a reader would doubt: blanks are taken off the end of a word that came in
  pieces, and this gives the same as taking them off in the text. `FileAgreed`
  goes from the program's reading to the grammar's, word by word (`PartAgreed`),
  line by line (`LineAgreed`), up to the first line that is wrong. One lemma for
  each kind of symbol (`StepBlank`, `StepPipe`, `StepRun`, ...) moves `ScriptAt`
  over it; `Pointers` says that `nl`, `eq` and `pi` are what `memchr` would find
  now, which each step restores for the ones its successor asks.
- The reader of lab8 reads an image as it was written and refuses every other file
  (`EveryImageRead`), for any files without an empty comment directly behind a
  token, any buffer of at least three bytes and any way of reading, unless
  `fragile` is set. `FilesAssumption` is what it needs: files are bytes, and the
  numbers of an image fit in the buffer. `StrtolStands` is the heart of it: a
  number that ends before the end of the buffer is the number `strtol` would find
  in the file. `StrtolBetween` says that it does not matter from which of the
  blanks before it a number is read, as the reader drops some when a buffer ends
  among them. The invariant (`ImageInv`) says that the buffer holds what stands in
  the file from a place on, less the bits already shifted out of the byte in hand
  (`Held`); that in the header the reader is on its way to the next token
  (`Seeking`) and has the fields before it (`Known`); that among the data the
  first m samples are in the image (`Got`); and that an image has more to read and
  room for it whenever the parser asks for more (`Room`), so `early` is never said
  of one. One lemma for each action (`NumberFollows`, `BitsFollow`, ...) keeps it.
  It rests on the reader not having taken the newline of a comment for a blank.
  `Glued` says where that happens when no buffer ended in the comment: the bytes
  between the last token and the newline are a `#` and blanks, so the file has an
  `EmptyComment` there (`MagicGlued`, `NumberGlued`, for the three places in the
  header).
- The types (`SequentialTypes`) are part of these invariants. For the reader of
  lab8 they are in `PnmInv`: the image never grows beyond what the header
  announces, which needs the fact that the image and its limit are even when a
  sample takes two bytes.

`ConcurrentProofs` does the same for `concurrent`, from `BoundsAssumption`,
`NegativeAssumption`, `TreeAssumption` and `SamplesAssumption`; `CInv` is the
conjunction of six invariants (`ConcurrentInvariant`). They contain the types, so
that `ConcurrentTypes` follows.

- `PipeInv` (`EveryPipeWired`), for any number of commands: beside what a
  command holds by its state, what the parent holds between a `fork` and its
  own `close` calls. Without it nothing is known of what the next child copies.
- `InheritInv` and `FlagsInv` (`ReportsTrue`): for each label of the parent and
  the child, or of the experiment and the process that sends it a signal, the
  dispositions, the mask and what is pending; and that the sent, the
  pending and the handled signals add up.
- `NegInv` (`EveryNegativeMade`), for any image and any number of threads. `Cut`
  is where the slice of thread t begins, of the values or of the columns: with
  n threads and m things, m * t divided by n. `SomeSlice` and `OneSlice` say that the
  slices cover everything and do not meet, whatever the remainder, `WholeRows` that a
  thread that steps from row to row leaves none out. The invariant says that
  each byte written lies in the writer's slice (`OwnSlice`) and that what a
  thread has passed of its slice is inverted (`Behind`). `IsImage` is what the
  reader accepts: whole rows, no sample above the largest value, and that
  value at most 65535.
- `TreeInv` (`EverySuccessMeansAll`), for any tree, any depth, any number of
  failing calls, `lstat` among them: what a failing `lstat` hid may be missing
  from a success, and nothing else. `Descent` says which processes have been
  started, from how far each parent has read its directory; `Thorough` that a
  process which has not failed has printed or buffered each match it passed, and
  that each subdirectory it passed is being searched, was completely searched, or
  has left it with a failure to report. So a root that ends well has complete
  children, and they theirs, down to the depth (`AllComplete`). `Once` is why a
  terminal gets no line twice: what is printed has been passed by the one process
  of its directory. `TreeAssumption` says that entries are paths, so none stands
  in two places.
- `IntInv` (`EverySampleOnce`), for any number of samples and workers. The total
  of a worker's bins is each of its samples below `s[w]` once (`WorkerSum`), that
  of the parent's the samples of the workers whose files it has read
  (`ParentSum`), and a file whose worker ended well is complete, or `bad` is set.
  `PutAdds` is the heart of it: putting a value into the bins adds it to their
  total. The bins in use are the ones of the count in binary, and `Carry` says
  what adding one does to them: the ones below the lowest zero, which are just the
  bins that are emptied, become zeros, and that zero, which has a bin, becomes a
  one. `Shift` and `AddUp` are recursive functions, as the loops of the program
  are; `ShiftIs` and `AddUpIs` show that they exist.

The prover has no induction over data. Where an argument goes level by level
or thread by thread, the proofs take the least counterexample instead (`Least`,
from the well-foundedness of the natural numbers).

Only model-checked:

- liveness (`ProgramEnds`, `EveryPizzaServed`, `EndsUnlessEarly`, `EndsTogether`,
  `ReadersEnd`, `WaitsEnd`), which is out of the prover's reach, as is `ENABLED`.

## 5. Not modelled

- The text and the times of reports, file-name filters and permissions of
  lab3/zad3, quoting of the shell command in lab1, the fields of `siginfo` in
  lab4/zad2, floating-point arithmetic in lab3/zad2.
- Writing the image in lab8 (formatting of numbers), and images so large that
  their size overflows.
- The build of lab2/zad3 over `nftw`, where the walk is the library's.
- Failing system calls after which a program only exits, except where another
  process notices (lab3/zad2, lab3/zad3). Processes killed from outside; a second start of lab7
  over a segment in use; the limit on queued real-time signals.
- `libwc_create_custom`, which returns `NULL` in every case.
- `lab1/zad2`, `lab1/zad3`, `lab2/zad2`, `lab3/zad1`, `lab5/zad2`, `lab10`:
  argument parsing, one loop of reads or socket set-up, with no state whose
  order matters (`PROJECT.json` has the reason for each).
