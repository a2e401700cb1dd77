---------------------------- MODULE MCConcurrent ----------------------------
(***************************************************************************)
(* The smaller concurrent programs, one at a time: prog says which, and    *)
(* the variables of the others are idle.                                   *)
(***************************************************************************)
EXTENDS Negative, TLC

CONSTANTS
  MaxCommands, Capacity, Supply,   \* of pipelines
  Entries, Root, Matching, Short, MaxDepth, MaxFailures,   \* of trees
  MaxSamples, MaxWorkers, MaxBin,  \* of integrals
  Stale      \* what a result file holds before its worker has written it

ASSUME BoundsAssumption ==
  /\ MaxCommands \in Nat \ {0} /\ Capacity \in Nat \ {0} /\ Supply \in Nat
  /\ MaxDepth \in Nat \ {0}

(* Entries are paths, so none stands in two places; only files are         *)
(* searched for the text.                                                  *)
ASSUME TreeAssumption ==
  LET Dir == DOMAIN Entries
      Index(d) == 1..Len(Entries[d])
  IN  /\ Root \in Dir /\ Matching \cap Dir = {}
      /\ \A d \in Dir : Len(Entries[d]) \in Nat /\ DOMAIN Entries[d] = Index(d)
      /\ \A d, e \in Dir : \A k \in Index(d), l \in Index(e) :
           Entries[d][k] = Entries[e][l] => d = e /\ k = l
      /\ \A d \in Dir : \A k \in Index(d) : Entries[d][k] # Root

VARIABLES prog,
          n, j, forked, parent, fds, pipe, held,                       \* pipeline
          depth, tty, short, next, level, children, buffer, printed, missed, failures,  \* walk
          samples, workers, s, bins, mask, file, result,               \* integral
          mode, exec, sig, heard, saw,                                 \* dispositions
          test, disp, pending, handled, caught, raises, killer,        \* flags
          state, bad, pc    \* of processes: pipeline, walk and integral; places in the last two
-----------------------------------------------------------------------------
(* Images of two rows: three samples of a byte, two of two bytes; one that *)
(* uses every bit of a byte, and two-byte samples that "blk" spoils.       *)
Bytewise(b) == [k \in 0..Len(b) - 1 |-> b[k + 1]]
Img(b, w, m) == [data |-> Bytewise(b), width |-> w, maxval |-> m]
MCImages == {Img(<<0, 3, 1, 2, 2, 3>>, 3, 3), Img(<<1, 0, 0, 127, 0, 100, 1, 44>>, 2, 300),
             Img(<<200, 5, 130, 255>>, 2, 255), Img(<<1, 0, 0, 200, 1, 44>>, 3, 300)}

Pipe == INSTANCE Pipeline

(* Files on three levels; one may be too short for the text searched for.  *)
MCTree == [r |-> <<"e", "f", "d", "g">>, d |-> <<"h", "dd">>, dd |-> <<"k">>, e |-> <<"x">>]
Tree == INSTANCE TreeWalk WITH Tree <- Entries

Sums == INSTANCE Integral

(* There is a bin for every bit of the number of samples and of workers.   *)
ASSUME SamplesAssumption ==
  /\ MaxSamples \in Nat /\ MaxWorkers \in Nat /\ MaxBin \in Nat
  /\ Sums!Shift(MaxSamples)[MaxBin + 1] = 0 /\ Sums!Shift(MaxWorkers)[MaxBin + 1] = 0

Inherit == INSTANCE Dispositions
Flags == INSTANCE SignalFlags
-----------------------------------------------------------------------------
Idle == "idle"
negVars == <<img, method, threads, base, i, out, writers>>
pipeVars == <<n, j, forked, parent, fds, pipe, held>>
treeVars == <<depth, tty, short, next, level, children, buffer, printed, missed, failures>>
intVars == <<samples, workers, s, bins, mask, file, result>>
inheritVars == <<mode, exec, sig, heard, saw>>
flagVars == <<test, disp, pending, handled, caught, raises, killer>>
allVars == <<prog, state, bad, pc, negVars, pipeVars, treeVars, intVars, inheritVars, flagVars>>

NoNeg == /\ img = Idle /\ method = Idle /\ threads = Idle /\ base = Idle /\ i = Idle
         /\ out = Idle /\ writers = Idle
NoPipe == /\ n = Idle /\ j = Idle /\ forked = Idle /\ parent = Idle /\ fds = Idle
          /\ pipe = Idle /\ held = Idle
NoTree == /\ depth = Idle /\ tty = Idle /\ short = Idle /\ next = Idle /\ level = Idle
          /\ children = Idle /\ buffer = Idle /\ printed = Idle
          /\ missed = Idle /\ failures = Idle
NoInt == /\ samples = Idle /\ workers = Idle /\ s = Idle /\ bins = Idle /\ mask = Idle
         /\ file = Idle /\ result = Idle
NoInherit == mode = Idle /\ exec = Idle /\ sig = Idle /\ heard = Idle /\ saw = Idle
NoFlags == /\ test = Idle /\ disp = Idle /\ pending = Idle /\ handled = Idle
           /\ caught = Idle /\ raises = Idle /\ killer = Idle
NoProcesses == state = Idle /\ bad = Idle

CInit ==
  \/ /\ prog = "negative" /\ Init /\ NoProcesses /\ pc = Idle
     /\ NoPipe /\ NoTree /\ NoInt /\ NoInherit /\ NoFlags
  \/ /\ prog = "pipeline" /\ Pipe!Init /\ bad = Idle /\ pc = Idle
     /\ NoNeg /\ NoTree /\ NoInt /\ NoInherit /\ NoFlags
  \/ /\ prog = "walk" /\ Tree!Init /\ pc = Idle
     /\ NoNeg /\ NoPipe /\ NoInt /\ NoInherit /\ NoFlags
  \/ /\ prog = "integral" /\ Sums!Init /\ pc = Idle
     /\ NoNeg /\ NoPipe /\ NoTree /\ NoInherit /\ NoFlags
  \/ /\ prog = "dispositions" /\ Inherit!Init /\ NoProcesses
     /\ NoNeg /\ NoPipe /\ NoTree /\ NoInt /\ NoFlags
  \/ /\ prog = "flags" /\ Flags!Init /\ NoProcesses
     /\ NoNeg /\ NoPipe /\ NoTree /\ NoInt /\ NoInherit

notNeg == <<prog, state, bad, pc, pipeVars, treeVars, intVars, inheritVars, flagVars>>
notPipe == <<prog, bad, pc, negVars, treeVars, intVars, inheritVars, flagVars>>
notTree == <<prog, pc, negVars, pipeVars, intVars, inheritVars, flagVars>>
notInt == <<prog, pc, negVars, pipeVars, treeVars, inheritVars, flagVars>>
notInherit == <<prog, state, bad, negVars, pipeVars, treeVars, intVars, flagVars>>
notFlags == <<prog, state, bad, negVars, pipeVars, treeVars, intVars, inheritVars>>

Invert == prog = "negative" /\ Next /\ UNCHANGED notNeg
RunPipeline == prog = "pipeline" /\ Pipe!Next /\ UNCHANGED notPipe
WalkTree == prog = "walk" /\ Tree!Next /\ UNCHANGED notTree
Integrate == prog = "integral" /\ Sums!Next /\ UNCHANGED notInt
InheritSignal == prog = "dispositions" /\ Inherit!Next /\ UNCHANGED notInherit
TestFlags == prog = "flags" /\ Flags!Next /\ UNCHANGED notFlags

CNext == Invert \/ RunPipeline \/ WalkTree \/ Integrate \/ InheritSignal \/ TestFlags

(* Every process that can take a step takes one; a command need not leave  *)
(* early and a fork need not fail.                                         *)
PipeFairness ==
  /\ WF_allVars(prog = "pipeline" /\ (Pipe!Fork \/ Pipe!ParentCloses) /\ UNCHANGED notPipe)
  /\ \A k \in 1..MaxCommands : WF_allVars(prog = "pipeline" /\ k \in Pipe!Command /\ Pipe!Step(k) /\ UNCHANGED notPipe)
TreeFairness ==
  \A d \in DOMAIN Entries : WF_allVars(prog = "walk" /\ Tree!Walk(d) /\ UNCHANGED notTree)
CSpec == CInit /\ [][CNext]_allVars /\ PipeFairness /\ TreeFairness
-----------------------------------------------------------------------------
\* The variables of the program that runs have their types.
TypesOK == /\ prog = "negative" => TypeOK
           /\ prog = "pipeline" => Pipe!TypeOK
           /\ prog = "walk" => Tree!TypeOK
           /\ prog = "integral" => Sums!TypeOK
           /\ prog = "dispositions" => Inherit!TypeOK
           /\ prog = "flags" => Flags!TypeOK

\* lab8: no two threads write the same byte and the result is the negative,
\* unless two-byte samples are divided by columns.
NegativeMade == prog = "negative" => OneWriter /\ Negated

\* lab5/zad1: every command has the two ends of pipes it uses and no other.
PipesWired == prog = "pipeline" => Pipe!Wired

\* lab3/zad3: a search that reports success has printed every match that no
\* failing lstat hid.
SuccessMeansAll == prog = "walk" => Tree!SuccessIsComplete

\* lab3/zad2: a printed integral has every sample once.
SamplesOnce == prog = "integral" => Sums!EachSampleOnce

\* lab4/zad1 and lab4/zad2: what children inherit and what the flags of
\* sigaction do is what the reports say.
SignalsAsReported == /\ prog = "dispositions" => Inherit!ReportTrue
                     /\ prog = "flags" => Flags!FlagsObeyed

\* lab5/zad1 and lab3/zad3: nobody waits for ever for an end of file or for
\* a child.
WaitsEnd == /\ <>(prog = "pipeline" => Pipe!AllReaped)
            /\ <>(prog = "walk" => Tree!RootEnded)
=============================================================================
