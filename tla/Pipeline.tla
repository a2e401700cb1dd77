------------------------------ MODULE Pipeline ------------------------------
(***************************************************************************)
(* One pipeline of lab5/zad1: the parent makes a pipe and a child for each *)
(* command, closes its own ends, and waits for as many children as it      *)
(* made.  Pipe k joins command k to command k + 1.  An end of file is seen *)
(* only when no process holds the write end, so a descriptor too many      *)
(* blocks everyone.  The commands are external: the first writes, the      *)
(* others pass on what they read until the end of file, and any of them    *)
(* may leave early.                                                        *)
(***************************************************************************)
EXTENDS Naturals, FiniteSets

CONSTANTS
  MaxCommands,   \* bound on the length of the pipeline
  Capacity,      \* bytes a pipe holds
  Supply         \* bound on what the first command writes

VARIABLES
  n,        \* number of commands
  j,        \* the command the parent is starting, n + 1 when it waits
  forked,   \* it has been forked
  parent,   \* pipe ends the parent holds: <<"r", k>> and <<"w", k>>
  state,    \* per command: none, setup, run, dead, reaped
  fds,      \* pipe ends each child holds
  pipe,     \* bytes in each pipe
  held      \* bytes a command has read and not passed on; the supply of the first
vars == <<n, j, forked, parent, state, fds, pipe, held>>

Command == 1..n
R(k) == <<"r", k>>
W(k) == <<"w", k>>
Ends(k) == IF k \in 1..n - 1 THEN {R(k), W(k)} ELSE {}
\* the ends command k is to use: the pipe before it and the pipe after it
Wiring(k) == (Ends(k - 1) \cap {R(k - 1)}) \cup (Ends(k) \cap {W(k)})
Alive(k) == state[k] \in {"setup", "run"}
Holders(end) == {k \in Command : Alive(k) /\ end \in fds[k]}
Open(end) == end \in parent \/ Holders(end) # {}

TypeOK == /\ n \in 1..MaxCommands /\ j \in 1..n + 1
          /\ state \in [Command -> {"none", "setup", "run", "dead", "reaped"}]
          /\ pipe \in [Command -> 0..Capacity]

Init == /\ n \in 1..MaxCommands /\ j = 1 /\ forked = FALSE /\ parent = {}
        /\ state = [k \in Command |-> "none"] /\ fds = [k \in Command |-> {}]
        /\ pipe = [k \in Command |-> 0]
        /\ held = [k \in Command |-> IF k = 1 THEN Supply ELSE 0]

\* pipe(), unless the command is the last, and fork(): the child has it all
Fork ==
  /\ j <= n /\ ~forked
  /\ parent' = parent \cup Ends(j)
  /\ fds' = [fds EXCEPT ![j] = parent']
  /\ state' = [state EXCEPT ![j] = "setup"]
  /\ forked' = TRUE
  /\ UNCHANGED <<n, j, pipe, held>>

\* Variant: the parent keeps the read ends.
ParentKeepsReadEnd ==
  /\ j <= n /\ forked
  /\ parent' = parent \ {W(j)}
  /\ j' = j + 1 /\ forked' = FALSE
  /\ UNCHANGED <<n, state, fds, pipe, held>>

\* the parent needs neither the new write end nor the read end before it
ParentCloses ==
  /\ j <= n /\ forked
  /\ parent' = parent \ ({W(j)} \cup {R(j - 1)})
  /\ j' = j + 1 /\ forked' = FALSE
  /\ UNCHANGED <<n, state, fds, pipe, held>>

\* Variant: the originals are not closed.
ChildKeepsEnds(k) ==
  /\ state[k] = "setup"
  /\ state' = [state EXCEPT ![k] = "run"]
  /\ UNCHANGED <<n, j, forked, parent, fds, pipe, held>>

\* dup2 to the standard descriptors, close the originals, exec
ChildSetup(k) ==
  /\ state[k] = "setup"
  /\ fds' = [fds EXCEPT ![k] = (@ \ ({R(k - 1)} \cup Ends(k))) \cup Wiring(k)]
  /\ state' = [state EXCEPT ![k] = "run"]
  /\ UNCHANGED <<n, j, forked, parent, pipe, held>>

Die(k) == state' = [state EXCEPT ![k] = "dead"]

\* a command writes to its pipe or to the output; SIGPIPE when nobody reads
Write(k) ==
  /\ state[k] = "run" /\ held[k] > 0
  /\ IF k < n /\ ~Open(R(k)) THEN Die(k) /\ UNCHANGED <<pipe, held>>
     ELSE /\ k < n => pipe[k] < Capacity
          /\ pipe' = [pipe EXCEPT ![k] = IF k < n THEN @ + 1 ELSE @]
          /\ held' = [held EXCEPT ![k] = @ - 1]
          /\ UNCHANGED state
  /\ UNCHANGED <<n, j, forked, parent, fds>>

Read(k) ==
  /\ state[k] = "run" /\ k > 1 /\ held[k] = 0 /\ pipe[k - 1] > 0
  /\ pipe' = [pipe EXCEPT ![k - 1] = @ - 1]
  /\ held' = [held EXCEPT ![k] = 1]
  /\ UNCHANGED <<n, j, forked, parent, state, fds>>

\* nothing left to write, and the end of file
Finish(k) ==
  /\ state[k] = "run" /\ held[k] = 0
  /\ k > 1 => pipe[k - 1] = 0 /\ ~Open(W(k - 1))
  /\ Die(k)
  /\ UNCHANGED <<n, j, forked, parent, fds, pipe, held>>

LeaveEarly(k) == /\ state[k] = "run" /\ Die(k)
                 /\ UNCHANGED <<n, j, forked, parent, fds, pipe, held>>

\* wait() returns any child that is dead; there are as many waits as children
Wait(k) ==
  /\ j = n + 1 /\ state[k] = "dead"
  /\ state' = [state EXCEPT ![k] = "reaped"]
  /\ UNCHANGED <<n, j, forked, parent, fds, pipe, held>>

Step(k) == ChildSetup(k) \/ Write(k) \/ Read(k) \/ Finish(k) \/ Wait(k)
Next == Fork \/ ParentCloses \/ \E k \in Command : Step(k) \/ LeaveEarly(k)
Fairness == /\ WF_vars(Fork \/ ParentCloses)
            /\ \A k \in 1..MaxCommands : WF_vars(k \in Command /\ Step(k))
Spec == Init /\ [][Next]_vars /\ Fairness
-----------------------------------------------------------------------------
\* A running command holds the end of the pipe before it and of the pipe
\* after it and no other, and the parent that waits holds none.
Wired == /\ \A k \in Command : state[k] = "run" => fds[k] = Wiring(k)
         /\ j = n + 1 => parent = {}

\* The pipeline ends and every child is waited for, although commands may
\* leave early and pipes fill up.
AllReaped == \A k \in Command : state[k] = "reaped"
PipelineEnds == <>AllReaped
=============================================================================
