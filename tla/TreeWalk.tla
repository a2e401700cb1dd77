------------------------------ MODULE TreeWalk ------------------------------
(***************************************************************************)
(* lab3/zad3: search a tree with one process per directory.  A process     *)
(* reads its directory, searches the files and forks a child for each      *)
(* subdirectory while the depth allows, then waits for its children and    *)
(* passes a failure on.  Lines are printed through stdio: on a terminal at *)
(* once, otherwise when the process exits - and the child of a fork has a  *)
(* copy of what is still in the buffer.                                    *)
(***************************************************************************)
EXTENDS Naturals, Sequences, SequencesExt, FiniteSets

CONSTANTS
  Tree,       \* function from directories to sequences of their entries
  Root,       \* the directory searched
  Matching,   \* files that hold the text
  Short,      \* files that may be shorter than the text, and abort the search then
              \* (FileSearch)
  MaxDepth,   \* bound on the depth argument
  MaxFailures  \* bound on failing calls, lstat and fork among them

VARIABLES
  depth,      \* the argument
  tty,        \* stdout is a terminal
  short,      \* the files that are too short
  state,      \* per directory: none, walk, giveup (fork failed), wait, ok, failed, reaped
  next,       \* index of the next entry
  level,      \* depth left for this process
  children,   \* directories whose process has not been waited for
  bad,        \* exitval: a child failed
  buffer,     \* lines in the stdio buffer
  printed,    \* lines that reached stdout
  missed,     \* entries for which lstat failed
  failures
vars == <<depth, tty, short, state, next, level, children, bad, buffer, printed, missed, failures>>

Dir == DOMAIN Tree
Entry(d) == Tree[d][next[d]]
Ended == {"ok", "failed"}
TypeOK ==
  /\ depth \in 1..MaxDepth /\ tty \in BOOLEAN /\ short \subseteq Short
  /\ state \in [Dir -> {"none", "walk", "giveup", "wait", "ok", "failed", "reaped"}]
  /\ \A d \in Dir : next[d] \in 1..Len(Tree[d]) + 1 /\ children[d] \subseteq Dir
  /\ printed \in Seq(Matching) /\ missed \subseteq UNION {Range(Tree[d]) : d \in Dir}

\* main forks the process of the root
Init ==
  /\ depth \in 1..MaxDepth /\ tty \in BOOLEAN /\ short \in SUBSET Short
  /\ state = [d \in Dir |-> IF d = Root THEN "walk" ELSE "none"]
  /\ next = [d \in Dir |-> 1] /\ level = [d \in Dir |-> depth]
  /\ children = [d \in Dir |-> {}] /\ bad = [d \in Dir |-> FALSE]
  /\ buffer = [d \in Dir |-> <<>>] /\ printed = <<>> /\ missed = {} /\ failures = 0

AtEntry(d) == state[d] = "walk" /\ next[d] <= Len(Tree[d])
\* Variant: readdir is called once more for each entry.
AdvanceTwice(d) == next' = [next EXCEPT ![d] = @ + 2]
Advance(d) == next' = [next EXCEPT ![d] = @ + 1]

SearchFile(d) ==
  /\ AtEntry(d) /\ Entry(d) \notin Dir \cup short
  /\ Advance(d)
  /\ LET line == IF Entry(d) \in Matching THEN <<Entry(d)>> ELSE <<>>
     IN  IF tty THEN printed' = printed \o line /\ UNCHANGED buffer
         ELSE buffer' = [buffer EXCEPT ![d] = @ \o line] /\ UNCHANGED printed
  /\ UNCHANGED <<depth, tty, short, state, level, children, bad, missed, failures>>

\* abort(): the buffer is lost and the children are left alone
Abort(d) ==
  /\ AtEntry(d) /\ Entry(d) \in short
  /\ state' = [state EXCEPT ![d] = "failed"]
  /\ UNCHANGED <<depth, tty, short, next, level, children, bad, buffer, printed, missed, failures>>

\* opendir, readdir, closedir, open or read fails: exit(1) at once, which writes
\* the buffer and leaves the children alone
CallFails(d) ==
  /\ state[d] = "walk" /\ failures < MaxFailures
  /\ state' = [state EXCEPT ![d] = "failed"]
  /\ printed' = printed \o buffer[d]
  /\ buffer' = [buffer EXCEPT ![d] = <<>>]
  /\ failures' = failures + 1
  /\ UNCHANGED <<depth, tty, short, next, level, children, bad, missed>>

\* lstat fails: a message, and the entry is left out.  The exit status does not
\* tell.
StatFails(d) ==
  /\ AtEntry(d) /\ failures < MaxFailures
  /\ Advance(d)
  /\ missed' = missed \cup {Entry(d)}
  /\ failures' = failures + 1
  /\ UNCHANGED <<depth, tty, short, state, level, children, bad, buffer, printed>>

TooDeep(d) ==
  /\ AtEntry(d) /\ Entry(d) \in Dir /\ level[d] = 1
  /\ Advance(d)
  /\ UNCHANGED <<depth, tty, short, state, level, children, bad, buffer, printed, missed, failures>>

ForkChild(d) ==
  /\ AtEntry(d) /\ Entry(d) \in Dir /\ level[d] > 1
  /\ Advance(d)
  /\ LET c == Entry(d)
     IN  /\ state' = [state EXCEPT ![c] = "walk"]
         /\ level' = [level EXCEPT ![c] = level[d] - 1]
         /\ buffer' = [buffer EXCEPT ![c] = buffer[d]]
         /\ children' = [children EXCEPT ![d] = @ \cup {c}]
  /\ UNCHANGED <<depth, tty, short, bad, printed, missed, failures>>

\* fork fails: no more entries, wait for the children and fail
ForkFails(d) ==
  /\ AtEntry(d) /\ Entry(d) \in Dir /\ level[d] > 1 /\ failures < MaxFailures
  /\ state' = [state EXCEPT ![d] = "giveup"]
  /\ bad' = [bad EXCEPT ![d] = TRUE]
  /\ failures' = failures + 1
  /\ UNCHANGED <<depth, tty, short, next, level, children, buffer, printed, missed>>

EndOfDir(d) ==
  /\ state[d] = "walk" /\ next[d] > Len(Tree[d])
  /\ state' = [state EXCEPT ![d] = "wait"]
  /\ UNCHANGED <<depth, tty, short, next, level, children, bad, buffer, printed, missed, failures>>

Waiting(d) == state[d] \in {"wait", "giveup"}
\* Variant: how the children ended does not matter.
WaitIgnoresStatus(d) ==
  /\ Waiting(d)
  /\ \E c \in children[d] :
       /\ state[c] \in Ended
       /\ children' = [children EXCEPT ![d] = @ \ {c}]
       /\ state' = [state EXCEPT ![c] = "reaped"]
  /\ UNCHANGED <<depth, tty, short, next, level, bad, buffer, printed, missed, failures>>

Wait(d) ==
  /\ Waiting(d)
  /\ \E c \in children[d] :
       /\ state[c] \in Ended
       /\ children' = [children EXCEPT ![d] = @ \ {c}]
       /\ bad' = [bad EXCEPT ![d] = @ \/ state[c] = "failed"]
       /\ state' = [state EXCEPT ![c] = "reaped"]
  /\ UNCHANGED <<depth, tty, short, next, level, buffer, printed, missed, failures>>

\* exit() writes what is in the buffer
Exit(d) ==
  /\ Waiting(d) /\ children[d] = {}
  /\ state' = [state EXCEPT ![d] = IF bad[d] THEN "failed" ELSE "ok"]
  /\ printed' = printed \o buffer[d]
  /\ buffer' = [buffer EXCEPT ![d] = <<>>]
  /\ UNCHANGED <<depth, tty, short, next, level, children, bad, missed, failures>>

Walk(d) == \/ SearchFile(d) \/ Abort(d) \/ CallFails(d) \/ StatFails(d) \/ TooDeep(d)
           \/ ForkChild(d) \/ ForkFails(d) \/ EndOfDir(d) \/ Wait(d) \/ Exit(d)
Next == \E d \in Dir : Walk(d)
Spec == Init /\ [][Next]_vars /\ \A d \in Dir : WF_vars(Walk(d))
-----------------------------------------------------------------------------
\* directories at most k levels below the root
Reach[k \in 1..MaxDepth] ==
  IF k = 1 THEN {Root}
  ELSE Reach[k - 1] \cup {e \in Dir : \E d \in Reach[k - 1] : e \in Range(Tree[d])}
Expected == {f \in Matching : \E d \in Reach[depth] : f \in Range(Tree[d])}
Times(f) == Cardinality({k \in DOMAIN printed : printed[k] = f})

\* The same without the directories that lstat missed, and what is below them.
Visible[k \in 1..MaxDepth] ==
  IF k = 1 THEN {Root}
  ELSE Visible[k - 1] \cup {e \in Dir \ missed : \E d \in Visible[k - 1] : e \in Range(Tree[d])}
Due == {f \in Matching \ missed : \E d \in Visible[depth] : f \in Range(Tree[d])}

\* Nothing is printed that does not match or lies too deep; on a terminal nothing
\* is printed twice; and when the whole search reports success every match has
\* been printed, except those that a failing lstat hid: it costs the match, or
\* the directory, and not the success.  (In a file a line may come several times,
\* from copies of the buffer.)
SuccessIsComplete ==
  /\ \A k \in DOMAIN printed : printed[k] \in Expected
  /\ tty => \A f \in Expected : Times(f) <= 1
  /\ state[Root] = "ok" => \A f \in Due : Times(f) >= 1

\* The search ends: no process waits for a child that it does not have.
RootEnded == state[Root] \in Ended
SearchOver == <>RootEnded
=============================================================================
