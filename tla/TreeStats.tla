----------------------------- MODULE TreeStats -----------------------------
(***************************************************************************)
(* lab2/zad3, the build that walks by itself (main-dir): one loop with a   *)
(* stack of open directories and one path, which grows and shrinks with    *)
(* the stack.  An entry may vanish between readdir and lstat, a directory  *)
(* may stop being readable, and the stack has a limit.                     *)
(***************************************************************************)
EXTENDS Naturals, Sequences, SequencesExt, FiniteSets

CONSTANTS
  Kind,         \* function from paths below the root (sequences of names) and the
                \* root <<>> to dir, locked (no permission), file or link
  MaxDirs,      \* size of dirs (256)
  MaxFailures   \* bound on failing lstat and readdir

VARIABLES
  left,      \* dirs[0..depth]: the entries that readdir has still to return
  path,      \* fullpath, without the root
  stats,     \* counters of kinds and of failures
  seen,      \* history: the paths reported
  status     \* start, walk, done or failed
vars == <<left, path, stats, seen, status>>

Kinds == {"dir", "file", "link"}
Sort(q) == IF Kind[q] = "locked" THEN "dir" ELSE Kind[q]
Name == UNION {Range(q) : q \in DOMAIN Kind}
EntriesOf(q) == {e \in Name : Append(q, e) \in DOMAIN Kind}

TypeOK == /\ Len(left) <= MaxDirs
          /\ stats \in [Kinds \cup {"fail"} -> Nat]
          /\ seen \subseteq DOMAIN Kind
          /\ status \in {"start", "walk", "done", "failed"}

Init == /\ left = <<>> /\ path = <<>> /\ seen = {} /\ status = "start"
        /\ stats = [k \in Kinds \cup {"fail"} |-> 0]

Count(k) == stats' = [stats EXCEPT ![k] = @ + 1]
Report(q) == Count(Sort(q)) /\ seen' = seen \cup {q}
MayFail == stats["fail"] < MaxFailures

\* the root is reported, and opened if it is a directory that may be read
Start ==
  /\ status = "start"
  /\ Report(<<>>)
  /\ IF Kind[<<>>] = "dir" THEN left' = <<EntriesOf(<<>>)>> /\ status' = "walk"
     ELSE status' = "done" /\ UNCHANGED left
  /\ UNCHANGED path
StartFails == /\ status = "start" /\ MayFail
              /\ Count("fail") /\ status' = "done"
              /\ UNCHANGED <<left, path, seen>>

\* depth-- and ss_pop, or the end
Ascend == IF Len(left) = 1 THEN status' = "done" /\ UNCHANGED <<left, path>>
          ELSE left' = Front(left) /\ path' = Front(path) /\ UNCHANGED status

EndOfDir == /\ status = "walk" /\ Last(left) = {}
            /\ Ascend
            /\ UNCHANGED <<stats, seen>>

\* readdir fails: the rest of the directory is given up (and never closed)
ReadFails == /\ status = "walk" /\ MayFail
             /\ Ascend
             /\ Count("fail")
             /\ UNCHANGED seen

Take(e) == [left EXCEPT ![Len(left)] = @ \ {e}]
Stay(e) == left' = Take(e) /\ UNCHANGED <<path, status>>

StatFails(e) == /\ MayFail /\ Stay(e) /\ Count("fail") /\ UNCHANGED seen

NoDirectory(e) == LET q == Append(path, e)
                  IN  Kind[q] # "dir" /\ Stay(e) /\ Report(q)

\* Variant: the name stays on the path.
TooDeepKeepsPath(e) ==
  LET q == Append(path, e)
  IN  /\ Kind[q] = "dir" /\ Len(left) >= MaxDirs
      /\ left' = Take(e) /\ path' = q
      /\ stats' = [stats EXCEPT !["dir"] = @ + 1, !["fail"] = @ + 1]
      /\ seen' = seen \cup {q}
      /\ UNCHANGED status

\* reported, but not entered: both the entry and the failure are counted
TooDeep(e) ==
  LET q == Append(path, e)
  IN  /\ Kind[q] = "dir" /\ Len(left) >= MaxDirs
      /\ Stay(e)
      /\ stats' = [stats EXCEPT !["dir"] = @ + 1, !["fail"] = @ + 1]
      /\ seen' = seen \cup {q}

Descend(e) ==
  LET q == Append(path, e)
  IN  /\ Kind[q] = "dir" /\ Len(left) < MaxDirs
      /\ Report(q)
      /\ \/ left' = Append(Take(e), EntriesOf(q)) /\ path' = q /\ UNCHANGED status
         \/ status' = "failed" /\ UNCHANGED <<left, path>>      \* opendir fails: exit(1)

ReadEntry == /\ status = "walk"
             /\ \E e \in Last(left) : StatFails(e) \/ NoDirectory(e) \/ TooDeep(e) \/ Descend(e)

Next == Start \/ StartFails \/ EndOfDir \/ ReadFails \/ ReadEntry
Spec == Init /\ [][Next]_vars /\ WF_vars(Next)
-----------------------------------------------------------------------------
\* every path whose directories may all be read
Reachable == {q \in DOMAIN Kind : \A k \in 0..Len(q) - 1 : Kind[SubSeq(q, 1, k)] = "dir"}

\* The path always names the open directory, through failures and the limit;
\* no entry is counted twice; a walk without failures has counted every entry
\* that can be reached, and one with failures says so.
EntriesOnce ==
  /\ status = "walk" =>
       /\ Len(path) = Len(left) - 1
       /\ \A k \in DOMAIN left : \A e \in left[k] :
            Append(SubSeq(path, 1, k - 1), e) \in DOMAIN Kind \ seen
  /\ \A k \in Kinds : stats[k] = Cardinality({q \in seen : Sort(q) = k})
  /\ status = "done" /\ seen # Reachable => stats["fail"] > 0
=============================================================================
