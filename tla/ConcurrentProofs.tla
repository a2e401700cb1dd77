-------------------------- MODULE ConcurrentProofs --------------------------
(***************************************************************************)
(* The smaller concurrent programs for every value of their constants: any *)
(* number of commands, images and threads of any size, any tree, any       *)
(* number of samples and workers.  Each program has an inductive invariant *)
(* of its own (PipeInv, InheritInv, FlagsInv, NegInv, TreeInv, IntInv);    *)
(* only one of them runs, so together they are one for CSpec.              *)
(***************************************************************************)
EXTENDS MCConcurrent, WellFoundedInduction, FiniteSetTheorems, TLAPS

-----------------------------------------------------------------------------
(***************************************************************************)
(* lab5/zad1: pipes.                                                       *)
(***************************************************************************)
\* What the parent has open before it starts command k.
Before(k) == Pipe!Ends(k - 1) \cap {Pipe!R(k - 1)}

PipeInv ==
  /\ Pipe!TypeOK
  /\ forked \in BOOLEAN /\ (forked => j <= n)
  /\ parent = IF forked THEN Before(j) \cup Pipe!Ends(j) ELSE Before(j)
  /\ DOMAIN fds = Pipe!Command
  /\ \A k \in Pipe!Command :
       /\ state[k] = "setup" => fds[k] = Before(k) \cup Pipe!Ends(k)
       /\ state[k] = "run" => fds[k] = Pipe!Wiring(k)

\* No pipe comes before the first command and none after the last.
LEMMA PipeStarts == Pipe!Init => PipeInv
  <1> SUFFICES ASSUME Pipe!Init PROVE PipeInv
    OBVIOUS
  <1>1. n \in Nat \ {0} /\ j = 1 /\ j \in 1..n + 1
    BY BoundsAssumption DEF Pipe!Init
  <1>2. Before(j) = {}
    BY <1>1 DEF Before, Pipe!Ends
  <1>3. Pipe!TypeOK
    BY <1>1, BoundsAssumption DEF Pipe!Init, Pipe!TypeOK
  <1> QED
    BY <1>1, <1>2, <1>3 DEF Pipe!Init, PipeInv, Pipe!Command

LEMMA PipeForks ==
  ASSUME PipeInv, Pipe!Fork
  PROVE  PipeInv'
  BY DEF Pipe!Fork, PipeInv, Pipe!TypeOK, Before, Pipe!Ends, Pipe!R, Pipe!W, Pipe!Wiring, Pipe!Command

LEMMA PipeCloses ==
  ASSUME PipeInv, Pipe!ParentCloses
  PROVE  PipeInv'
  <1> USE DEF Pipe!Command
  <1>0. n' = n /\ j' = j + 1 /\ forked' = FALSE /\ UNCHANGED <<state, fds, pipe>>
    BY DEF Pipe!ParentCloses
  <1>1. j \in 1..n /\ n \in 1..MaxCommands
    BY DEF Pipe!ParentCloses, PipeInv, Pipe!TypeOK
  <1>2. parent' = (Before(j) \cup Pipe!Ends(j)) \ {Pipe!W(j), Pipe!R(j - 1)}
    BY DEF Pipe!ParentCloses, PipeInv
  <1>3. Before(j) \subseteq {Pipe!R(j - 1)} /\ Pipe!Ends(j) \subseteq {Pipe!R(j), Pipe!W(j)}
    BY DEF Before, Pipe!Ends
  <1>4. Pipe!R(j) # Pipe!W(j) /\ Pipe!R(j) # Pipe!R(j - 1)
    BY <1>1 DEF Pipe!R, Pipe!W
  <1>5. parent' = Pipe!Ends(j) \cap {Pipe!R(j)}
    BY <1>2, <1>3, <1>4
  <1>6. j' - 1 = j
    BY <1>0, <1>1
  <1>7. parent' = Before(j)'
    BY <1>0, <1>1, <1>5, <1>6 DEF Before, Pipe!Ends, Pipe!R, Pipe!W
  <1>8. Pipe!TypeOK'
    BY <1>0, <1>1 DEF PipeInv, Pipe!TypeOK
  <1>9. ASSUME NEW k \in Pipe!Command
        PROVE  /\ state[k] = "setup" => fds[k] = (Before(k) \cup Pipe!Ends(k))'
               /\ state[k] = "run" => fds[k] = Pipe!Wiring(k)'
    BY <1>0, <1>1 DEF PipeInv, Before, Pipe!Ends, Pipe!R, Pipe!W, Pipe!Wiring
  <1> QED
    BY <1>0, <1>1, <1>7, <1>8, <1>9 DEF PipeInv

LEMMA PipeSetup ==
  ASSUME PipeInv, NEW k \in Pipe!Command, Pipe!ChildSetup(k)
  PROVE  PipeInv'
  BY DEF Pipe!ChildSetup, PipeInv, Pipe!TypeOK, Before, Pipe!Ends, Pipe!R, Pipe!W, Pipe!Wiring, Pipe!Command

LEMMA PipeRuns ==
  ASSUME PipeInv, NEW k \in Pipe!Command,
         Pipe!Write(k) \/ Pipe!Read(k) \/ Pipe!Finish(k) \/ Pipe!Wait(k) \/ Pipe!LeaveEarly(k)
  PROVE  PipeInv'
  <1> USE DEF Pipe!Command
  <1>1. /\ UNCHANGED <<n, j, forked, parent, fds>>
        /\ state' \in [Pipe!Command -> {"none", "setup", "run", "dead", "reaped"}]
        /\ \A l \in Pipe!Command : state'[l] \in {"setup", "run"} => state'[l] = state[l]
    BY DEF Pipe!Write, Pipe!Read, Pipe!Finish, Pipe!Wait, Pipe!LeaveEarly, Pipe!Die, PipeInv, Pipe!TypeOK
  <1>2. pipe' \in [Pipe!Command -> 0..Capacity]
    <2>1. pipe \in [Pipe!Command -> 0..Capacity] /\ n \in Nat
      BY BoundsAssumption DEF PipeInv, Pipe!TypeOK
    <2>2. CASE Pipe!Write(k)
      BY <2>1, <2>2, BoundsAssumption DEF Pipe!Write
    <2>3. CASE Pipe!Read(k)
      BY <2>1, <2>3, BoundsAssumption DEF Pipe!Read
    <2> QED
      BY <2>1, <2>2, <2>3 DEF Pipe!Finish, Pipe!Wait, Pipe!LeaveEarly
  <1> QED
    BY <1>1, <1>2 DEF PipeInv, Pipe!TypeOK, Before, Pipe!Ends, Pipe!R, Pipe!W, Pipe!Wiring

LEMMA PipeStep ==
  ASSUME PipeInv, Pipe!Next
  PROVE  PipeInv'
  BY PipeForks, PipeCloses, PipeSetup, PipeRuns DEF Pipe!Next, Pipe!Step

LEMMA PipeWired == PipeInv => Pipe!Wired
  BY DEF PipeInv, Pipe!Wired, Before, Pipe!Ends, Pipe!TypeOK

-----------------------------------------------------------------------------
(***************************************************************************)
(* lab4/zad1 and lab4/zad2: signals.                                       *)
(***************************************************************************)
\* What the parent did by its mode, and whether the child's program handles.
OwnDisp == IF mode = 0 THEN "ignore" ELSE IF mode = 1 THEN "handle" ELSE "default"
ChildDisp == IF mode = 1 /\ exec THEN "default" ELSE OwnDisp

ParentInv ==
  /\ pc["parent"] \in {"setup", "raise", "dopending", "fork", "wait", "exited"}
  /\ pc["parent"] = "setup" => sig["parent"].disp = "default"
  /\ pc["parent"] # "setup" =>
       sig["parent"].disp = OwnDisp /\ (sig["parent"].blocked <=> Inherit!Blocks)
  /\ IF pc["parent"] \in {"setup", "raise"} THEN "parent" \notin heard
     ELSE /\ sig["parent"].pending <=> Inherit!Blocks
          /\ "parent" \in heard <=> mode = 1
  /\ pc["parent"] = "dopending" => mode = 2
  /\ pc["parent"] \in {"fork", "wait", "exited"} /\ mode = 2 => saw["parent"] = "yes"

ChildInv ==
  /\ pc["child"] \in {"none", "exec", "raise", "dopending", "exited", "killed"}
  /\ pc["child"] = "none" <=> pc["parent"] \in {"setup", "raise", "dopending", "fork"}
  /\ pc["parent"] = "exited" => pc["child"] \in {"exited", "killed"}
  /\ pc["child"] \in {"exec", "raise", "dopending"} =>
       ~sig["child"].pending /\ (sig["child"].blocked <=> Inherit!Blocks)
  /\ pc["child"] = "exec" => exec /\ sig["child"].disp = OwnDisp
  /\ pc["child"] \in {"raise", "dopending"} => sig["child"].disp = ChildDisp
  /\ pc["child"] = "raise" => mode # 3
  /\ pc["child"] = "dopending" => mode = 3
  /\ pc["child"] = "killed" <=> (mode = 1 /\ exec /\ pc["child"] \in {"exited", "killed"})
  /\ "child" \in heard <=> (mode = 1 /\ ~exec /\ pc["child"] = "exited")
  /\ pc["child"] = "exited" =>
       (mode = 2 => sig["child"].pending) /\ (mode = 3 => saw["child"] = "no")

InheritInv == Inherit!TypeOK /\ DOMAIN pc = Inherit!Process /\ ParentInv /\ ChildInv

LEMMA InheritStep ==
  ASSUME InheritInv, Inherit!Next
  PROVE  InheritInv'
  <1> USE DEF InheritInv, Inherit!TypeOK, ParentInv, ChildInv, Inherit!Process, OwnDisp, ChildDisp, Inherit!Blocks
  <1>1. CASE Inherit!Setup
    <2>0. Inherit!Blocks \in BOOLEAN
      BY SMT
    <2>1. /\ sig'["child"] = sig["child"]
          /\ sig'["parent"].disp = (IF mode = 0 THEN "ignore" ELSE IF mode = 1 THEN "handle"
                                   ELSE sig["parent"].disp)
          /\ sig'["parent"].blocked = Inherit!Blocks
          /\ sig' \in [Inherit!Process -> [disp : {"default", "ignore", "handle"}, blocked : BOOLEAN, pending : BOOLEAN]]
      <3> HIDE DEF Inherit!Blocks
      <3> QED
        BY <1>1, <2>0 DEF Inherit!Setup
    <2>3. pc' = [pc EXCEPT !["parent"] = "raise"] /\ UNCHANGED <<mode, exec, heard, saw>> /\ pc["parent"] = "setup"
      BY <1>1 DEF Inherit!Setup
    <2>4. Inherit!TypeOK' /\ DOMAIN pc' = Inherit!Process
      BY <2>1, <2>3
    <2>5. ParentInv'
      BY <2>1, <2>3
    <2>6. ChildInv'
      BY <2>1, <2>3
    <2> QED
      BY <2>4, <2>5, <2>6
  <1>2. CASE Inherit!Fork
    BY <1>2 DEF Inherit!Fork
  <1>3. CASE Inherit!Exec
    BY <1>3 DEF Inherit!Exec
  <1>4. CASE Inherit!Wait
    BY <1>4 DEF Inherit!Wait
  <1>5. CASE Inherit!Raise("parent", IF mode = 2 THEN "dopending" ELSE "fork")
    BY <1>5 DEF Inherit!Raise
  <1>6. CASE Inherit!DoPending("parent", "fork")
    BY <1>6 DEF Inherit!DoPending
  <1>7. CASE Inherit!Raise("child", "exited")
    BY <1>7 DEF Inherit!Raise
  <1>8. CASE Inherit!DoPending("child", "exited")
    BY <1>8 DEF Inherit!DoPending
  <1> QED
    BY <1>1, <1>2, <1>3, <1>4, <1>5, <1>6, <1>7, <1>8 DEF Inherit!Next

LEMMA InheritStarts == Inherit!Init => InheritInv
  BY DEF Inherit!Init, InheritInv, Inherit!TypeOK, ParentInv, ChildInv, Inherit!Process, Inherit!Default

LEMMA InheritReport ==
  ASSUME InheritInv
  PROVE  Inherit!ReportTrue
  <1> USE DEF InheritInv, ParentInv, ChildInv, Inherit!TypeOK, Inherit!Blocks
  <1>1. pc["parent"] # "killed"
    OBVIOUS
  <1>2. ASSUME pc["parent"] = "exited"
        PROVE  /\ pc["child"] = "killed" <=> mode = 1 /\ exec
               /\ "child" \in heard <=> mode = 1 /\ ~exec
               /\ "parent" \in heard <=> mode = 1
    BY <1>2
  <1>3. ASSUME pc["parent"] = "exited", mode = 2
        PROVE  saw["parent"] = "yes" /\ sig["child"].pending
    BY <1>3
  <1>4. ASSUME pc["parent"] = "exited", mode = 3
        PROVE  saw["child"] = "no" /\ sig["parent"].pending
    BY <1>4
  <1> QED
    BY <1>1, <1>2, <1>3, <1>4 DEF Inherit!ReportTrue

\* Signals that have been sent and not handled.
OnItsWay == IF pending THEN 1 ELSE 0

\* The process sends its signals itself.
SelfInv ==
  test \in {"siginfo", "resethand"} =>
    /\ killer = "none"
    /\ pc \in {"register", "raise", "ok", "killed"}
    /\ pc = "register" => handled = 0 /\ ~pending
    /\ test = "siginfo" =>
         /\ pc # "killed"
         /\ pc # "register" => disp = "handle" /\ handled + OnItsWay + raises = 3
         /\ pc = "ok" => raises = 0 /\ ~pending
    /\ test = "resethand" =>
         /\ pc # "ok"
         /\ pc = "raise" => /\ handled \in {0, 1} /\ handled + OnItsWay + raises = 2
                            /\ disp = IF handled = 0 THEN "handle" ELSE "default"
                            /\ raises = 0 => pending
         /\ pc = "killed" => handled = 1

\* Another process sends the one signal.
KillerInv ==
  Flags!Waits =>
    /\ killer \in {"none", "start", "sent", "zombie", "reaped"}
    /\ pc \in {"register", "fork", "call", "wait", "report", "ok", "error"}
    /\ pc # "register" => disp = "handle"
    /\ killer = "none" <=> pc \in {"register", "fork"}
    /\ killer = "reaped" <=> pc \in {"report", "ok"}
    /\ handled + OnItsWay = IF killer \in {"none", "start"} THEN 0 ELSE 1
    /\ pc \in {"ok", "error"} => ~pending
    /\ pc = "error" => test = "norestart" /\ killer # "start"
    /\ handled = 0 => caught = "none"
    /\ test = "norestart" => (pc = "error" <=> caught = "wait")

FlagsInv ==
  /\ test \in {"siginfo", "norestart", "restart", "resethand"}
  /\ Flags!TypeOK /\ SelfInv /\ KillerInv

LEMMA FlagsStep ==
  ASSUME FlagsInv, Flags!Next
  PROVE  FlagsInv'
  <1> USE DEF FlagsInv, Flags!TypeOK, SelfInv, KillerInv, OnItsWay, Flags!Waits
  <1>1. CASE Flags!Register
    <2>0. pending' \in BOOLEAN
      BY <1>1, Zenon DEF Flags!Register
    <2>1. Flags!TypeOK'
      BY <1>1, <2>0 DEF Flags!Register
    <2>2. SelfInv'
      BY <1>1 DEF Flags!Register
    <2>3. KillerInv'
      BY <1>1 DEF Flags!Register
    <2> QED
      BY <1>1, <2>1, <2>2, <2>3 DEF Flags!Register
  <1>2. CASE Flags!RaiseSelf
    <2>1. CASE raises > 0
      <3>1. pending' = TRUE /\ raises' = raises - 1 /\ UNCHANGED <<test, disp, handled, caught, killer, pc>>
            /\ pc = "raise" /\ ~pending
        BY <1>2, <2>1 DEF Flags!RaiseSelf
      <3>2. pending' \in BOOLEAN
        BY <3>1, Zenon
      <3> QED
        BY <2>1, <3>1, <3>2
    <2>2. CASE ~(raises > 0)
      BY <1>2, <2>2 DEF Flags!RaiseSelf
    <2> QED
      BY <2>1, <2>2
  <1>3. CASE Flags!ForkKiller
    BY <1>3 DEF Flags!ForkKiller
  <1>4. CASE Flags!Kill
    BY <1>4 DEF Flags!Kill
  <1>5. CASE Flags!KillerExits
    BY <1>5 DEF Flags!KillerExits
  <1>6. CASE Flags!CallWait
    BY <1>6 DEF Flags!CallWait
  <1>7. CASE Flags!Reap
    BY <1>7 DEF Flags!Reap
  <1>8. CASE Flags!Report
    BY <1>8 DEF Flags!Report
  <1>9. CASE Flags!Deliver
    <2>0. pending' \in BOOLEAN
      BY <1>9, Zenon DEF Flags!Deliver
    <2>1. Flags!TypeOK'
      BY <1>9, <2>0 DEF Flags!Deliver, Flags!Interrupts, Flags!Ended
    <2>2. SelfInv'
      BY <1>9 DEF Flags!Deliver, Flags!Interrupts, Flags!Ended
    <2>3. KillerInv'
      BY <1>9 DEF Flags!Deliver, Flags!Interrupts, Flags!Ended
    <2> QED
      BY <1>9, <2>1, <2>2, <2>3 DEF Flags!Deliver
  <1> QED
    BY <1>1, <1>2, <1>3, <1>4, <1>5, <1>6, <1>7, <1>8, <1>9 DEF Flags!Next

LEMMA FlagsStart == Flags!Init => FlagsInv
  <1> SUFFICES ASSUME Flags!Init PROVE FlagsInv
    OBVIOUS
  <1> USE DEF Flags!Init, FlagsInv, SelfInv, KillerInv, OnItsWay, Flags!Waits
  <1>0. pending \in BOOLEAN
    BY Zenon
  <1>1. Flags!TypeOK
    BY <1>0 DEF Flags!TypeOK
  <1>2. SelfInv /\ KillerInv
    OBVIOUS
  <1> QED
    BY <1>1, <1>2

LEMMA FlagsReport == FlagsInv => Flags!FlagsObeyed
  <1> USE DEF FlagsInv, Flags!TypeOK, SelfInv, KillerInv, OnItsWay, Flags!Waits, Flags!Ended
  <1> SUFFICES ASSUME FlagsInv, Flags!Ended PROVE Flags!FlagsObeyed
    BY DEF Flags!FlagsObeyed
  <1>1. CASE test = "siginfo"
    BY <1>1 DEF Flags!FlagsObeyed
  <1>2. CASE test = "restart"
    BY <1>2 DEF Flags!FlagsObeyed
  <1>3. CASE test = "norestart"
    BY <1>3 DEF Flags!FlagsObeyed
  <1>4. CASE test = "resethand"
    BY <1>4 DEF Flags!FlagsObeyed
  <1> QED
    BY <1>1, <1>2, <1>3, <1>4

-----------------------------------------------------------------------------
(***************************************************************************)
(* lab8: the negative of an image.  Slices are cut by Cut(x, t): every     *)
(* thing divided is in exactly one, so is every byte (SomeSlice, OneSlice),*)
(* threads write in their own slices only (OwnSlice) and leave nothing of  *)
(* them behind (Behind).                                                   *)
(***************************************************************************)
\* Where the slice of thread t begins when x things are divided.
Cut(x, t) == (x * t) \div threads

LEMMA DivGrows ==
  ASSUME NEW a \in Nat, NEW b \in Nat, NEW m \in Nat \ {0}, a <= b
  PROVE  a \div m \in Nat /\ a \div m <= b \div m
  OBVIOUS

\* Quotient and remainder.
LEMMA Divided ==
  ASSUME NEW x \in Int, NEW m \in Nat \ {0}
  PROVE  \E q, r \in Int : /\ q = x \div m /\ r = x % m
                           /\ x = m * q + r /\ 0 <= r /\ r < m
  OBVIOUS

LEMMA Rests ==
  ASSUME NEW x \in Nat, NEW m \in Nat \ {0}
  PROVE  \E q, r \in Nat : r < m /\ x = q * m + r
  <1>1. PICK q \in Int, r \in Int :
          q = x \div m /\ r = x % m /\ x = m * q + r /\ 0 <= r /\ r < m
    BY Divided
  <1>2. q \in Nat
    BY <1>1, DivGrows
  <1>3. r \in Nat /\ r < m /\ x = q * m + r
    BY <1>1
  <1> QED
    BY <1>2, <1>3

LEMMA DivExact ==
  ASSUME NEW a \in Nat, NEW m \in Nat \ {0}
  PROVE  (a * m) \div m = a /\ 0 \div m = 0
  OBVIOUS

LEMMA ProductGrows ==
  ASSUME NEW a \in Nat, NEW b \in Nat, NEW x \in Nat, a <= b
  PROVE  x * a <= x * b /\ x * a \in Nat
  OBVIOUS

LEMMA NextRowBegins ==
  ASSUME NEW a \in Nat, NEW b \in Nat, NEW w \in Nat, a < b
  PROVE  a * w + w <= b * w /\ a * w \in Nat
  <1>1. PICK d \in Nat : b = a + 1 + d
    <2>1. b - a - 1 \in Nat /\ b = a + 1 + (b - a - 1)
      OBVIOUS
    <2> QED
      BY <2>1
  <1>2. b * w = a * w + w + d * w
    BY <1>1
  <1>3. d * w \in Nat /\ a * w \in Nat
    OBVIOUS
  <1> QED
    BY <1>2, <1>3

LEMMA CutGrows ==
  ASSUME NEW x \in Nat, threads \in Nat \ {0}
  PROVE  /\ \A t \in Nat : Cut(x, t) \in Nat
         /\ \A t, u \in Nat : t <= u => Cut(x, t) <= Cut(x, u)
         /\ Cut(x, 0) = 0 /\ Cut(x, threads) = x
  <1>1. ASSUME NEW t \in Nat PROVE Cut(x, t) \in Nat
    BY DivGrows, ProductGrows DEF Cut
  <1>2. ASSUME NEW t \in Nat, NEW u \in Nat, t <= u PROVE Cut(x, t) <= Cut(x, u)
    BY <1>2, DivGrows, ProductGrows DEF Cut
  <1>3. x * 0 = 0
    OBVIOUS
  <1>4. Cut(x, 0) = 0 /\ Cut(x, threads) = x
    BY <1>3, DivExact DEF Cut
  <1> QED
    BY <1>1, <1>2, <1>4

\* A set of natural numbers has a least one.
LEMMA Least ==
  ASSUME NEW X, X \subseteq Nat, X # {}
  PROVE  \E m \in X : \A l \in X : m <= l
  <1>1. PICK m \in X : \A l \in X : ~(<<l, m>> \in OpToRel(<, Nat))
    BY WFMin, NatLessThanWellFounded
  <1>2. \A l \in X : ~(l < m)
    BY <1>1 DEF OpToRel
  <1> QED
    BY <1>2

\* Everything that is divided belongs to one slice.
LEMMA CutOwner ==
  ASSUME NEW x \in Nat, threads \in Nat \ {0}, NEW v \in Nat, v < x
  PROVE  \E t \in Thread : Cut(x, t) <= v /\ v < Cut(x, t + 1)
  <1> DEFINE Above == {t \in Nat : v < Cut(x, t)}
  <1>1. threads \in Above /\ 0 \notin Above
    BY CutGrows
  <1>2. PICK m \in Above : \A l \in Above : m <= l
    <2> HIDE DEF Above
    <2> SUFFICES Above \subseteq Nat
      BY <1>1, Least
    <2> QED
      BY DEF Above
  <1>3. m \in Nat /\ m # 0 /\ m <= threads
    BY <1>1, <1>2
  <1>4. m - 1 \in Nat /\ m - 1 \notin Above /\ (m - 1) + 1 = m
    BY <1>2, <1>3
  <1>5. Cut(x, m - 1) <= v /\ v < Cut(x, (m - 1) + 1)
    BY <1>4, CutGrows
  <1>6. m - 1 \in Thread
    BY <1>3 DEF Thread
  <1> QED
    BY <1>5, <1>6

\* ... and to no other.
LEMMA CutApart ==
  ASSUME NEW x \in Nat, threads \in Nat \ {0}, NEW v \in Int, NEW t \in Thread, NEW u \in Thread,
         Cut(x, t) <= v, v < Cut(x, t + 1), Cut(x, u) <= v, v < Cut(x, u + 1)
  PROVE  t = u
  <1>0. t \in Nat /\ u \in Nat /\ t + 1 \in Nat /\ u + 1 \in Nat
    BY DEF Thread
  <1>1. CASE t < u
    <2>1. Cut(x, t + 1) <= Cut(x, u)
      BY <1>0, <1>1, CutGrows
    <2> QED
      BY <1>0, <2>1, CutGrows
  <1>2. CASE u < t
    <2>1. Cut(x, u + 1) <= Cut(x, t)
      BY <1>0, <1>2, CutGrows
    <2> QED
      BY <1>0, <2>1, CutGrows
  <1> QED
    BY <1>0, <1>1, <1>2

-----------------------------------------------------------------------------
\* The image, as numbers.
Starts == {k \in Bytes : k % SampleSize = 0}
Value(k) == IF SampleSize = 1 THEN img.data[k] ELSE 256 * img.data[k] + img.data[k + 1]
First(b) == b - (b % SampleSize)

\* The byte b is in the slice of t: of the rows, by its column; of the
\* values, by its sample.
InSlice(t, b) ==
  IF method = "num" THEN ValMin(t) <= Value(First(b)) /\ Value(First(b)) < ValMin(t + 1)
  ELSE \E r \in Nat : r * img.width + Offs(t) <= b /\ b < r * img.width + Offs(t + 1)

\* The sample at k has been inverted.
Inverted(k) ==
  IF SampleSize = 1 THEN out[k] = img.maxval - img.data[k]
  ELSE 256 * out[k] + out[k + 1] = img.maxval - (256 * img.data[k] + img.data[k + 1])

Rows == method = "blk" => \A t \in Thread : \E r \in Nat : base[t] = r * img.width + Offs(t)
Aligned == \A t \in Thread : i[t] % SampleSize = 0 /\ base[t] % SampleSize = 0
WithinRow == method = "blk" => \A t \in Thread : base[t] <= i[t] /\ i[t] <= base[t] + RowLen(t)
OwnSlice == \A b \in Bytes : \A t \in writers[b] : InSlice(t, b)
Behind == \A t \in Thread : \A k \in Starts : k < i[t] /\ InSlice(t, k) => Inverted(k)

NegInv ==
  /\ TypeOK /\ Rows
  /\ WholeSamples => Aligned /\ WithinRow /\ OwnSlice /\ Behind

\* a is a number of times m.
Multiple(a, m) == \E q \in Nat : a = q * m

LEMMA NoRest ==
  ASSUME NEW a \in Nat, NEW m \in Nat \ {0}, a % m = 0
  PROVE  Multiple(a, m)
  <1>1. a = (a \div m) * m /\ a \div m \in Nat
    OBVIOUS
  <1> QED
    BY <1>1 DEF Multiple

LEMMA EvenMultiple ==
  ASSUME NEW a \in Nat, NEW w \in Nat, Multiple(a, w * 2)
  PROVE  a % 2 = 0
  <1>1. PICK q \in Nat : a = q * (w * 2)
    BY DEF Multiple
  <1>2. a = 2 * (q * w) /\ q * w \in Nat
    BY <1>1
  <1> HIDE <1>1
  <1> QED
    BY <1>2

LEMMA ByteIs ==
  \A b : b \in Byte <=> b \in Nat /\ b <= 255
  BY DEF Byte

\* What is known of an image.
LEMMA ImageFacts ==
  ASSUME img \in Images, threads \in 1..MaxThreads
  PROVE  /\ threads \in Nat \ {0} /\ Length \in Nat /\ Bytes = 0..Length - 1
         /\ img.width \in Nat \ {0} /\ img.maxval \in Nat \ {0} /\ img.maxval <= 65535
         /\ SampleSize \in {1, 2}
         /\ SampleSize = 1 <=> img.maxval <= 255
         /\ \A b \in Bytes : img.data[b] \in Byte
         /\ Multiple(Length, img.width * SampleSize)
         /\ SampleSize = 2 => Length % 2 = 0
         /\ \A k \in Starts : k + SampleSize - 1 \in Bytes /\ Value(k) \in 0..img.maxval
  <1>1. IsImage(img) /\ MaxThreads \in Nat
    BY NegativeAssumption
  <1>2. threads \in Nat \ {0}
    BY <1>1
  <1>3. /\ img.width \in Nat \ {0} /\ img.maxval \in Nat \ {0} /\ img.maxval <= 65535
        /\ Length \in Nat
        /\ img.data \in [0..Length - 1 -> Byte]
    BY <1>1 DEF IsImage, SampleSize, Length, Bytes
  <1>4. SampleSize \in {1, 2} /\ (SampleSize = 1 <=> img.maxval <= 255)
    BY <1>3 DEF SampleSize
  <1>5. Length % (img.width * SampleSize) = 0
    BY <1>1 DEF IsImage, SampleSize, Length, Bytes
  <1>6. \A k \in 0..Length - 1 :
          IF SampleSize = 1 THEN img.data[k] <= img.maxval
          ELSE k % 2 = 0 => 256 * img.data[k] + img.data[k + 1] <= img.maxval
    BY <1>1 DEF IsImage, SampleSize, Length, Bytes
  <1>7. Bytes = 0..Length - 1 /\ \A b \in Bytes : img.data[b] \in Byte
    BY <1>3 DEF Bytes
  <1>8. Multiple(Length, img.width * SampleSize)
    <2>1. img.width * SampleSize \in Nat \ {0}
      BY <1>3, <1>4
    <2> QED
      BY ONLY <1>3, <1>5, <2>1, NoRest
  <1>9. SampleSize = 2 => Length % 2 = 0
    BY <1>3, <1>8, EvenMultiple
  <1>10. ASSUME NEW k \in Starts
        PROVE  k + SampleSize - 1 \in Bytes /\ Value(k) \in 0..img.maxval
    <2>1. k \in 0..Length - 1 /\ k % SampleSize = 0
      BY <1>7 DEF Starts
    <2>2. CASE SampleSize = 1
      BY <1>3, <1>6, <1>7, ByteIs, <2>1, <2>2 DEF Value
    <2>3. CASE SampleSize = 2
      <3>1. k % 2 = 0 /\ k + 1 \in 0..Length - 1
        BY <1>3, <1>9, <2>1, <2>3
      <3>2. img.data[k] \in Nat /\ img.data[k + 1] \in Nat
        BY <1>7, ByteIs, <2>1, <3>1
      <3>3. 256 * img.data[k] + img.data[k + 1] <= img.maxval
        BY <1>6, <2>1, <2>3, <3>1
      <3>4. Value(k) = 256 * img.data[k] + img.data[k + 1]
        BY <2>3 DEF Value
      <3>5. Value(k) \in 0..img.maxval
        <4>1. img.maxval \in Nat
          BY <1>3
        <4> QED
          BY ONLY <3>2, <3>3, <3>4, <4>1
      <3> QED
        BY <1>7, <2>3, <3>1, <3>5
    <2> QED
      BY <1>4, <2>2, <2>3
  <1> QED
    BY <1>2, <1>3, <1>4, <1>7, <1>8, <1>9, <1>10

LEMMA LowByte ==
  ASSUME NEW x \in Int
  PROVE  x % 256 \in Byte
  <1>1. x % 256 \in Nat /\ x % 256 <= 255
    OBVIOUS
  <1> QED
    BY <1>1, ByteIs

LEMMA TwoBytes ==
  ASSUME NEW x \in Nat, x <= 65535, NEW hi, NEW lo, hi = (x \div 256) % 256, lo = x % 256
  PROVE  256 * hi + lo = x
  <1>1. PICK q \in Int, r \in Int :
          q = x \div 256 /\ r = x % 256 /\ x = 256 * q + r /\ 0 <= r /\ r < 256
    BY Divided
  <1>2. q \in Nat /\ q < 256
    BY <1>1
  <1>3. q % 256 = q
    BY <1>2
  <1>4. hi = q /\ lo = r /\ x = 256 * q + r
    BY <1>1, <1>3
  <1> QED
    BY ONLY <1>4

\* What a thread reads is the sample.
LEMMA SampleIsValue ==
  ASSUME img \in Images, threads \in 1..MaxThreads, WholeSamples, NEW k \in Starts, NEW past
  PROVE  Sample(k, past) = Value(k)
  <1>1. /\ Bytes = 0..Length - 1 /\ Length \in Nat /\ SampleSize \in {1, 2}
        /\ k + SampleSize - 1 \in Bytes
    BY ImageFacts
  <1>2. CASE SampleSize = 1
    BY <1>2 DEF Sample, Value
  <1>3. CASE SampleSize = 2
    <2>1. k \in Nat /\ k % 2 = 0 /\ k + 1 \in Bytes
      BY <1>1, <1>3 DEF Starts
    <2>2. (k + 1) % 2 = 1
      BY <2>1
    <2>3. method = "blk" => img.data[k + 1] < 128
      BY <1>3, <2>1, <2>2 DEF WholeSamples
    <2>4. img.data[k + 1] \in Nat
      BY <2>1, ImageFacts, ByteIs
    <2> QED
      BY <1>3, <2>1, <2>3, <2>4 DEF Sample, Value
  <1> QED
    BY <1>1, <1>2, <1>3

\* What a thread writes is bytes, and it is noted as their writer.
LEMMA PutTypes ==
  ASSUME TypeOK, NEW t \in Thread, NEW k \in Bytes, NEW past \in Int, Put(t, k, past)
  PROVE  /\ out' \in [Bytes -> {Unset} \cup Byte]
         /\ writers' \in [Bytes -> SUBSET Thread]
         /\ \A b \in Bytes : \A u \in writers'[b] :
              u \in writers[b] \/ (u = t /\ b \in {k, k + SampleSize - 1})
  <1> DEFINE two == {k, k + SampleSize - 1} \cap Bytes
             inverse == img.maxval - Sample(k, past)
  <1>1. /\ out' = [b \in Bytes |->
                     IF b \notin two THEN out[b]
                     ELSE IF b = k /\ SampleSize = 2 THEN (inverse \div 256) % 256
                     ELSE inverse % 256]
        /\ writers' = [b \in Bytes |-> IF b \in two THEN writers[b] \cup {t} ELSE writers[b]]
    BY DEF Put
  <1>2. Sample(k, past) \in Int
    <2>1. img.data[k] \in Nat /\ \A b \in Bytes : img.data[b] \in Nat
      BY ImageFacts, ByteIs DEF TypeOK
    <2> QED
      BY <2>1 DEF Sample
  <1>3. inverse \in Int
    BY <1>2, ImageFacts DEF TypeOK
  <1> HIDE DEF inverse
  <1>4. inverse \div 256 \in Int
    BY <1>3
  <1>5. (inverse \div 256) % 256 \in Byte /\ inverse % 256 \in Byte
    BY <1>3, <1>4, LowByte
  <1>6. out \in [Bytes -> {Unset} \cup Byte] /\ writers \in [Bytes -> SUBSET Thread]
    BY DEF TypeOK
  <1> HIDE DEF two
  <1>7. out' \in [Bytes -> {Unset} \cup Byte]
    BY <1>1, <1>5, <1>6
  <1>8. writers' \in [Bytes -> SUBSET Thread]
    BY <1>1, <1>6
  <1>9. \A b \in Bytes : \A u \in writers'[b] : u \in writers[b] \/ (u = t /\ b \in two)
    BY <1>1
  <1> QED
    BY <1>7, <1>8, <1>9 DEF two

\* It inverts the sample at k and spoils no other.
LEMMA PutInverts ==
  ASSUME TypeOK, WholeSamples, NEW t \in Thread, NEW k \in Starts, NEW past \in Int,
         Put(t, k, past), UNCHANGED img
  PROVE  /\ Inverted(k)'
         /\ \A l \in Starts : Inverted(l) => Inverted(l)'
  <1> DEFINE x == img.maxval - Value(k)
  <1>1. /\ Bytes = 0..Length - 1 /\ Length \in Nat /\ SampleSize \in {1, 2}
        /\ SampleSize = 1 <=> img.maxval <= 255
        /\ img.maxval \in Nat /\ img.maxval <= 65535
        /\ k + SampleSize - 1 \in Bytes /\ Value(k) \in 0..img.maxval
    BY ImageFacts DEF TypeOK
  <1>2. x \in Nat /\ x <= img.maxval
    BY <1>1
  <1>3. Sample(k, past) = Value(k)
    BY SampleIsValue DEF TypeOK
  <1>4. k \in Bytes /\ k \in Nat
    BY <1>1 DEF Starts
  <1>5. \A b \in Bytes : out'[b] = IF b \notin {k, k + SampleSize - 1} THEN out[b]
                     ELSE IF b = k /\ SampleSize = 2 THEN (x \div 256) % 256
                     ELSE x % 256
    BY <1>1, <1>3, <1>4 DEF Put
  <1>6. SampleSize' = SampleSize
    BY DEF SampleSize
  <1> HIDE DEF x
  <1>7. CASE SampleSize = 1
    <2>1. out'[k] = x % 256 /\ \A b \in Bytes : b # k => out'[b] = out[b]
      BY <1>4, <1>5, <1>7
    <2>2. x % 256 = x
      BY <1>1, <1>2, <1>7
    <2>3. Inverted(k)'
      BY <1>6, <1>7, <2>1, <2>2 DEF Inverted, Value, x
    <2>4. ASSUME NEW l \in Starts, Inverted(l) PROVE Inverted(l)'
      <3>1. CASE l = k
        BY <2>3, <3>1
      <3>2. CASE l # k
        BY <1>6, <1>7, <2>1, <2>4, <3>2 DEF Inverted, Starts
      <3> QED
        BY <3>1, <3>2
    <2> QED
      BY <2>3, <2>4
  <1>8. CASE SampleSize = 2
    <2>1. k + 1 \in Bytes /\ k + 1 # k
      BY <1>1, <1>4, <1>8
    <2>2. out'[k] = (x \div 256) % 256 /\ out'[k + 1] = x % 256
      BY <1>4, <1>5, <1>8, <2>1
    <2>3. 256 * out'[k] + out'[k + 1] = x
      <3>1. x <= 65535
        BY <1>1, <1>2
      <3> DEFINE hi == out'[k]
                 lo == out'[k + 1]
      <3>2. hi = (x \div 256) % 256 /\ lo = x % 256
        BY <2>2
      <3> HIDE DEF hi, lo
      <3>3. 256 * hi + lo = x
        BY ONLY <1>2, <3>1, <3>2, TwoBytes
      <3> QED
        BY <3>3 DEF hi, lo
    <2>4. Inverted(k)'
      BY <1>6, <1>8, <2>3 DEF Inverted, Value, x
    <2>5. ASSUME NEW l \in Starts, l # k
          PROVE  l \in Bytes /\ l + 1 \in Bytes /\ out'[l] = out[l] /\ out'[l + 1] = out[l + 1]
      <3>1. l \in Nat /\ l \in Bytes /\ l + 1 \in Bytes
        BY <1>1, <1>8, ImageFacts DEF Starts, TypeOK
      <3>2. l % 2 = 0 /\ k % 2 = 0
        BY <1>8 DEF Starts
      <3>3. l # k + 1 /\ l + 1 # k /\ l + 1 # k + 1
        BY <1>4, <2>5, <3>1, <3>2
      <3> QED
        BY <1>5, <1>8, <2>5, <3>1, <3>3
    <2>6. ASSUME NEW l \in Starts, Inverted(l) PROVE Inverted(l)'
      <3>1. CASE l = k
        BY <2>4, <3>1
      <3>2. CASE l # k
        BY <1>6, <1>8, <2>5, <2>6, <3>2 DEF Inverted
      <3> QED
        BY <3>1, <3>2
    <2> QED
      BY <2>4, <2>6
  <1> QED
    BY <1>1, <1>7, <1>8

-----------------------------------------------------------------------------
\* The slices, of values and of columns.
LEMMA SliceCuts ==
  ASSUME TypeOK
  PROVE  /\ img.width \in Nat /\ img.maxval + 1 \in Nat /\ threads \in Nat \ {0}
         /\ \A t \in Nat : ValMin(t) = Cut(img.maxval + 1, t) /\ Offs(t) = Cut(img.width, t)
         /\ \A t \in Thread : /\ t \in Nat /\ t + 1 \in Nat
                              /\ Offs(t) \in Nat /\ RowLen(t) \in Nat
                              /\ Offs(t + 1) = Offs(t) + RowLen(t) /\ Offs(t + 1) <= img.width
  <1>1. img.width \in Nat /\ img.maxval + 1 \in Nat /\ threads \in Nat \ {0}
    BY ImageFacts DEF TypeOK
  <1>2. \A t \in Nat : ValMin(t) = Cut(img.maxval + 1, t) /\ Offs(t) = Cut(img.width, t)
    BY Zenon DEF ValMin, Offs, Cut
  <1>3. ASSUME NEW t \in Thread
        PROVE  /\ t \in Nat /\ t + 1 \in Nat
               /\ Offs(t) \in Nat /\ RowLen(t) \in Nat
               /\ Offs(t + 1) = Offs(t) + RowLen(t) /\ Offs(t + 1) <= img.width
    <2>1. t \in Nat /\ t + 1 \in Nat /\ threads \in Nat /\ t <= t + 1 /\ t + 1 <= threads
      BY <1>1 DEF Thread
    <2>2. /\ Offs(t) \in Nat /\ Offs(t + 1) \in Nat
          /\ Offs(t) <= Offs(t + 1) /\ Offs(t + 1) <= img.width
      <3>1. Offs(t) = Cut(img.width, t) /\ Offs(t + 1) = Cut(img.width, t + 1)
        BY <1>2, <2>1
      <3>2. /\ Cut(img.width, t) \in Nat /\ Cut(img.width, t + 1) \in Nat
            /\ Cut(img.width, t) <= Cut(img.width, t + 1)
            /\ Cut(img.width, t + 1) <= Cut(img.width, threads)
            /\ Cut(img.width, threads) = img.width
        BY <1>1, <2>1, CutGrows
      <3> QED
        BY <3>1, <3>2
    <2> QED
      BY <2>1, <2>2 DEF RowLen
  <1> QED
    BY <1>1, <1>2, <1>3

\* Every byte of an image is in one slice and in no other.
LEMMA SomeSlice ==
  ASSUME TypeOK, NEW b \in Starts
  PROVE  \E t \in Thread : InSlice(t, b)
  <1>1. b \in Bytes /\ b \in Nat /\ b % SampleSize = 0 /\ Value(b) \in Nat /\ Value(b) < img.maxval + 1
    BY ImageFacts DEF TypeOK, Starts
  <1>2. CASE method = "num"
    <2>1. First(b) = b
      <3>1. First(b) = b - (b % SampleSize) /\ b - 0 = b
        BY <1>1 DEF First
      <3> QED
        BY <1>1, <3>1
    <2>2. PICK t \in Thread : Cut(img.maxval + 1, t) <= Value(b) /\ Value(b) < Cut(img.maxval + 1, t + 1)
      BY <1>1, SliceCuts, CutOwner
    <2>3. InSlice(t, b)
      BY <1>2, <2>1, <2>2, SliceCuts DEF InSlice
    <2> QED
      BY <2>3
  <1>3. CASE method # "num"
    <2>1. img.width \in Nat \ {0}
      BY ImageFacts DEF TypeOK
    <2>2. PICK r \in Nat, c \in Nat : c < img.width /\ b = r * img.width + c
      BY <1>1, <2>1, Rests
    <2>3. PICK t \in Thread : Offs(t) <= c /\ c < Offs(t + 1)
      BY <2>2, SliceCuts, CutOwner
    <2>4. r * img.width \in Nat
      BY <2>1, <2>2, ProductGrows
    <2>5. r * img.width + Offs(t) <= b /\ b < r * img.width + Offs(t + 1)
      BY <2>2, <2>3, <2>4, SliceCuts
    <2>6. InSlice(t, b)
      BY <1>3, <2>2, <2>5 DEF InSlice
    <2> QED
      BY <2>6
  <1> QED
    BY <1>2, <1>3

\* Rows are apart.
LEMMA SameRow ==
  ASSUME NEW w \in Nat, NEW a \in Nat, NEW b \in Nat, NEW x \in Nat,
         a * w <= x, x < a * w + w, b * w <= x, x < b * w + w
  PROVE  a = b
  <1>1. a < b => a * w + w <= b * w
    BY NextRowBegins
  <1>2. b < a => b * w + w <= a * w
    BY NextRowBegins
  <1>3. a * w \in Nat /\ b * w \in Nat
    OBVIOUS
  <1> QED
    BY <1>1, <1>2, <1>3

LEMMA OneSlice ==
  ASSUME TypeOK, NEW b \in Bytes, NEW t \in Thread, NEW u \in Thread, InSlice(t, b), InSlice(u, b)
  PROVE  t = u
  <1>1. b \in Nat
    BY ImageFacts DEF TypeOK
  <1>2. CASE method = "num"
    <2>1. SampleSize \in {1, 2} /\ First(b) \in Starts
      <3>1. Bytes = 0..Length - 1 /\ Length \in Nat /\ SampleSize \in {1, 2}
        BY ImageFacts DEF TypeOK
      <3>2. CASE SampleSize = 1
        <4>1. b % 1 = 0
          BY <1>1
        <4>2. First(b) = b - 0 /\ b - 0 = b
          BY <1>1, <3>2, <4>1 DEF First
        <4> QED
          BY <3>2, <4>1, <4>2 DEF Starts
      <3>3. CASE SampleSize = 2
        <4>1. b - (b % 2) \in Nat /\ b - (b % 2) <= b /\ (b - (b % 2)) % 2 = 0
          BY <1>1
        <4> QED
          BY <3>1, <3>3, <4>1 DEF First, Starts
      <3> QED
        BY <3>1, <3>2, <3>3
    <2>2. Value(First(b)) \in Int
      BY <2>1, ImageFacts DEF TypeOK
    <2>3. /\ ValMin(t) <= Value(First(b)) /\ Value(First(b)) < ValMin(t + 1)
          /\ ValMin(u) <= Value(First(b)) /\ Value(First(b)) < ValMin(u + 1)
      BY <1>2 DEF InSlice
    <2> QED
      BY <2>2, <2>3, SliceCuts, CutApart
  <1>3. CASE method # "num"
    <2>1. PICK r \in Nat : r * img.width + Offs(t) <= b /\ b < r * img.width + Offs(t + 1)
      BY <1>3 DEF InSlice
    <2>2. PICK q \in Nat : q * img.width + Offs(u) <= b /\ b < q * img.width + Offs(u + 1)
      BY <1>3 DEF InSlice
    <2>3. r * img.width \in Nat /\ q * img.width \in Nat /\ img.width \in Nat
      BY SliceCuts, ProductGrows
    <2>4. /\ r * img.width <= b /\ b < r * img.width + img.width
          /\ q * img.width <= b /\ b < q * img.width + img.width
      BY <1>1, <2>1, <2>2, <2>3, SliceCuts
    <2>5. r = q
      BY <1>1, <2>3, <2>4, SameRow
    <2> DEFINE c == b - r * img.width
    <2>6. c \in Int
      BY <1>1, <2>3
    <2>7. Offs(t) <= c /\ c < Offs(t + 1) /\ Offs(u) <= c /\ c < Offs(u + 1)
      BY <1>1, <2>1, <2>2, <2>3, <2>5, SliceCuts
    <2> HIDE DEF c
    <2> QED
      BY <2>6, <2>7, SliceCuts, CutApart
  <1> QED
    BY <1>2, <1>3

-----------------------------------------------------------------------------
\* The threads leave the image and its division alone.
LEMMA Frame ==
  ASSUME UNCHANGED <<img, method, threads>>
  PROVE  /\ Bytes' = Bytes /\ Starts' = Starts /\ Thread' = Thread /\ SampleSize' = SampleSize
         /\ WholeSamples' <=> WholeSamples
         /\ \A t : RowLen(t)' = RowLen(t) /\ Offs(t)' = Offs(t)
         /\ \A t, b : InSlice(t, b)' <=> InSlice(t, b)
  <1>1. Bytes' = Bytes /\ Thread' = Thread /\ SampleSize' = SampleSize
    BY DEF Bytes, Thread, SampleSize
  <1>2. Starts' = Starts
    BY <1>1 DEF Starts
  <1>3. /\ \A t : Offs(t)' = Offs(t) /\ ValMin(t)' = ValMin(t)
        /\ \A t : RowLen(t)' = RowLen(t)
    BY DEF Offs, ValMin, RowLen
  <1>4. WholeSamples' <=> WholeSamples
    BY <1>1, <1>3 DEF WholeSamples
  <1>5. \A k : Value(k)' = Value(k) /\ First(k)' = First(k)
    BY <1>1 DEF Value, First
  <1>6. \A t, b : InSlice(t, b)' <=> InSlice(t, b)
    BY <1>3, <1>5 DEF InSlice
  <1> QED
    BY <1>1, <1>2, <1>3, <1>4, <1>6

\* Parity: what lies between two even numbers in steps of two.
LEMMA Even ==
  \A a, b \in Nat : a % 2 = 0 /\ b % 2 = 0 =>
     (a + b) % 2 = 0 /\ (a < b => a + 2 <= b) /\ (a < b + 2 /\ a # b => a < b)
  OBVIOUS

\* The thread's row: it begins and ends with whole samples.
LEMMA WholeRows ==
  ASSUME TypeOK, WholeSamples, method = "blk", NEW t \in Thread
  PROVE  /\ Offs(t) % SampleSize = 0 /\ RowLen(t) % SampleSize = 0
         /\ img.width % SampleSize = 0
  <1>1. SampleSize \in {1, 2} /\ threads \in Nat \ {0} /\ img.width \in Nat
    BY ImageFacts DEF TypeOK
  <1>2. /\ t \in Nat /\ t + 1 \in Nat /\ Offs(t) \in Nat /\ RowLen(t) \in Nat
        /\ Offs(t + 1) = Offs(t) + RowLen(t)
    BY SliceCuts
  <1>3. CASE SampleSize = 1
    <2>1. \A a \in Nat : a % 1 = 0
      OBVIOUS
    <2> QED
      BY <1>1, <1>2, <1>3, <2>1
  <1>4. CASE SampleSize = 2
    <2>1. t \in 0..threads /\ t + 1 \in 0..threads /\ threads \in 0..threads /\ threads \in Nat
      BY <1>1 DEF Thread
    <2>2. Offs(t) % 2 = 0 /\ Offs(t + 1) % 2 = 0 /\ Offs(threads) % 2 = 0
      BY <1>4, <2>1 DEF WholeSamples
    <2>3. Offs(threads) = img.width
      BY <1>1, <2>1, SliceCuts, CutGrows
    <2>4. RowLen(t) % 2 = 0
      BY <1>2, <2>2
    <2> QED
      BY <1>4, <2>2, <2>3, <2>4
  <1> QED
    BY <1>1, <1>3, <1>4

LEMMA NegStarts == Init => NegInv
  <1> SUFFICES ASSUME Init PROVE NegInv
    OBVIOUS
  <1> USE DEF Init
  <1>1. threads \in Nat \ {0} /\ img.width \in Nat
    BY ImageFacts
  <1>2. \A t \in Thread : t \in Nat
    BY <1>1 DEF Thread
  <1>3. \A t \in Thread : Offs(t) \in Nat
    BY <1>1, <1>2, CutGrows, Zenon DEF Offs, Cut
  <1>4. base \in [Thread -> Nat]
    BY <1>3
  <1>5. TypeOK
    BY <1>4 DEF TypeOK
  <1>6. Rows
    <2> SUFFICES ASSUME method = "blk", NEW t \in Thread
                 PROVE  \E r \in Nat : base[t] = r * img.width + Offs(t)
      BY DEF Rows
    <2>1. base[t] = Offs(t) /\ 0 * img.width = 0 /\ 0 + Offs(t) = Offs(t)
      BY <1>1, <1>3
    <2> QED
      BY <2>1
  <1>7. ASSUME WholeSamples PROVE Aligned
    <2>1. SampleSize \in {1, 2} /\ 0 % SampleSize = 0
      BY <1>5, ImageFacts DEF TypeOK
    <2>2. ASSUME NEW t \in Thread PROVE base[t] % SampleSize = 0
      <3>1. CASE method = "num"
        BY <2>1, <3>1
      <3>2. CASE method = "blk"
        BY <1>5, <1>7, <3>2, WholeRows
      <3> QED
        BY <3>1, <3>2
    <2> QED
      BY <2>2 DEF Aligned
  <1>8. WithinRow
    <2> SUFFICES ASSUME NEW t \in Thread PROVE base[t] <= i[t] /\ i[t] <= base[t] + RowLen(t)
      BY DEF WithinRow
    <2>1. base[t] \in Nat /\ i[t] = base[t] /\ RowLen(t) \in Nat
      BY <1>4, <1>5, SliceCuts
    <2> QED
      BY <2>1
  <1>9. OwnSlice
    BY DEF OwnSlice
  <1>10. Behind
    <2> SUFFICES ASSUME NEW t \in Thread, NEW k \in Starts, k < i[t], InSlice(t, k)
                 PROVE  FALSE
      BY DEF Behind
    <2>1. k \in Nat
      BY <1>5, ImageFacts DEF TypeOK, Starts
    <2>2. CASE method = "num"
      BY <2>1, <2>2
    <2>3. CASE method = "blk"
      <3>1. PICK r \in Nat : r * img.width + Offs(t) <= k
        BY <2>3 DEF InSlice
      <3>2. r * img.width \in Nat
        BY <1>1, ProductGrows
      <3>3. i[t] = Offs(t)
        BY <2>3
      <3> QED
        BY <1>3, <2>1, <3>1, <3>2, <3>3
    <2> QED
      BY <2>2, <2>3
  <1> QED
    BY <1>5, <1>6, <1>7, <1>8, <1>9, <1>10 DEF NegInv

\* A thread goes on by one sample of its row.
LEMMA Moves ==
  ASSUME NegInv, NEW t \in Thread, UNCHANGED <<img, method, threads, base>>,
         i' = [i EXCEPT ![t] = @ + SampleSize],
         WholeSamples /\ method = "blk" => i[t] + SampleSize <= base[t] + RowLen(t)
  PROVE  /\ base' \in [Thread' -> Nat] /\ i' \in [Thread' -> Nat] /\ Rows'
         /\ WholeSamples => Aligned' /\ WithinRow'
         /\ WholeSamples => \A u \in Thread : \A k \in Starts :
              k < i'[u] => k < i[u] \/ (u = t /\ k = i[t])
  <1>1. /\ TypeOK /\ Rows /\ SampleSize \in {1, 2}
        /\ base \in [Thread -> Nat] /\ i \in [Thread -> Nat]
    BY ImageFacts DEF NegInv, TypeOK
  <1>2. /\ Thread' = Thread /\ SampleSize' = SampleSize
        /\ \A u : RowLen(u)' = RowLen(u) /\ Offs(u)' = Offs(u)
    BY Frame
  <1>3. i' \in [Thread -> Nat] /\ base' \in [Thread -> Nat]
    BY <1>1
  <1>4. Rows'
    BY <1>1, <1>2 DEF Rows
  <1>5. i'[t] = i[t] + SampleSize /\ \A u \in Thread : u # t => i'[u] = i[u]
    BY <1>1
  <1>6. ASSUME WholeSamples PROVE Aligned'
    <2>1. Aligned
      BY <1>6 DEF NegInv
    <2>2. (i[t] + SampleSize) % SampleSize = 0
      <3>1. i[t] \in Nat /\ i[t] % SampleSize = 0
        BY <1>1, <2>1 DEF Aligned
      <3>2. CASE SampleSize = 1
        <4>1. (i[t] + 1) % 1 = 0
          BY <3>1
        <4> QED
          BY <3>2, <4>1
      <3>3. CASE SampleSize = 2
        <4>1. i[t] % 2 = 0
          BY <3>1, <3>3
        <4>2. (i[t] + 2) % 2 = 0
          BY <3>1, <4>1
        <4> QED
          BY <3>3, <4>2
      <3> QED
        BY <1>1, <3>2, <3>3
    <2>3. \A u \in Thread : i'[u] % SampleSize = 0 /\ base'[u] % SampleSize = 0
      BY <1>5, <2>1, <2>2 DEF Aligned
    <2> QED
      BY <1>2, <2>3 DEF Aligned
  <1>7. ASSUME WholeSamples PROVE WithinRow'
    <2> SUFFICES ASSUME method = "blk", NEW u \in Thread
                 PROVE  base[u] <= i'[u] /\ i'[u] <= base[u] + RowLen(u)
      BY <1>2 DEF WithinRow
    <2>1. /\ base[u] <= i[u] /\ i[u] <= base[u] + RowLen(u)
          /\ base[u] \in Nat /\ i[u] \in Nat
      BY <1>1, <1>7 DEF NegInv, WithinRow
    <2>2. CASE u = t
      BY <1>1, <1>5, <1>7, <2>1, <2>2
    <2>3. CASE u # t
      BY <1>5, <2>1, <2>3
    <2> QED
      BY <2>2, <2>3
  <1>8. ASSUME WholeSamples, NEW u \in Thread, NEW k \in Starts, k < i'[u]
        PROVE  k < i[u] \/ (u = t /\ k = i[t])
    <2>1. CASE u # t
      BY <1>5, <1>8, <2>1
    <2>2. CASE u = t
      <3>1. /\ k \in Nat /\ i[t] \in Nat /\ k % SampleSize = 0 /\ i[t] % SampleSize = 0
            /\ k < i[t] + SampleSize
        BY <1>1, <1>5, <1>8, <2>2, ImageFacts DEF Starts, NegInv, Aligned, TypeOK
      <3>2. CASE SampleSize = 1
        BY <2>2, <3>1, <3>2
      <3>3. CASE SampleSize = 2
        BY <2>2, <3>1, <3>3, Even
      <3> QED
        BY <1>1, <3>2, <3>3
    <2> QED
      BY <2>1, <2>2
  <1> QED
    BY <1>2, <1>3, <1>4, <1>6, <1>7, <1>8

\* ... and has stored it: all of it lies in the thread's slice.
LEMMA Stores ==
  ASSUME NegInv, NEW t \in Thread, UNCHANGED <<img, method, threads, base>>,
         i' = [i EXCEPT ![t] = @ + SampleSize],
         i[t] \in Bytes, NEW past \in Int, Put(t, i[t], past),
         WholeSamples => /\ method = "blk" => i[t] + SampleSize <= base[t] + RowLen(t)
                         /\ \A b \in {i[t], i[t] + SampleSize - 1} : InSlice(t, b)
  PROVE  NegInv'
  <1>0. TypeOK
    BY DEF NegInv
  <1>1. /\ base' \in [Thread' -> Nat] /\ i' \in [Thread' -> Nat] /\ Rows'
        /\ WholeSamples => Aligned' /\ WithinRow'
        /\ WholeSamples => \A u \in Thread : \A k \in Starts :
             k < i'[u] => k < i[u] \/ (u = t /\ k = i[t])
    BY Moves
  <1>2. /\ Bytes' = Bytes /\ Starts' = Starts /\ Thread' = Thread
        /\ WholeSamples' <=> WholeSamples
        /\ \A u, b : InSlice(u, b)' <=> InSlice(u, b)
    BY Frame
  <1>3. /\ out' \in [Bytes -> {Unset} \cup Byte]
        /\ writers' \in [Bytes -> SUBSET Thread]
        /\ \A b \in Bytes : \A u \in writers'[b] :
              u \in writers[b] \/ (u = t /\ b \in {i[t], i[t] + SampleSize - 1})
    BY <1>0, PutTypes
  <1>4. TypeOK'
    BY <1>0, <1>1, <1>2, <1>3 DEF TypeOK
  <1>5. ASSUME WholeSamples PROVE OwnSlice'
    <2>1. OwnSlice
      BY <1>5 DEF NegInv
    <2>2. \A b \in Bytes : \A u \in writers'[b] : InSlice(u, b)
      BY <1>3, <1>5, <2>1 DEF OwnSlice
    <2> QED
      BY <1>2, <2>2 DEF OwnSlice
  <1>6. ASSUME WholeSamples PROVE Behind'
    <2>1. PICK a \in Starts : a = i[t]
      BY <1>6 DEF NegInv, Aligned, Starts
    <2>2. Inverted(a)' /\ \A k \in Starts : Inverted(k) => Inverted(k)'
      BY <1>0, <1>6, <2>1, PutInverts
    <2>3. ASSUME NEW u \in Thread, NEW k \in Starts, k < i'[u], InSlice(u, k)
          PROVE  Inverted(k)'
      <3>1. CASE k < i[u]
        <4>1. Inverted(k)
          BY <1>6, <2>3, <3>1 DEF NegInv, Behind
        <4> QED
          BY <2>2, <4>1
      <3>2. CASE k = i[t]
        BY <2>1, <2>2, <3>2
      <3> QED
        BY <1>1, <1>6, <2>3, <3>1, <3>2
    <2> QED
      BY <1>2, <2>3 DEF Behind
  <1> QED
    BY <1>1, <1>2, <1>4, <1>5, <1>6 DEF NegInv

\* A sample and the bytes it takes are in the same slice of values.
LEMMA WholeValue ==
  ASSUME TypeOK, method = "num", WholeSamples, NEW k \in Starts, NEW t \in Thread
  PROVE  /\ InSlice(t, k) <=> Sample(k, 0) \in ValMin(t)..ValMin(t + 1) - 1
         /\ InSlice(t, k) => \A b \in {k, k + SampleSize - 1} : InSlice(t, b)
  <1>1. SampleSize \in {1, 2} /\ k \in Nat /\ k % SampleSize = 0 /\ Value(k) \in Nat
    BY ImageFacts DEF TypeOK, Starts
  <1>2. Sample(k, 0) = Value(k)
    BY SampleIsValue DEF TypeOK
  <1>3. ValMin(t) \in Nat /\ ValMin(t + 1) \in Nat
    <2>1. /\ t \in Nat /\ t + 1 \in Nat /\ img.maxval + 1 \in Nat /\ threads \in Nat \ {0}
          /\ ValMin(t) = Cut(img.maxval + 1, t) /\ ValMin(t + 1) = Cut(img.maxval + 1, t + 1)
      BY SliceCuts
    <2>2. \A x \in Nat : Cut(x, t) \in Nat /\ Cut(x, t + 1) \in Nat
      BY <2>1, CutGrows
    <2> QED
      BY <2>1, <2>2
  <1>4. First(k) = k
    <2>1. First(k) = k - 0 /\ k - 0 = k
      BY <1>1 DEF First
    <2> QED
      BY <2>1
  <1>5. First(k + SampleSize - 1) = k
    <2>1. CASE SampleSize = 1
      <3>1. k + 1 - 1 = k
        BY <1>1
      <3> QED
        BY <1>4, <2>1, <3>1
    <2>2. CASE SampleSize = 2
      <3>1. k + 2 - 1 = k + 1 /\ (k + 1) - ((k + 1) % 2) = k
        BY <1>1, <2>2
      <3> QED
        BY <2>2, <3>1 DEF First
    <2> QED
      BY <1>1, <2>1, <2>2
  <1>6. InSlice(t, k) <=> Sample(k, 0) \in ValMin(t)..ValMin(t + 1) - 1
    <2>1. InSlice(t, k) <=> ValMin(t) <= Value(k) /\ Value(k) < ValMin(t + 1)
      BY <1>4 DEF InSlice
    <2> QED
      BY <1>1, <1>2, <1>3, <2>1
  <1>7. InSlice(t, k + SampleSize - 1) <=> InSlice(t, k)
    BY <1>4, <1>5 DEF InSlice
  <1> QED
    BY <1>6, <1>7

LEMMA NegVal ==
  ASSUME NegInv, NEW t \in Thread, ValStep(t)
  PROVE  NegInv'
  <1> USE DEF ValStep
  <1>1. /\ TypeOK /\ SampleSize \in {1, 2} /\ Length \in Nat /\ Bytes = 0..Length - 1
        /\ i[t] \in Nat /\ method = "num"
    BY ImageFacts DEF NegInv, TypeOK
  <1>2. i[t] \in Bytes
    BY <1>1
  <1>3. ASSUME WholeSamples PROVE i[t] \in Starts
    BY <1>2, <1>3 DEF NegInv, Aligned, Starts
  <1>4. CASE Sample(i[t], 0) \in ValMin(t)..ValMin(t + 1) - 1
    <2>1. Put(t, i[t], 0)
      BY <1>4
    <2>2. WholeSamples => \A b \in {i[t], i[t] + SampleSize - 1} : InSlice(t, b)
      <3> SUFFICES ASSUME WholeSamples PROVE \A b \in {i[t], i[t] + SampleSize - 1} : InSlice(t, b)
        OBVIOUS
      <3>1. InSlice(t, i[t])
        BY <1>1, <1>3, <1>4, WholeValue
      <3> QED
        BY <1>1, <1>3, <3>1, WholeValue
    <2>3. 0 \in Int /\ method # "blk"
      BY <1>1
    <2>4. UNCHANGED <<img, method, threads, base>> /\ i' = [i EXCEPT ![t] = @ + SampleSize]
      OBVIOUS
    <2> HIDE DEF ValStep
    <2> QED
      BY <1>2, <2>1, <2>2, <2>3, <2>4, Stores
  <1>5. CASE Sample(i[t], 0) \notin ValMin(t)..ValMin(t + 1) - 1
    <2>1. UNCHANGED <<out, writers>>
      BY <1>5
    <2>2. /\ base' \in [Thread' -> Nat] /\ i' \in [Thread' -> Nat] /\ Rows'
          /\ WholeSamples => Aligned' /\ WithinRow'
          /\ WholeSamples => \A u \in Thread : \A k \in Starts :
               k < i'[u] => k < i[u] \/ (u = t /\ k = i[t])
      BY <1>1, Moves
    <2>3. /\ Bytes' = Bytes /\ Starts' = Starts /\ Thread' = Thread /\ SampleSize' = SampleSize
          /\ WholeSamples' <=> WholeSamples
          /\ \A u, b : InSlice(u, b)' <=> InSlice(u, b)
      BY Frame
    <2>4. TypeOK'
      BY <1>1, <2>1, <2>2, <2>3 DEF TypeOK
    <2>5. ASSUME WholeSamples PROVE OwnSlice'
      BY <2>1, <2>3, <2>5 DEF NegInv, OwnSlice
    <2>6. ASSUME WholeSamples PROVE Behind'
      <3>1. ~InSlice(t, i[t])
        BY <1>1, <1>3, <1>5, <2>6, WholeValue
      <3>2. ASSUME NEW u \in Thread, NEW k \in Starts, k < i'[u], InSlice(u, k)
            PROVE  Inverted(k)'
        <4>1. k < i[u]
          BY <2>2, <2>6, <3>1, <3>2
        <4>2. Inverted(k)
          BY <2>6, <3>2, <4>1 DEF NegInv, Behind
        <4> QED
          BY <2>1, <2>3, <4>2 DEF Inverted
      <3> QED
        BY <2>3, <3>2 DEF Behind
    <2> QED
      BY <2>2, <2>3, <2>4, <2>5, <2>6 DEF NegInv
  <1> QED
    BY <1>4, <1>5

LEMMA NegBlk ==
  ASSUME NegInv, NEW t \in Thread, BlkStep(t)
  PROVE  NegInv'
  <1> USE DEF BlkStep
  <1>1. /\ TypeOK /\ SampleSize \in {1, 2} /\ Length \in Nat /\ Bytes = 0..Length - 1
        /\ i[t] \in Nat /\ base[t] \in Nat /\ method = "blk"
    BY ImageFacts DEF NegInv, TypeOK
  <1>2. /\ img.width \in Nat /\ Offs(t) \in Nat /\ RowLen(t) \in Nat
        /\ Offs(t + 1) = Offs(t) + RowLen(t)
    BY <1>1, SliceCuts
  <1>3. i[t] \in Bytes
    BY <1>1, <1>2 DEF RowFits
  <1>4. ASSUME WholeSamples
        PROVE  /\ i[t] + SampleSize <= base[t] + RowLen(t)
               /\ \A b \in {i[t], i[t] + SampleSize - 1} : InSlice(t, b)
    <2>1. i[t] + SampleSize <= base[t] + RowLen(t)
      <3>1. CASE SampleSize = 1
        BY <1>1, <1>2, <3>1
      <3>2. CASE SampleSize = 2
        <4>1. i[t] % 2 = 0 /\ base[t] % 2 = 0 /\ RowLen(t) % 2 = 0
          <5>1. RowLen(t) % SampleSize = 0
            BY <1>1, <1>4, WholeRows
          <5>2. i[t] % SampleSize = 0 /\ base[t] % SampleSize = 0
            BY <1>4 DEF NegInv, Aligned
          <5> HIDE DEF BlkStep
          <5>3. RowLen(t) % 2 = 0
            BY <3>2, <5>1
          <5>4. i[t] % 2 = 0 /\ base[t] % 2 = 0
            BY <3>2, <5>2
          <5> QED
            BY <5>3, <5>4
        <4> HIDE DEF BlkStep
        <4>2. (base[t] + RowLen(t)) % 2 = 0 /\ base[t] + RowLen(t) \in Nat
          BY <1>1, <1>2, <4>1, Even
        <4>3. i[t] < base[t] + RowLen(t)
          BY DEF BlkStep
        <4> QED
          BY <1>1, <3>2, <4>1, <4>2, <4>3, Even
      <3> QED
        BY <1>1, <3>1, <3>2
    <2>2. PICK r \in Nat : base[t] = r * img.width + Offs(t)
      BY <1>1 DEF NegInv, Rows
    <2>3. r * img.width \in Nat
      BY <1>2, ProductGrows
    <2>4. base[t] <= i[t]
      BY <1>1, <1>4 DEF NegInv, WithinRow
    <2>5. ASSUME NEW b \in {i[t], i[t] + SampleSize - 1} PROVE InSlice(t, b)
      <3>1. b \in Int /\ i[t] <= b /\ b < i[t] + SampleSize
        BY <1>1, <2>5
      <3>2. r * img.width + Offs(t) <= b /\ b < r * img.width + Offs(t + 1)
        <4> DEFINE m == r * img.width
        <4>1. m \in Nat /\ base[t] = m + Offs(t)
          BY <2>2, <2>3
        <4> HIDE DEF m, BlkStep
        <4>2. m + Offs(t) <= b /\ b < m + Offs(t + 1)
          BY <1>1, <1>2, <2>1, <2>4, <3>1, <4>1
        <4> QED
          BY <4>2 DEF m
      <3> QED
        BY <1>1, <3>2 DEF InSlice
    <2> QED
      BY <2>1, <2>5
  <1>5. PICK past \in Int : Put(t, i[t], past)
    <2>1. PICK p0 \in {0, 255} : Put(t, i[t], p0)
      OBVIOUS
    <2> QED
      BY <2>1
  <1>6. i[t] \in Bytes /\ t \in Thread
    BY <1>3
  <1>7. UNCHANGED <<img, method, threads, base>> /\ i' = [i EXCEPT ![t] = @ + SampleSize]
    OBVIOUS
  <1>8. WholeSamples => /\ method = "blk" => i[t] + SampleSize <= base[t] + RowLen(t)
                        /\ \A b \in {i[t], i[t] + SampleSize - 1} : InSlice(t, b)
    BY <1>4
  <1> HIDE DEF BlkStep
  <1> QED
    <2>1. NegInv'
      BY <1>3, <1>5, <1>6, <1>7, <1>8, Stores
    <2> QED
      BY <2>1

\* Between the end of the slice in row a and row a + 1 there is nothing of
\* the slice.
LEMMA BetweenRows ==
  ASSUME NEW w \in Nat, NEW a \in Nat, NEW r \in Nat, NEW o \in Nat, NEW e \in Nat, NEW k \in Nat,
         r * w + o <= k, k < r * w + e, k < a * w + w + o, o <= e
  PROVE  k < a * w + e
  <1>1. a < r => a * w + w <= r * w
    BY NextRowBegins
  <1>2. r <= a => r * w <= a * w
    <2>1. r <= a => w * r <= w * a
      BY ProductGrows
    <2>2. w * r = r * w /\ w * a = a * w
      OBVIOUS
    <2> QED
      BY <2>1, <2>2
  <1>3. a * w \in Nat /\ r * w \in Nat
    OBVIOUS
  <1> DEFINE x == a * w
             y == r * w
  <1>4. /\ x \in Nat /\ y \in Nat /\ (a < r => x + w <= y) /\ (r <= a => y <= x)
        /\ y + o <= k /\ k < y + e /\ k < x + w + o
    BY <1>1, <1>2, <1>3
  <1> HIDE DEF x, y
  <1>5. k < x + e
    BY <1>4
  <1> QED
    BY <1>5 DEF x

LEMMA NegRow ==
  ASSUME NegInv, NEW t \in Thread, NextRow(t)
  PROVE  NegInv'
  <1> USE DEF NextRow
  <1>1. /\ TypeOK /\ Rows /\ method = "blk"
        /\ base \in [Thread -> Nat] /\ i \in [Thread -> Nat]
    BY DEF NegInv, TypeOK
  <1>2. /\ Bytes' = Bytes /\ Starts' = Starts /\ Thread' = Thread /\ SampleSize' = SampleSize
        /\ WholeSamples' <=> WholeSamples
        /\ \A u : RowLen(u)' = RowLen(u) /\ Offs(u)' = Offs(u)
        /\ \A u, b : InSlice(u, b)' <=> InSlice(u, b)
    BY Frame
  <1>3. /\ img.width \in Nat /\ SampleSize \in {1, 2}
        /\ \A u \in Thread : /\ Offs(u) \in Nat /\ RowLen(u) \in Nat
                             /\ Offs(u + 1) = Offs(u) + RowLen(u)
    BY <1>1, ImageFacts, SliceCuts DEF TypeOK
  <1>4. /\ base' = [base EXCEPT ![t] = base[t] + img.width]
        /\ i' = [i EXCEPT ![t] = base[t] + img.width]
        /\ UNCHANGED <<img, method, threads, out, writers>>
    OBVIOUS
  <1> HIDE DEF NextRow
  <1>5. /\ base' \in [Thread -> Nat] /\ i' \in [Thread -> Nat]
        /\ base'[t] = base[t] + img.width /\ i'[t] = base[t] + img.width
        /\ \A u \in Thread : u # t => base'[u] = base[u] /\ i'[u] = i[u]
    BY <1>1, <1>3, <1>4
  <1>6. TypeOK'
    BY <1>1, <1>2, <1>4, <1>5 DEF TypeOK
  <1>7. PICK a \in Nat : base[t] = a * img.width + Offs(t)
    BY <1>1 DEF Rows
  <1>8. Rows'
    <2>1. ASSUME NEW u \in Thread PROVE \E r \in Nat : base'[u] = r * img.width + Offs(u)
      <3>1. CASE u = t
        <4>1. a + 1 \in Nat /\ (a + 1) * img.width = a * img.width + img.width
              /\ a * img.width \in Nat
          BY <1>3
        <4>2. base'[u] = (a + 1) * img.width + Offs(u)
          BY <1>3, <1>5, <1>7, <3>1, <4>1
        <4> QED
          BY <4>1, <4>2
      <3>2. CASE u # t
        BY <1>1, <1>5, <3>2 DEF Rows
      <3> QED
        BY <3>1, <3>2
    <2> QED
      BY <1>2, <1>4, <2>1 DEF Rows
  <1>9. ASSUME WholeSamples PROVE Aligned'
    <2>1. (base[t] + img.width) % SampleSize = 0
      <3>1. img.width % SampleSize = 0 /\ base[t] % SampleSize = 0 /\ base[t] \in Nat
        BY <1>1, <1>9, WholeRows DEF NegInv, Aligned
      <3>2. CASE SampleSize = 1
        <4>1. (base[t] + img.width) % 1 = 0
          BY <1>3, <3>1
        <4> QED
          BY <3>2, <4>1
      <3>3. CASE SampleSize = 2
        BY <1>3, <3>1, <3>3, Even
      <3> QED
        BY <1>3, <3>2, <3>3
    <2>2. \A u \in Thread : i'[u] % SampleSize = 0 /\ base'[u] % SampleSize = 0
      BY <1>5, <1>9, <2>1 DEF NegInv, Aligned
    <2> QED
      BY <1>2, <2>2 DEF Aligned
  <1>10. ASSUME WholeSamples PROVE WithinRow'
    <2>1. ASSUME NEW u \in Thread PROVE base'[u] <= i'[u] /\ i'[u] <= base'[u] + RowLen(u)
      <3>1. CASE u = t
        BY <1>1, <1>3, <1>5, <3>1
      <3>2. CASE u # t
        BY <1>1, <1>5, <1>10, <3>2 DEF NegInv, WithinRow
      <3> QED
        BY <3>1, <3>2
    <2> QED
      BY <1>2, <2>1 DEF WithinRow
  <1>11. ASSUME WholeSamples PROVE OwnSlice'
    BY <1>2, <1>4, <1>11 DEF NegInv, OwnSlice
  <1>12. ASSUME WholeSamples PROVE Behind'
    <2>1. \A k : Inverted(k)' <=> Inverted(k)
      BY <1>2, <1>4 DEF Inverted
    <2>2. ASSUME NEW u \in Thread, NEW k \in Starts, k < i'[u], InSlice(u, k)
          PROVE  k < i[u]
      <3>1. CASE u # t
        BY <1>5, <2>2, <3>1
      <3>2. CASE u = t
        <4>1. k \in Nat /\ k < a * img.width + Offs(t) + img.width
          BY <1>1, <1>5, <1>7, <2>2, <3>2, ImageFacts DEF TypeOK, Starts
        <4>2. PICK r \in Nat : r * img.width + Offs(t) <= k /\ k < r * img.width + Offs(t + 1)
          BY <1>1, <2>2, <3>2 DEF InSlice
        <4>3. Offs(t) \in Nat /\ Offs(t + 1) \in Nat /\ Offs(t) <= Offs(t + 1)
          BY <1>3
        <4>4. k < a * img.width + img.width + Offs(t) /\ a * img.width \in Nat
          BY <1>3, <4>1, <4>3, ProductGrows
        <4>5. k < a * img.width + Offs(t + 1)
          BY <1>3, <4>1, <4>2, <4>3, <4>4, BetweenRows
        <4>6. i[t] >= base[t] + RowLen(t)
          BY DEF NextRow
        <4> DEFINE m == a * img.width
        <4>7. m \in Nat /\ base[t] = m + Offs(t) /\ k < m + Offs(t + 1)
          BY <1>7, <4>4, <4>5
        <4> HIDE DEF m
        <4> QED
          BY <1>1, <1>3, <3>2, <4>1, <4>6, <4>7
      <3> QED
        BY <3>1, <3>2
    <2> QED
      BY <1>2, <1>12, <2>1, <2>2 DEF NegInv, Behind
  <1> QED
    BY <1>2, <1>6, <1>8, <1>9, <1>10, <1>11, <1>12 DEF NegInv

LEMMA NegStep ==
  ASSUME NegInv, [Next]_vars
  PROVE  NegInv'
  <1>1. ASSUME NEW t \in Thread, ValStep(t) PROVE NegInv'
    BY <1>1, NegVal
  <1>2. ASSUME NEW t \in Thread, BlkStep(t) PROVE NegInv'
    BY <1>2, NegBlk
  <1>3. ASSUME NEW t \in Thread, NextRow(t) PROVE NegInv'
    BY <1>3, NegRow
  <1>4. CASE UNCHANGED vars
    <2>1. /\ Bytes' = Bytes /\ Starts' = Starts /\ Thread' = Thread /\ SampleSize' = SampleSize
          /\ WholeSamples' <=> WholeSamples
          /\ \A u : RowLen(u)' = RowLen(u) /\ Offs(u)' = Offs(u)
          /\ \A u, b : InSlice(u, b)' <=> InSlice(u, b)
      BY <1>4, Frame DEF vars
    <2>2. \A k : Inverted(k)' <=> Inverted(k)
      BY <1>4, <2>1 DEF vars, Inverted
    <2>3. (TypeOK' <=> TypeOK) /\ (Rows' <=> Rows) /\ (Aligned' <=> Aligned)
      BY <1>4, <2>1 DEF vars, TypeOK, Rows, Aligned
    <2>4. (WithinRow' <=> WithinRow) /\ (OwnSlice' <=> OwnSlice)
      BY <1>4, <2>1 DEF vars, WithinRow, OwnSlice
    <2>5. Behind' <=> Behind
      BY <1>4, <2>1, <2>2 DEF vars, Behind
    <2> QED
      BY <2>1, <2>3, <2>4, <2>5 DEF NegInv
  <1> QED
    BY <1>1, <1>2, <1>3, <1>4 DEF Next

LEMMA AtMostOne ==
  ASSUME NEW S, \A a, b \in S : a = b
  PROVE  Cardinality(S) <= 1
  <1>1. CASE S = {}
    BY <1>1, FS_EmptySet
  <1>2. CASE S # {}
    <2>1. PICK a : S = {a}
      BY <1>2
    <2> QED
      BY <2>1, FS_Singleton
  <1> QED
    BY <1>1, <1>2

\* A thread that has gone through the rows that fit has passed its slice.
LEMMA AllRows ==
  ASSUME NEW w \in Nat, NEW h \in Nat, NEW a \in Nat, NEW r \in Nat, NEW o \in Nat, NEW e \in Nat,
         NEW k \in Nat, NEW z \in Nat, o <= e, e <= w,
         r * w + o <= k, k < r * w + e, k < h * w, h * w < a * w + e, a * w + o <= z
  PROVE  k < z
  <1>1. ASSUME r < a PROVE k < z
    <2>1. r * w + w <= a * w
      BY <1>1, NextRowBegins
    <2> DEFINE x == a * w
               y == r * w
    <2>2. x \in Nat /\ y \in Nat /\ y + w <= x /\ k < y + e /\ x + o <= z
      BY <2>1
    <2> HIDE DEF x, y
    <2> QED
      BY <2>2
  <1>2. ASSUME a <= r PROVE FALSE
    <2>1. r < h
      <3> SUFFICES ASSUME h <= r PROVE FALSE
        OBVIOUS
      <3>1. w * h <= w * r /\ w * h = h * w /\ w * r = r * w
        BY ProductGrows
      <3> DEFINE x == h * w
                 y == r * w
      <3>2. x \in Nat /\ y \in Nat /\ x <= y /\ y + o <= k /\ k < x
        BY <3>1
      <3> HIDE DEF x, y
      <3> QED
        BY <3>2
    <2>2. r * w + w <= h * w
      BY <2>1, NextRowBegins
    <2>3. w * a <= w * r /\ w * a = a * w /\ w * r = r * w
      BY <1>2, ProductGrows
    <2> DEFINE x == h * w
               y == r * w
               v == a * w
    <2>4. x \in Nat /\ y \in Nat /\ v \in Nat /\ y + w <= x /\ v <= y /\ x < v + e
      BY <2>2, <2>3
    <2> HIDE DEF x, y, v
    <2> QED
      BY <2>4
  <1> QED
    BY <1>1, <1>2

\* The image has a number of rows.
LEMMA Heights ==
  ASSUME NEW l \in Nat, NEW w \in Nat, NEW m \in Nat, Multiple(l, w * m)
  PROVE  \E h \in Nat : l = h * w
  <1>1. PICK q \in Nat : l = q * (w * m)
    BY DEF Multiple
  <1>2. l = (q * m) * w /\ q * m \in Nat
    BY <1>1
  <1> QED
    BY <1>2

LEMMA NegMade ==
  ASSUME NegInv
  PROVE  OneWriter /\ Negated
  <1>1. /\ TypeOK /\ Rows /\ SampleSize \in {1, 2} /\ Length \in Nat /\ Bytes = 0..Length - 1
        /\ img.width \in Nat
        /\ base \in [Thread -> Nat] /\ i \in [Thread -> Nat]
    BY ImageFacts DEF NegInv, TypeOK
  <1>2. OneWriter
    <2> SUFFICES ASSUME WholeSamples, NEW b \in Bytes
                 PROVE  Cardinality(writers[b]) <= 1
      BY DEF OneWriter
    <2>1. writers[b] \subseteq Thread /\ \A t \in writers[b] : InSlice(t, b)
      BY <1>1 DEF NegInv, OwnSlice, TypeOK
    <2>2. \A t, u \in writers[b] : t = u
      BY <1>1, <2>1, OneSlice
    <2> QED
      BY <2>2, AtMostOne
  <1>3. ASSUME WholeSamples, \A t \in Thread : Done(t), NEW k \in Starts
        PROVE  Inverted(k)
    <2>0. TypeOK
      BY <1>1
    <2>1. PICK t \in Thread : InSlice(t, k)
      BY <2>0, SomeSlice
    <2>2. k \in Nat /\ k < Length /\ k + SampleSize - 1 \in Bytes
      <3>1. img \in Images /\ threads \in 1..MaxThreads
        BY <2>0 DEF TypeOK
      <3>2. k \in Bytes
        BY DEF Starts
      <3>3. k + SampleSize - 1 \in Bytes
        BY <3>1, ImageFacts
      <3> QED
        BY <1>1, <3>2, <3>3
    <2>3. k < i[t]
      <3>1. CASE method = "num"
        <4>1. i[t] + SampleSize > Length
          BY <1>3, <3>1 DEF Done
        <4>2. k + SampleSize <= Length
          BY <1>1, <2>2
        <4> QED
          BY <1>1, <2>2, <4>1, <4>2
      <3>2. CASE method # "num"
        <4>0. method = "blk"
          BY <1>1, <3>2 DEF TypeOK
        <4>1. PICK r \in Nat : r * img.width + Offs(t) <= k /\ k < r * img.width + Offs(t + 1)
          BY <2>1, <3>2 DEF InSlice
        <4>2. PICK a \in Nat : base[t] = a * img.width + Offs(t)
          BY <1>1, <4>0 DEF Rows
        <4>3. PICK h \in Nat : Length = h * img.width
          <5>1. Multiple(Length, img.width * SampleSize)
            BY <1>1, ImageFacts DEF TypeOK
          <5> QED
            BY <1>1, <5>1, Heights
        <4>4. /\ Offs(t) \in Nat /\ RowLen(t) \in Nat
              /\ Offs(t + 1) = Offs(t) + RowLen(t) /\ Offs(t + 1) <= img.width
          BY <1>1, SliceCuts
        <4>5. Offs(t + 1) \in Nat /\ Offs(t) <= Offs(t + 1)
          BY <4>4
        <4>6. i[t] \in Nat /\ base[t] \in Nat /\ base[t] <= i[t]
          <5>1. WithinRow
            BY <1>3 DEF NegInv
          <5>2. base[t] <= i[t]
            BY <4>0, <5>1 DEF WithinRow
          <5> QED
            BY <1>1, <5>2
        <4>7. base[t] + RowLen(t) > Length
          <5>1. ~(base[t] + RowLen(t) <= Length)
            BY <1>3, <3>2 DEF Done, RowFits
          <5> QED
            BY <1>1, <4>4, <4>6, <5>1
        <4>8. a * img.width + Offs(t) <= i[t]
          BY <4>2, <4>6
        <4>9. h * img.width < a * img.width + Offs(t + 1)
          <5> DEFINE m == a * img.width
          <5>1. m \in Nat /\ base[t] = m + Offs(t)
            BY <1>1, <4>2, ProductGrows
          <5> HIDE DEF m
          <5>2. Length < m + Offs(t + 1)
            BY <1>1, <4>4, <4>6, <4>7, <5>1
          <5> QED
            BY <4>3, <5>2 DEF m
        <4>10. k < h * img.width
          BY <2>2, <4>3
        <4> QED
          BY <1>1, <2>2, <4>1, <4>4, <4>5, <4>6, <4>8, <4>9, <4>10, AllRows
      <3> QED
        BY <3>1, <3>2
    <2> QED
      BY <1>3, <2>1, <2>3 DEF NegInv, Behind
  <1>4. Negated
    BY <1>3 DEF Negated, Inverted, Starts
  <1> QED
    BY <1>2, <1>4

-----------------------------------------------------------------------------
(***************************************************************************)
(* lab3/zad3: the search of a tree.                                        *)
(***************************************************************************)
\* What the directories in S hold of the directories in D, and S.
Below(D, S) == S \cup {e \in D : \E d \in S : e \in Tree!Range(Entries[d])}
\* f counts the levels from the root as far as m.
Levels(D, f, m) == f = [k \in 1..m |-> IF k = 1 THEN {Root} ELSE Below(D, f[k - 1])]

LEMMA LevelsExist ==
  ASSUME NEW D, NEW m \in Nat
  PROVE  \E f : Levels(D, f, m)
  <1> DEFINE Without == {l \in Nat : ~\E f : Levels(D, f, l)}
  <1> SUFFICES ASSUME m \in Without PROVE FALSE
    OBVIOUS
  <1>1. PICK l \in Without : \A x \in Without : l <= x
    <2>1. Without \subseteq Nat /\ Without # {}
      OBVIOUS
    <2> HIDE DEF Without
    <2> QED
      BY <2>1, Least
  <1>2. l # 0
    <2>1. Levels(D, [k \in 1..0 |-> {}], 0)
      BY DEF Levels
    <2> QED
      BY <1>1, <2>1
  <1>3. l \in Nat /\ l - 1 \in Nat /\ l - 1 \notin Without
    BY <1>1, <1>2
  <1>4. PICK f : Levels(D, f, l - 1)
    BY <1>3
  <1> DEFINE F(k) == IF k = 1 THEN {Root} ELSE Below(D, f[k - 1])
             g == [k \in 1..l |-> F(k)]
  <1>5. \A k \in 1..l - 1 : f[k] = F(k)
    BY <1>3, <1>4 DEF Levels
  <1>6. \A k \in 1..l : k # 1 => k - 1 \in 1..l /\ k - 1 \in 1..l - 1 /\ g[k - 1] = f[k - 1]
    <2>1. \A k \in 1..l : k # 1 => k - 1 \in 1..l /\ k - 1 \in 1..l - 1
      <3> HIDE DEF g, F, Without
      <3> QED
        BY <1>3
    <2>2. \A k \in 1..l : k # 1 => g[k - 1] = F(k - 1) /\ F(k - 1) = f[k - 1]
      <3> HIDE DEF F, Without
      <3> QED
        BY <1>5, <2>1 DEF g
    <2> QED
      BY <2>1, <2>2
  <1>7. g = [k \in 1..l |-> IF k = 1 THEN {Root} ELSE Below(D, g[k - 1])]
    <2> HIDE DEF g
    <2>1. \A k \in 1..l : F(k) = IF k = 1 THEN {Root} ELSE Below(D, g[k - 1])
      BY <1>6
    <2> QED
      BY <2>1 DEF g
  <1>8. Levels(D, g, l)
    BY <1>7 DEF Levels
  <1> QED
    BY <1>1, <1>8

LEMMA ReachIs ==
  \A k \in 1..MaxDepth :
     Tree!Reach[k] = IF k = 1 THEN {Root} ELSE Below(Tree!Dir, Tree!Reach[k - 1])
  <1>1. PICK f : Levels(Tree!Dir, f, MaxDepth)
    BY LevelsExist, BoundsAssumption
  <1>2. Tree!Reach = CHOOSE h : Levels(Tree!Dir, h, MaxDepth)
    BY DEF Tree!Reach, Below, Levels
  <1>3. Levels(Tree!Dir, Tree!Reach, MaxDepth)
    BY <1>1, <1>2
  <1>4. Tree!Reach = [k \in 1..MaxDepth |-> IF k = 1 THEN {Root} ELSE Below(Tree!Dir, Tree!Reach[k - 1])]
    BY <1>3 DEF Levels
  <1> QED
    BY <1>4

LEMMA VisibleIs ==
  \A k \in 1..MaxDepth :
     Tree!Visible[k] = IF k = 1 THEN {Root} ELSE Below(Tree!Dir \ missed, Tree!Visible[k - 1])
  <1>1. PICK f : Levels(Tree!Dir \ missed, f, MaxDepth)
    BY LevelsExist, BoundsAssumption
  <1>2. Tree!Visible = CHOOSE h : Levels(Tree!Dir \ missed, h, MaxDepth)
    BY DEF Tree!Visible, Below, Levels
  <1>3. Levels(Tree!Dir \ missed, Tree!Visible, MaxDepth)
    BY <1>1, <1>2
  <1>4. Tree!Visible = [k \in 1..MaxDepth |-> IF k = 1 THEN {Root} ELSE Below(Tree!Dir \ missed, Tree!Visible[k - 1])]
    BY <1>3 DEF Levels
  <1> QED
    BY <1>4

-----------------------------------------------------------------------------
Item(d, k) == Entries[d][k]
Items(d) == 1..Len(Entries[d])
\* The indices of the entries that have been seen.
Passed(d) == 1..next[d] - 1
Listed(q) == {q[k] : k \in DOMAIN q}

\* Everything that a directory holds.
Listing == UNION {Tree!Range(Entries[d]) : d \in Tree!Dir}

WalkTypes ==
  /\ depth \in 1..MaxDepth /\ tty \in BOOLEAN
  /\ state \in [Tree!Dir -> {"none", "walk", "giveup", "wait", "ok", "failed", "reaped"}]
  /\ next \in [Tree!Dir -> Nat] /\ \A d \in Tree!Dir : next[d] \in 1..Len(Entries[d]) + 1
  /\ level \in [Tree!Dir -> Nat] /\ \A d \in Tree!Dir : level[d] \in 1..depth
  /\ children \in [Tree!Dir -> SUBSET Tree!Dir] /\ bad \in [Tree!Dir -> BOOLEAN]
  /\ buffer \in [Tree!Dir -> Seq(Matching)] /\ printed \in Seq(Matching)
  /\ missed \subseteq Listing

\* The process of d has ended, has seen every entry, and none of its children
\* failed.
Complete(d) ==
  /\ state[d] \in {"ok", "failed", "reaped"}
  /\ next[d] > Len(Entries[d]) /\ children[d] = {} /\ ~bad[d] /\ buffer[d] = <<>>

\* By its state: what a process has done.
Phases ==
  \A d \in Tree!Dir :
    /\ state[d] = "none" => next[d] = 1 /\ children[d] = {} /\ ~bad[d] /\ buffer[d] = <<>>
    /\ state[d] = "wait" => next[d] > Len(Entries[d])
    /\ state[d] = "giveup" => bad[d]
    /\ state[d] = "ok" => Complete(d)

\* A process is started from the entry it stands for, one level below, unless
\* lstat missed it.
Descent ==
  /\ state[Root] # "none" /\ level[Root] = depth
  /\ \A d \in Tree!Dir : state[d] # "none" => d \in Tree!Reach[depth - level[d] + 1]
  /\ \A d \in Tree!Dir : \A k \in Items(d) : Item(d, k) \in Tree!Dir =>
       IF k \in Passed(d)
       THEN level[d] > 1 /\ Item(d, k) \notin missed =>
              state[Item(d, k)] # "none" /\ level[Item(d, k)] = level[d] - 1
       ELSE state[Item(d, k)] = "none"

Family ==
  \A d \in Tree!Dir : \A c \in children[d] :
    /\ state[c] \notin {"none", "reaped"}
    /\ \E k \in Passed(d) : c = Item(d, k)

\* What a process has passed is printed or in its buffer; a subdirectory is
\* searched or being searched, unless the process knows of a failure - or the
\* entry was missed.
Seen(d) ==
  \A k \in Passed(d) : Item(d, k) \notin missed =>
    /\ Item(d, k) \in Matching => Item(d, k) \in Listed(printed) \cup Listed(buffer[d])
    /\ Item(d, k) \in Tree!Dir /\ level[d] > 1 =>
         \/ Item(d, k) \in children[d]
         \/ state[Item(d, k)] = "reaped" /\ (bad[d] \/ Complete(Item(d, k)))
Thorough ==
  \A d \in Tree!Dir : state[d] \in {"walk", "giveup", "wait"} \/ Complete(d) => Seen(d)

Rightful ==
  /\ Listed(printed) \subseteq Tree!Expected
  /\ \A d \in Tree!Dir : Listed(buffer[d]) \subseteq Tree!Expected

\* On a terminal a line is printed when it is passed.
Once ==
  tty => /\ \A d \in Tree!Dir : buffer[d] = <<>>
         /\ \A x \in DOMAIN printed : \E d \in Tree!Dir : \E k \in Passed(d) : printed[x] = Item(d, k)
         /\ \A x, y \in DOMAIN printed : printed[x] = printed[y] => x = y

TreeInv == WalkTypes /\ Phases /\ Descent /\ Family /\ Thorough /\ Rightful /\ Once

LEMMA TreeFacts ==
  /\ Root \in Tree!Dir /\ Matching \cap Tree!Dir = {}
  /\ \A d \in Tree!Dir : Len(Entries[d]) \in Nat
  /\ \A d, e \in Tree!Dir : \A k \in Items(d), l \in Items(e) :
       Item(d, k) = Item(e, l) => d = e /\ k = l
  /\ \A d \in Tree!Dir : \A k \in Items(d) : Item(d, k) # Root
  /\ \A d \in Tree!Dir : Tree!Range(Entries[d]) = {Item(d, k) : k \in Items(d)}
  <1>1. Tree!Dir = DOMAIN Entries
    BY DEF Tree!Dir
  <1>2. \A d \in Tree!Dir : Len(Entries[d]) \in Nat /\ DOMAIN Entries[d] = Items(d)
    BY <1>1, TreeAssumption DEF Items
  <1>3. \A d, e \in Tree!Dir : \A k \in Items(d), l \in Items(e) :
          Item(d, k) = Item(e, l) => d = e /\ k = l
    BY <1>1, TreeAssumption DEF Items, Item
  <1>4. \A d \in Tree!Dir : \A k \in Items(d) : Item(d, k) # Root
    BY <1>1, TreeAssumption DEF Items, Item
  <1>5. \A d \in Tree!Dir : Tree!Range(Entries[d]) = {Item(d, k) : k \in Items(d)}
    BY <1>2 DEF Item, Tree!Range
  <1> QED
    BY <1>1, <1>2, <1>3, <1>4, <1>5, TreeAssumption

LEMMA TreeStarts == Tree!Init => TreeInv
  <1> SUFFICES ASSUME Tree!Init PROVE TreeInv
    OBVIOUS
  <1>0. /\ depth \in 1..MaxDepth /\ depth \in Nat \ {0} /\ tty \in BOOLEAN /\ Root \in Tree!Dir
        /\ \A d \in Tree!Dir : /\ state[d] = (IF d = Root THEN "walk" ELSE "none")
                               /\ next[d] = 1 /\ level[d] = depth /\ children[d] = {}
                               /\ bad[d] = FALSE /\ buffer[d] = <<>>
        /\ printed = <<>>
    BY TreeFacts, BoundsAssumption DEF Tree!Init
  <1>1. WalkTypes
    BY <1>0, TreeFacts, BoundsAssumption DEF Tree!Init, WalkTypes
  <1>2. Phases
    BY <1>0 DEF Phases
  <1>3. Descent
    <2>1. Tree!Reach[depth - level[Root] + 1] = {Root}
      <3>1. depth - level[Root] + 1 = 1 /\ 1 \in 1..MaxDepth
        BY <1>0, BoundsAssumption
      <3> QED
        BY <3>1, ReachIs
    <2>2. \A d \in Tree!Dir : \A k \in Items(d) : Item(d, k) # Root /\ k \notin Passed(d)
      BY <1>0, TreeFacts DEF Passed
    <2> QED
      BY <1>0, <2>1, <2>2 DEF Descent
  <1>4. Family
    BY <1>0 DEF Family
  <1>5. Thorough
    BY <1>0 DEF Thorough, Seen, Passed
  <1>6. Rightful /\ Once
    BY <1>0 DEF Rightful, Once, Listed
  <1> QED
    BY <1>1, <1>2, <1>3, <1>4, <1>5, <1>6 DEF TreeInv

\* When the root has ended well, every directory of the search that was
\* not missed has.
LEMMA AllComplete ==
  ASSUME TreeInv, state[Root] = "ok"
  PROVE  \A d \in Tree!Visible[depth] : d \in Tree!Dir /\ Complete(d)
  <1>0. /\ depth \in 1..MaxDepth /\ depth \in Nat /\ MaxDepth \in Nat /\ Root \in Tree!Dir
        /\ \A d \in Tree!Dir : next[d] \in Nat /\ level[d] \in Nat
    BY TreeFacts, BoundsAssumption DEF TreeInv, WalkTypes
  <1> DEFINE Fine(l) == \A d \in Tree!Visible[l] :
                          d \in Tree!Dir /\ Complete(d) /\ level[d] >= depth - l + 1
             Wrong == {l \in 1..depth : ~Fine(l)}
  <1>1. Fine(1)
    <2>1. Tree!Visible[1] = {Root}
      BY <1>0, VisibleIs
    <2>2. Complete(Root) /\ level[Root] = depth
      BY <1>0 DEF TreeInv, Phases, Descent
    <2> QED
      BY <1>0, <2>1, <2>2
  <1>2. ASSUME NEW l \in 1..depth, l + 1 <= depth, Fine(l) PROVE Fine(l + 1)
    <2>1. Tree!Visible[l + 1] = Below(Tree!Dir \ missed, Tree!Visible[l])
      <3>1. l + 1 \in 1..MaxDepth /\ l + 1 # 1 /\ (l + 1) - 1 = l
        BY <1>0, <1>2
      <3> QED
        BY <3>1, VisibleIs
    <2>2. ASSUME NEW e \in Tree!Visible[l + 1]
          PROVE  e \in Tree!Dir /\ Complete(e) /\ level[e] >= depth - (l + 1) + 1
      <3>1. CASE e \in Tree!Visible[l]
        BY <1>0, <1>2, <3>1
      <3>2. CASE e \notin Tree!Visible[l]
        <4>1. e \in Tree!Dir \ missed /\ \E d \in Tree!Visible[l] : e \in Tree!Range(Entries[d])
          BY <2>1, <3>2 DEF Below
        <4>2. PICK d \in Tree!Visible[l] : e \in Tree!Range(Entries[d])
          BY <4>1
        <4>3. d \in Tree!Dir /\ Complete(d) /\ level[d] >= depth - l + 1
          BY <1>2
        <4>4. PICK k \in Items(d) : e = Item(d, k)
          <5>1. Tree!Range(Entries[d]) = {Item(d, k) : k \in Items(d)}
            BY <4>3, TreeFacts
          <5> QED
            BY <4>2, <5>1
        <4>5. k \in Passed(d)
          BY <1>0, <4>3, TreeFacts DEF Complete, Items, Passed
        <4>6. level[d] > 1
          BY <1>0, <1>2, <4>3
        <4>7. Seen(d)
          BY <4>3 DEF TreeInv, Thorough
        <4>8. Complete(e)
          BY <4>1, <4>3, <4>4, <4>5, <4>6, <4>7 DEF Seen, Complete
        <4>9. level[e] = level[d] - 1
          BY <4>1, <4>3, <4>4, <4>5, <4>6 DEF TreeInv, Descent
        <4> QED
          BY <1>0, <1>2, <4>1, <4>3, <4>8, <4>9
      <3> QED
        BY <3>1, <3>2
    <2> QED
      BY <2>2
  <1>3. Wrong = {}
    <2> SUFFICES ASSUME Wrong # {} PROVE FALSE
      OBVIOUS
    <2>1. PICK m \in Wrong : \A l \in Wrong : m <= l
      <3>1. Wrong \subseteq Nat
        BY <1>0
      <3> HIDE DEF Wrong
      <3> QED
        BY <3>1, Least
    <2>2. m \in 1..depth /\ ~Fine(m)
      OBVIOUS
    <2> HIDE DEF Fine
    <2>3. m # 1
      BY <1>1, <2>2
    <2>4. m - 1 \in 1..depth /\ (m - 1) + 1 = m /\ ~(m <= m - 1) /\ m <= depth
      BY <1>0, <2>2, <2>3
    <2>5. Fine(m - 1)
      BY <2>1, <2>4
    <2> QED
      BY <1>2, <2>2, <2>4, <2>5
  <1> HIDE DEF Fine
  <1>4. Fine(depth)
    BY <1>0, <1>3
  <1> QED
    BY <1>4 DEF Fine

LEMMA TimesIs ==
  \A f : Tree!Times(f) = Cardinality({x \in DOMAIN printed : printed[x] = f})
  <1>1. \A S : Tree!Cardinality(S) = Cardinality(S)
    BY Zenon DEF Tree!Cardinality, Cardinality
  <1> QED
    BY <1>1 DEF Tree!Times

LEMMA TreeMade ==
  ASSUME TreeInv
  PROVE  Tree!SuccessIsComplete
  <1>0. printed \in Seq(Matching) /\ DOMAIN printed = 1..Len(printed) /\ Len(printed) \in Nat
    BY DEF TreeInv, WalkTypes
  <1>1. \A k \in DOMAIN printed : printed[k] \in Tree!Expected
    BY DEF TreeInv, Rightful, Listed
  <1>2. ASSUME tty, NEW f \in Tree!Expected PROVE Tree!Times(f) <= 1
    <2>1. \A x, y \in {k \in DOMAIN printed : printed[k] = f} : x = y
      BY <1>2 DEF TreeInv, Once
    <2> QED
      BY <2>1, AtMostOne, TimesIs
  <1>3. ASSUME state[Root] = "ok", NEW f \in Tree!Due PROVE Tree!Times(f) >= 1
    <2>1. PICK d \in Tree!Visible[depth] : f \in Tree!Range(Entries[d])
      BY DEF Tree!Due
    <2>2. d \in Tree!Dir /\ Complete(d)
      BY <1>3, AllComplete
    <2>3. PICK k \in Items(d) : f = Item(d, k)
      BY <2>1, <2>2, TreeFacts
    <2>4. k \in Passed(d)
      BY <2>2, TreeFacts DEF Complete, Items, Passed, TreeInv, WalkTypes
    <2>5. Seen(d) /\ buffer[d] = <<>>
      BY <2>2 DEF TreeInv, Thorough, Complete
    <2>6. f \in Listed(printed)
      BY <2>3, <2>4, <2>5 DEF Seen, Listed, Tree!Due
    <2> DEFINE Where == {x \in DOMAIN printed : printed[x] = f}
    <2>7. Where # {}
      BY <2>6 DEF Listed
    <2>8. IsFiniteSet(Where)
      <3>1. IsFiniteSet(1..Len(printed)) /\ Where \subseteq 1..Len(printed)
        BY <1>0, FS_Interval
      <3> HIDE DEF Where
      <3> QED
        BY <3>1, FS_Subset
    <2> HIDE DEF Where
    <2>9. Cardinality(Where) \in Nat /\ Cardinality(Where) # 0
      BY <2>7, <2>8, FS_CardinalityType, FS_EmptySet
    <2>10. Cardinality(Where) >= 1
      BY <2>9
    <2> QED
      BY <2>10, TimesIs DEF Where
  <1> QED
    BY <1>1, <1>2, <1>3 DEF Tree!SuccessIsComplete

-----------------------------------------------------------------------------
LEMMA ReachGrows ==
  ASSUME NEW a \in 1..MaxDepth, NEW b \in 1..MaxDepth, a <= b
  PROVE  Tree!Reach[a] \subseteq Tree!Reach[b]
  <1> MaxDepth \in Nat
    BY BoundsAssumption
  <1> DEFINE Wrong == {l \in a..b : ~(Tree!Reach[a] \subseteq Tree!Reach[l])}
  <1> SUFFICES ASSUME Wrong # {} PROVE FALSE
    OBVIOUS
  <1>1. PICK m \in Wrong : \A l \in Wrong : m <= l
    <2>1. Wrong \subseteq Nat
      OBVIOUS
    <2> HIDE DEF Wrong
    <2> QED
      BY <2>1, Least
  <1>2. m # a /\ m \in a..b
    OBVIOUS
  <1>3. m - 1 \in a..b /\ m - 1 \notin Wrong /\ m \in 1..MaxDepth /\ m # 1
    BY <1>1, <1>2
  <1>4. Tree!Reach[m] = Below(Tree!Dir, Tree!Reach[m - 1])
    BY <1>3, ReachIs
  <1>5. Tree!Reach[a] \subseteq Tree!Reach[m - 1]
    BY <1>3
  <1>6. Tree!Reach[a] \subseteq Tree!Reach[m]
    <2> HIDE DEF Wrong
    <2> QED
      BY <1>4, <1>5 DEF Below
  <1> QED
    BY <1>1, <1>6

\* A match in a directory that is searched is expected.
LEMMA MatchExpected ==
  ASSUME TreeInv, NEW d \in Tree!Dir, state[d] # "none", NEW k \in Items(d), Item(d, k) \in Matching
  PROVE  Item(d, k) \in Tree!Expected
  <1>1. /\ depth \in 1..MaxDepth /\ depth \in Nat /\ level[d] \in 1..depth
        /\ d \in Tree!Reach[depth - level[d] + 1]
    BY BoundsAssumption DEF TreeInv, WalkTypes, Descent
  <1>2. depth - level[d] + 1 \in 1..MaxDepth /\ depth - level[d] + 1 <= depth
    BY <1>1, BoundsAssumption
  <1>3. d \in Tree!Reach[depth]
    BY <1>1, <1>2, ReachGrows
  <1>4. Item(d, k) \in Tree!Range(Entries[d])
    BY TreeFacts
  <1> QED
    BY <1>3, <1>4 DEF Tree!Expected

LEMMA Joined ==
  ASSUME NEW M, NEW q \in Seq(M), NEW r \in Seq(M)
  PROVE  /\ q \o r \in Seq(M) /\ Listed(q \o r) = Listed(q) \cup Listed(r)
         /\ q \o <<>> = q /\ Listed(<<>>) = {}
  <1>1. DOMAIN q = 1..Len(q) /\ DOMAIN r = 1..Len(r) /\ Len(q) \in Nat /\ Len(r) \in Nat
    OBVIOUS
  <1>2. q \o r \in Seq(M) /\ DOMAIN (q \o r) = 1..Len(q) + Len(r) /\ q \o <<>> = q
    OBVIOUS
  <1>3. \A k \in 1..Len(q) : (q \o r)[k] = q[k]
    OBVIOUS
  <1>4. \A k \in 1..Len(r) : (q \o r)[Len(q) + k] = r[k]
    OBVIOUS
  <1>5. \A k \in Len(q) + 1..Len(q) + Len(r) : k - Len(q) \in 1..Len(r) /\ (q \o r)[k] = r[k - Len(q)]
    BY <1>1
  <1> DEFINE z == q \o r
  <1>6. Listed(z) \subseteq Listed(q) \cup Listed(r)
    <2> SUFFICES ASSUME NEW k \in DOMAIN z PROVE z[k] \in Listed(q) \cup Listed(r)
      BY DEF Listed
    <2>1. CASE k \in 1..Len(q)
      BY <1>1, <1>3, <2>1 DEF Listed
    <2>2. CASE k \notin 1..Len(q)
      BY <1>1, <1>2, <1>5, <2>2 DEF Listed
    <2> QED
      BY <2>1, <2>2
  <1>7. Listed(q) \subseteq Listed(z)
    BY <1>1, <1>2, <1>3 DEF Listed
  <1>8. Listed(r) \subseteq Listed(z)
    <2> SUFFICES ASSUME NEW k \in 1..Len(r) PROVE r[k] \in Listed(z)
      BY <1>1 DEF Listed
    <2>1. Len(q) + k \in DOMAIN z /\ z[Len(q) + k] = r[k]
      BY <1>1, <1>2, <1>4
    <2> HIDE DEF z
    <2> QED
      BY <2>1 DEF Listed
  <1>9. Listed(<<>>) = {}
    BY DEF Listed
  <1> QED
    BY <1>2, <1>6, <1>7, <1>8, <1>9

LEMMA JoinedOne ==
  ASSUME NEW M, NEW q \in Seq(M), NEW f \in M
  PROVE  /\ q \o <<f>> \in Seq(M) /\ Listed(q \o <<f>>) = Listed(q) \cup {f}
         /\ DOMAIN (q \o <<f>>) = DOMAIN q \cup {Len(q) + 1} /\ Len(q) + 1 \notin DOMAIN q
         /\ (q \o <<f>>)[Len(q) + 1] = f
         /\ \A x \in DOMAIN q : (q \o <<f>>)[x] = q[x]
  <1>0. DOMAIN <<f>> = {1} /\ <<f>>[1] = f
    OBVIOUS
  <1>1. <<f>> \in Seq(M) /\ Listed(<<f>>) = {f}
    <2>1. <<f>> \in Seq(M)
      OBVIOUS
    <2>2. Listed(<<f>>) = {<<f>>[k] : k \in {1}}
      BY <1>0 DEF Listed
    <2> QED
      BY <1>0, <2>1, <2>2
  <1>2. q \o <<f>> \in Seq(M) /\ Listed(q \o <<f>>) = Listed(q) \cup {f}
    <2>1. PICK r : r = <<f>>
      OBVIOUS
    <2>2. r \in Seq(M) /\ Listed(r) = {f}
      BY <1>1, <2>1
    <2>3. q \o r \in Seq(M) /\ Listed(q \o r) = Listed(q) \cup Listed(r)
      BY <2>2, Joined
    <2> QED
      BY <2>1, <2>2, <2>3
  <1>3. DOMAIN q = 1..Len(q) /\ Len(q) \in Nat
    OBVIOUS
  <1>4. DOMAIN (q \o <<f>>) = 1..Len(q) + 1 /\ (q \o <<f>>)[Len(q) + 1] = f
        /\ \A x \in 1..Len(q) : (q \o <<f>>)[x] = q[x]
    OBVIOUS
  <1> QED
    BY <1>2, <1>3, <1>4

\* A process at an entry, and one that goes on to the next.
LEMMA AtEntryIs ==
  ASSUME TreeInv, NEW d \in Tree!Dir, Tree!AtEntry(d)
  PROVE  /\ state[d] = "walk" /\ next[d] \in Items(d) /\ next[d] \notin Passed(d)
         /\ Tree!Entry(d) = Item(d, next[d])
  BY TreeFacts DEF Tree!AtEntry, Tree!Entry, Item, Items, Passed, TreeInv, WalkTypes

LEMMA PassedAreItems ==
  ASSUME TreeInv
  PROVE  \A x \in Tree!Dir : Passed(x) \subseteq Items(x)
  <1> TAKE x \in Tree!Dir
  <1>1. Len(Entries[x]) \in Nat /\ next[x] \in 1..Len(Entries[x]) + 1
    BY TreeFacts DEF TreeInv, WalkTypes
  <1> QED
    BY <1>1 DEF Passed, Items

LEMMA Advances ==
  ASSUME TreeInv, NEW d \in Tree!Dir, next[d] \in Items(d), Tree!Advance(d)
  PROVE  /\ next' \in [Tree!Dir -> Nat]
         /\ \A x \in Tree!Dir : next'[x] \in 1..Len(Entries[x]) + 1
         /\ next'[d] = next[d] + 1 /\ Passed(d)' = Passed(d) \cup {next[d]}
         /\ \A x \in Tree!Dir : x # d => next'[x] = next[x] /\ Passed(x)' = Passed(x)
  <1>1. next \in [Tree!Dir -> Nat] /\ \A x \in Tree!Dir : next[x] \in 1..Len(Entries[x]) + 1
    BY DEF TreeInv, WalkTypes
  <1>2. next' = [next EXCEPT ![d] = next[d] + 1]
    BY DEF Tree!Advance
  <1>3. next'[d] = next[d] + 1 /\ \A x \in Tree!Dir : x # d => next'[x] = next[x]
    BY <1>1, <1>2
  <1>4. next[d] + 1 \in 1..Len(Entries[d]) + 1
    BY <1>1, TreeFacts DEF Items
  <1>5. Passed(d)' = Passed(d) \cup {next[d]}
    BY <1>1, <1>3 DEF Passed
  <1> QED
    BY <1>1, <1>2, <1>3, <1>4, <1>5 DEF Passed

-----------------------------------------------------------------------------
\* What a step leaves as it was.
LEMMA Lasting == Tree!Reach' = Tree!Reach /\ (depth' = depth => Tree!Expected' = Tree!Expected)
  BY DEF Tree!Expected, Tree!Reach

LEMMA DescentKept ==
  ASSUME Descent, missed' = missed, depth' = depth, next' = next, level' = level,
         \A x \in Tree!Dir : state'[x] = "none" <=> state[x] = "none"
  PROVE  Descent'
  BY TreeFacts, Lasting DEF Descent, Passed, Item, Items

LEMMA FamilyKept ==
  ASSUME Family, next' = next, \A x \in Tree!Dir : children'[x] \subseteq children[x],
         \A x \in Tree!Dir : \A c \in children'[x] : state'[c] \notin {"none", "reaped"}
  PROVE  Family'
  BY DEF Family, Passed, Item

LEMMA SeenKept ==
  ASSUME NEW x \in Tree!Dir, Seen(x), missed \subseteq missed', next'[x] = next[x], level'[x] = level[x],
         Listed(printed) \cup Listed(buffer[x]) \subseteq Listed(printed') \cup Listed(buffer'[x]),
         children'[x] = children[x], bad[x] => bad'[x],
         \A c \in Tree!Dir : state[c] = "reaped" => state'[c] = "reaped" /\ (Complete(c) => Complete(c)')
  PROVE  Seen(x)'
  BY DEF Seen, Passed, Item

\* A process that is as it was has kept its phase, and is as complete.
LEMMA PhaseKept ==
  ASSUME NEW x \in Tree!Dir, state'[x] = state[x], next'[x] = next[x], children'[x] = children[x],
         bad'[x] = bad[x], buffer'[x] = buffer[x]
  PROVE  Complete(x)' <=> Complete(x)
  BY DEF Complete

-----------------------------------------------------------------------------
\* The steps of d that only change its state, note a failure and write the
\* buffer.
LEMMA StateStep ==
  ASSUME TreeInv, NEW d \in Tree!Dir, NEW new \in {"walk", "giveup", "wait", "ok", "failed"},
         state[d] \in {"walk", "giveup", "wait"},
         state' = [state EXCEPT ![d] = new],
         next' = next, level' = level, children' = children, depth' = depth, tty' = tty, missed' = missed,
         bad' \in [Tree!Dir -> BOOLEAN], bad[d] => bad'[d],
         \A x \in Tree!Dir : x # d => bad'[x] = bad[x],
         \/ printed' = printed /\ buffer' = buffer
         \/ printed' = printed \o buffer[d] /\ buffer' = [buffer EXCEPT ![d] = <<>>],
         new = "giveup" => bad'[d],
         new = "wait" => next[d] > Len(Entries[d]),
         new = "ok" => Complete(d)'
  PROVE  TreeInv'
  <1>0. /\ \A x \in Tree!Dir : x # d => state'[x] = state[x]
        /\ state'[d] = new /\ state' \in [Tree!Dir -> {"none", "walk", "giveup", "wait", "ok", "failed", "reaped"}]
    BY DEF TreeInv, WalkTypes
  <1>1. /\ printed' \in Seq(Matching) /\ buffer' \in [Tree!Dir -> Seq(Matching)]
        /\ Listed(printed) \subseteq Listed(printed')
        /\ Listed(printed') \subseteq Listed(printed) \cup Listed(buffer[d])
        /\ Listed(printed) \cup Listed(buffer[d]) \subseteq Listed(printed') \cup Listed(buffer'[d])
        /\ \A x \in Tree!Dir : x # d => buffer'[x] = buffer[x]
        /\ buffer'[d] = buffer[d] \/ buffer'[d] = <<>>
        /\ tty => printed' = printed /\ buffer' = buffer
    <2>0. printed \in Seq(Matching) /\ buffer \in [Tree!Dir -> Seq(Matching)] /\ buffer[d] \in Seq(Matching)
      BY DEF TreeInv, WalkTypes
    <2>1. CASE printed' = printed /\ buffer' = buffer
      BY <2>0, <2>1
    <2>2. CASE printed' = printed \o buffer[d] /\ buffer' = [buffer EXCEPT ![d] = <<>>]
      <3>1. printed' \in Seq(Matching) /\ Listed(printed') = Listed(printed) \cup Listed(buffer[d])
        BY <2>0, <2>2, Joined
      <3>2. <<>> \in Seq(Matching)
        OBVIOUS
      <3>3. /\ buffer' \in [Tree!Dir -> Seq(Matching)] /\ buffer'[d] = <<>>
            /\ \A x \in Tree!Dir : x # d => buffer'[x] = buffer[x]
        BY <2>0, <2>2, <3>2
      <3>4. ASSUME tty PROVE printed' = printed /\ buffer' = buffer
        <4>1. buffer[d] = <<>>
          BY <3>4 DEF TreeInv, Once
        <4>2. printed \o <<>> = printed
          BY <2>0
        <4>3. buffer' = buffer
          BY <2>0, <2>2, <4>1
        <4> QED
          BY <2>2, <4>1, <4>2, <4>3
      <3> QED
        BY <3>1, <3>3, <3>4
    <2> QED
      BY <2>1, <2>2
  <1>2. WalkTypes'
    BY <1>0, <1>1 DEF TreeInv, WalkTypes
  <1>3. \A x \in Tree!Dir : x # d => (Complete(x)' <=> Complete(x))
    BY <1>0, <1>1, PhaseKept
  <1>4. Phases'
    <2> SUFFICES ASSUME NEW x \in Tree!Dir
                 PROVE  /\ state'[x] = "none" => next'[x] = 1 /\ children'[x] = {} /\ ~bad'[x] /\ buffer'[x] = <<>>
                        /\ state'[x] = "wait" => next'[x] > Len(Entries[x])
                        /\ state'[x] = "giveup" => bad'[x]
                        /\ state'[x] = "ok" => Complete(x)'
      BY DEF Phases
    <2>1. CASE x = d
      BY <1>0, <2>1
    <2>2. CASE x # d
      BY <1>0, <1>1, <1>3, <2>2 DEF TreeInv, Phases
    <2> QED
      BY <2>1, <2>2
  <1>5. Descent'
    BY <1>0, DescentKept DEF TreeInv
  <1>6. Family'
    <2>1. \A x \in Tree!Dir : \A c \in children'[x] : state'[c] \notin {"none", "reaped"}
      <3>1. \A x \in Tree!Dir : \A c \in children[x] : c \in Tree!Dir /\ state[c] \notin {"none", "reaped"}
        BY DEF TreeInv, Family, WalkTypes
      <3> QED
        BY <1>0, <3>1
    <2> QED
      BY <2>1, FamilyKept DEF TreeInv
  <1>7. Thorough'
    <2> SUFFICES ASSUME NEW x \in Tree!Dir, state'[x] \in {"walk", "giveup", "wait"} \/ Complete(x)'
                 PROVE  Seen(x)'
      BY DEF Thorough
    <2>1. Seen(x)
      <3>1. CASE x = d
        BY <3>1 DEF TreeInv, Thorough
      <3>2. CASE x # d
        BY <1>0, <1>3, <3>2 DEF TreeInv, Thorough
      <3> QED
        BY <3>1, <3>2
    <2>2. Listed(printed) \cup Listed(buffer[x]) \subseteq Listed(printed') \cup Listed(buffer'[x])
      BY <1>1
    <2>3. bad[x] => bad'[x]
      OBVIOUS
    <2>4. \A c \in Tree!Dir : state[c] = "reaped" => state'[c] = "reaped" /\ (Complete(c) => Complete(c)')
      BY <1>0, <1>3
    <2>5. next'[x] = next[x] /\ level'[x] = level[x] /\ children'[x] = children[x]
      OBVIOUS
    <2> QED
      BY <2>1, <2>2, <2>3, <2>4, <2>5, SeenKept
  <1>8. Rightful'
    <2>1. Listed(<<>>) = {}
      BY DEF Listed
    <2>2. Tree!Expected' = Tree!Expected
      BY Lasting
    <2>3. Listed(printed') \subseteq Tree!Expected
      BY <1>1 DEF TreeInv, Rightful
    <2>4. \A x \in Tree!Dir : Listed(buffer'[x]) \subseteq Tree!Expected
      BY <1>1, <2>1 DEF TreeInv, Rightful
    <2>5. Listed(printed)' = Listed(printed') /\ \A x \in Tree!Dir : Listed(buffer[x])' = Listed(buffer'[x])
      BY DEF Listed
    <2> QED
      BY <2>2, <2>3, <2>4, <2>5 DEF Rightful
  <1>9. Once'
    BY <1>1 DEF TreeInv, Once, Passed, Item
  <1> QED
    BY <1>2, <1>4, <1>5, <1>6, <1>7, <1>8, <1>9 DEF TreeInv

LEMMA StateSteps ==
  ASSUME TreeInv, NEW d \in Tree!Dir,
         Tree!Abort(d) \/ Tree!CallFails(d) \/ Tree!ForkFails(d) \/ Tree!EndOfDir(d) \/ Tree!Exit(d)
  PROVE  TreeInv'
  <1>0. bad \in [Tree!Dir -> BOOLEAN]
    BY DEF TreeInv, WalkTypes
  <1>1. CASE Tree!Abort(d)
    <2>1. bad' \in [Tree!Dir -> BOOLEAN] /\ bad' = bad
      BY <1>0, <1>1 DEF Tree!Abort
    <2> QED
      BY <1>1, <2>1, StateStep DEF Tree!Abort, Tree!AtEntry
  <1>2. CASE Tree!CallFails(d)
    <2>1. bad' \in [Tree!Dir -> BOOLEAN] /\ bad' = bad
      BY <1>0, <1>2 DEF Tree!CallFails
    <2> QED
      BY <1>2, <2>1, StateStep DEF Tree!CallFails
  <1>3. CASE Tree!ForkFails(d)
    <2>1. bad' \in [Tree!Dir -> BOOLEAN] /\ bad'[d] /\ \A x \in Tree!Dir : x # d => bad'[x] = bad[x]
      BY <1>0, <1>3 DEF Tree!ForkFails
    <2> QED
      BY <1>3, <2>1, StateStep DEF Tree!ForkFails, Tree!AtEntry
  <1>4. CASE Tree!EndOfDir(d)
    <2>1. bad' \in [Tree!Dir -> BOOLEAN] /\ bad' = bad
      BY <1>0, <1>4 DEF Tree!EndOfDir
    <2> QED
      BY <1>4, <2>1, StateStep DEF Tree!EndOfDir
  <1>5. CASE Tree!Exit(d)
    <2>1. bad' \in [Tree!Dir -> BOOLEAN] /\ bad' = bad
      BY <1>0, <1>5 DEF Tree!Exit
    <2>2. PICK new : new = IF bad[d] THEN "failed" ELSE "ok"
      OBVIOUS
    <2>3. ASSUME new = "ok" PROVE Complete(d)'
      <3>1. ~bad[d]
        BY <2>2, <2>3
      <3>2. state[d] = "wait" /\ next[d] > Len(Entries[d]) /\ children[d] = {}
        BY <1>5, <3>1 DEF Tree!Exit, Tree!Waiting, TreeInv, Phases
      <3>3. state'[d] = "ok" /\ buffer'[d] = <<>>
        BY <1>5, <3>1 DEF Tree!Exit, TreeInv, WalkTypes
      <3> QED
        BY <1>5, <3>1, <3>2, <3>3 DEF Complete, Tree!Exit
    <2>4. new \in {"failed", "ok"} /\ state' = [state EXCEPT ![d] = new]
      BY <1>5, <2>2 DEF Tree!Exit
    <2> QED
      BY <1>5, <2>1, <2>3, <2>4, StateStep DEF Tree!Exit, Tree!Waiting
  <1> QED
    BY <1>1, <1>2, <1>3, <1>4, <1>5

LEMMA SearchSteps ==
  ASSUME TreeInv, NEW d \in Tree!Dir, Tree!SearchFile(d) \/ Tree!StatFails(d) \/ Tree!TooDeep(d)
  PROVE  TreeInv'
  <1>0. /\ Tree!AtEntry(d) /\ Tree!Advance(d)
        /\ UNCHANGED <<depth, tty, short, state, level, children, bad>>
        /\ missed \subseteq missed'
    BY DEF Tree!SearchFile, Tree!StatFails, Tree!TooDeep
  <1>1. PICK k \in Items(d) : k = next[d]
    BY <1>0, AtEntryIs
  <1>2. state[d] = "walk" /\ k \notin Passed(d) /\ Tree!Entry(d) = Item(d, k)
    BY <1>0, <1>1, AtEntryIs
  <1>3. /\ next' \in [Tree!Dir -> Nat]
        /\ \A x \in Tree!Dir : next'[x] \in 1..Len(Entries[x]) + 1
        /\ Passed(d)' = Passed(d) \cup {k}
        /\ \A x \in Tree!Dir : x # d => next'[x] = next[x] /\ Passed(x)' = Passed(x)
    BY <1>0, <1>1, Advances
  <1>4. Item(d, k) \in Tree!Dir => (level[d] = 1 \/ Item(d, k) \in missed') /\ Item(d, k) \notin Matching
    BY <1>2, TreeFacts DEF Tree!SearchFile, Tree!StatFails, Tree!TooDeep
  <1>5. Item(d, k) \in Matching => Item(d, k) \in Tree!Expected
    BY <1>1, <1>2, MatchExpected
  <1>6. printed \in Seq(Matching) /\ buffer \in [Tree!Dir -> Seq(Matching)] /\ buffer[d] \in Seq(Matching)
    BY DEF TreeInv, WalkTypes
  <1>7. \/ /\ Item(d, k) \notin Matching \/ Item(d, k) \in missed'
           /\ printed' = printed /\ buffer' = buffer
        \/ Item(d, k) \in Matching /\ tty /\ printed' = printed \o <<Item(d, k)>> /\ buffer' = buffer
        \/ /\ Item(d, k) \in Matching /\ ~tty /\ printed' = printed
           /\ buffer' = [buffer EXCEPT ![d] = buffer[d] \o <<Item(d, k)>>]
    <2>1. CASE Tree!SearchFile(d)
      <3>1. CASE Item(d, k) \in Matching
        BY <1>2, <2>1, <3>1 DEF Tree!SearchFile
      <3>2. CASE Item(d, k) \notin Matching
        <4>1. printed \o <<>> = printed /\ buffer[d] \o <<>> = buffer[d]
          BY <1>6, Joined
        <4>2. IF tty THEN printed' = printed \o <<>> /\ buffer' = buffer
              ELSE buffer' = [buffer EXCEPT ![d] = buffer[d] \o <<>>] /\ printed' = printed
          BY <1>2, <2>1, <3>2 DEF Tree!SearchFile
        <4>3. [buffer EXCEPT ![d] = buffer[d]] = buffer
          BY <1>6
        <4> QED
          BY <3>2, <4>1, <4>2, <4>3
      <3> QED
        BY <3>1, <3>2
    <2>2. CASE Tree!TooDeep(d)
      BY <1>2, <1>4, <2>2 DEF Tree!TooDeep
    <2>3. CASE Tree!StatFails(d)
      BY <1>2, <2>3 DEF Tree!StatFails
    <2> QED
      BY <2>1, <2>2, <2>3
  <1>8. /\ printed' \in Seq(Matching) /\ buffer' \in [Tree!Dir -> Seq(Matching)]
        /\ Listed(printed) \subseteq Listed(printed')
        /\ Listed(printed') \subseteq Listed(printed) \cup ({Item(d, k)} \cap Matching)
        /\ \A x \in Tree!Dir : Listed(buffer[x]) \subseteq Listed(buffer'[x])
        /\ \A x \in Tree!Dir : x # d => buffer'[x] = buffer[x]
        /\ Listed(buffer'[d]) \subseteq Listed(buffer[d]) \cup ({Item(d, k)} \cap Matching)
        /\ Item(d, k) \in Matching \ missed' => Item(d, k) \in Listed(printed') \cup Listed(buffer'[d])
        /\ tty => buffer' = buffer
    <2>1. CASE /\ Item(d, k) \notin Matching \/ Item(d, k) \in missed'
               /\ printed' = printed /\ buffer' = buffer
      BY <1>6, <2>1
    <2>2. CASE Item(d, k) \in Matching /\ tty /\ printed' = printed \o <<Item(d, k)>> /\ buffer' = buffer
      <3>1. printed' \in Seq(Matching) /\ Listed(printed') = Listed(printed) \cup {Item(d, k)}
        BY <1>6, <2>2, JoinedOne
      <3> QED
        BY <1>6, <2>2, <3>1
    <2>3. CASE /\ Item(d, k) \in Matching /\ ~tty /\ printed' = printed
               /\ buffer' = [buffer EXCEPT ![d] = buffer[d] \o <<Item(d, k)>>]
      <3>1. PICK q : q = buffer[d] \o <<Item(d, k)>>
        OBVIOUS
      <3>2. q \in Seq(Matching) /\ Listed(q) = Listed(buffer[d]) \cup {Item(d, k)}
        BY <1>6, <2>3, <3>1, JoinedOne
      <3>3. /\ buffer' \in [Tree!Dir -> Seq(Matching)] /\ buffer'[d] = q
            /\ \A x \in Tree!Dir : x # d => buffer'[x] = buffer[x]
        BY <1>6, <2>3, <3>1, <3>2
      <3> QED
        BY <1>6, <2>3, <3>2, <3>3
    <2> QED
      BY <1>7, <2>1, <2>2, <2>3
  <1>9. WalkTypes'
    <2>1. Item(d, k) \in Listing
      <3>1. Item(d, k) \in Tree!Range(Entries[d])
        BY <1>1, TreeFacts
      <3> QED
        BY <3>1 DEF Listing
    <2>2. missed' = missed \/ missed' = missed \cup {Item(d, k)}
      BY <1>2 DEF Tree!SearchFile, Tree!StatFails, Tree!TooDeep
    <2>3. Listing' = Listing
      BY DEF Listing
    <2>4. missed' \subseteq Listing
      BY <2>1, <2>2 DEF TreeInv, WalkTypes
    <2> QED
      BY <1>0, <1>3, <1>8, <2>3, <2>4 DEF TreeInv, WalkTypes
  <1>10. \A x \in Tree!Dir : x # d => (Complete(x)' <=> Complete(x))
    BY <1>0, <1>3, <1>8, PhaseKept
  <1>11. Phases'
    <2> SUFFICES ASSUME NEW x \in Tree!Dir
                 PROVE  /\ state'[x] = "none" => next'[x] = 1 /\ children'[x] = {} /\ ~bad'[x] /\ buffer'[x] = <<>>
                        /\ state'[x] = "wait" => next'[x] > Len(Entries[x])
                        /\ state'[x] = "giveup" => bad'[x]
                        /\ state'[x] = "ok" => Complete(x)'
      BY DEF Phases
    <2>1. CASE x = d
      BY <1>0, <1>2, <2>1
    <2>2. CASE x # d
      BY <1>0, <1>3, <1>8, <1>10, <2>2 DEF TreeInv, Phases
    <2> QED
      BY <2>1, <2>2
  <1>12. Descent'
    <2> SUFFICES ASSUME NEW x \in Tree!Dir, NEW l \in Items(x), Item(x, l) \in Tree!Dir
                 PROVE  IF l \in Passed(x)'
                        THEN level[x] > 1 /\ Item(x, l) \notin missed' =>
                               state[Item(x, l)] # "none" /\ level[Item(x, l)] = level[x] - 1
                        ELSE state[Item(x, l)] = "none"
      BY <1>0, Lasting DEF TreeInv, Descent, Items, Item
    <2>1. CASE x = d /\ l = k
      BY <1>3, <1>4, <2>1
    <2>2. CASE ~(x = d /\ l = k)
      <3>1. l \in Passed(x)' <=> l \in Passed(x)
        BY <1>3, <2>2
      <3> QED
        BY <1>0, <3>1 DEF TreeInv, Descent
    <2> QED
      BY <2>1, <2>2
  <1>13. Family'
    <2>1. \A x \in Tree!Dir : Passed(x) \subseteq Passed(x)'
      BY <1>3
    <2> QED
      BY <1>0, <2>1 DEF TreeInv, Family, Item
  <1>14. Thorough'
    <2> SUFFICES ASSUME NEW x \in Tree!Dir, state'[x] \in {"walk", "giveup", "wait"} \/ Complete(x)'
                 PROVE  Seen(x)'
      BY DEF Thorough
    <2>1. \A c \in Tree!Dir : state[c] = "reaped" => state'[c] = "reaped" /\ (Complete(c) => Complete(c)')
      BY <1>0, <1>2, <1>10
    <2>2. CASE x # d
      <3>1. Seen(x)
        BY <1>0, <1>10, <2>2 DEF TreeInv, Thorough
      <3> QED
        BY <1>0, <1>3, <1>8, <2>1, <2>2, <3>1, SeenKept
    <2>3. CASE x = d
      <3>1. Seen(d)
        BY <1>2 DEF TreeInv, Thorough
      <3> SUFFICES ASSUME NEW l \in Passed(d)', Item(d, l) \notin missed'
                   PROVE  /\ Item(d, l) \in Matching => Item(d, l) \in Listed(printed') \cup Listed(buffer'[d])
                          /\ Item(d, l) \in Tree!Dir /\ level'[d] > 1 =>
                               \/ Item(d, l) \in children'[d]
                               \/ state'[Item(d, l)] = "reaped" /\ (bad'[d] \/ Complete(Item(d, l))')
        BY <2>3 DEF Seen, Item, Listed
      <3>2. CASE l = k
        BY <1>0, <1>4, <1>8, <3>2
      <3>3. CASE l # k
        BY <1>0, <1>3, <1>8, <2>1, <3>1, <3>3 DEF Seen
      <3> QED
        BY <3>2, <3>3
    <2> QED
      BY <2>2, <2>3
  <1>15. Rightful'
    <2>1. Tree!Expected' = Tree!Expected
      BY <1>0, Lasting
    <2>2. Listed(printed') \subseteq Tree!Expected
      BY <1>5, <1>8 DEF TreeInv, Rightful
    <2>3. \A x \in Tree!Dir : Listed(buffer'[x]) \subseteq Tree!Expected
      BY <1>5, <1>8 DEF TreeInv, Rightful
    <2>4. Listed(printed)' = Listed(printed') /\ \A x \in Tree!Dir : Listed(buffer[x])' = Listed(buffer'[x])
      BY DEF Listed
    <2> QED
      BY <2>1, <2>2, <2>3, <2>4 DEF Rightful
  <1>16. Once'
    <2> SUFFICES ASSUME tty
                 PROVE  /\ \A x \in Tree!Dir : buffer'[x] = <<>>
                        /\ \A y \in DOMAIN printed' : \E x \in Tree!Dir : \E l \in Passed(x)' : printed'[y] = Item(x, l)
                        /\ \A y, z \in DOMAIN printed' : printed'[y] = printed'[z] => y = z
      BY <1>0 DEF Once, Item
    <2>1. /\ \A x \in Tree!Dir : buffer'[x] = <<>>
          /\ \A y \in DOMAIN printed : \E x \in Tree!Dir : \E l \in Passed(x) : printed[y] = Item(x, l)
          /\ \A y, z \in DOMAIN printed : printed[y] = printed[z] => y = z
      BY <1>8 DEF TreeInv, Once
    <2>2. \A x \in Tree!Dir : Passed(x) \subseteq Passed(x)' /\ Passed(x) \subseteq Items(x)
      BY <1>3, PassedAreItems
    <2>3. CASE printed' = printed
      BY <2>1, <2>2, <2>3
    <2>4. CASE Item(d, k) \in Matching /\ printed' = printed \o <<Item(d, k)>>
      <3>1. /\ DOMAIN printed' = DOMAIN printed \cup {Len(printed) + 1}
            /\ printed'[Len(printed) + 1] = Item(d, k)
            /\ \A y \in DOMAIN printed : printed'[y] = printed[y]
        BY <1>6, <2>4, JoinedOne
      <3>2. ASSUME NEW y \in DOMAIN printed PROVE printed[y] # Item(d, k)
        <4>1. PICK x \in Tree!Dir : \E l \in Passed(x) : printed[y] = Item(x, l)
          BY <2>1
        <4>2. PICK l \in Passed(x) : printed[y] = Item(x, l)
          BY <4>1
        <4>3. l \in Items(x)
          BY <2>2
        <4> QED
          BY <1>2, <4>2, <4>3, TreeFacts
      <3>3. \A y \in DOMAIN printed' : \E x \in Tree!Dir : \E l \in Passed(x)' : printed'[y] = Item(x, l)
        BY <1>3, <2>1, <2>2, <3>1
      <3>4. \A y, z \in DOMAIN printed' : printed'[y] = printed'[z] => y = z
        BY <2>1, <3>1, <3>2
      <3> QED
        BY <2>1, <3>3, <3>4
    <2> QED
      BY <1>7, <2>3, <2>4
  <1> QED
    BY <1>9, <1>11, <1>12, <1>13, <1>14, <1>15, <1>16 DEF TreeInv

LEMMA ForkStep ==
  ASSUME TreeInv, NEW d \in Tree!Dir, Tree!ForkChild(d)
  PROVE  TreeInv'
  <1>0. /\ Tree!AtEntry(d) /\ Tree!Advance(d) /\ level[d] > 1
        /\ UNCHANGED <<depth, tty, short, bad, printed, missed, failures>>
    BY DEF Tree!ForkChild
  <1>1. PICK k \in Items(d) : k = next[d]
    BY <1>0, AtEntryIs
  <1>2. state[d] = "walk" /\ k \notin Passed(d) /\ Tree!Entry(d) = Item(d, k)
    BY <1>0, <1>1, AtEntryIs
  <1>3. /\ next' \in [Tree!Dir -> Nat]
        /\ \A x \in Tree!Dir : next'[x] \in 1..Len(Entries[x]) + 1
        /\ Passed(d)' = Passed(d) \cup {k}
        /\ \A x \in Tree!Dir : x # d => next'[x] = next[x] /\ Passed(x)' = Passed(x)
    BY <1>0, <1>1, Advances
  <1>4. PICK c \in Tree!Dir : c = Item(d, k)
    BY <1>2 DEF Tree!ForkChild
  <1>5. state[c] = "none" /\ c # d /\ c # Root /\ c \notin Matching
    BY <1>1, <1>2, <1>4, TreeFacts DEF TreeInv, Descent
  <1>6. /\ state' = [state EXCEPT ![c] = "walk"] /\ level' = [level EXCEPT ![c] = level[d] - 1]
        /\ buffer' = [buffer EXCEPT ![c] = buffer[d]]
        /\ children' = [children EXCEPT ![d] = children[d] \cup {c}]
    BY <1>2, <1>4 DEF Tree!ForkChild
  <1>7. /\ depth \in 1..MaxDepth /\ depth \in Nat
        /\ state \in [Tree!Dir -> {"none", "walk", "giveup", "wait", "ok", "failed", "reaped"}]
        /\ level \in [Tree!Dir -> Nat] /\ \A x \in Tree!Dir : level[x] \in 1..depth
        /\ children \in [Tree!Dir -> SUBSET Tree!Dir] /\ buffer \in [Tree!Dir -> Seq(Matching)]
    BY BoundsAssumption DEF TreeInv, WalkTypes
  <1>8. /\ state'[c] = "walk" /\ level'[c] = level[d] - 1 /\ buffer'[c] = buffer[d]
        /\ \A x \in Tree!Dir : x # c => state'[x] = state[x] /\ level'[x] = level[x] /\ buffer'[x] = buffer[x]
        /\ children'[d] = children[d] \cup {c}
        /\ \A x \in Tree!Dir : x # d => children'[x] = children[x]
    BY <1>6, <1>7
  <1>9. WalkTypes'
    <2>1. level[d] - 1 \in Nat /\ level[d] - 1 \in 1..depth
      BY <1>0, <1>7
    <2>2. level' \in [Tree!Dir -> Nat] /\ \A x \in Tree!Dir : level'[x] \in 1..depth
      BY <1>6, <1>7, <2>1
    <2>3. /\ state' \in [Tree!Dir -> {"none", "walk", "giveup", "wait", "ok", "failed", "reaped"}]
          /\ children' \in [Tree!Dir -> SUBSET Tree!Dir] /\ buffer' \in [Tree!Dir -> Seq(Matching)]
      BY <1>6, <1>7
    <2> QED
      BY <1>0, <1>3, <2>2, <2>3 DEF TreeInv, WalkTypes
  <1>10. \A x \in Tree!Dir : Complete(x)' <=> Complete(x)
    <2> TAKE x \in Tree!Dir
    <2>1. CASE x \in {c, d}
      BY <1>2, <1>5, <1>8, <2>1 DEF Complete
    <2>2. CASE x \notin {c, d}
      BY <1>0, <1>3, <1>8, <2>2, PhaseKept
    <2> QED
      BY <2>1, <2>2
  <1>11. Phases'
    <2> SUFFICES ASSUME NEW x \in Tree!Dir
                 PROVE  /\ state'[x] = "none" => next'[x] = 1 /\ children'[x] = {} /\ ~bad'[x] /\ buffer'[x] = <<>>
                        /\ state'[x] = "wait" => next'[x] > Len(Entries[x])
                        /\ state'[x] = "giveup" => bad'[x]
                        /\ state'[x] = "ok" => Complete(x)'
      BY DEF Phases
    <2>1. CASE x \in {c, d}
      BY <1>2, <1>5, <1>8, <2>1
    <2>2. CASE x \notin {c, d}
      BY <1>0, <1>3, <1>8, <1>10, <2>2 DEF TreeInv, Phases
    <2> QED
      BY <2>1, <2>2
  <1>12. Passed(c) = {}
    BY <1>5 DEF TreeInv, Phases, Passed
  <1>13. Descent'
    <2>1. state'[Root] # "none" /\ level'[Root] = depth
      BY <1>5, <1>8, TreeFacts DEF TreeInv, Descent
    <2>2. \A x \in Tree!Dir : state'[x] # "none" => x \in Tree!Reach[depth - level'[x] + 1]
      <3>1. c \in Tree!Reach[depth - level'[c] + 1]
        <4>1. PICK m \in 1..MaxDepth : m = depth - level[d] + 1
          BY <1>7, BoundsAssumption
        <4>2. m + 1 \in 1..MaxDepth /\ m + 1 # 1 /\ (m + 1) - 1 = m /\ depth - level'[c] + 1 = m + 1
          BY <1>0, <1>7, <1>8, <4>1, BoundsAssumption
        <4>3. d \in Tree!Reach[m]
          BY <1>2, <4>1 DEF TreeInv, Descent
        <4>4. c \in Tree!Range(Entries[d])
          BY <1>1, <1>4, TreeFacts
        <4>5. Tree!Reach[m + 1] = Below(Tree!Dir, Tree!Reach[m])
          BY <4>2, ReachIs
        <4> QED
          BY <4>2, <4>3, <4>4, <4>5 DEF Below
      <3> QED
        BY <1>8, <3>1 DEF TreeInv, Descent
    <2>3. ASSUME NEW x \in Tree!Dir, NEW l \in Items(x), Item(x, l) \in Tree!Dir
          PROVE  IF l \in Passed(x)'
                 THEN level'[x] > 1 /\ Item(x, l) \notin missed =>
                        state'[Item(x, l)] # "none" /\ level'[Item(x, l)] = level'[x] - 1
                 ELSE state'[Item(x, l)] = "none"
      <3>1. CASE x = d /\ l = k
        BY <1>3, <1>4, <1>5, <1>8, <3>1
      <3>2. CASE ~(x = d /\ l = k)
        <4>1. l \in Passed(x)' <=> l \in Passed(x)
          BY <1>3, <3>2
        <4>2. Item(x, l) # c
          BY <1>1, <1>4, <3>2, <2>3, TreeFacts
        <4>3. state'[Item(x, l)] = state[Item(x, l)] /\ level'[Item(x, l)] = level[Item(x, l)]
          BY <1>8, <2>3, <4>2
        <4>4. l \in Passed(x) => level'[x] = level[x]
          BY <1>8, <1>12
        <4>5. IF l \in Passed(x)
              THEN level[x] > 1 /\ Item(x, l) \notin missed =>
                     state[Item(x, l)] # "none" /\ level[Item(x, l)] = level[x] - 1
              ELSE state[Item(x, l)] = "none"
          BY <2>3 DEF TreeInv, Descent
        <4> QED
          BY <4>1, <4>3, <4>4, <4>5
      <3> QED
        BY <3>1, <3>2
    <2>4. Tree!Reach' = Tree!Reach /\ depth' = depth /\ missed' = missed
      BY <1>0, Lasting
    <2> QED
      BY <2>1, <2>2, <2>3, <2>4 DEF Descent, Items, Item
  <1>14. \A x \in Tree!Dir : Passed(x) \subseteq Passed(x)'
    BY <1>3
  <1>15. Family'
    <2> SUFFICES ASSUME NEW x \in Tree!Dir, NEW y \in children'[x]
                 PROVE  state'[y] \notin {"none", "reaped"} /\ \E l \in Passed(x)' : y = Item(x, l)
      BY DEF Family, Item
    <2>1. CASE x = d /\ y = c
      BY <1>3, <1>4, <1>8, <2>1
    <2>2. CASE ~(x = d /\ y = c)
      <3>1. y \in children[x]
        BY <1>8, <2>2
      <3>2. y \in Tree!Dir /\ state[y] \notin {"none", "reaped"} /\ \E l \in Passed(x) : y = Item(x, l)
        BY <1>7, <3>1 DEF TreeInv, Family
      <3> QED
        BY <1>5, <1>8, <1>14, <3>2
    <2> QED
      BY <2>1, <2>2
  <1>16. Thorough'
    <2> SUFFICES ASSUME NEW x \in Tree!Dir, state'[x] \in {"walk", "giveup", "wait"} \/ Complete(x)'
                 PROVE  Seen(x)'
      BY DEF Thorough
    <2>1. \A e \in Tree!Dir : state[e] = "reaped" => state'[e] = "reaped" /\ (Complete(e) => Complete(e)')
      BY <1>5, <1>8, <1>10
    <2>2. CASE x \notin {c, d}
      <3>1. Seen(x)
        BY <1>8, <1>10, <2>2 DEF TreeInv, Thorough
      <3> QED
        BY <1>0, <1>3, <1>8, <2>1, <2>2, <3>1, SeenKept
    <2>3. CASE x = c
      <3>1. Passed(c)' = {}
        BY <1>3, <1>5, <1>12
      <3> QED
        BY <2>3, <3>1 DEF Seen
    <2>4. CASE x = d
      <3>1. Seen(d)
        BY <1>2 DEF TreeInv, Thorough
      <3> SUFFICES ASSUME NEW l \in Passed(d)', Item(d, l) \notin missed'
                   PROVE  /\ Item(d, l) \in Matching => Item(d, l) \in Listed(printed') \cup Listed(buffer'[d])
                          /\ Item(d, l) \in Tree!Dir /\ level'[d] > 1 =>
                               \/ Item(d, l) \in children'[d]
                               \/ state'[Item(d, l)] = "reaped" /\ (bad'[d] \/ Complete(Item(d, l))')
        BY <2>4 DEF Seen, Item, Listed
      <3>2. CASE l = k
        BY <1>4, <1>5, <1>8, <3>2
      <3>3. CASE l # k
        BY <1>0, <1>3, <1>5, <1>8, <2>1, <3>1, <3>3 DEF Seen
      <3> QED
        BY <3>2, <3>3
    <2> QED
      BY <2>2, <2>3, <2>4
  <1>17. Rightful'
    <2>1. Tree!Expected' = Tree!Expected
      BY <1>0, Lasting
    <2>2. \A x \in Tree!Dir : Listed(buffer'[x]) \subseteq Tree!Expected
      BY <1>8 DEF TreeInv, Rightful
    <2>3. Listed(printed)' = Listed(printed) /\ \A x \in Tree!Dir : Listed(buffer[x])' = Listed(buffer'[x])
      BY <1>0 DEF Listed
    <2> QED
      BY <2>1, <2>2, <2>3 DEF TreeInv, Rightful
  <1>18. Once'
    <2> SUFFICES ASSUME tty
                 PROVE  /\ \A x \in Tree!Dir : buffer'[x] = <<>>
                        /\ \A y \in DOMAIN printed : \E x \in Tree!Dir : \E l \in Passed(x)' : printed[y] = Item(x, l)
                        /\ \A y, z \in DOMAIN printed : printed[y] = printed[z] => y = z
      BY <1>0 DEF Once, Item
    <2> QED
      BY <1>8, <1>14 DEF TreeInv, Once
  <1> QED
    BY <1>9, <1>11, <1>13, <1>15, <1>16, <1>17, <1>18 DEF TreeInv

LEMMA WaitStep ==
  ASSUME TreeInv, NEW d \in Tree!Dir, Tree!Wait(d)
  PROVE  TreeInv'
  <1>0. UNCHANGED <<depth, tty, short, next, level, buffer, printed, missed, failures>>
    BY DEF Tree!Wait
  <1>1. PICK c \in children[d] :
          /\ state[c] \in {"ok", "failed"}
          /\ children' = [children EXCEPT ![d] = children[d] \ {c}]
          /\ bad' = [bad EXCEPT ![d] = bad[d] \/ state[c] = "failed"]
          /\ state' = [state EXCEPT ![c] = "reaped"]
    BY DEF Tree!Wait, Tree!Ended
  <1>2. /\ state \in [Tree!Dir -> {"none", "walk", "giveup", "wait", "ok", "failed", "reaped"}]
        /\ children \in [Tree!Dir -> SUBSET Tree!Dir] /\ bad \in [Tree!Dir -> BOOLEAN]
    BY DEF TreeInv, WalkTypes
  <1>3. state[d] \in {"wait", "giveup"} /\ c \in Tree!Dir /\ c # d
    BY <1>1, <1>2 DEF Tree!Wait, Tree!Waiting
  <1>4. /\ state'[c] = "reaped" /\ \A x \in Tree!Dir : x # c => state'[x] = state[x]
        /\ children'[d] = children[d] \ {c} /\ \A x \in Tree!Dir : x # d => children'[x] = children[x]
        /\ bad'[d] = (bad[d] \/ state[c] = "failed") /\ \A x \in Tree!Dir : x # d => bad'[x] = bad[x]
    BY <1>1, <1>2, <1>3
  <1>5. WalkTypes'
    <2>1. /\ state' \in [Tree!Dir -> {"none", "walk", "giveup", "wait", "ok", "failed", "reaped"}]
          /\ children' \in [Tree!Dir -> SUBSET Tree!Dir]
      BY <1>1, <1>2, <1>3
    <2>2. bad' \in [Tree!Dir -> BOOLEAN]
      <3>1. PICK t \in BOOLEAN : t = (bad[d] \/ state[c] = "failed")
        OBVIOUS
      <3>2. bad' = [bad EXCEPT ![d] = t]
        BY <1>1, <3>1
      <3> QED
        BY <1>2, <3>2
    <2> QED
      BY <1>0, <2>1, <2>2 DEF TreeInv, WalkTypes
  <1>6. \A x \in Tree!Dir : Complete(x)' <=> Complete(x)
    <2> TAKE x \in Tree!Dir
    <2>1. CASE x = d
      BY <1>3, <1>4, <2>1 DEF Complete
    <2>2. CASE x = c
      BY <1>0, <1>1, <1>3, <1>4, <2>2 DEF Complete
    <2>3. CASE x \notin {c, d}
      BY <1>0, <1>4, <2>3, PhaseKept
    <2> QED
      BY <2>1, <2>2, <2>3
  <1>7. Phases'
    <2> SUFFICES ASSUME NEW x \in Tree!Dir
                 PROVE  /\ state'[x] = "none" => next'[x] = 1 /\ children'[x] = {} /\ ~bad'[x] /\ buffer'[x] = <<>>
                        /\ state'[x] = "wait" => next'[x] > Len(Entries[x])
                        /\ state'[x] = "giveup" => bad'[x]
                        /\ state'[x] = "ok" => Complete(x)'
      BY DEF Phases
    <2>1. CASE x = d
      BY <1>0, <1>3, <1>4, <2>1 DEF TreeInv, Phases
    <2>2. CASE x = c
      BY <1>4, <2>2
    <2>3. CASE x \notin {c, d}
      BY <1>0, <1>4, <1>6, <2>3 DEF TreeInv, Phases
    <2> QED
      BY <2>1, <2>2, <2>3
  <1>8. Descent'
    <2>1. \A x \in Tree!Dir : state'[x] = "none" <=> state[x] = "none"
      BY <1>1, <1>4
    <2> QED
      BY <1>0, <2>1, DescentKept DEF TreeInv
  <1>9. PICK k \in Passed(d) : c = Item(d, k)
    BY <1>1 DEF TreeInv, Family
  <1>10. \A x \in Tree!Dir : Passed(x) \subseteq Items(x)
    BY PassedAreItems
  <1>11. Family'
    <2>1. ASSUME NEW x \in Tree!Dir, NEW y \in children'[x]
          PROVE  state'[y] \notin {"none", "reaped"}
      <3>1. y \in children[x] /\ y \in Tree!Dir
        BY <1>2, <1>4
      <3>2. state[y] \notin {"none", "reaped"}
        BY <3>1 DEF TreeInv, Family
      <3>3. PICK l \in Passed(x) : y = Item(x, l)
        BY <3>1 DEF TreeInv, Family
      <3>4. y # c
        BY <1>4, <1>9, <1>10, <3>3, TreeFacts
      <3> QED
        BY <1>4, <3>1, <3>2, <3>4
    <2>2. \A x \in Tree!Dir : children'[x] \subseteq children[x]
      BY <1>4
    <2> QED
      BY <1>0, <2>1, <2>2, FamilyKept DEF TreeInv
  <1>12. Thorough'
    <2> SUFFICES ASSUME NEW x \in Tree!Dir, state'[x] \in {"walk", "giveup", "wait"} \/ Complete(x)'
                 PROVE  Seen(x)'
      BY DEF Thorough
    <2>1. \A e \in Tree!Dir : state[e] = "reaped" => state'[e] = "reaped" /\ (Complete(e) => Complete(e)')
      BY <1>4, <1>6
    <2>2. CASE x # d
      <3>1. Seen(x)
        BY <1>4, <1>6, <2>2 DEF TreeInv, Thorough
      <3> QED
        BY <1>0, <1>4, <2>1, <2>2, <3>1, SeenKept
    <2>3. CASE x = d
      <3>1. Seen(d)
        BY <1>3 DEF TreeInv, Thorough
      <3> SUFFICES ASSUME NEW l \in Passed(d), Item(d, l) \notin missed
                   PROVE  /\ Item(d, l) \in Matching => Item(d, l) \in Listed(printed) \cup Listed(buffer[d])
                          /\ Item(d, l) \in Tree!Dir /\ level[d] > 1 =>
                               \/ Item(d, l) \in children'[d]
                               \/ state'[Item(d, l)] = "reaped" /\ (bad'[d] \/ Complete(Item(d, l))')
        BY <1>0, <2>3 DEF Seen, Item, Listed, Passed
      <3>2. CASE Item(d, l) = c
        <4>1. Item(d, l) \notin Matching
          BY <1>3, <3>2, TreeFacts
        <4>2. state[c] = "ok" => Complete(c)
          BY <1>3 DEF TreeInv, Phases
        <4>3. state'[c] = "reaped" /\ (bad'[d] \/ Complete(c)')
          BY <1>1, <1>3, <1>4, <1>6, <4>2
        <4>4. Complete(Item(d, l))' <=> Complete(c)'
          BY <1>0, <3>2 DEF Complete, Item
        <4> QED
          BY <3>2, <4>1, <4>3, <4>4
      <3>3. CASE Item(d, l) # c
        BY <1>4, <2>1, <3>1, <3>3 DEF Seen
      <3> QED
        BY <3>2, <3>3
    <2> QED
      BY <2>2, <2>3
  <1>13. Rightful' /\ Once'
    <2>1. Tree!Expected' = Tree!Expected
      BY <1>0, Lasting
    <2> QED
      BY <1>0, <2>1 DEF TreeInv, Rightful, Once, Listed, Passed, Item
  <1> QED
    BY <1>5, <1>7, <1>8, <1>11, <1>12, <1>13 DEF TreeInv

LEMMA TreeStutters ==
  ASSUME TreeInv, UNCHANGED <<state, bad, treeVars>>
  PROVE  TreeInv'
  <1>1. /\ depth' = depth /\ tty' = tty /\ state' = state /\ next' = next /\ level' = level
        /\ children' = children /\ bad' = bad /\ buffer' = buffer /\ printed' = printed
        /\ missed' = missed
    BY DEF treeVars
  <1>2. WalkTypes' /\ Descent' /\ Family'
    BY <1>1, DescentKept DEF TreeInv, WalkTypes, Family, Passed, Item
  <1>3. \A x \in Tree!Dir : (Complete(x)' <=> Complete(x)) /\ (Seen(x) => Seen(x)')
    BY <1>1, SeenKept, PhaseKept
  <1>4. Phases' /\ Thorough'
    BY <1>1, <1>3 DEF TreeInv, Phases, Thorough
  <1>5. Rightful' /\ Once'
    BY <1>1, Lasting DEF TreeInv, Rightful, Once, Passed, Item, Listed
  <1> QED
    BY <1>2, <1>4, <1>5 DEF TreeInv

LEMMA TreeSteps == TreeInv /\ Tree!Next => TreeInv'
  <1> SUFFICES ASSUME TreeInv, Tree!Next PROVE TreeInv'
    OBVIOUS
  <1>1. PICK d \in Tree!Dir : Tree!Walk(d)
    BY DEF Tree!Next
  <1> QED
    BY <1>1, SearchSteps, StateSteps, ForkStep, WaitStep DEF Tree!Walk

-----------------------------------------------------------------------------
(***************************************************************************)
(* lab3/zad2: sums in bins.  Putting a value into the bins adds it to the  *)
(* total (PutAdds), because the count of values is one more in binary: the *)
(* bins below its lowest bit are emptied into that bin (Carry).            *)
(***************************************************************************)
BinsUpTo == MaxBin + 1

\* AddUp exists.
AddedBy(f, m, g) == [b \in 0..m |-> IF b = 0 THEN 0 ELSE g[b - 1] + f[b - 1]]

LEMMA AddUpIs ==
  ASSUME NEW f
  PROVE  /\ Sums!AddUp(f)[0] = 0
         /\ \A b \in 1..BinsUpTo : Sums!AddUp(f)[b] = Sums!AddUp(f)[b - 1] + f[b - 1]
  <1> DEFINE Some(m) == \E g : g = AddedBy(f, m, g)
             Bad == {m \in Nat : ~Some(m)}
  <1>0. BinsUpTo \in Nat
    BY SamplesAssumption DEF BinsUpTo
  <1>1. Some(0)
    <2>1. PICK g : g = [b \in 0..0 |-> 0]
      OBVIOUS
    <2>2. \A b \in 0..0 : b = 0
      OBVIOUS
    <2>3. g = AddedBy(f, 0, g)
      BY <2>1, <2>2 DEF AddedBy
    <2> QED
      BY <2>3
  <1>2. ASSUME NEW m \in Nat, Some(m) PROVE Some(m + 1)
    <2>1. PICK g : g = AddedBy(f, m, g)
      BY <1>2
    <2>2. PICK h : h = AddedBy(f, m + 1, g)
      OBVIOUS
    <2>3. \A b \in 0..m : h[b] = g[b]
      <3> SUFFICES ASSUME NEW b \in 0..m PROVE h[b] = g[b]
        OBVIOUS
      <3>1. b \in 0..m + 1
        OBVIOUS
      <3>2. h[b] = AddedBy(f, m, g)[b]
        BY <2>2, <3>1 DEF AddedBy
      <3> QED
        BY <2>1, <3>2
    <2>4. \A b \in 0..m + 1 : b # 0 => b - 1 \in 0..m
      OBVIOUS
    <2>5. AddedBy(f, m + 1, h) = AddedBy(f, m + 1, g)
      BY <2>3, <2>4 DEF AddedBy
    <2> QED
      BY <2>2, <2>5
  <1>3. Some(BinsUpTo)
    <2> HIDE DEF Some
    <2> SUFFICES ASSUME Bad # {} PROVE FALSE
      BY <1>0
    <2>1. PICK m \in Bad : \A l \in Bad : m <= l
      BY Least
    <2>2. m # 0 /\ m \in Nat
      BY <1>1, <2>1
    <2>3. m - 1 \in Nat /\ m - 1 \notin Bad
      BY <2>1, <2>2
    <2>4. Some((m - 1) + 1)
      BY <1>2, <2>3
    <2> QED
      BY <2>1, <2>2, <2>4
  <1>4. PICK g : g = AddedBy(f, BinsUpTo, g) /\ g = CHOOSE x : x = AddedBy(f, BinsUpTo, x)
    BY <1>3
  <1>5. Sums!AddUp(f) = g
    BY <1>4 DEF Sums!AddUp, AddedBy, BinsUpTo
  <1>6. \A b \in 0..BinsUpTo : g[b] = IF b = 0 THEN 0 ELSE g[b - 1] + f[b - 1]
    BY <1>4 DEF AddedBy
  <1>7. 0 \in 0..BinsUpTo /\ \A b \in 1..BinsUpTo : b \in 0..BinsUpTo /\ b # 0
    BY <1>0
  <1>8. g[0] = 0 /\ \A b \in 1..BinsUpTo : g[b] = g[b - 1] + f[b - 1]
    BY <1>6, <1>7
  <1> QED
    BY Zenon, <1>5, <1>8

\* Shift exists.
HalvesBy(x, m, g) == [b \in 0..m |-> IF b = 0 THEN x ELSE g[b - 1] \div 2]

LEMMA ShiftIs ==
  ASSUME NEW x
  PROVE  /\ Sums!Shift(x)[0] = x
         /\ \A b \in 1..BinsUpTo : Sums!Shift(x)[b] = Sums!Shift(x)[b - 1] \div 2
  <1> DEFINE Some(m) == \E g : g = HalvesBy(x, m, g)
             Bad == {m \in Nat : ~Some(m)}
  <1>0. BinsUpTo \in Nat
    BY SamplesAssumption DEF BinsUpTo
  <1>1. Some(0)
    <2>1. PICK g : g = [b \in 0..0 |-> x]
      OBVIOUS
    <2>2. \A b \in 0..0 : b = 0
      OBVIOUS
    <2>3. g = HalvesBy(x, 0, g)
      BY <2>1, <2>2 DEF HalvesBy
    <2> QED
      BY <2>3
  <1>2. ASSUME NEW m \in Nat, Some(m) PROVE Some(m + 1)
    <2>1. PICK g : g = HalvesBy(x, m, g)
      BY <1>2
    <2>2. PICK h : h = HalvesBy(x, m + 1, g)
      OBVIOUS
    <2>3. \A b \in 0..m : h[b] = g[b]
      <3> SUFFICES ASSUME NEW b \in 0..m PROVE h[b] = g[b]
        OBVIOUS
      <3>1. b \in 0..m + 1
        OBVIOUS
      <3>2. h[b] = HalvesBy(x, m, g)[b]
        BY <2>2, <3>1 DEF HalvesBy
      <3> QED
        BY <2>1, <3>2
    <2>4. \A b \in 0..m + 1 : b # 0 => b - 1 \in 0..m
      OBVIOUS
    <2>5. HalvesBy(x, m + 1, h) = HalvesBy(x, m + 1, g)
      BY <2>3, <2>4 DEF HalvesBy
    <2> QED
      BY <2>2, <2>5
  <1>3. Some(BinsUpTo)
    <2> HIDE DEF Some
    <2> SUFFICES ASSUME Bad # {} PROVE FALSE
      BY <1>0
    <2>1. PICK m \in Bad : \A l \in Bad : m <= l
      BY Least
    <2>2. m # 0 /\ m \in Nat
      BY <1>1, <2>1
    <2>3. m - 1 \in Nat /\ m - 1 \notin Bad
      BY <2>1, <2>2
    <2>4. Some((m - 1) + 1)
      BY <1>2, <2>3
    <2> QED
      BY <2>1, <2>2, <2>4
  <1>4. PICK g : g = HalvesBy(x, BinsUpTo, g) /\ g = CHOOSE y : y = HalvesBy(x, BinsUpTo, y)
    BY <1>3
  <1>5. Sums!Shift(x) = g
    BY <1>4 DEF Sums!Shift, HalvesBy, BinsUpTo
  <1>6. \A b \in 0..BinsUpTo : g[b] = IF b = 0 THEN x ELSE g[b - 1] \div 2
    BY <1>4 DEF HalvesBy
  <1>7. 0 \in 0..BinsUpTo /\ \A b \in 1..BinsUpTo : b \in 0..BinsUpTo /\ b # 0
    BY <1>0
  <1>8. g[0] = x /\ \A b \in 1..BinsUpTo : g[b] = g[b - 1] \div 2
    BY <1>6, <1>7
  <1> QED
    BY Zenon, <1>5, <1>8

\* Sums are numbers; where two functions agree, their sums grow alike.
LEMMA SumNat ==
  ASSUME NEW f \in [Sums!Bin -> Nat], NEW b \in 0..BinsUpTo
  PROVE  Sums!AddUp(f)[b] \in Nat
  <1> DEFINE Bad == {k \in 0..BinsUpTo : Sums!AddUp(f)[k] \notin Nat}
  <1>1. BinsUpTo \in Nat /\ \A k \in 1..BinsUpTo : f[k - 1] \in Nat
    <2>1. \A k \in 1..BinsUpTo : k - 1 \in Sums!Bin
      BY SamplesAssumption DEF BinsUpTo, Sums!Bin
    <2> QED
      BY <2>1, SamplesAssumption DEF BinsUpTo
  <1> SUFFICES ASSUME Bad # {} PROVE FALSE
    OBVIOUS
  <1>2. PICK m \in Bad : \A l \in Bad : m <= l
    <2>1. Bad \subseteq Nat
      BY <1>1
    <2> HIDE DEF Bad
    <2> QED
      BY <2>1, Least
  <1>3. m # 0
    BY <1>2, AddUpIs
  <1>4. m \in 1..BinsUpTo /\ m - 1 \in 0..BinsUpTo /\ m - 1 \notin Bad
    BY <1>1, <1>2, <1>3
  <1>5. Sums!AddUp(f)[m - 1] \in Nat /\ f[m - 1] \in Nat
    BY <1>1, <1>4
  <1>6. Sums!AddUp(f)[m] = Sums!AddUp(f)[m - 1] + f[m - 1]
    BY <1>4, AddUpIs
  <1> QED
    BY <1>2, <1>5, <1>6

LEMMA SumsAlike ==
  ASSUME NEW f \in [Sums!Bin -> Nat], NEW g \in [Sums!Bin -> Nat],
         NEW a \in 0..BinsUpTo, NEW b \in a..BinsUpTo,
         \A k \in a..b - 1 : g[k] = f[k]
  PROVE  Sums!AddUp(g)[b] + Sums!AddUp(f)[a] = Sums!AddUp(f)[b] + Sums!AddUp(g)[a]
  <1> DEFINE Alike(k) == Sums!AddUp(g)[k] + Sums!AddUp(f)[a] = Sums!AddUp(f)[k] + Sums!AddUp(g)[a]
             Bad == {k \in a..b : ~Alike(k)}
  <1>1. BinsUpTo \in Nat
    BY SamplesAssumption DEF BinsUpTo
  <1>2. Bad = {}
    <2> SUFFICES ASSUME Bad # {} PROVE FALSE
      OBVIOUS
    <2>1. PICK m \in Bad : \A l \in Bad : m <= l
      <3> HIDE DEF Alike
      <3>1. Bad \subseteq Nat
        BY <1>1
      <3> HIDE DEF Bad
      <3> QED
        BY <3>1, Least
    <2>2. m # a
      <3>1. Sums!AddUp(g)[a] \in Nat /\ Sums!AddUp(f)[a] \in Nat
        BY SumNat
      <3> QED
        BY <2>1, <3>1
    <2>3. m \in 1..BinsUpTo /\ m - 1 \in a..b - 1 /\ m - 1 \in 0..BinsUpTo /\ m - 1 \in Sums!Bin /\ m - 1 \notin Bad
      <3> HIDE DEF Alike
      <3>1. m \in 1..BinsUpTo /\ m - 1 \in a..b - 1 /\ m - 1 \in 0..BinsUpTo /\ m - 1 \notin Bad
        BY <1>1, <2>1, <2>2
      <3>2. m - 1 \in Sums!Bin
        BY <3>1, SamplesAssumption DEF Sums!Bin, BinsUpTo
      <3> QED
        BY <3>1, <3>2
    <2>4. Alike(m - 1)
      <3>1. m - 1 \in a..b
        BY <1>1, <2>3
      <3> HIDE DEF Alike
      <3> QED
        BY <2>3, <3>1
    <2>5. /\ Sums!AddUp(g)[m] = Sums!AddUp(g)[m - 1] + g[m - 1]
          /\ Sums!AddUp(f)[m] = Sums!AddUp(f)[m - 1] + f[m - 1]
          /\ g[m - 1] = f[m - 1] /\ f[m - 1] \in Nat
      BY <2>3, AddUpIs
    <2>6. /\ Sums!AddUp(g)[m - 1] \in Nat /\ Sums!AddUp(f)[m - 1] \in Nat
          /\ Sums!AddUp(g)[a] \in Nat /\ Sums!AddUp(f)[a] \in Nat
      BY <2>3, SumNat
    <2>7. Alike(m)
      BY <2>4, <2>5, <2>6
    <2> QED
      BY <2>1, <2>7
  <1>3. b \in a..b
    BY <1>1
  <1> QED
    BY <1>2, <1>3

LEMMA SumFlat ==
  ASSUME NEW f \in [Sums!Bin -> Nat], NEW a \in 0..BinsUpTo, NEW b \in a..BinsUpTo,
         \A k \in a..b - 1 : f[k] = 0
  PROVE  Sums!AddUp(f)[b] = Sums!AddUp(f)[a]
  <1> DEFINE Bad == {k \in a..b : Sums!AddUp(f)[k] # Sums!AddUp(f)[a]}
  <1>1. BinsUpTo \in Nat
    BY SamplesAssumption DEF BinsUpTo
  <1>2. Bad = {}
    <2> SUFFICES ASSUME Bad # {} PROVE FALSE
      OBVIOUS
    <2>1. PICK m \in Bad : \A l \in Bad : m <= l
      <3>1. Bad \subseteq Nat
        BY <1>1
      <3> HIDE DEF Bad
      <3> QED
        BY <3>1, Least
    <2>2. m # a
      BY <2>1
    <2>3. m \in 1..BinsUpTo /\ m - 1 \in a..b - 1 /\ m - 1 \in a..b /\ m - 1 \in 0..BinsUpTo /\ m - 1 \notin Bad
      BY <1>1, <2>1, <2>2
    <2>4. Sums!AddUp(f)[m] = Sums!AddUp(f)[m - 1] + 0 /\ Sums!AddUp(f)[m - 1] \in Nat
      BY <2>3, AddUpIs, SumNat
    <2> QED
      BY <2>1, <2>3, <2>4
  <1>3. b \in a..b
    BY <1>1
  <1> QED
    BY <1>2, <1>3

\* A value and the bins below c that it goes into.
Carries(f, g, h, c, v) ==
  /\ f \in [Sums!Bin -> Nat] /\ g \in [Sums!Bin -> Nat] /\ h \in [Sums!Bin -> Nat]
  /\ c \in Sums!Bin /\ v \in Nat /\ f[c] = 0
  /\ \A k \in 0..c - 1 : h[k] = f[k] /\ g[k] = 0
  /\ \A k \in c..MaxBin : h[k] = 0
  /\ g[c] = v + Sums!AddUp(h)[BinsUpTo]
  /\ \A k \in c + 1..MaxBin : g[k] = f[k]

LEMMA SumCarries ==
  ASSUME NEW f, NEW g, NEW h, NEW c, NEW v, Carries(f, g, h, c, v)
  PROVE  Sums!AddUp(g)[BinsUpTo] = v + Sums!AddUp(f)[BinsUpTo]
  <1> USE DEF Carries
  <1>1. /\ MaxBin \in Nat /\ BinsUpTo = MaxBin + 1 /\ c \in 0..BinsUpTo /\ c + 1 \in 1..BinsUpTo
        /\ BinsUpTo \in c..BinsUpTo /\ BinsUpTo \in c + 1..BinsUpTo /\ c \in 0..c
        /\ BinsUpTo - 1 = MaxBin /\ c + 1 \in 0..BinsUpTo /\ c + 1 - 1 = c
    BY SamplesAssumption DEF BinsUpTo, Sums!Bin
  <1>2. Sums!AddUp(h)[BinsUpTo] = Sums!AddUp(h)[c]
    BY <1>1, SumFlat
  <1>3. Sums!AddUp(h)[c] + Sums!AddUp(f)[0] = Sums!AddUp(f)[c] + Sums!AddUp(h)[0]
    <2>1. 0 \in 0..BinsUpTo /\ c \in 0..BinsUpTo
      BY <1>1
    <2> QED
      BY <2>1, SumsAlike
  <1>4. Sums!AddUp(g)[c] = Sums!AddUp(g)[0]
    <2>1. 0 \in 0..BinsUpTo /\ c \in 0..BinsUpTo
      BY <1>1
    <2> QED
      BY <2>1, SumFlat
  <1>5. Sums!AddUp(f)[0] = 0 /\ Sums!AddUp(h)[0] = 0 /\ Sums!AddUp(g)[0] = 0
    BY AddUpIs
  <1>6. Sums!AddUp(g)[c + 1] = Sums!AddUp(g)[c] + g[c] /\ Sums!AddUp(f)[c + 1] = Sums!AddUp(f)[c] + f[c]
    BY <1>1, AddUpIs
  <1>7. Sums!AddUp(g)[BinsUpTo] + Sums!AddUp(f)[c + 1] = Sums!AddUp(f)[BinsUpTo] + Sums!AddUp(g)[c + 1]
    BY <1>1, SumsAlike
  <1>8. /\ Sums!AddUp(h)[c] \in Nat /\ Sums!AddUp(f)[c] \in Nat
        /\ Sums!AddUp(g)[BinsUpTo] \in Nat /\ Sums!AddUp(f)[BinsUpTo] \in Nat
    BY <1>1, SumNat
  <1> QED
    BY <1>2, <1>3, <1>4, <1>5, <1>6, <1>7, <1>8

\* Shifted numbers are numbers, and grow with the number.
LEMMA ShiftNat ==
  ASSUME NEW x \in Nat, NEW y \in Nat, x <= y, NEW b \in 0..BinsUpTo
  PROVE  Sums!Shift(x)[b] \in Nat /\ Sums!Shift(y)[b] \in Nat /\ Sums!Shift(x)[b] <= Sums!Shift(y)[b]
  <1> DEFINE Grown(k) == Sums!Shift(x)[k] \in Nat /\ Sums!Shift(y)[k] \in Nat /\ Sums!Shift(x)[k] <= Sums!Shift(y)[k]
             Bad == {k \in 0..BinsUpTo : ~Grown(k)}
  <1>1. BinsUpTo \in Nat
    BY SamplesAssumption DEF BinsUpTo
  <1>2. Bad = {}
    <2> SUFFICES ASSUME Bad # {} PROVE FALSE
      OBVIOUS
    <2>1. PICK m \in Bad : \A l \in Bad : m <= l
      <3> HIDE DEF Grown
      <3>1. Bad \subseteq Nat
        BY <1>1
      <3> HIDE DEF Bad
      <3> QED
        BY <3>1, Least
    <2>2. m # 0
      BY <2>1, ShiftIs
    <2>3. m \in 1..BinsUpTo /\ m - 1 \in 0..BinsUpTo /\ m - 1 \notin Bad
      <3> HIDE DEF Grown
      <3> QED
        BY <1>1, <2>1, <2>2
    <2>4. Grown(m - 1)
      <3> HIDE DEF Grown
      <3> QED
        BY <2>3
    <2>5. PICK u \in Nat, w \in Nat : u = Sums!Shift(x)[m - 1] /\ w = Sums!Shift(y)[m - 1] /\ u <= w
      BY <2>4
    <2>6. Sums!Shift(x)[m] = u \div 2 /\ Sums!Shift(y)[m] = w \div 2
      BY <2>3, <2>5, ShiftIs
    <2>7. u \div 2 \in Nat /\ w \div 2 \in Nat /\ u \div 2 <= w \div 2
      BY <2>5, DivGrows
    <2> QED
      BY <2>1, <2>6, <2>7
  <1> QED
    BY <1>2

LEMMA Parity ==
  ASSUME NEW u \in Nat
  PROVE  /\ u % 2 = 0 => (u + 1) % 2 = 1 /\ (u + 1) \div 2 = u \div 2
         /\ u % 2 # 0 => u % 2 = 1 /\ (u + 1) % 2 = 0 /\ (u + 1) \div 2 = (u \div 2) + 1
  OBVIOUS

\* One more in binary: the ones below the lowest zero become zeros, and that
\* zero, which has a bin, becomes a one.
LEMMA Carry ==
  ASSUME NEW x \in Nat, Sums!Shift(x + 1)[BinsUpTo] = 0
  PROVE  \E c \in Sums!Bin :
           /\ Sums!Bit(x, c) = 0 /\ Sums!Bit(x + 1, c) = 1
           /\ \A k \in 0..c - 1 : Sums!Bit(x, k) = 1 /\ Sums!Bit(x + 1, k) = 0
           /\ \A k \in c + 1..MaxBin : Sums!Bit(x + 1, k) = Sums!Bit(x, k)
  <1> DEFINE Zeros == {k \in 0..MaxBin : Sums!Shift(x)[k] % 2 = 0}
  <1>1. /\ MaxBin \in Nat /\ BinsUpTo = MaxBin + 1 /\ BinsUpTo \in Nat
    BY SamplesAssumption DEF BinsUpTo
  <1>2. \A k \in 0..BinsUpTo : Sums!Shift(x)[k] \in Nat /\ Sums!Shift(x + 1)[k] \in Nat
    BY ShiftNat
  <1>3. ASSUME NEW n0 \in 0..BinsUpTo, \A k \in 0..n0 - 1 : Sums!Shift(x)[k] % 2 # 0
        PROVE  \A k \in 0..n0 : Sums!Shift(x + 1)[k] = Sums!Shift(x)[k] + 1
    <2> DEFINE Bad == {k \in 0..n0 : Sums!Shift(x + 1)[k] # Sums!Shift(x)[k] + 1}
    <2> SUFFICES ASSUME Bad # {} PROVE FALSE
      OBVIOUS
    <2>1. PICK m \in Bad : \A l \in Bad : m <= l
      <3>1. Bad \subseteq Nat
        BY <1>1
      <3> HIDE DEF Bad
      <3> QED
        BY <3>1, Least
    <2>2. m # 0
      BY <2>1, ShiftIs
    <2>3. m \in 1..BinsUpTo /\ m - 1 \in 0..n0 - 1 /\ m - 1 \in 0..n0 /\ m - 1 \in 0..BinsUpTo /\ m - 1 \notin Bad
      BY <1>1, <2>1, <2>2
    <2>4. PICK u \in Nat : u = Sums!Shift(x)[m - 1]
      BY <1>2, <2>3
    <2>5. u % 2 # 0 /\ Sums!Shift(x + 1)[m - 1] = u + 1
      BY <1>3, <2>3, <2>4
    <2>6. Sums!Shift(x)[m] = u \div 2 /\ Sums!Shift(x + 1)[m] = (u + 1) \div 2
      BY <2>3, <2>4, <2>5, ShiftIs
    <2>7. (u + 1) \div 2 = (u \div 2) + 1
      BY <2>5, Parity
    <2> QED
      BY <2>1, <2>6, <2>7
  <1>4. Zeros # {}
    <2> SUFFICES ASSUME Zeros = {} PROVE FALSE
      OBVIOUS
    <2>1. \A k \in 0..BinsUpTo - 1 : Sums!Shift(x)[k] % 2 # 0
      BY <1>1
    <2>2. BinsUpTo \in 0..BinsUpTo
      BY <1>1
    <2>3. Sums!Shift(x + 1)[BinsUpTo] = Sums!Shift(x)[BinsUpTo] + 1
      BY <1>3, <2>1, <2>2
    <2> QED
      BY <1>2, <2>2, <2>3
  <1>5. PICK c \in Zeros : \A l \in Zeros : c <= l
    <2>1. Zeros \subseteq Nat
      BY <1>1
    <2> HIDE DEF Zeros
    <2> QED
      BY <1>4, <2>1, Least
  <1>6. /\ c \in 0..MaxBin /\ c \in 0..BinsUpTo /\ Sums!Shift(x)[c] % 2 = 0
        /\ \A k \in 0..c - 1 : k \in 0..BinsUpTo /\ Sums!Shift(x)[k] % 2 # 0
    BY <1>1, <1>5
  <1>7. \A k \in 0..c : Sums!Shift(x + 1)[k] = Sums!Shift(x)[k] + 1
    BY <1>3, <1>6
  <1>8. Sums!Bit(x, c) = 0 /\ Sums!Bit(x + 1, c) = 1
    <2>1. PICK u \in Nat : u = Sums!Shift(x)[c] /\ u % 2 = 0 /\ Sums!Shift(x + 1)[c] = u + 1
      BY <1>2, <1>6, <1>7
    <2> QED
      BY <2>1, Parity DEF Sums!Bit
  <1>9. ASSUME NEW k \in 0..c - 1 PROVE Sums!Bit(x, k) = 1 /\ Sums!Bit(x + 1, k) = 0
    <2>1. k \in 0..c
      BY <1>1, <1>6
    <2>2. PICK u \in Nat : u = Sums!Shift(x)[k] /\ u % 2 # 0 /\ Sums!Shift(x + 1)[k] = u + 1
      BY <1>2, <1>6, <1>7, <2>1
    <2> QED
      BY <2>2, Parity DEF Sums!Bit
  <1>10. \A k \in c + 1..BinsUpTo : Sums!Shift(x + 1)[k] = Sums!Shift(x)[k]
    <2> DEFINE Bad == {k \in c + 1..BinsUpTo : Sums!Shift(x + 1)[k] # Sums!Shift(x)[k]}
    <2> SUFFICES ASSUME Bad # {} PROVE FALSE
      OBVIOUS
    <2>1. PICK m \in Bad : \A l \in Bad : m <= l
      <3>1. Bad \subseteq Nat
        BY <1>1, <1>6
      <3> HIDE DEF Bad
      <3> QED
        BY <3>1, Least
    <2>2. m \in 1..BinsUpTo /\ m - 1 \in c..BinsUpTo /\ m - 1 \in 0..BinsUpTo
      BY <1>1, <1>6, <2>1
    <2>3. Sums!Shift(x)[m] = Sums!Shift(x)[m - 1] \div 2 /\ Sums!Shift(x + 1)[m] = Sums!Shift(x + 1)[m - 1] \div 2
      BY <2>2, ShiftIs
    <2>4. CASE m = c + 1
      <3>1. m - 1 = c
        BY <1>6, <2>4
      <3>2. PICK u \in Nat : u = Sums!Shift(x)[c] /\ u % 2 = 0 /\ Sums!Shift(x + 1)[c] = u + 1
        BY <1>2, <1>6, <1>7
      <3> QED
        BY <2>1, <2>3, <3>1, <3>2, Parity
    <2>5. CASE m # c + 1
      <3>1. m - 1 \in c + 1..BinsUpTo /\ m - 1 \notin Bad
        BY <1>6, <2>1, <2>2, <2>5
      <3> QED
        BY <2>1, <2>3, <3>1
    <2> QED
      BY <2>4, <2>5
  <1>11. \A k \in c + 1..MaxBin : Sums!Bit(x + 1, k) = Sums!Bit(x, k)
    <2>1. \A k \in c + 1..MaxBin : k \in c + 1..BinsUpTo
      BY <1>1, <1>6
    <2> QED
      BY <1>10, <2>1 DEF Sums!Bit
  <1> QED
    BY <1>6, <1>8, <1>9, <1>11 DEF Sums!Bin

\* A value put into the bins is added to their total.
LEMMA PutAdds ==
  ASSUME samples \in Nat, NEW acc \in [Sums!Bin -> [Sums!Sample -> Nat]], NEW x \in Nat,
         Sums!Shift(x + 1)[BinsUpTo] = 0, NEW value \in [Sums!Sample -> Nat]
  PROVE  /\ Sums!Put(acc, x + 1, value) \in [Sums!Bin -> [Sums!Sample -> Nat]]
         /\ Sums!Total(Sums!Put(acc, x + 1, value), x + 1) = Sums!Plus(value, Sums!Total(acc, x))
  <1>1. PICK c \in Sums!Bin :
          /\ Sums!Bit(x, c) = 0 /\ Sums!Bit(x + 1, c) = 1
          /\ \A k \in 0..c - 1 : Sums!Bit(x, k) = 1 /\ Sums!Bit(x + 1, k) = 0
          /\ \A k \in c + 1..MaxBin : Sums!Bit(x + 1, k) = Sums!Bit(x, k)
    BY Carry
  <1>2. MaxBin \in Nat /\ BinsUpTo = MaxBin + 1 /\ c \in 0..MaxBin /\ Sums!Bin = 0..MaxBin
    BY SamplesAssumption DEF BinsUpTo, Sums!Bin
  <1>3. Sums!Ctz(x + 1) = c
    <2> DEFINE Ones == {b \in Sums!Bin : Sums!Bit(x + 1, b) = 1}
    <2>1. c \in Ones /\ \A b \in Ones : c <= b /\ b \in Int
      BY <1>1, <1>2
    <2>2. Sums!Min(Ones) = c
      <3> HIDE DEF Ones
      <3>1. c \in Int
        BY <1>2
      <3>2. \A m \in Ones : (\A l \in Ones : m <= l) => m = c
        BY <2>1, <3>1
      <3>3. c \in Ones /\ \A l \in Ones : c <= l
        BY <2>1
      <3> QED
        BY <3>2, <3>3, Zenon DEF Sums!Min
    <2> QED
      BY <2>2 DEF Sums!Ctz
  <1>4. PICK new : new = Sums!Put(acc, x + 1, value)
    OBVIOUS
  <1> DEFINE F(y) == [b \in Sums!Bin |-> IF b \in {e \in Sums!Bin : Sums!Bit(x, e) = 1} THEN acc[b][y] ELSE 0]
             G(y) == [b \in Sums!Bin |-> IF b \in {e \in Sums!Bin : Sums!Bit(x + 1, e) = 1} THEN new[b][y] ELSE 0]
             H(y) == [b \in Sums!Bin |-> IF b \in 0..c - 1 THEN acc[b][y] ELSE 0]
             carried == Sums!Plus(value, Sums!SumOf(acc, 0..c - 1))
  <1>5. new = [acc EXCEPT ![c] = carried]
    BY <1>3, <1>4 DEF Sums!Put
  <1>6. ASSUME NEW y \in Sums!Sample
        PROVE  F(y) \in [Sums!Bin -> Nat] /\ H(y) \in [Sums!Bin -> Nat]
    OBVIOUS
  <1>7. ASSUME NEW y \in Sums!Sample
        PROVE  /\ carried[y] = value[y] + Sums!AddUp(H(y))[BinsUpTo]
               /\ carried[y] \in Nat /\ value[y] \in Nat
    <2>1. carried[y] = value[y] + Sums!AddUp(H(y))[BinsUpTo]
      BY <1>7 DEF Sums!Plus, Sums!SumOf, BinsUpTo
    <2>2. BinsUpTo \in 0..BinsUpTo
      BY <1>2
    <2>3. Sums!AddUp(H(y))[BinsUpTo] \in Nat
      <3>1. H(y) \in [Sums!Bin -> Nat]
        BY <1>6, <1>7
      <3> HIDE DEF H
      <3> QED
        BY <2>2, <3>1, SumNat
    <2>4. value[y] \in Nat
      BY <1>7
    <2> HIDE DEF carried, H
    <2> QED
      BY <2>1, <2>3, <2>4
  <1>8. carried \in [Sums!Sample -> Nat]
    <2>1. DOMAIN carried = Sums!Sample /\ carried = [y \in Sums!Sample |-> carried[y]]
      BY DEF Sums!Plus
    <2> HIDE DEF carried
    <2> QED
      BY <1>7, <2>1
  <1>9. new \in [Sums!Bin -> [Sums!Sample -> Nat]]
    <2> HIDE DEF carried
    <2> QED
      BY <1>5, <1>8
  <1>10. ASSUME NEW y \in Sums!Sample
         PROVE  Sums!Total(new, x + 1)[y] = value[y] + Sums!Total(acc, x)[y]
    <2>1. /\ Sums!Total(new, x + 1)[y] = Sums!AddUp(G(y))[BinsUpTo]
          /\ Sums!Total(acc, x)[y] = Sums!AddUp(F(y))[BinsUpTo]
      BY <1>10 DEF Sums!Total, Sums!SumOf, BinsUpTo
    <2>2. G(y) \in [Sums!Bin -> Nat] /\ F(y) \in [Sums!Bin -> Nat] /\ H(y) \in [Sums!Bin -> Nat]
      BY <1>6, <1>9, <1>10
    <2>3. F(y)[c] = 0 /\ (\A k \in 0..c - 1 : H(y)[k] = F(y)[k] /\ G(y)[k] = 0)
      <3>1. \A k \in 0..c - 1 : k \in Sums!Bin
        BY <1>2
      <3> QED
        BY <1>1, <3>1
    <2>4. \A k \in c..MaxBin : H(y)[k] = 0
      BY <1>2
    <2>5. G(y)[c] = value[y] + Sums!AddUp(H(y))[BinsUpTo]
      <3>1. new[c] = carried
        BY <1>5
      <3>2. G(y)[c] = new[c][y]
        BY <1>1
      <3> QED
        BY <1>7, <1>10, <3>1, <3>2
    <2>6. \A k \in c + 1..MaxBin : G(y)[k] = F(y)[k]
      <3>1. \A k \in c + 1..MaxBin : k \in Sums!Bin /\ k # c
        BY <1>2
      <3>2. \A k \in c + 1..MaxBin : new[k] = acc[k]
        <4> HIDE DEF carried
        <4> QED
          BY <1>5, <3>1
      <3> QED
        BY <1>1, <3>1, <3>2
    <2>7. value[y] \in Nat
      BY <1>10
    <2> HIDE DEF F, G, H, carried
    <2>8. Sums!AddUp(G(y))[BinsUpTo] = value[y] + Sums!AddUp(F(y))[BinsUpTo]
      <3>1. PICK f, g, h, v : f = F(y) /\ g = G(y) /\ h = H(y) /\ v = value[y]
        OBVIOUS
      <3>2. Carries(f, g, h, c, v)
        BY <2>2, <2>3, <2>4, <2>5, <2>6, <2>7, <3>1 DEF Carries
      <3>3. Sums!AddUp(g)[BinsUpTo] = v + Sums!AddUp(f)[BinsUpTo]
        BY <3>2, SumCarries
      <3> QED
        BY <3>1, <3>3
    <2> QED
      BY <2>1, <2>8
  <1>11. Sums!Total(new, x + 1) = Sums!Plus(value, Sums!Total(acc, x))
    <2>1. Sums!Total(new, x + 1) = [y \in Sums!Sample |-> Sums!Total(new, x + 1)[y]]
      BY DEF Sums!Total, Sums!SumOf
    <2>2. Sums!Plus(value, Sums!Total(acc, x)) = [y \in Sums!Sample |-> value[y] + Sums!Total(acc, x)[y]]
      BY DEF Sums!Plus
    <2> QED
      BY <1>10, <2>1, <2>2
  <1> QED
    BY <1>4, <1>9, <1>11

-----------------------------------------------------------------------------
(***************************************************************************)
(* Worker w has the samples w - 1, w - 1 + workers, ... below s[w] in its  *)
(* bins; the parent has those of the first mask[0] workers.                *)
(***************************************************************************)
PartBelow(w, limit) == [x \in Sums!Sample |-> IF x % workers = w - 1 /\ x < limit THEN 1 ELSE 0]
FirstParts(k) == [x \in Sums!Sample |-> IF x % workers < k THEN 1 ELSE 0]

SumTypes ==
  /\ samples \in 2..MaxSamples /\ workers \in 1..MaxWorkers
  /\ mask \in [0..workers -> Nat] /\ bins \in [0..workers -> [Sums!Bin -> [Sums!Sample -> Nat]]]
  /\ s \in [Sums!Worker -> Nat] /\ file = [w \in Sums!Worker |-> file[w]]
  /\ state \in [Sums!Worker -> {"run", "ok", "failed", "reaped"}]

WorkerSum(w) ==
  /\ mask[w] <= s[w] /\ mask[w] <= samples /\ s[w] % workers = w - 1
  /\ Sums!Total(bins[w], mask[w]) = PartBelow(w, s[w])
  /\ state[w] = "ok" => file[w] = PartBelow(w, samples)
  /\ state[w] = "reaped" => bad \/ file[w] = PartBelow(w, samples)

ParentSum ==
  /\ mask[0] <= workers
  /\ Sums!Total(bins[0], mask[0]) = FirstParts(mask[0])

IntInv == /\ SumTypes /\ ParentSum /\ \A w \in Sums!Worker : WorkerSum(w)
          /\ Sums!EachSampleOnce

LEMMA MultiplesApart ==
  ASSUME NEW m \in Nat, NEW p \in Int, NEW q \in Int, q < p
  PROVE  m * q + m <= m * p
  <1>1. PICK d \in Nat : p = q + 1 + d
    <2>1. p - q - 1 \in Nat /\ p = q + 1 + (p - q - 1)
      OBVIOUS
    <2> QED
      BY <2>1
  <1>2. m * p = m * q + m + m * d
    BY <1>1
  <1>3. m * d \in Nat
    OBVIOUS
  <1> QED
    BY <1>2, <1>3

\* Numbers that differ by less than m and leave the same rest are the same.
LEMMA SameRest ==
  ASSUME NEW m \in Nat \ {0}, NEW a \in Int, NEW x \in Int, a <= x, x < a + m, x % m = a % m
  PROVE  x = a
  <1>1. PICK q \in Int, r \in Int : r = a % m /\ a = m * q + r
    BY Divided
  <1>2. PICK p \in Int, t \in Int : t = x % m /\ x = m * p + t
    BY Divided
  <1>3. PICK u \in Int, v \in Int : u = m * q /\ v = m * p
    OBVIOUS
  <1>4. r = t /\ a = u + r /\ x = v + r
    BY <1>1, <1>2, <1>3
  <1>5. ~(p < q)
    <2> SUFFICES ASSUME p < q PROVE FALSE
      OBVIOUS
    <2>1. v + m <= u
      BY <1>3, MultiplesApart
    <2> QED
      BY <1>4, <2>1
  <1>6. ~(q < p)
    <2> SUFFICES ASSUME q < p PROVE FALSE
      OBVIOUS
    <2>1. u + m <= v
      BY <1>3, MultiplesApart
    <2> QED
      BY <1>4, <2>1
  <1>7. p = q
    BY <1>5, <1>6
  <1> QED
    BY <1>3, <1>4, <1>7

LEMMA Residue ==
  ASSUME NEW m \in Nat \ {0}, NEW a \in Nat
  PROVE  /\ (a + m) % m = a % m
         /\ a < m => a % m = a
         /\ a % m \in 0..m - 1 /\ a % m <= a
  <1>1. PICK q \in Int, r \in Int : /\ q = a \div m /\ r = a % m
                                    /\ a = m * q + r /\ 0 <= r /\ r < m
    BY Divided
  <1>2. q \in Nat
    BY <1>1, DivGrows
  <1>3. r <= a
    <2>1. m * q \in Nat
      BY <1>2
    <2> QED
      BY <1>1, <2>1
  <1>4. (a + m) % m = a % m
    <2>1. PICK p \in Int, t \in Int : /\ t = (a + m) % m /\ a + m = m * p + t /\ 0 <= t /\ t < m
      <3>1. PICK e \in Int : e = a + m
        OBVIOUS
      <3>2. \E p, t \in Int : t = e % m /\ e = m * p + t /\ 0 <= t /\ t < m
        BY Divided
      <3> QED
        BY <3>1, <3>2
    <2>2. PICK u \in Int, v \in Int : u = m * q /\ v = m * p
      OBVIOUS
    <2>3. a = u + r /\ a + m = v + t
      BY <1>1, <2>1, <2>2
    <2>4. m * (q + 1) = u + m /\ q + 1 \in Int
      BY <1>2, <2>2
    <2>5. ~(p < q + 1)
      <3> SUFFICES ASSUME p < q + 1 PROVE FALSE
        OBVIOUS
      <3>1. v + m <= u + m
        BY <2>2, <2>4, MultiplesApart
      <3> QED
        BY <1>1, <2>1, <2>3, <3>1
    <2>6. ~(q + 1 < p)
      <3> SUFFICES ASSUME q + 1 < p PROVE FALSE
        OBVIOUS
      <3>1. u + m + m <= v
        BY <2>2, <2>4, MultiplesApart
      <3> QED
        BY <1>1, <2>1, <2>3, <3>1
    <2>7. p = q + 1
      BY <1>2, <2>1, <2>5, <2>6
    <2>8. v = u + m
      BY <2>2, <2>4, <2>7
    <2>9. t = r
      BY <1>1, <2>1, <2>2, <2>3, <2>8
    <2> QED
      BY <1>1, <2>1, <2>9
  <1>5. a < m => a % m = a
    OBVIOUS
  <1> QED
    BY <1>1, <1>3, <1>4, <1>5

\* Empty bins have the sum of no samples.
LEMMA EmptyTotal ==
  ASSUME NEW acc, acc = [b \in Sums!Bin |-> Sums!Nothing], NEW k
  PROVE  Sums!Total(acc, k) = [x \in Sums!Sample |-> 0]
  <1>1. ASSUME NEW x \in Sums!Sample PROVE Sums!Total(acc, k)[x] = 0
    <2>1. PICK f : f = [b \in Sums!Bin |-> IF b \in {e \in Sums!Bin : Sums!Bit(k, e) = 1} THEN acc[b][x] ELSE 0]
      OBVIOUS
    <2>2. f = [b \in Sums!Bin |-> 0]
      BY <1>1, <2>1 DEF Sums!Nothing
    <2>3. 0 \in 0..BinsUpTo /\ BinsUpTo \in 0..BinsUpTo /\ 0..BinsUpTo - 1 = Sums!Bin
      BY SamplesAssumption DEF BinsUpTo, Sums!Bin
    <2>4. f \in [Sums!Bin -> Nat] /\ \A b \in 0..BinsUpTo - 1 : f[b] = 0
      BY <2>2, <2>3
    <2>5. Sums!AddUp(f)[BinsUpTo] = Sums!AddUp(f)[0]
      BY <2>3, <2>4, SumFlat
    <2>6. Sums!Total(acc, k)[x] = Sums!AddUp(f)[BinsUpTo]
      BY <1>1, <2>1 DEF Sums!Total, Sums!SumOf, BinsUpTo
    <2> QED
      BY <2>5, <2>6, AddUpIs
  <1> QED
    BY <1>1 DEF Sums!Total, Sums!SumOf

\* The sums that the bins of a program with these arguments can hold.
LEMMA BinsSuffice ==
  ASSUME NEW k \in Nat, k <= MaxSamples \/ k <= MaxWorkers
  PROVE  Sums!Shift(k)[BinsUpTo] = 0
  <1>1. BinsUpTo \in 0..BinsUpTo
    BY SamplesAssumption DEF BinsUpTo
  <1>2. ASSUME NEW l \in Nat, k <= l, Sums!Shift(l)[BinsUpTo] = 0 PROVE Sums!Shift(k)[BinsUpTo] = 0
    <2>1. Sums!Shift(k)[BinsUpTo] \in Nat /\ Sums!Shift(k)[BinsUpTo] <= Sums!Shift(l)[BinsUpTo]
      BY <1>1, <1>2, ShiftNat
    <2> QED
      BY <1>2, <2>1
  <1> QED
    BY <1>2, SamplesAssumption DEF BinsUpTo

LEMMA SampleAdded ==
  ASSUME SumTypes, NEW w \in Sums!Worker, WorkerSum(w), s[w] < samples
  PROVE  /\ Sums!Put(bins[w], mask[w] + 1, Sums!One(s[w])) \in [Sums!Bin -> [Sums!Sample -> Nat]]
         /\ Sums!Total(Sums!Put(bins[w], mask[w] + 1, Sums!One(s[w])), mask[w] + 1)
              = PartBelow(w, s[w] + workers)
         /\ (s[w] + workers) % workers = w - 1 /\ s[w] + workers \in Nat
         /\ mask[w] + 1 <= s[w] + workers /\ mask[w] + 1 <= samples /\ mask[w] + 1 \in Nat
  <1>1. PICK a, k, m, n0 \in Nat : a = s[w] /\ k = mask[w] /\ m = workers /\ n0 = samples
    BY DEF SumTypes, Sums!Worker
  <1>2. m # 0 /\ w \in 1..m /\ a % m = w - 1 /\ k <= a /\ a < n0 /\ n0 <= MaxSamples
    BY <1>1, SamplesAssumption DEF WorkerSum, SumTypes, Sums!Worker
  <1>3. Sums!Sample = 0..n0 - 1
    BY <1>1 DEF Sums!Sample
  <1>4. Sums!One(a) \in [Sums!Sample -> Nat] /\ Sums!One(a) = [x \in Sums!Sample |-> IF x = a THEN 1 ELSE 0]
    BY <1>2, <1>3 DEF Sums!One, Sums!Nothing
  <1>5. PICK acc \in [Sums!Bin -> [Sums!Sample -> Nat]] : acc = bins[w]
    BY <1>1, <1>2 DEF SumTypes
  <1>6. Sums!Shift(k + 1)[BinsUpTo] = 0
    BY <1>2, SamplesAssumption, BinsSuffice
  <1>7. /\ Sums!Put(acc, k + 1, Sums!One(a)) \in [Sums!Bin -> [Sums!Sample -> Nat]]
        /\ Sums!Total(Sums!Put(acc, k + 1, Sums!One(a)), k + 1) = Sums!Plus(Sums!One(a), Sums!Total(acc, k))
    BY <1>1, <1>4, <1>6, PutAdds
  <1>8. Sums!Total(acc, k) = PartBelow(w, a)
    BY <1>1, <1>5 DEF WorkerSum
  <1>9. ASSUME NEW x \in Sums!Sample
        PROVE  Sums!One(a)[x] + PartBelow(w, a)[x] = PartBelow(w, a + m)[x]
    <2>1. x \in Nat
      BY <1>3, <1>9
    <2>2. (x = a => x % m = w - 1) /\ (a <= x /\ x < a + m /\ x % m = w - 1 => x = a)
      <3>1. ASSUME a <= x, x < a + m, x % m = w - 1 PROVE x = a
        <4>1. x % m = a % m /\ m \in Nat \ {0} /\ x \in Int /\ a \in Int
          BY <1>2, <2>1, <3>1
        <4> QED
          BY <3>1, <4>1, SameRest
      <3> QED
        BY <1>2, <3>1
    <2>3. PICK r : r = x % m
      OBVIOUS
    <2>4. /\ Sums!One(a)[x] = IF x = a THEN 1 ELSE 0
          /\ PartBelow(w, a)[x] = IF r = w - 1 /\ x < a THEN 1 ELSE 0
          /\ PartBelow(w, a + m)[x] = IF r = w - 1 /\ x < a + m THEN 1 ELSE 0
      BY <1>1, <1>4, <1>9, <2>3 DEF PartBelow
    <2> QED
      BY <1>2, <2>1, <2>2, <2>3, <2>4
  <1>10. Sums!Plus(Sums!One(a), PartBelow(w, a)) = PartBelow(w, a + m)
    <2>1. PartBelow(w, a + m) = [x \in Sums!Sample |-> PartBelow(w, a + m)[x]]
      BY DEF PartBelow
    <2> QED
      BY <1>9, <2>1 DEF Sums!Plus
  <1>11. (a + m) % m = w - 1
    BY <1>2, Residue
  <1> QED
    BY <1>1, <1>2, <1>5, <1>7, <1>8, <1>10, <1>11

LEMMA PartAdded ==
  ASSUME SumTypes, ParentSum, mask[0] < workers,
         file[mask[0] + 1] = PartBelow(mask[0] + 1, samples)
  PROVE  /\ Sums!Put(bins[0], mask[0] + 1, file[mask[0] + 1]) \in [Sums!Bin -> [Sums!Sample -> Nat]]
         /\ Sums!Total(Sums!Put(bins[0], mask[0] + 1, file[mask[0] + 1]), mask[0] + 1)
              = FirstParts(mask[0] + 1)
  <1>1. PICK k, m, n0 \in Nat : k = mask[0] /\ m = workers /\ n0 = samples
    BY DEF SumTypes
  <1>2. m # 0 /\ k < m /\ m <= MaxWorkers
    BY <1>1, SamplesAssumption DEF SumTypes
  <1>3. Sums!Sample = 0..n0 - 1
    BY <1>1 DEF Sums!Sample
  <1>4. PICK part \in [Sums!Sample -> Nat] : part = file[k + 1] /\ part = PartBelow(k + 1, n0)
    BY <1>1 DEF PartBelow
  <1>5. PICK acc \in [Sums!Bin -> [Sums!Sample -> Nat]] : acc = bins[0]
    BY <1>1 DEF SumTypes
  <1>6. Sums!Shift(k + 1)[BinsUpTo] = 0
    BY <1>2, SamplesAssumption, BinsSuffice
  <1>7. /\ Sums!Put(acc, k + 1, part) \in [Sums!Bin -> [Sums!Sample -> Nat]]
        /\ Sums!Total(Sums!Put(acc, k + 1, part), k + 1) = Sums!Plus(part, Sums!Total(acc, k))
    BY <1>1, <1>6, PutAdds
  <1>8. Sums!Total(acc, k) = FirstParts(k)
    BY <1>1, <1>5 DEF ParentSum
  <1>9. ASSUME NEW x \in Sums!Sample PROVE part[x] + FirstParts(k)[x] = FirstParts(k + 1)[x]
    <2>1. x \in Nat /\ x < n0
      BY <1>3, <1>9
    <2>2. PICK r \in Nat : r = x % m
      BY <1>2, <2>1, Residue
    <2>3. /\ part[x] = IF r = k + 1 - 1 /\ x < n0 THEN 1 ELSE 0
          /\ FirstParts(k)[x] = IF r < k THEN 1 ELSE 0
          /\ FirstParts(k + 1)[x] = IF r < k + 1 THEN 1 ELSE 0
      BY <1>1, <1>4, <1>9, <2>2 DEF PartBelow, FirstParts
    <2> QED
      BY <2>1, <2>2, <2>3
  <1>10. Sums!Plus(part, FirstParts(k)) = FirstParts(k + 1)
    <2>1. FirstParts(k + 1) = [x \in Sums!Sample |-> FirstParts(k + 1)[x]]
      BY DEF FirstParts
    <2> QED
      BY <1>9, <2>1 DEF Sums!Plus
  <1> QED
    BY <1>1, <1>4, <1>5, <1>7, <1>8, <1>10

LEMMA IntStarts == Sums!Init => IntInv
  <1> SUFFICES ASSUME Sums!Init PROVE IntInv
    OBVIOUS
  <1>1. Sums!Nothing \in [Sums!Sample -> Nat]
    BY DEF Sums!Nothing
  <1>2. SumTypes
    <2>1. workers \in Nat \ {0} /\ s = [w \in 1..workers |-> w - 1]
      BY SamplesAssumption DEF Sums!Init, Sums!Worker
    <2>2. s \in [1..workers -> Nat]
      BY <2>1
    <2> QED
      BY <1>1, <2>2 DEF Sums!Init, SumTypes, Sums!Worker
  <1>3. \A w \in 0..workers : bins[w] = [b \in Sums!Bin |-> Sums!Nothing] /\ mask[w] = 0
    BY DEF Sums!Init
  <1>4. workers \in Nat \ {0} /\ samples \in Nat
    BY <1>2, SamplesAssumption DEF SumTypes
  <1>5. ParentSum
    <2>1. 0 \in 0..workers
      BY <1>4
    <2>2. Sums!Total(bins[0], mask[0]) = [x \in Sums!Sample |-> 0]
      BY <1>3, <2>1, EmptyTotal
    <2>3. FirstParts(0) = [x \in Sums!Sample |-> 0]
      <3>1. \A x \in Sums!Sample : ~(x % workers < 0)
        <4>1. \A x \in Sums!Sample : x \in Nat
          BY <1>4 DEF Sums!Sample
        <4>2. \A x \in Nat : x % workers \in Nat
          BY <1>4, Residue
        <4> QED
          BY <4>1, <4>2
      <3> QED
        BY <3>1 DEF FirstParts
    <2> QED
      BY <1>3, <1>4, <2>1, <2>2, <2>3 DEF ParentSum
  <1>6. ASSUME NEW w \in Sums!Worker PROVE WorkerSum(w)
    <2>1. /\ w \in 0..workers /\ w - 1 \in Nat /\ w - 1 < workers /\ s[w] = w - 1
          /\ state[w] = "run" /\ mask[w] = 0
      BY <1>3, <1>4, <1>6 DEF Sums!Init, Sums!Worker
    <2>2. Sums!Total(bins[w], mask[w]) = [x \in Sums!Sample |-> 0]
      BY <1>3, <2>1, EmptyTotal
    <2>3. PartBelow(w, w - 1) = [x \in Sums!Sample |-> 0]
      <3>1. \A x \in Sums!Sample : ~(x % workers = w - 1 /\ x < w - 1)
        <4>1. \A x \in Sums!Sample : x \in Nat
          BY <1>4 DEF Sums!Sample
        <4>2. \A x \in Nat : x % workers \in Int /\ x % workers <= x
          <5> TAKE x \in Nat
          <5>1. x % workers \in 0..workers - 1 /\ x % workers <= x
            BY <1>4, Residue
          <5> QED
            BY <5>1, <1>4
        <4> SUFFICES ASSUME NEW x \in Nat, x % workers = w - 1, x < w - 1 PROVE FALSE
          BY <4>1
        <4>3. w - 1 <= x
          BY <4>2
        <4> QED
          BY <2>1, <4>3
      <3> QED
        BY <3>1 DEF PartBelow
    <2>4. (w - 1) % workers = w - 1
      BY <1>4, <2>1, Residue
    <2> QED
      BY <1>4, <2>1, <2>2, <2>3, <2>4 DEF WorkerSum
  <1> QED
    BY <1>2, <1>5, <1>6 DEF IntInv, Sums!EachSampleOnce, Sums!Init

\* While the arguments stay, so does what totals and parts mean.
LEMMA SumsStay ==
  ASSUME samples' = samples, workers' = workers
  PROVE  /\ Sums!Worker' = Sums!Worker /\ Sums!Sample' = Sums!Sample
         /\ \A w : Sums!Total(bins[w], mask[w])' = Sums!Total(bins'[w], mask'[w])
         /\ \A w : PartBelow(w, s[w])' = PartBelow(w, s'[w])
         /\ \A w : PartBelow(w, samples)' = PartBelow(w, samples)
         /\ FirstParts(mask[0])' = FirstParts(mask'[0])
  BY DEF Sums!Worker, Sums!Sample, Sums!Total, Sums!SumOf, Sums!Bin, Sums!Bit, Sums!Shift, Sums!AddUp,
         PartBelow, FirstParts

LEMMA WorkerKept ==
  ASSUME samples' = samples, workers' = workers, NEW w \in Sums!Worker, WorkerSum(w),
         mask'[w] = mask[w], bins'[w] = bins[w], s'[w] = s[w],
         state'[w] = "ok" => file'[w] = PartBelow(w, samples),
         state'[w] = "reaped" => bad' \/ file'[w] = PartBelow(w, samples)
  PROVE  WorkerSum(w)'
  <1>1. Sums!Total(bins[w], mask[w])' = PartBelow(w, s[w])'
    BY SumsStay DEF WorkerSum
  <1>2. PartBelow(w, samples)' = PartBelow(w, samples)
    BY SumsStay
  <1> QED
    BY <1>1, <1>2 DEF WorkerSum

LEMMA ParentKept ==
  ASSUME samples' = samples, workers' = workers, ParentSum, mask'[0] = mask[0], bins'[0] = bins[0]
  PROVE  ParentSum'
  <1>1. Sums!Total(bins[0], mask[0])' = FirstParts(mask[0])'
    BY SumsStay DEF ParentSum
  <1> QED
    BY <1>1 DEF ParentSum

LEMMA TypesKept ==
  ASSUME SumTypes, samples' = samples, workers' = workers,
         mask' \in [0..workers -> Nat], bins' \in [0..workers -> [Sums!Bin -> [Sums!Sample -> Nat]]],
         s' \in [Sums!Worker -> Nat], DOMAIN file' = DOMAIN file,
         file' = [w \in DOMAIN file |-> file'[w]],
         state' \in [Sums!Worker -> {"run", "ok", "failed", "reaped"}]
  PROVE  SumTypes'
  <1>1. Sums!Worker' = Sums!Worker /\ Sums!Sample' = Sums!Sample /\ Sums!Bin' = Sums!Bin
    BY SumsStay DEF Sums!Bin
  <1> QED
    BY <1>1 DEF SumTypes

LEMMA IntAdds ==
  ASSUME IntInv, NEW w \in Sums!Worker, Sums!AddSample(w)
  PROVE  IntInv'
  <1>1. SumTypes /\ ParentSum /\ WorkerSum(w) /\ w \in 1..workers /\ workers \in Nat /\ w # 0
    BY SamplesAssumption DEF IntInv, SumTypes, Sums!Worker
  <1>2. PICK new \in [Sums!Bin -> [Sums!Sample -> Nat]] : new = Sums!Put(bins[w], mask[w] + 1, Sums!One(s[w]))
    BY <1>1, SampleAdded DEF Sums!AddSample
  <1>3. /\ Sums!Total(new, mask[w] + 1) = PartBelow(w, s[w] + workers)
        /\ (s[w] + workers) % workers = w - 1 /\ s[w] + workers \in Nat
        /\ mask[w] + 1 <= s[w] + workers /\ mask[w] + 1 <= samples /\ mask[w] + 1 \in Nat
    BY <1>1, <1>2, SampleAdded DEF Sums!AddSample
  <1>4. /\ bins' = [bins EXCEPT ![w] = new] /\ mask' = [mask EXCEPT ![w] = mask[w] + 1]
        /\ s' = [s EXCEPT ![w] = s[w] + workers] /\ state[w] = "run"
        /\ samples' = samples /\ workers' = workers /\ file' = file /\ state' = state /\ bad' = bad
        /\ result' = result
    BY <1>2 DEF Sums!AddSample, Sums!AddTo
  <1>5. SumTypes'
    BY <1>1, <1>3, <1>4, TypesKept DEF SumTypes
  <1>6. 0 \in 0..workers /\ w \in 0..workers
    BY <1>1
  <1>7. ParentSum'
    BY <1>1, <1>4, <1>6, ParentKept DEF SumTypes
  <1>8. WorkerSum(w)'
    <2>1. mask'[w] = mask[w] + 1 /\ bins'[w] = new /\ s'[w] = s[w] + workers
      BY <1>1, <1>4, <1>6 DEF SumTypes
    <2>2. Sums!Total(bins[w], mask[w])' = PartBelow(w, s[w])'
      BY <1>3, <1>4, <2>1, SumsStay
    <2> QED
      BY <1>3, <1>4, <2>1, <2>2 DEF WorkerSum
  <1>9. ASSUME NEW u \in Sums!Worker, u # w PROVE WorkerSum(u)'
    <2>1. u \in 0..workers /\ WorkerSum(u)
      BY <1>1, <1>9 DEF IntInv, Sums!Worker
    <2>2. mask'[u] = mask[u] /\ bins'[u] = bins[u] /\ s'[u] = s[u]
      BY <1>1, <1>4, <1>9, <2>1 DEF SumTypes
    <2> QED
      BY <1>4, <2>1, <2>2, WorkerKept DEF WorkerSum
  <1>10. Sums!EachSampleOnce'
    BY <1>4, SumsStay DEF IntInv, Sums!EachSampleOnce
  <1> QED
    BY <1>4, <1>5, <1>7, <1>8, <1>9, <1>10, SumsStay DEF IntInv

LEMMA IntKeeps ==
  ASSUME IntInv, NEW w \in Sums!Worker, Sums!StoreSum(w) \/ Sums!WorkerFails(w) \/ Sums!Wait(w)
  PROVE  IntInv'
  <1>1. SumTypes /\ ParentSum /\ WorkerSum(w) /\ w \in 1..workers
    BY DEF IntInv, SumTypes, Sums!Worker
  <1>2. /\ samples' = samples /\ workers' = workers /\ s' = s /\ bins' = bins /\ mask' = mask
        /\ result' = result
    BY DEF Sums!StoreSum, Sums!WorkerFails, Sums!Wait
  <1>3. SumTypes'
    <2>1. state' \in [Sums!Worker -> {"run", "ok", "failed", "reaped"}]
      BY <1>1 DEF SumTypes, Sums!StoreSum, Sums!WorkerFails, Sums!Wait
    <2>2. DOMAIN file' = DOMAIN file /\ file' = [u \in DOMAIN file |-> file'[u]]
      BY <1>1 DEF SumTypes, Sums!StoreSum, Sums!WorkerFails, Sums!Wait
    <2> QED
      BY <1>1, <1>2, <2>1, <2>2, TypesKept DEF SumTypes
  <1>4. ParentSum'
    BY <1>1, <1>2, ParentKept
  <1>5. ASSUME NEW u \in Sums!Worker, u # w PROVE WorkerSum(u)'
    <2>1. WorkerSum(u) /\ state'[u] = state[u] /\ file'[u] = file[u]
      BY <1>1, <1>5 DEF IntInv, SumTypes, Sums!StoreSum, Sums!WorkerFails, Sums!Wait
    <2>2. bad => bad'
      BY Zenon DEF Sums!StoreSum, Sums!WorkerFails, Sums!Wait
    <2>3. state'[u] = "reaped" => bad' \/ file'[u] = PartBelow(u, samples)
      BY Zenon, <2>1, <2>2 DEF WorkerSum
    <2>4. state'[u] = "ok" => file'[u] = PartBelow(u, samples)
      BY Zenon, <2>1 DEF WorkerSum
    <2> QED
      BY <1>2, <2>1, <2>3, <2>4, WorkerKept
  <1>6. /\ state'[w] = "ok" => file'[w] = PartBelow(w, samples)
        /\ state'[w] = "reaped" => bad' \/ file'[w] = PartBelow(w, samples)
    <2>1. CASE Sums!StoreSum(w)
      <3>1. s[w] >= samples /\ s[w] \in Nat /\ samples \in Nat
        BY <1>1, <2>1, SamplesAssumption DEF Sums!StoreSum, SumTypes
      <3>2. \A x \in Sums!Sample : x < s[w] /\ x < samples
        BY <3>1 DEF Sums!Sample
      <3>3. PartBelow(w, s[w]) = PartBelow(w, samples)
        BY <3>2 DEF PartBelow
      <3>4. state'[w] = "ok" /\ file'[w] = Sums!Total(bins[w], mask[w])
        BY <1>1, <2>1 DEF Sums!StoreSum, SumTypes
      <3> QED
        BY <1>1, <3>3, <3>4 DEF WorkerSum
    <2>2. CASE Sums!WorkerFails(w)
      BY <1>1, <2>2 DEF Sums!WorkerFails, SumTypes
    <2>3. CASE Sums!Wait(w)
      <3>1. state'[w] = "reaped" /\ file' = file /\ (state[w] = "failed" => bad') /\ state[w] \in {"ok", "failed"}
        BY <1>1, <2>3 DEF Sums!Wait, SumTypes
      <3> QED
        BY <1>1, <3>1 DEF WorkerSum
    <2> QED
      BY <2>1, <2>2, <2>3
  <1>7. WorkerSum(w)'
    BY <1>1, <1>2, <1>6, WorkerKept
  <1>8. Sums!EachSampleOnce'
    BY <1>2, SumsStay DEF IntInv, Sums!EachSampleOnce
  <1> QED
    BY <1>2, <1>3, <1>4, <1>5, <1>7, <1>8, SumsStay DEF IntInv

LEMMA IntReads ==
  ASSUME IntInv, Sums!ReadFile
  PROVE  IntInv'
  <1>1. SumTypes /\ ParentSum /\ workers \in Nat /\ mask[0] \in Nat /\ mask[0] < workers
    <2>1. workers \in Nat
      BY SamplesAssumption DEF IntInv, SumTypes
    <2>2. 0 \in 0..workers
      BY <2>1
    <2> QED
      BY <2>1, <2>2 DEF IntInv, SumTypes, Sums!ReadFile
  <1>2. PICK k \in Sums!Worker : k = mask[0] + 1
    BY <1>1 DEF Sums!Worker
  <1>3. file[mask[0] + 1] = PartBelow(mask[0] + 1, samples)
    BY <1>2 DEF Sums!ReadFile, Sums!AllReaped, IntInv, WorkerSum
  <1>4. PICK new \in [Sums!Bin -> [Sums!Sample -> Nat]] : new = Sums!Put(bins[0], mask[0] + 1, file[mask[0] + 1])
    BY <1>1, <1>3, PartAdded
  <1>5. Sums!Total(new, mask[0] + 1) = FirstParts(mask[0] + 1)
    BY <1>1, <1>3, <1>4, PartAdded
  <1>6. /\ bins' = [bins EXCEPT ![0] = new] /\ mask' = [mask EXCEPT ![0] = mask[0] + 1]
        /\ samples' = samples /\ workers' = workers /\ s' = s /\ file' = file /\ state' = state
        /\ bad' = bad /\ result' = result
    BY <1>4 DEF Sums!ReadFile, Sums!AddTo
  <1>7. 0 \in 0..workers /\ mask[0] + 1 \in Nat /\ mask[0] + 1 <= workers
    BY <1>1
  <1>8. SumTypes'
    BY <1>1, <1>6, <1>7, TypesKept DEF SumTypes
  <1>9. ParentSum'
    <2>1. mask'[0] = mask[0] + 1 /\ bins'[0] = new
      BY <1>1, <1>6, <1>7 DEF SumTypes
    <2>2. Sums!Total(bins[0], mask[0])' = FirstParts(mask[0])'
      BY <1>5, <1>6, <2>1, SumsStay
    <2> QED
      BY <1>6, <1>7, <2>1, <2>2 DEF ParentSum
  <1>10. ASSUME NEW u \in Sums!Worker PROVE WorkerSum(u)'
    <2>1. u \in 0..workers /\ WorkerSum(u) /\ u # 0
      BY <1>1, <1>10 DEF IntInv, Sums!Worker
    <2>2. mask'[u] = mask[u] /\ bins'[u] = bins[u]
      BY <1>1, <1>6, <2>1 DEF SumTypes
    <2> QED
      BY <1>6, <1>10, <2>1, <2>2, WorkerKept DEF WorkerSum
  <1>11. Sums!EachSampleOnce'
    BY <1>6, SumsStay DEF IntInv, Sums!EachSampleOnce
  <1> QED
    BY <1>6, <1>8, <1>9, <1>10, <1>11, SumsStay DEF IntInv

\* The parts of all the workers are the whole.
LEMMA IntPrints ==
  ASSUME IntInv, Sums!PrintResult
  PROVE  IntInv'
  <1>1. SumTypes /\ ParentSum /\ workers \in Nat \ {0} /\ samples \in Nat /\ mask[0] = workers
    BY SamplesAssumption DEF IntInv, SumTypes, Sums!PrintResult
  <1>2. /\ bins' = bins /\ mask' = mask /\ samples' = samples /\ workers' = workers /\ s' = s
        /\ file' = file /\ state' = state /\ bad' = bad
        /\ result' = Sums!Total(bins[0], mask[0])
    BY DEF Sums!PrintResult
  <1>3. \A x \in Sums!Sample : x % workers < workers
    <2>1. \A x \in Sums!Sample : x \in Nat
      BY <1>1 DEF Sums!Sample
    <2>2. \A x \in Nat : x % workers < workers
      <3> TAKE x \in Nat
      <3>1. x % workers \in 0..workers - 1
        BY <1>1, Residue
      <3> QED
        BY <3>1, <1>1
    <2> QED
      BY <2>1, <2>2
  <1>4. result' = [x \in Sums!Sample |-> 1]
    BY <1>1, <1>2, <1>3 DEF ParentSum, FirstParts
  <1>5. SumTypes'
    BY <1>1, <1>2, TypesKept DEF SumTypes
  <1>6. ParentSum' /\ \A w \in Sums!Worker : WorkerSum(w)'
    BY <1>1, <1>2, ParentKept, WorkerKept DEF IntInv, WorkerSum
  <1> QED
    BY <1>2, <1>4, <1>5, <1>6, SumsStay DEF IntInv, Sums!EachSampleOnce

LEMMA IntStep ==
  ASSUME IntInv, Sums!Next
  PROVE  IntInv'
  BY IntAdds, IntKeeps, IntReads, IntPrints DEF Sums!Next

LEMMA IntStutters ==
  ASSUME IntInv, UNCHANGED <<state, bad, intVars>>
  PROVE  IntInv'
  <1>1. /\ bins' = bins /\ mask' = mask /\ samples' = samples /\ workers' = workers /\ s' = s
        /\ file' = file /\ state' = state /\ bad' = bad /\ result' = result
    BY DEF intVars
  <1>2. SumTypes'
    BY <1>1, TypesKept DEF SumTypes, IntInv
  <1>3. ParentSum' /\ \A w \in Sums!Worker : WorkerSum(w)'
    BY <1>1, ParentKept, WorkerKept DEF IntInv, WorkerSum
  <1> QED
    BY <1>1, <1>2, <1>3, SumsStay DEF IntInv, Sums!EachSampleOnce

-----------------------------------------------------------------------------
(***************************************************************************)
(* All of them.                                                            *)
(***************************************************************************)
CInv ==
  /\ prog = "pipeline" => PipeInv
  /\ prog = "dispositions" => InheritInv
  /\ prog = "flags" => FlagsInv
  /\ prog = "negative" => NegInv
  /\ prog = "walk" => TreeInv /\ short \subseteq Short
  /\ prog = "integral" => IntInv

LEMMA CStarts == CInit => CInv
  <1>1. Tree!Init => short \subseteq Short
    BY DEF Tree!Init
  <1> QED
    BY <1>1, PipeStarts, InheritStarts, FlagsStart, NegStarts, TreeStarts, IntStarts DEF CInit, CInv

LEMMA CStays ==
  ASSUME CInv, UNCHANGED allVars
  PROVE  CInv'
  <1>1. UNCHANGED <<prog, state, bad, pc, negVars, pipeVars, treeVars, intVars, inheritVars, flagVars>>
    BY DEF allVars
  <1>2. prog = "pipeline" => PipeInv'
    BY <1>1 DEF CInv, pipeVars, PipeInv, Pipe!TypeOK, Pipe!Command, Before, Pipe!Ends, Pipe!Wiring
  <1>3. prog = "dispositions" => InheritInv'
    BY <1>1 DEF CInv, inheritVars, InheritInv, Inherit!TypeOK, ParentInv, ChildInv,
                OwnDisp, ChildDisp, Inherit!Blocks
  <1>4. prog = "flags" => FlagsInv'
    BY <1>1 DEF CInv, flagVars, FlagsInv, Flags!TypeOK, SelfInv, KillerInv, OnItsWay, Flags!Waits
  <1>5. prog = "negative" => NegInv'
    BY <1>1, NegStep DEF CInv, negVars, vars
  <1>6. prog = "walk" => TreeInv' /\ (short \subseteq Short)'
    BY <1>1, TreeStutters DEF CInv, treeVars
  <1>7. prog = "integral" => IntInv'
    BY <1>1, IntStutters DEF CInv
  <1> QED
    BY <1>1, <1>2, <1>3, <1>4, <1>5, <1>6, <1>7 DEF CInv

LEMMA CSteps ==
  ASSUME CInv, [CNext]_allVars
  PROVE  CInv'
  <1>1. CASE Invert
    BY <1>1, NegStep DEF Invert, CInv, notNeg
  <1>2. CASE RunPipeline
    BY <1>2, PipeStep DEF RunPipeline, CInv, notPipe
  <1>3. CASE WalkTree
    <2>1. Tree!Next => short' = short
      BY DEF Tree!Next, Tree!Walk, Tree!SearchFile, Tree!Abort, Tree!CallFails, Tree!StatFails,
             Tree!TooDeep, Tree!ForkChild, Tree!ForkFails, Tree!EndOfDir, Tree!Wait, Tree!Exit
    <2> QED
      BY <1>3, <2>1, TreeSteps DEF WalkTree, CInv, notTree
  <1>4. CASE Integrate
    BY <1>4, IntStep DEF Integrate, CInv, notInt
  <1>5. CASE InheritSignal
    BY <1>5, InheritStep DEF InheritSignal, CInv, notInherit
  <1>6. CASE TestFlags
    BY <1>6, FlagsStep DEF TestFlags, CInv, notFlags
  <1> QED
    BY <1>1, <1>2, <1>3, <1>4, <1>5, <1>6, CStays DEF CNext

\* The invariants of the programs hold in every state of a run of CSpec.
THEOREM ConcurrentInvariant == CSpec => []CInv
  BY CStarts, CSteps, PTL DEF CSpec

\* lab5/zad1 (main.c, run_pipeline): whatever the number of commands, a
\* running command holds the ends of the two pipes beside it and no other,
\* and the parent that waits holds none.
THEOREM EveryPipeWired == CSpec => []PipesWired
  <1>1. CInv => PipesWired
    BY PipeWired DEF CInv, PipesWired
  <1> QED
    BY <1>1, ConcurrentInvariant, PTL

\* lab4/zad1 and lab4/zad2: the reports about inherited dispositions, masks
\* and pending signals, and about the flags of sigaction, are true.
THEOREM ReportsTrue == CSpec => []SignalsAsReported
  <1>1. CInv => SignalsAsReported
    BY InheritReport, FlagsReport DEF CInv, SignalsAsReported
  <1> QED
    BY <1>1, ConcurrentInvariant, PTL

\* lab3/zad3 (main.c): whatever the tree, the depth, the files that are too
\* short and the calls that fail, a search prints only lines that match and lie
\* within the depth, on a terminal none of them twice, and when it reports
\* success it has printed every one but those that a failing lstat hid: the
\* match itself, or a directory above it.  Every other failure is reported.
THEOREM EverySuccessMeansAll == CSpec => []SuccessMeansAll
  <1>1. CInv => SuccessMeansAll
    BY TreeMade DEF CInv, SuccessMeansAll
  <1> QED
    BY <1>1, ConcurrentInvariant, PTL

\* lab8: whatever the image and the number of threads, no two of them write
\* the same byte, and when all have finished the result is the negative of
\* the whole image - unless samples of two bytes are divided by columns in a
\* way that cuts them, or hold a low byte that a char makes negative.
THEOREM EveryNegativeMade == CSpec => []NegativeMade
  <1>1. CInv => NegativeMade
    BY NegMade DEF CInv, NegativeMade
  <1> QED
    BY <1>1, ConcurrentInvariant, PTL

\* lab3/zad2 (main.c): whatever the number of samples and workers, a printed
\* integral has every sample exactly once - the bins lose none, and no file
\* of a worker that failed is taken for its sum.
THEOREM EverySampleOnce == CSpec => []SamplesOnce
  <1>1. CInv => SamplesOnce
    BY DEF CInv, IntInv, SamplesOnce
  <1> QED
    BY <1>1, ConcurrentInvariant, PTL

\* The variables of the program that runs have their types.
THEOREM ConcurrentTypes == CSpec => []TypesOK
  <1>1. NegInv => TypeOK
    BY DEF NegInv
  <1>2. PipeInv => Pipe!TypeOK
    BY DEF PipeInv
  <1>3. TreeInv /\ short \subseteq Short => Tree!TypeOK
    BY DEF TreeInv, WalkTypes, Listing, Tree!TypeOK
  <1>4. IntInv => Sums!TypeOK
    <2> SUFFICES ASSUME SumTypes PROVE Sums!TypeOK
      BY DEF IntInv
    <2>1. \A w \in 0..workers : mask[w] \in Nat /\ bins[w] \in [Sums!Bin -> [Sums!Sample -> Nat]]
      BY DEF SumTypes
    <2> QED
      BY <2>1 DEF SumTypes, Sums!TypeOK
  <1>5. InheritInv => Inherit!TypeOK
    BY DEF InheritInv
  <1>6. FlagsInv => Flags!TypeOK
    BY DEF FlagsInv
  <1>7. CInv => TypesOK
    BY <1>1, <1>2, <1>3, <1>4, <1>5, <1>6 DEF CInv, TypesOK
  <1> QED
    BY <1>7, ConcurrentInvariant, PTL
=============================================================================
