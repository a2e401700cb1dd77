--------------------------- MODULE SignalEchoProofs ---------------------------
(***************************************************************************)
(* Proofs about SignalEcho, for any number of signals, both programs and   *)
(* both kinds of signals.                                                  *)
(*                                                                         *)
(* The argument: the labels of the two processes say whose turn it is, who *)
(* has been sent the SIGFIN and what is left in the kernel's queues        *)
(* (Control, Drained).  In zad3a what was counted and what is pending is   *)
(* what was sent, less what was absorbed (Counted).  In zad3b there is one *)
(* SIGINC, on its way forth, on its way back or confirmed (Token), unless  *)
(* the parent took the first one of the child for a confirmation.          *)
(***************************************************************************)
EXTENDS SignalEcho, TLAPS

P == "parent"
C == "child"
Inc(p) == pending[p]["INC"]
Fin(p) == pending[p]["FIN"]

\* The parent has sent its SIGFIN, the child has.
ParentTold == {"sent", "reset", "listen", "printed", "done"}
ChildTold == {"sent", "done"}

Types ==
  /\ program \in {"count", "confirm"} /\ realtime \in BOOLEAN /\ cnt \in 0 .. MaxCnt
  /\ pending \in [Proc -> [Signal -> Nat]]
  /\ handling \subseteq Proc
  /\ counter \in [Proc -> Nat] /\ i \in [Proc -> Nat]
  /\ finished \in [Proc -> BOOLEAN] /\ sending \in [Proc -> BOOLEAN]
  /\ confirmed \in [Proc -> BOOLEAN]
  /\ pc \in [Proc -> {"start", "listen", "loop", "confirm", "sent", "reset",
                      "printed", "done"}]
  /\ pc[C] \in {"listen", "loop", "confirm"} \cup ChildTold
  /\ early \in BOOLEAN

\* What the labels say of the build, of who sends and of the SIGFINs.
Control ==
  /\ program = "count" =>
       \A p \in Proc : pc[p] # "confirm" /\ ~sending[p]
  /\ program = "confirm" =>
       \A p \in Proc : sending[p] <=> pc[p] \in {"loop", "confirm", "sent"}
  /\ pc[C] # "listen" => finished[C]
  /\ finished[C] => pc[P] \in ParentTold
  /\ Fin(C) = IF pc[P] \in ParentTold /\ ~finished[C] THEN 1 ELSE 0
  /\ pc[P] \in {"printed", "done"} => finished[P]
  /\ finished[P] => pc[C] \in ChildTold
  /\ Fin(P) = IF pc[C] \in ChildTold /\ ~finished[P] THEN 1 ELSE 0

\* How far the two loops have come.
Loops ==
  /\ i[P] <= cnt
  /\ pc[P] = "start" => i[P] = 0 /\ counter[P] = 0
  /\ pc[P] \in {"loop", "confirm"} => counter[P] = cnt
  /\ pc[P] = "confirm" => i[P] < cnt
  /\ pc[P] \in ParentTold => i[P] = cnt
  /\ pc[C] = "listen" => i[C] = 0
  /\ i[C] <= counter[C]
  /\ pc[C] = "confirm" => i[C] < counter[C]
  /\ pc[C] \in ChildTold => i[C] = counter[C]

\* A main program that goes on after the SIGFIN has nothing pending.
Drained ==
  program = "count" =>
    /\ finished[C] /\ (C \notin handling \/ pc[C] # "listen") => Inc(C) = 0
    /\ finished[P] /\ (P \notin handling \/ pc[P] \in {"printed", "done"}) => Inc(P) = 0

\* zad3a: every signal sent is counted, pending or, if it is a standard one,
\* absorbed; those the parent counted before its reset are forgotten.
Counted ==
  program = "count" =>
    /\ counter[C] + Inc(C) <= i[P]
    /\ realtime => counter[C] + Inc(C) = i[P]
    /\ pc[P] \in {"start", "loop"} => Inc(P) = 0
    /\ pc[P] \in BeforeReset =>
         /\ counter[P] + Inc(P) <= cnt + i[C] /\ cnt <= counter[P]
         /\ realtime /\ ~early => counter[P] + Inc(P) = cnt + i[C]
         /\ ~early => counter[P] = cnt
    /\ pc[P] \in {"listen", "printed", "done"} =>
         /\ counter[P] + Inc(P) <= i[C]
         /\ realtime /\ ~early => counter[P] + Inc(P) = i[C]

\* zad3b: what the parent's counter is when n signals of the child reached it.
Received(n) ==
  /\ pc[P] = "sent" => counter[P] = cnt /\ n = 0
  /\ pc[P] = "reset" => counter[P] = cnt + n /\ (n > 0 => early)
  /\ pc[P] \in {"listen", "printed", "done"} =>
       counter[P] <= n /\ (~early => counter[P] = n)

ParentsTurn ==
  IF pc[P] = "confirm"
  THEN \/ Inc(C) = 1 /\ Inc(P) = 0 /\ ~confirmed[P] /\ counter[C] = i[P]
       \/ Inc(C) = 0 /\ Inc(P) = 1 /\ ~confirmed[P] /\ counter[C] = i[P] + 1
       \/ Inc(C) = 0 /\ Inc(P) = 0 /\ confirmed[P] /\ counter[C] = i[P] + 1
  ELSE Inc(C) = 0 /\ Inc(P) = 0 /\ counter[C] = i[P] /\ Received(0)

ChildsTurn ==
  IF pc[C] = "confirm"
  THEN \/ Inc(P) = 1 /\ Inc(C) = 0 /\ ~confirmed[C] /\ Received(i[C])
       \/ Inc(P) = 0 /\ Inc(C) = 1 /\ ~confirmed[C] /\ Received(i[C] + 1)
       \/ Inc(P) = 0 /\ Inc(C) = 0 /\ confirmed[C] /\ Received(i[C] + 1)
       \/ Inc(P) = 0 /\ Inc(C) = 0 /\ ~confirmed[C] /\ early /\ Received(i[C])
  ELSE Inc(P) = 0 /\ Inc(C) = 0 /\ Received(i[C])

Token ==
  program = "confirm" =>
    /\ pc[C] = "listen" => ParentsTurn
    /\ pc[C] # "listen" => counter[C] = cnt /\ ChildsTurn

IInv == Types /\ Control /\ Loops /\ Drained /\ Counted /\ Token

-------------------------------------------------------------------------------
(***************************************************************************)
(* One lemma for every action: it keeps the invariant.                     *)
(***************************************************************************)
USE DEF IInv, P, C, Proc, Signal, Other, Inc, Fin, ParentTold, ChildTold

\* zad3a: a handled SIGINC is counted, whatever the process is doing.
LEMMA IncCounted ==
  ASSUME IInv, NEW p \in Proc, handler_inc_count(p)
  PROVE  IInv'
  <1> USE DEF Types, handler_inc_count, Interrupt, Take, MarkEarly, BeforeReset, build
  <1>1. Types'
    OBVIOUS
  <1>2. Control'
    BY DEF Control
  <1>3. Loops'
    BY DEF Control, Loops, Drained, Counted
  <1>4. Drained'
    BY DEF Control, Drained
  <1>5. Counted'
    BY DEF Control, Loops, Drained, Counted, BeforeReset
  <1>6. Token'
    BY DEF Control, Loops, Token, ParentsTurn, ChildsTurn, Received
  <1> QED
    BY <1>1, <1>2, <1>3, <1>4, <1>5, <1>6

\* zad3b: a handled SIGINC confirms what this process sent, or is counted and
\* answered.
LEMMA IncConfirmed ==
  ASSUME IInv, NEW p \in Proc, handler_inc_confirm(p)
  PROVE  IInv'
  <1> USE DEF Types, handler_inc_confirm, Interrupt, Take, TakeAndSend, Raised, MarkEarly, BeforeReset, build
  <1>1. Types'
    OBVIOUS
  <1>2. Control'
    BY DEF Control
  <1>3. Loops'
    BY DEF Control, Loops, Token, ParentsTurn, ChildsTurn
  <1>4. Drained'
    BY DEF Control, Drained
  <1>5. Counted'
    BY DEF Control, Loops, Drained, Counted, BeforeReset
  <1>6. Token'
    BY DEF Control, Loops, Token, ParentsTurn, ChildsTurn, Received
  <1> QED
    BY <1>1, <1>2, <1>3, <1>4, <1>5, <1>6

\* A handled SIGFIN ends the other process's counting.
LEMMA FinHandled ==
  ASSUME IInv, NEW p \in Proc, handler_fin(p)
  PROVE  IInv'
  <1> USE DEF Types, handler_fin, Interrupt, Take, build
  <1>1. Types'
    OBVIOUS
  <1>2. Control'
    BY DEF Control
  <1>3. Loops'
    BY DEF Control, Loops
  <1>4. Drained'
    BY DEF Control, Drained
  <1>5. Counted'
    BY DEF Control, Loops, Drained, Counted, BeforeReset
  <1>6. Token'
    BY DEF Control, Loops, Token, ParentsTurn, ChildsTurn, Received
  <1> QED
    BY <1>1, <1>2, <1>3, <1>4, <1>5, <1>6

\* The main program goes on with nothing pending.
LEMMA Resumes ==
  ASSUME IInv, NEW p \in Proc, Resume(p)
  PROVE  IInv'
  <1> USE DEF Types, Resume, build, statics
  <1>1. Types'
    OBVIOUS
  <1>2. Control'
    BY DEF Control
  <1>3. Loops'
    BY DEF Control, Loops
  <1>4. Drained'
    BY DEF Control, Drained
  <1>5. Counted'
    BY DEF Control, Loops, Drained, Counted, BeforeReset
  <1>6. Token'
    BY DEF Control, Loops, Token, ParentsTurn, ChildsTurn, Received
  <1> QED
    BY <1>1, <1>2, <1>3, <1>4, <1>5, <1>6

\* zad3a sends the next SIGINC.
LEMMA CountSent ==
  ASSUME IInv, NEW p \in Proc, SendCount(p)
  PROVE  IInv'
  <1> USE DEF Types, SendCount, At, send, Raised, build, statics
  <1>1. Types'
    OBVIOUS
  <1>2. Control'
    BY DEF Control
  <1>3. Loops'
    BY DEF Control, Loops
  <1>4. Drained'
    BY DEF Control, Drained
  <1>5. Counted'
    BY DEF Control, Loops, Drained, Counted, BeforeReset
  <1>6. Token'
    BY DEF Control, Loops, Token, ParentsTurn, ChildsTurn, Received
  <1> QED
    BY <1>1, <1>2, <1>3, <1>4, <1>5, <1>6

\* zad3b sends the next SIGINC.
LEMMA IncSent ==
  ASSUME IInv, NEW p \in Proc, confirm_inc(p)
  PROVE  IInv'
  <1> USE DEF Types, confirm_inc, At, Goto, send, Raised, build
  <1>1. Types'
    OBVIOUS
  <1>2. Control'
    BY DEF Control
  <1>3. Loops'
    BY DEF Control, Loops
  <1>4. Drained'
    BY DEF Control, Drained
  <1>5. Counted'
    BY DEF Control, Loops, Drained, Counted, BeforeReset
  <1>6. Token'
    BY DEF Control, Loops, Token, ParentsTurn, ChildsTurn, Received
  <1> QED
    BY <1>1, <1>2, <1>3, <1>4, <1>5, <1>6

\* zad3b sees the confirmation.
LEMMA ConfirmationSeen ==
  ASSUME IInv, NEW p \in Proc, Confirmed(p)
  PROVE  IInv'
  <1> USE DEF Types, Confirmed, At, Goto, build, statics
  <1>1. Types'
    OBVIOUS
  <1>2. Control'
    BY DEF Control
  <1>3. Loops'
    BY DEF Control, Loops
  <1>4. Drained'
    BY DEF Control, Drained
  <1>5. Counted'
    BY DEF Control, Loops, Drained, Counted, BeforeReset
  <1>6. Token'
    BY DEF Control, Loops, Token, ParentsTurn, ChildsTurn, Received
  <1> QED
    BY <1>1, <1>2, <1>3, <1>4, <1>5, <1>6

\* The loop ends with the SIGFIN.
LEMMA FinSent ==
  ASSUME IInv, NEW p \in Proc, SendFin(p)
  PROVE  IInv'
  <1> USE DEF Types, SendFin, At, Goto, send, Raised, build, statics
  <1>1. Types'
    OBVIOUS
  <1>2. Control'
    BY DEF Control
  <1>3. Loops'
    BY DEF Control, Loops
  <1>4. Drained'
    BY DEF Control, Drained
  <1>5. Counted'
    BY DEF Control, Loops, Drained, Counted, BeforeReset
  <1>6. Token'
    BY DEF Control, Loops, Token, ParentsTurn, ChildsTurn, Received
  <1> QED
    BY <1>1, <1>2, <1>3, <1>4, <1>5, <1>6

\* The parent goes on to its reset, the child ends.
LEMMA SendingStopped ==
  ASSUME IInv, NEW p \in Proc, StopSending(p)
  PROVE  IInv'
  <1> USE DEF Types, StopSending, At, Goto, build
  <1>1. Types'
    OBVIOUS
  <1>2. Control'
    BY DEF Control
  <1>3. Loops'
    BY DEF Control, Loops
  <1>4. Drained'
    BY DEF Control, Drained
  <1>5. Counted'
    BY DEF Control, Loops, Drained, Counted, BeforeReset
  <1>6. Token'
    BY DEF Control, Loops, Token, ParentsTurn, ChildsTurn, Received
  <1> QED
    BY <1>1, <1>2, <1>3, <1>4, <1>5, <1>6

\* The parent begins to send.
LEMMA ParentStarts ==
  ASSUME IInv, ParentStart
  PROVE  IInv'
  <1> USE DEF Types, ParentStart, At, Goto, build
  <1>1. Types'
    OBVIOUS
  <1>2. Control'
    BY DEF Control
  <1>3. Loops'
    BY DEF Control, Loops
  <1>4. Drained'
    BY DEF Control, Drained
  <1>5. Counted'
    BY DEF Control, Loops, Drained, Counted, BeforeReset
  <1>6. Token'
    BY DEF Control, Loops, Token, ParentsTurn, ChildsTurn, Received
  <1> QED
    BY <1>1, <1>2, <1>3, <1>4, <1>5, <1>6

\* The parent forgets what it has counted before.
LEMMA ParentResets ==
  ASSUME IInv, ParentReset
  PROVE  IInv'
  <1> USE DEF Types, ParentReset, At, Goto, build
  <1>1. Types'
    OBVIOUS
  <1>2. Control'
    BY DEF Control
  <1>3. Loops'
    BY DEF Control, Loops
  <1>4. Drained'
    BY DEF Control, Drained
  <1>5. Counted'
    BY DEF Control, Loops, Drained, Counted, BeforeReset
  <1>6. Token'
    BY DEF Control, Loops, Token, ParentsTurn, ChildsTurn, Received
  <1> QED
    BY <1>1, <1>2, <1>3, <1>4, <1>5, <1>6

\* The parent leaves its loop of naps.
LEMMA ParentFinishes ==
  ASSUME IInv, ParentFinished
  PROVE  IInv'
  <1> USE DEF Types, ParentFinished, At, Goto, build, statics
  <1>1. Types'
    OBVIOUS
  <1>2. Control'
    BY DEF Control
  <1>3. Loops'
    BY DEF Control, Loops
  <1>4. Drained'
    BY DEF Control, Drained
  <1>5. Counted'
    BY DEF Control, Loops, Drained, Counted, BeforeReset
  <1>6. Token'
    BY DEF Control, Loops, Token, ParentsTurn, ChildsTurn, Received
  <1> QED
    BY <1>1, <1>2, <1>3, <1>4, <1>5, <1>6

\* The parent has seen the child end.
LEMMA ParentWaits ==
  ASSUME IInv, wait_child
  PROVE  IInv'
  <1> USE DEF Types, wait_child, At, Goto, build, statics
  <1>1. Types'
    OBVIOUS
  <1>2. Control'
    BY DEF Control
  <1>3. Loops'
    BY DEF Control, Loops
  <1>4. Drained'
    BY DEF Control, Drained
  <1>5. Counted'
    BY DEF Control, Loops, Drained, Counted, BeforeReset
  <1>6. Token'
    BY DEF Control, Loops, Token, ParentsTurn, ChildsTurn, Received
  <1> QED
    BY <1>1, <1>2, <1>3, <1>4, <1>5, <1>6

\* The child leaves its loop of naps.
LEMMA ChildFinishes ==
  ASSUME IInv, ChildFinished
  PROVE  IInv'
  <1> USE DEF Types, ChildFinished, At, Goto, build
  <1>1. Types'
    OBVIOUS
  <1>2. Control'
    BY DEF Control
  <1>3. Loops'
    BY DEF Control, Loops, Counted, Drained
  <1>4. Drained'
    BY DEF Control, Drained
  <1>5. Counted'
    BY DEF Control, Loops, Drained, Counted, BeforeReset
  <1>6. Token'
    BY DEF Control, Loops, Token, ParentsTurn, ChildsTurn, Received
  <1> QED
    BY <1>1, <1>2, <1>3, <1>4, <1>5, <1>6

-------------------------------------------------------------------------------
(***************************************************************************)
(* The invariant, and what it implies.                                     *)
(***************************************************************************)
\* It holds at the start of all four builds.
LEMMA Initially == Init => IInv
  <1> SUFFICES ASSUME Init
               PROVE  IInv
    OBVIOUS
  <1>1. Types
    BY CntAssumption DEF Init, Types
  <1>2. Control /\ Loops
    BY CntAssumption DEF Init, Control, Loops
  <1>3. Drained /\ Counted
    BY CntAssumption DEF Init, Drained, Counted, BeforeReset
  <1>4. Token
    BY CntAssumption DEF Init, Token, ParentsTurn, Received
  <1> QED
    BY <1>1, <1>2, <1>3, <1>4

\* Every step of either process, or of a handler, keeps it.
LEMMA Inductive == IInv /\ [Next]_vars => IInv'
  <1> SUFFICES ASSUME IInv, [Next]_vars
               PROVE  IInv'
    OBVIOUS
  <1>1. CASE UNCHANGED vars
    BY <1>1 DEF vars, build, statics, Types, Control, Loops, Drained, Counted,
                BeforeReset, Token, ParentsTurn, ChildsTurn, Received
  <1>2. ASSUME NEW p \in Proc, Handler(p)
        PROVE  IInv'
    BY <1>2, IncCounted, IncConfirmed, FinHandled, Resumes DEF Handler
  <1>3. ASSUME NEW p \in Proc, Main(p)
        PROVE  IInv'
    BY <1>3, CountSent, IncSent, ConfirmationSeen, FinSent, SendingStopped, ParentStarts,
       ParentResets, ParentFinishes, ParentWaits, ChildFinishes DEF Main
  <1> QED
    BY <1>1, <1>2, <1>3 DEF Next

\* The invariant holds in every state of the four builds.
THEOREM Invariant == Spec => []IInv
  BY Initially, Inductive, PTL DEF Spec

\* No counter and no queue of pending signals grows beyond what was sent.
THEOREM TypeCorrect == Spec => []TypeOK
  <1>1. IInv => TypeOK
    <2> SUFFICES ASSUME IInv
                 PROVE  TypeOK
      OBVIOUS
    <2>1. cnt \in Nat /\ MaxCnt \in Nat /\ cnt <= MaxCnt
      BY CntAssumption DEF Types
    <2>2. counter[C] <= cnt /\ i[P] <= cnt /\ i[C] <= cnt
      BY <2>1 DEF Types, Control, Loops, Counted, Token, ParentsTurn
    <2>3. counter[P] <= 2 * cnt
      BY <2>1, <2>2
      DEF Types, Control, Loops, Counted, BeforeReset, Token, ParentsTurn, ChildsTurn, Received
    <2>4. /\ Inc(C) \in Count \cup {1} /\ Inc(P) \in Count \cup {1}
          /\ Fin(C) \in Count \cup {1} /\ Fin(P) \in Count \cup {1}
      BY <2>1, <2>2 DEF Count, Types, Control, Loops, Counted, BeforeReset,
                        Token, ParentsTurn, ChildsTurn, Received
    <2>5. pending \in [Proc -> [Signal -> Count \cup {1}]]
      BY <2>4 DEF Types, Signal
    <2>6. counter \in [Proc -> 0 .. 2 * MaxCnt] /\ i \in [Proc -> Count]
      BY <2>1, <2>2, <2>3 DEF Types, Count
    <2> QED
      BY <2>5, <2>6 DEF Types, TypeOK, Count
  <1> QED
    BY <1>1, Invariant, PTL

\* With confirmations one SIGINC at most is pending in both processes together,
\* so a standard signal is never absorbed (zad3b/report.txt:1).
THEOREM OneAtATime == Spec => []OneInFlight
  <1>1. IInv => OneInFlight
    BY DEF OneInFlight, Types, Token, ParentsTurn, ChildsTurn
  <1> QED
    BY <1>1, Invariant, PTL

\* The child answers with the number of signals the parent sent, if they were
\* confirmed or queued, and with no more in any case.
THEOREM ChildCounts == Spec => []ChildCountsAll
  <1>1. IInv => ChildCountsAll
    BY DEF ChildCountsAll, Lossless, Types, Control, Loops, Drained, Counted, Token
  <1> QED
    BY <1>1, Invariant, PTL

\* What the parent prints is what the child counted, unless a signal was
\* absorbed or came before the parent's reset.
THEOREM ParentCounts == Spec => []ParentCountsAll
  <1>1. IInv => ParentCountsAll
    BY DEF ParentCountsAll, Lossless, Types, Control, Loops, Drained, Counted,
           Token, ChildsTurn, Received
  <1> QED
    BY <1>1, Invariant, PTL
===============================================================================
