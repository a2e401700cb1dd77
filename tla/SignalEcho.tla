----------------------------- MODULE SignalEcho -----------------------------
(***************************************************************************)
(* lab4/zad3a/main.c and lab4/zad3b/main.c: a parent sends its child cnt   *)
(* signals SIGINC and a final SIGFIN, the child counts them and sends as   *)
(* many back, and the parent counts those.  zad3a ("count") sends without  *)
(* waiting; in zad3b ("confirm") every SIGINC waits for a SIGINC in the    *)
(* other direction.  Each is built with standard signals, of which one of  *)
(* a kind can be pending at a time, and with real-time signals, which are  *)
(* queued.                                                                 *)
(*                                                                         *)
(* A handler runs while the main program of its process stands still, and  *)
(* the main program goes on only when no signal is pending any more.  The  *)
(* kernel stacks the handlers of signals that are pending together, so     *)
(* they may run in any order.                                              *)
(***************************************************************************)
EXTENDS Integers

CONSTANTS MaxCnt            \* bound on the command line's <increment count>

ASSUME CntAssumption == MaxCnt \in Nat

Proc == {"parent", "child"}
Signal == {"INC", "FIN"}
Other(p) == IF p = "parent" THEN "child" ELSE "parent"

VARIABLES
  program, realtime, cnt,   \* the build and its argument
  pending,                  \* the kernel's signals for each process
  handling,                 \* processes whose main program is interrupted
  counter, finished, sending, confirmed,  \* the static variables of main.c
  pc, i,                    \* the main program of each process
  early                     \* the parent handled a SIGINC before its reset

build == <<program, realtime, cnt>>
statics == <<counter, finished, sending, confirmed>>
vars == <<build, pending, handling, statics, pc, i, early>>

Init ==
  /\ program \in {"count", "confirm"}
  /\ realtime \in BOOLEAN
  /\ cnt \in 0 .. MaxCnt
  /\ pending = [p \in Proc |-> [s \in Signal |-> 0]]
  /\ handling = {}
  /\ counter = [p \in Proc |-> 0]
  /\ finished = [p \in Proc |-> FALSE]
  /\ sending = [p \in Proc |-> FALSE]
  /\ confirmed = [p \in Proc |-> FALSE]
  /\ pc = [p \in Proc |-> IF p = "parent" THEN "start" ELSE "listen"]
  /\ i = [p \in Proc |-> 0]
  /\ early = FALSE

(***************************************************************************)
(* Signals.  A send raises the signal for the other process; one that is   *)
(* already pending absorbs a standard signal.                              *)
(***************************************************************************)
\* Variant: a real-time signal is not queued.
RaisedOnce(q, s) == 1

Raised(q, s) == IF realtime THEN pending[q][s] + 1 ELSE 1

send(p, s) ==
  pending' = [pending EXCEPT ![Other(p)][s] = Raised(Other(p), s)]

\* A handler of p that answers with a signal takes s off and sends t.
TakeAndSend(p, s, t) ==
  pending' = [pending EXCEPT ![p][s] = @ - 1,
                             ![Other(p)][t] = Raised(Other(p), t)]

Take(p, s) == pending' = [pending EXCEPT ![p][s] = @ - 1]

Interrupt(p, s) ==
  /\ pc[p] # "done"
  /\ pending[p][s] > 0
  /\ handling' = handling \cup {p}

\* The last handler returns to the main program.
Resume(p) ==
  /\ p \in handling
  /\ \A s \in Signal : pending[p][s] = 0
  /\ handling' = handling \ {p}
  /\ UNCHANGED <<build, pending, statics, pc, i, early>>

BeforeReset == {"sent", "reset"}

MarkEarly(p) == early' = (early \/ (p = "parent" /\ pc[p] \in BeforeReset))

handler_inc_count(p) ==
  /\ program = "count"
  /\ Interrupt(p, "INC")
  /\ Take(p, "INC")
  /\ counter' = [counter EXCEPT ![p] = @ + 1]
  /\ MarkEarly(p)
  /\ UNCHANGED <<build, finished, sending, confirmed, pc, i>>

\* Variant: the signal is not confirmed.
handler_inc_no_answer(p) ==
  /\ program = "confirm"
  /\ Interrupt(p, "INC")
  /\ counter' = [counter EXCEPT ![p] = IF sending[p] THEN @ ELSE @ + 1]
  /\ confirmed' = [confirmed EXCEPT ![p] = @ \/ sending[p]]
  /\ Take(p, "INC")
  /\ MarkEarly(p)
  /\ UNCHANGED <<build, finished, sending, pc, i>>

\* A process that sends takes SIGINC for a confirmation; another counts and
\* confirms it, unless it has finished.
handler_inc_confirm(p) ==
  /\ program = "confirm"
  /\ Interrupt(p, "INC")
  /\ LET counts == ~sending[p] /\ ~finished[p]
     IN  /\ counter' = [counter EXCEPT ![p] = IF counts THEN @ + 1 ELSE @]
         /\ IF counts THEN TakeAndSend(p, "INC", "INC") ELSE Take(p, "INC")
  /\ confirmed' = [confirmed EXCEPT ![p] = @ \/ sending[p]]
  /\ MarkEarly(p)
  /\ UNCHANGED <<build, finished, sending, pc, i>>

handler_fin(p) ==
  /\ Interrupt(p, "FIN")
  /\ Take(p, "FIN")
  /\ finished' = [finished EXCEPT ![p] = TRUE]
  /\ UNCHANGED <<build, counter, sending, confirmed, pc, i, early>>

Handler(p) ==
  \/ handler_inc_count(p) \/ handler_inc_confirm(p) \/ handler_fin(p)
  \/ Resume(p)

(***************************************************************************)
(* The main programs.                                                      *)
(***************************************************************************)
At(p, label) == pc[p] = label /\ p \notin handling
Goto(p, label) == pc' = [pc EXCEPT ![p] = label]

\* sending = true; counter = cnt.  zad3a has no sending.
ParentStart ==
  /\ At("parent", "start")
  /\ sending' = [sending EXCEPT !["parent"] = program = "confirm"]
  /\ counter' = [counter EXCEPT !["parent"] = cnt]
  /\ Goto("parent", "loop")
  /\ UNCHANGED <<build, pending, handling, finished, confirmed, i, early>>

\* The child leaves its loop of naps.
ChildFinished ==
  /\ At("child", "listen")
  /\ finished["child"]
  /\ sending' = [sending EXCEPT !["child"] = program = "confirm"]
  /\ Goto("child", "loop")
  /\ UNCHANGED <<build, pending, handling, counter, finished, confirmed, i, early>>

\* Variant: i <= counter in the loop.
SendCountOnceMore(p) ==
  /\ program = "count"
  /\ At(p, "loop")
  /\ i[p] <= counter[p]
  /\ send(p, "INC")
  /\ i' = [i EXCEPT ![p] = @ + 1]
  /\ UNCHANGED <<build, handling, statics, pc, early>>

SendCount(p) ==
  /\ program = "count"
  /\ At(p, "loop")
  /\ i[p] < counter[p]
  /\ send(p, "INC")
  /\ i' = [i EXCEPT ![p] = @ + 1]
  /\ UNCHANGED <<build, handling, statics, pc, early>>

confirm_inc(p) ==
  /\ program = "confirm"
  /\ At(p, "loop")
  /\ i[p] < counter[p]
  /\ confirmed' = [confirmed EXCEPT ![p] = FALSE]
  /\ send(p, "INC")
  /\ Goto(p, "confirm")
  /\ UNCHANGED <<build, handling, counter, finished, sending, i, early>>

\* Variant: the next SIGINC does not wait for the confirmation.
ConfirmedAtOnce(p) ==
  /\ At(p, "confirm")
  /\ i' = [i EXCEPT ![p] = @ + 1]
  /\ Goto(p, "loop")
  /\ UNCHANGED <<build, pending, handling, statics, early>>

Confirmed(p) ==
  /\ At(p, "confirm")
  /\ confirmed[p]
  /\ i' = [i EXCEPT ![p] = @ + 1]
  /\ Goto(p, "loop")
  /\ UNCHANGED <<build, pending, handling, statics, early>>

SendFin(p) ==
  /\ At(p, "loop")
  /\ i[p] >= counter[p]
  /\ send(p, "FIN")
  /\ Goto(p, "sent")
  /\ UNCHANGED <<build, handling, statics, i, early>>

\* sending = false after the SIGFIN; the child exits then.
StopSending(p) ==
  /\ At(p, "sent")
  /\ sending' = [sending EXCEPT ![p] = FALSE]
  /\ Goto(p, IF p = "parent" THEN "reset" ELSE "done")
  /\ UNCHANGED <<build, pending, handling, counter, finished, confirmed, i, early>>

\* Variant: the parent keeps its counter.
ParentNoReset ==
  /\ At("parent", "reset")
  /\ Goto("parent", "listen")
  /\ UNCHANGED <<build, pending, handling, statics, i, early>>

ParentReset ==
  /\ At("parent", "reset")
  /\ counter' = [counter EXCEPT !["parent"] = 0]
  /\ Goto("parent", "listen")
  /\ UNCHANGED <<build, pending, handling, finished, sending, confirmed, i, early>>

\* The parent leaves its loop of naps and prints what it received.
ParentFinished ==
  /\ At("parent", "listen")
  /\ finished["parent"]
  /\ Goto("parent", "printed")
  /\ UNCHANGED <<build, pending, handling, statics, i, early>>

wait_child ==
  /\ At("parent", "printed")
  /\ pc["child"] = "done"
  /\ Goto("parent", "done")
  /\ UNCHANGED <<build, pending, handling, statics, i, early>>

Main(p) ==
  \/ SendCount(p) \/ confirm_inc(p) \/ Confirmed(p) \/ SendFin(p) \/ StopSending(p)
  \/ p = "parent" /\ (ParentStart \/ ParentReset \/ ParentFinished \/ wait_child)
  \/ p = "child" /\ ChildFinished

Next == \E p \in Proc : Main(p) \/ Handler(p)

Spec == Init /\ [][Next]_vars

(***************************************************************************)
(* Both processes are scheduled and the kernel delivers pending signals.   *)
(***************************************************************************)
Fairness == \A p \in Proc : WF_vars(Main(p)) /\ WF_vars(Handler(p))

FairSpec == Spec /\ Fairness

(***************************************************************************)
(* Every variable keeps its type.                                          *)
(***************************************************************************)
Count == 0 .. MaxCnt

TypeOK ==
  /\ program \in {"count", "confirm"} /\ realtime \in BOOLEAN /\ cnt \in Count
  /\ pending \in [Proc -> [Signal -> Count \cup {1}]]
  /\ handling \subseteq Proc
  /\ counter \in [Proc -> 0 .. 2 * MaxCnt] /\ i \in [Proc -> Count]
  /\ finished \in [Proc -> BOOLEAN] /\ sending \in [Proc -> BOOLEAN]
  /\ confirmed \in [Proc -> BOOLEAN]
  /\ pc \in [Proc -> {"start", "listen", "loop", "confirm", "sent", "reset",
                      "printed", "done"}]
  /\ early \in BOOLEAN

(***************************************************************************)
(* "No more than one signal is in flight at the same time"                 *)
(* (zad3b/report.txt:1): with confirmations one SIGINC at most is pending  *)
(* in both processes together, so a standard one cannot be absorbed.       *)
(***************************************************************************)
OneInFlight ==
  program = "confirm" => pending["parent"]["INC"] + pending["child"]["INC"] <= 1

(***************************************************************************)
(* When the child starts to answer it has counted every signal, if they    *)
(* were confirmed or queued, and no more than were sent in any case.       *)
(***************************************************************************)
Lossless == program = "confirm" \/ realtime

ChildCountsAll ==
  pc["child"] # "listen" =>
    counter["child"] <= cnt /\ (Lossless => counter["child"] = cnt)

(***************************************************************************)
(* What the parent has received when it prints (zad3b/main.c:206) is never *)
(* more than the child counted, and all of it unless a signal was lost in  *)
(* transit or handled before "counter = 0" (main.c:198-200).               *)
(***************************************************************************)
ParentCountsAll ==
  pc["parent"] \in {"printed", "done"} =>
    /\ counter["parent"] <= counter["child"]
    /\ Lossless /\ ~early => counter["parent"] = cnt

(***************************************************************************)
(* Both processes end, unless the parent takes the child's first signals   *)
(* for confirmations because it handles them before "sending = false".     *)
(***************************************************************************)
BothDone == \A p \in Proc : pc[p] = "done"

EndsUnlessEarly == <>(BothDone \/ (program = "confirm" /\ early))

(***************************************************************************)
(* "A solution in which no deadlock happens" is what lab4/README.md asks   *)
(* of the exchange with confirmations: both processes end.                 *)
(***************************************************************************)
AlwaysEnds == <>BothDone
===============================================================================
