---------------------------- MODULE SignalFlags ----------------------------
(***************************************************************************)
(* lab4/zad2: one experiment with the flags of sigaction.  RUN forks a     *)
(* child for it and waits for the child; the child installs a handler and  *)
(* gets signals, from itself or from a child of its own (parent_killer)    *)
(* that it waits for.  Delivery of signals is the kernel's: a pending      *)
(* signal is handled before the next step of the process, and interrupts   *)
(* a wait that has no child to return yet.                                 *)
(***************************************************************************)
EXTENDS Naturals

VARIABLES
  test,      \* siginfo, norestart, restart or resethand
  disp,      \* disposition of SIGUSR1 in the process of the test
  pending,   \* SIGUSR1 is pending there
  handled,   \* how often the handler ran
  caught,    \* history: where the test was when the handler ran last
  pc,        \* of the test: register, raise, fork, call, wait, report, and how
             \* it ended: ok, error, killed
  raises,    \* signals it still has to send itself
  killer     \* parent_killer: none, start, sent, zombie, reaped
vars == <<test, disp, pending, handled, caught, pc, raises, killer>>

Waits == test \in {"norestart", "restart"}
Ended == pc \in {"ok", "error", "killed"}

TypeOK == /\ handled \in 0..3 /\ raises \in 0..3 /\ pending \in BOOLEAN
          /\ disp \in {"default", "handle"}

Init == /\ test \in {"siginfo", "norestart", "restart", "resethand"}
        /\ disp = "default" /\ pending = FALSE /\ handled = 0 /\ caught = "none"
        /\ pc = "register" /\ raises = 0 /\ killer = "none"

\* sigaction()
Register ==
  /\ pc = "register"
  /\ disp' = "handle"
  /\ raises' = IF test = "siginfo" THEN 3 ELSE IF test = "resethand" THEN 2 ELSE 0
  /\ pc' = IF Waits THEN "fork" ELSE "raise"
  /\ UNCHANGED <<test, pending, handled, caught, killer>>

\* raise, sigqueue or kill to the process itself
RaiseSelf ==
  /\ pc = "raise" /\ ~pending
  /\ IF raises > 0 THEN pending' = TRUE /\ raises' = raises - 1 /\ UNCHANGED pc
     ELSE pc' = "ok" /\ UNCHANGED <<pending, raises>>
  /\ UNCHANGED <<test, disp, handled, caught, killer>>

\* RUN(parent_killer)
ForkKiller == /\ pc = "fork" /\ ~pending
              /\ killer' = "start" /\ pc' = "call"
              /\ UNCHANGED <<test, disp, pending, handled, caught, raises>>
Kill == /\ killer = "start"
        /\ killer' = "sent" /\ pending' = TRUE
        /\ UNCHANGED <<test, disp, handled, caught, pc, raises>>
KillerExits == /\ killer = "sent" /\ killer' = "zombie"
               /\ UNCHANGED <<test, disp, pending, handled, caught, pc, raises>>
CallWait == /\ pc = "call" /\ ~pending
            /\ pc' = "wait"
            /\ UNCHANGED <<test, disp, pending, handled, caught, raises, killer>>
Reap == /\ pc = "wait" /\ killer = "zombie"
        /\ killer' = "reaped" /\ pc' = "report"
        /\ UNCHANGED <<test, disp, pending, handled, caught, raises>>
Report == /\ pc = "report" /\ ~pending
          /\ pc' = "ok"
          /\ UNCHANGED <<test, disp, pending, handled, caught, raises, killer>>

\* Without SA_RESTART a handler that ran during waitpid makes it fail.
\* Variant: norestart registers its handler with the flags of restart.
InterruptsNever == pc = "wait" /\ test \notin {"norestart", "restart"}
Interrupts == pc = "wait" /\ test = "norestart"

\* the handler; with SA_RESETHAND only once
Deliver ==
  /\ pending /\ ~Ended
  /\ pending' = FALSE
  /\ IF disp = "default" THEN pc' = "killed" /\ UNCHANGED <<disp, handled, caught>>
     ELSE /\ handled' = handled + 1 /\ caught' = pc
          /\ disp' = IF test = "resethand" THEN "default" ELSE disp
          /\ pc' = IF Interrupts THEN "error" ELSE pc
  /\ UNCHANGED <<test, raises, killer>>

Next == \/ Register \/ RaiseSelf \/ ForkKiller \/ Kill \/ KillerExits
        \/ CallWait \/ Reap \/ Report \/ Deliver
Spec == Init /\ [][Next]_vars /\ WF_vars(Next)
-----------------------------------------------------------------------------
\* Every test ends as its flags say and no signal is lost: with SA_RESTART the
\* child is always waited for, wherever the signal came; without, waitpid fails
\* exactly when the signal came while the process was in it, and a signal before
\* or after it does no harm; SA_RESETHAND lets the second signal kill.
FlagsObeyed ==
  Ended =>
    CASE test = "siginfo" -> pc = "ok" /\ handled = 3
      [] test = "restart" -> pc = "ok" /\ handled = 1 /\ killer = "reaped"
      [] test = "norestart" -> /\ handled = 1
                               /\ pc = "error" <=> caught = "wait"
                               /\ pc = "ok" <=> killer = "reaped"
      [] test = "resethand" -> pc = "killed" /\ handled = 1
=============================================================================
