---------------------------- MODULE Dispositions ----------------------------
(***************************************************************************)
(* lab4/zad1: what a child keeps of its parent's treatment of SIGUSR1 when *)
(* it is forked, and when it executes another program.  The rules of the   *)
(* kernel are external: fork copies disposition and mask and empties the   *)
(* set of pending signals; exec resets a handler and keeps the rest.       *)
(***************************************************************************)
EXTENDS Naturals

VARIABLES
  mode,   \* 0 ignore, 1 handle, 2 mask, 3 mask and look at what is pending
  exec,   \* which build: the child executes ./child
  sig,    \* per process: [disp, blocked, pending]
  pc,     \* per process: where it is, or how it ended: exited, killed
  heard,  \* processes whose handler has run
  saw     \* per process: did dopending find SIGUSR1? nothing, yes or no
vars == <<mode, exec, sig, pc, heard, saw>>

Process == {"parent", "child"}
Default == [disp |-> "default", blocked |-> FALSE, pending |-> FALSE]
\* Variant: the mode "pending" does not fall through to the mask.
BlocksOnlyMask == mode = 2
Blocks == mode \in {2, 3}

TypeOK ==
  /\ mode \in 0..3 /\ exec \in BOOLEAN
  /\ sig \in [Process -> [disp : {"default", "ignore", "handle"}, blocked : BOOLEAN, pending : BOOLEAN]]
  /\ heard \subseteq Process /\ saw \in [Process -> {"nothing", "yes", "no"}]

Init ==
  /\ mode \in 0..3 /\ exec \in BOOLEAN
  /\ sig = [q \in Process |-> Default]
  /\ pc = [parent |-> "setup", child |-> "none"]
  /\ heard = {} /\ saw = [q \in Process |-> "nothing"]

\* signal() or sigprocmask(), by the mode
Setup ==
  /\ pc["parent"] = "setup"
  /\ sig' = [sig EXCEPT !["parent"].disp = IF mode = 0 THEN "ignore" ELSE IF mode = 1 THEN "handle" ELSE @,
                        !["parent"].blocked = Blocks]
  /\ pc' = [pc EXCEPT !["parent"] = "raise"]
  /\ UNCHANGED <<mode, exec, heard, saw>>

\* raise(SIGUSR1)
Raise(q, then) ==
  /\ pc[q] = "raise"
  /\ sig' = [sig EXCEPT ![q].pending = sig[q].blocked]
  /\ heard' = IF ~sig[q].blocked /\ sig[q].disp = "handle" THEN heard \cup {q} ELSE heard
  /\ pc' = [pc EXCEPT ![q] = IF ~sig[q].blocked /\ sig[q].disp = "default" THEN "killed" ELSE then]
  /\ UNCHANGED <<mode, exec, saw>>

DoPending(q, then) ==
  /\ pc[q] = "dopending"
  /\ saw' = [saw EXCEPT ![q] = IF sig[q].pending THEN "yes" ELSE "no"]
  /\ pc' = [pc EXCEPT ![q] = then]
  /\ UNCHANGED <<mode, exec, sig, heard>>

Fork ==
  /\ pc["parent"] = "fork"
  /\ sig' = [sig EXCEPT !["child"] = [sig["parent"] EXCEPT !.pending = FALSE]]
  /\ pc' = [parent |-> "wait",
            child |-> IF exec THEN "exec" ELSE IF mode = 3 THEN "dopending" ELSE "raise"]
  /\ UNCHANGED <<mode, exec, heard, saw>>

Exec ==
  /\ pc["child"] = "exec"
  /\ sig' = [sig EXCEPT !["child"].disp = IF @ = "handle" THEN "default" ELSE @]
  /\ pc' = [pc EXCEPT !["child"] = IF mode = 3 THEN "dopending" ELSE "raise"]
  /\ UNCHANGED <<mode, exec, heard, saw>>

Wait == /\ pc["parent"] = "wait" /\ pc["child"] \in {"exited", "killed"}
        /\ pc' = [pc EXCEPT !["parent"] = "exited"]
        /\ UNCHANGED <<mode, exec, sig, heard, saw>>

Next == \/ Setup \/ Fork \/ Exec \/ Wait
        \/ Raise("parent", IF mode = 2 THEN "dopending" ELSE "fork") \/ DoPending("parent", "fork")
        \/ Raise("child", "exited") \/ DoPending("child", "exited")
Spec == Init /\ [][Next]_vars /\ WF_vars(Next)
-----------------------------------------------------------------------------
\* report.txt: the parent survives its own signal; ignoring and masks are inherited, even through exec; the child
\* never sees a pending signal of its parent; a handler survives fork only.
ReportTrue ==
  /\ pc["parent"] # "killed"
  /\ pc["parent"] = "exited" =>
    /\ pc["child"] = "killed" <=> mode = 1 /\ exec
    /\ "child" \in heard <=> mode = 1 /\ ~exec
    /\ "parent" \in heard <=> mode = 1
    /\ mode = 2 => saw["parent"] = "yes" /\ sig["child"].pending
    /\ mode = 3 => saw["child"] = "no" /\ sig["parent"].pending
=============================================================================
