-------------------------------- MODULE Santa --------------------------------
(***************************************************************************)
(* lab9/main.c: the Santa Claus problem with one mutex, one condition      *)
(* variable and three semaphores.  Santa sleeps on the condition until all *)
(* reindeer or a full group of elves are registered; elves enter through   *)
(* a slot semaphore and wait for a token Santa posts; so do the reindeer.  *)
(*                                                                         *)
(* Every step between two synchronisation calls is one action.  A nap is   *)
(* the time a thread may stay between two of its actions, so any relative  *)
(* speed is allowed.  report() takes a lock of its own around one printf   *)
(* and calls nothing inside it: it is left out, except that Santa's        *)
(* announcement of the elves he helps is kept in the variable announced.   *)
(***************************************************************************)
EXTENDS Integers, FiniteSets

CONSTANTS Elf, Reindeer,   \* the elf and the reindeer threads
          Santa, Nobody,   \* owner of the mutex besides those: Santa, or none
          MAXELFWAIT, MAXREINWAIT, DELIVERIES

ASSUME ThreadsAssumption ==
  /\ IsFiniteSet(Elf) /\ IsFiniteSet(Reindeer)
  /\ Elf \cap Reindeer = {}
  /\ Santa \notin Elf \cup Reindeer
  /\ Nobody \notin Elf \cup Reindeer \cup {Santa}

ASSUME SizesAssumption ==
  /\ MAXELFWAIT \in Nat \ {0}
  /\ MAXREINWAIT \in Nat \ {0}
  /\ DELIVERIES \in Nat
  /\ MAXREINWAIT = Cardinality(Reindeer)

VARIABLES
  lock,           \* who holds ctx->lock
  reindeer_sem, elf_sem, elfslots_sem,
  reindeer,       \* ctx->reindeer
  elves,          \* ctx->elves
  elfids,         \* ctx->elfids
  santa,          \* where Santa is in santa_thread
  j,              \* his loop counter while he posts tokens
  deliveries,     \* his local variable
  pc,             \* where each elf and each reindeer is in its thread
  announced       \* elves Santa said he helps since they last registered

sems == <<reindeer_sem, elf_sem, elfslots_sem>>
ctx == <<lock, sems, reindeer, elves, elfids>>
santaVars == <<santa, j, deliveries>>
vars == <<ctx, santaVars, pc, announced>>

Worker == Elf \cup Reindeer

Init ==
  /\ lock = Nobody
  /\ reindeer_sem = 0
  /\ elf_sem = 0
  /\ elfslots_sem = MAXELFWAIT
  /\ reindeer = 0
  /\ elves = 0
  /\ elfids = [i \in 0 .. MAXELFWAIT - 1 |-> Nobody]
  /\ santa = "start"
  /\ j = 0
  /\ deliveries = 0
  /\ pc = [t \in Worker |-> "nap"]
  /\ announced = {}

(***************************************************************************)
(* The process runs until main returns from joining Santa.                 *)
(***************************************************************************)
Running == santa # "exited"

At(t, label) == Running /\ pc[t] = label
Goto(t, label) == pc' = [pc EXCEPT ![t] = label]

(***************************************************************************)
(* Santa.  He holds the lock from "loop" to "post_elves": only the wait on *)
(* the condition and the end of the thread release it.                     *)
(***************************************************************************)
MayRest == reindeer < MAXREINWAIT /\ elves < MAXELFWAIT

SantaStart ==
  /\ santa = "start"
  /\ lock = Nobody
  /\ lock' = Santa
  /\ santa' = "loop"
  /\ UNCHANGED <<sems, reindeer, elves, elfids, j, deliveries, pc, announced>>

\* Variant: the mutex is released first, so that a signal can come in between.
SantaSleepNotAtomic ==
  /\ \/ /\ santa = "loop" /\ deliveries < DELIVERIES /\ MayRest
        /\ santa' = "unlocked" /\ lock' = Nobody
     \/ santa = "unlocked" /\ santa' = "asleep" /\ UNCHANGED lock
  /\ UNCHANGED <<sems, reindeer, elves, elfids, j, deliveries, pc, announced>>

\* pthread_cond_wait releases the mutex and sleeps in one step.
SantaSleep ==
  /\ santa = "loop"
  /\ deliveries < DELIVERIES
  /\ MayRest
  /\ santa' = "asleep"
  /\ lock' = Nobody
  /\ UNCHANGED <<sems, reindeer, elves, elfids, j, deliveries, pc, announced>>

SpuriousWakeup ==
  /\ santa = "asleep"
  /\ santa' = "woken"
  /\ UNCHANGED <<ctx, j, deliveries, pc, announced>>

\* Variant: the inner while is an if.
SantaWakeNoRetest ==
  /\ santa = "woken"
  /\ lock = Nobody
  /\ lock' = Santa
  /\ santa' = "dispatch"
  /\ UNCHANGED <<sems, reindeer, elves, elfids, j, deliveries, pc, announced>>

\* The return from pthread_cond_wait, and back to the test of the while.
SantaWake ==
  /\ santa = "woken"
  /\ lock = Nobody
  /\ lock' = Santa
  /\ santa' = "loop"
  /\ UNCHANGED <<sems, reindeer, elves, elfids, j, deliveries, pc, announced>>

SantaLeaveLoop ==
  /\ santa = "loop"
  /\ deliveries < DELIVERIES
  /\ ~MayRest
  /\ santa' = "dispatch"
  /\ UNCHANGED <<ctx, j, deliveries, pc, announced>>

SantaDeliver ==
  /\ santa = "dispatch"
  /\ reindeer >= MAXREINWAIT
  /\ santa' = "post_reindeer"
  /\ j' = 0
  /\ UNCHANGED <<ctx, deliveries, pc, announced>>

\* Variant: j <= MAXREINWAIT in the loop that posts.
SantaPostReindeerOnceMore ==
  /\ santa = "post_reindeer"
  /\ j <= MAXREINWAIT
  /\ reindeer_sem' = reindeer_sem + 1
  /\ j' = j + 1
  /\ UNCHANGED <<lock, elf_sem, elfslots_sem, reindeer, elves, elfids,
                 santa, deliveries, pc, announced>>

SantaPostReindeer ==
  /\ santa = "post_reindeer"
  /\ j < MAXREINWAIT
  /\ reindeer_sem' = reindeer_sem + 1
  /\ j' = j + 1
  /\ UNCHANGED <<lock, elf_sem, elfslots_sem, reindeer, elves, elfids,
                 santa, deliveries, pc, announced>>

SantaDelivered ==
  /\ santa = "post_reindeer"
  /\ j >= MAXREINWAIT
  /\ reindeer' = 0
  /\ deliveries' = deliveries + 1
  /\ santa' = "loop"
  /\ UNCHANGED <<lock, sems, elves, elfids, j, pc, announced>>

\* Variant: the elves' case is tested before the reindeer's.
SantaSolveFirst ==
  /\ santa = "dispatch"
  /\ elves >= MAXELFWAIT
  /\ announced' = announced \cup {elfids[i] : i \in 0 .. MAXELFWAIT - 1}
  /\ santa' = "post_elves"
  /\ j' = 0
  /\ UNCHANGED <<ctx, deliveries, pc>>

SantaSolve ==
  /\ santa = "dispatch"
  /\ reindeer < MAXREINWAIT
  /\ elves >= MAXELFWAIT
  /\ announced' = announced \cup {elfids[i] : i \in 0 .. MAXELFWAIT - 1}
  /\ santa' = "post_elves"
  /\ j' = 0
  /\ UNCHANGED <<ctx, deliveries, pc>>

SantaPostElf ==
  /\ santa = "post_elves"
  /\ j < MAXELFWAIT
  /\ elf_sem' = elf_sem + 1
  /\ j' = j + 1
  /\ UNCHANGED <<lock, reindeer_sem, elfslots_sem, reindeer, elves, elfids,
                 santa, deliveries, pc, announced>>

SantaSolved ==
  /\ santa = "post_elves"
  /\ j >= MAXELFWAIT
  /\ elves' = 0
  /\ santa' = "loop"
  /\ UNCHANGED <<lock, sems, reindeer, elfids, j, deliveries, pc, announced>>

SantaReturn ==
  /\ santa = "loop"
  /\ deliveries >= DELIVERIES
  /\ lock' = Nobody
  /\ santa' = "done"
  /\ UNCHANGED <<sems, reindeer, elves, elfids, j, deliveries, pc, announced>>

\* pthread_join returns and main with it, which ends every other thread.
MainReturn ==
  /\ santa = "done"
  /\ santa' = "exited"
  /\ UNCHANGED <<ctx, j, deliveries, pc, announced>>

SantaStep ==
  \/ SantaStart \/ SantaSleep \/ SantaWake \/ SantaLeaveLoop
  \/ SantaDeliver \/ SantaPostReindeer \/ SantaDelivered
  \/ SantaSolve \/ SantaPostElf \/ SantaSolved
  \/ SantaReturn

(***************************************************************************)
(* The mutex and the condition variable, as the elves and reindeer use it. *)
(***************************************************************************)
Acquire(t) == lock = Nobody /\ lock' = t

\* pthread_cond_signal wakes Santa if he sleeps and is lost otherwise.
SignalSanta(full) ==
  santa' = IF full /\ santa = "asleep" THEN "woken" ELSE santa

(***************************************************************************)
(* An elf.                                                                 *)
(***************************************************************************)
ElfTakeSlot(e) ==
  /\ At(e, "nap")
  /\ elfslots_sem > 0
  /\ elfslots_sem' = elfslots_sem - 1
  /\ Goto(e, "lock")
  /\ UNCHANGED <<lock, reindeer_sem, elf_sem, reindeer, elves, elfids,
                 santaVars, announced>>

ElfLock(e) ==
  /\ At(e, "lock")
  /\ Acquire(e)
  /\ Goto(e, "register")
  /\ UNCHANGED <<sems, reindeer, elves, elfids, santaVars, announced>>

ElfRegister(e) ==
  /\ At(e, "register")
  /\ elfids' = [elfids EXCEPT ![elves] = e]
  /\ elves' = elves + 1
  /\ announced' = announced \ {e}
  /\ Goto(e, "signal")
  /\ UNCHANGED <<lock, sems, reindeer, santaVars>>

\* Variant: elves > MAXELFWAIT.
ElfSignalTooLate(e) ==
  /\ At(e, "signal")
  /\ SignalSanta(elves > MAXELFWAIT)
  /\ Goto(e, "unlock")
  /\ UNCHANGED <<ctx, j, deliveries, announced>>

ElfSignal(e) ==
  /\ At(e, "signal")
  /\ SignalSanta(elves >= MAXELFWAIT)
  /\ Goto(e, "unlock")
  /\ UNCHANGED <<ctx, j, deliveries, announced>>

\* Variant: the slot is given back before the wait for Santa, not after it.
ElfUnlockFreesSlot(e) ==
  /\ At(e, "unlock")
  /\ lock' = Nobody
  /\ elfslots_sem' = elfslots_sem + 1
  /\ Goto(e, "wait")
  /\ UNCHANGED <<reindeer_sem, elf_sem, reindeer, elves, elfids, santaVars,
                 announced>>

ElfUnlock(e) ==
  /\ At(e, "unlock")
  /\ lock' = Nobody
  /\ Goto(e, "wait")
  /\ UNCHANGED <<sems, reindeer, elves, elfids, santaVars, announced>>

\* Variant: the elf does not wait for Santa's token (sem_trywait).
ElfDoesNotWait(e) ==
  /\ At(e, "wait")
  /\ elf_sem' = IF elf_sem > 0 THEN elf_sem - 1 ELSE 0
  /\ Goto(e, "solved")
  /\ UNCHANGED <<lock, reindeer_sem, elfslots_sem, reindeer, elves, elfids,
                 santaVars, announced>>

ElfWait(e) ==
  /\ At(e, "wait")
  /\ elf_sem > 0
  /\ elf_sem' = elf_sem - 1
  /\ Goto(e, "solved")
  /\ UNCHANGED <<lock, reindeer_sem, elfslots_sem, reindeer, elves, elfids,
                 santaVars, announced>>

ElfLeave(e) ==
  /\ At(e, "solved")
  /\ elfslots_sem' = elfslots_sem + 1
  /\ Goto(e, "nap")
  /\ UNCHANGED <<lock, reindeer_sem, elf_sem, reindeer, elves, elfids,
                 santaVars, announced>>

ElfStep(e) ==
  \/ ElfTakeSlot(e) \/ ElfLock(e) \/ ElfRegister(e) \/ ElfSignal(e)
  \/ ElfUnlock(e) \/ ElfWait(e) \/ ElfLeave(e)

(***************************************************************************)
(* A reindeer.                                                             *)
(***************************************************************************)
ReindeerLock(r) ==
  /\ At(r, "nap")
  /\ Acquire(r)
  /\ Goto(r, "register")
  /\ UNCHANGED <<sems, reindeer, elves, elfids, santaVars, announced>>

ReindeerRegister(r) ==
  /\ At(r, "register")
  /\ reindeer' = reindeer + 1
  /\ Goto(r, "signal")
  /\ UNCHANGED <<lock, sems, elves, elfids, santaVars, announced>>

ReindeerSignal(r) ==
  /\ At(r, "signal")
  /\ SignalSanta(reindeer >= MAXREINWAIT)
  /\ Goto(r, "unlock")
  /\ UNCHANGED <<ctx, j, deliveries, announced>>

ReindeerUnlock(r) ==
  /\ At(r, "unlock")
  /\ lock' = Nobody
  /\ Goto(r, "wait")
  /\ UNCHANGED <<sems, reindeer, elves, elfids, santaVars, announced>>

ReindeerWait(r) ==
  /\ At(r, "wait")
  /\ reindeer_sem > 0
  /\ reindeer_sem' = reindeer_sem - 1
  /\ Goto(r, "nap")
  /\ UNCHANGED <<lock, elf_sem, elfslots_sem, reindeer, elves, elfids,
                 santaVars, announced>>

ReindeerStep(r) ==
  \/ ReindeerLock(r) \/ ReindeerRegister(r) \/ ReindeerSignal(r)
  \/ ReindeerUnlock(r) \/ ReindeerWait(r)

(***************************************************************************)
(* The system.  After main has returned nothing is left to run.            *)
(***************************************************************************)
Terminated == santa = "exited" /\ UNCHANGED vars

Next ==
  \/ SantaStep
  \/ SpuriousWakeup
  \/ MainReturn
  \/ \E e \in Elf : ElfStep(e)
  \/ \E r \in Reindeer : ReindeerStep(r)
  \/ Terminated

Spec == Init /\ [][Next]_vars

(***************************************************************************)
(* Every thread that can run does, and a thread that asks for the mutex    *)
(* gets it if it is free again and again: each thread naps for seconds     *)
(* between two uses of the mutex, so it is free most of the time.  Nothing *)
(* is assumed about spurious wake-ups.                                     *)
(***************************************************************************)
Fairness ==
  /\ WF_vars(SantaStep) /\ SF_vars(SantaStart) /\ SF_vars(SantaWake)
  /\ WF_vars(MainReturn)
  /\ \A e \in Elf : WF_vars(ElfStep(e)) /\ SF_vars(ElfLock(e))
  /\ \A r \in Reindeer : WF_vars(ReindeerStep(r)) /\ SF_vars(ReindeerLock(r))

FairSpec == Spec /\ Fairness

(***************************************************************************)
(* Where the threads are.                                                  *)
(***************************************************************************)
SantaHolds == santa \in {"loop", "dispatch", "post_reindeer", "post_elves"}
Holding == {"register", "signal", "unlock"}
Counted == {"signal", "unlock", "wait"}
Inside == Counted \cup {"lock", "register", "solved"}

\* Elves past elfslots_sem; elves that are registered and still hold no token
\* of Santa's; reindeer that are registered and hold none.
ElvesInside == {e \in Elf : pc[e] \in Inside}
ElvesWaiting == {e \in Elf : pc[e] \in Counted}
ReindeerHome == {r \in Reindeer : pc[r] \in Counted}

\* Tokens of the round in progress that Santa has posted so far.
Posted(label) == IF santa = label THEN j ELSE 0

(***************************************************************************)
(* Every variable keeps its type, elves and reindeer stay within the       *)
(* limits of main.c:33-36 and the mutex has the owner the code gives it.   *)
(***************************************************************************)
TypeOK ==
  /\ lock \in Worker \cup {Santa, Nobody}
  /\ reindeer_sem \in Nat /\ elf_sem \in Nat /\ elfslots_sem \in Nat
  /\ reindeer \in 0 .. MAXREINWAIT
  /\ elves \in 0 .. MAXELFWAIT
  /\ elfids \in [0 .. MAXELFWAIT - 1 -> Elf \cup {Nobody}]
  /\ santa \in {"start", "loop", "asleep", "woken", "dispatch",
               "post_reindeer", "post_elves", "done", "exited"}
  /\ j \in 0 .. MAXREINWAIT + MAXELFWAIT
  /\ deliveries \in 0 .. DELIVERIES
  /\ pc \in [Worker -> {"nap", "lock", "wait", "solved"} \cup Holding]
  /\ announced \subseteq Elf \cup {Nobody}

(***************************************************************************)
(* An elf about to write ctx->elfids[ctx->elves] (main.c:115) stays inside *)
(* the array, although elves freed by the last round may already hold      *)
(* slots again while Santa still posts that round's tokens.                *)
(***************************************************************************)
ElfIndexInBounds == \A e \in Elf : pc[e] = "register" => elves < MAXELFWAIT

(***************************************************************************)
(* No slot and no token is lost or made twice: slots and elves inside add  *)
(* up to MAXELFWAIT, and the elves waiting are those Santa still counts    *)
(* and those he has a token out for.                                       *)
(***************************************************************************)
ElfAccounting ==
  /\ elfslots_sem + Cardinality(ElvesInside) = MAXELFWAIT
  /\ Cardinality(ElvesWaiting) + Posted("post_elves") = elves + elf_sem

(***************************************************************************)
(* When Santa starts a delivery (main.c:84) every reindeer is home and     *)
(* none is still to be released from the delivery before.                  *)
(***************************************************************************)
AllHomeAtDelivery ==
  santa = "post_reindeer" /\ j = 0 =>
    reindeer_sem = 0 /\ \A r \in Reindeer : pc[r] = "wait"

(***************************************************************************)
(* Santa never sleeps through work: if he is on the condition variable     *)
(* with a reason to get up, the thread that gave it is about to signal     *)
(* (main.c:118, 138).                                                      *)
(***************************************************************************)
NoLostWakeup ==
  santa = "asleep" /\ ~MayRest => \E t \in Worker : pc[t] = "signal"

(***************************************************************************)
(* The branch marked "Unreachable case" (main.c:100) is, spurious wake-ups *)
(* of pthread_cond_wait included.                                          *)
(***************************************************************************)
DispatchHasWork == santa = "dispatch" => ~MayRest

(***************************************************************************)
(* Santa's deliveries and the groups he helps are those of the abstract    *)
(* workshop: the counters of ctx implement its counters.                   *)
(***************************************************************************)
Abstract == INSTANCE Workshop
              WITH present <- reindeer, queued <- elves, delivered <- deliveries

ImplementsWorkshop == Abstract!ASpec

(***************************************************************************)
(* Santa makes all his deliveries and the program ends (main.c:171-173).   *)
(***************************************************************************)
ProgramEnds == <>(santa = "exited" /\ deliveries = DELIVERIES)

(***************************************************************************)
(* An elf says "problem solved" (main.c:124) only after Santa named it in  *)
(* "solving problems for elves" (main.c:91).  The code does not guarantee  *)
(* it: a token posted for one elf can be taken by another.                 *)
(***************************************************************************)
SolvedWasAnnounced == \A e \in Elf : pc[e] = "solved" => e \in announced
===============================================================================
