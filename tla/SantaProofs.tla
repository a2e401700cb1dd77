----------------------------- MODULE SantaProofs -----------------------------
(***************************************************************************)
(* Proofs about Santa, for any number of elves, any group size and any     *)
(* number of deliveries.                                                   *)
(*                                                                         *)
(* The argument: the mutex has one owner and the code holds it where it    *)
(* says (LockOwner); while Santa posts tokens his counter still has the    *)
(* value that made him post (SantaRound); and slots, tokens and threads    *)
(* add up (ElfAccounting, ReindeerAccounting).  The sums bound the         *)
(* counters when a thread registers, which is what type correctness, the   *)
(* array index and the refinement need.                                    *)
(***************************************************************************)
EXTENDS Santa, Counting, TLAPS

LockOwner ==
  /\ SantaHolds <=> lock = Santa
  /\ \A t \in Worker : pc[t] \in Holding <=> lock = t
  /\ \A r \in Reindeer : pc[r] \notin {"lock", "solved"}

SantaRound ==
  /\ santa \in {"dispatch", "post_reindeer", "post_elves"} => deliveries < DELIVERIES
  /\ santa = "dispatch" => ~MayRest
  /\ santa = "post_reindeer" => reindeer = MAXREINWAIT /\ j <= MAXREINWAIT
  /\ santa = "post_elves" => /\ elves = MAXELFWAIT /\ reindeer < MAXREINWAIT
                             /\ j <= MAXELFWAIT

ReindeerAccounting ==
  Cardinality(ReindeerHome) + Posted("post_reindeer") = reindeer + reindeer_sem

\* NoLostWakeup, told apart by who filled his group: the signal of an elf does
\* not stand for that of a reindeer.
WakeupPending ==
  santa = "asleep" =>
    /\ elves >= MAXELFWAIT => \E e \in Elf : pc[e] = "signal"
    /\ reindeer >= MAXREINWAIT => \E r \in Reindeer : pc[r] = "signal"

IInv == /\ TypeOK /\ LockOwner /\ SantaRound
        /\ ElfAccounting /\ ReindeerAccounting /\ WakeupPending

-------------------------------------------------------------------------------
(***************************************************************************)
(* The three counts of Santa, and what a step of one thread does to them.  *)
(***************************************************************************)
NInside == Cardinality(ElvesInside)
NWaiting == Cardinality(ElvesWaiting)
NHome == Cardinality(ReindeerHome)

\* The counts are natural numbers, and no more reindeer are home than there are.
LEMMA Counts ==
  /\ NInside \in Nat /\ NWaiting \in Nat /\ NHome \in Nat
  /\ NHome <= MAXREINWAIT
  /\ NHome = MAXREINWAIT => \A r \in Reindeer : pc[r] \in Counted
  /\ \A r \in Reindeer : pc[r] \notin Counted => NHome < MAXREINWAIT
  /\ \A e \in Elf : pc[e] \in Inside \ Counted => NWaiting < NInside
  /\ NWaiting <= NInside
  <1>1. NInside \in Nat /\ NWaiting \in Nat /\ NHome \in Nat
    BY ThreadsAssumption, CountType
    DEF NInside, NWaiting, NHome, ElvesInside, ElvesWaiting, ReindeerHome, Count
  <1>2. /\ NHome <= MAXREINWAIT
        /\ NHome = MAXREINWAIT => \A r \in Reindeer : pc[r] \in Counted
    BY ThreadsAssumption, SizesAssumption, CountType
    DEF NHome, ReindeerHome, Count
  <1>3. ASSUME NEW r \in Reindeer, pc[r] \notin Counted
        PROVE  NHome < MAXREINWAIT
    BY <1>1, <1>2, <1>3, SizesAssumption
  <1>4. IsFiniteSet(ElvesInside)
    BY ThreadsAssumption, FS_Subset DEF ElvesInside
  <1>5. ElvesWaiting \subseteq ElvesInside
    BY DEF ElvesWaiting, ElvesInside, Inside
  <1>6. /\ NWaiting <= NInside
        /\ NWaiting = NInside => ElvesWaiting = ElvesInside
    BY <1>4, <1>5, FS_Subset DEF NWaiting, NInside
  <1>7. ASSUME NEW e \in Elf, pc[e] \in Inside \ Counted
        PROVE  NWaiting < NInside
    <2>1. e \in ElvesInside /\ e \notin ElvesWaiting
      BY <1>7 DEF ElvesInside, ElvesWaiting
    <2> QED
      BY <2>1, <1>1, <1>6
  <1> QED
    BY <1>1, <1>2, <1>3, <1>6, <1>7

\* An elf's step moves the counts of elves only.
LEMMA ElfMoves ==
  ASSUME TypeOK, NEW e \in Elf, NEW l, Goto(e, l)
  PROVE  /\ NInside' = NInside + Step(pc[e], l, Inside)
         /\ NWaiting' = NWaiting + Step(pc[e], l, Counted)
         /\ NHome' = NHome
  <1>1. /\ e \in DOMAIN pc /\ e \notin Reindeer
        /\ Elf \in SUBSET DOMAIN pc /\ Reindeer \in SUBSET DOMAIN pc
        /\ IsFiniteSet(Elf) /\ IsFiniteSet(Reindeer)
    BY ThreadsAssumption DEF TypeOK, Worker
  <1>2. pc' = [pc EXCEPT ![e] = l]
    BY DEF Goto
  <1>3. NInside' = Count(pc', Elf, Inside) /\ NInside = Count(pc, Elf, Inside)
    BY DEF NInside, ElvesInside, Count
  <1>4. NWaiting' = Count(pc', Elf, Counted) /\ NWaiting = Count(pc, Elf, Counted)
    BY DEF NWaiting, ElvesWaiting, Count
  <1>5. NHome' = Count(pc', Reindeer, Counted) /\ NHome = Count(pc, Reindeer, Counted)
    BY DEF NHome, ReindeerHome, Count
  <1>6. NInside' = NInside + Step(pc[e], l, Inside)
    <2>1. Count([pc EXCEPT ![e] = l], Elf, Inside) =
            Count(pc, Elf, Inside) + (IF e \in Elf THEN Step(pc[e], l, Inside) ELSE 0)
      BY <1>1, CountMove
    <2> QED
      BY <2>1, <1>1, <1>2, <1>3
  <1>7. NWaiting' = NWaiting + Step(pc[e], l, Counted)
    <2>1. Count([pc EXCEPT ![e] = l], Elf, Counted) =
            Count(pc, Elf, Counted) + (IF e \in Elf THEN Step(pc[e], l, Counted) ELSE 0)
      BY <1>1, CountMove
    <2> QED
      BY <2>1, <1>1, <1>2, <1>4
  <1>8. NHome' = NHome
    <2>1. Count([pc EXCEPT ![e] = l], Reindeer, Counted) =
            Count(pc, Reindeer, Counted)
              + (IF e \in Reindeer THEN Step(pc[e], l, Counted) ELSE 0)
      BY <1>1, CountMove
    <2> QED
      BY <2>1, <1>1, <1>2, <1>5, Counts
  <1> QED
    BY <1>6, <1>7, <1>8

\* A reindeer's step moves the count of reindeer only.
LEMMA ReindeerMoves ==
  ASSUME TypeOK, NEW r \in Reindeer, NEW l, Goto(r, l)
  PROVE  /\ NHome' = NHome + Step(pc[r], l, Counted)
         /\ NInside' = NInside /\ NWaiting' = NWaiting
  <1>1. /\ r \in DOMAIN pc /\ r \notin Elf
        /\ Elf \in SUBSET DOMAIN pc /\ Reindeer \in SUBSET DOMAIN pc
        /\ IsFiniteSet(Elf) /\ IsFiniteSet(Reindeer)
    BY ThreadsAssumption DEF TypeOK, Worker
  <1>2. pc' = [pc EXCEPT ![r] = l]
    BY DEF Goto
  <1>3. NHome' = Count(pc', Reindeer, Counted) /\ NHome = Count(pc, Reindeer, Counted)
    BY DEF NHome, ReindeerHome, Count
  <1>4. NInside' = Count(pc', Elf, Inside) /\ NInside = Count(pc, Elf, Inside)
    BY DEF NInside, ElvesInside, Count
  <1>5. NWaiting' = Count(pc', Elf, Counted) /\ NWaiting = Count(pc, Elf, Counted)
    BY DEF NWaiting, ElvesWaiting, Count
  <1>6. NHome' = NHome + Step(pc[r], l, Counted)
    <2>1. Count([pc EXCEPT ![r] = l], Reindeer, Counted) =
            Count(pc, Reindeer, Counted)
              + (IF r \in Reindeer THEN Step(pc[r], l, Counted) ELSE 0)
      BY <1>1, CountMove
    <2> QED
      BY <2>1, <1>1, <1>2, <1>3
  <1>7. NInside' = NInside
    <2>1. Count([pc EXCEPT ![r] = l], Elf, Inside) =
            Count(pc, Elf, Inside) + (IF r \in Elf THEN Step(pc[r], l, Inside) ELSE 0)
      BY <1>1, CountMove
    <2> QED
      BY <2>1, <1>1, <1>2, <1>4, Counts
  <1>8. NWaiting' = NWaiting
    <2>1. Count([pc EXCEPT ![r] = l], Elf, Counted) =
            Count(pc, Elf, Counted) + (IF r \in Elf THEN Step(pc[r], l, Counted) ELSE 0)
      BY <1>1, CountMove
    <2> QED
      BY <2>1, <1>1, <1>2, <1>5, Counts
  <1> QED
    BY <1>6, <1>7, <1>8

\* A step that moves no thread leaves the counts alone.
LEMMA NoMoves ==
  ASSUME UNCHANGED pc
  PROVE  NInside' = NInside /\ NWaiting' = NWaiting /\ NHome' = NHome
  BY DEF NInside, NWaiting, NHome, ElvesInside, ElvesWaiting, ReindeerHome

-------------------------------------------------------------------------------
(***************************************************************************)
(* IInv is inductive.  Santa's steps move no other thread.                 *)
(***************************************************************************)
LEMMA InitInv == Init => IInv
  <1> SUFFICES ASSUME Init PROVE IInv
    OBVIOUS
  <1>1. ElvesInside = {} /\ ElvesWaiting = {} /\ ReindeerHome = {}
    BY DEF Init, Worker, ElvesInside, ElvesWaiting, ReindeerHome, Inside, Counted
  <1>2. TypeOK /\ LockOwner /\ SantaRound /\ WakeupPending
    BY ThreadsAssumption, SizesAssumption
    DEF Init, TypeOK, LockOwner, SantaRound, WakeupPending, SantaHolds, Holding,
        MayRest, Worker
  <1>3. ElfAccounting /\ ReindeerAccounting
    BY <1>1, FS_EmptySet, SizesAssumption
    DEF Init, ElfAccounting, ReindeerAccounting, Posted
  <1> QED
    BY <1>2, <1>3 DEF IInv

\* The two accounting invariants in terms of the counts, before and after a step.
LEMMA Sums ==
  /\ IInv => /\ elfslots_sem + NInside = MAXELFWAIT
             /\ NWaiting + Posted("post_elves") = elves + elf_sem
             /\ NHome + Posted("post_reindeer") = reindeer + reindeer_sem
             /\ elf_sem \in Nat /\ reindeer_sem \in Nat /\ elfslots_sem \in Nat
             /\ elves \in Nat /\ reindeer \in Nat /\ j \in Nat
  /\ /\ elfslots_sem' + NInside' = MAXELFWAIT
     /\ NWaiting' + Posted("post_elves")' = elves' + elf_sem'
     /\ NHome' + Posted("post_reindeer")' = reindeer' + reindeer_sem'
     => ElfAccounting' /\ ReindeerAccounting'
  BY SizesAssumption
  DEF IInv, TypeOK, ElfAccounting, ReindeerAccounting, NInside, NWaiting, NHome

\* Santa's steps and the end of the process.
LEMMA SantaStepInv ==
  ASSUME IInv, SantaStep \/ SpuriousWakeup \/ MainReturn
  PROVE  IInv'
  <1> USE DEF TypeOK, LockOwner, SantaRound, WakeupPending, SantaHolds, Holding,
              Worker, ctx, sems, santaVars
  <1>0. NInside' = NInside /\ NWaiting' = NWaiting /\ NHome' = NHome
    BY NoMoves
    DEF SantaStep, SantaStart, SantaSleep, SantaWake, SantaLeaveLoop, SantaDeliver,
        SantaPostReindeer, SantaDelivered, SantaSolve, SantaPostElf, SantaSolved,
        SantaReturn, SpuriousWakeup, MainReturn
  <1>1. CASE SantaStart
    <2>1. TypeOK'
      BY <1>1, ThreadsAssumption, SizesAssumption DEF IInv, SantaStart
    <2>2. LockOwner' /\ SantaRound' /\ WakeupPending'
      BY <1>1, ThreadsAssumption, SizesAssumption DEF IInv, MayRest, SantaStart
    <2>3. ElfAccounting' /\ ReindeerAccounting'
      BY <1>1, <1>0, Counts, Sums, SizesAssumption DEF IInv, Posted, SantaStart
    <2> QED
      BY <2>1, <2>2, <2>3 DEF IInv
  <1>2. CASE SantaSleep
    <2>1. TypeOK'
      BY <1>2, ThreadsAssumption, SizesAssumption DEF IInv, SantaSleep
    <2>2. LockOwner' /\ SantaRound' /\ WakeupPending'
      BY <1>2, ThreadsAssumption, SizesAssumption DEF IInv, MayRest, SantaSleep
    <2>3. ElfAccounting' /\ ReindeerAccounting'
      BY <1>2, <1>0, Counts, Sums, SizesAssumption DEF IInv, Posted, SantaSleep
    <2> QED
      BY <2>1, <2>2, <2>3 DEF IInv
  <1>3. CASE SantaWake
    <2>1. TypeOK'
      BY <1>3, ThreadsAssumption, SizesAssumption DEF IInv, SantaWake
    <2>2. LockOwner' /\ SantaRound' /\ WakeupPending'
      BY <1>3, ThreadsAssumption, SizesAssumption DEF IInv, MayRest, SantaWake
    <2>3. ElfAccounting' /\ ReindeerAccounting'
      BY <1>3, <1>0, Counts, Sums, SizesAssumption DEF IInv, Posted, SantaWake
    <2> QED
      BY <2>1, <2>2, <2>3 DEF IInv
  <1>4. CASE SantaLeaveLoop
    <2>1. TypeOK'
      BY <1>4, ThreadsAssumption, SizesAssumption DEF IInv, SantaLeaveLoop
    <2>2. LockOwner' /\ SantaRound' /\ WakeupPending'
      BY <1>4, ThreadsAssumption, SizesAssumption DEF IInv, MayRest, SantaLeaveLoop
    <2>3. ElfAccounting' /\ ReindeerAccounting'
      BY <1>4, <1>0, Counts, Sums, SizesAssumption DEF IInv, Posted, SantaLeaveLoop
    <2> QED
      BY <2>1, <2>2, <2>3 DEF IInv
  <1>5. CASE SantaDeliver
    <2>1. TypeOK'
      BY <1>5, ThreadsAssumption, SizesAssumption DEF IInv, SantaDeliver
    <2>2. LockOwner' /\ SantaRound' /\ WakeupPending'
      BY <1>5, ThreadsAssumption, SizesAssumption DEF IInv, MayRest, SantaDeliver
    <2>3. ElfAccounting' /\ ReindeerAccounting'
      BY <1>5, <1>0, Counts, Sums, SizesAssumption DEF IInv, Posted, SantaDeliver
    <2> QED
      BY <2>1, <2>2, <2>3 DEF IInv
  <1>6. CASE SantaPostReindeer
    <2>1. TypeOK'
      BY <1>6, ThreadsAssumption, SizesAssumption DEF IInv, SantaPostReindeer
    <2>2. LockOwner' /\ SantaRound' /\ WakeupPending'
      BY <1>6, ThreadsAssumption, SizesAssumption DEF IInv, MayRest, SantaPostReindeer
    <2>3. ElfAccounting' /\ ReindeerAccounting'
      BY <1>6, <1>0, Counts, Sums, SizesAssumption DEF IInv, Posted, SantaPostReindeer
    <2> QED
      BY <2>1, <2>2, <2>3 DEF IInv
  <1>7. CASE SantaDelivered
    <2>1. TypeOK'
      BY <1>7, ThreadsAssumption, SizesAssumption DEF IInv, SantaDelivered
    <2>2. LockOwner' /\ SantaRound' /\ WakeupPending'
      BY <1>7, ThreadsAssumption, SizesAssumption DEF IInv, MayRest, SantaDelivered
    <2>3. ElfAccounting' /\ ReindeerAccounting'
      BY <1>7, <1>0, Counts, Sums, SizesAssumption DEF IInv, Posted, SantaDelivered
    <2> QED
      BY <2>1, <2>2, <2>3 DEF IInv
  <1>8. CASE SantaSolve
    <2>1. TypeOK'
      BY <1>8, ThreadsAssumption, SizesAssumption DEF IInv, SantaSolve
    <2>2. LockOwner' /\ SantaRound' /\ WakeupPending'
      BY <1>8, ThreadsAssumption, SizesAssumption DEF IInv, MayRest, SantaSolve
    <2>3. ElfAccounting' /\ ReindeerAccounting'
      BY <1>8, <1>0, Counts, Sums, SizesAssumption DEF IInv, Posted, SantaSolve
    <2> QED
      BY <2>1, <2>2, <2>3 DEF IInv
  <1>9. CASE SantaPostElf
    <2>1. TypeOK'
      BY <1>9, ThreadsAssumption, SizesAssumption DEF IInv, SantaPostElf
    <2>2. LockOwner' /\ SantaRound' /\ WakeupPending'
      BY <1>9, ThreadsAssumption, SizesAssumption DEF IInv, MayRest, SantaPostElf
    <2>3. ElfAccounting' /\ ReindeerAccounting'
      BY <1>9, <1>0, Counts, Sums, SizesAssumption DEF IInv, Posted, SantaPostElf
    <2> QED
      BY <2>1, <2>2, <2>3 DEF IInv
  <1>10. CASE SantaSolved
    <2>1. TypeOK'
      BY <1>10, ThreadsAssumption, SizesAssumption DEF IInv, SantaSolved
    <2>2. LockOwner' /\ SantaRound' /\ WakeupPending'
      BY <1>10, ThreadsAssumption, SizesAssumption DEF IInv, MayRest, SantaSolved
    <2>3. ElfAccounting' /\ ReindeerAccounting'
      BY <1>10, <1>0, Counts, Sums, SizesAssumption DEF IInv, Posted, SantaSolved
    <2> QED
      BY <2>1, <2>2, <2>3 DEF IInv
  <1>11. CASE SantaReturn
    <2>1. TypeOK'
      BY <1>11, ThreadsAssumption, SizesAssumption DEF IInv, SantaReturn
    <2>2. LockOwner' /\ SantaRound' /\ WakeupPending'
      BY <1>11, ThreadsAssumption, SizesAssumption DEF IInv, MayRest, SantaReturn
    <2>3. ElfAccounting' /\ ReindeerAccounting'
      BY <1>11, <1>0, Counts, Sums, SizesAssumption DEF IInv, Posted, SantaReturn
    <2> QED
      BY <2>1, <2>2, <2>3 DEF IInv
  <1>12. CASE SpuriousWakeup
    <2>1. TypeOK'
      BY <1>12, ThreadsAssumption, SizesAssumption DEF IInv, SpuriousWakeup
    <2>2. LockOwner' /\ SantaRound' /\ WakeupPending'
      BY <1>12, ThreadsAssumption, SizesAssumption DEF IInv, MayRest, SpuriousWakeup
    <2>3. ElfAccounting' /\ ReindeerAccounting'
      BY <1>12, <1>0, Counts, Sums, SizesAssumption DEF IInv, Posted, SpuriousWakeup
    <2> QED
      BY <2>1, <2>2, <2>3 DEF IInv
  <1>13. CASE MainReturn
    <2>1. TypeOK'
      BY <1>13, ThreadsAssumption, SizesAssumption DEF IInv, MainReturn
    <2>2. LockOwner' /\ SantaRound' /\ WakeupPending'
      BY <1>13, ThreadsAssumption, SizesAssumption DEF IInv, MayRest, MainReturn
    <2>3. ElfAccounting' /\ ReindeerAccounting'
      BY <1>13, <1>0, Counts, Sums, SizesAssumption DEF IInv, Posted, MainReturn
    <2> QED
      BY <2>1, <2>2, <2>3 DEF IInv
  <1> QED
    BY <1>1, <1>2, <1>3, <1>4, <1>5, <1>6, <1>7, <1>8, <1>9, <1>10, <1>11, <1>12,
       <1>13 DEF SantaStep

\* An elf's steps.
LEMMA ElfStepInv ==
  ASSUME IInv, NEW e \in Elf, ElfStep(e)
  PROVE  IInv'
  <1> USE DEF TypeOK, LockOwner, SantaRound, WakeupPending, SantaHolds, Holding,
              Worker, ctx, sems, santaVars
  <1>1. CASE ElfTakeSlot(e)
    <2>1. Goto(e, "lock") /\ pc[e] = "nap" /\ Running
      BY <1>1 DEF ElfTakeSlot, At
    <2>4. TypeOK'
      BY <1>1, <2>1, ThreadsAssumption, SizesAssumption
      DEF IInv, Goto, Acquire, SignalSanta, ElfTakeSlot
    <2>5. LockOwner' /\ SantaRound' /\ WakeupPending'
      BY <1>1, <2>1, ThreadsAssumption, SizesAssumption
      DEF IInv, MayRest, Running, Goto, Acquire, SignalSanta, ElfTakeSlot
    <2>6. ElfAccounting' /\ ReindeerAccounting'
      <3>1. NInside' = NInside + 1 /\ NWaiting' = NWaiting /\ NHome' = NHome
        BY <2>1, ElfMoves, Counts DEF IInv, Step, Inside, Counted
      <3>2. /\ Posted("post_elves")' = Posted("post_elves")
            /\ Posted("post_reindeer")' = Posted("post_reindeer")
        BY <1>1 DEF ElfTakeSlot, Posted, SignalSanta
      <3>3. Posted("post_elves") \in Nat /\ Posted("post_reindeer") \in Nat
        BY Sums DEF Posted
      <3> QED
        BY <1>1, <3>1, <3>2, <3>3, Counts, Sums, SizesAssumption DEF ElfTakeSlot
    <2> QED
      BY <2>4, <2>5, <2>6 DEF IInv
  <1>2. CASE ElfLock(e)
    <2>1. Goto(e, "register") /\ pc[e] = "lock" /\ Running
      BY <1>2 DEF ElfLock, At
    <2>4. TypeOK'
      BY <1>2, <2>1, ThreadsAssumption, SizesAssumption
      DEF IInv, Goto, Acquire, SignalSanta, ElfLock
    <2>5. LockOwner' /\ SantaRound' /\ WakeupPending'
      BY <1>2, <2>1, ThreadsAssumption, SizesAssumption
      DEF IInv, MayRest, Running, Goto, Acquire, SignalSanta, ElfLock
    <2>6. ElfAccounting' /\ ReindeerAccounting'
      <3>1. NInside' = NInside /\ NWaiting' = NWaiting /\ NHome' = NHome
        BY <2>1, ElfMoves, Counts DEF IInv, Step, Inside, Counted
      <3>2. /\ Posted("post_elves")' = Posted("post_elves")
            /\ Posted("post_reindeer")' = Posted("post_reindeer")
        BY <1>2 DEF ElfLock, Posted, SignalSanta
      <3>3. Posted("post_elves") \in Nat /\ Posted("post_reindeer") \in Nat
        BY Sums DEF Posted
      <3> QED
        BY <1>2, <3>1, <3>2, <3>3, Counts, Sums, SizesAssumption DEF ElfLock
    <2> QED
      BY <2>4, <2>5, <2>6 DEF IInv
  <1>3. CASE ElfRegister(e)
    <2>1. Goto(e, "signal") /\ pc[e] = "register" /\ Running
      BY <1>3 DEF ElfRegister, At
    <2>2. lock = e /\ santa \notin {"post_reindeer", "post_elves"}
      BY <2>1, ThreadsAssumption DEF IInv
    <2>3. elves < MAXELFWAIT
      BY <2>1, <2>2, Counts, Sums DEF Inside, Counted, Posted
    <2>4. TypeOK'
      BY <1>3, <2>1, <2>2, <2>3, ThreadsAssumption, SizesAssumption
      DEF IInv, Goto, Acquire, SignalSanta, ElfRegister
    <2>5. LockOwner' /\ SantaRound' /\ WakeupPending'
      BY <1>3, <2>1, <2>2, <2>3, ThreadsAssumption, SizesAssumption
      DEF IInv, MayRest, Running, Goto, Acquire, SignalSanta, ElfRegister
    <2>6. ElfAccounting' /\ ReindeerAccounting'
      <3>1. NInside' = NInside /\ NWaiting' = NWaiting + 1 /\ NHome' = NHome
        BY <2>1, ElfMoves, Counts DEF IInv, Step, Inside, Counted
      <3>2. /\ Posted("post_elves")' = Posted("post_elves")
            /\ Posted("post_reindeer")' = Posted("post_reindeer")
        BY <1>3 DEF ElfRegister, Posted, SignalSanta
      <3>3. Posted("post_elves") \in Nat /\ Posted("post_reindeer") \in Nat
        BY Sums DEF Posted
      <3> QED
        BY <1>3, <2>2, <3>1, <3>2, <3>3, Counts, Sums, SizesAssumption DEF ElfRegister
    <2> QED
      BY <2>4, <2>5, <2>6 DEF IInv
  <1>4. CASE ElfSignal(e)
    <2>1. Goto(e, "unlock") /\ pc[e] = "signal" /\ Running
      BY <1>4 DEF ElfSignal, At
    <2>4. TypeOK'
      BY <1>4, <2>1, ThreadsAssumption, SizesAssumption
      DEF IInv, Goto, Acquire, SignalSanta, ElfSignal
    <2>5. LockOwner' /\ SantaRound' /\ WakeupPending'
      BY <1>4, <2>1, ThreadsAssumption, SizesAssumption
      DEF IInv, MayRest, Running, Goto, Acquire, SignalSanta, ElfSignal
    <2>6. ElfAccounting' /\ ReindeerAccounting'
      <3>1. NInside' = NInside /\ NWaiting' = NWaiting /\ NHome' = NHome
        BY <2>1, ElfMoves, Counts DEF IInv, Step, Inside, Counted
      <3>2. /\ Posted("post_elves")' = Posted("post_elves")
            /\ Posted("post_reindeer")' = Posted("post_reindeer")
        BY <1>4 DEF ElfSignal, Posted, SignalSanta
      <3>3. Posted("post_elves") \in Nat /\ Posted("post_reindeer") \in Nat
        BY Sums DEF Posted
      <3> QED
        BY <1>4, <3>1, <3>2, <3>3, Counts, Sums, SizesAssumption DEF ElfSignal
    <2> QED
      BY <2>4, <2>5, <2>6 DEF IInv
  <1>5. CASE ElfUnlock(e)
    <2>1. Goto(e, "wait") /\ pc[e] = "unlock" /\ Running
      BY <1>5 DEF ElfUnlock, At
    <2>4. TypeOK'
      BY <1>5, <2>1, ThreadsAssumption, SizesAssumption
      DEF IInv, Goto, Acquire, SignalSanta, ElfUnlock
    <2>5. LockOwner' /\ SantaRound' /\ WakeupPending'
      BY <1>5, <2>1, ThreadsAssumption, SizesAssumption
      DEF IInv, MayRest, Running, Goto, Acquire, SignalSanta, ElfUnlock
    <2>6. ElfAccounting' /\ ReindeerAccounting'
      <3>1. NInside' = NInside /\ NWaiting' = NWaiting /\ NHome' = NHome
        BY <2>1, ElfMoves, Counts DEF IInv, Step, Inside, Counted
      <3>2. /\ Posted("post_elves")' = Posted("post_elves")
            /\ Posted("post_reindeer")' = Posted("post_reindeer")
        BY <1>5 DEF ElfUnlock, Posted, SignalSanta
      <3>3. Posted("post_elves") \in Nat /\ Posted("post_reindeer") \in Nat
        BY Sums DEF Posted
      <3> QED
        BY <1>5, <3>1, <3>2, <3>3, Counts, Sums, SizesAssumption DEF ElfUnlock
    <2> QED
      BY <2>4, <2>5, <2>6 DEF IInv
  <1>6. CASE ElfWait(e)
    <2>1. Goto(e, "solved") /\ pc[e] = "wait" /\ Running
      BY <1>6 DEF ElfWait, At
    <2>4. TypeOK'
      BY <1>6, <2>1, ThreadsAssumption, SizesAssumption
      DEF IInv, Goto, Acquire, SignalSanta, ElfWait
    <2>5. LockOwner' /\ SantaRound' /\ WakeupPending'
      BY <1>6, <2>1, ThreadsAssumption, SizesAssumption
      DEF IInv, MayRest, Running, Goto, Acquire, SignalSanta, ElfWait
    <2>6. ElfAccounting' /\ ReindeerAccounting'
      <3>1. NInside' = NInside /\ NWaiting' = NWaiting - 1 /\ NHome' = NHome
        BY <2>1, ElfMoves, Counts DEF IInv, Step, Inside, Counted
      <3>2. /\ Posted("post_elves")' = Posted("post_elves")
            /\ Posted("post_reindeer")' = Posted("post_reindeer")
        BY <1>6 DEF ElfWait, Posted, SignalSanta
      <3>3. Posted("post_elves") \in Nat /\ Posted("post_reindeer") \in Nat
        BY Sums DEF Posted
      <3> QED
        BY <1>6, <3>1, <3>2, <3>3, Counts, Sums, SizesAssumption DEF ElfWait
    <2> QED
      BY <2>4, <2>5, <2>6 DEF IInv
  <1>7. CASE ElfLeave(e)
    <2>1. Goto(e, "nap") /\ pc[e] = "solved" /\ Running
      BY <1>7 DEF ElfLeave, At
    <2>4. TypeOK'
      BY <1>7, <2>1, ThreadsAssumption, SizesAssumption
      DEF IInv, Goto, Acquire, SignalSanta, ElfLeave
    <2>5. LockOwner' /\ SantaRound' /\ WakeupPending'
      BY <1>7, <2>1, ThreadsAssumption, SizesAssumption
      DEF IInv, MayRest, Running, Goto, Acquire, SignalSanta, ElfLeave
    <2>6. ElfAccounting' /\ ReindeerAccounting'
      <3>1. NInside' = NInside - 1 /\ NWaiting' = NWaiting /\ NHome' = NHome
        BY <2>1, ElfMoves, Counts DEF IInv, Step, Inside, Counted
      <3>2. /\ Posted("post_elves")' = Posted("post_elves")
            /\ Posted("post_reindeer")' = Posted("post_reindeer")
        BY <1>7 DEF ElfLeave, Posted, SignalSanta
      <3>3. Posted("post_elves") \in Nat /\ Posted("post_reindeer") \in Nat
        BY Sums DEF Posted
      <3> QED
        BY <1>7, <3>1, <3>2, <3>3, Counts, Sums, SizesAssumption DEF ElfLeave
    <2> QED
      BY <2>4, <2>5, <2>6 DEF IInv
  <1> QED
    BY <1>1, <1>2, <1>3, <1>4, <1>5, <1>6, <1>7 DEF ElfStep

\* A reindeer's steps.
LEMMA ReindeerStepInv ==
  ASSUME IInv, NEW r \in Reindeer, ReindeerStep(r)
  PROVE  IInv'
  <1> USE DEF TypeOK, LockOwner, SantaRound, WakeupPending, SantaHolds, Holding,
              Worker, ctx, sems, santaVars
  <1>1. CASE ReindeerLock(r)
    <2>1. Goto(r, "register") /\ pc[r] = "nap" /\ Running
      BY <1>1 DEF ReindeerLock, At
    <2>4. TypeOK'
      BY <1>1, <2>1, ThreadsAssumption, SizesAssumption
      DEF IInv, Goto, Acquire, SignalSanta, ReindeerLock
    <2>5. LockOwner' /\ SantaRound' /\ WakeupPending'
      BY <1>1, <2>1, ThreadsAssumption, SizesAssumption
      DEF IInv, MayRest, Running, Goto, Acquire, SignalSanta, ReindeerLock
    <2>6. ElfAccounting' /\ ReindeerAccounting'
      <3>1. NInside' = NInside /\ NWaiting' = NWaiting /\ NHome' = NHome
        BY <2>1, ReindeerMoves, Counts DEF IInv, Step, Inside, Counted
      <3>2. /\ Posted("post_elves")' = Posted("post_elves")
            /\ Posted("post_reindeer")' = Posted("post_reindeer")
        BY <1>1 DEF ReindeerLock, Posted, SignalSanta
      <3>3. Posted("post_elves") \in Nat /\ Posted("post_reindeer") \in Nat
        BY Sums DEF Posted
      <3> QED
        BY <1>1, <3>1, <3>2, <3>3, Counts, Sums, SizesAssumption DEF ReindeerLock
    <2> QED
      BY <2>4, <2>5, <2>6 DEF IInv
  <1>2. CASE ReindeerRegister(r)
    <2>1. Goto(r, "signal") /\ pc[r] = "register" /\ Running
      BY <1>2 DEF ReindeerRegister, At
    <2>2. lock = r /\ santa \notin {"post_reindeer", "post_elves"}
      BY <2>1, ThreadsAssumption DEF IInv
    <2>3. reindeer < MAXREINWAIT
      <3>1. NHome < MAXREINWAIT
        BY <2>1, Counts DEF Counted
      <3>2. NHome = reindeer + reindeer_sem
        BY <2>2, Counts, Sums DEF Posted
      <3> QED
        BY <3>1, <3>2, Sums, SizesAssumption
    <2>4. TypeOK'
      BY <1>2, <2>1, <2>2, <2>3, ThreadsAssumption, SizesAssumption
      DEF IInv, Goto, Acquire, SignalSanta, ReindeerRegister
    <2>5. LockOwner' /\ SantaRound' /\ WakeupPending'
      BY <1>2, <2>1, <2>2, <2>3, ThreadsAssumption, SizesAssumption
      DEF IInv, MayRest, Running, Goto, Acquire, SignalSanta, ReindeerRegister
    <2>6. ElfAccounting' /\ ReindeerAccounting'
      <3>1. NInside' = NInside /\ NWaiting' = NWaiting /\ NHome' = NHome + 1
        BY <2>1, ReindeerMoves, Counts DEF IInv, Step, Inside, Counted
      <3>2. /\ Posted("post_elves")' = Posted("post_elves")
            /\ Posted("post_reindeer")' = Posted("post_reindeer")
        BY <1>2 DEF ReindeerRegister, Posted, SignalSanta
      <3>3. Posted("post_elves") \in Nat /\ Posted("post_reindeer") \in Nat
        BY Sums DEF Posted
      <3> QED
        BY <1>2, <2>2, <3>1, <3>2, <3>3, Counts, Sums, SizesAssumption
        DEF ReindeerRegister
    <2> QED
      BY <2>4, <2>5, <2>6 DEF IInv
  <1>3. CASE ReindeerSignal(r)
    <2>1. Goto(r, "unlock") /\ pc[r] = "signal" /\ Running
      BY <1>3 DEF ReindeerSignal, At
    <2>4. TypeOK'
      BY <1>3, <2>1, ThreadsAssumption, SizesAssumption
      DEF IInv, Goto, Acquire, SignalSanta, ReindeerSignal
    <2>5. LockOwner' /\ SantaRound' /\ WakeupPending'
      BY <1>3, <2>1, ThreadsAssumption, SizesAssumption
      DEF IInv, MayRest, Running, Goto, Acquire, SignalSanta, ReindeerSignal
    <2>6. ElfAccounting' /\ ReindeerAccounting'
      <3>1. NInside' = NInside /\ NWaiting' = NWaiting /\ NHome' = NHome
        BY <2>1, ReindeerMoves, Counts DEF IInv, Step, Inside, Counted
      <3>2. /\ Posted("post_elves")' = Posted("post_elves")
            /\ Posted("post_reindeer")' = Posted("post_reindeer")
        BY <1>3 DEF ReindeerSignal, Posted, SignalSanta
      <3>3. Posted("post_elves") \in Nat /\ Posted("post_reindeer") \in Nat
        BY Sums DEF Posted
      <3> QED
        BY <1>3, <3>1, <3>2, <3>3, Counts, Sums, SizesAssumption DEF ReindeerSignal
    <2> QED
      BY <2>4, <2>5, <2>6 DEF IInv
  <1>4. CASE ReindeerUnlock(r)
    <2>1. Goto(r, "wait") /\ pc[r] = "unlock" /\ Running
      BY <1>4 DEF ReindeerUnlock, At
    <2>4. TypeOK'
      BY <1>4, <2>1, ThreadsAssumption, SizesAssumption
      DEF IInv, Goto, Acquire, SignalSanta, ReindeerUnlock
    <2>5. LockOwner' /\ SantaRound' /\ WakeupPending'
      BY <1>4, <2>1, ThreadsAssumption, SizesAssumption
      DEF IInv, MayRest, Running, Goto, Acquire, SignalSanta, ReindeerUnlock
    <2>6. ElfAccounting' /\ ReindeerAccounting'
      <3>1. NInside' = NInside /\ NWaiting' = NWaiting /\ NHome' = NHome
        BY <2>1, ReindeerMoves, Counts DEF IInv, Step, Inside, Counted
      <3>2. /\ Posted("post_elves")' = Posted("post_elves")
            /\ Posted("post_reindeer")' = Posted("post_reindeer")
        BY <1>4 DEF ReindeerUnlock, Posted, SignalSanta
      <3>3. Posted("post_elves") \in Nat /\ Posted("post_reindeer") \in Nat
        BY Sums DEF Posted
      <3> QED
        BY <1>4, <3>1, <3>2, <3>3, Counts, Sums, SizesAssumption DEF ReindeerUnlock
    <2> QED
      BY <2>4, <2>5, <2>6 DEF IInv
  <1>5. CASE ReindeerWait(r)
    <2>1. Goto(r, "nap") /\ pc[r] = "wait" /\ Running
      BY <1>5 DEF ReindeerWait, At
    <2>4. TypeOK'
      BY <1>5, <2>1, ThreadsAssumption, SizesAssumption
      DEF IInv, Goto, Acquire, SignalSanta, ReindeerWait
    <2>5. LockOwner' /\ SantaRound' /\ WakeupPending'
      BY <1>5, <2>1, ThreadsAssumption, SizesAssumption
      DEF IInv, MayRest, Running, Goto, Acquire, SignalSanta, ReindeerWait
    <2>6. ElfAccounting' /\ ReindeerAccounting'
      <3>1. NInside' = NInside /\ NWaiting' = NWaiting /\ NHome' = NHome - 1
        BY <2>1, ReindeerMoves, Counts DEF IInv, Step, Inside, Counted
      <3>2. /\ Posted("post_elves")' = Posted("post_elves")
            /\ Posted("post_reindeer")' = Posted("post_reindeer")
        BY <1>5 DEF ReindeerWait, Posted, SignalSanta
      <3>3. Posted("post_elves") \in Nat /\ Posted("post_reindeer") \in Nat
        BY Sums DEF Posted
      <3> QED
        BY <1>5, <3>1, <3>2, <3>3, Counts, Sums, SizesAssumption DEF ReindeerWait
    <2> QED
      BY <2>4, <2>5, <2>6 DEF IInv
  <1> QED
    BY <1>1, <1>2, <1>3, <1>4, <1>5 DEF ReindeerStep

-------------------------------------------------------------------------------
(***************************************************************************)
(* IInv holds in every reachable state.                                    *)
(***************************************************************************)
LEMMA NextInv == IInv /\ [Next]_vars => IInv'
  <1> SUFFICES ASSUME IInv, [Next]_vars PROVE IInv'
    OBVIOUS
  <1>1. CASE SantaStep \/ SpuriousWakeup \/ MainReturn
    BY <1>1, SantaStepInv
  <1>2. ASSUME NEW e \in Elf, ElfStep(e) PROVE IInv'
    BY <1>2, ElfStepInv
  <1>3. ASSUME NEW r \in Reindeer, ReindeerStep(r) PROVE IInv'
    BY <1>3, ReindeerStepInv
  <1>4. CASE UNCHANGED vars
    <2>1. TypeOK' /\ LockOwner' /\ SantaRound' /\ WakeupPending'
      BY <1>4
      DEF IInv, TypeOK, LockOwner, SantaRound, WakeupPending, SantaHolds, MayRest,
          vars, ctx, sems, santaVars
    <2>2. ElfAccounting' /\ ReindeerAccounting'
      BY <1>4
      DEF IInv, ElfAccounting, ReindeerAccounting, ElvesInside, ElvesWaiting,
          ReindeerHome, Posted, vars, ctx, sems, santaVars
    <2> QED
      BY <2>1, <2>2 DEF IInv
  <1> QED
    BY <1>1, <1>2, <1>3, <1>4 DEF Next, Terminated

\* The inductive invariant holds in every reachable state.
THEOREM Invariant == Spec => []IInv
  BY InitInv, NextInv, PTL DEF Spec

\* Every variable keeps its type: reindeer never exceeds MAXREINWAIT and elves
\* never exceeds MAXELFWAIT, whatever the order in which threads run.
THEOREM TypeCorrect == Spec => []TypeOK
  <1>1. IInv => TypeOK
    BY DEF IInv
  <1> QED
    BY <1>1, Invariant, PTL

\* Slots, tokens and elves always add up.
THEOREM ElvesAddUp == Spec => []ElfAccounting
  <1>1. IInv => ElfAccounting
    BY DEF IInv
  <1> QED
    BY <1>1, Invariant, PTL

\* No elf writes outside elfids (main.c:115).
THEOREM ElfIndexSafe == Spec => []ElfIndexInBounds
  <1>1. IInv => ElfIndexInBounds
    <2> SUFFICES ASSUME IInv, NEW e \in Elf, pc[e] = "register"
                 PROVE  elves < MAXELFWAIT
      BY DEF ElfIndexInBounds
    <2>1. lock = e /\ santa # "post_elves"
      BY ThreadsAssumption DEF IInv, LockOwner, SantaHolds, Holding, Worker
    <2>2. NWaiting < NInside
      BY Counts DEF Inside, Counted
    <2>3. NWaiting = elves + elf_sem
      BY <2>1, Counts, Sums DEF Posted
    <2> QED
      BY <2>2, <2>3, Counts, Sums, SizesAssumption
  <1> QED
    BY <1>1, Invariant, PTL

\* Santa delivers (main.c:84) only with every reindeer home and waiting, and
\* with no token of an earlier delivery left.
THEOREM DeliversWithAll == Spec => []AllHomeAtDelivery
  <1>1. IInv => AllHomeAtDelivery
    <2> SUFFICES ASSUME IInv, santa = "post_reindeer", j = 0
                 PROVE  reindeer_sem = 0 /\ \A r \in Reindeer : pc[r] = "wait"
      BY DEF AllHomeAtDelivery
    <2>1. reindeer = MAXREINWAIT /\ lock = Santa
      BY DEF IInv, SantaRound, LockOwner, SantaHolds
    <2>2. NHome = MAXREINWAIT /\ reindeer_sem = 0
      BY <2>1, Counts, Sums, SizesAssumption DEF Posted
    <2>3. ASSUME NEW r \in Reindeer PROVE pc[r] = "wait"
      <3>1. pc[r] \in Counted
        BY <2>2, Counts
      <3>2. pc[r] \notin Holding
        BY <2>1, ThreadsAssumption DEF IInv, LockOwner, Worker
      <3> QED
        BY <3>1, <3>2 DEF Counted, Holding
    <2> QED
      BY <2>2, <2>3
  <1> QED
    BY <1>1, Invariant, PTL

\* Santa is never left asleep with work to do and no signal on its way.
THEOREM WakeupsNotLost == Spec => []NoLostWakeup
  <1>1. IInv => NoLostWakeup
    BY SizesAssumption DEF IInv, TypeOK, WakeupPending, NoLostWakeup, MayRest, Worker
  <1> QED
    BY <1>1, Invariant, PTL

\* The "Unreachable case" of main.c:100 is unreachable.
THEOREM UnreachableCase == Spec => []DispatchHasWork
  <1>1. IInv => DispatchHasWork
    BY DEF IInv, SantaRound, DispatchHasWork
  <1> QED
    BY <1>1, Invariant, PTL

-------------------------------------------------------------------------------
(***************************************************************************)
(* The threads implement the abstract workshop: registering is an arrival, *)
(* resetting a counter is a delivery or a group helped, and every other    *)
(* step is invisible.                                                      *)
(***************************************************************************)
LEMMA StepRefines == IInv /\ IInv' /\ [Next]_vars => [Abstract!ANext]_(Abstract!avars)
  <1> SUFFICES ASSUME IInv, IInv', [Next]_vars
               PROVE  [Abstract!ANext]_(Abstract!avars)
    OBVIOUS
  <1> USE DEF Abstract!avars
  <1>1. CASE SantaDelivered
    BY <1>1, SizesAssumption
    DEF SantaDelivered, IInv, SantaRound, TypeOK, Abstract!ANext, Abstract!Deliver
  <1>2. CASE SantaSolved
    BY <1>2 DEF SantaSolved, IInv, SantaRound, Abstract!ANext, Abstract!HelpElves
  <1>3. ASSUME NEW e \in Elf, ElfRegister(e) PROVE Abstract!ANext
    <2>1. elves \in Nat /\ elves' \in Nat /\ elves' <= MAXELFWAIT
      BY SizesAssumption DEF IInv, TypeOK
    <2> QED
      BY <1>3, <2>1, SizesAssumption
      DEF ElfRegister, santaVars, Abstract!ANext, Abstract!ElfArrives
  <1>4. ASSUME NEW r \in Reindeer, ReindeerRegister(r) PROVE Abstract!ANext
    <2>1. reindeer \in Nat /\ reindeer' \in Nat /\ reindeer' <= MAXREINWAIT
      BY SizesAssumption DEF IInv, TypeOK
    <2> QED
      BY <1>4, <2>1, SizesAssumption
      DEF ReindeerRegister, santaVars, Abstract!ANext, Abstract!ReindeerArrives
  <1>5. CASE SantaStep /\ ~SantaDelivered /\ ~SantaSolved
    BY <1>5
    DEF SantaStep, SantaStart, SantaSleep, SantaWake, SantaLeaveLoop, SantaDeliver,
        SantaPostReindeer, SantaSolve, SantaPostElf, SantaReturn, ctx
  <1>6. CASE SpuriousWakeup \/ MainReturn \/ UNCHANGED vars
    BY <1>6 DEF SpuriousWakeup, MainReturn, vars, ctx, santaVars
  <1>7. ASSUME NEW e \in Elf, ElfStep(e), ~ElfRegister(e) PROVE UNCHANGED Abstract!avars
    BY <1>7
    DEF ElfStep, ElfTakeSlot, ElfLock, ElfSignal, ElfUnlock, ElfWait, ElfLeave,
        ctx, santaVars
  <1>8. ASSUME NEW r \in Reindeer, ReindeerStep(r), ~ReindeerRegister(r)
        PROVE  UNCHANGED Abstract!avars
    BY <1>8
    DEF ReindeerStep, ReindeerLock, ReindeerSignal, ReindeerUnlock, ReindeerWait,
        ctx, santaVars
  <1> QED
    BY <1>1, <1>2, <1>3, <1>4, <1>5, <1>6, <1>7, <1>8 DEF Next, Terminated

\* The counters of lab9 implement those of the abstract workshop.
THEOREM WorkshopImplemented == Spec => ImplementsWorkshop
  <1>1. Init => Abstract!AInit
    BY DEF Init, Abstract!AInit
  <1> QED
    BY <1>1, Invariant, StepRefines, PTL DEF Spec, ImplementsWorkshop, Abstract!ASpec
===============================================================================
