------------------------------- MODULE Workshop -------------------------------
(***************************************************************************)
(* What lab9 promises, with no threads, locks or semaphores: reindeer and  *)
(* elves arrive one at a time, Santa delivers when every reindeer is back, *)
(* helps a full group of elves only when he has no delivery to make, and   *)
(* stops after DELIVERIES deliveries.                                      *)
(***************************************************************************)
EXTENDS Naturals

CONSTANTS MAXREINWAIT, MAXELFWAIT, DELIVERIES

VARIABLES present,      \* reindeer back from vacation since the last delivery
          queued,       \* elves registered since Santa last helped a group
          delivered     \* deliveries made so far

avars == <<present, queued, delivered>>

AInit == present = 0 /\ queued = 0 /\ delivered = 0

ReindeerArrives ==
  /\ present < MAXREINWAIT
  /\ present' = present + 1
  /\ UNCHANGED <<queued, delivered>>

ElfArrives ==
  /\ queued < MAXELFWAIT
  /\ queued' = queued + 1
  /\ UNCHANGED <<present, delivered>>

Deliver ==
  /\ delivered < DELIVERIES
  /\ present = MAXREINWAIT
  /\ present' = 0
  /\ delivered' = delivered + 1
  /\ UNCHANGED queued

HelpElves ==
  /\ delivered < DELIVERIES
  /\ present < MAXREINWAIT
  /\ queued = MAXELFWAIT
  /\ queued' = 0
  /\ UNCHANGED <<present, delivered>>

ANext == ReindeerArrives \/ ElfArrives \/ Deliver \/ HelpElves

ASpec == AInit /\ [][ANext]_avars
===============================================================================
