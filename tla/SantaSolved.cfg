CONSTANTS
  Elf = {e1, e2, e3}
  Reindeer = {r1, r2}
  Santa = Santa
  Nobody = Nobody
  MAXELFWAIT = 2
  MAXREINWAIT = 2
  DELIVERIES = 2
SPECIFICATION Spec
INVARIANT
  SolvedWasAnnounced
