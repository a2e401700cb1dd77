CONSTANTS
  Elf = {e1, e2}
  Reindeer = {r1, r2}
  Santa = Santa
  Nobody = Nobody
  MAXELFWAIT = 1
  MAXREINWAIT = 2
  DELIVERIES = 2
SPECIFICATION FairSpec
PROPERTIES
  ProgramEnds
