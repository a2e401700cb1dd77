CONSTANTS
  Elf = {e1, e2, e3, e4}
  Reindeer = {r1, r2, r3}
  Santa = Santa
  Nobody = Nobody
  MAXELFWAIT = 3
  MAXREINWAIT = 3
  DELIVERIES = 2
SPECIFICATION Spec
SYMMETRY Interchangeable
INVARIANTS
  TypeOK
  ElfIndexInBounds
  ElfAccounting
  AllHomeAtDelivery
  NoLostWakeup
  DispatchHasWork
PROPERTIES
  ImplementsWorkshop
