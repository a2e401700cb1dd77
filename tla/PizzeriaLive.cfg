CONSTANTS
  Cook = {c1, c2}
  Courier = {d1, d2}
  PizzaType = {0}
  SLOTS = 1
  None = None
SPECIFICATION FairSpec
PROPERTIES
  EveryPizzaServed
