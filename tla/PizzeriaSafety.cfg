CONSTANTS
  Cook = {c1, c2, c3}
  Courier = {d1, d2}
  PizzaType = {0, 1}
  SLOTS = 2
  None = None
SPECIFICATION Spec
SYMMETRY Interchangeable
INVARIANTS
  TypeOK
  FreePlaceFound
  OwnPizza
  TableReady
  CountersTrue
PROPERTIES
  ImplementsPizzaShop
