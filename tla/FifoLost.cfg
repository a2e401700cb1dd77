CONSTANTS
  p1 = p1
  p2 = p2
  p3 = p3
  Producer = {p1, p2, p3}
  Consumer = {c1, c2}
  Line <- MCLine
  Text <- MCText
  BLOCK = 2
  PIPE = 3
  None = None
SPECIFICATION Spec
INVARIANT
  NothingLost
CHECK_DEADLOCK FALSE
