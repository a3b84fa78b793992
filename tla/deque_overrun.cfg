SPECIFICATION Spec
CONSTANTS
  Producer = {p1, p2}
  Size = 2
  MaxPush = 2
  MaxOutstanding = 3
  Nothing = Nothing
INVARIANT NoOverrun
CHECK_DEADLOCK FALSE
