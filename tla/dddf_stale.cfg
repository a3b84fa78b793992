SPECIFICATION Spec
CONSTANTS
  N = 2
  Home = 0
  Waiter = {w1}
  Putters = {0, 1}
INVARIANT PutIsComplete
CHECK_DEADLOCK FALSE
