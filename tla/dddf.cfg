SPECIFICATION FairSpec
CONSTANTS
  N = 3
  Home = 0
  Waiter = {w1, w2}
  Putters = {0, 1, 2}
INVARIANTS TypeOK SingleAssignment RemotePutIsComplete
PROPERTIES ImplementsFuture WaitersRun
CHECK_DEADLOCK FALSE
