SPECIFICATION FairSpec
CONSTANTS
  Producer = {p1, p2, p3}
  Size = 3
  MaxPush = 2
  MaxOutstanding = 3
  Nothing = Nothing
INVARIANTS TypeOK WindowIntact
PROPERTIES ImplementsFifo PushIsPopped
CHECK_DEADLOCK FALSE
