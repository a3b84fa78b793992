SPECIFICATION Spec
CONSTANTS
  N = 2
  Task = {t1, t2}
  Protocols = {"baseline", "successonly"}
  Cancel = {FALSE}
  GlbRand = {1}
  IdleThreshold = 0
  Threshold = 0
  StealN = 2
  Workers = 2
  Root = {0, 1}
  MaxFinish = 2
SYMMETRY TaskSymmetry
INVARIANTS TypeOK InFlightExact NoHassert RequestsConserved QueueSound WaitingThiefIsKnown SearcherAcceptsNone TerminationSafe
PROPERTY ImplementsStealing
