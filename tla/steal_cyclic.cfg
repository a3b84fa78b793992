SPECIFICATION Spec
CONSTANTS
  N = 2
  Task = {t1, t2}
  Protocols = {"successonly"}
  Cancel = {TRUE}
  GlbRand = {1}
  IdleThreshold = 0
  Threshold = 0
  StealN = 1
  Workers = 1
  Root = {0, 1}
  MaxFinish = 1
INVARIANT NoHassert
