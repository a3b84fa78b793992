SPECIFICATION FairSpec
CONSTANTS
  N = 2
  Task = {t1}
  Protocols = {"baseline"}
  Cancel = {FALSE}
  GlbRand = {1}
  IdleThreshold = 0
  Threshold = 0
  StealN = 1
  Workers = 1
  Root = {0}
  MaxFinish = 1
PROPERTY ThiefIsReleased
