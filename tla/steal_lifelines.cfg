SPECIFICATION Spec
CONSTANTS
  N = 3
  Task = {t1}
  Protocols = {"successonly_glb", "glb"}
  Cancel = {FALSE}
  GlbRand = {2}
  IdleThreshold = 0
  Threshold = 0
  StealN = 1
  Workers = 1
  Root = {0}
  MaxFinish = 1
INVARIANTS InFlightExact RequestsConserved WaitingThiefIsKnown TerminationSafe
