SPECIFICATION Spec
CONSTANTS
  N = 3
  Coord <- FewCoords
  Lifelines = TRUE
  MaxSearch = 1
INVARIANT LifelinesAreOthers
CHECK_DEADLOCK FALSE
