SPECIFICATION FairSpec
CONSTANTS
  N = 4
  Coord <- SomeCoords
  Lifelines = FALSE
  MaxSearch = 2
INVARIANTS TypeOK ListsAreSorted VictimsAreTheOthers NearestFirst
PROPERTIES ImplementsVictimSearch OrderIsMade
CHECK_DEADLOCK FALSE
