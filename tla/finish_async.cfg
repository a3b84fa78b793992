SPECIFICATION FairSpec
CONSTANTS
  N = 2
  Task = {t1, t2}
  NoTask = NoTask
  MaxFinish = 2
INVARIANTS TypeOK FinishCounterExact InFlightExact ParkedIsQuiet TerminationSafe BarrierCount EventsOutliveCopies
PROPERTIES AchievedIsFinal ImplementsGlobalFinish TasksAreExecuted AchievedReleasesAll
