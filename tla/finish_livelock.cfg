SPECIFICATION FairSpec
CONSTANTS
  N = 2
  Task = {t1}
  NoTask = NoTask
  MaxFinish = 1
PROPERTY IdleFinishEnds
