SPECIFICATION FairSpec
CONSTANTS
  Main = Main
  Threads = {t1, t2}
  MaxCancel = 1
  MaxPosts = 1
  Pends = {t1}
  None = None
INVARIANTS TypeOK RunningHasData NothingLeaked
PROPERTIES CancelEndsWait EndIsNoticed TimedPendEnds
CHECK_DEADLOCK FALSE
