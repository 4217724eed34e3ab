\* Two threads and one change of the lifecycle: the reload inside an update.
CONSTANTS
  NoThread = NoThread
  Threads = {t1, t2}
  MaxCommits = 2
  MaxReloads = 1
SPECIFICATION Spec
PROPERTY NestedSafeReadReturns
CHECK_DEADLOCK FALSE
