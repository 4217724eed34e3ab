\* Three threads and one change of the lifecycle register, which can deadlock them.
CONSTANTS
  NoThread = NoThread
  Threads = {t1, t2, t3}
  MaxCommits = 2
  MaxReloads = 1
SPECIFICATION Spec
INVARIANTS TypeOK CommandOwnsTransaction WriterNeverQueues SafeCountReturns
PROPERTY CommitOnTop
CHECK_DEADLOCK FALSE
