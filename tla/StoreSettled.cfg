\* Three threads, the lifecycle never changed: nobody deadlocks and updates get their turn.
CONSTANTS
  NoThread = NoThread
  Threads = {t1, t2, t3}
  MaxCommits = 2
  MaxReloads = 0
SPECIFICATION Spec
PROPERTY WriterGranted
