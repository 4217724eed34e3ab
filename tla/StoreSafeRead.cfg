\* Two threads, the lifecycle never changed: what a safe read block promises.
CONSTANTS
  NoThread = NoThread
  Threads = {t1, t2}
  MaxCommits = 2
  MaxReloads = 0
SPECIFICATION Spec
INVARIANT SafeBlockReads
