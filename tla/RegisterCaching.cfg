\* Two threads, two versions of the register.
CONSTANTS
  Threads = {t1, t2}
  None = None
  MaxWrites = 2
SPECIFICATION Spec
SYMMETRY Symmetry
INVARIANTS TypeOK CachedIsCurrent OnlyCommittedIsShared NotOlderThanView RegisterCacheCatchesUp
CHECK_DEADLOCK FALSE
