\* Four notifications to two topics, a backlog of two.
CONSTANTS
  Targets = {x, y}
  Topics = 2
  Limit = 2
  MaxSends = 4
  MaxFailures = 3
  MaxDiskFaults = 1
  MaxRestarts = 1
SPECIFICATION Spec
INVARIANTS TypeOK NoOrphanFiles FirstReceiptsInOrder SuccessDrains
PROPERTIES SendEnds KeepsPromise
CHECK_DEADLOCK FALSE
