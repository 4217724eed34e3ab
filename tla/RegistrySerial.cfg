\* One thread, every kind of request.
CONSTANTS
  a = a
  b = b
  RegItem = RegItem
  Reg = Reg
  Nothing = Nothing
  Items = {a, b}
  Threads = {t1}
  MaxVersions = 5
  MaxCommits = 4
  Requests <- AllRequests
SPECIFICATION Spec
INVARIANTS TypeOK ItemHistoriesLinear RegisterHistoryLinear NoStaleEntity NoOrphans
PROPERTIES VersionsKept LegalLifecycle
CHECK_DEADLOCK FALSE
