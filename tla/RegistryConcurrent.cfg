\* Two threads, the requests whose handlers read the items inside the write transaction.
CONSTANTS
  a = a
  b = b
  RegItem = RegItem
  Reg = Reg
  Nothing = Nothing
  Items = {a, b}
  Threads = {t1, t2}
  MaxVersions = 4
  MaxCommits = 3
  Requests <- FreshRequests
SPECIFICATION Spec
INVARIANTS ItemHistoriesLinear NoStaleEntity
PROPERTIES VersionsKept LegalLifecycle AppendOnly
CHECK_DEADLOCK FALSE
