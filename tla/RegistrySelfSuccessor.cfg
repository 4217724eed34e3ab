\* One thread, an item declared to supersede itself.
CONSTANTS
  a = a
  b = b
  RegItem = RegItem
  Reg = Reg
  Nothing = Nothing
  Items = {a}
  Threads = {t1}
  MaxVersions = 4
  MaxCommits = 3
  Requests <- SuccessorRequests
SPECIFICATION Spec
INVARIANT UpdatesMakeVersions
CHECK_DEADLOCK FALSE
