\* Two threads that update one item.
CONSTANTS
  a = a
  b = b
  RegItem = RegItem
  Reg = Reg
  Nothing = Nothing
  Items = {a}
  Threads = {t1, t2}
  MaxVersions = 4
  MaxCommits = 3
  Requests <- UpdateRequests
SPECIFICATION Spec
INVARIANT UpdatesMakeVersions
CHECK_DEADLOCK FALSE
