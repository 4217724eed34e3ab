\* A path, and two beneath it, in branches of their own.
CONSTANTS
  x = x
  y = y
  z = z
  Segments <- MCSegments
  Addresses <- MCAddresses
  Paths <- MCPaths
  Records = {redirect, proxy, subject}
  Proxied = {proxy}
  BySubject = {subject}
  NoNode = NoNode
  Branch = Branch
  None = None
  MaxChanges = 4
  MaxStarts = 1
SPECIFICATION Spec
INVARIANTS TypeOK OneMatch ForwardsFollowStore ProxiesFollowStore ConfigFollowsProxies
PROPERTY ChangesStayInFamily
CHECK_DEADLOCK FALSE
