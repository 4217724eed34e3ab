\* Two requests at a time, three in all.
CONSTANTS
  Items = {a}
  Threads = 2
  MaxRequests = 3
  MaxAccidents = 1
SPECIFICATION Spec
INVARIANTS TypeOK HeardInOrder SubscribersCatchUp 
PROPERTY CommitsAreHeard
CHECK_DEADLOCK FALSE
