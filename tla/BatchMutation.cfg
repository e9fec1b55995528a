\* One call on two messages, every kind of call, server and interference.
SPECIFICATION Spec
CONSTANTS
  Count = 2
  Capabilities = {{}, {"UIDPLUS"}, {"MOVE"}}
  Allowlists = {{1}, {1, 2}}
  MaxChanges = 1
INVARIANTS
  OutcomesHonest
  MovedOnce
  RevocationStops
  CacheHonest
PROPERTIES
  CallEnds
CHECK_DEADLOCK FALSE
