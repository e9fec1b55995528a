\* One call with two recipients, every kind of call and interference.
SPECIFICATION Spec
CONSTANTS
  Recipients = {r1, r2}
  Settings = {1, 2, 3}
  Admitting = {1, 2}
  MaxChanges = 2
SYMMETRY Symmetry
INVARIANTS
  OutcomesHonest
  ErrorSafeToRetry
  RevocationStops
  CacheHonest
CHECK_DEADLOCK FALSE
