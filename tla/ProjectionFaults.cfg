\* One query, a mailbox larger than the window, every event and failure; the
\* account moves to another server.
SPECIFICATION FairSpec
CONSTANTS
  Servers = {s1, s2}
  Queries = {q1}
  Mixes <- FaultMixes
  WindowRows = 2
  BatchRows = 1
  MaxUid = 3
  MaxEpoch = 2
INVARIANTS
  AnswerIsExact
PROPERTIES
  QueriesEnd
CHECK_DEADLOCK FALSE
