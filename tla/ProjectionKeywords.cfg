\* A cached page while the mailbox is recreated.
SPECIFICATION Spec
CONSTANTS
  Servers = {s1}
  Queries = {q1}
  Mixes <- KeywordMixes
  WindowRows = 2
  BatchRows = 1
  MaxUid = 2
  MaxEpoch = 2
SYMMETRY Symmetry
INVARIANTS
  KeywordsOfPage
CHECK_DEADLOCK FALSE
