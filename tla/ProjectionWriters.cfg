\* Two queries refresh one mailbox while it changes and is recreated.
SPECIFICATION Spec
CONSTANTS
  Servers = {s1}
  Queries = {q1, q2}
  Mixes <- WriterMixes
  WindowRows = 2
  BatchRows = 1
  MaxUid = 2
  MaxEpoch = 2
SYMMETRY Symmetry
INVARIANTS
  CoverageIsTruth
  CurrentRowsAreCurrent
CHECK_DEADLOCK FALSE
