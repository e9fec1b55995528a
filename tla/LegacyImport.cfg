\* Two processes with one configuration path and one account with two roles:
\* the operations that meet in one behaviour are chosen by the first state.
SPECIFICATION Spec
CONSTANTS
  a1 = a1
  Procs = {p1, p2}
  Accounts = {a1}
  Entries <- MCEntries
  Secrets = {s1, s2}
  None = None
  Sentinel = Sentinel
  Modes = {"auto", "keyring", "plaintext"}
  Mixes <- MCMixes
  MaxRevision = 3
  MaxTarget = 3
SYMMETRY Symmetry
INVARIANTS
  SentinelResolves
PROPERTIES
  SelectionReviewed
  StoresFenced
  MigrationKeepsSecrets
  CutoverProved
  NoAccountLeftBehind
CHECK_DEADLOCK FALSE
