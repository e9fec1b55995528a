\* COMMIT of an activation fails and SQLite rolls the transaction back.
SPECIFICATION Spec
CONSTANTS
  Clients = {c1, c2}
  Accounts = {a1}
  Names = {n1}
  Bindings = {b1, b2, b3}
  Hosts = {h1}
  Policies = {p1}
  None = None
  Stores = {"keyring"}
  Faults = {"commit_rollback"}
  MaxRevision = 5
  MaxCatalog = 3
  CleanupLimit = 1
  MaxAccounts = 1
SYMMETRY Symmetry
INVARIANTS
  ActiveSecretPresent
CHECK_DEADLOCK FALSE
