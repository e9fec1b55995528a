\* No process dies: what every operation completes by itself.
SPECIFICATION FairSpec
CONSTANTS
  Clients = {c1, c2}
  Accounts = {a1}
  Names = {n1}
  Bindings = {b1, b2}
  Hosts = {h1}
  Policies = {p1}
  None = None
  Stores = {"keyring"}
  Faults = {"commit_rollback"}
  MaxRevision = 4
  MaxCatalog = 3
  CleanupLimit = 3
  MaxAccounts = 1
PROPERTIES
  RetiredGetsCleaned
CHECK_DEADLOCK FALSE
