\* One user on the page, one on the command line, one account.
SPECIFICATION WebSpec
CONSTANTS
  Clients = {c1, c2}
  Browser = c1
  Attempts = 1
  Accounts = {a1}
  Names = {n1, n2}
  Bindings = {b1, b2}
  Hosts = {h1}
  Policies = {p1}
  None = None
  Stores = {"sqlite"}
  Faults = {}
  MaxRevision = 4
  MaxCatalog = 3
  CleanupLimit = 1
  MaxAccounts = 2
SYMMETRY Symmetry
PROPERTIES
  StaleFormRejected
  UpdateIsWhole
CHECK_DEADLOCK FALSE
