\* One call of resolve_account beside one writer.
SPECIFICATION ReaderSpec
CONSTANTS
  Clients = {c1}
  Accounts = {a1}
  Names = {n1}
  Bindings = {b1, b2}
  Hosts = {h1, h2}
  Policies = {p1, p2}
  None = None
  Stores = {"sqlite"}
  Faults = {}
  MaxRevision = 3
  MaxCatalog = 3
  CleanupLimit = 1
  MaxAccounts = 1
  Readers = {r1}
SYMMETRY Symmetry
PROPERTIES
  AtomicSpec
CHECK_DEADLOCK FALSE
