\* Both secret stores: processes die, store calls and transactions fail.
SPECIFICATION Spec
CONSTANTS
  Clients = {c1, c2}
  Accounts = {a1}
  Names = {n1}
  Bindings = {b1, b2, b3}
  Hosts = {h1}
  Policies = {p1}
  None = None
  Stores = {"sqlite", "keyring"}
  Faults = {"crash", "store", "busy"}
  MaxRevision = 5
  MaxCatalog = 3
  CleanupLimit = 1
  MaxAccounts = 1
SYMMETRY Symmetry
INVARIANTS
  TypeOK
  OneActivePerRole
  ActiveSecretPresent
  SupersededSecretGone
  NoLateCredential
  ReportsHonest
PROPERTIES
  NoOrphanSecret
  EnabledSoundly
CHECK_DEADLOCK FALSE
