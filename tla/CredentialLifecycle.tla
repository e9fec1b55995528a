------------------------ MODULE CredentialLifecycle ------------------------
(***************************************************************************)
(* The managed catalog (mcp_email_server/managed.py): accounts, their      *)
(* endpoints, the credential bindings of each endpoint role, and the       *)
(* secret store that holds the values.  Several processes (CLI, local UI,  *)
(* MCP server) work on one catalog.  A step is one SQLite transaction or   *)
(* one secret store call: the code never makes a store call inside a       *)
(* transaction, so between two steps of one operation every other process  *)
(* may run.                                                                *)
(*                                                                         *)
(* Abstractions.  An endpoint is the host it names; the value of a secret  *)
(* is the locator it is stored under, since a locator is fresh and its     *)
(* value is never overwritten; a binding and its locator, created together *)
(* from fresh uuids, are one identity.  A process's reads outside a write  *)
(* transaction that the operation repeats inside one are one step.         *)
(***************************************************************************)
EXTENDS Integers, FiniteSets

CONSTANTS
  Clients,        \* processes that hold a ManagedCatalog on the same file
  Accounts,       \* account ids (uuid4)
  Names,          \* normalized account names
  Bindings,       \* binding ids (uuid4), each with its own locator
  Hosts,          \* endpoint settings
  Policies,       \* catalog-wide policies
  None,           \* no name, no account, no binding, no endpoint
  Stores,         \* secret stores of the platforms: "sqlite", "keyring"
  Faults,         \* which failures the environment may produce
  MaxRevision,    \* bound on the revision of an account
  MaxCatalog,     \* bound on the revision of the catalog
  CleanupLimit,   \* MAX_CREDENTIAL_CLEANUP_ROWS
  MaxAccounts     \* APPLICATION_LIMITS.configured_accounts

FaultKinds ==
  { "crash",            \* a process dies between two steps
    "store",            \* a secret store call fails or its outcome is lost
    "busy",             \* a transaction fails and has no effect
    "commit_rollback" } \* COMMIT fails and SQLite itself rolls back

ASSUME LifecycleAssumption ==
  /\ None \notin Accounts \cup Names \cup Bindings \cup Hosts
  /\ Stores \subseteq {"sqlite", "keyring"}
  /\ Faults \subseteq FaultKinds
  /\ MaxRevision \in Nat \ {0}
  /\ MaxCatalog \in Nat \ {0}
  /\ CleanupLimit \in Nat \ {0}
  /\ MaxAccounts \in Nat \ {0}
  /\ IsFiniteSet(Bindings)
  /\ IsFiniteSet(Accounts)

VARIABLES
  catalog,   \* the row of table catalog: revision and policy; the secret store
  account,   \* table managed_account with its rows of table endpoint
  binding,   \* table secret_binding
  secrets,   \* locators the secret store holds a value for
  client     \* what each process remembers of the operation it runs

vars == <<catalog, account, binding, secrets, client>>

Roles == {"incoming", "outgoing"}

Catalog == [revision : Nat, policy : Policies, store : Stores]

Account == [state    : {"absent", "live", "removed"},
            name     : Names \cup {None},
            enabled  : BOOLEAN,
            revision : Nat,
            endpoint : [Roles -> Hosts \cup {None}]]

Binding == [status  : {"unused", "ACTIVE", "CLEANUP_REQUIRED", "SUPERSEDED"},
            account : Accounts \cup {None},
            role    : Roles]

Client == [pc       : {"idle", "storing", "activating", "discarding", "deleting",
                       "marking", "validating", "enabling"},
           op       : {"none", "set", "remove", "soft_remove", "cleanup", "enable"},
           account  : Accounts \cup {None},
           role     : Roles,
           binding  : Bindings \cup {None},   \* the binding a save creates
           expected : Nat,                    \* expected_revision
           touched  : SUBSET Bindings,        \* replaced, detached or claimed
           todo     : SUBSET Bindings,        \* locators still to delete or get
           deleted  : SUBSET Bindings,        \* deleted, not yet marked
           pending  : Int,                    \* cleanup_required / remaining
           result   : {"none", "failed", "clean", "cleanup_required"}]

(* Types only; every other invariant is about what the values mean. *)
TypeOK ==
  /\ catalog \in Catalog
  /\ account \in [Accounts -> Account]
  /\ binding \in [Bindings -> Binding]
  /\ secrets \in SUBSET Bindings
  /\ client \in [Clients -> Client]

NoAccount == [state |-> "absent", name |-> None, enabled |-> FALSE, revision |-> 0,
              endpoint |-> [r \in Roles |-> None]]

NoBinding == [status |-> "unused", account |-> None, role |-> "incoming"]

IdleClient == [pc |-> "idle", op |-> "none", account |-> None, role |-> "incoming",
               binding |-> None, expected |-> 0, touched |-> {}, todo |-> {},
               deleted |-> {}, pending |-> 0, result |-> "none"]

Init ==
  /\ catalog \in [revision : {1}, policy : Policies, store : Stores]
  /\ account = [a \in Accounts |-> NoAccount]
  /\ binding = [b \in Bindings |-> NoBinding]
  /\ secrets = {}
  /\ client = [c \in Clients |-> IdleClient]

----------------------------------------------------------------------------
(* Queries *)

(* ManagedSqliteSecretStore: the values are rows of the catalog file.  The *)
(* other platforms have ManagedKeyringSecretStore.                         *)
LocalStore == catalog.store = "sqlite"

Live(a) == account[a].state = "live"

Named(n) == {a \in Accounts : Live(a) /\ account[a].name = n}

(* UNIQUE (catalog_id, normalized_name): removed rows keep their names. *)
NameAvailable(n) == \A a \in Accounts : account[a].name # n

ActiveOf(a, r) == {b \in Bindings : /\ binding[b].status = "ACTIVE"
                                    /\ binding[b].account = a
                                    /\ binding[b].role = r}

BindingsOf(a) == {b \in Bindings : binding[b].account = a}

ToClean(a) == {b \in BindingsOf(a) : binding[b].status \in {"ACTIVE", "CLEANUP_REQUIRED"}}

(* _account_problems finds nothing: every configured role has its binding. *)
CompleteWith(a, ep) ==
  /\ ep["incoming"] # None
  /\ \A r \in Roles : (ep[r] # None) <=> (ActiveOf(a, r) # {})

Complete(a) == CompleteWith(a, account[a].endpoint)

(* A uuid no row, no stored value and no running operation knows. *)
Fresh(b) ==
  /\ binding[b].status = "unused"
  /\ b \notin secrets
  /\ \A c \in Clients : client[c].binding # b

Idle(c) == client[c].pc = "idle"

Marked(B) ==
  [b \in Bindings |-> IF b \in B /\ binding[b].status = "CLEANUP_REQUIRED"
                        THEN [binding[b] EXCEPT !.status = "SUPERSEDED"]
                        ELSE binding[b]]

(* Mutant: a status the schema does not know. *)
DetachedUnknownStatus(B) ==
  [b \in Bindings |-> IF b \in B THEN [binding[b] EXCEPT !.status = "DETACHED"]
                                 ELSE binding[b]]

Detached(B) ==
  [b \in Bindings |-> IF b \in B THEN [binding[b] EXCEPT !.status = "CLEANUP_REQUIRED"]
                                 ELSE binding[b]]

(* The candidates of a cleanup: ORDER BY created_at, id LIMIT n.  Rows     *)
(* created in one second come in any order, so any n of them may be taken. *)
Candidates(B) == {S \in SUBSET B : \/ S = B /\ Cardinality(B) <= CleanupLimit
                                   \/ Cardinality(S) = CleanupLimit}

----------------------------------------------------------------------------
(* Operations that are one transaction *)

UpdatePolicy(p) ==
  /\ catalog.revision < MaxCatalog
  /\ catalog' = [catalog EXCEPT !.revision = @ + 1, !.policy = p]
  /\ UNCHANGED <<account, binding, secrets, client>>

AddAccount(a, n, ep) ==
  /\ account[a].state = "absent"
  /\ catalog.revision < MaxCatalog
  /\ ep["incoming"] # None
  /\ Cardinality({x \in Accounts : Live(x)}) < MaxAccounts
  /\ NameAvailable(n)
  /\ account' = [account EXCEPT ![a] =
       [state |-> "live", name |-> n, enabled |-> TRUE, revision |-> 1, endpoint |-> ep]]
  /\ catalog' = [catalog EXCEPT !.revision = @ + 1]
  /\ UNCHANGED <<binding, secrets, client>>

(* update_account(name, expected_revision): rename to m, take endpoints ep. *)
(* Removing the outgoing endpoint needs its bindings cleaned up first, and  *)
(* an enabled account must be complete after the update.                   *)
UpdateAccount(n, x, m, ep) ==
  \E a \in Named(n) :
    /\ account[a].revision = x
    /\ x < MaxRevision
    /\ ep["incoming"] # None
    /\ m # n => NameAvailable(m)
    /\ (ep["outgoing"] = None /\ account[a].endpoint["outgoing"] # None) =>
         \A b \in ToClean(a) : binding[b].role # "outgoing"
    /\ account[a].enabled => CompleteWith(a, ep)
    /\ account' = [account EXCEPT ![a].name = m, ![a].endpoint = ep,
                                  ![a].revision = @ + 1]
    /\ UNCHANGED <<catalog, binding, secrets, client>>

(* Mutant: the revision is not raised. *)
DisableAccountUnrevised(n, x) ==
  \E a \in Named(n) :
    /\ account[a].enabled
    /\ account[a].revision = x
    /\ account' = [account EXCEPT ![a].enabled = FALSE]
    /\ UNCHANGED <<catalog, binding, secrets, client>>

DisableAccount(n, x) ==
  \E a \in Named(n) :
    /\ account[a].enabled
    /\ account[a].revision = x
    /\ x < MaxRevision
    /\ account' = [account EXCEPT ![a].enabled = FALSE, ![a].revision = @ + 1]
    /\ UNCHANGED <<catalog, binding, secrets, client>>

----------------------------------------------------------------------------
(* set_secret: store the value (keyring only), activate the binding in one  *)
(* transaction, then delete the value it replaced.                         *)

SetSecret(c, n, x, r, b) ==
  \E a \in Named(n) :
    /\ Idle(c)
    /\ account[a].revision = x
    /\ x < MaxRevision
    /\ account[a].endpoint[r] # None
    /\ Fresh(b)
    /\ client' = [client EXCEPT ![c] =
         [IdleClient EXCEPT !.pc = IF LocalStore THEN "activating" ELSE "storing",
                            !.op = "set", !.account = a, !.role = r,
                            !.binding = b, !.expected = x]]
    /\ UNCHANGED <<catalog, account, binding, secrets>>

(* Mutant: a failed put is not noticed. *)
StoreSecretUnverified(c) ==
  /\ client[c].pc = "storing"
  /\ \/ secrets' = secrets \cup {client[c].binding}
     \/ "store" \in Faults /\ UNCHANGED secrets
  /\ client' = [client EXCEPT ![c].pc = "activating"]
  /\ UNCHANGED <<catalog, account, binding>>

(* Mutant: a save whose put failed gives up without discarding the value. *)
StoreSecretUndiscarded(c) ==
  /\ client[c].pc = "storing"
  /\ \/ /\ secrets' = secrets \cup {client[c].binding}
        /\ client' = [client EXCEPT ![c].pc = "activating"]
     \/ /\ "store" \in Faults
        /\ secrets' \in {secrets, secrets \cup {client[c].binding}}
        /\ client' = [client EXCEPT ![c].pc = "idle", ![c].result = "failed"]
  /\ UNCHANGED <<catalog, account, binding>>

(* _store_verified_secret.  A failed or unverified put may have stored the *)
(* value all the same; the code deletes it and gives up.                   *)
StoreSecret(c) ==
  /\ client[c].pc = "storing"
  /\ \/ /\ secrets' = secrets \cup {client[c].binding}
        /\ client' = [client EXCEPT ![c].pc = "activating"]
     \/ /\ "store" \in Faults
        /\ secrets' \in {secrets, secrets \cup {client[c].binding}}
        /\ client' = [client EXCEPT ![c].pc = "discarding"]
  /\ UNCHANGED <<catalog, account, binding>>

(* Mutant: nothing is checked again but the endpoint. *)
ActivationUnguarded(c) == account[client[c].account].endpoint[client[c].role] # None

ActivationAllowed(c) ==
  LET a == client[c].account IN
    /\ Live(a)
    /\ account[a].revision = client[c].expected
    /\ account[a].endpoint[client[c].role] # None

(* Mutant: the credential in use is overlooked. *)
ReplacedNothing(c) == {}

Replaced(c) == ActiveOf(client[c].account, client[c].role)

(* Mutant: the replaced value is not finalized. *)
AfterActivationUnfinalized(c) ==
  [client[c] EXCEPT !.pc = "deleting", !.touched = Replaced(c),
                    !.pending = Cardinality(Replaced(c))]

(* After the activation: _finalize_replaced_secret of the replaced binding. *)
AfterActivation(c) ==
  [client[c] EXCEPT !.pc = "deleting", !.touched = Replaced(c), !.todo = Replaced(c),
                    !.pending = Cardinality(Replaced(c))]

ActivateBinding(c) ==
  /\ client[c].pc = "activating"
  /\ ActivationAllowed(c)
  /\ secrets' = IF LocalStore THEN secrets \cup {client[c].binding} ELSE secrets
  /\ binding' = [Detached(Replaced(c)) EXCEPT ![client[c].binding] =
       [status |-> "ACTIVE", account |-> client[c].account, role |-> client[c].role]]
  /\ account' = [account EXCEPT ![client[c].account].revision = @ + 1]
  /\ client' = [client EXCEPT ![c] = AfterActivation(c)]
  /\ UNCHANGED catalog

FailedSave(c) ==
  IF LocalStore THEN [client[c] EXCEPT !.pc = "idle", !.result = "failed"]
                ELSE [client[c] EXCEPT !.pc = "discarding"]

(* A revision conflict, or a transaction that failed and left no trace. *)
ActivationFails(c) ==
  /\ client[c].pc = "activating"
  /\ ActivationAllowed(c) => "busy" \in Faults
  /\ client' = [client EXCEPT ![c] = FailedSave(c)]
  /\ UNCHANGED <<catalog, account, binding, secrets>>

(* COMMIT raises and the connection is no longer in a transaction: the     *)
(* code takes that for a commit and goes on.  SQLite also leaves the       *)
(* transaction when an I/O error or a full disk made it roll back.         *)
ActivationRolledBack(c) ==
  /\ "commit_rollback" \in Faults
  /\ client[c].pc = "activating"
  /\ ActivationAllowed(c)
  /\ client' = [client EXCEPT ![c] = AfterActivation(c)]
  /\ UNCHANGED <<catalog, account, binding, secrets>>

(* _discard_secret suppresses every failure of the store. *)
DiscardSecret(c) ==
  /\ client[c].pc = "discarding"
  /\ \/ secrets' = secrets \ {client[c].binding}
     \/ "store" \in Faults /\ UNCHANGED secrets
  /\ client' = [client EXCEPT ![c].pc = "idle", ![c].result = "failed"]
  /\ UNCHANGED <<catalog, account, binding>>

----------------------------------------------------------------------------
(* remove_secret, soft_remove_account, cleanup_credentials: one transaction *)
(* makes the bindings unusable, the values are deleted afterwards.         *)

RemoveSecret(c, n, x, r) ==
  \E a \in Named(n) :
    LET detached == ActiveOf(a, r) IN
    /\ Idle(c)
    /\ account[a].revision = x
    /\ x < MaxRevision
    /\ ~account[a].enabled
    /\ detached # {}
    /\ binding' = Detached(detached)
    /\ account' = [account EXCEPT ![a].revision = @ + 1]
    /\ client' = [client EXCEPT ![c] =
         [IdleClient EXCEPT !.pc = "deleting", !.op = "remove", !.account = a, !.role = r,
                            !.touched = detached, !.todo = detached,
                            !.pending = Cardinality(detached)]]
    /\ UNCHANGED <<catalog, secrets>>

SoftRemoveAccount(c, n, x) ==
  \E a \in Named(n) : \E candidates \in Candidates(ToClean(a)) :
    /\ Idle(c)
    /\ account[a].revision = x
    /\ x < MaxRevision
    /\ binding' = Detached(ToClean(a))
    /\ account' = [account EXCEPT ![a].state = "removed", ![a].enabled = FALSE,
                                  ![a].revision = @ + 1]
    /\ client' = [client EXCEPT ![c] =
         [IdleClient EXCEPT !.pc = "deleting", !.op = "soft_remove", !.account = a,
                            !.touched = ToClean(a), !.todo = candidates,
                            !.pending = Cardinality(ToClean(a))]]
    /\ UNCHANGED <<catalog, secrets>>

CleanupCredentials(c) ==
  LET rows == {b \in Bindings : binding[b].status = "CLEANUP_REQUIRED"} IN
  \E candidates \in Candidates(rows) :
    /\ Idle(c)
    /\ rows # {}
    /\ catalog.revision < MaxCatalog
    /\ catalog' = [catalog EXCEPT !.revision = @ + 1]
    /\ client' = [client EXCEPT ![c] =
         [IdleClient EXCEPT !.pc = "deleting", !.op = "cleanup",
                            !.touched = candidates, !.todo = candidates,
                            !.pending = Cardinality(candidates)]]
    /\ UNCHANGED <<account, binding, secrets>>

(* Mutant: what the store answers is not looked at. *)
DeleteSecretUnchecked(c, b) ==
  /\ client[c].pc = "deleting"
  /\ b \in client[c].todo
  /\ secrets' \in IF "store" \in Faults THEN {secrets, secrets \ {b}} ELSE {secrets \ {b}}
  /\ client' = [client EXCEPT
       ![c].todo = @ \ {b},
       ![c].deleted = @ \cup {b},
       ![c].pc = IF client[c].op = "soft_remove" THEN "deleting" ELSE "marking"]
  /\ UNCHANGED <<catalog, account, binding>>

(* One secret_store.delete.  A removal collects what it deleted and marks  *)
(* it in one transaction; the others mark each value once it is deleted.   *)
DeleteSecret(c, b) ==
  /\ client[c].pc = "deleting"
  /\ b \in client[c].todo
  /\ \/ /\ secrets' = secrets \ {b}
        /\ client' = [client EXCEPT
             ![c].todo = @ \ {b},
             ![c].deleted = @ \cup {b},
             ![c].pc = IF client[c].op = "soft_remove" THEN "deleting" ELSE "marking"]
     \/ /\ "store" \in Faults    \* False or an exception, whether or not it is gone
        /\ secrets' \in {secrets, secrets \ {b}}
        /\ client' = [client EXCEPT ![c].todo = @ \ {b}]
  /\ UNCHANGED <<catalog, account, binding>>

StartMarking(c) ==
  /\ client[c].pc = "deleting"
  /\ client[c].todo = {}
  /\ client[c].deleted # {}
  /\ client' = [client EXCEPT ![c].pc = "marking"]
  /\ UNCHANGED <<catalog, account, binding, secrets>>

(* Mutant: the rows count as cleaned before they are marked. *)
MarkSupersededEarly(c) ==
  /\ client[c].pc = "marking"
  /\ \/ binding' = Marked(client[c].deleted)
     \/ "busy" \in Faults /\ UNCHANGED binding
  /\ client' = [client EXCEPT ![c].pc = "deleting", ![c].deleted = {}, ![c].pending = 0]
  /\ UNCHANGED <<catalog, account, secrets>>

(* Rows still CLEANUP_REQUIRED become SUPERSEDED.  Removal and cleanup     *)
(* count the rows they changed; a save and remove_secret count the delete. *)
MarkSuperseded(c) ==
  LET rows == {b \in client[c].deleted : binding[b].status = "CLEANUP_REQUIRED"} IN
  /\ client[c].pc = "marking"
  /\ \/ /\ binding' = Marked(client[c].deleted)
        /\ client' = [client EXCEPT
             ![c].pc = "deleting", ![c].deleted = {},
             ![c].pending = IF client[c].op \in {"set", "remove"}
                              THEN 0 ELSE @ - Cardinality(rows)]
     \/ /\ "busy" \in Faults
        /\ client' = [client EXCEPT ![c].pc = "deleting", ![c].deleted = {}]
        /\ UNCHANGED binding
  /\ UNCHANGED <<catalog, account, secrets>>

(* The report.  A save adds the rows of its role that still need cleanup,   *)
(* and says that there are some when it cannot count them.                 *)
Finish(c) ==
  LET remaining == {b \in ToClean(client[c].account) :
                      /\ binding[b].status = "CLEANUP_REQUIRED"
                      /\ binding[b].role = client[c].role}
      clean == /\ client[c].pending = 0
               /\ client[c].op = "set" => remaining = {}
  IN
  /\ client[c].pc = "deleting"
  /\ client[c].todo = {}
  /\ client[c].deleted = {}
  /\ \E uncounted \in BOOLEAN :
       /\ uncounted => client[c].op = "set" /\ "busy" \in Faults
       /\ client' = [client EXCEPT ![c].pc = "idle",
            ![c].result = IF clean /\ ~uncounted THEN "clean" ELSE "cleanup_required"]
  /\ UNCHANGED <<catalog, account, binding, secrets>>

----------------------------------------------------------------------------
(* enable_account: read, resolve every credential, enable if unchanged. *)

EnableAccount(c, n, x) ==
  \E a \in Named(n) :
    /\ Idle(c)
    /\ ~account[a].enabled
    /\ account[a].revision = x
    /\ x < MaxRevision
    /\ Complete(a)
    /\ client' = [client EXCEPT ![c] =
         [IdleClient EXCEPT !.pc = "validating", !.op = "enable", !.account = a,
                            !.expected = x,
                            !.touched = UNION {ActiveOf(a, r) : r \in Roles},
                            !.todo = UNION {ActiveOf(a, r) : r \in Roles}]]
    /\ UNCHANGED <<catalog, account, binding, secrets>>

ResolveForEnable(c, b) ==
  /\ client[c].pc = "validating"
  /\ b \in client[c].todo
  /\ \/ /\ b \in secrets
        /\ client' = [client EXCEPT ![c].todo = @ \ {b},
             ![c].pc = IF client[c].todo = {b} THEN "enabling" ELSE "validating"]
     \/ /\ b \notin secrets \/ "store" \in Faults
        /\ client' = [client EXCEPT ![c].pc = "idle", ![c].todo = {}, ![c].result = "failed"]
  /\ UNCHANGED <<catalog, account, binding, secrets>>

(* Mutant: the revision the credentials were read at is not compared. *)
CommitEnableAnyRevision(c) ==
  LET a == client[c].account IN
  /\ client[c].pc = "enabling"
  /\ Live(a) /\ ~account[a].enabled /\ account[a].revision < MaxRevision
  /\ Complete(a)
  /\ account' = [account EXCEPT ![a].enabled = TRUE, ![a].revision = @ + 1]
  /\ client' = [client EXCEPT ![c].pc = "idle", ![c].result = "clean"]
  /\ UNCHANGED <<catalog, binding, secrets>>

CommitEnable(c) ==
  LET a == client[c].account
      unchanged == /\ Live(a)
                   /\ ~account[a].enabled
                   /\ account[a].revision = client[c].expected
                   /\ Complete(a)
  IN
  /\ client[c].pc = "enabling"
  /\ \/ /\ unchanged
        /\ account' = [account EXCEPT ![a].enabled = TRUE, ![a].revision = @ + 1]
        /\ client' = [client EXCEPT ![c].pc = "idle", ![c].result = "clean"]
     \/ /\ unchanged => "busy" \in Faults
        /\ client' = [client EXCEPT ![c].pc = "idle", ![c].result = "failed"]
        /\ UNCHANGED account
  /\ UNCHANGED <<catalog, binding, secrets>>

(* The process dies; the catalog and the secret store stay as they are. *)
Crash(c) ==
  /\ "crash" \in Faults
  /\ ~Idle(c)
  /\ client' = [client EXCEPT ![c] = IdleClient]
  /\ UNCHANGED <<catalog, account, binding, secrets>>

----------------------------------------------------------------------------
Endpoints == [Roles -> Hosts \cup {None}]

Administer ==
  \/ \E p \in Policies : UpdatePolicy(p)
  \/ \E a \in Accounts, n \in Names, ep \in Endpoints : AddAccount(a, n, ep)
  \/ \E n \in Names, x \in 1..MaxRevision :
       \/ \E m \in Names, ep \in Endpoints : UpdateAccount(n, x, m, ep)
       \/ DisableAccount(n, x)

Begin(c) ==
  \/ \E n \in Names, x \in 1..MaxRevision :
       \/ \E r \in Roles, b \in Bindings : SetSecret(c, n, x, r, b)
       \/ \E r \in Roles : RemoveSecret(c, n, x, r)
       \/ SoftRemoveAccount(c, n, x)
       \/ EnableAccount(c, n, x)
  \/ CleanupCredentials(c)

Continue(c) ==
  \/ StoreSecret(c)
  \/ ActivateBinding(c)
  \/ ActivationFails(c)
  \/ ActivationRolledBack(c)
  \/ DiscardSecret(c)
  \/ \E b \in Bindings : DeleteSecret(c, b) \/ ResolveForEnable(c, b)
  \/ StartMarking(c)
  \/ MarkSuperseded(c)
  \/ Finish(c)
  \/ CommitEnable(c)

Next ==
  \/ Administer
  \/ \E c \in Clients : Begin(c) \/ Continue(c) \/ Crash(c)

Spec == Init /\ [][Next]_vars

(* An operation that has begun runs to its end unless its process dies. *)
FairSpec == Spec /\ \A c \in Clients : WF_vars(Continue(c))
----------------------------------------------------------------------------
(* Properties *)

(* An endpoint role never has two ACTIVE credentials, whichever of two     *)
(* concurrent saves wins (unique index one_active_binding_per_role).       *)
OneActivePerRole ==
  \A b1, b2 \in Bindings :
    (/\ binding[b1].status = "ACTIVE" /\ binding[b2].status = "ACTIVE"
     /\ binding[b1].account = binding[b2].account
     /\ binding[b1].role = binding[b2].role) => b1 = b2

(* The value of an ACTIVE credential is in the secret store: no cleanup,   *)
(* discard or finalization of any process deletes the value in use.        *)
ActiveSecretPresent ==
  \A b \in Bindings : binding[b].status = "ACTIVE" => b \in secrets

(* A row is marked SUPERSEDED only when its value is gone for good, so     *)
(* doctor and cleanup, which skip such rows, never lose sight of a value.  *)
SupersededSecretGone ==
  \A b \in Bindings : binding[b].status = "SUPERSEDED" => b \notin secrets

(* A value that a cleanup finds through its row, or that the save which     *)
(* stored it still holds.                                                   *)
Kept(b) == binding[b].status \in {"ACTIVE", "CLEANUP_REQUIRED"}

HeldBy(c, b) == client[c].binding = b /\ client[c].pc \in {"activating", "discarding"}

(* No value is left in the store out of everybody's reach: never in the    *)
(* catalog's own store, whatever fails, and in a keyring only when the     *)
(* process that holds the value dies or when the delete of its discard     *)
(* fails.  A put that fails although it stored the value, or an activation *)
(* refused after the put, leaves nothing behind.                           *)
NoOrphanSecret ==
  [][\A b \in secrets' :
       \/ Kept(b)'
       \/ /\ ~LocalStore
          /\ \/ \E c \in Clients : HeldBy(c, b)'
             \/ b \in secrets /\ ~Kept(b) /\ \A c \in Clients : ~HeldBy(c, b)
             \/ \E c \in Clients :
                  HeldBy(c, b) /\ (client'[c] = IdleClient \/ client[c].pc = "discarding")]_vars

(* A save or an enable that began before an account was removed, or before *)
(* it lost an endpoint, gives it nothing afterwards: a removed account stays *)
(* disabled without a credential, and a credential in use or awaiting      *)
(* cleanup belongs to a role its account has an endpoint for.              *)
NoLateCredential ==
  /\ \A a \in Accounts : account[a].state = "removed" =>
       ~account[a].enabled /\ \A r \in Roles : ActiveOf(a, r) = {}
  /\ \A b \in Bindings : binding[b].status \in {"ACTIVE", "CLEANUP_REQUIRED"} =>
       account[binding[b].account].endpoint[binding[b].role] # None

(* What an operation reports is true.  Where it leaves no cleanup, every   *)
(* credential it replaced, detached or claimed is gone, whoever else       *)
(* cleaned it; a save that reports success activated its binding and one   *)
(* that reports an error left no binding behind.                           *)
ReportsHonest ==
  \A c \in Clients :
    /\ (client[c].result = "clean" /\ client[c].op # "enable") =>
         \A b \in client[c].touched : binding[b].status = "SUPERSEDED"
    /\ client[c].op = "set" =>
         /\ client[c].result \in {"clean", "cleanup_required"} =>
              binding[client[c].binding].status # "unused"
         /\ client[c].result = "failed" => binding[client[c].binding].status = "unused"

Active(a) == UNION {ActiveOf(a, r) : r \in Roles}

(* An account becomes enabled only with the very credentials that were     *)
(* resolved, although enable_account resolves them between transactions;   *)
(* and while it stays enabled no step of any process takes an endpoint or  *)
(* a credential from it or adds an endpoint without a credential.          *)
EnabledSoundly ==
  [][\A a \in Accounts : account'[a].enabled =>
       /\ (Live(a) /\ ~account[a].enabled) =>
            /\ Complete(a)
            /\ \E c \in Clients : /\ client[c].op = "enable"
                                  /\ client[c].account = a
                                  /\ client[c].touched = Active(a)
       /\ (account[a].enabled /\ Complete(a)) => Complete(a)']_vars

(* With no failure every replaced or removed credential is cleaned up by   *)
(* the operation that retired it, without a later cleanup command.         *)
RetiredGetsCleaned ==
  \A b \in Bindings : binding[b].status = "CLEANUP_REQUIRED" ~> binding[b].status = "SUPERSEDED"
=============================================================================
