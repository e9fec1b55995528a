------------------------ MODULE AuthorityResolution ------------------------
(***************************************************************************)
(* resolve_account (mcp_email_server/managed.py) beside every process that *)
(* changes the catalog.  One resolution reads the account's authority      *)
(* three times and its secrets between the second and the third time.  A   *)
(* read is four SELECTs outside any transaction, so each of them may see   *)
(* another state of the catalog; the code compares the whole results.      *)
(***************************************************************************)
EXTENDS CredentialLifecycle

CONSTANT Readers    \* concurrent calls of resolve_account

ASSUME ReadersAssumption == Readers \cap Clients = {}

VARIABLE reader

readerVars == <<vars, reader>>

Row == [id : Accounts \cup {None}, name : Names \cup {None}, enabled : BOOLEAN,
        revision : Nat]

(* _ManagedAuthoritySnapshot *)
Snapshot == [catalog   : Catalog,
             row       : Row,
             endpoints : [Roles -> Hosts \cup {None}],
             bindings  : [Roles -> Bindings \cup {None}]]

Reader == [pc      : {"idle", "catalog", "account", "endpoints", "bindings", "compare",
                      "secrets", "done", "failed"},
           pass    : 0..3,
           name    : Names \cup {None},
           roles   : SUBSET Roles,         \* the roles the caller asks for
           read    : Snapshot,             \* what this pass has read so far
           initial : Snapshot,             \* what the first pass read
           missing : SUBSET Roles,         \* secrets still to get
           point   : Snapshot]             \* history: the catalog as it was when
                                           \* the third pass began to read

ReaderTypeOK == reader \in [Readers -> Reader]

NoRow == [id |-> None, name |-> None, enabled |-> FALSE, revision |-> 0]
EmptySnapshot(cat) == [catalog |-> cat, row |-> NoRow,
                       endpoints |-> [r \in Roles |-> None], bindings |-> [r \in Roles |-> None]]

IdleReader == [pc |-> "idle", pass |-> 0, name |-> None, roles |-> {},
               read |-> EmptySnapshot(catalog), initial |-> EmptySnapshot(catalog),
               missing |-> {}, point |-> EmptySnapshot(catalog)]

ReaderInit == Init /\ reader = [r \in Readers |-> IdleReader]

(* The rows a SELECT of each table returns now. *)
RowOf(a) == [id |-> a, name |-> account[a].name, enabled |-> account[a].enabled,
             revision |-> account[a].revision]

ActiveBindings(a) ==
  [r \in Roles |-> IF ActiveOf(a, r) = {} THEN None ELSE CHOOSE b \in ActiveOf(a, r) : TRUE]

CurrentSnapshot(a) == [catalog |-> catalog, row |-> RowOf(a),
                       endpoints |-> account[a].endpoint, bindings |-> ActiveBindings(a)]

Enabled(n) == {a \in Named(n) : account[a].enabled}

Fail(r) == reader' = [reader EXCEPT ![r] = [IdleReader EXCEPT !.pc = "failed"]]

----------------------------------------------------------------------------
Resolve(r, n, roles) ==
  /\ reader[r].pc \in {"idle", "done", "failed"}
  /\ reader' = [reader EXCEPT ![r] = [IdleReader EXCEPT
       !.pc = "catalog", !.pass = 1, !.name = n, !.roles = roles, !.missing = roles]]
  /\ UNCHANGED vars

(* SELECT * FROM catalog *)
ReadCatalog(r) ==
  /\ reader[r].pc = "catalog"
  /\ reader' = [reader EXCEPT
       ![r].pc = "account",
       ![r].read = EmptySnapshot(catalog),
       ![r].point = IF reader[r].pass = 3 /\ reader[r].initial.row.id \in Accounts
                      THEN CurrentSnapshot(reader[r].initial.row.id) ELSE @]
  /\ UNCHANGED vars

(* SELECT * FROM managed_account WHERE normalized_name = ? AND enabled = 1 *)
ReadAccount(r) ==
  /\ reader[r].pc = "account"
  /\ \/ \E a \in Enabled(reader[r].name) :
          reader' = [reader EXCEPT ![r].pc = "endpoints", ![r].read.row = RowOf(a)]
     \/ Enabled(reader[r].name) = {} /\ Fail(r)
  /\ UNCHANGED vars

(* SELECT * FROM endpoint WHERE account_id = ? *)
ReadEndpoints(r) ==
  /\ reader[r].pc = "endpoints"
  /\ reader' = [reader EXCEPT
       ![r].pc = "bindings",
       ![r].read.endpoints = account[reader[r].read.row.id].endpoint]
  /\ UNCHANGED vars

(* SELECT ... FROM secret_binding WHERE account_id = ? AND status = 'ACTIVE' *)
ReadBindings(r) ==
  /\ reader[r].pc = "bindings"
  /\ reader' = [reader EXCEPT
       ![r].pc = "compare",
       ![r].read.bindings = ActiveBindings(reader[r].read.row.id)]
  /\ UNCHANGED vars

(* The checks at the end of _read_account_authority. *)
Usable(s, roles) ==
  /\ s.endpoints["incoming"] # None /\ s.bindings["incoming"] # None
  /\ s.endpoints["outgoing"] = None <=> s.bindings["outgoing"] = None
  /\ \A role \in roles : s.endpoints[role] # None /\ s.bindings[role] # None

(* Mutant: only the account's own row is compared. *)
UnchangedRow(s, initial) == s.row = initial.row

Unchanged(s, initial) == s = initial

Compare(r) ==
  LET s == reader[r] IN
  /\ s.pc = "compare"
  /\ \/ /\ ~Usable(s.read, s.roles)
        /\ Fail(r)
     \/ /\ Usable(s.read, s.roles)
        /\ s.pass = 1
        /\ reader' = [reader EXCEPT ![r].initial = s.read, ![r].pass = 2, ![r].pc = "catalog"]
     \/ /\ Usable(s.read, s.roles)
        /\ s.pass > 1
        /\ ~Unchanged(s.read, s.initial)
        /\ Fail(r)
     \/ /\ Usable(s.read, s.roles)
        /\ s.pass = 2
        /\ Unchanged(s.read, s.initial)
        /\ reader' = [reader EXCEPT ![r].pass = 3,
                        ![r].pc = IF s.missing = {} THEN "catalog" ELSE "secrets"]
     \/ /\ Usable(s.read, s.roles)
        /\ s.pass = 3
        /\ Unchanged(s.read, s.initial)
        /\ reader' = [reader EXCEPT ![r].pc = "done"]
  /\ UNCHANGED vars

GetSecret(r, role) ==
  /\ reader[r].pc = "secrets"
  /\ role \in reader[r].missing
  /\ \/ /\ reader[r].initial.bindings[role] \in secrets
        /\ reader' = [reader EXCEPT ![r].missing = @ \ {role},
             ![r].pc = IF reader[r].missing = {role} THEN "catalog" ELSE "secrets"]
     \/ /\ reader[r].initial.bindings[role] \notin secrets \/ "store" \in Faults
        /\ Fail(r)
  /\ UNCHANGED vars

Read(r) ==
  \/ ReadCatalog(r)
  \/ ReadAccount(r)
  \/ ReadEndpoints(r)
  \/ ReadBindings(r)
  \/ Compare(r)
  \/ \E role \in Roles : GetSecret(r, role)

ReaderNext ==
  \/ Next /\ UNCHANGED reader
  \/ \E r \in Readers : \/ \E n \in Names, roles \in SUBSET Roles : Resolve(r, n, roles)
                        \/ Read(r)

ReaderSpec == ReaderInit /\ [][ReaderNext]_readerVars

----------------------------------------------------------------------------
(* The abstract service: an answer is an atomic read of the catalog. *)

Held(r) ==
  CASE reader[r].pc = "idle" -> [state |-> "idle"]
    [] reader[r].pc = "failed" -> [state |-> "failed"]
    [] reader[r].pc = "done" -> [state |-> "done", name |-> reader[r].name,
                                 answer |-> reader[r].initial]
    [] OTHER -> IF reader[r].pass = 3 /\ reader[r].pc \in {"account", "endpoints", "bindings", "compare"}
                  THEN [state |-> "taken", name |-> reader[r].name, answer |-> reader[r].point]
                  ELSE [state |-> "pending", name |-> reader[r].name]

Atomic == INSTANCE AtomicResolution
            WITH call <- [r \in Readers |-> Held(r)],
                 world <- [catalog |-> catalog,
                           accounts |-> [a \in Accounts |-> CurrentSnapshot(a)]]

(* What resolve_account returns (account, endpoints, credentials, policy)  *)
(* was the whole authority of the named account at one moment of the call, *)
(* although it is read in pieces while other processes change the catalog. *)
AtomicSpec == Atomic!Spec
=============================================================================
