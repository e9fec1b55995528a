---------------------------- MODULE LegacyImport ----------------------------
(***************************************************************************)
(* LegacyImportService (application/management.py): a reviewed import of   *)
(* the legacy accounts into the managed catalog that ends, when all went   *)
(* well, by selecting managed mode.  The importer reads three stores that  *)
(* others write: the legacy file and keyring, the catalog, the selection.  *)
(* It checks them again before each step and once more under the file lock *)
(* and the writer fence of the catalog (guarded_import_cutover).           *)
(*                                                                         *)
(* Abstractions.  An account that exists in the catalog has the reviewed   *)
(* configuration: conflicts are left out, and so are policies, providers   *)
(* and the review token.  Saving a credential, whose own steps are in      *)
(* module CredentialLifecycle, is one step that succeeds or asks for       *)
(* attention.  Reading the credentials of an account and comparing them is *)
(* one step; the recheck of source and target after it is another.         *)
(***************************************************************************)
EXTENDS LegacyStore

CONSTANT MaxTarget    \* bound on the revisions of the catalog and its accounts

ASSUME ImportAssumption == MaxTarget \in Nat \ {0}

VARIABLES
  catalog,    \* the managed catalog: its revision, its accounts and secrets
  importer    \* what each running import remembers

vars == <<legacyVars, catalog, importer>>

\* Revision 0: the account does not exist.
Catalog == [revision : 0..MaxTarget,
            account  : [Accounts -> 0..MaxTarget],
            secret   : [Entries -> Secrets \cup {None}]]

EntriesOf(a) == {e \in Entries : e[1] = a}

\* source: LegacySourceSnapshot, which holds no secret.  target: the revisions
\* reviewed, advanced by the import's own writes.  proven: the credentials it
\* has resolved.
Importer == [source    : [Entries -> {"plaintext", Sentinel, None}],
             target    : Catalog,
             proven    : [Entries -> Secrets \cup {None}],
             accounts  : SUBSET Accounts,
             role      : Entries \cup {None},
             attention : BOOLEAN]

NoTarget == [revision |-> 0, account |-> [a \in Accounts |-> 0], secret |-> NoCredentials]

NoImport == [source |-> NoCredentials, target |-> NoTarget, proven |-> NoCredentials,
             accounts |-> {}, role |-> None, attention |-> FALSE]

TypeOK ==
  /\ LegacyTypeOK
  /\ catalog \in Catalog
  /\ importer \in [Procs -> Importer]

Init ==
  /\ LegacyInit
  /\ importer = [p \in Procs |-> NoImport]
  /\ catalog = [NoTarget EXCEPT !.revision = 1]

End(p) ==
  /\ Finish(p)
  /\ importer' = [importer EXCEPT ![p] = NoImport]

-----------------------------------------------------------------------------
(* The catalog, as the other managed clients change it. *)

\* An account is added, or a credential of one set or removed.
Operate ==
  /\ "operate" \in mix
  /\ \/ \E a \in Accounts, E \in SUBSET Entries, s \in Secrets :
          /\ catalog.account[a] = 0 /\ catalog.revision < MaxTarget
          /\ E \subseteq EntriesOf(a)
          /\ catalog' = [catalog EXCEPT !.revision = @ + 1, !.account[a] = 1,
                           !.secret = [e \in Entries |-> IF e \in E THEN s ELSE @[e]]]
     \/ \E e \in Entries, s \in Secrets \cup {None} :
          /\ catalog.account[e[1]] \in 1..MaxTarget - 1
          /\ s # catalog.secret[e]
          /\ catalog' = [catalog EXCEPT !.account[e[1]] = @ + 1, !.secret[e] = s]
  /\ UNCHANGED <<legacyVars, importer>>

-----------------------------------------------------------------------------
(* Preview and apply. *)

\* preview: the source first, then the selection and the target; the target is
\* read twice and must not have changed in between.
Preview(p) ==
  /\ "import" \in mix
  /\ proc[p].pc = "idle"
  /\ proc' = [proc EXCEPT ![p].pc = "planning", ![p].op = "import"]
  /\ importer' = [importer EXCEPT ![p].source = Source(file)]
  /\ UNCHANGED <<mix, sidecar, stores, lock, catalog>>

PlanImport(p) ==
  /\ proc[p].pc = "planning"
  /\ \/ /\ Bootstrap.db
        /\ proc' = [proc EXCEPT ![p].pc = "applying", ![p].expect = Bootstrap]
        /\ importer' = [importer EXCEPT ![p].target = catalog,
                          ![p].accounts = {e[1] : e \in {e \in Entries : importer[p].source[e] # None}}]
        /\ UNCHANGED lock
     \/ ~Bootstrap.db /\ End(p)
  /\ UNCHANGED <<mix, sidecar, stores, catalog>>

\* _assert_selected_target, _assert_source_snapshot, _assert_account_target
\* and the comparison of the catalog revision.
Current(p, a) ==
  /\ Bootstrap.revision = proc[p].expect.revision /\ Bootstrap.db
  /\ Source(file) = importer[p].source
  /\ catalog.account[a] = importer[p].target.account[a]
  /\ catalog.revision = importer[p].target.revision

Wanted(p, a) == {e \in EntriesOf(a) : importer[p].source[e] # None}

\* The plan of an account: "create", "resume_credentials" (for the roles it
\* misses) or "unchanged".
Missing(p, a) == {e \in Wanted(p, a) : importer[p].target.secret[e] = None}

Action(p, a) ==
  IF importer[p].target.account[a] = 0 THEN "create"
  ELSE IF Missing(p, a) # {} THEN "resume" ELSE "unchanged"

\* The credentials the next write of this account needs: resume writes one role
\* at a time, the others all of them.
Due(p, a) ==
  IF Action(p, a) = "resume" THEN {{CHOOSE e \in Missing(p, a) : TRUE}} ELSE {Wanted(p, a)}

\* resolve_legacy_secret for each role due; a credential that is not there
\* ends the import.
ResolveSecrets(p, a) ==
  /\ proc[p].pc = "applying" /\ a \in importer[p].accounts
  /\ proc[p].todo = {}
  /\ \E E \in Due(p, a) :
       \/ /\ Current(p, a)
          /\ Writable(p) \/ \A e \in E : file.creds[e] # Sentinel
          /\ \A e \in E : Resolved(file.creds)[e] # None
          /\ proc' = [proc EXCEPT ![p].todo = E]
          /\ importer' = [importer EXCEPT ![p].proven =
                            [e \in Entries |-> IF e \in E THEN Resolved(file.creds)[e] ELSE @[e]]]
          /\ UNCHANGED lock
       \/ /\ \/ ~Current(p, a)
             \/ \E e \in E : Resolved(file.creds)[e] = None
             \/ \E e \in E : file.creds[e] = Sentinel /\ ~Writable(p)
          /\ End(p)
  /\ UNCHANGED <<mix, sidecar, stores, catalog>>

\* The target after the import's own write: the catalog revision moves when an
\* account is created, the account's whenever a credential is set.
Saved(p, a, E, t) ==
  [t EXCEPT !.revision = IF Action(p, a) = "create" THEN @ + 1 ELSE @,
            !.account[a] = @ + 1,
            !.secret = [e \in Entries |-> IF e \in E THEN importer[p].proven[e] ELSE @[e]]]

\* accounts.create, or credentials.set for a missing role: both compare the
\* revision again in their own transaction.  A save that leaves something to
\* clean up keeps the credential and asks for attention.
SaveSecrets(p, a) ==
  LET E == proc[p].todo
      done == Action(p, a) = "create" \/ Missing(p, a) = E
  IN
  /\ proc[p].pc = "applying" /\ E # {} /\ E \subseteq EntriesOf(a)
  /\ Action(p, a) # "unchanged"
  /\ catalog.revision < MaxTarget /\ catalog.account[a] < MaxTarget
  /\ \/ /\ Current(p, a)
        /\ catalog' = Saved(p, a, E, catalog)
        /\ importer' = [importer EXCEPT ![p].target = Saved(p, a, E, @),
                          ![p].accounts = IF done THEN @ \ {a} ELSE @]
        /\ proc' = [proc EXCEPT ![p].todo = {}]
        /\ UNCHANGED lock
     \/ /\ Current(p, a) /\ "attention" \in mix
        /\ catalog' = Saved(p, a, E, catalog)
        /\ importer' = [importer EXCEPT ![p].target = Saved(p, a, E, @), ![p].attention = TRUE,
                          ![p].accounts = IF done THEN @ \ {a} ELSE @]
        /\ proc' = [proc EXCEPT ![p].todo = {}]
        /\ UNCHANGED lock
     \/ ~Current(p, a) /\ End(p) /\ UNCHANGED catalog
  /\ UNCHANGED <<mix, sidecar, stores>>

\* An unchanged account: its managed credentials must equal the legacy ones.
CompareSecrets(p, a) ==
  LET E == proc[p].todo IN
  /\ proc[p].pc = "applying" /\ E # {} /\ E \subseteq EntriesOf(a)
  /\ Action(p, a) = "unchanged"
  /\ \/ /\ Current(p, a)
        /\ \A e \in E : catalog.secret[e] = importer[p].proven[e]
        /\ importer' = [importer EXCEPT ![p].accounts = @ \ {a}]
        /\ proc' = [proc EXCEPT ![p].todo = {}]
        /\ UNCHANGED lock
     \/ /\ ~Current(p, a) \/ \E e \in E : catalog.secret[e] # importer[p].proven[e]
        /\ End(p)
  /\ UNCHANGED <<mix, sidecar, stores, catalog>>

-----------------------------------------------------------------------------
(* The cutover. *)

\* The end of apply: the selection is read anew, and managed mode is selected
\* only when nothing asks for attention.
BeginCutover(p) ==
  /\ proc[p].pc = "applying" /\ importer[p].accounts = {} /\ proc[p].todo = {}
  /\ \/ /\ ~importer[p].attention /\ Bootstrap.mode = "legacy"
        /\ proc' = [proc EXCEPT ![p].pc = "waiting", ![p].expect = Bootstrap]
        /\ UNCHANGED <<lock, importer>>
     \/ (importer[p].attention \/ Bootstrap.mode # "legacy") /\ End(p)
  /\ UNCHANGED <<mix, sidecar, stores, catalog>>

\* guarded_import_cutover under the file lock, before the catalog is fenced:
\* the selection, the source and every credential resolved are checked again.
(* Mutant: the source is compared, the credentials behind it are not. *)
ProvedBySource(p) ==
  /\ Bootstrap.revision = proc[p].expect.revision
  /\ Bootstrap.mode = "legacy" /\ Bootstrap.db
  /\ Source(file) = importer[p].source

Proved(p) ==
  /\ Bootstrap.revision = proc[p].expect.revision
  /\ Bootstrap.mode = "legacy" /\ Bootstrap.db
  /\ Source(file) = importer[p].source
  /\ \A e \in Entries : importer[p].proven[e] # None =>
       /\ Resolved(file.creds)[e] = importer[p].proven[e]
       /\ file.creds[e] = Sentinel => Writable(p)

ProveSecrets(p) ==
  /\ proc[p].pc = "proving"
  /\ \/ Proved(p) /\ Goto(p, "cutting") /\ UNCHANGED <<lock, importer>>
     \/ ~Proved(p) /\ End(p)
  /\ UNCHANGED <<mix, sidecar, stores, catalog>>

\* import_cutover_guard and the selection write inside it.
Guarded(p) ==
  /\ catalog.revision = importer[p].target.revision
  /\ catalog.account = importer[p].target.account
  /\ Source(file) = importer[p].source
  /\ Bootstrap.revision = proc[p].expect.revision

Cutover(p) ==
  /\ proc[p].pc = "cutting" /\ Bootstrap.revision < MaxRevision
  /\ \/ Guarded(p) /\ sidecar' = Replaced("managed", TRUE)
     \/ ~Guarded(p) /\ UNCHANGED sidecar
  /\ End(p)
  /\ UNCHANGED <<mix, stores, catalog>>

ImportStep(p) ==
  \/ Preview(p) \/ PlanImport(p)
  \/ \E a \in Accounts : ResolveSecrets(p, a) \/ SaveSecrets(p, a) \/ CompareSecrets(p, a)
  \/ BeginCutover(p) \/ ProveSecrets(p) \/ Cutover(p)

\* An import that crashes or waits too long for the lock forgets its plan.
LegacyMove(p) ==
  /\ LegacyStep(p)
  /\ UNCHANGED catalog
  /\ importer' = [importer EXCEPT ![p] = IF proc[p].op = "import" /\ proc'[p].op = "none"
                                         THEN NoImport ELSE @]

Next == Operate \/ \E p \in Procs : ImportStep(p) \/ LegacyMove(p)

Spec == Init /\ [][Next]_vars

-----------------------------------------------------------------------------
(* Properties. *)

Adopting(p) ==
  /\ proc[p].op = "import" /\ proc[p].pc = "cutting"
  /\ Bootstrap.mode = "legacy" /\ Bootstrap'.mode = "managed"

(***************************************************************************)
(* When an import selects managed mode, every credential it has resolved   *)
(* is, at that very moment, both the effective legacy credential and the   *)
(* managed one, although the legacy keyring, the file and the catalog have *)
(* all been open to others since it was read.                              *)
(***************************************************************************)
CutoverProved ==
  [][\A p \in Procs : Adopting(p) =>
       \A e \in Entries : importer[p].proven[e] # None =>
         catalog.secret[e] = importer[p].proven[e]
         /\ Resolved(file.creds)[e] = importer[p].proven[e]]_vars

(***************************************************************************)
(* Managed mode is never selected over legacy accounts nobody imported:    *)
(* an initialization selects it only while there are none, an import only  *)
(* when each of them is in the catalog with all its credentials.           *)
(***************************************************************************)
NoAccountLeftBehind ==
  [][\A p \in Procs :
       proc[p].op \in {"initialize", "import"} /\ lock = p
       /\ Bootstrap.mode = "legacy" /\ Bootstrap'.mode = "managed" =>
         \A e \in Entries : file.creds[e] # None => catalog.secret[e] # None]_vars

=============================================================================
