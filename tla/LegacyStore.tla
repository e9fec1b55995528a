---------------------------- MODULE LegacyStore ----------------------------
(***************************************************************************)
(* The two legacy stores of an installation, the TOML file (config.py) and *)
(* the account-name entries of the system keyring (keyring_store.py), and  *)
(* the selection that says whether they or the managed catalog are         *)
(* authority (bootstrap.py).  Several processes store, migrate, reset and  *)
(* select at once; a file lock serialises what they write, but what they   *)
(* check before they hold it may be stale when they do.  A step is one     *)
(* file replacement or one keyring call, or what is done between two.      *)
(*                                                                         *)
(* Abstractions.  Of an account only its credentials are kept, one for     *)
(* each role that has an endpoint; environment accounts and policies are   *)
(* left out.  The reads by which a load resolves its sentinels are one     *)
(* step.  A keyring is external: a write either takes effect, fails and    *)
(* keeps the old value, or fails, and the restoration after it fails too.  *)
(***************************************************************************)
EXTENDS Integers, FiniteSets

CONSTANTS
  Procs,         \* processes with the same configuration path
  Accounts,      \* legacy account names
  Entries,       \* keyring entries: the account and the role of a credential
  Secrets,       \* values of a credential
  None,          \* no credential
  Sentinel,      \* keyring_store.SENTINEL
  Modes,         \* credential_storage modes in use
  Mixes,         \* sets of operations and failures that occur together
  MaxRevision    \* bound on the bootstrap revision

FaultKinds == {"keyring",   \* a keyring call fails
               "torn",      \* a keyring write fails and loses the old value
               "write",     \* the replacement of the file fails
               "crash",     \* a process dies; the lock dies with it
               "attention"} \* saving a managed credential leaves something to clean up

Operations == {"freeze", "store", "migrate", "reset", "select", "initialize", "import", "operate"}

ASSUME LegacyAssumption ==
  /\ "free" \notin Procs
  /\ Entries \subseteq Accounts \X {"incoming", "outgoing"}
  /\ None \notin Secrets \cup {Sentinel, "plaintext"} /\ Sentinel \notin Secrets
  /\ Modes \subseteq {"auto", "keyring", "plaintext"}
  /\ Mixes \subseteq SUBSET (Operations \cup FaultKinds)
  /\ MaxRevision \in Nat \ {0}

VARIABLES
  mix,       \* the operations and the failures of this behaviour
  sidecar,   \* the bootstrap sidecar
  file,      \* the legacy TOML file
  ring,      \* the keyring entries of the service
  torn,      \* entries whose restoration failed: the code asks to re-add them
  lock,      \* holder of the bootstrap file lock
  proc       \* what each process remembers

stores == <<file, ring, torn>>
legacyVars == <<mix, sidecar, file, ring, torn, lock, proc>>

Free == "free"

Unset == [exists |-> FALSE, mode |-> "legacy", db |-> FALSE, revision |-> 0]

Selections ==
  {Unset} \cup
  {s \in [exists : {TRUE}, mode : {"legacy", "managed"}, db : BOOLEAN, revision : 0..MaxRevision] :
     s.mode = "managed" => s.db}

Credentials == [Entries -> Secrets \cup {None, Sentinel}]

File == [present : BOOLEAN, mode : Modes \cup {"auto"}, creds : Credentials, marker : Selections]

NoCredentials == [e \in Entries |-> None]

Absent == [present |-> FALSE, mode |-> "auto", creds |-> NoCredentials, marker |-> Unset]

\* What a process remembers.  "file" is a copy of the legacy file it has read,
\* "refs" the sentinels of that copy, "expect" the selection it has read.
Proc == [pc     : {"idle", "resolving", "loaded", "waiting", "loading", "probing", "pushing",
                   "purging", "unlinking", "cleaning", "reading", "choosing",
                   "planning", "applying", "proving", "cutting"},
         frozen : {"none", "legacy", "managed"},
         op     : Operations \cup {"none"},
         file   : File,
         refs   : SUBSET Entries,
         keyed  : BOOLEAN,
         failed : BOOLEAN,
         todo   : SUBSET Entries,
         expect : Selections,
         target : {"legacy", "managed"}]

Idle(frozen) == [pc |-> "idle", frozen |-> frozen, op |-> "none", file |-> Absent, refs |-> {},
                 keyed |-> FALSE, failed |-> FALSE, todo |-> {}, expect |-> Unset,
                 target |-> "legacy"]

LegacyTypeOK ==
  /\ mix \in Mixes
  /\ sidecar \in Selections
  /\ file \in File
  /\ ring \in [Entries -> Secrets \cup {None}]
  /\ torn \subseteq Entries
  /\ lock \in Procs \cup {Free}
  /\ proc \in [Procs -> Proc]

Sentinels(f) == {e \in Entries : f.creds[e] = Sentinel}

\* EmailServer.serialize_password: with the keyring, every credential of the
\* file is the sentinel.
Marked(creds) == [e \in Entries |-> IF creds[e] = None THEN None ELSE Sentinel]

\* The credentials a load gives: a sentinel becomes what the keyring holds.
Resolved(creds) == [e \in Entries |-> IF creds[e] = Sentinel THEN ring[e] ELSE creds[e]]

\* read_bootstrap: the sidecar, or the marker of a file from before sidecars.
Bootstrap == IF sidecar.exists THEN sidecar ELSE file.marker

\* effective_mode: what the process has frozen, or the durable selection.
Mode(p) == IF proc[p].frozen = "none" THEN Bootstrap.mode ELSE proc[p].frozen

Writable(p) == Mode(p) = "legacy"

Goto(p, pc) == proc' = [proc EXCEPT ![p].pc = pc]

\* The operation ends, by a return or by an exception, and releases the lock.
Finish(p) ==
  /\ proc' = [proc EXCEPT ![p] = Idle(proc[p].frozen)]
  /\ lock' = IF lock = p THEN Free ELSE lock

InitialFiles ==
  {Absent} \cup
  {f \in [present : {TRUE}, mode : Modes, creds : Credentials, marker : Selections] :
     /\ Sentinels(f) = {} \/ (f.creds = Marked(f.creds) /\ f.mode # "plaintext")
     /\ \A e1, e2 \in Entries : e1[1] = e2[1] => f.creds[e1] = f.creds[e2]
     /\ f.marker.revision <= 1}

LegacyInit ==
  /\ mix \in Mixes
  /\ file \in InitialFiles
  /\ sidecar \in {s \in Selections : s.revision = 1 \/ ~s.exists}
  /\ sidecar.exists => ~file.marker.exists
  /\ Bootstrap.mode = "legacy"
  /\ \E s \in Secrets : ring = [e \in Entries |-> IF e \in Sentinels(file) THEN s ELSE None]
  /\ torn = {}
  /\ lock = Free
  /\ proc = [p \in Procs |-> Idle("none")]

-----------------------------------------------------------------------------
(* Reading the legacy source.  No lock is held. *)

\* freeze_process_bootstrap: a server reads the selection once.
Freeze(p) ==
  /\ "freeze" \in mix
  /\ proc[p].pc = "idle" /\ proc[p].frozen = "none"
  /\ proc' = [proc EXCEPT ![p].frozen = Bootstrap.mode]
  /\ UNCHANGED <<mix, sidecar, stores, lock>>

\* Settings(): the file is parsed, then its sentinels are looked up.
ReadFile(p) ==
  /\ "store" \in mix
  /\ proc[p].pc = "idle" /\ Writable(p)
  /\ proc' = [proc EXCEPT ![p].pc = "resolving", ![p].op = "store",
                          ![p].file = [file EXCEPT !.marker = Unset]]
  /\ UNCHANGED <<mix, sidecar, stores, lock>>

Resolvable(p) ==
  /\ Sentinels(proc[p].file) # {} => Writable(p)
  /\ \A e \in Sentinels(proc[p].file) : ring[e] # None

ResolveSentinels(p) ==
  LET f == proc[p].file IN
  /\ proc[p].pc = "resolving"
  /\ \/ /\ Resolvable(p)
        /\ f.mode = "plaintext" => Sentinels(f) = {}
        /\ proc' = [proc EXCEPT ![p].pc = "loaded", ![p].file.creds = Resolved(@)]
        /\ UNCHANGED lock
     \/ /\ \/ ~Resolvable(p)
           \/ f.mode = "plaintext" /\ Sentinels(f) # {}
           \/ "keyring" \in mix /\ Sentinels(f) # {}
        /\ Finish(p)
  /\ UNCHANGED <<mix, sidecar, stores>>

-----------------------------------------------------------------------------
(* The lock, and what is done as soon as it is held. *)

\* Settings.store, after delete_email or add_email or both for one account:
\* rejected in managed mode before anything is touched.
Store(p) ==
  /\ proc[p].pc = "loaded"
  /\ \/ /\ Writable(p)
        /\ \E a \in Accounts, s \in Secrets \cup {None} :
             proc' = [proc EXCEPT ![p].pc = "waiting",
                        ![p].file.creds = [e \in Entries |-> IF e[1] = a THEN s ELSE @[e]]]
        /\ UNCHANGED lock
     \/ ~Writable(p) /\ Finish(p)
  /\ UNCHANGED <<mix, sidecar, stores>>

\* Settings.migrate_credentials up to the lock.
Migrate(p, m) ==
  /\ "migrate" \in mix /\ m \in Modes \ {"auto"}
  /\ proc[p].pc = "idle" /\ Writable(p)
  /\ proc' = [proc EXCEPT ![p].pc = "waiting", ![p].op = "migrate", ![p].file.mode = m]
  /\ UNCHANGED <<mix, sidecar, stores, lock>>

\* LegacyCompatibilityService.reset and delete_settings up to the lock.
Reset(p) ==
  /\ "reset" \in mix
  /\ proc[p].pc = "idle" /\ Writable(p) /\ file.present
  /\ proc' = [proc EXCEPT ![p].pc = "waiting", ![p].op = "reset"]
  /\ UNCHANGED <<mix, sidecar, stores, lock>>

\* CatalogService.select: the operator has reviewed the selection.
Select(p, m) ==
  /\ "select" \in mix
  /\ proc[p].pc = "idle"
  /\ m = "managed" => Bootstrap.db
  /\ proc' = [proc EXCEPT ![p].pc = "waiting", ![p].op = "select",
                          ![p].expect = Bootstrap, ![p].target = m]
  /\ UNCHANGED <<mix, sidecar, stores, lock>>

Source(f) == [e \in Entries |-> IF f.creds[e] \in Secrets THEN "plaintext" ELSE f.creds[e]]

\* CatalogService.initialize_default: the selection, the catalog, then the
\* source, whose content decides the mode.
Initialize(p) ==
  /\ "initialize" \in mix
  /\ proc[p].pc = "idle"
  /\ proc' = [proc EXCEPT ![p].pc = "reading", ![p].op = "initialize", ![p].expect = Bootstrap]
  /\ UNCHANGED <<mix, sidecar, stores, lock>>

ReadSource(p) ==
  LET mode == IF file.creds # NoCredentials /\ proc[p].expect.mode = "legacy"
              THEN "legacy" ELSE "managed"
  IN
  /\ proc[p].pc = "reading"
  /\ IF proc[p].expect.mode = mode /\ proc[p].expect.db
     THEN Finish(p)
     ELSE /\ proc' = [proc EXCEPT ![p].pc = "waiting", ![p].file = file, ![p].target = mode]
          /\ UNCHANGED lock
  /\ UNCHANGED <<mix, sidecar, stores>>

AfterLock == [store |-> "probing", migrate |-> "loading", reset |-> "unlinking",
              select |-> "choosing", initialize |-> "choosing", import |-> "proving"]

(* Mutant: a legacy write leaves the marker where it is. *)
MaterializedNothing == sidecar

\* _materialize_bootstrap_locked: before a legacy write the marker of an old
\* file is copied to the sidecar, since the write drops it from the file.
Materialized == IF sidecar.exists THEN sidecar ELSE file.marker

(* Mutant: nobody waits for the holder of the lock. *)
AcquireHeld(p) ==
  /\ proc[p].pc = "waiting"
  /\ lock' = p
  /\ sidecar' = IF proc[p].op \in {"store", "migrate", "reset"} THEN Materialized ELSE sidecar
  /\ Goto(p, AfterLock[proc[p].op])
  /\ UNCHANGED <<mix, stores>>

Acquire(p) ==
  /\ proc[p].pc = "waiting" /\ lock = Free
  /\ lock' = p
  /\ sidecar' = IF proc[p].op \in {"store", "migrate", "reset"} THEN Materialized ELSE sidecar
  /\ Goto(p, AfterLock[proc[p].op])
  /\ UNCHANGED <<mix, stores>>

\* Five seconds pass: "Bootstrap lock is busy".
Busy(p) ==
  /\ proc[p].pc = "waiting" /\ lock # Free
  /\ Finish(p)
  /\ UNCHANGED <<mix, sidecar, stores>>

-----------------------------------------------------------------------------
(* Storing and migrating, with the lock held. *)

\* load_for_migration: the stored file, whatever the environment says.
LoadForMigration(p) ==
  /\ proc[p].pc = "loading"
  /\ \/ /\ Sentinels(file) # {} => Writable(p)
        /\ \A e \in Sentinels(file) : ring[e] # None
        /\ proc' = [proc EXCEPT ![p].pc = "probing", ![p].refs = Sentinels(file),
                                ![p].file.creds = Resolved(file.creds)]
        /\ UNCHANGED lock
     \/ /\ \/ \E e \in Sentinels(file) : ring[e] = None
           \/ Sentinels(file) # {} /\ ("keyring" \in mix \/ ~Writable(p))
        /\ Finish(p)
  /\ UNCHANGED <<mix, sidecar, stores>>

\* The start of _store_locked: which representation the mode asks for.  Only
\* "auto" probes, and the probe refuses a managed mode.
Probe(p) ==
  LET f == proc[p].file
      Begin(keyed) ==
        /\ proc' = [proc EXCEPT ![p].pc = "pushing", ![p].keyed = keyed,
                                ![p].todo = IF keyed THEN {e \in Entries : f.creds[e] # None} ELSE {}]
        /\ UNCHANGED lock
  IN
  /\ proc[p].pc = "probing"
  /\ \/ f.mode = "keyring" /\ Begin(TRUE)
     \/ f.mode = "plaintext" /\ Begin(FALSE)
     \/ f.mode = "auto" /\ Writable(p) /\ \E usable \in BOOLEAN : Begin(usable)
     \/ f.mode = "auto" /\ ~Writable(p) /\ Finish(p)
  /\ UNCHANGED <<mix, sidecar, stores>>

\* keyring_store.set_secret: the old value is read first, so that it can be put
\* back when the write fails.  An equal value is not written again.
SetSecret(p, e, value, fails) ==
  \/ /\ Writable(p) /\ ~fails
     /\ ring' = [ring EXCEPT ![e] = value]
     /\ torn' = torn \ {e}
  \/ /\ fails
     /\ ~Writable(p) \/ "keyring" \in mix
     /\ UNCHANGED <<ring, torn>>
  \/ /\ fails
     /\ Writable(p) /\ "torn" \in mix /\ ring[e] \notin {None, value}
     /\ ring' = [ring EXCEPT ![e] = None]
     /\ torn' = torn \cup {e}

\* _store_secrets_to_keyring: a failure is kept and the loop goes on.
Push(p, e) ==
  /\ proc[p].pc = "pushing" /\ e \in proc[p].todo
  /\ \E fails \in BOOLEAN :
       /\ SetSecret(p, e, proc[p].file.creds[e], fails)
       /\ proc' = [proc EXCEPT ![p].todo = @ \ {e}, ![p].failed = @ \/ fails]
  /\ UNCHANGED <<mix, sidecar, file, lock>>

(* Mutant: one secret that did not reach the keyring is overlooked. *)
WrittenMarked(p) ==
  [present |-> TRUE, mode |-> proc[p].file.mode, marker |-> Unset,
   creds |-> IF proc[p].keyed THEN Marked(proc[p].file.creds) ELSE proc[p].file.creds]

\* What is written: sentinels only when every secret has reached the keyring.
Written(p) ==
  [present |-> TRUE, mode |-> proc[p].file.mode, marker |-> Unset,
   creds |-> IF proc[p].keyed /\ ~proc[p].failed THEN Marked(proc[p].file.creds)
             ELSE proc[p].file.creds]

Refused(p) == proc[p].failed /\ proc[p].file.mode = "keyring"

(* Mutant: the fence before the lock is thought enough. *)
WriteFileUnfenced(p) ==
  /\ proc[p].pc = "pushing" /\ proc[p].todo = {}
  /\ IF Refused(p) THEN UNCHANGED file ELSE file' = Written(p)
  /\ Finish(p)
  /\ UNCHANGED <<mix, sidecar, ring, torn>>

\* The rest of _store_locked, and _write_toml: the fence is checked again.
WriteFile(p) ==
  /\ proc[p].pc = "pushing" /\ proc[p].todo = {}
  /\ \/ /\ ~Refused(p) /\ Writable(p)
        /\ file' = Written(p)
        /\ IF proc[p].op = "migrate" /\ proc[p].file.mode = "plaintext"
           THEN /\ proc' = [proc EXCEPT ![p].pc = "purging", ![p].todo = proc[p].refs,
                                        ![p].refs = {}, ![p].file = Absent]
                /\ UNCHANGED lock
           ELSE Finish(p)
     \/ /\ Refused(p) \/ ~Writable(p) \/ "write" \in mix
        /\ Finish(p)
        /\ UNCHANGED file
  /\ UNCHANGED <<mix, sidecar, ring, torn>>

\* delete_secret and delete_secret_checked: no failure is an error.
DeleteSecret(e) ==
  \/ ring' = [ring EXCEPT ![e] = None]
  \/ "keyring" \in mix /\ UNCHANGED ring

\* _purge_loaded_keyring_references: the file that referred to the entry has
\* been replaced.
Purge(p, e) ==
  /\ proc[p].pc = "purging" /\ e \in proc[p].todo
  /\ proc' = [proc EXCEPT ![p].todo = @ \ {e}]
  /\ IF Writable(p) THEN DeleteSecret(e) ELSE UNCHANGED ring
  /\ UNCHANGED <<mix, sidecar, file, torn, lock>>

\* delete_settings, with the lock held: the fence is not checked again.
Unlink(p) ==
  /\ proc[p].pc = "unlinking"
  /\ \/ /\ file.present
        /\ file' = Absent
        /\ proc' = [proc EXCEPT ![p].pc = "cleaning",
                      ![p].todo = IF file.mode = "plaintext" THEN {}
                                  ELSE {e \in Entries : file.creds[e] # None}]
        /\ UNCHANGED lock
     \/ ~file.present /\ Finish(p) /\ UNCHANGED file
  /\ UNCHANGED <<mix, sidecar, ring, torn>>

\* _cleanup_keyring_entries_for_reset: best effort; a fence that has closed
\* ends it.
Clean(p, e) ==
  /\ proc[p].pc = "cleaning" /\ e \in proc[p].todo
  /\ \/ /\ Writable(p)
        /\ proc' = [proc EXCEPT ![p].todo = @ \ {e}]
        /\ DeleteSecret(e)
     \/ /\ ~Writable(p)
        /\ proc' = [proc EXCEPT ![p].todo = {}]
        /\ UNCHANGED ring
  /\ UNCHANGED <<mix, sidecar, file, torn, lock>>

Release(p) ==
  /\ proc[p].pc \in {"purging", "cleaning"} /\ proc[p].todo = {}
  /\ Finish(p)
  /\ UNCHANGED <<mix, sidecar, stores>>

-----------------------------------------------------------------------------
(* Changing the selection. *)

\* _write_bootstrap_locked: compare the revision, replace the sidecar.
Replaced(m, db) == [exists |-> TRUE, mode |-> m, db |-> db, revision |-> Bootstrap.revision + 1]

(* Mutant: an initialization does not look at the source again. *)
ChooseUnseen(p) ==
  /\ proc[p].pc = "choosing"
  /\ Bootstrap.revision < MaxRevision
  /\ IF Bootstrap.revision = proc[p].expect.revision
     THEN sidecar' = Replaced(proc[p].target, Bootstrap.db \/ proc[p].op = "initialize")
     ELSE UNCHANGED sidecar
  /\ Finish(p)
  /\ UNCHANGED <<mix, stores>>

Choose(p) ==
  LET db == Bootstrap.db \/ proc[p].op = "initialize" IN
  /\ proc[p].pc = "choosing"
  /\ Bootstrap.revision < MaxRevision
  /\ \/ /\ Bootstrap.revision = proc[p].expect.revision
        /\ proc[p].op = "initialize" => Source(file) = Source(proc[p].file)
        /\ proc[p].target = "managed" => db
        /\ sidecar' = Replaced(proc[p].target, db)
     \/ /\ \/ Bootstrap.revision # proc[p].expect.revision
           \/ proc[p].op = "initialize" /\ Source(file) # Source(proc[p].file)
        /\ UNCHANGED sidecar
  /\ Finish(p)
  /\ UNCHANGED <<mix, stores>>

\* The process dies and a new one takes its place.
Crash(p) ==
  /\ "crash" \in mix
  /\ proc[p] # Idle("none")
  /\ proc' = [proc EXCEPT ![p] = Idle("none")]
  /\ lock' = IF lock = p THEN Free ELSE lock
  /\ UNCHANGED <<mix, sidecar, stores>>

LegacyStep(p) ==
  \/ Freeze(p) \/ ReadFile(p) \/ ResolveSentinels(p) \/ Store(p)
  \/ \E m \in Modes : Migrate(p, m)
  \/ Reset(p)
  \/ \E m \in {"legacy", "managed"} : Select(p, m)
  \/ Initialize(p) \/ ReadSource(p)
  \/ Acquire(p) \/ Busy(p)
  \/ LoadForMigration(p) \/ Probe(p) \/ WriteFile(p) \/ Unlink(p) \/ Release(p)
  \/ \E e \in Entries : Push(p, e) \/ Purge(p, e) \/ Clean(p, e)
  \/ Choose(p) \/ Crash(p)

LegacyNext == \E p \in Procs : LegacyStep(p)

LegacySpec == LegacyInit /\ [][LegacyNext]_legacyVars

-----------------------------------------------------------------------------
(* Properties. *)

(***************************************************************************)
(* A sentinel in the file always finds its secret: the keyring is written  *)
(* before the file that refers to it and cleaned after the file that did,  *)
(* under one lock, whoever else stores, migrates, resets or crashes.  The  *)
(* exception is an entry the keyring lost while failing.                   *)
(***************************************************************************)
SentinelResolves == \A e \in Sentinels(file) \ torn : ring[e] # None

(***************************************************************************)
(* The selection changes only by a write of someone who has read exactly   *)
(* the selection replaced, and no legacy write loses it, not even one that *)
(* drops the marker of an old combined file.                               *)
(***************************************************************************)
SelectionReviewed ==
  [][Bootstrap' # Bootstrap =>
       /\ Bootstrap'.revision = Bootstrap.revision + 1
       /\ lock \in Procs
       /\ proc[lock].expect = Bootstrap]_legacyVars

(***************************************************************************)
(* Once managed mode is selected, a process that has not frozen legacy     *)
(* mode writes neither the file nor the keyring, even if it had passed the *)
(* fence before the selection changed and only then got the lock.          *)
(***************************************************************************)
StoresFenced ==
  [][(file' # file /\ file'.present) \/ ring' # ring =>
       Bootstrap.mode = "legacy" \/ \E p \in Procs : lock = p /\ proc[p].frozen = "legacy"]_legacyVars

(***************************************************************************)
(* Writing the migrated file changes no account's effective credential,    *)
(* though other processes store under the same names at the same time.     *)
(***************************************************************************)
MigrationKeepsSecrets ==
  [][\A p \in Procs :
       proc[p].op = "migrate" /\ file' # file /\ lock = p =>
         \A e \in Entries : Resolved(file'.creds)[e] = Resolved(file.creds)[e]]_legacyVars
=============================================================================
