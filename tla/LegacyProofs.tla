---------------------------- MODULE LegacyProofs ---------------------------
(***************************************************************************)
(* Theorems about the legacy stores and the import of their accounts, for  *)
(* any number of processes, accounts and secrets, and for any failure.     *)
(***************************************************************************)
EXTENDS LegacyImport, TLAPS

(* With the file lock held: what rewrites the stores, and what selects. *)
Working == {"loading", "probing", "pushing", "purging", "unlinking", "cleaning"}
Locked == Working \cup {"choosing", "proving", "cutting"}

Plain(creds) == \A e \in Entries : creds[e] # Sentinel

(* What the credentials of a file mean with the entries of a keyring. *)
Meaning(creds, r) == [e \in Entries |-> IF creds[e] = Sentinel THEN r[e] ELSE creds[e]]

(* Which operation a process is in; it has nothing to do when it begins. *)
PlaceOK(k) ==
  /\ k.op = "none" <=> k.pc = "idle"
  /\ k.pc \in {"resolving", "loaded"} => k.op = "store"
  /\ k.pc \in {"loading", "purging"} => k.op = "migrate"
  /\ k.pc \in {"probing", "pushing"} => k.op \in {"store", "migrate"}
  /\ k.pc \in {"unlinking", "cleaning"} => k.op = "reset"
  /\ k.pc = "reading" => k.op = "initialize"
  /\ k.pc = "choosing" => k.op \in {"select", "initialize"}
  /\ k.pc \in {"planning", "applying", "proving", "cutting"} => k.op = "import"
  /\ k.pc = "waiting" => k.op \in DOMAIN AfterLock
  /\ k.pc \in {"idle", "planning"} => k.todo = {}

(* A process that stores or migrates holds no sentinel.  While it pushes,  *)
(* every secret it has pushed is in the keyring r, and the accounts of a   *)
(* migration still mean what the file f says.  Before a process deletes    *)
(* secrets the file has stopped to refer to any.  A process that works on  *)
(* the file has put the marker of an old file in the sidecar s.            *)
StoringOK(k, f, r, s) ==
  /\ k.pc \in {"loaded", "probing", "pushing"} \/ (k.pc = "waiting" /\ k.op = "store") =>
       Plain(k.file.creds)
  /\ k.failed => k.pc \in {"pushing", "purging"}
  /\ k.pc \in {"probing", "pushing"} /\ k.op = "migrate" => k.file.creds = Meaning(f.creds, r)
  /\ k.pc = "pushing" =>
       /\ k.file.mode = "plaintext" => ~k.keyed
       /\ k.todo # {} => k.keyed
       /\ k.keyed =>
            /\ \A e \in k.todo : k.file.creds[e] # None
            /\ ~k.failed => \A e \in Entries \ k.todo :
                              k.file.creds[e] # None => r[e] = k.file.creds[e]
  /\ k.pc \in {"purging", "cleaning"} => Sentinels(f) = {}
  /\ k.pc \in Working => s.exists \/ ~f.marker.exists

Reviewing(k) ==
  \/ k.op \in {"select", "initialize"}
  \/ k.op = "import" /\ k.pc \in {"applying", "waiting", "proving", "cutting"}

(* A selection with the revision that was read is the one that was read,   *)
(* and an initialization that will select managed mode over legacy mode    *)
(* has found no account.                                                   *)
ReviewOK(k, b) ==
  /\ Reviewing(k) => /\ k.expect.revision <= b.revision
                     /\ k.expect.revision = b.revision => k.expect = b
  /\ k.op = "initialize" /\ k.pc \in {"waiting", "choosing"} /\ k.target = "managed"
     /\ k.expect.mode = "legacy" => k.file.creds = NoCredentials

(* An account of the catalog c with the revision the import i knows has    *)
(* the secrets it knows: those it has resolved, for every account it is    *)
(* done with.  When it is about to select, they are the legacy ones too.   *)
ImportOK(k, i, c, f, r) ==
  /\ k.op # "import" \/ k.pc = "planning" => \A e \in Entries : i.proven[e] = None
  /\ k.op = "import" /\ k.pc # "planning" =>
    /\ \A a \in Accounts : i.target.account[a] <= c.account[a]
    /\ \A e \in Entries : c.account[e[1]] = i.target.account[e[1]] =>
                            c.secret[e] = i.target.secret[e]
    /\ \A e \in k.todo : i.proven[e] # None
    /\ \A e \in Entries \ k.todo : i.proven[e] # None => i.target.secret[e] = i.proven[e]
    /\ \A e \in Entries : i.source[e] # None /\ e[1] \notin i.accounts => i.target.secret[e] # None
    /\ \A a \in Accounts : k.todo # {} /\ k.todo \subseteq EntriesOf(a) /\ i.target.account[a] = 0 =>
                             \A e \in EntriesOf(a) : i.source[e] # None => e \in k.todo
    /\ k.pc # "applying" => i.accounts = {} /\ k.todo = {}
    /\ k.pc = "cutting" => \A e \in Entries : i.proven[e] # None =>
                             Meaning(f.creds, r)[e] = i.proven[e]

ProcOK(p) ==
  /\ PlaceOK(proc[p])
  /\ proc[p].pc \in Locked => lock = p
  /\ StoringOK(proc[p], file, ring, sidecar)
  /\ ReviewOK(proc[p], Bootstrap)
  /\ ImportOK(proc[p], importer[p], catalog, file, ring)

Inv == TypeOK /\ SentinelResolves /\ \A p \in Procs : ProcOK(p)

-----------------------------------------------------------------------------
(* Types. *)

LEMMA Unselected == Unset \in Selections /\ \A s \in Selections : ~s.exists => s = Unset
BY LegacyAssumption DEF Unset, Selections

LEMMA SelectionFields ==
  ASSUME NEW s \in Selections
  PROVE  /\ s.exists \in BOOLEAN /\ s.mode \in {"legacy", "managed"} /\ s.db \in BOOLEAN
         /\ s.revision \in 0..MaxRevision /\ (s.mode = "managed" => s.db)
<1>1. CASE s = Unset BY <1>1, LegacyAssumption DEF Unset
<1>2. CASE s # Unset BY <1>2 DEF Selections
<1>3. QED BY <1>1, <1>2

LEMMA AbsentType == /\ Absent \in File /\ Sentinels(Absent) = {} /\ ~Absent.marker.exists
                    /\ NoCredentials \in Credentials /\ Plain(NoCredentials)
BY Unselected, LegacyAssumption
DEF Absent, File, Sentinels, NoCredentials, Credentials, Unset, Plain

LEMMA IdleType ==
  ASSUME NEW frozen \in {"none", "legacy", "managed"}
  PROVE  Idle(frozen) \in Proc
BY Unselected, AbsentType DEF Idle, Proc

LEMMA AtProc ==
  ASSUME Inv, NEW p \in Procs
  PROVE  /\ ProcOK(p) /\ proc[p] \in Proc /\ importer[p] \in Importer
         /\ file \in File /\ ring \in [Entries -> Secrets \cup {None}]
         /\ Bootstrap \in Selections /\ catalog \in Catalog
BY DEF Inv, TypeOK, LegacyTypeOK, Bootstrap, File

LEMMA ResolvedMeaning ==
  ASSUME NEW creds
  PROVE  Resolved(creds) = Meaning(creds, ring)
BY DEF Resolved, Meaning

LEMMA MeaningType ==
  ASSUME NEW creds \in Credentials, NEW r \in [Entries -> Secrets \cup {None}]
  PROVE  /\ Meaning(creds, r) \in [Entries -> Secrets \cup {None}]
         /\ Meaning(creds, r) \in Credentials
         /\ Plain(Meaning(creds, r))
BY LegacyAssumption DEF Meaning, Credentials, Plain

LEMMA EntryPairs == \A e \in Entries : e[1] \in Accounts
BY LegacyAssumption

-----------------------------------------------------------------------------
(* Steps of one process, and what the others keep. *)

(* Every change of an account of the catalog moves its revision. *)
CatalogGrows ==
  /\ \A a \in Accounts : catalog.account[a] <= catalog'.account[a]
  /\ \A e \in Entries : catalog'.account[e[1]] = catalog.account[e[1]] =>
                          catalog'.secret[e] = catalog.secret[e]

BootstrapGrows ==
  Bootstrap' = Bootstrap \/ Bootstrap'.revision = Bootstrap.revision + 1

(* Only the holder of the lock rewrites what is stored, or who just got it. *)
Exclusive(p) == UNCHANGED <<sidecar, file, ring>> \/ lock \in {p, Free}

LockMoves(p) ==
  \/ lock' = lock
  \/ lock = p /\ lock' = Free
  \/ lock = Free /\ lock' = p

(* What an import knows of the catalog stays true while others change it. *)
LEMMA ImportStays ==
  ASSUME NEW k \in Proc, NEW i \in Importer, ImportOK(k, i, catalog, file, ring),
         catalog \in Catalog, catalog' \in Catalog, CatalogGrows
  PROVE  ImportOK(k, i, catalog', file, ring)
<1>1. SUFFICES ASSUME k.op = "import", k.pc # "planning"
               PROVE  ImportOK(k, i, catalog', file, ring)
  BY DEF ImportOK
<1>2. \A a \in Accounts : /\ i.target.account[a] \in Nat /\ catalog.account[a] \in Nat
                          /\ catalog'.account[a] \in Nat
  BY ImportAssumption DEF Importer, Catalog
<1>3. \A a \in Accounts : i.target.account[a] <= catalog'.account[a]
  BY <1>1, <1>2 DEF ImportOK, CatalogGrows
<1>4. ASSUME NEW e \in Entries, catalog'.account[e[1]] = i.target.account[e[1]]
      PROVE  catalog'.secret[e] = i.target.secret[e]
  <2>1. catalog'.account[e[1]] = catalog.account[e[1]]
    BY <1>1, <1>2, <1>4, EntryPairs DEF ImportOK, CatalogGrows
  <2>2. QED BY <1>1, <1>4, <2>1 DEF ImportOK, CatalogGrows
<1>5. QED BY <1>1, <1>3, <1>4 DEF ImportOK

LEMMA OthersKeep ==
  ASSUME Inv, TypeOK', NEW p \in Procs, NEW q \in Procs, q # p,
         proc'[q] = proc[q], importer'[q] = importer[q],
         LockMoves(p), Exclusive(p), BootstrapGrows, CatalogGrows
  PROVE  ProcOK(q)'
<1> DEFINE k == proc[q]
           i == importer[q]
<1>1. /\ ProcOK(q) /\ k \in Proc /\ i \in Importer /\ Bootstrap \in Selections /\ catalog \in Catalog
  BY AtProc
<1>2. catalog' \in Catalog BY DEF TypeOK
<1>3. q # Free BY LegacyAssumption DEF Free
<1>4. k.pc \in Locked => lock' = q /\ UNCHANGED <<sidecar, file, ring>>
  BY <1>1, <1>3 DEF ProcOK, LockMoves, Exclusive
<1>5. StoringOK(k, file', ring', sidecar')
  <2>1. StoringOK(k, file, ring, sidecar) BY <1>1 DEF ProcOK
  <2>2. CASE k.pc \in Locked BY <1>4, <2>1, <2>2
  <2>3. CASE k.pc \notin Locked BY <2>1, <2>3 DEF StoringOK, Locked, Working
  <2>4. QED BY <2>2, <2>3
<1>6. ReviewOK(k, Bootstrap')
  <2>1. ReviewOK(k, Bootstrap) BY <1>1 DEF ProcOK
  <2>2. CASE Bootstrap' = Bootstrap BY <2>1, <2>2
  <2>3. CASE Bootstrap'.revision = Bootstrap.revision + 1
    <3>1. Bootstrap.revision \in Int /\ k.expect.revision \in Int
      BY <1>1, SelectionFields DEF Proc
    <3>2. QED BY <2>1, <2>3, <3>1 DEF ReviewOK
  <2>4. QED BY <2>2, <2>3 DEF BootstrapGrows
<1>7. ImportOK(k, i, catalog', file', ring')
  <2>1. ImportOK(k, i, catalog, file, ring) BY <1>1 DEF ProcOK
  <2>2. ImportOK(k, i, catalog', file, ring)
    BY <1>1, <1>2, <2>1, ImportStays
  <2>3. k.pc = "cutting" => file' = file /\ ring' = ring BY <1>4 DEF Locked
  <2>4. QED BY <2>2, <2>3 DEF ImportOK
<1>8. PlaceOK(k) BY <1>1 DEF ProcOK
<1> HIDE DEF k, i
<1>9. k = proc'[q] /\ i = importer'[q] BY DEF k, i
<1>10. QED BY <1>4, <1>5, <1>6, <1>7, <1>8, <1>9 DEF ProcOK

(* A step of one process is safe when it is safe for that process. *)
LEMMA StepSafe ==
  ASSUME Inv, NEW p \in Procs, NEW k \in Proc, NEW i \in Importer,
         proc' = [proc EXCEPT ![p] = k], importer' = [importer EXCEPT ![p] = i],
         TypeOK', SentinelResolves',
         LockMoves(p), Exclusive(p), BootstrapGrows, CatalogGrows,
         PlaceOK(k), k.pc \in Locked => lock' = p,
         StoringOK(k, file', ring', sidecar'),
         ReviewOK(k, Bootstrap'),
         ImportOK(k, i, catalog', file', ring')
  PROVE  Inv'
<1>1. \A q \in Procs : /\ proc'[q] = IF q = p THEN k ELSE proc[q]
                       /\ importer'[q] = IF q = p THEN i ELSE importer[q]
  BY DEF Inv, TypeOK, LegacyTypeOK
<1>2. ProcOK(p)' BY <1>1 DEF ProcOK
<1>3. ASSUME NEW q \in Procs, q # p PROVE ProcOK(q)' BY <1>1, <1>3, OthersKeep
<1>4. QED BY <1>2, <1>3 DEF Inv

(* A step that changes no store, and takes no lock. *)
Private(p, k, i) ==
  /\ proc' = [proc EXCEPT ![p] = k] /\ importer' = [importer EXCEPT ![p] = i]
  /\ UNCHANGED <<mix, sidecar, stores, catalog>>
  /\ lock' = lock \/ (lock = p /\ lock' = Free)

LEMMA CatalogStays ==
  ASSUME Inv, UNCHANGED catalog
  PROVE  CatalogGrows
<1>1. \A a \in Accounts : catalog.account[a] \in Int
  BY ImportAssumption DEF Inv, TypeOK, Catalog
<1>2. QED BY <1>1 DEF CatalogGrows

LEMMA PrivateSafe ==
  ASSUME Inv, NEW p \in Procs, NEW k \in Proc, NEW i \in Importer, Private(p, k, i),
         PlaceOK(k), k.pc \in Locked => lock' = p,
         StoringOK(k, file, ring, sidecar),
         ReviewOK(k, Bootstrap),
         ImportOK(k, i, catalog, file, ring)
  PROVE  Inv'
<1>1. UNCHANGED <<sidecar, file, ring, torn, catalog, mix>> /\ Bootstrap' = Bootstrap
  BY DEF Private, stores, Bootstrap
<1>2. proc' \in [Procs -> Proc] /\ importer' \in [Procs -> Importer]
  BY DEF Private, Inv, TypeOK, LegacyTypeOK
<1>3. TypeOK' BY <1>1, <1>2 DEF Private, Inv, TypeOK, LegacyTypeOK
<1>4. SentinelResolves' BY <1>1 DEF Inv, SentinelResolves, Sentinels
<1>5. LockMoves(p) /\ Exclusive(p) /\ BootstrapGrows
  BY <1>1 DEF Private, LockMoves, Exclusive, BootstrapGrows
<1>6. CatalogGrows BY <1>1, CatalogStays
<1>7. QED BY <1>1, <1>3, <1>4, <1>5, <1>6, StepSafe DEF Private

LEMMA EndsSafe ==
  ASSUME Inv, NEW p \in Procs, NEW frozen \in {"none", "legacy", "managed"},
         NEW i \in Importer, \A e \in Entries : i.proven[e] = None,
         Private(p, Idle(frozen), i)
  PROVE  Inv'
<1> DEFINE k == Idle(frozen)
<1>1. k \in Proc /\ k.pc = "idle" /\ k.op = "none" /\ ~k.failed /\ k.todo = {}
  BY IdleType DEF Idle
<1> HIDE DEF k
<1>2. /\ PlaceOK(k) /\ k.pc \notin Locked
      /\ StoringOK(k, file, ring, sidecar) /\ ReviewOK(k, Bootstrap)
      /\ ImportOK(k, i, catalog, file, ring)
  BY <1>1 DEF PlaceOK, Locked, Working, StoringOK, ReviewOK, Reviewing, ImportOK
<1>3. Private(p, k, i) BY DEF k
<1>4. QED BY <1>1, <1>2, <1>3, PrivateSafe

(* The plan of an import that a legacy step leaves behind. *)
PlanAfter(p) ==
  IF proc[p].op = "import" /\ proc'[p].op = "none" THEN NoImport ELSE importer[p]

LEMMA NoImportType == NoImport \in Importer /\ \A e \in Entries : NoImport.proven[e] = None
<1>1. NoTarget \in Catalog
  BY ImportAssumption DEF NoTarget, Catalog, NoCredentials
<1>2. QED BY <1>1 DEF NoImport, Importer, NoCredentials

LEMMA PlanAfterType ==
  ASSUME Inv, NEW p \in Procs, LegacyMove(p), proc'[p].op # "import"
  PROVE  PlanAfter(p) \in Importer /\ \A e \in Entries : PlanAfter(p).proven[e] = None
<1>1. ProcOK(p) /\ importer[p] \in Importer /\ DOMAIN proc = Procs
      /\ proc[p] \in Proc /\ DOMAIN proc[p] = DOMAIN Idle("none")
  BY AtProc DEF Inv, TypeOK, LegacyTypeOK, Proc, Idle
<1>2. CASE proc[p].op # "import" BY <1>1, <1>2 DEF PlanAfter, ProcOK, ImportOK
<1>3. CASE proc[p].op = "import"
  <2>1. proc[p].pc \notin {"idle", "resolving", "loaded", "reading", "choosing"} \cup Working
    BY <1>1, <1>3 DEF ProcOK, PlaceOK, Working
  <2>2. Acquire(p) \/ Busy(p) \/ Crash(p)
    BY <2>1 DEF LegacyMove, LegacyStep, Freeze, ReadFile, ResolveSentinels, Store, Migrate, Reset,
       Select, Initialize, ReadSource, LoadForMigration, Probe, WriteFile, Unlink, Release, Push,
       Purge, Clean, Choose, Working
  <2>3. ~Acquire(p) BY <1>1, <1>3 DEF Acquire, Goto, Proc
  <2>4. proc'[p].op = "none" BY <1>1, <2>2, <2>3 DEF Busy, Crash, Finish, Idle
  <2>5. QED BY <1>3, <2>4, NoImportType DEF PlanAfter
<1>4. QED BY <1>2, <1>3

LEMMA FinishSafe ==
  ASSUME Inv, NEW p \in Procs, NEW i \in Importer, Finish(p),
         \A e \in Entries : i.proven[e] = None,
         importer' = [importer EXCEPT ![p] = i],
         UNCHANGED <<mix, sidecar, stores, catalog>>
  PROVE  Inv'
<1> DEFINE frozen == proc[p].frozen
<1>1. frozen \in {"none", "legacy", "managed"} BY AtProc DEF Proc
<1>2. Private(p, Idle(frozen), i) BY DEF Private, Finish
<1> HIDE DEF frozen
<1>3. QED BY <1>1, <1>2, EndsSafe

(* The same for the process of a legacy store. *)
LEMMA LegacyEnds ==
  ASSUME Inv, NEW p \in Procs, LegacyMove(p), Finish(p),
         UNCHANGED <<mix, sidecar, stores>>
  PROVE  Inv'
<1>1. importer' = [importer EXCEPT ![p] = PlanAfter(p)] /\ UNCHANGED catalog
  BY DEF LegacyMove, PlanAfter
<1>2. proc'[p].op = "none" BY DEF Finish, Idle, Inv, TypeOK, LegacyTypeOK
<1>3. QED BY <1>1, <1>2, PlanAfterType, FinishSafe

LEMMA LegacyPrivate ==
  ASSUME Inv, NEW p \in Procs, LegacyMove(p), NEW k \in Proc,
         proc' = [proc EXCEPT ![p] = k], UNCHANGED <<mix, sidecar, stores, lock>>,
         PlaceOK(k), k.op # "import", k.pc \in Locked => lock = p,
         StoringOK(k, file, ring, sidecar), ReviewOK(k, Bootstrap)
  PROVE  Inv'
<1> DEFINE i == PlanAfter(p)
<1>1. i \in Importer /\ \A e \in Entries : i.proven[e] = None
  <2>1. proc'[p] = k BY DEF Inv, TypeOK, LegacyTypeOK
  <2>2. QED BY <2>1, PlanAfterType
<1>2. importer' = [importer EXCEPT ![p] = i] /\ UNCHANGED catalog
  BY DEF LegacyMove, PlanAfter
<1> HIDE DEF i
<1>3. Private(p, k, i) BY <1>2 DEF Private
<1>4. ImportOK(k, i, catalog, file, ring) BY <1>1 DEF ImportOK
<1>5. QED BY <1>1, <1>3, <1>4, PrivateSafe

-----------------------------------------------------------------------------
(* The legacy steps that change no store. *)

LEMMA FreezeSafe == \A p \in Procs : Inv /\ LegacyMove(p) /\ Freeze(p) => Inv'
<1> SUFFICES ASSUME NEW p \in Procs, Inv, LegacyMove(p), Freeze(p) PROVE Inv' OBVIOUS
<1> DEFINE k == [proc[p] EXCEPT !.frozen = Bootstrap.mode]
<1>1. /\ ProcOK(p) /\ proc[p] \in Proc /\ proc[p].pc = "idle"
      /\ Bootstrap.mode \in {"legacy", "managed"}
  BY AtProc, SelectionFields DEF Freeze
<1>2. k \in Proc /\ k.pc = "idle" /\ k.op = proc[p].op /\ ~k.failed /\ k.todo = proc[p].todo
  BY <1>1 DEF Proc, ProcOK, StoringOK
<1>3. proc' = [proc EXCEPT ![p] = k] /\ UNCHANGED <<mix, sidecar, stores, lock>> BY DEF Freeze
<1> HIDE DEF k
<1>4. PlaceOK(k) /\ k.op = "none" /\ k.pc \notin Locked
  BY <1>1, <1>2 DEF ProcOK, PlaceOK, Locked, Working
<1>5. StoringOK(k, file, ring, sidecar) /\ ReviewOK(k, Bootstrap)
  BY <1>2, <1>4 DEF StoringOK, ReviewOK, Reviewing, Locked, Working
<1>6. QED BY <1>2, <1>3, <1>4, <1>5, LegacyPrivate

LEMMA ReadFileSafe == \A p \in Procs : Inv /\ LegacyMove(p) /\ ReadFile(p) => Inv'
<1> SUFFICES ASSUME NEW p \in Procs, Inv, LegacyMove(p), ReadFile(p) PROVE Inv' OBVIOUS
<1> DEFINE copy == [file EXCEPT !.marker = Unset]
           k == [proc[p] EXCEPT !.pc = "resolving", !.op = "store", !.file = copy]
<1>1. proc[p] \in Proc /\ copy \in File /\ ~proc[p].failed
  BY AtProc, Unselected DEF File, ReadFile, ProcOK, StoringOK
<1>2. proc' = [proc EXCEPT ![p] = k] /\ UNCHANGED <<mix, sidecar, stores, lock>> BY DEF ReadFile
<1> HIDE DEF copy
<1>3. k \in Proc /\ k.pc = "resolving" /\ k.op = "store" /\ ~k.failed
  BY <1>1 DEF Proc, Operations
<1> HIDE DEF k
<1>4. /\ PlaceOK(k) /\ k.pc \notin Locked
      /\ StoringOK(k, file, ring, sidecar) /\ ReviewOK(k, Bootstrap)
  BY <1>3 DEF PlaceOK, StoringOK, ReviewOK, Reviewing, Locked, Working
<1>5. QED BY <1>2, <1>3, <1>4, LegacyPrivate

LEMMA ResolveSentinelsSafe == \A p \in Procs : Inv /\ LegacyMove(p) /\ ResolveSentinels(p) => Inv'
<1> SUFFICES ASSUME NEW p \in Procs, Inv, LegacyMove(p), ResolveSentinels(p) PROVE Inv' OBVIOUS
<1> DEFINE f == proc[p].file
           resolved == [f EXCEPT !.creds = Resolved(f.creds)]
           k == [proc[p] EXCEPT !.pc = "loaded", !.file = resolved]
<1>1. /\ ProcOK(p) /\ proc[p] \in Proc /\ f \in File /\ f.creds \in Credentials
      /\ proc[p].pc = "resolving" /\ proc[p].op = "store" /\ ~proc[p].failed
  BY AtProc DEF ResolveSentinels, Proc, File, ProcOK, PlaceOK, StoringOK
<1>2. UNCHANGED <<mix, sidecar, stores>> BY DEF ResolveSentinels
<1>3. CASE Finish(p) BY <1>2, <1>3, LegacyEnds
<1>4. CASE proc' = [proc EXCEPT ![p] = k] /\ UNCHANGED lock
  <2>1. Resolved(f.creds) \in Credentials /\ Plain(Resolved(f.creds))
    BY <1>1, AtProc, ResolvedMeaning, MeaningType
  <2>2. resolved \in File /\ Plain(resolved.creds) BY <1>1, <2>1 DEF File
  <2> HIDE DEF resolved
  <2>3. k \in Proc /\ k.pc = "loaded" /\ k.op = "store" /\ ~k.failed /\ Plain(k.file.creds)
    BY <1>1, <2>2 DEF Proc
  <2> HIDE DEF k
  <2>4. /\ PlaceOK(k) /\ k.pc \notin Locked
        /\ StoringOK(k, file, ring, sidecar) /\ ReviewOK(k, Bootstrap)
    BY <2>3 DEF PlaceOK, StoringOK, ReviewOK, Reviewing, Locked, Working
  <2>5. QED BY <1>2, <1>4, <2>3, <2>4, LegacyPrivate
<1>5. Finish(p) \/ (proc' = [proc EXCEPT ![p] = k] /\ UNCHANGED lock)
  BY <1>1 DEF ResolveSentinels, Inv, TypeOK, LegacyTypeOK, Proc, File
<1>6. QED BY <1>3, <1>4, <1>5

(* What a store, a migration and a reset need when they wait for the lock. *)
LEMMA WaitsSafe ==
  ASSUME Inv, NEW p \in Procs, LegacyMove(p), NEW k \in Proc,
         proc' = [proc EXCEPT ![p] = k], UNCHANGED <<mix, sidecar, stores, lock>>,
         k.pc = "waiting", k.op \in {"store", "migrate", "reset"}, ~k.failed,
         k.op = "store" => Plain(k.file.creds)
  PROVE  Inv'
<1>1. /\ PlaceOK(k) /\ k.pc \notin Locked /\ k.op # "import"
      /\ StoringOK(k, file, ring, sidecar) /\ ReviewOK(k, Bootstrap)
  BY DEF PlaceOK, StoringOK, ReviewOK, Reviewing, Locked, Working, AfterLock
<1>2. QED BY <1>1, LegacyPrivate

LEMMA StoreSafe == \A p \in Procs : Inv /\ LegacyMove(p) /\ Store(p) => Inv'
<1> SUFFICES ASSUME NEW p \in Procs, Inv, LegacyMove(p), Store(p) PROVE Inv' OBVIOUS
<1>1. /\ ProcOK(p) /\ proc[p] \in Proc /\ proc[p].file \in File
      /\ proc[p].pc = "loaded" /\ proc[p].op = "store" /\ ~proc[p].failed
  BY AtProc DEF Store, Proc, ProcOK, PlaceOK, StoringOK
<1>2. UNCHANGED <<mix, sidecar, stores>> BY DEF Store
<1>3. CASE Finish(p) BY <1>2, <1>3, LegacyEnds
<1>4. CASE ~Finish(p)
  <2>1. PICK a \in Accounts, s \in Secrets \cup {None} :
          proc' = [proc EXCEPT ![p].pc = "waiting",
                     ![p].file.creds = [e \in Entries |-> IF e[1] = a THEN s ELSE @[e]]]
    BY <1>4 DEF Store
  <2> DEFINE f == proc[p].file
             creds == [e \in Entries |-> IF e[1] = a THEN s ELSE f.creds[e]]
             stored == [f EXCEPT !.creds = creds]
             k == [proc[p] EXCEPT !.pc = "waiting", !.file = stored]
  <2>2. proc' = [proc EXCEPT ![p] = k] /\ UNCHANGED lock
    BY <1>1, <1>4, <2>1 DEF Store, Inv, TypeOK, LegacyTypeOK, Proc, File
  <2>3. creds \in Credentials /\ Plain(creds)
    BY <1>1, LegacyAssumption DEF ProcOK, StoringOK, Plain, File, Credentials
  <2> HIDE DEF creds
  <2>4. stored \in File /\ stored.creds = creds BY <1>1, <2>3 DEF File
  <2> HIDE DEF stored
  <2>5. k \in Proc /\ k.pc = "waiting" /\ k.op = "store" /\ k.failed = proc[p].failed
        /\ k.file = stored
    BY <1>1, <2>4 DEF Proc
  <2> HIDE DEF k
  <2>6. QED BY <1>1, <1>2, <2>2, <2>3, <2>4, <2>5, WaitsSafe
<1>5. QED BY <1>3, <1>4

LEMMA MigrateSafe ==
  \A p \in Procs, m \in Modes : Inv /\ LegacyMove(p) /\ Migrate(p, m) => Inv'
<1> SUFFICES ASSUME NEW p \in Procs, NEW m \in Modes, Inv, LegacyMove(p), Migrate(p, m) PROVE Inv'
  OBVIOUS
<1> DEFINE asked == [proc[p].file EXCEPT !.mode = m]
           k == [proc[p] EXCEPT !.pc = "waiting", !.op = "migrate", !.file = asked]
<1>1. ProcOK(p) /\ proc[p] \in Proc /\ proc[p].file \in File /\ ~proc[p].failed
  BY AtProc DEF Migrate, Proc, ProcOK, StoringOK
<1>2. proc' = [proc EXCEPT ![p] = k] /\ UNCHANGED <<mix, sidecar, stores, lock>>
  BY <1>1 DEF Migrate, Inv, TypeOK, LegacyTypeOK, Proc, File
<1>3. asked \in File BY <1>1 DEF File
<1> HIDE DEF asked
<1>4. k \in Proc /\ k.pc = "waiting" /\ k.op = "migrate" /\ ~k.failed
  BY <1>1, <1>3 DEF Proc, Operations
<1> HIDE DEF k
<1>5. QED BY <1>2, <1>4, WaitsSafe

LEMMA ResetSafe == \A p \in Procs : Inv /\ LegacyMove(p) /\ Reset(p) => Inv'
<1> SUFFICES ASSUME NEW p \in Procs, Inv, LegacyMove(p), Reset(p) PROVE Inv' OBVIOUS
<1> DEFINE k == [proc[p] EXCEPT !.pc = "waiting", !.op = "reset"]
<1>1. ProcOK(p) /\ proc[p] \in Proc /\ ~proc[p].failed
  BY AtProc DEF Reset, ProcOK, StoringOK
<1>2. proc' = [proc EXCEPT ![p] = k] /\ UNCHANGED <<mix, sidecar, stores, lock>> BY DEF Reset
<1>3. k \in Proc /\ k.pc = "waiting" /\ k.op = "reset" /\ ~k.failed
  BY <1>1 DEF Proc, Operations
<1> HIDE DEF k
<1>4. QED BY <1>2, <1>3, WaitsSafe

LEMMA SelectSafe ==
  \A p \in Procs, m \in {"legacy", "managed"} : Inv /\ LegacyMove(p) /\ Select(p, m) => Inv'
<1> SUFFICES ASSUME NEW p \in Procs, NEW m \in {"legacy", "managed"},
                    Inv, LegacyMove(p), Select(p, m)
             PROVE  Inv'
  OBVIOUS
<1> DEFINE k == [proc[p] EXCEPT !.pc = "waiting", !.op = "select", !.expect = Bootstrap, !.target = m]
<1>1. /\ ProcOK(p) /\ proc[p] \in Proc /\ ~proc[p].failed
      /\ Bootstrap \in Selections /\ Bootstrap.revision \in Nat
  BY AtProc, SelectionFields DEF Select, ProcOK, StoringOK
<1>2. proc' = [proc EXCEPT ![p] = k] /\ UNCHANGED <<mix, sidecar, stores, lock>> BY DEF Select
<1>3. k \in Proc /\ k.pc = "waiting" /\ k.op = "select" /\ ~k.failed /\ k.expect = Bootstrap
  BY <1>1 DEF Proc, Operations
<1> HIDE DEF k
<1>4. /\ PlaceOK(k) /\ k.pc \notin Locked
      /\ StoringOK(k, file, ring, sidecar) /\ ReviewOK(k, Bootstrap)
  BY <1>1, <1>3 DEF PlaceOK, StoringOK, ReviewOK, Reviewing, Locked, Working, AfterLock
<1>5. QED BY <1>2, <1>3, <1>4, LegacyPrivate

LEMMA InitializeSafe == \A p \in Procs : Inv /\ LegacyMove(p) /\ Initialize(p) => Inv'
<1> SUFFICES ASSUME NEW p \in Procs, Inv, LegacyMove(p), Initialize(p) PROVE Inv' OBVIOUS
<1> DEFINE k == [proc[p] EXCEPT !.pc = "reading", !.op = "initialize", !.expect = Bootstrap]
<1>1. /\ proc[p] \in Proc /\ ~proc[p].failed
      /\ Bootstrap \in Selections /\ Bootstrap.revision \in Nat
  BY AtProc, SelectionFields DEF Initialize, ProcOK, StoringOK
<1>2. proc' = [proc EXCEPT ![p] = k] /\ UNCHANGED <<mix, sidecar, stores, lock>> BY DEF Initialize
<1>3. k \in Proc /\ k.pc = "reading" /\ k.op = "initialize" /\ ~k.failed /\ k.expect = Bootstrap
  BY <1>1 DEF Proc, Operations
<1> HIDE DEF k
<1>4. /\ PlaceOK(k) /\ k.pc \notin Locked
      /\ StoringOK(k, file, ring, sidecar) /\ ReviewOK(k, Bootstrap)
  BY <1>1, <1>3 DEF PlaceOK, StoringOK, ReviewOK, Reviewing, Locked, Working
<1>5. QED BY <1>2, <1>3, <1>4, LegacyPrivate

LEMMA ReadSourceSafe == \A p \in Procs : Inv /\ LegacyMove(p) /\ ReadSource(p) => Inv'
<1> SUFFICES ASSUME NEW p \in Procs, Inv, LegacyMove(p), ReadSource(p) PROVE Inv' OBVIOUS
<1> DEFINE mode == IF file.creds # NoCredentials /\ proc[p].expect.mode = "legacy"
                   THEN "legacy" ELSE "managed"
           k == [proc[p] EXCEPT !.pc = "waiting", !.file = file, !.target = mode]
<1>1. /\ ProcOK(p) /\ proc[p] \in Proc /\ file \in File /\ ~proc[p].failed
      /\ proc[p].pc = "reading" /\ proc[p].op = "initialize"
  BY AtProc DEF ReadSource, ProcOK, PlaceOK, StoringOK
<1>2. UNCHANGED <<mix, sidecar, stores>> BY DEF ReadSource
<1>3. CASE Finish(p) BY <1>2, <1>3, LegacyEnds
<1>4. CASE ~Finish(p)
  <2>1. proc' = [proc EXCEPT ![p] = k] /\ UNCHANGED lock BY <1>4 DEF ReadSource
  <2>2. mode \in {"legacy", "managed"}
        /\ (mode = "managed" /\ proc[p].expect.mode = "legacy" => file.creds = NoCredentials)
    OBVIOUS
  <2> HIDE DEF mode
  <2>3. /\ k \in Proc /\ k.pc = "waiting" /\ k.op = "initialize" /\ k.failed = proc[p].failed
        /\ k.file = file /\ k.target = mode /\ k.expect = proc[p].expect
    BY <1>1, <2>2 DEF Proc
  <2> HIDE DEF k
  <2>4. /\ PlaceOK(k) /\ k.pc \notin Locked /\ StoringOK(k, file, ring, sidecar)
    BY <1>1, <2>3 DEF PlaceOK, StoringOK, Locked, Working, AfterLock
  <2>5. ReviewOK(k, Bootstrap)
    BY <1>1, <2>2, <2>3 DEF ProcOK, ReviewOK, Reviewing
  <2>6. QED BY <1>2, <2>1, <2>3, <2>4, <2>5, LegacyPrivate
<1>5. QED BY <1>3, <1>4

LEMMA BusySafe == \A p \in Procs : Inv /\ LegacyMove(p) /\ Busy(p) => Inv'
BY LegacyEnds DEF Busy

LEMMA ReleaseSafe == \A p \in Procs : Inv /\ LegacyMove(p) /\ Release(p) => Inv'
BY LegacyEnds DEF Release

LEMMA CrashSafe == \A p \in Procs : Inv /\ LegacyMove(p) /\ Crash(p) => Inv'
<1> SUFFICES ASSUME NEW p \in Procs, Inv, LegacyMove(p), Crash(p) PROVE Inv' OBVIOUS
<1>1. importer' = [importer EXCEPT ![p] = PlanAfter(p)] /\ UNCHANGED catalog
  BY DEF LegacyMove, PlanAfter
<1>2. Private(p, Idle("none"), PlanAfter(p)) BY <1>1 DEF Private, Crash
<1>3. proc'[p].op = "none" BY DEF Crash, Idle, Inv, TypeOK, LegacyTypeOK
<1>4. QED BY <1>2, <1>3, PlanAfterType, EndsSafe

(* The copy a migration takes under the lock means what the file says. *)
LEMMA LoadForMigrationSafe == \A p \in Procs : Inv /\ LegacyMove(p) /\ LoadForMigration(p) => Inv'
<1> SUFFICES ASSUME NEW p \in Procs, Inv, LegacyMove(p), LoadForMigration(p) PROVE Inv' OBVIOUS
<1> DEFINE resolved == Resolved(file.creds)
           copy == [proc[p].file EXCEPT !.creds = resolved]
           k == [proc[p] EXCEPT !.pc = "probing", !.refs = Sentinels(file), !.file = copy]
<1>1. /\ ProcOK(p) /\ proc[p] \in Proc /\ proc[p].file \in File /\ ~proc[p].failed
      /\ file.creds \in Credentials /\ ring \in [Entries -> Secrets \cup {None}]
      /\ proc[p].pc = "loading" /\ proc[p].op = "migrate"
      /\ lock = p /\ (sidecar.exists \/ ~file.marker.exists)
  BY AtProc DEF LoadForMigration, ProcOK, PlaceOK, StoringOK, Locked, Working, Proc, File
<1>2. UNCHANGED <<mix, sidecar, stores>> BY DEF LoadForMigration
<1>3. CASE Finish(p) BY <1>2, <1>3, LegacyEnds
<1>4. CASE ~Finish(p)
  <2>1. proc' = [proc EXCEPT ![p] = k] /\ UNCHANGED lock
    BY <1>1, <1>4 DEF LoadForMigration, Inv, TypeOK, LegacyTypeOK, Proc, File
  <2>2. resolved = Meaning(file.creds, ring) /\ resolved \in Credentials /\ Plain(resolved)
    BY <1>1, ResolvedMeaning, MeaningType
  <2> HIDE DEF resolved
  <2>3. copy \in File /\ copy.creds = resolved BY <1>1, <2>2 DEF File
  <2> HIDE DEF copy
  <2>4. /\ k \in Proc /\ k.pc = "probing" /\ k.op = "migrate" /\ ~k.failed /\ k.file = copy
    BY <1>1, <2>3 DEF Proc, Sentinels
  <2> HIDE DEF k
  <2>5. /\ PlaceOK(k) /\ StoringOK(k, file, ring, sidecar) /\ ReviewOK(k, Bootstrap)
    BY <1>1, <2>2, <2>3, <2>4 DEF PlaceOK, StoringOK, ReviewOK, Reviewing
  <2>6. QED BY <1>1, <1>2, <2>1, <2>4, <2>5, LegacyPrivate
<1>5. QED BY <1>3, <1>4

LEMMA ProbeSafe == \A p \in Procs : Inv /\ LegacyMove(p) /\ Probe(p) => Inv'
<1> SUFFICES ASSUME NEW p \in Procs, Inv, LegacyMove(p), Probe(p) PROVE Inv' OBVIOUS
<1> DEFINE f == proc[p].file
<1>1. /\ ProcOK(p) /\ proc[p] \in Proc /\ f \in File /\ ~proc[p].failed
      /\ proc[p].pc = "probing" /\ proc[p].op \in {"store", "migrate"} /\ Plain(f.creds)
      /\ proc[p].op = "migrate" => f.creds = Meaning(file.creds, ring)
      /\ lock = p /\ (sidecar.exists \/ ~file.marker.exists)
  BY AtProc DEF Probe, ProcOK, PlaceOK, StoringOK, Locked, Working, Proc
<1>2. UNCHANGED <<mix, sidecar, stores>> BY DEF Probe
<1>3. CASE Finish(p) BY <1>2, <1>3, LegacyEnds
<1>4. CASE ~Finish(p)
  <2>1. PICK keyed \in BOOLEAN :
          /\ f.mode = "plaintext" => ~keyed
          /\ proc' = [proc EXCEPT ![p].pc = "pushing", ![p].keyed = keyed,
                        ![p].todo = IF keyed THEN {e \in Entries : f.creds[e] # None} ELSE {}]
          /\ UNCHANGED lock
    BY <1>4 DEF Probe
  <2> DEFINE todo == IF keyed THEN {e \in Entries : f.creds[e] # None} ELSE {}
             k == [proc[p] EXCEPT !.pc = "pushing", !.keyed = keyed, !.todo = todo]
  <2>2. proc' = [proc EXCEPT ![p] = k] BY <1>1, <2>1
  <2>3. /\ todo \subseteq Entries
        /\ keyed => \A e \in Entries : e \in todo <=> f.creds[e] # None
        /\ todo # {} => keyed
    OBVIOUS
  <2> HIDE DEF todo
  <2>4. /\ k \in Proc /\ k.pc = "pushing" /\ k.op = proc[p].op /\ k.file = f /\ k.todo = todo
        /\ k.keyed = keyed
    BY <1>1, <2>3 DEF Proc
  <2> HIDE DEF k
  <2>5. PlaceOK(k) /\ StoringOK(k, file, ring, sidecar) /\ ReviewOK(k, Bootstrap)
    BY <1>1, <2>1, <2>3, <2>4 DEF PlaceOK, StoringOK, ReviewOK, Reviewing
  <2>6. QED BY <1>1, <1>2, <2>1, <2>2, <2>4, <2>5, LegacyPrivate
<1>5. QED BY <1>3, <1>4

-----------------------------------------------------------------------------
(* The legacy steps that take the lock or write. *)

LEMMA AcquireSafe == \A p \in Procs : Inv /\ LegacyMove(p) /\ Acquire(p) => Inv'
<1> SUFFICES ASSUME NEW p \in Procs, Inv, LegacyMove(p), Acquire(p) PROVE Inv' OBVIOUS
<1> DEFINE j == proc[p]
           k == [j EXCEPT !.pc = AfterLock[j.op]]
           i == importer[p]
<1>1. /\ ProcOK(p) /\ j \in Proc /\ i \in Importer /\ j.pc = "waiting" /\ j.op \in DOMAIN AfterLock
      /\ Bootstrap \in Selections /\ file.marker \in Selections /\ sidecar \in Selections
  BY AtProc DEF Acquire, ProcOK, PlaceOK, File, Inv, TypeOK, LegacyTypeOK
<1>2. /\ j.op \in {"store", "migrate", "reset", "select", "initialize", "import"}
      /\ AfterLock[j.op] \in Locked /\ AfterLock[j.op] \in {"probing", "loading", "unlinking",
                                                          "choosing", "proving"}
  BY <1>1 DEF AfterLock, Locked, Working
<1>3. /\ k \in Proc /\ k.op = j.op /\ k.pc = AfterLock[j.op] /\ k.failed = j.failed
      /\ k.file = j.file /\ k.expect = j.expect /\ k.target = j.target /\ k.todo = j.todo
  BY <1>1, <1>2 DEF Proc
<1>4. /\ proc' = [proc EXCEPT ![p] = k] /\ UNCHANGED <<mix, file, ring, torn, catalog>>
      /\ lock = Free /\ lock' = p
      /\ sidecar' = IF j.op \in {"store", "migrate", "reset"} THEN Materialized ELSE sidecar
  BY DEF Acquire, Goto, LegacyMove, stores
<1> HIDE DEF k
<1>5. importer' = [importer EXCEPT ![p] = i]
  <2>1. proc'[p] = k BY <1>4 DEF Inv, TypeOK, LegacyTypeOK
  <2>2. QED BY <1>2, <1>3, <2>1 DEF LegacyMove
<1> HIDE DEF i
<1>6. /\ sidecar' \in Selections /\ Bootstrap' = Bootstrap
      /\ k.pc \in Working => sidecar'.exists \/ ~file.marker.exists
  BY <1>1, <1>2, <1>3, <1>4, Unselected DEF Materialized, Bootstrap, Working, AfterLock
<1>7. TypeOK'
  <2>1. proc' \in [Procs -> Proc] /\ importer' \in [Procs -> Importer]
    BY <1>1, <1>3, <1>4, <1>5 DEF Inv, TypeOK, LegacyTypeOK
  <2>2. QED BY <1>4, <1>6, <2>1 DEF Inv, TypeOK, LegacyTypeOK
<1>8. SentinelResolves' BY <1>4 DEF Inv, SentinelResolves, Sentinels
<1>9. LockMoves(p) /\ Exclusive(p) /\ BootstrapGrows
  BY <1>4, <1>6 DEF LockMoves, Exclusive, BootstrapGrows
<1>10. CatalogGrows BY <1>4, CatalogStays
<1>11. PlaceOK(k) BY <1>2, <1>3 DEF PlaceOK, AfterLock
<1>12. StoringOK(k, file', ring', sidecar')
  BY <1>1, <1>2, <1>3, <1>6, <1>4 DEF ProcOK, StoringOK, AfterLock, Working
<1>13. ReviewOK(k, Bootstrap')
  BY <1>1, <1>2, <1>3, <1>6 DEF ProcOK, ReviewOK, Reviewing, AfterLock
<1>14. ImportOK(k, i, catalog', file', ring')
  BY <1>1, <1>2, <1>3, <1>4 DEF ProcOK, ImportOK, AfterLock, i
<1>15. QED
  BY <1>1, <1>2, <1>3, <1>4, <1>5, <1>7, <1>8, <1>9, <1>10, <1>11, <1>12, <1>13, <1>14, StepSafe

(* What the holder of the lock may do to the file and the keyring. *)
LEMMA HolderSafe ==
  ASSUME Inv, NEW p \in Procs, LegacyMove(p), lock = p, NEW k \in Proc,
         proc' = [proc EXCEPT ![p] = k], UNCHANGED <<mix, sidecar>>,
         file' \in File, ring' \in [Entries -> Secrets \cup {None}], torn' \subseteq Entries,
         lock' \in {p, Free}, Bootstrap' = Bootstrap, SentinelResolves',
         PlaceOK(k), k.op # "import", k.pc \in Locked => lock' = p,
         StoringOK(k, file', ring', sidecar'), k.op \notin {"select", "initialize"}
  PROVE  Inv'
<1> DEFINE i == PlanAfter(p)
<1>1. i \in Importer /\ \A e \in Entries : i.proven[e] = None
  <2>1. proc'[p] = k BY DEF Inv, TypeOK, LegacyTypeOK
  <2>2. QED BY <2>1, PlanAfterType
<1>2. importer' = [importer EXCEPT ![p] = i] /\ UNCHANGED catalog
  BY DEF LegacyMove, PlanAfter
<1> HIDE DEF i
<1>3. proc' \in [Procs -> Proc] /\ importer' \in [Procs -> Importer]
  BY <1>1, <1>2 DEF Inv, TypeOK, LegacyTypeOK
<1>4. TypeOK' BY <1>2, <1>3 DEF Inv, TypeOK, LegacyTypeOK
<1>5. LockMoves(p) /\ Exclusive(p) /\ BootstrapGrows
  BY DEF LockMoves, Exclusive, BootstrapGrows
<1>6. CatalogGrows BY <1>2, CatalogStays
<1>7. ReviewOK(k, Bootstrap') /\ ImportOK(k, i, catalog', file', ring')
  BY <1>1 DEF ReviewOK, Reviewing, ImportOK
<1>8. QED BY <1>1, <1>2, <1>4, <1>5, <1>6, <1>7, StepSafe

(* The same when that was the last step of the operation. *)
LEMMA HolderEnds ==
  ASSUME Inv, NEW p \in Procs, LegacyMove(p), lock = p, Finish(p), UNCHANGED <<mix, sidecar>>,
         file' \in File, ring' \in [Entries -> Secrets \cup {None}], torn' \subseteq Entries,
         Bootstrap' = Bootstrap, SentinelResolves'
  PROVE  Inv'
<1> DEFINE k == Idle(proc[p].frozen)
<1>1. k \in Proc /\ k.pc = "idle" /\ k.op = "none" /\ ~k.failed /\ k.todo = {}
  BY AtProc, IdleType DEF Idle, Proc
<1>2. proc' = [proc EXCEPT ![p] = k] /\ lock' \in {p, Free} BY DEF Finish
<1> HIDE DEF k
<1>3. PlaceOK(k) /\ k.pc \notin Locked /\ StoringOK(k, file', ring', sidecar')
  BY <1>1 DEF PlaceOK, Locked, Working, StoringOK
<1>4. QED BY <1>1, <1>2, <1>3, HolderSafe

LEMMA PushSafe == \A p \in Procs, e \in Entries : Inv /\ LegacyMove(p) /\ Push(p, e) => Inv'
<1> SUFFICES ASSUME NEW p \in Procs, NEW e \in Entries, Inv, LegacyMove(p), Push(p, e) PROVE Inv'
  OBVIOUS
<1> DEFINE j == proc[p]
           f == j.file
<1>1. /\ ProcOK(p) /\ j \in Proc /\ j.pc = "pushing" /\ e \in j.todo /\ Plain(f.creds)
      /\ j.op \in {"store", "migrate"} /\ f \in File /\ lock = p
      /\ ring \in [Entries -> Secrets \cup {None}] /\ file \in File
  BY AtProc DEF Push, ProcOK, PlaceOK, StoringOK, Locked, Working, Proc
<1>2. PICK fails \in BOOLEAN :
        /\ SetSecret(p, e, f.creds[e], fails)
        /\ proc' = [proc EXCEPT ![p].todo = @ \ {e}, ![p].failed = @ \/ fails]
  BY DEF Push
<1> DEFINE todo == j.todo \ {e}
           failed == j.failed \/ fails
           k == [j EXCEPT !.todo = todo, !.failed = failed]
<1>3. proc' = [proc EXCEPT ![p] = k] BY <1>1, <1>2
<1>4. UNCHANGED <<mix, sidecar, file, lock>> BY DEF Push
<1>5. /\ k \in Proc /\ k.pc = "pushing" /\ k.op = j.op /\ k.file = f /\ k.todo = todo
      /\ k.keyed = j.keyed /\ k.failed = failed
  BY <1>1 DEF Proc
<1> HIDE DEF k
<1>6. j.keyed
  BY <1>1 DEF ProcOK, StoringOK
<1>7. f.creds[e] \in Secrets
  BY <1>1, <1>6 DEF ProcOK, StoringOK, Plain, File, Credentials
<1>8. \/ ~fails /\ ring' = [ring EXCEPT ![e] = f.creds[e]] /\ torn' = torn \ {e}
      \/ fails /\ UNCHANGED <<ring, torn>>
      \/ fails /\ ring[e] \notin {None, f.creds[e]} /\ ring' = [ring EXCEPT ![e] = None]
         /\ torn' = torn \cup {e}
  BY <1>2 DEF SetSecret
<1>9. /\ ring' \in [Entries -> Secrets \cup {None}] /\ torn' \subseteq Entries
      /\ \A x \in Entries : x # e => ring'[x] = ring[x] /\ (x \in torn' <=> x \in torn)
  BY <1>1, <1>7, <1>8 DEF Inv, TypeOK, LegacyTypeOK
<1>10. SentinelResolves'
  <2>1. ~fails => ring'[e] # None BY <1>1, <1>7, <1>8, LegacyAssumption
  <2>2. fails => (ring'[e] = ring[e] /\ torn' = torn) \/ e \in torn' BY <1>8
  <2>3. QED BY <1>4, <1>9, <2>1, <2>2 DEF Inv, SentinelResolves, Sentinels
<1>11. j.op = "migrate" => Meaning(file.creds, ring') = f.creds
  <2>1. SUFFICES ASSUME j.op = "migrate" PROVE Meaning(file.creds, ring') = f.creds OBVIOUS
  <2>2. f.creds = Meaning(file.creds, ring) BY <1>1, <2>1 DEF ProcOK, StoringOK
  <2> HIDE DEF f
  <2>3. file.creds[e] = Sentinel => ring[e] = f.creds[e] BY <2>2 DEF Meaning
  <2>4. file.creds[e] = Sentinel => ring'[e] = ring[e] BY <1>1, <1>8, <2>3
  <2>5. \A x \in Entries : file.creds[x] = Sentinel => ring'[x] = ring[x] BY <1>9, <2>4
  <2>6. QED BY <2>2, <2>5 DEF Meaning
<1>12. k.keyed /\ ~k.failed =>
        \A x \in Entries \ k.todo : f.creds[x] # None => ring'[x] = f.creds[x]
  <2>1. SUFFICES ASSUME ~j.failed, ~fails, NEW x \in Entries \ todo, f.creds[x] # None
                 PROVE  ring'[x] = f.creds[x]
    BY <1>5
  <2>2. CASE x = e BY <1>1, <1>8, <2>1, <2>2
  <2>3. CASE x # e
    <3>1. x \in Entries \ j.todo BY <2>3
    <3>2. ring[x] = f.creds[x] BY <1>1, <1>6, <2>1, <3>1 DEF ProcOK, StoringOK
    <3>3. QED BY <1>9, <2>3, <3>2
  <2>4. QED BY <2>2, <2>3
<1>13. StoringOK(k, file', ring', sidecar')
  BY <1>1, <1>4, <1>5, <1>6, <1>11, <1>12 DEF ProcOK, StoringOK
<1>14. PlaceOK(k) BY <1>1, <1>5 DEF ProcOK, PlaceOK
<1>15. Bootstrap' = Bootstrap BY <1>4 DEF Bootstrap
<1>16. QED BY <1>1, <1>3, <1>4, <1>5, <1>9, <1>10, <1>13, <1>14, <1>15, HolderSafe

(* What is written means what the process has in memory, and refers to no  *)
(* secret that is not in the keyring.                                      *)
LEMMA WrittenMeans ==
  ASSUME Inv, NEW p \in Procs, proc[p].pc = "pushing", proc[p].todo = {}
  PROVE  /\ Written(p) \in File /\ ~Written(p).marker.exists
         /\ Meaning(Written(p).creds, ring) = proc[p].file.creds
         /\ \A e \in Sentinels(Written(p)) : ring[e] # None
         /\ proc[p].file.mode = "plaintext" => Sentinels(Written(p)) = {}
<1> DEFINE j == proc[p]
           c == j.file.creds
           w == Written(p)
<1>1. /\ ProcOK(p) /\ j \in Proc /\ j.file \in File /\ c \in Credentials /\ Plain(c)
      /\ j.file.mode = "plaintext" => ~j.keyed
      /\ j.keyed /\ ~j.failed => \A e \in Entries : c[e] # None => ring[e] = c[e]
  BY AtProc DEF ProcOK, StoringOK, Proc, File
<1>2. Marked(c) \in Credentials BY DEF Marked, Credentials
<1>3. /\ w.creds = IF j.keyed /\ ~j.failed THEN Marked(c) ELSE c
      /\ w.marker = Unset /\ w \in File
  BY <1>1, <1>2, Unselected DEF Written, File
<1> HIDE DEF w
<1>4. ~w.marker.exists BY <1>3 DEF Unset
<1>5. CASE j.keyed /\ ~j.failed
  <2>1. \A e \in Entries : w.creds[e] = IF c[e] = None THEN None ELSE Sentinel
    BY <1>3, <1>5 DEF Marked
  <2>2. \A e \in Sentinels(w) : ring[e] # None
    BY <1>1, <1>5, <2>1, LegacyAssumption DEF Sentinels
  <2>3. \A e \in Entries : Meaning(w.creds, ring)[e] = c[e]
    BY <1>1, <1>5, <2>1, LegacyAssumption DEF Meaning
  <2>4. Meaning(w.creds, ring) = c BY <1>1, <2>3 DEF Meaning, Credentials
  <2>5. QED BY <1>1, <1>3, <1>4, <1>5, <2>2, <2>4 DEF w
<1>6. CASE ~(j.keyed /\ ~j.failed)
  <2>1. w.creds = c BY <1>3, <1>6
  <2>2. Sentinels(w) = {} BY <1>1, <2>1 DEF Sentinels, Plain
  <2>3. Meaning(w.creds, ring) = c BY <1>1, <2>1 DEF Meaning, Plain, Credentials
  <2>4. QED BY <1>3, <1>4, <2>2, <2>3 DEF w
<1>7. QED BY <1>5, <1>6

(* Whoever replaces or removes the file has put its marker in the sidecar. *)
LEMMA MarkerKept ==
  ASSUME Inv, NEW p \in Procs, proc[p].pc \in Working, ~file'.marker.exists,
         file'.marker \in Selections, UNCHANGED sidecar
  PROVE  Bootstrap' = Bootstrap
<1>1. ProcOK(p) /\ file.marker \in Selections BY AtProc DEF File
<1>2. sidecar.exists \/ ~file.marker.exists BY <1>1 DEF ProcOK, StoringOK
<1>3. QED BY <1>1, <1>2, Unselected DEF Bootstrap

LEMMA WriteFileSafe == \A p \in Procs : Inv /\ LegacyMove(p) /\ WriteFile(p) => Inv'
<1> SUFFICES ASSUME NEW p \in Procs, Inv, LegacyMove(p), WriteFile(p) PROVE Inv' OBVIOUS
<1> DEFINE j == proc[p]
           k == [j EXCEPT !.pc = "purging", !.todo = j.refs, !.refs = {}, !.file = Absent]
<1>1. /\ ProcOK(p) /\ j \in Proc /\ j.pc = "pushing" /\ j.todo = {} /\ lock = p
      /\ UNCHANGED <<mix, sidecar, ring, torn>>
      /\ ring \in [Entries -> Secrets \cup {None}] /\ torn \subseteq Entries
  BY AtProc DEF WriteFile, ProcOK, Locked, Working, Inv, TypeOK, LegacyTypeOK
<1>2. CASE Finish(p) /\ UNCHANGED file BY <1>1, <1>2, LegacyEnds DEF stores
<1>3. CASE file' = Written(p)
  <2>1. /\ file' \in File /\ ~file'.marker.exists /\ \A e \in Sentinels(file') : ring'[e] # None
        /\ j.file.mode = "plaintext" => Sentinels(file') = {}
    BY <1>1, <1>3, WrittenMeans
  <2>2. Bootstrap' = Bootstrap BY <1>1, <2>1, MarkerKept DEF File, Working
  <2>3. SentinelResolves' BY <2>1 DEF SentinelResolves, Sentinels
  <2>4. CASE Finish(p) BY <1>1, <2>1, <2>2, <2>3, <2>4, HolderEnds
  <2>5. CASE j.op = "migrate" /\ j.file.mode = "plaintext" /\ UNCHANGED lock
             /\ proc' = [proc EXCEPT ![p].pc = "purging", ![p].todo = proc[p].refs,
                           ![p].refs = {}, ![p].file = Absent]
    <3>1. proc' = [proc EXCEPT ![p] = k] BY <1>1, <2>5
    <3>2. k \in Proc /\ k.pc = "purging" /\ k.op = "migrate"
      BY <1>1, <2>5, AbsentType DEF Proc
    <3> HIDE DEF k
    <3>3. PlaceOK(k) /\ StoringOK(k, file', ring', sidecar')
      BY <2>1, <2>5, <3>2 DEF PlaceOK, StoringOK
    <3>4. QED BY <1>1, <2>1, <2>2, <2>3, <2>5, <3>1, <3>2, <3>3, HolderSafe
  <2>6. QED BY <1>2, <1>3, <2>4, <2>5 DEF WriteFile
<1>4. QED BY <1>2, <1>3 DEF WriteFile

LEMMA UnlinkSafe == \A p \in Procs : Inv /\ LegacyMove(p) /\ Unlink(p) => Inv'
<1> SUFFICES ASSUME NEW p \in Procs, Inv, LegacyMove(p), Unlink(p) PROVE Inv' OBVIOUS
<1> DEFINE j == proc[p]
           todo == IF file.mode = "plaintext" THEN {} ELSE {e \in Entries : file.creds[e] # None}
           k == [j EXCEPT !.pc = "cleaning", !.todo = todo]
<1>1. /\ ProcOK(p) /\ j \in Proc /\ j.pc = "unlinking" /\ j.op = "reset" /\ lock = p
      /\ UNCHANGED <<mix, sidecar, ring, torn>>
      /\ ring \in [Entries -> Secrets \cup {None}] /\ torn \subseteq Entries
  BY AtProc DEF Unlink, ProcOK, PlaceOK, Locked, Working, Inv, TypeOK, LegacyTypeOK
<1>2. CASE Finish(p) /\ UNCHANGED file BY <1>1, <1>2, LegacyEnds DEF stores
<1>3. CASE file' = Absent /\ proc' = [proc EXCEPT ![p] = k] /\ UNCHANGED lock
  <2>1. file' \in File /\ ~file'.marker.exists /\ Sentinels(file') = {} BY <1>3, AbsentType
  <2>2. Bootstrap' = Bootstrap BY <1>1, <2>1, MarkerKept DEF File, Working
  <2>3. SentinelResolves' BY <2>1 DEF SentinelResolves, Sentinels
  <2>4. k \in Proc /\ k.pc = "cleaning" /\ k.op = "reset" /\ ~k.failed
    <3>1. todo \subseteq Entries OBVIOUS
    <3> HIDE DEF todo
    <3>2. QED BY <1>1, <3>1 DEF Proc, ProcOK, StoringOK
  <2> HIDE DEF k
  <2>5. PlaceOK(k) /\ StoringOK(k, file', ring', sidecar')
    BY <2>1, <2>4 DEF PlaceOK, StoringOK
  <2>6. QED BY <1>1, <1>3, <2>1, <2>2, <2>3, <2>4, <2>5, HolderSafe
<1>4. QED BY <1>2, <1>3 DEF Unlink

(* A secret may go: the file refers to none. *)
LEMMA DeletesSafe ==
  ASSUME Inv, NEW p \in Procs, LegacyMove(p), proc[p].pc \in {"purging", "cleaning"},
         NEW e \in Entries, NEW rest \in SUBSET Entries,
         proc' = [proc EXCEPT ![p].todo = rest],
         ring' = ring \/ ring' = [ring EXCEPT ![e] = None],
         UNCHANGED <<mix, sidecar, file, torn, lock>>
  PROVE  Inv'
<1> DEFINE j == proc[p]
           k == [j EXCEPT !.todo = rest]
<1>1. /\ ProcOK(p) /\ j \in Proc /\ file \in File /\ lock = p /\ Sentinels(file) = {}
      /\ ring \in [Entries -> Secrets \cup {None}] /\ torn \subseteq Entries
      /\ j.op \in {"migrate", "reset"}
  BY AtProc DEF ProcOK, PlaceOK, StoringOK, Locked, Working, Inv, TypeOK, LegacyTypeOK
<1>2. /\ k \in Proc /\ k.pc = j.pc /\ k.op = j.op /\ k.failed = j.failed
      /\ proc' = [proc EXCEPT ![p] = k]
  BY <1>1 DEF Proc
<1> HIDE DEF k
<1>3. ring' \in [Entries -> Secrets \cup {None}] BY <1>1
<1>4. SentinelResolves' /\ Bootstrap' = Bootstrap
  BY <1>1 DEF SentinelResolves, Sentinels, Bootstrap
<1>5. PlaceOK(k) /\ StoringOK(k, file', ring', sidecar')
  BY <1>1, <1>2 DEF ProcOK, PlaceOK, StoringOK
<1>6. QED BY <1>1, <1>2, <1>3, <1>4, <1>5, HolderSafe

LEMMA PurgeSafe == \A p \in Procs, e \in Entries : Inv /\ LegacyMove(p) /\ Purge(p, e) => Inv'
<1> SUFFICES ASSUME NEW p \in Procs, NEW e \in Entries, Inv, LegacyMove(p), Purge(p, e) PROVE Inv'
  OBVIOUS
<1>1. proc[p].todo \ {e} \in SUBSET Entries BY AtProc DEF Proc
<1>2. ring' = ring \/ ring' = [ring EXCEPT ![e] = None] BY DEF Purge, DeleteSecret
<1>3. /\ proc' = [proc EXCEPT ![p].todo = proc[p].todo \ {e}]
      /\ proc[p].pc \in {"purging", "cleaning"} /\ UNCHANGED <<mix, sidecar, file, torn, lock>>
  BY DEF Purge
<1>4. QED BY <1>1, <1>2, <1>3, DeletesSafe

LEMMA CleanSafe == \A p \in Procs, e \in Entries : Inv /\ LegacyMove(p) /\ Clean(p, e) => Inv'
<1> SUFFICES ASSUME NEW p \in Procs, NEW e \in Entries, Inv, LegacyMove(p), Clean(p, e) PROVE Inv'
  OBVIOUS
<1>1. proc[p].todo \ {e} \in SUBSET Entries /\ {} \in SUBSET Entries BY AtProc DEF Proc
<1>2. ring' = ring \/ ring' = [ring EXCEPT ![e] = None] BY DEF Clean, DeleteSecret
<1>3. /\ \/ proc' = [proc EXCEPT ![p].todo = proc[p].todo \ {e}]
         \/ proc' = [proc EXCEPT ![p].todo = {}]
      /\ proc[p].pc \in {"purging", "cleaning"} /\ UNCHANGED <<mix, sidecar, file, torn, lock>>
  BY DEF Clean
<1>4. QED BY <1>1, <1>2, <1>3, DeletesSafe

-----------------------------------------------------------------------------
(* The selection. *)

LEMMA ReplacedType ==
  ASSUME Inv, NEW m \in {"legacy", "managed"}, NEW db \in BOOLEAN, m = "managed" => db,
         Bootstrap.revision < MaxRevision
  PROVE  Replaced(m, db) \in Selections
<1>1. Bootstrap \in Selections BY AtProc DEF Bootstrap, Inv, TypeOK, LegacyTypeOK, File
<1>2. Bootstrap.revision + 1 \in 0..MaxRevision BY <1>1, SelectionFields, LegacyAssumption
<1>3. QED BY <1>2 DEF Replaced, Selections

(* The holder of the lock ends with a new selection, or with the old one. *)
LEMMA SelectedSafe ==
  ASSUME Inv, NEW p \in Procs, lock = p, Finish(p), NEW i \in Importer,
         \A e \in Entries : i.proven[e] = None,
         importer' = [importer EXCEPT ![p] = i], UNCHANGED <<mix, stores, catalog>>,
         sidecar' \in Selections, sidecar.exists => sidecar'.exists,
         BootstrapGrows
  PROVE  Inv'
<1> DEFINE k == Idle(proc[p].frozen)
<1>1. k \in Proc /\ k.pc = "idle" /\ k.op = "none" /\ ~k.failed /\ k.todo = {}
  BY AtProc, IdleType DEF Idle, Proc
<1>2. proc' = [proc EXCEPT ![p] = k] /\ lock' = Free BY DEF Finish
<1> HIDE DEF k
<1>3. UNCHANGED <<file, ring, torn>> BY DEF stores
<1>4. TypeOK'
  <2>1. proc' \in [Procs -> Proc] /\ importer' \in [Procs -> Importer]
    BY <1>1, <1>2 DEF Inv, TypeOK, LegacyTypeOK
  <2>2. QED BY <1>2, <1>3, <2>1 DEF Inv, TypeOK, LegacyTypeOK
<1>5. SentinelResolves' BY <1>3 DEF Inv, SentinelResolves, Sentinels
<1>6. LockMoves(p) /\ Exclusive(p) /\ CatalogGrows BY <1>2, CatalogStays DEF LockMoves, Exclusive
<1>7. /\ PlaceOK(k) /\ k.pc \notin Locked /\ StoringOK(k, file', ring', sidecar')
      /\ ReviewOK(k, Bootstrap') /\ ImportOK(k, i, catalog', file', ring')
  BY <1>1 DEF PlaceOK, Locked, Working, StoringOK, ReviewOK, Reviewing, ImportOK
<1>8. QED BY <1>1, <1>2, <1>4, <1>5, <1>6, <1>7, StepSafe

LEMMA ChooseSafe == \A p \in Procs : Inv /\ LegacyMove(p) /\ Choose(p) => Inv'
<1> SUFFICES ASSUME NEW p \in Procs, Inv, LegacyMove(p), Choose(p) PROVE Inv' OBVIOUS
<1> DEFINE db == Bootstrap.db \/ proc[p].op = "initialize"
<1>1. /\ ProcOK(p) /\ proc[p] \in Proc /\ lock = p /\ Finish(p)
      /\ Bootstrap.revision < MaxRevision /\ UNCHANGED <<mix, stores>> /\ sidecar \in Selections
  BY AtProc DEF Choose, ProcOK, Locked, Inv, TypeOK, LegacyTypeOK
<1>2. /\ importer' = [importer EXCEPT ![p] = PlanAfter(p)] /\ UNCHANGED catalog
      /\ PlanAfter(p) \in Importer /\ \A e \in Entries : PlanAfter(p).proven[e] = None
  <2>1. proc'[p].op = "none" BY <1>1 DEF Finish, Idle, Inv, TypeOK, LegacyTypeOK
  <2>2. QED BY <2>1, PlanAfterType DEF LegacyMove, PlanAfter
<1>3. UNCHANGED file BY <1>1 DEF stores
<1>4. CASE UNCHANGED sidecar
  BY <1>1, <1>2, <1>3, <1>4, SelectedSafe DEF BootstrapGrows, Bootstrap
<1>5. CASE sidecar' = Replaced(proc[p].target, db) /\ (proc[p].target = "managed" => db)
  <2>1. proc[p].target \in {"legacy", "managed"} /\ db \in BOOLEAN
    BY AtProc, SelectionFields DEF Proc
  <2>2. sidecar' \in Selections BY <1>1, <1>5, <2>1, ReplacedType
  <2>3. sidecar'.exists /\ BootstrapGrows BY <1>5 DEF Replaced, BootstrapGrows, Bootstrap
  <2>4. QED BY <1>1, <1>2, <2>2, <2>3, SelectedSafe
<1>6. QED BY <1>4, <1>5 DEF Choose

LEMMA LegacyStepSafe == \A p \in Procs : Inv /\ LegacyMove(p) => Inv'
<1> SUFFICES ASSUME NEW p \in Procs, Inv, LegacyMove(p) PROVE Inv' OBVIOUS
<1>1. LegacyStep(p) BY DEF LegacyMove
<1>2. CASE Freeze(p) \/ ReadFile(p) \/ ResolveSentinels(p) \/ Store(p)
           \/ (\E m \in Modes : Migrate(p, m)) \/ Reset(p)
           \/ (\E m \in {"legacy", "managed"} : Select(p, m))
  BY <1>2, FreezeSafe, ReadFileSafe, ResolveSentinelsSafe, StoreSafe, MigrateSafe, ResetSafe,
     SelectSafe
<1>3. CASE Initialize(p) \/ ReadSource(p) \/ Acquire(p) \/ Busy(p) \/ LoadForMigration(p)
           \/ Probe(p) \/ Release(p) \/ Crash(p)
  BY <1>3, InitializeSafe, ReadSourceSafe, AcquireSafe, BusySafe, LoadForMigrationSafe, ProbeSafe,
     ReleaseSafe, CrashSafe
<1>4. CASE WriteFile(p) \/ Unlink(p) \/ Choose(p)
           \/ \E e \in Entries : Push(p, e) \/ Purge(p, e) \/ Clean(p, e)
  BY <1>4, WriteFileSafe, UnlinkSafe, ChooseSafe, PushSafe, PurgeSafe, CleanSafe
<1>5. QED BY <1>1, <1>2, <1>3, <1>4 DEF LegacyStep

-----------------------------------------------------------------------------
(* The steps of an import. *)

LEMMA EndSafe ==
  ASSUME Inv, NEW p \in Procs, End(p), UNCHANGED <<mix, sidecar, stores, catalog>>
  PROVE  Inv'
BY NoImportType, FinishSafe DEF End

(* What others do to the catalog moves the revisions an import compares.   *)
LEMMA CatalogMoves ==
  ASSUME catalog \in Catalog, NEW revision \in 0..MaxTarget, NEW a \in Accounts,
         NEW n \in 0..MaxTarget, catalog.account[a] < n,
         NEW secret \in [Entries -> Secrets \cup {None}],
         \A e \in Entries : e[1] # a => secret[e] = catalog.secret[e],
         catalog' = [revision |-> revision, account |-> [catalog.account EXCEPT ![a] = n],
                     secret |-> secret]
  PROVE  catalog' \in Catalog /\ CatalogGrows
<1> DEFINE account == [catalog.account EXCEPT ![a] = n]
<1>1. catalog.account \in [Accounts -> 0..MaxTarget] BY DEF Catalog
<1>2. account \in [Accounts -> 0..MaxTarget] BY <1>1
<1>3. \A x \in Accounts : catalog.account[x] <= account[x] /\ (x = a => account[x] # catalog.account[x])
  BY <1>1, ImportAssumption
<1>4. /\ catalog'.account = account /\ catalog'.secret = secret /\ catalog'.revision = revision
      /\ catalog' = [revision |-> revision, account |-> account, secret |-> secret]
  OBVIOUS
<1> HIDE DEF account
<1>5. catalog' \in Catalog BY <1>2, <1>4 DEF Catalog
<1>6. QED BY <1>3, <1>4, <1>5, EntryPairs DEF CatalogGrows

LEMMA OperateSafe == Inv /\ Operate => Inv'
<1> SUFFICES ASSUME Inv, Operate PROVE Inv' OBVIOUS
<1>1. /\ UNCHANGED <<legacyVars, importer>> /\ catalog \in Catalog
      /\ catalog.account \in [Accounts -> 0..MaxTarget]
      /\ catalog.revision \in 0..MaxTarget
      /\ catalog.secret \in [Entries -> Secrets \cup {None}]
  BY DEF Operate, Inv, TypeOK, Catalog
<1>2. catalog' \in Catalog /\ CatalogGrows
  <2>1. CASE \E a \in Accounts, E \in SUBSET Entries, s \in Secrets :
               /\ catalog.account[a] = 0 /\ catalog.revision < MaxTarget
               /\ E \subseteq EntriesOf(a)
               /\ catalog' = [catalog EXCEPT !.revision = @ + 1, !.account[a] = 1,
                                !.secret = [e \in Entries |-> IF e \in E THEN s ELSE @[e]]]
    <3>1. PICK a \in Accounts, E \in SUBSET Entries, s \in Secrets :
               /\ catalog.account[a] = 0 /\ catalog.revision < MaxTarget
               /\ E \subseteq EntriesOf(a)
               /\ catalog' = [catalog EXCEPT !.revision = @ + 1, !.account[a] = 1,
                                !.secret = [e \in Entries |-> IF e \in E THEN s ELSE @[e]]]
      BY <2>1
    <3> DEFINE revision == catalog.revision + 1
               secret == [e \in Entries |-> IF e \in E THEN s ELSE catalog.secret[e]]
    <3>2. catalog' = [revision |-> revision, account |-> [catalog.account EXCEPT ![a] = 1],
                      secret |-> secret]
      BY <1>1, <3>1 DEF Catalog
    <3>3. /\ revision \in 0..MaxTarget /\ 1 \in 0..MaxTarget /\ catalog.account[a] < 1
          /\ secret \in [Entries -> Secrets \cup {None}]
          /\ \A e \in Entries : e[1] # a => secret[e] = catalog.secret[e]
      BY <1>1, <3>1, ImportAssumption DEF EntriesOf
    <3> HIDE DEF revision, secret
    <3>4. QED BY <1>1, <3>2, <3>3, CatalogMoves
  <2>2. CASE \E e \in Entries, s \in Secrets \cup {None} :
               /\ catalog.account[e[1]] \in 1..MaxTarget - 1
               /\ s # catalog.secret[e]
               /\ catalog' = [catalog EXCEPT !.account[e[1]] = @ + 1, !.secret[e] = s]
    <3>1. PICK e \in Entries, s \in Secrets \cup {None} :
               /\ catalog.account[e[1]] \in 1..MaxTarget - 1
               /\ catalog' = [catalog EXCEPT !.account[e[1]] = @ + 1, !.secret[e] = s]
      BY <2>2
    <3> DEFINE a == e[1]
               n == catalog.account[a] + 1
               secret == [catalog.secret EXCEPT ![e] = s]
    <3>2. a \in Accounts BY EntryPairs
    <3>3. catalog' = [revision |-> catalog.revision,
                      account |-> [catalog.account EXCEPT ![a] = n], secret |-> secret]
      BY <1>1, <3>1, <3>2 DEF Catalog
    <3>4. /\ n \in 0..MaxTarget /\ catalog.account[a] < n
          /\ secret \in [Entries -> Secrets \cup {None}]
          /\ \A x \in Entries : x[1] # a => secret[x] = catalog.secret[x]
      BY <1>1, <3>1, <3>2, ImportAssumption
    <3> HIDE DEF n, secret, a
    <3>5. QED BY <1>1, <3>2, <3>3, <3>4, CatalogMoves
  <2>3. QED BY <2>1, <2>2 DEF Operate
<1>3. TypeOK' BY <1>1, <1>2 DEF Inv, TypeOK, LegacyTypeOK, legacyVars, stores
<1>4. SentinelResolves' BY <1>1 DEF Inv, SentinelResolves, Sentinels, legacyVars, stores
<1>5. ASSUME NEW q \in Procs PROVE ProcOK(q)'
  <2> DEFINE k == proc[q]
             i == importer[q]
  <2>1. /\ UNCHANGED <<mix, sidecar, file, ring, torn, lock, proc, importer>>
        /\ Bootstrap' = Bootstrap
    BY <1>1 DEF legacyVars, stores, Bootstrap
  <2>2. ProcOK(q) /\ i \in Importer /\ k \in Proc BY AtProc
  <2>3. ImportOK(k, i, catalog, file, ring) BY <2>2 DEF ProcOK
  <2> HIDE DEF k, i
  <2>4. ImportOK(k, i, catalog', file, ring)
    BY <1>1, <1>2, <2>2, <2>3, ImportStays
  <2> USE DEF k, i
  <2>5. QED BY <2>1, <2>2, <2>4 DEF ProcOK
<1>6. QED BY <1>3, <1>4, <1>5 DEF Inv

LEMMA PreviewSafe == \A p \in Procs : Inv /\ Preview(p) => Inv'
<1> SUFFICES ASSUME NEW p \in Procs, Inv, Preview(p) PROVE Inv' OBVIOUS
<1> DEFINE k == [proc[p] EXCEPT !.pc = "planning", !.op = "import"]
           i == [importer[p] EXCEPT !.source = Source(file)]
<1>1. /\ proc[p] \in Proc /\ importer[p] \in Importer /\ file \in File /\ proc[p].todo = {}
      /\ \A e \in Entries : importer[p].proven[e] = None
      /\ ~proc[p].failed
  BY AtProc DEF Preview, ProcOK, PlaceOK, ImportOK, StoringOK
<1>2. k \in Proc /\ k.pc = "planning" /\ k.op = "import" /\ k.todo = {} /\ ~k.failed
  BY <1>1 DEF Proc, Operations
<1>3. Source(file) \in [Entries -> {"plaintext", Sentinel, None}]
  BY <1>1 DEF Source, File, Credentials
<1>4. i \in Importer /\ i.proven = importer[p].proven BY <1>1, <1>3 DEF Importer
<1>5. Private(p, k, i) BY DEF Preview, Private
<1> HIDE DEF k, i
<1>6. /\ PlaceOK(k) /\ k.pc \notin Locked /\ StoringOK(k, file, ring, sidecar)
      /\ ReviewOK(k, Bootstrap) /\ ImportOK(k, i, catalog, file, ring)
  BY <1>1, <1>2, <1>4 DEF PlaceOK, Locked, Working, StoringOK, ReviewOK, Reviewing, ImportOK
<1>7. QED BY <1>2, <1>4, <1>5, <1>6, PrivateSafe

(* An import whose plan is made: it holds neither the lock nor a file. *)
LEMMA PlansSafe ==
  ASSUME Inv, NEW p \in Procs, NEW k \in Proc, NEW i \in Importer, Private(p, k, i),
         UNCHANGED lock, k.op = "import", k.pc \in {"applying", "waiting"},
         k.failed = proc[p].failed, proc[p].pc \in {"planning", "applying"},
         k.expect = Bootstrap \/ (k.expect = proc[p].expect /\ proc[p].pc = "applying"),
         ImportOK(k, i, catalog, file, ring)
  PROVE  Inv'
<1>1. ProcOK(p) /\ Bootstrap.revision \in Nat BY AtProc, SelectionFields
<1>2. PlaceOK(k) /\ k.pc \notin Locked /\ StoringOK(k, file, ring, sidecar)
  BY <1>1 DEF ProcOK, PlaceOK, Locked, Working, StoringOK, AfterLock
<1>3. ReviewOK(k, Bootstrap)
  <2>1. CASE k.expect = Bootstrap BY <1>1, <2>1 DEF ReviewOK
  <2>2. CASE k.expect = proc[p].expect /\ proc[p].pc = "applying"
    BY <1>1, <2>2 DEF ProcOK, ReviewOK, Reviewing, PlaceOK
  <2>3. QED BY <2>1, <2>2
<1>4. QED BY <1>2, <1>3, PrivateSafe

LEMMA PlanImportSafe == \A p \in Procs : Inv /\ PlanImport(p) => Inv'
<1> SUFFICES ASSUME NEW p \in Procs, Inv, PlanImport(p) PROVE Inv' OBVIOUS
<1> DEFINE accounts == {e[1] : e \in {e \in Entries : importer[p].source[e] # None}}
           k == [proc[p] EXCEPT !.pc = "applying", !.expect = Bootstrap]
           i == [importer[p] EXCEPT !.target = catalog, !.accounts = accounts]
<1>1. /\ ProcOK(p) /\ proc[p] \in Proc /\ importer[p] \in Importer
      /\ catalog \in Catalog /\ Bootstrap \in Selections
      /\ proc[p].pc = "planning" /\ proc[p].op = "import"
      /\ UNCHANGED <<mix, sidecar, stores, catalog>>
  BY AtProc DEF PlanImport, ProcOK, PlaceOK
<1>2. CASE End(p) BY <1>1, <1>2, EndSafe
<1>3. CASE proc' = [proc EXCEPT ![p] = k] /\ importer' = [importer EXCEPT ![p] = i] /\ UNCHANGED lock
  <2>1. /\ accounts \subseteq Accounts
        /\ \A e \in Entries : importer[p].source[e] # None => e[1] \in accounts
    BY EntryPairs
  <2> HIDE DEF accounts
  <2>2. /\ k \in Proc /\ k.pc = "applying" /\ k.op = "import" /\ k.expect = Bootstrap
        /\ k.todo = proc[p].todo /\ k.failed = proc[p].failed
    BY <1>1 DEF Proc
  <2>3. /\ i \in Importer /\ i.target = catalog /\ i.accounts = accounts
        /\ i.source = importer[p].source /\ i.proven = importer[p].proven
    BY <1>1, <2>1 DEF Importer
  <2>4. Private(p, k, i) BY <1>1, <1>3 DEF Private
  <2> HIDE DEF k, i
  <2>5. k.todo = {} /\ \A e \in Entries : i.proven[e] = None
    BY <1>1, <2>2, <2>3 DEF ProcOK, PlaceOK, ImportOK
  <2>6. \A a \in Accounts : catalog.account[a] <= catalog.account[a]
    BY <1>1, ImportAssumption DEF Catalog
  <2>7. ImportOK(k, i, catalog, file, ring)
    BY <2>1, <2>2, <2>3, <2>5, <2>6 DEF ImportOK
  <2>8. QED BY <1>1, <1>3, <2>2, <2>3, <2>4, <2>7, PlansSafe
<1>4. QED BY <1>2, <1>3 DEF PlanImport

(* What an import that is applying knows. *)
LEMMA AtApplying ==
  ASSUME Inv, NEW p \in Procs, proc[p].pc = "applying"
  PROVE  /\ proc[p] \in Proc /\ importer[p] \in Importer /\ catalog \in Catalog
         /\ proc[p].op = "import"
         /\ ImportOK(proc[p], importer[p], catalog, file, ring)
         /\ proc[p].todo \subseteq Entries
BY AtProc DEF ProcOK, PlaceOK, Proc

LEMMA ResolveSecretsSafe ==
  \A p \in Procs, a \in Accounts : Inv /\ ResolveSecrets(p, a) => Inv'
<1> SUFFICES ASSUME NEW p \in Procs, NEW a \in Accounts, Inv, ResolveSecrets(p, a) PROVE Inv'
  OBVIOUS
<1> DEFINE j == proc[p]
           h == importer[p]
<1>1. /\ j.pc = "applying" /\ j.todo = {} /\ j \in Proc /\ h \in Importer /\ j.op = "import"
      /\ ImportOK(j, h, catalog, file, ring)
      /\ UNCHANGED <<mix, sidecar, stores, catalog>>
  BY AtApplying DEF ResolveSecrets
<1>2. CASE End(p) BY <1>1, <1>2, EndSafe
<1>3. CASE ~End(p)
  <2>1. PICK E \in Due(p, a) :
          /\ \A e \in E : Resolved(file.creds)[e] # None
          /\ proc' = [proc EXCEPT ![p].todo = E]
          /\ importer' = [importer EXCEPT ![p].proven =
                            [e \in Entries |-> IF e \in E THEN Resolved(file.creds)[e] ELSE @[e]]]
          /\ UNCHANGED lock
    BY <1>3 DEF ResolveSecrets
  <2>2. /\ E \subseteq EntriesOf(a)
        /\ h.target.account[a] = 0 =>
             \A e \in EntriesOf(a) : h.source[e] # None => e \in E
    BY DEF Due, Action, Missing, Wanted
  <2> DEFINE proven == [e \in Entries |-> IF e \in E THEN Resolved(file.creds)[e] ELSE h.proven[e]]
             k == [j EXCEPT !.todo = E]
             i == [h EXCEPT !.proven = proven]
  <2>3. proc' = [proc EXCEPT ![p] = k] /\ importer' = [importer EXCEPT ![p] = i]
    BY <1>1, <2>1 DEF Importer
  <2>4. proven \in [Entries -> Secrets \cup {None}]
    <3>1. Resolved(file.creds) \in [Entries -> Secrets \cup {None}]
      BY AtProc, ResolvedMeaning, MeaningType DEF File
    <3>2. h.proven \in [Entries -> Secrets \cup {None}] BY <1>1 DEF Importer
    <3>3. QED BY <3>1, <3>2
  <2>5. /\ \A e \in E : proven[e] # None
        /\ \A e \in Entries \ E : proven[e] = h.proven[e]
    BY <2>1, <2>2 DEF EntriesOf
  <2> HIDE DEF proven
  <2>6. /\ k \in Proc /\ k.pc = "applying" /\ k.op = "import" /\ k.todo = E
        /\ k.expect = j.expect /\ k.failed = j.failed
    BY <1>1, <2>2 DEF Proc, EntriesOf
  <2>7. /\ i \in Importer /\ i.proven = proven /\ i.target = h.target
        /\ i.source = h.source /\ i.accounts = h.accounts
    BY <1>1, <2>4 DEF Importer
  <2> HIDE DEF k, i
  <2>8. \A x \in Accounts : E # {} /\ E \subseteq EntriesOf(x) => x = a
    BY <2>2 DEF EntriesOf
  <2>9. ImportOK(k, i, catalog, file, ring)
    BY <1>1, <2>2, <2>5, <2>6, <2>7, <2>8 DEF ImportOK
  <2>10. Private(p, k, i) BY <1>1, <2>1, <2>3 DEF Private
  <2>11. QED BY <1>1, <2>1, <2>6, <2>7, <2>9, <2>10, PlansSafe
<1>4. QED BY <1>2, <1>3

(* An account whose last missing credential is written has all of them. *)
LEMMA AccountDone ==
  ASSUME Inv, NEW p \in Procs, NEW a \in Accounts, proc[p].pc = "applying",
         proc[p].todo # {}, proc[p].todo \subseteq EntriesOf(a),
         Action(p, a) = "create" \/ Missing(p, a) = proc[p].todo \/ Action(p, a) = "unchanged",
         NEW e \in EntriesOf(a), importer[p].source[e] # None
  PROVE  e \in proc[p].todo \/ importer[p].target.secret[e] # None
<1>1. ImportOK(proc[p], importer[p], catalog, file, ring) /\ proc[p].op = "import" BY AtApplying
<1>2. CASE Action(p, a) = "create"
  <2>1. importer[p].target.account[a] = 0 BY <1>2 DEF Action
  <2>2. QED BY <1>1, <2>1 DEF ImportOK
<1>3. CASE Missing(p, a) = proc[p].todo BY <1>3 DEF Missing, Wanted
<1>4. CASE Action(p, a) = "unchanged" BY <1>4 DEF Action, Missing, Wanted
<1>5. QED BY <1>2, <1>3, <1>4

LEMMA SavedIs ==
  ASSUME NEW p \in Procs, NEW a \in Accounts, NEW E, NEW t \in Catalog
  PROVE  Saved(p, a, E, t) =
           [revision |-> IF Action(p, a) = "create" THEN t.revision + 1 ELSE t.revision,
            account  |-> [t.account EXCEPT ![a] = t.account[a] + 1],
            secret   |-> [e \in Entries |-> IF e \in E THEN importer[p].proven[e] ELSE t.secret[e]]]
<1> DEFINE revision == IF Action(p, a) = "create" THEN t.revision + 1 ELSE t.revision
           account == [t.account EXCEPT ![a] = t.account[a] + 1]
           secret == [e \in Entries |-> IF e \in E THEN importer[p].proven[e] ELSE t.secret[e]]
<1>1. Saved(p, a, E, t) = [t EXCEPT !.revision = revision, !.account = account, !.secret = secret]
  BY DEF Saved, Catalog
<1> HIDE DEF revision, account, secret
<1> DEFINE s == [t EXCEPT !.revision = revision, !.account = account, !.secret = secret]
<1>2. s \in [revision : {revision}, account : {account}, secret : {secret}] BY DEF Catalog
<1> HIDE DEF s
<1>3. s = [revision |-> revision, account |-> account, secret |-> secret] BY <1>2
<1>4. QED BY <1>1, <1>3 DEF revision, account, secret, s

LEMMA SaveSecretsSafe == \A p \in Procs, a \in Accounts : Inv /\ SaveSecrets(p, a) => Inv'
<1> SUFFICES ASSUME NEW p \in Procs, NEW a \in Accounts, Inv, SaveSecrets(p, a) PROVE Inv'
  OBVIOUS
<1> DEFINE j == proc[p]
           h == importer[p]
           E == j.todo
           done == Action(p, a) = "create" \/ Missing(p, a) = E
<1>1. /\ j.pc = "applying" /\ E # {} /\ E \subseteq EntriesOf(a) /\ j \in Proc /\ h \in Importer
      /\ j.op = "import" /\ ImportOK(j, h, catalog, file, ring) /\ catalog \in Catalog
      /\ catalog.revision < MaxTarget /\ catalog.account[a] < MaxTarget
      /\ UNCHANGED <<mix, sidecar, stores>>
  BY AtApplying DEF SaveSecrets
<1>2. CASE End(p) /\ UNCHANGED catalog BY <1>1, <1>2, EndSafe
<1>3. CASE ~(End(p) /\ UNCHANGED catalog)
  <2> DEFINE accounts == IF done THEN h.accounts \ {a} ELSE h.accounts
             target == Saved(p, a, E, h.target)
             k == [j EXCEPT !.todo = {}]
  <2>1. /\ Current(p, a) /\ catalog' = Saved(p, a, E, catalog)
        /\ proc' = [proc EXCEPT ![p].todo = {}] /\ UNCHANGED lock
    BY <1>3 DEF SaveSecrets
  <2>2. PICK attention \in BOOLEAN :
          importer' = [importer EXCEPT ![p] =
                         [h EXCEPT !.target = target, !.attention = attention, !.accounts = accounts]]
    <3> DEFINE as(attention) ==
                 [h EXCEPT !.target = target, !.attention = attention, !.accounts = accounts]
    <3>2. \/ importer' = [importer EXCEPT ![p].target = target, ![p].accounts = accounts]
          \/ importer' = [importer EXCEPT ![p].target = target, ![p].attention = TRUE,
                            ![p].accounts = accounts]
      BY <1>3 DEF SaveSecrets
    <3> HIDE DEF target, accounts
    <3>3. [h EXCEPT !.target = target, !.accounts = accounts] = as(h.attention)
      BY <1>1 DEF Importer
    <3>4. \/ importer' = [importer EXCEPT ![p] = as(h.attention)]
          \/ importer' = [importer EXCEPT ![p] = as(TRUE)]
      <4> HIDE DEF as
      <4>1. CASE importer' = [importer EXCEPT ![p].target = target, ![p].accounts = accounts]
        <5>1. importer' = [importer EXCEPT ![p] = [h EXCEPT !.target = target, !.accounts = accounts]]
          BY <4>1
        <5>2. QED BY <3>3, <5>1
      <4>2. CASE importer' = [importer EXCEPT ![p].target = target, ![p].attention = TRUE,
                                ![p].accounts = accounts]
        BY <4>2 DEF as
      <4>3. QED BY <3>2, <4>1, <4>2
    <3>5. h.attention \in BOOLEAN /\ TRUE \in BOOLEAN BY <1>1 DEF Importer
    <3>6. QED BY <3>4, <3>5
  <2> DEFINE i == [h EXCEPT !.target = target, !.attention = attention, !.accounts = accounts]
             n == catalog.account[a] + 1
             revision == IF Action(p, a) = "create" THEN catalog.revision + 1 ELSE catalog.revision
             Secret(s) == [e \in Entries |-> IF e \in E THEN h.proven[e] ELSE s[e]]
  <2>3. /\ h.target \in Catalog /\ h.proven \in [Entries -> Secrets \cup {None}]
        /\ h.target.account[a] = catalog.account[a] /\ h.target.revision = catalog.revision
        /\ catalog.revision \in 0..MaxTarget /\ catalog.account[a] \in 0..MaxTarget
        /\ catalog.secret \in [Entries -> Secrets \cup {None}]
        /\ h.target.secret \in [Entries -> Secrets \cup {None}]
        /\ h.target.account \in [Accounts -> 0..MaxTarget]
        /\ catalog.account \in [Accounts -> 0..MaxTarget]
    BY <1>1, <2>1 DEF Current, Importer, Catalog
  <2>4. /\ catalog' = [revision |-> revision, account |-> [catalog.account EXCEPT ![a] = n],
                       secret |-> Secret(catalog.secret)]
        /\ target = [revision |-> revision, account |-> [h.target.account EXCEPT ![a] = n],
                     secret |-> Secret(h.target.secret)]
    <3>1. Saved(p, a, E, catalog) =
            [revision |-> revision, account |-> [catalog.account EXCEPT ![a] = n],
             secret |-> Secret(catalog.secret)]
      BY <1>1, SavedIs
    <3>2. Saved(p, a, E, h.target) =
            [revision |-> IF Action(p, a) = "create" THEN h.target.revision + 1 ELSE h.target.revision,
             account |-> [h.target.account EXCEPT ![a] = h.target.account[a] + 1],
             secret |-> Secret(h.target.secret)]
      BY <2>3, SavedIs
    <3>3. QED BY <2>1, <2>3, <3>1, <3>2
  <2>5. /\ n \in 0..MaxTarget /\ revision \in 0..MaxTarget /\ catalog.account[a] < n
    BY <1>1, <2>3, ImportAssumption
  <2>6. /\ Secret(catalog.secret) \in [Entries -> Secrets \cup {None}]
        /\ Secret(h.target.secret) \in [Entries -> Secrets \cup {None}]
    BY <2>3
  <2>7. \A e \in Entries : e[1] # a => Secret(catalog.secret)[e] = catalog.secret[e]
    BY <1>1 DEF EntriesOf
  <2>8. catalog' \in Catalog /\ CatalogGrows
    <3> DEFINE S == Secret(catalog.secret)
    <3>1. S \in [Entries -> Secrets \cup {None}] BY <2>6
    <3>2. \A e \in Entries : e[1] # a => S[e] = catalog.secret[e] BY <2>7
    <3>3. catalog' = [revision |-> revision, account |-> [catalog.account EXCEPT ![a] = n],
                      secret |-> S]
      BY <2>4
    <3> HIDE DEF S, n, revision
    <3>4. QED BY <1>1, <2>5, <3>1, <3>2, <3>3, CatalogMoves
  <2>9. target \in Catalog
    <3> HIDE DEF n, revision
    <3>1. [h.target.account EXCEPT ![a] = n] \in [Accounts -> 0..MaxTarget] BY <2>3, <2>5
    <3>2. QED BY <2>4, <2>5, <2>6, <3>1 DEF Catalog
  <2>10. /\ \A x \in Accounts : target.account[x] = IF x = a THEN n ELSE h.target.account[x]
         /\ \A x \in Accounts : catalog'.account[x] = IF x = a THEN n ELSE catalog.account[x]
         /\ \A e \in Entries : target.secret[e] = IF e \in E THEN h.proven[e] ELSE h.target.secret[e]
         /\ \A e \in Entries : catalog'.secret[e] = IF e \in E THEN h.proven[e] ELSE catalog.secret[e]
    <3> HIDE DEF n, revision
    <3>1. /\ target.account = [h.target.account EXCEPT ![a] = n]
          /\ catalog'.account = [catalog.account EXCEPT ![a] = n]
          /\ target.secret = Secret(h.target.secret) /\ catalog'.secret = Secret(catalog.secret)
      BY <2>4
    <3>2. QED BY <2>3, <3>1
  <2> HIDE DEF target, n, revision, Secret
  <2>11. /\ k \in Proc /\ k.pc = "applying" /\ k.op = "import" /\ k.todo = {}
         /\ k.expect = j.expect /\ k.failed = j.failed
    BY <1>1 DEF Proc
  <2>12. accounts \subseteq Accounts /\ accounts \subseteq h.accounts
         /\ h.accounts \subseteq accounts \cup {a} /\ (a \in h.accounts /\ a \notin accounts => done)
    BY <1>1 DEF Importer
  <2> HIDE DEF accounts
  <2>13. /\ i \in Importer /\ i.target = target /\ i.accounts = accounts
         /\ i.source = h.source /\ i.proven = h.proven
    BY <1>1, <2>9, <2>12 DEF Importer
  <2>14. proc' = [proc EXCEPT ![p] = k] /\ importer' = [importer EXCEPT ![p] = i]
    BY <2>1, <2>2
  <2> HIDE DEF k, i
  <2>15. \A x \in Accounts : target.account[x] <= catalog'.account[x]
    BY <1>1, <2>3, <2>5, <2>10 DEF ImportOK
  <2>16. \A e \in Entries : catalog'.account[e[1]] = target.account[e[1]] =>
                              catalog'.secret[e] = target.secret[e]
    BY <1>1, <2>3, <2>10, EntryPairs DEF ImportOK
  <2>17. \A e \in Entries : h.proven[e] # None => target.secret[e] = h.proven[e]
    BY <1>1, <2>10 DEF ImportOK
  <2>18. ASSUME NEW e \in Entries, h.source[e] # None, e[1] \notin accounts
         PROVE  target.secret[e] # None
    <3>1. \A x \in E : h.proven[x] # None BY <1>1 DEF ImportOK
    <3>2. CASE e \in E BY <2>10, <3>1, <3>2
    <3>3. CASE e \notin E /\ e[1] \notin h.accounts
      BY <1>1, <2>10, <2>18, <3>3 DEF ImportOK
    <3>4. CASE e \notin E /\ e[1] \in h.accounts
      <4>1. e[1] = a /\ done BY <2>12, <2>18, <3>4
      <4>2. e \in EntriesOf(a) BY <4>1 DEF EntriesOf
      <4>3. h.target.secret[e] # None BY <1>1, <2>18, <3>4, <4>1, <4>2, AccountDone
      <4>4. QED BY <2>10, <3>4, <4>3
    <3>5. QED BY <3>2, <3>3, <3>4
  <2>19. ImportOK(k, i, catalog', file', ring')
    BY <2>11, <2>13, <2>15, <2>16, <2>17, <2>18 DEF ImportOK
  <2>20. PlaceOK(k) /\ k.pc \notin Locked /\ StoringOK(k, file', ring', sidecar')
    BY <1>1, <2>11, AtProc DEF ProcOK, PlaceOK, Locked, Working, StoringOK
  <2>21. Bootstrap' = Bootstrap /\ ReviewOK(k, Bootstrap')
    <3>1. Bootstrap' = Bootstrap BY <1>1 DEF Bootstrap, stores
    <3>2. ReviewOK(j, Bootstrap) BY AtProc DEF ProcOK
    <3>3. QED BY <1>1, <2>11, <3>1, <3>2 DEF ReviewOK, Reviewing
  <2>22. TypeOK'
    <3>1. proc' \in [Procs -> Proc] /\ importer' \in [Procs -> Importer]
      BY <2>11, <2>13, <2>14 DEF Inv, TypeOK, LegacyTypeOK
    <3>2. QED BY <1>1, <2>1, <2>8, <3>1 DEF Inv, TypeOK, LegacyTypeOK, stores
  <2>23. SentinelResolves' BY <1>1 DEF Inv, SentinelResolves, Sentinels, stores
  <2>24. LockMoves(p) /\ Exclusive(p) /\ BootstrapGrows
    BY <1>1, <2>1, <2>21 DEF LockMoves, Exclusive, BootstrapGrows, stores
  <2>25. QED
    BY <2>8, <2>11, <2>13, <2>14, <2>19, <2>20, <2>21, <2>22, <2>23, <2>24, StepSafe
<1>4. QED BY <1>2, <1>3

LEMMA CompareSecretsSafe ==
  \A p \in Procs, a \in Accounts : Inv /\ CompareSecrets(p, a) => Inv'
<1> SUFFICES ASSUME NEW p \in Procs, NEW a \in Accounts, Inv, CompareSecrets(p, a) PROVE Inv'
  OBVIOUS
<1> DEFINE j == proc[p]
           h == importer[p]
           E == j.todo
           accounts == h.accounts \ {a}
           k == [j EXCEPT !.todo = {}]
           i == [h EXCEPT !.accounts = accounts]
<1>1. /\ j.pc = "applying" /\ E # {} /\ E \subseteq EntriesOf(a) /\ j \in Proc /\ h \in Importer
      /\ j.op = "import" /\ ImportOK(j, h, catalog, file, ring)
      /\ Action(p, a) = "unchanged"
      /\ UNCHANGED <<mix, sidecar, stores, catalog>>
  BY AtApplying DEF CompareSecrets
<1>2. CASE End(p) BY <1>1, <1>2, EndSafe
<1>3. CASE ~End(p)
  <2>1. /\ catalog.account[a] = h.target.account[a]
        /\ \A e \in E : catalog.secret[e] = h.proven[e]
        /\ proc' = [proc EXCEPT ![p] = k] /\ importer' = [importer EXCEPT ![p] = i]
        /\ UNCHANGED lock
    BY <1>3 DEF CompareSecrets, Current
  <2>2. /\ k \in Proc /\ k.pc = "applying" /\ k.op = "import" /\ k.todo = {}
        /\ k.expect = j.expect /\ k.failed = j.failed
    BY <1>1 DEF Proc
  <2>3. /\ i \in Importer /\ i.target = h.target /\ i.accounts = accounts
        /\ i.source = h.source /\ i.proven = h.proven
    BY <1>1 DEF Importer
  <2>4. Private(p, k, i) BY <1>1, <2>1 DEF Private
  <2> HIDE DEF k, i
  <2>5. \A e \in E : h.target.secret[e] = h.proven[e] /\ h.proven[e] # None
    BY <1>1, <2>1 DEF ImportOK, EntriesOf
  <2>6. \A e \in Entries : h.proven[e] # None => h.target.secret[e] = h.proven[e]
    BY <1>1, <2>5 DEF ImportOK
  <2>7. ASSUME NEW e \in Entries, h.source[e] # None, e[1] \notin accounts
        PROVE  h.target.secret[e] # None
    <3>1. CASE e[1] \notin h.accounts BY <1>1, <2>7, <3>1 DEF ImportOK
    <3>2. CASE e[1] = a
      <4>1. e \in EntriesOf(a) BY <3>2 DEF EntriesOf
      <4>2. QED BY <1>1, <2>5, <2>7, <4>1, AccountDone
    <3>3. QED BY <2>7, <3>1, <3>2
  <2>8. ImportOK(k, i, catalog, file, ring)
    BY <1>1, <2>2, <2>3, <2>6, <2>7 DEF ImportOK
  <2>9. QED BY <1>1, <2>1, <2>2, <2>3, <2>4, <2>8, PlansSafe
<1>4. QED BY <1>2, <1>3

LEMMA BeginCutoverSafe == \A p \in Procs : Inv /\ BeginCutover(p) => Inv'
<1> SUFFICES ASSUME NEW p \in Procs, Inv, BeginCutover(p) PROVE Inv' OBVIOUS
<1> DEFINE j == proc[p]
           i == importer[p]
           k == [j EXCEPT !.pc = "waiting", !.expect = Bootstrap]
<1>1. /\ j.pc = "applying" /\ j \in Proc /\ i \in Importer /\ j.op = "import"
      /\ ImportOK(j, i, catalog, file, ring)
      /\ i.accounts = {} /\ j.todo = {} /\ Bootstrap \in Selections
      /\ UNCHANGED <<mix, sidecar, stores, catalog>>
  BY AtProc, AtApplying DEF BeginCutover
<1>2. CASE End(p) BY <1>1, <1>2, EndSafe
<1>3. CASE proc' = [proc EXCEPT ![p] = k] /\ UNCHANGED <<lock, importer>>
  <2>1. /\ k \in Proc /\ k.pc = "waiting" /\ k.op = "import" /\ k.todo = {}
        /\ k.expect = Bootstrap /\ k.failed = j.failed
    BY <1>1 DEF Proc
  <2>2. importer' = [importer EXCEPT ![p] = i] BY <1>3 DEF Inv, TypeOK
  <2>3. Private(p, k, i) BY <1>1, <1>3, <2>2 DEF Private
  <2> HIDE DEF k
  <2>4. ImportOK(k, i, catalog, file, ring) BY <1>1, <2>1 DEF ImportOK
  <2> HIDE DEF i
  <2>5. QED BY <1>1, <1>3, <2>1, <2>3, <2>4, PlansSafe
<1>4. QED BY <1>2, <1>3 DEF BeginCutover

LEMMA ProveSecretsSafe == \A p \in Procs : Inv /\ ProveSecrets(p) => Inv'
<1> SUFFICES ASSUME NEW p \in Procs, Inv, ProveSecrets(p) PROVE Inv' OBVIOUS
<1> DEFINE j == proc[p]
           i == importer[p]
           k == [j EXCEPT !.pc = "cutting"]
<1>1. /\ j.pc = "proving" /\ j \in Proc /\ i \in Importer /\ j.op = "import"
      /\ ImportOK(j, i, catalog, file, ring) /\ ReviewOK(j, Bootstrap)
      /\ StoringOK(j, file, ring, sidecar) /\ lock = p
      /\ UNCHANGED <<mix, sidecar, stores, catalog>>
  BY AtProc DEF ProveSecrets, ProcOK, PlaceOK, Locked
<1>2. CASE End(p) BY <1>1, <1>2, EndSafe
<1>3. CASE Proved(p) /\ proc' = [proc EXCEPT ![p] = k] /\ UNCHANGED <<lock, importer>>
  <2>1. /\ k \in Proc /\ k.pc = "cutting" /\ k.op = "import" /\ k.todo = j.todo
        /\ k.expect = j.expect /\ k.failed = j.failed
    BY <1>1 DEF Proc
  <2>2. importer' = [importer EXCEPT ![p] = i] BY <1>3 DEF Inv, TypeOK
  <2>3. Private(p, k, i) BY <1>1, <1>3, <2>2 DEF Private
  <2> HIDE DEF k
  <2>4. \A e \in Entries : i.proven[e] # None => Meaning(file.creds, ring)[e] = i.proven[e]
    BY <1>3, ResolvedMeaning DEF Proved
  <2> HIDE DEF i
  <2>5. ImportOK(k, i, catalog, file, ring) BY <1>1, <2>1, <2>4 DEF ImportOK
  <2>6. /\ PlaceOK(k) /\ StoringOK(k, file, ring, sidecar) /\ ReviewOK(k, Bootstrap)
    BY <1>1, <2>1 DEF PlaceOK, StoringOK, ReviewOK, Reviewing, Working
  <2>7. QED BY <1>1, <1>3, <2>1, <2>3, <2>5, <2>6, PrivateSafe
<1>4. QED BY <1>2, <1>3 DEF ProveSecrets, Goto

LEMMA CutoverSafe == \A p \in Procs : Inv /\ Cutover(p) => Inv'
<1> SUFFICES ASSUME NEW p \in Procs, Inv, Cutover(p) PROVE Inv' OBVIOUS
<1>1. /\ ProcOK(p) /\ proc[p] \in Proc /\ lock = p /\ Finish(p)
      /\ importer' = [importer EXCEPT ![p] = NoImport] /\ Bootstrap.revision < MaxRevision
      /\ UNCHANGED <<mix, stores, catalog>> /\ sidecar \in Selections
  BY AtProc DEF Cutover, End, ProcOK, Locked, Inv, TypeOK, LegacyTypeOK
<1>2. UNCHANGED file BY <1>1 DEF stores
<1>3. CASE UNCHANGED sidecar
  BY <1>1, <1>2, <1>3, NoImportType, SelectedSafe DEF BootstrapGrows, Bootstrap
<1>4. CASE sidecar' = Replaced("managed", TRUE)
  <2>1. sidecar' \in Selections BY <1>1, <1>4, ReplacedType
  <2>2. sidecar'.exists /\ BootstrapGrows BY <1>4 DEF Replaced, BootstrapGrows, Bootstrap
  <2>3. QED BY <1>1, <2>1, <2>2, NoImportType, SelectedSafe
<1>5. QED BY <1>3, <1>4 DEF Cutover

-----------------------------------------------------------------------------
(* The invariant. *)

LEMMA NextSafe == Inv /\ [Next]_vars => Inv'
<1> SUFFICES ASSUME Inv, [Next]_vars PROVE Inv' OBVIOUS
<1>1. CASE UNCHANGED vars
  BY <1>1 DEF vars, legacyVars, stores, Inv, TypeOK, LegacyTypeOK, SentinelResolves, Sentinels,
     ProcOK, Bootstrap
<1>2. CASE Operate BY <1>2, OperateSafe
<1>3. ASSUME NEW p \in Procs, ImportStep(p) PROVE Inv'
  BY <1>3, PreviewSafe, PlanImportSafe, ResolveSecretsSafe, SaveSecretsSafe, CompareSecretsSafe,
     BeginCutoverSafe, ProveSecretsSafe, CutoverSafe DEF ImportStep
<1>4. ASSUME NEW p \in Procs, LegacyMove(p) PROVE Inv' BY <1>4, LegacyStepSafe
<1>5. QED BY <1>1, <1>2, <1>3, <1>4 DEF Next

LEMMA InitSafe == Init => Inv
<1> SUFFICES ASSUME Init PROVE Inv OBVIOUS
<1> USE DEF Init, LegacyInit
<1>1. file \in File
  <2>1. CASE file = Absent BY <2>1, AbsentType
  <2>2. CASE file # Absent BY <2>2 DEF InitialFiles, File
  <2>3. QED BY <2>1, <2>2
<1>2. PICK s \in Secrets : ring = [e \in Entries |-> IF e \in Sentinels(file) THEN s ELSE None]
  OBVIOUS
<1>3. ring \in [Entries -> Secrets \cup {None}] BY <1>2
<1>4. SentinelResolves
  <2>1. \A e \in Sentinels(file) : e \in Entries /\ ring[e] = s BY <1>2 DEF Sentinels
  <2>2. QED BY <2>1, LegacyAssumption DEF SentinelResolves
<1>5. Idle("none") \in Proc BY IdleType
<1>6. NoTarget \in Catalog /\ catalog \in Catalog
  <2>1. NoTarget \in Catalog BY ImportAssumption DEF NoTarget, Catalog, NoCredentials
  <2>2. QED BY <2>1, ImportAssumption DEF Catalog
<1>7. TypeOK BY <1>1, <1>3, <1>5, <1>6, NoImportType DEF TypeOK, LegacyTypeOK
<1>8. ASSUME NEW p \in Procs PROVE ProcOK(p)
  <2>1. proc[p] = Idle("none") /\ importer[p] = NoImport OBVIOUS
  <2> DEFINE k == proc[p]
             i == importer[p]
  <2>2. k.pc = "idle" /\ k.op = "none" /\ ~k.failed /\ k.todo = {} BY <2>1 DEF Idle
  <2>3. \A e \in Entries : i.proven[e] = None BY <2>1, NoImportType
  <2> HIDE DEF k, i
  <2>4. /\ PlaceOK(k) /\ k.pc \notin Locked /\ StoringOK(k, file, ring, sidecar)
        /\ ReviewOK(k, Bootstrap) /\ ImportOK(k, i, catalog, file, ring)
    BY <2>2, <2>3
    DEF PlaceOK, Locked, Working, StoringOK, ReviewOK, Reviewing, ImportOK
  <2>5. QED BY <2>4 DEF ProcOK, k, i
<1>9. QED BY <1>4, <1>7, <1>8 DEF Inv

(* The lock really excludes, and no process is ever in a place where what  *)
(* it remembers of the file, the keyring, the selection or the catalog     *)
(* could mislead it.                                                       *)
THEOREM InvHolds == Spec => []Inv
<1>1. Init => Inv BY InitSafe
<1>2. Inv /\ [Next]_vars => Inv' BY NextSafe
<1>3. QED BY <1>1, <1>2, PTL DEF Spec

(* A sentinel in the file finds its secret, in every interleaving of       *)
(* stores, migrations, resets, imports and crashes, unless the keyring     *)
(* itself has lost it.                                                     *)
THEOREM SentinelsResolve == Spec => []SentinelResolves
<1>1. Inv => SentinelResolves BY DEF Inv
<1>2. QED BY <1>1, InvHolds, PTL

-----------------------------------------------------------------------------
(* What a step may never do. *)

(* Everything that is stored or selected is written by the holder of the   *)
(* lock, and the keyring only by one that finds legacy mode open to it.    *)
Rewrites(p) == WriteFile(p) \/ Unlink(p)
Unkeys(p) == \E e \in Entries : Push(p, e) \/ Purge(p, e) \/ Clean(p, e)
Selects(p) == Choose(p) \/ Cutover(p)

LEMMA OneWriter ==
  ASSUME Inv, [Next]_vars
  PROVE  /\ file' = file \/ \E p \in Procs : lock = p /\ Rewrites(p)
         /\ ring' = ring \/ \E p \in Procs : lock = p /\ Unkeys(p)
         /\ Bootstrap' = Bootstrap \/ \E p \in Procs : lock = p /\ Selects(p)
<1>1. CASE UNCHANGED vars \/ Operate
  BY <1>1 DEF vars, Operate, legacyVars, stores, Bootstrap
<1>2. ASSUME NEW p \in Procs, ImportStep(p) \/ LegacyMove(p)
      PROVE  \/ UNCHANGED <<sidecar, file, ring>>
             \/ Acquire(p) \/ Rewrites(p) \/ Unkeys(p) \/ Selects(p)
  <2>1. CASE ImportStep(p)
    BY <2>1 DEF ImportStep, Preview, PlanImport, ResolveSecrets, SaveSecrets, CompareSecrets,
       BeginCutover, ProveSecrets, Selects, stores
  <2>2. CASE LegacyStep(p)
    BY <2>2 DEF LegacyStep, Freeze, ReadFile, ResolveSentinels, Store, Migrate, Reset, Select,
       Initialize, ReadSource, Busy, LoadForMigration, Probe, Release, Crash, Rewrites, Unkeys,
       Selects, stores
  <2>3. QED BY <1>2, <2>1, <2>2 DEF LegacyMove
<1>3. ASSUME NEW p \in Procs, Acquire(p)
      PROVE  file' = file /\ ring' = ring /\ Bootstrap' = Bootstrap
  <2>1. file.marker \in Selections BY AtProc DEF File
  <2>2. QED BY <1>3, <2>1, Unselected DEF Acquire, stores, Materialized, Bootstrap
<1>4. ASSUME NEW p \in Procs, Rewrites(p)
      PROVE  lock = p /\ ring' = ring /\ Bootstrap' = Bootstrap
  <2>1. ProcOK(p) /\ proc[p].pc \in Working /\ ring' = ring /\ UNCHANGED sidecar
    BY <1>4, AtProc DEF Rewrites, WriteFile, Unlink, Working
  <2>2. file' = file \/ (~file'.marker.exists /\ file'.marker \in Selections)
    <3>1. CASE file' = Absent BY <3>1, AbsentType DEF File
    <3>2. CASE WriteFile(p) /\ file' = Written(p)
      BY <3>2, WrittenMeans DEF WriteFile, File
    <3>3. QED BY <1>4, <3>1, <3>2 DEF Rewrites, WriteFile, Unlink
  <2>3. Bootstrap' = Bootstrap BY <2>1, <2>2, MarkerKept DEF Bootstrap
  <2>4. QED BY <2>1, <2>3 DEF ProcOK, Locked
<1>5. ASSUME NEW p \in Procs, Unkeys(p)
      PROVE  lock = p /\ file' = file /\ Bootstrap' = Bootstrap
  <2>1. ProcOK(p) /\ proc[p].pc \in Working /\ UNCHANGED <<sidecar, file>>
    BY <1>5, AtProc DEF Unkeys, Push, Purge, Clean, Working
  <2>2. QED BY <2>1 DEF ProcOK, Locked, Bootstrap
<1>6. ASSUME NEW p \in Procs, Selects(p)
      PROVE  lock = p /\ file' = file /\ ring' = ring
  <2>1. ProcOK(p) /\ proc[p].pc \in Locked BY <1>6, AtProc DEF Selects, Choose, Cutover, Locked
  <2>2. QED BY <1>6, <2>1 DEF ProcOK, Selects, Choose, Cutover, stores
<1>7. UNCHANGED <<sidecar, file, ring>> => Bootstrap' = Bootstrap BY DEF Bootstrap
<1>8. CASE \E p \in Procs : ImportStep(p) \/ LegacyMove(p)
  BY <1>2, <1>3, <1>4, <1>5, <1>6, <1>7, <1>8
<1>9. QED BY <1>1, <1>8 DEF Next

(* The selection only moves on from the selection that was read, by one    *)
(* revision and with the lock held, and no other write changes it.         *)
THEOREM SelectionMoves == Spec => SelectionReviewed
<1>1. ASSUME Inv, [Next]_vars, Bootstrap' # Bootstrap
      PROVE  /\ Bootstrap'.revision = Bootstrap.revision + 1
             /\ lock \in Procs
             /\ proc[lock].expect = Bootstrap
  <2>1. PICK p \in Procs : lock = p /\ Selects(p) BY <1>1, OneWriter
  <2>2. /\ Bootstrap.revision = proc[p].expect.revision /\ Reviewing(proc[p])
        /\ \E m, db : sidecar' = Replaced(m, db)
    <3>1. CASE Choose(p)
      <4>1. UNCHANGED file BY <3>1 DEF Choose, stores
      <4>2. ~UNCHANGED sidecar BY <1>1, <4>1 DEF Bootstrap
      <4>3. proc[p].pc = "choosing" /\ ProcOK(p) BY <3>1, <1>1, AtProc DEF Choose
      <4>4. Reviewing(proc[p]) BY <4>3 DEF ProcOK, PlaceOK, Reviewing
      <4>5. QED BY <3>1, <4>2, <4>4 DEF Choose
    <3>2. CASE Cutover(p)
      <4>1. UNCHANGED file BY <3>2 DEF Cutover, stores
      <4>2. ~UNCHANGED sidecar BY <1>1, <4>1 DEF Bootstrap
      <4>3. proc[p].pc = "cutting" /\ ProcOK(p) BY <3>2, <1>1, AtProc DEF Cutover
      <4>4. Reviewing(proc[p]) BY <4>3 DEF ProcOK, PlaceOK, Reviewing
      <4>5. QED BY <3>2, <4>2, <4>4 DEF Cutover, Guarded
    <3>3. QED BY <2>1, <3>1, <3>2 DEF Selects
  <2>3. proc[p].expect = Bootstrap BY <1>1, <2>2, AtProc DEF ProcOK, ReviewOK
  <2>4. Bootstrap'.revision = Bootstrap.revision + 1 BY <2>2 DEF Replaced, Bootstrap
  <2>5. QED BY <2>1, <2>3, <2>4
<1>2. Inv /\ [Next]_vars =>
        [Bootstrap' # Bootstrap => /\ Bootstrap'.revision = Bootstrap.revision + 1
                                   /\ lock \in Procs
                                   /\ proc[lock].expect = Bootstrap]_legacyVars
  BY <1>1
<1>3. QED BY <1>2, InvHolds, PTL DEF Spec, SelectionReviewed

(* Behind the fence nothing is written: with managed mode selected, only a *)
(* process that has frozen legacy mode may still write the legacy stores.  *)
THEOREM FenceHolds == Spec => StoresFenced
<1>1. ASSUME Inv, [Next]_vars, (file' # file /\ file'.present) \/ ring' # ring
      PROVE  Bootstrap.mode = "legacy" \/ \E p \in Procs : lock = p /\ proc[p].frozen = "legacy"
  <2>1. PICK p \in Procs : lock = p /\ Writable(p)
    <3>1. CASE ring' # ring
      <4>1. PICK p \in Procs : lock = p /\ Unkeys(p) BY <1>1, <3>1, OneWriter
      <4>2. Writable(p)
        BY <3>1, <4>1 DEF Unkeys, Push, Purge, Clean, SetSecret
      <4>3. QED BY <4>1, <4>2
    <3>2. CASE file' # file /\ file'.present
      <4>1. PICK p \in Procs : lock = p /\ Rewrites(p) BY <1>1, <3>2, OneWriter
      <4>2. Writable(p) BY <3>2, <4>1 DEF Rewrites, WriteFile, Unlink, Absent
      <4>3. QED BY <4>1, <4>2
    <3>3. QED BY <1>1, <3>1, <3>2
  <2>2. QED BY <2>1 DEF Writable, Mode
<1>2. Inv /\ [Next]_vars =>
        [(file' # file /\ file'.present) \/ ring' # ring =>
           Bootstrap.mode = "legacy" \/ \E p \in Procs : lock = p /\ proc[p].frozen = "legacy"]_legacyVars
  BY <1>1
<1>3. QED BY <1>2, InvHolds, PTL DEF Spec, StoresFenced

(* A migration changes where the secrets are kept and no account.          *)
THEOREM MigrationIsFaithful == Spec => MigrationKeepsSecrets
<1>1. ASSUME Inv, [Next]_vars, NEW p \in Procs, proc[p].op = "migrate", file' # file, lock = p,
             NEW e \in Entries
      PROVE  Resolved(file'.creds)[e] = Resolved(file.creds)[e]
  <2>1. PICK q \in Procs : lock = q /\ Rewrites(q) BY <1>1, OneWriter
  <2>2. q = p BY <1>1, <2>1
  <2>3. ProcOK(p) BY <1>1, AtProc
  <2>4. WriteFile(p) BY <1>1, <2>1, <2>2, <2>3 DEF Rewrites, Unlink, ProcOK, PlaceOK
  <2>5. file' = Written(p) /\ proc[p].pc = "pushing" /\ proc[p].todo = {}
    BY <1>1, <2>4 DEF WriteFile
  <2>6. Meaning(file'.creds, ring) = proc[p].file.creds BY <1>1, <2>5, WrittenMeans
  <2>7. proc[p].file.creds = Meaning(file.creds, ring)
    BY <1>1, <2>3, <2>5 DEF ProcOK, StoringOK
  <2>8. QED BY <2>6, <2>7, ResolvedMeaning
<1>2. Inv /\ [Next]_vars =>
        [\A p \in Procs :
           proc[p].op = "migrate" /\ file' # file /\ lock = p =>
             \A e \in Entries : Resolved(file'.creds)[e] = Resolved(file.creds)[e]]_legacyVars
  BY <1>1
<1>3. QED BY <1>2, InvHolds, PTL DEF Spec, MigrationKeepsSecrets

(* The step with which an import selects managed mode. *)
LEMMA AdoptingIs ==
  ASSUME Inv, [Next]_vars, NEW p \in Procs, proc[p].op = "import", lock = p, Bootstrap' # Bootstrap
  PROVE  Cutover(p) /\ Guarded(p) /\ ImportOK(proc[p], importer[p], catalog, file, ring)
         /\ proc[p].pc = "cutting"
<1>1. PICK q \in Procs : lock = q /\ Selects(q) BY OneWriter
<1>2. q = p /\ ProcOK(p) BY <1>1, AtProc
<1>3. Cutover(p) BY <1>1, <1>2 DEF Selects, Choose, ProcOK, PlaceOK
<1>4. UNCHANGED file BY <1>3 DEF Cutover, stores
<1>5. ~UNCHANGED sidecar BY <1>4 DEF Bootstrap
<1>6. QED BY <1>2, <1>3, <1>5 DEF Cutover, ProcOK

LEMMA GuardedSecrets ==
  ASSUME Inv, NEW p \in Procs, Guarded(p), proc[p].pc = "cutting",
         ImportOK(proc[p], importer[p], catalog, file, ring)
  PROVE  /\ \A e \in Entries : catalog.secret[e] = importer[p].target.secret[e]
         /\ \A e \in Entries : importer[p].proven[e] # None =>
              /\ catalog.secret[e] = importer[p].proven[e]
              /\ Resolved(file.creds)[e] = importer[p].proven[e]
         /\ \A e \in Entries : importer[p].source[e] # None => catalog.secret[e] # None
<1>1. proc[p].op = "import" /\ proc[p].todo = {} /\ importer[p].accounts = {}
  BY AtProc DEF ProcOK, PlaceOK, ImportOK
<1>2. \A e \in Entries : catalog.secret[e] = importer[p].target.secret[e]
  BY <1>1, EntryPairs DEF Guarded, ImportOK
<1>3. QED BY <1>1, <1>2, ResolvedMeaning DEF ImportOK

(* When an import selects managed mode, what it has proven is at that      *)
(* moment what both stores hold.                                           *)
THEOREM CutoverIsProved == Spec => CutoverProved
<1>1. ASSUME Inv, [Next]_vars, NEW p \in Procs, Adopting(p), NEW e \in Entries,
             importer[p].proven[e] # None
      PROVE  /\ catalog.secret[e] = importer[p].proven[e]
             /\ Resolved(file.creds)[e] = importer[p].proven[e]
  <2>1. proc[p].op = "import" /\ lock = p /\ Bootstrap' # Bootstrap
    BY <1>1, AtProc DEF Adopting, ProcOK, Locked
  <2>2. QED BY <1>1, <2>1, AdoptingIs, GuardedSecrets
<1>2. Inv /\ [Next]_vars =>
        [\A p \in Procs : Adopting(p) =>
           \A e \in Entries : importer[p].proven[e] # None =>
             catalog.secret[e] = importer[p].proven[e]
             /\ Resolved(file.creds)[e] = importer[p].proven[e]]_vars
  BY <1>1
<1>3. QED BY <1>2, InvHolds, PTL DEF Spec, CutoverProved

(* Managed mode is selected over no legacy account that the catalog lacks. *)
THEOREM NobodyLeftBehind == Spec => NoAccountLeftBehind
<1>1. ASSUME Inv, [Next]_vars, NEW p \in Procs, proc[p].op \in {"initialize", "import"}, lock = p,
             Bootstrap.mode = "legacy", Bootstrap'.mode = "managed",
             NEW e \in Entries, file.creds[e] # None
      PROVE  catalog.secret[e] # None
  <2>1. Bootstrap' # Bootstrap BY <1>1
  <2>2. Source(file)[e] # None BY <1>1, LegacyAssumption DEF Source
  <2>3. CASE proc[p].op = "import"
    <3>1. Guarded(p) /\ proc[p].pc = "cutting"
          /\ ImportOK(proc[p], importer[p], catalog, file, ring)
      BY <1>1, <2>1, <2>3, AdoptingIs
    <3>2. importer[p].source[e] # None BY <2>2, <3>1 DEF Guarded
    <3>3. QED BY <1>1, <3>1, <3>2, GuardedSecrets
  <2>4. CASE proc[p].op = "initialize"
    <3>1. PICK q \in Procs : lock = q /\ Selects(q) BY <1>1, <2>1, OneWriter
    <3>2. q = p /\ ProcOK(p) BY <1>1, <3>1, AtProc
    <3>3. Choose(p) BY <2>4, <3>1, <3>2 DEF Selects, Cutover, ProcOK, PlaceOK
    <3>4. UNCHANGED file BY <3>3 DEF Choose, stores
    <3>5. ~UNCHANGED sidecar BY <2>1, <3>4 DEF Bootstrap
    <3>6. /\ Bootstrap.revision = proc[p].expect.revision /\ Source(file) = Source(proc[p].file)
          /\ \E db : sidecar' = Replaced(proc[p].target, db)
          /\ proc[p].pc = "choosing"
      BY <2>4, <3>3, <3>5 DEF Choose
    <3>7. proc[p].target = "managed" BY <1>1, <3>6 DEF Replaced, Bootstrap
    <3>8. proc[p].expect = Bootstrap BY <2>4, <3>2, <3>6 DEF ProcOK, ReviewOK, Reviewing
    <3>9. proc[p].file.creds = NoCredentials
      BY <1>1, <2>4, <3>2, <3>6, <3>7, <3>8 DEF ProcOK, ReviewOK
    <3>10. Source(proc[p].file)[e] = None BY <3>9, LegacyAssumption DEF Source, NoCredentials
    <3>11. QED BY <2>2, <3>6, <3>10
  <2>5. QED BY <1>1, <2>3, <2>4
<1>2. Inv /\ [Next]_vars =>
        [\A p \in Procs :
           proc[p].op \in {"initialize", "import"} /\ lock = p
           /\ Bootstrap.mode = "legacy" /\ Bootstrap'.mode = "managed" =>
             \A e \in Entries : file.creds[e] # None => catalog.secret[e] # None]_vars
  BY <1>1
<1>3. QED BY <1>2, InvHolds, PTL DEF Spec, NoAccountLeftBehind

=============================================================================
