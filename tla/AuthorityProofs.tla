-------------------------- MODULE AuthorityProofs --------------------------
(***************************************************************************)
(* AuthorityResolution implements AtomicResolution, for any number of      *)
(* resolutions, processes, accounts and credentials: an answer that was    *)
(* read in pieces is what the catalog held when the third pass began.  It  *)
(* rests on the revision of the account, which no step takes back and      *)
(* every change of the account raises: what was read at a revision is what *)
(* the account is as long as it has that revision.                         *)
(***************************************************************************)
EXTENDS AuthorityResolution, CredentialLifecycleProofs

RowReadPcs == {"endpoints", "bindings", "compare"}
PointPcs == {"account"} \cup RowReadPcs

(* The account a pass has read is enabled and has the name that was asked  *)
(* for; if its revision is still the one read, so is its row.              *)
RowOK(t, name) ==
  /\ t.row.id \in Accounts
  /\ t.row.name = name /\ t.row.enabled
  /\ t.row.revision <= account[t.row.id].revision
  /\ t.row.revision = account[t.row.id].revision => t.row = RowOf(t.row.id)

EndpointsOK(t) ==
  t.row.revision = account[t.row.id].revision => t.endpoints = account[t.row.id].endpoint

BindingsOK(t) ==
  t.row.revision = account[t.row.id].revision => t.bindings = ActiveBindings(t.row.id)

(* What the pass that runs has read so far. *)
PassOK(s) ==
  /\ s.pc \in RowReadPcs => RowOK(s.read, s.name)
  /\ s.pc \in {"bindings", "compare"} => EndpointsOK(s.read)
  /\ s.pc = "compare" => BindingsOK(s.read)

(* What the first pass has read. *)
InitialOK(s) ==
  s.pass > 1 =>
    RowOK(s.initial, s.name) /\ EndpointsOK(s.initial) /\ BindingsOK(s.initial)

(* The third pass reads after the point; if the account still had the      *)
(* revision of the first pass then, it was as the first pass has read it.  *)
PointOK(s) ==
  s.pass = 3 /\ s.pc \in PointPcs =>
    /\ s.point.row.id = s.initial.row.id
    /\ s.point.row.revision <= account[s.initial.row.id].revision
    /\ s.initial.row.revision <= s.point.row.revision
    /\ s.initial.row.revision = s.point.row.revision =>
         /\ s.point.row = s.initial.row
         /\ s.point.endpoints = s.initial.endpoints
         /\ s.point.bindings = s.initial.bindings
    /\ s.read.catalog = s.point.catalog
    /\ s.pc \in RowReadPcs /\ s.read.row.id = s.initial.row.id =>
         s.point.row.revision <= s.read.row.revision

ReaderOK(s) ==
  /\ s.pc \in {"secrets"} => s.pass = 3
  /\ s.pc = "done" => s.pass = 3
  /\ PassOK(s) /\ InitialOK(s) /\ PointOK(s)

ReaderInv == ReaderTypeOK /\ \A r \in Readers : ReaderOK(reader[r])

----------------------------------------------------------------------------
(* What is read has its type. *)

LEMMA SnapshotTypes ==
  ASSUME TypeOK
  PROVE  /\ EmptySnapshot(catalog) \in Snapshot
         /\ \A a \in Accounts : /\ RowOf(a) \in Row /\ ActiveBindings(a) \in [Roles -> Bindings \cup {None}]
                                /\ account[a].endpoint \in [Roles -> Hosts \cup {None}]
                                /\ CurrentSnapshot(a) \in Snapshot
<1>1. catalog \in Catalog /\ NoRow \in Row
  BY DEF TypeOK, NoRow, Row
<1>2. EmptySnapshot(catalog) \in Snapshot
  BY <1>1 DEF EmptySnapshot, Snapshot
<1>3. ASSUME NEW a \in Accounts
      PROVE  /\ RowOf(a) \in Row /\ ActiveBindings(a) \in [Roles -> Bindings \cup {None}]
             /\ account[a].endpoint \in [Roles -> Hosts \cup {None}]
  <2>1. RowOf(a) \in Row /\ account[a].endpoint \in [Roles -> Hosts \cup {None}]
    BY DEF TypeOK, Account, RowOf, Row
  <2>2. ASSUME NEW role \in Roles, ActiveOf(a, role) # {}
        PROVE  (CHOOSE b \in ActiveOf(a, role) : TRUE) \in Bindings
    BY <2>2, QueryTypes
  <2> QED BY <2>1, <2>2 DEF ActiveBindings
<1> QED BY <1>1, <1>2, <1>3 DEF CurrentSnapshot, Snapshot

LEMMA IdleReaderType ==
  ASSUME TypeOK
  PROVE  IdleReader \in Reader
BY SnapshotTypes DEF IdleReader, Reader

LEMMA MovedTypes ==
  ASSUME NEW k \in Reader, NEW p \in 0..3, NEW pc \in {"catalog", "secrets"}
  PROVE  /\ [k EXCEPT !.pass = p, !.pc = pc] \in Reader
         /\ \A t \in Snapshot : [k EXCEPT !.initial = t, !.pass = p, !.pc = pc] \in Reader
         /\ \A n \in Names, roles \in SUBSET Roles :
              [k EXCEPT !.pc = pc, !.pass = p, !.name = n, !.roles = roles, !.missing = roles] \in Reader
BY DEF Reader

LEMMA EnabledTypes ==
  ASSUME TypeOK, NEW n, NEW a \in Enabled(n)
  PROVE  a \in Accounts /\ account[a].enabled /\ account[a].name = n /\ account[a].revision \in Nat
BY DEF Enabled, Named, TypeOK, Account

----------------------------------------------------------------------------
(* Other processes. *)

(* An account whose revision a step leaves alone is left alone. *)
Steady(a) == account'[a].revision = account[a].revision => account'[a] = account[a]

LEMMA RaisesRevision ==
  ASSUME TypeOK, RowsOK, [Next]_vars
  PROVE  \A a \in Accounts : Steady(a)
<1> \A a \in Accounts : account[a].revision \in Nat
  BY TableTypes
<1> account = [a \in Accounts |-> account[a]] /\ account \in [Accounts -> Account]
  BY DEF TypeOK
<1>2. CASE account' = account
  BY <1>2 DEF Steady
<1>3. CASE Administer
  <2>1. ASSUME NEW a \in Accounts, NEW n \in Names, NEW ep \in Endpoints, AddAccount(a, n, ep)
        PROVE  \A b \in Accounts : Steady(b)
    <3>1. account[a].revision = 0
      BY <2>1, AbsentUnused DEF AddAccount
    <3> QED BY <2>1, <3>1 DEF AddAccount, Steady
  <2>2. ASSUME NEW n, NEW x, NEW m, NEW ep, UpdateAccount(n, x, m, ep) PROVE \A b \in Accounts : Steady(b)
    BY <2>2, TableTypes DEF UpdateAccount, Account, Steady
  <2>3. ASSUME NEW n, NEW x, DisableAccount(n, x) PROVE \A b \in Accounts : Steady(b)
    BY <2>3, TableTypes DEF DisableAccount, Account, Steady
  <2> QED BY <1>2, <1>3, <2>1, <2>2, <2>3 DEF Administer, UpdatePolicy
<1>4. ASSUME NEW c \in Clients, Begin(c) PROVE \A b \in Accounts : Steady(b)
  <2>1. ASSUME NEW n, NEW x, NEW r, RemoveSecret(c, n, x, r) PROVE \A b \in Accounts : Steady(b)
    <3>1. PICK a \in Named(n) : account' = [account EXCEPT ![a].revision = @ + 1]
      BY <2>1 DEF RemoveSecret
    <3> QED BY <3>1, TableTypes DEF Account, Steady
  <2>2. ASSUME NEW n, NEW x, SoftRemoveAccount(c, n, x) PROVE \A b \in Accounts : Steady(b)
    <3>1. PICK a \in Named(n) :
            account' = [account EXCEPT ![a].state = "removed", ![a].enabled = FALSE, ![a].revision = @ + 1]
      BY <2>2 DEF SoftRemoveAccount
    <3> QED BY <3>1, TableTypes DEF Account, Steady
  <2>3. \A n, x, r, b : SetSecret(c, n, x, r, b) => account' = account
    BY DEF SetSecret
  <2>4. \A n, x : EnableAccount(c, n, x) => account' = account
    BY DEF EnableAccount
  <2> QED BY <1>2, <1>4, <2>1, <2>2, <2>3, <2>4 DEF Begin, CleanupCredentials
<1>5. ASSUME NEW c \in Clients, Continue(c) PROVE \A b \in Accounts : Steady(b)
  <2>1. CASE ActivateBinding(c)
    BY <2>1 DEF ActivateBinding, Account, Steady
  <2>2. CASE CommitEnable(c)
    BY <2>2 DEF CommitEnable, Account, Steady
  <2>3. CASE ~ActivateBinding(c) /\ ~CommitEnable(c)
    <3>1. \A b : (DeleteSecret(c, b) => account' = account) /\ (ResolveForEnable(c, b) => account' = account)
      BY DEF DeleteSecret, ResolveForEnable
    <3> QED BY <1>2, <1>5, <2>3, <3>1 DEF Continue, StoreSecret, ActivationFails, ActivationRolledBack,
              DiscardSecret, StartMarking, MarkSuperseded, Finish
  <2> QED BY <2>1, <2>2, <2>3
<1>6. ASSUME NEW c \in Clients, Crash(c) PROVE account' = account
  BY <1>6 DEF Crash
<1> QED BY <1>2, <1>3, <1>4, <1>5, <1>6 DEF Next, vars

(* What was read at a revision is what the account is at that revision,    *)
(* whatever other processes do.                                            *)
LEMMA ReadStays ==
  ASSUME TypeOK, \A a \in Accounts : Steady(a) /\ Revised(a),
         NEW t \in Snapshot, NEW name, t.row.id \in Accounts
  PROVE  /\ RowOK(t, name) => RowOK(t, name)'
         /\ RowOK(t, name) /\ EndpointsOK(t) => EndpointsOK(t)'
         /\ RowOK(t, name) /\ BindingsOK(t) => BindingsOK(t)'
<1> DEFINE a == t.row.id
<1>1. /\ account[a].revision \in Nat /\ account'[a].revision \in Nat /\ t.row.revision \in Nat
      /\ account[a].revision <= account'[a].revision
  BY DEF Revised, Snapshot, Row
<1>2. CASE account'[a].revision = account[a].revision
  <2>1. account'[a] = account[a]
    BY <1>2 DEF Steady
  <2>2. \A r \in Roles : ActiveOf(a, r)' = ActiveOf(a, r)
    BY <1>2 DEF Revised
  <2>3. ActiveBindings(a)' = ActiveBindings(a)
    <3> DEFINE One(S) == IF S = {} THEN None ELSE CHOOSE b \in S : TRUE
    <3>1. /\ ActiveBindings(a) = [r \in Roles |-> One(ActiveOf(a, r))]
          /\ ActiveBindings(a)' = [r \in Roles |-> One(ActiveOf(a, r)')]
      BY DEF ActiveBindings
    <3> HIDE DEF One
    <3> QED BY <2>2, <3>1
  <2>4. RowOf(a)' = RowOf(a)
    BY <2>1 DEF RowOf
  <2> QED BY <2>1, <2>3, <2>4 DEF RowOK, EndpointsOK, BindingsOK
<1>3. CASE account'[a].revision # account[a].revision
  <2>1. t.row.revision <= account[a].revision =>
          t.row.revision <= account'[a].revision /\ t.row.revision # account'[a].revision
    BY <1>1, <1>3
  <2> QED BY <2>1 DEF RowOK, EndpointsOK, BindingsOK
<1> QED BY <1>2, <1>3

LEMMA ReaderStays ==
  ASSUME TypeOK, \A a \in Accounts : Steady(a) /\ Revised(a), NEW s \in Reader, ReaderOK(s)
  PROVE  ReaderOK(s)'
<1> s.read \in Snapshot /\ s.initial \in Snapshot /\ s.point \in Snapshot /\ s.pass \in 0..3
  BY DEF Reader
<1>1. PassOK(s)'
  BY ReadStays DEF ReaderOK, PassOK, RowReadPcs, RowOK
<1>2. InitialOK(s)'
  BY ReadStays DEF ReaderOK, InitialOK, RowOK
<1>3. PointOK(s)'
  <2> SUFFICES ASSUME s.pass = 3, s.pc \in PointPcs PROVE PointOK(s)'
    BY DEF PointOK
  <2> DEFINE a == s.initial.row.id
  <2>1. a \in Accounts
    BY DEF ReaderOK, InitialOK, RowOK
  <2>2. s.point.row.revision \in Nat
    BY DEF Snapshot, Row
  <2>3. account[a].revision <= account'[a].revision /\ account[a].revision \in Nat /\ account'[a].revision \in Nat
    BY <2>1 DEF Revised
  <2>4. s.point.row.revision <= account[a].revision
    BY DEF ReaderOK, PointOK
  <2>5. s.point.row.revision <= account'[a].revision
    BY <2>2, <2>3, <2>4
  <2> QED BY <2>5 DEF ReaderOK, PointOK
<1> QED BY <1>1, <1>2, <1>3 DEF ReaderOK

----------------------------------------------------------------------------
(* A step of one resolution. *)

LEMMA OneReader ==
  ASSUME ReaderInv, UNCHANGED vars, NEW r \in Readers, NEW s \in Reader, reader' = [reader EXCEPT ![r] = s],
         ReaderOK(s)
  PROVE  ReaderInv'
<1>1. ReaderTypeOK'
  BY DEF ReaderInv, ReaderTypeOK, Reader, Snapshot, Row, Catalog
<1>2. \A q \in Readers : reader'[q] = IF q = r THEN s ELSE reader[q]
  BY DEF ReaderInv, ReaderTypeOK
<1>3. \A t : ReaderOK(t)' <=> ReaderOK(t)
  BY DEF vars, ReaderOK, PassOK, InitialOK, PointOK, RowOK, EndpointsOK, BindingsOK, RowOf, ActiveBindings, ActiveOf
<1>4. \A q \in Readers : ReaderOK(reader'[q])
  BY <1>2 DEF ReaderInv
<1> QED BY <1>1, <1>3, <1>4 DEF ReaderInv

LEMMA BeginsOrFails ==
  ASSUME NEW s, s.pc \in {"idle", "failed", "catalog"}, s.pass \in {0, 1}
  PROVE  ReaderOK(s)
BY DEF ReaderOK, PassOK, InitialOK, PointOK, RowReadPcs, PointPcs

LEMMA FailStep ==
  ASSUME TypeOK, ReaderInv, UNCHANGED vars, NEW r \in Readers, Fail(r)
  PROVE  ReaderInv'
<1> DEFINE s == [IdleReader EXCEPT !.pc = "failed"]
<1>1. s \in Reader /\ s.pc = "failed" /\ s.pass = 0
  <2>1. IdleReader.pass = 0
    BY DEF IdleReader
  <2> QED BY <2>1, IdleReaderType DEF Reader
<1>2. ReaderOK(s)
  <2> HIDE DEF s
  <2> QED BY <1>1, BeginsOrFails
<1> QED BY <1>1, <1>2, OneReader DEF Fail

LEMMA ResolveStep ==
  ASSUME TypeOK, ReaderInv, NEW r \in Readers, NEW n \in Names, NEW roles \in SUBSET Roles, Resolve(r, n, roles)
  PROVE  ReaderInv'
<1> DEFINE s == [IdleReader EXCEPT !.pc = "catalog", !.pass = 1, !.name = n, !.roles = roles, !.missing = roles]
<1>1. s \in Reader /\ s.pc = "catalog" /\ s.pass = 1
  <2>1. IdleReader \in Reader /\ 1 \in 0..3
    BY IdleReaderType
  <2>2. s \in Reader
    BY <2>1, MovedTypes
  <2> QED BY <2>1, <2>2 DEF Reader
<1>2. ReaderOK(s)
  <2> HIDE DEF s
  <2> QED BY <1>1, BeginsOrFails
<1> QED BY <1>1, <1>2, OneReader DEF Resolve

LEMMA CatalogStep ==
  ASSUME TypeOK, ReaderInv, NEW r \in Readers, ReadCatalog(r)
  PROVE  ReaderInv'
<1> DEFINE k == reader[r]
           at == IF k.pass = 3 /\ k.initial.row.id \in Accounts THEN CurrentSnapshot(k.initial.row.id) ELSE k.point
           s == [k EXCEPT !.pc = "account", !.read = EmptySnapshot(catalog), !.point = at]
<1> reader \in [Readers -> Reader] /\ k \in Reader /\ ReaderOK(k) /\ k.pc = "catalog"
  BY DEF ReaderInv, ReaderTypeOK, ReadCatalog
<1>1. reader' = [reader EXCEPT ![r] = s] /\ UNCHANGED vars
  BY DEF ReadCatalog
<1>2. at \in Snapshot
  BY SnapshotTypes DEF Reader
<1>3. /\ s \in Reader /\ s.pc = "account" /\ s.pass = k.pass /\ s.name = k.name /\ s.initial = k.initial
      /\ s.point = at /\ s.read = EmptySnapshot(catalog)
  BY <1>2, SnapshotTypes DEF Reader
<1> HIDE DEF s
<1>4. PointOK(s)
  <2> SUFFICES ASSUME k.pass = 3 PROVE PointOK(s)
    BY <1>3 DEF PointOK
  <2> DEFINE a == k.initial.row.id
  <2>1. /\ a \in Accounts /\ RowOK(k.initial, k.name) /\ EndpointsOK(k.initial) /\ BindingsOK(k.initial)
    BY DEF ReaderOK, InitialOK, RowOK
  <2>2. at = CurrentSnapshot(a)
    BY <2>1
  <2>3. at.row.id = a /\ at.row.revision = account[a].revision /\ account[a].revision \in Nat
    BY <2>1, <2>2, TableTypes DEF CurrentSnapshot, RowOf
  <2>4. at.catalog = catalog /\ at.row = RowOf(a) /\ at.endpoints = account[a].endpoint
        /\ at.bindings = ActiveBindings(a)
    BY <2>2 DEF CurrentSnapshot
  <2>5. s.read.catalog = catalog
    BY <1>3 DEF EmptySnapshot
  <2> HIDE DEF at
  <2> QED BY <1>3, <2>1, <2>3, <2>4, <2>5 DEF PointOK, RowOK, EndpointsOK, BindingsOK, RowReadPcs
<1>5. PassOK(s) /\ InitialOK(s)
  BY <1>3 DEF ReaderOK, PassOK, InitialOK, RowReadPcs
<1> QED BY <1>1, <1>3, <1>4, <1>5, OneReader DEF ReaderOK

LEMMA AccountStep ==
  ASSUME TypeOK, ReaderInv, NEW r \in Readers, ReadAccount(r)
  PROVE  ReaderInv'
<1> DEFINE k == reader[r]
<1> reader \in [Readers -> Reader] /\ k \in Reader /\ ReaderOK(k) /\ k.pc = "account" /\ UNCHANGED vars
  BY DEF ReaderInv, ReaderTypeOK, ReadAccount
<1>1. CASE Fail(r)
  BY <1>1, FailStep
<1>2. ASSUME NEW a \in Enabled(k.name),
             reader' = [reader EXCEPT ![r].pc = "endpoints", ![r].read.row = RowOf(a)]
      PROVE  ReaderInv'
  <2> DEFINE t == [k.read EXCEPT !.row = RowOf(a)]
             s == [k EXCEPT !.pc = "endpoints", !.read = t]
  <2>1. reader' = [reader EXCEPT ![r] = s]
    BY <1>2
  <2>2. a \in Accounts /\ account[a].enabled /\ account[a].name = k.name /\ account[a].revision \in Nat
    BY EnabledTypes
  <2>3. t \in Snapshot /\ t.row = RowOf(a) /\ t.catalog = k.read.catalog
    BY <2>2, SnapshotTypes DEF Reader, Snapshot
  <2>4. /\ s \in Reader /\ s.pc = "endpoints" /\ s.pass = k.pass /\ s.name = k.name /\ s.initial = k.initial
        /\ s.point = k.point /\ s.read = t
    BY <2>3 DEF Reader
  <2>5. /\ t.row.id = a /\ t.row.name = k.name /\ t.row.enabled /\ t.row.revision = account[a].revision
    BY <2>2, <2>3 DEF RowOf
  <2> HIDE DEF s, t
  <2>6. PassOK(s)
    BY <2>2, <2>3, <2>4, <2>5 DEF PassOK, RowOK
  <2>7. PointOK(s)
    BY <2>3, <2>4, <2>5 DEF ReaderOK, PointOK, PointPcs
  <2>8. InitialOK(s)
    BY <2>4 DEF ReaderOK, InitialOK
  <2> QED BY <2>1, <2>4, <2>6, <2>7, <2>8, OneReader DEF ReaderOK
<1> QED BY <1>1, <1>2 DEF ReadAccount

LEMMA EndpointsStep ==
  ASSUME TypeOK, ReaderInv, NEW r \in Readers, ReadEndpoints(r)
  PROVE  ReaderInv'
<1> DEFINE k == reader[r]
           a == k.read.row.id
           t == [k.read EXCEPT !.endpoints = account[a].endpoint]
           s == [k EXCEPT !.pc = "bindings", !.read = t]
<1> reader \in [Readers -> Reader] /\ k \in Reader /\ ReaderOK(k) /\ k.pc = "endpoints" /\ UNCHANGED vars
  BY DEF ReaderInv, ReaderTypeOK, ReadEndpoints
<1>1. reader' = [reader EXCEPT ![r] = s]
  BY DEF ReadEndpoints
<1>2. a \in Accounts
  BY DEF ReaderOK, PassOK, RowReadPcs, RowOK
<1>3. t \in Snapshot /\ t.row = k.read.row /\ t.catalog = k.read.catalog /\ t.endpoints = account[a].endpoint
  BY <1>2, SnapshotTypes DEF Reader, Snapshot
<1>4. /\ s \in Reader /\ s.pc = "bindings" /\ s.pass = k.pass /\ s.name = k.name /\ s.initial = k.initial
      /\ s.point = k.point /\ s.read = t
  BY <1>3 DEF Reader
<1> HIDE DEF s, t
<1>5. PassOK(s)
  BY <1>3, <1>4 DEF ReaderOK, PassOK, RowOK, EndpointsOK, RowReadPcs
<1>6. PointOK(s) /\ InitialOK(s)
  BY <1>3, <1>4 DEF ReaderOK, PointOK, PointPcs, RowReadPcs, InitialOK
<1> QED BY <1>1, <1>4, <1>5, <1>6, OneReader DEF ReaderOK

LEMMA BindingsStep ==
  ASSUME TypeOK, ReaderInv, NEW r \in Readers, ReadBindings(r)
  PROVE  ReaderInv'
<1> DEFINE k == reader[r]
           a == k.read.row.id
           t == [k.read EXCEPT !.bindings = ActiveBindings(a)]
           s == [k EXCEPT !.pc = "compare", !.read = t]
<1> reader \in [Readers -> Reader] /\ k \in Reader /\ ReaderOK(k) /\ k.pc = "bindings" /\ UNCHANGED vars
  BY DEF ReaderInv, ReaderTypeOK, ReadBindings
<1>1. reader' = [reader EXCEPT ![r] = s]
  BY DEF ReadBindings
<1>2. a \in Accounts
  BY DEF ReaderOK, PassOK, RowReadPcs, RowOK
<1>3. /\ t \in Snapshot /\ t.row = k.read.row /\ t.catalog = k.read.catalog /\ t.endpoints = k.read.endpoints
      /\ t.bindings = ActiveBindings(a)
  BY <1>2, SnapshotTypes DEF Reader, Snapshot
<1>4. /\ s \in Reader /\ s.pc = "compare" /\ s.pass = k.pass /\ s.name = k.name /\ s.initial = k.initial
      /\ s.point = k.point /\ s.read = t
  BY <1>3 DEF Reader
<1> HIDE DEF s, t
<1>5. PassOK(s)
  BY <1>3, <1>4 DEF ReaderOK, PassOK, RowOK, EndpointsOK, BindingsOK, RowReadPcs
<1>6. PointOK(s) /\ InitialOK(s)
  BY <1>3, <1>4 DEF ReaderOK, PointOK, PointPcs, RowReadPcs, InitialOK
<1> QED BY <1>1, <1>4, <1>5, <1>6, OneReader DEF ReaderOK

LEMMA CompareStep ==
  ASSUME TypeOK, ReaderInv, NEW r \in Readers, Compare(r)
  PROVE  ReaderInv'
<1> DEFINE k == reader[r]
<1> reader \in [Readers -> Reader] /\ k \in Reader /\ ReaderOK(k) /\ k.pc = "compare" /\ UNCHANGED vars
  BY DEF ReaderInv, ReaderTypeOK, Compare
<1>1. CASE Fail(r)
  BY <1>1, FailStep
(* The first pass is what the later ones are compared with. *)
<1>2. CASE /\ k.pass = 1
           /\ reader' = [reader EXCEPT ![r].initial = k.read, ![r].pass = 2, ![r].pc = "catalog"]
  <2> DEFINE s == [k EXCEPT !.initial = k.read, !.pass = 2, !.pc = "catalog"]
  <2>1. reader' = [reader EXCEPT ![r] = s]
    BY <1>2
  <2>2. s \in Reader /\ s.pc = "catalog" /\ s.pass = 2 /\ s.name = k.name /\ s.initial = k.read
    <3>1. k.read \in Snapshot /\ 2 \in 0..3
      BY DEF Reader
    <3>2. s \in Reader
      BY <3>1, MovedTypes
    <3> QED BY <3>2 DEF Reader
  <2> HIDE DEF s
  <2>3. ReaderOK(s)
    BY <2>2 DEF ReaderOK, PassOK, InitialOK, PointOK, RowReadPcs
  <2> QED BY <2>1, <2>2, <2>3, OneReader
<1>3. ASSUME k.pass > 1, NEW s \in Reader, reader' = [reader EXCEPT ![r] = s], s.pass = 3,
             s.pc \in {"catalog", "secrets", "done"}, s.name = k.name, s.initial = k.initial
      PROVE  ReaderInv'
  <2>1. ReaderOK(s)
    BY <1>3 DEF ReaderOK, PassOK, InitialOK, PointOK, RowReadPcs, PointPcs
  <2> QED BY <1>3, <2>1, OneReader
<1>4. CASE k.pass = 3 /\ reader' = [reader EXCEPT ![r].pc = "done"]
  <2> DEFINE s == [k EXCEPT !.pc = "done"]
  <2>1. reader' = [reader EXCEPT ![r] = s]
    BY <1>4
  <2>2. s \in Reader /\ s.pc = "done" /\ s.pass = 3 /\ s.name = k.name /\ s.initial = k.initial
    BY <1>4 DEF Reader
  <2>3. k.pass > 1
    BY <1>4
  <2> HIDE DEF s
  <2> QED BY <1>3, <2>1, <2>2, <2>3
<1>5. CASE /\ k.pass = 2
           /\ reader' = [reader EXCEPT ![r].pass = 3, ![r].pc = IF k.missing = {} THEN "catalog" ELSE "secrets"]
  <2> DEFINE s == [k EXCEPT !.pass = 3, !.pc = IF k.missing = {} THEN "catalog" ELSE "secrets"]
  <2>1. reader' = [reader EXCEPT ![r] = s]
    BY <1>5
  <2>2. s \in Reader /\ s.pc \in {"catalog", "secrets"} /\ s.pass = 3 /\ s.name = k.name /\ s.initial = k.initial
    <3>1. 3 \in 0..3 /\ (IF k.missing = {} THEN "catalog" ELSE "secrets") \in {"catalog", "secrets"}
      BY DEF Reader
    <3>2. s \in Reader
      BY <3>1, MovedTypes
    <3> QED BY <3>2 DEF Reader
  <2>3. k.pass > 1
    BY <1>5
  <2> HIDE DEF s
  <2> QED BY <1>3, <2>1, <2>2, <2>3
<1> QED BY <1>1, <1>2, <1>4, <1>5 DEF Compare

LEMMA SecretStep ==
  ASSUME TypeOK, ReaderInv, NEW r \in Readers, NEW role \in Roles, GetSecret(r, role)
  PROVE  ReaderInv'
<1> DEFINE k == reader[r]
<1> reader \in [Readers -> Reader] /\ k \in Reader /\ ReaderOK(k) /\ k.pc = "secrets" /\ UNCHANGED vars
  BY DEF ReaderInv, ReaderTypeOK, GetSecret
<1>1. CASE Fail(r)
  BY <1>1, FailStep
<1>2. ASSUME NEW pc \in {"catalog", "secrets"}, NEW missing \in SUBSET Roles,
             reader' = [reader EXCEPT ![r] = [k EXCEPT !.missing = missing, !.pc = pc]]
      PROVE  ReaderInv'
  <2> DEFINE s == [k EXCEPT !.missing = missing, !.pc = pc]
  <2>1. s \in Reader /\ s.pc = pc /\ s.pass = 3 /\ s.name = k.name /\ s.initial = k.initial
    BY DEF Reader, ReaderOK
  <2> HIDE DEF s
  <2>2. ReaderOK(s)
    BY <2>1 DEF ReaderOK, PassOK, InitialOK, PointOK, RowReadPcs, PointPcs
  <2> QED BY <1>2, <2>1, <2>2, OneReader DEF s
<1>3. CASE reader' = [reader EXCEPT ![r].missing = @ \ {role},
                        ![r].pc = IF reader[r].missing = {role} THEN "catalog" ELSE "secrets"]
  <2>1. k.missing \ {role} \in SUBSET Roles
    BY DEF Reader
  <2>2. PICK pc \in {"catalog", "secrets"} : reader' = [reader EXCEPT ![r].missing = @ \ {role}, ![r].pc = pc]
    BY <1>3
  <2> QED BY <1>2, <2>1, <2>2
<1> QED BY <1>1, <1>3 DEF GetSecret

----------------------------------------------------------------------------
(* The steps of a resolution are steps of the atomic service. *)

LEMMA ReaderInvStep ==
  ASSUME "commit_rollback" \notin Faults, Inv, AccountInv, ReaderInv, [ReaderNext]_readerVars
  PROVE  ReaderInv'
<1> TypeOK /\ RowsOK
  BY DEF Inv, AccountInv
<1>1. CASE UNCHANGED reader /\ [Next]_vars
  <2>1. \A a \in Accounts : Steady(a) /\ Revised(a)
    BY <1>1, RaisesRevision, TablesStep DEF Sound
  <2>2. \A r \in Readers : reader[r] \in Reader /\ ReaderOK(reader[r])
    BY DEF ReaderInv, ReaderTypeOK
  <2>3. \A r \in Readers : ReaderOK(reader[r])'
    BY <1>1, <2>1, <2>2, ReaderStays
  <2>4. ReaderTypeOK'
    BY <1>1 DEF ReaderInv, ReaderTypeOK, Reader, Snapshot, Row, Catalog
  <2> QED BY <2>3, <2>4 DEF ReaderInv
<1>2. ASSUME NEW r \in Readers, Read(r) PROVE ReaderInv'
  BY <1>2, CatalogStep, AccountStep, EndpointsStep, BindingsStep, CompareStep, SecretStep DEF Read
<1> QED BY <1>1, <1>2, ResolveStep DEF ReaderNext, readerVars, vars

(* What a caller knows changes only by a step of its own call. *)
LEMMA CallOf ==
  ASSUME reader \in [Readers -> Reader], NEW r \in Readers, NEW s, reader' = [reader EXCEPT ![r] = s]
  PROVE  /\ reader'[r] = s
         /\ [q \in Readers |-> Held(q)]' = [[q \in Readers |-> Held(q)] EXCEPT ![r] = Held(r)']
<1>1. \A q \in Readers : reader'[q] = IF q = r THEN s ELSE reader[q]
  OBVIOUS
<1>2. \A q \in Readers \ {r} : Held(q)' = Held(q)
  BY <1>1 DEF Held
<1> QED BY <1>1, <1>2

Answering(s) == s.pass = 3 /\ s.pc \in PointPcs
Waiting(s) == ~Answering(s) /\ s.pc \notin {"idle", "failed", "done"}

LEMMA HeldCases ==
  ASSUME NEW r \in Readers
  PROVE  /\ reader[r].pc \in {"idle", "done", "failed"} => Held(r).state \in {"idle", "done", "failed"}
         /\ reader[r].pc = "failed" => Held(r) = [state |-> "failed"]
         /\ reader[r].pc = "done" => Held(r) = [state |-> "done", name |-> reader[r].name, answer |-> reader[r].initial]
         /\ Answering(reader[r]) => Held(r) = [state |-> "taken", name |-> reader[r].name, answer |-> reader[r].point]
         /\ Waiting(reader[r]) => Held(r) = [state |-> "pending", name |-> reader[r].name]
BY DEF Held, Answering, Waiting, PointPcs, RowReadPcs

LEMMA WorldStays ==
  ASSUME UNCHANGED vars
  PROVE  UNCHANGED [catalog |-> catalog, accounts |-> [a \in Accounts |-> CurrentSnapshot(a)]]
<1>1. \A a \in Accounts : CurrentSnapshot(a)' = CurrentSnapshot(a)
  BY DEF vars, CurrentSnapshot, RowOf, ActiveBindings, ActiveOf
<1> QED BY <1>1 DEF vars

(* A step that tells the caller nothing. *)
LEMMA Silent ==
  ASSUME reader \in [Readers -> Reader], NEW r \in Readers, NEW s, reader' = [reader EXCEPT ![r] = s],
         Held(r)' = Held(r)
  PROVE  Atomic!Next
<1>1. [q \in Readers |-> Held(q)]' = [q \in Readers |-> Held(q)]
  BY CallOf
<1> QED BY <1>1 DEF Atomic!Next, Atomic!Change

LEMMA FailIsAtomic ==
  ASSUME ReaderInv, UNCHANGED vars, NEW r \in Readers, Fail(r), reader[r].pc \notin {"idle", "failed", "done"}
  PROVE  Atomic!Next
<1> DEFINE call == [q \in Readers |-> Held(q)]
<1>1. reader \in [Readers -> Reader]
  BY DEF ReaderInv, ReaderTypeOK
<1>2. reader'[r].pc = "failed" /\ call' = [call EXCEPT ![r] = Held(r)']
  BY <1>1, CallOf DEF Fail, IdleReader
<1>3. Held(r)' = [state |-> "failed"]
  BY <1>2 DEF Held
<1>4. Held(r).state \in {"pending", "taken"}
  BY HeldCases DEF Waiting
<1>5. Atomic!Fail(r)
  <2>1. call[r].state \in {"pending", "taken"}
    BY <1>4
  <2>2. call' = [call EXCEPT ![r] = [state |-> "failed"]]
    BY <1>2, <1>3
  <2> QED BY <2>1, <2>2, WorldStays DEF Atomic!Fail
<1> QED BY <1>5 DEF Atomic!Next

(* The third pass begins: the answer is taken, not yet delivered. *)
LEMMA CatalogIsAtomic ==
  ASSUME TypeOK, ReaderInv, NEW r \in Readers, ReadCatalog(r)
  PROVE  Atomic!Next
<1> DEFINE call == [q \in Readers |-> Held(q)]
           k == reader[r]
           at == IF k.pass = 3 /\ k.initial.row.id \in Accounts THEN CurrentSnapshot(k.initial.row.id) ELSE k.point
           s == [k EXCEPT !.pc = "account", !.read = EmptySnapshot(catalog), !.point = at]
<1> reader \in [Readers -> Reader] /\ k \in Reader /\ ReaderOK(k) /\ k.pc = "catalog" /\ UNCHANGED vars
  BY DEF ReaderInv, ReaderTypeOK, ReadCatalog
<1>1. reader' = [reader EXCEPT ![r] = s]
  BY DEF ReadCatalog
<1>2. s.pc = "account" /\ s.pass = k.pass /\ s.name = k.name /\ s.point = at
  BY DEF Reader
<1> HIDE DEF s
<1>3. reader'[r] = s /\ call' = [call EXCEPT ![r] = Held(r)']
  BY <1>1, CallOf
<1>4. Held(r) = [state |-> "pending", name |-> k.name]
  BY HeldCases DEF Waiting, Answering, PointPcs, RowReadPcs
<1>5. CASE k.pass # 3
  <2>1. Held(r)' = Held(r)
    BY <1>2, <1>3, <1>4, <1>5 DEF Held
  <2> QED BY <1>1, <2>1, Silent
<1>6. CASE k.pass = 3
  <2> DEFINE a == k.initial.row.id
  <2>1. a \in Accounts
    BY <1>6 DEF ReaderOK, InitialOK, RowOK
  <2>2. at = CurrentSnapshot(a)
    BY <1>6, <2>1
  <2>3. Held(r)' = [state |-> "taken", name |-> k.name, answer |-> CurrentSnapshot(a)]
    BY <1>2, <1>3, <1>6, <2>2 DEF Held
  <2>4. Atomic!Take(r, a)
    <3>1. call[r] = [state |-> "pending", name |-> k.name]
      BY <1>4
    <3> DEFINE world == [catalog |-> catalog, accounts |-> [b \in Accounts |-> CurrentSnapshot(b)]]
    <3>2. world.accounts[a] = CurrentSnapshot(a) /\ call[r].name = k.name
      BY <2>1, <3>1
    <3>3. call' = [call EXCEPT ![r] = [state |-> "taken", name |-> call[r].name, answer |-> world.accounts[a]]]
      <4> HIDE DEF world, call
      <4> QED BY <1>3, <2>3, <3>2
    <3> QED BY <3>1, <3>3, WorldStays DEF Atomic!Take
  <2> QED BY <2>1, <2>4 DEF Atomic!Next
<1> QED BY <1>5, <1>6

LEMMA ResolveIsAtomic ==
  ASSUME ReaderInv, NEW r \in Readers, NEW n \in Names, NEW roles, Resolve(r, n, roles)
  PROVE  Atomic!Next
<1> DEFINE call == [q \in Readers |-> Held(q)]
           s == [IdleReader EXCEPT !.pc = "catalog", !.pass = 1, !.name = n, !.roles = roles, !.missing = roles]
<1>1. reader \in [Readers -> Reader] /\ reader' = [reader EXCEPT ![r] = s] /\ UNCHANGED vars
  BY DEF ReaderInv, ReaderTypeOK, Resolve
<1>2. s.pc = "catalog" /\ s.pass = 1 /\ s.name = n
  BY DEF IdleReader
<1> HIDE DEF s
<1>3. reader'[r] = s /\ call' = [call EXCEPT ![r] = Held(r)']
  BY <1>1, CallOf
<1>4. Held(r)' = [state |-> "pending", name |-> n]
  BY <1>2, <1>3 DEF Held
<1>5. call[r].state \in {"idle", "done", "failed"}
  BY HeldCases DEF Resolve
<1>6. Atomic!Begin(r, n)
  <2>1. call' = [call EXCEPT ![r] = [state |-> "pending", name |-> n]]
    BY <1>3, <1>4
  <2> QED BY <1>1, <1>5, <2>1, WorldStays DEF Atomic!Begin
<1> QED BY <1>6 DEF Atomic!Next

(* The pieces of a pass are read in silence. *)
LEMMA PiecesAreSilent ==
  ASSUME ReaderInv, NEW r \in Readers, NEW s, reader' = [reader EXCEPT ![r] = s],
         s.name = reader[r].name, s.point = reader[r].point,
         \/ Waiting(reader[r]) /\ Waiting(s)
         \/ Answering(reader[r]) /\ Answering(s)
  PROVE  Atomic!Next
<1>1. reader \in [Readers -> Reader]
  BY DEF ReaderInv, ReaderTypeOK
<1>2. reader'[r] = s
  BY <1>1, CallOf
<1>3. Held(r)' = Held(r)
  BY <1>2 DEF Held, Waiting, Answering, PointPcs, RowReadPcs
<1> QED BY <1>1, <1>3, Silent

(* The last comparison delivers what was taken: the first pass has read it. *)
LEMMA CompareIsAtomic ==
  ASSUME ReaderInv, NEW r \in Readers, Compare(r)
  PROVE  Atomic!Next
<1> DEFINE call == [q \in Readers |-> Held(q)]
           k == reader[r]
<1> reader \in [Readers -> Reader] /\ k \in Reader /\ ReaderOK(k) /\ k.pc = "compare" /\ UNCHANGED vars
  BY DEF ReaderInv, ReaderTypeOK, Compare
<1>1. CASE Fail(r)
  BY <1>1, FailIsAtomic
<1>2. CASE k.pass = 1 /\ reader' = [reader EXCEPT ![r].initial = k.read, ![r].pass = 2, ![r].pc = "catalog"]
  <2> DEFINE s == [k EXCEPT !.initial = k.read, !.pass = 2, !.pc = "catalog"]
  <2>1. reader' = [reader EXCEPT ![r] = s]
    BY <1>2
  <2>2. s.name = k.name /\ s.point = k.point /\ s.pass = 2 /\ s.pc = "catalog"
    BY DEF Reader
  <2> HIDE DEF s
  <2>3. Waiting(k) /\ Waiting(s)
    BY <1>2, <2>2 DEF Waiting, Answering
  <2> QED BY <2>1, <2>2, <2>3, PiecesAreSilent
<1>3. CASE /\ k.pass = 2
           /\ reader' = [reader EXCEPT ![r].pass = 3, ![r].pc = IF k.missing = {} THEN "catalog" ELSE "secrets"]
  <2> DEFINE s == [k EXCEPT !.pass = 3, !.pc = IF k.missing = {} THEN "catalog" ELSE "secrets"]
  <2>1. reader' = [reader EXCEPT ![r] = s]
    BY <1>3
  <2>2. s.name = k.name /\ s.point = k.point /\ s.pc \in {"catalog", "secrets"}
    BY DEF Reader
  <2> HIDE DEF s
  <2>3. Waiting(k) /\ Waiting(s)
    BY <1>3, <2>2 DEF Waiting, Answering, PointPcs, RowReadPcs
  <2> QED BY <2>1, <2>2, <2>3, PiecesAreSilent
<1>4. CASE /\ k.pass = 3 /\ Unchanged(k.read, k.initial)
           /\ reader' = [reader EXCEPT ![r].pc = "done"]
  <2> DEFINE s == [k EXCEPT !.pc = "done"]
  <2>1. reader' = [reader EXCEPT ![r] = s] /\ k.read = k.initial
    BY <1>4 DEF Unchanged
  <2>2. s.pc = "done" /\ s.name = k.name /\ s.initial = k.initial
    BY DEF Reader
  <2> HIDE DEF s
  <2>3. k.point = k.initial
    <3>1. k.point \in Snapshot /\ k.initial \in Snapshot
      BY DEF Reader
    <3>2. /\ k.read.catalog = k.point.catalog
          /\ k.initial.row.revision <= k.point.row.revision
          /\ k.point.row.revision <= k.read.row.revision
          /\ k.initial.row.revision = k.point.row.revision =>
               /\ k.point.row = k.initial.row
               /\ k.point.endpoints = k.initial.endpoints
               /\ k.point.bindings = k.initial.bindings
      BY <1>4, <2>1 DEF ReaderOK, PointOK, PointPcs, RowReadPcs
    <3>3. k.initial.row.revision \in Nat /\ k.point.row.revision \in Nat
      BY <3>1 DEF Snapshot, Row
    <3>4. k.initial.row.revision = k.point.row.revision
      BY <2>1, <3>2, <3>3
    <3> QED BY <2>1, <3>1, <3>2, <3>4 DEF Snapshot
  <2>4. k.initial.row.name = k.name /\ k.initial.row.enabled
    BY <1>4 DEF ReaderOK, InitialOK, RowOK
  <2>5. Held(r) = [state |-> "taken", name |-> k.name, answer |-> k.initial]
    BY <1>4, <2>3, HeldCases DEF Answering, PointPcs, RowReadPcs
  <2>6. reader'[r] = s /\ call' = [call EXCEPT ![r] = Held(r)']
    BY <2>1, CallOf
  <2>7. Held(r)' = [state |-> "done", name |-> k.name, answer |-> k.initial]
    BY <2>2, <2>6 DEF Held
  <2>8. Atomic!Deliver(r)
    <3>1. call[r] = [state |-> "taken", name |-> k.name, answer |-> k.initial]
      BY <2>5
    <3>2. call' = [call EXCEPT ![r] = [state |-> "done", name |-> call[r].name, answer |-> call[r].answer]]
      <4>1. call[r].name = k.name /\ call[r].answer = k.initial
        BY <3>1
      <4> HIDE DEF call
      <4> QED BY <2>6, <2>7, <4>1
    <3> QED BY <2>4, <3>1, <3>2, WorldStays DEF Atomic!Deliver
  <2> QED BY <2>8 DEF Atomic!Next
<1> QED BY <1>1, <1>2, <1>3, <1>4 DEF Compare

LEMMA ReadIsAtomic ==
  ASSUME TypeOK, ReaderInv, NEW r \in Readers, Read(r)
  PROVE  Atomic!Next
<1> DEFINE k == reader[r]
<1> reader \in [Readers -> Reader] /\ k \in Reader /\ ReaderOK(k)
  BY DEF ReaderInv, ReaderTypeOK
<1>1. ASSUME ReadAccount(r) PROVE Atomic!Next
  <2>1. CASE Fail(r)
    BY <1>1, <2>1, FailIsAtomic DEF ReadAccount
  <2>2. ASSUME NEW a, reader' = [reader EXCEPT ![r].pc = "endpoints", ![r].read.row = RowOf(a)]
        PROVE  Atomic!Next
    <3> DEFINE s == [k EXCEPT !.pc = "endpoints", !.read = [k.read EXCEPT !.row = RowOf(a)]]
    <3>1. reader' = [reader EXCEPT ![r] = s]
      BY <2>2
    <3>2. s.name = k.name /\ s.point = k.point /\ s.pass = k.pass /\ s.pc = "endpoints" /\ k.pc = "account"
      BY <1>1 DEF Reader, ReadAccount
    <3> HIDE DEF s
    <3> QED BY <3>1, <3>2, PiecesAreSilent DEF Waiting, Answering, PointPcs, RowReadPcs
  <2> QED BY <1>1, <2>1, <2>2 DEF ReadAccount
<1>2. ASSUME ReadEndpoints(r) PROVE Atomic!Next
  <2> DEFINE s == [k EXCEPT !.pc = "bindings",
                            !.read = [k.read EXCEPT !.endpoints = account[k.read.row.id].endpoint]]
  <2>1. reader' = [reader EXCEPT ![r] = s]
    BY <1>2 DEF ReadEndpoints
  <2>2. s.name = k.name /\ s.point = k.point /\ s.pass = k.pass /\ s.pc = "bindings" /\ k.pc = "endpoints"
    BY <1>2 DEF Reader, ReadEndpoints
  <2> HIDE DEF s
  <2> QED BY <2>1, <2>2, PiecesAreSilent DEF Waiting, Answering, PointPcs, RowReadPcs
<1>3. ASSUME ReadBindings(r) PROVE Atomic!Next
  <2> DEFINE s == [k EXCEPT !.pc = "compare",
                            !.read = [k.read EXCEPT !.bindings = ActiveBindings(k.read.row.id)]]
  <2>1. reader' = [reader EXCEPT ![r] = s]
    BY <1>3 DEF ReadBindings
  <2>2. s.name = k.name /\ s.point = k.point /\ s.pass = k.pass /\ s.pc = "compare" /\ k.pc = "bindings"
    BY <1>3 DEF Reader, ReadBindings
  <2> HIDE DEF s
  <2> QED BY <2>1, <2>2, PiecesAreSilent DEF Waiting, Answering, PointPcs, RowReadPcs
<1>4. ASSUME NEW role, GetSecret(r, role) PROVE Atomic!Next
  <2>1. CASE Fail(r)
    BY <1>4, <2>1, FailIsAtomic DEF GetSecret
  <2>2. CASE reader' = [reader EXCEPT ![r].missing = @ \ {role},
                          ![r].pc = IF reader[r].missing = {role} THEN "catalog" ELSE "secrets"]
    <3> DEFINE s == [k EXCEPT !.missing = k.missing \ {role},
                              !.pc = IF k.missing = {role} THEN "catalog" ELSE "secrets"]
    <3>1. reader' = [reader EXCEPT ![r] = s]
      BY <2>2
    <3>2. s.name = k.name /\ s.point = k.point /\ s.pc \in {"catalog", "secrets"} /\ k.pc = "secrets"
      BY <1>4 DEF Reader, GetSecret
    <3> HIDE DEF s
    <3> QED BY <3>1, <3>2, PiecesAreSilent DEF Waiting, Answering, PointPcs, RowReadPcs
  <2> QED BY <1>4, <2>1, <2>2 DEF GetSecret
<1> QED BY <1>1, <1>2, <1>3, <1>4, CatalogIsAtomic, CompareIsAtomic DEF Read

(* resolve_account implements an atomic read: what it returns was the whole *)
(* authority of the account at one moment of the call, whatever the other  *)
(* processes change while it reads it in pieces.                           *)
THEOREM ResolutionIsAtomic ==
  ASSUME "commit_rollback" \notin Faults
  PROVE  ReaderSpec => AtomicSpec
<1>1. ReaderInit => Init /\ ReaderInv
  <2> SUFFICES ASSUME ReaderInit PROVE Init /\ ReaderInv
    OBVIOUS
  <2>1. Init /\ TypeOK
    BY InitInv DEF ReaderInit, Inv
  <2>2. reader \in [Readers -> Reader] /\ \A r \in Readers : reader[r].pc = "idle" /\ reader[r].pass = 0
    <3>1. IdleReader.pc = "idle" /\ IdleReader.pass = 0
      BY DEF IdleReader
    <3> QED BY <2>1, <3>1, IdleReaderType DEF ReaderInit
  <2> QED BY <2>1, <2>2, BeginsOrFails DEF ReaderInv, ReaderTypeOK
<1>2. ReaderInit => Atomic!Init
  BY DEF ReaderInit, IdleReader, Held, Atomic!Init
<1>3. [ReaderNext]_readerVars => [Next]_vars
  BY DEF ReaderNext, readerVars, vars, Resolve, Read, ReadCatalog, ReadAccount, ReadEndpoints, ReadBindings,
     Compare, GetSecret
<1>4. Inv /\ AccountInv /\ ReaderInv /\ [ReaderNext]_readerVars => ReaderInv'
  BY ReaderInvStep
<1>5. Inv /\ ReaderInv /\ [ReaderNext]_readerVars =>
        [Atomic!Next]_<<[catalog |-> catalog, accounts |-> [a \in Accounts |-> CurrentSnapshot(a)]],
                        [r \in Readers |-> Held(r)]>>
  <2> SUFFICES ASSUME Inv, ReaderInv, [ReaderNext]_readerVars PROVE Atomic!Next
    OBVIOUS
  <2>1. TypeOK
    BY DEF Inv
  <2>2. CASE UNCHANGED reader
    <3>1. \A r \in Readers : Held(r)' = Held(r)
      BY <2>2 DEF Held
    <3> QED BY <3>1 DEF Atomic!Next, Atomic!Change
  <2> QED BY <2>1, <2>2, ResolveIsAtomic, ReadIsAtomic DEF ReaderNext, readerVars
<1>6. ReaderSpec => Spec
  BY <1>1, <1>3, PTL DEF ReaderSpec, Spec
<1> QED BY <1>1, <1>2, <1>4, <1>5, <1>6, AccountInvHolds, PTL DEF ReaderSpec, AtomicSpec, Atomic!Spec
=============================================================================
