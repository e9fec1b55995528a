--------------------- MODULE CredentialLifecycleProofs ---------------------
(***************************************************************************)
(* Theorems about CredentialLifecycle for any number of processes,         *)
(* accounts and credentials, either secret store, and any failure.         *)
(***************************************************************************)
EXTENDS CredentialLifecycle, FiniteSetTheorems, TLAPS

----------------------------------------------------------------------------
(* The inductive invariant.  No step of a process disturbs what another    *)
(* process is about to do: what it stores is new, what it deletes is out   *)
(* of use.                                                                 *)

SavingPcs == {"storing", "activating", "discarding"}
RetiringPcs == {"deleting", "marking"}

Saving(c) == client[c].pc \in SavingPcs

(* A running save owns a binding that no row of the catalog has yet. *)
SaveOK(k) ==
  k.pc \in SavingPcs => /\ k.op = "set"
                        /\ k.account \in Accounts
                        /\ k.binding \in Bindings
                        /\ binding[k.binding].status = "unused"
                        /\ k.deleted = {}

(* Before an activation in a keyring catalog the value is already stored. *)
StoredOK(k) == (k.pc = "activating" /\ ~LocalStore) => k.binding \in secrets

(* What a process still deletes or marks is out of use for good, and what  *)
(* it is about to mark is gone from the store.                             *)
RetireOK(k) ==
  k.pc \in RetiringPcs =>
    /\ \A b \in k.todo \cup k.deleted : binding[b].status \in {"CLEANUP_REQUIRED", "SUPERSEDED"}
    /\ \A b \in k.deleted : b \notin secrets

EnableOK(k) == k.pc \in {"validating", "enabling"} => k.account \in Accounts

ClientOK(k) == SaveOK(k) /\ StoredOK(k) /\ RetireOK(k) /\ EnableOK(k)

(* No two saves work on the same new binding. *)
SavesAreDistinct ==
  \A c, d \in Clients :
    (Saving(c) /\ Saving(d) /\ client[c].binding = client[d].binding) => c = d

Safety ==
  /\ \A c \in Clients : ClientOK(client[c])
  /\ SavesAreDistinct
  /\ ActiveSecretPresent
  /\ SupersededSecretGone
  /\ OneActivePerRole

Inv == TypeOK /\ Safety

----------------------------------------------------------------------------
(* Types of the helpers *)

LEMMA DetachedType ==
  ASSUME binding \in [Bindings -> Binding], NEW B \in SUBSET Bindings
  PROVE  Detached(B) \in [Bindings -> Binding]
<1>1. ASSUME NEW b \in Bindings
      PROVE  [binding[b] EXCEPT !.status = "CLEANUP_REQUIRED"] \in Binding
  BY DEF Binding
<1>2. QED BY <1>1 DEF Detached

LEMMA MarkedType ==
  ASSUME binding \in [Bindings -> Binding], NEW B \in SUBSET Bindings
  PROVE  Marked(B) \in [Bindings -> Binding]
<1>1. ASSUME NEW b \in Bindings
      PROVE  [binding[b] EXCEPT !.status = "SUPERSEDED"] \in Binding
  BY DEF Binding
<1>2. QED BY <1>1 DEF Marked

LEMMA CardinalityOfBindings ==
  ASSUME NEW B \in SUBSET Bindings
  PROVE  Cardinality(B) \in Int
<1>1. IsFiniteSet(B) BY LifecycleAssumption, FS_Subset
<1>2. QED BY <1>1, FS_CardinalityType

LEMMA QueryTypes ==
  /\ \A a, r : ActiveOf(a, r) \in SUBSET Bindings
  /\ \A a : ToClean(a) \in SUBSET Bindings
  /\ \A n : Named(n) \in SUBSET Accounts
BY DEF ActiveOf, ToClean, BindingsOf, Named

LEMMA CandidatesType == \A B : \A S \in Candidates(B) : S \in SUBSET B
BY DEF Candidates

LEMMA IdleClientType == IdleClient \in Client
BY DEF IdleClient, Client, Roles

(* Raising a revision keeps a row a row. *)
LEMMA RaisedType ==
  ASSUME NEW row \in Account
  PROVE  /\ [row EXCEPT !.revision = row.revision + 1] \in Account
         /\ [row EXCEPT !.state = "removed", !.enabled = FALSE,
                        !.revision = row.revision + 1] \in Account
<1>1. row.revision + 1 \in Nat
  <2>1. row.revision \in Nat BY DEF Account
  <2>2. QED BY <2>1
<1>2. ASSUME NEW k \in Nat
      PROVE  /\ [row EXCEPT !.revision = k] \in Account
             /\ [row EXCEPT !.state = "removed", !.enabled = FALSE, !.revision = k] \in Account
  BY DEF Account
<1>3. QED BY <1>1, <1>2

LEMMA InitInv == Init => Inv
<1>1. Init => TypeOK
  BY IdleClientType, LifecycleAssumption
  DEF Init, TypeOK, Catalog, NoAccount, Account, NoBinding, Binding, Roles
<1>2. Init => Safety
  BY DEF Init, Safety, ClientOK, SaveOK, StoredOK, RetireOK, EnableOK, SavesAreDistinct, Saving,
     SavingPcs, RetiringPcs, ActiveSecretPresent, SupersededSecretGone, OneActivePerRole,
     IdleClient, NoBinding
<1>3. QED BY <1>1, <1>2 DEF Inv

LEMMA RevisedCatalog ==
  ASSUME catalog \in Catalog, NEW p \in Policies
  PROVE  /\ [catalog EXCEPT !.revision = @ + 1] \in Catalog
         /\ [catalog EXCEPT !.revision = @ + 1, !.policy = p] \in Catalog
         /\ [catalog EXCEPT !.revision = @ + 1].store = catalog.store
         /\ [catalog EXCEPT !.revision = @ + 1, !.policy = p].store = catalog.store
<1>1. catalog.revision + 1 \in Nat
  <2>1. catalog.revision \in Nat BY DEF Catalog
  <2>2. QED BY <2>1
<1>2. ASSUME NEW k \in Nat
      PROVE  /\ [catalog EXCEPT !.revision = k] \in Catalog
             /\ [catalog EXCEPT !.revision = k, !.policy = p] \in Catalog
             /\ [catalog EXCEPT !.revision = k].store = catalog.store
             /\ [catalog EXCEPT !.revision = k, !.policy = p].store = catalog.store
  BY DEF Catalog
<1>3. QED BY <1>1, <1>2

(* No step changes the platform's secret store. *)
LEMMA StoreFixed == TypeOK /\ [Next]_vars => (LocalStore' <=> LocalStore)
<1> SUFFICES ASSUME TypeOK, [Next]_vars PROVE catalog'.store = catalog.store
  BY DEF LocalStore
<1>a. catalog \in Catalog /\ catalog.policy \in Policies
  BY DEF TypeOK, Catalog
<1>1. ASSUME NEW p \in Policies, UpdatePolicy(p) PROVE catalog'.store = catalog.store
  BY <1>a, <1>1, RevisedCatalog DEF UpdatePolicy
<1>2. ASSUME NEW a \in Accounts, NEW n \in Names, NEW ep \in Endpoints, AddAccount(a, n, ep)
      PROVE  catalog'.store = catalog.store
  BY <1>a, <1>2, RevisedCatalog DEF AddAccount
<1>3. ASSUME NEW n, NEW x, NEW m, NEW ep, UpdateAccount(n, x, m, ep) \/ DisableAccount(n, x)
      PROVE  catalog' = catalog
  BY <1>3 DEF UpdateAccount, DisableAccount
<1>4. ASSUME NEW c \in Clients, CleanupCredentials(c) PROVE catalog'.store = catalog.store
  BY <1>a, <1>4, RevisedCatalog DEF CleanupCredentials
<1>5. ASSUME NEW c, NEW n, NEW x, NEW r, NEW b,
             \/ SetSecret(c, n, x, r, b) \/ RemoveSecret(c, n, x, r)
             \/ SoftRemoveAccount(c, n, x) \/ EnableAccount(c, n, x)
      PROVE  catalog' = catalog
  BY <1>5 DEF SetSecret, RemoveSecret, SoftRemoveAccount, EnableAccount
<1>6. ASSUME NEW c, Continue(c) \/ Crash(c) PROVE catalog' = catalog
  BY <1>6 DEF Continue, Crash, StoreSecret, ActivateBinding, ActivationFails,
     ActivationRolledBack, DiscardSecret, DeleteSecret, ResolveForEnable, StartMarking,
     MarkSuperseded, Finish, CommitEnable
<1>7. CASE UNCHANGED vars BY <1>7 DEF vars
<1>8. QED
  BY <1>1, <1>2, <1>3, <1>4, <1>5, <1>6, <1>7 DEF Next, Administer, Begin

(* Only its own steps change what a process remembers. *)
LEMMA OwnStep ==
  ASSUME TypeOK, [Next]_vars, NEW c \in Clients, client'[c] # client[c]
  PROVE  Begin(c) \/ Continue(c) \/ Crash(c)
<1>1. client \in [Clients -> Client]
  BY DEF TypeOK
<1>2. \A n, x, m, ep : ~UpdateAccount(n, x, m, ep)
  BY DEF UpdateAccount
<1>3. \A n, x : ~DisableAccount(n, x)
  BY DEF DisableAccount
<1>4. ~Administer /\ ~UNCHANGED vars
  BY <1>2, <1>3 DEF Administer, vars, UpdatePolicy, AddAccount
<1>5. ASSUME NEW d \in Clients, Begin(d) \/ Continue(d) \/ Crash(d), d # c PROVE FALSE
  <2>1. \A n, x, r, y : ~SetSecret(d, n, x, r, y)
    BY <1>1, <1>5 DEF SetSecret
  <2>2. \A n, x, r : ~RemoveSecret(d, n, x, r)
    BY <1>1, <1>5 DEF RemoveSecret
  <2>3. \A n, x : ~SoftRemoveAccount(d, n, x) /\ ~EnableAccount(d, n, x)
    BY <1>1, <1>5 DEF SoftRemoveAccount, EnableAccount
  <2>4. ~CleanupCredentials(d)
    BY <1>1, <1>5 DEF CleanupCredentials
  <2>5. ~Continue(d) /\ ~Crash(d)
    BY <1>1, <1>5 DEF Continue, Crash, StoreSecret, ActivateBinding, ActivationFails, ActivationRolledBack,
       DiscardSecret, DeleteSecret, ResolveForEnable, StartMarking, MarkSuperseded, Finish, CommitEnable
  <2> QED BY <1>5, <2>1, <2>2, <2>3, <2>4, <2>5 DEF Begin
<1> QED BY <1>4, <1>5 DEF Next

----------------------------------------------------------------------------
(* Every step keeps the types. *)

LEMMA StepTypeOK == Inv /\ [Next]_vars => TypeOK'
<1> SUFFICES ASSUME Inv, [Next]_vars PROVE TypeOK'
  OBVIOUS
<1> TypeOK BY DEF Inv
<1> USE DEF TypeOK
<1>0. \A x \in 1..MaxRevision : x \in Nat
  BY LifecycleAssumption
<1>1. ASSUME NEW p \in Policies, UpdatePolicy(p) PROVE TypeOK'
  BY <1>1, RevisedCatalog DEF UpdatePolicy
<1>2. ASSUME NEW a \in Accounts, NEW n \in Names, NEW ep \in Endpoints, AddAccount(a, n, ep)
      PROVE  TypeOK'
  <2>1. catalog.policy \in Policies /\ catalog \in Catalog
    BY DEF Catalog
  <2>2. catalog' \in Catalog
    BY <1>2, <2>1, RevisedCatalog DEF AddAccount
  <2>3. account' \in [Accounts -> Account]
    BY <1>2 DEF AddAccount, Account, Endpoints
  <2>4. QED BY <1>2, <2>2, <2>3 DEF AddAccount
<1>3. ASSUME NEW n \in Names, NEW x \in 1..MaxRevision, NEW m \in Names, NEW ep \in Endpoints,
             UpdateAccount(n, x, m, ep)
      PROVE  TypeOK'
  BY <1>3, QueryTypes DEF UpdateAccount, Account, Endpoints
<1>4. ASSUME NEW n \in Names, NEW x \in 1..MaxRevision, DisableAccount(n, x) PROVE TypeOK'
  BY <1>4, QueryTypes DEF DisableAccount, Account
<1>5. ASSUME NEW c \in Clients, NEW n \in Names, NEW x \in 1..MaxRevision, NEW r \in Roles,
             NEW b \in Bindings, SetSecret(c, n, x, r, b)
      PROVE  TypeOK'
  <2>1. PICK a \in Accounts : client' = [client EXCEPT ![c] =
         [IdleClient EXCEPT !.pc = IF LocalStore THEN "activating" ELSE "storing",
                            !.op = "set", !.account = a, !.role = r,
                            !.binding = b, !.expected = x]]
    BY <1>5, QueryTypes DEF SetSecret
  <2>2. ASSUME NEW p \in {"activating", "storing"}
        PROVE  [IdleClient EXCEPT !.pc = p, !.op = "set", !.account = a, !.role = r,
                                  !.binding = b, !.expected = x] \in Client
    BY <1>0, IdleClientType DEF IdleClient, Client
  <2>3. QED BY <1>5, <2>1, <2>2 DEF SetSecret
<1>6. ASSUME NEW c \in Clients, NEW n \in Names, NEW x \in 1..MaxRevision, NEW r \in Roles,
             RemoveSecret(c, n, x, r)
      PROVE  TypeOK'
  <2>1. PICK a \in Named(n) :
          /\ binding' = Detached(ActiveOf(a, r))
          /\ account' = [account EXCEPT ![a].revision = @ + 1]
          /\ client' = [client EXCEPT ![c] =
               [IdleClient EXCEPT !.pc = "deleting", !.op = "remove", !.account = a, !.role = r,
                                  !.touched = ActiveOf(a, r), !.todo = ActiveOf(a, r),
                                  !.pending = Cardinality(ActiveOf(a, r))]]
    BY <1>6 DEF RemoveSecret
  <2>2. Cardinality(ActiveOf(a, r)) \in Int
    BY QueryTypes, CardinalityOfBindings
  <2>3. [IdleClient EXCEPT !.pc = "deleting", !.op = "remove", !.account = a, !.role = r,
                           !.touched = ActiveOf(a, r), !.todo = ActiveOf(a, r),
                           !.pending = Cardinality(ActiveOf(a, r))] \in Client
    BY <2>2, QueryTypes, IdleClientType DEF IdleClient, Client
  <2>4. binding' \in [Bindings -> Binding]
    BY <2>1, QueryTypes, DetachedType
  <2>5. account' \in [Accounts -> Account]
    <3>1. a \in Accounts BY QueryTypes
    <3>2. account' = [account EXCEPT ![a] =
            [account[a] EXCEPT !.revision = account[a].revision + 1]]
      BY <2>1
    <3>3. QED BY <3>1, <3>2, RaisedType
  <2>6. QED BY <1>6, <2>1, <2>3, <2>4, <2>5 DEF RemoveSecret
<1>7. ASSUME NEW c \in Clients, NEW n \in Names, NEW x \in 1..MaxRevision,
             SoftRemoveAccount(c, n, x)
      PROVE  TypeOK'
  <2>1. PICK a \in Named(n) : \E candidates \in Candidates(ToClean(a)) :
          /\ binding' = Detached(ToClean(a))
          /\ account' = [account EXCEPT ![a].state = "removed", ![a].enabled = FALSE,
                                        ![a].revision = @ + 1]
          /\ client' = [client EXCEPT ![c] =
               [IdleClient EXCEPT !.pc = "deleting", !.op = "soft_remove", !.account = a,
                                  !.touched = ToClean(a), !.todo = candidates,
                                  !.pending = Cardinality(ToClean(a))]]
    BY <1>7 DEF SoftRemoveAccount
  <2>2. Cardinality(ToClean(a)) \in Int
    BY QueryTypes, CardinalityOfBindings
  <2>3. ASSUME NEW S \in SUBSET ToClean(a)
        PROVE  [IdleClient EXCEPT !.pc = "deleting", !.op = "soft_remove", !.account = a,
                                  !.touched = ToClean(a), !.todo = S,
                                  !.pending = Cardinality(ToClean(a))] \in Client
    BY <2>2, QueryTypes, IdleClientType DEF IdleClient, Client
  <2>4. binding' \in [Bindings -> Binding]
    BY <2>1, QueryTypes, DetachedType
  <2>5. account' \in [Accounts -> Account]
    <3>2. a \in Accounts BY QueryTypes
    <3>3. account' = [account EXCEPT ![a] = [account[a] EXCEPT
             !.state = "removed", !.enabled = FALSE, !.revision = account[a].revision + 1]]
      BY <2>1, <3>2
    <3>4. QED BY <3>2, <3>3, RaisedType
  <2>6. client' \in [Clients -> Client]
    <3>1. PICK S \in Candidates(ToClean(a)) : client' = [client EXCEPT ![c] =
             [IdleClient EXCEPT !.pc = "deleting", !.op = "soft_remove", !.account = a,
                                !.touched = ToClean(a), !.todo = S,
                                !.pending = Cardinality(ToClean(a))]]
      BY <2>1
    <3>2. S \in SUBSET ToClean(a) BY CandidatesType
    <3>3. QED BY <2>3, <3>1, <3>2
  <2>7. QED BY <1>7, <2>4, <2>5, <2>6 DEF SoftRemoveAccount
<1>8. ASSUME NEW c \in Clients, NEW n \in Names, NEW x \in 1..MaxRevision, EnableAccount(c, n, x)
      PROVE  TypeOK'
  <2>1. PICK a \in Accounts : client' = [client EXCEPT ![c] =
         [IdleClient EXCEPT !.pc = "validating", !.op = "enable", !.account = a,
                            !.expected = x,
                            !.touched = UNION {ActiveOf(a, r) : r \in Roles},
                            !.todo = UNION {ActiveOf(a, r) : r \in Roles}]]
    <3>1. Named(n) \in SUBSET Accounts BY QueryTypes
    <3>2. QED BY <1>8, <3>1 DEF EnableAccount
  <2>2. UNION {ActiveOf(a, r) : r \in Roles} \in SUBSET Bindings
    BY QueryTypes
  <2>3. ASSUME NEW S \in SUBSET Bindings
        PROVE  [IdleClient EXCEPT !.pc = "validating", !.op = "enable", !.account = a,
                                  !.expected = x, !.touched = S, !.todo = S] \in Client
    BY <1>0, IdleClientType DEF IdleClient, Client
  <2>4. QED BY <1>8, <2>2, <2>1, <2>3 DEF EnableAccount
<1>9. ASSUME NEW c \in Clients, CleanupCredentials(c) PROVE TypeOK'
  <2>1. PICK S \in Candidates({b \in Bindings : binding[b].status = "CLEANUP_REQUIRED"}) :
          /\ catalog' = [catalog EXCEPT !.revision = @ + 1]
          /\ client' = [client EXCEPT ![c] =
               [IdleClient EXCEPT !.pc = "deleting", !.op = "cleanup",
                                  !.touched = S, !.todo = S, !.pending = Cardinality(S)]]
    BY <1>9 DEF CleanupCredentials
  <2>2. S \in SUBSET Bindings
    BY CandidatesType
  <2>3. Cardinality(S) \in Int
    BY <2>2, CardinalityOfBindings
  <2>4. [IdleClient EXCEPT !.pc = "deleting", !.op = "cleanup",
                           !.touched = S, !.todo = S, !.pending = Cardinality(S)] \in Client
    BY <2>2, <2>3, IdleClientType DEF IdleClient, Client
  <2>5. catalog.policy \in Policies /\ catalog \in Catalog
    BY DEF Catalog
  <2>6. catalog' \in Catalog
    BY <2>1, <2>5, RevisedCatalog
  <2>7. QED BY <1>9, <2>1, <2>4, <2>6 DEF CleanupCredentials
<1>10. ASSUME NEW c \in Clients, StoreSecret(c) PROVE TypeOK'
  <2>1. client[c].binding \in Bindings
    BY <1>10 DEF StoreSecret, Inv, Safety, ClientOK, SaveOK, SavingPcs
  <2>2. client' \in [Clients -> Client]
    BY <1>10 DEF StoreSecret, Client
  <2>3. QED BY <1>10, <2>1, <2>2 DEF StoreSecret
<1>11. ASSUME NEW c \in Clients, ActivateBinding(c) \/ ActivationRolledBack(c) PROVE TypeOK'
  <2>1. client[c].binding \in Bindings /\ client[c].account \in Accounts
    BY <1>11 DEF ActivateBinding, ActivationRolledBack, Inv, Safety, ClientOK, SaveOK, SavingPcs
  <2>2. Replaced(c) \in SUBSET Bindings
    BY QueryTypes DEF Replaced
  <2>3. Cardinality(Replaced(c)) \in Int
    BY <2>2, CardinalityOfBindings
  <2>4. AfterActivation(c) \in Client
    <3>1. ASSUME NEW row \in Client, NEW S \in SUBSET Bindings, NEW n \in Int
          PROVE  [row EXCEPT !.pc = "deleting", !.touched = S, !.todo = S, !.pending = n] \in Client
      BY DEF Client
    <3>2. client[c] \in Client OBVIOUS
    <3>3. QED BY <2>2, <2>3, <3>1, <3>2 DEF AfterActivation
  <2>5. client' \in [Clients -> Client]
    BY <1>11, <2>4 DEF ActivateBinding, ActivationRolledBack
  <2>6. Detached(Replaced(c)) \in [Bindings -> Binding]
    BY <2>2, DetachedType
  <2>7. [status |-> "ACTIVE", account |-> client[c].account, role |-> client[c].role] \in Binding
    BY <2>1 DEF Binding, Client
  <2>8. binding' \in [Bindings -> Binding]
    BY <1>11, <2>1, <2>6, <2>7 DEF ActivateBinding, ActivationRolledBack
  <2>9. account' \in [Accounts -> Account]
    <3> DEFINE a == client[c].account
    <3>1. \/ account' = [account EXCEPT ![a] =
                 [account[a] EXCEPT !.revision = account[a].revision + 1]]
          \/ account' = account
      BY <1>11 DEF ActivateBinding, ActivationRolledBack
    <3>2. QED BY <3>1, <2>1, RaisedType
  <2>10. secrets' \in SUBSET Bindings /\ catalog' = catalog
    BY <1>11, <2>1 DEF ActivateBinding, ActivationRolledBack
  <2>11. QED BY <2>5, <2>8, <2>9, <2>10
<1>12. ASSUME NEW c \in Clients, ActivationFails(c) PROVE TypeOK'
  <2>1. FailedSave(c) \in Client
    <3>1. client[c] \in Client OBVIOUS
    <3>2. QED BY <3>1 DEF FailedSave, Client
  <2>2. QED BY <1>12, <2>1 DEF ActivationFails
<1>13. ASSUME NEW c \in Clients, DiscardSecret(c) PROVE TypeOK'
  <2>1. client' \in [Clients -> Client]
    <3>1. ASSUME NEW k \in Client PROVE [k EXCEPT !.pc = "idle", !.result = "failed"] \in Client
      BY DEF Client
    <3>2. QED BY <1>13, <3>1 DEF DiscardSecret
  <2>2. QED BY <1>13, <2>1 DEF DiscardSecret
<1>14. ASSUME NEW c \in Clients, NEW b \in Bindings, DeleteSecret(c, b) PROVE TypeOK'
  <2>1. client' \in [Clients -> Client] BY <1>14 DEF DeleteSecret, Client
  <2>2. QED BY <1>14, <2>1 DEF DeleteSecret
<1>15. ASSUME NEW c \in Clients, NEW b \in Bindings, ResolveForEnable(c, b) PROVE TypeOK'
  <2>1. client' \in [Clients -> Client] BY <1>15 DEF ResolveForEnable, Client
  <2>2. QED BY <1>15, <2>1 DEF ResolveForEnable
<1>16. ASSUME NEW c \in Clients, StartMarking(c) PROVE TypeOK'
  <2>1. client' \in [Clients -> Client]
    <3>1. ASSUME NEW k \in Client PROVE [k EXCEPT !.pc = "marking"] \in Client
      BY DEF Client
    <3>2. QED BY <1>16, <3>1 DEF StartMarking
  <2>2. QED BY <1>16, <2>1 DEF StartMarking
<1>17. ASSUME NEW c \in Clients, MarkSuperseded(c) PROVE TypeOK'
  <2> DEFINE rows == {b \in client[c].deleted : binding[b].status = "CLEANUP_REQUIRED"}
  <2>1. client[c].deleted \in SUBSET Bindings BY DEF Client
  <2>2. Cardinality(rows) \in Int
    BY <2>1, CardinalityOfBindings
  <2>3. Marked(client[c].deleted) \in [Bindings -> Binding]
    BY <2>1, MarkedType
  <2> HIDE DEF rows
  <2>4. client' \in [Clients -> Client]
    BY <1>17, <2>2 DEF MarkSuperseded, Client, rows
  <2>5. QED BY <1>17, <2>3, <2>4 DEF MarkSuperseded
<1>18. ASSUME NEW c \in Clients, Finish(c) PROVE TypeOK'
  <2>1. client' \in [Clients -> Client]
    <3>1. ASSUME NEW k \in Client, NEW v \in {"clean", "cleanup_required"}
          PROVE  [k EXCEPT !.pc = "idle", !.result = v] \in Client
      BY DEF Client
    <3>2. PICK v \in {"clean", "cleanup_required"} :
            client' = [client EXCEPT ![c].pc = "idle", ![c].result = v]
      BY <1>18 DEF Finish
    <3>3. QED BY <3>1, <3>2
  <2>2. QED BY <1>18, <2>1 DEF Finish
<1>19. ASSUME NEW c \in Clients, CommitEnable(c) PROVE TypeOK'
  <2>1. client' \in [Clients -> Client] BY <1>19 DEF CommitEnable, Client
  <2>2. client[c].account \in Accounts
    BY <1>19 DEF CommitEnable, Inv, Safety, ClientOK, EnableOK
  <2>3. account' \in [Accounts -> Account] BY <1>19, <2>2 DEF CommitEnable, Account
  <2>4. QED BY <1>19, <2>1, <2>3 DEF CommitEnable
<1>20. ASSUME NEW c \in Clients, Crash(c) PROVE TypeOK'
  BY <1>20, IdleClientType DEF Crash
<1>21. CASE UNCHANGED vars
  BY <1>21 DEF vars
<1>22. QED
  BY <1>1, <1>2, <1>3, <1>4, <1>5, <1>6, <1>7, <1>8, <1>9, <1>10, <1>11, <1>12, <1>13, <1>14,
     <1>15, <1>16, <1>17, <1>18, <1>19, <1>20, <1>21
  DEF Next, Administer, Begin, Continue

----------------------------------------------------------------------------
(* Every step keeps the rest of the invariant. *)

(* A step that only changes what its own process remembers. *)
LEMMA ClientStep ==
  ASSUME Inv, LocalStore' <=> LocalStore, NEW c \in Clients, NEW k,
         client' = [client EXCEPT ![c] = k],
         UNCHANGED <<binding, secrets>>,
         ClientOK(k),
         k.pc \in SavingPcs =>
           \A d \in Clients : d # c => ~(Saving(d) /\ client[d].binding = k.binding)
  PROVE  Safety'
<1>1. client \in [Clients -> Client] BY DEF Inv, TypeOK
<1>2. client'[c] = k /\ \A d \in Clients : d # c => client'[d] = client[d]
  BY <1>1
<1>3. ClientOK(k)'
  BY DEF ClientOK, SaveOK, StoredOK, RetireOK, EnableOK
<1>4. ASSUME NEW d \in Clients PROVE ClientOK(client[d])'
  <2>1. CASE d = c BY <1>2, <1>3, <2>1 DEF ClientOK, SaveOK, StoredOK, RetireOK, EnableOK
  <2>2. CASE d # c
    BY <1>2, <2>2 DEF Inv, Safety, ClientOK, SaveOK, StoredOK, RetireOK, EnableOK
  <2>3. QED BY <2>1, <2>2
<1>5. SavesAreDistinct'
  BY <1>2 DEF Inv, Safety, SavesAreDistinct, Saving
<1>6. (ActiveSecretPresent /\ SupersededSecretGone /\ OneActivePerRole)'
  BY DEF Inv, Safety, ActiveSecretPresent, SupersededSecretGone, OneActivePerRole
<1>7. QED BY <1>4, <1>5, <1>6 DEF Safety

(* A step that takes the bindings in S out of use and begins to delete.    *)
LEMMA RetireStep ==
  ASSUME Inv, LocalStore' <=> LocalStore,
         NEW c \in Clients, NEW k, NEW S \in SUBSET Bindings,
         \A b \in S : binding[b].status \in {"ACTIVE", "CLEANUP_REQUIRED"},
         client' = [client EXCEPT ![c] = k],
         binding' = Detached(S),
         secrets' = secrets,
         k.pc = "deleting", k.deleted = {}, k.todo \subseteq S
  PROVE  Safety'
<1>1. client \in [Clients -> Client] /\ binding \in [Bindings -> Binding]
  BY DEF Inv, TypeOK
<1>2. client'[c] = k /\ \A d \in Clients : d # c => client'[d] = client[d]
  BY <1>1
<1>3. ASSUME NEW b \in Bindings
      PROVE  /\ b \in S => binding'[b].status = "CLEANUP_REQUIRED"
             /\ b \notin S => binding'[b] = binding[b]
             /\ binding'[b].account = binding[b].account
             /\ binding'[b].role = binding[b].role
  BY <1>1 DEF Detached, Binding
<1>4. ASSUME NEW d \in Clients PROVE ClientOK(client[d])'
  <2>1. CASE d = c
    BY <1>2, <1>3, <2>1 DEF ClientOK, SaveOK, StoredOK, RetireOK, EnableOK, SavingPcs
  <2>2. CASE d # c
    <3>1. ClientOK(client[d]) /\ client'[d] = client[d] BY <1>2, <2>2 DEF Inv, Safety
    <3>2. client[d].todo \in SUBSET Bindings /\ client[d].deleted \in SUBSET Bindings
      BY <1>1 DEF Client
    <3>3. QED BY <1>3, <3>1, <3>2 DEF ClientOK, SaveOK, StoredOK, RetireOK, EnableOK
  <2>3. QED BY <2>1, <2>2
<1>5. SavesAreDistinct'
  BY <1>2 DEF Inv, Safety, SavesAreDistinct, Saving, SavingPcs
<1>6. ActiveSecretPresent'
  BY <1>3 DEF Inv, Safety, ActiveSecretPresent
<1>7. SupersededSecretGone'
  BY <1>3 DEF Inv, Safety, SupersededSecretGone
<1>8. OneActivePerRole'
  BY <1>3 DEF Inv, Safety, OneActivePerRole
<1>9. QED BY <1>4, <1>5, <1>6, <1>7, <1>8 DEF Safety

(* A step that takes values out of the store which neither an ACTIVE        *)
(* binding nor a save of another process needs.                            *)
LEMMA DeleteStep ==
  ASSUME Inv, LocalStore' <=> LocalStore, NEW c \in Clients, NEW k,
         client' = [client EXCEPT ![c] = k],
         binding' = binding,
         secrets' \subseteq secrets,
         \A b \in Bindings : (b \in secrets /\ b \notin secrets') =>
           /\ binding[b].status # "ACTIVE"
           /\ \A d \in Clients : d # c => ~(Saving(d) /\ client[d].binding = b),
         k.pc \in RetiringPcs =>
           /\ \A b \in k.todo \cup k.deleted :
                binding[b].status \in {"CLEANUP_REQUIRED", "SUPERSEDED"}
           /\ \A b \in k.deleted : b \notin secrets',
         k.pc \notin SavingPcs, k.pc \notin {"validating", "enabling"}
  PROVE  Safety'
<1>1. client \in [Clients -> Client] /\ secrets \in SUBSET Bindings BY DEF Inv, TypeOK
<1>2. client'[c] = k /\ \A d \in Clients : d # c => client'[d] = client[d]
  BY <1>1
<1>3. ClientOK(k)'
  BY DEF ClientOK, SaveOK, StoredOK, RetireOK, EnableOK, SavingPcs
<1>4. ASSUME NEW d \in Clients PROVE ClientOK(client[d])'
  <2>1. CASE d = c BY <1>2, <1>3, <2>1 DEF ClientOK, SaveOK, StoredOK, RetireOK, EnableOK
  <2>2. CASE d # c
    <3>1. client'[d] = client[d] /\ ClientOK(client[d]) BY <1>2, <2>2 DEF Inv, Safety
    <3>2. StoredOK(client[d])'
      BY <1>1, <2>2, <3>1 DEF ClientOK, SaveOK, StoredOK, Saving, SavingPcs
    <3>3. QED BY <3>1, <3>2 DEF ClientOK, SaveOK, RetireOK, EnableOK
  <2>3. QED BY <2>1, <2>2
<1>5. SavesAreDistinct'
  BY <1>2 DEF Inv, Safety, SavesAreDistinct, Saving
<1>6. ActiveSecretPresent' BY DEF Inv, Safety, ActiveSecretPresent
<1>7. SupersededSecretGone' BY DEF Inv, Safety, SupersededSecretGone
<1>8. OneActivePerRole' BY DEF Inv, Safety, OneActivePerRole
<1>9. QED BY <1>4, <1>5, <1>6, <1>7, <1>8 DEF Safety

LEMMA StepSafety ==
  ASSUME "commit_rollback" \notin Faults
  PROVE  Inv /\ [Next]_vars => Safety'
<1> SUFFICES ASSUME Inv, [Next]_vars PROVE Safety'
  OBVIOUS
<1> LocalStore' <=> LocalStore
  BY StoreFixed DEF Inv
<1>a. /\ client \in [Clients -> Client]
      /\ binding \in [Bindings -> Binding]
      /\ secrets \in SUBSET Bindings
  BY DEF Inv, TypeOK
<1>b. \A c \in Clients : ClientOK(client[c]) /\ client[c] \in Client
  BY <1>a DEF Inv, Safety
<1>1. CASE Administer
  <2>1. UNCHANGED <<binding, secrets, client>>
    <3>1. \A p : UpdatePolicy(p) => UNCHANGED <<binding, secrets, client>>
      BY DEF UpdatePolicy
    <3>2. \A a, n, ep : AddAccount(a, n, ep) => UNCHANGED <<binding, secrets, client>>
      BY DEF AddAccount
    <3>3. \A n, x, m, ep : UpdateAccount(n, x, m, ep) => UNCHANGED <<binding, secrets, client>>
      BY DEF UpdateAccount
    <3>4. \A n, x : DisableAccount(n, x) => UNCHANGED <<binding, secrets, client>>
      BY DEF DisableAccount
    <3>5. QED BY <1>1, <3>1, <3>2, <3>3, <3>4 DEF Administer
  <2>2. QED
    BY <2>1 DEF Inv, Safety, ClientOK, SaveOK, StoredOK, RetireOK, EnableOK, SavesAreDistinct,
       Saving, ActiveSecretPresent, SupersededSecretGone, OneActivePerRole
<1>2. ASSUME NEW c \in Clients, NEW n \in Names, NEW x \in 1..MaxRevision, NEW r \in Roles,
             NEW b \in Bindings, SetSecret(c, n, x, r, b)
      PROVE  Safety'
  <2>1. PICK a \in Accounts : client' = [client EXCEPT ![c] =
         [IdleClient EXCEPT !.pc = IF LocalStore THEN "activating" ELSE "storing",
                            !.op = "set", !.account = a, !.role = r,
                            !.binding = b, !.expected = x]]
    BY <1>2, QueryTypes DEF SetSecret
  <2> DEFINE k == [IdleClient EXCEPT !.pc = IF LocalStore THEN "activating" ELSE "storing",
                            !.op = "set", !.account = a, !.role = r,
                            !.binding = b, !.expected = x]
  <2>2. /\ k.pc \in {"activating", "storing"}
        /\ k.pc = "activating" => LocalStore
        /\ k.op = "set" /\ k.account = a /\ k.binding = b /\ k.deleted = {}
    BY DEF IdleClient
  <2>3. Fresh(b) /\ UNCHANGED <<binding, secrets>>
    BY <1>2 DEF SetSecret
  <2> HIDE DEF k
  <2>4. ClientOK(k)
    BY <2>2, <2>3 DEF ClientOK, SaveOK, StoredOK, RetireOK, EnableOK, RetiringPcs, Fresh
  <2>5. \A d \in Clients : client[d].binding # k.binding
    BY <2>2, <2>3 DEF Fresh
  <2>6. client' = [client EXCEPT ![c] = k] BY <2>1 DEF k
  <2>7. QED BY <2>3, <2>4, <2>5, <2>6, ClientStep
<1>3. ASSUME NEW c \in Clients, NEW n \in Names, NEW x \in 1..MaxRevision, NEW r \in Roles,
             RemoveSecret(c, n, x, r)
      PROVE  Safety'
  <2>1. PICK a \in Named(n) :
          /\ binding' = Detached(ActiveOf(a, r))
          /\ client' = [client EXCEPT ![c] =
               [IdleClient EXCEPT !.pc = "deleting", !.op = "remove", !.account = a, !.role = r,
                                  !.touched = ActiveOf(a, r), !.todo = ActiveOf(a, r),
                                  !.pending = Cardinality(ActiveOf(a, r))]]
          /\ secrets' = secrets
    BY <1>3 DEF RemoveSecret
  <2>2. /\ ActiveOf(a, r) \in SUBSET Bindings
        /\ \A b \in ActiveOf(a, r) : binding[b].status \in {"ACTIVE", "CLEANUP_REQUIRED"}
    BY DEF ActiveOf
  <2> DEFINE k == [IdleClient EXCEPT !.pc = "deleting", !.op = "remove", !.account = a,
                     !.role = r, !.touched = ActiveOf(a, r), !.todo = ActiveOf(a, r),
                     !.pending = Cardinality(ActiveOf(a, r))]
  <2>3. k.pc = "deleting" /\ k.deleted = {} /\ k.todo \subseteq ActiveOf(a, r)
    BY DEF IdleClient
  <2>4. client' = [client EXCEPT ![c] = k] BY <2>1
  <2> HIDE DEF k
  <2>5. QED BY <2>1, <2>2, <2>3, <2>4, RetireStep
<1>4. ASSUME NEW c \in Clients, NEW n \in Names, NEW x \in 1..MaxRevision,
             SoftRemoveAccount(c, n, x)
      PROVE  Safety'
  <2>1. PICK a \in Named(n) : \E candidates \in Candidates(ToClean(a)) :
          /\ binding' = Detached(ToClean(a))
          /\ client' = [client EXCEPT ![c] =
               [IdleClient EXCEPT !.pc = "deleting", !.op = "soft_remove", !.account = a,
                                  !.touched = ToClean(a), !.todo = candidates,
                                  !.pending = Cardinality(ToClean(a))]]
          /\ secrets' = secrets
    BY <1>4 DEF SoftRemoveAccount
  <2>2. PICK candidates \in SUBSET ToClean(a) :
          client' = [client EXCEPT ![c] =
               [IdleClient EXCEPT !.pc = "deleting", !.op = "soft_remove", !.account = a,
                                  !.touched = ToClean(a), !.todo = candidates,
                                  !.pending = Cardinality(ToClean(a))]]
    BY <2>1, CandidatesType
  <2>3. /\ ToClean(a) \in SUBSET Bindings
        /\ \A b \in ToClean(a) : binding[b].status \in {"ACTIVE", "CLEANUP_REQUIRED"}
    BY DEF ToClean, BindingsOf
  <2> DEFINE k == [IdleClient EXCEPT !.pc = "deleting", !.op = "soft_remove", !.account = a,
                     !.touched = ToClean(a), !.todo = candidates,
                     !.pending = Cardinality(ToClean(a))]
  <2>4. k.pc = "deleting" /\ k.deleted = {} /\ k.todo \subseteq ToClean(a)
    BY DEF IdleClient
  <2>5. client' = [client EXCEPT ![c] = k] BY <2>2
  <2> HIDE DEF k
  <2>6. QED BY <2>1, <2>3, <2>4, <2>5, RetireStep
<1>5. ASSUME NEW c \in Clients, NEW n \in Names, NEW x \in 1..MaxRevision, EnableAccount(c, n, x)
      PROVE  Safety'
  <2>1. PICK a \in Accounts : client' = [client EXCEPT ![c] =
         [IdleClient EXCEPT !.pc = "validating", !.op = "enable", !.account = a,
                            !.expected = x,
                            !.touched = UNION {ActiveOf(a, r) : r \in Roles},
                            !.todo = UNION {ActiveOf(a, r) : r \in Roles}]]
    <3>1. Named(n) \in SUBSET Accounts BY QueryTypes
    <3>2. QED BY <1>5, <3>1 DEF EnableAccount
  <2> DEFINE S == UNION {ActiveOf(a, r) : r \in Roles}
  <2> DEFINE k == [IdleClient EXCEPT !.pc = "validating", !.op = "enable", !.account = a,
                            !.expected = x, !.touched = S, !.todo = S]
  <2>2. k.pc = "validating" /\ k.account = a
    BY DEF IdleClient
  <2>3. client' = [client EXCEPT ![c] = k] BY <2>1
  <2>4. UNCHANGED <<binding, secrets>> BY <1>5 DEF EnableAccount
  <2> HIDE DEF k
  <2>5. ClientOK(k) /\ k.pc \notin SavingPcs
    BY <2>2 DEF ClientOK, SaveOK, StoredOK, RetireOK, EnableOK, RetiringPcs, SavingPcs
  <2>6. QED BY <2>3, <2>4, <2>5, ClientStep
<1>6. ASSUME NEW c \in Clients, CleanupCredentials(c) PROVE Safety'
  <2> DEFINE rows == {b \in Bindings : binding[b].status = "CLEANUP_REQUIRED"}
  <2>1. PICK S \in Candidates(rows) : client' = [client EXCEPT ![c] =
               [IdleClient EXCEPT !.pc = "deleting", !.op = "cleanup",
                                  !.touched = S, !.todo = S, !.pending = Cardinality(S)]]
    BY <1>6 DEF CleanupCredentials
  <2>2. UNCHANGED <<binding, secrets>> BY <1>6 DEF CleanupCredentials
  <2> DEFINE k == [IdleClient EXCEPT !.pc = "deleting", !.op = "cleanup",
                                  !.touched = S, !.todo = S, !.pending = Cardinality(S)]
  <2>3. k.pc = "deleting" /\ k.todo = S /\ k.deleted = {}
    BY DEF IdleClient
  <2>4. \A b \in S : binding[b].status = "CLEANUP_REQUIRED"
    BY CandidatesType
  <2>5. client' = [client EXCEPT ![c] = k] BY <2>1
  <2> HIDE DEF k
  <2>6. ClientOK(k) /\ k.pc \notin SavingPcs
    BY <2>3, <2>4 DEF ClientOK, SaveOK, StoredOK, RetireOK, EnableOK, RetiringPcs, SavingPcs
  <2>7. QED BY <2>2, <2>5, <2>6, ClientStep
<1>7. ASSUME NEW c \in Clients, StoreSecret(c) PROVE Safety'
  <2> DEFINE b == client[c].binding
  <2>1. /\ Saving(c) /\ b \in Bindings /\ binding[b].status = "unused"
        /\ client[c].op = "set" /\ client[c].account \in Accounts
        /\ client[c].deleted = {}
    BY <1>7, <1>b DEF StoreSecret, Saving, ClientOK, SaveOK, SavingPcs
  <2>2. /\ client'[c].pc \in {"activating", "discarding"}
        /\ \A d \in Clients : d # c => client'[d] = client[d]
        /\ binding' = binding
        /\ secrets' \in {secrets, secrets \cup {b}}
        /\ client'[c].pc = "activating" => b \in secrets'
    BY <1>7, <1>a, <1>b DEF StoreSecret, Client
  <2>3. /\ client'[c].op = "set" /\ client'[c].binding = b
        /\ client'[c].account = client[c].account
        /\ client'[c].deleted = client[c].deleted
    BY <2>1, <1>7, <1>a, <1>b DEF StoreSecret, Client
  <2> HIDE DEF b
  <2>4. ASSUME NEW d \in Clients PROVE ClientOK(client[d])'
    <3>1. CASE d = c
      BY <2>1, <2>2, <2>3, <3>1
      DEF ClientOK, SaveOK, StoredOK, RetireOK, EnableOK, SavingPcs, RetiringPcs
    <3>2. CASE d # c
      <4>1. client'[d] = client[d] /\ ClientOK(client[d]) BY <2>2, <3>2, <1>b
      <4>2. QED
        BY <2>1, <2>2, <4>1 DEF ClientOK, SaveOK, StoredOK, RetireOK, EnableOK
    <3>3. QED BY <3>1, <3>2
  <2>5. SavesAreDistinct'
    BY <2>1, <2>2, <2>3 DEF Inv, Safety, SavesAreDistinct, Saving, b
  <2>6. ActiveSecretPresent' BY <2>2 DEF Inv, Safety, ActiveSecretPresent
  <2>7. SupersededSecretGone' BY <2>1, <2>2 DEF Inv, Safety, SupersededSecretGone
  <2>8. OneActivePerRole' BY <2>2 DEF Inv, Safety, OneActivePerRole
  <2>9. QED BY <2>4, <2>5, <2>6, <2>7, <2>8 DEF Safety
<1>8. ASSUME NEW c \in Clients, ActivateBinding(c) PROVE Safety'
  <2> DEFINE b == client[c].binding
             a == client[c].account
             old == Replaced(c)
  <2>1. /\ Saving(c) /\ b \in Bindings /\ binding[b].status = "unused" /\ a \in Accounts
        /\ client[c].deleted = {}
        /\ ~LocalStore => b \in secrets
    BY <1>8, <1>b DEF ActivateBinding, Saving, ClientOK, SaveOK, StoredOK, SavingPcs
  <2>2. /\ client'[c] = AfterActivation(c)
        /\ \A d \in Clients : d # c => client'[d] = client[d]
        /\ secrets' = secrets \cup {b}
    BY <1>8, <1>a, <2>1 DEF ActivateBinding
  <2>3. /\ client'[c].pc = "deleting" /\ client'[c].todo = old
        /\ client'[c].deleted = {}
    BY <2>1, <2>2, <1>b DEF AfterActivation, Client
  <2>4. old \in SUBSET Bindings /\ b \notin old
    BY <2>1 DEF Replaced, ActiveOf
  <2>5. ASSUME NEW y \in Bindings
        PROVE  /\ y = b => binding'[y] = [status |-> "ACTIVE", account |-> a,
                                          role |-> client[c].role]
               /\ y \in old => binding'[y].status = "CLEANUP_REQUIRED"
               /\ (y # b /\ y \notin old) => binding'[y] = binding[y]
    BY <1>8, <1>a, <2>4 DEF ActivateBinding, Detached, Binding
  <2>6. /\ \A y \in old : /\ binding'[y].account = binding[y].account
                          /\ binding'[y].role = binding[y].role
        /\ \A y \in Bindings : (/\ binding[y].status = "ACTIVE"
                                /\ binding[y].account = a
                                /\ binding[y].role = client[c].role) => y \in old
    BY <1>8, <1>a, <2>4 DEF ActivateBinding, Detached, Binding, Replaced, ActiveOf
  <2> HIDE DEF b, a, old
  <2>7. ASSUME NEW d \in Clients PROVE ClientOK(client[d])'
    <3>1. CASE d = c
      BY <2>3, <2>4, <2>5, <3>1
      DEF ClientOK, SaveOK, StoredOK, RetireOK, EnableOK, SavingPcs, RetiringPcs
    <3>2. CASE d # c
      <4>1. client'[d] = client[d] /\ ClientOK(client[d]) BY <2>2, <3>2, <1>b
      <4>2. client[d].pc \in SavingPcs => client[d].binding # b
        BY <2>1, <3>2 DEF Inv, Safety, SavesAreDistinct, Saving, b
      <4>3. SaveOK(client[d])'
        BY <2>4, <2>5, <4>1, <4>2 DEF ClientOK, SaveOK, Replaced, ActiveOf, old
      <4>4. StoredOK(client[d])' /\ EnableOK(client[d])'
        BY <2>2, <4>1 DEF ClientOK, StoredOK, EnableOK
      <4>5. client[d].todo \in SUBSET Bindings /\ client[d].deleted \in SUBSET Bindings
        BY <1>b DEF Client
      <4>6. RetireOK(client[d])'
        BY <2>1, <2>2, <2>5, <4>1, <4>5 DEF ClientOK, RetireOK
      <4>7. QED BY <4>3, <4>4, <4>6 DEF ClientOK
    <3>3. QED BY <3>1, <3>2
  <2>8. SavesAreDistinct'
    BY <2>2, <2>3 DEF Inv, Safety, SavesAreDistinct, Saving, SavingPcs
  <2>9. ActiveSecretPresent'
    BY <2>2, <2>5 DEF Inv, Safety, ActiveSecretPresent
  <2>10. SupersededSecretGone'
    BY <2>1, <2>2, <2>5 DEF Inv, Safety, SupersededSecretGone
  <2>11. OneActivePerRole'
    BY <2>5, <2>6 DEF Inv, Safety, OneActivePerRole
  <2>12. QED BY <2>7, <2>8, <2>9, <2>10, <2>11 DEF Safety
<1>9. ASSUME NEW c \in Clients, ActivationFails(c) PROVE Safety'
  <2>1. client' = [client EXCEPT ![c] = FailedSave(c)] /\ UNCHANGED <<binding, secrets>>
    BY <1>9 DEF ActivationFails
  <2>2. client[c].pc = "activating" BY <1>9 DEF ActivationFails
  <2>3. /\ FailedSave(c).pc \in {"idle", "discarding"} /\ FailedSave(c).op = client[c].op
        /\ FailedSave(c).account = client[c].account
        /\ FailedSave(c).binding = client[c].binding
        /\ FailedSave(c).deleted = client[c].deleted
    BY <1>b DEF FailedSave, Client
  <2>4. ClientOK(FailedSave(c))
    BY <1>b, <2>2, <2>3
    DEF ClientOK, SaveOK, StoredOK, RetireOK, EnableOK, SavingPcs, RetiringPcs
  <2>5. \A d \in Clients : d # c => ~(Saving(d) /\ client[d].binding = FailedSave(c).binding)
    BY <2>2, <2>3 DEF Inv, Safety, SavesAreDistinct, Saving, SavingPcs
  <2>6. QED BY <2>1, <2>4, <2>5, ClientStep
<1>10. ASSUME NEW c \in Clients, DiscardSecret(c) PROVE Safety'
  <2> DEFINE k == [client[c] EXCEPT !.pc = "idle", !.result = "failed"]
  <2>1. client' = [client EXCEPT ![c] = k] /\ binding' = binding
    BY <1>10, <1>a DEF DiscardSecret
  <2>2. secrets' \in {secrets, secrets \ {client[c].binding}}
    BY <1>10 DEF DiscardSecret
  <2>3. Saving(c) /\ binding[client[c].binding].status = "unused"
    BY <1>10, <1>b DEF DiscardSecret, Saving, SavingPcs, ClientOK, SaveOK
  <2>4. k.pc = "idle" BY <1>b DEF Client
  <2> HIDE DEF k
  <2>5. \A d \in Clients : d # c => ~(Saving(d) /\ client[d].binding = client[c].binding)
    BY <2>3 DEF Inv, Safety, SavesAreDistinct
  <2>6. k.pc \notin RetiringPcs /\ k.pc \notin SavingPcs
    BY <2>4 DEF RetiringPcs, SavingPcs
  <2>7. QED BY <2>1, <2>2, <2>3, <2>4, <2>5, <2>6, DeleteStep
<1>11. ASSUME NEW c \in Clients, NEW b \in Bindings, DeleteSecret(c, b) PROVE Safety'
  <2> DEFINE k == client'[c]
  <2>1. client' = [client EXCEPT ![c] = k] /\ binding' = binding
    BY <1>11, <1>a DEF DeleteSecret
  <2>2. secrets' \in {secrets, secrets \ {b}}
    BY <1>11 DEF DeleteSecret
  <2>3. /\ binding[b].status \in {"CLEANUP_REQUIRED", "SUPERSEDED"}
        /\ RetireOK(client[c]) /\ client[c].pc \in RetiringPcs
    BY <1>11, <1>b DEF DeleteSecret, ClientOK, RetireOK, RetiringPcs
  <2>4. /\ k.pc \in RetiringPcs
        /\ k.todo = client[c].todo \ {b}
        /\ \/ k.deleted = client[c].deleted \cup {b} /\ secrets' = secrets \ {b}
           \/ k.deleted = client[c].deleted
    BY <1>11, <1>a, <1>b DEF DeleteSecret, Client, RetiringPcs
  <2> HIDE DEF k
  <2>5. \A d \in Clients : ~(Saving(d) /\ client[d].binding = b)
    BY <1>b, <2>3 DEF Saving, ClientOK, SaveOK
  <2>9. /\ \A y \in client[c].todo \cup client[c].deleted :
             binding[y].status \in {"CLEANUP_REQUIRED", "SUPERSEDED"}
        /\ \A y \in client[c].deleted : y \notin secrets
    BY <2>3 DEF RetireOK
  <2>10. k.deleted \subseteq client[c].deleted \cup {b} /\ k.todo \subseteq client[c].todo
    BY <2>4
  <2>6. /\ \A y \in k.todo \cup k.deleted :
             binding[y].status \in {"CLEANUP_REQUIRED", "SUPERSEDED"}
        /\ \A y \in k.deleted : y \notin secrets'
    BY <2>2, <2>3, <2>4, <2>9, <2>10
  <2>7. k.pc \notin SavingPcs /\ k.pc \notin {"validating", "enabling"}
    BY <2>4 DEF RetiringPcs, SavingPcs
  <2>8. QED BY <2>1, <2>2, <2>3, <2>5, <2>6, <2>7, DeleteStep
<1>12. ASSUME NEW c \in Clients, NEW b \in Bindings, ResolveForEnable(c, b) PROVE Safety'
  <2> DEFINE k == client'[c]
  <2>1. client' = [client EXCEPT ![c] = k] /\ UNCHANGED <<binding, secrets>>
    BY <1>12, <1>a DEF ResolveForEnable
  <2>2. client[c].account \in Accounts
    BY <1>12, <1>b DEF ResolveForEnable, ClientOK, EnableOK
  <2>3. k.pc \in {"validating", "enabling", "idle"} /\ k.account = client[c].account
    BY <1>12, <1>a, <1>b DEF ResolveForEnable, Client
  <2> HIDE DEF k
  <2>4. ClientOK(k) /\ k.pc \notin SavingPcs
    BY <2>2, <2>3 DEF ClientOK, SaveOK, StoredOK, RetireOK, EnableOK, RetiringPcs, SavingPcs
  <2>5. QED BY <2>1, <2>4, ClientStep
<1>13. ASSUME NEW c \in Clients, StartMarking(c) PROVE Safety'
  <2> DEFINE k == [client[c] EXCEPT !.pc = "marking"]
  <2>1. client' = [client EXCEPT ![c] = k] /\ UNCHANGED <<binding, secrets>>
    BY <1>13, <1>a DEF StartMarking
  <2>2. client[c].pc = "deleting" /\ RetireOK(client[c])
    BY <1>13, <1>b DEF StartMarking, ClientOK
  <2>3. k.pc = "marking" /\ k.todo = client[c].todo /\ k.deleted = client[c].deleted
    BY <1>b DEF Client
  <2> HIDE DEF k
  <2>4. ClientOK(k) /\ k.pc \notin SavingPcs
    BY <2>2, <2>3 DEF ClientOK, SaveOK, StoredOK, RetireOK, EnableOK, RetiringPcs, SavingPcs
  <2>5. QED BY <2>1, <2>4, ClientStep
<1>14. ASSUME NEW c \in Clients, MarkSuperseded(c) PROVE Safety'
  <2>1. /\ client'[c].pc = "deleting" /\ client'[c].deleted = {}
        /\ client'[c].todo = client[c].todo
        /\ \A d \in Clients : d # c => client'[d] = client[d]
        /\ secrets' = secrets
    BY <1>14, <1>a, <1>b DEF MarkSuperseded, Client
  <2>2. /\ client[c].deleted \in SUBSET Bindings
        /\ \A y \in client[c].deleted : y \notin secrets
        /\ \A y \in client[c].todo : binding[y].status \in {"CLEANUP_REQUIRED", "SUPERSEDED"}
    BY <1>14, <1>b DEF MarkSuperseded, ClientOK, RetireOK, RetiringPcs, Client
  <2>3. ASSUME NEW y \in Bindings
        PROVE  \/ binding'[y] = binding[y]
               \/ /\ y \in client[c].deleted
                  /\ binding[y].status = "CLEANUP_REQUIRED"
                  /\ binding'[y].status = "SUPERSEDED"
    <3>1. binding' = binding \/ binding' = Marked(client[c].deleted)
      BY <1>14 DEF MarkSuperseded
    <3>2. QED BY <3>1, <1>a DEF Marked, Binding
  <2>4. ASSUME NEW d \in Clients PROVE ClientOK(client[d])'
    <3>1. client[d].todo \in SUBSET Bindings /\ client[d].deleted \in SUBSET Bindings
      BY <1>b DEF Client
    <3>2. CASE d = c
      BY <2>1, <2>2, <2>3, <3>1, <3>2
      DEF ClientOK, SaveOK, StoredOK, RetireOK, EnableOK, SavingPcs
    <3>3. CASE d # c
      <4>1. client'[d] = client[d] /\ ClientOK(client[d]) BY <2>1, <3>3, <1>b
      <4>2. QED BY <2>1, <2>3, <3>1, <4>1 DEF ClientOK, SaveOK, StoredOK, RetireOK, EnableOK
    <3>4. QED BY <3>2, <3>3
  <2>5. SavesAreDistinct'
    BY <2>1 DEF Inv, Safety, SavesAreDistinct, Saving, SavingPcs
  <2>6. ActiveSecretPresent' BY <2>1, <2>3 DEF Inv, Safety, ActiveSecretPresent
  <2>7. SupersededSecretGone' BY <2>1, <2>2, <2>3 DEF Inv, Safety, SupersededSecretGone
  <2>8. OneActivePerRole' BY <2>3 DEF Inv, Safety, OneActivePerRole
  <2>9. QED BY <2>4, <2>5, <2>6, <2>7, <2>8 DEF Safety
<1>15. ASSUME NEW c \in Clients, Finish(c) \/ CommitEnable(c) \/ Crash(c) PROVE Safety'
  <2> DEFINE k == client'[c]
  <2>1. client' = [client EXCEPT ![c] = k] /\ UNCHANGED <<binding, secrets>>
    BY <1>15, <1>a DEF Finish, CommitEnable, Crash
  <2>2. k.pc = "idle"
    BY <1>15, <1>a, <1>b DEF Finish, CommitEnable, Crash, IdleClient, Client
  <2> HIDE DEF k
  <2>3. ClientOK(k) /\ k.pc \notin SavingPcs
    BY <2>2 DEF ClientOK, SaveOK, StoredOK, RetireOK, EnableOK, RetiringPcs, SavingPcs
  <2>4. QED BY <2>1, <2>3, ClientStep
<1>16. CASE UNCHANGED vars
  BY <1>16 DEF vars, Inv, Safety, ClientOK, SaveOK, StoredOK, RetireOK, EnableOK,
     SavesAreDistinct, Saving, ActiveSecretPresent, SupersededSecretGone, OneActivePerRole
<1>17. QED
  BY <1>1, <1>2, <1>3, <1>4, <1>5, <1>6, <1>7, <1>8, <1>9, <1>10, <1>11, <1>12, <1>13, <1>14,
     <1>15, <1>16
  DEF Next, Begin, Continue, ActivationRolledBack

----------------------------------------------------------------------------
(* The theorems.  All assume that a failed COMMIT which leaves the         *)
(* transaction has committed, as _activate_secret_binding assumes.         *)

LEMMA InvHolds ==
  ASSUME "commit_rollback" \notin Faults
  PROVE  Spec => []Inv
<1>1. Inv /\ [Next]_vars => Inv' BY StepTypeOK, StepSafety DEF Inv
<1>2. QED BY <1>1, InitInv, PTL DEF Spec

(* Every variable keeps its type.                                          *)
THEOREM TypeCorrect ==
  ASSUME "commit_rollback" \notin Faults
  PROVE  Spec => []TypeOK
<1>1. Inv => TypeOK BY DEF Inv
<1>2. QED BY <1>1, InvHolds, PTL

(* No process ever deletes the value of a credential in use, however many  *)
(* saves, removals, cleanups and crashes interleave.                       *)
THEOREM SecretsInUseStay ==
  ASSUME "commit_rollback" \notin Faults
  PROVE  Spec => []ActiveSecretPresent
<1>1. Inv => ActiveSecretPresent BY DEF Inv, Safety
<1>2. QED BY <1>1, InvHolds, PTL

(* A credential is marked SUPERSEDED only after its value is gone, and the *)
(* value never comes back.                                                 *)
THEOREM SupersededIsGone ==
  ASSUME "commit_rollback" \notin Faults
  PROVE  Spec => []SupersededSecretGone
<1>1. Inv => SupersededSecretGone BY DEF Inv, Safety
<1>2. QED BY <1>1, InvHolds, PTL

(* An endpoint role has at most one ACTIVE credential.                     *)
THEOREM OneActiveCredential ==
  ASSUME "commit_rollback" \notin Faults
  PROVE  Spec => []OneActivePerRole
<1>1. Inv => OneActivePerRole BY DEF Inv, Safety
<1>2. QED BY <1>1, InvHolds, PTL

----------------------------------------------------------------------------
(* Values and reports: no stored value is out of reach, and what an        *)
(* operation reports is so and stays so.                                   *)

(* How far a binding gets in one step: it is activated by its own save, is *)
(* retired for good, and is never forgotten.                               *)
Onward(b) ==
  /\ binding[b].status = "SUPERSEDED" => binding'[b].status = "SUPERSEDED"
  /\ binding[b].status = "CLEANUP_REQUIRED" => binding'[b].status \in {"CLEANUP_REQUIRED", "SUPERSEDED"}
  /\ binding[b].status = "ACTIVE" => binding'[b].status \in {"ACTIVE", "CLEANUP_REQUIRED"}
  /\ binding[b].status = "unused" =>
       \/ binding'[b].status = "unused"
       \/ \E c \in Clients : /\ client[c].pc = "activating" /\ client[c].binding = b
                             /\ client'[c] = AfterActivation(c)
  /\ b \in secrets /\ binding[b].status \in {"ACTIVE", "CLEANUP_REQUIRED"} =>
       b \notin secrets' \/ binding'[b].status \in {"ACTIVE", "CLEANUP_REQUIRED"}

LEMMA DetachedOnward ==
  ASSUME TypeOK, NEW S \in SUBSET Bindings, secrets' = secrets, binding' = Detached(S),
         \A b \in S : binding[b].status \in {"ACTIVE", "CLEANUP_REQUIRED"}
  PROVE  \A b \in Bindings : Onward(b)
<1>1. \A b \in Bindings : /\ b \in S => binding'[b].status = "CLEANUP_REQUIRED"
                          /\ b \notin S => binding'[b] = binding[b]
  BY DEF TypeOK, Detached, Binding
<1> QED BY <1>1 DEF Onward

LEMMA BindingsOnward ==
  ASSUME "commit_rollback" \notin Faults, Inv, [Next]_vars
  PROVE  \A b \in Bindings : Onward(b)
<1> TypeOK /\ \A c \in Clients : ClientOK(client[c]) /\ client[c] \in Client
  BY DEF Inv, TypeOK, Safety
<1>1. binding' = binding => \A b \in Bindings : Onward(b)
  BY DEF Onward
<1>2. CASE Administer \/ UNCHANGED vars
  <2>1. \A n, x, m, ep : UpdateAccount(n, x, m, ep) => binding' = binding
    BY DEF UpdateAccount
  <2>2. \A n, x : DisableAccount(n, x) => binding' = binding
    BY DEF DisableAccount
  <2> QED BY <1>1, <1>2, <2>1, <2>2 DEF Administer, vars, UpdatePolicy, AddAccount
<1>3. ASSUME NEW c \in Clients, Begin(c) PROVE \A b \in Bindings : Onward(b)
  <2>1. \A n, x, r, b : SetSecret(c, n, x, r, b) => binding' = binding
    BY DEF SetSecret
  <2>2. \A n, x : EnableAccount(c, n, x) => binding' = binding
    BY DEF EnableAccount
  <2>3. CleanupCredentials(c) => binding' = binding
    BY DEF CleanupCredentials
  <2>4. ASSUME NEW n, NEW x, NEW r, RemoveSecret(c, n, x, r) PROVE \A b \in Bindings : Onward(b)
    <3>1. PICK a : binding' = Detached(ActiveOf(a, r)) /\ secrets' = secrets
      BY <2>4 DEF RemoveSecret
    <3>2. \A b \in ActiveOf(a, r) : binding[b].status \in {"ACTIVE", "CLEANUP_REQUIRED"}
      BY DEF ActiveOf
    <3> QED BY <3>1, <3>2, QueryTypes, DetachedOnward
  <2>5. ASSUME NEW n, NEW x, SoftRemoveAccount(c, n, x) PROVE \A b \in Bindings : Onward(b)
    <3>1. PICK a : binding' = Detached(ToClean(a)) /\ secrets' = secrets
      BY <2>5 DEF SoftRemoveAccount
    <3>2. \A b \in ToClean(a) : binding[b].status \in {"ACTIVE", "CLEANUP_REQUIRED"}
      BY DEF ToClean
    <3> QED BY <3>1, <3>2, QueryTypes, DetachedOnward
  <2> QED BY <1>1, <1>3, <2>1, <2>2, <2>3, <2>4, <2>5 DEF Begin
<1>4. ASSUME NEW c \in Clients, Continue(c) PROVE \A b \in Bindings : Onward(b)
  <2>1. CASE ActivateBinding(c)
    <3> DEFINE n == client[c].binding
               old == Replaced(c)
    <3>1. /\ n \in Bindings /\ binding[n].status = "unused" /\ client[c].pc = "activating"
          /\ old \in SUBSET Bindings /\ \A b \in old : binding[b].status = "ACTIVE"
      BY <2>1 DEF ActivateBinding, ClientOK, SaveOK, SavingPcs, Replaced, ActiveOf
    <3>2. binding' = [Detached(old) EXCEPT ![n] =
            [status |-> "ACTIVE", account |-> client[c].account, role |-> client[c].role]]
      BY <2>1 DEF ActivateBinding
    <3>3. client'[c] = AfterActivation(c)
      BY <2>1 DEF ActivateBinding, TypeOK
    <3>4. n = client[c].binding
      OBVIOUS
    <3> HIDE DEF n, old
    <3>5. \A b \in Bindings : /\ b = n => binding'[b].status = "ACTIVE"
                              /\ b \in old => binding'[b].status = "CLEANUP_REQUIRED"
                              /\ b \notin old /\ b # n => binding'[b] = binding[b]
      BY <3>1, <3>2 DEF TypeOK, Detached, Binding
    <3> QED BY <3>1, <3>3, <3>4, <3>5 DEF Onward
  <2>2. CASE MarkSuperseded(c)
    <3>1. \A b \in Bindings : \/ binding'[b].status = binding[b].status
                              \/ /\ b \in client[c].deleted /\ binding[b].status = "CLEANUP_REQUIRED"
                                 /\ binding'[b].status = "SUPERSEDED"
      BY <2>2 DEF MarkSuperseded, Marked, TypeOK, Binding
    <3>2. secrets' = secrets /\ \A b \in client[c].deleted : b \notin secrets
      BY <2>2 DEF MarkSuperseded, ClientOK, RetireOK, RetiringPcs
    <3> QED BY <3>1, <3>2 DEF Onward
  <2>3. CASE ~ActivateBinding(c) /\ ~MarkSuperseded(c)
    BY <1>1, <1>4, <2>3 DEF Continue, StoreSecret, ActivationFails, ActivationRolledBack,
       DiscardSecret, DeleteSecret, ResolveForEnable, StartMarking, Finish, CommitEnable
  <2> QED BY <2>1, <2>2, <2>3
<1>5. ASSUME NEW c \in Clients, Crash(c) PROVE binding' = binding
  BY <1>5 DEF Crash
<1> QED BY <1>1, <1>2, <1>3, <1>4, <1>5 DEF Next

----------------------------------------------------------------------------
(* Stored values. *)

InFlight(b) == \E c \in Clients : HeldBy(c, b)

(* The process that holds the value dies, or its discard comes to nothing. *)
GivenUp(b) ==
  \E c \in Clients : HeldBy(c, b) /\ (client'[c] = IdleClient \/ client[c].pc = "discarding")

(* In the catalog's own store a value comes with its row. *)
OrphanInv ==
  LocalStore => /\ \A c \in Clients : client[c].pc # "storing"
                /\ \A b \in secrets : Kept(b)

(* Where a value comes from. *)
LEMMA ValueStored ==
  ASSUME "commit_rollback" \notin Faults, Inv, [Next]_vars, NEW b \in secrets', b \notin secrets
  PROVE  \/ Kept(b)'
         \/ InFlight(b)' /\ ~(\A c \in Clients : client[c].pc # "storing")
<1> TypeOK /\ \A c \in Clients : ClientOK(client[c]) /\ client[c] \in Client
  BY DEF Inv, TypeOK, Safety
<1>1. PICK c \in Clients : StoreSecret(c) \/ ActivateBinding(c)
  <2>1. \A n, x, m, ep : ~UpdateAccount(n, x, m, ep)
    BY DEF UpdateAccount
  <2>2. \A n, x : ~DisableAccount(n, x)
    BY DEF DisableAccount
  <2>3. ~Administer /\ ~UNCHANGED vars
    BY <2>1, <2>2 DEF Administer, vars, UpdatePolicy, AddAccount
  <2>4. \A c, n, x, r, y : ~SetSecret(c, n, x, r, y)
    BY DEF SetSecret
  <2>5. \A c, n, x, r : ~RemoveSecret(c, n, x, r)
    BY DEF RemoveSecret
  <2>6. \A c, n, x : ~SoftRemoveAccount(c, n, x) /\ ~EnableAccount(c, n, x)
    BY DEF SoftRemoveAccount, EnableAccount
  <2>7. \A c \in Clients : ~Begin(c)
    BY <2>4, <2>5, <2>6 DEF Begin, CleanupCredentials
  <2>8. \A c \in Clients : ~Crash(c)
    BY DEF Crash
  <2>9. \A c, y : ~DeleteSecret(c, y) /\ ~ResolveForEnable(c, y)
    BY DEF DeleteSecret, ResolveForEnable
  <2>10. \A c : ~DiscardSecret(c) /\ ~ActivationFails(c) /\ ~ActivationRolledBack(c) /\ ~StartMarking(c)
    BY DEF DiscardSecret, ActivationFails, ActivationRolledBack, StartMarking
  <2>11. \A c : ~MarkSuperseded(c) /\ ~Finish(c) /\ ~CommitEnable(c)
    BY DEF MarkSuperseded, Finish, CommitEnable
  <2> QED BY <2>3, <2>7, <2>8, <2>9, <2>10, <2>11 DEF Next, Continue
<1>2. CASE StoreSecret(c)
  BY <1>2 DEF StoreSecret, InFlight, HeldBy, TypeOK, Client
<1>3. CASE ActivateBinding(c)
  <2>1. b = client[c].binding /\ b \in Bindings
    BY <1>3 DEF ActivateBinding, ClientOK, SaveOK, SavingPcs
  <2>2. binding'[b].status = "ACTIVE"
    BY <1>3, <2>1 DEF ActivateBinding, Detached
  <2> QED BY <2>2 DEF Kept
<1> QED BY <1>1, <1>2, <1>3

(* Who holds a value keeps it, activates it, or gives it up. *)
LEMMA ValueHeld ==
  ASSUME "commit_rollback" \notin Faults, Inv, [Next]_vars, ~LocalStore, NEW b \in Bindings,
         b \in secrets', InFlight(b)
  PROVE  Kept(b)' \/ InFlight(b)' \/ GivenUp(b)
<1> TypeOK /\ \A c \in Clients : ClientOK(client[c]) /\ client[c] \in Client
  BY DEF Inv, TypeOK, Safety
<1>1. PICK c \in Clients : HeldBy(c, b) /\ client[c].binding = b /\ client[c].pc \in {"activating", "discarding"}
  BY DEF InFlight, HeldBy
<1>2. CASE client'[c] = client[c]
  BY <1>1, <1>2 DEF InFlight, HeldBy
<1>3. CASE client'[c] # client[c]
  <2>1. Begin(c) \/ Continue(c) \/ Crash(c)
    BY <1>3, OwnStep
  <2>2. ~Begin(c)
    <3>1. ~Idle(c)
      BY <1>1 DEF Idle
    <3>2. \A n, x, r, y : ~SetSecret(c, n, x, r, y)
      BY <3>1 DEF SetSecret
    <3>3. \A n, x, r : ~RemoveSecret(c, n, x, r)
      BY <3>1 DEF RemoveSecret
    <3>4. \A n, x : ~SoftRemoveAccount(c, n, x) /\ ~EnableAccount(c, n, x)
      BY <3>1 DEF SoftRemoveAccount, EnableAccount
    <3> QED BY <3>1, <3>2, <3>3, <3>4 DEF Begin, CleanupCredentials
  <2>3. ActivateBinding(c) \/ ActivationFails(c) \/ DiscardSecret(c) \/ Crash(c)
    BY <1>1, <2>1, <2>2 DEF Continue, StoreSecret, ActivationRolledBack, DeleteSecret, ResolveForEnable,
       StartMarking, MarkSuperseded, Finish, CommitEnable
  <2>4. CASE ActivateBinding(c)
    BY <1>1, <2>4 DEF ActivateBinding, Detached, Kept
  <2>5. CASE ActivationFails(c)
    BY <1>1, <2>5 DEF ActivationFails, FailedSave, InFlight, HeldBy, TypeOK, Client
  <2>6. CASE DiscardSecret(c)
    BY <1>1, <2>6 DEF DiscardSecret, GivenUp
  <2>7. CASE Crash(c)
    <3>1. client'[c] = IdleClient
      BY <2>7 DEF Crash, TypeOK
    <3> QED BY <1>1, <3>1 DEF GivenUp
  <2> QED BY <2>3, <2>4, <2>5, <2>6, <2>7
<1> QED BY <1>2, <1>3

LEMMA StoringStarts ==
  ASSUME TypeOK, [Next]_vars, LocalStore, NEW c \in Clients, client[c].pc # "storing"
  PROVE  client'[c].pc # "storing"
<1> SUFFICES ASSUME client'[c].pc = "storing" PROVE FALSE
  OBVIOUS
<1> client \in [Clients -> Client] /\ client[c] \in Client
  BY DEF TypeOK
<1>1. Begin(c) \/ Continue(c) \/ Crash(c)
  BY OwnStep
<1>2. ~Begin(c)
  <2>1. \A n, x, r, y : ~SetSecret(c, n, x, r, y)
    BY DEF SetSecret, IdleClient
  <2>2. \A n, x, r : ~RemoveSecret(c, n, x, r)
    BY DEF RemoveSecret, IdleClient
  <2>3. \A n, x : ~SoftRemoveAccount(c, n, x)
    BY DEF SoftRemoveAccount, IdleClient
  <2>4. ~CleanupCredentials(c)
    BY DEF CleanupCredentials, IdleClient
  <2>5. \A n, x : ~EnableAccount(c, n, x)
    BY DEF EnableAccount, IdleClient
  <2> QED BY <2>1, <2>2, <2>3, <2>4, <2>5 DEF Begin
<1>3. ~Continue(c)
  <2>1. ~ActivateBinding(c) /\ ~ActivationRolledBack(c) /\ ~ActivationFails(c)
    BY DEF ActivateBinding, ActivationRolledBack, AfterActivation, ActivationFails, FailedSave, Client
  <2>2. ~StoreSecret(c) /\ ~DiscardSecret(c)
    BY DEF StoreSecret, DiscardSecret, Client
  <2>3. \A y : ~DeleteSecret(c, y)
    BY DEF DeleteSecret, Client
  <2>4. \A y : ~ResolveForEnable(c, y)
    BY DEF ResolveForEnable, Client
  <2>5. ~StartMarking(c) /\ ~MarkSuperseded(c) /\ ~Finish(c) /\ ~CommitEnable(c)
    BY DEF StartMarking, MarkSuperseded, Finish, CommitEnable, Client
  <2> QED BY <2>1, <2>2, <2>3, <2>4, <2>5 DEF Continue
<1>4. ~Crash(c)
  BY DEF Crash, IdleClient
<1> QED BY <1>1, <1>2, <1>3, <1>4

(* What a step leaves in the store. *)
OrphanMove ==
  \A b \in secrets' :
    \/ Kept(b)'
    \/ ~LocalStore /\ (InFlight(b)' \/ (b \in secrets /\ ~Kept(b) /\ ~InFlight(b)) \/ GivenUp(b))

LEMMA OrphanStep ==
  ASSUME "commit_rollback" \notin Faults, Inv, OrphanInv, [Next]_vars
  PROVE  OrphanInv' /\ OrphanMove
<1> TypeOK /\ (LocalStore' <=> LocalStore) /\ secrets \subseteq Bindings
  BY StoreFixed DEF Inv, TypeOK
<1>1. ASSUME NEW b \in secrets, b \in secrets', Kept(b) PROVE Kept(b)'
  BY <1>1, BindingsOnward DEF Onward, Kept
<1>2. CASE LocalStore
  <2>1. \A c \in Clients : client'[c].pc # "storing"
    BY <1>2, StoringStarts DEF OrphanInv
  <2>2. \A b \in secrets' : Kept(b)'
    BY <1>1, <1>2, ValueStored DEF OrphanInv
  <2> QED BY <2>1, <2>2 DEF OrphanInv, OrphanMove
<1>3. CASE ~LocalStore
  <2>1. ASSUME NEW b \in secrets'
        PROVE  Kept(b)' \/ InFlight(b)' \/ (b \in secrets /\ ~Kept(b) /\ ~InFlight(b)) \/ GivenUp(b)
    BY <1>1, <1>3, ValueStored, ValueHeld
  <2> QED BY <1>3, <2>1 DEF OrphanInv, OrphanMove
<1> QED BY <1>2, <1>3

(* No stored value gets out of reach: never in the catalog's own store, and *)
(* in a keyring only when the process that holds it dies or the delete of   *)
(* its discard fails.                                                       *)
THEOREM NoValueIsLost ==
  ASSUME "commit_rollback" \notin Faults
  PROVE  Spec => NoOrphanSecret
<1>1. Init => OrphanInv
  BY DEF Init, OrphanInv, IdleClient
<1>2. Inv /\ OrphanInv /\ [Next]_vars => OrphanInv' /\ OrphanMove
  BY OrphanStep
<1>3. OrphanMove =>
        [\A b \in secrets' :
           \/ Kept(b)'
           \/ /\ ~LocalStore
              /\ \/ \E c \in Clients : HeldBy(c, b)'
                 \/ b \in secrets /\ ~Kept(b) /\ \A c \in Clients : ~HeldBy(c, b)
                 \/ \E c \in Clients :
                      HeldBy(c, b) /\ (client'[c] = IdleClient \/ client[c].pc = "discarding")]_vars
  BY DEF OrphanMove, InFlight, GivenUp
<1> QED BY <1>1, <1>2, <1>3, InvHolds, PTL DEF Spec, NoOrphanSecret

----------------------------------------------------------------------------
(* Reports. *)

(* Of what an operation retired, the rows that still wait for cleanup. *)
InCleanup(k) == {b \in k.touched : binding[b].status = "CLEANUP_REQUIRED"}

(* What a running operation retires waits for cleanup or is done with; it  *)
(* counts no less than waits.  A save or a removal of one credential       *)
(* retires at most that one.                                               *)
WorkOK(k) ==
  k.pc \in RetiringPcs =>
    /\ k.op \in {"set", "remove", "soft_remove", "cleanup"}
    /\ \A b \in k.touched : binding[b].status \in {"CLEANUP_REQUIRED", "SUPERSEDED"}
    /\ k.todo \subseteq k.touched /\ k.deleted \subseteq k.touched
    /\ Cardinality(InCleanup(k)) <= k.pending
    /\ k.op \in {"set", "remove"} => \A b1, b2 \in k.touched : b1 = b2
    /\ k.pc = "marking" => k.deleted # {}

CleanOK(k) ==
  k.result = "clean" /\ k.op # "enable" =>
    \A b \in k.touched : binding[b].status = "SUPERSEDED"

(* The binding of a save is in the catalog once its activation committed. *)
SaveReportOK(k) ==
  k.op = "set" =>
    /\ k.binding \in Bindings
    /\ k.pc \notin {"validating", "enabling"}
    /\ k.pc \in RetiringPcs \/ k.result \in {"clean", "cleanup_required"} =>
         binding[k.binding].status # "unused"
    /\ k.result = "failed" => binding[k.binding].status = "unused"

ReportOK(k) ==
  /\ k.pc # "idle" => k.result = "none"
  /\ k.pc \in {"validating", "enabling"} => k.op = "enable"
  /\ WorkOK(k) /\ CleanOK(k) /\ SaveReportOK(k)

(* No two saves are about the same binding, not even after their report. *)
ReportsAreDistinct ==
  \A c, d \in Clients :
    (client[c].op = "set" /\ client[d].op = "set" /\ client[c].binding = client[d].binding) => c = d

ReportInv == (\A c \in Clients : ReportOK(client[c])) /\ ReportsAreDistinct

LEMMA Subsets ==
  ASSUME NEW S \in SUBSET Bindings, NEW R \in SUBSET S
  PROVE  /\ Cardinality(S) \in Nat /\ Cardinality(R) \in Nat
         /\ Cardinality(R) <= Cardinality(S)
         /\ Cardinality(S \ R) = Cardinality(S) - Cardinality(R)
         /\ Cardinality(S) = 0 => S = {}
<1>1. IsFiniteSet(S)
  BY LifecycleAssumption, FS_Subset
<1>2. IsFiniteSet(R) /\ Cardinality(R) <= Cardinality(S)
  BY <1>1, FS_Subset
<1>3. S \cap R = R
  OBVIOUS
<1>4. Cardinality(S \ R) = Cardinality(S) - Cardinality(R)
  BY <1>1, <1>3, FS_Difference
<1> QED BY <1>1, <1>2, <1>4, FS_CardinalityType, FS_EmptySet

(* What other processes do leaves the report of a process true. *)
LEMMA ReportStays ==
  ASSUME "commit_rollback" \notin Faults, Inv, ReportInv, [Next]_vars, NEW c \in Clients,
         client'[c] = client[c]
  PROVE  ReportOK(client[c])'
<1> DEFINE k == client[c]
<1> TypeOK /\ (\A d \in Clients : ClientOK(client[d])) /\ k \in Client /\ ReportOK(k)
  BY DEF Inv, TypeOK, Safety, ReportInv
<1>1. k.touched \subseteq Bindings /\ k.pending \in Int
  BY DEF Client
<1>2. \A b \in k.touched :
        /\ binding[b].status = "SUPERSEDED" => binding'[b].status = "SUPERSEDED"
        /\ binding[b].status = "CLEANUP_REQUIRED" => binding'[b].status \in {"CLEANUP_REQUIRED", "SUPERSEDED"}
  BY <1>1, BindingsOnward DEF Onward
<1>3. WorkOK(client[c])'
  <2> DEFINE S == InCleanup(k)
             R == {b \in k.touched : binding'[b].status = "CLEANUP_REQUIRED"}
  <2>1. CASE k.pc \in RetiringPcs
    <3>1. \A b \in k.touched : binding[b].status \in {"CLEANUP_REQUIRED", "SUPERSEDED"}
      BY <2>1 DEF ReportOK, WorkOK
    <3>2. R \subseteq S /\ S \subseteq Bindings
      BY <1>1, <1>2, <3>1 DEF InCleanup
    <3>3. Cardinality(R) <= k.pending
      <4>1. Cardinality(S) <= k.pending
        BY <2>1 DEF ReportOK, WorkOK
      <4>2. Cardinality(R) \in Nat /\ Cardinality(S) \in Nat /\ Cardinality(R) <= Cardinality(S)
        <5> HIDE DEF R, S
        <5>1. S \in SUBSET Bindings /\ R \in SUBSET S
          BY <3>2
        <5> QED BY <5>1, Subsets
      <4>3. k.pending \in Int
        BY <1>1
      <4> HIDE DEF R, S, k
      <4> QED BY <4>1, <4>2, <4>3
    <3>4. InCleanup(client[c])' = R
      BY DEF InCleanup
    <3> HIDE DEF R, S
    <3> QED BY <1>2, <2>1, <3>1, <3>3, <3>4 DEF ReportOK, WorkOK
  <2>2. CASE k.pc \notin RetiringPcs
    BY <2>2 DEF WorkOK
  <2> QED BY <2>1, <2>2
<1>4. CleanOK(client[c])'
  BY <1>2 DEF ReportOK, CleanOK
<1>5. SaveReportOK(client[c])'
  <2> SUFFICES ASSUME k.op = "set" PROVE SaveReportOK(client[c])'
    BY DEF SaveReportOK
  <2>1. k.binding \in Bindings
    BY DEF ReportOK, SaveReportOK
  <2>2. Onward(k.binding)
    BY <2>1, BindingsOnward
  <2>3. binding[k.binding].status # "unused" => binding'[k.binding].status # "unused"
    BY <2>1, <2>2 DEF Onward, TypeOK, Binding
  <2>4. k.result = "failed" => binding'[k.binding].status = "unused"
    <3> SUFFICES ASSUME k.result = "failed", binding'[k.binding].status # "unused" PROVE FALSE
      OBVIOUS
    <3>1. k.pc = "idle" /\ binding[k.binding].status = "unused"
      BY DEF ReportOK, SaveReportOK
    <3>2. PICK d \in Clients : client[d].pc = "activating" /\ client[d].binding = k.binding
      BY <2>2, <3>1 DEF Onward
    <3>3. client[d].op = "set"
      BY <3>2 DEF ClientOK, SaveOK, SavingPcs
    <3> QED BY <3>1, <3>2, <3>3 DEF ReportInv, ReportsAreDistinct
  <2> QED BY <2>1, <2>3, <2>4 DEF ReportOK, SaveReportOK
<1> QED BY <1>3, <1>4, <1>5 DEF ReportOK

(* An operation that begins. *)
LEMMA BeginReport ==
  ASSUME Inv, NEW c \in Clients, Begin(c)
  PROVE  ReportOK(client[c])'
<1> TypeOK /\ OneActivePerRole
  BY DEF Inv, Safety
<1> client \in [Clients -> Client] /\ binding \in [Bindings -> Binding]
  BY DEF TypeOK
<1> USE DEF ReportOK, WorkOK, CleanOK, SaveReportOK, RetiringPcs
<1>1. ASSUME NEW n, NEW x, NEW r, NEW b \in Bindings, SetSecret(c, n, x, r, b) PROVE ReportOK(client[c])'
  BY <1>1 DEF SetSecret, IdleClient
<1>2. ASSUME NEW n, NEW x, EnableAccount(c, n, x) PROVE ReportOK(client[c])'
  BY <1>2 DEF EnableAccount, IdleClient
(* The rows an operation has retired, all or some of which it will delete. *)
<1>3. ASSUME NEW S \in SUBSET Bindings, NEW todo \in SUBSET S, NEW o \in {"remove", "soft_remove", "cleanup"},
             client'[c].pc = "deleting", client'[c].op = o, client'[c].touched = S,
             client'[c].todo = todo, client'[c].deleted = {}, client'[c].pending = Cardinality(S),
             client'[c].result = "none",
             \A b \in S : binding'[b].status = "CLEANUP_REQUIRED",
             o = "remove" => \A b1, b2 \in S : b1 = b2
      PROVE  ReportOK(client[c])'
  <2>1. InCleanup(client[c])' = S
    BY <1>3 DEF InCleanup
  <2>2. Cardinality(S) <= Cardinality(S)
    BY Subsets
  <2> QED BY <1>3, <2>1, <2>2
<1>4. ASSUME NEW n, NEW x, NEW r, RemoveSecret(c, n, x, r) PROVE ReportOK(client[c])'
  <2>1. PICK a : /\ binding' = Detached(ActiveOf(a, r))
                 /\ client' = [client EXCEPT ![c] =
                      [IdleClient EXCEPT !.pc = "deleting", !.op = "remove", !.account = a, !.role = r,
                                         !.touched = ActiveOf(a, r), !.todo = ActiveOf(a, r),
                                         !.pending = Cardinality(ActiveOf(a, r))]]
    BY <1>4 DEF RemoveSecret
  <2>2. ActiveOf(a, r) \in SUBSET Bindings /\ \A b1, b2 \in ActiveOf(a, r) : b1 = b2
    BY DEF ActiveOf, OneActivePerRole
  <2>3. \A b \in ActiveOf(a, r) : binding'[b].status = "CLEANUP_REQUIRED"
    BY <2>1, <2>2 DEF Detached, Binding
  <2> HIDE DEF ReportOK
  <2> QED BY <1>3, <2>1, <2>2, <2>3 DEF IdleClient
<1>5. ASSUME NEW n, NEW x, SoftRemoveAccount(c, n, x) PROVE ReportOK(client[c])'
  <2>1. PICK a : \E S \in Candidates(ToClean(a)) :
          /\ binding' = Detached(ToClean(a))
          /\ client' = [client EXCEPT ![c] =
               [IdleClient EXCEPT !.pc = "deleting", !.op = "soft_remove", !.account = a,
                                  !.touched = ToClean(a), !.todo = S,
                                  !.pending = Cardinality(ToClean(a))]]
    BY <1>5 DEF SoftRemoveAccount
  <2>2. PICK S \in Candidates(ToClean(a)) :
          /\ binding' = Detached(ToClean(a))
          /\ client' = [client EXCEPT ![c] =
               [IdleClient EXCEPT !.pc = "deleting", !.op = "soft_remove", !.account = a,
                                  !.touched = ToClean(a), !.todo = S,
                                  !.pending = Cardinality(ToClean(a))]]
    BY <2>1
  <2>3. S \in SUBSET ToClean(a) /\ ToClean(a) \in SUBSET Bindings
    BY QueryTypes, CandidatesType
  <2>4. \A b \in ToClean(a) : binding'[b].status = "CLEANUP_REQUIRED"
    BY <2>2, <2>3 DEF Detached, Binding
  <2> HIDE DEF ReportOK
  <2> QED BY <1>3, <2>2, <2>3, <2>4 DEF IdleClient
<1>6. ASSUME CleanupCredentials(c) PROVE ReportOK(client[c])'
  <2>1. PICK S \in Candidates({b \in Bindings : binding[b].status = "CLEANUP_REQUIRED"}) :
          /\ binding' = binding
          /\ client' = [client EXCEPT ![c] =
               [IdleClient EXCEPT !.pc = "deleting", !.op = "cleanup",
                                  !.touched = S, !.todo = S, !.pending = Cardinality(S)]]
    BY <1>6 DEF CleanupCredentials
  <2>2. S \in SUBSET {b \in Bindings : binding[b].status = "CLEANUP_REQUIRED"}
    BY CandidatesType
  <2>3. S \in SUBSET Bindings /\ \A b \in S : binding'[b].status = "CLEANUP_REQUIRED"
    BY <2>1, <2>2
  <2> HIDE DEF ReportOK
  <2> QED BY <1>3, <2>1, <2>3 DEF IdleClient
<1> HIDE DEF ReportOK
<1> QED BY <1>1, <1>2, <1>4, <1>5, <1>6 DEF Begin

(* The steps of a running operation but the marking. *)
LEMMA ContinueReport ==
  ASSUME "commit_rollback" \notin Faults, Inv, ReportInv, NEW c \in Clients, Continue(c), ~MarkSuperseded(c)
  PROVE  ReportOK(client[c])'
<1> DEFINE k == client[c]
<1> TypeOK /\ OneActivePerRole /\ ClientOK(k) /\ k \in Client /\ ReportOK(k)
  BY DEF Inv, TypeOK, Safety, ReportInv
<1> client \in [Clients -> Client] /\ binding \in [Bindings -> Binding]
  BY DEF TypeOK
<1>1. ASSUME StoreSecret(c) \/ ActivationFails(c) \/ DiscardSecret(c) PROVE ReportOK(client[c])'
  <2>1. k.op = "set" /\ k.result = "none" /\ binding' = binding /\ binding[k.binding].status = "unused"
    BY <1>1 DEF StoreSecret, ActivationFails, DiscardSecret, ClientOK, SaveOK, SavingPcs, ReportOK
  <2>2. /\ client'[c].op = k.op /\ client'[c].binding = k.binding
        /\ \/ client'[c].pc \in {"activating", "discarding"} /\ client'[c].result = "none"
           \/ client'[c].pc = "idle" /\ client'[c].result = "failed"
    <3>1. CASE StoreSecret(c)
      BY <2>1, <3>1 DEF StoreSecret, Client
    <3>2. CASE ActivationFails(c)
      BY <2>1, <3>2 DEF ActivationFails, FailedSave, Client
    <3>3. CASE DiscardSecret(c)
      BY <2>1, <3>3 DEF DiscardSecret, Client
    <3> QED BY <1>1, <3>1, <3>2, <3>3
  <2> QED BY <2>1, <2>2 DEF ReportOK, WorkOK, CleanOK, SaveReportOK, RetiringPcs
<1>2. CASE ActivateBinding(c)
  <2> DEFINE n == k.binding
             old == Replaced(c)
  <2>1. /\ n \in Bindings /\ binding[n].status = "unused" /\ k.op = "set" /\ k.deleted = {}
        /\ k.result = "none"
    BY <1>2 DEF ActivateBinding, ClientOK, SaveOK, SavingPcs, ReportOK
  <2>2. /\ old \in SUBSET Bindings /\ \A b \in old : binding[b].status = "ACTIVE"
        /\ \A b1, b2 \in old : b1 = b2
    BY DEF Replaced, ActiveOf, OneActivePerRole
  <2>3. binding' = [Detached(old) EXCEPT ![n] =
          [status |-> "ACTIVE", account |-> k.account, role |-> k.role]]
    BY <1>2 DEF ActivateBinding
  <2>4. client'[c] = [k EXCEPT !.pc = "deleting", !.touched = old, !.todo = old,
                               !.pending = Cardinality(old)]
    BY <1>2 DEF ActivateBinding, AfterActivation
  <2>5. n = k.binding
    OBVIOUS
  <2> HIDE DEF n, old
  <2>6. binding'[n].status = "ACTIVE" /\ \A b \in old : binding'[b].status = "CLEANUP_REQUIRED"
    BY <2>1, <2>2, <2>3 DEF Detached, Binding
  <2>7. /\ client'[c].pc = "deleting" /\ client'[c].op = "set" /\ client'[c].binding = n
        /\ client'[c].touched = old /\ client'[c].todo = old /\ client'[c].deleted = {}
        /\ client'[c].pending = Cardinality(old) /\ client'[c].result = "none"
    BY <2>1, <2>4, <2>5 DEF Client
  <2>8. InCleanup(client[c])' = old
    BY <2>6, <2>7 DEF InCleanup
  <2>9. Cardinality(old) <= Cardinality(old)
    BY <2>2, Subsets
  <2> QED BY <2>1, <2>2, <2>6, <2>7, <2>8, <2>9 DEF ReportOK, WorkOK, CleanOK, SaveReportOK, RetiringPcs
<1>3. ASSUME NEW b, DeleteSecret(c, b) PROVE ReportOK(client[c])'
  <2>1. k.pc = "deleting" /\ b \in k.todo /\ binding' = binding
    BY <1>3 DEF DeleteSecret
  <2>2. /\ client'[c].op = k.op /\ client'[c].touched = k.touched /\ client'[c].pending = k.pending
        /\ client'[c].binding = k.binding /\ client'[c].result = k.result
        /\ client'[c].pc \in RetiringPcs
        /\ client'[c].todo = k.todo \ {b} /\ client'[c].deleted \in {k.deleted, k.deleted \cup {b}}
        /\ client'[c].pc = "marking" => b \in client'[c].deleted
    BY <1>3 DEF DeleteSecret, RetiringPcs, Client
  <2>3. InCleanup(client[c])' = InCleanup(k)
    BY <2>1, <2>2 DEF InCleanup
  <2> QED BY <2>1, <2>2, <2>3 DEF ReportOK, WorkOK, CleanOK, SaveReportOK, RetiringPcs
<1>4. CASE StartMarking(c)
  <2>1. k.pc = "deleting" /\ k.deleted # {} /\ binding' = binding
    BY <1>4 DEF StartMarking
  <2>2. /\ client'[c].op = k.op /\ client'[c].touched = k.touched /\ client'[c].pending = k.pending
        /\ client'[c].binding = k.binding /\ client'[c].result = k.result
        /\ client'[c].pc = "marking" /\ client'[c].todo = k.todo /\ client'[c].deleted = k.deleted
    BY <1>4 DEF StartMarking, Client
  <2>3. InCleanup(client[c])' = InCleanup(k)
    BY <2>1, <2>2 DEF InCleanup
  <2> QED BY <2>1, <2>2, <2>3 DEF ReportOK, WorkOK, CleanOK, SaveReportOK, RetiringPcs
<1>5. CASE Finish(c)
  <2>1. k.pc = "deleting" /\ binding' = binding
    BY <1>5 DEF Finish
  <2>2. /\ client'[c].op = k.op /\ client'[c].touched = k.touched /\ client'[c].binding = k.binding
        /\ client'[c].pc = "idle" /\ client'[c].result \in {"clean", "cleanup_required"}
        /\ client'[c].result = "clean" => k.pending = 0
    BY <1>5 DEF Finish, Client
  <2>3. k.pending = 0 => InCleanup(k) = {}
    <3>1. InCleanup(k) \in SUBSET Bindings /\ Cardinality(InCleanup(k)) <= k.pending
      BY <2>1 DEF ReportOK, WorkOK, RetiringPcs, InCleanup, Client
    <3>2. Cardinality(InCleanup(k)) \in Nat
      BY <3>1, Subsets
    <3>3. k.pending = 0 => Cardinality(InCleanup(k)) = 0
      BY <3>1, <3>2
    <3> HIDE DEF k
    <3> QED BY <3>1, <3>3, Subsets
  <2>4. client'[c].result = "clean" => \A b \in k.touched : binding[b].status = "SUPERSEDED"
    BY <2>1, <2>2, <2>3 DEF ReportOK, WorkOK, RetiringPcs, InCleanup
  <2> QED BY <2>1, <2>2, <2>4 DEF ReportOK, WorkOK, CleanOK, SaveReportOK, RetiringPcs
<1>6. ASSUME NEW b, ResolveForEnable(c, b) PROVE ReportOK(client[c])'
  <2>1. k.op = "enable" /\ k.result = "none"
    BY <1>6 DEF ResolveForEnable, ReportOK
  <2>2. /\ client'[c].op = k.op
        /\ \/ client'[c].pc \in {"validating", "enabling"} /\ client'[c].result = "none"
           \/ client'[c].pc = "idle" /\ client'[c].result = "failed"
    BY <1>6, <2>1 DEF ResolveForEnable, Client
  <2> QED BY <2>1, <2>2 DEF ReportOK, WorkOK, CleanOK, SaveReportOK, RetiringPcs
<1>7. CASE CommitEnable(c)
  <2>1. k.op = "enable"
    BY <1>7 DEF CommitEnable, ReportOK
  <2>2. client'[c].op = k.op /\ client'[c].pc = "idle"
    BY <1>7 DEF CommitEnable, Client
  <2> QED BY <2>1, <2>2 DEF ReportOK, WorkOK, CleanOK, SaveReportOK, RetiringPcs
<1> QED BY <1>1, <1>2, <1>3, <1>4, <1>5, <1>6, <1>7 DEF Continue, ActivationRolledBack

(* The rows that are marked are waiting no more. *)
LEMMA MarkReport ==
  ASSUME Inv, ReportInv, NEW c \in Clients, MarkSuperseded(c)
  PROVE  ReportOK(client[c])'
<1> DEFINE k == client[c]
           rows == {b \in k.deleted : binding[b].status = "CLEANUP_REQUIRED"}
<1> TypeOK /\ k \in Client /\ ReportOK(k) /\ k.pc = "marking"
  BY DEF Inv, TypeOK, ReportInv, MarkSuperseded
<1> client \in [Clients -> Client] /\ binding \in [Bindings -> Binding]
  BY DEF TypeOK
<1>1. /\ client'[c].op = k.op /\ client'[c].touched = k.touched /\ client'[c].binding = k.binding
      /\ client'[c].result = k.result /\ client'[c].pc = "deleting"
      /\ client'[c].todo = k.todo /\ client'[c].deleted = {}
  BY DEF MarkSuperseded, Client
<1>2. /\ k.touched \in SUBSET Bindings /\ k.deleted \subseteq k.touched /\ k.deleted # {} /\ k.pending \in Int
      /\ \A b \in k.touched : binding[b].status \in {"CLEANUP_REQUIRED", "SUPERSEDED"}
      /\ Cardinality(InCleanup(k)) <= k.pending
  BY DEF ReportOK, WorkOK, RetiringPcs, Client
<1>3. CASE UNCHANGED binding /\ client'[c].pending = k.pending
  <2>1. InCleanup(client[c])' = InCleanup(k)
    BY <1>1, <1>3 DEF InCleanup
  <2> QED BY <1>1, <1>2, <1>3, <2>1 DEF ReportOK, WorkOK, CleanOK, SaveReportOK, RetiringPcs
<1>4. CASE /\ binding' = Marked(k.deleted)
           /\ client'[c].pending = IF k.op \in {"set", "remove"} THEN 0 ELSE k.pending - Cardinality(rows)
  <2>1. \A b \in Bindings : IF b \in rows THEN binding'[b].status = "SUPERSEDED"
                                         ELSE binding'[b] = binding[b]
    BY <1>4 DEF Marked, Binding
  <2>2. rows \in SUBSET InCleanup(k) /\ InCleanup(k) \in SUBSET Bindings
    BY <1>2 DEF InCleanup
  <2>3. InCleanup(client[c])' = InCleanup(k) \ rows
    BY <1>1, <1>2, <2>1, <2>2 DEF InCleanup
  <2>4. k.op \in {"set", "remove"} => InCleanup(k) \ rows = {}
    BY <1>2 DEF ReportOK, WorkOK, RetiringPcs, InCleanup
  <2>5. Cardinality(InCleanup(k) \ rows) <= client'[c].pending
    <3>1. /\ Cardinality(InCleanup(k)) \in Nat /\ Cardinality(rows) \in Nat
          /\ Cardinality(InCleanup(k) \ rows) = Cardinality(InCleanup(k)) - Cardinality(rows)
      <4> HIDE DEF rows, k
      <4> QED BY <2>2, Subsets
    <3>2. CASE k.op \in {"set", "remove"}
      <4>1. client'[c].pending = 0
        BY <1>4, <3>2
      <4>2. InCleanup(k) \ rows = {}
        BY <2>4, <3>2
      <4> HIDE DEF rows, k
      <4> QED BY <4>1, <4>2, FS_EmptySet
    <3>3. CASE k.op \notin {"set", "remove"}
      <4>1. client'[c].pending = k.pending - Cardinality(rows)
        BY <1>4, <3>3
      <4>2. k.pending \in Int /\ Cardinality(InCleanup(k)) <= k.pending
        BY <1>2
      <4> HIDE DEF rows, k
      <4> QED BY <3>1, <4>1, <4>2
    <3> QED BY <3>2, <3>3
  <2>6. \A b \in k.touched : binding'[b].status \in {"CLEANUP_REQUIRED", "SUPERSEDED"}
    BY <1>2, <2>1
  <2>7. k.op = "set" => binding'[k.binding].status # "unused"
    BY <2>1 DEF ReportOK, SaveReportOK, RetiringPcs
  <2> HIDE DEF rows
  <2> QED BY <1>1, <1>2, <2>3, <2>5, <2>6, <2>7 DEF ReportOK, WorkOK, CleanOK, SaveReportOK, RetiringPcs
<1> QED BY <1>3, <1>4 DEF MarkSuperseded, Client

(* A save takes a binding that no other process has named. *)
LEMMA DistinctStep ==
  ASSUME Inv, ReportInv, [Next]_vars
  PROVE  ReportsAreDistinct'
<1> TypeOK /\ client \in [Clients -> Client]
  BY DEF Inv, TypeOK
<1> SUFFICES ASSUME NEW c \in Clients, NEW d \in Clients, c # d, client'[c].op = "set",
                    client'[d].op = "set", client'[c].binding = client'[d].binding
             PROVE  FALSE
  BY DEF ReportsAreDistinct
(* What a process is about is fixed when it begins. *)
<1>1. ASSUME NEW e \in Clients, client'[e].op = "set"
      PROVE  \/ client[e].op = "set" /\ client[e].binding = client'[e].binding
             \/ Fresh(client'[e].binding) /\ \A f \in Clients \ {e} : client'[f] = client[f]
  <2>1. CASE client'[e] = client[e]
    BY <1>1, <2>1
  <2>2. CASE Begin(e)
    <3>1. \A n, x, r : ~RemoveSecret(e, n, x, r)
      BY <1>1 DEF RemoveSecret, IdleClient
    <3>2. \A n, x : ~SoftRemoveAccount(e, n, x)
      <4> SUFFICES ASSUME NEW n, NEW x, SoftRemoveAccount(e, n, x) PROVE FALSE
        OBVIOUS
      <4>1. PICK a, S : client' = [client EXCEPT ![e] =
             [IdleClient EXCEPT !.pc = "deleting", !.op = "soft_remove", !.account = a,
                                !.touched = ToClean(a), !.todo = S, !.pending = Cardinality(ToClean(a))]]
        BY DEF SoftRemoveAccount
      <4>2. client'[e].op = "soft_remove"
        BY <4>1 DEF IdleClient
      <4> QED BY <1>1, <4>2
    <3>3. \A n, x : ~EnableAccount(e, n, x)
      BY <1>1 DEF EnableAccount, IdleClient
    <3>4. PICK n \in Names, x \in 1..MaxRevision, r \in Roles, b \in Bindings : SetSecret(e, n, x, r, b)
      BY <1>1, <2>2, <3>1, <3>2, <3>3 DEF Begin, CleanupCredentials, IdleClient
    <3> QED BY <3>4 DEF SetSecret, IdleClient
  <2>3. CASE Continue(e)
    <3>1. client'[e].op = client[e].op /\ client'[e].binding = client[e].binding
      <4> client[e] \in Client
        OBVIOUS
      <4>1. StoreSecret(e) \/ DiscardSecret(e) => client'[e].op = client[e].op /\ client'[e].binding = client[e].binding
        BY DEF StoreSecret, DiscardSecret, Client
      <4>2. ActivateBinding(e) \/ ActivationRolledBack(e) =>
              client'[e].op = client[e].op /\ client'[e].binding = client[e].binding
        BY DEF ActivateBinding, ActivationRolledBack, AfterActivation, Client
      <4>3. ActivationFails(e) => client'[e].op = client[e].op /\ client'[e].binding = client[e].binding
        BY DEF ActivationFails, FailedSave, Client
      <4>4. \A b : DeleteSecret(e, b) => client'[e].op = client[e].op /\ client'[e].binding = client[e].binding
        BY DEF DeleteSecret, Client
      <4>5. \A b : ResolveForEnable(e, b) => client'[e].op = client[e].op /\ client'[e].binding = client[e].binding
        BY DEF ResolveForEnable, Client
      <4>6. StartMarking(e) \/ MarkSuperseded(e) \/ Finish(e) \/ CommitEnable(e) =>
              client'[e].op = client[e].op /\ client'[e].binding = client[e].binding
        BY DEF StartMarking, MarkSuperseded, Finish, CommitEnable, Client
      <4> QED BY <2>3, <4>1, <4>2, <4>3, <4>4, <4>5, <4>6 DEF Continue
    <3> QED BY <1>1, <3>1
  <2>4. CASE Crash(e)
    BY <1>1, <2>4 DEF Crash, IdleClient
  <2> QED BY <2>1, <2>2, <2>3, <2>4, OwnStep
<1>2. \A e, f \in Clients : Fresh(client'[e].binding) => client[f].binding # client'[e].binding
  BY DEF Fresh
<1> QED BY <1>1, <1>2 DEF ReportInv, ReportsAreDistinct

(* What a save, a removal, a cleanup reports is so, and stays so. *)
THEOREM ReportsAreTrue ==
  ASSUME "commit_rollback" \notin Faults
  PROVE  Spec => []ReportsHonest
<1>1. Init => ReportInv
  BY DEF Init, ReportInv, ReportOK, WorkOK, CleanOK, SaveReportOK, ReportsAreDistinct, RetiringPcs, IdleClient
<1>2. ReportInv => ReportsHonest
  BY DEF ReportInv, ReportOK, CleanOK, SaveReportOK, ReportsHonest
<1>3. Inv /\ ReportInv /\ [Next]_vars => ReportInv'
  <2> SUFFICES ASSUME Inv, ReportInv, [Next]_vars PROVE ReportInv'
    OBVIOUS
  <2>1. ASSUME NEW c \in Clients PROVE ReportOK(client[c])'
    <3>1. CASE Crash(c)
      BY <3>1 DEF Crash, Inv, TypeOK, ReportOK, WorkOK, CleanOK, SaveReportOK, RetiringPcs, IdleClient
    <3> QED BY <3>1, ReportStays, BeginReport, ContinueReport, MarkReport, OwnStep DEF Inv
  <2> QED BY <2>1, DistinctStep DEF ReportInv
<1> QED BY <1>1, <1>2, <1>3, InvHolds, PTL DEF Spec

----------------------------------------------------------------------------
(* Accounts: nothing reaches one too late, and it becomes and stays        *)
(* enabled only with credentials that were resolved.  Both rest on the     *)
(* revision: no step changes an account or its credentials in use without  *)
(* raising it.                                                             *)

(* What the tables say together. *)
RowsOK ==
  /\ \A a \in Accounts : account[a].state = "absent" => account[a] = NoAccount
  /\ \A b \in Bindings : binding[b].status # "unused" => binding[b].account \in Accounts
  /\ NoLateCredential

(* A process that enables an account has resolved what is in use, or the   *)
(* revision has moved on.                                                  *)
EnablingOK(k) ==
  k.pc \in {"validating", "enabling"} =>
    /\ k.op = "enable" /\ k.account \in Accounts
    /\ account[k.account].state # "absent"
    /\ k.expected \in Nat /\ k.expected <= account[k.account].revision
    /\ k.expected = account[k.account].revision => k.touched = Active(k.account)

AccountInv == RowsOK /\ \A c \in Clients : EnablingOK(client[c])

(* A step raises the revision of an account, or leaves its row, its        *)
(* endpoints and its credentials in use as they are.                       *)
Revised(a) ==
  /\ account[a].revision \in Nat /\ account'[a].revision \in Nat
  /\ account[a].revision <= account'[a].revision
  /\ account'[a].revision = account[a].revision =>
       account'[a] = account[a] /\ \A r \in Roles : ActiveOf(a, r)' = ActiveOf(a, r)
  /\ account[a].state # "absent" => account'[a].state # "absent"

(* A step leaves an account that is enabled and stays so complete. *)
StaysComplete(a) ==
  (account'[a].enabled /\ account[a].enabled /\ Complete(a)) => Complete(a)'

(* A step does not enable an account that was there before. *)
NotEnabled(a) == (account'[a].enabled /\ Live(a)) => account[a].enabled

Sound == RowsOK' /\ \A a \in Accounts : Revised(a) /\ StaysComplete(a)
Quiet == Sound /\ \A a \in Accounts : NotEnabled(a)

----------------------------------------------------------------------------
(* The tables. *)

LEMMA TableTypes ==
  ASSUME TypeOK
  PROVE  /\ \A a \in Accounts : account[a].revision \in Nat
         /\ \A a \in Accounts : account[a].state \in {"absent", "live", "removed"}
         /\ \A n : Named(n) \subseteq Accounts
         /\ \A n : \A a \in Named(n) : Live(a)
  BY DEF TypeOK, Account, Named

(* Nothing is in use of an account that is not there. *)
LEMMA AbsentUnused ==
  ASSUME TypeOK, RowsOK, NEW a \in Accounts, account[a].state = "absent"
  PROVE  /\ account[a].revision = 0
         /\ \A b \in Bindings : binding[b].status \in {"ACTIVE", "CLEANUP_REQUIRED"} =>
              binding[b].account # a
         /\ ~Complete(a)
<1>1. account[a] = NoAccount
  BY DEF RowsOK
<1>2. account[a].revision = 0 /\ \A r \in Roles : account[a].endpoint[r] = None
  BY <1>1 DEF NoAccount
<1>3. \A b \in Bindings : binding[b].role \in Roles
  BY DEF TypeOK, Binding
<1> QED BY <1>2, <1>3 DEF RowsOK, NoLateCredential, Complete, CompleteWith, Roles

LEMMA TablesUnchanged ==
  ASSUME TypeOK, RowsOK, UNCHANGED <<account, binding>>
  PROVE  Quiet
BY TableTypes DEF Quiet, Sound, RowsOK, NoLateCredential, Revised, StaysComplete, NotEnabled, Complete,
  CompleteWith, ActiveOf, Live

(* A step that changes one row of the accounts and no binding. *)
LEMMA RowStep ==
  ASSUME TypeOK, RowsOK, binding' = binding, NEW a \in Accounts,
         \A x \in Accounts \ {a} : account'[x] = account[x],
         account'[a].state # "absent", account'[a].revision \in Nat, account[a].revision < account'[a].revision,
         account[a].state # "removed" => account'[a].state # "removed",
         account'[a].state = "removed" => ~account'[a].enabled,
         \A b \in Bindings : (/\ binding[b].status \in {"ACTIVE", "CLEANUP_REQUIRED"}
                              /\ binding[b].account = a) => account'[a].endpoint[binding[b].role] # None,
         account'[a].enabled /\ account[a].enabled /\ Complete(a) => CompleteWith(a, account'[a].endpoint)
  PROVE  Sound
<1>2. \A x, r : ActiveOf(x, r)' = ActiveOf(x, r)
  BY DEF ActiveOf
<1>3. RowsOK'
  <2>1. \A x \in Accounts : account'[x].state = "absent" => account'[x] = NoAccount
    BY DEF RowsOK
  <2>2. \A b \in Bindings : binding'[b].status # "unused" => binding'[b].account \in Accounts
    BY DEF RowsOK
  <2>3. NoLateCredential'
    BY <1>2 DEF RowsOK, NoLateCredential
  <2> QED BY <2>1, <2>2, <2>3 DEF RowsOK
<1>4. \A x \in Accounts : Revised(x)
  BY <1>2, TableTypes DEF Revised
<1>5. \A x \in Accounts : StaysComplete(x)
  BY <1>2 DEF StaysComplete, Complete, CompleteWith
<1> QED BY <1>3, <1>4, <1>5 DEF Sound

LEMMA AddStep ==
  ASSUME TypeOK, RowsOK, NEW a \in Accounts, NEW n \in Names, NEW ep \in Endpoints, AddAccount(a, n, ep)
  PROVE  Quiet
<1>1. /\ account[a].state = "absent" /\ binding' = binding
      /\ account'[a].state = "live" /\ account'[a].revision = 1
      /\ \A x \in Accounts \ {a} : account'[x] = account[x]
  BY DEF AddAccount, TypeOK
<1>2. /\ account[a].revision = 0 /\ ~Complete(a)
      /\ \A b \in Bindings : binding[b].status \in {"ACTIVE", "CLEANUP_REQUIRED"} => binding[b].account # a
  BY <1>1, AbsentUnused
<1>3. Sound
  BY <1>1, <1>2, RowStep
<1>4. \A x \in Accounts : NotEnabled(x)
  BY <1>1 DEF NotEnabled, Live
<1> QED BY <1>3, <1>4 DEF Quiet

LEMMA UpdateStep ==
  ASSUME TypeOK, RowsOK, NEW n \in Names, NEW x \in 1..MaxRevision, NEW m \in Names,
         NEW ep \in Endpoints, UpdateAccount(n, x, m, ep)
  PROVE  Quiet
<1>1. PICK a \in Named(n) :
        /\ (ep["outgoing"] = None /\ account[a].endpoint["outgoing"] # None) =>
             \A b \in ToClean(a) : binding[b].role # "outgoing"
        /\ account[a].enabled => CompleteWith(a, ep)
        /\ account' = [account EXCEPT ![a].name = m, ![a].endpoint = ep, ![a].revision = @ + 1]
        /\ ep["incoming"] # None
        /\ binding' = binding
  BY DEF UpdateAccount
<1>2. a \in Accounts /\ account[a].state = "live" /\ account[a].revision \in Nat
  BY TableTypes DEF Live
<1>3. /\ account'[a].state = "live" /\ account'[a].enabled = account[a].enabled
      /\ account'[a].endpoint = ep /\ account'[a].revision = account[a].revision + 1
      /\ \A y \in Accounts \ {a} : account'[y] = account[y]
  BY <1>1, <1>2 DEF TypeOK, Account
<1>4. ASSUME NEW b \in Bindings, binding[b].status \in {"ACTIVE", "CLEANUP_REQUIRED"},
             binding[b].account = a
      PROVE  ep[binding[b].role] # None
  <2>1. b \in ToClean(a) /\ binding[b].role \in Roles
    BY <1>4 DEF ToClean, BindingsOf, TypeOK, Binding
  <2>2. account[a].endpoint[binding[b].role] # None
    BY <1>4 DEF RowsOK, NoLateCredential
  <2> QED BY <1>1, <2>1, <2>2 DEF Roles
<1>5. account[a].enabled => CompleteWith(a, account'[a].endpoint)
  BY <1>1, <1>3
<1>6. Sound
  <2>1. account'[a].revision \in Nat /\ account[a].revision < account'[a].revision
    BY <1>2, <1>3
  <2>2. \A b \in Bindings : (/\ binding[b].status \in {"ACTIVE", "CLEANUP_REQUIRED"}
                             /\ binding[b].account = a) => account'[a].endpoint[binding[b].role] # None
    BY <1>3, <1>4
  <2> QED BY <1>1, <1>2, <1>3, <1>5, <2>1, <2>2, RowStep
<1>7. \A y \in Accounts : NotEnabled(y)
  BY <1>3 DEF NotEnabled
<1> QED BY <1>6, <1>7 DEF Quiet

LEMMA DisableStep ==
  ASSUME TypeOK, RowsOK, NEW n \in Names, NEW x \in 1..MaxRevision, DisableAccount(n, x)
  PROVE  Quiet
<1>1. PICK a \in Named(n) :
        /\ account' = [account EXCEPT ![a].enabled = FALSE, ![a].revision = @ + 1]
        /\ binding' = binding
  BY DEF DisableAccount
<1>2. a \in Accounts /\ account[a].state = "live" /\ account[a].revision \in Nat
  BY TableTypes DEF Live
<1>3. /\ account'[a].state = "live" /\ ~account'[a].enabled
      /\ account'[a].endpoint = account[a].endpoint /\ account'[a].revision = account[a].revision + 1
      /\ \A y \in Accounts \ {a} : account'[y] = account[y]
  BY <1>1, <1>2 DEF TypeOK, Account
<1>4. \A b \in Bindings : (/\ binding[b].status \in {"ACTIVE", "CLEANUP_REQUIRED"}
                           /\ binding[b].account = a) => account'[a].endpoint[binding[b].role] # None
  BY <1>3 DEF RowsOK, NoLateCredential
<1>5. Sound
  <2>1. account'[a].revision \in Nat /\ account[a].revision < account'[a].revision
    BY <1>2, <1>3
  <2> QED BY <1>1, <1>2, <1>3, <1>4, <2>1, RowStep
<1>6. \A y \in Accounts : NotEnabled(y)
  BY <1>3 DEF NotEnabled
<1> QED BY <1>5, <1>6 DEF Quiet

(* The one step that enables an account; it requires what it promises. *)
LEMMA EnableStep ==
  ASSUME TypeOK, RowsOK, NEW c \in Clients, client[c].account \in Accounts, CommitEnable(c)
  PROVE  /\ Sound
         /\ \A a \in Accounts : NotEnabled(a) \/
              (/\ a = client[c].account /\ client[c].pc = "enabling" /\ Complete(a)
               /\ account[a].revision = client[c].expected)
<1>1. CASE UNCHANGED account
  BY <1>1, TablesUnchanged DEF CommitEnable, Quiet
<1>2. CASE ~UNCHANGED account
  <2> DEFINE a == client[c].account
  <2>1. /\ Live(a) /\ account[a].revision = client[c].expected /\ Complete(a)
        /\ client[c].pc = "enabling" /\ binding' = binding
        /\ account' = [account EXCEPT ![a].enabled = TRUE, ![a].revision = @ + 1]
    BY <1>2 DEF CommitEnable
  <2>2. a \in Accounts /\ account[a].state = "live" /\ account[a].revision \in Nat
    BY <2>1, TableTypes DEF Live
  <2>3. /\ account'[a].state = "live" /\ account'[a].endpoint = account[a].endpoint
        /\ account'[a].revision = account[a].revision + 1
        /\ \A y \in Accounts \ {a} : account'[y] = account[y]
    BY <2>1, <2>2 DEF TypeOK, Account
  <2>4. \A b \in Bindings : (/\ binding[b].status \in {"ACTIVE", "CLEANUP_REQUIRED"}
                             /\ binding[b].account = a) => account'[a].endpoint[binding[b].role] # None
    BY <2>3 DEF RowsOK, NoLateCredential
  <2>5. CompleteWith(a, account'[a].endpoint)
    BY <2>1, <2>3 DEF Complete
  <2>6. \A y \in Accounts : y # a => NotEnabled(y)
    BY <2>3 DEF NotEnabled
  <2>7. a = client[c].account
    OBVIOUS
  <2> HIDE DEF a
  <2>8. account'[a].revision \in Nat /\ account[a].revision < account'[a].revision
    BY <2>2, <2>3
  <2>9. Sound
    BY <2>1, <2>2, <2>3, <2>4, <2>5, <2>8, RowStep
  <2> QED BY <2>1, <2>6, <2>7, <2>9
<1> QED BY <1>1, <1>2

----------------------------------------------------------------------------
(* The bindings. *)

(* A step that takes bindings S of an account out of use and raises its    *)
(* revision, without enabling it; it may remove the account.               *)
LEMMA DetachStep ==
  ASSUME TypeOK, RowsOK, NEW a \in Accounts, NEW S \in SUBSET BindingsOf(a), Live(a),
         \A b \in S : binding[b].status \in {"ACTIVE", "CLEANUP_REQUIRED"},
         binding' = Detached(S),
         \A x \in Accounts \ {a} : account'[x] = account[x],
         account'[a].endpoint = account[a].endpoint,
         account'[a].revision = account[a].revision + 1,
         ~account'[a].enabled,
         \/ account'[a].state = "live"
         \/ account'[a].state = "removed" /\ \A r \in Roles : ActiveOf(a, r) \subseteq S
  PROVE  Quiet
<1>1. ASSUME NEW b \in Bindings
      PROVE  /\ b \in S => /\ binding'[b].status = "CLEANUP_REQUIRED" /\ binding[b].account = a
                           /\ binding[b].status \in {"ACTIVE", "CLEANUP_REQUIRED"}
             /\ b \notin S => binding'[b] = binding[b]
             /\ binding'[b].account = binding[b].account
             /\ binding'[b].role = binding[b].role
  BY DEF TypeOK, Detached, Binding, BindingsOf
<1>2. account[a].state = "live" /\ account[a].revision \in Nat
  BY TableTypes DEF Live
<1>3. \A x \in Accounts \ {a}, r \in Roles : ActiveOf(x, r)' = ActiveOf(x, r)
  BY <1>1 DEF ActiveOf
<1>4. \A r \in Roles : ActiveOf(a, r)' = ActiveOf(a, r) \ S
  BY <1>1 DEF ActiveOf
<1>5. RowsOK'
  <2>1. \A x \in Accounts : account'[x].state = "absent" => account'[x] = NoAccount
    BY DEF RowsOK
  <2>2. \A b \in Bindings : binding'[b].status # "unused" => binding'[b].account \in Accounts
    BY <1>1 DEF RowsOK
  <2>3. ASSUME NEW x \in Accounts, account'[x].state = "removed"
        PROVE  ~account'[x].enabled /\ \A r \in Roles : ActiveOf(x, r)' = {}
    BY <2>3, <1>3, <1>4 DEF RowsOK, NoLateCredential
  <2>4. ASSUME NEW b \in Bindings, binding'[b].status \in {"ACTIVE", "CLEANUP_REQUIRED"}
        PROVE  account'[binding'[b].account].endpoint[binding'[b].role] # None
    <3>1. binding[b].status \in {"ACTIVE", "CLEANUP_REQUIRED"}
      BY <1>1, <2>4
    <3>2. binding[b].account \in Accounts /\ account[binding[b].account].endpoint[binding[b].role] # None
      BY <3>1 DEF RowsOK, NoLateCredential
    <3> QED BY <1>1, <3>2
  <2> QED BY <2>1, <2>2, <2>3, <2>4 DEF RowsOK, NoLateCredential
<1>6. \A x \in Accounts : Revised(x)
  BY <1>2, <1>3, TableTypes DEF Revised
<1>7. \A x \in Accounts : StaysComplete(x) /\ NotEnabled(x)
  BY <1>3 DEF StaysComplete, NotEnabled, Complete, CompleteWith
<1> QED BY <1>5, <1>6, <1>7 DEF Quiet, Sound

LEMMA RemoveSecretStep ==
  ASSUME TypeOK, RowsOK, NEW c \in Clients, NEW n \in Names, NEW x \in 1..MaxRevision, NEW r \in Roles,
         RemoveSecret(c, n, x, r)
  PROVE  Quiet
<1>1. PICK a \in Named(n) :
        /\ ~account[a].enabled
        /\ binding' = Detached(ActiveOf(a, r))
        /\ account' = [account EXCEPT ![a].revision = @ + 1]
  BY DEF RemoveSecret
<1>2. a \in Accounts /\ Live(a)
  BY TableTypes
<1>3. /\ account'[a].state = account[a].state /\ ~account'[a].enabled
      /\ account'[a].endpoint = account[a].endpoint /\ account'[a].revision = account[a].revision + 1
      /\ \A y \in Accounts \ {a} : account'[y] = account[y]
  BY <1>1, <1>2 DEF TypeOK, Account
<1>4. ActiveOf(a, r) \in SUBSET BindingsOf(a) /\ \A b \in ActiveOf(a, r) : binding[b].status = "ACTIVE"
  BY DEF ActiveOf, BindingsOf
<1> QED BY <1>1, <1>2, <1>3, <1>4, DetachStep DEF Live

LEMMA SoftRemoveStep ==
  ASSUME TypeOK, RowsOK, NEW c \in Clients, NEW n \in Names, NEW x \in 1..MaxRevision,
         SoftRemoveAccount(c, n, x)
  PROVE  Quiet
<1>1. PICK a \in Named(n) :
        /\ binding' = Detached(ToClean(a))
        /\ account' = [account EXCEPT ![a].state = "removed", ![a].enabled = FALSE, ![a].revision = @ + 1]
  BY DEF SoftRemoveAccount
<1>2. a \in Accounts /\ Live(a)
  BY TableTypes
<1>3. /\ account'[a].state = "removed" /\ ~account'[a].enabled
      /\ account'[a].endpoint = account[a].endpoint /\ account'[a].revision = account[a].revision + 1
      /\ \A y \in Accounts \ {a} : account'[y] = account[y]
  BY <1>1, <1>2 DEF TypeOK, Account
<1>4. /\ ToClean(a) \in SUBSET BindingsOf(a)
      /\ \A b \in ToClean(a) : binding[b].status \in {"ACTIVE", "CLEANUP_REQUIRED"}
      /\ \A r \in Roles : ActiveOf(a, r) \subseteq ToClean(a)
  BY DEF ActiveOf, BindingsOf, ToClean
<1> QED BY <1>1, <1>2, <1>3, <1>4, DetachStep

(* A save activates its binding in place of the one in use. *)
LEMMA ActivateStep ==
  ASSUME TypeOK, RowsOK, NEW c \in Clients, SaveOK(client[c]), ActivateBinding(c)
  PROVE  Quiet
<1> DEFINE a == client[c].account
           r == client[c].role
           n == client[c].binding
           old == Replaced(c)
<1>1. /\ a \in Accounts /\ n \in Bindings /\ binding[n].status = "unused" /\ r \in Roles
      /\ old \in SUBSET Bindings /\ n \notin old
      /\ \A b \in old : binding[b].status = "ACTIVE" /\ binding[b].account = a /\ binding[b].role = r
  BY DEF ActivateBinding, SaveOK, SavingPcs, TypeOK, Client, Replaced, ActiveOf
<1>2. /\ Live(a) /\ account[a].endpoint[r] # None
      /\ account' = [account EXCEPT ![a].revision = @ + 1]
      /\ binding' = [Detached(old) EXCEPT ![n] = [status |-> "ACTIVE", account |-> a, role |-> r]]
  BY DEF ActivateBinding, ActivationAllowed
<1>9. old = ActiveOf(a, r)
  BY DEF Replaced
<1> HIDE DEF a, r, n, old
<1>3. ASSUME NEW b \in Bindings
      PROVE  /\ b = n => binding'[b].status = "ACTIVE" /\ binding'[b].account = a /\ binding'[b].role = r
             /\ b \in old => binding'[b].status = "CLEANUP_REQUIRED"
             /\ b \notin old /\ b # n => binding'[b] = binding[b]
             /\ b # n => binding'[b].account = binding[b].account /\ binding'[b].role = binding[b].role
  BY <1>1, <1>2 DEF TypeOK, Detached, Binding
<1>4. /\ account[a].state = "live" /\ account[a].revision \in Nat
      /\ account'[a].state = "live" /\ account'[a].enabled = account[a].enabled
      /\ account'[a].endpoint = account[a].endpoint /\ account'[a].revision = account[a].revision + 1
      /\ \A y \in Accounts \ {a} : account'[y] = account[y]
  BY <1>1, <1>2, TableTypes DEF Live, TypeOK, Account
<1>5. ASSUME NEW x \in Accounts, NEW s \in Roles, x # a \/ s # r
      PROVE  ActiveOf(x, s)' = ActiveOf(x, s)
  BY <1>1, <1>3, <1>5 DEF ActiveOf
<1>6. ASSUME NEW x \in Accounts, NEW s \in Roles, x = a, s = r
      PROVE  ActiveOf(x, s)' # {}
  BY <1>1, <1>3, <1>6 DEF ActiveOf
<1>7. RowsOK'
  <2>1. \A x \in Accounts : account'[x].state = "absent" => account'[x] = NoAccount
    BY <1>4 DEF RowsOK
  <2>2. \A b \in Bindings : binding'[b].status # "unused" => binding'[b].account \in Accounts
    BY <1>1, <1>3 DEF RowsOK
  <2>3. ASSUME NEW x \in Accounts, account'[x].state = "removed"
        PROVE  ~account'[x].enabled /\ \A s \in Roles : ActiveOf(x, s)' = {}
    BY <2>3, <1>4, <1>5 DEF RowsOK, NoLateCredential
  <2>4. ASSUME NEW b \in Bindings, binding'[b].status \in {"ACTIVE", "CLEANUP_REQUIRED"}
        PROVE  account'[binding'[b].account].endpoint[binding'[b].role] # None
    <3>1. CASE b = n
      BY <1>2, <1>3, <1>4, <3>1
    <3>2. CASE b # n
      <4>1. binding[b].status \in {"ACTIVE", "CLEANUP_REQUIRED"}
        BY <1>1, <1>3, <2>4, <3>2
      <4>2. binding[b].account \in Accounts /\ account[binding[b].account].endpoint[binding[b].role] # None
        BY <4>1 DEF RowsOK, NoLateCredential
      <4> QED BY <1>3, <1>4, <3>2, <4>2
    <3> QED BY <3>1, <3>2
  <2> QED BY <2>1, <2>2, <2>3, <2>4 DEF RowsOK, NoLateCredential
<1>8. \A x \in Accounts : Revised(x)
  BY <1>4, <1>5, TableTypes DEF Revised
<1>10. \A x \in Accounts : NotEnabled(x)
  BY <1>4 DEF NotEnabled
<1>11. ASSUME NEW x \in Accounts PROVE StaysComplete(x)
  <2>1. \A s \in Roles : ActiveOf(x, s)' = ActiveOf(x, s) \/ (x = a /\ s = r)
    BY <1>5
  <2>2. account'[x].endpoint = account[x].endpoint
    BY <1>4
  <2> QED BY <1>2, <1>6, <2>1, <2>2 DEF StaysComplete, Complete, CompleteWith
<1> QED BY <1>7, <1>8, <1>10, <1>11 DEF Quiet, Sound

LEMMA MarkTablesStep ==
  ASSUME TypeOK, RowsOK, NEW c \in Clients, MarkSuperseded(c)
  PROVE  Quiet
<1>1. account' = account
  BY DEF MarkSuperseded
<1>2. ASSUME NEW b \in Bindings
      PROVE  /\ binding'[b].account = binding[b].account /\ binding'[b].role = binding[b].role
             /\ \/ binding'[b].status = binding[b].status
                \/ binding[b].status = "CLEANUP_REQUIRED" /\ binding'[b].status = "SUPERSEDED"
  BY DEF MarkSuperseded, Marked, TypeOK, Binding
<1>3. \A x, r : ActiveOf(x, r)' = ActiveOf(x, r)
  BY <1>2 DEF ActiveOf
<1>4. RowsOK'
  <2>1. \A b \in Bindings : binding'[b].status # "unused" => binding'[b].account \in Accounts
    BY <1>2 DEF RowsOK
  <2>2. NoLateCredential'
    BY <1>1, <1>2, <1>3 DEF RowsOK, NoLateCredential
  <2> QED BY <1>1, <2>1, <2>2 DEF RowsOK
<1>5. \A x \in Accounts : Revised(x) /\ StaysComplete(x) /\ NotEnabled(x)
  BY <1>1, <1>3, TableTypes DEF Revised, StaysComplete, NotEnabled, Complete, CompleteWith, Live
<1> QED BY <1>4, <1>5 DEF Quiet, Sound

----------------------------------------------------------------------------
(* Every step. *)

LEMMA TablesStep ==
  ASSUME "commit_rollback" \notin Faults, Inv, AccountInv, [Next]_vars
  PROVE  /\ Sound
         /\ \A a \in Accounts : NotEnabled(a) \/ \E c \in Clients :
              /\ a = client[c].account /\ client[c].pc = "enabling" /\ Complete(a)
              /\ account[a].revision = client[c].expected
<1> TypeOK /\ RowsOK /\ \A c \in Clients : SaveOK(client[c]) /\ EnableOK(client[c])
  BY DEF Inv, Safety, ClientOK, AccountInv
<1>1. ASSUME Quiet
      PROVE  Sound /\ \A a \in Accounts : NotEnabled(a)
  BY <1>1 DEF Quiet
<1>2. CASE Administer
  <2>1. \A p : UpdatePolicy(p) => Quiet
    BY TablesUnchanged DEF UpdatePolicy
  <2> QED BY <1>1, <1>2, <2>1, AddStep, UpdateStep, DisableStep DEF Administer
<1>3. ASSUME NEW c \in Clients, Begin(c) PROVE Quiet
  <2>1. \A n, x, r, b : SetSecret(c, n, x, r, b) => Quiet
    BY TablesUnchanged DEF SetSecret
  <2>2. \A n, x : EnableAccount(c, n, x) => Quiet
    BY TablesUnchanged DEF EnableAccount
  <2>3. CleanupCredentials(c) => Quiet
    BY TablesUnchanged DEF CleanupCredentials
  <2> QED BY <1>3, <2>1, <2>2, <2>3, RemoveSecretStep, SoftRemoveStep DEF Begin
<1>4. ASSUME NEW c \in Clients, Continue(c), ~CommitEnable(c) PROVE Quiet
  <2>1. CASE ActivateBinding(c)
    BY <2>1, ActivateStep
  <2>2. CASE MarkSuperseded(c)
    BY <2>2, MarkTablesStep
  <2>3. CASE ~ActivateBinding(c) /\ ~MarkSuperseded(c)
    BY <1>4, <2>3, TablesUnchanged DEF Continue, StoreSecret, ActivationFails, ActivationRolledBack,
       DiscardSecret, DeleteSecret, ResolveForEnable, StartMarking, Finish
  <2> QED BY <2>1, <2>2, <2>3
<1>5. ASSUME NEW c \in Clients, CommitEnable(c)
      PROVE  /\ Sound
             /\ \A a \in Accounts : NotEnabled(a) \/ \E d \in Clients :
                  /\ a = client[d].account /\ client[d].pc = "enabling" /\ Complete(a)
                  /\ account[a].revision = client[d].expected
  <2>1. client[c].account \in Accounts
    BY <1>5 DEF CommitEnable, EnableOK
  <2> QED BY <1>5, <2>1, EnableStep
<1>6. ASSUME NEW c \in Clients, Crash(c) PROVE Quiet
  BY <1>6, TablesUnchanged DEF Crash
<1>7. CASE UNCHANGED vars
  BY <1>1, <1>7, TablesUnchanged DEF vars
<1> QED BY <1>1, <1>2, <1>3, <1>4, <1>5, <1>6, <1>7 DEF Next

(* What a process has resolved stays what is in use, or the revision moves. *)
LEMMA EnablingKept ==
  ASSUME Sound, NEW k, EnablingOK(k)
  PROVE  EnablingOK(k)'
<1> SUFFICES ASSUME k.pc \in {"validating", "enabling"} PROVE EnablingOK(k)'
  BY DEF EnablingOK
<1> DEFINE a == k.account
<1>1. /\ k.op = "enable" /\ a \in Accounts /\ account[a].state # "absent"
      /\ k.expected \in Nat /\ k.expected <= account[a].revision
      /\ k.expected = account[a].revision => k.touched = Active(a)
  BY DEF EnablingOK
<1>2. Revised(a)
  BY <1>1 DEF Sound
<1>3. account'[a].revision = account[a].revision => Active(a)' = Active(a)
  <2> SUFFICES ASSUME account'[a].revision = account[a].revision PROVE Active(a)' = Active(a)
    OBVIOUS
  <2>1. \A r \in Roles : ActiveOf(a, r)' = ActiveOf(a, r)
    BY <1>2 DEF Revised
  <2> QED BY <2>1 DEF Active
<1> HIDE DEF a
<1>4. account'[a].state # "absent" /\ k.expected <= account'[a].revision
  BY <1>1, <1>2 DEF Revised
<1>5. k.expected = account'[a].revision => account'[a].revision = account[a].revision
  BY <1>1, <1>2 DEF Revised
<1> QED BY <1>1, <1>3, <1>4, <1>5 DEF EnablingOK, a

(* Each process that enables an account keeps what it has resolved. *)
LEMMA EnablingStep ==
  ASSUME "commit_rollback" \notin Faults, Inv, AccountInv, [Next]_vars, Sound, NEW d \in Clients
  PROVE  EnablingOK(client[d])'
<1> client \in [Clients -> Client] /\ client[d] \in Client /\ EnablingOK(client[d])
  BY DEF Inv, TypeOK, AccountInv
<1>1. CASE client'[d] = client[d]
  BY <1>1, EnablingKept DEF EnablingOK
<1>2. CASE client'[d].pc \notin {"validating", "enabling"}
  BY <1>2 DEF EnablingOK
<1>3. CASE /\ client[d].pc = "validating"
           /\ client'[d].op = client[d].op /\ client'[d].account = client[d].account
           /\ client'[d].expected = client[d].expected /\ client'[d].touched = client[d].touched
  <2>1. PICK k : k = client[d]
    OBVIOUS
  <2>2. EnablingOK(k)'
    BY <2>1, EnablingKept
  <2> QED BY <1>3, <2>1, <2>2 DEF EnablingOK, Active, ActiveOf
<1>4. CASE \E n \in Names, x \in 1..MaxRevision : EnableAccount(d, n, x)
  <2>1. PICK n \in Names, x \in 1..MaxRevision : EnableAccount(d, n, x)
    BY <1>4
  <2>2. PICK a \in Named(n) :
          /\ account[a].revision = x /\ UNCHANGED <<account, binding>>
          /\ client' = [client EXCEPT ![d] =
               [IdleClient EXCEPT !.pc = "validating", !.op = "enable", !.account = a,
                                  !.expected = x,
                                  !.touched = UNION {ActiveOf(a, r) : r \in Roles},
                                  !.todo = UNION {ActiveOf(a, r) : r \in Roles}]]
    BY <2>1 DEF EnableAccount
  <2>3. a \in Accounts /\ account[a].state = "live" /\ x \in Nat
    BY <2>2, TableTypes, LifecycleAssumption DEF Inv, Live
  <2>4. /\ client'[d].op = "enable" /\ client'[d].account = a /\ client'[d].expected = x
        /\ client'[d].touched = Active(a)
    BY <2>2 DEF Active, IdleClient
  <2>5. \A y : Active(y)' = Active(y)
    BY <2>2 DEF Active, ActiveOf
  <2> QED BY <2>2, <2>3, <2>4, <2>5 DEF EnablingOK
<1>6. CASE Begin(d)
  <2>1. \A n, x, r, b : SetSecret(d, n, x, r, b) => client'[d].pc \notin {"validating", "enabling"}
    BY DEF SetSecret, IdleClient
  <2>2. \A n, x, r : RemoveSecret(d, n, x, r) => client'[d].pc \notin {"validating", "enabling"}
    BY DEF RemoveSecret, IdleClient
  <2>3. \A n, x : SoftRemoveAccount(d, n, x) => client'[d].pc \notin {"validating", "enabling"}
    BY DEF SoftRemoveAccount, IdleClient
  <2>4. CleanupCredentials(d) => client'[d].pc \notin {"validating", "enabling"}
    BY DEF CleanupCredentials, IdleClient
  <2> QED BY <1>2, <1>4, <1>6, <2>1, <2>2, <2>3, <2>4 DEF Begin
<1>7. CASE Continue(d) \/ Crash(d)
  <2>1. CASE \E b \in Bindings : ResolveForEnable(d, b)
    <3>1. PICK b \in Bindings : ResolveForEnable(d, b)
      BY <2>1
    <3>2. CASE client' = [client EXCEPT ![d].todo = @ \ {b},
                 ![d].pc = IF client[d].todo = {b} THEN "enabling" ELSE "validating"]
      BY <1>3, <3>1, <3>2 DEF ResolveForEnable, Client
    <3>3. CASE client' = [client EXCEPT ![d].pc = "idle", ![d].todo = {}, ![d].result = "failed"]
      BY <1>2, <3>3 DEF Client
    <3> QED BY <3>1, <3>2, <3>3 DEF ResolveForEnable
  <2>2. CASE Crash(d)
    BY <1>2, <2>2 DEF Crash, IdleClient
  <2>3. CASE ActivateBinding(d) \/ ActivationRolledBack(d)
    <3>1. client' = [client EXCEPT ![d] = AfterActivation(d)]
      BY <2>3 DEF ActivateBinding, ActivationRolledBack
    <3>2. AfterActivation(d).pc = "deleting"
      BY DEF AfterActivation, Client
    <3> QED BY <1>2, <3>1, <3>2
  <2>4. CASE ActivationFails(d)
    BY <1>2, <2>4 DEF ActivationFails, FailedSave, Client
  <2>5. CASE StoreSecret(d) \/ DiscardSecret(d)
    BY <1>2, <2>5 DEF StoreSecret, DiscardSecret, Client
  <2>6. CASE \E b \in Bindings : DeleteSecret(d, b)
    BY <1>2, <2>6 DEF DeleteSecret, Client
  <2>7. CASE StartMarking(d) \/ MarkSuperseded(d) \/ Finish(d) \/ CommitEnable(d)
    BY <1>2, <2>7 DEF StartMarking, MarkSuperseded, Finish, CommitEnable, Client
  <2> QED BY <1>7, <2>1, <2>2, <2>3, <2>4, <2>5, <2>6, <2>7 DEF Continue
<1> QED BY <1>1, <1>6, <1>7, OwnStep DEF Inv

----------------------------------------------------------------------------
(* The theorems. *)

LEMMA AccountInvHolds ==
  ASSUME "commit_rollback" \notin Faults
  PROVE  Spec => [](Inv /\ AccountInv)
<1>1. Init => AccountInv
  BY DEF Init, AccountInv, RowsOK, EnablingOK, NoLateCredential, ActiveOf, NoAccount, NoBinding, IdleClient
<1>2. Inv /\ AccountInv /\ [Next]_vars => AccountInv'
  BY TablesStep, EnablingStep DEF AccountInv, Sound
<1>3. Inv /\ [Next]_vars => Inv'
  BY StepTypeOK, StepSafety DEF Inv
<1> QED BY <1>1, <1>2, <1>3, InitInv, PTL DEF Spec

(* Nothing reaches an account that was removed, or a role that has lost its *)
(* endpoint, however late a save or an enable ends.                         *)
THEOREM NothingComesLate ==
  ASSUME "commit_rollback" \notin Faults
  PROVE  Spec => []NoLateCredential
<1>1. AccountInv => NoLateCredential BY DEF AccountInv, RowsOK
<1> QED BY <1>1, AccountInvHolds, PTL

(* An account is enabled only with the credentials that were resolved for  *)
(* it, and stays complete as long as it is enabled.                        *)
THEOREM EnabledWithWhatWasResolved ==
  ASSUME "commit_rollback" \notin Faults
  PROVE  Spec => EnabledSoundly
<1>1. ASSUME Inv /\ AccountInv, [Next]_vars, NEW a \in Accounts, account'[a].enabled
      PROVE  /\ (Live(a) /\ ~account[a].enabled) =>
                  /\ Complete(a)
                  /\ \E c \in Clients : /\ client[c].op = "enable"
                                        /\ client[c].account = a
                                        /\ client[c].touched = Active(a)
             /\ (account[a].enabled /\ Complete(a)) => Complete(a)'
  <2>1. StaysComplete(a)
    BY <1>1, TablesStep DEF Sound
  <2>2. CASE NotEnabled(a)
    BY <1>1, <2>1, <2>2 DEF StaysComplete, NotEnabled
  <2>3. CASE \E c \in Clients :
              /\ a = client[c].account /\ client[c].pc = "enabling" /\ Complete(a)
              /\ account[a].revision = client[c].expected
    BY <1>1, <2>1, <2>3 DEF StaysComplete, AccountInv, EnablingOK
  <2> QED BY <1>1, <2>2, <2>3, TablesStep
<1>2. Inv /\ AccountInv /\ [Next]_vars =>
        [\A a \in Accounts : account'[a].enabled =>
           /\ (Live(a) /\ ~account[a].enabled) =>
                /\ Complete(a)
                /\ \E c \in Clients : /\ client[c].op = "enable"
                                      /\ client[c].account = a
                                      /\ client[c].touched = Active(a)
           /\ (account[a].enabled /\ Complete(a)) => Complete(a)']_vars
  BY <1>1
<1> QED BY <1>2, AccountInvHolds, PTL DEF Spec, EnabledSoundly
=============================================================================
