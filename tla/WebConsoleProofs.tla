-------------------------- MODULE WebConsoleProofs --------------------------
(***************************************************************************)
(* Theorems about the forms of ManagementForms and the page of WebConsole, *)
(* for any number of clients, accounts and credentials.  Everything rests  *)
(* on the revision: what a form shows is what the account is, or the       *)
(* revision of the account has moved past that of the form, for good.      *)
(***************************************************************************)
EXTENDS WebConsole, CredentialLifecycleProofs

----------------------------------------------------------------------------
(* The inductive invariant. *)

Request == [stage       : {"none", "authorized", "update", "command", "shown"},
            rename      : Names \cup {None},
            wanted      : Endpoints,
            hadOutgoing : BOOLEAN]

FormTypes == form \in [Clients -> Form] /\ request \in Request

(* No two accounts have one name, a removed account among them or not. *)
NamesOK ==
  /\ \A a \in Accounts : account[a].state # "absent" => account[a].revision > 0
  /\ \A a, b \in Accounts :
       (/\ account[a].state # "absent" /\ account[b].state # "absent"
        /\ account[a].name = account[b].name) => a = b

(* A form of the account's revision shows the account, as far as it has been *)
(* read; another form is older.                                            *)
FormOK(f) ==
  f.stage # "none" =>
    /\ f.id \in Accounts /\ f.name \in Names
    /\ account[f.id].state # "absent"
    /\ f.revision <= account[f.id].revision
    /\ f.revision = account[f.id].revision =>
         /\ Live(f.id) /\ account[f.id].name = f.name /\ account[f.id].enabled = f.enabled
         /\ f.stage # "row" => account[f.id].endpoint = f.endpoint
         /\ f.stage = "ready" => BoundRoles(f.id) = f.bound

(* The request of the page goes with its form, and the second look at the  *)
(* account is as good as the first.                                        *)
RequestOK ==
  /\ request.stage # "none" => form[Browser].stage = "ready"
  /\ request.stage \in {"update", "shown"} => request.rename \in Names /\ request.wanted \in FullForms
  /\ (request.stage = "shown" /\ account[form[Browser].id].revision = form[Browser].revision) =>
       (request.hadOutgoing <=> account[form[Browser].id].endpoint["outgoing"] # None)

WebInv ==
  /\ FormTypes
  /\ NamesOK
  /\ \A c \in Clients : FormOK(form[c])
  /\ RequestOK

----------------------------------------------------------------------------
(* Every step of the page and of the command line is a step of the catalog. *)

LEMMA CommandStep ==
  ASSUME TypeOK, NamesOK, NEW c \in Clients, NEW n \in Names, NEW x, Command(c, n, x)
  PROVE  Next
<1>1. x \in 1..MaxRevision
  <2>1. PICK a \in Named(n) : account[a].revision = x /\ x < MaxRevision
    BY DEF Command, DisableAccount, EnableAccount, SoftRemoveAccount, RemoveSecret, SetSecret
  <2>2. a \in Accounts /\ account[a].state = "live" /\ account[a].revision \in Nat
    BY TableTypes DEF Live
  <2> QED BY <2>1, <2>2, LifecycleAssumption DEF NamesOK
<1>2. Administer \/ Begin(c)
  BY <1>1 DEF Command, Administer, Begin
<1> QED BY <1>2 DEF Next

LEMMA UpdateCommandStep ==
  ASSUME TypeOK, NamesOK, NEW n \in Names, NEW x, NEW m \in Names, NEW ep \in Endpoints,
         UpdateAccount(n, x, m, ep)
  PROVE  Next
<1>1. x \in 1..MaxRevision
  <2>1. PICK a \in Named(n) : account[a].revision = x /\ x < MaxRevision
    BY DEF UpdateAccount
  <2>2. a \in Accounts /\ account[a].state = "live" /\ account[a].revision \in Nat
    BY TableTypes DEF Live
  <2> QED BY <2>1, <2>2, LifecycleAssumption DEF NamesOK
<1>2. Administer
  BY <1>1 DEF Administer
<1> QED BY <1>2 DEF Next

LEMMA BackgroundStep ==
  ASSUME Background
  PROVE  Next
<1>1. ASSUME NEW n \in Names, Create(n) PROVE Administer
  BY <1>1 DEF Create, Administer, Endpoints
<1>2. ASSUME NEW c \in Clients, CleanupCredentials(c) PROVE Begin(c)
  BY <1>2 DEF Begin
<1> QED BY <1>1, <1>2 DEF Background, Next

(* The endpoints a patch makes. *)
LEMMA PatchType ==
  ASSUME TypeOK, request.wanted \in FullForms, NEW a \in Accounts
  PROVE  Patch(a) \in Endpoints
<1>1. request.wanted \in Endpoints /\ account[a].endpoint \in Endpoints
  BY DEF FullForms, Endpoints, TypeOK, Account
<1> QED BY <1>1 DEF Patch, Endpoints, Roles

LEMMA SubmitStep ==
  ASSUME TypeOK, NamesOK, NEW c \in Clients, FormOK(form[c]), Submit(c)
  PROVE  Next
<1>1. form[c].name \in Names
  BY DEF Submit, FormOK
<1>2. ASSUME NEW m \in Names, NEW ep \in [Roles -> Hosts \cup {None}],
             UpdateAccount(form[c].name, form[c].revision, m, ep)
      PROVE  Next
  BY <1>1, <1>2, UpdateCommandStep DEF Endpoints
<1>3. CASE Command(c, form[c].name, form[c].revision)
  BY <1>1, <1>3, CommandStep
<1> QED BY <1>2, <1>3 DEF Submit

LEMMA BrowserType == Browser \in Clients
BY ConsoleAssumption

LEMMA ApplyStep ==
  ASSUME TypeOK, WebInv, ApplyUpdate
  PROVE  Next
<1>1. form[Browser].name \in Names /\ request.rename \in Names /\ request.wanted \in FullForms
  BY BrowserType DEF ApplyUpdate, WebInv, RequestOK, FormOK
<1>2. PICK a \in Named(form[Browser].name) :
        UpdateAccount(form[Browser].name, form[Browser].revision, request.rename, Patch(a))
  BY DEF ApplyUpdate
<1>3. a \in Accounts /\ Patch(a) \in Endpoints
  BY <1>1, TableTypes, PatchType
<1> QED BY <1>1, <1>2, <1>3, UpdateCommandStep DEF WebInv

LEMMA CatalogStep ==
  ASSUME TypeOK, WebInv, [WebNext]_webVars
  PROVE  [Next]_vars
<1>1. CASE CommandLineStep
  <2>1. ASSUME NEW c \in Clients, Review(c) \/ Abandon(c) PROVE UNCHANGED vars
    BY <2>1 DEF Review, ReviewRow, ReviewEndpoints, ReviewBindings, Abandon
  <2> QED BY <1>1, <2>1, BackgroundStep, SubmitStep DEF CommandLineStep, WebInv
<1>2. CASE BrowserStep
  <2>1. CASE RunCommand
    <3>1. form[Browser].name \in Names
      BY <2>1, BrowserType DEF RunCommand, WebInv, RequestOK, FormOK
    <3> QED BY <2>1, <3>1, BrowserType, CommandStep DEF RunCommand, WebInv
  <2>2. CASE ApplyUpdate
    BY <2>2, ApplyStep
  <2>3. CASE ~RunCommand /\ ~ApplyUpdate
    BY <1>2, <2>3 DEF BrowserStep, Exchange, LinkExpires, AttemptsAge, EndSession, CloseConsole, ReviewOnPage,
       Review, ReviewRow, ReviewEndpoints, ReviewBindings, Authorize, ParseBody, ShowCurrent, Refuse,
       Abandon, formVars
  <2> QED BY <2>1, <2>2, <2>3
<1>3. CASE UNCHANGED webVars
  BY <1>3 DEF webVars, formVars
<1> QED BY <1>1, <1>2, <1>3 DEF WebNext

----------------------------------------------------------------------------
(* Names. *)

(* A step that leaves the names of the accounts as they are. *)
LEMMA NamesKept ==
  ASSUME TypeOK, NamesOK, Sound,
         \A a \in Accounts : /\ account'[a].name = account[a].name
                             /\ account'[a].state = "absent" <=> account[a].state = "absent"
  PROVE  NamesOK'
<1>1. ASSUME NEW a \in Accounts, account'[a].state # "absent" PROVE account'[a].revision > 0
  BY <1>1, TableTypes DEF NamesOK, Sound, Revised
<1> QED BY <1>1 DEF NamesOK

LEMMA NamesAdded ==
  ASSUME TypeOK, NamesOK, NEW a \in Accounts, NEW n \in Names, NEW ep \in Endpoints, AddAccount(a, n, ep)
  PROVE  NamesOK'
<1>1. /\ account'[a].name = n /\ account'[a].revision = 1
      /\ \A x \in Accounts \ {a} : account'[x] = account[x] /\ account[x].name # n
  BY DEF AddAccount, NameAvailable, TypeOK
<1> QED BY <1>1 DEF NamesOK

LEMMA NamesUpdated ==
  ASSUME TypeOK, NamesOK, NEW n, NEW x, NEW m \in Names, NEW ep, UpdateAccount(n, x, m, ep)
  PROVE  NamesOK'
<1>1. PICK a \in Named(n) :
        /\ m # n => NameAvailable(m)
        /\ account' = [account EXCEPT ![a].name = m, ![a].endpoint = ep, ![a].revision = @ + 1]
  BY DEF UpdateAccount
<1>2. a \in Accounts /\ account[a].state = "live" /\ account[a].name = n /\ account[a].revision \in Nat
  BY TableTypes DEF Named, Live
<1>3. /\ account'[a].name = m /\ account'[a].state = "live" /\ account'[a].revision = account[a].revision + 1
      /\ \A y \in Accounts \ {a} : account'[y] = account[y]
  BY <1>1, <1>2 DEF TypeOK, Account
<1>4. \A y \in Accounts \ {a} : account[y].state # "absent" => account[y].name # m
  BY <1>1, <1>2 DEF NamesOK, NameAvailable
<1>5. account'[a].revision > 0
  BY <1>2, <1>3
<1>6. \A y \in Accounts : account'[y].state # "absent" => account'[y].revision > 0
  BY <1>3, <1>5 DEF NamesOK
<1>7. ASSUME NEW y \in Accounts, NEW z \in Accounts, account'[y].state # "absent",
             account'[z].state # "absent", account'[y].name = account'[z].name
      PROVE  y = z
  BY <1>3, <1>4, <1>7 DEF NamesOK
<1> QED BY <1>6, <1>7 DEF NamesOK

LEMMA NamesStep ==
  ASSUME Inv, AccountInv, NamesOK, Sound, [Next]_vars
  PROVE  NamesOK'
<1> TypeOK /\ \A c \in Clients : SaveOK(client[c]) /\ EnableOK(client[c])
  BY DEF Inv, Safety, ClientOK
<1> DEFINE Same == \A a \in Accounts : /\ account'[a].name = account[a].name
                                       /\ account'[a].state = "absent" <=> account[a].state = "absent"
<1>1. ASSUME NEW a, account' = [account EXCEPT ![a].revision = @ + 1]
      PROVE  Same
  BY <1>1 DEF TypeOK, Account
<1>2. ASSUME NEW a, NEW e, account' = [account EXCEPT ![a].enabled = e, ![a].revision = @ + 1]
      PROVE  Same
  BY <1>2 DEF TypeOK, Account
<1>3. ASSUME NEW a \in Accounts, Live(a),
             account' = [account EXCEPT ![a].state = "removed", ![a].enabled = FALSE, ![a].revision = @ + 1]
      PROVE  Same
  BY <1>3 DEF TypeOK, Account, Live
<1>4. ASSUME UNCHANGED account PROVE Same
  BY <1>4
<1> HIDE DEF Same
<1>5. Same => NamesOK'
  BY NamesKept DEF Same
<1>6. CASE Administer
  <2>1. \A p : UpdatePolicy(p) => Same
    BY <1>4 DEF UpdatePolicy
  <2>2. \A n, x : DisableAccount(n, x) => Same
    BY <1>2 DEF DisableAccount
  <2> QED BY <1>5, <1>6, <2>1, <2>2, NamesAdded, NamesUpdated DEF Administer
<1>7. ASSUME NEW c \in Clients, Begin(c) PROVE Same
  <2>1. \A n, x, r, b : SetSecret(c, n, x, r, b) => Same
    BY <1>4 DEF SetSecret
  <2>2. \A n, x, r : RemoveSecret(c, n, x, r) => Same
    BY <1>1 DEF RemoveSecret
  <2>3. \A n, x : SoftRemoveAccount(c, n, x) => Same
    BY <1>3, TableTypes DEF SoftRemoveAccount
  <2>4. \A n, x : EnableAccount(c, n, x) => Same
    BY <1>4 DEF EnableAccount
  <2>5. CleanupCredentials(c) => Same
    BY <1>4 DEF CleanupCredentials
  <2> QED BY <1>7, <2>1, <2>2, <2>3, <2>4, <2>5 DEF Begin
<1>8. ASSUME NEW c \in Clients, Continue(c) \/ Crash(c) PROVE Same
  <2>1. ActivateBinding(c) => Same
    BY <1>1 DEF ActivateBinding
  <2>2. CommitEnable(c) => Same
    BY <1>2, <1>4 DEF CommitEnable
  <2>3. CASE ~ActivateBinding(c) /\ ~CommitEnable(c)
    BY <1>4, <1>8, <2>3 DEF Continue, Crash, StoreSecret, ActivationFails, ActivationRolledBack, DiscardSecret,
       DeleteSecret, ResolveForEnable, StartMarking, MarkSuperseded, Finish
  <2> QED BY <1>8, <2>1, <2>2, <2>3
<1>9. CASE UNCHANGED vars
  BY <1>4, <1>5, <1>9 DEF vars
<1> QED BY <1>5, <1>6, <1>7, <1>8, <1>9 DEF Next

----------------------------------------------------------------------------
(* Forms. *)

(* A form that stays on the screen stays true, or becomes older. *)
LEMMA FormKept ==
  ASSUME TypeOK, Sound, NEW f \in Form, FormOK(f)
  PROVE  FormOK(f)'
<1> SUFFICES ASSUME f.stage # "none" PROVE FormOK(f)'
  BY DEF FormOK
<1> DEFINE a == f.id
<1>1. /\ a \in Accounts /\ f.name \in Names /\ account[a].state # "absent" /\ f.revision <= account[a].revision
      /\ f.revision = account[a].revision =>
           /\ Live(a) /\ account[a].name = f.name /\ account[a].enabled = f.enabled
           /\ f.stage # "row" => account[a].endpoint = f.endpoint
           /\ f.stage = "ready" => BoundRoles(a) = f.bound
  BY DEF FormOK
<1>2. Revised(a) /\ f.revision \in Nat
  BY <1>1 DEF Sound, Form
<1> HIDE DEF a
<1>3. account'[a].state # "absent" /\ f.revision <= account'[a].revision
  BY <1>1, <1>2 DEF Revised
<1>4. ASSUME f.revision = account'[a].revision
      PROVE  /\ f.revision = account[a].revision /\ account'[a] = account[a]
             /\ \A r \in Roles : ActiveOf(a, r)' = ActiveOf(a, r)
  BY <1>1, <1>2, <1>4 DEF Revised
<1>5. ASSUME f.revision = account'[a].revision
      PROVE  Live(a)' /\ BoundRoles(a)' = BoundRoles(a)
  <2>1. Live(a)'
    BY <1>1, <1>4, <1>5 DEF Live
  <2>2. \A r \in Roles : ActiveOf(a, r)' = ActiveOf(a, r)
    BY <1>4, <1>5
  <2> QED BY <2>1, <2>2 DEF BoundRoles
<1>6. f.revision = account'[a].revision =>
        /\ Live(a)' /\ account'[a].name = f.name /\ account'[a].enabled = f.enabled
        /\ f.stage # "row" => account'[a].endpoint = f.endpoint
        /\ f.stage = "ready" => BoundRoles(a)' = f.bound
  BY <1>1, <1>4, <1>5
<1> QED BY <1>1, <1>3, <1>6 DEF FormOK, a

(* What a review adds to a form is what the account is now. *)
LEMMA ReviewStep ==
  ASSUME TypeOK, FormTypes, NamesOK, NEW c \in Clients, FormOK(form[c]), Review(c)
  PROVE  form' \in [Clients -> Form] /\ FormOK(form[c])'
<1>0. /\ UNCHANGED vars
      /\ \A a : Live(a)' = Live(a) /\ BoundRoles(a)' = BoundRoles(a)
  BY DEF Review, ReviewRow, ReviewEndpoints, ReviewBindings, vars, Live, BoundRoles, ActiveOf
<1>1. ASSUME NEW n \in Names, ReviewRow(c, n)
      PROVE  form' \in [Clients -> Form] /\ FormOK(form[c])'
  <2> DEFINE f(a) == [NoForm EXCEPT !.stage = "row", !.id = a, !.name = n,
                         !.revision = account[a].revision, !.enabled = account[a].enabled]
  <2>1. PICK a \in Named(n) : form' = [form EXCEPT ![c] = f(a)]
    BY <1>1 DEF ReviewRow
  <2>2. /\ a \in Accounts /\ account[a].state = "live" /\ account[a].name = n
        /\ account[a].revision \in Nat /\ account[a].enabled \in BOOLEAN
    BY TableTypes DEF Named, Live, TypeOK, Account
  <2>3. /\ f(a) \in Form /\ f(a).stage = "row" /\ f(a).id = a /\ f(a).name = n
        /\ f(a).revision = account[a].revision /\ f(a).enabled = account[a].enabled
    BY <2>2 DEF Form, NoForm, Roles
  <2> HIDE DEF f
  <2>4. form'[c] = f(a) /\ form' \in [Clients -> Form]
    BY <2>1, <2>3 DEF FormTypes
  <2> QED BY <1>0, <2>2, <2>3, <2>4 DEF FormOK, vars, Live
<1>2. CASE ReviewEndpoints(c)
  <2>1. /\ form[c].stage = "row" /\ form[c] \in Form
        /\ form' = [form EXCEPT ![c].stage = "endpoints", ![c].endpoint = account[form[c].id].endpoint]
    BY <1>2 DEF ReviewEndpoints, FormTypes
  <2>2. form[c].id \in Accounts /\ account[form[c].id].endpoint \in [Roles -> Hosts \cup {None}]
    BY <2>1 DEF FormOK, TypeOK, Account
  <2>3. /\ form'[c] = [form[c] EXCEPT !.stage = "endpoints", !.endpoint = account[form[c].id].endpoint]
        /\ form' \in [Clients -> Form]
    BY <2>1, <2>2 DEF FormTypes, Form
  <2>4. /\ form'[c].stage = "endpoints" /\ form'[c].endpoint = account[form[c].id].endpoint
        /\ form'[c].id = form[c].id /\ form'[c].name = form[c].name
        /\ form'[c].revision = form[c].revision /\ form'[c].enabled = form[c].enabled
    BY <2>1, <2>3 DEF Form
  <2> QED BY <1>0, <2>1, <2>3, <2>4 DEF FormOK, vars, Live
<1>3. CASE ReviewBindings(c)
  <2>1. /\ form[c].stage = "endpoints" /\ form[c] \in Form
        /\ form' = [form EXCEPT ![c].stage = "ready", ![c].bound = BoundRoles(form[c].id)]
    BY <1>3 DEF ReviewBindings, FormTypes
  <2>2. BoundRoles(form[c].id) \in SUBSET Roles
    BY DEF BoundRoles
  <2>3. /\ form'[c] = [form[c] EXCEPT !.stage = "ready", !.bound = BoundRoles(form[c].id)]
        /\ form' \in [Clients -> Form]
    BY <2>1, <2>2 DEF FormTypes, Form
  <2>4. /\ form'[c].stage = "ready" /\ form'[c].bound = BoundRoles(form[c].id)
        /\ form'[c].id = form[c].id /\ form'[c].name = form[c].name /\ form'[c].endpoint = form[c].endpoint
        /\ form'[c].revision = form[c].revision /\ form'[c].enabled = form[c].enabled
    BY <2>1, <2>3 DEF Form
  <2> QED BY <1>0, <2>1, <2>3, <2>4 DEF FormOK, vars, Live
<1> QED BY <1>1, <1>2, <1>3 DEF Review

LEMMA NoFormType == NoForm \in Form
BY DEF NoForm, Form

(* Who changes a form. *)
LEMMA FormChanges ==
  ASSUME FormTypes, [WebNext]_webVars
  PROVE  \/ form' = form
         \/ \E c \in Clients : /\ Review(c)
                               /\ c = Browser => UNCHANGED consoleVars /\ request = NoRequest
                               /\ \A d \in Clients \ {c} : form'[d] = form[d]
         \/ \E c \in Clients : /\ form' = [form EXCEPT ![c] = NoForm]
                               /\ c = Browser => request' = NoRequest
<1>0. ASSUME NEW c \in Clients, Review(c) PROVE \A d \in Clients \ {c} : form'[d] = form[d]
  BY <1>0 DEF Review, ReviewRow, ReviewEndpoints, ReviewBindings, FormTypes
<1>1. CASE CommandLineStep
  <2>1. ASSUME NEW c \in Clients, Submit(c) \/ Abandon(c) PROVE form' = [form EXCEPT ![c] = NoForm]
    BY <2>1 DEF Submit, Abandon
  <2> QED BY <1>0, <1>1, <2>1 DEF CommandLineStep, Background
<1>2. CASE BrowserStep
  <2>1. CASE ReviewOnPage
    BY <1>0, <2>1, BrowserType DEF ReviewOnPage
  <2>2. CASE ApplyUpdate \/ RunCommand \/ Refuse
    BY <2>2, BrowserType DEF ApplyUpdate, RunCommand, Refuse, Done
  <2>3. CASE request = NoRequest /\ Abandon(Browser) /\ UNCHANGED consoleVars
    BY <2>3, BrowserType DEF Abandon, consoleVars
  <2> QED BY <1>2, <2>1, <2>2, <2>3 DEF BrowserStep, Exchange, LinkExpires, AttemptsAge, EndSession,
       CloseConsole, Authorize, ParseBody, ShowCurrent, formVars
<1>3. CASE UNCHANGED webVars
  BY <1>3 DEF webVars, formVars
<1> QED BY <1>1, <1>2, <1>3 DEF WebNext

LEMMA FormStep ==
  ASSUME TypeOK, WebInv, Sound, [WebNext]_webVars
  PROVE  form' \in [Clients -> Form] /\ \A c \in Clients : FormOK(form[c])'
<1>1. ASSUME NEW c \in Clients, form'[c] = form[c]
      PROVE  FormOK(form[c])'
  <2>1. PICK f \in Form : f = form[c] /\ FormOK(f)
    BY DEF WebInv, FormTypes
  <2>2. FormOK(f)'
    BY <2>1, FormKept
  <2> QED BY <1>1, <2>1, <2>2 DEF FormOK
<1>2. CASE form' = form
  BY <1>1, <1>2 DEF WebInv, FormTypes
<1>3. ASSUME NEW c \in Clients, Review(c), \A d \in Clients \ {c} : form'[d] = form[d]
      PROVE  form' \in [Clients -> Form] /\ \A d \in Clients : FormOK(form[d])'
  BY <1>1, <1>3, ReviewStep DEF WebInv
<1>4. ASSUME NEW c \in Clients, form' = [form EXCEPT ![c] = NoForm]
      PROVE  form' \in [Clients -> Form] /\ \A d \in Clients : FormOK(form[d])'
  <2>1. form' \in [Clients -> Form] /\ form'[c] = NoForm /\ \A d \in Clients \ {c} : form'[d] = form[d]
    BY <1>4, NoFormType DEF WebInv, FormTypes
  <2>2. FormOK(form[c])'
    BY <2>1 DEF FormOK, NoForm
  <2> QED BY <1>1, <2>1, <2>2
<1> QED BY <1>2, <1>3, <1>4, FormChanges DEF WebInv

----------------------------------------------------------------------------
(* The request of the page. *)

LEMMA RequestChanges ==
  ASSUME FormTypes, [WebNext]_webVars
  PROVE  \/ request' = NoRequest
         \/ form'[Browser] = form[Browser] /\ (request' = request \/ Authorize \/ ParseBody \/ ShowCurrent)
<1>1. request' = NoRequest \/ form'[Browser] = form[Browser]
  BY FormChanges, BrowserType DEF FormTypes, consoleVars
<1>2. request' = NoRequest \/ request' = request \/ Authorize \/ ParseBody \/ ShowCurrent
  BY DEF WebNext, BrowserStep, CommandLineStep, Exchange, LinkExpires, AttemptsAge, EndSession, CloseConsole,
     ReviewOnPage, ApplyUpdate, RunCommand, Refuse, Done, consoleVars, webVars
<1> QED BY <1>1, <1>2

LEMMA NoRequestOK == NoRequest \in Request /\ NoRequest.stage = "none"
BY DEF NoRequest, Request, Endpoints

(* The account a second look finds is the one of the form, when the revision *)
(* is still that of the form.                                              *)
LEMMA SameAccount ==
  ASSUME TypeOK, NamesOK, NEW f, FormOK(f), f.stage # "none", f.revision = account[f.id].revision,
         NEW a \in Named(f.name)
  PROVE  a = f.id
<1>1. f.id \in Accounts /\ account[f.id].state = "live" /\ account[f.id].name = f.name
  BY DEF FormOK, Live
<1>2. a \in Accounts /\ account[a].state = "live" /\ account[a].name = f.name
  BY DEF Named, Live
<1> QED BY <1>1, <1>2 DEF NamesOK

LEMMA RequestStep ==
  ASSUME TypeOK, WebInv, Sound, [WebNext]_webVars
  PROVE  request' \in Request /\ RequestOK'
<1> DEFINE f == form[Browser]
<1>0. f \in Form /\ FormOK(f) /\ request \in Request /\ RequestOK
  BY BrowserType DEF WebInv, FormTypes
<1>1. CASE request' = NoRequest
  BY <1>1, NoRequestOK DEF RequestOK
<1>2. CASE form'[Browser] = f /\ request' = request
  <2>1. ASSUME request.stage = "shown", account'[f.id].revision = f.revision
        PROVE  account'[f.id] = account[f.id]
    <3>1. f.stage = "ready"
      BY <1>0, <2>1 DEF RequestOK
    <3>2. f.id \in Accounts /\ f.revision <= account[f.id].revision /\ f.revision \in Nat
      BY <1>0, <3>1 DEF FormOK, Form
    <3> HIDE DEF f
    <3> QED BY <2>1, <3>2 DEF Sound, Revised
  <2> QED BY <1>0, <1>2, <2>1 DEF RequestOK
<1>3. CASE form'[Browser] = f /\ Authorize
  <2>1. request' = [NoRequest EXCEPT !.stage = "authorized"] /\ f.stage = "ready"
    BY <1>3 DEF Authorize
  <2>2. request' \in Request /\ request'.stage = "authorized"
    BY <2>1, NoRequestOK DEF Request, NoRequest
  <2> QED BY <1>3, <2>1, <2>2 DEF RequestOK
<1>4. CASE form'[Browser] = f /\ ParseBody
  <2>1. f.stage = "ready"
    BY <1>0, <1>4 DEF ParseBody, RequestOK
  <2>2. ASSUME NEW m \in Names, NEW ep \in FullForms,
               request' = [request EXCEPT !.stage = "update", !.rename = m, !.wanted = ep]
        PROVE  request' \in Request /\ RequestOK'
    <3>1. ep \in Endpoints
      BY DEF FullForms, Endpoints
    <3>2. /\ request' \in Request /\ request'.stage = "update"
          /\ request'.rename = m /\ request'.wanted = ep
      BY <1>0, <2>2, <3>1 DEF Request
    <3> QED BY <1>4, <2>1, <3>2 DEF RequestOK
  <2>3. CASE request' = [request EXCEPT !.stage = "command"]
    <3>1. request' \in Request /\ request'.stage = "command"
      BY <1>0, <2>3 DEF Request
    <3> QED BY <1>4, <2>1, <3>1 DEF RequestOK
  <2> QED BY <1>1, <1>4, <2>2, <2>3 DEF ParseBody
<1>5. CASE form'[Browser] = f /\ ShowCurrent
  <2>1. f.stage = "ready" /\ request.rename \in Names /\ request.wanted \in FullForms /\ account' = account
    BY <1>0, <1>5 DEF ShowCurrent, RequestOK, formVars, vars
  <2>2. PICK a \in Named(f.name) :
          request' = [request EXCEPT !.stage = "shown",
                                     !.hadOutgoing = account[a].endpoint["outgoing"] # None]
    BY <1>5 DEF ShowCurrent
  <2>3. /\ request' \in Request /\ request'.stage = "shown"
        /\ request'.rename = request.rename /\ request'.wanted = request.wanted
        /\ request'.hadOutgoing <=> account[a].endpoint["outgoing"] # None
    BY <1>0, <2>2 DEF Request
  <2>4. f.revision = account[f.id].revision => a = f.id
    BY <1>0, <2>1, SameAccount DEF WebInv
  <2> QED BY <1>5, <2>1, <2>3, <2>4 DEF RequestOK
<1> QED BY <1>1, <1>2, <1>3, <1>4, <1>5, RequestChanges DEF WebInv

----------------------------------------------------------------------------
(* What a command does to the account of its form. *)

(* A command that reaches an account finds it at the revision it names. *)
LEMMA Reached ==
  ASSUME TypeOK, NEW c \in Clients, NEW n, NEW x, NEW a \in Accounts,
         Command(c, n, x) \/ \E m, ep : UpdateAccount(n, x, m, ep),
         account'[a] # account[a] \/ (client'[c].account = a /\ client'[c] # client[c])
  PROVE  account[a].revision = x
<1> account \in [Accounts -> Account] /\ client \in [Clients -> Client]
  BY DEF TypeOK
<1>1. CASE \E m, ep : UpdateAccount(n, x, m, ep)
  BY <1>1 DEF UpdateAccount
<1>2. CASE DisableAccount(n, x)
  BY <1>2 DEF DisableAccount
<1>3. CASE EnableAccount(c, n, x)
  BY <1>3 DEF EnableAccount, IdleClient
<1>4. CASE SoftRemoveAccount(c, n, x)
  BY <1>4 DEF SoftRemoveAccount, IdleClient
<1>5. CASE \E r \in Roles : RemoveSecret(c, n, x, r)
  BY <1>5 DEF RemoveSecret, IdleClient
<1>6. CASE \E r \in Roles, b \in Bindings : SetSecret(c, n, x, r, b)
  BY <1>6 DEF SetSecret, IdleClient
<1> QED BY <1>1, <1>2, <1>3, <1>4, <1>5, <1>6 DEF Command

(* A form leaves the screen with its command, or without any effect. *)
LEMMA FormDropped ==
  ASSUME FormTypes, [WebNext]_webVars, NEW c \in Clients, form[c].stage = "ready", form'[c] = NoForm
  PROVE  \/ UNCHANGED vars
         \/ Command(c, form[c].name, form[c].revision)
         \/ \E m, ep : UpdateAccount(form[c].name, form[c].revision, m, ep)
<1>0. form'[c] # form[c]
  BY DEF NoForm
<1>1. CASE CommandLineStep
  <2>1. ~UNCHANGED form
    BY <1>0
  <2>2. ASSUME NEW d \in Clients, Review(d) PROVE UNCHANGED vars
    BY <2>2 DEF Review, ReviewRow, ReviewEndpoints, ReviewBindings
  <2>3. ASSUME NEW d \in Clients, Submit(d), d # c PROVE FALSE
    BY <1>0, <2>3 DEF Submit, FormTypes
  <2>4. ASSUME NEW d \in Clients, Abandon(d) PROVE UNCHANGED vars
    BY <2>4 DEF Abandon
  <2>5. CASE Submit(c)
    BY <2>5 DEF Submit
  <2> QED BY <1>1, <2>1, <2>2, <2>3, <2>4, <2>5 DEF CommandLineStep, Background
<1>2. CASE BrowserStep
  <2>1. ASSUME ApplyUpdate \/ RunCommand PROVE c = Browser
    BY <1>0, <2>1, BrowserType DEF ApplyUpdate, RunCommand, Done, FormTypes
  <2>2. CASE ApplyUpdate \/ RunCommand
    BY <2>1, <2>2 DEF ApplyUpdate, RunCommand
  <2>3. CASE ~ApplyUpdate /\ ~RunCommand
    BY <1>2, <2>3 DEF BrowserStep, Exchange, LinkExpires, AttemptsAge, EndSession, CloseConsole, ReviewOnPage,
       Review, ReviewRow, ReviewEndpoints, ReviewBindings, Authorize, ParseBody, ShowCurrent, Refuse,
       Abandon, formVars
  <2> QED BY <2>2, <2>3
<1>3. CASE UNCHANGED webVars
  BY <1>3 DEF webVars, formVars
<1> QED BY <1>1, <1>2, <1>3 DEF WebNext

LEMMA SubmittedCurrent ==
  ASSUME TypeOK, WebInv, [WebNext]_webVars, NEW c \in Clients, Submitted(c, form[c].id)
  PROVE  /\ account[form[c].id].name = form[c].name
         /\ account[form[c].id].enabled = form[c].enabled
         /\ account[form[c].id].endpoint = form[c].endpoint
         /\ BoundRoles(form[c].id) = form[c].bound
<1>1. form[c].stage = "ready" /\ form'[c] = NoForm /\ FormOK(form[c])
  BY DEF Submitted, WebInv
<1>2. form[c].id \in Accounts
  BY <1>1 DEF FormOK
<1>3. /\ ~UNCHANGED vars
      /\ \/ account'[form[c].id] # account[form[c].id]
         \/ client'[c].account = form[c].id /\ client'[c] # client[c]
  BY DEF Submitted, vars
<1>4. \/ Command(c, form[c].name, form[c].revision)
      \/ \E m, ep : UpdateAccount(form[c].name, form[c].revision, m, ep)
  BY <1>1, <1>3, FormDropped DEF WebInv
<1>5. account[form[c].id].revision = form[c].revision
  BY <1>2, <1>3, <1>4, Reached
<1> QED BY <1>1, <1>5 DEF FormOK

LEMMA UpdateWhole ==
  ASSUME TypeOK, WebInv, [WebNext]_webVars, request.stage = "shown", request' = NoRequest,
         account'[form[Browser].id] # account[form[Browser].id]
  PROVE  account'[form[Browser].id].endpoint = request.wanted
<1> DEFINE f == form[Browser]
           a == f.id
<1>1. /\ f.stage = "ready" /\ FormOK(f) /\ a \in Accounts /\ request.wanted \in FullForms
      /\ f.revision = account[a].revision => (request.hadOutgoing <=> account[a].endpoint["outgoing"] # None)
  BY BrowserType DEF WebInv, RequestOK, FormOK
<1>2. ApplyUpdate
  <2>1. request # NoRequest
    BY DEF NoRequest
  <2>2. ~CommandLineStep /\ ~UNCHANGED webVars
    BY <2>1 DEF CommandLineStep, consoleVars, webVars
  <2> QED BY <2>1, <2>2 DEF WebNext, BrowserStep, Exchange, LinkExpires, AttemptsAge, EndSession, CloseConsole,
       ReviewOnPage, Authorize, ParseBody, ShowCurrent, RunCommand, Refuse, Abandon, formVars, consoleVars, vars
<1>3. PICK b \in Named(f.name) : UpdateAccount(f.name, f.revision, request.rename, Patch(b))
  BY <1>2 DEF ApplyUpdate
<1>4. f.revision = account[a].revision
  BY <1>1, <1>3, BrowserType, Reached
<1>5. b = a
  BY <1>1, <1>4, SameAccount DEF WebInv
<1>6. Patch(a) = request.wanted
  BY <1>1, <1>4 DEF Patch, FullForms, Roles
<1>7. account'[a].endpoint = Patch(b)
  <2>1. PICK d \in Named(f.name) :
          account' = [account EXCEPT ![d].name = request.rename, ![d].endpoint = Patch(b), ![d].revision = @ + 1]
    BY <1>3 DEF UpdateAccount
  <2>2. d = a
    BY <1>1, <1>4, SameAccount DEF WebInv
  <2> HIDE DEF a
  <2> QED BY <1>1, <2>1, <2>2 DEF TypeOK, Account
<1> QED BY <1>5, <1>6, <1>7

----------------------------------------------------------------------------
(* The theorems. *)

AllInv == Inv /\ AccountInv /\ WebInv

LEMMA WebInvStep ==
  ASSUME "commit_rollback" \notin Faults, AllInv, [WebNext]_webVars
  PROVE  AllInv'
<1>1. [Next]_vars
  BY CatalogStep DEF AllInv, Inv
<1>2. Inv'
  BY <1>1, StepTypeOK, StepSafety DEF AllInv, Inv
<1>3. Sound /\ AccountInv'
  BY <1>1, TablesStep, EnablingStep DEF AllInv, AccountInv, Sound
<1>4. NamesOK'
  BY <1>1, <1>3, NamesStep DEF AllInv, WebInv
<1>5. form' \in [Clients -> Form] /\ (\A c \in Clients : FormOK(form[c])')
  BY <1>3, FormStep DEF AllInv, Inv
<1>6. request' \in Request /\ RequestOK'
  BY <1>3, RequestStep DEF AllInv, Inv
<1> QED BY <1>2, <1>3, <1>4, <1>5, <1>6 DEF AllInv, WebInv, FormTypes

LEMMA WebInvHolds ==
  ASSUME "commit_rollback" \notin Faults
  PROVE  WebSpec => []AllInv
<1>1. WebInit => AllInv
  <2> SUFFICES ASSUME WebInit PROVE AllInv
    OBVIOUS
  <2>1. Init /\ Inv
    BY InitInv DEF WebInit, FormInit
  <2>2. AccountInv
    BY <2>1 DEF Init, AccountInv, RowsOK, EnablingOK, NoLateCredential, ActiveOf, NoAccount, NoBinding, IdleClient
  <2>3. form \in [Clients -> Form] /\ \A c \in Clients : form[c].stage = "none"
    BY NoFormType DEF WebInit, FormInit, NoForm
  <2>4. request \in Request /\ request.stage = "none"
    BY NoRequestOK DEF WebInit
  <2>5. NamesOK
    BY <2>1 DEF Init, NamesOK, NoAccount
  <2> QED BY <2>1, <2>2, <2>3, <2>4, <2>5 DEF AllInv, WebInv, FormTypes, FormOK, RequestOK
<1>2. AllInv /\ [WebNext]_webVars => AllInv'
  BY WebInvStep
<1> QED BY <1>1, <1>2, PTL DEF WebSpec

(* Whatever the clients do with their forms and the page with its requests *)
(* is a behaviour of the catalog, so its theorems hold of them too.        *)
THEOREM ConsoleKeepsTheCatalog ==
  ASSUME "commit_rollback" \notin Faults
  PROVE  WebSpec => Spec
<1>1. WebInit => Init
  BY DEF WebInit, FormInit
<1>2. AllInv /\ [WebNext]_webVars => [Next]_vars
  BY CatalogStep DEF AllInv, Inv
<1> QED BY <1>1, <1>2, WebInvHolds, PTL DEF WebSpec, Spec

(* A command that reaches the account its client reviewed finds it exactly *)
(* as the form shows it, although show_account reads it in three pieces.   *)
THEOREM StaleFormsAreRejected ==
  ASSUME "commit_rollback" \notin Faults
  PROVE  WebSpec => StaleFormRejected
<1>1. AllInv /\ [WebNext]_webVars =>
        [\A c \in Clients : Submitted(c, form[c].id) =>
           /\ account[form[c].id].name = form[c].name
           /\ account[form[c].id].enabled = form[c].enabled
           /\ account[form[c].id].endpoint = form[c].endpoint
           /\ BoundRoles(form[c].id) = form[c].bound]_formVars
  BY SubmittedCurrent DEF AllInv, Inv
<1> QED BY <1>1, WebInvHolds, PTL DEF WebSpec, StaleFormRejected

(* An update of the page that goes through makes the endpoints those of    *)
(* its form, the outgoing one that was left empty included.                *)
THEOREM UpdatesAreWhole ==
  ASSUME "commit_rollback" \notin Faults
  PROVE  WebSpec => UpdateIsWhole
<1>1. AllInv /\ [WebNext]_webVars =>
        [request.stage = "shown" /\ request' = NoRequest =>
           LET a == form[Browser].id IN
             account'[a] # account[a] => account'[a].endpoint = request.wanted]_webVars
  BY UpdateWhole DEF AllInv, Inv
<1> QED BY <1>1, WebInvHolds, PTL DEF WebSpec, UpdateIsWhole
=============================================================================
