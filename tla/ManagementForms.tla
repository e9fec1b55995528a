-------------------------- MODULE ManagementForms --------------------------
(***************************************************************************)
(* Editing an account through the management interfaces (application/      *)
(* management.py, the CLI and the local UI): a client reviews an account   *)
(* with show_account and later submits a command that names the account    *)
(* and the revision it reviewed.  show_account is three SELECTs outside a  *)
(* transaction; other processes change the catalog during the review and   *)
(* for as long as the form stays open.                                     *)
(***************************************************************************)
EXTENDS CredentialLifecycle

VARIABLE form    \* the account details each client has on its screen

formVars == <<vars, form>>

Form == [stage    : {"none", "row", "endpoints", "ready"},
         id       : Accounts \cup {None},   \* history: commands carry no id
         name     : Names \cup {None},
         revision : Nat,
         enabled  : BOOLEAN,
         endpoint : [Roles -> Hosts \cup {None}],
         bound    : SUBSET Roles]           \* roles shown with an ACTIVE binding

NoForm == [stage |-> "none", id |-> None, name |-> None, revision |-> 0, enabled |-> FALSE,
           endpoint |-> [r \in Roles |-> None], bound |-> {}]

FormInit == Init /\ form = [c \in Clients |-> NoForm]

BoundRoles(a) == {r \in Roles : ActiveOf(a, r) # {}}

(* show_account: the row by its name ... *)
ReviewRow(c, n) ==
  \E a \in Named(n) :
    /\ Idle(c)
    /\ form' = [form EXCEPT ![c] =
         [NoForm EXCEPT !.stage = "row", !.id = a, !.name = n,
                        !.revision = account[a].revision, !.enabled = account[a].enabled]]
    /\ UNCHANGED vars

(* ... then the endpoints and the bindings of that row's id. *)
ReviewEndpoints(c) ==
  /\ form[c].stage = "row"
  /\ form' = [form EXCEPT ![c].stage = "endpoints",
                          ![c].endpoint = account[form[c].id].endpoint]
  /\ UNCHANGED vars

ReviewBindings(c) ==
  /\ form[c].stage = "endpoints"
  /\ form' = [form EXCEPT ![c].stage = "ready", ![c].bound = BoundRoles(form[c].id)]
  /\ UNCHANGED vars

(* A command on the account named n as of revision x, other than an update. *)
Command(c, n, x) ==
  \/ DisableAccount(n, x)
  \/ EnableAccount(c, n, x)
  \/ SoftRemoveAccount(c, n, x)
  \/ \E r \in Roles : RemoveSecret(c, n, x, r)
  \/ \E r \in Roles, b \in Bindings : SetSecret(c, n, x, r, b)

(* One command from the form: the reviewed name and revision, and what the  *)
(* user edited.  An endpoint patch is applied to the endpoints of the form. *)
Submit(c) ==
  LET n == form[c].name
      x == form[c].revision
  IN
  /\ form[c].stage = "ready"
  /\ \/ \E m \in Names, ep \in [Roles -> Hosts \cup {None}] : UpdateAccount(n, x, m, ep)
     \/ Command(c, n, x)
  /\ form' = [form EXCEPT ![c] = NoForm]

(* A revision conflict: the client drops the form and reviews again. *)
Abandon(c) ==
  /\ form[c].stage = "ready"
  /\ form' = [form EXCEPT ![c] = NoForm]
  /\ UNCHANGED vars

Create(n) ==
  \E a \in Accounts, ep \in [Roles -> Hosts \cup {None}] : AddAccount(a, n, ep)

(* What goes on without a form. *)
Background ==
  /\ \/ \E n \in Names : Create(n)
     \/ \E c \in Clients : Continue(c) \/ CleanupCredentials(c) \/ Crash(c)
  /\ UNCHANGED form

Review(c) == (\E n \in Names : ReviewRow(c, n)) \/ ReviewEndpoints(c) \/ ReviewBindings(c)

----------------------------------------------------------------------------
(* Properties *)

(* Client c's command begins or is done in this step, on account a. *)
Submitted(c, a) ==
  /\ form[c].stage = "ready"
  /\ form'[c] = NoForm
  /\ account'[a] # account[a] \/ (client'[c].account = a /\ client'[c] # client[c])

(* No silent overwrite: a command that reaches the account its client      *)
(* reviewed finds it exactly as the form shows it, endpoints and bindings  *)
(* included, although the form was read in three pieces and may be old.    *)
StaleFormRejected ==
  [][\A c \in Clients : Submitted(c, form[c].id) =>
       /\ account[form[c].id].name = form[c].name
       /\ account[form[c].id].enabled = form[c].enabled
       /\ account[form[c].id].endpoint = form[c].endpoint
       /\ BoundRoles(form[c].id) = form[c].bound]_formVars
=============================================================================
