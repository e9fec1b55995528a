----------------------------- MODULE WebConsole ----------------------------
(***************************************************************************)
(* The local management page (web_ui/app.py, web_ui/server.py) in the      *)
(* browser of one user while the others use the command line.  A one-time  *)
(* launch link is exchanged for a session; every request looks for the     *)
(* session first, then reads its body, which may take its time, and then   *)
(* runs in a worker thread.  An update replaces the whole form: it reads   *)
(* the account once more to find out whether leaving the outgoing endpoint *)
(* empty means that the one that is there goes.                            *)
(*                                                                         *)
(* Abstractions.  Time is what may have passed: the link and the session   *)
(* expire at any moment, attempts age.  The checks of hosts, origins and   *)
(* request verification tokens, which depend on the request alone, are     *)
(* left out, and a browser has one mutation under way at a time.           *)
(***************************************************************************)
EXTENDS ManagementForms

CONSTANTS
  Browser,     \* the client that uses the page
  Attempts     \* _BOOTSTRAP_ATTEMPTS_PER_WINDOW

ASSUME ConsoleAssumption == Browser \in Clients /\ Attempts \in Nat \ {0}

VARIABLES
  token,      \* the launch link
  attempts,   \* exchanges that failed in the last window
  session,    \* the session it was exchanged for
  closed,     \* LocalUiState._closed
  request     \* the mutation under way

consoleVars == <<token, attempts, session, closed, request>>
webVars == <<formVars, consoleVars>>

FullForms == {ep \in [Roles -> Hosts \cup {None}] : ep["incoming"] # None}

NoRequest == [stage |-> "none", rename |-> None,
              wanted |-> [r \in Roles |-> None], hadOutgoing |-> FALSE]

WebInit ==
  /\ FormInit
  /\ token = "fresh"
  /\ attempts = 0
  /\ session = "none"
  /\ closed = FALSE
  /\ request = NoRequest

-----------------------------------------------------------------------------
(* The launch link and the session. *)

(* exchange: somebody presents a token, the right one or not. *)
Exchange ==
  /\ \E matches \in BOOLEAN :
       IF ~closed /\ attempts < Attempts /\ token = "fresh" /\ matches
       THEN token' = "used" /\ session' = "live" /\ attempts' = attempts
       ELSE /\ attempts' = IF attempts < Attempts THEN attempts + 1 ELSE attempts
            /\ UNCHANGED <<token, session>>
  /\ UNCHANGED <<formVars, closed, request>>

LinkExpires ==
  /\ token = "fresh"
  /\ token' = "expired"
  /\ UNCHANGED <<formVars, attempts, session, closed, request>>

AttemptsAge ==
  /\ attempts > 0
  /\ attempts' \in 0..(attempts - 1)
  /\ UNCHANGED <<formVars, token, session, closed, request>>

(* The user logs out, in this tab or another one, or stays away too long. *)
EndSession ==
  /\ session = "live"
  /\ session' = "ended"
  /\ UNCHANGED <<formVars, token, attempts, closed, request>>

(* The server stops; a request that a thread works on is finished. *)
CloseConsole ==
  /\ ~closed
  /\ closed' = TRUE
  /\ token' = "used"
  /\ attempts' = 0
  /\ session' = IF session = "live" THEN "ended" ELSE session
  /\ UNCHANGED <<formVars, request>>

-----------------------------------------------------------------------------
(* Requests. *)

(* The page shows an account; the session is looked for before that. *)
ReviewOnPage ==
  /\ form[Browser].stage = "none" => session = "live"
  /\ request = NoRequest
  /\ Review(Browser)
  /\ UNCHANGED consoleVars

Authorize ==
  /\ form[Browser].stage = "ready" /\ request = NoRequest
  /\ session = "live"
  /\ request' = [NoRequest EXCEPT !.stage = "authorized"]
  /\ UNCHANGED <<formVars, token, attempts, session, closed>>

(* The body arrives: the form as the user has edited it, or another command. *)
ParseBody ==
  /\ request.stage = "authorized"
  /\ \/ \E m \in Names, ep \in FullForms :
          request' = [request EXCEPT !.stage = "update", !.rename = m, !.wanted = ep]
     \/ request' = [request EXCEPT !.stage = "command"]
     \/ request' = NoRequest
  /\ UNCHANGED <<formVars, token, attempts, session, closed>>

Done == request' = NoRequest /\ form' = [form EXCEPT ![Browser] = NoForm]

(* _update_account: does the account have an outgoing endpoint now?  The  *)
(* worker that reads it is one more set of SELECTs, of which one matters.  *)
ShowCurrent ==
  /\ request.stage = "update"
  /\ \E a \in Named(form[Browser].name) :
       request' = [request EXCEPT !.stage = "shown",
                                  !.hadOutgoing = account[a].endpoint["outgoing"] # None]
  /\ UNCHANGED <<formVars, token, attempts, session, closed>>

(* Mutant: an empty outgoing endpoint leaves the one that is there. *)
PatchKeeping(a) ==
  IF request.wanted["outgoing"] = None
  THEN [request.wanted EXCEPT !["outgoing"] = account[a].endpoint["outgoing"]]
  ELSE request.wanted

(* UpdateAccountRequest.command, applied to the account: what is not in it  *)
(* stays, and remove_outgoing takes the outgoing endpoint away.             *)
Patch(a) ==
  IF request.wanted["outgoing"] = None /\ ~request.hadOutgoing
  THEN [request.wanted EXCEPT !["outgoing"] = account[a].endpoint["outgoing"]]
  ELSE request.wanted

ApplyUpdate ==
  /\ request.stage = "shown"
  /\ LET n == form[Browser].name IN
       \E a \in Named(n) : UpdateAccount(n, form[Browser].revision, request.rename, Patch(a))
  /\ Done
  /\ UNCHANGED <<token, attempts, session, closed>>

RunCommand ==
  /\ request.stage = "command"
  /\ Command(Browser, form[Browser].name, form[Browser].revision)
  /\ Done
  /\ UNCHANGED <<token, attempts, session, closed>>

(* A conflict or another error: the page shows what there is now. *)
Refuse ==
  /\ request.stage \in {"update", "shown", "command"}
  /\ Done
  /\ UNCHANGED <<vars, token, attempts, session, closed>>

BrowserStep ==
  \/ Exchange \/ LinkExpires \/ AttemptsAge \/ EndSession \/ CloseConsole
  \/ ReviewOnPage \/ Authorize \/ ParseBody \/ ShowCurrent \/ ApplyUpdate \/ RunCommand \/ Refuse
  \/ request = NoRequest /\ Abandon(Browser) /\ UNCHANGED consoleVars

CommandLineStep ==
  /\ \/ Background
     \/ \E c \in Clients \ {Browser} : Review(c) \/ Submit(c) \/ Abandon(c)
  /\ UNCHANGED consoleVars

WebNext == BrowserStep \/ CommandLineStep

WebSpec == WebInit /\ [][WebNext]_webVars

-----------------------------------------------------------------------------
(* Properties. *)

(* An update that goes through makes the account's endpoints those of the  *)
(* form, also the outgoing one that the user left empty, whatever others   *)
(* did to the account between the review, the second look and the commit.  *)
UpdateIsWhole ==
  [][request.stage = "shown" /\ request' = NoRequest =>
       LET a == form[Browser].id IN
         account'[a] # account[a] => account'[a].endpoint = request.wanted]_webVars

=============================================================================
