----------------------------- MODULE Submission -----------------------------
(***************************************************************************)
(* One call that hands a message over: sending and forwarding by SMTP with *)
(* the copy kept in the Sent mailbox, and saving a draft or a message by   *)
(* IMAP APPEND (application/mutations.py, adapters/mutations.py and the    *)
(* *_with_outcome methods of emails/classic.py).  DATA and APPEND are      *)
(* effects that are never tried twice; authority is read anew before each. *)
(* Meanwhile the operator changes the authority, answers are lost, time    *)
(* runs out, and what was sent may take effect after the call has ended.   *)
(*                                                                         *)
(* Abstractions.  Of the recipient allowlist only whether it admits all    *)
(* recipients counts.  One setting stands for what a guard pins: the       *)
(* sender allowlist for a forward, the drafts mailbox for a draft.  The    *)
(* candidates for the Sent mailbox are one.  Composing, encodings and      *)
(* attachments are left out.                                               *)
(***************************************************************************)
EXTENDS Integers

CONSTANTS
  Recipients,    \* the recipients of the message
  Settings,      \* values of the pinned setting
  Admitting,     \* sender allowlists that admit the source of a forward
  MaxChanges     \* bound on the changes of the authority

ASSUME SubmissionAssumption ==
  /\ Admitting \subseteq Settings
  /\ MaxChanges \in Nat

VARIABLES
  authority,   \* what the operator has set
  wire,        \* effects sent and not executed yet
  delivered,   \* recipients whose server has taken the message
  copies,      \* copies of it the call has put into a mailbox
  coverage,    \* index coverage of that mailbox, and whether the call outdated it
  call,        \* what the call remembers
  changes,     \* changes of the authority so far
  late         \* effects sent since the authority stopped allowing them

operator == <<authority, changes>>
remote == <<wire, delivered, copies, coverage>>
vars == <<operator, remote, call, late>>

Submitting == {"send", "forward"}
Appending == {"save", "draft"}

Authority == [granted : BOOLEAN, admits : BOOLEAN, capable : BOOLEAN, pinned : Settings]

Status == {"none", "succeeded", "failed", "unknown"}

Call == [pc : {"idle", "resolved", "discover", "opened", "connect", "rcpt", "check", "send",
               "await", "copy", "guard", "setup", "report", "done", "raised"},
         op : Submitting \cup Appending,
         found : BOOLEAN,
         account : Authority,
         effect : {"data", "append"},
         accepted : SUBSET Recipients,
         reply : {"none", "OK", "NO"},
         outcome : [Recipients -> Status],
         copy : Status \cup {"skipped"},
         reconcile : BOOLEAN]

TypeOK ==
  /\ authority \in Authority
  /\ wire \subseteq {"data", "append"}
  /\ delivered \subseteq Recipients
  /\ copies \in 0..1
  /\ coverage \in {"none", "fresh", "stale"}
  /\ call \in Call
  /\ changes \in 0..MaxChanges
  /\ late \in Nat

Init ==
  /\ authority \in [granted : {TRUE}, admits : {TRUE}, capable : {TRUE}, pinned : Settings]
  /\ wire = {}
  /\ delivered = {}
  /\ copies = 0
  /\ coverage = "fresh"
  /\ \E op \in Submitting \cup Appending :
       call = [pc |-> "idle", op |-> op, found |-> FALSE, account |-> authority,
               effect |-> IF op \in Submitting THEN "data" ELSE "append",
               accepted |-> {}, reply |-> "none",
               outcome |-> [r \in Recipients |-> "none"], copy |-> "none", reconcile |-> FALSE]
  /\ changes = 0
  /\ late = 0

-----------------------------------------------------------------------------
(* What the call consults. *)

Submits == call.op \in Submitting

(* Forwarding and saving a draft read the mailbox first, then open again. *)
Discovers == call.op \in {"forward", "draft"} /\ ~call.found

Authorized == authority.granted /\ authority.admits /\ (Submits => authority.capable)

(* What the workflow requires of the snapshot an open returns. *)
OpenAllowed ==
  CASE call.op = "draft" /\ Discovers -> authority.granted
    [] call.op = "draft" /\ ~Discovers ->
         Authorized /\ authority.pinned = call.account.pinned
    [] call.op = "forward" /\ ~Discovers -> Authorized /\ authority.pinned \in Admitting
    [] OTHER -> Authorized

(* The guard.  It pins the setting except for the copy of a message already sent. *)
Permitted ==
  /\ authority.granted
  /\ authority.admits
  /\ \/ call.op \in {"send", "save"}
     \/ call.op = "forward" /\ call.effect = "append"
     \/ authority.pinned = call.account.pinned

Concluded(recipients, status) ==
  [r \in Recipients |-> IF r \in recipients THEN status ELSE call.outcome[r]]

(* Steps of the call that touch nothing outside it. *)
Step(next) == call' = next /\ UNCHANGED <<operator, remote, late>>

Raise == Step([call EXCEPT !.pc = "raised"])

(* Mutant: nothing but a failed invalidation asks for reconciliation. *)
DoneAsIs(next) == [next EXCEPT !.pc = "done"]

(* The report asks for reconciliation whenever something is unknown. *)
Done(next) ==
  [next EXCEPT !.pc = "done",
     !.reconcile = @ \/ next.copy = "unknown" \/ \E r \in Recipients : next.outcome[r] = "unknown"]

(* Delivery has ended without a message to keep a copy of. *)
Skipped(outcome) == Done([call EXCEPT !.outcome = outcome, !.copy = "skipped"])

-----------------------------------------------------------------------------
(* The workflow up to its effect. *)

Resolve ==
  /\ call.pc = "idle"
  /\ IF Authorized THEN Step([call EXCEPT !.pc = "resolved", !.account = authority]) ELSE Raise

Open ==
  /\ call.pc = "resolved"
  /\ IF OpenAllowed
     THEN Step([call EXCEPT
                  !.pc = IF Discovers THEN "discover" ELSE "opened",
                  !.account = IF call.op = "draft" /\ Discovers THEN @ ELSE authority])
     ELSE Raise

(* The source message or the drafts mailbox is read, or the read fails. *)
Discover ==
  /\ call.pc = "discover"
  /\ \/ Raise
     \/ /\ call.op = "forward" => call.account.pinned \in Admitting
        /\ Step([call EXCEPT !.pc = "resolved", !.found = TRUE])

(* The adapter's guard, before anything is sent. *)
Guard ==
  /\ call.pc = "opened"
  /\ IF Permitted THEN Step([call EXCEPT !.pc = IF Submits THEN "connect" ELSE "setup"]) ELSE Raise

(* SMTP: connected, authenticated, and the MAIL command accepted. *)
Connect == call.pc = "connect" /\ Step([call EXCEPT !.pc = "rcpt"])

ConnectFails == call.pc = "connect" /\ Raise

(* _delivery_timeout: time ran out while connecting. *)
ConnectTimesOut ==
  /\ call.pc = "connect"
  /\ Step(Skipped(Concluded(Recipients, "unknown")))

(* MAIL is rejected, or the session is lost or cancelled before DATA. *)
Abandoned ==
  /\ call.pc \in {"connect", "rcpt"}
  /\ Step(Skipped(Concluded(Recipients, "failed")))

(* The server accepts some recipients; the others have failed. *)
Rcpt ==
  /\ call.pc = "rcpt"
  /\ \E accepted \in (SUBSET Recipients) \ {{}} :
       Step([call EXCEPT !.pc = "check", !.accepted = accepted,
                         !.outcome = Concluded(Recipients \ accepted, "failed")])

-----------------------------------------------------------------------------
(* The effects: DATA, then APPEND; or APPEND alone. *)

CheckAllows ==
  /\ call.pc = "check"
  /\ Permitted
  /\ Step([call EXCEPT !.pc = "send"])

(* Mutant: a denied copy raises, as a denied save does. *)
CheckDeniesRaises ==
  /\ call.pc = "check"
  /\ ~Permitted
  /\ IF call.effect = "data" THEN Step(Skipped(Concluded(call.accepted, "failed"))) ELSE Raise

(* A denied DATA fails its recipients, a denied copy itself; a denied save raises. *)
CheckDenies ==
  /\ call.pc = "check"
  /\ ~Permitted
  /\ CASE call.effect = "data" -> Step(Skipped(Concluded(call.accepted, "failed")))
       [] call.effect = "append" /\ Submits -> Step(Done([call EXCEPT !.copy = "failed"]))
       [] call.op \in Appending -> Raise

Send ==
  /\ call.pc = "send"
  /\ wire' = wire \cup {call.effect}
  /\ late' = IF Permitted THEN late ELSE late + 1
  /\ call' = [call EXCEPT !.pc = "await", !.reply = "none"]
  /\ UNCHANGED <<operator, delivered, copies, coverage>>

(* Mutant: no answer is taken for a rejection. *)
EvidenceOfSilence == IF call.reply = "OK" THEN "succeeded" ELSE "failed"

(* What the answer, or its absence, proves: a connection that is lost, a *)
(* timeout and a cancellation leave open whether the effect took place.  *)
Evidence ==
  CASE call.reply = "OK" -> "succeeded"
    [] call.reply = "NO" -> "failed"
    [] call.reply = "none" -> "unknown"

DataEnds ==
  /\ call.pc = "await"
  /\ call.effect = "data"
  /\ LET outcome == Concluded(call.accepted, Evidence)
     IN IF Evidence = "succeeded" THEN Step([call EXCEPT !.pc = "copy", !.outcome = outcome])
                                  ELSE Step(Skipped(outcome))

AppendEnds ==
  /\ call.pc = "await"
  /\ call.effect = "append"
  /\ Step([call EXCEPT !.pc = "report", !.copy = Evidence])

-----------------------------------------------------------------------------
(* The Sent copy: authority is opened anew; no failure undoes the delivery. *)

CopyEnds(status) == Step(Done([call EXCEPT !.copy = status]))

(* Mutant: the copy is part of the submission and not guarded anew. *)
OpenCopyUnguarded ==
  /\ call.pc = "copy"
  /\ Step([call EXCEPT !.pc = "send", !.effect = "append"])

OpenCopy ==
  /\ call.pc = "copy"
  /\ IF authority.granted
     THEN Step([call EXCEPT !.pc = "guard", !.account = authority, !.effect = "append"])
     ELSE CopyEnds("failed")

(* The incoming credential cannot be resolved, or save_to_sent is off. *)
CopyUnavailable == call.pc = "copy" /\ \E status \in {"failed", "skipped"} : CopyEnds(status)

GuardCopy ==
  /\ call.pc = "guard"
  /\ IF Permitted THEN Step([call EXCEPT !.pc = "setup"]) ELSE CopyEnds("failed")

(* IMAP: connected, logged in, and the mailbox selected. *)
Setup == call.pc = "setup" /\ Step([call EXCEPT !.pc = "check"])

SetupRejected == call.pc = "setup" /\ CopyEnds("failed")

(* A failed setup raises, but for a Sent copy: that has failed, or is unknown *)
(* when the error is not a provider's. *)
SetupFails ==
  /\ call.pc = "setup"
  /\ IF Submits THEN \E status \in {"failed", "unknown"} : CopyEnds(status) ELSE Raise

(* Time ran out; the Sent mailbox is not known, another one is. *)
SetupTimesOut ==
  /\ call.pc = "setup"
  /\ IF Submits THEN CopyEnds("unknown")
                ELSE Step([call EXCEPT !.pc = "report", !.copy = "unknown"])

ReportUnchanged == call.pc = "report" /\ call.copy = "failed" /\ Step(Done(call))

Invalidate ==
  /\ call.pc = "report"
  /\ call.copy \in {"succeeded", "unknown"}
  /\ \/ call' = Done(call) /\ coverage' = "none"
     \/ call' = [Done(call) EXCEPT !.reconcile = TRUE] /\ coverage' \in {coverage, "none"}
  /\ UNCHANGED <<operator, wire, delivered, copies, late>>

-----------------------------------------------------------------------------
(* The servers, other queries and the operator. *)

Answered(effect, reply) ==
  IF call.pc = "await" /\ call.effect = effect THEN [call EXCEPT !.reply = reply] ELSE call

Execute(effect) ==
  /\ effect \in wire
  /\ wire' = wire \ {effect}
  /\ IF effect = "data"
     THEN delivered' = call.accepted /\ UNCHANGED <<copies, coverage>>
     ELSE /\ copies' = copies + 1
          /\ coverage' = IF coverage = "fresh" THEN "stale" ELSE coverage
          /\ UNCHANGED delivered
  /\ \E reply \in {"OK", "none"} : call' = Answered(effect, reply)
  /\ UNCHANGED <<operator, late>>

(* Refused, or lost with the connection. *)
Drop(effect) ==
  /\ effect \in wire
  /\ wire' = wire \ {effect}
  /\ \E reply \in {"NO", "none"} : call' = Answered(effect, reply)
  /\ UNCHANGED <<operator, delivered, copies, coverage, late>>

(* A query covers the mailbox anew (MailboxProjection). *)
Refresh ==
  /\ coverage # "fresh"
  /\ coverage' = "fresh"
  /\ UNCHANGED <<operator, wire, delivered, copies, call, late>>

ChangeAuthority ==
  /\ changes < MaxChanges
  /\ authority' \in Authority
  /\ authority' # authority
  /\ changes' = changes + 1
  /\ late' = 0
  /\ UNCHANGED <<remote, call>>

Workflow ==
  \/ Resolve \/ Open \/ Discover \/ Guard
  \/ Connect \/ ConnectFails \/ ConnectTimesOut \/ Abandoned \/ Rcpt
  \/ CheckAllows \/ CheckDenies \/ Send \/ DataEnds \/ AppendEnds
  \/ OpenCopy \/ CopyUnavailable \/ GuardCopy
  \/ Setup \/ SetupRejected \/ SetupFails \/ SetupTimesOut
  \/ ReportUnchanged \/ Invalidate

Next ==
  \/ Workflow
  \/ \E effect \in {"data", "append"} : Execute(effect) \/ Drop(effect)
  \/ Refresh
  \/ ChangeAuthority

Spec == Init /\ [][Next]_vars

-----------------------------------------------------------------------------
(* Properties. *)

(* "failed" proves absence: a recipient reported as failed has not got the *)
(* message and will not get it, and a copy that failed or was skipped is   *)
(* in no mailbox, now or later. *)
FailedUnsent ==
  /\ \A r \in Recipients :
       call.outcome[r] = "failed" => r \notin delivered /\ ~("data" \in wire /\ r \in call.accepted)
  /\ call.copy \in {"failed", "skipped"} => copies = 0 /\ "append" \notin wire

(* "succeeded" proves the effect, for every recipient and for the copy. *)
SucceededSent ==
  /\ \A r \in Recipients : call.outcome[r] = "succeeded" => r \in delivered
  /\ call.copy = "succeeded" => copies = 1

(* The Sent mailbox never shows a message that was not handed over. *)
CopyOfDelivered == Submits /\ (copies > 0 \/ "append" \in wire) => delivered # {}

(* What the call reports of each recipient and of the copy is a proof of its *)
(* absence or of its effect, and there is a copy only of what was delivered. *)
OutcomesHonest == FailedUnsent /\ SucceededSent /\ CopyOfDelivered

(* A call that ends with an error has sent nothing and will send nothing: *)
(* it may be made again without a second message or draft. *)
ErrorSafeToRetry == call.pc = "raised" => delivered = {} /\ copies = 0 /\ wire = {}

(* When authority is withdrawn or changed, at most the one effect whose *)
(* guard had just passed still goes out; the Sent copy no longer does.  *)
RevocationStops == late <= 1

(* A call that returns while the index still vouches for the mailbox it has *)
(* appended to says so, however late the copy arrives. *)
CacheHonest == call.pc = "done" /\ coverage = "stale" => call.reconcile
=============================================================================
