--------------------------- MODULE BatchMutation ---------------------------
(***************************************************************************)
(* One call that changes messages on the IMAP server: setting flags or     *)
(* tags, deleting, moving and archiving (application/mutations.py and the  *)
(* *_with_outcome methods of emails/classic.py).  The call works through   *)
(* its UIDs on one connection, asks for current authority before every     *)
(* command, and reports of every UID whether it succeeded, failed or is    *)
(* unknown.  Meanwhile the authority changes, other IMAP clients work on   *)
(* the same mailbox, answers are lost, time runs out, and what was sent    *)
(* before the call gave up may be executed long after.                     *)
(*                                                                         *)
(* Abstractions.  A flag is the one the call sets: the requested flag or   *)
(* tag, or \Deleted.  An allowlist is the set of UIDs whose sender it      *)
(* admits; the set of all UIDs stands for no allowlist.  The registry that *)
(* a guard pins for tags is part of the grant.  The coverage of the one or *)
(* two mailboxes the call touches is one value.  Moving to junk finds its  *)
(* destination as archiving does.  A command the server rejects has had no *)
(* effect.  Names and the details of an outcome are left out.              *)
(***************************************************************************)
EXTENDS Integers, Sequences

CONSTANTS
  Count,         \* how many UIDs the call names
  Capabilities,  \* sets of capabilities a server may have
  Allowlists,    \* the allowlists an operator may set
  MaxChanges     \* bound on the changes of the authority

Uids == 1..Count    \* in the order in which the call names them

ASSUME MutationAssumption ==
  /\ Count \in Nat
  /\ Capabilities \subseteq SUBSET {"MOVE", "UIDPLUS"}
  /\ Allowlists \subseteq SUBSET Uids
  /\ MaxChanges \in Nat

VARIABLES
  authority,   \* what the operator has set
  server,      \* the capabilities of the IMAP server
  link,        \* whether the connection of the call still carries commands
  wire,        \* commands sent and not executed yet, oldest first
  message,     \* the messages the call names
  coverage,    \* index coverage of the mailboxes, and whether the call outdated it
  call,        \* what the call remembers
  changes,     \* changes of the authority so far
  late         \* commands sent since the authority stopped allowing them

environment == <<authority, changes>>
remote == <<server, link, wire, message, coverage>>
vars == <<environment, remote, call, late>>

Moves == {"move", "archive"}

Authority == [granted : BOOLEAN, senders : Allowlists]

Command == [kind : {"store", "move", "copy", "expunge"}, uids : SUBSET Uids]

Message == [place : {"source", "removed", "elsewhere"},
            flagged : BOOLEAN, copies : 0..2, cleared : BOOLEAN]

Outcome == {"none", "succeeded", "failed", "unknown"}

Call == [pc : {"idle", "resolved", "discover", "opened", "connect", "next", "check",
               "send", "await", "finish", "done", "raised"},
         op : {"flags", "delete"} \cup Moves,
         found : BOOLEAN,
         account : Authority,
         blocked : SUBSET Uids,
         todo : SUBSET Uids,
         current : Command,
         pending : SUBSET Uids,
         reply : {"none", "OK", "NO", "other"},
         outcome : [Uids -> Outcome],
         reconcile : BOOLEAN]

TypeOK ==
  /\ authority \in Authority
  /\ server \in Capabilities
  /\ link \in {"up", "down"}
  /\ wire \in Seq(Command)
  /\ message \in [Uids -> Message]
  /\ coverage \in {"none", "fresh", "stale"}
  /\ call \in Call
  /\ changes \in 0..MaxChanges
  /\ late \in Nat

Init ==
  /\ authority \in [granted : {TRUE}, senders : Allowlists]
  /\ server \in Capabilities
  /\ link = "down"
  /\ wire = <<>>
  /\ message = [u \in Uids |->
                  [place |-> "source", flagged |-> FALSE, copies |-> 0, cleared |-> FALSE]]
  /\ coverage = "fresh"
  /\ \E op \in {"flags", "delete"} \cup Moves :
       call = [pc |-> "idle", op |-> op, found |-> FALSE, account |-> authority,
               blocked |-> {}, todo |-> {}, current |-> [kind |-> "store", uids |-> {}],
               pending |-> {}, reply |-> "none",
               outcome |-> [u \in Uids |-> "none"], reconcile |-> FALSE]
  /\ changes = 0
  /\ late = 0

-----------------------------------------------------------------------------
(* What the call consults. *)

(* The guard: the grant is still there and the senders are the snapshot's. *)
Permitted == authority.granted /\ authority.senders = call.account.senders

(* UIDs the allowlist does not admit; a message that is gone has no sender. *)
BlockedUids ==
  IF call.account.senders = Uids THEN {}
  ELSE {u \in Uids : u \notin call.account.senders \/ message[u].place # "source"}

(* A move the server cannot do itself is COPY, STORE and UID EXPUNGE. *)
Fallback == call.op \in Moves /\ "MOVE" \notin server

Expunges == call.op = "delete" \/ Fallback

FirstKind ==
  CASE call.op \notin Moves -> "store"
    [] call.op \in Moves /\ "MOVE" \in server -> "move"
    [] Fallback -> "copy"

Concluded(uids, status) ==
  [u \in Uids |-> IF u \in uids THEN status ELSE call.outcome[u]]

-----------------------------------------------------------------------------
(* The service: resolve, open, discover, and open once more. *)

Raise ==
  /\ call' = [call EXCEPT !.pc = "raised"]
  /\ UNCHANGED <<environment, remote, late>>

Resolve ==
  /\ call.pc = "idle"
  /\ IF authority.granted
     THEN /\ call' = [call EXCEPT !.pc = "resolved"]
          /\ UNCHANGED <<environment, remote, late>>
     ELSE Raise

Open ==
  /\ call.pc = "resolved"
  /\ IF authority.granted
     THEN /\ call' = [call EXCEPT
                        !.pc = IF call.op = "archive" /\ ~call.found THEN "discover" ELSE "opened",
                        !.account = authority]
          /\ UNCHANGED <<environment, remote, late>>
     ELSE Raise

(* Discovery fails, times out, or finds the mailbox: authority is then read anew. *)
Discover ==
  /\ call.pc = "discover"
  /\ \/ Raise
     \/ /\ call' = [call EXCEPT !.pc = "resolved", !.found = TRUE]
        /\ UNCHANGED <<environment, remote, late>>

(* The adapter's guard, before anything is sent. *)
Guard ==
  /\ call.pc = "opened"
  /\ IF Permitted
     THEN /\ call' = [call EXCEPT !.pc = "connect"]
          /\ UNCHANGED <<environment, remote, late>>
     ELSE Raise

(* Connected, logged in, mailbox selected, senders fetched: UIDs the policy *)
(* blocks are concluded here, as report_blocked_mutations says, and all       *)
(* others when nothing could expunge them.                                   *)
Connect ==
  /\ call.pc = "connect"
  /\ LET blocked == BlockedUids
         permitted == Uids \ blocked
         stuck == Expunges /\ "UIDPLUS" \notin server
     IN \E concealed \in {"failed", "succeeded"} :
          call' = [call EXCEPT
                     !.pc = "next",
                     !.blocked = blocked,
                     !.todo = IF stuck THEN {} ELSE permitted,
                     !.outcome = [u \in Uids |->
                        CASE u \in blocked -> concealed
                          [] u \in permitted /\ stuck -> "failed"
                          [] OTHER -> "none"]]
  /\ link' = "up"
  /\ UNCHANGED <<environment, server, wire, message, coverage, late>>

(* _timeout_batch: time ran out before the first effect; nothing is ruled out. *)
ConnectTimesOut ==
  /\ call.pc = "connect"
  /\ call' = [call EXCEPT !.pc = "finish", !.reconcile = TRUE,
                          !.outcome = Concluded(Uids, "unknown")]
  /\ UNCHANGED <<environment, remote, late>>

ConnectFails == call.pc = "connect" /\ Raise

-----------------------------------------------------------------------------
(* The loop over the UIDs. *)

(* The next UID; after the last, a delete expunges what it has marked. *)
Take ==
  /\ call.pc = "next"
  /\ \/ \E u \in call.todo :
          /\ \A v \in call.todo : u <= v
          /\ call' = [call EXCEPT !.pc = "check", !.todo = @ \ {u},
                                  !.current = [kind |-> FirstKind, uids |-> {u}]]
     \/ /\ call.todo = {} /\ call.pending # {}
        /\ call' = [call EXCEPT !.pc = "check", !.pending = {},
                                !.current = [kind |-> "expunge", uids |-> call.pending]]
     \/ /\ call.todo = {} /\ call.pending = {}
        /\ call' = [call EXCEPT !.pc = "finish"]
  /\ UNCHANGED <<environment, remote, late>>

(* What a command the server rejected, or the guard denied, proves. *)
Rejected == IF call.current.kind = FirstKind THEN "failed" ELSE "unknown"

(* Mutant: the guard is asked once per message. *)
CheckAllowsOnce ==
  /\ call.pc = "check"
  /\ call.current.kind # FirstKind \/ Permitted
  /\ call' = [call EXCEPT !.pc = "send"]
  /\ UNCHANGED <<environment, remote, late>>

CheckAllows ==
  /\ call.pc = "check"
  /\ Permitted
  /\ call' = [call EXCEPT !.pc = "send"]
  /\ UNCHANGED <<environment, remote, late>>

CheckDenies ==
  /\ call.pc = "check"
  /\ ~Permitted
  /\ call' = [call EXCEPT !.pc = "next", !.outcome = Concluded(call.current.uids, Rejected)]
  /\ UNCHANGED <<environment, remote, late>>

Send ==
  /\ call.pc = "send"
  /\ call' = [call EXCEPT !.pc = "await", !.reply = "none"]
  /\ wire' = IF link = "up" THEN Append(wire, call.current) ELSE wire
  /\ late' = IF Permitted THEN late ELSE late + 1
  /\ UNCHANGED <<environment, server, link, message, coverage>>

Goto(kind) == [call EXCEPT !.pc = "check", !.current.kind = kind]

(* Mutant: a message that is marked counts as deleted. *)
ReplyOKMarked ==
  /\ call.pc = "await"
  /\ call.reply = "OK"
  /\ call' = IF call.current.kind = "copy" THEN Goto("store")
             ELSE [call EXCEPT !.pc = "next", !.outcome = Concluded(call.current.uids, "succeeded")]
  /\ UNCHANGED <<environment, remote, late>>

(* OK: on to the next command for this UID, or to the next UID. *)
ReplyOK ==
  /\ call.pc = "await"
  /\ call.reply = "OK"
  /\ call' =
       CASE call.current.kind = "copy" -> Goto("store")
         [] call.current.kind = "store" /\ Fallback -> Goto("expunge")
         [] call.current.kind = "store" /\ call.op = "delete" ->
              [call EXCEPT !.pc = "next", !.pending = @ \cup call.current.uids]
         [] OTHER ->
              [call EXCEPT !.pc = "next", !.outcome = Concluded(call.current.uids, "succeeded")]
  /\ UNCHANGED <<environment, remote, late>>

ReplyNO ==
  /\ call.pc = "await"
  /\ call.reply = "NO"
  /\ call' = [call EXCEPT !.pc = "next", !.outcome = Concluded(call.current.uids, Rejected)]
  /\ UNCHANGED <<environment, remote, late>>

(* The loop stops: nothing marked is expunged, what is left was not attempted. *)
Stopped ==
  [call EXCEPT
     !.pc = "finish", !.todo = {}, !.pending = {},
     !.outcome = [u \in Uids |->
        CASE u \in call.current.uids \cup call.pending -> "unknown"
          [] u \in call.todo -> "failed"
          [] OTHER -> call.outcome[u]]]

(* Mutant: a copy that may not have been made is deleted all the same. *)
NoAnswerProceeds ==
  /\ call.pc = "await"
  /\ call.reply \in {"none", "other"}
  /\ call' = IF call.current.kind = "copy" THEN Goto("store") ELSE Stopped
  /\ UNCHANGED <<environment, remote, late>>

(* Mutant: the command is sent again. *)
NoAnswerRetried ==
  /\ call.pc = "await"
  /\ call.reply \in {"none", "other"}
  /\ call' = Goto(call.current.kind)
  /\ UNCHANGED <<environment, remote, late>>

(* An answer that is neither OK nor NO, or an exception: BYE, a lost          *)
(* connection, a command timeout of the library.  Only a fallback move stops. *)
NoAnswer ==
  /\ call.pc = "await"
  /\ call.reply \in {"none", "other"}
  /\ call' = IF Fallback THEN Stopped
             ELSE [call EXCEPT !.pc = "next",
                               !.outcome = Concluded(call.current.uids, "unknown")]
  /\ UNCHANGED <<environment, remote, late>>

(* The provider timeout or the client cancels the call while it waits. *)
Cancelled ==
  /\ call.pc = "await"
  /\ call.reply = "none"
  /\ call' = Stopped
  /\ UNCHANGED <<environment, remote, late>>

-----------------------------------------------------------------------------
(* The report. *)

EffectMayHaveStarted == \E u \in Uids : call.outcome[u] \in {"succeeded", "unknown"}

(* Evidence of an unknown outcome always asks for reconciliation. *)
Ambiguous == \E u \in Uids : call.outcome[u] = "unknown"

(* Mutant: only a failed invalidation asks for reconciliation. *)
ReportInvalidation(failed) ==
  call' = [call EXCEPT !.pc = "done", !.reconcile = @ \/ failed]

Report(failed) ==
  call' = [call EXCEPT !.pc = "done", !.reconcile = @ \/ failed \/ Ambiguous]

ReturnUnchanged ==
  /\ call.pc = "finish"
  /\ ~EffectMayHaveStarted
  /\ Report(FALSE)
  /\ UNCHANGED <<environment, remote, late>>

Invalidate ==
  /\ call.pc = "finish"
  /\ EffectMayHaveStarted
  /\ Report(FALSE)
  /\ coverage' = "none"
  /\ UNCHANGED <<environment, server, link, wire, message, late>>

(* The projection cannot be opened, or the thread that writes it is not waited for. *)
InvalidateFails ==
  /\ call.pc = "finish"
  /\ EffectMayHaveStarted
  /\ Report(TRUE)
  /\ coverage' \in {coverage, "none"}
  /\ UNCHANGED <<environment, server, link, wire, message, late>>

-----------------------------------------------------------------------------
(* The IMAP server executes commands in order; a UID that is gone is skipped. *)

Applied(command, m) ==
  IF m.place # "source" THEN m
  ELSE CASE command.kind = "store" -> [m EXCEPT !.flagged = TRUE]
         [] command.kind = "copy" -> [m EXCEPT !.copies = @ + 1]
         [] command.kind = "move" -> [m EXCEPT !.copies = @ + 1, !.place = "removed"]
         [] command.kind = "expunge" -> IF m.flagged THEN [m EXCEPT !.place = "removed"] ELSE m

(* The call waits for the command it sent last. *)
Answered(reply) ==
  IF call.pc = "await" /\ Len(wire) = 1 THEN [call EXCEPT !.reply = reply] ELSE call

Execute ==
  /\ wire # <<>>
  /\ message' = [u \in Uids |-> IF u \in Head(wire).uids THEN Applied(Head(wire), message[u])
                                                        ELSE message[u]]
  /\ coverage' = IF message' # message /\ coverage = "fresh" THEN "stale" ELSE coverage
  /\ wire' = Tail(wire)
  /\ \E reply \in {"OK", "other", "none"} : call' = Answered(reply)
  /\ UNCHANGED <<environment, server, link, late>>

Refuse ==
  /\ wire # <<>>
  /\ wire' = Tail(wire)
  /\ \E reply \in {"NO", "other", "none"} : call' = Answered(reply)
  /\ UNCHANGED <<environment, server, link, message, coverage, late>>

Disconnect ==
  /\ link = "up"
  /\ link' = "down"
  /\ wire' = <<>>
  /\ UNCHANGED <<environment, server, message, coverage, call, late>>

(* Another client deletes or moves a message, expunges what is marked, or *)
(* takes the mark away. *)
OtherClient ==
  /\ \E u \in Uids :
       /\ message[u].place = "source"
       /\ \/ message' = [message EXCEPT ![u].place = "elsewhere"]
          \/ /\ message[u].flagged /\ call.op # "flags"
             /\ message' = [message EXCEPT ![u].place = "removed"]
          \/ /\ message[u].flagged /\ ~message[u].cleared
             /\ message' = [message EXCEPT ![u].flagged = FALSE, ![u].cleared = TRUE]
  /\ UNCHANGED <<environment, server, link, wire, coverage, call, late>>

(* A query covers the mailboxes anew (MailboxProjection). *)
Refresh ==
  /\ coverage # "fresh"
  /\ coverage' = "fresh"
  /\ UNCHANGED <<environment, server, link, wire, message, call, late>>

(* The operator grants, withdraws, or edits the allowlist. *)
ChangeAuthority ==
  /\ changes < MaxChanges
  /\ \E granted \in BOOLEAN, senders \in Allowlists :
       authority' = [authority EXCEPT !.granted = granted, !.senders = senders]
  /\ authority' # authority
  /\ changes' = changes + 1
  /\ late' = 0
  /\ UNCHANGED <<remote, call>>

Service == Resolve \/ Open \/ Discover \/ Guard \/ Connect \/ ConnectTimesOut \/ ConnectFails

Loop == Take \/ CheckAllows \/ CheckDenies \/ Send \/ ReplyOK \/ ReplyNO \/ NoAnswer \/ Cancelled

Finish == ReturnUnchanged \/ Invalidate \/ InvalidateFails

CallStep == Service \/ Loop \/ Finish

Environment ==
  Execute \/ Refuse \/ Disconnect \/ OtherClient \/ Refresh \/ ChangeAuthority

Next == CallStep \/ Environment

(* The event loop goes on with the call: every wait for the server ends, *)
(* by an answer, by a timeout of the library or by the provider timeout. *)
Spec == Init /\ [][Next]_vars /\ WF_vars(CallStep)

-----------------------------------------------------------------------------
(* Properties. *)

OnWire(u) == \E i \in 1..Len(wire) : u \in wire[i].uids

Untouched(u) ==
  /\ ~message[u].flagged /\ ~message[u].cleared
  /\ message[u].copies = 0
  /\ message[u].place # "removed"
  /\ ~OnWire(u)

(* What the call reports is a proof.  A message it reports as failed, or    *)
(* that the sender policy blocks, bears no trace of the call, and no command *)
(* still under way will touch it.  One it reports as succeeded is marked or  *)
(* no longer in its mailbox, unless another client took it away or undid it. *)
OutcomesHonest ==
  \A u \in Uids :
    /\ call.outcome[u] = "failed" \/ u \in call.blocked => Untouched(u)
    /\ call.outcome[u] = "succeeded" /\ u \notin call.blocked =>
         \/ message[u].place # "source"
         \/ message[u].cleared
         \/ call.op = "flags" /\ message[u].flagged

(* A message a move took out of its mailbox, by whoever expunged it, is in *)
(* the destination once: not lost between COPY and EXPUNGE, never doubled. *)
MovedOnce ==
  call.op \in Moves =>
    \A u \in Uids :
      /\ message[u].copies <= 1
      /\ message[u].place = "removed" => message[u].copies = 1

(* When authority is withdrawn or the allowlist edited, at most the one *)
(* command whose guard had just passed still goes out. *)
RevocationStops == late <= 1

(* A call that returns while the index still vouches for a mailbox the call *)
(* has changed says so, however late the change becomes effective. *)
CacheHonest == call.pc = "done" /\ coverage = "stale" => call.reconcile

(* Every call ends, whatever is lost, refused, withdrawn or cancelled. *)
CallEnds == <>(call.pc \in {"done", "raised"})
=============================================================================
