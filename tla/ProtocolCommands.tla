-------------------------- MODULE ProtocolCommands -------------------------
(***************************************************************************)
(* The email_command tool (application/protocol.py over                    *)
(* adapters/protocol.py): a few IMAP or SMTP commands run in order on one  *)
(* connection that lives for the call.  Before every write the account and *)
(* the policy are looked at again; the first failure stops the call; what  *)
(* was sent and not answered is reported as unknown; and the metadata      *)
(* index is invalidated before the first command and after the last.       *)
(* Meanwhile the authority changes, the connection breaks, answers do not  *)
(* come, and the call is cancelled.                                        *)
(*                                                                         *)
(* Abstractions.  A command is known by what the code tells apart: whether *)
(* it selects a mailbox, needs one or a capability, and whether it carries *)
(* a payload, which the server asks for between two writes.  What the      *)
(* server sends is an answer, a request to continue or silence; all that   *)
(* makes the client give up on an answer is one event.  Tags, texts and    *)
(* the syntax of commands are left out.                                    *)
(***************************************************************************)
EXTENDS Integers, Sequences

CONSTANTS
  CommandLists,   \* the lists of commands a call may carry
  MaxRevision     \* bound on the changes of the authority

VARIABLES
  authority,   \* what the selected store says now: its revision, and whether it admits the call
  link,        \* the connection
  wire,        \* what was written and the server has not taken up, oldest first
  reply,       \* the server's answer that the client has not read
  executed,    \* commands the server has executed, oldest first
  cache,       \* coverage of the account's mailboxes in the metadata index
  late,        \* writes since the authority stopped being the one the call began with
  proto        \* what the call remembers

remoteSide == <<link, wire, reply, executed>>
protocolVars == <<authority, remoteSide, cache, late, proto>>

Kinds == {"select", "plain", "mailbox", "capability", "payload"}

Statuses == {"not_attempted", "ok", "error", "unknown"}

Part == [of : Nat, part : {"line", "payload"}]

Call == [commands : Seq(Kinds),
         pc       : {"start", "guard", "secrets", "reguard", "dial", "void", "next", "prepare",
                     "send", "write", "await", "close", "settle", "over"},
         began    : Nat,       \* revision of the authority the call began with
         login    : Nat,       \* revision its credentials were read for
         selected : BOOLEAN,   \* a mailbox is selected
         index    : Nat,       \* the current command
         sent     : BOOLEAN,   \* something of it may have been sent
         payload  : BOOLEAN,   \* its payload is what is written next
         status   : Seq(Statuses),
         result   : {"completed", "stopped", "unknown"},
         setup    : BOOLEAN,   \* the session was never set up
         warned   : BOOLEAN]   \* the second invalidation is in doubt

ASSUME ProtocolAssumption == CommandLists \subseteq Seq(Kinds) /\ MaxRevision \in Nat

Size == Len(proto.commands)
Kind(i) == proto.commands[i]

ProtocolInit(lists) ==
  /\ authority = [revision |-> 1, admits |-> TRUE]
  /\ link = "none"
  /\ wire = <<>>
  /\ reply = "none"
  /\ executed = <<>>
  /\ cache = "fresh"
  /\ late = 0
  /\ \E commands \in lists :
       proto = [commands |-> commands, pc |-> "start", began |-> 1, login |-> 0,
                selected |-> FALSE, index |-> 0, sent |-> FALSE, payload |-> FALSE,
                status |-> [i \in DOMAIN commands |-> "not_attempted"],
                result |-> "stopped", setup |-> FALSE, warned |-> FALSE]

ProtocolTypeOK ==
  /\ authority \in [revision : Nat, admits : BOOLEAN]
  /\ link \in {"none", "up", "down"}
  /\ wire \in Seq(Part)
  /\ reply \in {"none", "ok", "no", "continue"}
  /\ executed \in Seq(Nat)
  /\ cache \in {"fresh", "stale", "void"}
  /\ late \in Nat
  /\ proto \in Call
  /\ proto.index <= Size /\ Len(proto.status) = Size

Continue(pc) == proto' = [proto EXCEPT !.pc = pc]

(* guard: the account is resolved again, admits the call and is the same. *)
Authorized == authority.admits /\ authority.revision = proto.began

-----------------------------------------------------------------------------
(* The operator, other queries, and the server. *)

ChangeAuthority ==
  /\ authority.revision < MaxRevision
  /\ \E admits \in BOOLEAN :
       authority' = [revision |-> authority.revision + 1, admits |-> admits]
  /\ UNCHANGED <<remoteSide, cache, late, proto>>

(* A metadata query of the same account fills the index again. *)
Refill ==
  /\ cache = "void"
  /\ cache' = "fresh"
  /\ UNCHANGED <<authority, remoteSide, late, proto>>

Execute(i) ==
  /\ executed' = Append(executed, i)
  /\ cache' = IF cache = "fresh" THEN "stale" ELSE cache

(* The server takes up the oldest write, also after the client has gone. *)
Serve ==
  /\ wire # <<>>
  /\ wire' = Tail(wire)
  /\ LET w == Head(wire) IN
       \/ /\ w.part = "line" /\ Kind(w.of) = "payload"
          /\ reply' = "continue"
          /\ UNCHANGED <<executed, cache>>
       \/ /\ w.part = "payload" \/ Kind(w.of) # "payload"
          /\ Execute(w.of)
          /\ reply' = "ok"
       \/ /\ reply' = "no"
          /\ UNCHANGED <<executed, cache>>
  /\ UNCHANGED <<authority, link, late, proto>>

(* The connection breaks; what was on its way is lost or still arrives. *)
Break ==
  /\ link = "up"
  /\ link' = "down"
  /\ \/ wire' = wire
     \/ wire' = <<>>
  /\ UNCHANGED <<authority, reply, executed, cache, late, proto>>

-----------------------------------------------------------------------------
(* The end of a call. *)

(* session.close; what is on the wire may still reach the server. *)
Disconnect == link' = IF link = "none" THEN "none" ELSE "down"

(* The outer except: no user command was sent. *)
SetupFails ==
  /\ proto' = [proto EXCEPT !.pc = "over", !.setup = TRUE]
  /\ Disconnect
  /\ UNCHANGED <<authority, wire, reply, executed, cache, late>>

(* Mutant: a lost answer is reported as a failure. *)
InterruptedAsFailure == [proto EXCEPT !.pc = "close",
                                      !.status[proto.index] = "error",
                                      !.result = "stopped"]

(* A command has raised: it is in doubt exactly when something was sent. *)
Interrupted == [proto EXCEPT !.pc = "close",
                             !.status[proto.index] = IF proto.sent THEN "unknown" ELSE "error",
                             !.result = IF proto.sent THEN "unknown" ELSE "stopped"]

CloseSession ==
  /\ proto.pc = "close"
  /\ Disconnect
  /\ Continue("settle")
  /\ UNCHANGED <<authority, wire, reply, executed, cache, late>>

(* Mutant: the index is only invalidated before the commands. *)
SettleQuietly ==
  /\ proto.pc = "settle"
  /\ Continue("over")
  /\ UNCHANGED <<authority, remoteSide, cache, late>>

(* The second invalidation; when it fails, or its wait is cancelled, the   *)
(* result says so, and the thread may have done it all the same.           *)
Settle ==
  /\ proto.pc = "settle"
  /\ \/ cache' = "void" /\ proto' = [proto EXCEPT !.pc = "over"]
     \/ cache' \in {cache, "void"} /\ proto' = [proto EXCEPT !.pc = "over", !.warned = TRUE]
  /\ UNCHANGED <<authority, remoteSide, late>>

-----------------------------------------------------------------------------
(* Opening the session. *)

(* parse_commands: one command that does not parse, or is not one that a   *)
(* caller may give, stops them all.                                        *)
RefuseCommands == proto.pc = "start" /\ SetupFails

(* connect resolves the account by name and checks that it admits the call. *)
Connect ==
  /\ proto.pc = "start"
  /\ \/ /\ authority.admits
        /\ proto' = [proto EXCEPT !.pc = "guard", !.began = authority.revision]
        /\ UNCHANGED <<authority, remoteSide, cache, late>>
     \/ SetupFails

(* open: guard, credentials of the revision they were stored for, guard. *)
GuardOpen ==
  /\ proto.pc \in {"guard", "reguard"}
  /\ \/ /\ Authorized
        /\ Continue(IF proto.pc = "guard" THEN "secrets" ELSE "dial")
        /\ UNCHANGED <<authority, remoteSide, cache, late>>
     \/ SetupFails

ResolveSecrets ==
  /\ proto.pc = "secrets"
  /\ \/ /\ authority.revision = proto.began
        /\ proto' = [proto EXCEPT !.pc = "reguard", !.login = authority.revision]
        /\ UNCHANGED <<authority, remoteSide, cache, late>>
     \/ SetupFails

(* Connecting, logging in, and whether the server is one it can talk to. *)
Dial ==
  /\ proto.pc = "dial"
  /\ \/ /\ link' = "up"
        /\ Continue("void")
        /\ UNCHANGED <<authority, wire, reply, executed, cache, late>>
     \/ SetupFails

(* The first invalidation, before any command. *)
InvalidateBefore ==
  /\ proto.pc = "void"
  /\ \/ /\ cache' = "void"
        /\ Continue("next")
        /\ UNCHANGED <<authority, remoteSide, late>>
     \/ SetupFails

-----------------------------------------------------------------------------
(* One command after the other. *)

(* reset_step, and the guard of execute; or all of them are done. *)
NextCommand ==
  /\ proto.pc = "next"
  /\ LET begun == [proto EXCEPT !.index = proto.index + 1, !.sent = FALSE, !.payload = FALSE]
     IN proto' = IF proto.index = Size
                 THEN [proto EXCEPT !.pc = "close", !.result = "completed"]
                 ELSE IF Authorized THEN [begun EXCEPT !.pc = "prepare"]
                 ELSE [begun EXCEPT !.pc = "close", !.status[proto.index + 1] = "error"]
  /\ UNCHANGED <<authority, remoteSide, cache, late>>

(* _imap_execute refuses what the session or the server cannot do. *)
PrepareCommand ==
  /\ proto.pc = "prepare"
  /\ LET kind == Kind(proto.index) IN
     \/ /\ kind \in {"mailbox", "capability"} => proto.selected
        /\ Continue("send")
     \/ /\ kind = "capability" \/ (kind = "mailbox" /\ ~proto.selected)
        /\ proto' = Interrupted
  /\ UNCHANGED <<authority, remoteSide, cache, late>>

(* Mutant: the guard runs once per command. *)
BeforeWriteUnguarded ==
  /\ proto.pc = "send"
  /\ proto' = [proto EXCEPT !.pc = "write", !.sent = TRUE]
  /\ UNCHANGED <<authority, remoteSide, cache, late>>

(* before_write: the guard, and from now on something may have been sent. *)
BeforeWrite ==
  /\ proto.pc = "send"
  /\ proto' = IF Authorized THEN [proto EXCEPT !.pc = "write", !.sent = TRUE] ELSE Interrupted
  /\ UNCHANGED <<authority, remoteSide, cache, late>>

(* The write itself; the store may have changed since the guard read it. *)
Write ==
  /\ proto.pc = "write"
  /\ IF link = "up"
     THEN /\ wire' = Append(wire, [of |-> proto.index,
                                   part |-> IF proto.payload THEN "payload" ELSE "line"])
          /\ late' = IF Authorized THEN late ELSE late + 1
          /\ Continue("await")
     ELSE /\ proto' = Interrupted
          /\ UNCHANGED <<wire, late>>
  /\ reply' = "none"
  /\ UNCHANGED <<authority, link, executed, cache>>

(* The server's answer ends the step, or lets the payload follow. *)
Receive ==
  /\ proto.pc = "await" /\ reply # "none" /\ link = "up"
  /\ LET i == proto.index
         reported(status) == [proto EXCEPT !.status[i] = status,
                                           !.selected = IF Kind(i) = "select" THEN status = "ok"
                                                        ELSE proto.selected]
     IN \/ /\ reply = "ok"
           /\ \E fits \in BOOLEAN :     \* MAX_RESULT_BYTES
                proto' = [reported("ok") EXCEPT !.pc = IF fits THEN "next" ELSE "close"]
        \/ /\ reply = "no"
           /\ proto' = [reported("error") EXCEPT !.pc = "close"]
        \/ /\ reply = "continue"
           /\ proto' = [proto EXCEPT !.pc = "send", !.payload = TRUE]
  /\ reply' = "none"
  /\ UNCHANGED <<authority, link, wire, executed, cache, late>>

(* No answer in time, one that cannot be read, too much of it, a broken     *)
(* connection, or the cancellation of the call.                             *)
LoseAnswer ==
  /\ proto.pc = "await"
  /\ proto' = Interrupted
  /\ UNCHANGED <<authority, remoteSide, cache, late>>

CallStep ==
  \/ RefuseCommands \/ Connect \/ GuardOpen \/ ResolveSecrets \/ Dial \/ InvalidateBefore
  \/ NextCommand \/ PrepareCommand \/ BeforeWrite \/ Write \/ Receive \/ LoseAnswer
  \/ CloseSession \/ Settle

ProtocolOver == proto.pc = "over"

-----------------------------------------------------------------------------
(* Properties. *)

Executed(i) == \E k \in DOMAIN executed : executed[k] = i

(* The server executes the commands in the order of the list, none of them *)
(* twice and none after one that it did not execute; and what the call      *)
(* reports of a command is what became of it, then and later: one reported  *)
(* to have succeeded was executed, one reported to have failed or not to    *)
(* have been attempted is not and will not be, and a call that says no user *)
(* command was sent has put nothing on the wire.                            *)
ReportIsHonest ==
  /\ \A k \in DOMAIN executed : executed[k] = k
  /\ ProtocolOver =>
       /\ \A i \in 1..Size :
            /\ proto.status[i] = "ok" => Executed(i)
            /\ proto.status[i] \in {"error", "not_attempted"} =>
                 ~Executed(i) /\ \A k \in DOMAIN wire : wire[k].of # i
       /\ proto.setup => executed = <<>> /\ wire = <<>>
       /\ proto.result = "completed" => \A i \in 1..Size : proto.status[i] = "ok"

(* Once the account or the policy has changed at most one more write, the  *)
(* one whose guard had already passed, reaches the connection.             *)
OneLateWrite == late <= 1

(* A call that ends without a warning leaves no coverage in the index that *)
(* predates what it is known to have done, even when another query filled  *)
(* the index while it ran.                                                 *)
IndexIsVoided ==
  ProtocolOver /\ ~proto.warned /\ (\A i \in 1..Size : proto.status[i] # "unknown") =>
    cache # "stale"
=============================================================================
