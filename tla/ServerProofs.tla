---------------------------- MODULE ServerProofs ---------------------------
(***************************************************************************)
(* Theorems about the whole server process, for any scripts, any lists of  *)
(* commands, any calls and any bounds.  First the inductive invariants of  *)
(* the protocol call (ProtocolCommands), of the two stores the worker      *)
(* threads write to (LargeResults and ArtifactFiles) and of the calls that *)
(* read messages (MessageReads), each for the steps of its own part.  Then *)
(* a step of LocalServer, whatever the other parts do meanwhile, is one of *)
(* the protocol call or leaves it alone, and the same holds of the reads   *)
(* and of the stores, so that these invariants are the server's.  Last the *)
(* transport (StdioServer), for scripts of up to three frames of any size  *)
(* whose bytes arrive in any pieces: what the reader has cut, what it      *)
(* holds and what it has still to read are always the script's bytes in    *)
(* their order, and the output is the responses taken so far.              *)
(***************************************************************************)
EXTENDS LocalServer, SequenceTheorems, TLAPS

-----------------------------------------------------------------------------
(* The inductive invariant of ProtocolCommands, for any lists of commands  *)
(* and any number of changes of the authority.  PInv ties what the call    *)
(* remembers to what the server has executed: as long as the call runs the *)
(* server has executed the commands before the current one, and that one   *)
(* only while its answer is under way; what is on the wire is the current  *)
(* command.                                                                *)

(* Before the first command, and after the last. *)
Early == {"start", "guard", "secrets", "reguard", "dial", "void"}
Ending == {"close", "settle", "over"}

Done == Len(executed)

(* Before the first command, and when the session was never set up, nothing *)
(* has happened.                                                            *)
EarlyOK ==
  /\ proto.pc \in Early \/ proto.setup =>
       /\ proto.index = 0 /\ wire = <<>> /\ Done = 0 /\ late = 0
  /\ proto.setup => proto.pc = "over"

(* Only the current command can be on the wire, in one piece, and only when *)
(* the call waits for it or has given up on it.                             *)
WireOK ==
  wire # <<>> =>
    /\ Len(wire) = 1 /\ wire[1].of = proto.index
    /\ proto.index > 0
    /\ proto.pc = "await" \/ proto.pc \in Ending

(* What has been executed are the first commands, one after the other. *)
ExecutedOK == \A k \in 1..Done : executed[k] = k

(* The commands before the current one succeeded, those after it were not  *)
(* tried.                                                                  *)
StatusOK ==
  \A j \in 1..Size :
    /\ j < proto.index => proto.status[j] = "ok"
    /\ j > proto.index => proto.status[j] = "not_attempted"

(* While the call runs: how far it and the server have come. *)
RunOK ==
  /\ proto.pc = "next" =>
       Done = proto.index /\ (proto.index > 0 => proto.status[proto.index] = "ok")
  /\ proto.pc \in {"prepare", "send", "write", "await"} => proto.index > 0
  /\ proto.pc \in {"prepare", "send", "write"} => Done = proto.index - 1
  /\ proto.pc = "prepare" => ~proto.sent
  /\ proto.pc \in {"write", "await"} => proto.sent
  /\ proto.pc = "await" =>
       /\ Done = IF reply = "ok" THEN proto.index ELSE proto.index - 1
       /\ reply # "none" => wire = <<>>
  /\ proto.result = "completed" => proto.pc \in Ending /\ ~proto.setup

(* Once it ends: what is reported of the current command is the truth. *)
EndOK ==
  proto.pc \in Ending =>
    /\ proto.index = 0 => Done = 0
    /\ proto.index > 0 =>
         /\ proto.status[proto.index] # "not_attempted"
         /\ proto.status[proto.index] = "ok" => Done = proto.index
         /\ proto.status[proto.index] = "error" => Done = proto.index - 1
         /\ Done = proto.index \/ Done = proto.index - 1
         /\ wire # <<>> => proto.status[proto.index] = "unknown" /\ Done = proto.index - 1
    /\ proto.result = "completed" =>
         proto.index = Size /\ (proto.index > 0 => proto.status[proto.index] = "ok")

(* The revision never goes back, so what is not authorized now never is again. *)
LateOK ==
  /\ proto.pc # "start" /\ ~proto.setup =>
       /\ proto.began <= authority.revision
       /\ proto.began = authority.revision => authority.admits
  /\ late = 0 \/ (late = 1 /\ proto.began < authority.revision)
  /\ proto.pc = "write" => late = 0

(* A stale index follows an execution, and a settled call has voided it. *)
CacheOK ==
  /\ Done = 0 => cache # "stale"
  /\ proto.pc = "over" /\ ~proto.warned =>
       cache # "stale" \/ (proto.index > 0 /\ proto.status[proto.index] = "unknown")

(* The inductive invariant. *)
PInv ==
  /\ ProtocolTypeOK
  /\ EarlyOK /\ WireOK /\ ExecutedOK /\ StatusOK /\ RunOK /\ EndOK /\ LateOK /\ CacheOK

-----------------------------------------------------------------------------
(* The fields of a call, for the steps below: the record itself stays folded. *)
LEMMA Fields ==
  ASSUME ProtocolTypeOK
  PROVE  /\ proto.index \in Nat /\ proto.began \in Nat /\ Size \in Nat /\ Done \in Nat
         /\ proto.sent \in BOOLEAN /\ proto.setup \in BOOLEAN /\ proto.warned \in BOOLEAN
         /\ proto.index <= Size /\ Len(proto.status) = Size
         /\ proto.status \in Seq(Statuses) /\ proto.commands \in Seq(Kinds)
         /\ authority.revision \in Nat /\ late \in Nat
BY DEF ProtocolTypeOK, Call, Size, Done, Statuses

(* Reporting on one command leaves the other reports alone. *)
LEMMA Reported ==
  ASSUME ProtocolTypeOK, NEW i \in 1..Size, NEW s \in Statuses
  PROVE  /\ [proto.status EXCEPT ![i] = s] \in Seq(Statuses)
         /\ Len([proto.status EXCEPT ![i] = s]) = Size
         /\ \A j \in 1..Size : [proto.status EXCEPT ![i] = s][j] = IF j = i THEN s ELSE proto.status[j]
<1>1. proto.status \in Seq(Statuses) /\ Len(proto.status) = Size
  BY Fields
<1> QED BY <1>1, ExceptSeq

(* The session is not set up. *)
LEMMA SetupFailsStep ==
  ASSUME PInv, proto.pc \in Early, SetupFails
  PROVE  PInv'
<1>1. /\ ProtocolTypeOK'
      /\ proto'.pc = "over" /\ proto'.setup
      /\ UNCHANGED <<proto.began, proto.index, proto.sent, proto.status, proto.result, proto.warned>>
      /\ UNCHANGED <<authority, wire, executed, Done, Size, cache, late>>
  BY DEF PInv, ProtocolTypeOK, Call, Size, Done, Early, SetupFails, Disconnect
<1> USE <1>1, Fields DEF PInv, Early, Ending
<1>2. EndOK'
  BY DEF EndOK, EarlyOK, RunOK
<1>3. CacheOK'
  BY DEF CacheOK, EarlyOK
<1>4. /\ EarlyOK' /\ WireOK' /\ ExecutedOK' /\ StatusOK'
      /\ RunOK' /\ LateOK'
  BY DEF EarlyOK, WireOK, ExecutedOK, StatusOK, RunOK, LateOK
<1> QED BY <1>2, <1>3, <1>4

(* A step of opening the session that gets through. *)
LEMMA OpenStep ==
  ASSUME PInv, proto.pc \in Early, ~proto.setup,
         Connect \/ GuardOpen \/ ResolveSecrets \/ Dial \/ InvalidateBefore, ~SetupFails
  PROVE  PInv'
<1>1. /\ ProtocolTypeOK'
      /\ proto'.pc \in (Early \ {"start"}) \cup {"next"}
      /\ UNCHANGED <<proto.index, proto.sent, proto.status, proto.result, proto.setup, proto.warned>>
      /\ UNCHANGED <<wire, executed, late, Done, Size, authority>>
      /\ cache' = cache \/ cache' = "void"
      /\ proto'.began = IF proto.pc = "start" THEN authority.revision ELSE proto.began
      /\ proto.pc = "start" => authority.admits
  <2>1. CASE Connect
    BY <2>1 DEF PInv, ProtocolTypeOK, Call, Size, Done, Early, Connect, Continue, Authorized,
                remoteSide
  <2>2. CASE GuardOpen
    BY <2>2 DEF PInv, ProtocolTypeOK, Call, Size, Done, Early, GuardOpen, Continue, Authorized,
                remoteSide
  <2>3. CASE ResolveSecrets
    BY <2>3 DEF PInv, ProtocolTypeOK, Call, Size, Done, Early, ResolveSecrets, Continue,
                Authorized, remoteSide
  <2>4. CASE Dial
    BY <2>4 DEF PInv, ProtocolTypeOK, Call, Size, Done, Early, Dial, Continue, Authorized,
                remoteSide
  <2>5. CASE InvalidateBefore
    BY <2>5 DEF PInv, ProtocolTypeOK, Call, Size, Done, Early, InvalidateBefore, Continue,
                Authorized, remoteSide
  <2> QED BY <2>1, <2>2, <2>3, <2>4, <2>5
<1> USE <1>1, Fields DEF PInv, Early, Ending
<1>2. RunOK'
  BY DEF RunOK, EarlyOK
<1>3. LateOK'
  BY DEF LateOK, EarlyOK
<1>4. /\ EarlyOK' /\ WireOK' /\ ExecutedOK' /\ StatusOK'
      /\ EndOK' /\ CacheOK'
  BY DEF EarlyOK, WireOK, ExecutedOK, StatusOK, EndOK, CacheOK
<1> QED BY <1>2, <1>3, <1>4

(* A command is given up. *)
LEMMA InterruptedStep ==
  ASSUME PInv, proto.pc \in {"prepare", "send", "write", "await"},
         proto' = Interrupted, reply' \in {reply, "none"},
         UNCHANGED <<authority, link, wire, executed, cache, late>>
  PROVE  PInv'
<1>1. /\ ProtocolTypeOK'
      /\ proto'.pc = "close" /\ proto'.result = IF proto.sent THEN "unknown" ELSE "stopped"
      /\ UNCHANGED <<proto.began, proto.index, proto.sent, proto.setup, proto.warned>>
      /\ UNCHANGED <<authority, wire, executed, Done, Size, cache, late>>
      /\ Len(proto'.status) = Len(proto.status)
      /\ \A j \in 1..Size : proto'.status[j] =
           IF j # proto.index THEN proto.status[j] ELSE IF proto.sent THEN "unknown" ELSE "error"
  <2> DEFINE i == proto.index
             doubt == IF proto.sent THEN "unknown" ELSE "error"
             status == [proto.status EXCEPT ![i] = doubt]
  <2>1. i \in 1..Size /\ doubt \in Statuses
    BY Fields DEF PInv, RunOK, Statuses
  <2>2. /\ status \in Seq(Statuses) /\ Len(status) = Size
        /\ \A j \in 1..Size : status[j] = IF j = i THEN doubt ELSE proto.status[j]
    BY <2>1, Reported, Zenon DEF PInv
  <2>3. proto' = [proto EXCEPT !.pc = "close", !.status = status,
                              !.result = IF proto.sent THEN "unknown" ELSE "stopped"]
    BY DEF Interrupted
  <2> HIDE DEF status
  <2>4. proto' \in Call
    BY <2>2, <2>3 DEF Call, PInv, ProtocolTypeOK
  <2>5. /\ proto'.commands = proto.commands
        /\ proto'.pc = "close" /\ proto'.result = IF proto.sent THEN "unknown" ELSE "stopped"
        /\ UNCHANGED <<proto.began, proto.index, proto.sent, proto.setup, proto.warned>>
        /\ Len(proto'.status) = Len(proto.status)
        /\ \A j \in 1..Size : proto'.status[j] =
           IF j # proto.index THEN proto.status[j] ELSE IF proto.sent THEN "unknown" ELSE "error"
    BY <2>2, <2>3 DEF Call, PInv, ProtocolTypeOK
  <2>6. Size' = Size
    BY <2>5 DEF Size
  <2> QED BY <2>2, <2>3, <2>4, <2>5, <2>6 DEF PInv, ProtocolTypeOK, Size, Done
<1> USE <1>1, Fields DEF PInv, Early, Ending
<1>2. EndOK'
  BY DEF EndOK, WireOK, RunOK
<1>3. EarlyOK' /\ WireOK' BY DEF EarlyOK, WireOK, RunOK
<1>4. ExecutedOK' /\ StatusOK'
  BY DEF EarlyOK, ExecutedOK, StatusOK, RunOK
<1>5. RunOK' /\ LateOK' /\ CacheOK'
  BY DEF RunOK, LateOK, CacheOK, WireOK, ExecutedOK
<1> QED BY <1>2, <1>3, <1>4, <1>5

(* All commands are done. *)
LEMMA CompletedStep ==
  ASSUME PInv, NextCommand, proto.index = Size
  PROVE  PInv'
<1>1. /\ ProtocolTypeOK'
      /\ proto.pc = "next" /\ proto'.pc = "close" /\ proto'.result = "completed"
      /\ UNCHANGED <<proto.began, proto.index, proto.sent, proto.status, proto.setup, proto.warned>>
      /\ UNCHANGED <<authority, wire, reply, executed, Done, Size, cache, late>>
  BY DEF PInv, ProtocolTypeOK, Call, Size, Done, Early, NextCommand, remoteSide
<1> USE <1>1, Fields DEF PInv, Early, Ending
<1>2. RunOK'
  BY DEF RunOK, EarlyOK
<1>3. EndOK'
  BY DEF EndOK, WireOK, RunOK
<1>4. /\ EarlyOK' /\ WireOK' /\ ExecutedOK' /\ StatusOK'
      /\ LateOK' /\ CacheOK'
  BY DEF EarlyOK, WireOK, ExecutedOK, StatusOK, LateOK, CacheOK
<1> QED BY <1>2, <1>3, <1>4

(* The next command begins. *)
LEMMA BegunStep ==
  ASSUME PInv, NextCommand, proto.index # Size, Authorized
  PROVE  PInv'
<1>1. /\ ProtocolTypeOK'
      /\ proto.pc = "next" /\ proto'.pc = "prepare"
      /\ proto'.index = proto.index + 1 /\ ~proto'.sent
      /\ UNCHANGED <<proto.began, proto.status, proto.result, proto.setup, proto.warned>>
      /\ UNCHANGED <<authority, wire, reply, executed, Done, Size, cache, late>>
  <2>1. proto.pc = "next" /\ UNCHANGED <<authority, remoteSide, cache, late>>
    BY DEF NextCommand
  <2>2. PICK n \in Nat : n = proto.index + 1
    BY Fields DEF PInv
  <2>3. proto' = [proto EXCEPT !.pc = "prepare", !.index = n, !.sent = FALSE,
                              !.payload = FALSE]
    BY <2>2 DEF NextCommand, PInv, ProtocolTypeOK, Call
  <2>4. proto' \in Call
    BY <2>3 DEF Call, PInv, ProtocolTypeOK
  <2>5. /\ proto'.commands = proto.commands
        /\ proto.pc = "next" /\ proto'.pc = "prepare"
        /\ proto'.index = proto.index + 1 /\ ~proto'.sent
        /\ UNCHANGED <<proto.began, proto.status, proto.result, proto.setup, proto.warned>>
    BY <2>2, <2>1, <2>3, Fields DEF Call, PInv, ProtocolTypeOK
  <2>6. Size' = Size
    BY <2>5 DEF Size
  <2> QED BY <2>2, <2>1, <2>3, Fields, <2>4, <2>5, <2>6 DEF PInv, ProtocolTypeOK, Size, Done,
                                                            remoteSide
<1> USE <1>1, Fields DEF PInv, Early, Ending
<1>2. StatusOK'
  BY DEF StatusOK, RunOK
<1>3. /\ EarlyOK' /\ WireOK' /\ ExecutedOK' /\ RunOK'
      /\ EndOK' /\ LateOK' /\ CacheOK'
  BY DEF EarlyOK, WireOK, ExecutedOK, RunOK, EndOK, LateOK, CacheOK
<1> QED BY <1>2, <1>3

(* The next command is not authorized. *)
LEMMA DeniedStep ==
  ASSUME PInv, NextCommand, proto.index # Size, ~Authorized
  PROVE  PInv'
<1>1. /\ ProtocolTypeOK'
      /\ proto.pc = "next" /\ proto'.pc = "close"
      /\ proto'.index = proto.index + 1 /\ ~proto'.sent
      /\ UNCHANGED <<proto.began, proto.result, proto.setup, proto.warned>>
      /\ UNCHANGED <<authority, wire, reply, executed, Done, Size, cache, late>>
      /\ \A j \in 1..Size : proto'.status[j] = IF j = proto.index + 1 THEN "error" ELSE proto.status[j]
  <2>1. PICK i \in Nat : i = proto.index + 1
    BY Fields DEF PInv
  <2> DEFINE status == [proto.status EXCEPT ![i] = "error"]
  <2>2. proto.pc = "next" /\ UNCHANGED <<authority, remoteSide, cache, late>>
    BY DEF NextCommand
  <2>3. proto' = [proto EXCEPT !.pc = "close", !.index = i, !.sent = FALSE, !.payload = FALSE,
                              !.status = status]
    BY <2>1 DEF NextCommand, PInv, ProtocolTypeOK, Call
  <2>4. i \in 1..Size /\ "error" \in Statuses
    BY <2>1, Fields DEF PInv, Statuses
  <2>5. /\ status \in Seq(Statuses) /\ Len(status) = Size
        /\ \A j \in 1..Size : status[j] = IF j = i THEN "error" ELSE proto.status[j]
    BY <2>4, Reported DEF PInv
  <2> HIDE DEF status
  <2>6. proto' \in Call
    BY <2>3, <2>5 DEF Call, PInv, ProtocolTypeOK
  <2>7. /\ proto'.commands = proto.commands
        /\ proto.pc = "next" /\ proto'.pc = "close"
        /\ proto'.index = proto.index + 1 /\ ~proto'.sent
        /\ UNCHANGED <<proto.began, proto.result, proto.setup, proto.warned>>
        /\ \A j \in 1..Size : proto'.status[j] = IF j = proto.index + 1 THEN "error" ELSE proto.status[j]
    BY <2>1, <2>2, <2>3, <2>5, Fields DEF Call, PInv, ProtocolTypeOK
  <2>8. Size' = Size
    BY <2>7 DEF Size
  <2> QED BY <2>1, <2>2, <2>3, <2>5, Fields, <2>6, <2>7, <2>8 DEF PInv, ProtocolTypeOK, Size, Done,
                                                                  remoteSide
<1> USE <1>1, Fields DEF PInv, Early, Ending
<1>2. StatusOK'
  BY SMTT(30) DEF StatusOK, RunOK
<1>3. EndOK'
  BY DEF EndOK, WireOK, RunOK
<1>4. /\ EarlyOK' /\ WireOK' /\ ExecutedOK' /\ RunOK'
      /\ LateOK' /\ CacheOK'
  BY DEF EarlyOK, WireOK, ExecutedOK, RunOK, LateOK, CacheOK
<1> QED BY <1>2, <1>3, <1>4

(* A command gets one step further. *)
LEMMA MoveStep ==
  ASSUME PInv, PrepareCommand \/ BeforeWrite, proto' # Interrupted
  PROVE  PInv'
<1>1. /\ ProtocolTypeOK'
      /\ proto.pc \in {"prepare", "send"}
      /\ proto'.pc = IF proto.pc = "prepare" THEN "send" ELSE "write"
      /\ proto'.sent = IF proto.pc = "prepare" THEN proto.sent ELSE TRUE
      /\ proto.pc = "send" => Authorized
      /\ UNCHANGED <<proto.began, proto.index, proto.status, proto.result, proto.setup, proto.warned>>
      /\ UNCHANGED <<authority, wire, executed, Done, Size, cache, late>>
  <2>1. CASE PrepareCommand
    BY <2>1 DEF PInv, ProtocolTypeOK, Call, Size, Done, Early, PrepareCommand, Continue, remoteSide
  <2>2. CASE BeforeWrite
    BY <2>2 DEF PInv, ProtocolTypeOK, Call, Size, Done, Early, BeforeWrite, Continue, remoteSide
  <2> QED BY <2>1, <2>2
<1> USE <1>1, Fields DEF PInv, Early, Ending
<1>2. LateOK'
  BY DEF LateOK, Authorized
<1>3. /\ EarlyOK' /\ WireOK' /\ ExecutedOK' /\ StatusOK'
      /\ RunOK' /\ EndOK' /\ CacheOK'
  BY DEF EarlyOK, WireOK, ExecutedOK, StatusOK, RunOK, EndOK, CacheOK
<1> QED BY <1>2, <1>3

(* The write goes out. *)
LEMMA WriteStep ==
  ASSUME PInv, Write, link = "up"
  PROVE  PInv'
<1>1. /\ ProtocolTypeOK'
      /\ proto.pc = "write" /\ proto'.pc = "await"
      /\ UNCHANGED <<proto.began, proto.index, proto.sent, proto.status, proto.result,
                     proto.setup, proto.warned>>
      /\ UNCHANGED <<executed, authority, cache, Done, Size>>
      /\ reply' = "none"
      /\ late' = IF Authorized THEN late ELSE late + 1
      /\ wire = <<>> => Len(wire') = 1 /\ wire'[1].of = proto.index
  <2> DEFINE w == [of |-> proto.index, part |-> IF proto.payload THEN "payload" ELSE "line"]
  <2>1. w \in Part /\ w.of = proto.index
    BY Fields DEF PInv, Part
  <2>2. /\ proto.pc = "write" /\ reply' = "none" /\ wire' = Append(wire, w)
        /\ late' = IF Authorized THEN late ELSE late + 1
        /\ proto' = [proto EXCEPT !.pc = "await"]
        /\ UNCHANGED <<authority, link, executed, cache>>
    BY DEF Write, Continue
  <2>3. wire' \in Seq(Part) /\ (wire = <<>> => Len(wire') = 1 /\ wire'[1] = w)
    BY <2>1, <2>2, AppendProperties DEF PInv, ProtocolTypeOK
  <2> HIDE DEF w
  <2>4. proto' \in Call
    BY <2>1, <2>2, <2>3 DEF Call, PInv, ProtocolTypeOK
  <2>5. /\ proto'.commands = proto.commands
        /\ proto.pc = "write" /\ proto'.pc = "await"
        /\ UNCHANGED <<proto.began, proto.index, proto.sent, proto.status, proto.result,
                     proto.setup, proto.warned>>
    BY <2>1, <2>2, <2>3 DEF Call, PInv, ProtocolTypeOK
  <2>6. Size' = Size
    BY <2>5 DEF Size
  <2> QED BY <2>1, <2>2, <2>3, <2>4, <2>5, <2>6 DEF PInv, ProtocolTypeOK, Size, Done
<1> USE <1>1, Fields DEF PInv, Early, Ending
<1>2. WireOK'
  BY DEF WireOK, RunOK
<1>3. LateOK'
  BY DEF LateOK, EarlyOK, Authorized
<1>4. /\ EarlyOK' /\ ExecutedOK' /\ StatusOK' /\ RunOK'
      /\ EndOK' /\ CacheOK'
  BY DEF EarlyOK, ExecutedOK, StatusOK, RunOK, EndOK, CacheOK
<1> QED BY <1>2, <1>3, <1>4

(* A command has succeeded. *)
LEMMA SucceededStep ==
  ASSUME PInv, Receive, reply = "ok"
  PROVE  PInv'
<1>1. /\ ProtocolTypeOK'
      /\ proto.pc = "await" /\ proto'.pc \in {"next", "close"}
      /\ UNCHANGED <<proto.began, proto.index, proto.sent, proto.result, proto.setup, proto.warned>>
      /\ UNCHANGED <<wire, executed, late, authority, cache, Done, Size>>
      /\ \A j \in 1..Size : proto'.status[j] = IF j = proto.index THEN "ok" ELSE proto.status[j]
  <2> DEFINE i == proto.index
             status == [proto.status EXCEPT ![i] = "ok"]
  <2>1. /\ proto.pc = "await" /\ reply' = "none"
        /\ UNCHANGED <<authority, link, wire, executed, cache, late>>
    BY DEF Receive
  <2>2. PICK fits \in BOOLEAN :
          proto' = [proto EXCEPT !.pc = IF fits THEN "next" ELSE "close", !.status = status,
                                 !.selected = IF Kind(i) = "select" THEN TRUE ELSE proto.selected]
    BY DEF Receive, PInv, ProtocolTypeOK, Call
  <2>3. i \in 1..Size /\ "ok" \in Statuses
    BY <2>1, Fields DEF PInv, RunOK, Statuses
  <2>4. /\ status \in Seq(Statuses) /\ Len(status) = Size
        /\ \A j \in 1..Size : status[j] = IF j = i THEN "ok" ELSE proto.status[j]
    BY <2>3, Reported DEF PInv
  <2> HIDE DEF status
  <2>5. proto' \in Call
    BY <2>1, <2>2, <2>4 DEF Call, PInv, ProtocolTypeOK
  <2>6. /\ proto'.commands = proto.commands
        /\ proto.pc = "await" /\ proto'.pc \in {"next", "close"}
        /\ UNCHANGED <<proto.began, proto.index, proto.sent, proto.result, proto.setup, proto.warned>>
        /\ \A j \in 1..Size : proto'.status[j] = IF j = proto.index THEN "ok" ELSE proto.status[j]
    BY <2>1, <2>2, <2>4 DEF Call, PInv, ProtocolTypeOK
  <2>7. Size' = Size
    BY <2>6 DEF Size
  <2> QED BY <2>1, <2>2, <2>4, <2>5, <2>6, <2>7 DEF PInv, ProtocolTypeOK, Size, Done
<1> USE <1>1, Fields DEF PInv, Early, Ending
<1>2. WireOK'
  BY DEF WireOK, RunOK
<1>3. EndOK'
  BY DEF EndOK, RunOK
<1>4. /\ EarlyOK' /\ ExecutedOK' /\ StatusOK' /\ RunOK'
      /\ LateOK' /\ CacheOK'
  BY DEF EarlyOK, ExecutedOK, StatusOK, RunOK, LateOK, CacheOK
<1> QED BY <1>2, <1>3, <1>4

(* A command has failed. *)
LEMMA FailedStep ==
  ASSUME PInv, Receive, reply = "no"
  PROVE  PInv'
<1>1. /\ ProtocolTypeOK'
      /\ proto.pc = "await" /\ proto'.pc = "close"
      /\ UNCHANGED <<proto.began, proto.index, proto.sent, proto.result, proto.setup, proto.warned>>
      /\ UNCHANGED <<wire, executed, late, authority, cache, Done, Size>>
      /\ \A j \in 1..Size : proto'.status[j] = IF j = proto.index THEN "error" ELSE proto.status[j]
  <2> DEFINE i == proto.index
             status == [proto.status EXCEPT ![i] = "error"]
  <2>1. /\ proto.pc = "await" /\ reply' = "none"
        /\ UNCHANGED <<authority, link, wire, executed, cache, late>>
    BY DEF Receive
  <2>2. PICK selected \in BOOLEAN, pc \in {"next", "close"} :
          /\ proto' = [proto EXCEPT !.pc = pc, !.status = status, !.selected = selected]
          /\ pc = "close"
    BY DEF Receive, PInv, ProtocolTypeOK, Call
  <2>3. i \in 1..Size /\ "error" \in Statuses
    BY <2>1, Fields DEF PInv, RunOK, Statuses
  <2>4. /\ status \in Seq(Statuses) /\ Len(status) = Size
        /\ \A j \in 1..Size : status[j] = IF j = i THEN "error" ELSE proto.status[j]
    BY <2>3, Reported DEF PInv
  <2> HIDE DEF status
  <2>5. proto' \in Call
    BY <2>1, <2>2, <2>4 DEF Call, PInv, ProtocolTypeOK
  <2>6. /\ proto'.commands = proto.commands
        /\ proto.pc = "await" /\ proto'.pc = "close"
        /\ UNCHANGED <<proto.began, proto.index, proto.sent, proto.result, proto.setup, proto.warned>>
        /\ \A j \in 1..Size : proto'.status[j] = IF j = proto.index THEN "error" ELSE proto.status[j]
    BY <2>1, <2>2, <2>4 DEF Call, PInv, ProtocolTypeOK
  <2>7. Size' = Size
    BY <2>6 DEF Size
  <2> QED BY <2>1, <2>2, <2>4, <2>5, <2>6, <2>7 DEF PInv, ProtocolTypeOK, Size, Done
<1> USE <1>1, Fields DEF PInv, Early, Ending
<1>2. EndOK'
  BY DEF EndOK, RunOK
<1>3. EarlyOK' /\ WireOK' BY DEF EarlyOK, WireOK, RunOK
<1>4. ExecutedOK' /\ StatusOK'
  BY DEF EarlyOK, ExecutedOK, StatusOK, RunOK
<1>5. RunOK' /\ LateOK' /\ CacheOK'
  BY DEF RunOK, LateOK, CacheOK, WireOK, ExecutedOK
<1> QED BY <1>2, <1>3, <1>4, <1>5

(* The payload follows. *)
LEMMA ContinueStep ==
  ASSUME PInv, Receive, reply = "continue"
  PROVE  PInv'
<1>1. /\ ProtocolTypeOK'
      /\ proto.pc = "await" /\ proto'.pc = "send"
      /\ UNCHANGED <<proto.began, proto.index, proto.sent, proto.status, proto.result,
                     proto.setup, proto.warned>>
      /\ UNCHANGED <<wire, executed, late, authority, cache, Done, Size>>
  BY DEF PInv, ProtocolTypeOK, Call, Size, Done, Early, Receive
<1> USE <1>1, Fields DEF PInv, Early, Ending
<1>2. WireOK'
  BY DEF WireOK, RunOK
<1>3. /\ EarlyOK' /\ ExecutedOK' /\ StatusOK' /\ RunOK'
      /\ EndOK' /\ LateOK' /\ CacheOK'
  BY DEF EarlyOK, ExecutedOK, StatusOK, RunOK, EndOK, LateOK, CacheOK
<1> QED BY <1>2, <1>3

(* The session is closed. *)
LEMMA EndStep ==
  ASSUME PInv, CloseSession
  PROVE  PInv'
<1>1. /\ ProtocolTypeOK'
      /\ proto.pc = "close" /\ proto'.pc = "settle"
      /\ UNCHANGED <<proto.began, proto.index, proto.sent, proto.status, proto.result,
                     proto.setup, proto.warned>>
      /\ UNCHANGED <<authority, wire, executed, Done, Size, cache, late>>
  BY DEF PInv, ProtocolTypeOK, Call, Size, Done, Early, CloseSession, Disconnect, Continue
<1> USE <1>1, Fields DEF PInv, Early, Ending
<1>2. /\ EarlyOK' /\ WireOK' /\ ExecutedOK' /\ StatusOK'
      /\ RunOK' /\ EndOK' /\ LateOK' /\ CacheOK'
  BY DEF EarlyOK, WireOK, ExecutedOK, StatusOK, RunOK, EndOK, LateOK, CacheOK
<1> QED BY <1>2

(* The index is settled. *)
LEMMA SettleStep ==
  ASSUME PInv, Settle
  PROVE  PInv'
<1>1. /\ ProtocolTypeOK'
      /\ proto.pc = "settle" /\ proto'.pc = "over"
      /\ UNCHANGED <<proto.began, proto.index, proto.sent, proto.status, proto.result, proto.setup>>
      /\ UNCHANGED <<wire, executed, late, Done, Size, authority>>
      /\ cache' \in {cache, "void"}
      /\ proto'.warned \/ cache' = "void"
  BY DEF PInv, ProtocolTypeOK, Call, Size, Done, Early, Settle, remoteSide
<1> USE <1>1, Fields DEF PInv, Early, Ending
<1>2. /\ EarlyOK' /\ WireOK' /\ ExecutedOK' /\ StatusOK'
      /\ RunOK' /\ EndOK' /\ LateOK' /\ CacheOK'
  BY DEF EarlyOK, WireOK, ExecutedOK, StatusOK, RunOK, EndOK, LateOK, CacheOK
<1> QED BY <1>2

(* The operator changes the account or its policy. *)
LEMMA AuthorityStep ==
  ASSUME PInv, ChangeAuthority
  PROVE  PInv'
<1>1. /\ ProtocolTypeOK'
      /\ proto' = proto
      /\ authority'.revision = authority.revision + 1
      /\ UNCHANGED <<wire, reply, executed, Done, Size, cache, late>>
  BY DEF PInv, ProtocolTypeOK, Call, Size, Done, Early, ChangeAuthority, remoteSide
<1> USE <1>1, Fields DEF PInv, Early, Ending
<1>2. /\ EarlyOK' /\ WireOK' /\ ExecutedOK' /\ StatusOK'
      /\ RunOK' /\ EndOK' /\ LateOK' /\ CacheOK'
  BY DEF EarlyOK, WireOK, ExecutedOK, StatusOK, RunOK, EndOK, LateOK, CacheOK
<1> QED BY <1>2

(* Another query fills the index. *)
LEMMA RefillStep ==
  ASSUME PInv, Refill
  PROVE  PInv'
<1>1. /\ ProtocolTypeOK'
      /\ proto' = proto
      /\ cache' = "fresh"
      /\ UNCHANGED <<wire, executed, late, Done, Size, authority, reply>>
  BY DEF PInv, ProtocolTypeOK, Call, Size, Done, Early, Refill, remoteSide
<1> USE <1>1, Fields DEF PInv, Early, Ending
<1>2. /\ EarlyOK' /\ WireOK' /\ ExecutedOK' /\ StatusOK'
      /\ RunOK' /\ EndOK' /\ LateOK' /\ CacheOK'
  BY DEF EarlyOK, WireOK, ExecutedOK, StatusOK, RunOK, EndOK, LateOK, CacheOK
<1> QED BY <1>2

(* The connection breaks. *)
LEMMA BreakStep ==
  ASSUME PInv, Break
  PROVE  PInv'
<1>1. /\ ProtocolTypeOK'
      /\ proto' = proto
      /\ UNCHANGED <<executed, late, reply, cache, authority, Done, Size>>
      /\ wire' = wire \/ wire' = <<>>
  <2>1. wire' \in Seq(Part)
    BY EmptySeq DEF Break, PInv, ProtocolTypeOK
  <2> QED BY <2>1 DEF PInv, ProtocolTypeOK, Size, Done, Break
<1> USE <1>1, Fields DEF PInv, Early, Ending
<1>2. EarlyOK' /\ WireOK' BY DEF EarlyOK, WireOK
<1>3. ExecutedOK' /\ StatusOK' BY DEF ExecutedOK, StatusOK
<1>4. RunOK' /\ EndOK' BY DEF RunOK, EndOK
<1>5. LateOK' /\ CacheOK' BY DEF LateOK, CacheOK
<1> QED BY <1>2, <1>3, <1>4, <1>5

(* What the server takes up is all that was on the wire: the current command. *)
LEMMA Taken ==
  ASSUME PInv, Serve
  PROVE  /\ wire # <<>> /\ Head(wire).of = proto.index /\ wire' = <<>> /\ wire' \in Seq(Part)
         /\ UNCHANGED <<authority, link, late, proto>>
<1>1. /\ wire # <<>> /\ wire \in Seq(Part) /\ wire' = Tail(wire)
      /\ UNCHANGED <<authority, link, late, proto>>
  BY DEF Serve, PInv, ProtocolTypeOK
<1>2. Len(wire) = 1 /\ Head(wire).of = proto.index
  BY <1>1 DEF PInv, WireOK
<1>3. Tail(wire) = <<>>
  BY <1>1, <1>2
<1> QED BY <1>1, <1>2, <1>3

(* The server takes up a write without executing the command. *)
LEMMA AnsweredStep ==
  ASSUME PInv, Serve, UNCHANGED <<executed, cache>>,
         reply' \in {"continue", "no"}
  PROVE  PInv'
<1>1. /\ ProtocolTypeOK'
      /\ proto' = proto
      /\ UNCHANGED <<executed, late, cache, authority, Done, Size>>
      /\ wire # <<>> /\ wire' = <<>> /\ reply' # "ok"
  BY Taken DEF PInv, ProtocolTypeOK, Call, Size, Done
<1> USE <1>1, Fields DEF PInv, Early, Ending
<1>2. /\ EarlyOK' /\ WireOK' /\ ExecutedOK' /\ StatusOK'
      /\ RunOK' /\ EndOK' /\ LateOK' /\ CacheOK'
  BY DEF EarlyOK, WireOK, ExecutedOK, StatusOK, RunOK, EndOK, LateOK, CacheOK
<1> QED BY <1>2

(* The server executes a command. *)
LEMMA ExecutedStep ==
  ASSUME PInv, Serve, Execute(Head(wire).of), reply' = "ok"
  PROVE  PInv'
<1>1. /\ ProtocolTypeOK'
      /\ proto' = proto
      /\ UNCHANGED <<late, authority>> /\ Size' = Size
      /\ wire # <<>> /\ wire' = <<>> /\ reply' = "ok"
      /\ Done' = Done + 1 /\ executed'[Done + 1] = proto.index
      /\ \A j \in 1..Done : executed'[j] = executed[j]
  <2>1. executed' = Append(executed, proto.index) /\ cache' \in {cache, "stale"}
    BY Taken DEF Execute
  <2>2. executed \in Seq(Nat) /\ proto.index \in Nat
    BY Fields DEF PInv, ProtocolTypeOK
  <2>3. /\ executed' \in Seq(Nat) /\ Done' = Done + 1 /\ executed'[Done + 1] = proto.index
        /\ \A j \in 1..Done : executed'[j] = executed[j]
    BY <2>1, <2>2, AppendProperties DEF Done
  <2> QED BY <2>1, <2>3, Taken DEF PInv, ProtocolTypeOK, Size
<1> USE <1>1, Fields DEF PInv, Early, Ending
<1>2. ExecutedOK'
  BY SMTT(30) DEF ExecutedOK, RunOK, EndOK, WireOK
<1>3. RunOK'
  BY DEF RunOK, WireOK
<1>4. EndOK'
  BY DEF EndOK, WireOK
<1>5. CacheOK'
  BY DEF CacheOK, WireOK, EndOK
<1>6. EarlyOK' /\ WireOK' /\ StatusOK' /\ LateOK'
  BY DEF EarlyOK, WireOK, StatusOK, LateOK
<1> QED BY <1>2, <1>3, <1>4, <1>5, <1>6

-----------------------------------------------------------------------------
(* A call begins with nothing done. *)
LEMMA ProtocolInitHolds ==
  ASSUME NEW lists, lists \subseteq Seq(Kinds), ProtocolInit(lists)
  PROVE  PInv
<1>1. PICK commands \in lists :
        proto = [commands |-> commands, pc |-> "start", began |-> 1, login |-> 0,
                 selected |-> FALSE, index |-> 0, sent |-> FALSE, payload |-> FALSE,
                 status |-> [i \in DOMAIN commands |-> "not_attempted"],
                 result |-> "stopped", setup |-> FALSE, warned |-> FALSE]
  BY DEF ProtocolInit
<1>2. /\ commands \in Seq(Kinds) /\ Len(commands) \in Nat
      /\ DOMAIN commands = 1..Len(commands)
  BY LenProperties
<1>3. [i \in DOMAIN commands |-> "not_attempted"] \in Seq(Statuses)
  BY <1>2, IsASeq DEF Statuses
<1>4. Len([i \in DOMAIN commands |-> "not_attempted"]) = Len(commands)
  BY <1>2, <1>3, LenProperties
<1>5. proto \in Call
  BY <1>1, <1>2, <1>3 DEF Call
<1>6. /\ proto.pc = "start" /\ proto.began = 1 /\ proto.index = 0 /\ proto.result = "stopped"
      /\ ~proto.setup /\ Size = Len(commands) /\ Len(proto.status) = Size
      /\ \A j \in 1..Size : proto.status[j] = "not_attempted"
  BY <1>1, <1>2, <1>4 DEF Size
<1>7. /\ authority = [revision |-> 1, admits |-> TRUE] /\ link = "none" /\ wire = <<>>
      /\ reply = "none" /\ executed = <<>> /\ Done = 0 /\ cache = "fresh" /\ late = 0
  BY DEF ProtocolInit, Done
<1>8. ProtocolTypeOK
  BY <1>2, <1>5, <1>6, <1>7, EmptySeq DEF ProtocolTypeOK
<1>9. /\ EarlyOK /\ WireOK /\ ExecutedOK /\ StatusOK
      /\ RunOK /\ EndOK /\ LateOK /\ CacheOK
  BY <1>6, <1>7 DEF EarlyOK, WireOK, ExecutedOK, StatusOK, RunOK, EndOK, LateOK, CacheOK,
                    Early, Ending
<1> QED BY <1>8, <1>9 DEF PInv

(* A step of the call. *)
LEMMA CallStepHolds ==
  ASSUME PInv, CallStep
  PROVE  PInv'
<1>1. CASE RefuseCommands
  BY <1>1, SetupFailsStep DEF RefuseCommands, Early
<1>2. CASE Connect \/ GuardOpen \/ ResolveSecrets \/ Dial \/ InvalidateBefore
  <2>1. proto.pc \in Early
    BY <1>2 DEF Connect, GuardOpen, ResolveSecrets, Dial, InvalidateBefore, Early
  <2>2. ~proto.setup
    BY <2>1 DEF PInv, EarlyOK, Early
  <2>3. CASE SetupFails
    BY <2>1, <2>3, SetupFailsStep
  <2>4. CASE ~SetupFails
    BY <1>2, <2>1, <2>2, <2>4, OpenStep
  <2> QED BY <2>3, <2>4
<1>3. CASE NextCommand
  BY <1>3, CompletedStep, BegunStep, DeniedStep
<1>4. CASE PrepareCommand \/ BeforeWrite
  <2>1. CASE proto' = Interrupted
    <3>1. /\ proto.pc \in {"prepare", "send", "write", "await"}
          /\ UNCHANGED <<authority, link, wire, reply, executed, cache, late>>
      BY <1>4 DEF PrepareCommand, BeforeWrite, remoteSide
    <3> QED BY <2>1, <3>1, InterruptedStep
  <2>2. CASE proto' # Interrupted
    BY <1>4, <2>2, MoveStep
  <2> QED BY <2>1, <2>2
<1>5. CASE Write
  <2>1. CASE link = "up"
    BY <1>5, <2>1, WriteStep
  <2>2. CASE link # "up"
    <3>1. /\ proto.pc = "write" /\ proto' = Interrupted /\ reply' = "none"
          /\ UNCHANGED <<authority, link, wire, executed, cache, late>>
      BY <1>5, <2>2 DEF Write
    <3> QED BY <3>1, InterruptedStep
  <2> QED BY <2>1, <2>2
<1>6. CASE Receive
  <2>1. reply \in {"ok", "no", "continue"}
    BY <1>6 DEF Receive
  <2> QED BY <1>6, <2>1, SucceededStep, FailedStep, ContinueStep
<1>7. CASE LoseAnswer
  <2>1. /\ proto.pc = "await" /\ proto' = Interrupted
        /\ UNCHANGED <<authority, link, wire, reply, executed, cache, late>>
    BY <1>7 DEF LoseAnswer, remoteSide
  <2> QED BY <2>1, InterruptedStep
<1>8. CASE CloseSession
  BY <1>8, EndStep
<1>9. CASE Settle
  BY <1>9, SettleStep
<1> QED BY <1>1, <1>2, <1>3, <1>4, <1>5, <1>6, <1>7, <1>8, <1>9 DEF CallStep

(* A step of the server. *)
LEMMA ServeHolds ==
  ASSUME PInv, Serve
  PROVE  PInv'
<1>1. CASE UNCHANGED <<executed, cache>> /\ reply' \in {"continue", "no"}
  BY <1>1, AnsweredStep
<1>2. CASE Execute(Head(wire).of) /\ reply' = "ok"
  BY <1>2, ExecutedStep
<1> QED BY <1>1, <1>2 DEF Serve

(* What others do, and steps that leave this part alone. *)
LEMMA SurroundingsHold ==
  ASSUME PInv, ChangeAuthority \/ Refill \/ Serve \/ Break \/ UNCHANGED protocolVars
  PROVE  PInv'
<1>1. CASE UNCHANGED protocolVars
  <2>1. UNCHANGED <<authority, link, wire, reply, executed, cache, late, proto, Size, Done>>
    BY <1>1 DEF protocolVars, remoteSide, Size, Done
  <2>2. ProtocolTypeOK'
    BY <2>1 DEF PInv, ProtocolTypeOK
  <2>3. /\ EarlyOK' /\ WireOK' /\ ExecutedOK' /\ StatusOK'
        /\ RunOK' /\ EndOK' /\ LateOK' /\ CacheOK'
    BY <2>1 DEF PInv, EarlyOK, WireOK, ExecutedOK, StatusOK, RunOK, EndOK, LateOK, CacheOK
  <2> QED BY <2>2, <2>3 DEF PInv
<1> QED BY <1>1, AuthorityStep, RefillStep, ServeHolds, BreakStep

-----------------------------------------------------------------------------
(* The properties that PInv implies. *)

(* Reports are honest: the current command is the only one in doubt. *)
LEMMA PInvReports ==
  ASSUME PInv
  PROVE  ReportIsHonest
<1>1. ProtocolTypeOK /\ DOMAIN executed = 1..Done /\ DOMAIN wire = 1..Len(wire)
  BY DEF PInv, ProtocolTypeOK, Done
<1>2. \A k \in DOMAIN executed : executed[k] = k
  BY <1>1 DEF PInv, ExecutedOK
<1>3. ASSUME ProtocolOver
      PROVE  /\ \A i \in 1..Size :
                  /\ proto.status[i] = "ok" => Executed(i)
                  /\ proto.status[i] \in {"error", "not_attempted"} =>
                       ~Executed(i) /\ \A k \in DOMAIN wire : wire[k].of # i
             /\ proto.setup => executed = <<>> /\ wire = <<>>
             /\ proto.result = "completed" => \A i \in 1..Size : proto.status[i] = "ok"
  <2> USE Fields, <1>1, <1>2, <1>3 DEF PInv
  <2>1. /\ proto.pc \in Ending
        /\ Done \in {proto.index - 1, proto.index} /\ Done >= 0
        /\ \A j \in 1..Size : j < proto.index => proto.status[j] = "ok"
        /\ \A j \in 1..Size : j > proto.index => proto.status[j] = "not_attempted"
    BY DEF ProtocolOver, EndOK, Ending, StatusOK
  <2>2. \A i \in 1..Size : Executed(i) <=> i <= Done
    BY DEF Executed
  <2>3. \A i \in 1..Size : proto.status[i] = "ok" => i <= Done
    BY <2>1 DEF EndOK
  <2>4. \A i \in 1..Size : proto.status[i] \in {"error", "not_attempted"} => ~(i <= Done)
    BY <2>1 DEF EndOK
  <2>5. \A i \in 1..Size, k \in DOMAIN wire :
          proto.status[i] \in {"error", "not_attempted"} => wire[k].of # i
    <3> SUFFICES ASSUME NEW i \in 1..Size, NEW k \in DOMAIN wire,
                        proto.status[i] \in {"error", "not_attempted"}
                 PROVE  wire[k].of # i
      OBVIOUS
    <3>1. wire # <<>>
      BY EmptySeq DEF ProtocolTypeOK
    <3>2. k = 1 /\ wire[1].of = proto.index /\ proto.status[proto.index] = "unknown"
      BY <2>1, <3>1 DEF WireOK, EndOK
    <3> QED BY <3>2
  <2>6. proto.setup => executed = <<>> /\ wire = <<>>
    BY EmptySeq DEF EarlyOK, ProtocolTypeOK, Done
  <2>7. proto.result = "completed" => \A i \in 1..Size : proto.status[i] = "ok"
    BY <2>1 DEF EndOK
  <2> QED BY <2>2, <2>3, <2>4, <2>5, <2>6, <2>7
<1> QED BY <1>2, <1>3 DEF ReportIsHonest

LEMMA PInvLate ==
  ASSUME PInv
  PROVE  OneLateWrite
BY Fields DEF PInv, LateOK, OneLateWrite

LEMMA PInvVoided ==
  ASSUME PInv
  PROVE  IndexIsVoided
BY Fields DEF PInv, CacheOK, IndexIsVoided, ProtocolOver

-----------------------------------------------------------------------------
(* The spill store, whatever the calls that wait for the threads do. *)

SpillTypeOK ==
  /\ root \in {"absent", "present", "touched", "removed"}
  /\ artifact \in [Writers -> {"none", "partial", "whole", "touched", "removed"}]
  /\ tracked \subseteq Writers
  /\ closed \in BOOLEAN
  /\ job \in [Writers -> {"none", "queued", "running"} \cup Over]

(* A thread that runs holds the lock, so it runs alone and the store is open. *)
LockOK ==
  /\ \A w \in Writers : job[w] = "running" => holder = Worker(w) /\ ~closed
  /\ holder = Closer => closed /\ root \in {"present", "touched"}
  /\ root = "removed" => closed

(* An artifact that the store cannot vouch for is being written, or it or  *)
(* the directory was touched.                                              *)
ArtifactOK ==
  /\ ~RootTouched => \A w \in Writers :
       /\ artifact[w] = "partial" => job[w] = "running"
       /\ artifact[w] = "whole" => job[w] = "running" \/ w \in tracked
  /\ root = "absent" => \A w \in Writers : artifact[w] = "none"

Left == {w \in Writers : artifact[w] \in {"partial", "whole"}}
Touched == \E w \in Writers : artifact[w] = "touched"

(* A store that has been closed keeps nothing unless somebody touched it. *)
ShutOK == ClosedDown => RootTouched \/ (Left = {} /\ (Touched \/ root # "present"))

SpillInv == SpillTypeOK /\ LockOK /\ ArtifactOK /\ ShutOK

LEMMA HoldersDiffer ==
  /\ Free # Closer
  /\ \A w : Worker(w) # Free /\ Worker(w) # Closer
  /\ \A v, w : Worker(v) = Worker(w) => v = w
BY DEF Free, Closer, Worker

LEMMA SpillInitHolds == SpillInit => SpillInv
BY HoldersDiffer DEF SpillInit, SpillInv, SpillTypeOK, LockOK, ArtifactOK, ShutOK, ClosedDown, RootTouched, Left, Touched, Over

(* The call puts its worker into the queue, or takes it out again. *)
LEMMA QueueStep ==
  ASSUME SpillInv, NEW w \in Writers, BeginSpill(w) \/ DropSpill(w)
  PROVE  SpillInv'
BY HoldersDiffer DEF BeginSpill, DropSpill, SpillInv, SpillTypeOK, LockOK, ArtifactOK, ShutOK,
  ClosedDown, RootTouched, Left, Touched, Over

LEMMA EnterStep ==
  ASSUME SpillInv, NEW w \in Writers, EnterSpill(w)
  PROVE  SpillInv'
BY HoldersDiffer DEF EnterSpill, SpillInv, SpillTypeOK, LockOK, ArtifactOK, ShutOK,
  ClosedDown, RootTouched, Left, Touched, Over

(* While a worker runs the store is open. *)
LEMMA WorkStep ==
  ASSUME SpillInv, NEW w \in Writers, OpenArtifact(w) \/ FillArtifact(w) \/ CheckArtifact(w)
  PROVE  SpillInv'
<1>1. /\ job[w] = "running" /\ holder = Worker(w) /\ ~closed /\ closed' = closed
      /\ \A v \in Writers : job[v] = "running" => v = w
  BY HoldersDiffer DEF OpenArtifact, FillArtifact, CheckArtifact, SpillInv, LockOK
<1>2. ShutOK'
  BY <1>1 DEF ShutOK, ClosedDown
<1>3. SpillTypeOK' /\ LockOK' /\ ArtifactOK'
  BY <1>1, HoldersDiffer DEF OpenArtifact, FillArtifact, CheckArtifact, LeaveSpill, Intact,
    RootTouched, SpillInv, SpillTypeOK, LockOK, ArtifactOK, Over
<1> QED BY <1>2, <1>3 DEF SpillInv

LEMMA MeddleStep ==
  ASSUME SpillInv, MeddleRoot \/ \E w \in Writers : Meddle(w)
  PROVE  SpillInv'
BY DEF Meddle, MeddleRoot, SpillInv, SpillTypeOK, LockOK, ArtifactOK, ShutOK, ClosedDown, RootTouched, Left, Touched

(* The close begins when no worker runs, and ends when none of the artifacts *)
(* that the store can vouch for is left.                                     *)
LEMMA CloseSteps ==
  ASSUME SpillInv, BeginClose \/ CloseStep
  PROVE  SpillInv'
<1>1. CASE BeginClose
  BY <1>1, HoldersDiffer DEF BeginClose, SpillInv, SpillTypeOK, LockOK, ArtifactOK, ShutOK,
    ClosedDown, RootTouched, Left, Touched
<1>2. ASSUME NEW w \in Writers, RemoveArtifact(w) PROVE SpillInv'
  BY <1>2, HoldersDiffer DEF RemoveArtifact, Intact, SpillInv, SpillTypeOK, LockOK, ArtifactOK, ShutOK,
    ClosedDown, RootTouched, Left, Touched
<1>3. CASE RemoveRoot
  BY <1>3, HoldersDiffer DEF RemoveRoot, InDirectory, Intact, SpillInv, SpillTypeOK, LockOK, ArtifactOK, ShutOK,
    ClosedDown, RootTouched, Left, Touched
<1> QED BY <1>1, <1>2, <1>3 DEF CloseStep

LEMMA SpillInvUnchanged ==
  ASSUME SpillInv, UNCHANGED spillVars
  PROVE  SpillInv'
BY DEF spillVars, SpillInv, SpillTypeOK, LockOK, ArtifactOK, ShutOK, ClosedDown, RootTouched, Left, Touched

LEMMA SpillInvLeavesNothing == SpillInv => NothingLeft
BY DEF SpillInv, SpillTypeOK, ShutOK, RootTouched, Left, Touched, NothingLeft

-----------------------------------------------------------------------------
(* The files attachments are saved to. *)

FileTypeOK ==
  /\ temporary \in [Downloads -> {"none", "partial", "whole"}]
  /\ saving \in [Downloads -> {"none", "queued", "writing", "written", "checked", "replaced"} \cup SaveOver]

(* The temporary file of a download follows its worker. *)
TemporaryOK == \A d \in Downloads :
  temporary[d] = IF saving[d] = "writing" THEN "partial"
                 ELSE IF saving[d] \in {"written", "checked"} THEN "whole"
                 ELSE "none"

FileInv == FileTypeOK /\ TemporaryOK /\ (target.by # "nobody" => target.whole)

LEMMA FileInitHolds == FileInit => FileInv
BY DEF FileInit, FileInv, FileTypeOK, TemporaryOK, SaveOver, Absent, Owned, Foreign

LEMMA FileStep ==
  ASSUME FileInv, NEW d \in Downloads, BeginSave(d) \/ DropSave(d) \/ SaveStep(d)
  PROVE  FileInv'
<1>1. FileTypeOK' /\ TemporaryOK'
  BY DEF BeginSave, DropSave, SaveStep, OpenTemporary, WriteTemporary, RecheckTarget, ReplaceTarget,
    VerifyTarget, GiveUp, FileInv, FileTypeOK, TemporaryOK, SaveOver
<1>2. target' = target \/ (target' = Saved(d, temporary[d]) /\ saving[d] = "checked")
  BY DEF BeginSave, DropSave, SaveStep, OpenTemporary, WriteTemporary, RecheckTarget, ReplaceTarget,
    VerifyTarget
<1>3. CASE target' = Saved(d, temporary[d]) /\ saving[d] = "checked"
  <2>1. temporary[d] = "whole"
    BY <1>3 DEF FileInv, TemporaryOK
  <2>2. target'.whole
    BY <1>3, <2>1 DEF Saved
  <2> QED BY <1>1, <2>2 DEF FileInv
<1>4. CASE target' = target
  BY <1>1, <1>4 DEF FileInv
<1> QED BY <1>2, <1>3, <1>4

(* What others do, and the preflight of a call. *)
LEMMA TargetStep ==
  ASSUME FileInv, UNCHANGED <<temporary, saving>>, target' \in {target, Absent, Owned, Foreign}
  PROVE  FileInv'
BY DEF FileInv, FileTypeOK, TemporaryOK, Absent, Owned, Foreign

LEMMA FileInvKeepsWhole == FileInv => TargetIsWhole
BY DEF FileInv, TemporaryOK, TargetIsWhole, SaveOver

-----------------------------------------------------------------------------
(* The calls that read messages: what a call has got is of the epochs so    *)
(* far and of senders it was allowed to read, and once the answer is fixed  *)
(* neither what it has got nor whom it was kept from changes any more.      *)

(* A call of a given tool. *)
Reader(tool) ==
  [tool    : {tool},
   pc      : {"start", "preflight", "open", "fetch", "spill", "mark", "recheck", "save", "over"},
   blocked : SUBSET Uids,                \* senders it may not read
   todo    : SUBSET Uids,
   got     : SUBSET (Nat \X Uids),       \* what it has retrieved, with its epoch
   marks   : SUBSET Uids,                \* what is left to mark as read
   answer  : {"none", "inline", "reference", "bytes", "saved", "error", "cancelled"}]

ReadTypeOK ==
  /\ policy \in [reachable : BOOLEAN, download : BOOLEAN, transfer : BOOLEAN,
                 organize : BOOLEAN, blocked : SUBSET Uids]
  /\ mailbox \in [epoch : Nat \ {0}, present : SUBSET Uids]
  /\ read = [c \in Readers |-> read[c]]

(* What holds of one call: an answer is fixed before anything is marked. *)
CallOK(r) ==
  /\ r \in Reader(r.tool)
  /\ \A m \in r.got : m[1] \in 1..mailbox.epoch /\ m[2] \notin r.blocked
  /\ r.pc \in {"start", "preflight", "open"} => r.got = {}
  /\ r.answer # "none" <=> r.pc \in {"mark", "over"}
  /\ r.pc = "mark" => r.marks \subseteq {m[2] : m \in r.got}

CallsOK == \A c \in Readers : CallOK(read[c])

ReadInv == ReadTypeOK /\ CallsOK /\ MarksWhatItRead

LEMMA ReadInitHolds ==
  ASSUME NEW tool, ReadInit(tool)
  PROVE  ReadInv
<1>1. ReadTypeOK
  BY ReadAssumption DEF ReadInit, ReadTypeOK, Initial
<1>2. ASSUME NEW c \in Readers PROVE CallOK(read[c])
  BY ReadAssumption DEF ReadInit, CallOK, Reader
<1>3. MarksWhatItRead
  BY DEF ReadInit, MarksWhatItRead
<1> QED BY <1>1, <1>2, <1>3 DEF ReadInv, CallsOK

(* A step of one call that marks nothing: a call that has its answer keeps *)
(* what it has got and whom it was kept from.                              *)
LEMMA ReaderStep ==
  ASSUME ReadInv, NEW c \in Readers, NEW r, CallOK(r),
         read' = [read EXCEPT ![c] = r],
         read[c].answer # "none" =>
           r.answer # "none" /\ r.got = read[c].got /\ r.blocked = read[c].blocked,
         UNCHANGED <<policy, mailbox, seen>>
  PROVE  ReadInv'
<1>1. /\ ReadTypeOK' /\ read'[c] = r
      /\ \A b \in Readers \ {c} : read'[b] = read[b]
  BY DEF ReadInv, ReadTypeOK
<1>2. CallsOK'
  BY <1>1 DEF ReadInv, CallsOK, CallOK, Reader
<1>3. MarksWhatItRead'
  BY <1>1 DEF ReadInv, MarksWhatItRead
<1> QED BY <1>1, <1>2, <1>3 DEF ReadInv

(* The call goes on without having got anything new. *)
LEMMA ReaderMoves ==
  ASSUME ReadInv, NEW c \in Readers, UNCHANGED <<policy, mailbox, seen>>,
         read[c].pc \notin {"mark", "over"},
         NEW pc \in {"preflight", "open", "fetch", "spill", "recheck", "save"}, Goto(c, pc),
         pc \in {"preflight", "open"} => read[c].got = {}
  PROVE  ReadInv'
<1> DEFINE r == [read[c] EXCEPT !.pc = pc]
<1>1. CallOK(read[c]) /\ read[c].answer = "none"
  BY DEF ReadInv, CallsOK, CallOK
<1>2. CallOK(r)
  BY <1>1 DEF CallOK, Reader
<1>3. read' = [read EXCEPT ![c] = r]
  BY DEF Goto
<1> QED BY <1>1, <1>2, <1>3, ReaderStep

(* The call is over. *)
LEMMA FinishStep ==
  ASSUME ReadInv, NEW c \in Readers, UNCHANGED <<policy, mailbox, seen>>,
         NEW answer \in {"inline", "reference", "bytes", "saved", "error", "cancelled"},
         Finish(c, answer)
  PROVE  ReadInv'
<1> DEFINE r == [read[c] EXCEPT !.pc = "over", !.answer = answer]
<1>1. CallOK(read[c])
  BY DEF ReadInv, CallsOK
<1>2. CallOK(r) /\ r.answer # "none" /\ r.got = read[c].got /\ r.blocked = read[c].blocked
  BY <1>1 DEF CallOK, Reader
<1>3. read' = [read EXCEPT ![c] = r]
  BY DEF Finish
<1> QED BY <1>2, <1>3, ReaderStep

(* Opening a call. *)
LEMMA OpeningStep ==
  ASSUME ReadInv, NEW c \in Readers, Resolve(c) \/ Preflight(c) \/ OpenProvider(c)
  PROVE  ReadInv'
<1>1. UNCHANGED <<policy, mailbox, seen>> /\ read[c].pc \in {"start", "preflight", "open"}
  BY DEF Resolve, Preflight, OpenProvider, At, ReadAlone
<1>2. CallOK(read[c]) /\ read[c].got = {} /\ read[c].answer = "none"
  BY <1>1 DEF ReadInv, CallsOK, CallOK
<1>3. CASE Raise(c)
  BY <1>1, <1>3, FinishStep DEF Raise
<1>4. CASE Goto(c, "preflight") \/ Goto(c, "open")
  BY <1>1, <1>2, <1>4, ReaderMoves
<1>5. CASE read' = [read EXCEPT ![c].pc = "fetch", ![c].blocked = policy.blocked]
  <2> DEFINE r == [read[c] EXCEPT !.pc = "fetch", !.blocked = policy.blocked]
  <2>1. CallOK(r)
    BY <1>2 DEF CallOK, Reader, ReadInv, ReadTypeOK
  <2>2. read' = [read EXCEPT ![c] = r]
    BY <1>5
  <2> QED BY <1>1, <1>2, <2>1, <2>2, ReaderStep
<1> QED BY <1>3, <1>4, <1>5 DEF Resolve, Preflight, OpenProvider

(* Retrieving bodies. *)
LEMMA FetchStep ==
  ASSUME ReadInv, NEW c \in Readers, FetchBody(c)
  PROVE  ReadInv'
<1> DEFINE u == Lowest(read[c].todo)
<1> DEFINE left == [read[c] EXCEPT !.todo = read[c].todo \ {u}]
<1> DEFINE more == [left EXCEPT !.got = read[c].got \cup {<<mailbox.epoch, u>>}]
<1>1. UNCHANGED <<policy, mailbox, seen>> /\ read[c].pc = "fetch"
  BY DEF FetchBody, At, ReadAlone
<1>2. CallOK(read[c]) /\ read[c].answer = "none"
  BY <1>1 DEF ReadInv, CallsOK, CallOK
<1>3. CASE read' = [read EXCEPT ![c] = left]
  <2>1. CallOK(left)
    BY <1>2 DEF CallOK, Reader
  <2> QED BY <1>1, <1>2, <1>3, <2>1, ReaderStep
<1>4. CASE Retrievable(c, u) /\ read' = [read EXCEPT ![c] = more]
  <2>1. mailbox.epoch \in Nat \ {0} /\ u \in Uids \ read[c].blocked
    BY <1>4 DEF Retrievable, ReadInv, ReadTypeOK
  <2> DEFINE m == <<mailbox.epoch, u>>
  <2>2. m \in Nat \X Uids /\ m[1] \in 1..mailbox.epoch /\ m[2] \notin read[c].blocked
    BY <2>1
  <2>3. more \in Reader(more.tool)
    BY <1>2, <2>2 DEF CallOK, Reader
  <2>4. /\ more.got = read[c].got \cup {m} /\ more.blocked = read[c].blocked
        /\ more.pc = "fetch" /\ more.answer = "none"
    BY <1>1, <1>2 DEF CallOK, Reader
  <2> HIDE DEF more, m
  <2>5. CallOK(more)
    BY <1>2, <2>2, <2>3, <2>4 DEF CallOK
  <2> QED BY <1>1, <1>2, <1>4, <2>5, ReaderStep
<1> QED BY <1>3, <1>4 DEF FetchBody, ReadInv, ReadTypeOK

(* The answer is fixed, and with it what there is to mark. *)
LEMMA AnswerStep ==
  ASSUME ReadInv, NEW c \in Readers, UNCHANGED <<policy, mailbox, seen>>,
         read[c].pc \notin {"mark", "over"},
         NEW answer \in {"inline", "reference"}, AfterAnswer(c, answer)
  PROVE  ReadInv'
<1> DEFINE r == [read[c] EXCEPT !.pc = "mark", !.answer = answer, !.marks = ReturnedUids(c)]
<1>1. CallOK(read[c]) /\ read[c].answer = "none"
  BY DEF ReadInv, CallsOK, CallOK
<1>2. read[c].got \subseteq Nat \X Uids
  BY <1>1 DEF CallOK, Reader
<1>3. ReturnedUids(c) \subseteq Uids
  BY <1>2 DEF ReturnedUids
<1>4. r \in Reader(r.tool)
  BY <1>1, <1>3 DEF CallOK, Reader
<1>5. CallOK(r)
  BY <1>1, <1>4 DEF CallOK, Reader, ReturnedUids
<1>6. read' = [read EXCEPT ![c] = r]
  BY DEF AfterAnswer
<1> QED BY <1>1, <1>5, <1>6, ReaderStep

(* What is marked is among what was returned. *)
LEMMA MarkStep ==
  ASSUME ReadInv, NEW c \in Readers, MarkRead(c)
  PROVE  ReadInv'
<1> DEFINE batch == Batch(read[c].marks)
<1>1. PICK done \in SUBSET batch, doubt \in BOOLEAN :
        /\ seen' = seen \cup {<<mailbox.epoch, u>> : u \in done}
        /\ read' = [read EXCEPT ![c].marks = IF doubt THEN {} ELSE read[c].marks \ batch]
  BY DEF MarkRead
<1>2. UNCHANGED <<policy, mailbox>> /\ read[c].pc = "mark"
  BY DEF MarkRead, At
<1> DEFINE r == [read[c] EXCEPT !.marks = IF doubt THEN {} ELSE read[c].marks \ batch]
<1>3. CallOK(read[c])
  BY DEF ReadInv, CallsOK
<1>4. read' = [read EXCEPT ![c] = r]
  BY <1>1
<1>5. CallOK(r) /\ r.answer = read[c].answer /\ r.got = read[c].got /\ r.blocked = read[c].blocked
  BY <1>3 DEF CallOK, Reader
<1>6. /\ ReadTypeOK' /\ read'[c] = r
      /\ \A b \in Readers \ {c} : read'[b] = read[b]
  BY <1>2, <1>4 DEF ReadInv, ReadTypeOK
<1>7. CallsOK'
  BY <1>2, <1>5, <1>6 DEF ReadInv, CallsOK, CallOK, Reader
<1>8. ASSUME NEW u \in done
      PROVE  /\ r.answer # "none"
             /\ \E e \in 1..mailbox.epoch : <<e, u>> \in r.got
             /\ u \notin r.blocked
  <2>1. u \in {m[2] : m \in read[c].got}
    BY <1>2, <1>3 DEF CallOK, Batch
  <2>2. PICK m \in read[c].got : m[2] = u
    BY <2>1
  <2>3. m \in Nat \X Uids /\ m[1] \in 1..mailbox.epoch /\ m[2] \notin read[c].blocked
    BY <1>3 DEF CallOK, Reader
  <2>4. m = <<m[1], u>>
    BY <2>2, <2>3
  <2> QED BY <1>2, <1>3, <1>5, <2>2, <2>3, <2>4 DEF CallOK
<1>9. MarksWhatItRead'
  <2> SUFFICES ASSUME NEW m \in seen'
               PROVE  \E b \in Readers :
                        /\ read'[b].answer # "none"
                        /\ \E e \in 1..m[1] : <<e, m[2]>> \in read'[b].got
                        /\ m[2] \notin read'[b].blocked
    BY DEF MarksWhatItRead
  <2>1. CASE m \in seen
    <3>1. PICK b \in Readers :
            /\ read[b].answer # "none"
            /\ \E e \in 1..m[1] : <<e, m[2]>> \in read[b].got
            /\ m[2] \notin read[b].blocked
      BY <2>1 DEF ReadInv, MarksWhatItRead
    <3> QED BY <1>5, <1>6, <3>1
  <2>2. CASE m \in {<<mailbox.epoch, u>> : u \in done}
    <3>1. PICK u \in done : m = <<mailbox.epoch, u>>
      BY <2>2
    <3> QED BY <1>6, <1>8, <3>1
  <2> QED BY <1>1, <2>1, <2>2
<1> QED BY <1>6, <1>7, <1>9 DEF ReadInv

(* Every step of a call. *)
LEMMA ReadStepHolds ==
  ASSUME ReadInv, NEW c \in Readers, ReadStep(c) \/ CancelRead(c)
  PROVE  ReadInv'
<1>1. CASE Resolve(c) \/ Preflight(c) \/ OpenProvider(c)
  BY <1>1, OpeningStep
<1>2. CASE FetchBody(c)
  BY <1>2, FetchStep
<1>3. CASE AbortRead(c) \/ RefuseContent(c)
  BY <1>3, FinishStep DEF AbortRead, RefuseContent, Raise, ReadAlone
<1>4. CASE PrepareInline(c)
  BY <1>4, AnswerStep DEF PrepareInline, At, ReadAlone
<1>5. CASE PrepareSpill(c)
  BY <1>5, ReaderMoves DEF PrepareSpill, At
<1>6. CASE AwaitSpill(c)
  BY <1>6, AnswerStep, FinishStep DEF AwaitSpill, Raise, At, ReadAlone
<1>7. CASE MarkRead(c)
  BY <1>7, MarkStep
<1>8. CASE ReturnContent(c)
  <2>1. CallOK(read[c]) /\ read[c].pc = "mark"
    BY <1>8 DEF ReturnContent, At, ReadInv, CallsOK
  <2>2. read[c].answer \in {"inline", "reference", "bytes", "saved", "error", "cancelled"}
    BY <2>1 DEF CallOK, Reader
  <2> QED BY <1>8, <2>2, FinishStep DEF ReturnContent, ReadAlone
<1>9. CASE FetchAttachment(c)
  BY <1>9, ReaderMoves, FinishStep DEF FetchAttachment, Raise, At, ReadAlone
<1>10. CASE RecheckDownload(c)
  BY <1>10, ReaderMoves, FinishStep DEF RecheckDownload, Raise, At
<1>11. CASE RecheckTransfer(c)
  BY <1>11, FinishStep DEF RecheckTransfer, Encode, Raise, ReadAlone
<1>12. CASE AwaitSave(c)
  BY <1>12, FinishStep DEF AwaitSave, Raise, ReadAlone
<1>13. CASE CancelRead(c)
  BY <1>13, FinishStep DEF CancelRead
<1> QED BY <1>1, <1>2, <1>3, <1>4, <1>5, <1>6, <1>7, <1>8, <1>9, <1>10, <1>11, <1>12, <1>13
        DEF ReadStep

(* What the operator and other users of the mailbox do. *)
LEMMA OthersStep ==
  ASSUME ReadInv, ChangePolicy \/ (\E u \in Uids : Expunge(u)) \/ Recreate
  PROVE  ReadInv'
<1>1. /\ UNCHANGED <<read, seen>>
      /\ mailbox' = mailbox \/ mailbox'.epoch \in {mailbox.epoch, mailbox.epoch + 1}
  BY DEF ChangePolicy, Expunge, Recreate, ReadInv, ReadTypeOK
<1>2. ReadTypeOK'
  <2>1. CASE ChangePolicy
    <3>1. \A u \in Uids : {u} \in SUBSET Uids
      OBVIOUS
    <3>2. policy' \in [reachable : BOOLEAN, download : BOOLEAN, transfer : BOOLEAN,
                       organize : BOOLEAN, blocked : SUBSET Uids]
      BY <2>1, <3>1 DEF ChangePolicy, ReadInv, ReadTypeOK
    <3> QED BY <2>1, <3>2 DEF ChangePolicy, ReadInv, ReadTypeOK
  <2>2. CASE (\E u \in Uids : Expunge(u)) \/ Recreate
    BY <2>2 DEF Expunge, Recreate, ReadInv, ReadTypeOK
  <2> QED BY <2>1, <2>2
<1>3. mailbox.epoch \in Nat /\ mailbox'.epoch \in Nat /\ mailbox.epoch <= mailbox'.epoch
  BY <1>1 DEF ReadInv, ReadTypeOK
<1>4. CallsOK'
  BY <1>1, <1>3 DEF ReadInv, CallsOK, CallOK, Reader
<1> QED BY <1>1, <1>2, <1>4 DEF ReadInv, MarksWhatItRead

LEMMA ReadInvUnchanged ==
  ASSUME ReadInv, UNCHANGED readVars
  PROVE  ReadInv'
BY DEF readVars, ReadInv, ReadTypeOK, CallsOK, CallOK, Reader, MarksWhatItRead

-----------------------------------------------------------------------------
(* The protocol call in the server. *)

(* What a step of the server does to the protocol call. *)
LEMMA ProtocolPart ==
  ASSUME [Next]_vars
  PROVE  CallStep \/ ChangeAuthority \/ Refill \/ Serve \/ Break \/ UNCHANGED protocolVars
<1>1. CASE ServerStep
  BY <1>1 DEF ServerStep, Communicate, EndHandler, DropMessage, ProtocolTool, ReadTool, Thread,
              CloseStore, RuntimeClosed
<1>2. CASE OutsideStep
  BY <1>2 DEF OutsideStep
<1>3. CASE UNCHANGED vars
  BY <1>3 DEF vars
<1> QED BY <1>1, <1>2, <1>3 DEF Next

(* PInv is an invariant of the server. *)
THEOREM ProtocolInvariant == Spec => []PInv
<1>1. Init => PInv
  <2> SUFFICES ASSUME Init PROVE PInv
    OBVIOUS
  <2>1. <<>> \in Seq(Kinds)
    BY EmptySeq
  <2> QED BY <2>1, ProtocolAssumption, ProtocolInitHolds DEF Init
<1>2. PInv /\ [Next]_vars => PInv'
  BY ProtocolPart, CallStepHolds, SurroundingsHold
<1> QED BY <1>1, <1>2, PTL DEF Spec

(* What a protocol call reports of its commands is what became of them. *)
THEOREM ReportsAreHonest == Spec => []ReportIsHonest
BY ProtocolInvariant, PInvReports, PTL

(* Authority that is withdrawn stops all but one write. *)
THEOREM WritesStop == Spec => []OneLateWrite
BY ProtocolInvariant, PInvLate, PTL

(* A call that ends without a warning leaves no stale coverage behind. *)
THEOREM IndexStaysVoid == Spec => []IndexIsVoided
BY ProtocolInvariant, PInvVoided, PTL

-----------------------------------------------------------------------------
(* What a step of the server does to the reads. *)
LEMMA ReadPart ==
  ASSUME [Next]_vars
  PROVE  \/ \E c \in Readers : ReadStep(c) \/ CancelRead(c)
         \/ ChangePolicy \/ (\E u \in Uids : Expunge(u)) \/ Recreate
         \/ UNCHANGED readVars
<1>1. CASE ServerStep
  BY <1>1 DEF ServerStep, Communicate, EndHandler, DropMessage, ProtocolTool, ReadTool, Thread,
              WorkerStep, CloseStore, RuntimeClosed, toolVars
<1>2. CASE OutsideStep
  BY <1>2 DEF OutsideStep, toolVars
<1>3. CASE UNCHANGED vars
  BY <1>3 DEF vars, toolVars
<1> QED BY <1>1, <1>2, <1>3 DEF Next

(* What a call of the reads does to the two stores. *)
LEMMA CallTouchesStores ==
  ASSUME NEW c \in Readers, ReadStep(c) \/ CancelRead(c)
  PROVE  /\ BeginSpill(c) \/ DropSpill(c) \/ UNCHANGED spillVars
         /\ \/ BeginSave(c) \/ DropSave(c)
            \/ UNCHANGED <<target, temporary, saving>>
BY DEF ReadStep, CancelRead, Resolve, Preflight, OpenProvider, FetchBody, AbortRead, RefuseContent,
  PrepareInline, PrepareSpill, AwaitSpill, MarkRead, ReturnContent, FetchAttachment,
  RecheckDownload, RecheckTransfer, AwaitSave, ReadAlone, storeVars, fileVars

(* What a step of the server does to the spill store. *)
LEMMA SpillPart ==
  ASSUME [Next]_vars
  PROVE  \/ \E w \in Writers : BeginSpill(w) \/ DropSpill(w) \/ SpillStep(w)
         \/ MeddleRoot \/ \E w \in Writers : Meddle(w)
         \/ BeginClose \/ CloseStep
         \/ UNCHANGED spillVars
<1>1. CASE ServerStep
  BY <1>1, CallTouchesStores
     DEF ServerStep, Communicate, EndHandler, DropMessage, ProtocolTool, ReadTool, Thread,
         WorkerStep, CloseStore, RuntimeClosed, toolVars, storeVars, Readers
<1>2. CASE OutsideStep
  BY <1>2 DEF OutsideStep, ChangePolicy, Expunge, Recreate, toolVars, storeVars, Readers
<1>3. CASE UNCHANGED vars
  BY <1>3 DEF vars, toolVars, storeVars
<1> QED BY <1>1, <1>2, <1>3 DEF Next

(* What a step of the server does to the files attachments are saved to. *)
LEMMA FilePart ==
  ASSUME [Next]_vars
  PROVE  \/ \E d \in Downloads : BeginSave(d) \/ DropSave(d) \/ SaveStep(d)
         \/ UNCHANGED <<temporary, saving>> /\ target' \in {target, Absent, Owned, Foreign}
<1>1. CASE ServerStep
  BY <1>1, CallTouchesStores, ReadAssumption
     DEF ServerStep, Communicate, EndHandler, DropMessage, ProtocolTool, ReadTool, Thread,
         WorkerStep, CloseStore, RuntimeClosed, toolVars, storeVars, fileVars, Readers
<1>2. CASE OutsideStep
  BY <1>2 DEF OutsideStep, ChangePolicy, Expunge, Recreate, TouchTarget, toolVars, storeVars, fileVars
<1>3. CASE UNCHANGED vars
  BY <1>3 DEF vars, toolVars, storeVars, fileVars
<1> QED BY <1>1, <1>2, <1>3 DEF Next

(* The invariant of the reads. *)
THEOREM ReadInvariant == Spec => []ReadInv
<1>1. Init => ReadInv
  BY ReadInitHolds DEF Init
<1>2. ReadInv /\ [Next]_vars => ReadInv'
  BY ReadPart, ReadStepHolds, OthersStep, ReadInvUnchanged
<1> QED BY <1>1, <1>2, PTL DEF Spec

(* The invariant of the spill store. *)
THEOREM SpillInvariant == Spec => []SpillInv
<1>1. Init => SpillInv
  BY SpillInitHolds DEF Init, ReadInit
<1>2. SpillInv /\ [Next]_vars => SpillInv'
  BY SpillPart, QueueStep, EnterStep, WorkStep, MeddleStep, CloseSteps, SpillInvUnchanged DEF SpillStep
<1> QED BY <1>1, <1>2, PTL DEF Spec

(* The invariant of the destination of the downloads and their temporary files. *)
THEOREM FileInvariant == Spec => []FileInv
<1>1. Init => FileInv
  BY FileInitHolds DEF Init, ReadInit
<1>2. FileInv /\ [Next]_vars => FileInv'
  BY FilePart, FileStep, TargetStep
<1> QED BY <1>1, <1>2, PTL DEF Spec

(* Only messages whose bodies a call has retrieved are marked as read, and *)
(* none whose sender it was kept from.                                     *)
THEOREM MarkedWereRead == Spec => []MarksWhatItRead
<1>1. ReadInv => MarksWhatItRead
  BY DEF ReadInv
<1> QED BY <1>1, ReadInvariant, PTL

(* A closed spill store leaves nothing behind. *)
THEOREM NothingIsLeft == Spec => []NothingLeft
BY SpillInvariant, SpillInvLeavesNothing, PTL

(* The destination of a download is whole, and no temporary file stays. *)
THEOREM TargetStaysWhole == Spec => []TargetIsWhole
BY FileInvariant, FileInvKeepsWhole, PTL

-----------------------------------------------------------------------------
(* The transport.  First where the frames lie in the input: frame k begins *)
(* after the first Start(k) bytes.                                         *)

(* The place of frame k, from the end of the one before it.                *)
Start(k) ==
  CASE k = 1 -> 0
    [] k = 2 -> Len(Line(1))
    [] k = 3 -> Len(Line(1)) + Len(Line(2))
    [] OTHER -> Len(Line(1)) + Len(Line(2)) + Len(Line(3))

(* What StdioAssumption says of a script, of the one the client sends.     *)
ScriptOK ==
  /\ Frames \in Seq([kind : Tools \cup {"malformed", "cancel"}, size : Nat \ {0}, of : Nat])
  /\ Len(Frames) <= 3
  /\ script.newline \in BOOLEAN
  /\ \A i \in DOMAIN Frames : Frames[i].kind = "cancel" => Frames[i].of \in Positions

FrameSize(i) == Frames[i].size

LEMMA ScriptsOK ==
  ASSUME script \in Scripts
  PROVE  ScriptOK
BY StdioAssumption DEF ScriptOK, Frames

LEMMA FrameTypes ==
  ASSUME ScriptOK
  PROVE  /\ Len(Frames) \in 0..3 /\ DOMAIN Frames = 1..Len(Frames)
         /\ \A i \in 1..Len(Frames) : /\ FrameSize(i) \in Nat \ {0} /\ Ended(i) \in BOOLEAN
                                      /\ Frames[i].kind \in Tools \cup {"malformed", "cancel"}
                                      /\ i < Len(Frames) => Ended(i)
<1>1. Len(Frames) \in Nat /\ DOMAIN Frames = 1..Len(Frames) /\ Len(Frames) <= 3
  BY DEF ScriptOK
<1>2. ASSUME NEW i \in 1..Len(Frames)
      PROVE  FrameSize(i) \in Nat \ {0} /\ Frames[i].kind \in Tools \cup {"malformed", "cancel"}
  <2>1. Frames[i] \in [kind : Tools \cup {"malformed", "cancel"}, size : Nat \ {0}, of : Nat]
    BY <1>1, ElementOfSeq DEF ScriptOK
  <2> QED BY <2>1 DEF FrameSize
<1>3. ASSUME NEW i \in 1..Len(Frames)
      PROVE  Ended(i) \in BOOLEAN /\ (i < Len(Frames) => Ended(i))
  BY DEF Ended
<1> QED BY <1>1, <1>2, <1>3

(* One line. *)
LEMMA LineLayout ==
  ASSUME ScriptOK, NEW i \in 1..3
  PROVE  /\ Line(i) \in Seq(0..3)
         /\ i > Len(Frames) => Line(i) = <<>>
         /\ i <= Len(Frames) =>
              /\ Len(Line(i)) = FrameSize(i) + (IF Ended(i) THEN 1 ELSE 0)
              /\ \A j \in 1..FrameSize(i) : Line(i)[j] = i
              /\ Ended(i) => Line(i)[FrameSize(i) + 1] = 0
<1>1. CASE i > Len(Frames)
  BY <1>1, FrameTypes, EmptySeq DEF Line
<1>2. CASE i <= Len(Frames)
  <2>1. FrameSize(i) \in Nat \ {0} /\ i \in 0..3 /\ Ended(i) \in BOOLEAN
    BY <1>2, FrameTypes
  <2> DEFINE t == [n \in 1..FrameSize(i) |-> i]
  <2>2. Text(i) = t
    BY DEF Text, FrameSize
  <2>3. t \in Seq(0..3) /\ Len(t) = FrameSize(i) /\ \A j \in 1..FrameSize(i) : t[j] = i
    BY <2>1
  <2>4. 0 \in 0..3
    OBVIOUS
  <2> HIDE DEF t
  <2>5. /\ Append(t, 0) \in Seq(0..3) /\ Len(Append(t, 0)) = FrameSize(i) + 1
        /\ \A j \in 1..FrameSize(i) : Append(t, 0)[j] = i
        /\ Append(t, 0)[FrameSize(i) + 1] = 0
    BY <2>1, <2>3, <2>4, AppendProperties
  <2>6. Line(i) = IF Ended(i) THEN Append(t, 0) ELSE t
    BY <1>2, <2>2, FrameTypes DEF Line
  <2> QED BY <1>2, <2>1, <2>3, <2>5, <2>6, FrameTypes
<1> QED BY <1>1, <1>2, FrameTypes

(* Three lines, one after the other. *)
LEMMA ThreeLines ==
  ASSUME NEW a \in Seq(0..3), NEW b \in Seq(0..3), NEW c \in Seq(0..3), NEW s, s = a \o b \o c
  PROVE  /\ s \in Seq(0..3) /\ Len(s) = Len(a) + Len(b) + Len(c)
         /\ \A j \in 1..Len(a) : s[j] = a[j]
         /\ \A j \in 1..Len(b) : s[Len(a) + j] = b[j]
         /\ \A j \in 1..Len(c) : s[Len(a) + Len(b) + j] = c[j]
<1> DEFINE ab == a \o b
<1>1. ab \in Seq(0..3) /\ Len(ab) = Len(a) + Len(b)
  BY ConcatProperties
<1>2. \A j \in 1..Len(ab) : ab[j] = IF j <= Len(a) THEN a[j] ELSE b[j - Len(a)]
  BY ConcatProperties
<1>3. Len(a) \in Nat /\ Len(b) \in Nat /\ Len(c) \in Nat
  OBVIOUS
<1> HIDE DEF ab
<1>4. s = ab \o c
  BY DEF ab
<1>5. s \in Seq(0..3) /\ Len(s) = Len(ab) + Len(c)
  BY <1>1, <1>4, ConcatProperties
<1>6. \A j \in 1..Len(s) : s[j] = IF j <= Len(ab) THEN ab[j] ELSE c[j - Len(ab)]
  BY <1>1, <1>4, ConcatProperties
<1>7. ASSUME NEW j \in 1..Len(a) PROVE s[j] = a[j]
  BY <1>1, <1>2, <1>3, <1>5, <1>6
<1>8. ASSUME NEW j \in 1..Len(b) PROVE s[Len(a) + j] = b[j]
  <2>1. Len(a) + j \in 1..Len(ab) /\ Len(a) + j \in 1..Len(s) /\ ~(Len(a) + j <= Len(a)) /\ (Len(a) + j) - Len(a) = j
    BY <1>1, <1>3, <1>5
  <2> QED BY <1>2, <1>6, <2>1, <1>1, <1>3
<1>9. ASSUME NEW j \in 1..Len(c) PROVE s[Len(a) + Len(b) + j] = c[j]
  <2> DEFINE m == Len(a) + Len(b) + j
  <2>1. m \in 1..Len(s) /\ ~(m <= Len(ab)) /\ m - Len(ab) = j
    BY <1>1, <1>3, <1>5
  <2> HIDE DEF m
  <2>2. s[m] = c[j]
    BY <1>6, <2>1
  <2> QED BY <2>2 DEF m
<1> QED BY <1>1, <1>5, <1>7, <1>8, <1>9

(* Where the frames lie in the input, and that they are all of it.         *)
LEMMA Layout ==
  ASSUME ScriptOK
  PROVE  /\ Bytes \in Seq(0..3) /\ Start(1) = 0 /\ Start(Len(Frames) + 1) = Len(Bytes)
         /\ \A k \in 1..Len(Frames) :
              /\ Start(k) \in Nat /\ Start(k + 1) \in Nat
              /\ Start(k + 1) = Start(k) + FrameSize(k) + (IF Ended(k) THEN 1 ELSE 0)
              /\ Start(k + 1) <= Len(Bytes)
              /\ \A j \in 1..FrameSize(k) : Bytes[Start(k) + j] = k
              /\ Ended(k) => Bytes[Start(k) + FrameSize(k) + 1] = 0
<1>1. /\ Line(1) \in Seq(0..3) /\ Line(2) \in Seq(0..3) /\ Line(3) \in Seq(0..3)
      /\ \A i \in 1..3 : i > Len(Frames) => Line(i) = <<>>
      /\ \A i \in 1..3 : i <= Len(Frames) =>
           /\ Len(Line(i)) = FrameSize(i) + (IF Ended(i) THEN 1 ELSE 0)
           /\ \A j \in 1..FrameSize(i) : Line(i)[j] = i
           /\ Ended(i) => Line(i)[FrameSize(i) + 1] = 0
  BY LineLayout
<1>2. /\ Bytes \in Seq(0..3) /\ Len(Bytes) = Len(Line(1)) + Len(Line(2)) + Len(Line(3))
      /\ \A j \in 1..Len(Line(1)) : Bytes[j] = Line(1)[j]
      /\ \A j \in 1..Len(Line(2)) : Bytes[Len(Line(1)) + j] = Line(2)[j]
      /\ \A j \in 1..Len(Line(3)) : Bytes[Len(Line(1)) + Len(Line(2)) + j] = Line(3)[j]
  BY <1>1, ThreeLines DEF Bytes
<1>3. Len(Line(1)) \in Nat /\ Len(Line(2)) \in Nat /\ Len(Line(3)) \in Nat
  BY <1>1
<1>4. /\ Start(1) = 0 /\ Start(2) = Len(Line(1)) /\ Start(3) = Len(Line(1)) + Len(Line(2))
      /\ Start(4) = Len(Line(1)) + Len(Line(2)) + Len(Line(3))
  BY DEF Start
<1>5. \A k \in 1..3 : /\ Start(k) \in Nat /\ Start(k + 1) \in Nat
                      /\ Start(k + 1) = Start(k) + Len(Line(k)) /\ Start(k + 1) <= Len(Bytes)
                      /\ \A j \in 1..Len(Line(k)) : Bytes[Start(k) + j] = Line(k)[j]
  <2>1. \A k \in 1..3 : k = 1 \/ k = 2 \/ k = 3
    OBVIOUS
  <2>5. 1 + 1 = 2 /\ 2 + 1 = 3 /\ 3 + 1 = 4
    OBVIOUS
  <2>2. /\ Start(1) \in Nat /\ Start(2) \in Nat
        /\ Start(2) = Start(1) + Len(Line(1)) /\ Start(2) <= Len(Bytes)
        /\ \A j \in 1..Len(Line(1)) : Bytes[Start(1) + j] = Line(1)[j]
    BY <1>2, <1>3, <1>4
  <2>3. /\ Start(2) \in Nat /\ Start(3) \in Nat
        /\ Start(3) = Start(2) + Len(Line(2)) /\ Start(3) <= Len(Bytes)
        /\ \A j \in 1..Len(Line(2)) : Bytes[Start(2) + j] = Line(2)[j]
    <3>1. Start(2) \in Nat /\ Start(3) \in Nat /\ Start(3) = Start(2) + Len(Line(2)) /\ Start(3) <= Len(Bytes)
      <4>1. Len(Bytes) = Len(Line(1)) + Len(Line(2)) + Len(Line(3))
        BY <1>2
      <4> QED BY <4>1, <1>3, <1>4
    <3>2. \A j \in 1..Len(Line(2)) : Bytes[Start(2) + j] = Line(2)[j]
      BY <1>2, <1>4
    <3> QED BY <3>1, <3>2
  <2>4. /\ Start(3) \in Nat /\ Start(4) \in Nat
        /\ Start(4) = Start(3) + Len(Line(3)) /\ Start(4) <= Len(Bytes)
        /\ \A j \in 1..Len(Line(3)) : Bytes[Start(3) + j] = Line(3)[j]
    <3>1. Start(3) \in Nat /\ Start(4) \in Nat /\ Start(4) = Start(3) + Len(Line(3)) /\ Start(4) <= Len(Bytes)
      BY <1>2, <1>3, <1>4
    <3>2. \A j \in 1..Len(Line(3)) : Bytes[Start(3) + j] = Line(3)[j]
      BY <1>2, <1>4
    <3> QED BY <3>1, <3>2
  <2> QED
    <3> SUFFICES ASSUME NEW k \in 1..3
                 PROVE  /\ Start(k) \in Nat /\ Start(k + 1) \in Nat
                        /\ Start(k + 1) = Start(k) + Len(Line(k)) /\ Start(k + 1) <= Len(Bytes)
                        /\ \A j \in 1..Len(Line(k)) : Bytes[Start(k) + j] = Line(k)[j]
      OBVIOUS
    <3>1. CASE k = 1
      BY <2>2, <2>5, <3>1
    <3>2. CASE k = 2
      BY <2>3, <2>5, <3>2
    <3>3. CASE k = 3
      BY <2>4, <2>5, <3>3
    <3> QED BY <2>1, <3>1, <3>2, <3>3
<1>6. Start(Len(Frames) + 1) = Len(Bytes)
  <2>1. Len(<<>>) = 0
    OBVIOUS
  <2>2. Len(Frames) = 0 \/ Len(Frames) = 1 \/ Len(Frames) = 2 \/ Len(Frames) = 3
    BY FrameTypes
  <2>3. \A i \in 1..3 : i > Len(Frames) => Len(Line(i)) = 0
    BY <1>1, <2>1
  <2>4. CASE Len(Frames) = 0
    <3>1. Len(Line(1)) = 0 /\ Len(Line(2)) = 0 /\ Len(Line(3)) = 0
      BY <2>3, <2>4
    <3> QED BY <1>2, <1>4, <2>4, <3>1
  <2>5. CASE Len(Frames) = 1
    <3>1. Len(Line(2)) = 0 /\ Len(Line(3)) = 0
      BY <2>3, <2>5
    <3> QED BY <1>2, <1>3, <1>4, <2>5, <3>1
  <2>6. CASE Len(Frames) = 2
    <3>1. Len(Line(3)) = 0
      BY <2>3, <2>6
    <3> QED BY <1>2, <1>3, <1>4, <2>6, <3>1
  <2>7. CASE Len(Frames) = 3
    BY <1>2, <1>4, <2>7
  <2> QED BY <2>2, <2>4, <2>5, <2>6, <2>7
<1>7. ASSUME NEW k \in 1..Len(Frames)
      PROVE  /\ Start(k) \in Nat /\ Start(k + 1) \in Nat
             /\ Start(k + 1) = Start(k) + FrameSize(k) + (IF Ended(k) THEN 1 ELSE 0)
             /\ Start(k + 1) <= Len(Bytes)
             /\ \A j \in 1..FrameSize(k) : Bytes[Start(k) + j] = k
             /\ Ended(k) => Bytes[Start(k) + FrameSize(k) + 1] = 0
  <2>1. k \in 1..3 /\ k <= Len(Frames) /\ FrameSize(k) \in Nat \ {0} /\ Ended(k) \in BOOLEAN
    BY FrameTypes
  <2>2. /\ Len(Line(k)) = FrameSize(k) + (IF Ended(k) THEN 1 ELSE 0)
        /\ \A j \in 1..FrameSize(k) : Line(k)[j] = k
        /\ Ended(k) => Line(k)[FrameSize(k) + 1] = 0
    BY <1>1, <2>1
  <2>3. /\ Start(k) \in Nat /\ Start(k + 1) \in Nat
        /\ Start(k + 1) = Start(k) + Len(Line(k)) /\ Start(k + 1) <= Len(Bytes)
        /\ \A j \in 1..Len(Line(k)) : Bytes[Start(k) + j] = Line(k)[j]
    BY <1>5, <2>1
  <2>4. \A j \in 1..FrameSize(k) : j \in 1..Len(Line(k))
    BY <2>1, <2>2
  <2>5. Ended(k) => Bytes[Start(k) + (FrameSize(k) + 1)] = 0
    BY <2>1, <2>2, <2>3
  <2>6. Start(k) + (FrameSize(k) + 1) = Start(k) + FrameSize(k) + 1
    BY <2>1, <2>3
  <2>7. \A j \in 1..FrameSize(k) : Bytes[Start(k) + j] = k
    BY <2>2, <2>3, <2>4
  <2>8. Start(k + 1) = Start(k) + FrameSize(k) + (IF Ended(k) THEN 1 ELSE 0)
    BY <2>1, <2>2, <2>3
  <2> QED BY <2>3, <2>5, <2>6, <2>7, <2>8
<1> QED BY <1>2, <1>4, <1>6, <1>7

(* What lies before the reader when c frames have been cut: buffer and     *)
(* input are what is left from the beginning of the next frame or, if that *)
(* is being discarded, from somewhere within it.                           *)
Behind(b, rest) == Len(Bytes) - Len(rest) - Len(b)

Unread(b, rest, dropping, c) ==
  /\ b \in Seq(0..3) /\ rest \in Seq(0..3) /\ dropping \in BOOLEAN
  /\ c \in 0..Len(Frames) /\ Behind(b, rest) \in Nat
  /\ \A j \in 1..Len(b) : b[j] = Bytes[Behind(b, rest) + j]
  /\ \A j \in 1..Len(rest) : rest[j] = Bytes[Behind(b, rest) + Len(b) + j]
  /\ ~dropping => Behind(b, rest) = Start(c + 1)
  /\ dropping => /\ c < Len(Frames) /\ FrameSize(c + 1) > FrameBytes
                 /\ Start(c + 1) < Behind(b, rest)
                 /\ Behind(b, rest) <= Start(c + 1) + FrameSize(c + 1)

(* A frame's text begins with its number. *)
LEMMA TextLayout ==
  ASSUME ScriptOK, NEW i \in 1..Len(Frames)
  PROVE  /\ Text(i) \in Seq(0..3) /\ Len(Text(i)) = FrameSize(i)
         /\ \A j \in 1..FrameSize(i) : Text(i)[j] = i
         /\ Append(Text(i), 0) \in Seq(0..3) /\ Len(Append(Text(i), 0)) = FrameSize(i) + 1
         /\ \A j \in 1..FrameSize(i) : Append(Text(i), 0)[j] = i
         /\ Append(Text(i), 0)[FrameSize(i) + 1] = 0
<1>1. FrameSize(i) \in Nat \ {0} /\ i \in 0..3
  BY FrameTypes
<1> DEFINE t == [n \in 1..FrameSize(i) |-> i]
<1>2. Text(i) = t
  BY DEF Text, FrameSize
<1>3. t \in Seq(0..3) /\ Len(t) = FrameSize(i) /\ \A j \in 1..FrameSize(i) : t[j] = i
  BY <1>1
<1>4. 0 \in 0..3
  OBVIOUS
<1> HIDE DEF t
<1>5. /\ Append(t, 0) \in Seq(0..3) /\ Len(Append(t, 0)) = FrameSize(i) + 1
      /\ \A j \in 1..FrameSize(i) : Append(t, 0)[j] = i
      /\ Append(t, 0)[FrameSize(i) + 1] = 0
  BY <1>1, <1>3, <1>4, AppendProperties
<1> QED BY <1>2, <1>3, <1>5

(* The text of frame k, whole, is decoded to what is expected of it. *)
LEMMA DecodeWhole ==
  ASSUME ScriptOK, NEW k \in 1..Len(Frames), NEW text, text = IF Ended(k) THEN Append(Text(k), 0) ELSE Text(k)
  PROVE  Decode(text) = Expected[k]
<1>1. FrameSize(k) \in Nat \ {0} /\ Ended(k) \in BOOLEAN /\ DOMAIN Frames = 1..Len(Frames) /\ FrameBytes \in Nat
  BY FrameTypes, StdioAssumption
<1>2. /\ Len(text) = FrameSize(k) + (IF Ended(k) THEN 1 ELSE 0)
      /\ text[1] = k /\ text # <<>>
  <2>1. 1 \in 1..FrameSize(k)
    BY <1>1
  <2>2. Len(text) = FrameSize(k) + (IF Ended(k) THEN 1 ELSE 0) /\ text[1] = k
    BY <1>1, <2>1, TextLayout
  <2>3. Len(text) # 0
    BY <1>1, <2>2
  <2> QED BY <2>2, <2>3
<1> DEFINE whole == {i \in DOMAIN Frames : /\ Frames[i].kind # "malformed"
                                           /\ text \in {Text(i), Append(Text(i), 0)}}
<1>3. ASSUME NEW i \in whole PROVE i = k
  <2>1. i \in 1..Len(Frames) /\ text \in {Text(i), Append(Text(i), 0)}
    BY <1>1
  <2>2. 1 \in 1..FrameSize(i)
    BY <2>1, FrameTypes
  <2>3. Text(i)[1] = i /\ Append(Text(i), 0)[1] = i
    BY <2>1, <2>2, TextLayout
  <2> QED BY <1>2, <2>1, <2>3
<1>4. k \in whole <=> Frames[k].kind # "malformed"
  BY <1>1
<1>5. Decode(text) = IF text = <<>> \/ Len(text) > FrameBytes \/ whole = {}
                       THEN Rejected ELSE CHOOSE i \in whole : TRUE
  BY DEF Decode
<1>6. Expected[k] = IF \/ Frames[k].kind = "malformed"
                       \/ FrameSize(k) + (IF Ended(k) THEN 1 ELSE 0) > FrameBytes
                     THEN Rejected ELSE k
  BY <1>1 DEF Expected, FrameSize
<1> HIDE DEF whole
<1>7. whole # {} => (CHOOSE i \in whole : TRUE) = k
  BY <1>3
<1>8. whole = {} <=> Frames[k].kind = "malformed"
  BY <1>3, <1>4
<1> QED BY <1>2, <1>5, <1>6, <1>7, <1>8

(* Where the next newline is. *)
LEMMA NextNewline ==
  ASSUME ScriptOK, NEW b, NEW rest, NEW dropping, NEW c, Unread(b, rest, dropping, c), c < Len(Frames),
         NEW z, z = Start(c + 1) + FrameSize(c + 1) + 1 - Behind(b, rest)
  PROVE  /\ z \in Nat \ {0}
         /\ \A j \in 1..Len(b) : j < z => b[j] = c + 1
         /\ z <= Len(b) => Ended(c + 1) /\ b[z] = 0 /\ Newline(b) = z
         /\ z > Len(b) => Newline(b) = 0
<1> DEFINE k == c + 1
           p == Behind(b, rest)
           n == Len(b)
           B == Len(Bytes)
<1>1. k \in 1..Len(Frames) /\ Len(Frames) \in 0..3 /\ n \in Nat /\ p \in Nat /\ Len(rest) \in Nat
  <2>1. c \in 0..Len(Frames) /\ b \in Seq(0..3) /\ rest \in Seq(0..3) /\ p \in Nat
    BY DEF Unread
  <2>2. Len(Frames) \in 0..3
    BY FrameTypes
  <2>3. k \in 1..Len(Frames)
    BY <2>1, <2>2
  <2> QED BY <2>1, <2>2, <2>3
<1>2. /\ FrameSize(k) \in Nat \ {0} /\ Ended(k) \in BOOLEAN /\ (k < Len(Frames) => Ended(k))
      /\ Start(k) \in Nat /\ Start(k + 1) = Start(k) + FrameSize(k) + (IF Ended(k) THEN 1 ELSE 0)
      /\ \A j \in 1..FrameSize(k) : Bytes[Start(k) + j] = k
      /\ Ended(k) => Bytes[Start(k) + FrameSize(k) + 1] = 0
      /\ Start(Len(Frames) + 1) = B /\ B \in Nat /\ Start(k + 1) <= B
  <2> HIDE DEF k, p, n
  <2>1. FrameSize(k) \in Nat \ {0} /\ Ended(k) \in BOOLEAN /\ (k < Len(Frames) => Ended(k))
    BY <1>1, FrameTypes
  <2>2. Start(Len(Frames) + 1) = B /\ B \in Nat
    BY Layout
  <2>3. /\ Start(k) \in Nat /\ Start(k + 1) = Start(k) + FrameSize(k) + (IF Ended(k) THEN 1 ELSE 0)
        /\ Start(k + 1) <= B
        /\ \A j \in 1..FrameSize(k) : Bytes[Start(k) + j] = k
        /\ Ended(k) => Bytes[Start(k) + FrameSize(k) + 1] = 0
    BY <1>1, Layout
  <2> QED BY <2>1, <2>2, <2>3
<1>3. /\ p = B - Len(rest) - n
      /\ Start(k) <= p /\ p <= Start(k) + FrameSize(k)
      /\ \A j \in 1..n : b[j] = Bytes[p + j]
  <2>1. p = B - Len(rest) - n /\ \A j \in 1..n : b[j] = Bytes[p + j]
    <3>1. p = B - Len(rest) - n
      BY DEF Behind
    <3>2. \A j \in 1..n : b[j] = Bytes[p + j]
      BY DEF Unread
    <3> QED BY <3>1, <3>2
  <2>2. CASE dropping
    <3>1. Start(k) < p /\ p <= Start(k) + FrameSize(k)
      BY <2>2 DEF Unread
    <3> QED BY <1>1, <1>2, <2>1, <3>1
  <2>3. CASE ~dropping
    <3>1. p = Start(k)
      BY <2>3 DEF Unread
    <3>2. Start(k) \in Nat /\ FrameSize(k) \in Nat
      BY <1>2
    <3>3. Start(k) <= p /\ p <= Start(k) + FrameSize(k)
      BY <3>1, <3>2
    <3> QED BY <2>1, <3>3
  <2> QED BY <2>2, <2>3 DEF Unread
<1>4. z = Start(k) + FrameSize(k) + 1 - p
  OBVIOUS
<1> HIDE DEF k, p, n, B
<1>5. z \in Nat \ {0}
  BY <1>1, <1>2, <1>3, <1>4
<1>6. ASSUME NEW j \in 1..n, j < z PROVE b[j] = k
  <2>1. p + j - Start(k) \in 1..FrameSize(k)
    <3>1. j \in Nat /\ j >= 1 /\ j < Start(k) + FrameSize(k) + 1 - p /\ Start(k) <= p
      BY <1>1, <1>3, <1>4, <1>6
    <3>2. Start(k) \in Nat /\ FrameSize(k) \in Nat /\ p \in Nat
      BY <1>1, <1>2
    <3> QED BY <3>1, <3>2
  <2>2. Start(k) + (p + j - Start(k)) = p + j
    BY <1>1, <1>2
  <2> QED BY <1>2, <1>3, <2>1, <2>2
<1>7. ASSUME z <= n PROVE Ended(k) /\ b[z] = 0 /\ Newline(b) = z
  <2>1. Ended(k)
    <3> SUFFICES ASSUME ~Ended(k) PROVE FALSE
      OBVIOUS
    <3>1. k = Len(Frames)
      BY <1>1, <1>2
    <3>2. B = Start(k) + FrameSize(k)
      BY <1>2, <3>1
    <3>3. Start(k) \in Nat /\ FrameSize(k) \in Nat /\ p \in Nat /\ n \in Nat /\ Len(rest) \in Nat
      BY <1>1, <1>2
    <3>4. p = B - Len(rest) - n /\ Start(k) + FrameSize(k) + 1 - p <= n
      BY <1>3, <1>4, <1>7
    <3> QED BY <3>2, <3>3, <3>4
  <2>2. z \in 1..n /\ p + z = Start(k) + FrameSize(k) + 1
    BY <1>1, <1>2, <1>4, <1>5, <1>7
  <2>3. b[z] = 0
    BY <1>2, <1>3, <2>1, <2>2
  <2>4. DOMAIN b = 1..n
    BY DEF Unread, n
  <2>5. \A m \in 1..(z - 1) : b[m] # 0
    <3> SUFFICES ASSUME NEW m \in 1..(z - 1) PROVE b[m] # 0
      OBVIOUS
    <3>1. m \in 1..n /\ m < z
      BY <1>1, <1>5, <2>2
    <3> QED BY <1>1, <1>6, <3>1
  <2> DEFINE First(m) == b[m] = 0 /\ \A y \in 1..(m - 1) : b[y] # 0
  <2>6. First(z)
    BY <2>3, <2>5
  <2>7. \A m \in 1..n : First(m) => m = z
    <3> SUFFICES ASSUME NEW m \in 1..n, First(m), m # z PROVE FALSE
      OBVIOUS
    <3>1. CASE m < z
      <4>1. m \in 1..(z - 1)
        BY <1>1, <1>5, <3>1
      <4> QED BY <2>5, <4>1
    <3>2. CASE z < m
      <4>1. z \in 1..(m - 1)
        BY <1>1, <1>5, <3>2
      <4> QED BY <2>3, <4>1
    <3> QED BY <1>1, <1>5, <3>1, <3>2
  <2>8. Newline(b) = CHOOSE m \in DOMAIN b : First(m)
    BY <2>2, <2>3, <2>4 DEF Newline
  <2> HIDE DEF First
  <2>9. Newline(b) = z
    BY <2>2, <2>4, <2>6, <2>7, <2>8
  <2> QED BY <2>1, <2>3, <2>9
<1>8. ASSUME z > n PROVE Newline(b) = 0
  <2>1. \A j \in 1..n : b[j] # 0
    BY <1>1, <1>5, <1>6, <1>8
  <2>2. DOMAIN b = 1..n
    BY DEF Unread, n
  <2> QED BY <2>1, <2>2 DEF Newline
<1> QED BY <1>5, <1>6, <1>7, <1>8 DEF k, n

(* After the last frame nothing is left. *)
LEMMA NothingUnread ==
  ASSUME ScriptOK, NEW b, NEW rest, NEW dropping, NEW c, Unread(b, rest, dropping, c), c = Len(Frames)
  PROVE  b = <<>> /\ rest = <<>> /\ ~dropping
<1>1. ~dropping
  BY DEF Unread
<1>2. Len(b) \in Nat /\ Len(rest) \in Nat /\ Len(Bytes) \in Nat /\ Behind(b, rest) = Len(Bytes)
  BY <1>1, Layout DEF Unread
<1>3. Len(b) = 0 /\ Len(rest) = 0
  BY <1>2 DEF Behind
<1> QED BY <1>1, <1>3 DEF Unread

(* What a turn of the read loop leaves: it has cut no frame and waits for   *)
(* more bytes, or it has cut the next frame.                               *)
Waiting(b) ==
  /\ \A j \in 1..Len(b) : b[j] # 0
  /\ Len(b) <= FrameBytes

(* A whole line is taken off the buffer: the next frame begins there.      *)
LEMMA ScanRest ==
  ASSUME ScriptOK, NEW b, NEW rest, NEW dropping, NEW c, Unread(b, rest, dropping, c), c < Len(Frames),
         NEW z \in 1..Len(b), Behind(b, rest) + z = Start(c + 2), Start(c + 2) \in Nat
  PROVE  Unread(SubSeq(b, z + 1, Len(b)), rest, FALSE, c + 1)
<1> DEFINE p == Behind(b, rest)
           n == Len(b)
           t == SubSeq(b, z + 1, n)
<1>1. /\ b \in Seq(0..3) /\ rest \in Seq(0..3) /\ c \in 0..Len(Frames) /\ p \in Nat
      /\ \A j \in 1..n : b[j] = Bytes[p + j]
      /\ \A j \in 1..Len(rest) : rest[j] = Bytes[p + n + j]
  BY DEF Unread
<1>2. n \in Nat /\ Len(rest) \in Nat /\ Len(Frames) \in 0..3 /\ Len(Bytes) \in Nat
  <2>1. n \in Nat /\ Len(rest) \in Nat
    BY <1>1
  <2>2. Len(Frames) \in 0..3 /\ Bytes \in Seq(0..3)
    BY FrameTypes, Layout
  <2> QED BY <2>1, <2>2
<1>3. t \in Seq(0..3) /\ Len(t) = n - z /\ \A j \in 1..(n - z) : t[j] = b[z + j]
  <2>1. z + 1 \in 1..(n + 1) /\ n \in (z + 1) - 1..n
    BY <1>2
  <2>2. t \in Seq(0..3) /\ Len(t) = n - (z + 1) + 1 /\ \A j \in 1..(n - (z + 1) + 1) : t[j] = b[(z + 1) + j - 1]
    BY <1>1, <2>1, SubSeqProperties
  <2>3. n - (z + 1) + 1 = n - z /\ \A j \in 1..(n - z) : (z + 1) + j - 1 = z + j
    BY <1>2
  <2> QED BY <2>2, <2>3
<1>4. p = Len(Bytes) - Len(rest) - n
  BY DEF Behind
<1>5. Behind(t, rest) = Len(Bytes) - Len(rest) - Len(t)
  BY DEF Behind
<1>6. p + z = Start((c + 1) + 1) /\ c + 1 \in 0..Len(Frames)
  <2>1. (c + 1) + 1 = c + 2
    BY <1>1, <1>2
  <2> QED BY <1>1, <1>2, <2>1
<1> HIDE DEF p, n, t
<1>7. Behind(t, rest) = p + z
  BY <1>1, <1>2, <1>3, <1>4, <1>5
<1>8. ASSUME NEW j \in 1..Len(t) PROVE t[j] = Bytes[(p + z) + j]
  <2>1. z + j \in 1..n /\ j \in 1..(n - z) /\ p + (z + j) = (p + z) + j
    BY <1>1, <1>2, <1>3
  <2> QED BY <1>1, <1>3, <2>1
<1>9. ASSUME NEW j \in 1..Len(rest) PROVE rest[j] = Bytes[(p + z) + Len(t) + j]
  <2>1. (p + z) + Len(t) + j = p + n + j
    BY <1>1, <1>2, <1>3
  <2> QED BY <1>1, <2>1
<1>10. p + z \in Nat
  BY <1>1
<1> QED BY <1>1, <1>3, <1>6, <1>7, <1>8, <1>9, <1>10 DEF Unread, t, n

(* Nothing of the buffer is kept: the frame is discarded from here on. *)
LEMMA ScanDropped ==
  ASSUME ScriptOK, NEW b, NEW rest, NEW dropping, NEW c, Unread(b, rest, dropping, c), c < Len(Frames),
         Start(c + 1) < Behind(b, rest) + Len(b), Behind(b, rest) + Len(b) <= Start(c + 1) + FrameSize(c + 1),
         FrameSize(c + 1) > FrameBytes
  PROVE  Unread(<<>>, rest, TRUE, c)
<1> DEFINE p == Behind(b, rest)
           n == Len(b)
<1>1. /\ b \in Seq(0..3) /\ rest \in Seq(0..3) /\ c \in 0..Len(Frames) /\ p \in Nat
      /\ \A j \in 1..Len(rest) : rest[j] = Bytes[p + n + j]
  BY DEF Unread
<1>2. n \in Nat /\ Len(rest) \in Nat /\ Len(Bytes) \in Nat
  BY <1>1, Layout
<1>3. p = Len(Bytes) - Len(rest) - n /\ Behind(<<>>, rest) = Len(Bytes) - Len(rest) - Len(<<>>)
  BY DEF Behind
<1>4. Len(<<>>) = 0 /\ <<>> \in Seq(0..3)
  BY EmptySeq
<1>5. Start(c + 1) < p + n /\ p + n <= Start(c + 1) + FrameSize(c + 1)
  OBVIOUS
<1> HIDE DEF p, n
<1>6. Behind(<<>>, rest) = p + n /\ p + n \in Nat
  BY <1>1, <1>2, <1>3, <1>4
<1>7. \A j \in 1..Len(rest) : rest[j] = Bytes[p + n + Len(<<>>) + j]
  BY <1>1, <1>2, <1>4
<1>8. \A j \in 1..Len(<<>>) : <<>>[j] = Bytes[p + n + j]
  BY <1>4
<1> QED BY <1>1, <1>4, <1>5, <1>6, <1>7, <1>8 DEF Unread

(* What is expected of a frame is its number or an error.                  *)
LEMMA ExpectedValue ==
  ASSUME ScriptOK, NEW k \in 1..Len(Frames)
  PROVE  /\ DOMAIN Expected = 1..Len(Frames) /\ Expected[k] \in 0..3
         /\ Expected[k] \in {Rejected, k}
         /\ FrameSize(k) > FrameBytes => Expected[k] = Rejected
<1>1. DOMAIN Frames = 1..Len(Frames) /\ FrameSize(k) \in Nat /\ k \in 0..3 /\ FrameBytes \in Nat /\ Ended(k) \in BOOLEAN
  <2>1. Len(Frames) \in 0..3 /\ FrameBytes \in Nat
    BY FrameTypes, StdioAssumption
  <2> QED BY <2>1, FrameTypes
<1>2. Expected[k] = IF \/ Frames[k].kind = "malformed"
                       \/ FrameSize(k) + (IF Ended(k) THEN 1 ELSE 0) > FrameBytes
                     THEN Rejected ELSE k
  BY <1>1 DEF Expected, FrameSize
<1>3. DOMAIN Expected = 1..Len(Frames)
  BY <1>1 DEF Expected
<1> QED BY <1>1, <1>2, <1>3 DEF Rejected

(* The cases of a turn of the read loop.                                   *)
LEMMA ScanCases ==
  ASSUME NEW b, NEW dropping \in BOOLEAN, NEW n \in Nat, n = Newline(b), Len(b) \in Nat
  PROVE  /\ n > 0 => Scan(b, dropping) =
              [buffer |-> SubSeq(b, n + 1, Len(b)), discarding |-> FALSE,
               item |-> IF dropping THEN Rejected ELSE Decode(SubSeq(b, 1, n))]
         /\ (n = 0 /\ (dropping \/ Len(b) > FrameBytes)) =>
              Scan(b, dropping) = [buffer |-> <<>>, discarding |-> TRUE, item |-> NoItem]
         /\ (n = 0 /\ ~dropping /\ ~(Len(b) > FrameBytes)) =>
              Scan(b, dropping) = [buffer |-> b, discarding |-> FALSE, item |-> NoItem]
<1>1. ASSUME n > 0, dropping
      PROVE  Scan(b, dropping) = [buffer |-> SubSeq(b, n + 1, Len(b)), discarding |-> FALSE, item |-> Rejected]
  BY <1>1 DEF Scan
<1>2. ASSUME n > 0, ~dropping
      PROVE  Scan(b, dropping) = [buffer |-> SubSeq(b, n + 1, Len(b)), discarding |-> FALSE,
                                  item |-> Decode(SubSeq(b, 1, n))]
  BY <1>2 DEF Scan
<1>3. ASSUME n = 0, dropping
      PROVE  Scan(b, dropping) = [buffer |-> <<>>, discarding |-> TRUE, item |-> NoItem]
  BY <1>3 DEF Scan
<1>4. ASSUME n = 0, ~dropping, Len(b) > FrameBytes
      PROVE  Scan(b, dropping) = [buffer |-> <<>>, discarding |-> TRUE, item |-> NoItem]
  BY <1>4 DEF Scan
<1>5. ASSUME n = 0, ~dropping, ~(Len(b) > FrameBytes)
      PROVE  Scan(b, dropping) = [buffer |-> b, discarding |-> FALSE, item |-> NoItem]
  BY <1>5 DEF Scan
<1> QED BY <1>1, <1>2, <1>3, <1>4, <1>5

(* A turn of the read loop cuts the next frame, or no frame and waits.     *)
LEMMA ScanStep ==
  ASSUME ScriptOK, NEW b, NEW rest, NEW dropping, NEW c, Unread(b, rest, dropping, c),
         NEW s, s = Scan(b, dropping)
  PROVE  \/ /\ s.item = NoItem /\ Unread(s.buffer, rest, s.discarding, c) /\ Waiting(s.buffer)
         \/ /\ c < Len(Frames) /\ s.item = Expected[c + 1] /\ s.item # NoItem
            /\ Unread(s.buffer, rest, s.discarding, c + 1)
<1>0. /\ b \in Seq(0..3) /\ rest \in Seq(0..3) /\ c \in 0..Len(Frames) /\ Len(b) \in Nat
      /\ Behind(b, rest) \in Nat /\ FrameBytes \in Nat \ {0} /\ dropping \in BOOLEAN
  BY StdioAssumption DEF Unread
<1>1. CASE c = Len(Frames)
  <2>1. b = <<>> /\ ~dropping
    BY <1>1, NothingUnread
  <2>2. Newline(b) = 0
    BY <2>1 DEF Newline
  <2>3. s = [buffer |-> b, discarding |-> FALSE, item |-> NoItem]
    BY <1>0, <2>1, <2>2, ScanCases
  <2>4. dropping = FALSE
    BY <1>0, <2>1
  <2>5. Unread(b, rest, FALSE, c)
    BY <2>4
  <2>6. Waiting(b)
    BY <1>0, <2>1 DEF Waiting
  <2>7. s.buffer = b /\ s.discarding = FALSE /\ s.item = NoItem
    BY <2>3
  <2> QED BY <2>5, <2>6, <2>7
<1>2. CASE c < Len(Frames)
  <2> DEFINE k == c + 1
             p == Behind(b, rest)
             z == Start(k) + FrameSize(k) + 1 - p
  <2>1. /\ z \in Nat \ {0}
        /\ \A j \in 1..Len(b) : j < z => b[j] = k
        /\ z <= Len(b) => Ended(k) /\ b[z] = 0 /\ Newline(b) = z
        /\ z > Len(b) => Newline(b) = 0
    BY <1>2, NextNewline
  <2>2. k \in 1..Len(Frames) /\ Len(Frames) \in 0..3
    BY <1>0, <1>2, FrameTypes
  <2>3. /\ FrameSize(k) \in Nat \ {0} /\ Start(k) \in Nat /\ Start(k + 1) \in Nat
        /\ Start(k + 1) = Start(k) + FrameSize(k) + (IF Ended(k) THEN 1 ELSE 0)
    BY <2>2, FrameTypes, Layout
  <2>4. /\ ~dropping => p = Start(k)
        /\ dropping => FrameSize(k) > FrameBytes /\ Start(k) < p
    BY DEF Unread
  <2>5. Expected[k] \in 0..3 /\ (FrameSize(k) > FrameBytes => Expected[k] = Rejected)
    BY <2>2, ExpectedValue
  <2>6. z = Start(k) + FrameSize(k) + 1 - p
    OBVIOUS
  <2>7. k + 1 = c + 2 /\ p \in Nat
    BY <1>0
  <2> HIDE DEF z
  <2>8. CASE z <= Len(b)
    <3>1. Newline(b) = z /\ Ended(k) /\ b[z] = 0 /\ z \in 1..Len(b)
      BY <1>0, <2>1, <2>8
    <3>2. p + z = Start(k + 1)
      BY <2>3, <2>6, <2>7, <3>1
    <3>3. Unread(SubSeq(b, z + 1, Len(b)), rest, FALSE, k)
      BY <1>2, <2>3, <2>7, <3>1, <3>2, ScanRest
    <3>4. s.buffer = SubSeq(b, z + 1, Len(b)) /\ s.discarding = FALSE
          /\ s.item = IF dropping THEN Rejected ELSE Decode(SubSeq(b, 1, z))
      BY <1>0, <3>1, ScanCases
    <3>5. ASSUME ~dropping PROVE SubSeq(b, 1, z) = Append(Text(k), 0)
      <4> DEFINE u == SubSeq(b, 1, z)
                 v == Append(Text(k), 0)
      <4>1. z = FrameSize(k) + 1
        BY <2>3, <2>4, <2>6, <3>5
      <4>2. u \in Seq(0..3) /\ Len(u) = z /\ \A j \in 1..z : u[j] = b[j]
        <5>1. 1 \in 1..(Len(b) + 1) /\ z \in 1 - 1..Len(b)
          BY <1>0, <3>1
        <5>2. u \in Seq(0..3) /\ Len(u) = z - 1 + 1 /\ \A j \in 1..(z - 1 + 1) : u[j] = b[1 + j - 1]
          BY <1>0, <5>1, SubSeqProperties
        <5>3. z - 1 + 1 = z /\ \A j \in 1..z : 1 + j - 1 = j
          BY <2>1
        <5> QED BY <5>2, <5>3
      <4>3. /\ v \in Seq(0..3) /\ Len(v) = FrameSize(k) + 1
            /\ \A j \in 1..FrameSize(k) : v[j] = k
            /\ v[FrameSize(k) + 1] = 0
        BY <2>2, TextLayout
      <4>4. ASSUME NEW j \in 1..Len(u) PROVE u[j] = v[j]
        <5>1. CASE j = z
          BY <3>1, <4>1, <4>2, <4>3, <5>1
        <5>2. CASE j # z
          <6>1. j \in 1..z /\ FrameSize(k) \in Nat /\ Len(b) \in Nat /\ z <= Len(b)
            BY <1>0, <2>3, <2>8, <4>2
          <6>2. j \in 1..FrameSize(k) /\ j < z /\ j \in 1..Len(b)
            BY <4>1, <5>2, <6>1
          <6> QED BY <2>1, <4>2, <4>3, <6>1, <6>2
        <5> QED BY <5>1, <5>2
      <4> HIDE DEF u, v
      <4>5. u = v
        BY <4>1, <4>2, <4>3, <4>4, SeqEqual
      <4> QED BY <4>5 DEF u, v
    <3>6. s.item = Expected[k]
      <4>1. CASE dropping
        BY <2>4, <2>5, <3>4, <4>1
      <4>2. CASE ~dropping
        BY <2>2, <3>1, <3>4, <3>5, <4>2, DecodeWhole
      <4> QED BY <1>0, <4>1, <4>2
    <3>7. s.item # NoItem
      BY <2>5, <3>6 DEF NoItem
    <3> QED BY <1>2, <3>3, <3>4, <3>6, <3>7
  <2>9. CASE z > Len(b)
    <3>1. Newline(b) = 0 /\ \A j \in 1..Len(b) : b[j] = k
      BY <1>0, <2>1, <2>9
    <3>2. p + Len(b) <= Start(k) + FrameSize(k)
      BY <1>0, <2>3, <2>6, <2>7, <2>9
    <3>3. CASE dropping \/ Len(b) > FrameBytes
      <4>1. s.buffer = <<>> /\ s.discarding = TRUE /\ s.item = NoItem
        BY <1>0, <3>1, <3>3, ScanCases
      <4>2. FrameSize(k) > FrameBytes /\ Start(k) < p + Len(b)
        BY <1>0, <2>3, <2>4, <2>7, <3>2, <3>3
      <4>3. Unread(<<>>, rest, TRUE, c)
        BY <1>2, <3>2, <4>2, ScanDropped
      <4>4. Waiting(<<>>)
        BY <1>0, EmptySeq DEF Waiting
      <4> QED BY <4>1, <4>3, <4>4
    <3>4. CASE ~dropping /\ ~(Len(b) > FrameBytes)
      <4>1. s.buffer = b /\ s.discarding = FALSE /\ s.item = NoItem
        BY <1>0, <3>1, <3>4, ScanCases
      <4>2. Waiting(b)
        BY <1>0, <2>2, <3>1, <3>4 DEF Waiting
      <4>3. dropping = FALSE
        BY <1>0, <3>4
      <4>4. Unread(b, rest, FALSE, c)
        BY <4>3
      <4> QED BY <4>1, <4>2, <4>4
    <3> QED BY <1>0, <3>3, <3>4
  <2> QED BY <1>0, <2>1, <2>8, <2>9
<1>3. c = Len(Frames) \/ c < Len(Frames)
  <2>1. Len(Frames) \in 0..3
    BY FrameTypes
  <2>2. c \in 0..Len(Frames)
    BY <1>0
  <2> QED BY <2>1, <2>2
<1> QED BY <1>1, <1>2, <1>3

(* The frames that have been cut: those handed over and the one being sent. *)
Cut == Len(handed) + (IF reader.at = "sending" THEN 1 ELSE 0)

(* The reader has cut the first frames of the script and handed over all   *)
(* of them but the one it is sending; what it holds and what it has still  *)
(* to read are the rest; when it waits for bytes it holds no whole frame.  *)
ReaderInv ==
  /\ ScriptOK
  /\ Unread(buffer, input, discarding, Cut)
  /\ handed \in Seq(0..3)
  /\ \A n \in 1..Len(handed) : handed[n] = Expected[n]
  /\ reader.at \in {"reading", "sending", "closed"}
  /\ reader.at = "sending" => reader.item = Expected[Cut]
  /\ reader.at = "reading" => Waiting(buffer)
  /\ reader.at = "closed" => Len(handed) = Len(Frames)

(* What depends on the script alone stays.                                 *)
LEMMA ScriptFixed ==
  ASSUME script' = script
  PROVE  /\ Frames' = Frames /\ Bytes' = Bytes /\ Expected' = Expected /\ (ScriptOK' <=> ScriptOK)
         /\ \A k \in 1..4 : Start(k)' = Start(k) /\ FrameSize(k)' = FrameSize(k)
<1>1. Frames' = Frames
  BY DEF Frames
<1>2. \A i \in 1..3 : Line(i)' = Line(i)
  BY <1>1 DEF Line, Ended, Text
<1>3. Line(1)' = Line(1) /\ Line(2)' = Line(2) /\ Line(3)' = Line(3)
  BY <1>2
<1>4. Bytes' = Bytes /\ \A k \in 1..4 : Start(k)' = Start(k)
  BY <1>3 DEF Bytes, Start
<1>5. Expected' = Expected
  BY <1>1 DEF Expected, Ended
<1>6. ScriptOK' <=> ScriptOK
  BY <1>1 DEF ScriptOK
<1>7. \A k \in 1..4 : FrameSize(k)' = FrameSize(k)
  BY <1>1 DEF FrameSize
<1> QED BY <1>1, <1>4, <1>5, <1>6, <1>7

LEMMA UnreadFixed ==
  ASSUME ScriptOK, script' = script, NEW c, Unread(buffer', input', discarding', c), Cut' = c
  PROVE  Unread(buffer, input, discarding, Cut)'
<1>1. Frames' = Frames /\ Bytes' = Bytes /\ \A k \in 1..4 : Start(k)' = Start(k) /\ FrameSize(k)' = FrameSize(k)
  BY ScriptFixed
<1>2. c \in 0..Len(Frames) /\ Len(Frames) \in 0..3
  BY FrameTypes DEF Unread
<1>3. c + 1 \in 1..4
  <2>1. \A n \in 0..3 : \A m \in 0..n : m + 1 \in 1..4
    OBVIOUS
  <2> QED BY <1>2, <2>1
<1>4. Start(c + 1)' = Start(c + 1) /\ FrameSize(c + 1)' = FrameSize(c + 1)
  BY <1>1, <1>3
<1>5. Start(Cut + 1)' = Start(c + 1) /\ FrameSize(Cut + 1)' = FrameSize(c + 1)
  BY <1>4 DEF Start, FrameSize
<1>6. Behind(buffer, input)' = Behind(buffer', input')
  BY <1>1 DEF Behind
<1> QED BY <1>1, <1>5, <1>6 DEF Unread

(* What the reader does when it goes on with the buffer b. *)
LEMMA ResumeStep ==
  ASSUME ScriptOK, script' = script, NEW b, NEW c, Unread(b, input', discarding, c), Resume(b, discarding),
         handed' \in Seq(0..3), \A n \in 1..Len(handed') : handed'[n] = Expected[n], Len(handed') = c
  PROVE  ReaderInv'
<1> DEFINE s == Scan(b, discarding)
<1>1. buffer' = s.buffer /\ discarding' = s.discarding
      /\ reader' = [at |-> IF s.item = NoItem THEN "reading" ELSE "sending", item |-> s.item]
  BY DEF Resume
<1>2. \/ /\ s.item = NoItem /\ Unread(s.buffer, input', s.discarding, c) /\ Waiting(s.buffer)
      \/ /\ c < Len(Frames) /\ s.item = Expected[c + 1] /\ s.item # NoItem
         /\ Unread(s.buffer, input', s.discarding, c + 1)
  BY ScanStep
<1>3. ScriptOK' /\ Expected' = Expected /\ Frames' = Frames
  BY ScriptFixed
<1> HIDE DEF s
<1>4. CASE s.item = NoItem /\ Unread(s.buffer, input', s.discarding, c) /\ Waiting(s.buffer)
  <2>1. reader'.at = "reading"
    BY <1>1, <1>4
  <2>2. Cut' = c
    BY <2>1 DEF Cut
  <2>3. Unread(buffer', input', discarding', c) /\ Waiting(buffer')
    BY <1>1, <1>4
  <2>4. Unread(buffer, input, discarding, Cut)'
    BY <2>2, <2>3, UnreadFixed
  <2>5. Waiting(buffer)'
    BY <2>3 DEF Waiting
  <2> QED BY <1>3, <2>1, <2>4, <2>5 DEF ReaderInv
<1>5. CASE /\ c < Len(Frames) /\ s.item = Expected[c + 1] /\ s.item # NoItem
           /\ Unread(s.buffer, input', s.discarding, c + 1)
  <2>1. reader'.at = "sending" /\ reader'.item = Expected[c + 1]
    BY <1>1, <1>5
  <2>2. Cut' = c + 1
    BY <2>1 DEF Cut
  <2>3. Unread(buffer', input', discarding', c + 1)
    BY <1>1, <1>5
  <2>4. Unread(buffer, input, discarding, Cut)'
    BY <2>2, <2>3, UnreadFixed
  <2> QED BY <1>3, <2>1, <2>2, <2>4 DEF ReaderInv
<1> QED BY <1>2, <1>4, <1>5

(* A chunk moves from the input to the buffer. *)
LEMMA ChunkMoves ==
  ASSUME ScriptOK, NEW b, NEW rest, NEW dropping, NEW c, Unread(b, rest, dropping, c), NEW m \in 1..Len(rest)
  PROVE  Unread(b \o SubSeq(rest, 1, m), SubSeq(rest, m + 1, Len(rest)), dropping, c)
<1> DEFINE p == Behind(b, rest)
           n == Len(b)
           r == Len(rest)
           chunk == SubSeq(rest, 1, m)
           b2 == b \o chunk
           rest2 == SubSeq(rest, m + 1, r)
<1>1. /\ b \in Seq(0..3) /\ rest \in Seq(0..3) /\ c \in 0..Len(Frames) /\ p \in Nat
      /\ \A j \in 1..n : b[j] = Bytes[p + j]
      /\ \A j \in 1..r : rest[j] = Bytes[p + n + j]
  BY DEF Unread
<1>2. n \in Nat /\ r \in Nat /\ Len(Bytes) \in Nat /\ m \in Nat /\ m <= r /\ m >= 1
  <2>1. n \in Nat /\ r \in Nat
    BY <1>1
  <2>2. Len(Bytes) \in Nat
    BY Layout
  <2> QED BY <2>1, <2>2
<1>3. chunk \in Seq(0..3) /\ Len(chunk) = m /\ \A j \in 1..m : chunk[j] = rest[j]
  <2>1. 1 \in 1..(r + 1) /\ m \in 1 - 1..r
    BY <1>2
  <2>2. chunk \in Seq(0..3) /\ Len(chunk) = m - 1 + 1 /\ \A j \in 1..(m - 1 + 1) : chunk[j] = rest[1 + j - 1]
    BY <1>1, <2>1, SubSeqProperties
  <2>3. m - 1 + 1 = m /\ \A j \in 1..m : 1 + j - 1 = j
    BY <1>2
  <2> QED BY <2>2, <2>3
<1>4. rest2 \in Seq(0..3) /\ Len(rest2) = r - m /\ \A j \in 1..(r - m) : rest2[j] = rest[m + j]
  <2>1. m + 1 \in 1..(r + 1) /\ r \in (m + 1) - 1..r
    BY <1>2
  <2>2. /\ rest2 \in Seq(0..3) /\ Len(rest2) = r - (m + 1) + 1
        /\ \A j \in 1..(r - (m + 1) + 1) : rest2[j] = rest[(m + 1) + j - 1]
    BY <1>1, <2>1, SubSeqProperties
  <2>3. r - (m + 1) + 1 = r - m /\ \A j \in 1..(r - m) : (m + 1) + j - 1 = m + j
    BY <1>2
  <2> QED BY <2>2, <2>3
<1>5. /\ b2 \in Seq(0..3) /\ Len(b2) = n + m
      /\ \A j \in 1..(n + m) : b2[j] = IF j <= n THEN b[j] ELSE chunk[j - n]
  BY <1>1, <1>3, ConcatProperties
<1>6. p = Len(Bytes) - r - n /\ Behind(b2, rest2) = Len(Bytes) - Len(rest2) - Len(b2)
  BY DEF Behind
<1>7. /\ dropping \in BOOLEAN
      /\ ~dropping => p = Start(c + 1)
      /\ dropping => /\ c < Len(Frames) /\ FrameSize(c + 1) > FrameBytes
                     /\ Start(c + 1) < p /\ p <= Start(c + 1) + FrameSize(c + 1)
  BY DEF Unread
<1> HIDE DEF p, n, r, chunk, b2, rest2
<1>8. Behind(b2, rest2) = p
  <2>1. Behind(b2, rest2) = Len(Bytes) - (r - m) - (n + m)
    BY <1>4, <1>5, <1>6
  <2>2. Len(Bytes) - (r - m) - (n + m) = Len(Bytes) - r - n
    BY <1>2
  <2> QED BY <1>6, <2>1, <2>2
<1>9. ASSUME NEW j \in 1..Len(b2) PROVE b2[j] = Bytes[p + j]
  <2>1. j \in 1..(n + m)
    BY <1>5
  <2>2. CASE j <= n
    <3>1. j \in 1..n
      BY <1>2, <2>1, <2>2
    <3> QED BY <1>1, <1>5, <2>1, <2>2, <3>1
  <2>3. CASE ~(j <= n)
    <3>1. j - n \in 1..m /\ j - n \in 1..r /\ p + n + (j - n) = p + j
      BY <1>1, <1>2, <2>1, <2>3
    <3>2. b2[j] = chunk[j - n]
      BY <1>5, <2>1, <2>3
    <3>3. chunk[j - n] = rest[j - n]
      BY <1>3, <3>1
    <3>4. rest[j - n] = Bytes[p + n + (j - n)]
      BY <1>1, <3>1
    <3> QED BY <3>1, <3>2, <3>3, <3>4
  <2> QED BY <2>2, <2>3
<1>10. ASSUME NEW j \in 1..Len(rest2) PROVE rest2[j] = Bytes[p + Len(b2) + j]
  <2>1. j \in 1..(r - m) /\ m + j \in 1..r /\ p + n + (m + j) = p + (n + m) + j
    BY <1>1, <1>2, <1>4
  <2>2. rest2[j] = rest[m + j]
    BY <1>4, <2>1
  <2>3. rest[m + j] = Bytes[p + n + (m + j)]
    BY <1>1, <2>1
  <2> QED BY <1>5, <2>1, <2>2, <2>3
<1>11. Unread(b2, rest2, dropping, c)
  BY <1>1, <1>4, <1>5, <1>7, <1>8, <1>9, <1>10 DEF Unread
<1> QED BY <1>11 DEF b2, rest2, chunk, r

LEMMA ReaderInitHolds == StdioInit => ReaderInv
<1> SUFFICES ASSUME StdioInit PROVE ReaderInv
  OBVIOUS
<1>1. ScriptOK
  BY ScriptsOK DEF StdioInit
<1>2. input = Bytes /\ buffer = <<>> /\ discarding = FALSE /\ handed = <<>>
      /\ reader.at = "reading" /\ Cut = 0
  BY EmptySeq DEF StdioInit, Cut
<1>3. Bytes \in Seq(0..3) /\ Start(1) = 0 /\ Len(Frames) \in 0..3
  BY <1>1, Layout, FrameTypes
<1>4. Behind(buffer, input) = 0
  <2>1. Behind(buffer, input) = Len(Bytes) - Len(Bytes) - Len(<<>>)
    BY <1>2 DEF Behind
  <2>2. Len(Bytes) \in Nat
    BY <1>3
  <2>3. Len(<<>>) = 0
    OBVIOUS
  <2>4. \A l \in Nat : l - l - 0 = 0
    OBVIOUS
  <2> QED BY <2>1, <2>2, <2>3, <2>4
<1>5. Unread(buffer, input, discarding, Cut)
  <2>1. buffer \in Seq(0..3) /\ Len(buffer) = 0
    BY <1>2, EmptySeq
  <2>2. 0 \in 0..Len(Frames) /\ Start(0 + 1) = 0
    BY <1>3
  <2>3. \A j \in 1..Len(input) : input[j] = Bytes[0 + 0 + j]
    <3>1. Len(input) \in Nat
      BY <1>2, <1>3
    <3> QED BY <1>2, <3>1
  <2>4. \A j \in 1..Len(buffer) : buffer[j] = Bytes[0 + j]
    BY <2>1
  <2>5. input \in Seq(0..3) /\ discarding \in BOOLEAN /\ ~discarding
    BY <1>2, <1>3
  <2>6. 0 = Start(0 + 1)
    BY <2>2
  <2> QED BY <1>2, <1>4, <2>1, <2>2, <2>3, <2>4, <2>5, <2>6 DEF Unread
<1>6. Waiting(buffer)
  BY <1>2, EmptySeq, StdioAssumption DEF Waiting
<1> QED BY <1>1, <1>2, <1>5, <1>6, EmptySeq DEF ReaderInv

LEMMA ChunkStep == ReaderInv /\ ReadChunk => ReaderInv'
<1> SUFFICES ASSUME ReaderInv, ReadChunk PROVE ReaderInv'
  OBVIOUS
<1>1. PICK m \in 1..ChunkBytes :
        /\ m <= Len(input) /\ input' = SubSeq(input, m + 1, Len(input))
        /\ Resume(buffer \o SubSeq(input, 1, m), discarding)
  BY DEF ReadChunk
<1>2. script' = script /\ handed' = handed /\ reader.at = "reading"
  BY DEF ReadChunk
<1>3. ScriptOK /\ Unread(buffer, input, discarding, Len(handed)) /\ handed \in Seq(0..3)
      /\ \A n \in 1..Len(handed) : handed[n] = Expected[n]
  BY <1>2 DEF ReaderInv, Cut
<1>4. m \in 1..Len(input)
  <2>1. Len(input) \in Nat /\ ChunkBytes \in Nat
    BY <1>3, StdioAssumption DEF Unread
  <2> QED BY <1>1, <2>1
<1>5. Unread(buffer \o SubSeq(input, 1, m), input', discarding, Len(handed))
  BY <1>1, <1>3, <1>4, ChunkMoves
<1> QED BY <1>1, <1>2, <1>3, <1>5, ResumeStep

(* An item that is handed over is the one expected next.                   *)
LEMMA DeliverStep == ReaderInv /\ Deliver => ReaderInv' /\ handed' = Append(handed, Expected[Len(handed) + 1])
                                            /\ Len(handed) < Len(Frames) /\ reader.item = Expected[Len(handed) + 1]
<1> SUFFICES ASSUME ReaderInv, Deliver
             PROVE  ReaderInv' /\ handed' = Append(handed, Expected[Len(handed) + 1])
                    /\ Len(handed) < Len(Frames) /\ reader.item = Expected[Len(handed) + 1]
  OBVIOUS
<1>1. /\ handed' = Append(handed, reader.item) /\ Resume(buffer, discarding)
      /\ script' = script /\ input' = input /\ reader.at = "sending"
  BY DEF Deliver
<1> DEFINE c == Len(handed) + 1
<1>2. ScriptOK /\ Unread(buffer, input, discarding, c) /\ handed \in Seq(0..3)
      /\ (\A n \in 1..Len(handed) : handed[n] = Expected[n]) /\ reader.item = Expected[c]
  BY <1>1 DEF ReaderInv, Cut
<1>3. c \in 1..Len(Frames)
  <2>1. c \in 0..Len(Frames) /\ Len(handed) \in Nat
    BY <1>2 DEF Unread
  <2> QED BY <2>1
<1>4. Expected[c] \in 0..3
  BY <1>2, <1>3, ExpectedValue
<1>5. /\ handed' \in Seq(0..3) /\ Len(handed') = c
      /\ \A n \in 1..Len(handed') : handed'[n] = IF n <= Len(handed) THEN handed[n] ELSE Expected[c]
  BY <1>1, <1>2, <1>4, AppendProperties
<1>6. ASSUME NEW n \in 1..Len(handed') PROVE handed'[n] = Expected[n]
  <2>1. Len(handed) \in Nat
    BY <1>2
  <2>2. n \in 1..Len(handed) \/ (n = c /\ ~(n <= Len(handed)))
    BY <1>5, <2>1
  <2> QED BY <1>2, <1>5, <2>1, <2>2
<1>7. Unread(buffer, input', discarding, c)
  BY <1>1, <1>2
<1> HIDE DEF c
<1>8. ReaderInv'
  BY <1>1, <1>2, <1>5, <1>6, <1>7, ResumeStep
<1>9. Len(handed) < Len(Frames)
  <2>1. Len(handed) \in Nat /\ Len(Frames) \in 0..3
    BY <1>2, FrameTypes
  <2> QED BY <1>3, <2>1 DEF c
<1> QED BY <1>1, <1>2, <1>8, <1>9 DEF c

(* At the end of the input the bytes that are left are the last frame. *)
LEMMA LastFrame ==
  ASSUME ScriptOK, NEW b, NEW dropping, NEW c, Unread(b, <<>>, dropping, c), Waiting(b)
  PROVE  /\ ~dropping /\ b = <<>> => c = Len(Frames)
         /\ dropping \/ b # <<>> =>
              /\ c + 1 = Len(Frames) /\ Unread(<<>>, <<>>, FALSE, c + 1)
              /\ (IF dropping THEN Rejected ELSE Decode(b)) = Expected[c + 1]
<1> DEFINE k == c + 1
           p == Behind(b, <<>>)
           n == Len(b)
           z == Start(k) + FrameSize(k) + 1 - p
<1>1. /\ b \in Seq(0..3) /\ dropping \in BOOLEAN /\ c \in 0..Len(Frames) /\ p \in Nat
      /\ \A j \in 1..n : b[j] = Bytes[p + j]
      /\ ~dropping => p = Start(k)
      /\ dropping => FrameSize(k) > FrameBytes /\ p <= Start(k) + FrameSize(k)
  BY DEF Unread
<1>2. Len(Frames) \in 0..3 /\ n \in Nat /\ Bytes \in Seq(0..3) /\ Len(Bytes) \in Nat
      /\ Start(Len(Frames) + 1) = Len(Bytes)
  <2>1. n \in Nat
    BY <1>1
  <2>2. Len(Frames) \in 0..3
    BY FrameTypes
  <2>3. Bytes \in Seq(0..3) /\ Start(Len(Frames) + 1) = Len(Bytes)
    BY Layout
  <2> QED BY <2>1, <2>2, <2>3
<1>3. p + n = Len(Bytes)
  BY <1>1, <1>2, EmptySeq DEF Behind
<1>4. CASE c = Len(Frames)
  <2>1. b = <<>> /\ ~dropping
    BY <1>4, NothingUnread
  <2> QED BY <1>4, <2>1
<1>5. CASE c # Len(Frames)
  <2>1. c < Len(Frames) /\ k \in 1..Len(Frames)
    BY <1>1, <1>2, <1>5
  <2>2. /\ z \in Nat \ {0}
        /\ z <= n => b[z] = 0
        /\ z > n => Newline(b) = 0
        /\ \A j \in 1..n : j < z => b[j] = k
    BY <2>1, NextNewline
  <2>3. z > n
    <3>1. ASSUME z <= n PROVE FALSE
      <4>1. z \in 1..n
        BY <1>2, <2>2, <3>1
      <4> QED BY <2>2, <3>1, <4>1 DEF Waiting
    <3> QED BY <1>2, <2>2, <3>1
  <2>4. /\ FrameSize(k) \in Nat \ {0} /\ Start(k) \in Nat /\ Start(k + 1) \in Nat
        /\ Start(k + 1) = Start(k) + FrameSize(k) + (IF Ended(k) THEN 1 ELSE 0)
        /\ Start(k + 1) <= Len(Bytes) /\ Ended(k) \in BOOLEAN /\ (k < Len(Frames) => Ended(k))
    BY <2>1, FrameTypes, Layout
  <2>5. z = Start(k) + FrameSize(k) + 1 - p
    OBVIOUS
  <2>6. k = c + 1
    OBVIOUS
  <2> HIDE DEF z, p, n
  <2>7. p + n <= Start(k) + FrameSize(k)
    BY <1>1, <1>2, <2>2, <2>3, <2>4, <2>5
  <2>8. ~Ended(k) /\ Start(k + 1) = Len(Bytes)
    BY <1>2, <1>3, <2>4, <2>7
  <2>9. k = Len(Frames)
    BY <1>2, <2>1, <2>4, <2>8
  <2>10. dropping \/ b # <<>>
    <3>1. ASSUME ~dropping, b = <<>> PROVE FALSE
      <4>1. n = 0 /\ p = Start(k)
        BY <1>1, <3>1, EmptySeq DEF n
      <4> QED BY <1>2, <1>3, <2>4, <2>8, <4>1
    <3> QED BY <3>1
  <2>11. Unread(<<>>, <<>>, FALSE, k)
    <3>1. Behind(<<>>, <<>>) = Len(Bytes)
      BY <1>2, EmptySeq DEF Behind
    <3>2. k \in 0..Len(Frames) /\ Start(k + 1) = Len(Bytes)
      BY <1>2, <2>8, <2>9
    <3> QED BY <1>2, <3>1, <3>2, EmptySeq DEF Unread
  <2>12. CASE dropping
    BY <1>1, <2>1, <2>6, <2>9, <2>10, <2>11, <2>12, ExpectedValue
  <2>13. CASE ~dropping
    <3>1. n = FrameSize(k) /\ p = Start(k)
      BY <1>1, <1>2, <1>3, <2>4, <2>8, <2>13
    <3>2. Text(k) \in Seq(0..3) /\ Len(Text(k)) = FrameSize(k) /\ \A j \in 1..FrameSize(k) : Text(k)[j] = k
      BY <2>1, TextLayout
    <3>3. ASSUME NEW j \in 1..n PROVE b[j] = Text(k)[j]
      <4>1. j < z
        BY <1>2, <2>2, <2>3
      <4> QED BY <2>2, <3>1, <3>2, <4>1
    <3>4. b = Text(k)
      BY <1>1, <3>1, <3>2, <3>3, SeqEqual DEF n
    <3>5. Decode(b) = Expected[k]
      BY <2>1, <2>8, <3>4, DecodeWhole
    <3> QED BY <2>6, <2>9, <2>10, <2>11, <2>13, <3>5
  <2> QED BY <1>1, <2>12, <2>13
<1> QED BY <1>4, <1>5

(* The end of the input.                                                   *)
LEMMA EofStep == ReaderInv /\ ReadEof => ReaderInv'
<1> SUFFICES ASSUME ReaderInv, ReadEof PROVE ReaderInv'
  OBVIOUS
<1> DEFINE c == Len(handed)
<1>1. /\ script' = script /\ handed' = handed /\ reader.at = "reading" /\ input = <<>> /\ input' = input
      /\ buffer' = <<>> /\ discarding' = FALSE
  BY DEF ReadEof
<1>2. ScriptOK /\ Unread(buffer, input, discarding, c) /\ handed \in Seq(0..3)
      /\ (\A n \in 1..Len(handed) : handed[n] = Expected[n]) /\ Waiting(buffer)
  BY <1>1 DEF ReaderInv, Cut
<1>3. /\ ~discarding /\ buffer = <<>> => c = Len(Frames)
      /\ discarding \/ buffer # <<>> =>
           /\ c + 1 = Len(Frames) /\ Unread(<<>>, <<>>, FALSE, c + 1)
           /\ (IF discarding THEN Rejected ELSE Decode(buffer)) = Expected[c + 1]
  BY <1>1, <1>2, LastFrame
<1>4. ScriptOK' /\ Expected' = Expected /\ Frames' = Frames
  BY <1>1, <1>2, ScriptFixed
<1>5. Len(handed') = c
  BY <1>1
<1> HIDE DEF c
<1>6. CASE discarding \/ buffer # <<>>
  <2>1. reader' = [at |-> "sending", item |-> IF discarding THEN Rejected ELSE Decode(buffer)]
    BY <1>6 DEF ReadEof
  <2>2. reader'.at = "sending" /\ reader'.item = Expected[c + 1] /\ Cut' = c + 1
    BY <1>3, <1>5, <1>6, <2>1 DEF Cut
  <2>3. Unread(buffer', input', discarding', c + 1)
    BY <1>1, <1>3, <1>6
  <2>4. Unread(buffer, input, discarding, Cut)'
    BY <1>1, <1>2, <2>2, <2>3, UnreadFixed
  <2> QED BY <1>1, <1>2, <1>4, <2>2, <2>4 DEF ReaderInv
<1>7. CASE ~(discarding \/ buffer # <<>>)
  <2>1. reader' = [at |-> "closed", item |-> NoItem]
    BY <1>7 DEF ReadEof
  <2>2. reader'.at = "closed" /\ Cut' = c
    <3>1. reader'.at = "closed"
      BY <2>1
    <3>2. c \in Nat
      BY <1>2 DEF c
    <3> QED BY <1>5, <3>1, <3>2 DEF Cut
  <2>3. discarding = FALSE /\ buffer = <<>>
    BY <1>2, <1>7 DEF Unread
  <2>4. Unread(buffer', input', discarding', c)
    BY <1>1, <1>2, <2>3
  <2>5. Unread(buffer, input, discarding, Cut)'
    BY <1>1, <1>2, <2>2, <2>4, UnreadFixed
  <2>6. Len(handed') = Len(Frames')
    BY <1>3, <1>4, <1>5, <1>7
  <2> QED BY <1>1, <1>2, <1>4, <2>2, <2>5, <2>6 DEF ReaderInv
<1> QED BY <1>6, <1>7

LEMMA ReaderUnchanged == ReaderInv /\ UNCHANGED inbound => ReaderInv'
<1> SUFFICES ASSUME ReaderInv, UNCHANGED inbound PROVE ReaderInv'
  OBVIOUS
<1>1. script' = script /\ input' = input /\ buffer' = buffer /\ discarding' = discarding
      /\ reader' = reader /\ handed' = handed
  BY DEF inbound
<1>2. Cut' = Cut
  BY <1>1 DEF Cut
<1>3. ScriptOK' /\ Expected' = Expected /\ Frames' = Frames
  BY <1>1, ScriptFixed DEF ReaderInv
<1>4. Unread(buffer', input', discarding', Cut)
  BY <1>1 DEF ReaderInv
<1>5. Unread(buffer, input, discarding, Cut)'
  BY <1>1, <1>2, <1>4, UnreadFixed DEF ReaderInv
<1>6. Waiting(buffer)' <=> Waiting(buffer)
  BY <1>1 DEF Waiting
<1> QED BY <1>1, <1>2, <1>3, <1>5, <1>6 DEF ReaderInv

LEMMA ReaderInvFrames == ReaderInv => FramesInOrder
<1> SUFFICES ASSUME ReaderInv PROVE FramesInOrder
  OBVIOUS
<1>1. Len(Frames) \in 0..3 /\ DOMAIN Frames = 1..Len(Frames)
  BY FrameTypes DEF ReaderInv
<1>2. handed \in Seq(0..3) /\ Len(handed) \in Nat /\ DOMAIN handed = 1..Len(handed)
      /\ (\A n \in 1..Len(handed) : handed[n] = Expected[n])
      /\ (reader.at = "closed" => Len(handed) = Len(Frames))
  BY DEF ReaderInv
<1>3. Len(handed) <= Len(Frames)
  <2>1. Cut \in 0..Len(Frames)
    BY DEF ReaderInv, Unread
  <2>2. Cut = Len(handed) \/ Cut = Len(handed) + 1
    BY DEF Cut
  <2>3. Len(handed) \in Nat
    BY <1>2
  <2>4. \A l \in 0..3 : l \in Nat
    OBVIOUS
  <2>5. Len(Frames) \in Nat
    BY <1>1, <2>4
  <2> QED BY <2>1, <2>2, <2>3, <2>5
<1>4. \A k \in 1..Len(Frames) : Expected[k] \in 0..3
  BY ExpectedValue DEF ReaderInv
<1>5. Expected \in Seq(0..3) /\ Len(Expected) = Len(Frames)
  <2>1. Expected = [k \in 1..Len(Frames) |-> Expected[k]]
    BY <1>1 DEF Expected
  <2>2. Len(Frames) \in Nat
    BY <1>1
  <2> DEFINE e == Expected
  <2> HIDE DEF e
  <2>3. e = [k \in 1..Len(Frames) |-> e[k]] /\ \A k \in 1..Len(Frames) : e[k] \in 0..3
    BY <1>4, <2>1 DEF e
  <2>4. e \in Seq(0..3) /\ Len(e) = Len(Frames)
    BY <2>2, <2>3
  <2> QED BY <2>4 DEF e
<1>6. ASSUME reader.at = "closed" PROVE handed = Expected
  BY <1>2, <1>5, <1>6, SeqEqual
<1> QED BY <1>2, <1>3, <1>5, <1>6 DEF FramesInOrder

(* There is a task for every request that was handed over and for every    *)
(* frame that was rejected, and for no other.                              *)
HandlersOK ==
  /\ handler \in [Positions -> {"absent", "running", "cancelling", "answering", "ended"}]
  /\ \A i \in Positions : handler[i] # "absent" <=> Owed(i)

(* The output is the messages for the frames q, one after the other, the   *)
(* last as far as it has been written; while the server serves a task ends *)
(* only by giving its message to the writer.                               *)
Wrote(q) ==
  /\ q \in Seq(Positions) /\ output \in Seq(Positions)
  /\ writer.left \in 0..MessageBytes
  /\ Len(output) + writer.left = Len(q) * MessageBytes
  /\ writer.left > 0 => Len(q) > 0 /\ q[Len(q)] = writer.of
  /\ \A n \in 1..Len(output) : output[n] = q[((n - 1) \div MessageBytes) + 1]
  /\ \A j, k \in 1..Len(q) : q[j] = q[k] => j = k
  /\ \A j \in 1..Len(q) : handler[q[j]] = "ended"
  /\ main = "serving" =>
       \A i \in Positions : handler[i] = "ended" => \E j \in 1..Len(q) : q[j] = i

TransportInv == ReaderInv /\ HandlersOK /\ \E q : Wrote(q)

(* Which message a byte belongs to. *)
LEMMA Quotient ==
  ASSUME NEW r \in Nat \ {0}, NEW k \in Nat, NEW a \in Nat, k * r <= a, a < (k + 1) * r
  PROVE  a \div r = k
<1> DEFINE d == a \div r
           m == a % r
<1>1. d \in Nat /\ m \in Nat /\ m < r /\ a = d * r + m
  OBVIOUS
<1> HIDE DEF d, m
<1>2. ASSUME d < k PROVE FALSE
  <2>1. PICK e \in Nat : k = d + 1 + e
    <3>1. k - (d + 1) \in Nat /\ k = d + 1 + (k - (d + 1))
      BY <1>1, <1>2
    <3> QED BY <3>1
  <2>2. (d + 1 + e) * r = d * r + r + e * r /\ e * r \in Nat
    BY <1>1
  <2> QED BY <1>1, <2>1, <2>2
<1>3. ASSUME k < d PROVE FALSE
  <2>1. PICK e \in Nat : d = k + 1 + e
    <3>1. d - (k + 1) \in Nat /\ d = k + 1 + (d - (k + 1))
      BY <1>1, <1>3
    <3> QED BY <3>1
  <2>2. (k + 1 + e) * r = (k + 1) * r + e * r /\ e * r \in Nat
    OBVIOUS
  <2> QED BY <1>1, <2>1, <2>2
<1>4. d = k
  BY <1>1, <1>2, <1>3
<1> QED BY <1>4 DEF d

(* The bytes written so far belong to messages that were begun.            *)
LEMMA WithinMessages ==
  ASSUME NEW r \in Nat \ {0}, NEW l \in Nat, NEW a \in Nat, a < l * r
  PROVE  a \div r \in 0..(l - 1)
<1> DEFINE d == a \div r
           m == a % r
<1>1. d \in Nat /\ m \in Nat /\ m < r /\ a = d * r + m
  OBVIOUS
<1> HIDE DEF d, m
<1>2. ASSUME l <= d PROVE FALSE
  <2>1. PICK e \in Nat : d = l + e
    <3>1. d - l \in Nat /\ d = l + (d - l)
      BY <1>1, <1>2
    <3> QED BY <3>1
  <2>2. (l + e) * r = l * r + e * r /\ e * r \in Nat /\ l * r \in Nat
    OBVIOUS
  <2> QED BY <1>1, <2>1, <2>2
<1>3. d \in 0..(l - 1)
  BY <1>1, <1>2
<1> QED BY <1>3 DEF d

LEMMA WholeMessages ==
  ASSUME NEW r \in Nat \ {0}, NEW l \in Nat
  PROVE  (l * r) \div r = l /\ (l * r) % r = 0
<1> DEFINE a == l * r
           d == a \div r
           m == a % r
<1>1. a \in Nat /\ (l + 1) * r = a + r /\ r \in Nat /\ r > 0
  OBVIOUS
<1>2. a = l * r
  OBVIOUS
<1> HIDE DEF a
<1>3. a \div r = l
  BY <1>1, <1>2, Quotient
<1>4. d \in Nat /\ m \in Nat /\ a = d * r + m
  BY <1>1
<1>5. m = 0
  BY <1>2, <1>3, <1>4
<1> QED BY <1>3, <1>5 DEF a

LEMMA WriterStarts == StdioInit => HandlersOK /\ \E q : Wrote(q)
<1> SUFFICES ASSUME StdioInit PROVE HandlersOK /\ \E q : Wrote(q)
  OBVIOUS
<1>1. HandlersOK
  BY DEF StdioInit, HandlersOK, Owed
<1>2. /\ output = <<>> /\ writer.left = 0 /\ MessageBytes \in Nat \ {0}
      /\ \A i \in Positions : handler[i] = "absent"
  BY StdioAssumption DEF StdioInit
<1>3. Wrote(<<>>)
  <2>1. <<>> \in Seq(Positions) /\ Len(<<>>) = 0
    OBVIOUS
  <2> QED BY <1>2, <2>1 DEF Wrote
<1> QED BY <1>1, <1>3

(* A step that writes nothing and brings no task back; none ends while the *)
(* server serves.                                                          *)
LEMMA NothingWritten ==
  ASSUME NEW q, Wrote(q), UNCHANGED outbound,
         \A i \in Positions : handler[i] = "ended" => handler'[i] = "ended",
         main' = "serving" =>
           main = "serving" /\ \A i \in Positions : handler'[i] = "ended" => handler[i] = "ended"
  PROVE  Wrote(q)'
<1>1. writer' = writer /\ output' = output
  BY DEF outbound
<1>2. ASSUME NEW j \in 1..Len(q) PROVE handler'[q[j]] = "ended"
  <2>1. q[j] \in Positions /\ handler[q[j]] = "ended"
    BY DEF Wrote
  <2> QED BY <2>1
<1>3. main' = "serving" => \A i \in Positions : handler'[i] = "ended" => \E j \in 1..Len(q) : q[j] = i
  BY DEF Wrote
<1> QED BY <1>1, <1>2, <1>3 DEF Wrote

LEMMA HandlersMove ==
  ASSUME HandlersOK, NEW i \in Positions, NEW a \in {"running", "cancelling", "answering", "ended"},
         handler[i] # "absent", handler' = [handler EXCEPT ![i] = a], UNCHANGED inbound
  PROVE  HandlersOK'
<1>1. handed' = handed /\ Frames' = Frames
  BY DEF inbound, Frames
<1>2. \A k \in Positions : Owed(k)' <=> Owed(k)
  BY <1>1 DEF Owed, IsRequest
<1> QED BY <1>2 DEF HandlersOK

LEMMA RespondStep ==
  ASSUME TransportInv, NEW i \in Positions, Respond(i)
  PROVE  TransportInv'
<1>1. /\ UNCHANGED inbound /\ UNCHANGED outbound /\ handler[i] \in {"running", "cancelling"}
      /\ handler' = [handler EXCEPT ![i] = "answering"] /\ main' = main
  BY DEF Respond
<1>2. ReaderInv'
  BY <1>1, ReaderUnchanged DEF TransportInv
<1>3. HandlersOK'
  BY <1>1, HandlersMove DEF TransportInv
<1>4. \A k \in Positions : handler[k] = "ended" <=> handler'[k] = "ended"
  BY <1>1 DEF TransportInv, HandlersOK
<1> QED BY <1>1, <1>2, <1>3, <1>4, NothingWritten DEF TransportInv

LEMMA UnwindStep ==
  ASSUME TransportInv, NEW i \in Positions, Unwind(i)
  PROVE  TransportInv'
<1>1. /\ UNCHANGED inbound /\ UNCHANGED outbound /\ handler[i] \in Busy
      /\ handler' = [handler EXCEPT ![i] = "ended"] /\ main' # "serving"
  BY DEF Unwind
<1>2. ReaderInv'
  BY <1>1, ReaderUnchanged DEF TransportInv
<1>3. HandlersOK'
  BY <1>1, HandlersMove DEF TransportInv, Busy
<1>4. \A k \in Positions : handler[k] = "ended" => handler'[k] = "ended"
  BY <1>1 DEF TransportInv, HandlersOK
<1> QED BY <1>1, <1>2, <1>3, <1>4, NothingWritten DEF TransportInv

LEMMA QuietStep ==
  ASSUME TransportInv, UNCHANGED <<inbound, handler, outbound>>, main' = "serving" => main = "serving"
  PROVE  TransportInv'
<1>1. UNCHANGED inbound /\ UNCHANGED outbound /\ handler' = handler
  OBVIOUS
<1>2. ReaderInv'
  BY <1>1, ReaderUnchanged DEF TransportInv
<1>3. handed' = handed /\ Frames' = Frames
  BY <1>1 DEF inbound, Frames
<1>4. HandlersOK'
  BY <1>1, <1>3 DEF TransportInv, HandlersOK, Owed, IsRequest
<1> QED BY <1>1, <1>2, <1>4, NothingWritten DEF TransportInv

(* Reading alone: nothing is handed over. *)
LEMMA ReadingStep ==
  ASSUME TransportInv, ReadChunk \/ ReadEof
  PROVE  TransportInv'
<1>1. ReaderInv'
  BY ChunkStep, EofStep DEF TransportInv
<1>2. /\ script' = script /\ handed' = handed /\ handler' = handler /\ UNCHANGED outbound
      /\ main = "serving"
  BY DEF ReadChunk, ReadEof
<1>3. Frames' = Frames
  BY <1>2 DEF Frames
<1>4. HandlersOK'
  BY <1>2, <1>3 DEF TransportInv, HandlersOK, Owed, IsRequest
<1> QED BY <1>1, <1>2, <1>4, NothingWritten DEF TransportInv

(* The session takes an item: the frame had no task, and gets one if it is *)
(* a request or was rejected.                                              *)
LEMMA HandOver ==
  ASSUME TransportInv, Deliver
  PROVE  TransportInv'
<1> DEFINE c == Len(handed) + 1
<1>1. ReaderInv' /\ handed' = Append(handed, Expected[c]) /\ Len(handed) < Len(Frames) /\ reader.item = Expected[c]
  BY DeliverStep DEF TransportInv
<1>2. /\ ScriptOK /\ handed \in Seq(0..3) /\ HandlersOK /\ Len(handed) \in Nat
      /\ script' = script /\ UNCHANGED outbound /\ main' = main
  BY DEF TransportInv, ReaderInv, Deliver
<1>3. c \in 1..Len(Frames) /\ Len(Frames) \in 0..3 /\ c \in Positions
  <2>1. Len(Frames) \in 0..3
    BY <1>2, FrameTypes
  <2>2. \A l \in 0..3 : \A h \in Nat : h < l => h + 1 \in 1..l /\ h + 1 \in 1..3
    OBVIOUS
  <2> QED BY <1>1, <1>2, <2>1, <2>2 DEF Positions
<1>4. Expected[c] \in {Rejected, c} /\ Expected[c] \in 0..3
  BY <1>2, <1>3, ExpectedValue
<1>5. Frames' = Frames
  BY <1>2 DEF Frames
<1>6. \A n \in 1..c : handed'[n] = IF n <= Len(handed) THEN handed[n] ELSE Expected[c]
  BY <1>1, <1>2, <1>4, AppendProperties
<1>7. Len(handed') = c
  BY <1>1, <1>2, <1>4, AppendProperties
<1>8. handler[c] = "absent"
  <2>1. ~Owed(c)
    BY <1>2 DEF Owed
  <2> QED BY <1>2, <1>3, <2>1 DEF HandlersOK
<1>9. handler' = IF Expected[c] = Rejected THEN [handler EXCEPT ![c] = "answering"]
                 ELSE IF IsRequest(c) THEN [handler EXCEPT ![c] = "running"]
                 ELSE IF handler[Frames[c].of] = "running"
                      THEN [handler EXCEPT ![Frames[c].of] = "cancelling"] ELSE handler
  BY <1>1, <1>4 DEF Deliver
<1>10. ASSUME Expected[c] # Rejected, ~IsRequest(c) PROVE Frames[c].of \in Positions
  <2>1. Frames[c].kind # "malformed"
    <3>1. c \in DOMAIN Frames
      BY <1>2, <1>3, FrameTypes
    <3> QED BY <1>10, <3>1 DEF Expected
  <2>2. Frames[c].kind \in Tools \cup {"malformed", "cancel"} /\ c \in DOMAIN Frames
    BY <1>2, <1>3, FrameTypes
  <2> QED BY <1>2, <1>10, <2>1, <2>2 DEF ScriptOK, IsRequest
<1> DEFINE due == Expected[c] = Rejected \/ IsRequest(c)
<1>11. ASSUME NEW i \in Positions PROVE Owed(i)' <=> IF i = c THEN due ELSE Owed(i)
  <2>1. DOMAIN handed = 1..Len(handed) /\ DOMAIN handed' = 1..c
    BY <1>1, <1>2, <1>7 DEF ReaderInv
  <2>2. i \in DOMAIN handed' <=> i = c \/ i \in DOMAIN handed
    BY <1>2, <2>1 DEF Positions
  <2>3. i = c => handed'[i] = Expected[c]
    BY <1>2, <1>6
  <2>4. i \in DOMAIN handed => i # c /\ handed'[i] = handed[i]
    BY <1>2, <1>6, <2>1
  <2>5. IsRequest(i)' <=> IsRequest(i)
    BY <1>5 DEF IsRequest
  <2> HIDE DEF c
  <2> QED BY <1>4, <2>2, <2>3, <2>4, <2>5 DEF Owed
<1> HIDE DEF c, due
<1>12. CASE due
  <2>1. PICK a \in {"running", "answering"} : handler' = [handler EXCEPT ![c] = a]
    BY <1>9, <1>12 DEF due
  <2>2. HandlersOK'
    BY <1>2, <1>3, <1>11, <1>12, <2>1 DEF HandlersOK
  <2>3. \A k \in Positions : handler[k] = "ended" <=> handler'[k] = "ended"
    BY <1>2, <1>8, <2>1 DEF HandlersOK
  <2> QED BY <1>1, <1>2, <2>2, <2>3, NothingWritten DEF TransportInv
<1>13. CASE ~due /\ handler' = handler
  <2>1. HandlersOK'
    BY <1>2, <1>8, <1>11, <1>13 DEF HandlersOK
  <2> QED BY <1>1, <1>2, <1>13, <2>1, NothingWritten DEF TransportInv
<1>14. CASE /\ ~due /\ handler[Frames[c].of] = "running"
            /\ handler' = [handler EXCEPT ![Frames[c].of] = "cancelling"]
  <2> DEFINE o == Frames[c].of
  <2>1. o \in Positions /\ handler[o] = "running" /\ handler' = [handler EXCEPT ![o] = "cancelling"]
    BY <1>10, <1>14 DEF due
  <2> HIDE DEF o
  <2>2. HandlersOK'
    BY <1>2, <1>8, <1>11, <1>14, <2>1 DEF HandlersOK
  <2>3. \A k \in Positions : handler[k] = "ended" <=> handler'[k] = "ended"
    BY <1>2, <2>1 DEF HandlersOK
  <2> QED BY <1>1, <1>2, <2>2, <2>3, NothingWritten DEF TransportInv
<1> QED BY <1>9, <1>12, <1>13, <1>14 DEF due

(* The writer takes a message. *)
LEMMA TakeStep ==
  ASSUME TransportInv, NEW i \in Positions, TakeMessage(i)
  PROVE  TransportInv'
<1> DEFINE R == MessageBytes
<1>1. /\ UNCHANGED inbound /\ output' = output /\ handler[i] = "answering" /\ ~(writer.left > 0)
      /\ handler' = [handler EXCEPT ![i] = "ended"]
      /\ writer' = [of |-> i, left |-> R] /\ main' = main
  BY DEF TakeMessage, Writing
<1>2. ReaderInv'
  BY <1>1, ReaderUnchanged DEF TransportInv
<1>3. HandlersOK'
  BY <1>1, HandlersMove DEF TransportInv
<1>4. PICK q : Wrote(q)
  BY DEF TransportInv
<1> DEFINE p == Append(q, i)
           l == Len(q)
<1>5. /\ q \in Seq(Positions) /\ output \in Seq(Positions) /\ l \in Nat /\ Len(output) \in Nat /\ R \in Nat \ {0}
      /\ writer.left = 0 /\ Len(output) = l * R
      /\ \A n \in 1..Len(output) : output[n] = q[((n - 1) \div R) + 1]
      /\ \A j, k \in 1..l : q[j] = q[k] => j = k
      /\ \A j \in 1..l : q[j] \in Positions /\ handler[q[j]] = "ended"
      /\ main = "serving" => \A k \in Positions : handler[k] = "ended" => \E j \in 1..l : q[j] = k
  <2>1. /\ q \in Seq(Positions) /\ output \in Seq(Positions) /\ writer.left \in 0..R
        /\ Len(output) + writer.left = l * R
    BY <1>4 DEF Wrote
  <2>2. l \in Nat /\ Len(output) \in Nat /\ R \in Nat \ {0}
    BY <2>1, StdioAssumption
  <2>3. writer.left = 0
    BY <1>1, <2>1, <2>2
  <2>4. Len(output) = l * R
    BY <2>1, <2>2, <2>3
  <2> QED BY <1>4, <2>1, <2>2, <2>3, <2>4 DEF Wrote
<1>6. p \in Seq(Positions) /\ Len(p) = l + 1 /\ p[l + 1] = i /\ \A j \in 1..l : p[j] = q[j]
  BY <1>5, AppendProperties
<1> HIDE DEF p, l, R
<1>7. (l + 1) * R = l * R + R
  BY <1>5
<1>8. writer'.left = R /\ writer'.of = i
  BY <1>1
<1>9. ASSUME NEW n \in 1..Len(output) PROVE output[n] = p[((n - 1) \div R) + 1]
  <2>1. n - 1 \in Nat /\ n - 1 < l * R
    BY <1>5
  <2>2. (n - 1) \div R \in 0..(l - 1)
    BY <1>5, <2>1, WithinMessages
  <2>3. ((n - 1) \div R) + 1 \in 1..l
    BY <1>5, <2>2
  <2> QED BY <1>5, <1>6, <2>3
<1>10. \A j \in 1..l : q[j] # i
  BY <1>1, <1>5
<1>11. ASSUME NEW j \in 1..(l + 1), NEW k \in 1..(l + 1), p[j] = p[k] PROVE j = k
  <2>1. j \in 1..l \/ j = l + 1
    BY <1>5
  <2>2. k \in 1..l \/ k = l + 1
    BY <1>5
  <2>3. CASE j \in 1..l /\ k \in 1..l
    <3>1. q[j] = q[k]
      BY <1>6, <1>11, <2>3
    <3> QED BY <1>5, <2>3, <3>1
  <2>4. CASE j \in 1..l /\ k = l + 1
    BY <1>6, <1>10, <1>11, <2>4
  <2>5. CASE j = l + 1 /\ k \in 1..l
    BY <1>6, <1>10, <1>11, <2>5
  <2> QED BY <2>1, <2>2, <2>3, <2>4, <2>5
<1>12. ASSUME NEW j \in 1..(l + 1) PROVE handler'[p[j]] = "ended"
  <2>1. handler'[i] = "ended" /\ \A k \in Positions : handler[k] = "ended" => handler'[k] = "ended"
    BY <1>1 DEF TransportInv, HandlersOK
  <2>2. CASE j = l + 1
    BY <1>6, <2>1, <2>2
  <2>3. CASE j # l + 1
    <3>1. j \in 1..l
      BY <1>5, <2>3
    <3> QED BY <1>5, <1>6, <2>1, <3>1
  <2> QED BY <2>2, <2>3
<1>13. Len(output) + R = (l + 1) * R /\ R \in 0..R /\ l + 1 > 0
  BY <1>5, <1>7
<1>14. ASSUME main' = "serving", NEW k \in Positions, handler'[k] = "ended"
       PROVE  \E j \in 1..(l + 1) : p[j] = k
  <2>1. CASE k = i
    <3>1. l + 1 \in 1..(l + 1)
      BY <1>5
    <3> QED BY <1>6, <2>1, <3>1
  <2>2. CASE k # i
    <3>1. handler[k] = "ended"
      BY <1>1, <1>14, <2>2 DEF TransportInv, HandlersOK
    <3>2. PICK j \in 1..l : q[j] = k
      BY <1>1, <1>5, <1>14, <3>1
    <3>3. j \in 1..(l + 1)
      BY <1>5
    <3> QED BY <1>6, <3>2, <3>3
  <2> QED BY <2>1, <2>2
<1>15. Wrote(p)'
  BY <1>1, <1>5, <1>6, <1>8, <1>9, <1>11, <1>12, <1>13, <1>14 DEF Wrote, R
<1> QED BY <1>2, <1>3, <1>15 DEF TransportInv

(* Some bytes of the message are written.                                  *)
LEMMA WriteBytesStep ==
  ASSUME TransportInv, WriteBytes
  PROVE  TransportInv'
<1> DEFINE R == MessageBytes
           o == Len(output)
           b == writer.left
<1>1. PICK m \in 1..b : /\ output' = output \o [j \in 1..m |-> writer.of]
                        /\ writer' = [writer EXCEPT !.left = b - m]
  BY DEF WriteBytes
<1>2. UNCHANGED inbound /\ handler' = handler /\ main' = main /\ b > 0
  BY DEF WriteBytes, Writing
<1>3. ReaderInv'
  BY <1>2, ReaderUnchanged DEF TransportInv
<1>4. HandlersOK'
  <2>1. handed' = handed /\ Frames' = Frames
    BY <1>2 DEF inbound, Frames
  <2> QED BY <1>2, <2>1 DEF TransportInv, HandlersOK, Owed, IsRequest
<1>5. PICK q : Wrote(q)
  BY DEF TransportInv
<1> DEFINE l == Len(q)
           of == writer.of
           t == [j \in 1..m |-> of]
           u == output \o t
<1>6. /\ q \in Seq(Positions) /\ output \in Seq(Positions) /\ b \in 0..R /\ o + b = l * R
      /\ l > 0 /\ q[l] = of
      /\ \A n \in 1..o : output[n] = q[((n - 1) \div R) + 1]
      /\ \A j, k \in 1..l : q[j] = q[k] => j = k
      /\ \A j \in 1..l : handler[q[j]] = "ended"
      /\ main = "serving" => \A i \in Positions : handler[i] = "ended" => \E j \in 1..l : q[j] = i
  BY <1>2, <1>5 DEF Wrote
<1>7. l \in Nat \ {0} /\ o \in Nat /\ R \in Nat \ {0} /\ b \in Nat /\ m \in Nat /\ 1 <= m /\ m <= b /\ b <= R
  <2>1. l \in Nat /\ o \in Nat /\ R \in Nat \ {0}
    BY <1>6, StdioAssumption
  <2> QED BY <1>6, <2>1
<1>8. of \in Positions
  <2>1. l \in 1..l
    BY <1>7
  <2> QED BY <1>6, <2>1
<1>9. t \in Seq(Positions) /\ Len(t) = m /\ \A j \in 1..m : t[j] = of
  BY <1>7, <1>8
<1>10. u \in Seq(Positions) /\ Len(u) = o + m /\ \A n \in 1..(o + m) : u[n] = IF n <= o THEN output[n] ELSE t[n - o]
  BY <1>6, <1>9, ConcatProperties
<1>11. output' = u
  BY <1>1
<1>12. writer'.left = b - m /\ writer'.of = of
  <2>1. b - m # b
    BY <1>7
  <2> QED BY <1>1, <2>1
<1> HIDE DEF t, u, l, R, o, b, of
<1>13. (l - 1) * R = l * R - R /\ (l - 1) + 1 = l /\ l - 1 \in Nat
  BY <1>7
<1>14. ASSUME NEW n \in 1..(o + m) PROVE u[n] = q[((n - 1) \div R) + 1]
  <2>1. CASE n <= o
    <3>1. n \in 1..o
      BY <1>7, <2>1
    <3> QED BY <1>6, <1>10, <2>1, <3>1
  <2>2. CASE ~(n <= o)
    <3>1. n - o \in 1..m /\ n - 1 \in Nat /\ o <= n - 1 /\ n - 1 < o + b
      BY <1>7, <2>2
    <3>2. (l - 1) * R <= n - 1 /\ n - 1 < ((l - 1) + 1) * R
      BY <1>6, <1>7, <1>13, <3>1
    <3>3. (n - 1) \div R = l - 1
      BY <1>7, <1>13, <3>1, <3>2, Quotient
    <3> QED BY <1>6, <1>9, <1>10, <1>13, <2>2, <3>1, <3>3
  <2> QED BY <2>1, <2>2
<1>15. b - m \in 0..R /\ (o + m) + (b - m) = l * R
  BY <1>6, <1>7
<1>16. Wrote(q)'
  BY <1>2, <1>6, <1>10, <1>11, <1>12, <1>14, <1>15 DEF Wrote, R, l
<1> QED BY <1>3, <1>4, <1>16 DEF TransportInv

(* All but the last message have been begun, and the last as well once     *)
(* nothing of it is left.                                                  *)
LEMMA FirstByte ==
  ASSUME NEW r \in Nat \ {0}, NEW l \in Nat, NEW j \in 1..l, NEW b \in 0..r, NEW o \in Nat,
         o + b = l * r, ~(b > 0 /\ j = l)
  PROVE  (j - 1) * r \in Nat /\ (j - 1) * r < o
<1>1. PICK e \in Nat : l = j + e
  <2>1. l - j \in Nat /\ l = j + (l - j)
    OBVIOUS
  <2> QED BY <2>1
<1>2. PICK d \in Nat : j = d + 1
  <2>1. j - 1 \in Nat /\ j = (j - 1) + 1
    OBVIOUS
  <2> QED BY <2>1
<1>3. (d + 1 + e) * r = d * r + r + e * r /\ d * r \in Nat /\ e * r \in Nat
  OBVIOUS
<1>4. e > 0 => e * r >= r
  <2>1. ASSUME e > 0 PROVE e * r >= r
    <3>1. e - 1 \in Nat /\ (e - 1) * r \in Nat /\ e * r = (e - 1) * r + r
      BY <2>1
    <3> QED BY <3>1
  <2> QED BY <2>1
<1>5. o + b = d * r + r + e * r
  BY <1>1, <1>2, <1>3
<1>6. e = 0 => b = 0
  BY <1>1
<1> DEFINE x == d * r
           y == e * r
<1> HIDE DEF x, y
<1>7. x < o
  BY <1>3, <1>4, <1>5, <1>6 DEF x, y
<1> QED BY <1>2, <1>3, <1>7 DEF x

LEMMA TransportInvOutput == TransportInv => OutputIsMessages
<1> SUFFICES ASSUME TransportInv PROVE OutputIsMessages
  OBVIOUS
<1>1. PICK q : Wrote(q)
  BY DEF TransportInv
<1> DEFINE R == MessageBytes
           l == Len(q)
           o == Len(output)
           whole == (o + writer.left) \div R
           Of(k) == output[(k - 1) * R + 1]
           answered == {k \in 1..whole : (k - 1) * R < o}
<1>2. /\ q \in Seq(Positions) /\ output \in Seq(Positions) /\ o + writer.left = l * R
      /\ writer.left \in 0..R
      /\ \A n \in 1..o : output[n] = q[((n - 1) \div R) + 1]
      /\ \A j, k \in 1..l : q[j] = q[k] => j = k
      /\ \A j \in 1..l : handler[q[j]] = "ended"
      /\ writer.left > 0 => l > 0 /\ q[l] = writer.of
      /\ main = "serving" => \A i \in Positions : handler[i] = "ended" => \E j \in 1..l : q[j] = i
  BY <1>1 DEF Wrote
<1>3. l \in Nat /\ o \in Nat /\ R \in Nat \ {0} /\ DOMAIN output = 1..o
  BY <1>2, StdioAssumption
<1>4. whole = l /\ (o + writer.left) % R = 0
  BY <1>2, <1>3, WholeMessages
<1>5. ASSUME NEW k \in answered
      PROVE  /\ Owed(Of(k))
             /\ \A n \in DOMAIN output : output[n] = Of(k) <=> (n - 1) \div R = k - 1
  <2>1. k \in 1..l /\ (k - 1) * R < o
    BY <1>4
  <2> DEFINE a == (k - 1) * R
  <2>2. k - 1 \in Nat /\ a \in Nat /\ (k - 1) + 1 = k
    BY <1>3, <2>1
  <2>3. a + 1 \in 1..o /\ (a + 1) - 1 = a
    BY <1>3, <2>1, <2>2
  <2>4. a \div R = k - 1
    BY <1>3, <2>2, WholeMessages
  <2>5. Of(k) = output[a + 1]
    OBVIOUS
  <2>6. Of(k) = q[k]
    BY <1>2, <2>2, <2>3, <2>4, <2>5
  <2>7. q[k] \in Positions /\ handler[q[k]] = "ended"
    BY <1>2, <2>1
  <2>8. Owed(q[k])
    BY <2>7 DEF TransportInv, HandlersOK
  <2>10. ASSUME NEW n \in 1..o PROVE output[n] = q[k] <=> (n - 1) \div R = k - 1
    <3> DEFINE d == (n - 1) \div R
    <3>1. n - 1 \in Nat /\ n - 1 < l * R
      BY <1>2, <1>3
    <3>2. d \in 0..(l - 1)
      BY <1>3, <3>1, WithinMessages
    <3>3. output[n] = q[d + 1]
      BY <1>2
    <3> HIDE DEF d
    <3>4. d + 1 \in 1..l /\ (d = k - 1 <=> d + 1 = k)
      BY <1>3, <2>1, <3>2
    <3>5. output[n] = q[k] <=> d + 1 = k
      BY <1>2, <2>1, <3>3, <3>4
    <3> QED BY <3>4, <3>5 DEF d
  <2> HIDE DEF Of
  <2> QED BY <1>3, <2>6, <2>8, <2>10
<1>6. ASSUME main = "serving", NEW i \in Positions, Owed(i)
      PROVE  \/ handler[i] \in Busy
             \/ Writing /\ writer.of = i
             \/ \E n \in DOMAIN output : output[n] = i
  <2>1. handler[i] \in Busy \/ handler[i] = "ended"
    BY <1>6 DEF TransportInv, HandlersOK, Busy
  <2>2. CASE handler[i] = "ended"
    <3>1. PICK j \in 1..l : q[j] = i
      BY <1>2, <1>6, <2>2
    <3>2. CASE writer.left > 0 /\ j = l
      BY <1>2, <3>1, <3>2 DEF Writing
    <3>3. CASE ~(writer.left > 0 /\ j = l)
      <4> DEFINE a == (j - 1) * R
      <4>1. a \in Nat /\ a < o
        BY <1>2, <1>3, <3>3, FirstByte
      <4>2. a \div R = j - 1
        BY <1>3, <3>1, WholeMessages
      <4>3. a + 1 \in 1..o /\ (a + 1) - 1 = a /\ (j - 1) + 1 = j
        BY <1>3, <4>1
      <4> HIDE DEF a
      <4>4. output[a + 1] = q[j]
        BY <1>2, <4>2, <4>3
      <4> QED BY <1>3, <3>1, <4>3, <4>4
    <3> QED BY <3>2, <3>3
  <2> QED BY <2>1, <2>2
<1> HIDE DEF R, l
<1> QED BY <1>4, <1>5, <1>6 DEF OutputIsMessages, R

LEMMA TransportInitHolds == StdioInit => TransportInv
BY ReaderInitHolds, WriterStarts DEF TransportInv

LEMMA TransportStep ==
  ASSUME TransportInv, Transport
  PROVE  TransportInv'
<1>1. CASE ReadChunk \/ ReadEof
  BY <1>1, ReadingStep
<1>2. CASE Deliver
  BY <1>2, HandOver
<1>3. CASE \E i \in Positions : TakeMessage(i)
  BY <1>3, TakeStep
<1>4. CASE WriteBytes
  BY <1>4, WriteBytesStep
<1>5. CASE WriterFails \/ EndSession \/ CancelTasks \/ Exit
  BY <1>5, QuietStep DEF WriterFails, EndSession, CancelTasks, Exit
<1> QED BY <1>1, <1>2, <1>3, <1>4, <1>5 DEF Transport

(* What a step of the server does to the transport. *)
LEMMA TransportPart ==
  ASSUME [Next]_vars
  PROVE  \/ Transport
         \/ \E i \in Positions : Respond(i) \/ Unwind(i)
         \/ UNCHANGED <<inbound, handler, outbound, main>>
<1>1. CASE ServerStep
  BY <1>1 DEF ServerStep, Communicate, EndHandler, DropMessage, ProtocolTool, ReadTool, Thread,
              CloseStore, RuntimeClosed, CloseRuntime, stdioVars
<1>2. CASE OutsideStep
  BY <1>2 DEF OutsideStep, stdioVars
<1>3. CASE UNCHANGED vars
  BY <1>3 DEF vars, stdioVars
<1> QED BY <1>1, <1>2, <1>3 DEF Next

(* The invariant of the transport. *)
THEOREM TransportInvariant == Spec => []TransportInv
<1>1. Init => TransportInv
  BY TransportInitHolds DEF Init
<1>2. TransportInv /\ [Next]_vars => TransportInv'
  BY TransportPart, TransportStep, RespondStep, UnwindStep, QuietStep
<1> QED BY <1>1, <1>2, PTL DEF Spec

(* The session receives every frame in order, however the bytes arrive. *)
THEOREM FramesArriveInOrder == Spec => []FramesInOrder
<1>1. TransportInv => FramesInOrder
  BY ReaderInvFrames DEF TransportInv
<1> QED BY <1>1, TransportInvariant, PTL

(* The output is whole messages, at most one for each request and for each *)
(* rejected frame, and none of them is lost while the server serves.       *)
THEOREM MessagesAreWhole == Spec => []OutputIsMessages
BY TransportInvariant, TransportInvOutput, PTL
=============================================================================
