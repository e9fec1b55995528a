---------------------------- MODULE MessageReads ---------------------------
(***************************************************************************)
(* The tools that read bodies and attachments (application/reads.py over   *)
(* adapters/reads.py and emails/classic.py): retrieving the bodies of some *)
(* messages, spilling an answer that is too large, marking as read what    *)
(* was returned; downloading an attachment to a file, or transferring its  *)
(* bytes.  Each call looks its account up several times by name; between   *)
(* its steps the policy changes, messages arrive and go, the mailbox is    *)
(* recreated with its UIDs starting over, and the call is cancelled.       *)
(*                                                                         *)
(* Abstractions.  A message is known by its UID and the epoch (UIDVALIDITY *)
(* generation) it belongs to.  The allowlist of senders is the set of UIDs *)
(* it keeps out.  Every size limit on one message or on the answer is a    *)
(* choice.  Setting the flags of one batch is one step here; what can go   *)
(* on inside it is the subject of BatchMutation.                           *)
(***************************************************************************)
EXTENDS LargeResults, ArtifactFiles

CONSTANTS
  Count,        \* how many UIDs a call names
  MarkBatch,    \* mutation_uids: how many of them one marking command takes
  MaxPolicies,  \* bound on the changes of the policy
  MaxEpoch      \* bound on the generations of the mailbox

Uids == 1..Count

ASSUME ReadAssumption ==
  /\ Count \in Nat \ {0} /\ MarkBatch \in Nat \ {0}
  /\ MaxPolicies \in Nat /\ MaxEpoch \in Nat
  /\ Writers = Downloads

Readers == Writers      \* a call may spill or save

VARIABLES
  policy,    \* what the operator has set
  policies,  \* changes of it so far
  mailbox,   \* the mailbox on the server
  seen,      \* messages that calls have marked as read
  read       \* what each call remembers

readVars == <<policy, policies, mailbox, seen, read>>
storeVars == <<spillVars, fileVars>>
toolVars == <<readVars, storeVars>>

Initial == [reachable |-> TRUE, download |-> TRUE, transfer |-> TRUE,
            organize |-> TRUE, blocked |-> {}]

ReadInit(tool) ==
  /\ SpillInit
  /\ FileInit
  /\ (\A c \in Readers : tool[c] # "attachment") => parent = "fit" /\ target = Absent
  /\ policy = Initial
  /\ policies = 0
  /\ mailbox = [epoch |-> 1, present |-> Uids]
  /\ seen = {}
  /\ read = [c \in Readers |->
               [tool |-> tool[c], pc |-> "start", blocked |-> {}, todo |-> Uids,
                got |-> {}, marks |-> {}, answer |-> "none"]]

Lowest(S) == CHOOSE u \in S : \A v \in S : u <= v

(* dict.fromkeys keeps the order of the UIDs; the first of them, a batch at most. *)
Batch(S) == {u \in S : Cardinality({v \in S : v < u}) < MarkBatch}

Goto(c, pc) == read' = [read EXCEPT ![c].pc = pc]
Finish(c, answer) == read' = [read EXCEPT ![c].pc = "over", ![c].answer = answer]
Raise(c) == Finish(c, "error")

At(c, tools, pc) == read[c].tool \in tools /\ read[c].pc = pc

ReadAlone == UNCHANGED <<policy, policies, mailbox, seen, storeVars>>

-----------------------------------------------------------------------------
(* The operator, and other users of the mailbox. *)

ChangePolicy ==
  /\ policies < MaxPolicies
  /\ policies' = policies + 1
  /\ \/ policy' = [policy EXCEPT !.reachable = ~policy.reachable]
     \/ policy' = [policy EXCEPT !.download = ~policy.download, !.transfer = ~policy.transfer]
     \/ policy' = [policy EXCEPT !.organize = ~policy.organize]
     \/ \E u \in Uids : policy' = [policy EXCEPT !.blocked = {u}]
  /\ UNCHANGED <<mailbox, seen, read, storeVars>>

Expunge(u) ==
  /\ u \in mailbox.present
  /\ mailbox' = [mailbox EXCEPT !.present = mailbox.present \ {u}]
  /\ UNCHANGED <<policy, policies, seen, read, storeVars>>

(* The mailbox is deleted and made again: the same UIDs, other messages. *)
Recreate ==
  /\ mailbox.epoch < MaxEpoch
  /\ mailbox' = [epoch |-> mailbox.epoch + 1, present |-> Uids]
  /\ UNCHANGED <<policy, policies, seen, read, storeVars>>

-----------------------------------------------------------------------------
(* Opening a call. *)

(* execute validates and looks the account up by name. *)
Resolve(c) ==
  /\ At(c, {"content", "attachment", "transfer"}, "start")
  /\ LET enabled == /\ read[c].tool = "attachment" => policy.download
                    /\ read[c].tool = "transfer" => policy.transfer
     IN IF policy.reachable /\ enabled
        THEN Goto(c, IF read[c].tool = "attachment" THEN "preflight" ELSE "open")
        ELSE Raise(c)
  /\ ReadAlone

(* The destination is looked at before the credentials are. *)
Preflight(c) ==
  /\ At(c, {"attachment"}, "preflight")
  /\ OpenParent
  /\ IF Acceptable THEN Goto(c, "open") ELSE Raise(c)
  /\ UNCHANGED <<policy, policies, mailbox, seen, spillVars, target, temporary, saving, outside>>

(* open looks the account up again, in the same mode, with its credentials: *)
(* the policy of this snapshot is the one the provider is called with.      *)
OpenProvider(c) ==
  /\ read[c].pc = "open"
  /\ LET enabled == /\ read[c].tool = "attachment" => policy.download
                    /\ read[c].tool = "transfer" => policy.transfer
     IN IF policy.reachable /\ enabled
        THEN read' = [read EXCEPT ![c].pc = "fetch", ![c].blocked = policy.blocked]
        ELSE Raise(c)
  /\ ReadAlone

-----------------------------------------------------------------------------
(* Bodies. *)

(* get_email_body_by_id: the sender is looked at before the body is fetched. *)
Retrievable(c, u) == u \in mailbox.present \ read[c].blocked

(* One UID after the other; what goes wrong with one puts it among the failed. *)
FetchBody(c) ==
  /\ At(c, {"content"}, "fetch") /\ read[c].todo # {}
  /\ LET u == Lowest(read[c].todo)
         rest == [read EXCEPT ![c].todo = read[c].todo \ {u}]
     IN \/ /\ Retrievable(c, u)
           /\ read' = [rest EXCEPT ![c].got = read[c].got \cup {<<mailbox.epoch, u>>}]
        \/ read' = rest
  /\ ReadAlone

(* A limit on a body, on the sum of them or on their headers; or the timeout. *)
AbortRead(c) ==
  /\ read[c].pc = "fetch"
  /\ Raise(c)
  /\ ReadAlone

(* _validate_content_result: the answer as a whole is over a limit. *)
RefuseContent(c) ==
  /\ At(c, {"content"}, "fetch") /\ read[c].todo = {}
  /\ Raise(c)
  /\ ReadAlone

ReturnedUids(c) == {m[2] : m \in read[c].got}

(* Mutant: what was asked for is marked, not what was returned. *)
AfterAnswerAll(c, answer) ==
  read' = [read EXCEPT ![c].pc = "mark", ![c].answer = answer, ![c].marks = Uids]

AfterAnswer(c, answer) ==
  read' = [read EXCEPT ![c].pc = "mark", ![c].answer = answer, ![c].marks = ReturnedUids(c)]

(* _prepare_result: an answer that fits is the answer. *)
PrepareInline(c) ==
  /\ At(c, {"content"}, "fetch") /\ read[c].todo = {}
  /\ AfterAnswer(c, "inline")
  /\ ReadAlone

(* One that does not is spilled, where the platform has the store. *)
PrepareSpill(c) ==
  /\ At(c, {"content"}, "fetch") /\ read[c].todo = {}
  /\ BeginSpill(c)
  /\ Goto(c, "spill")
  /\ UNCHANGED <<policy, policies, mailbox, seen, fileVars>>

AwaitSpill(c) ==
  /\ At(c, {"content"}, "spill") /\ job[c] \in Over
  /\ \/ job[c] = "written" /\ AfterAnswer(c, "reference")
     \/ Raise(c)      \* refused, failed, or the preview itself is too large
  /\ ReadAlone

(* One batch is marked; the rest follows unless something is in doubt.  The *)
(* marking call looks the account up for itself, and the policy may have    *)
(* taken the permission away or blocked a sender since.                     *)
MarkRead(c) ==
  /\ At(c, {"content"}, "mark") /\ read[c].marks # {}
  /\ LET batch == Batch(read[c].marks)
         markable == IF policy.reachable /\ policy.organize
                     THEN (batch \cap mailbox.present) \ policy.blocked ELSE {}
     IN \E done \in SUBSET markable, doubt \in BOOLEAN :
          /\ seen' = seen \cup {<<mailbox.epoch, u>> : u \in done}
          /\ read' = [read EXCEPT ![c].marks = IF doubt THEN {} ELSE read[c].marks \ batch]
  /\ UNCHANGED <<policy, policies, mailbox, storeVars>>

(* All is marked, marking was not asked for, or it raised, which is logged. *)
ReturnContent(c) ==
  /\ At(c, {"content"}, "mark")
  /\ Finish(c, read[c].answer)
  /\ ReadAlone

-----------------------------------------------------------------------------
(* Attachments. *)

(* The attachment is in the first message the call names. *)
FetchAttachment(c) ==
  /\ At(c, {"attachment", "transfer"}, "fetch")
  /\ \/ /\ Retrievable(c, 1)
        /\ Goto(c, "recheck")
     \/ Raise(c)      \* no such message or part, its sender, or its size
  /\ ReadAlone

(* The policy is read once more when the bytes are here. *)
RecheckDownload(c) ==
  /\ At(c, {"attachment"}, "recheck")
  /\ IF policy.reachable /\ policy.download
     THEN BeginSave(c) /\ Goto(c, "save")
     ELSE Raise(c) /\ UNCHANGED fileVars
  /\ UNCHANGED <<policy, policies, mailbox, seen, spillVars>>

(* The tool encodes the bytes, and refuses an answer that is too large. *)
Encode(c) == Finish(c, "bytes") \/ Raise(c)

RecheckTransfer(c) ==
  /\ At(c, {"transfer"}, "recheck")
  /\ IF policy.reachable /\ policy.transfer THEN Encode(c) ELSE Raise(c)
  /\ ReadAlone

(* The answer may be refused for its size after the file has been saved. *)
AwaitSave(c) ==
  /\ At(c, {"attachment"}, "save") /\ saving[c] \in SaveOver
  /\ \/ saving[c] = "saved" /\ Finish(c, "saved")
     \/ Raise(c)
  /\ ReadAlone

(* Cancellation reaches the call at whatever it awaits; a worker that has  *)
(* started goes on, one that has not may never start.                      *)
CancelRead(c) ==
  /\ read[c].tool \in {"content", "attachment", "transfer"} /\ read[c].pc # "over"
  /\ Finish(c, "cancelled")
  /\ \/ UNCHANGED storeVars
     \/ DropSpill(c) /\ UNCHANGED fileVars
     \/ DropSave(c) /\ UNCHANGED spillVars
  /\ UNCHANGED <<policy, policies, mailbox, seen>>

ReadStep(c) ==
  \/ Resolve(c) \/ Preflight(c) \/ OpenProvider(c)
  \/ FetchBody(c) \/ AbortRead(c) \/ RefuseContent(c) \/ PrepareInline(c) \/ PrepareSpill(c) \/ AwaitSpill(c)
  \/ MarkRead(c) \/ ReturnContent(c)
  \/ FetchAttachment(c) \/ RecheckDownload(c) \/ RecheckTransfer(c) \/ AwaitSave(c)

WorkerStep(c) ==
  /\ \/ SpillStep(c) /\ UNCHANGED fileVars
     \/ SaveStep(c) /\ UNCHANGED spillVars
  /\ UNCHANGED readVars

-----------------------------------------------------------------------------
(* Properties. *)

(* Only messages whose bodies the call has retrieved are marked as read:   *)
(* never one whose sender was blocked when the call was opened, and never  *)
(* another message than the returned one unless the mailbox was recreated  *)
(* in between, which the call does not notice.                             *)
MarksWhatItRead == \A m \in seen : \E c \in Readers :
  /\ read[c].answer # "none"
  /\ \E e \in 1..m[1] : <<e, m[2]>> \in read[c].got
  /\ m[2] \notin read[c].blocked
=============================================================================
