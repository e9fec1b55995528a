----------------------------- MODULE BatchProofs ---------------------------
(***************************************************************************)
(* Theorems about BatchMutation for any number of messages, any settings   *)
(* and any number of changes of the authority: what the call reports of a  *)
(* message is so, however late what it sent takes effect, a message that   *)
(* is moved is neither lost nor doubled, and what was withdrawn or not     *)
(* invalidated is bounded and reported.                                    *)
(***************************************************************************)
EXTENDS BatchMutation, SequenceTheorems, TLAPS

Early == {"idle", "resolved", "discover", "opened", "connect", "raised"}

(* The UIDs of the command that is being checked, sent or waited for. *)
Busy == call.pc \in {"check", "send", "await"}
Current == IF Busy THEN call.current.uids ELSE {}

(* No command of the call has had an effect on the message. *)
Clean(u) ==
  /\ ~message[u].flagged /\ ~message[u].cleared
  /\ message[u].copies = 0 /\ message[u].place # "removed"

(* Once STORE has succeeded. *)
Marked(u) == message[u].place # "source" \/ message[u].flagged \/ message[u].cleared

(* Once COPY has succeeded. *)
Copied(u) == message[u].place # "source" \/ message[u].copies = 1

BatchTypeOK ==
  /\ authority \in Authority
  /\ link \in {"up", "down"}
  /\ wire \in Seq(Command)
  /\ message \in [Uids -> [place : {"source", "removed", "elsewhere"}, flagged : BOOLEAN,
                           copies : Nat, cleared : BOOLEAN]]
  /\ call \in Call
  /\ late \in Nat

EarlyOK ==
  call.pc \in Early =>
    /\ wire = <<>> /\ late = 0
    /\ call.blocked = {} /\ call.todo = {} /\ call.pending = {}
    /\ ~call.reconcile
    /\ \A u \in Uids : Clean(u) /\ call.outcome[u] = "none"

(* A message is still to come, marked, under way, or concluded. *)
SplitOK ==
  /\ call.todo \cap call.pending = {} /\ call.todo \cap Current = {} /\ call.pending \cap Current = {}
  /\ \A u \in Uids :
       /\ u \in call.todo \cup call.pending \cup Current => call.outcome[u] = "none"
       /\ u \in call.blocked => call.outcome[u] \in {"failed", "succeeded"}
       /\ call.pc \notin Early /\ call.outcome[u] = "none" => u \in call.todo \cup call.pending \cup Current
  /\ call.pc \in {"finish", "done"} => call.todo = {} /\ call.pending = {}

(* What is on the wire is what the call waits for, or reported as unknown. *)
WireOK ==
  /\ link = "down" => wire = <<>>
  /\ call.pc = "await" /\ wire # <<>> => wire[Len(wire)] = call.current /\ call.reply = "none"
  /\ \A i \in 1..Len(wire) : \A u \in wire[i].uids :
        call.outcome[u] = "unknown" \/ (call.pc = "await" /\ i = Len(wire) /\ u \in Current)

(* The first command of a message proves that nothing has happened to it, *)
(* as long as it is not executed.                                          *)
CleanOK ==
  /\ \A u \in Uids : u \in call.todo \/ call.outcome[u] = "failed" \/ u \in call.blocked => Clean(u)
  /\ Busy /\ call.current.kind = FirstKind
       /\ (call.pc = "await" => wire # <<>> \/ call.reply = "NO") => \A u \in Current : Clean(u)

MarkOK ==
  /\ call.pending # {} => call.op = "delete"
  /\ \A u \in call.pending : Marked(u)
  /\ Busy /\ call.current.kind = "expunge" => \A u \in Current : Marked(u)

KindOK ==
  Busy => /\ call.op = "flags" => call.current.kind = "store"
          /\ call.op = "delete" => call.current.kind \in {"store", "expunge"}
          /\ Fallback => call.current.kind \in {"copy", "store", "expunge"}
          /\ call.op \in Moves /\ ~Fallback => call.current.kind = "move"

(* An OK that has arrived is true. *)
AnswerOK ==
  call.pc = "await" /\ call.reply = "OK" => \A u \in Current :
     /\ call.current.kind = "store" => Marked(u)
     /\ call.current.kind = "copy" => Copied(u)
     /\ call.current.kind = "move" => message[u].place # "source"
     /\ call.current.kind = "expunge" => message[u].place # "source" \/ message[u].cleared

ReportOK ==
  \A u \in Uids :
    call.outcome[u] = "succeeded" /\ u \notin call.blocked =>
         \/ message[u].place # "source"
         \/ message[u].cleared
         \/ call.op = "flags" /\ message[u].flagged

(* The server moves a message in one command, or the call copies it before *)
(* it marks it; then nothing else of the call is on the wire.              *)
MoveOK ==
  call.op \in Moves =>
    /\ \A u \in Uids :
         /\ message[u].copies <= 1
         /\ message[u].place = "removed" \/ message[u].flagged => message[u].copies = 1
         /\ ~Fallback => ~message[u].flagged /\ (message[u].place = "source" => message[u].copies = 0)
    /\ \A i \in 1..Len(wire) : \A u \in wire[i].uids :
         /\ wire[i].kind = "move" <=> ~Fallback
         /\ wire[i].kind = "copy" => message[u].copies = 0
         /\ wire[i].kind = "store" => Copied(u)
    /\ Fallback => /\ call.pc \in {"next", "check", "send"} => wire = <<>>
                   /\ Len(wire) <= 1
                   /\ Busy /\ call.current.kind = "store" => \A u \in Current : Copied(u)

(* After a change the guard denies what the change does not permit. *)
LateOK == late = 0 \/ (late = 1 /\ ~Permitted /\ call.pc \notin Early \cup {"send"})

(* Coverage that is outdated was outdated by an effect. *)
CacheOK ==
  /\ coverage = "stale" => \E u \in Uids : ~Clean(u)
  /\ call.pc = "done" /\ ~call.reconcile => coverage # "stale" /\ \A u \in Uids : call.outcome[u] # "unknown"

(* The inductive invariant. *)
BInv ==
  /\ BatchTypeOK
  /\ EarlyOK /\ SplitOK /\ WireOK /\ CleanOK /\ MarkOK /\ KindOK /\ AnswerOK /\ ReportOK /\ MoveOK
  /\ LateOK /\ CacheOK

-----------------------------------------------------------------------------
(* The fields of a call. *)
LEMMA Fields ==
  ASSUME BatchTypeOK
  PROVE  /\ call.blocked \subseteq Uids /\ call.todo \subseteq Uids /\ call.pending \subseteq Uids
         /\ call.current.uids \subseteq Uids /\ call.current.kind \in {"store", "move", "copy", "expunge"}
         /\ call.outcome \in [Uids -> Outcome] /\ call.reconcile \in BOOLEAN
BY DEF BatchTypeOK, Call, Command

LEMMA WireFields ==
  ASSUME BatchTypeOK
  PROVE  /\ Len(wire) \in Nat /\ (wire = <<>> <=> Len(wire) = 0)
         /\ \A i \in 1..Len(wire) : wire[i] \in Command
<1>1. wire \in Seq(Command)
  BY DEF BatchTypeOK
<1>2. Len(wire) \in Nat /\ \A i \in 1..Len(wire) : wire[i] \in Command
  BY <1>1, LenProperties, ElementOfSeq
<1>3. wire = <<>> <=> Len(wire) = 0
  BY <1>1, EmptySeq, LenProperties
<1> QED BY <1>2, <1>3

LEMMA InitHolds == Init => BInv
<1> SUFFICES ASSUME Init PROVE BInv
  OBVIOUS
<1> USE DEF Init
<1>1. authority \in Authority /\ wire = <<>> /\ Len(wire) = 0 /\ wire \in Seq(Command)
  <2>1. authority \in Authority
    BY DEF Authority
  <2>2. wire = <<>> /\ wire \in Seq(Command)
    BY EmptySeq
  <2> QED BY <2>1, <2>2, EmptySeq
<1>2. /\ call.pc = "idle" /\ call.blocked = {} /\ call.todo = {} /\ call.pending = {} /\ ~call.reconcile
      /\ call.outcome = [u \in Uids |-> "none"]
  OBVIOUS
<1>3. call \in Call
  BY <1>1 DEF Call, Command, Outcome
<1>4. BatchTypeOK
  BY <1>1, <1>3 DEF BatchTypeOK
<1>5. EarlyOK /\ SplitOK
  BY <1>1, <1>2 DEF EarlyOK, SplitOK, Early, Clean, Current, Busy
<1>6. WireOK /\ CleanOK /\ MarkOK /\ KindOK /\ AnswerOK
  BY <1>1, <1>2 DEF WireOK, CleanOK, MarkOK, KindOK, AnswerOK, Busy, Clean
<1>7. ReportOK /\ LateOK /\ CacheOK
  BY <1>2 DEF ReportOK, LateOK, CacheOK
<1>8. MoveOK
  BY <1>1, <1>2 DEF MoveOK, Busy
<1> QED BY <1>4, <1>5, <1>6, <1>7, <1>8 DEF BInv

(* The call goes on before it has sent anything. *)
LEMMA EarlyStep ==
  ASSUME BInv, call.pc \in Early, call' \in Call, call'.pc \in Early,
         UNCHANGED <<environment, remote, late>>,
         UNCHANGED <<call.op, call.blocked, call.todo, call.pending, call.outcome, call.reconcile>>
  PROVE  BInv'
<1> USE DEF BInv, environment, remote, Early
<1>1. BatchTypeOK' /\ EarlyOK' /\ SplitOK'
  BY DEF BatchTypeOK, EarlyOK, SplitOK, Clean, Current, Busy
<1>2. WireOK' /\ CleanOK' /\ MarkOK' /\ KindOK' /\ AnswerOK'
  BY DEF EarlyOK, WireOK, CleanOK, MarkOK, KindOK, AnswerOK, Clean, Current, Busy, BatchTypeOK
<1>3. ReportOK' /\ MoveOK'
  BY DEF EarlyOK, ReportOK, MoveOK, Busy, Clean, Fallback, Copied
<1>4. LateOK' /\ CacheOK'
  BY DEF EarlyOK, LateOK, CacheOK, Clean
<1> QED BY <1>1, <1>2, <1>3, <1>4

LEMMA ServiceStep ==
  ASSUME BInv, Resolve \/ Open \/ Discover \/ Guard \/ ConnectFails
  PROVE  BInv'
<1> authority \in Authority /\ call \in Call
  BY DEF BInv, BatchTypeOK
<1>1. CASE Raise /\ call.pc \in Early
  BY <1>1, EarlyStep DEF Raise, Call, Early
<1>2. CASE Resolve
  BY <1>1, <1>2, EarlyStep DEF Resolve, Call, Early
<1>3. CASE Open
  BY <1>1, <1>3, EarlyStep DEF Open, Call, Early
<1>4. CASE Discover
  BY <1>1, <1>4, EarlyStep DEF Discover, Call, Early
<1>5. CASE Guard
  BY <1>1, <1>5, EarlyStep DEF Guard, Call, Early
<1>6. CASE ConnectFails
  BY <1>1, <1>6 DEF ConnectFails, Early
<1> QED BY <1>2, <1>3, <1>4, <1>5, <1>6

LEMMA ConnectStep ==
  ASSUME BInv, Connect
  PROVE  BInv'
<1> USE DEF BInv, Connect, environment
<1> PICK concealed \in {"failed", "succeeded"} :
      call' = [call EXCEPT
                 !.pc = "next",
                 !.blocked = BlockedUids,
                 !.todo = IF Expunges /\ "UIDPLUS" \notin server THEN {} ELSE Uids \ BlockedUids,
                 !.outcome = [u \in Uids |->
                    CASE u \in BlockedUids -> concealed
                      [] u \in Uids \ BlockedUids /\ Expunges /\ "UIDPLUS" \notin server -> "failed"
                      [] OTHER -> "none"]]
  OBVIOUS
<1> BlockedUids \subseteq Uids
  BY DEF BlockedUids
<1> DEFINE stuck == Expunges /\ "UIDPLUS" \notin server
<1>1. /\ call.pc = "connect" /\ wire = <<>> /\ Len(wire) = 0 /\ late = 0
      /\ call.pending = {} /\ \A u \in Uids : Clean(u)
  BY Fields, WireFields DEF EarlyOK, Early
<1>2. /\ call'.pc = "next" /\ call'.blocked = BlockedUids /\ call'.pending = {}
      /\ call'.todo = IF stuck THEN {} ELSE Uids \ BlockedUids
      /\ \A u \in Uids : call'.outcome[u] = IF u \in BlockedUids THEN concealed
                                            ELSE IF stuck THEN "failed" ELSE "none"
      /\ UNCHANGED <<call.op, call.current, call.account, call.reply, call.reconcile>>
  BY <1>1 DEF BatchTypeOK, Call
<1> HIDE DEF stuck
<1>3. call' \in Call
  BY <1>1, Fields DEF BatchTypeOK, Call, Outcome
<1>4. BatchTypeOK' /\ EarlyOK'
  BY <1>2, <1>3 DEF BatchTypeOK, EarlyOK, Early
<1>5. SplitOK'
  BY <1>2 DEF SplitOK, Current, Busy
<1>6. WireOK' /\ MarkOK' /\ KindOK' /\ AnswerOK'
  BY <1>1, <1>2 DEF WireOK, MarkOK, KindOK, AnswerOK, Busy
<1>7. CleanOK'
  BY <1>1, <1>2 DEF CleanOK, Busy, Clean
<1>8. ReportOK' /\ LateOK'
  BY <1>1, <1>2 DEF ReportOK, LateOK
<1>9. MoveOK'
  BY <1>1, <1>2 DEF MoveOK, Busy, Clean
<1>10. CacheOK'
  BY <1>1, <1>2 DEF CacheOK, Clean
<1> QED BY <1>4, <1>5, <1>6, <1>7, <1>8, <1>9, <1>10

LEMMA TimesOutStep ==
  ASSUME BInv, ConnectTimesOut
  PROVE  BInv'
<1> USE DEF BInv, ConnectTimesOut, environment, remote
<1>1. /\ call.pc = "connect" /\ wire = <<>> /\ Len(wire) = 0 /\ late = 0
      /\ call.pending = {} /\ call.todo = {} /\ call.blocked = {} /\ \A u \in Uids : Clean(u)
  BY Fields, WireFields DEF EarlyOK, Early
<1>2. /\ call'.pc = "finish" /\ call'.reconcile
      /\ \A u \in Uids : call'.outcome[u] = "unknown"
      /\ UNCHANGED <<call.op, call.current, call.account, call.reply, call.pending, call.todo, call.blocked>>
  BY DEF BatchTypeOK, Call, Concluded
<1>3. call' \in Call
  BY <1>1, Fields DEF BatchTypeOK, Call, Outcome, Concluded
<1>4. BatchTypeOK' /\ EarlyOK'
  BY <1>2, <1>3 DEF BatchTypeOK, EarlyOK, Early
<1>5. SplitOK'
  BY <1>1, <1>2 DEF SplitOK, Current, Busy
<1>6. WireOK' /\ MarkOK' /\ KindOK' /\ AnswerOK'
  BY <1>1, <1>2 DEF WireOK, MarkOK, KindOK, AnswerOK, Busy
<1>7. CleanOK'
  BY <1>1, <1>2 DEF CleanOK, Busy, Clean
<1>8. ReportOK' /\ LateOK'
  BY <1>1, <1>2 DEF ReportOK, LateOK
<1>9. MoveOK'
  BY <1>1, <1>2 DEF MoveOK, Busy, Clean
<1>10. CacheOK'
  BY <1>1, <1>2 DEF CacheOK, Clean
<1> QED BY <1>4, <1>5, <1>6, <1>7, <1>8, <1>9, <1>10

(* The call goes on, and nothing else changes. *)
LEMMA CallFrame ==
  ASSUME BInv, UNCHANGED <<environment, remote, late>>, call.pc \notin Early,
         call' \in Call, call'.pc \notin Early \cup {"done"}, call'.pc = "send" => late = 0,
         UNCHANGED <<call.op, call.account, call.blocked>>
  PROVE  /\ BatchTypeOK' /\ EarlyOK' /\ LateOK' /\ CacheOK'
         /\ \A u \in Uids : (Clean(u)' <=> Clean(u)) /\ (Marked(u)' <=> Marked(u)) /\ (Copied(u)' <=> Copied(u))
         /\ Fallback' = Fallback /\ FirstKind' = FirstKind
<1> USE DEF BInv, environment, remote
<1>1. /\ \A u \in Uids : (Clean(u)' <=> Clean(u)) /\ (Marked(u)' <=> Marked(u)) /\ (Copied(u)' <=> Copied(u))
      /\ Fallback' = Fallback /\ FirstKind' = FirstKind /\ Permitted' = Permitted
  BY DEF Clean, Marked, Copied, Fallback, FirstKind, Permitted
<1>2. BatchTypeOK' /\ EarlyOK'
  BY DEF BatchTypeOK, EarlyOK
<1>3. LateOK'
  BY <1>1 DEF LateOK
<1>4. CacheOK'
  BY <1>1 DEF CacheOK
<1> QED BY <1>1, <1>2, <1>3, <1>4

(* The call has made up its mind about the messages of the current command. *)
LEMMA ConcludeStep ==
  ASSUME BInv, NEW status \in {"succeeded", "failed", "unknown"}, Busy,
         call' = [call EXCEPT !.pc = "next", !.outcome = Concluded(call.current.uids, status)],
         UNCHANGED <<environment, remote, late>>,
         status = "failed" => \A u \in Current : Clean(u),
         status = "succeeded" => \A u \in Current :
             \/ message[u].place # "source" \/ message[u].cleared
             \/ call.op = "flags" /\ message[u].flagged,
         call.pc = "await" /\ wire # <<>> => status = "unknown",
         Fallback => wire = <<>>
  PROVE  BInv'
<1> USE DEF BInv
<1>1. /\ call.pc \notin Early /\ Current = call.current.uids /\ Current \subseteq Uids /\ Current' = {}
      /\ ~Busy' /\ call'.pc = "next"
      /\ UNCHANGED <<call.op, call.account, call.blocked, call.todo, call.pending, call.current,
                     call.reply, call.reconcile>>
      /\ \A u \in Uids : call'.outcome[u] = IF u \in Current THEN status ELSE call.outcome[u]
  BY Fields DEF BatchTypeOK, Call, Concluded, Busy, Current, Early
<1>2. call' \in Call
  BY Fields DEF BatchTypeOK, Call, Concluded, Outcome
<1>3. /\ BatchTypeOK' /\ EarlyOK' /\ LateOK' /\ CacheOK'
      /\ \A u \in Uids : (Clean(u)' <=> Clean(u)) /\ (Marked(u)' <=> Marked(u)) /\ (Copied(u)' <=> Copied(u))
      /\ Fallback' = Fallback /\ FirstKind' = FirstKind
  BY <1>1, <1>2, CallFrame DEF Early
<1>4. SplitOK'
  BY <1>1, Fields DEF SplitOK, Early
<1>5. WireOK'
  <2> SUFFICES ASSUME NEW i \in 1..Len(wire), NEW u \in wire[i].uids PROVE call'.outcome[u] = "unknown"
    BY <1>1 DEF WireOK, remote
  <2>1. u \in Uids
    BY WireFields DEF Command
  <2>2. CASE call.outcome[u] = "unknown"
    BY <1>1, <2>1, <2>2 DEF SplitOK
  <2>3. CASE call.pc = "await" /\ u \in Current
    BY <1>1, <2>1, <2>3, WireFields
  <2> QED BY <2>2, <2>3 DEF WireOK
<1>6. CleanOK' /\ MarkOK'
  BY <1>1, <1>3, Fields DEF CleanOK, MarkOK
<1>7. KindOK' /\ AnswerOK'
  BY <1>1 DEF KindOK, AnswerOK
<1>8. ReportOK'
  BY <1>1 DEF ReportOK, remote
<1>9. MoveOK'
  BY <1>1, <1>3, WireFields DEF MoveOK, remote, Command
<1> QED BY <1>3, <1>4, <1>5, <1>6, <1>7, <1>8, <1>9

(* The call stops before it has tried the rest. *)
LEMMA StopStep ==
  ASSUME BInv, call.pc = "await", call.reply # "OK", call' = Stopped,
         UNCHANGED <<environment, remote, late>>
  PROVE  BInv'
<1> USE DEF BInv
<1>1. /\ call.pc \notin Early /\ Current = call.current.uids /\ Current \subseteq Uids /\ Current' = {}
      /\ ~Busy' /\ call'.pc = "finish" /\ call'.todo = {} /\ call'.pending = {}
      /\ UNCHANGED <<call.op, call.account, call.blocked, call.current, call.reply, call.reconcile>>
      /\ \A u \in Uids : call'.outcome[u] = IF u \in Current \cup call.pending THEN "unknown"
                                            ELSE IF u \in call.todo THEN "failed" ELSE call.outcome[u]
  <2>1. /\ call.pc \notin Early /\ Current = call.current.uids /\ Current \subseteq Uids
    BY Fields DEF Busy, Current, Early
  <2>2. /\ call'.pc = "finish" /\ call'.todo = {} /\ call'.pending = {}
        /\ UNCHANGED <<call.op, call.account, call.blocked, call.current, call.reply, call.reconcile>>
    BY DEF BatchTypeOK, Call, Stopped
  <2>3. call'.outcome = [u \in Uids |->
          CASE u \in call.current.uids \cup call.pending -> "unknown"
            [] u \in call.todo -> "failed"
            [] OTHER -> call.outcome[u]]
    BY DEF BatchTypeOK, Call, Stopped
  <2>4. ASSUME NEW u \in Uids
        PROVE  call'.outcome[u] = IF u \in Current \cup call.pending THEN "unknown"
                                  ELSE IF u \in call.todo THEN "failed" ELSE call.outcome[u]
    <3>1. CASE u \in Current \cup call.pending
      <4>1. u \notin call.todo
        BY <3>1, Fields DEF SplitOK
      <4> QED BY <2>1, <2>3, <3>1, <4>1
    <3>2. CASE u \notin Current \cup call.pending
      BY <2>1, <2>3, <3>2
    <3> QED BY <3>1, <3>2
  <2> QED BY <2>1, <2>2, <2>4 DEF Current, Busy
<1>2. call' \in Call
  BY Fields DEF BatchTypeOK, Call, Stopped, Outcome
<1>3. /\ BatchTypeOK' /\ EarlyOK' /\ LateOK' /\ CacheOK'
      /\ \A u \in Uids : (Clean(u)' <=> Clean(u)) /\ (Marked(u)' <=> Marked(u)) /\ (Copied(u)' <=> Copied(u))
      /\ Fallback' = Fallback /\ FirstKind' = FirstKind
  BY <1>1, <1>2, CallFrame DEF Early
<1>4. SplitOK'
  BY <1>1, Fields DEF SplitOK, Early
<1>5. WireOK'
  <2> SUFFICES ASSUME NEW i \in 1..Len(wire), NEW u \in wire[i].uids PROVE call'.outcome[u] = "unknown"
    BY <1>1 DEF WireOK, remote
  <2>1. u \in Uids
    BY WireFields DEF Command
  <2> QED BY <1>1, <2>1 DEF WireOK, SplitOK
<1>6. CleanOK' /\ MarkOK'
  BY <1>1, <1>3, Fields DEF CleanOK, MarkOK
<1>7. KindOK' /\ AnswerOK'
  BY <1>1 DEF KindOK, AnswerOK
<1>8. ReportOK'
  BY <1>1 DEF ReportOK, remote
<1>9. MoveOK'
  BY <1>1, <1>3, WireFields DEF MoveOK, remote, Command
<1> QED BY <1>3, <1>4, <1>5, <1>6, <1>7, <1>8, <1>9

LEMMA CheckDeniesStep ==
  ASSUME BInv, CheckDenies
  PROVE  BInv'
<1>1. Busy /\ call.pc = "check" /\ Rejected \in {"succeeded", "failed", "unknown"} /\ Rejected # "succeeded"
  BY DEF CheckDenies, Busy, Rejected
<1>2. Rejected = "failed" => \A u \in Current : Clean(u)
  BY <1>1 DEF BInv, CleanOK, Rejected
<1>3. Fallback => wire = <<>>
  BY <1>1 DEF BInv, MoveOK, Fallback
<1> QED BY <1>1, <1>2, <1>3, ConcludeStep DEF CheckDenies

LEMMA ReplyNOStep ==
  ASSUME BInv, ReplyNO
  PROVE  BInv'
<1>1. Busy /\ call.pc = "await" /\ Rejected \in {"succeeded", "failed", "unknown"} /\ Rejected # "succeeded"
      /\ call.reply = "NO" /\ wire = <<>>
  BY DEF ReplyNO, Busy, Rejected, BInv, WireOK
<1>2. Rejected = "failed" => \A u \in Current : Clean(u)
  BY <1>1 DEF BInv, CleanOK, Rejected
<1> QED BY <1>1, <1>2, ConcludeStep DEF ReplyNO

LEMMA NoAnswerStep ==
  ASSUME BInv, NoAnswer \/ Cancelled
  PROVE  BInv'
<1>1. CASE NoAnswer /\ ~Fallback
  BY <1>1, ConcludeStep DEF NoAnswer, Busy
<1>2. CASE NoAnswer /\ Fallback
  BY <1>2, StopStep DEF NoAnswer
<1>3. CASE Cancelled
  BY <1>3, StopStep DEF Cancelled
<1> QED BY <1>1, <1>2, <1>3

(* The next message, the marked ones, or the end of the loop. *)
LEMMA TakeStep ==
  ASSUME BInv, Take
  PROVE  BInv'
<1> USE DEF BInv
<1>1. /\ call.pc = "next" /\ ~Busy /\ Current = {} /\ call.pc \notin Early
      /\ UNCHANGED <<environment, remote, late>> /\ (Fallback => wire = <<>>) /\ FirstKind \in {"store", "move", "copy"}
      /\ (call.op = "flags" => FirstKind = "store") /\ (call.op = "delete" => FirstKind = "store")
      /\ (Fallback => FirstKind = "copy") /\ (call.op \in Moves /\ ~Fallback => FirstKind = "move")
  <2>1. /\ call.pc = "next" /\ ~Busy /\ Current = {} /\ call.pc \notin Early
        /\ UNCHANGED <<environment, remote, late>>
    BY DEF Take, Busy, Current, Early
  <2>2. call.op \in {"flags", "delete"} \cup Moves
    BY DEF BatchTypeOK, Call
  <2>3. Fallback => wire = <<>>
    BY <2>1 DEF MoveOK, Fallback
  <2>4. CASE call.op \notin Moves
    BY <2>1, <2>2, <2>3, <2>4 DEF FirstKind, Fallback
  <2>5. CASE call.op \in Moves /\ Fallback
    BY <2>1, <2>3, <2>5 DEF FirstKind, Fallback, Moves
  <2>6. CASE call.op \in Moves /\ ~Fallback
    BY <2>1, <2>3, <2>6 DEF FirstKind, Fallback, Moves
  <2> QED BY <2>4, <2>5, <2>6
<1>2. CASE \E u \in call.todo :
             call' = [call EXCEPT !.pc = "check", !.todo = @ \ {u},
                                  !.current = [kind |-> FirstKind, uids |-> {u}]]
  <2> PICK v \in call.todo :
             call' = [call EXCEPT !.pc = "check", !.todo = @ \ {v},
                                  !.current = [kind |-> FirstKind, uids |-> {v}]]
    BY <1>2
  <2>1. /\ call'.pc = "check" /\ Busy' /\ Current' = {v} /\ call'.todo = call.todo \ {v}
        /\ call'.current.kind = FirstKind /\ call'.current.uids = {v} /\ v \in Uids
        /\ UNCHANGED <<call.op, call.account, call.blocked, call.pending, call.reply, call.reconcile,
                       call.outcome>>
    BY Fields DEF BatchTypeOK, Call, Busy, Current
  <2>2. call' \in Call
    BY <1>1, Fields DEF BatchTypeOK, Call, Command
  <2>3. /\ BatchTypeOK' /\ EarlyOK' /\ LateOK' /\ CacheOK'
        /\ \A u \in Uids : (Clean(u)' <=> Clean(u)) /\ (Marked(u)' <=> Marked(u)) /\ (Copied(u)' <=> Copied(u))
        /\ Fallback' = Fallback /\ FirstKind' = FirstKind
    BY <1>1, <2>1, <2>2, CallFrame DEF Early
  <2>4. SplitOK'
    BY <1>1, <2>1, Fields DEF SplitOK, Early
  <2>5. WireOK'
    BY <1>1, <2>1 DEF WireOK, remote
  <2>6. CleanOK' /\ MarkOK'
    BY <1>1, <2>1, <2>3, Fields DEF CleanOK, MarkOK
  <2>7. KindOK' /\ AnswerOK'
    BY <1>1, <2>1, <2>3 DEF KindOK, AnswerOK
  <2>8. ReportOK'
    BY <1>1, <2>1 DEF ReportOK, remote
  <2>9. MoveOK'
    BY <1>1, <2>1, <2>3, WireFields DEF MoveOK, remote, Command
  <2> QED BY <2>3, <2>4, <2>5, <2>6, <2>7, <2>8, <2>9
<1>3. CASE /\ call.pending # {}
           /\ call' = [call EXCEPT !.pc = "check", !.pending = {},
                                   !.current = [kind |-> "expunge", uids |-> call.pending]]
  <2>1. /\ call'.pc = "check" /\ Busy' /\ Current' = call.pending /\ call'.pending = {}
        /\ call'.current.kind = "expunge" /\ call'.current.uids = call.pending
        /\ UNCHANGED <<call.op, call.account, call.blocked, call.todo, call.reply, call.reconcile, call.outcome>>
        /\ call.op = "delete"
    BY <1>3 DEF BatchTypeOK, Call, Busy, Current, MarkOK
  <2>2. call' \in Call
    BY <1>3, Fields DEF BatchTypeOK, Call, Command
  <2>3. /\ BatchTypeOK' /\ EarlyOK' /\ LateOK' /\ CacheOK'
        /\ \A u \in Uids : (Clean(u)' <=> Clean(u)) /\ (Marked(u)' <=> Marked(u)) /\ (Copied(u)' <=> Copied(u))
        /\ Fallback' = Fallback /\ FirstKind' = FirstKind
    BY <1>1, <2>1, <2>2, CallFrame DEF Early
  <2>4. SplitOK'
    BY <1>1, <2>1, Fields DEF SplitOK, Early
  <2>5. WireOK'
    BY <1>1, <2>1 DEF WireOK, remote
  <2>6. CleanOK' /\ MarkOK'
    BY <1>1, <2>1, <2>3, Fields DEF CleanOK, MarkOK
  <2>7. KindOK' /\ AnswerOK'
    BY <1>1, <2>1, <2>3 DEF KindOK, AnswerOK, Fallback, Moves
  <2>8. ReportOK'
    BY <1>1, <2>1 DEF ReportOK, remote
  <2>9. MoveOK'
    BY <2>1 DEF MoveOK, Moves
  <2> QED BY <2>3, <2>4, <2>5, <2>6, <2>7, <2>8, <2>9
<1>4. CASE call.todo = {} /\ call.pending = {} /\ call' = [call EXCEPT !.pc = "finish"]
  <2>1. /\ call'.pc = "finish" /\ ~Busy' /\ Current' = {}
        /\ UNCHANGED <<call.op, call.account, call.blocked, call.todo, call.pending, call.current, call.reply,
                       call.reconcile, call.outcome>>
    BY <1>4 DEF BatchTypeOK, Call, Busy, Current
  <2>2. call' \in Call
    BY <1>4 DEF BatchTypeOK, Call
  <2>3. /\ BatchTypeOK' /\ EarlyOK' /\ LateOK' /\ CacheOK'
        /\ \A u \in Uids : (Clean(u)' <=> Clean(u)) /\ (Marked(u)' <=> Marked(u)) /\ (Copied(u)' <=> Copied(u))
        /\ Fallback' = Fallback /\ FirstKind' = FirstKind
    BY <1>1, <2>1, <2>2, CallFrame DEF Early
  <2>4. SplitOK'
    BY <1>1, <1>4, <2>1 DEF SplitOK, Early
  <2>5. WireOK'
    BY <1>1, <2>1 DEF WireOK, remote
  <2>6. CleanOK' /\ MarkOK'
    BY <1>1, <2>1, <2>3, Fields DEF CleanOK, MarkOK
  <2>7. KindOK' /\ AnswerOK'
    BY <2>1 DEF KindOK, AnswerOK
  <2>8. ReportOK'
    BY <1>1, <2>1 DEF ReportOK, remote
  <2>9. MoveOK'
    BY <1>1, <2>1, <2>3, WireFields DEF MoveOK, remote, Command
  <2> QED BY <2>3, <2>4, <2>5, <2>6, <2>7, <2>8, <2>9
<1> QED BY <1>2, <1>3, <1>4 DEF Take

LEMMA CheckAllowsStep ==
  ASSUME BInv, CheckAllows
  PROVE  BInv'
<1> USE DEF BInv, CheckAllows
<1>1. /\ call.pc = "check" /\ Busy /\ call.pc \notin Early /\ late = 0
      /\ call'.pc = "send" /\ Busy' /\ Current' = Current
      /\ UNCHANGED <<call.op, call.account, call.blocked, call.todo, call.pending, call.current, call.reply,
                     call.reconcile, call.outcome>>
  BY DEF BatchTypeOK, Call, Busy, Current, Early, LateOK
<1>2. call' \in Call
  BY DEF BatchTypeOK, Call
<1>3. /\ BatchTypeOK' /\ EarlyOK' /\ LateOK' /\ CacheOK'
      /\ \A u \in Uids : (Clean(u)' <=> Clean(u)) /\ (Marked(u)' <=> Marked(u)) /\ (Copied(u)' <=> Copied(u))
      /\ Fallback' = Fallback /\ FirstKind' = FirstKind
  BY <1>1, <1>2, CallFrame DEF Early
<1>4. SplitOK'
  BY <1>1 DEF SplitOK, Early
<1>5. WireOK'
  BY <1>1 DEF WireOK, remote
<1>6. CleanOK' /\ MarkOK'
  BY <1>1, <1>3, Fields DEF CleanOK, MarkOK, Current
<1>7. KindOK' /\ AnswerOK'
  BY <1>1, <1>3 DEF KindOK, AnswerOK
<1>8. ReportOK'
  BY <1>1 DEF ReportOK, remote
<1>9. MoveOK'
  BY <1>1, <1>3, Fields, WireFields DEF MoveOK, remote, Command, Current
<1> QED BY <1>3, <1>4, <1>5, <1>6, <1>7, <1>8, <1>9

(* The next command for the same message. *)
LEMMA GotoStep ==
  ASSUME BInv, NEW kind \in {"store", "expunge"}, call.pc = "await", call.reply = "OK", Fallback,
         call' = Goto(kind), UNCHANGED <<environment, remote, late>>,
         kind = "store" => \A u \in Current : Copied(u),
         kind = "expunge" => \A u \in Current : Marked(u)
  PROVE  BInv'
<1> USE DEF BInv
<1>1. /\ Busy /\ call.pc \notin Early /\ wire = <<>>
      /\ call'.pc = "check" /\ Busy' /\ Current' = Current /\ call'.current.kind = kind
      /\ UNCHANGED <<call.op, call.account, call.blocked, call.todo, call.pending, call.reply,
                     call.reconcile, call.outcome>>
  BY DEF BatchTypeOK, Call, Command, Busy, Current, Early, Goto, WireOK
<1>2. call' \in Call
  BY DEF BatchTypeOK, Call, Command, Goto
<1>3. /\ BatchTypeOK' /\ EarlyOK' /\ LateOK' /\ CacheOK'
      /\ \A u \in Uids : (Clean(u)' <=> Clean(u)) /\ (Marked(u)' <=> Marked(u)) /\ (Copied(u)' <=> Copied(u))
      /\ Fallback' = Fallback /\ FirstKind' = FirstKind
  BY <1>1, <1>2, CallFrame DEF Early
<1>4. FirstKind = "copy" /\ call.op \in Moves /\ call.op \notin {"flags", "delete"}
  BY DEF FirstKind, Fallback, Moves
<1>5. SplitOK'
  BY <1>1 DEF SplitOK, Early
<1>6. WireOK'
  BY <1>1, WireFields DEF WireOK, remote
<1>7. CleanOK' /\ MarkOK'
  BY <1>1, <1>3, <1>4, Fields DEF CleanOK, MarkOK, Current
<1>8. KindOK' /\ AnswerOK'
  BY <1>1, <1>3, <1>4 DEF KindOK, AnswerOK
<1>9. ReportOK'
  BY <1>1 DEF ReportOK, remote
<1>10. MoveOK'
  BY <1>1, <1>3, Fields, WireFields DEF MoveOK, remote, Command, Current
<1> QED BY <1>3, <1>5, <1>6, <1>7, <1>8, <1>9, <1>10

(* A message that is marked waits for the expunge at the end. *)
LEMMA PendStep ==
  ASSUME BInv, call.pc = "await", call.reply = "OK", call.op = "delete", call.current.kind = "store",
         call' = [call EXCEPT !.pc = "next", !.pending = @ \cup call.current.uids],
         UNCHANGED <<environment, remote, late>>
  PROVE  BInv'
<1> USE DEF BInv
<1>1. /\ Busy /\ call.pc \notin Early /\ wire = <<>> /\ Current \subseteq Uids
      /\ call'.pc = "next" /\ ~Busy' /\ Current' = {} /\ call'.pending = call.pending \cup Current
      /\ UNCHANGED <<call.op, call.account, call.blocked, call.todo, call.reply, call.reconcile, call.outcome>>
  BY Fields DEF BatchTypeOK, Call, Busy, Current, Early, WireOK
<1>2. call' \in Call
  BY Fields DEF BatchTypeOK, Call
<1>3. /\ BatchTypeOK' /\ EarlyOK' /\ LateOK' /\ CacheOK'
      /\ \A u \in Uids : (Clean(u)' <=> Clean(u)) /\ (Marked(u)' <=> Marked(u)) /\ (Copied(u)' <=> Copied(u))
  BY <1>1, <1>2, CallFrame DEF Early
<1>4. SplitOK'
  BY <1>1, Fields DEF SplitOK, Early
<1>5. WireOK'
  BY <1>1, WireFields DEF WireOK, remote
<1>6. CleanOK' /\ MarkOK'
  BY <1>1, <1>3, Fields DEF CleanOK, MarkOK, AnswerOK
<1>7. KindOK' /\ AnswerOK'
  BY <1>1 DEF KindOK, AnswerOK
<1>8. ReportOK'
  BY <1>1 DEF ReportOK, remote
<1>9. MoveOK'
  BY <1>1 DEF MoveOK, Moves
<1> QED BY <1>3, <1>4, <1>5, <1>6, <1>7, <1>8, <1>9

LEMMA ReplyOKStep ==
  ASSUME BInv, ReplyOK
  PROVE  BInv'
<1> USE DEF BInv
<1>1. /\ call.pc = "await" /\ call.reply = "OK" /\ UNCHANGED <<environment, remote, late>>
      /\ Busy /\ wire = <<>> /\ call.op \in {"flags", "delete"} \cup Moves
      /\ call.current.kind \in {"store", "move", "copy", "expunge"}
  BY Fields DEF ReplyOK, Busy, WireOK, BatchTypeOK, Call
<1>2. CASE call.current.kind = "copy"
  <2>1. Fallback /\ \A u \in Current : Copied(u)
    BY <1>1, <1>2 DEF KindOK, AnswerOK, Moves
  <2>2. call' = Goto("store")
    BY <1>2 DEF ReplyOK
  <2> QED BY <1>1, <2>1, <2>2, GotoStep
<1>3. CASE call.current.kind = "store" /\ Fallback
  <2>1. \A u \in Current : Marked(u)
    BY <1>1, <1>3 DEF AnswerOK
  <2>2. call' = Goto("expunge")
    BY <1>3 DEF ReplyOK, Fallback, Moves
  <2> QED BY <1>1, <1>3, <2>1, <2>2, GotoStep
<1>4. CASE call.current.kind = "store" /\ ~Fallback /\ call.op = "delete"
  <2>1. call' = [call EXCEPT !.pc = "next", !.pending = @ \cup call.current.uids]
    BY <1>4 DEF ReplyOK
  <2> QED BY <1>1, <1>4, <2>1, PendStep
<1>5. CASE \/ call.current.kind \in {"move", "expunge"}
           \/ call.current.kind = "store" /\ ~Fallback /\ call.op # "delete"
  <2>1. call' = [call EXCEPT !.pc = "next", !.outcome = Concluded(call.current.uids, "succeeded")]
    BY <1>5 DEF ReplyOK
  <2>2. \A u \in Current :
           message[u].place # "source" \/ message[u].cleared \/ (call.op = "flags" /\ message[u].flagged)
    <3>1. CASE call.current.kind \in {"move", "expunge"}
      BY <1>1, <3>1 DEF AnswerOK
    <3>2. CASE call.current.kind = "store" /\ ~Fallback /\ call.op # "delete"
      <4>1. call.op = "flags"
        BY <1>1, <3>2 DEF KindOK, Fallback
      <4>2. \A u \in Current : Marked(u)
        BY <1>1, <3>2 DEF AnswerOK
      <4> QED BY <4>1, <4>2 DEF Marked
    <3> QED BY <1>5, <3>1, <3>2
  <2> QED BY <1>1, <2>1, <2>2, ConcludeStep
<1> QED BY <1>1, <1>2, <1>3, <1>4, <1>5

(* The report, and what it may do to the coverage. *)
LEMMA FinishStep ==
  ASSUME BInv, Finish
  PROVE  BInv'
<1> USE DEF BInv
<1>1. /\ call.pc = "finish" /\ call.pc \notin Early /\ ~Busy /\ Current = {}
      /\ UNCHANGED <<environment, server, link, wire, message, late>> /\ coverage' \in {coverage, "none"}
      /\ \E failed \in BOOLEAN : Report(failed)
  BY DEF Finish, ReturnUnchanged, Invalidate, InvalidateFails, Busy, Current, Early, remote
<1> PICK failed \in BOOLEAN : Report(failed)
  BY <1>1
<1>2. /\ call'.pc = "done" /\ ~Busy' /\ Current' = {}
      /\ call'.reconcile = (call.reconcile \/ failed \/ Ambiguous)
      /\ UNCHANGED <<call.op, call.account, call.blocked, call.todo, call.pending, call.current, call.reply,
                     call.outcome>>
  BY <1>1 DEF BatchTypeOK, Call, Busy, Current, Report
<1>3. call' \in Call
  BY Fields DEF BatchTypeOK, Call, Report, Ambiguous
<1>4. /\ \A u \in Uids : (Clean(u)' <=> Clean(u)) /\ (Marked(u)' <=> Marked(u)) /\ (Copied(u)' <=> Copied(u))
      /\ Fallback' = Fallback /\ FirstKind' = FirstKind /\ Permitted' = Permitted
  BY <1>1, <1>2 DEF Clean, Marked, Copied, Fallback, FirstKind, Permitted, environment
<1>5. BatchTypeOK' /\ EarlyOK' /\ LateOK'
  BY <1>1, <1>2, <1>3, <1>4 DEF BatchTypeOK, EarlyOK, LateOK, Early, environment
<1>6. SplitOK'
  BY <1>1, <1>2 DEF SplitOK, Early
<1>7. WireOK'
  BY <1>1, <1>2 DEF WireOK
<1>8. CleanOK' /\ MarkOK'
  BY <1>1, <1>2, <1>4, Fields DEF CleanOK, MarkOK
<1>9. KindOK' /\ AnswerOK'
  BY <1>2 DEF KindOK, AnswerOK
<1>10. ReportOK'
  BY <1>1, <1>2 DEF ReportOK
<1>11. MoveOK'
  BY <1>1, <1>2, <1>4, WireFields DEF MoveOK, Command
<1>12. (coverage = "stale" => \E u \in Uids : ~Clean(u))' 
  BY <1>1, <1>4 DEF CacheOK
<1>13. (call.pc = "done" /\ ~call.reconcile => coverage # "stale" /\ \A u \in Uids : call.outcome[u] # "unknown")'
  <2> SUFFICES ASSUME ~call'.reconcile PROVE coverage' # "stale" /\ \A u \in Uids : call.outcome[u] # "unknown"
    BY <1>2
  <2>1. \A u \in Uids : call.outcome[u] # "unknown"
    BY <1>2, Fields DEF Ambiguous
  <2>2. CASE EffectMayHaveStarted
    <3>1. Invalidate \/ InvalidateFails
      BY <2>2 DEF Finish, ReturnUnchanged
    <3>2. ~InvalidateFails
      BY <1>1, Fields DEF InvalidateFails, Report, BatchTypeOK, Call
    <3> QED BY <2>1, <3>1, <3>2 DEF Invalidate
  <2>3. CASE ~EffectMayHaveStarted
    <3>1. \A u \in Uids : call.outcome[u] = "failed"
      BY <1>1, <2>1, <2>3, Fields DEF EffectMayHaveStarted, SplitOK, Outcome
    <3>2. \A u \in Uids : Clean(u)
      BY <3>1 DEF CleanOK
    <3>3. coverage # "stale"
      BY <3>2 DEF CacheOK
    <3> QED BY <1>1, <2>1, <3>3
  <2> QED BY <2>2, <2>3
<1>14. CacheOK'
  BY <1>12, <1>13 DEF CacheOK
<1> QED BY <1>5, <1>6, <1>7, <1>8, <1>9, <1>10, <1>11, <1>14

LEMMA SendStep ==
  ASSUME BInv, Send
  PROVE  BInv'
<1> USE DEF BInv
<1>1. /\ call.pc = "send" /\ Busy /\ call.pc \notin Early /\ late = 0
      /\ call'.pc = "await" /\ call'.reply = "none" /\ Busy' /\ Current' = Current
      /\ UNCHANGED <<environment, server, link, message, coverage>>
      /\ late' = IF Permitted THEN late ELSE late + 1
      /\ wire' = IF link = "up" THEN Append(wire, call.current) ELSE wire
      /\ UNCHANGED <<call.op, call.account, call.blocked, call.todo, call.pending, call.current,
                     call.reconcile, call.outcome>>
  BY DEF Send, BatchTypeOK, Call, Busy, Current, Early, LateOK
<1>2. call' \in Call /\ call.current \in Command
  BY DEF Send, BatchTypeOK, Call
<1>3. /\ \A u \in Uids : (Clean(u)' <=> Clean(u)) /\ (Marked(u)' <=> Marked(u)) /\ (Copied(u)' <=> Copied(u))
      /\ Fallback' = Fallback /\ FirstKind' = FirstKind /\ Permitted' = Permitted
  BY <1>1 DEF Clean, Marked, Copied, Fallback, FirstKind, Permitted, environment
<1>4. wire' = wire \/ (/\ Len(wire') = Len(wire) + 1 /\ wire'[Len(wire')] = call.current
                      /\ \A i \in 1..Len(wire) : wire'[i] = wire[i])
  BY <1>1, <1>2, AppendProperties DEF BatchTypeOK
<1>5. wire' \in Seq(Command) /\ (link = "down" => wire = <<>> /\ wire' = wire) /\ (wire' = wire \/ link = "up")
  BY <1>1, <1>2, AppendProperties DEF BatchTypeOK, WireOK
<1>6. late' \in Nat
  BY <1>1
<1>7. BatchTypeOK' /\ EarlyOK'
  BY <1>1, <1>2, <1>5, <1>6 DEF BatchTypeOK, EarlyOK, Early, environment
<1>8. SplitOK'
  BY <1>1 DEF SplitOK, Early
<1>9. link' = link /\ (link = "up" => Len(wire') = Len(wire) + 1)
  BY <1>1, <1>2, AppendProperties DEF BatchTypeOK
<1>10. wire' # <<>> => wire'[Len(wire')] = call.current
  BY <1>1, <1>2, <1>5, AppendProperties DEF BatchTypeOK, WireOK
<1>11. \A i \in 1..Len(wire') : i = Len(wire') \/ (i \in 1..Len(wire) /\ wire'[i] = wire[i])
  <2>1. CASE wire' = wire
    BY <1>9, <1>5, <2>1, WireFields DEF BatchTypeOK, WireOK
  <2>2. CASE wire' # wire
    BY <1>4, <2>2, WireFields
  <2> QED BY <2>1, <2>2
<1>12. WireOK'
  <2>1. ASSUME NEW i \in 1..Len(wire'), NEW u \in wire'[i].uids
        PROVE  call.outcome[u] = "unknown" \/ (i = Len(wire') /\ u \in Current)
    <3>1. CASE i = Len(wire')
      <4>1. wire' # <<>>
        BY <1>7, EmptySeq DEF BatchTypeOK
      <4> QED BY <1>1, <1>10, <3>1, <4>1 DEF Current
    <3>2. CASE i \in 1..Len(wire) /\ wire'[i] = wire[i]
      BY <1>1, <3>2 DEF WireOK
    <3> QED BY <1>11, <3>1, <3>2
  <2> QED BY <1>1, <1>5, <1>10, <2>1 DEF WireOK
<1>13. CleanOK' /\ MarkOK'
  BY <1>1, <1>3, Fields DEF CleanOK, MarkOK, Current
<1>14. KindOK' /\ AnswerOK'
  BY <1>1, <1>3 DEF KindOK, AnswerOK
<1>15. ReportOK'
  BY <1>1 DEF ReportOK
<1>16. LateOK'
  BY <1>1, <1>3 DEF LateOK, Early
<1>17. CacheOK'
  BY <1>1, <1>3 DEF CacheOK
<1>18. MoveOK'
  <2> SUFFICES ASSUME call.op \in Moves PROVE MoveOK'
    BY <1>1 DEF MoveOK
  <2>1. Fallback => wire = <<>> /\ Len(wire) = 0 /\ Len(wire') <= 1
    BY <1>1, <1>4, WireFields, EmptySeq DEF MoveOK
  <2>2. ASSUME NEW i \in 1..Len(wire'), NEW u \in wire'[i].uids
        PROVE  /\ wire'[i].kind = "move" <=> ~Fallback
               /\ wire'[i].kind = "copy" => message[u].copies = 0
               /\ wire'[i].kind = "store" => Copied(u)
    <3>1. CASE i \in 1..Len(wire) /\ wire'[i] = wire[i]
      BY <3>1 DEF MoveOK
    <3>2. CASE i = Len(wire') /\ wire'[i] = call.current
      <4>1. wire'[i].kind = "move" <=> ~Fallback
        BY <1>1, <3>2 DEF KindOK
      <4>2. u \in Current /\ u \in Uids
        BY <1>1, <3>2, Fields DEF Current
      <4>3. call.current.kind = "copy" => Fallback /\ FirstKind = "copy"
        BY <1>1, Fields DEF KindOK, FirstKind, Fallback, Moves
      <4>4. call.current.kind = "copy" => message[u].copies = 0
        BY <1>1, <4>2, <4>3 DEF CleanOK, Clean
      <4>5. call.current.kind = "store" => Copied(u)
        BY <1>1, <4>2 DEF MoveOK, KindOK
      <4> QED BY <3>2, <4>1, <4>4, <4>5
    <3>3. wire' # <<>>
      BY <1>7, EmptySeq DEF BatchTypeOK
    <3> QED BY <1>10, <1>11, <3>1, <3>2, <3>3
  <2>3. \A i \in 1..Len(wire') : wire'[i] \in Command
    BY <1>5, ElementOfSeq
  <2> QED BY <1>1, <1>3, <2>1, <2>2, <2>3, Fields DEF MoveOK, Command, Current
<1> QED BY <1>7, <1>8, <1>12, <1>13, <1>14, <1>15, <1>16, <1>17, <1>18

(* The operator changes the authority, a query covers the mailboxes anew. *)
LEMMA ChangeStep ==
  ASSUME BInv, Refresh \/ ChangeAuthority
  PROVE  BInv'
<1> USE DEF BInv
<1>1. /\ UNCHANGED <<server, link, wire, message, call>>
      /\ UNCHANGED <<authority, late>> \/ late' = 0
      /\ coverage' \in {coverage, "fresh"} /\ authority' \in Authority
  <2>1. CASE Refresh
    BY <2>1 DEF Refresh, environment, BatchTypeOK
  <2>2. CASE ChangeAuthority
    BY <2>2 DEF ChangeAuthority, remote, BatchTypeOK, Authority
  <2> QED BY <2>1, <2>2
<1>2. /\ \A u \in Uids : (Clean(u)' <=> Clean(u)) /\ (Marked(u)' <=> Marked(u)) /\ (Copied(u)' <=> Copied(u))
      /\ Fallback' = Fallback /\ FirstKind' = FirstKind /\ Current' = Current /\ (Busy' <=> Busy)
  BY <1>1 DEF Clean, Marked, Copied, Fallback, FirstKind, Current, Busy
<1>3. BatchTypeOK'
  BY <1>1 DEF BatchTypeOK
<1>4. EarlyOK' /\ SplitOK'
  BY <1>1, <1>2 DEF EarlyOK, SplitOK
<1>5. WireOK' /\ CleanOK' /\ MarkOK'
  <2>1. WireOK'
    BY <1>1, <1>2 DEF WireOK
  <2>2. CleanOK' /\ MarkOK'
    BY <1>1, <1>2, Fields DEF CleanOK, MarkOK, Current
  <2> QED BY <2>1, <2>2
<1>6. KindOK' /\ AnswerOK' /\ ReportOK'
  BY <1>1, <1>2, Fields DEF KindOK, AnswerOK, ReportOK, Current
<1>7. MoveOK'
  BY <1>1, <1>2, Fields, WireFields DEF MoveOK, Command, Current
<1>8. LateOK'
  BY <1>1 DEF LateOK, Permitted
<1>9. CacheOK'
  BY <1>1, <1>2 DEF CacheOK
<1> QED BY <1>3, <1>4, <1>5, <1>6, <1>7, <1>8, <1>9

(* The call has noted an answer at most. *)
LEMMA AnsweredFacts ==
  ASSUME BInv, wire # <<>>, NEW reply \in {"OK", "NO", "other", "none"}, call' = Answered(reply)
  PROVE  /\ call' \in Call /\ Current' = Current /\ (Busy' <=> Busy) /\ call.pc \notin Early
         /\ UNCHANGED <<call.pc, call.op, call.account, call.blocked, call.todo, call.pending, call.current,
                        call.reconcile, call.outcome>>
         /\ call.pc = "await" /\ Len(wire) = 1 => call'.reply = reply
         /\ ~(call.pc = "await" /\ Len(wire) = 1) => call'.reply = call.reply
BY DEF BInv, BatchTypeOK, EarlyOK, Call, Answered, Busy, Current

(* A message the call still counts on, or has concluded, is touched by the *)
(* oldest command only if the call waits for it.                           *)
LEMMA HeadFacts ==
  ASSUME BInv, wire # <<>>
  PROVE  /\ Head(wire) = wire[1] /\ Head(wire) \in Command /\ Tail(wire) \in Seq(Command)
         /\ Len(Tail(wire)) = Len(wire) - 1 /\ Len(wire) \in Nat \ {0}
         /\ \A i \in 1..Len(Tail(wire)) : Tail(wire)[i] = wire[i + 1] /\ i + 1 \in 1..Len(wire)
         /\ \A u \in Head(wire).uids :
               /\ u \in Uids
               /\ \/ call.outcome[u] = "unknown"
                  \/ (call.pc = "await" /\ Len(wire) = 1 /\ Head(wire) = call.current /\ u \in Current)
         /\ (link # "down") /\ call.pc \notin Early
<1> USE DEF BInv
<1>1. wire \in Seq(Command)
  BY DEF BatchTypeOK
<1>2. /\ Head(wire) \in Command /\ Tail(wire) \in Seq(Command) /\ Len(Tail(wire)) = Len(wire) - 1
      /\ \A i \in 1..Len(Tail(wire)) : Tail(wire)[i] = wire[i + 1]
  BY <1>1, HeadTailProperties
<1>3. Len(wire) \in Nat \ {0}
  BY WireFields
<1>4. Head(wire) = wire[1]
  BY <1>1
<1>5. \A u \in Head(wire).uids :
         /\ u \in Uids
         /\ \/ call.outcome[u] = "unknown"
            \/ (call.pc = "await" /\ Len(wire) = 1 /\ Head(wire) = call.current /\ u \in Current)
  <2> SUFFICES ASSUME NEW u \in Head(wire).uids
               PROVE  /\ u \in Uids
                      /\ \/ call.outcome[u] = "unknown"
                         \/ (call.pc = "await" /\ Len(wire) = 1 /\ Head(wire) = call.current /\ u \in Current)
    OBVIOUS
  <2>1. u \in Uids
    BY <1>2 DEF Command
  <2>2. call.outcome[u] = "unknown" \/ (call.pc = "await" /\ 1 = Len(wire) /\ u \in Current)
    <3>1. 1 \in 1..Len(wire)
      BY <1>3
    <3>2. u \in wire[1].uids
      BY <1>4
    <3> QED BY <3>1, <3>2 DEF WireOK
  <2> QED BY <1>4, <2>1, <2>2 DEF WireOK
<1>6. \A i \in 1..Len(Tail(wire)) : i + 1 \in 1..Len(wire)
  BY <1>2, <1>3
<1>7. link # "down" /\ call.pc \notin Early
  BY DEF WireOK, EarlyOK
<1> QED BY <1>2, <1>3, <1>4, <1>5, <1>6, <1>7

(* The queue without its oldest command. *)
LEMMA TailOK ==
  ASSUME BInv, wire # <<>>, wire' = Tail(wire), link' = link,
         NEW reply \in {"OK", "NO", "other", "none"}, call' = Answered(reply)
  PROVE  WireOK'
<1> USE DEF BInv
<1>1. \A i \in 1..Len(wire') : wire'[i] = wire[i + 1] /\ i + 1 \in 1..Len(wire) /\ (i = Len(wire') <=> i + 1 = Len(wire))
  BY HeadFacts
<1>2. Len(wire') = Len(wire) - 1 /\ wire' \in Seq(Command) /\ Len(wire) \in Nat
  BY HeadFacts
<1>3. call'.pc = "await" /\ wire' # <<>> => wire'[Len(wire')] = call'.current /\ call'.reply = "none"
  <2> SUFFICES ASSUME call'.pc = "await", wire' # <<>>
               PROVE  wire'[Len(wire')] = call'.current /\ call'.reply = "none"
    OBVIOUS
  <2>1. Len(wire') \in 1..Len(wire') /\ Len(wire) # 1
    BY <1>2, EmptySeq, LenProperties
  <2>2. wire'[Len(wire')] = wire[Len(wire)]
    BY <1>1, <1>2, <2>1
  <2>3. call.pc = "await" /\ call'.reply = call.reply /\ call'.current = call.current
    BY <2>1, AnsweredFacts
  <2> QED BY <2>2, <2>3 DEF WireOK
<1>4. ASSUME NEW i \in 1..Len(wire'), NEW u \in wire'[i].uids
      PROVE  call'.outcome[u] = "unknown" \/ (call'.pc = "await" /\ i = Len(wire') /\ u \in Current')
  <2>1. i + 1 \in 1..Len(wire) /\ u \in wire[i + 1].uids /\ (i = Len(wire') <=> i + 1 = Len(wire))
    BY <1>1
  <2>2. call.outcome[u] = "unknown" \/ (call.pc = "await" /\ i + 1 = Len(wire) /\ u \in Current)
    BY <2>1 DEF WireOK
  <2> QED BY <2>1, <2>2, AnsweredFacts
<1>5. link' # "down"
  BY HeadFacts
<1> QED BY <1>3, <1>4, <1>5 DEF WireOK

LEMMA RefuseStep ==
  ASSUME BInv, Refuse
  PROVE  BInv'
<1> USE DEF BInv
<1> PICK reply \in {"NO", "other", "none"} : call' = Answered(reply)
  BY DEF Refuse
<1>1. /\ wire # <<>> /\ wire' = Tail(wire)
      /\ UNCHANGED <<environment, server, link, message, coverage, late>>
  BY DEF Refuse
<1>2. /\ call' \in Call /\ Current' = Current /\ (Busy' <=> Busy) /\ call.pc \notin Early
      /\ UNCHANGED <<call.pc, call.op, call.account, call.blocked, call.todo, call.pending, call.current,
                     call.reconcile, call.outcome>>
      /\ call'.reply \in {"NO", "other", "none", call.reply}
  BY <1>1, AnsweredFacts
<1>3. /\ \A u \in Uids : (Clean(u)' <=> Clean(u)) /\ (Marked(u)' <=> Marked(u)) /\ (Copied(u)' <=> Copied(u))
      /\ Fallback' = Fallback /\ FirstKind' = FirstKind /\ Permitted' = Permitted
  BY <1>1, <1>2 DEF Clean, Marked, Copied, Fallback, FirstKind, Permitted, environment
<1>4. /\ wire' \in Seq(Command) /\ Len(wire') = Len(wire) - 1 /\ Len(wire) \in Nat
      /\ \A i \in 1..Len(wire') : wire'[i] = wire[i + 1] /\ i + 1 \in 1..Len(wire)
  BY <1>1, HeadFacts
<1>5. BatchTypeOK' /\ EarlyOK' /\ LateOK'
  BY <1>1, <1>2, <1>3, <1>4 DEF BatchTypeOK, EarlyOK, LateOK, environment
<1>6. SplitOK'
  BY <1>2 DEF SplitOK
<1>7. WireOK'
  BY <1>1, TailOK
<1>8. CleanOK' /\ MarkOK'
  BY <1>1, <1>2, <1>3, Fields DEF CleanOK, MarkOK, Current
<1>9. KindOK' /\ AnswerOK'
  <2>1. call.pc = "await" => call.reply = "none"
    BY <1>1 DEF WireOK
  <2> QED BY <1>2, <1>3, <2>1 DEF KindOK, AnswerOK
<1>10. ReportOK'
  BY <1>1, <1>2 DEF ReportOK
<1>11. MoveOK'
  <2>1. Len(wire) <= 1 => wire' = <<>> /\ Len(wire') <= 1
    BY <1>4, EmptySeq
  <2>2. \A i \in 1..Len(wire') : wire'[i] \in Command
    BY <1>4, ElementOfSeq
  <2> SUFFICES ASSUME call.op \in Moves PROVE MoveOK'
    BY <1>2 DEF MoveOK
  <2>3. Fallback => wire' = <<>> /\ Len(wire') <= 1
    BY <2>1 DEF MoveOK
  <2> QED BY <1>1, <1>2, <1>3, <1>4, <2>2, <2>3, Fields DEF MoveOK, Command, Current
<1>12. CacheOK'
  BY <1>1, <1>2, <1>3 DEF CacheOK
<1> QED BY <1>5, <1>6, <1>7, <1>8, <1>9, <1>10, <1>11, <1>12

LEMMA DisconnectStep ==
  ASSUME BInv, Disconnect
  PROVE  BInv'
<1> USE DEF BInv
<1>1. wire' = <<>> /\ link' = "down" /\ UNCHANGED <<environment, server, message, coverage, call, late>>
      /\ Len(wire') = 0 /\ wire' \in Seq(Command)
  BY EmptySeq DEF Disconnect
<1>2. /\ \A u \in Uids : (Clean(u)' <=> Clean(u)) /\ (Marked(u)' <=> Marked(u)) /\ (Copied(u)' <=> Copied(u))
      /\ Fallback' = Fallback /\ FirstKind' = FirstKind /\ Permitted' = Permitted
      /\ Current' = Current /\ (Busy' <=> Busy)
  BY <1>1 DEF Clean, Marked, Copied, Fallback, FirstKind, Permitted, environment, Current, Busy
<1>3. BatchTypeOK' /\ EarlyOK' /\ LateOK'
  BY <1>1, <1>2 DEF BatchTypeOK, EarlyOK, LateOK, environment
<1>4. SplitOK' /\ WireOK'
  BY <1>1, <1>2 DEF SplitOK, WireOK
<1>5. CleanOK' /\ MarkOK'
  BY <1>1, <1>2, Fields DEF CleanOK, MarkOK, Current
<1>6. KindOK' /\ AnswerOK' /\ ReportOK'
  BY <1>1, <1>2, Fields DEF KindOK, AnswerOK, ReportOK, Current
<1>7. MoveOK'
  BY <1>1, <1>2, Fields DEF MoveOK, Current
<1>8. CacheOK'
  BY <1>1, <1>2 DEF CacheOK
<1> QED BY <1>3, <1>4, <1>5, <1>6, <1>7, <1>8

LEMMA OtherClientStep ==
  ASSUME BInv, OtherClient
  PROVE  BInv'
<1> USE DEF BInv
<1>1. UNCHANGED <<environment, server, link, wire, coverage, call, late>>
  BY DEF OtherClient
<1> PICK v \in Uids :
      /\ message[v].place = "source"
      /\ \/ message' = [message EXCEPT ![v].place = "elsewhere"]
         \/ /\ message[v].flagged /\ call.op # "flags"
            /\ message' = [message EXCEPT ![v].place = "removed"]
         \/ /\ message[v].flagged /\ ~message[v].cleared
            /\ message' = [message EXCEPT ![v].flagged = FALSE, ![v].cleared = TRUE]
  BY DEF OtherClient
<1>2. /\ message' \in [Uids -> [place : {"source", "removed", "elsewhere"}, flagged : BOOLEAN,
                              copies : Nat, cleared : BOOLEAN]]
      /\ \A u \in Uids : /\ u # v => message'[u] = message[u]
                         /\ message'[u].copies = message[u].copies
                         /\ \/ message'[u] = message[u]
                            \/ /\ message'[u].place = "elsewhere" /\ message'[u].flagged = message[u].flagged
                               /\ message'[u].cleared = message[u].cleared /\ message[u].place = "source"
                            \/ /\ message[u].flagged /\ message'[u].place = "removed" /\ message'[u].flagged
                               /\ message'[u].cleared = message[u].cleared
                            \/ /\ message[u].flagged /\ ~message'[u].flagged /\ message'[u].cleared
                               /\ message'[u].place = message[u].place
  BY DEF BatchTypeOK
<1>3. \A u \in Uids : (Clean(u)' <=> Clean(u)) /\ (Marked(u) => Marked(u)') /\ (Copied(u) => Copied(u)')
                     /\ (message[u].place # "source" => message'[u].place # "source")
                     /\ (message[u].cleared => message'[u].cleared)
                     /\ (message[u].flagged => message'[u].flagged \/ message'[u].cleared)
  BY <1>2 DEF Clean, Marked, Copied, BatchTypeOK
<1>4. /\ Fallback' = Fallback /\ FirstKind' = FirstKind /\ Permitted' = Permitted
      /\ Current' = Current /\ (Busy' <=> Busy) /\ Current \subseteq Uids
  BY <1>1, Fields DEF Fallback, FirstKind, Permitted, environment, Current, Busy
<1> HIDE DEF OtherClient
<1>5. BatchTypeOK'
  BY <1>1, <1>2 DEF BatchTypeOK, environment
<1>6. EarlyOK' /\ LateOK'
  BY <1>1, <1>3, <1>4 DEF EarlyOK, LateOK, environment
<1>7. SplitOK' /\ WireOK'
  BY <1>1, <1>4 DEF SplitOK, WireOK
<1>8. CleanOK' /\ MarkOK'
  BY <1>1, <1>3, <1>4, Fields DEF CleanOK, MarkOK
<1>9. KindOK' /\ AnswerOK' /\ ReportOK'
  BY <1>1, <1>3, <1>4, Fields DEF KindOK, AnswerOK, ReportOK
<1>10. CacheOK'
  BY <1>1, <1>3 DEF CacheOK
<1>11. MoveOK'
  <2> SUFFICES ASSUME call.op \in Moves PROVE MoveOK'
    BY <1>1 DEF MoveOK
  <2>1. \A u \in Uids :
          /\ message'[u].copies <= 1
          /\ message'[u].place = "removed" \/ message'[u].flagged => message'[u].copies = 1
          /\ ~Fallback => ~message'[u].flagged /\ (message'[u].place = "source" => message'[u].copies = 0)
    BY <1>2 DEF MoveOK
  <2>2. \A i \in 1..Len(wire) : \A u \in wire[i].uids :
          /\ wire[i].kind = "move" <=> ~Fallback
          /\ wire[i].kind = "copy" => message'[u].copies = 0
          /\ wire[i].kind = "store" => Copied(u)'
    BY <1>2, <1>3, WireFields DEF MoveOK, Command
  <2>3. Fallback => /\ call.pc \in {"next", "check", "send"} => wire = <<>>
                    /\ Len(wire) <= 1
                    /\ Busy /\ call.current.kind = "store" => \A u \in Current : Copied(u)'
    BY <1>3, <1>4 DEF MoveOK
  <2> QED BY <1>1, <1>4, <2>1, <2>2, <2>3 DEF MoveOK
<1> QED BY <1>5, <1>6, <1>7, <1>8, <1>9, <1>10, <1>11

(* What a command does to a message it names. *)
LEMMA AppliedFacts ==
  ASSUME NEW command \in Command,
         NEW m \in [place : {"source", "removed", "elsewhere"}, flagged : BOOLEAN, copies : Nat, cleared : BOOLEAN]
  PROVE  LET n == Applied(command, m) IN
         /\ n \in [place : {"source", "removed", "elsewhere"}, flagged : BOOLEAN, copies : Nat, cleared : BOOLEAN]
         /\ n.cleared = m.cleared /\ (m.place # "source" => n = m) /\ (n.place # m.place => n.place = "removed")
         /\ m.flagged => n.flagged
         /\ command.kind # "store" => n.flagged = m.flagged
         /\ m.place = "source" =>
               /\ command.kind = "store" => n.flagged
               /\ command.kind \in {"store", "copy"} => n.place = "source"
               /\ command.kind \in {"copy", "move"} => n.copies = m.copies + 1
               /\ command.kind \in {"store", "expunge"} => n.copies = m.copies
               /\ command.kind = "move" => n.place = "removed"
               /\ command.kind = "expunge" /\ m.flagged => n.place = "removed"
               /\ command.kind = "expunge" /\ ~m.flagged => n = m
         /\ n # m => n.flagged \/ n.copies > 0 \/ n.place = "removed"
<1> command.kind \in {"store", "move", "copy", "expunge"}
  BY DEF Command
<1>1. CASE m.place # "source"
  BY <1>1 DEF Applied
<1>2. CASE m.place = "source" /\ command.kind = "store"
  BY <1>2 DEF Applied
<1>3. CASE m.place = "source" /\ command.kind = "move"
  <2>1. Applied(command, m) = [m EXCEPT !.copies = @ + 1, !.place = "removed"]
    BY <1>3 DEF Applied
  <2>2. Applied(command, m) = [place |-> "removed", flagged |-> m.flagged, copies |-> m.copies + 1,
                               cleared |-> m.cleared]
    BY <2>1
  <2> QED BY <1>3, <2>2
<1>4. CASE m.place = "source" /\ command.kind = "copy"
  BY <1>4 DEF Applied
<1>5. CASE m.place = "source" /\ command.kind = "expunge"
  BY <1>5 DEF Applied
<1> QED BY <1>1, <1>2, <1>3, <1>4, <1>5

LEMMA ExecuteStep ==
  ASSUME BInv, Execute
  PROVE  BInv'
<1> USE DEF BInv
<1> PICK reply \in {"OK", "other", "none"} : call' = Answered(reply)
  BY DEF Execute
<1> DEFINE command == Head(wire)
<1>1. /\ wire # <<>> /\ wire' = Tail(wire) /\ UNCHANGED <<environment, server, link, late>>
      /\ message' = [u \in Uids |-> IF u \in command.uids THEN Applied(command, message[u]) ELSE message[u]]
      /\ coverage' = IF message' # message /\ coverage = "fresh" THEN "stale" ELSE coverage
  BY DEF Execute
<1>2. /\ call' \in Call /\ Current' = Current /\ (Busy' <=> Busy) /\ call.pc \notin Early /\ Current \subseteq Uids
      /\ UNCHANGED <<call.pc, call.op, call.account, call.blocked, call.todo, call.pending, call.current,
                     call.reconcile, call.outcome>>
      /\ call'.reply \in {"OK", "other", "none", call.reply}
  BY <1>1, AnsweredFacts, Fields DEF Current
<1>3. /\ command \in Command /\ command = wire[1]
      /\ \A u \in command.uids :
            /\ u \in Uids
            /\ \/ call.outcome[u] = "unknown"
               \/ (call.pc = "await" /\ Len(wire) = 1 /\ command = call.current /\ u \in Current)
  BY <1>1, HeadFacts
<1>4. /\ wire' \in Seq(Command) /\ Len(wire') = Len(wire) - 1 /\ Len(wire) \in Nat \ {0}
      /\ \A i \in 1..Len(wire') : wire'[i] = wire[i + 1] /\ i + 1 \in 1..Len(wire)
  BY <1>1, HeadFacts
<1> HIDE DEF command
<1>5. ASSUME NEW u \in Uids
      PROVE  /\ message'[u] = IF u \in command.uids THEN Applied(command, message[u]) ELSE message[u]
             /\ message[u] \in [place : {"source", "removed", "elsewhere"}, flagged : BOOLEAN, copies : Nat,
                                cleared : BOOLEAN]
             /\ message'[u] \in [place : {"source", "removed", "elsewhere"}, flagged : BOOLEAN, copies : Nat,
                                 cleared : BOOLEAN]
  BY <1>1, <1>3, AppliedFacts DEF BatchTypeOK
<1>6. ASSUME NEW u \in Uids
      PROVE  /\ Clean(u)' => Clean(u)
             /\ Marked(u) => Marked(u)'
             /\ message[u].place # "source" => message'[u] = message[u]
             /\ message'[u].cleared = message[u].cleared
             /\ message[u].flagged => message'[u].flagged
             /\ u \notin command.uids => message'[u] = message[u]
             /\ message'[u] # message[u] => ~Clean(u)'
             /\ message'[u].place # "source" \/ message[u].place = "source"
  BY <1>3, <1>5, AppliedFacts DEF Clean, Marked
<1>7. /\ Fallback' = Fallback /\ FirstKind' = FirstKind /\ Permitted' = Permitted
  BY <1>1, <1>2 DEF Fallback, FirstKind, Permitted, environment
<1>8. BatchTypeOK' /\ EarlyOK' /\ LateOK'
  <2>1. message' \in [Uids -> [place : {"source", "removed", "elsewhere"}, flagged : BOOLEAN,
                              copies : Nat, cleared : BOOLEAN]]
    BY <1>1, <1>5
  <2> QED BY <1>1, <1>2, <1>4, <1>7, <2>1 DEF BatchTypeOK, EarlyOK, LateOK, environment
<1>9. SplitOK'
  BY <1>2 DEF SplitOK
<1>10. WireOK'
  BY <1>1, TailOK
<1>11. CleanOK'
  <2>1. ASSUME NEW u \in Uids, u \in call.todo \/ call.outcome[u] = "failed" \/ u \in call.blocked
        PROVE  Clean(u)'
    <3>1. u \notin command.uids
      BY <1>3, <2>1 DEF SplitOK
    <3> QED BY <1>6, <2>1, <3>1 DEF CleanOK, Clean
  <2>2. ASSUME Busy, call.current.kind = FirstKind, call.pc = "await" => wire' # <<>> \/ call'.reply = "NO", NEW u \in Current
        PROVE  Clean(u)'
    <3>1. call.pc = "await" => Len(wire) # 1
      <4> SUFFICES ASSUME call.pc = "await", Len(wire) = 1 PROVE FALSE
        OBVIOUS
      <4>1. call'.reply = reply
        BY <1>1, AnsweredFacts
      <4>2. wire' = <<>>
        BY <1>4, EmptySeq
      <4> QED BY <2>2, <4>1, <4>2
    <3>2. u \in Uids /\ u \notin command.uids
      BY <1>2, <1>3, <3>1 DEF SplitOK
    <3>3. Clean(u)
      BY <1>1, <2>2 DEF CleanOK
    <3> QED BY <1>6, <3>2, <3>3 DEF Clean
  <2> QED BY <1>2, <1>7, <2>1, <2>2, Fields DEF CleanOK
<1>12. MarkOK'
  BY <1>2, <1>6, Fields DEF MarkOK
<1>13. KindOK'
  BY <1>2, <1>7 DEF KindOK
<1>14. AnswerOK'
  <2> SUFFICES ASSUME call.pc = "await", call'.reply = "OK", NEW u \in Current
               PROVE  /\ call.current.kind = "store" => Marked(u)'
                      /\ call.current.kind = "copy" => Copied(u)'
                      /\ call.current.kind = "move" => message'[u].place # "source"
                      /\ call.current.kind = "expunge" => message'[u].place # "source" \/ message'[u].cleared
    BY <1>2 DEF AnswerOK
  <2>1. call.reply = "none" /\ Busy /\ u \in Uids
    BY <1>1, <1>2 DEF WireOK, Busy
  <2>2. Len(wire) = 1
    BY <1>1, <2>1, AnsweredFacts
  <2>3. command = call.current /\ u \in command.uids
    BY <1>1, <1>3, <2>2 DEF WireOK, Current
  <2>4. message'[u] = Applied(command, message[u])
    BY <1>5, <2>1, <2>3
  <2>5. CASE message[u].place # "source"
    BY <1>6, <2>1, <2>5 DEF Marked, Copied
  <2>6. CASE message[u].place = "source"
    <3>1. CASE command.kind \in {"store", "move"}
      BY <1>3, <1>5, <2>1, <2>3, <2>4, <2>6, <3>1, AppliedFacts DEF Marked
    <3>2. CASE command.kind = "copy"
      <4>1. call.op \in Moves
        BY <2>1, <2>3, <3>2, Fields DEF KindOK, Fallback, Moves, BatchTypeOK, Call
      <4>2. message[u].copies = 0
        <5>1. 1 \in 1..Len(wire) /\ wire[1].kind = "copy" /\ u \in wire[1].uids
          BY <1>3, <1>4, <2>3, <3>2
        <5> QED BY <4>1, <5>1 DEF MoveOK
      <4> QED BY <1>3, <1>5, <2>1, <2>3, <2>4, <2>6, <3>2, <4>2, AppliedFacts DEF Copied
    <3>3. CASE command.kind = "expunge"
      <4>1. Marked(u)
        BY <2>1, <2>3, <3>3 DEF MarkOK
      <4> QED BY <1>3, <1>5, <1>6, <2>1, <2>3, <2>4, <2>6, <3>3, <4>1, AppliedFacts DEF Marked
    <3> QED BY <1>3, <3>1, <3>2, <3>3 DEF Command
  <2> QED BY <2>5, <2>6
<1>15. ReportOK'
  BY <1>2, <1>6 DEF ReportOK
<1>16. CacheOK'
  <2>1. coverage' = "stale" => \E u \in Uids : ~Clean(u)'
    <3>1. CASE coverage = "stale"
      BY <1>6, <3>1 DEF CacheOK
    <3>2. CASE coverage # "stale" /\ message' # message
      <4>1. PICK u \in Uids : message'[u] # message[u]
        BY <1>8, <3>2 DEF BatchTypeOK
      <4> QED BY <1>6, <4>1
    <3> QED BY <1>1, <3>1, <3>2
  <2>2. ASSUME call.pc = "done", ~call.reconcile
        PROVE  coverage' # "stale" /\ \A u \in Uids : call.outcome[u] # "unknown"
    <3>1. coverage # "stale" /\ \A u \in Uids : call.outcome[u] # "unknown"
      BY <2>2 DEF CacheOK
    <3>2. command.uids = {}
      BY <1>3, <2>2, <3>1
    <3>3. message' = message
      BY <1>1, <3>2 DEF BatchTypeOK
    <3> QED BY <1>1, <3>1, <3>3
  <2> QED BY <1>2, <2>1, <2>2 DEF CacheOK
<1>17. MoveOK'
  <2> SUFFICES ASSUME call.op \in Moves PROVE MoveOK'
    BY <1>2 DEF MoveOK
  <2>1. ASSUME NEW u \in Uids
        PROVE  /\ message'[u].copies <= 1
               /\ message'[u].place = "removed" \/ message'[u].flagged => message'[u].copies = 1
               /\ ~Fallback => ~message'[u].flagged /\ (message'[u].place = "source" => message'[u].copies = 0)
    <3>1. /\ message[u].copies <= 1
          /\ message[u].place = "removed" \/ message[u].flagged => message[u].copies = 1
          /\ ~Fallback => ~message[u].flagged /\ (message[u].place = "source" => message[u].copies = 0)
      BY DEF MoveOK
    <3>2. CASE message'[u] = message[u]
      BY <3>1, <3>2
    <3>3. CASE message'[u] # message[u]
      <4>1. u \in command.uids /\ message[u].place = "source" /\ message'[u] = Applied(command, message[u])
        BY <1>5, <1>6, <3>3
      <4>2. /\ command.kind = "move" <=> ~Fallback
            /\ command.kind = "copy" => message[u].copies = 0
            /\ command.kind = "store" => message[u].copies = 1
        BY <1>3, <1>4, <4>1 DEF MoveOK, Copied
      <4>3. CASE command.kind = "move"
        BY <1>3, <1>5, <3>1, <4>1, <4>2, <4>3, AppliedFacts
      <4>4. CASE command.kind \in {"copy", "store"}
        BY <1>3, <1>5, <3>1, <4>1, <4>2, <4>4, AppliedFacts
      <4>5. CASE command.kind = "expunge"
        BY <1>3, <1>5, <3>1, <4>1, <4>2, <4>5, AppliedFacts
      <4> QED BY <1>3, <4>3, <4>4, <4>5 DEF Command
    <3> QED BY <3>2, <3>3
  <2>2. Fallback => wire' = <<>> /\ Len(wire') = 0 /\ Len(wire) = 1
    BY <1>4, EmptySeq DEF MoveOK
  <2>3. ASSUME ~Fallback, NEW i \in 1..Len(wire'), NEW u \in wire'[i].uids
        PROVE  wire'[i].kind = "move"
    BY <1>4, <2>3 DEF MoveOK
  <2>4. ASSUME Fallback, Busy, call.current.kind = "store", NEW u \in Current
        PROVE  Copied(u)'
    <3>1. call.pc = "await" /\ u \in Uids /\ Copied(u)
      BY <1>1, <1>2, <2>4 DEF MoveOK, Busy
    <3>2. command = call.current /\ u \in command.uids
      BY <1>1, <1>3, <2>2, <2>4, <3>1 DEF WireOK, Current
    <3> QED BY <1>3, <1>5, <1>6, <2>4, <3>1, <3>2, AppliedFacts DEF Copied
  <2> QED BY <1>2, <1>7, <2>1, <2>2, <2>3, <2>4 DEF MoveOK
<1> QED BY <1>8, <1>9, <1>10, <1>11, <1>12, <1>13, <1>14, <1>15, <1>16, <1>17

-----------------------------------------------------------------------------
(* The invariant holds, and what follows from it. *)

LEMMA NextStep == BInv /\ [Next]_vars => BInv'
<1> SUFFICES ASSUME BInv, [Next]_vars PROVE BInv'
  OBVIOUS
<1>1. CASE CallStep
  <2>1. CASE Resolve \/ Open \/ Discover \/ Guard \/ ConnectFails
    BY <2>1, ServiceStep
  <2>2. CASE Connect
    BY <2>2, ConnectStep
  <2>3. CASE ConnectTimesOut
    BY <2>3, TimesOutStep
  <2>4. CASE Take
    BY <2>4, TakeStep
  <2>5. CASE CheckAllows
    BY <2>5, CheckAllowsStep
  <2>6. CASE CheckDenies
    BY <2>6, CheckDeniesStep
  <2>7. CASE Send
    BY <2>7, SendStep
  <2>8. CASE ReplyOK
    BY <2>8, ReplyOKStep
  <2>9. CASE ReplyNO
    BY <2>9, ReplyNOStep
  <2>10. CASE NoAnswer \/ Cancelled
    BY <2>10, NoAnswerStep
  <2>11. CASE Finish
    BY <2>11, FinishStep
  <2> QED BY <1>1, <2>1, <2>2, <2>3, <2>4, <2>5, <2>6, <2>7, <2>8, <2>9, <2>10, <2>11
          DEF CallStep, Service, Loop
<1>2. CASE Environment
  BY <1>2, ExecuteStep, RefuseStep, DisconnectStep, OtherClientStep, ChangeStep DEF Environment
<1>3. CASE UNCHANGED vars
  <2> USE <1>3 DEF vars, environment, remote
  <2>1. /\ \A u \in Uids : (Clean(u)' <=> Clean(u)) /\ (Marked(u)' <=> Marked(u)) /\ (Copied(u)' <=> Copied(u))
        /\ Fallback' = Fallback /\ FirstKind' = FirstKind /\ Permitted' = Permitted
        /\ Current' = Current /\ (Busy' <=> Busy)
    BY DEF Clean, Marked, Copied, Fallback, FirstKind, Permitted, Current, Busy
  <2>2. BatchTypeOK' /\ EarlyOK' /\ SplitOK' /\ LateOK' /\ CacheOK'
    BY <2>1 DEF BInv, BatchTypeOK, EarlyOK, SplitOK, LateOK, CacheOK
  <2>3. WireOK' /\ ReportOK'
    BY <2>1 DEF BInv, WireOK, ReportOK
  <2>4. CleanOK' /\ MarkOK'
    BY <2>1, Fields DEF BInv, CleanOK, MarkOK, Current
  <2>5. KindOK' /\ AnswerOK'
    BY <2>1, Fields DEF BInv, KindOK, AnswerOK, Current
  <2>6. MoveOK'
    BY <2>1, Fields, WireFields DEF BInv, MoveOK, Command, Current
  <2> QED BY <2>2, <2>3, <2>4, <2>5, <2>6 DEF BInv
<1> QED BY <1>1, <1>2, <1>3 DEF Next

LEMMA InvHolds == Spec => []BInv
BY InitHolds, NextStep, PTL DEF Spec

(* What the call reports of a message is a proof, whatever takes effect     *)
(* afterwards: nothing of the call is on the wire for a message it has      *)
(* reported as failed or has been blocked from, since only the unknown ones *)
(* and the current one are, and the first command of a message proves that  *)
(* nothing has happened to it as long as it is not executed.                *)
THEOREM ReportsAreProofs == Spec => []OutcomesHonest
<1>1. BInv => OutcomesHonest
  <2> SUFFICES ASSUME BInv, NEW u \in Uids
               PROVE  /\ call.outcome[u] = "failed" \/ u \in call.blocked => Untouched(u)
                      /\ call.outcome[u] = "succeeded" /\ u \notin call.blocked =>
                           \/ message[u].place # "source"
                           \/ message[u].cleared
                           \/ call.op = "flags" /\ message[u].flagged
    BY DEF OutcomesHonest
  <2> USE DEF BInv
  <2>1. ASSUME call.outcome[u] = "failed" \/ u \in call.blocked
        PROVE  Untouched(u)
    <3>1. Clean(u)
      BY <2>1 DEF CleanOK
    <3>2. ~OnWire(u)
      BY <2>1 DEF OnWire, WireOK, SplitOK
    <3> QED BY <3>1, <3>2 DEF Untouched, Clean
  <2> QED BY <2>1 DEF ReportOK
<1> QED BY <1>1, InvHolds, PTL

(* A message a move took out of its mailbox is in the destination once: COPY *)
(* was sent for it once and answered before STORE was, and EXPUNGE removes   *)
(* only what is marked.                                                      *)
THEOREM MovesAreWhole == Spec => []MovedOnce
<1>1. BInv => MovedOnce
  BY DEF BInv, MoveOK, MovedOnce
<1> QED BY <1>1, InvHolds, PTL

(* After the authority has changed to what the guard denies, at most the one *)
(* command goes out whose guard had just passed.                             *)
THEOREM RevocationHolds == Spec => []RevocationStops
<1>1. BInv => RevocationStops
  BY DEF BInv, LateOK, RevocationStops
<1> QED BY <1>1, InvHolds, PTL

(* A call that returns without asking for reconciliation has invalidated    *)
(* what it outdated, and nothing it sent can outdate the index any more.    *)
THEOREM CacheIsHonest == Spec => []CacheHonest
<1>1. BInv => CacheHonest
  BY DEF BInv, CacheOK, CacheHonest
<1> QED BY <1>1, InvHolds, PTL
=============================================================================
