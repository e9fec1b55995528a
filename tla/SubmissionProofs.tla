-------------------------- MODULE SubmissionProofs --------------------------
(***************************************************************************)
(* Theorems about Submission for any recipients, any setting a guard pins  *)
(* and any number of changes of the authority.                             *)
(***************************************************************************)
EXTENDS Submission, TLAPS

-----------------------------------------------------------------------------
(* The inductive invariant. *)

(* Before the first guard of an effect has passed. *)
EarlyPcs == {"idle", "resolved", "discover", "opened", "connect", "rcpt"}

(* Between two effects, or before the only one. *)
ReadyPcs == {"copy", "guard", "setup", "check", "send"}

NoOutcome(recipients) == \A r \in recipients : call.outcome[r] = "none"

(* DATA has been executed, for at least one recipient. *)
Delivered == delivered = call.accepted /\ delivered # {} /\ "data" \notin wire

DataAbsent == delivered = {} /\ "data" \notin wire

CopyAbsent == copies = 0 /\ "append" \notin wire

Unsent == delivered = {} /\ copies = 0 /\ wire = {}

EarlyOK ==
  /\ call.pc \in EarlyPcs => /\ Unsent
                             /\ NoOutcome(Recipients)
                             /\ call.copy = "none"
                             /\ call.effect = "data" <=> Submits
  /\ call.pc \in {"connect", "rcpt"} => Submits
  /\ call.pc = "raised" => Unsent /\ NoOutcome(Recipients) /\ call.copy = "none"

ReadyOK ==
  /\ call.pc \in ReadyPcs => wire = {} /\ copies = 0 /\ call.copy = "none"
  /\ call.pc \in {"check", "send"} /\ call.effect = "data" =>
       delivered = {} /\ call.accepted # {} /\ NoOutcome(call.accepted)
  /\ call.pc = "copy" => Submits /\ call.effect = "data" /\ Delivered
  /\ call.pc = "guard" => Submits /\ call.effect = "append"
  /\ call.pc \in {"setup", "report"} => call.effect = "append"

(* An APPEND by a submission follows its DATA; an APPEND alone delivers nothing. *)
EffectOK ==
  /\ Submits /\ call.effect = "append" => Delivered
  /\ call.effect = "data" => CopyAbsent
  /\ ~Submits => call.effect = "append" /\ DataAbsent /\ NoOutcome(Recipients)

(* An answer that has arrived tells what the server did. *)
AwaitOK ==
  call.pc = "await" =>
    /\ call.copy = "none"
    /\ call.effect = "data" => /\ call.accepted # {}
                               /\ NoOutcome(call.accepted)
                               /\ call.reply = "OK" => Delivered
                               /\ call.reply = "NO" => DataAbsent
    /\ call.effect = "append" => /\ call.reply = "OK" => copies = 1 /\ "append" \notin wire
                                 /\ call.reply = "NO" => CopyAbsent

(* What the two effects have done, and what the call says of them. *)
OutcomeOK ==
  /\ "data" \in wire => delivered = {} /\ call.accepted # {}
  /\ delivered # {} => delivered = call.accepted
  /\ \A r \in Recipients : call.outcome[r] = "succeeded" => r \in call.accepted /\ Delivered
  /\ \A r \in Recipients : call.outcome[r] = "failed" => r \notin call.accepted \/ DataAbsent
  /\ "append" \in wire => copies = 0
  /\ call.copy \in {"failed", "skipped"} => CopyAbsent
  /\ call.copy = "succeeded" => copies = 1

(* An APPEND still under way when the call has ended is reported as unknown. *)
CacheOK ==
  /\ coverage = "stale" => copies = 1
  /\ call.pc = "done" /\ "append" \in wire => call.reconcile
  /\ CacheHonest

(* A permission that has just been checked outlives every step but the operator's. *)
LateOK == late <= 1 /\ (call.pc = "send" /\ late = 1 => Permitted)

SInv == TypeOK /\ EarlyOK /\ ReadyOK /\ EffectOK /\ AwaitOK /\ OutcomeOK /\ CacheOK /\ LateOK

-----------------------------------------------------------------------------
(* Types. *)

Pcs == {"idle", "resolved", "discover", "opened", "connect", "rcpt", "check", "send",
        "await", "copy", "guard", "setup", "report", "done", "raised"}

Replies == {"none", "OK", "NO"}

Copies == Status \cup {"skipped"}

(* A field of a call is set to a value of its type. *)
LEMMA SetPc ==
  ASSUME NEW k \in Call, NEW v \in Pcs
  PROVE  [k EXCEPT !.pc = v] \in Call
BY DEF Call, Pcs, Replies, Copies

LEMMA SetFound ==
  ASSUME NEW k \in Call, NEW v \in BOOLEAN
  PROVE  [k EXCEPT !.found = v] \in Call
BY DEF Call, Pcs, Replies, Copies

LEMMA SetAccount ==
  ASSUME NEW k \in Call, NEW v \in Authority
  PROVE  [k EXCEPT !.account = v] \in Call
BY DEF Call, Pcs, Replies, Copies

LEMMA SetEffect ==
  ASSUME NEW k \in Call, NEW v \in {"data", "append"}
  PROVE  [k EXCEPT !.effect = v] \in Call
BY DEF Call, Pcs, Replies, Copies

LEMMA SetAccepted ==
  ASSUME NEW k \in Call, NEW v \in SUBSET Recipients
  PROVE  [k EXCEPT !.accepted = v] \in Call
BY DEF Call, Pcs, Replies, Copies

LEMMA SetReply ==
  ASSUME NEW k \in Call, NEW v \in Replies
  PROVE  [k EXCEPT !.reply = v] \in Call
BY DEF Call, Pcs, Replies, Copies

LEMMA SetOutcome ==
  ASSUME NEW k \in Call, NEW v \in [Recipients -> Status]
  PROVE  [k EXCEPT !.outcome = v] \in Call
BY DEF Call, Pcs, Replies, Copies

LEMMA SetCopy ==
  ASSUME NEW k \in Call, NEW v \in Copies
  PROVE  [k EXCEPT !.copy = v] \in Call
BY DEF Call, Pcs, Replies, Copies

LEMMA SetReconcile ==
  ASSUME NEW k \in Call, NEW v \in BOOLEAN
  PROVE  [k EXCEPT !.reconcile = v] \in Call
BY DEF Call, Pcs, Replies, Copies

(* What a step of the call leaves alone. *)
SameRequest(n, k) == n.op = k.op /\ n.found = k.found /\ n.account = k.account

SameEffect(n, k) == n.effect = k.effect /\ n.accepted = k.accepted /\ n.reply = k.reply

SameReport(n, k) == n.outcome = k.outcome /\ n.copy = k.copy /\ n.reconcile = k.reconcile

Unknown(k) == k.copy = "unknown" \/ \E r \in Recipients : k.outcome[r] = "unknown"

LEMMA ConcludedIs ==
  ASSUME call \in Call, NEW status \in Status, NEW recipients
  PROVE  /\ Concluded(recipients, status) \in [Recipients -> Status]
         /\ \A r \in Recipients :
              Concluded(recipients, status)[r] = IF r \in recipients THEN status ELSE call.outcome[r]
BY DEF Concluded, Call

LEMMA DoneIs ==
  ASSUME NEW k \in Call
  PROVE  /\ Done(k) \in Call /\ Done(k).pc = "done"
         /\ SameRequest(Done(k), k) /\ SameEffect(Done(k), k)
         /\ Done(k).outcome = k.outcome /\ Done(k).copy = k.copy
         /\ Done(k).reconcile <=> k.reconcile \/ Unknown(k)
<1> DEFINE b == k.reconcile \/ Unknown(k)
           m == [k EXCEPT !.pc = "done"]
<1>1. b \in BOOLEAN /\ k.reconcile \in BOOLEAN /\ "done" \in Pcs
  BY DEF Pcs, Call
<1>2. m \in Call /\ m.reconcile = k.reconcile
  BY <1>1, SetPc DEF Call
<1>3. Done(k) = [m EXCEPT !.reconcile = b]
  BY <1>2 DEF Done, Unknown
<1> HIDE DEF b, m
<1>4. Done(k) \in Call /\ Done(k).reconcile = b
  BY <1>1, <1>2, <1>3, SetReconcile DEF Call
<1> USE DEF SameRequest, SameEffect
<1> QED
  BY <1>3, <1>4 DEF Call, b, m

LEMMA SkippedIs ==
  ASSUME call \in Call, NEW outcome \in [Recipients -> Status]
  PROVE  LET n == Skipped(outcome)
         IN /\ n \in Call /\ n.pc = "done"
            /\ SameRequest(n, call) /\ SameEffect(n, call)
            /\ n.outcome = outcome /\ n.copy = "skipped"
<1> DEFINE k == [call EXCEPT !.outcome = outcome]
           m == [k EXCEPT !.copy = "skipped"]
<1>1. k \in Call /\ "skipped" \in Copies
  BY SetOutcome DEF Copies
<1>2. m \in Call
  BY <1>1, SetCopy
<1>3. SameRequest(m, call) /\ SameEffect(m, call) /\ m.outcome = outcome /\ m.copy = "skipped"
  BY DEF Call, SameRequest, SameEffect
<1>4. Skipped(outcome) = Done(m)
  BY DEF Skipped
<1> HIDE DEF k, m
<1> QED
  BY <1>2, <1>3, <1>4, DoneIs DEF SameRequest, SameEffect

LEMMA CopyEndsIs ==
  ASSUME call \in Call, NEW status \in Copies
  PROVE  LET n == Done([call EXCEPT !.copy = status])
         IN /\ n \in Call /\ n.pc = "done"
            /\ SameRequest(n, call) /\ SameEffect(n, call)
            /\ n.outcome = call.outcome /\ n.copy = status
<1> DEFINE m == [call EXCEPT !.copy = status]
<1>1. /\ m \in Call /\ SameRequest(m, call) /\ SameEffect(m, call)
      /\ m.outcome = call.outcome /\ m.copy = status
  BY SetCopy DEF Call, SameRequest, SameEffect
<1> HIDE DEF m
<1>2. /\ Done(m) \in Call /\ Done(m).pc = "done"
      /\ SameRequest(Done(m), call) /\ SameEffect(Done(m), call)
      /\ Done(m).outcome = call.outcome /\ Done(m).copy = status
  BY <1>1, DoneIs DEF SameRequest, SameEffect
<1> QED
  BY <1>2 DEF m

LEMMA EvidenceIs ==
  ASSUME call \in Call
  PROVE  /\ Evidence \in {"succeeded", "failed", "unknown"}
         /\ Evidence = "succeeded" <=> call.reply = "OK"
         /\ Evidence = "failed" <=> call.reply = "NO"
<1>1. call.reply \in {"none", "OK", "NO"}
  BY DEF Call
<1> QED
  BY <1>1 DEF Evidence

(* What a guard permits depends on the request, the effect and the operator. *)
LEMMA PermittedSame ==
  ASSUME authority' = authority, SameRequest(call', call), call'.effect = call.effect
  PROVE  Permitted' <=> Permitted
BY DEF Permitted, SameRequest

(* What a step of the call may set together. *)
LEMMA MovesTo ==
  ASSUME call \in Call, NEW pc \in Pcs, call' = [call EXCEPT !.pc = pc]
  PROVE  /\ call' \in Call /\ call'.pc = pc
         /\ SameRequest(call', call) /\ SameEffect(call', call) /\ SameReport(call', call)
BY SetPc DEF Call, SameRequest, SameEffect, SameReport

LEMMA MovesAccount ==
  ASSUME call \in Call, NEW pc \in Pcs, NEW account \in Authority,
         call' = [call EXCEPT !.pc = pc, !.account = account]
  PROVE  /\ call' \in Call /\ call'.pc = pc /\ call'.account = account
         /\ call'.op = call.op /\ call'.found = call.found /\ SameEffect(call', call)
         /\ SameReport(call', call)
<1> DEFINE k == [call EXCEPT !.pc = pc]
<1>1. k \in Call
  BY SetPc
<1>2. [k EXCEPT !.account = account] \in Call
  <2> HIDE DEF k
  <2> QED
    BY <1>1, SetAccount
<1> QED
  BY <1>2 DEF Call, SameRequest, SameEffect, SameReport

LEMMA MovesFound ==
  ASSUME call \in Call, NEW pc \in Pcs, NEW found \in BOOLEAN,
         call' = [call EXCEPT !.pc = pc, !.found = found]
  PROVE  /\ call' \in Call /\ call'.pc = pc /\ call'.found = found
         /\ call'.op = call.op /\ call'.account = call.account /\ SameEffect(call', call)
         /\ SameReport(call', call)
<1> DEFINE k == [call EXCEPT !.pc = pc]
<1>1. k \in Call
  BY SetPc
<1>2. [k EXCEPT !.found = found] \in Call
  <2> HIDE DEF k
  <2> QED
    BY <1>1, SetFound
<1> QED
  BY <1>2 DEF Call, SameRequest, SameEffect, SameReport

LEMMA MovesReply ==
  ASSUME call \in Call, NEW pc \in Pcs, NEW reply \in Replies,
         call' = [call EXCEPT !.pc = pc, !.reply = reply]
  PROVE  /\ call' \in Call /\ call'.pc = pc /\ call'.reply = reply
         /\ SameRequest(call', call) /\ call'.effect = call.effect
         /\ call'.accepted = call.accepted /\ SameReport(call', call)
<1> DEFINE k == [call EXCEPT !.pc = pc]
<1>1. k \in Call
  BY SetPc
<1>2. [k EXCEPT !.reply = reply] \in Call
  <2> HIDE DEF k
  <2> QED
    BY <1>1, SetReply
<1> QED
  BY <1>2 DEF Call, SameRequest, SameEffect, SameReport

LEMMA MovesOutcome ==
  ASSUME call \in Call, NEW pc \in Pcs, NEW outcome \in [Recipients -> Status],
         call' = [call EXCEPT !.pc = pc, !.outcome = outcome]
  PROVE  /\ call' \in Call /\ call'.pc = pc /\ call'.outcome = outcome
         /\ SameRequest(call', call) /\ SameEffect(call', call) /\ call'.copy = call.copy
         /\ call'.reconcile = call.reconcile
<1> DEFINE k == [call EXCEPT !.pc = pc]
<1>1. k \in Call
  BY SetPc
<1>2. [k EXCEPT !.outcome = outcome] \in Call
  <2> HIDE DEF k
  <2> QED
    BY <1>1, SetOutcome
<1> QED
  BY <1>2 DEF Call, SameRequest, SameEffect, SameReport

LEMMA MovesCopy ==
  ASSUME call \in Call, NEW pc \in Pcs, NEW copy \in Copies,
         call' = [call EXCEPT !.pc = pc, !.copy = copy]
  PROVE  /\ call' \in Call /\ call'.pc = pc /\ call'.copy = copy
         /\ SameRequest(call', call) /\ SameEffect(call', call) /\ call'.outcome = call.outcome
         /\ call'.reconcile = call.reconcile
<1> DEFINE k == [call EXCEPT !.pc = pc]
<1>1. k \in Call
  BY SetPc
<1>2. [k EXCEPT !.copy = copy] \in Call
  <2> HIDE DEF k
  <2> QED
    BY <1>1, SetCopy
<1> QED
  BY <1>2 DEF Call, SameRequest, SameEffect, SameReport

LEMMA MovesAccountEffect ==
  ASSUME call \in Call, NEW pc \in Pcs, NEW account \in Authority, NEW effect \in {"data", "append"},
         call' = [call EXCEPT !.pc = pc, !.account = account, !.effect = effect]
  PROVE  /\ call' \in Call /\ call'.pc = pc /\ call'.account = account /\ call'.effect = effect
         /\ call'.op = call.op /\ call'.found = call.found /\ call'.accepted = call.accepted
         /\ call'.reply = call.reply /\ SameReport(call', call)
<1> DEFINE k == [call EXCEPT !.pc = pc]
           m == [k EXCEPT !.account = account]
<1>1. k \in Call
  BY SetPc
<1>2. m \in Call
  <2> HIDE DEF k
  <2> QED
    BY <1>1, SetAccount
<1>3. [m EXCEPT !.effect = effect] \in Call
  <2> HIDE DEF m
  <2> QED
    BY <1>2, SetEffect
<1> QED
  BY <1>3 DEF Call, SameRequest, SameEffect, SameReport

LEMMA MovesAcceptedOutcome ==
  ASSUME call \in Call, NEW pc \in Pcs, NEW accepted \in SUBSET Recipients,
         NEW outcome \in [Recipients -> Status],
         call' = [call EXCEPT !.pc = pc, !.accepted = accepted, !.outcome = outcome]
  PROVE  /\ call' \in Call /\ call'.pc = pc /\ call'.accepted = accepted /\ call'.outcome = outcome
         /\ SameRequest(call', call) /\ call'.effect = call.effect /\ call'.reply = call.reply
         /\ call'.copy = call.copy /\ call'.reconcile = call.reconcile
<1> DEFINE k == [call EXCEPT !.pc = pc]
           m == [k EXCEPT !.accepted = accepted]
<1>1. k \in Call
  BY SetPc
<1>2. m \in Call
  <2> HIDE DEF k
  <2> QED
    BY <1>1, SetAccepted
<1>3. [m EXCEPT !.outcome = outcome] \in Call
  <2> HIDE DEF m
  <2> QED
    BY <1>2, SetOutcome
<1> QED
  BY <1>3 DEF Call, SameRequest, SameEffect, SameReport

-----------------------------------------------------------------------------
(* Every step keeps the invariant. *)

(* A step before anything was sent that leads to no effect yet, or raises. *)
LEMMA EarlyMove ==
  ASSUME SInv, call.pc \in EarlyPcs, call' \in Call, UNCHANGED <<operator, remote, late>>,
         call'.op = call.op, SameEffect(call', call), SameReport(call', call),
         \/ call'.pc \in {"idle", "resolved", "discover", "opened", "raised"}
         \/ call'.pc \in {"connect", "rcpt"} /\ Submits
         \/ call'.pc = "setup" /\ ~Submits
  PROVE  SInv'
<1>1. TypeOK'
  BY DEF SInv, TypeOK, operator, remote
<1>2. EarlyOK' /\ ReadyOK' /\ EffectOK' /\ AwaitOK'
  BY DEF SInv, TypeOK, EarlyOK, ReadyOK, EffectOK, AwaitOK, OutcomeOK, CacheOK, CacheHonest,
         LateOK, operator, remote, EarlyPcs, ReadyPcs, SameEffect, SameReport, Submits, Unsent,
         NoOutcome, Delivered, DataAbsent, CopyAbsent
<1>3. OutcomeOK'
  BY DEF SInv, TypeOK, EarlyOK, ReadyOK, EffectOK, AwaitOK, OutcomeOK, CacheOK, CacheHonest,
         LateOK, operator, remote, EarlyPcs, ReadyPcs, SameEffect, SameReport, Submits, Unsent,
         NoOutcome, Delivered, DataAbsent, CopyAbsent
<1>4. CacheOK' /\ LateOK'
  BY DEF SInv, TypeOK, EarlyOK, ReadyOK, EffectOK, AwaitOK, OutcomeOK, CacheOK, CacheHonest,
         LateOK, operator, remote, EarlyPcs, ReadyPcs, SameEffect, SameReport, Unsent
<1> QED
  BY <1>1, <1>2, <1>3, <1>4 DEF SInv

LEMMA EarlyRaise ==
  ASSUME SInv, call.pc \in EarlyPcs, Raise
  PROVE  SInv'
<1>1. call \in Call /\ "raised" \in Pcs
  BY DEF SInv, TypeOK, Pcs
<1>2. call' = [call EXCEPT !.pc = "raised"] /\ UNCHANGED <<operator, remote, late>>
  BY DEF Raise, Step
<1>3. /\ call' \in Call /\ call'.pc = "raised" /\ call'.op = call.op
      /\ SameEffect(call', call) /\ SameReport(call', call)
  BY <1>1, <1>2, MovesTo DEF SameRequest
<1> QED
  BY <1>2, <1>3, EarlyMove

LEMMA EarlySteps ==
  ASSUME SInv, Resolve \/ Open \/ Discover \/ Guard \/ Connect \/ ConnectFails
  PROVE  SInv'
<1>0. /\ call \in Call /\ authority \in Authority /\ call.account \in Authority
      /\ {"idle", "resolved", "discover", "opened", "connect", "rcpt", "setup"} \subseteq Pcs
  BY DEF SInv, TypeOK, Call, Pcs
<1>1. CASE Resolve
  <2>1. CASE Authorized
    <3>1. /\ call.pc \in EarlyPcs /\ UNCHANGED <<operator, remote, late>>
          /\ call' = [call EXCEPT !.pc = "resolved", !.account = authority]
      BY <1>1, <2>1 DEF Resolve, Step, EarlyPcs
    <3>2. /\ call' \in Call /\ call'.pc = "resolved" /\ call'.op = call.op
          /\ SameEffect(call', call) /\ SameReport(call', call)
      BY <1>0, <3>1, MovesAccount
    <3> QED
      BY <3>1, <3>2, EarlyMove DEF EarlyPcs
  <2> QED
    BY <1>1, <2>1, EarlyRaise DEF Resolve, EarlyPcs
<1>2. CASE Open
  <2>1. CASE OpenAllowed
    <3> DEFINE pc == IF Discovers THEN "discover" ELSE "opened"
               account == IF call.op = "draft" /\ Discovers THEN call.account ELSE authority
    <3>1. pc \in Pcs /\ account \in Authority /\ pc \in {"discover", "opened"}
      BY <1>0
    <3>2. /\ call' = [call EXCEPT !.pc = pc, !.account = account]
          /\ call.pc \in EarlyPcs /\ UNCHANGED <<operator, remote, late>>
      BY <1>2, <2>1 DEF Open, Step, EarlyPcs
    <3> HIDE DEF pc, account
    <3>3. /\ call' \in Call /\ call'.pc = pc /\ call'.op = call.op
          /\ SameEffect(call', call) /\ SameReport(call', call)
      BY <1>0, <3>1, <3>2, MovesAccount
    <3> QED
      BY <3>1, <3>2, <3>3, EarlyMove DEF EarlyPcs
  <2> QED
    BY <1>2, <2>1, EarlyRaise DEF Open, EarlyPcs
<1>3. CASE Discover
  <2>1. CASE Step([call EXCEPT !.pc = "resolved", !.found = TRUE])
    <3>1. /\ call.pc \in EarlyPcs /\ UNCHANGED <<operator, remote, late>>
          /\ call' = [call EXCEPT !.pc = "resolved", !.found = TRUE]
      BY <1>3, <2>1 DEF Discover, Step, EarlyPcs
    <3>2. /\ call' \in Call /\ call'.pc = "resolved" /\ call'.op = call.op
          /\ SameEffect(call', call) /\ SameReport(call', call)
      BY <1>0, <3>1, MovesFound
    <3> QED
      BY <3>1, <3>2, EarlyMove DEF EarlyPcs
  <2> QED
    BY <1>3, <2>1, EarlyRaise DEF Discover, EarlyPcs
<1>4. CASE Guard
  <2>1. CASE Permitted
    <3> DEFINE pc == IF Submits THEN "connect" ELSE "setup"
    <3>1. /\ call.pc \in EarlyPcs /\ UNCHANGED <<operator, remote, late>>
          /\ call' = [call EXCEPT !.pc = pc]
      BY <1>4, <2>1 DEF Guard, Step, EarlyPcs
    <3>2. pc \in Pcs /\ ((pc = "connect" /\ Submits) \/ (pc = "setup" /\ ~Submits))
      BY <1>0
    <3> HIDE DEF pc
    <3>3. /\ call' \in Call /\ call'.pc = pc /\ call'.op = call.op
          /\ SameEffect(call', call) /\ SameReport(call', call)
      BY <1>0, <3>1, <3>2, MovesTo DEF SameRequest
    <3> QED
      BY <3>1, <3>2, <3>3, EarlyMove
  <2> QED
    BY <1>4, <2>1, EarlyRaise DEF Guard, EarlyPcs
<1>5. CASE Connect
  BY <1>0, <1>5, EarlyMove, MovesTo DEF Connect, Step, SInv, EarlyOK, EarlyPcs, SameRequest
<1>6. CASE ConnectFails
  BY <1>6, EarlyRaise DEF ConnectFails, EarlyPcs
<1> QED
  BY <1>1, <1>2, <1>3, <1>4, <1>5, <1>6

(* A call ends without a message delivered: no recipient is reported as reached, *)
(* and none as failed that DATA may still reach. *)
LEMMA EndsSkipped ==
  ASSUME SInv, Submits, call.effect = "data", call.pc \in {"connect", "rcpt", "check", "await"},
         NEW outcome \in [Recipients -> Status], Step(Skipped(outcome)),
         \A r \in Recipients : outcome[r] # "succeeded",
         \A r \in Recipients : outcome[r] = "failed" => r \notin call.accepted \/ DataAbsent
  PROVE  SInv'
<1>0. call \in Call
  BY DEF SInv, TypeOK
<1>1. /\ call' \in Call /\ call'.pc = "done"
      /\ SameRequest(call', call) /\ SameEffect(call', call)
      /\ call'.outcome = outcome /\ call'.copy = "skipped"
      /\ UNCHANGED <<operator, remote, late>>
  BY <1>0, SkippedIs DEF Step
<1>2. CopyAbsent
  BY DEF SInv, EffectOK
<1>3. TypeOK'
  BY <1>1 DEF SInv, TypeOK, operator, remote
<1>4. EarlyOK' /\ ReadyOK' /\ EffectOK' /\ AwaitOK'
  BY <1>1, <1>2
     DEF EarlyOK, ReadyOK, EffectOK, AwaitOK, EarlyPcs, ReadyPcs, SameRequest, SameEffect,
         SameReport, operator, remote, Submits, CopyAbsent
<1>5. OutcomeOK'
  BY <1>1, <1>2
     DEF SInv, OutcomeOK, operator, remote, SameRequest, SameEffect, SameReport, DataAbsent,
         CopyAbsent
<1>6. CacheOK' /\ LateOK'
  BY <1>1, <1>2
     DEF SInv, TypeOK, EarlyOK, ReadyOK, EffectOK, AwaitOK, OutcomeOK, CacheOK, CacheHonest,
         LateOK, operator, remote, CopyAbsent
<1> QED
  BY <1>3, <1>4, <1>5, <1>6 DEF SInv

(* A call ends with its copy resolved and nothing else under way. *)
LEMMA EndsCopy ==
  ASSUME SInv, call.pc \in ReadyPcs, NEW status \in {"failed", "skipped", "unknown"},
         CopyEnds(status)
  PROVE  SInv'
<1>0. call \in Call /\ status \in Copies
  BY DEF SInv, TypeOK, Copies, Status
<1>1. /\ call' \in Call /\ call'.pc = "done"
      /\ SameRequest(call', call) /\ SameEffect(call', call)
      /\ call'.outcome = call.outcome /\ call'.copy = status
      /\ UNCHANGED <<operator, remote, late>>
  BY <1>0, CopyEndsIs DEF CopyEnds, Step
<1>2. wire = {} /\ copies = 0
  BY DEF SInv, ReadyOK
<1>3. TypeOK'
  BY <1>1 DEF SInv, TypeOK, operator, remote
<1>4. EarlyOK' /\ ReadyOK' /\ EffectOK' /\ AwaitOK'
  BY <1>1
    
        DEF SInv, EarlyOK, ReadyOK, EffectOK, AwaitOK, EarlyPcs, ReadyPcs, SameRequest,
            SameEffect, operator, remote,
         Submits, Delivered, DataAbsent, CopyAbsent, NoOutcome
<1>5. OutcomeOK'
  BY <1>1, <1>2
     DEF SInv, OutcomeOK, operator, remote, SameRequest, SameEffect, SameReport, DataAbsent,
         CopyAbsent, Delivered
<1>6. CacheOK' /\ LateOK'
  BY <1>1, <1>2
     DEF SInv, TypeOK, EarlyOK, ReadyOK, EffectOK, AwaitOK, OutcomeOK, CacheOK, CacheHonest,
         LateOK, operator, remote
<1> QED
  BY <1>3, <1>4, <1>5, <1>6 DEF SInv

LEMMA DeliverySteps ==
  ASSUME SInv, ConnectTimesOut \/ Abandoned \/ Rcpt \/ DataEnds
  PROVE  SInv'
<1>0. /\ call \in Call
      /\ {"unknown", "failed", "succeeded"} \subseteq Status
      /\ {"check", "copy"} \subseteq Pcs
  BY DEF SInv, TypeOK, Status, Pcs
<1>1. call.pc \in {"connect", "rcpt"} => Submits /\ call.effect = "data" /\ Unsent /\ NoOutcome(Recipients)
  BY DEF SInv, EarlyOK, EarlyPcs
<1>2. call.pc = "await" /\ call.effect = "data" => Submits
  BY DEF SInv, EffectOK
<1>3. CASE ConnectTimesOut
  <2> DEFINE outcome == Concluded(Recipients, "unknown")
  <2>1. outcome \in [Recipients -> Status] /\ \A r \in Recipients : outcome[r] = "unknown"
    BY <1>0, ConcludedIs
  <2>2. call.pc = "connect" /\ Step(Skipped(outcome))
    BY <1>3 DEF ConnectTimesOut
  <2> HIDE DEF outcome
  <2> QED
    BY <1>1, <2>1, <2>2, EndsSkipped
<1>4. CASE Abandoned
  <2> DEFINE outcome == Concluded(Recipients, "failed")
  <2>1. outcome \in [Recipients -> Status] /\ \A r \in Recipients : outcome[r] = "failed"
    BY <1>0, ConcludedIs
  <2>2. call.pc \in {"connect", "rcpt"} /\ Step(Skipped(outcome))
    BY <1>4 DEF Abandoned
  <2>3. DataAbsent
    BY <1>1, <2>2 DEF DataAbsent, Unsent
  <2> HIDE DEF outcome
  <2> QED
    BY <1>1, <2>1, <2>2, <2>3, EndsSkipped
<1>5. CASE Rcpt
  <2>1. PICK accepted \in (SUBSET Recipients) \ {{}} :
          Step([call EXCEPT !.pc = "check", !.accepted = accepted,
                            !.outcome = Concluded(Recipients \ accepted, "failed")])
    BY <1>5 DEF Rcpt
  <2> DEFINE outcome == Concluded(Recipients \ accepted, "failed")
  <2>2. /\ outcome \in [Recipients -> Status]
        /\ \A r \in Recipients : outcome[r] = IF r \in accepted THEN "none" ELSE "failed"
    <3>1. /\ outcome \in [Recipients -> Status]
          /\ \A r \in Recipients :
               outcome[r] = IF r \in Recipients \ accepted THEN "failed" ELSE call.outcome[r]
      BY <1>0, ConcludedIs
    <3>2. NoOutcome(Recipients)
      BY <1>1, <1>5 DEF Rcpt
    <3> HIDE DEF outcome
    <3> QED
      BY <3>1, <3>2 DEF NoOutcome
  <2>3. /\ call' = [call EXCEPT !.pc = "check", !.accepted = accepted, !.outcome = outcome]
        /\ UNCHANGED <<operator, remote, late>>
    BY <2>1 DEF Step
  <2> HIDE DEF outcome
  <2>4. /\ call' \in Call /\ call'.pc = "check" /\ call'.accepted = accepted /\ call'.outcome = outcome
        /\ SameRequest(call', call) /\ call'.effect = call.effect /\ call'.reply = call.reply
        /\ call'.copy = call.copy /\ call'.reconcile = call.reconcile
    BY <1>0, <2>1, <2>2, <2>3, MovesAcceptedOutcome
  <2>5. call.pc = "rcpt" /\ Unsent /\ Submits /\ call.effect = "data" /\ call.copy = "none"
    BY <1>1, <1>5 DEF Rcpt, SInv, EarlyOK, EarlyPcs
  <2>6. TypeOK'
    BY <2>3, <2>4 DEF SInv, TypeOK, operator, remote
  <2>7. NoOutcome(call.accepted)' /\ call'.accepted # {}
    <3>1. accepted \subseteq Recipients /\ accepted # {}
      OBVIOUS
    <3>2. \A r \in accepted : outcome[r] = "none"
      BY <2>2, <3>1
    <3> QED
      BY <2>4, <3>1, <3>2 DEF NoOutcome
  <2>10. EarlyOK' /\ ReadyOK' /\ EffectOK' /\ AwaitOK'
    BY <2>3, <2>4, <2>5, <2>7
      
          DEF EarlyOK, ReadyOK, EffectOK, AwaitOK, EarlyPcs, ReadyPcs, SameRequest, operator,
              remote, Submits, Unsent,
           CopyAbsent
  <2>8. OutcomeOK'
    BY <2>2, <2>3, <2>4, <2>5 DEF OutcomeOK, operator, remote, Unsent, DataAbsent, CopyAbsent
  <2>9. CacheOK' /\ LateOK'
    BY <2>3, <2>4, <2>5
       DEF SInv, TypeOK, EarlyOK, ReadyOK, EffectOK, AwaitOK, OutcomeOK, CacheOK, CacheHonest,
           LateOK, operator, remote, Unsent
  <2> QED
    BY <2>6, <2>8, <2>9, <2>10 DEF SInv
<1>6. CASE DataEnds
  <2> DEFINE outcome == Concluded(call.accepted, Evidence)
  <2>0. call.pc = "await" /\ call.effect = "data" /\ Submits
    BY <1>2, <1>6 DEF DataEnds
  <2>1. Evidence \in Status
    BY <1>0, EvidenceIs DEF Status
  <2>2. /\ outcome \in [Recipients -> Status]
        /\ \A r \in Recipients : outcome[r] = IF r \in call.accepted THEN Evidence ELSE call.outcome[r]
    BY <1>0, <2>1, ConcludedIs
  <2>3. /\ call.copy = "none" /\ CopyAbsent /\ call.accepted # {}
        /\ Evidence = "succeeded" => Delivered
        /\ Evidence = "failed" => DataAbsent
    BY <1>0, <2>0, EvidenceIs DEF SInv, EffectOK, AwaitOK
  <2>4. \A r \in Recipients : call.outcome[r] = "succeeded" => r \in call.accepted
    BY DEF SInv, OutcomeOK
  <2>5. \A r \in Recipients : call.outcome[r] = "failed" => r \notin call.accepted \/ DataAbsent
    BY DEF SInv, OutcomeOK
  <2>6. CASE Evidence = "succeeded"
    <3>1. /\ call' = [call EXCEPT !.pc = "copy", !.outcome = outcome]
          /\ UNCHANGED <<operator, remote, late>>
      BY <1>6, <2>6 DEF DataEnds, Step
    <3> HIDE DEF outcome
    <3>2. /\ call' \in Call /\ call'.pc = "copy" /\ call'.outcome = outcome
          /\ SameRequest(call', call) /\ SameEffect(call', call)
          /\ call'.copy = call.copy /\ call'.reconcile = call.reconcile
      BY <1>0, <2>2, <3>1, MovesOutcome
    <3>3. wire = {}
      BY <2>3, <2>6 DEF SInv, TypeOK, Delivered, CopyAbsent
    <3>4. TypeOK'
      BY <3>1, <3>2 DEF SInv, TypeOK, operator, remote
    <3>5. EarlyOK' /\ ReadyOK' /\ EffectOK' /\ AwaitOK'
      BY <2>0, <2>3, <2>6, <3>1, <3>2, <3>3
        
            DEF EarlyOK, ReadyOK, EffectOK, AwaitOK, EarlyPcs, ReadyPcs, SameRequest, SameEffect,
                operator, remote, Submits,
             CopyAbsent, Delivered
    <3>6. OutcomeOK'
      BY <2>2, <2>3, <2>4, <2>5, <2>6, <3>1, <3>2, <3>3
         DEF SInv, OutcomeOK, operator, remote, SameEffect, CopyAbsent, DataAbsent, Delivered
    <3>7. CacheOK' /\ LateOK'
      BY <2>0, <3>1, <3>2, <3>3
         DEF SInv, TypeOK, EarlyOK, ReadyOK, EffectOK, AwaitOK, OutcomeOK, CacheOK, CacheHonest,
             LateOK, operator, remote
    <3> QED
      BY <3>4, <3>5, <3>6, <3>7 DEF SInv
  <2>7. CASE Evidence # "succeeded"
    <3>1. Step(Skipped(outcome))
      BY <1>6, <2>7 DEF DataEnds
    <3>2. \A r \in Recipients : outcome[r] # "succeeded"
      BY <2>2, <2>4, <2>7
    <3>3. \A r \in Recipients : outcome[r] = "failed" => r \notin call.accepted \/ DataAbsent
      BY <2>2, <2>3, <2>5
    <3> HIDE DEF outcome
    <3> QED
      BY <2>0, <2>2, <3>1, <3>2, <3>3, EndsSkipped
  <2> QED
    BY <2>6, <2>7
<1> QED
  BY <1>3, <1>4, <1>5, <1>6

(* Steps between the effects that set the program counter alone. *)
LEMMA ReadyMove ==
  ASSUME SInv, call' \in Call, UNCHANGED <<operator, remote, late>>,
         SameRequest(call', call), SameEffect(call', call), SameReport(call', call),
         \/ call.pc = "setup" /\ call'.pc = "check"
         \/ call.pc = "guard" /\ call'.pc = "setup"
         \/ call.pc = "check" /\ call'.pc = "send" /\ Permitted
  PROVE  SInv'
<1>1. TypeOK'
  BY DEF SInv, TypeOK, operator, remote
<1>2. EarlyOK' /\ ReadyOK'
  BY DEF SInv, EarlyOK, ReadyOK, EarlyPcs, ReadyPcs, SameRequest, SameEffect, SameReport,
         operator, remote, Submits, NoOutcome
<1>3. EffectOK' /\ AwaitOK' /\ OutcomeOK'
  BY DEF SInv, EffectOK, AwaitOK, OutcomeOK, SameRequest, SameEffect, SameReport, operator,
         remote, Submits, NoOutcome, Delivered, DataAbsent, CopyAbsent
<1>4. Permitted' <=> Permitted
  BY PermittedSame DEF SameEffect, operator
<1>5. CacheOK' /\ LateOK'
  BY <1>4 DEF SInv, CacheOK, CacheHonest, LateOK, operator, remote
<1> QED
  BY <1>1, <1>2, <1>3, <1>5 DEF SInv

(* A call that appends alone raises before its effect. *)
LEMMA LateRaise ==
  ASSUME SInv, ~Submits, call.pc \in {"setup", "check"}, Raise
  PROVE  SInv'
<1>1. call \in Call /\ "raised" \in Pcs
  BY DEF SInv, TypeOK, Pcs
<1>2. call' = [call EXCEPT !.pc = "raised"] /\ UNCHANGED <<operator, remote, late>>
  BY DEF Raise, Step
<1>3. /\ call' \in Call /\ call'.pc = "raised"
      /\ SameRequest(call', call) /\ SameEffect(call', call) /\ SameReport(call', call)
  BY <1>1, <1>2, MovesTo
<1>4. TypeOK'
  BY <1>2, <1>3 DEF SInv, TypeOK, operator, remote
<1>5. EarlyOK' /\ ReadyOK' /\ EffectOK' /\ AwaitOK'
  BY <1>2, <1>3
    
        DEF SInv, EarlyOK, ReadyOK, EffectOK, AwaitOK, EarlyPcs, ReadyPcs, SameRequest,
            SameEffect, SameReport, operator, remote, Submits, NoOutcome,
         Unsent, DataAbsent
<1>6. OutcomeOK'
  BY <1>2, <1>3
     DEF SInv, OutcomeOK, SameRequest, SameEffect, SameReport, operator, remote, Delivered,
         DataAbsent, CopyAbsent
<1>7. CacheOK' /\ LateOK'
  BY <1>2, <1>3 DEF SInv, CacheOK, CacheHonest, LateOK, operator, remote
<1> QED
  BY <1>4, <1>5, <1>6, <1>7 DEF SInv

LEMMA CheckSteps ==
  ASSUME SInv, Setup \/ GuardCopy \/ CheckAllows \/ CheckDenies
  PROVE  SInv'
<1>0. call \in Call /\ {"check", "setup", "send"} \subseteq Pcs
  BY DEF SInv, TypeOK, Pcs
<1>1. CASE Setup
  BY <1>0, <1>1, MovesTo, ReadyMove DEF Setup, Step
<1>2. CASE GuardCopy
  <2>1. call.pc = "guard" /\ call.pc \in ReadyPcs /\ Submits
    BY <1>2 DEF GuardCopy, ReadyPcs, SInv, ReadyOK
  <2>2. CASE Permitted
    BY <1>0, <1>2, <2>1, <2>2, MovesTo, ReadyMove DEF GuardCopy, Step
  <2> QED
    BY <1>2, <2>1, <2>2, EndsCopy DEF GuardCopy
<1>3. CASE CheckAllows
  BY <1>0, <1>3, MovesTo, ReadyMove DEF CheckAllows, Step
<1>4. CASE CheckDenies
  <2>0. call.pc = "check" /\ call.pc \in ReadyPcs /\ call.op \in Submitting \cup Appending
    BY <1>0, <1>4 DEF CheckDenies, ReadyPcs, Call
  <2>1. call.effect \in {"data", "append"} /\ (~Submits => call.effect = "append")
    BY <1>0 DEF SInv, EffectOK, Call
  <2>2. CASE call.effect = "data"
    <3> DEFINE outcome == Concluded(call.accepted, "failed")
    <3>1. Step(Skipped(outcome))
      BY <1>4, <2>1, <2>2 DEF CheckDenies, Submits, Submitting, Appending
    <3>2. /\ outcome \in [Recipients -> Status]
          /\ \A r \in Recipients :
               outcome[r] = IF r \in call.accepted THEN "failed" ELSE call.outcome[r]
      BY <1>0, ConcludedIs DEF Status
    <3>3. wire = {} /\ delivered = {}
      BY <2>0, <2>2 DEF SInv, ReadyOK
    <3>4. \A r \in Recipients : call.outcome[r] # "succeeded"
      BY <3>3 DEF SInv, OutcomeOK, Delivered
    <3> HIDE DEF outcome
    <3>5. \A r \in Recipients : outcome[r] # "succeeded"
      BY <3>2, <3>4
    <3>6. DataAbsent
      BY <3>3 DEF DataAbsent
    <3> QED
      BY <2>0, <2>1, <2>2, <3>1, <3>2, <3>5, <3>6, EndsSkipped
  <2>3. CASE call.effect = "append" /\ Submits
    BY <1>4, <2>0, <2>3, EndsCopy DEF CheckDenies, CopyEnds, Submits, Submitting, Appending
  <2>4. CASE ~Submits
    BY <1>4, <2>0, <2>1, <2>4, LateRaise DEF CheckDenies, Submits
  <2> QED
    BY <2>1, <2>2, <2>3, <2>4
<1> QED
  BY <1>1, <1>2, <1>3, <1>4

LEMMA CopySteps ==
  ASSUME SInv, OpenCopy \/ CopyUnavailable \/ SetupRejected \/ SetupFails \/ SetupTimesOut
  PROVE  SInv'
<1>0. /\ call \in Call /\ authority \in Authority
      /\ {"guard", "report"} \subseteq Pcs /\ "unknown" \in Copies
  BY DEF SInv, TypeOK, Pcs, Copies, Status
<1>1. call.pc = "copy" => Submits /\ Delivered
  BY DEF SInv, ReadyOK
<1>2. CASE OpenCopy
  <2>0. call.pc = "copy" /\ call.pc \in ReadyPcs /\ wire = {} /\ copies = 0 /\ call.copy = "none"
    BY <1>2 DEF OpenCopy, SInv, ReadyOK, ReadyPcs
  <2>1. CASE authority.granted
    <3>1. /\ call' = [call EXCEPT !.pc = "guard", !.account = authority, !.effect = "append"]
          /\ UNCHANGED <<operator, remote, late>>
      BY <1>2, <2>1 DEF OpenCopy, Step
    <3>2. /\ call' \in Call /\ call'.pc = "guard" /\ call'.effect = "append"
          /\ call'.op = call.op /\ call'.accepted = call.accepted /\ call'.reply = call.reply
          /\ SameReport(call', call)
      BY <1>0, <3>1, MovesAccountEffect
    <3>3. TypeOK'
      BY <3>1, <3>2 DEF SInv, TypeOK, operator, remote
    <3>4. EarlyOK' /\ ReadyOK' /\ EffectOK' /\ AwaitOK'
      BY <1>1, <2>0, <3>1, <3>2
        
            DEF EarlyOK, ReadyOK, EffectOK, AwaitOK, EarlyPcs, ReadyPcs, SameReport, operator,
                remote, Submits, Delivered
    <3>5. OutcomeOK'
      BY <3>1, <3>2
         DEF SInv, OutcomeOK, SameReport, operator, remote, Delivered, DataAbsent, CopyAbsent
    <3>6. CacheOK' /\ LateOK'
      BY <3>1, <3>2 DEF SInv, CacheOK, CacheHonest, LateOK, operator, remote
    <3> QED
      BY <3>3, <3>4, <3>5, <3>6 DEF SInv
  <2> QED
    BY <1>2, <2>0, <2>1, EndsCopy DEF OpenCopy
<1>3. CASE CopyUnavailable
  BY <1>3, EndsCopy DEF CopyUnavailable, ReadyPcs
<1>4. CASE SetupRejected
  BY <1>4, EndsCopy DEF SetupRejected, ReadyPcs
<1>5. CASE SetupFails
  <2>1. CASE Submits
    BY <1>5, <2>1, EndsCopy DEF SetupFails, ReadyPcs
  <2> QED
    BY <1>5, <2>1, LateRaise DEF SetupFails
<1>6. CASE SetupTimesOut
  <2>0. call.pc = "setup" /\ call.pc \in ReadyPcs /\ wire = {} /\ copies = 0 /\ call.effect = "append"
    BY <1>6 DEF SetupTimesOut, SInv, ReadyOK, ReadyPcs
  <2>1. CASE Submits
    BY <1>6, <2>0, <2>1, EndsCopy DEF SetupTimesOut
  <2>2. CASE ~Submits
    <3>1. /\ call' = [call EXCEPT !.pc = "report", !.copy = "unknown"]
          /\ UNCHANGED <<operator, remote, late>>
      BY <1>6, <2>2 DEF SetupTimesOut, Step
    <3>2. /\ call' \in Call /\ call'.pc = "report" /\ call'.copy = "unknown"
          /\ SameRequest(call', call) /\ SameEffect(call', call)
          /\ call'.outcome = call.outcome /\ call'.reconcile = call.reconcile
      BY <1>0, <3>1, MovesCopy
    <3>3. TypeOK'
      BY <3>1, <3>2 DEF SInv, TypeOK, operator, remote
    <3>4. EarlyOK' /\ ReadyOK' /\ EffectOK' /\ AwaitOK'
      BY <2>0, <2>2, <3>1, <3>2
        
            DEF SInv, EarlyOK, ReadyOK, EffectOK, AwaitOK, EarlyPcs, ReadyPcs, SameRequest,
                SameEffect, operator, remote,
             Submits, Delivered, DataAbsent, CopyAbsent, NoOutcome
    <3>5. OutcomeOK'
      BY <3>1, <3>2
         DEF SInv, OutcomeOK, SameEffect, operator, remote, Delivered, DataAbsent, CopyAbsent
    <3>6. CacheOK' /\ LateOK'
      BY <3>1, <3>2 DEF SInv, CacheOK, CacheHonest, LateOK, operator, remote
    <3> QED
      BY <3>3, <3>4, <3>5, <3>6 DEF SInv
  <2> QED
    BY <2>1, <2>2
<1> QED
  BY <1>2, <1>3, <1>4, <1>5, <1>6

LEMMA EffectSteps ==
  ASSUME SInv, Send \/ AppendEnds
  PROVE  SInv'
<1>0. /\ call \in Call /\ {"await", "report"} \subseteq Pcs
      /\ "none" \in Replies /\ {"succeeded", "failed", "unknown"} \subseteq Copies
  BY DEF SInv, TypeOK, Pcs, Replies, Copies, Status
<1>1. CASE Send
  <2>1. /\ call.pc = "send" /\ wire = {} /\ copies = 0 /\ call.copy = "none"
        /\ call.effect \in {"data", "append"}
        /\ call.effect = "data" => delivered = {} /\ call.accepted # {} /\ NoOutcome(call.accepted)
    BY <1>0, <1>1 DEF Send, SInv, ReadyOK, ReadyPcs, Call
  <2>2. /\ wire' = {call.effect}
        /\ call' = [call EXCEPT !.pc = "await", !.reply = "none"]
        /\ UNCHANGED <<operator, delivered, copies, coverage>>
    BY <1>1, <2>1 DEF Send
  <2>3. /\ call' \in Call /\ call'.pc = "await" /\ call'.reply = "none"
        /\ SameRequest(call', call) /\ call'.effect = call.effect /\ call'.accepted = call.accepted
        /\ SameReport(call', call)
    BY <1>0, <2>2, MovesReply
  <2>4. late \in Nat /\ late' \in Nat /\ late' <= 1
    BY <1>1, <2>1 DEF Send, SInv, TypeOK, LateOK
  <2>5. TypeOK'
    BY <2>1, <2>2, <2>3, <2>4 DEF SInv, TypeOK, operator
  <2>6. EarlyOK' /\ ReadyOK'
    BY <2>3 DEF EarlyOK, ReadyOK, EarlyPcs, ReadyPcs
  <2>7. EffectOK'
    BY <2>1, <2>2, <2>3
      
          DEF SInv, EffectOK, SameRequest, SameReport, Submits, Delivered, DataAbsent, CopyAbsent,
              NoOutcome
  <2>8. AwaitOK'
    BY <2>1, <2>2, <2>3 DEF AwaitOK, SameReport, CopyAbsent, NoOutcome
  <2>9. OutcomeOK'
    BY <2>1, <2>2, <2>3
       DEF SInv, OutcomeOK, SameReport, Delivered, DataAbsent, CopyAbsent, NoOutcome
  <2>10. CacheOK' /\ LateOK'
    BY <2>2, <2>3, <2>4 DEF SInv, CacheOK, CacheHonest, LateOK
  <2> QED
    BY <2>5, <2>6, <2>7, <2>8, <2>9, <2>10 DEF SInv
<1>2. CASE AppendEnds
  <2>1. /\ call.pc = "await" /\ call.effect = "append"
        /\ call' = [call EXCEPT !.pc = "report", !.copy = Evidence]
        /\ UNCHANGED <<operator, remote, late>>
    BY <1>2 DEF AppendEnds, Step
  <2>2. /\ Evidence \in Copies
        /\ Evidence = "succeeded" => copies = 1 /\ "append" \notin wire
        /\ Evidence = "failed" => CopyAbsent
        /\ Evidence # "skipped"
    BY <1>0, <2>1, EvidenceIs DEF SInv, AwaitOK
  <2>3. /\ call' \in Call /\ call'.pc = "report" /\ call'.copy = Evidence
        /\ SameRequest(call', call) /\ SameEffect(call', call)
        /\ call'.outcome = call.outcome /\ call'.reconcile = call.reconcile
    BY <1>0, <2>1, <2>2, MovesCopy
  <2>4. TypeOK'
    BY <2>1, <2>3 DEF SInv, TypeOK, operator, remote
  <2>5. EarlyOK' /\ ReadyOK' /\ EffectOK' /\ AwaitOK'
    BY <2>1, <2>3
      
          DEF SInv, EarlyOK, ReadyOK, EffectOK, AwaitOK, EarlyPcs, ReadyPcs, SameRequest,
              SameEffect, operator, remote,
           Submits, Delivered, DataAbsent, CopyAbsent, NoOutcome
  <2>6. OutcomeOK'
    BY <2>1, <2>2, <2>3
       DEF SInv, OutcomeOK, SameEffect, operator, remote, Delivered, DataAbsent, CopyAbsent
  <2>7. CacheOK' /\ LateOK'
    BY <2>1, <2>3 DEF SInv, CacheOK, CacheHonest, LateOK, operator, remote
  <2> QED
    BY <2>4, <2>5, <2>6, <2>7 DEF SInv
<1> QED
  BY <1>1, <1>2

(* The report of a call that has appended. *)
LEMMA ReportSteps ==
  ASSUME SInv, ReportUnchanged \/ Invalidate
  PROVE  SInv'
<1>0. call \in Call
  BY DEF SInv, TypeOK
<1>1. call.pc = "report" /\ call.effect = "append" /\ call.copy \in {"failed", "succeeded", "unknown"}
  BY DEF ReportUnchanged, Invalidate, SInv, ReadyOK
<1>2. /\ call.copy = "failed" => CopyAbsent
      /\ call.copy = "succeeded" => copies = 1 /\ "append" \notin wire
  BY DEF SInv, OutcomeOK
<1>3. /\ Done(call) \in Call /\ Done(call).pc = "done"
      /\ SameRequest(Done(call), call) /\ SameEffect(Done(call), call)
      /\ Done(call).outcome = call.outcome /\ Done(call).copy = call.copy
      /\ call.copy = "unknown" => Done(call).reconcile
  BY <1>0, DoneIs DEF Unknown
<1>4. /\ call' \in Call /\ call'.pc = "done"
      /\ SameRequest(call', call) /\ SameEffect(call', call)
      /\ call'.outcome = call.outcome /\ call'.copy = call.copy
      /\ call.copy = "unknown" => call'.reconcile
      /\ UNCHANGED <<operator, wire, delivered, copies, late>>
      /\ \/ coverage' = "none"
         \/ coverage' = coverage /\ call'.reconcile
         \/ coverage' = coverage /\ copies = 0
  <2>1. CASE ReportUnchanged
    BY <1>2, <1>3, <2>1 DEF ReportUnchanged, Step, remote, CopyAbsent
  <2>2. CASE Invalidate /\ call' = Done(call)
    <3>1. CASE coverage' = "none"
      BY <1>3, <2>2, <3>1 DEF Invalidate
    <3>2. CASE call' = [Done(call) EXCEPT !.reconcile = TRUE]
      <4> DEFINE d == Done(call)
      <4>1. call' = [d EXCEPT !.reconcile = TRUE] /\ d \in Call
        BY <1>3, <3>2
      <4> HIDE DEF d
      <4>2. call'.reconcile
        BY <4>1 DEF Call
      <4> QED
        BY <1>3, <2>2, <3>2, <4>2 DEF Invalidate
    <3> QED
      BY <2>2, <3>1, <3>2 DEF Invalidate
  <2>3. CASE Invalidate /\ call' = [Done(call) EXCEPT !.reconcile = TRUE]
    <3> DEFINE d == Done(call)
    <3>1. /\ d \in Call /\ d.pc = "done" /\ SameRequest(d, call) /\ SameEffect(d, call)
          /\ d.outcome = call.outcome /\ d.copy = call.copy
          /\ call' = [d EXCEPT !.reconcile = TRUE]
      BY <1>3, <2>3
    <3>2. /\ UNCHANGED <<operator, wire, delivered, copies, late>>
          /\ coverage' = coverage \/ coverage' = "none"
      BY <2>3 DEF Invalidate
    <3> HIDE DEF d
    <3>3. call' \in Call
      BY <3>1, SetReconcile
    <3>4. /\ call'.pc = "done" /\ call'.reconcile
          /\ SameRequest(call', call) /\ SameEffect(call', call)
          /\ call'.outcome = call.outcome /\ call'.copy = call.copy
      BY <3>1 DEF Call, SameRequest, SameEffect
    <3> QED
      BY <3>2, <3>3, <3>4
  <2> QED
    BY <2>1, <2>2, <2>3 DEF Invalidate
<1>5. TypeOK'
  BY <1>4 DEF SInv, TypeOK, operator
<1>6. EarlyOK' /\ ReadyOK' /\ EffectOK' /\ AwaitOK'
  BY <1>4
     DEF SInv, EarlyOK, ReadyOK, EffectOK, AwaitOK, EarlyPcs, ReadyPcs, SameRequest, SameEffect,
         Submits, Delivered, DataAbsent, CopyAbsent, NoOutcome
<1>7. OutcomeOK'
  BY <1>4 DEF SInv, OutcomeOK, SameEffect, Delivered, DataAbsent, CopyAbsent
<1>8. CacheOK' /\ LateOK'
  BY <1>1, <1>2, <1>4 DEF SInv, CacheOK, CacheHonest, LateOK, CopyAbsent
<1> QED
  BY <1>5, <1>6, <1>7, <1>8 DEF SInv

(* The answer of a server reaches the call only while it waits for it. *)
LEMMA AnsweredIs ==
  ASSUME call \in Call, NEW effect, NEW reply \in Replies, call' = Answered(effect, reply)
  PROVE  /\ call' \in Call /\ call'.pc = call.pc
         /\ SameRequest(call', call) /\ SameReport(call', call)
         /\ call'.effect = call.effect /\ call'.accepted = call.accepted
         /\ call'.reply = IF call.pc = "await" /\ call.effect = effect THEN reply ELSE call.reply
<1>1. CASE call.pc = "await" /\ call.effect = effect
  <2>1. call' = [call EXCEPT !.reply = reply]
    BY <1>1 DEF Answered
  <2>2. call' \in Call
    BY <2>1, SetReply
  <2> QED
    BY <1>1, <2>1, <2>2 DEF Call, SameRequest, SameReport
<1> QED
  BY <1>1 DEF Answered, SameRequest, SameReport

(* Where the effects may still be under way. *)
LEMMA WireIs ==
  ASSUME SInv
  PROVE  /\ "data" \in wire => /\ Submits /\ call.effect = "data" /\ delivered = {} /\ call.accepted # {}
                               /\ call.pc \notin EarlyPcs \cup ReadyPcs \cup {"raised", "report"}
         /\ "append" \in wire => /\ call.effect = "append"
                                 /\ call.pc \notin EarlyPcs \cup ReadyPcs \cup {"raised"}
                                 /\ copies = 0 /\ call.copy \notin {"failed", "skipped", "succeeded"}
<1>0. call \in Call
  BY DEF SInv, TypeOK
<1>1. call.effect \in {"data", "append"}
  BY <1>0 DEF Call
<1> QED
  BY <1>1
     DEF SInv, EarlyOK, ReadyOK, EffectOK, AwaitOK, OutcomeOK, Unsent, Delivered, DataAbsent,
         CopyAbsent

LEMMA ExecuteStep ==
  ASSUME SInv, NEW effect \in {"data", "append"}, Execute(effect)
  PROVE  SInv'
<1>0. call \in Call /\ wire \subseteq {"data", "append"} /\ copies \in 0..1
  BY DEF SInv, TypeOK
<1>1. PICK reply \in {"OK", "none"} : call' = Answered(effect, reply)
  BY DEF Execute
<1>2. /\ effect \in wire /\ wire' = wire \ {effect} /\ UNCHANGED <<operator, late>>
      /\ effect = "data" => delivered' = call.accepted /\ UNCHANGED <<copies, coverage>>
      /\ effect = "append" => /\ copies' = copies + 1 /\ UNCHANGED delivered
                              /\ coverage' = IF coverage = "fresh" THEN "stale" ELSE coverage
  BY DEF Execute
<1>3. reply \in Replies
  BY DEF Replies
<1>4. /\ call' \in Call /\ call'.pc = call.pc
      /\ SameRequest(call', call) /\ SameReport(call', call)
      /\ call'.effect = call.effect /\ call'.accepted = call.accepted
      /\ call'.reply = IF call.pc = "await" /\ call.effect = effect THEN reply ELSE call.reply
  BY <1>0, <1>1, <1>3, AnsweredIs
<1>5. call.accepted \subseteq Recipients
  BY <1>0 DEF Call
<1>6. Permitted' <=> Permitted
  BY <1>2, <1>4, PermittedSame DEF operator
<1>7. CASE effect = "data"
  <2>1. /\ Submits /\ call.effect = "data" /\ delivered = {} /\ call.accepted # {}
        /\ call.pc \notin EarlyPcs \cup ReadyPcs \cup {"raised", "report"}
    BY <1>2, <1>7, WireIs
  <2>2. Delivered'
    BY <1>2, <1>4, <1>7, <2>1 DEF Delivered
  <2>3. TypeOK'
    BY <1>2, <1>4, <1>5, <1>7 DEF SInv, TypeOK, operator
  <2>4. EarlyOK' /\ ReadyOK' /\ EffectOK'
    BY <1>2, <1>4, <1>7, <2>1, <2>2
       DEF SInv, EarlyOK, ReadyOK, EffectOK, EarlyPcs, ReadyPcs, SameRequest, Submits, CopyAbsent
  <2>5. AwaitOK'
    BY <1>1, <1>2, <1>4, <1>7, <2>1, <2>2
       DEF SInv, AwaitOK, SameReport, NoOutcome, CopyAbsent
  <2>6. OutcomeOK'
    BY <1>2, <1>4, <1>7, <2>1, <2>2
       DEF SInv, OutcomeOK, SameReport, Delivered, DataAbsent, CopyAbsent
  <2>7. CacheOK' /\ LateOK'
    BY <1>2, <1>4, <1>6, <1>7 DEF SInv, CacheOK, CacheHonest, LateOK, SameReport
  <2> QED
    BY <2>3, <2>4, <2>5, <2>6, <2>7 DEF SInv
<1>8. CASE effect = "append"
  <2>1. /\ call.effect = "append"
        /\ call.pc \notin EarlyPcs \cup ReadyPcs \cup {"raised"}
        /\ copies = 0 /\ call.copy \notin {"failed", "skipped", "succeeded"}
    BY <1>2, <1>8, WireIs
  <2>2. copies' = 1 /\ "append" \notin wire' /\ UNCHANGED delivered /\ ("data" \in wire' <=> "data" \in wire)
    BY <1>2, <1>8, <2>1
  <2>3. TypeOK'
    BY <1>2, <1>4, <1>8, <2>2 DEF SInv, TypeOK, operator
  <2>4. EarlyOK' /\ ReadyOK'
    BY <1>4, <2>1 DEF SInv, EarlyOK, ReadyOK, EarlyPcs, ReadyPcs
  <2>5. EffectOK'
    BY <1>4, <2>1, <2>2
       DEF SInv, EffectOK, SameRequest, SameReport, Submits, Delivered, DataAbsent, CopyAbsent,
           NoOutcome
  <2>6. AwaitOK'
    BY <1>1, <1>4, <1>8, <2>1, <2>2 DEF SInv, AwaitOK, SameReport
  <2>7. OutcomeOK'
    BY <1>4, <2>1, <2>2 DEF SInv, OutcomeOK, SameReport, Delivered, DataAbsent
  <2>8. CacheOK' /\ LateOK'
    BY <1>2, <1>4, <1>6, <1>8, <2>2 DEF SInv, CacheOK, CacheHonest, LateOK, SameReport
  <2> QED
    BY <2>3, <2>4, <2>5, <2>6, <2>7, <2>8 DEF SInv
<1> QED
  BY <1>7, <1>8

LEMMA DropStep ==
  ASSUME SInv, NEW effect \in {"data", "append"}, Drop(effect)
  PROVE  SInv'
<1>0. call \in Call /\ wire \subseteq {"data", "append"}
  BY DEF SInv, TypeOK
<1>1. PICK reply \in {"NO", "none"} : call' = Answered(effect, reply)
  BY DEF Drop
<1>2. effect \in wire /\ wire' = wire \ {effect} /\ UNCHANGED <<operator, delivered, copies, coverage, late>>
  BY DEF Drop
<1>3. reply \in Replies
  BY DEF Replies
<1>4. /\ call' \in Call /\ call'.pc = call.pc
      /\ SameRequest(call', call) /\ SameReport(call', call)
      /\ call'.effect = call.effect /\ call'.accepted = call.accepted
      /\ call'.reply = IF call.pc = "await" /\ call.effect = effect THEN reply ELSE call.reply
  BY <1>0, <1>1, <1>3, AnsweredIs
<1>5. Permitted' <=> Permitted
  BY <1>2, <1>4, PermittedSame DEF operator
<1>6. TypeOK'
  BY <1>2, <1>4 DEF SInv, TypeOK, operator
<1>7. EarlyOK' /\ ReadyOK' /\ EffectOK'
  BY <1>2, <1>4
    
        DEF SInv, EarlyOK, ReadyOK, EffectOK, SameRequest, SameReport, Submits, Unsent, Delivered,
            DataAbsent,
         CopyAbsent, NoOutcome
<1>8. AwaitOK'
  BY <1>1, <1>2, <1>4, WireIs
     DEF SInv, AwaitOK, SameReport, NoOutcome, Delivered, DataAbsent, CopyAbsent
<1>9. OutcomeOK'
  BY <1>2, <1>4 DEF SInv, OutcomeOK, SameReport, Delivered, DataAbsent, CopyAbsent
<1>10. CacheOK' /\ LateOK'
  BY <1>2, <1>4, <1>5 DEF SInv, CacheOK, CacheHonest, LateOK, SameReport
<1> QED
  BY <1>6, <1>7, <1>8, <1>9, <1>10 DEF SInv

LEMMA OthersStep ==
  ASSUME SInv, Refresh \/ ChangeAuthority \/ UNCHANGED vars
  PROVE  SInv'
<1> USE SubmissionAssumption
<1>1. CASE Refresh
  <2>1. UNCHANGED <<operator, wire, delivered, copies, call, late>> /\ coverage' = "fresh"
    BY <1>1 DEF Refresh
  <2>2. Permitted' <=> Permitted
    BY <2>1 DEF Permitted, operator
  <2> QED
    BY <2>1, <2>2
      
          DEF SInv, TypeOK, EarlyOK, ReadyOK, EffectOK, AwaitOK, OutcomeOK, CacheOK, CacheHonest,
              LateOK, operator, Submits, Unsent, NoOutcome, Delivered, DataAbsent, CopyAbsent
<1>2. CASE ChangeAuthority
  <2>1. /\ authority' \in Authority /\ changes' \in 0..MaxChanges /\ late' = 0
        /\ UNCHANGED <<wire, delivered, copies, coverage, call>>
    BY <1>2 DEF ChangeAuthority, remote, SInv, TypeOK
  <2> QED
    BY <2>1
       DEF SInv, TypeOK, EarlyOK, ReadyOK, EffectOK, AwaitOK, OutcomeOK, CacheOK, CacheHonest,
           LateOK, Submits, Unsent, NoOutcome, Delivered, DataAbsent, CopyAbsent
<1>3. CASE UNCHANGED vars
  <2>1. UNCHANGED <<authority, wire, delivered, copies, coverage, call, changes, late>>
    BY <1>3 DEF vars, operator, remote
  <2>2. Permitted' <=> Permitted
    BY <2>1 DEF Permitted
  <2> QED
    BY <2>1, <2>2
       DEF SInv, TypeOK, EarlyOK, ReadyOK, EffectOK, AwaitOK, OutcomeOK, CacheOK, CacheHonest,
           LateOK, Submits, Unsent, NoOutcome, Delivered, DataAbsent, CopyAbsent
<1> QED
  BY <1>1, <1>2, <1>3

LEMMA InitEstablishesInv ==
  ASSUME Init
  PROVE  SInv
<1> USE SubmissionAssumption
<1>1. PICK op \in Submitting \cup Appending :
        call = [pc |-> "idle", op |-> op, found |-> FALSE, account |-> authority,
                effect |-> IF op \in Submitting THEN "data" ELSE "append",
                accepted |-> {}, reply |-> "none",
                outcome |-> [r \in Recipients |-> "none"], copy |-> "none", reconcile |-> FALSE]
  BY DEF Init
<1>2. authority \in Authority
  BY DEF Init, Authority
<1>3. /\ wire = {} /\ delivered = {} /\ copies = 0 /\ coverage = "fresh" /\ changes = 0 /\ late = 0
  BY DEF Init
<1>4. [r \in Recipients |-> "none"] \in [Recipients -> Status]
  BY DEF Status
<1>5. call \in Call
  BY <1>1, <1>2, <1>4 DEF Call, Status
<1>6. /\ call.pc = "idle" /\ call.op = op /\ call.effect = IF op \in Submitting THEN "data" ELSE "append"
      /\ call.copy = "none" /\ \A r \in Recipients : call.outcome[r] = "none"
  BY <1>1
<1>7. TypeOK
  BY <1>2, <1>3, <1>5 DEF TypeOK
<1>8. EarlyOK /\ ReadyOK /\ EffectOK /\ AwaitOK
  BY <1>3, <1>6
     DEF EarlyOK, ReadyOK, EffectOK, AwaitOK, EarlyPcs, ReadyPcs, Submits, Unsent, NoOutcome,
         DataAbsent, CopyAbsent
<1>9. OutcomeOK /\ CacheOK /\ LateOK
  BY <1>3, <1>6 DEF OutcomeOK, CacheOK, CacheHonest, LateOK
<1> QED
  BY <1>7, <1>8, <1>9 DEF SInv

(* Every reachable state satisfies the inductive invariant. *)
THEOREM SubmissionInv == Spec => []SInv
<1>1. Init => SInv
  BY InitEstablishesInv
<1>2. SInv /\ [Next]_vars => SInv'
  <2> SUFFICES ASSUME SInv, [Next]_vars PROVE SInv'
    OBVIOUS
  <2>1. CASE Workflow
    BY <2>1, EarlySteps, DeliverySteps, CheckSteps, CopySteps, EffectSteps, ReportSteps DEF Workflow
  <2>2. ASSUME NEW effect \in {"data", "append"}, Execute(effect) \/ Drop(effect)
        PROVE  SInv'
    BY <2>2, ExecuteStep, DropStep
  <2> QED
    BY <2>1, <2>2, OthersStep DEF Next
<1> QED
  BY <1>1, <1>2, PTL DEF Spec

-----------------------------------------------------------------------------
(* What follows. *)

(* Every reachable state has its type (emails/classic.py, send and append). *)
THEOREM TypeCorrect == Spec => []TypeOK
<1>1. SInv => TypeOK
  BY DEF SInv
<1> QED
  BY <1>1, SubmissionInv, PTL

(* For any recipients: whoever is reported as failed has not got the message *)
(* and will not, and a copy reported as failed or skipped will never appear. *)
THEOREM FailedMeansUnsent == Spec => []FailedUnsent
<1>1. SInv => FailedUnsent
  BY DEF SInv, OutcomeOK, FailedUnsent, DataAbsent, CopyAbsent
<1> QED
  BY <1>1, SubmissionInv, PTL

(* For any recipients: success is reported only of what a server has taken. *)
THEOREM SucceededMeansSent == Spec => []SucceededSent
<1>1. SInv => SucceededSent
  BY DEF SInv, OutcomeOK, SucceededSent, Delivered
<1> QED
  BY <1>1, SubmissionInv, PTL

(* A submission puts a copy into Sent only after a server took the message. *)
THEOREM CopiesFollowDelivery == Spec => []CopyOfDelivered
<1>1. SInv => CopyOfDelivered
  <2> SUFFICES ASSUME SInv, Submits, copies > 0 \/ "append" \in wire
               PROVE  delivered # {}
    BY DEF CopyOfDelivered
  <2>1. call.effect \in {"data", "append"}
    BY DEF SInv, TypeOK, Call
  <2> QED
    BY <2>1 DEF SInv, EffectOK, CopyAbsent, Delivered
<1> QED
  BY <1>1, SubmissionInv, PTL

(* All of them together: for any recipients the report of a call is a proof. *)
THEOREM OutcomesAreHonest == Spec => []OutcomesHonest
<1>1. FailedUnsent /\ SucceededSent /\ CopyOfDelivered => OutcomesHonest
  BY DEF OutcomesHonest
<1> QED
  BY <1>1, FailedMeansUnsent, SucceededMeansSent, CopiesFollowDelivery, PTL

(* A send, forward, save or draft that raises has done nothing and never will: *)
(* whatever the operator and the servers did meanwhile, it may be repeated. *)
THEOREM ErrorsAreSafeToRetry == Spec => []ErrorSafeToRetry
<1>1. SInv => ErrorSafeToRetry
  BY DEF SInv, EarlyOK, ErrorSafeToRetry, Unsent
<1> QED
  BY <1>1, SubmissionInv, PTL

(* However often the authority changes: since its last change at most one effect *)
(* has gone out that it does not permit, the one whose guard had passed. *)
THEOREM RevocationStopsEffects == Spec => []RevocationStops
<1>1. SInv => RevocationStops
  BY DEF SInv, LateOK, RevocationStops
<1> QED
  BY <1>1, SubmissionInv, PTL

(* A call that ends with the index out of date asks for reconciliation. *)
THEOREM CacheIsHonest == Spec => []CacheHonest
<1>1. SInv => CacheHonest
  BY DEF SInv, CacheOK
<1> QED
  BY <1>1, SubmissionInv, PTL
=============================================================================
