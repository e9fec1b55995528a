------------------------- MODULE MailboxProjection -------------------------
(***************************************************************************)
(* The metadata projection of one mailbox (mcp_email_server/metadata_index *)
(* .py) and the queries that use and refresh it (application/metadata.py,  *)
(* MetadataQueryService.execute), beside an IMAP server whose mailbox      *)
(* changes at any time.  A step is one IMAP command or one SQLite          *)
(* transaction: between two of them mail arrives, is expunged, the mailbox *)
(* is recreated, and other queries run.                                    *)
(*                                                                         *)
(* Abstractions.  A message is where it came from: the server, the         *)
(* UIDVALIDITY it was read under and its UID; its header never changes.    *)
(* LIST, login and the policy of the visible senders are left out, a page  *)
(* is the whole mailbox, and the headers and dates of one batch, fetched   *)
(* by two commands, are one step.                                          *)
(***************************************************************************)
EXTENDS Integers, FiniteSets

CONSTANTS
  Servers,       \* IMAP endpoints the account may have
  Queries,       \* calls of execute, in any process, each made once
  Mixes,         \* sets of events and failures that occur together
  WindowRows,    \* metadata_snapshot_row_limit()
  BatchRows,     \* metadata_refresh_batch_limit()
  MaxUid,        \* bound on the UIDs of one epoch
  MaxEpoch       \* bound on UIDVALIDITY

EventKinds == {"append", "expunge", "reset", "invalidate", "endpoint"}

Fields == {"uidvalidity", "uidnext"}    \* optional in the answer to STATUS

FaultKinds == {"provider",         \* an IMAP command fails or times out
               "omission",         \* a server omits optional fields
               "read", "write"}    \* a transaction on the projection fails

ASSUME ProjectionAssumption ==
  /\ Servers # {}
  /\ Mixes \subseteq SUBSET (EventKinds \cup FaultKinds)
  /\ WindowRows \in Nat \ {0}
  /\ BatchRows \in Nat \ {0}
  /\ MaxUid \in Nat
  /\ MaxEpoch \in Nat \ {0}

VARIABLES
  mix,          \* the events and the failures of this behaviour
  mailbox,      \* the mailbox on each server
  endpoint,     \* the server the account is configured for
  projection,   \* mailbox_projection, its rows and its index_coverage
  query         \* what each running call of execute remembers

vars == <<mix, mailbox, endpoint, projection, query>>

Unknown == 0    \* a STATUS field the server omits; no epoch, no counter

Uids == 1..MaxUid
Epochs == 1..MaxEpoch

Mailbox == [validity : Epochs, next : 1..MaxUid + 1, uids : SUBSET Uids, reports : SUBSET Fields]

Message == [server : Servers, validity : Epochs, uid : Uids]

State == [validity : 0..MaxEpoch, next : 0..MaxUid + 1, count : 0..MaxUid]

Projection == [validity : 0..MaxEpoch,         \* Unknown: no mailbox row
               rows     : SUBSET Message,
               coverage : {"none", "PARTIAL", "COMPLETE"},
               next     : 0..MaxUid + 1,
               count    : 0..MaxUid]

Query == [pc       : {"idle", "qualify", "lookup", "baseline", "status", "search", "fetch",
                      "write", "keywords", "done"},
          server   : Servers,
          epoch    : 0..MaxEpoch,       \* the UIDVALIDITY that qualified the call
          mode     : {"delta", "snapshot"},
          state    : State,             \* the last STATUS
          session  : 0..MaxEpoch,       \* the epoch of the selected mailbox
          listed   : SUBSET Uids,       \* the UIDs the SEARCH found
          todo     : SUBSET Uids,       \* the UIDs still to fetch
          old      : SUBSET Message,    \* rows of the projection it builds on
          emails   : SUBSET Message,    \* the rows of its observation
          complete : BOOLEAN,
          result   : {"none", "page", "fallback", "failed"},
          keywords : 0..MaxEpoch,       \* the epoch its keywords were read from
          point    : SUBSET Message]    \* history: the mailbox at the moment the
                                        \* answer describes

TypeOK ==
  /\ mix \in Mixes
  /\ mailbox \in [Servers -> Mailbox]
  /\ endpoint \in Servers
  /\ projection \in Projection
  /\ query \in [Queries -> Query]

----------------------------------------------------------------------------
UidsOf(M) == {m.uid : m \in M}

Newest(S, n) == {u \in S : Cardinality({w \in S : w > u}) < n}

High(M) == IF M = {} THEN 0 ELSE CHOOSE u \in UidsOf(M) : \A w \in UidsOf(M) : w <= u

Fetched(s, U) == {[server |-> s, validity |-> mailbox[s].validity, uid |-> u] : u \in U}

Messages(s) == Fetched(s, mailbox[s].uids)

(* STATUS (UIDVALIDITY UIDNEXT MESSAGES).  What a server omits it omits in  *)
(* its answer to SELECT too, so that asking SELECT for it adds nothing.     *)
StatusOf(s) ==
  [validity |-> IF "uidvalidity" \in mailbox[s].reports THEN mailbox[s].validity ELSE Unknown,
   next     |-> IF "uidnext" \in mailbox[s].reports THEN mailbox[s].next ELSE Unknown,
   count    |-> Cardinality(mailbox[s].uids)]

EpochObserved(st) == st.validity # Unknown /\ st.next # Unknown

NoState == [validity |-> Unknown, next |-> Unknown, count |-> 0]

NoProjection == [validity |-> Unknown, rows |-> {}, coverage |-> "none", next |-> 0, count |-> 0]

IdleQuery(s) ==
  [pc |-> "idle", server |-> s, epoch |-> Unknown, mode |-> "snapshot", state |-> NoState,
   session |-> Unknown, listed |-> {}, todo |-> {}, old |-> {}, emails |-> {},
   complete |-> FALSE, result |-> "none", keywords |-> Unknown, point |-> {}]

Coverage(s, n) ==
  [validity |-> mailbox[s].validity, rows |-> Fetched(s, Newest(mailbox[s].uids, n)),
   coverage |-> IF n = Cardinality(mailbox[s].uids) THEN "COMPLETE" ELSE "PARTIAL",
   next |-> mailbox[s].next, count |-> Cardinality(mailbox[s].uids)]

(* What an earlier call may have left behind: nothing, the whole mailbox,  *)
(* or its newest messages.                                                 *)
LeftBehind(s) ==
  {NoProjection} \cup
  {Coverage(s, n) : n \in {k \in 0..WindowRows : /\ EpochObserved(StatusOf(s))
                                               /\ k <= Cardinality(mailbox[s].uids)}}

Filled(k, R) == [validity |-> 1, next |-> k + 1, uids |-> 1..k, reports |-> R]

(* A server the account never uses is left empty. *)
InUse(s) == s = endpoint \/ "endpoint" \in mix

Init ==
  /\ mix \in Mixes
  /\ endpoint = CHOOSE s \in Servers : TRUE
  /\ mailbox \in [Servers -> {Filled(k, R) : k \in 0..MaxUid, R \in SUBSET Fields}]
  /\ \A s \in Servers :
       /\ InUse(s) \/ mailbox[s] = Filled(0, Fields)
       /\ "omission" \in mix \/ mailbox[s].reports = Fields
  /\ projection \in LeftBehind(endpoint)
  /\ query = [q \in Queries |-> IdleQuery(endpoint)]

----------------------------------------------------------------------------
(* The world beside the queries *)

Append(s) ==
  /\ "append" \in mix /\ InUse(s)
  /\ mailbox[s].next <= MaxUid
  /\ mailbox' = [mailbox EXCEPT ![s].uids = @ \cup {mailbox[s].next}, ![s].next = @ + 1]
  /\ UNCHANGED <<mix, endpoint, projection, query>>

Expunge(s, u) ==
  /\ "expunge" \in mix /\ InUse(s)
  /\ u \in mailbox[s].uids
  /\ mailbox' = [mailbox EXCEPT ![s].uids = @ \ {u}]
  /\ UNCHANGED <<mix, endpoint, projection, query>>

(* The mailbox is recreated: a new epoch, UIDs are given out again. *)
Reset(s, k) ==
  /\ "reset" \in mix /\ InUse(s)
  /\ mailbox[s].validity < MaxEpoch
  /\ mailbox' = [mailbox EXCEPT ![s].validity = @ + 1, ![s].next = k + 1, ![s].uids = 1..k]
  /\ UNCHANGED <<mix, endpoint, projection, query>>

(* invalidate_mailboxes or invalidate_account, after any mutation. *)
Invalidate ==
  /\ "invalidate" \in mix
  /\ projection' = [projection EXCEPT !.coverage = "none"]
  /\ UNCHANGED <<mix, mailbox, endpoint, query>>

(* update_account with a new incoming endpoint drops the projection. *)
ChangeEndpoint(s) ==
  /\ "endpoint" \in mix
  /\ s # endpoint
  /\ endpoint' = s
  /\ projection' = NoProjection
  /\ UNCHANGED <<mix, mailbox, query>>

----------------------------------------------------------------------------
(* execute: qualify, then answer from the projection or refresh it. *)

Start(q) ==
  /\ query[q].pc = "idle"
  /\ query' = [query EXCEPT ![q] = [IdleQuery(endpoint) EXCEPT !.pc = "qualify"]]
  /\ UNCHANGED <<mix, mailbox, endpoint, projection>>

Qualify(q) ==
  LET s == query[q].server IN
  /\ query[q].pc = "qualify"
  /\ query' = [query EXCEPT ![q].pc = "lookup", ![q].state = StatusOf(s),
                            ![q].epoch = StatusOf(s).validity, ![q].point = Messages(s)]
  /\ UNCHANGED <<mix, mailbox, endpoint, projection>>

(* read_complete: coverage of exactly this observation, with all its rows. *)
Covers(st) ==
  /\ EpochObserved(st)
  /\ projection.coverage = "COMPLETE"
  /\ projection.validity = st.validity
  /\ projection.next = st.next
  /\ projection.count = st.count
  /\ Cardinality(projection.rows) = st.count

Ended(q, how) ==
  [IdleQuery(query[q].server) EXCEPT !.pc = "done", !.result = how,
     !.emails = IF how = "page" THEN query[q].emails ELSE {},
     !.point = IF how = "page" THEN query[q].point ELSE {}]

(* Rows older than the call get their keywords read again, an empty page   *)
(* has none.  Before a refresh the provider is opened again.               *)
Lookup(q) ==
  /\ query[q].pc = "lookup"
  /\ query' = [query EXCEPT ![q] =
       IF Covers(query[q].state)
         THEN [@ EXCEPT !.pc = "keywords", !.emails = projection.rows,
                        !.state = NoState, !.epoch = Unknown]
         ELSE [@ EXCEPT !.pc = "baseline", !.server = endpoint, !.point = {}]]
  /\ UNCHANGED <<mix, mailbox, endpoint, projection>>

(* read_incremental_baseline, read_partial_emails: rows of this epoch that  *)
(* an incremental or a full refresh builds on.                             *)
Baseline(q) ==
  LET usable == /\ query[q].epoch # Unknown
                /\ projection.validity = query[q].epoch
                /\ projection.coverage # "none"
      extend == /\ usable
                /\ projection.coverage = "COMPLETE"
                /\ query[q].state.next # Unknown
                /\ projection.count < WindowRows
  IN
  /\ query[q].pc = "baseline"
  /\ query' = [query EXCEPT
       ![q].pc = "status",
       ![q].mode = IF extend THEN "delta" ELSE "snapshot",
       ![q].old = IF usable THEN projection.rows ELSE {}]
  /\ UNCHANGED <<mix, mailbox, endpoint, projection>>

(* The projection cannot be read: managed mode fails closed, legacy mode    *)
(* goes to the provider.                                                   *)
ProjectionFails(q) ==
  /\ "read" \in mix
  /\ query[q].pc \in {"lookup", "baseline"}
  /\ \E how \in {"failed", "fallback"} : query' = [query EXCEPT ![q] = Ended(q, how)]
  /\ UNCHANGED <<mix, mailbox, endpoint, projection>>

----------------------------------------------------------------------------
(* get_mailbox_uid_delta and get_mailbox_metadata_snapshot *)

Status(q) ==
  /\ query[q].pc = "status"
  /\ query' = [query EXCEPT ![q].pc = "search", ![q].state = StatusOf(query[q].server)]
  /\ UNCHANGED <<mix, mailbox, endpoint, projection>>

(* Mutant: the delta is tried again. *)
DeltaAgain(q) ==
  [query[q] EXCEPT !.pc = "status", !.listed = {}, !.todo = {}, !.emails = {},
                   !.session = Unknown]

(* The delta was no use: take a full snapshot instead. *)
Snapshot(q) ==
  [query[q] EXCEPT !.pc = "status", !.mode = "snapshot", !.listed = {}, !.todo = {},
                   !.emails = {}, !.session = Unknown]

(* SELECT, then SEARCH UID high+1:*, which names the last message when no  *)
(* message is that new.                                                    *)
SearchAbove(q) ==
  LET box   == mailbox[query[q].server]
      above == {u \in box.uids : u > High(query[q].old)}
      found == IF above = {} THEN Newest(box.uids, 1) ELSE above
  IN
  /\ query[q].pc = "search"
  /\ query[q].mode = "delta"
  /\ query' = [query EXCEPT ![q] =
       IF found = above /\ Cardinality(found) <= WindowRows - Cardinality(query[q].old)
         THEN [@ EXCEPT !.pc = "fetch", !.session = box.validity, !.listed = found,
                        !.todo = found]
         ELSE Snapshot(q)]
  /\ UNCHANGED <<mix, mailbox, endpoint, projection>>

(* Mutant: rows of any epoch are kept. *)
SearchAllAnyEpoch(q) ==
  LET k        == query[q]
      box      == mailbox[k.server]
      selected == Newest(box.uids, WindowRows)
      retained == {m \in k.old : m.uid \in selected}
  IN
  /\ k.pc = "search"
  /\ k.mode = "snapshot"
  /\ query' = [query EXCEPT
       ![q].pc = "fetch", ![q].session = box.validity, ![q].listed = box.uids,
       ![q].emails = retained, ![q].todo = selected \ UidsOf(retained),
       ![q].point = Messages(k.server)]
  /\ UNCHANGED <<mix, mailbox, endpoint, projection>>

(* SELECT, then SEARCH ALL, or the UID inventory when STATUS is not whole.  *)
(* Rows of the projection stand in for the newest messages they belong to. *)
SearchAll(q) ==
  LET k        == query[q]
      box      == mailbox[k.server]
      empty    == ~EpochObserved(k.state) /\ k.state.count = 0
      found    == IF empty THEN {} ELSE box.uids
      selected == Newest(found, WindowRows)
      retained == IF k.epoch # Unknown /\ k.epoch = k.state.validity
                    THEN {m \in k.old : m.uid \in selected} ELSE {}
  IN
  /\ k.pc = "search"
  /\ k.mode = "snapshot"
  /\ query' = [query EXCEPT
       ![q].pc = "fetch", ![q].session = box.validity, ![q].listed = found,
       ![q].emails = retained, ![q].todo = selected \ UidsOf(retained),
       ![q].point = Fetched(k.server, found)]
  /\ UNCHANGED <<mix, mailbox, endpoint, projection>>

(* One batch, newest first.  A message expunged since the SEARCH may still  *)
(* be served in this session.                                              *)
FetchBatch(q) ==
  LET k     == query[q]
      box   == mailbox[k.server]
      batch == IF k.mode = "delta" THEN k.todo ELSE Newest(k.todo, BatchRows)
  IN
  /\ k.pc = "fetch"
  /\ k.todo # {}
  /\ k.session = box.validity
  /\ \E gone \in SUBSET (batch \ box.uids) :
       query' = [query EXCEPT
         ![q].todo = @ \ batch,
         ![q].emails = @ \cup Fetched(k.server, (batch \cap box.uids) \cup gone)]
  /\ UNCHANGED <<mix, mailbox, endpoint, projection>>

(* The observation that goes into the projection and, if it is complete,   *)
(* answers the query.                                                      *)
Observed(q, st, M, whole) ==
  [query[q] EXCEPT !.pc = "write", !.state = st, !.emails = M, !.complete = whole,
                   !.session = Unknown, !.epoch = Unknown, !.listed = {}, !.todo = {}]

InEpoch(M, st) == \A m \in M : st.next = Unknown \/ m.uid < st.next

(* Mutant: the first and the last STATUS need not agree. *)
FinishSnapshotUnstable(q) ==
  LET k      == query[q]
      final  == StatusOf(k.server)
      emails == IF final.validity = k.state.validity THEN k.emails ELSE {}
  IN
  /\ k.pc = "fetch"
  /\ k.todo = {}
  /\ k.mode = "snapshot"
  /\ query' = [query EXCEPT ![q] =
       Observed(q, final, emails,
                /\ InEpoch(emails, final)
                /\ UidsOf(emails) = k.listed
                /\ final.count = Cardinality(k.listed))]
  /\ UNCHANGED <<mix, mailbox, endpoint, projection>>

(* The last STATUS of a snapshot decides whether it is complete. *)
FinishSnapshot(q) ==
  LET k      == query[q]
      final  == StatusOf(k.server)
      emails == IF final.validity = k.state.validity THEN k.emails ELSE {}
  IN
  /\ k.pc = "fetch"
  /\ k.todo = {}
  /\ k.mode = "snapshot"
  /\ query' = [query EXCEPT ![q] =
       Observed(q, final, emails,
                /\ final = k.state
                /\ InEpoch(emails, final)
                /\ Cardinality(k.listed) <= WindowRows
                /\ UidsOf(emails) = k.listed
                /\ final.count = Cardinality(k.listed))]
  /\ UNCHANGED <<mix, mailbox, endpoint, projection>>

(* Mutant: the message count is not compared. *)
FinishDeltaUncounted(q) ==
  LET k     == query[q]
      final == StatusOf(k.server)
  IN
  /\ k.pc = "fetch"
  /\ k.todo = {}
  /\ k.mode = "delta"
  /\ query' = [query EXCEPT ![q] =
       IF final = k.state /\ UidsOf(k.emails) = k.listed /\ final.validity = k.epoch
         THEN [Observed(q, final, k.old \cup k.emails, TRUE) EXCEPT
                 !.point = Messages(k.server)]
         ELSE Snapshot(q)]
  /\ UNCHANGED <<mix, mailbox, endpoint, projection>>

(* A delta extends the baseline if nothing else can have changed:          *)
(* _merge_append_only_snapshot.                                            *)
FinishDelta(q) ==
  LET k         == query[q]
      final     == StatusOf(k.server)
      resumable == /\ final = k.state
                   /\ UidsOf(k.emails) = k.listed
                   /\ InEpoch(k.emails, final)
      mergeable == /\ final.validity = k.epoch
                   /\ final.count = Cardinality(k.old) + Cardinality(k.emails)
                   /\ final.count <= WindowRows
  IN
  /\ k.pc = "fetch"
  /\ k.todo = {}
  /\ k.mode = "delta"
  /\ query' = [query EXCEPT ![q] =
       IF resumable /\ mergeable
         THEN [Observed(q, final, k.old \cup k.emails, TRUE) EXCEPT
                 !.point = Messages(k.server)]
         ELSE Snapshot(q)]
  /\ UNCHANGED <<mix, mailbox, endpoint, projection>>

(* An IMAP command fails, times out, or finds its session gone.            *)
ProviderFails(q) ==
  LET k == query[q] IN
  /\ \/ "provider" \in mix
     \/ k.pc = "fetch" /\ k.session # mailbox[k.server].validity
  /\ \/ /\ k.pc = "qualify"
        /\ query' = [query EXCEPT ![q] = Ended(q, "fallback")]
     \/ /\ k.pc = "keywords"
        /\ k.emails # {}
        /\ query' = [query EXCEPT ![q] = Ended(q, "failed")]
     \/ /\ k.pc \in {"status", "search", "fetch"}
        /\ k.mode = "delta"
        /\ query' = [query EXCEPT ![q] = Snapshot(q)]
     \/ /\ k.pc \in {"status", "search", "fetch"}
        /\ k.mode = "snapshot"
        /\ k.emails = {}
        /\ query' = [query EXCEPT ![q] = Ended(q, "fallback")]
     \/ /\ k.pc = "fetch"           \* the newest rows are kept
        /\ k.mode = "snapshot"
        /\ k.emails # {}
        /\ query' = [query EXCEPT ![q] = Observed(q, k.state, k.emails, FALSE)]
  /\ UNCHANGED <<mix, mailbox, endpoint, projection>>

----------------------------------------------------------------------------
(* write_snapshot: rows the observation lacks are evicted, partial or not.  *)
Written(k) ==
  [validity |-> k.state.validity, rows |-> k.emails,
   coverage |-> IF k.complete THEN "COMPLETE" ELSE "PARTIAL",
   next |-> k.state.next, count |-> k.state.count]

Reused(k) == k.mode = "delta" \/ k.old # {}

Write(q) ==
  LET k == query[q] IN
  /\ k.pc = "write"
  /\ \/ EpochObserved(k.state) /\ projection' = Written(k)
     \/ (~EpochObserved(k.state) \/ "write" \in mix) /\ UNCHANGED projection
  /\ query' = [query EXCEPT ![q] =
       CASE k.complete /\ Reused(k) -> [@ EXCEPT !.pc = "keywords", !.mode = "snapshot",
                                                !.old = {}, !.state = NoState]
         [] k.complete /\ ~Reused(k) -> Ended(q, "page")
         [] ~k.complete -> Ended(q, "fallback")]
  /\ UNCHANGED <<mix, mailbox, endpoint>>

(* _refresh_cached_tags: SELECT and FETCH FLAGS of the page in a session of *)
(* its own.                                                                *)
RefreshKeywords(q) ==
  LET k == query[q]
      box == mailbox[k.server]
  IN
  /\ k.pc = "keywords"
  /\ query' = [query EXCEPT ![q] =
       CASE k.emails = {} -> Ended(q, "page")
         [] k.emails # {} /\ UidsOf(k.emails) \subseteq box.uids ->
              [Ended(q, "page") EXCEPT !.keywords = box.validity]
         [] ~(UidsOf(k.emails) \subseteq box.uids) -> Ended(q, "failed")]
  /\ UNCHANGED <<mix, mailbox, endpoint, projection>>

----------------------------------------------------------------------------
World ==
  \/ \E s \in Servers : \/ Append(s)
                        \/ \E u \in Uids : Expunge(s, u)
                        \/ \E k \in 0..MaxUid : Reset(s, k)
                        \/ ChangeEndpoint(s)
  \/ Invalidate

Proceed(q) ==
  \/ Qualify(q)
  \/ Lookup(q)
  \/ Baseline(q)
  \/ ProjectionFails(q)
  \/ Status(q)
  \/ SearchAbove(q)
  \/ SearchAll(q)
  \/ FetchBatch(q)
  \/ FinishSnapshot(q)
  \/ FinishDelta(q)
  \/ ProviderFails(q)
  \/ Write(q)
  \/ RefreshKeywords(q)

Next ==
  \/ World
  \/ \E q \in Queries : Start(q) \/ Proceed(q)

Spec == Init /\ [][Next]_vars

(* Every provider call and every transaction of a query is bounded in time. *)
FairSpec == Spec /\ \A q \in Queries : WF_vars(Proceed(q))

----------------------------------------------------------------------------
(* Properties *)

(* COMPLETE coverage that the provider's current state qualifies names     *)
(* exactly the messages of the mailbox, whichever refresh wrote it last.   *)
CoverageIsTruth == Covers(StatusOf(endpoint)) => projection.rows = Messages(endpoint)

(* A page that claims to be the whole mailbox was the whole mailbox at one *)
(* moment of the call, although it was put together from the projection    *)
(* and from several commands.                                              *)
AnswerIsExact ==
  \A q \in Queries : query[q].result = "page" => query[q].emails = query[q].point

(* Rows kept under the mailbox's current epoch are messages of that epoch, *)
(* so a refresh may build on them.                                         *)
CurrentRowsAreCurrent ==
  projection.validity = mailbox[endpoint].validity =>
    \A m \in projection.rows : m.server = endpoint /\ m.validity = projection.validity

(* Every call of execute ends. *)
QueriesEnd == \A q \in Queries : query[q].pc = "qualify" ~> query[q].pc = "done"

(* A page is never answered from rows of another epoch than the mailbox    *)
(* its keywords were read from in the same call.                           *)
(* spec/06-mail-read-model-and-metadata-index.md: "UIDVALIDITY changes     *)
(* prevent prior-epoch rows from answering current queries."               *)
KeywordsOfPage ==
  \A q \in Queries : query[q].keywords # Unknown =>
    \A m \in query[q].emails : m.validity = query[q].keywords
=============================================================================
