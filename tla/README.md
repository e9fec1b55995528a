# Models and proofs for mcp-email-server

This directory holds TLA+ models of `mcp_email_server`, the TLC configurations
that check them on small instances, and proofs checked by TLAPS. The source is
the reference: every definition translates code, and `PROJECT.json` ("map")
names the lines each one stands for.

## The system

mcp-email-server is a Python process that gives an MCP client access to mail
accounts. Several such processes (one per MCP client), the command line and a
local web interface share one SQLite file, the *managed catalog*, and nothing
else coordinates them.

| Component | State | Operations | What is hard |
|---|---|---|---|
| Managed catalog and credentials (`managed.py`) | tables catalog, managed_account, endpoint, secret_binding; a secret store (the same file, or the platform's keyring) | add, update, enable, disable, remove an account; save, remove, clean up credentials; resolve an account | secret store calls are made between transactions; processes die between them; calls fail or lose their answer; other processes run in between |
| Management services (`application/management.py`) | the form a user has open | show, then a command with the reviewed revision; initialize and select a catalog; import the legacy accounts | the form is old when the command arrives; an import reads and writes three stores that others write |
| Local web interface (`web_ui/`) | launch link, sessions, attempts | exchange the link, review, update, log out | a request is authorised, then waits for its body; an update looks at the account twice |
| Configuration and mode selection (`config.py`, `bootstrap.py`) | TOML file, bootstrap sidecar, a file lock | store, migrate, reset, select | checks made before the lock is held; file and keyring change one after the other |
| Legacy credentials (`keyring_store.py`) | keyring entries named by account | put, read, delete | a keyring that fails half way |
| Metadata projection (`metadata_index.py`) | rows and coverage per mailbox | read_complete, baselines, write_snapshot, invalidate | writers in any order; coverage that is stale when it is used |
| Metadata queries (`application/metadata.py`, IMAP reads in `emails/classic.py`) | one running call | qualify, answer from the projection, extend it or take a full snapshot, fall back | mail comes and goes between any two IMAP commands; mailboxes are recreated; servers omit STATUS fields |
| Mutation workflows (`application/mutations.py`, `adapters/mutations.py`, effects in `emails/classic.py`) | one running call, per-target outcomes | flags, tags, delete, move, archive, append, drafts, send, forward | time-outs and cancellation after an effect may have started; authority that changes before the effect; a cache to invalidate |
| Body and attachment reads (`application/reads.py`, `adapters/reads.py`) | one running call, files on disk | read bodies and mark them as read, download, transfer | several looks at the account and the mailbox; worker threads that outlive the call |
| Protocol commands (`application/protocol.py`, `adapters/protocol.py`) | one connection | a few raw commands, one after the other | lost answers, authority that changes between two writes |
| Large results (`large_results.py`) | a private directory of artifacts | spill, check, close | a worker queued behind the close of the store |
| Stdio lifecycle (`stdio.py`), MCP tools (`app.py`) | frames, handlers, responses and notices | read, dispatch, respond, shut down | chunks and frames that do not line up; the end of the input while tools await something |
| CLI, installer, keywords, limits, web frontend | none that outlives a call, or operating system state | routing, formatting, validation | |

How they interact: a tool, a CLI command or a form calls an application
service; the service resolves the account's *authority* (row, endpoints,
bindings, policy, secrets) from the catalog immediately before each provider
access; queries use the projection as a cache of the provider; mutations
invalidate it; every change of an account raises its revision, which every
command that was prepared earlier is compared with.

What makes each modelled part correct:

- *credentials*: the value in use is never deleted; every stored value stays
  reachable until it is deleted; a report says what is so; an account and its
  revision move together;
- *resolution*: an answer is a state the catalog was in, although it is read in
  twelve SELECTs;
- *forms and the web page*: a stale form changes nothing, an update is applied
  as a whole;
- *legacy stores*: a sentinel in the file has its secret in the keyring, a
  selection replaces the one its operator saw, a cut-over selects only what was
  proved to hold every legacy credential;
- *projection*: coverage that qualifies is the truth, a page that claims to be
  exact is exact, and every query ends;
- *mutations and protocol commands*: "failed" proves that there was and will be
  no effect, "succeeded" that there was one, and everything else is "unknown"
  and asks for reconciliation; no message is lost or doubled; a call that ends
  with an error has sent nothing; authority that is withdrawn stops all but one
  command;
- *reads and files*: only what was returned is marked as read; the destination
  of a download is one whole attachment; no artifact outlives the server;
- *the server*: every frame is accepted or rejected in order, the output is
  whole messages, one for each request and each rejected frame, and the process
  ends.

## Modules

| Module | Models | Extends / composes |
|---|---|---|
| `CredentialLifecycle` | the catalog, its secret store and every operation on accounts and credentials | |
| `CredentialLifecycleProofs` | its inductive invariants and theorems: secrets, accounts and their revisions, reports | `CredentialLifecycle` |
| `AuthorityResolution` | `resolve_account` SELECT by SELECT beside all of `CredentialLifecycle` | `CredentialLifecycle` |
| `AtomicResolution` | the abstract service: an answer is one atomic read | instantiated by `AuthorityResolution` |
| `AuthorityProofs` | that the refinement holds | `AuthorityResolution`, `CredentialLifecycleProofs` |
| `ManagementForms` | review and later submission, with the commands of `CredentialLifecycle` | `CredentialLifecycle` |
| `WebConsole` | the local page: link, sessions, requests, the update of a whole form, beside the command line | `ManagementForms` |
| `WebConsoleProofs` | that forms and page are clients of the catalog, and their own theorems | `WebConsole`, `CredentialLifecycleProofs` |
| `LegacyStore` | the TOML file, the keyring, the sidecar, the lock, and what writes them | |
| `LegacyImport` | the import into the catalog and its cut-over, beside all of `LegacyStore` | `LegacyStore` |
| `LegacyProofs` | the inductive invariant and theorems of both | `LegacyImport` |
| `MailboxProjection` | one mailbox's projection, the queries on it, the mailbox on the server | |
| `ProjectionProofs` | its inductive invariant and theorems | `MailboxProjection` |
| `BatchMutation` | one call that flags, tags, deletes, moves or archives messages, the IMAP connection and server, other clients | |
| `BatchProofs` | its inductive invariant and theorems | `BatchMutation` |
| `Submission` | one call that sends, forwards, saves or drafts a message, the SMTP and IMAP servers | |
| `SubmissionProofs` | its inductive invariant and theorems | `Submission` |
| `LargeResults` | the spill store and its worker threads | |
| `ArtifactFiles` | a destination, temporary files and the threads that save attachments | |
| `MessageReads` | the calls that read bodies and attachments, the policy and the mailbox | `LargeResults`, `ArtifactFiles` |
| `ProtocolCommands` | one call of `email_command`, its connection and server | |
| `StdioServer` | frames, session, handlers, writer and shutdown | |
| `LocalServer` | the whole server process | `StdioServer`, `MessageReads`, `ProtocolCommands` |
| `ServerProofs` | the inductive invariants of its parts, and the theorems of the server | `LocalServer` |
| `MC...` | scripts, mixes and symmetry for TLC | the module named |

### CredentialLifecycle

One step is one SQLite transaction or one call of the secret store: the code
never makes a store call inside a transaction, so that is where other processes
run. `catalog`, `account` (with its endpoints) and `binding` are the tables,
`secrets` the locators the store holds a value for, `client[c]` what process
`c` remembers of its operation (`pc` names the next step). `catalog.store`
fixes the platform: with the catalog's own store (`"sqlite"`) `set_secret`
inserts value and binding in one transaction, with a keyring it stores and
verifies the value first.

| Action | Code |
|---|---|
| `SetSecret`, `StoreSecret`, `ActivateBinding`, `ActivationFails`, `ActivationRolledBack`, `DiscardSecret` | `set_secret`, `_store_verified_secret`, `_activate_secret_binding`, `_discard_secret` |
| `RemoveSecret`, `SoftRemoveAccount`, `CleanupCredentials` | the transaction each begins with |
| `DeleteSecret`, `StartMarking`, `MarkSuperseded`, `Finish` | deletion of the values, the marking transaction, the report |
| `EnableAccount`, `ResolveForEnable`, `CommitEnable` | `enable_account`: read, resolve the secrets, enable if unchanged |
| `AddAccount`, `UpdateAccount`, `DisableAccount`, `UpdatePolicy` | one transaction each |
| `Crash` | the process dies between two steps |

Faults: a store call fails *or its outcome is lost* (`"store"`), a transaction
fails without effect (`"busy"`), a process dies (`"crash"`), a COMMIT raises
after SQLite itself rolled back (`"commit_rollback"`).

### AuthorityResolution and AtomicResolution

`resolve_account` reads the authority three times, four SELECTs each, in no
transaction; the secrets are read between the second and the third pass.
`AtomicSpec` says that the module implements `AtomicResolution` under the
mapping `Held`: the answer is fixed in one step, when the third pass begins.

### ManagementForms and WebConsole

`show_account` is three SELECTs (`ReviewRow`, `ReviewEndpoints`,
`ReviewBindings`); `Submit` is any command of `CredentialLifecycle` with the
name and revision of the form. On the page the same commands go through a
request:

| Action of `WebConsole` | Code |
|---|---|
| `Exchange`, `LinkExpires`, `AttemptsAge`, `EndSession`, `CloseConsole` | the launch link, its attempts, and the sessions |
| `ReviewOnPage` | the steps of a review, each with a session |
| `Authorize`, `ParseBody` | a mutation finds its session, then reads its body |
| `ShowCurrent`, `ApplyUpdate` | an update's second look at the account, and its commit |
| `RunCommand`, `Refuse` | the other commands; a request that ends without one |

### LegacyStore and LegacyImport

One step is one replacement of a file or one keyring call. Every process may
freeze its mode when it starts (`Freeze`), as a server does. An operation reads
the file (`ReadFile`, `ResolveSentinels`), checks the mode, waits for the lock
(`Store`, `Migrate`, `Reset`, `Select`, `Initialize`, then `Acquire`) and works
under it (`LoadForMigration`, `Probe`, `Push`, `WriteFile`, `Purge`, `Unlink`,
`Clean`, `Choose`, `Release`). Faults: a keyring call fails, with or without
the old value; the replacement of the file fails; a process dies, and the lock
with it.

| Action of `LegacyImport` | Code |
|---|---|
| `Preview`, `PlanImport` | the snapshots of source and target, what is due for an account |
| `ResolveSecrets`, `SaveSecrets`, `CompareSecrets` | reading the legacy credentials of an account; adding or resuming it; comparing what the catalog holds |
| `BeginCutover`, `ProveSecrets`, `Cutover` | `guarded_import_cutover`: lock, proof, selection of managed mode |
| `Operate` | another process changes the catalog |

### MailboxProjection

One step is one IMAP command or one transaction on the projection. A message
is where it came from: server, UIDVALIDITY, UID. `query[q]` is one call of
`MetadataQueryService.execute`; `projection` is the mailbox row with its rows
and coverage. The projection starts in any state an earlier call may have left
(`LeftBehind`). A server reports UIDVALIDITY and UIDNEXT in STATUS or omits
them. Between any two steps mail arrives, is expunged, the mailbox is recreated
with UIDs given out again, a mutation invalidates the coverage, the account is
given another endpoint, and other queries run.

### BatchMutation

One step is one answer, one check of the authority, or one command. `call` is
the running workflow: `todo` and `current` say where its loop is, `pending`
what a delete has marked, `outcome` what it will report. `wire` holds, in
order, what was sent and not executed: a command stays there when the call
gives up on it, and takes effect later or is lost with the connection. The
authority may change between the guard and the command it lets through, as it
lives in the catalog that other processes write.

| Action | Code |
|---|---|
| `Resolve`, `Open`, `Discover`, `Guard` | the services in `application/mutations.py`, `_guard` in the adapter |
| `Connect`, `ConnectTimesOut`, `ConnectFails` | connection, SELECT, `_blocked_uids`, the UIDPLUS test; `_timeout_batch` |
| `Take`, `CheckAllows`, `CheckDenies`, `Send`, `ReplyOK`, `ReplyNO`, `NoAnswer`, `Cancelled` | the loops of the four `*_with_outcome` methods: STORE; STORE and one UID EXPUNGE; MOVE; COPY, STORE and UID EXPUNGE |
| `ReturnUnchanged`, `Invalidate`, `InvalidateFails` | `_invalidate` and the report |
| `Execute`, `Refuse`, `Disconnect`, `OtherClient` | the IMAP server (external) |

The four methods share one loop in the model since they differ only in their
commands (`FirstKind`, `Fallback`) and in what an exception does (`NoAnswer`).

### Submission

`call.effect` is the effect that comes next, DATA or APPEND; the steps that
check, send and wait are shared. After DATA was accepted `OpenCopy`,
`CopyUnavailable` and `GuardCopy` open authority anew for the Sent copy
(`_complete_send`, `save_sent_copy`); a draft or a saved message has the
APPEND alone, and there a denial or a failed setup raises. `Execute` and `Drop`
are the servers: DATA or APPEND may still take effect after the call gave up.

### LargeResults, ArtifactFiles and MessageReads

A thread is a state of its own (`job`, `saving`), so that it goes on when its
call is cancelled and may start when the store is closed already. The lock of
the spill store is `holder`; `CloseStep` removes what the store can vouch for
and then its directory. A download opens a temporary file, fills it, looks at
the destination again, replaces it and looks once more (`OpenTemporary` ...
`VerifyTarget`); other programs touch the `VerifyTarget`); other programs touch the destination (`TouchTarget`), an
artifact (`Meddle`) or the directory (`MeddleRoot`), in which case the store
writes to it no more and the close leaves it alone.

| Action of `MessageReads` | Code |
|---|---|
| `Resolve`, `Preflight`, `OpenProvider` | `execute` of the three services, the destination's first check, the second look at the account |
| `FetchBody`, `AbortRead`, `RefuseContent`, `PrepareInline`, `PrepareSpill`, `AwaitSpill` | the bodies, the limits, `_prepare_result` |
| `MarkRead`, `ReturnContent` | marking in batches, each with a look at the account of its own |
| `FetchAttachment`, `RecheckDownload`, `AwaitSave`, `RecheckTransfer` | attachments: fetched, the policy read once more, saved or encoded |
| `CancelRead` | cancellation at any await |
| `ChangePolicy`, `Expunge`, `Recreate` | the operator and other users of the mailbox |

### ProtocolCommands

`wire` is what was written and not taken up by the server, `reply` the answer
that has not been read. Each write has a guard before it (`BeforeWrite`), and
the authority may change between guard and write. `LoseAnswer` is all that ends
an await without an answer; what was written is still on the wire and is
executed or lost later.

| Action | Code |
|---|---|
| `RefuseCommands`, `Connect`, `GuardOpen`, `ResolveSecrets`, `Dial`, `InvalidateBefore` | parsing, `connect`, `open` with its two guards, login, the first invalidation |
| `NextCommand`, `PrepareCommand`, `BeforeWrite`, `Write`, `Receive`, `LoseAnswer` | the loop over the commands |
| `CloseSession`, `Settle` | the end of the session, the second invalidation |
| `Serve`, `Break` | the server and the connection (external) |

### StdioServer and LocalServer

Byte i of the input belongs to frame i of the script and 0 is a newline, so that
the frames a reader cuts can be compared with those that were sent. A script has
at most three frames (`Positions`): one that is cut, one before it and one after
it; their sizes are a matter of the run, and any in the proofs.

| Action of `StdioServer` | Code |
|---|---|
| `ReadChunk`, `ReadEof`, `Deliver` | `_BoundedFrameReader`, the reader task, the session that starts a handler, cancels one, or sends a notice for a rejected frame |
| `Respond`, `Unwind`, `EndSession`, `CloseRuntime` | handlers and the lifespan |
| `TakeMessage`, `WriteBytes`, `WriterFails` | the writer task |
| `CancelWhenDone`, `CancelTasks`, `Exit` | `run_bounded_stdio_async` |

`handler[i]` is the task the session runs for frame i. For a request it is the
handler; for a frame that was rejected it is the task that sends
`notifications/message` (tests/test_stdio_protocol.py:229-240), which has
nothing to do but wait for the writer (`"answering"`). Both are taken by the one
writer in any order, and both end unsent when the tasks are cancelled.

`LocalServer` conjoins the steps of its parts: `Communicate` is the transport,
`EndHandler` ends a handler whose tool is over, `DropMessage` a task whose message nobody takes, `ReadTool`,
`Thread` and `ProtocolTool` are the tools, `CloseStore` and `RuntimeClosed` the
lifespan's `finally`. The process exits when its threads are done. The steps
outside the server are in `OutsideStep`; a script names those that belong to it.

## Runs

| Run | Question | Bounds and why they are enough |
|---|---|---|
| `CredentialSafety` | is anything lost, deleted in use, misreported, or changed without a revision? | 2 processes, 1 account, 3 credentials (one in use, one per process), both stores, revision 5: two complete saves beside a removal; `CleanupLimit` 1, so that more rows wait than one cleanup takes |
| `CredentialProgress` | does every operation end and clean up after itself? | as above with 2 credentials; weak fairness on `Continue` |
| `CredentialRollback` | *violation*: COMMIT that SQLite rolled back | as `CredentialSafety` |
| `AuthorityResolution` | is an answer an atomic read? | 1 resolution beside 1 writer with all its operations, 2 hosts and 2 policies to tell states apart |
| `WebConsole` | can a stale form change what its user reviewed? is an update applied as a whole? | one user on the page, one on the command line; 1 account and 2 names, so that it can be renamed under the form; 1 attempt on the link; revision 4: two commands after the review |
| `ProjectionFaults` | is a page that claims to be exact exact? does every query end? | 1 query, 3 UIDs, window 2, batch 1: the mailbox exceeds the window and a refresh takes two batches; 2 epochs, 2 servers; three mixes of events and failures (below); weak fairness on `Proceed` |
| `ProjectionWriters` | is qualifying coverage true, whoever wrote it? | 2 queries, 2 UIDs, 2 epochs, all mailbox events |
| `ProjectionKeywords` | *violation*: rows of a past epoch answer a query | 1 query, 2 epochs |
| `BatchMutation` | is what a batch reports so, whatever happens meanwhile? does it end? | 2 messages: one is under way or marked while the other waits; no MOVE and no UIDPLUS, either; 2 allowlists, 1 change of authority; weak fairness on `CallStep` |
| `Submission` | is a submission reported as it happened, and is an error harmless? | 2 recipients, so that one is accepted and one refused; 3 settings, of which 1 does not admit the source of a forward; 2 changes of authority |
| `LegacyImport` | does the installation lose a credential, or select what nobody proved? | 2 processes, 1 account with 2 roles and so 2 credentials, 2 secrets, 3 selections, 3 revisions of the catalog; nine mixes of operations and failures (below) |
| `LocalServer` | do the server's parts keep their promises together, and does the process end? | scripts of at most 3 frames of 1 to 5 bytes with a limit of 3 and chunks of 4: below, at and beyond the limit; 2 calls; 2 UIDs in batches of 1; 2 epochs, 2 changes of policy, 2 revisions; lists of at most 3 commands of each kind |

A *mix* (`mix`, chosen by the initial state) says which operations, events and
failures occur together in one behaviour; each mix has everything that
interacts, and the union of all at once would be far beyond a run. The mixes are
in `MCMailboxProjection` and `MCLegacyImport`, the scripts of `LocalServer` in
`MCLocalServer`.

Every property of a passing run has a mutant in `PROJECT.json`: a plausible bug
in one definition, defined beside it, under which the run fails. `TypeOK` is
checked by TLC for `CredentialLifecycle` and proved for `CredentialLifecycle`
and `Submission`; in the other modules it documents the types, and the
inductive invariants of those that have proofs begin with it.

Deadlock is not checked where the system may stop: bounded revisions are used
up, every query has been made, the process has ended.

### Fairness

`CredentialProgress` assumes that a process that has begun an operation takes
its next step (`Continue`); a store call and a transaction return. It assumes
no crash and no store failure, since the code itself leaves rows for a later
cleanup then. `ProjectionFaults` assumes that each provider call and each
transaction of a query ends: the code bounds each of them in time
(`_bounded_provider_call`). `BatchMutation` assumes that a call whose next step
can be taken takes it: each wait for the server ends with an answer, a time-out
of the IMAP library or `_bounded_provider_effect`. `LocalServer` assumes only
that, as long as the process can do something that waits for nothing outside
(`PromptStep`: the transport, the worker threads, the end of handlers, tools
that have been cancelled), it does something of the kind; what a tool awaits
from a server may take for ever, and the shutdown cancels it. None assumes
anything about other processes, mail or users.

### Findings

1. `CredentialRollback` (managed.py:1268). After a failed COMMIT the code asks
   `connection.in_transaction` and takes "no" for committed. SQLite also leaves
   the transaction when it had to roll back (I/O error, disk full). Then the
   old binding is still ACTIVE, and its value is deleted as "replaced".
2. `ProjectionKeywords` (classic.py:1997). The keyword refresh of a cached page
   selects the mailbox again and ignores its UIDVALIDITY: after the mailbox is
   recreated the page shows rows of the past epoch with other messages'
   keywords.

Observations without a run, most of them behaviour that nothing in the
repository speaks against:

- A command names its account by name and revision only (managed.py:1656), and
  so do the two saves that follow a creation (application/management.py:904): a
  stale form can reach another account that took the name and has an equal
  revision.
- `update_account` drops the projection when the incoming endpoint changes, but
  a refresh in flight writes the old server's rows afterwards
  (metadata_index.py:530); a mailbox of the new server with equal UIDVALIDITY,
  UIDNEXT and count is answered with them. `ProjectionWriters`, where
  `CoverageIsTruth` holds, has one server for this reason.
- A refresh whose later batch fails stores rows under the UIDVALIDITY of a
  STATUS that preceded the SELECT (classic.py:2384); `CurrentRowsAreCurrent`
  shows that no later query is misled.
- `reset` checks the mode before it waits for the lock and not after
  (config.py:1138); managed mode may be selected meanwhile, and the legacy file
  goes, although docs/configuration.md:917 has the command rejected then.
- An import that resumes an account because one role lacks its credential does
  not compare the other role's credential (application/management.py:1387-1419),
  although docs/troubleshooting.md:758 reads as if every one were verified.
- The last response may be cut when the input ends, although its tool has
  finished; marking as read after the mailbox was recreated reaches other
  messages with the same UIDs; a mutation of the page that was authorised before
  the logout is still carried out; an applied update is answered with an error
  when the account is renamed or removed before the page shows it.

## Proofs

Nothing is proved by looking at instances: each theorem holds for every value
of the constants that its module's assumption admits. These assumptions
(`LifecycleAssumption`, `ReadersAssumption`, `ConsoleAssumption`,
`ProjectionAssumption`, `LegacyAssumption`, `ImportAssumption`,
`MutationAssumption`, `SubmissionAssumption`, `ReadAssumption`,
`ProtocolAssumption`, `StdioAssumption`, `ServerAssumption`: finite sets of
accounts and credentials, positive bounds, values outside each other's sets)
are evaluated by TLC in the runs.

### The catalog

For any number of processes, accounts and credentials, either store and any
faults but `"commit_rollback"` (finding 1 shows that this is needed):

| Theorem | States | Module |
|---|---|---|
| `TypeCorrect` | `Spec => []TypeOK` | `CredentialLifecycleProofs` |
| `SecretsInUseStay` | `Spec => []ActiveSecretPresent` | |
| `SupersededIsGone` | `Spec => []SupersededSecretGone` | |
| `OneActiveCredential` | `Spec => []OneActivePerRole` | |
| `NothingComesLate` | `Spec => []NoLateCredential` | |
| `EnabledWithWhatWasResolved` | `Spec => EnabledSoundly` | |
| `NoValueIsLost` | `Spec => NoOrphanSecret` | |
| `ReportsAreTrue` | `Spec => []ReportsHonest` | |
| `ResolutionIsAtomic` | `ReaderSpec => AtomicSpec` | `AuthorityProofs` |
| `ConsoleKeepsTheCatalog` | `WebSpec => Spec` | `WebConsoleProofs` |
| `StaleFormsAreRejected` | `WebSpec => StaleFormRejected` | |
| `UpdatesAreWhole` | `WebSpec => UpdateIsWhole` | |

The inductive invariant `Inv` strengthens the first four by what each process is
about to do: a running save owns a binding that no row has yet, no two saves
the same one, in a keyring catalog its value is stored before the activation
(`SaveOK`, `StoredOK`, `SavesAreDistinct`); what a process still deletes is out
of use for good, and what it is about to mark is gone (`RetireOK`). None of the
properties is inductive without these: a delete step is harmless only because
its locator cannot be ACTIVE again. Three lemmas carry the steps: `ClientStep`
(only the process's memory changes), `RetireStep` (bindings leave use),
`DeleteStep` (values leave the store).

`AccountInv` adds that no step changes the endpoints or the credentials in use
of an account without raising its revision, and that an account which does not
exist has none: what a save or an enabling read at a revision is what the
account is as long as it has that revision. `OrphanInv` says that
in the catalog's own store a value comes with its row; `ValueStored` and
`ValueHeld` say that in a keyring a value belongs to the save that stored it
until that save activates it, discards it or dies, and `NoOrphanSecret` that
only its death and a failed delete of the discard leave the value behind.
For the reports, a binding that an operation retires moves on to SUPERSEDED and
never back (`BindingsOnward`), what an operation counts at its end is no less
than what still waits (`WorkOK`), and the binding of a save is nobody else's
even after its report (`ReportsAreDistinct`).

`AuthorityProofs` uses the same fact about revisions: the third pass reads the
catalog row at the *point*, and if the account's revision when it is compared
equals the one of the first pass, then everything the first and the third pass
read is what the account was at the point. Each step of a resolution maps to
`Begin`, `Take`, `Deliver` or `Fail` of `AtomicResolution` or leaves the
abstract call unchanged; each step of the other processes maps to `Change`.

`WebConsoleProofs` first shows that forms and page do nothing to the catalog
that `CredentialLifecycle` does not already have (`ConsoleKeepsTheCatalog`), so
that the theorems above hold with any number of users at their forms, and
`Inv` and `AccountInv` may be used for `WebSpec`. `WebInv` adds what a form is worth: a
form whose revision is the account's shows the account, as far as it has been
read (`FormOK`); once the revision has moved past it, it never comes back. For a
review in three SELECTs that is enough, since each later SELECT either sees the
account at the revision of the first or the form is worthless already. No
two accounts, removed ones included, have the same name at a time (`NamesOK`);
after a renaming another account may take the old one, and a form that then
reaches that account is among the observations above: the theorem is about
the account that was reviewed. `RequestOK` says the same of the second look an
update takes: whether the account had an outgoing endpoint, which decides what
an empty field of the form means, is known as of the revision that the commit
compares.

### The projection

For any servers, any number of queries, any window, batch and highest UID, any
events and any failures:

| Theorem of `ProjectionProofs` | States |
|---|---|
| `CoverageIsTrue` | `Spec => []("endpoint" \notin mix => CoverageIsTruth)` |
| `RowsAreCurrent` | `Spec => []("endpoint" \notin mix => CurrentRowsAreCurrent)` |
| `AnswersAreExact` | `Spec => []("endpoint" \notin mix => AnswerIsExact)` |

The hypothesis is about the behaviour: the account is not given another server
meanwhile. It is needed, as the observation on metadata_index.py:530 says: with
two queries and a change of the server TLC finds `AnswerIsExact` violated. With
one query the run `ProjectionFaults` checks it with such changes too.

The argument is that every *claim* on the whole mailbox was true at one moment.
A claim is what COMPLETE coverage says, or a query that is about to answer or
to write: an epoch, a UIDNEXT, a count and rows. `Sound` says of each that its
epoch has been, that its rows are of that epoch and below its UIDNEXT, that
they are as many as it counts, and that, if the epoch is the present one, every
present UID below its UIDNEXT is among its rows. Within an epoch UIDs are only
added at the top and removed, so a sound claim with the epoch, the UIDNEXT and
the number of messages of the mailbox as it is has exactly its messages: none
came, hence none can have gone. `Agree` says that two claims with equal numbers have
equal rows, which is why a query may put its own STATUS and the rows that
another query has written together. The rest of `Inv` says what a query knows
at each step (`QueryOK`, `WriteOK`) and that rows kept under an epoch are of
that epoch even where the coverage is not COMPLETE (`ProjectionOK`). The lemmas
on finite sets (`Highest`, `EquallyMany`, `NewestAll`) and on the messages of
one epoch (`OneEpoch`, `FromUids`) stand before it.

### The legacy stores and the import

For any number of processes, any accounts, secrets and modes, and any failures:

| Theorem of `LegacyProofs` | States |
|---|---|
| `SentinelsResolve` | `Spec => []SentinelResolves` |
| `SelectionMoves` | `Spec => SelectionReviewed` |
| `FenceHolds` | `Spec => StoresFenced` |
| `MigrationIsFaithful` | `Spec => MigrationKeepsSecrets` |
| `CutoverIsProved` | `Spec => CutoverProved` |
| `NobodyLeftBehind` | `Spec => NoAccountLeftBehind` |

The inductive invariant `Inv` says of each process what it may rely on where it
is. Whoever is at work on the stores holds the lock, so the others' steps leave
file, keyring and sidecar alone (`OthersKeep`). `StoringOK`: while secrets are
pushed, every one that has been pushed is in the keyring, the accounts of a
migration still mean what the file says, and before anything is deleted the
file refers to no secret any more. `ReviewOK`: a selection with the revision
that was read is the one that was read, and an initialization that is about to
select managed mode has seen a file without accounts. `ImportOK`: an account of
the catalog that still has the revision the import knows has the secrets the
import knows, those it has resolved; at the cut-over the legacy stores have them too,
compared under the lock. Without the last, `CutoverProved` would rest on reads
that precede the lock. The assumptions on the constants say only that the names
of the model are apart: no process is called "free" (the value of the lock that
nobody holds), no secret is the sentinel or stands for the absence of one.

### Submissions

For any recipients, any settings and any number of changes of the authority:

| Theorem of `SubmissionProofs` | States |
|---|---|
| `TypeCorrect` | `Spec => []TypeOK` |
| `FailedMeansUnsent` | `Spec => []FailedUnsent` |
| `SucceededMeansSent` | `Spec => []SucceededSent` |
| `CopiesFollowDelivery` | `Spec => []CopyOfDelivered` |
| `OutcomesAreHonest` | `Spec => []OutcomesHonest`, which is the last three together |
| `ErrorsAreSafeToRetry` | `Spec => []ErrorSafeToRetry` |
| `RevocationStopsEffects` | `Spec => []RevocationStops` |
| `CacheIsHonest` | `Spec => []CacheHonest` |

The inductive invariant `SInv` says what is known at each point of the call:
nothing is sent before the first guard has passed (`EarlyOK`); between the two
effects nothing is on the wire and no copy exists (`ReadyOK`); an APPEND of a
submission follows its DATA, an APPEND alone delivers nothing (`EffectOK`); an
answer that has arrived is true (`AwaitOK`). `OutcomeOK` ties what is reported
to what was done and to what is still on the wire: without the wire
`FailedUnsent` is not inductive, for the effect may come after the report.
`LateOK` adds that a guard which has passed since the last change of the
authority still permits its effect. The steps are grouped by what they may
disturb: moves before anything is sent (`EarlyMove`), ends without a delivery
(`EndsSkipped`) or with a copy (`EndsCopy`), the effects (`EffectSteps`), and
the servers (`ExecuteStep`, `DropStep`). The set of recipients may even be
infinite.

### Batches of messages

For any number of messages, any capabilities of the server, any allowlists and
any number of changes of the authority:

| Theorem of `BatchProofs` | States |
|---|---|
| `ReportsAreProofs` | `Spec => []OutcomesHonest` |
| `MovesAreWhole` | `Spec => []MovedOnce` |
| `RevocationHolds` | `Spec => []RevocationStops` |
| `CacheIsHonest` | `Spec => []CacheHonest` |

The inductive invariant `BInv` has twelve parts. Each message is still to come,
marked, under way, or concluded (`SplitOK`); what is on the wire is what the
call waits for or has concluded as unknown (`WireOK`), so that nothing can
befall a message reported otherwise. The first command of a message proves that
nothing has happened to it as long as it has not been executed (`CleanOK`): that
is why a rejection of it, and only of it, means "failed". `MarkOK` and `AnswerOK`
say what a command that succeeded has achieved, `MoveOK` that COPY goes out once
and is answered before STORE does, and that then the wire carries nothing else.
`CacheOK` holds because a call without unknown outcomes has no command left on
the wire that names a message. The steps that conclude messages share one lemma
(`ConcludeStep`), as do those that stop the loop (`StopStep`) and those that go
on to the next command of a message (`GotoStep`).

### The server process

For any scripts, lists of commands, calls, messages and bounds:

| Theorem of `ServerProofs` | States | From |
|---|---|---|
| `ReportsAreHonest` | `Spec => []ReportIsHonest` | `PInv` |
| `WritesStop` | `Spec => []OneLateWrite` | `PInv` |
| `IndexStaysVoid` | `Spec => []IndexIsVoided` | `PInv` |
| `MarkedWereRead` | `Spec => []MarksWhatItRead` | `ReadInv` |
| `NothingIsLeft` | `Spec => []NothingLeft` | `SpillInv` |
| `TargetStaysWhole` | `Spec => []TargetIsWhole` | `FileInv` |
| `FramesArriveInOrder` | `Spec => []FramesInOrder` | `TransportInv` |
| `MessagesAreWhole` | `Spec => []OutputIsMessages` | `TransportInv` |

Each invariant is one of a part and is proved for the steps of that part; a step
of the server is a step of the part or leaves it alone (`ProtocolPart`,
`ReadPart`, `SpillPart`, `FilePart`, `TransportPart`), which is what makes the composition sound.

- `PInv`: while a call runs the server has executed the
  commands before the current one, and the current one only while its answer
  is under way; what is on the wire is a part of the current command; once the
  call ends its report of the current command says how far the server has come,
  or "unknown" (`EndOK`). The revision never goes back, so what a guard has
  denied once it denies for good (`LateOK`), and a call that settles without a
  warning has voided the coverage after its last execution or reports "unknown"
  (`CacheOK`).
- `ReadInv`: what a call has got is of the epochs so far and of senders it may
  read; once the answer is fixed neither changes, and only then is anything
  marked.
- `SpillInv`: a thread that writes holds the lock, so the store is open; an
  artifact that the store cannot vouch for is being written, or it or the
  directory was touched by somebody else; a store that is closed and that nobody
  touched keeps neither.
- `FileInv`: a temporary file exists as long as its thread fills it, and the
  destination is replaced only by a whole one.

- `TransportInv`: the buffer and the rest of the input are always what is left
  of the script's bytes from the place where the next frame begins or, while a
  frame that is too long is being discarded, from a place within it (`Unread`);
  what has been handed over is what is expected of the first frames
  (`ReaderInv`). So the next newline in the buffer is the end of the next frame
  and of no other (`NextNewline`), and what is left at the end of the input is
  the last frame (`LastFrame`), for frames of any sizes and reads of any sizes.
  There is a task for every request that was handed over and every frame that
  was rejected, and for no other (`HandlersOK`). The output is a sequence of
  messages (`Wrote`) of different tasks, each of them at an end; a frame is
  handed over once, at its place, so none is answered twice. While the server
  serves, a task ends only by giving its message to the writer, so none is lost.

### What is not proved

Every invariant and every action property of the passing runs is stated by a
theorem. Only model-checked are the liveness properties, `RetiredGetsCleaned`,
`QueriesEnd`, `CallEnds` and `ServerEnds`: the prover has no rules for fairness
and ENABLED. The two findings are counterexamples of TLC. Of the projection,
what happens while an account is given another server is checked for one query
and not proved, as it does not hold for two. A script of the transport has at
most three frames in the proofs as well: the bytes of any number of frames are
defined by recursion, and what a recursive definition computes needs an
induction that the installed provers cannot do.

## Plan

1. *(done)* the catalog and its proofs, resolution, forms, projection.
2. *(done)* mutation workflows: `BatchMutation`, `Submission` and its proofs.
3. *(done)* the legacy stores and the import as one cut-over protocol.
4. *(done)* the server process: stdio, reads, files, large results, protocol
   commands; the web page.
5. *(done)* proofs of all safety properties: the catalog, its resolution and its
   forms, the projection, the legacy stores and the import, submissions, batches,
   and the server process.
6. Abstract specifications of the mutation workflows and of the projection (a
   query is one read of the mailbox), with proofs that the models implement them.
7. Schema migration and the identity binding of a projection.

## Not modelled

- Creating a mailbox: one idempotent command. Creating an account beyond its
  first transaction: two saves, each of which `CredentialLifecycle` has.
  Connection tests: they change nothing.
- Schema creation and migration of the catalog and of the projection, `doctor`:
  each is one transaction under SQLite's own lock.
- A server that omits UIDVALIDITY or UIDNEXT from STATUS and gives it in its
  answer to SELECT (classic.py:2223-2237): an observation of `MailboxProjection`
  is one command, and what a server omits there it omits in both.
- MIME composition and parsing, header search, sorting and paging, attachment
  decoding: data.
- Settings other than credentials in the legacy file, environment accounts,
  conflicts of an import with accounts of another configuration.
- Headers, origins and tokens of one HTTP request; the web frontend; the MCP
  registration and formatting; limits and keyword mappings: no state.
- Windows access control lists, the installer: operating system.

`PROJECT.json` ("components") lists every part with its status and reason.

