# Verification of the Rosmolodezh support bot

TLA+ models of the support bot's own machinery: what it stores, in which order, and what
survives a crash, a lost answer or a second process. The bot answers citizens' questions
that arrive as messages of HelpDeskEddy (HDE) tickets, from a knowledge base that is
synchronised from Yonote and edited by administrators, and its releases are evaluated with
paid calls on sealed data. What an answer *says* is the work of language models and text
heuristics and is not modelled; *that* a message is answered once, in order, with the text
that was verified and recorded, from the knowledge base as it was, is.

## 1. Inventory of the system

| Part | State it keeps | Operations | Talks to |
|---|---|---|---|
| HDE webhook (`main.py`, `hde_webhook`) | none | accept an event, 200 / 422 / 503 | transport queues |
| Transport queues (`channels/hde_transport.py`, migration 008) | `hde_inbox`, `hde_outbox`, `hde_transport_audit` in PostgreSQL | enqueue, claim, complete, fail, quarantine, mark delivered, recover stale, requeue, reconcile | one SQL statement each |
| Transport worker (`channels/hde_worker.py`) | two loops and a recovery timer per ML process, the local variables of the job in hand | `process_inbox_once`, `process_outbox_once`, `recover_stale_once` | queues, `process_message`, HDE adapter, trace log |
| HDE adapter (`channels/hde.py`) | sliding window of posts, a block deadline | `send`, `try_acquire`, `block_for` | HelpDeskEddy |
| Message processing (`main.py`, `process_message`) | none of its own | rate limit, screen, session, cache, graph, log | all stores below |
| Session store (`session/manager.py`, `session/memory.py`) | session JSON and an expiring lock in Redis; turns and memory in PostgreSQL | `serialized`, `get_or_create`, `update`, `append_turn` | Redis, PostgreSQL |
| Rate limiter (`security/rate_limiter.py`) | one expiring counter per user | `check` | Redis |
| Response cache (`rag/cache.py`) | points in Qdrant, bound to the hash of the seed file | `check`, `save`, `invalidate_forum` | Qdrant, seed file |
| Knowledge base (`admin/kb_store.py`, `kb_index.py`, `kb_status.py`, `scripts/index_kb.py`) | seed file, Qdrant collection | update a chunk, reindex, index all, compare | file system, Qdrant |
| Yonote synchronisation (`admin/yonote_sync.py`) | receipt files `.json`, `.applying`, `.applied` beside the seed | `preview_sync`, `apply_sync` | seed file, Yonote API |
| Yonote pull (`scripts/sync_yonote_kb.py`) | none, one deadline | `_get_paginated`, `load_yonote_documents` | Yonote API |
| Admin API (`main.py`) | two process-wide locks, admin sessions | mutations under a cancellation shield | the three parts above |
| Admin page (`admin/ui.py`) | the editor and its pending requests, in the browser | open, type, save, reindex | admin API |
| Evaluation bypass (`security/eval_cache_bypass.py`) | used nonces in Redis | `validate_signed_proof`, `authorize_once` | Redis |
| Answer graph (`graph/`) | a state dictionary per request | guard, analyse, retrieve, rerank, generate, verify, escalate, respond | language models, Qdrant |
| Request trace (`logging/db_logger.py`) | one row per request in `request_traces` | `log_request`, `update_delivery_outcome` | PostgreSQL |
| Retention (`scripts/purge_old_memory.py`) | none | delete old memory, traces and terminal queue rows | PostgreSQL |
| Cost ledger (`eval/cost_governance.py`) | a directory of records, a lock file | `reserve_eval_cost` | file system |
| One-shot evaluations (`eval/run_ask.py`) | receipts, reports, markers, rejection evidence | `run_eval` in its private and paid modes | ledger, the bot, trace database |
| Private dataset registry (`security/private_dataset_registry.py`) | `datasets.json`, the artifacts it is bound to | register, review, complete, freeze, supersede | file system |
| Candidate launcher (`scripts/run_pilot50_candidate_server_local.sh`) | a container, a run directory per commit, secrets | preflight, run, cleanup | Docker, production, its index |
| Operator CLI (`scripts/hde_transport_admin.py`) | none | audited requeue and reconciliation | queues |

The path of a message: the webhook commits an inbox row and answers 200; an inbox loop
leases the row, runs `process_message`, which writes the session and then the request trace;
the loop reads the trace back and, in one statement, marks the inbox row processed and
inserts the outbox row; an outbox loop leases that, posts the answer to HDE and, in one
statement, marks the row delivered, purges its masked payload and stamps the trace.

What is hard about it: ids are drawn before rows commit, so commit order is not id order;
a lease is never renewed, so a slow loop may find its row recovered, requeued or taken by
another process; a statement may commit and lose its acknowledgement; a process may stop
between any two awaits; HDE has no idempotency key, so an unanswered POST may have been
accepted; the delivery telemetry of a failed send is a second statement without a fence;
and a dead letter blocks every younger message of its ticket until an operator acts.

Per part, what makes it correct:

* queues and worker: a turn is not run twice, an answer is not posted twice without an
  operator, order within a ticket, exactly the persisted answer is sent, payload purge and
  evidence follow the delivery, nothing waits forever unseen;
* session store: a turn is not repeated or invented, none is lost before the summary is full,
  the restored session is the saved one;
* rate limiter: twice the limit in a window's time at most, and a refusal that ends;
* outgoing limiter: the configured posts in any minute, and none while HDE asks for silence;
* answer graph: what is sent was verified, by a bounded number of model calls;
* cache and knowledge base: an answer of an old revision is not served for a new one, and who
  says that the index is the published seed is right;
* pull: no document that stays is missed, and it ends;
* naming of chunks: every section has an ID, which follows its text and stays in its document;
* receipts: a preview is applied at most once, to the base it was made from, and an
  interrupted application can always be resolved;
* admin locks: no two mutations overlap, whatever requests are cancelled;
* admin page: what is saved under a name was made from the text of that name;
* evaluation bypass: a proof is accepted once;
* retention: nothing unfinished is deleted, no deletion makes the bot answer again;
* cost ledger and evaluations: money is reserved before it is spent, and a selection is asked
  once, however runs crash or overlap;
* registry: what is frozen was validated and does not change;
* launcher: one run asks a commit's cases, and nobody removes or publishes another's work.

`PROJECT.json` lists the hazards at their lines, each with the properties that cover it.

## 2. The modules

| Module | What it is |
|---|---|
| `TicketFlow` | abstract specification: what the transport promises of an event |
| `HDETransport` | the webhook, both queues, the worker, the trace and the operator |
| `MCHDETransport` | instances for TLC |
| `HDETransportProofs` | theorems about `HDETransport`, checked by TLAPS |
| `SeedRegister` | abstract specification: what the panel promises of the seed |
| `YonoteReceipts` | previews, applications and edits of the knowledge base seed |
| `MCYonoteReceipts` | instances for TLC |
| `YonoteReceiptsProofs` | theorems about `YonoteReceipts`, checked by TLAPS |
| `Dialog` | the turns of a user under the session lock, Redis and PostgreSQL |
| `RequestLimit` | the limit on a user's messages |
| `AnswerGraph` | one request through the graph, and what its caller does with the result |
| `HDELimiter` | the limit on posts to HDE |
| `Retention` | the purge of old rows beside the running queues and dialogs |
| `KBCache` | seed, index, keyword snapshots and cached answers, with all who change them |
| `YonotePull` | the reading of the provider's documents |
| `ChunkIdentity` | the naming of chunks over a history of synchronisations |
| `AdminPage` | the chunk editor and the handlers behind it |
| `ReservationBook` | abstract specification: what evaluations are promised of their money |
| `CostLedger` | reservations of money |
| `EvalRun` | evaluations that may be asked once |
| `DatasetRegistry` | versions of private datasets |
| `CandidateRunner` | the launcher of candidates |
| `BypassProof` | the signed proof that bypasses the cache |
| `DialogProofs`, `AnswerGraphProofs`, `KBCacheProofs`, `KnowledgeProofs`, `EvalRunProofs`, `BypassProofProofs` | theorems about these modules and about the suites, checked by TLAPS |
| `MCConversation`, `MCKnowledge`, `MCEvaluation`, `MCEndings` | instances of these modules for TLC |

How they meet. `HDETransport` is the path of a message; its `RunTurn` is one call of
`process_message`, whose inside is `RequestLimit`, then `Dialog` (lock, session, turn), then
`AnswerGraph`; its `SendPost` is a post that `HDELimiter` admits. `KBCache` is what the graph
reads and what its caller caches. `YonotePull` gives a snapshot, `ChunkIdentity` names its
chunks, `YonoteReceipts` writes them to the seed, which `KBCache` starts from; `AdminPage` is
the browser's half of the edit that `YonoteReceipts` and `KBCache` have as a step.
`DatasetRegistry` freezes what `EvalRun` asks, `CostLedger` pays for it, `CandidateRunner` starts
one in a container, and `BypassProof` lets its requests past the cache. Where two modules meet,
one has the other's work as a step with every outcome; they share no variable.

**The MC suites.** A suite is a disjoint sum: `part`, chosen in the initial state and never
changed, says which instance of which module moves, and the variables of the others stay at
their initial values. So a suite has as many states as its parts together, not their
product, and each property is stated for the parts in which it could fail. `MCConversation`
extends `AnswerGraph`, `MCEvaluation` extends `BypassProof` and `MCEndings` extends
`YonoteReceipts` (through `MCYonoteReceipts`), and they check these modules' properties under their
own names. The other modules are instances in them, as all are in `MCKnowledge`, and a property
such as `LockHolds` or `AskedOnce` is the property of the same name of each instance. `PartsTyped` is
the `TypeOK` of the part that moves. `MCConversation`, `MCKnowledge` and `MCEvaluation` take their
instances from the modules with the proofs, and every property that one of these three defines is
also a theorem about the suite. The first and the third leave all their bounds and sets to their
configurations, so that theirs are theorems for any values; `MCKnowledge` fixes its bounds and
leaves the chunks, texts, documents and so on to its configuration.

### HDETransport

**State.** `inbox[e]` and `outbox[e]` are the columns of an event's rows that the code
decides by: status, `attempt_count`, `locked_by`, for the outbox also its id and the text of
its envelope. `nextId`, `openTx`, `rowId` are the inbox sequence, the ids drawn by
transactions not yet committed, and the ids of committed rows. `trace[e]` and `telemetry[e]`
are `response_text` and `delivery_status` of the event's `request_traces` row; `purged` the
events whose masked payload is gone; `audit[e]` what `hde_transport_audit` records.
`inTask[w]` and `outTask[w]` are the two loops of process `w`: a program counter and the local
variables (`job`, the attempt number read at the claim, the operator generation, the answer
carried). `ahead`, `turns` and `sent` are history variables: no guard reads them.

**Actions.** One SQL statement is one action, named after the repository's function; each
await of the worker is a boundary between actions. A statement of a worker has up to
three outcomes: it commits and returns; it commits and its answer is lost (the loop goes to
its exception handler or, for a claim, stays idle with the row leased); or it does not commit.

| Code | Action |
|---|---|
| `ENQUEUE_INBOX_SQL`, `hde_webhook` | `EnqueueBegin`, `EnqueueCommit`, `EnqueueAbort` |
| `process_inbox_once` | `ClaimInbox`, `LoadTrace`, `RunTurn`, `LogTrace`, `VerifyTrace`, `CompleteInbox`, and its handler `InboxHandler` with `FailInbox`, `QuarantineInbox` |
| `process_outbox_once`, `HDEAdapter.send` | `ClaimOutbox`, `SendNotAttempted`, `SendPost`, `PostRateLimited`, `PostAnswered`, `MarkDelivered`, `FailOutbox`, `QuarantineOutbox`, `RecordDelivery` |
| `recover_stale_once` | `RecoverStaleInbox`, `RecoverStaleOutbox` |
| `hde_transport_admin.py` | `RequeueInbox`, `RequeueOutbox`, `ReconcileDelivered` |
| cancellation at shutdown, a crash | `Crash` |

**What is abstracted.** Time: a lease may be found stale at any moment, and a retry may be
due at any moment, which covers every clock. Encryption, key derivation and masking: an
event is its event key, an answer its text. A response is a model value, `Empty` (falsy) or
`Blank` (truthy, empty after `strip`), because the code treats the three differently: an empty
trace raises a resume conflict, a blank one reaches `complete_inbox_with_outbox` and is
refused there. `renew_inbox` and `renew_outbox` exist in the repository and have no caller.
A process incarnation keeps its name `w` across a crash; the code draws a new `worker_id`,
and since a crashed loop is idle and holds no job, the fence `locked_by = w` can only be
passed by a claim made after it.

**Bounds.** `MaxId` bounds the ids drawn (so the redeliveries of a webhook),
`MaxInboxRequeues` and `MaxOutboxRequeues` the operator's requeues. The theorems hold for
every value of them. They are guards of `EnqueueBegin`, `RequeueInbox` and `RequeueOutbox`.

### TicketFlow

An accepted event stands behind some of the events of its ticket; it gets one answer, after
those, and its delivery is confirmed once, after theirs. `HDETransport` implements it with
`answer[e]` = the trace text once the inbox row is processed, `delivered` = the outbox rows
with that status, `behind` = the rows that were committed before `e` with a smaller id.

### SeedRegister

A register that is compared and set. A receipt is sealed for one content and one result; it takes
effect at most once, in one step, on that content, and not after it was superseded. An edit takes
effect in one step on the content that its editor has read. `YonoteReceipts` implements it with
`content` = the seed, `consumed` = the receipts that were written, `seen` = what an editor at `"save"`
has read; neither files, locks nor program counters appear in it.

### YonoteReceipts

**State.** `seed` is the content of the seed file, known by its hash, as it is in the code.
`file[r]` is the suffix of the receipt's file, which is its durable state, `receipt[r]` the
two hashes it is bound to. `syncLock` and `editLock` are `_YONOTE_SYNC_LOCK` and
`_ADMIN_MUTATION_LOCK` of each process. `task[q]` is the request in slot `q`: a program counter
and the local variables of `preview_sync`, `apply_sync` or `update_chunk`; `gone` the requests
whose client has left. `superseded` and `writes` are history variables: no guard reads them.

**Actions.** Each operation on a file is an action; between two of them any other request,
a cancellation or a crash may come, and a mutating operation may fail.

| Code | Action |
|---|---|
| `admin_preview_yonote_sync`, `preview_sync` | `BeginPreview`, `PreviewCheck`, `PreviewRead`, `PreviewFetch`, `PreviewRecheck`, `PreviewWrite`, `PreviewClean`, `PreviewInvalidate` |
| `admin_apply_yonote_sync`, `apply_sync` | `BeginApply`, `Load`, then `ResumeReceipt`, or `CheckActive`, `Claim`, `SyncClaim`, `RecheckSeed`, `WriteSeed`, `VerifySeed`, `RestoreReceipt`, `FinalizeReceipt`, `CleanApplied` |
| `admin_update_kb_chunk`, `update_chunk` | `BeginEdit`, `ReadSeed`, `SaveSeed` |
| `_await_cancellation_safe_mutation`, `_run_with_yonote_sync_lock` | `Cancel`: the request is gone, its thread and its locks are not |
| a process that stops | `Crash` |

A request that finds a lock taken is a 409 and changes nothing, so it is no action.

**What is abstracted.** The snapshot and its merge with the seed: an arbitrary seed, or a
STOP, or an error. Time: an active receipt may be found expired whenever it is loaded.
Corrupted, linked or oversized files are refused by the code before any change and left out;
so are partial previews, which end before they touch a receipt. A receipt may be named in a
request as soon as its file exists, which allows more than the code, where its identity is
known only from the answer of the preview. Reads of files are taken to succeed. Whether
`write_seed_records` raises before or after it replaces the file is left to `VerifySeed`, which
like the code looks only at the resulting hash.

**Bounds.** `MaxFaults` bounds failed file operations and crashes together, the set
`Receipts` the receipts ever sealed (`ReceiptLeft`, a guard of `BeginPreview`); `writes[r]` counts
to "twice or more". The theorems hold for every value of them.

### Dialog

**State.** `lock` is the token under `session-lock:<channel>:<user>`, `session` the JSON under
`session:<channel>:<user>`, `rows` and `memory` the user's `conversation_turns` and `user_memory`.
`turn[m]` is where `process_message` is for message `m`, with the session it has read.

**Actions.** Every await on a store. `Acquire`, `LockTimeout`, `LockExpire` and `Release` are the lock
of `serialized`; `CheckRate`, `GetSession`, `ReadMemory`, `ReadTurns`, `SaveRestored` are
`get_or_create` with its restoration; `Screen`, `AnswerAnalysed`, `AnswerUnanalysed` the ways through
the message; `AppendTurn`, `PersistTurn`, `UpsertMemory` the two halves of `append_turn`. `Raise`
is an error that ends the call, `Crash` a process that stops, `SessionExpire` the TTL. Errors of
PostgreSQL that the code swallows leave the turn in Redis only. Texts, topics and entities are the
identity of the message; a turn is its message.

The summary keeps its last 6000 characters (`_append_summary`). What that is in turns is the constant
`Summaries`, the sequences of turns whose text fits, any set in which a part of what fits does:
`Kept` is the longest end of old summary and evicted turns that is in it. A turn whose beginning is
cut off no longer counts as one of the summary, though the code keeps the rest of its text.

**Bounds.** `MaxFaults`. `Recent` stands for the 20 turns kept in Redis. In the first part, of three
messages, a session keeps one turn, so that two are evicted; one message is `Long`, its turn fills
a summary, and two others together do, so that an eviction is kept, is kept alone, or displaces
the one before. In the other two parts a session keeps both turns.

### RequestLimit

`key` is the counter and its TTL; `Incr`, `Expire` are the two commands of `check`, `Stop` a call that
ends between them, `Tick` the clock. Admissions carry their age, so that the clock needs no bound.
`MaxFaults` bounds the calls that stop.

### AnswerGraph

**State.** `bot` is the state LangGraph threads through the nodes, with the fields that some node or
edge decides by; `at` the node about to run; `sources` and `drafts` are inside `generate`. `calls` and
`accepted` are history variables; `cached` and `pending` what `process_message` does with the result.

**Actions.** One per node: `Analyze`, `Retrieve`, `Rerank`, `Recover`, `Generate` with `Draft`, `Guard`,
`Verify`, `Respond`, `Clarify`, `Escalate`; the edge functions are `RouteAfterAnalyze`, `RouteAfterRerank`,
`RouteAfterGenerate`, `RouteAfterVerify`. `Timeout` is the deadline, which may cut the graph between any two
awaits; `Finish` is `_save_cache` and `_update_dialog_session`. A text is who wrote it and whether it
carries a note of what is missing; which outcome a message leads to is a choice among those the
code of the node distinguishes. `CallCap` bounds the counter of calls one above the property's seven.
A call is one of the client's `generate`; what the client repeats inside it is not counted.

### HDELimiter

`timestamps` and `blockedUntil` are the fields of `HDEOutgoingRateLimiter`. `RefuseBlocked`, `RefuseFull`
and `Acquire` are the outcomes of `try_acquire`, `RespondQuiet`, `RespondLow`, `RespondRefused` the response of a
post and its `block_for`; other posts are on their way meanwhile. `posts` and `blocks` are history.

### Retention

The queues are those of `HDETransport` reduced to what retention tells apart, with their dates. A
run of the command is `DryRun`, or `Begin`, five deletions and `Commit` or `Rollback`, each a statement
that sees what is committed at its start. Beside it run `Webhook` (also a repeated one), `Answer`,
`Process`, `Deliver`, `DeadLetter`, `Requeue` and the user's `Turn`.

### KBCache

**State.** `seed`, `index`, `keyword[p]` and `cache` are the seed file, the two collections and each
process's keyword snapshot. `ask[r]` is `process_message` at its cache and retrieval steps, `admin` the
handler that holds the mutation lock, `run` the run of `index_kb`, `status` the runtime status.

**Actions.** `BeginAsk`, `Check`, `Lookup`, `Confirm`, `Retrieve`, `StoreSnapshot`, `Answer`, `SaveCheck`,
`SaveUpsert` are an answer; `Edit`, `ApplySeed`, `ReindexChunk`, `UpsertChunk`, `InvalidateKeyword`,
`InvalidateForum` the admin; `BeginIndex`, `UpsertBatch`, `CollectStale`, `DeleteStale`, `CollectCached`,
`ClearCached`, `CompleteIndex`, `FailIndex` the script; `BeginStatus`, `ScanPage`, `Conclude` the status;
`Restart` and `Expire` the rest. The hash of the seed is injective, so the seed is its revision. An answer
comes from one chunk, of the scope it is asked in or another, and says its text.

### YonotePull

**State.** `listing[c]` is the provider's order of a collection, which `Create`, `Delete` and `Move` change
while it is read; `pull` and `request` are the loop of `load_yonote_documents` and the request under way.

**Actions.** `Ask`, `Wait`, `Part`, `Trouble` (a transient failure, a pause, a repetition), `Refusal` (any
other), `Wake`, `Tick`, and the answers `CollectionsAnswer`, `PageAnswer`, `InfoAnswer`. Time passes only
while the pull waits. A document that is listed twice is refused by `validate_seed_items` (`Sealed`); a
document that is gone fails `documents.info`.

The code looks at the deadline before and after a request, at the head of a response
(`_install_response_guard`, a response hook) and around every chunk of its body (the stream guard that the
hook puts in): `Ask`, `Part`, the answers and `Trouble`. Between two looks httpx may wait several times, to
connect, for TLS, to write, for each read of an incomplete head or chunk, and each `Wait` has the
request's timeout anew, which is what was left of the deadline when the request was made, at most.
(Name lookup, which httpx does not time, is taken to be within the first.)

**Bounds.** `MaxMoves`, and `MaxWaits`, the further waits between two looks. The code has no such limit: a
server that sends a head byte by byte is waited for as long as it goes on.

### ChunkIdentity

`seed` maps chunk IDs to document and text, `snapshot` is the provider as last applied. A preview and
the application of its receipt are one step, `Sync`, because the receipt is bound to its seed
(`YonoteReceipts`); `EditChunk` is an edit by hand. The operators are the functions of the
reconciliation: raw IDs from places, `Matched`, `Kept`, `Displaced`, `Vacated`, `Place`, `Reallocated`, `Assigned`, and
the gates `Refused` and `Stopped`.

### AdminPage

The page is one thread: what runs between two awaits is an action. `Click`, `Type`, `Submit` and `GiveUp`
are the user and the page's timeout, `ServeLoad`, `ServeMutation`, `FinishMutation` the handlers, `Loaded`,
`LoadFailed`, `Saved`, `Unlock` what the page does with an answer. Answers come in any order.

### ReservationBook

A book of reservations, with one entry per payer, made in one step, after complete ones only; with it
the whole book keeps to its limits (the cap of every window, full evaluations apart, references used
once). A payer pays from its own entry, when that is complete, until the cap is reached. `CostLedger`
implements it with `book` = the ledger, `account` = each runner's place in it, `paid` = what it has spent.

### CostLedger

A runner reads the clock (`Start`), takes the lock file (`Lock`), checks every record (`Scan`), creates
its record (`Create`), fills it (`Write`), removes the lock (`Unlock`) and asks cases until its cap is reached
(`Ask`); `Crash` may come anywhere under the lock, and only a person removes a lock that stays (`RemoveLock`). Time and
money are coarse units; a candidate is the tuple of runtime, manifest, scope and size that a waiver names.

### EvalRun

**State.** The files (`started` and `completed` receipts per key, reports per path, reservations, markers,
rejection evidence), each with its writer and whether it is whole; `release`, what the bot runs; `asked` and
`traced`, the cases posted and the rows the bot wrote.

**Actions.** `Begin`, `OpenPool`, `ReserveCost`, `ReserveMarker`, `Preflight`, `CreateStarted`, `Ask` per case,
`Postflight`, `ClosePool`, `Judge`, `WriteReport`, `WriteMarkdown`, `WriteCompleted` and `Reject`, in the order in
which the four modes take them; `Crash`, a failed write (a torn file) and `Deploy`.

### DatasetRegistry

A command loads the registry (`Load`), changes one entry (`Register`, `StartReview`, `ReadRecords` with
`CompleteReview` or `Freeze`, `Supersede`), validates the whole and replaces the file (`Save`); it may die
before (`Crash`), and people `Edit` the artifact between its two readings.

### CandidateRunner

`container` is who has the one container name, `receipt`, `started`, `completed`, `report` a commit's run
directory, `secrets` and `staging` what a launcher leaves in `/run` and beside the directory, `prod` and
`index` the identity of production. A launcher goes through `Begin`, `Check`, `SnapshotProd`, `SnapshotIndex`,
`Stage`, `Start`, `Ready`, and in preflight `Remove`, `Recheck`, `Publish`, in a run `Mark`, `Ask`, `Answered`,
`Recheck`, `Remove`, `Complete`, then `Exit` and `ExitTemp`, the EXIT trap. `Interrupt` runs the trap, `Kill` does
not. `Cleanup` is the third mode. Identities of production and index only grow: a restart or a reindex that
restores exactly what was there is not modelled.

### BypassProof

`Check` validates the proof against the clock in whole seconds, `Consume` is `SET NX EX`, `StoreFails` its
failure. Its assumption is the inequality that 190 seconds of TTL and 90 of skew satisfy with nine to spare.

## 3. The runs

| Run | Instance | Asks |
|---|---|---|
| `hde_inbox` | 1 event, 2 processes, 2 inbox attempts, 1 requeue, 1 redelivery, two answers and the empty and blank one | `TypeOK`, `TurnOncePerGeneration`, `HandOff` |
| `hde_outbox` | 1 event, 2 processes, 2 send attempts, 2 outbox requeues | `SendOncePerGeneration`, `DeliveryEvidence`, `NoStuckRow` |
| `hde_ticket` | 2 events of one ticket, 2 processes | `TicketOrder`, `ImplementsTicketFlow` |
| `hde_liveness` | 2 events of one ticket, 1 process, 2 inbox attempts, `FairSpec` | `EventuallySettled` |
| `receipts_one` | 1 process, 2 requests, 3 receipts, 2 seeds, 2 faults | `TypeOK`, `WriterSeesItsBase`, `AppliedOnce`, `ImplementsSeedRegister` |
| `conversation` | `Dialog` (three parts), `RequestLimit`, `HDELimiter`, `AnswerGraph`, `Retention` (two parts) | 8 properties, below |
| `knowledge` | `KBCache` (three parts), `ChunkIdentity`, `YonotePull` and `AdminPage` (two parts each) | 6 properties, below |
| `evaluation` | `CostLedger` and `EvalRun` (three parts each), `DatasetRegistry`, `CandidateRunner` (two parts), `BypassProof` | 7 properties, below |
| `endings` | `YonoteReceipts`, `Dialog`, `RequestLimit`, `AnswerGraph`, `YonotePull`, each with its fairness | `OneClaim`, `CommittedResolves`, `LockFreed`, `RefusalEnds`, `EveryRequestEnds`, `PullEnds` |
| `hde_ticket_overlap` | as `hde_ticket` | finds `OneEventPerTicket` violated |
| `hde_telemetry` | 1 event, 2 processes, 1 outbox requeue | finds `DeliveredTelemetry` violated |
| `receipts_interrupted` | 1 process, 1 request, 1 receipt, 1 fault, `FairSpec` | finds `InterruptedResolves` violated |

### The transport and the receipts

* `TurnOncePerGeneration`: a loop about to call `process_message` does so for an operator
  generation of its job in which no session turn has run. The code gets this by
  dead-lettering every row whose turn may have begun and left no trace.
* `HandOff`: outbox row iff the inbox row is processed, and it carries the persisted answer.
* `SendOncePerGeneration`: a loop about to POST does so for a generation in which no POST may
  have been accepted (a 429 withdraws its own).
* `DeliveryEvidence`: payload purge iff delivered; telemetry says delivered only of a
  delivered row.
* `NoStuckRow`: whatever waits to be claimed has attempts left.
* `TicketOrder`, `ImplementsTicketFlow`: order of answers and of posts, end to end.
* `EventuallySettled`: every acknowledged event is delivered, or its ticket waits behind a
  dead letter.
* `WriterSeesItsBase`: whoever replaces the seed replaces what it started from.
* `AppliedOnce`: a receipt is written once, however it is repeated, given back or resumed.
* `ImplementsSeedRegister`: the seed changes as `SeedRegister` says, by a receipt once, on what was
  previewed, and not when a later preview has superseded it, or by an edit of what was read.
* `OneClaim` (two processes with a request each): between processes, which share no lock, the
  rename decides.
* `CommittedResolves`: an application interrupted after its commit is finalised by repeating it.

Why the bounds of the transport are enough: every hazard needs at most two holders of one row (the old lease
and the new one), or two rows of one ticket; two attempts reach both sides of every
comparison with the limit, one requeue gives a second generation and two requeues a third
with an old loop still under way. Deadlock checking is off: with the bounds used up and all
rows settled, the model (like the bot without messages) has nothing to do. Processes are
interchangeable, hence the symmetry in the safety runs; the liveness run uses none.

Why the bounds of the receipts are enough: the locks allow at most one preview beside one
edit, or one application; a third request is only ever a 409. One receipt may be applied,
one superseded and one sealed at the same time; two seeds let an edit return to an old
content, which is what makes a hash comparison err. Two faults are a failure and a failure to
undo it, or a failure and a crash. With two processes `WriterSeesItsBase` and `AppliedOnce` do
not hold, because the mutation lock is a lock of one process. In production only `app-ml` mounts
the seed and the receipts writable (`docker-compose.prod.yml`, `app` has them read-only), so one
process is the deployment; the code provides for a second caller all the same
(`yonote_sync.py:304-306`), and `OneClaim` says what holds then. `CommittedResolves` is asked in the
same instance: the locks are those of a process and each process has one request, so nobody keeps
a lock from the repeated application; with two requests in a process, edits and previews that
overlap without end can keep one of its two locks taken whenever the application is tried, which
is a 409 each time.

### conversation

Each property is a conjunction of named definitions of the component's module.

* `LockHolds` (`Dialog`): `SerializedTurn`, no two turns of a user at once while turns end within
  the lock's TTL; `FencedRelease`, a turn that has outlived it does not free the next turn's lock.
* `TurnsRemembered`: `NothingInvented`, the last messages are turns that were had, each once, also when
  turns outlive the lock and write back the session they have read: such a turn makes the session
  forget another, but not repeat or invent one. While turns end within the TTL, `TurnIndexUnique`, a
  `turn_index` names one row across expiries, lost writes and crashes; `RecentInOrder`, what is
  restored as the last messages are turns in their order; `WholeDialog` and `RestoreFaithful`, without
  faults summary and window are the end of the dialog, of which a turn is missing only if the
  summary has no room for it, and what would be restored is what would be lost.
* `TwiceTheLimit`: two fixed windows side by side admit twice the limit at most.
* `PostsLimited` (`HDELimiter`): `WindowBound` for every minute wherever it begins, `BlocksRespected`
  whatever later responses to earlier posts say, `ExactRetry`, a refused sender is told the first
  moment at which one more post keeps the bound.
* `OutcomeIsVerified` (`AnswerGraph`): `SentAsVerified`, no node after `verify` changes the text or its
  citations; `SynthesisIsJudged`, a complete answer of the generator that no guard touched has passed
  the judge; `EscalationIsTold`; `CachedIsComplete`; `PendingWasAsked`.
* `ModelCalls`: `CallBudget`, seven at most; `NothingAfterJudge`.
* `RetentionIsSafe`: `OpenJobsKeepTheirRows`, `TurnsHaveMemory`, `AnsweredOnce` as long as HDE repeats no
  event older than the queues' TTL, `ExactDryRun`.

Bounds. Three messages with one fault, two with two faults, and two with a fault whose turns may
outlive the lock: one turn reads while another writes, and a third is restored after both. Two
evicted turns are a summary and what displaces it. The limiter has
two posts a minute of three ticks and headers below, within and beyond the ban; two senders are
the post under way and the one that asks. The graph has two Yonote chunks, one of them volatile,
and one of another source, so that a cited set may be any mixture. Retention has one event,
since events share nothing but the command, or a user's three turns, and two runs.

### knowledge

* `AnswersAreCurrent` (`KBCache`), in each of its three parts: `RevisionBinding`, evidence was read
  while the seed had the revision the answer is filed under; `ConfirmsRevision`, a hit is of the
  revision the seed has; `ReleaseIsFresh`, a full index run with the processes down leaves none of an
  older text. Nothing is said of what a reindex leaves: see the exceptions.
* `IndexIsTold`: `CompletesExact` and `GoesExact`, the script completes and the status says GO only
  with an index that is the published seed.
* `NamingIsSound` (`ChunkIdentity`): `NeverRefused`, every section finds an ID in its document, for every
  history and every snapshot; `Settled`, synchronising again changes nothing; `StoppedForLoss`, the removal
  limits judge content and not names; `IdentityKept`, a text a document holds once keeps its ID;
  `IdsStay`, no ID passes to another document while its own is there.
* `PullIsSound` (`YonotePull`): `InTime`, no pull is done after the deadline, and one under way outlives
  it by less than one timeout for every wait since the last look at the clock; `SteadyAreRead`, what
  stays in its collection is in every snapshot a preview accepts.
* `EditsAreKept` (`AdminPage`): `SavedAsShown`, `CleanIsStored` and `StoresInOrder` for a user who waits
  for every answer, `OneMutation` for any.

Bounds. Two answers beside two edits are the writer of a cached answer and its reader; the
release has one answer at any moment of two edits and one index run; the index part has a generic
chunk and one of an event. Two documents with one slug, or three sections under two headings, are
what makes raw IDs collide. Pages hold two documents, so that a listing has a full page and a part of one;
three moves are one per page. Timeouts and pauses straddle the deadline; the second pull waits
three times where the code does not look, and with as many waits the bound of `InTime` is reached.

### evaluation

* `LedgerHolds` (`CostLedger`): `RoutineWithinCap` in any 24 hours, `FullOnce`, `ReferenceOnce`,
  `PaidAsReserved`, `ClosedByAbandoned`, an unfinished record stops the ledger, and the steps of
  `ReservationBook`.
* `FreezeIsFinal` (`DatasetRegistry`): `FrozenIsSealed`, `SupersededByFrozen`, `FrozenStays`.
* `AskedOnce` (`EvalRun`): `OneShot`, a selection is asked once under seal and once per runtime as a
  replay; `FreshStart`, never sealed after a replay.
* `RunIsOnRecord`: `PaidOnRecord`, `SpendBounded`, `Phase0OnRecord`, `CompletedIsSound`,
  `ReportOfItsRuntime`.
* `LaunchIsSound` (`CandidateRunner`): `OneAsk`, `KeepsForeign`, `PublishedGone`, `NothingLeft`,
  `CompletedSound`.
* `GoodForOne` (`BypassProof`): `AuthorizedOnce`, `DeniedForUse`.

Bounds. Two runners are one that has read the clock and one that is admitted meanwhile, three
the chain of waivers; a day is two ticks, so that a record can be younger than, exactly, or older
than a day. Two evaluations at once are the case an exclusive file is for; two cases reach both
sides of the comparison with the cap. Three launchers of one commit are an owner, one that
lost the name and one that starts after; the second launcher part adds a second commit, a fault
and a moving server. A second of two ticks shows the cut to whole seconds.

### endings

`LockFreed`, `RefusalEnds`, `EveryRequestEnds` and `PullEnds` say that the hold on a dialog, the refusal of a
user's messages, a request in the graph and a pull come to an end. `RefusalEnds` is asked with a call
that may stop anywhere: only the one that began the window, stopped before its EXPIRE, leaves a
refusal without end (`Orphaned`), and no order of two calls does. `PullEnds` is asked with a bound on the
waits of httpx for one part of a response, which the code does not have.

**Fairness.** `Dialog`: a call runs on (`Step`), a waiter polls and gives up (`Acquire`, `LockTimeout`), Redis
expires its keys (`LockExpire`); nothing is assumed of crashes. `RequestLimit`: the clock, and a
call's second command, unless the call stops. `AnswerGraph`: some node runs. `YonotePull`: a server
that keeps a connection is timed out and a sleep ends (`Work`). The
provider's edits and errors have none. The receipts: a thread runs to its end (weak fairness of a
request's steps), and the administrator repeats an interrupted application (strong fairness of
`BeginApply` for a receipt that is `.applying`), which is what `admin/ui.py:848-850` tells them to do.
The transport (`hde_liveness`): `_work_loop` calls its operation again and again and survives every
exception (`hde_worker.py:310-330`), `_recovery_loop` repeats on a timer (`332-347`): weak fairness of
each loop as a whole and of finding each stale row. Nothing is assumed of webhooks, of the operator,
of crashes, or of the choice among a statement's outcomes.

### The three violations

These are disagreements between the documents and the code:

* `hde_ticket_overlap`: `docs/operations.md:749-750` and D-021 (`docs/DECISIONS.md:173`) promise
  one event per ticket at a time, in order. The claim orders rows by the `bigserial` id among
  those it can see; a row with a smaller id that commits later can be claimed while the
  larger one is in processing. `TicketOrder` states what does hold.
* `hde_telemetry`: D-021 (`docs/DECISIONS.md:174-176`) promises that confirmed delivery fixes
  the outbox and the trace's telemetry together. They are written together, but
  `_record_delivery` of an earlier failed send, a separate unfenced statement, may come after
  it and turn the telemetry back. `DeliveryEvidence` states what does hold.
* `receipts_interrupted`: `docs/CURRENT_STATE.md:202-203` says that the receipt's lifecycle
  recovers safely from an interrupted request, and the panel (`admin/ui.py:848-850`) to repeat
  Apply with the same receipt. A process that stops after the claim and before the write
  leaves `.applying` with the old seed: `apply_sync` then takes the application to be in
  progress each time (`yonote_sync.py:260-261`), and every new preview is refused. The seed is
  intact, and nothing the API offers resolves it. `CommittedResolves` states what does hold.

### Known exceptions

Where a stronger statement fails, the properties say what does hold, and a constant of the module
or a bound of the instance says what is set aside. Each of these behaviours is one of the model
as soon as that constant is changed or the stronger statement is written down.

| Code | What happens | Set aside by |
|---|---|---|
| `session/manager.py:76` | a turn longer than the lock's TTL overlaps the next one (only the graph runs under a timeout), and of the two the one that writes last makes the session forget the other | `LeaseOutlivesTurn`; `NothingInvented` holds without it |
| `session/manager.py:112` | a turn without analysis updates the event in the structured context but not `last_forum`, which is restored first | `RestoreFaithful` leaves the event out |
| `session/manager.py:168` | after a swallowed error of PostgreSQL the oldest restored message may also be in the restored summary | `WholeDialog` is for no faults |
| `session/manager.py:205` | when the summary is full, its oldest text is dropped, also in the middle of a turn | `Summaries` |
| `security/rate_limiter.py:16` | a stop between INCR and EXPIRE leaves a counter that refuses for good | `RefusalEnds` admits `Orphaned` |
| `rag/cache.py:129` | an answer read from the index between the change of the seed and its indexing is filed under the new revision, if processes run during the release | `Offline` |
| `main.py:1598` | the reindex of a chunk drops the answers of its own scope, of a generic chunk the global one; an answer in another scope that cites it stays (`docs/architecture.md:763` promises those of one event and the generic chunks), and so does one of the old text that is saved after the drop | no property about what a reindex leaves |
| `scripts/sync_yonote_kb.py:255` | a timeout is one of each wait of httpx, and the deadline is looked at only where the code has control: a slow head keeps the synchronisation's lock beyond it without limit | `MaxWaits`; `InTime` counts the waits |
| `rag/cache.py:129` | a chunk edited and edited back while an answer is made leaves the hash as it was: the answer of the text between is filed under it | `Reverts` |
| `rag/retriever.py:226` | a keyword snapshot read before an invalidation is stored after it, until the next day or a restart | no property about the snapshot |
| `scripts/purge_old_memory.py:101` | a webhook redelivered after its inbox row was purged is answered again | `Horizon <= QueueTTL` |
| `scripts/purge_old_memory.py:29` | a user who keeps writing loses old turns and keeps their text in the summary | `TurnsHaveMemory` is one way |
| `graph/nodes/verify.py:503` | a partial answer of the generator is sent before it reaches the judge | `SynthesisIsJudged` excludes noted texts |
| `graph/nodes/guard.py:140` | an answer in which a guard replaced one part counts as copied and may skip the judge | `SynthesisIsJudged` is about texts no guard touched |
| `graph/nodes/verify.py:475` | the question for the forum's name is cached as an answer | `CachedIsComplete` admits a question that `verify` let through |
| `main.py:2423` | that question is sent without the session waiting for its answer | `PendingWasAsked` is one way |
| `eval/cost_governance.py:754` | a first waiver that names a baseline older than 24 hours is recorded, and the ledger is unreadable from then on | `LedgerHolds` is about safety |
| `security/private_dataset_registry.py:268` | two commands at once lose one of the two changes, a freeze among them | one command in the instance |
| `security/private_dataset_registry.py:850` | two edits around the two readings freeze bytes that were never validated | `MaxEdits <- 1` |
| `eval/run_ask.py:2255` | a failure after the canonical report leaves it beside the rejection evidence | `Phase0OnRecord` asks for either |
| `eval/run_ask.py:1804` | a deployment that is taken back before the end of a run is not noticed | `MaxDeploys <- 1` |
| `admin/ui.py:2185` | a chunk that fails to load leaves the last text under the new name, and Save sends it | `LoadsFail`, `Impatient` |
| `admin/ui.py:2176` | a click on the selected row drops unsaved changes without the question | no property about it |
| `admin/ui.py:2262` | a save that is answered after another chunk was opened marks its changes as stored | `Impatient` |
| `admin/ui.py:2271` | a chunk opened while an abandoned save goes on shows a text about to be replaced | `Impatient` |
| `scripts/sync_yonote_kb.py:245` | a document that slides over a page boundary, when another moves to a collection read later, is missing without an error | `Crossing` |
| `scripts/sync_yonote_kb.py:702` | a chunk archived by hand is published again by the next synchronisation | the seed has published chunks only |

Two observations: the branch of `verify` for `partial_source_coverage` cannot be reached, and the
pull is complete without crossing because a document that moves within a listing is read twice,
which the preview refuses, and one that is deleted fails `documents.info`.

## 4. The theorems

Eight modules of proofs, checked to the last leaf by TLAPS, for every value of the constants: any
sets of events, processes, messages, requests, chunks and runs, and any bounds on attempts,
requeues, faults, edits and runs. Each module's inductive invariant was checked by TLC on its
instance before it was proved. The first group states its assumptions as named ASSUMEs of the
module, the others as the operator `Assumptions`, which each theorem takes as a hypothesis and the
suites assert of their instances, so TLC evaluates them in either case. They say that null values
are no members of the sets they stand beside and that bounds are naturals; what goes beyond that is
named below.

| Module | Theorems | Beyond the constants' types |
|---|---|---|
| `HDETransportProofs` | `TypeCorrect`, `SendsOnce`, `TurnsOnce`, `QueuesAgree`, `DeliveryIsEvident`, `WaitingRowsClaimable`, `TicketsInOrder`, `TransportImplementsFlow` | nothing |
| `YonoteReceiptsProofs` | `TypeCorrect`, `ClaimedByOne`; `NoLostUpdate`, `ReceiptConsumedOnce`, `SupersededNeverWritten`, `ReceiptsImplementRegister` | the four after the semicolon: `OneProcess` |
| `DialogProofs` | `TypeCorrect`, `LockHeld`, `DialogRemembered`; of `RequestLimit`: `LimitTyped`, `AtMostTwice`; of `HDELimiter`: `LimiterTyped`, `PostsBounded`; of `Retention`: `RetentionTyped`, `RetentionSafe` | a part of a text that fits a summary fits; what needs `LeaseOutlivesTurn`, no faults or `Horizon <= QueueTTL` says so in the property |
| `AnswerGraphProofs` | `TypeCorrect`, `SentAndKeptAsVerified`, `FewCalls`; of `MCConversation`: `ConversationTyped`, `ConversationLocked`, `ConversationRemembered`, `ConversationLimited`, `ConversationPosts`, `ConversationRetention` | the suite: `Horizon <= QueueTTL` |
| `KBCacheProofs` | `TypeCorrect`; `AnswersStayCurrent`, `IndexToldRight`; of `YonotePull`: `PullTyped`, `PullSound`; of `ChunkIdentity`: `NamesTyped`, `NamesSound`; of `AdminPage`: `PageTyped`, `EditsKept` | the two after the first semicolon: `~Reverts`; what needs `~Crossing`, `~Impatient` or `~LoadsFail` says so in the property |
| `KnowledgeProofs` | of `MCKnowledge`: `KnowledgeTyped`, `KnowledgeCurrent`, `KnowledgeIndexTold`, `KnowledgeNamed`, `KnowledgePulled`, `KnowledgeEdited` | nothing: its instances have `~Reverts` |
| `EvalRunProofs` | `TypeCorrect`, `SelectionAskedOnce`, `PaidAndRecorded`; `RunsOnRecord`; of `DatasetRegistry`: `FrozenForGood`; of `CandidateRunner`: `LaunchesTyped`, `LaunchesSound`; of `CostLedger`: `LedgerImplementsBook`, `LedgerKept` | `RunsOnRecord`: `MaxDeploys <= 1`; `FrozenForGood`: `OneAtATime` |
| `BypassProofProofs` | `TypeCorrect`, `ProofGoodForOne`; of `MCEvaluation`: `EvaluationTyped`, `EvaluationPaid`, `EvaluationFrozen`, `EvaluationAskedOnce`, `EvaluationOnRecord`, `EvaluationLaunched` | the TTL outlives both skews, a second and the latency of a SET; the suite also what `EvalRunProofs` needs |

### HDETransportProofs

The effect of each group of actions on the rows and on the loops is a lemma (`InboxRowOps`,
`OutboxRowOps`, `InTaskOps`, `OutTaskOps`; `InboxMoves`, `OutboxMoves` and the moves of the loops
say how a status, an attempt and a generation may change), then one lemma per group of actions and
invariant. Only `DeliveryEvidence` is inductive as it stands.

* `SendsOnce`, by `SendInv`: that a loop at `"send"` has a fresh generation depends on what other
  loops with the same job and on what rows waiting for a claim may still do. `SendInv` adds that
  (a) a loop's generation is at most the row's, and equal to it while it holds the lease; (b) two
  loops never carry the same generation of the same job where a POST is still open (`MaySend`); (c) a
  row that waits to be claimed has not been posted in its current generation, and no loop with an
  open POST has that generation. Recovery and quarantine keep (c) by never leading to a waiting
  row; a retry does lead to one, but only from a loop at `"fail"`, whose generation (b) makes its
  own; a requeue leads to one with a new generation.
* `TurnsOnce`, by `TurnInv` with `AnswerInv`: the same argument of turns, with one difference that
  makes it harder. The inbox may retry a row whose turn has run, when there is a trace to resume
  from. So "may still run a turn" (`MayTurn`) includes that the trace is missing, and a trace, once
  written, never goes away.
* `QueuesAgree`, by `AnswerInv` with `HandOff` itself: what a loop completes its job with is the
  text that it has read back from the trace, and no processed row has an empty trace.
* `WaitingRowsClaimable`, by `LeaseInv`: whoever holds a lease knows the row's attempt count. So
  the comparison with the limit in `FailInbox` and `FailOutbox`, made with the loop's copy, is one with
  the row's.
* `DeliveryIsEvident` needs only that a delivered row stays so, whatever requeue or lost lease comes
  after, and that purge and row are written in one statement.
* `TicketsInOrder`, by `OrderInv` with `HandOff`: an older neighbour that was committed first has a
  smaller id in both queues, and a row that was ever leased has those neighbours processed, or
  delivered. The outbox order is inherited from the inbox: an outbox id is drawn in the statement
  that settles the inbox row, when the older neighbours are settled.
* `TransportImplementsFlow`: the refinement of `TicketFlow`. Initial states map to initial states;
  the commit of an enqueue is `Accept`, a completion is `Answer`, a confirmed mark or the
  operator's reconciliation is `Confirm`, and every other step is a stutter, because it changes
  no processed or delivered row and no trace of one. The guards of the abstract steps are what
  `OrderInv`, `HandOff` and `AnswerInv` say of the state before.

### YonoteReceiptsProofs

`ClaimedByOne` and `TypeCorrect` hold for any number of processes, by `ClaimInv`: a request that has
a receipt in hand has moved its file out of the active suffix, and only `Claim` takes one that is
active; locks play no part in it. The others hold in one process, by `IInv`. That a seed has
not changed since it was read depends on who else may write; that a receipt is written once
depends on it never being active again. `TaskInv(q)` says what a request holds at each program
counter: the mutation lock in every step of an application or edit, the sync lock in every step of
an application or preview, no `.applying` file in a preview that has checked, and for the receipt
it has claimed, that it is not active, not superseded and, up to the write, not written.
`ReceiptInv(r)` says that a written receipt is not active, and a superseded one neither active nor
being applied. `OthersKeep` is the argument of mutual exclusion: a step of one request leaves
`TaskInv` of every other alone, because it changes the seed and the counts only under the mutation
lock and the directory only under the sync lock. `OneProcess` is the deployment (section 3); with two
processes `NoLostUpdate` and `ReceiptConsumedOnce` are false.

`ReceiptsImplementRegister`: the refinement of `SeedRegister`, by `IInv` with `Loaded`, that what a request
applies is the receipt it has loaded. Sealing maps to `Seal`, moving the older receipts aside to
`Supersede`, an editor that passes its check to `Read`, the two writes of the seed to `Apply` and `Save`,
and every other step to a stutter or to editors who leave. The guards of the abstract steps are
`TaskInv` of the state before: `"write"` and `"save"` are reached only with the seed unchanged since it
was read, and the first with a receipt that is neither written nor superseded. With two processes it
is false, since then an edit may come between a comparison and its write.

### DialogProofs

Lemma `StepKinds` shows that every step of the 18 actions is of one of eleven kinds (a turn takes the
lock, hops, loads a session, saves, appends, persists, upserts, loses a write, ends; the lock or the
session expires). Each invariant then has a lemma per kind.

* `Base` holds whatever the lock does: types, rows numbered, a message appended by its own turn
  once, and `Shown`: the tail in Redis, and in every copy that a turn has at hand, holds turns that
  were had, each once (`GoodIn`), hence not the one that its holder is yet to append; so do the rows
  (`RowsGood`). A copy may be old, but what it lacks it lacks as a whole turn, which is why a
  stale write-back forgets and does neither repeat nor invent.
* `Remembered` holds while turns end within the TTL: `Holds`, who runs holds the lock, which is what
  makes everything else an argument about one turn; `Mirrored`, the session in Redis is the one at
  hand or has expired; `Counted`, no counter that a turn may use is behind an index of a row, so
  that the next index is new even after a write to either store was lost; `Ordered`, every tail
  of messages is a subsequence of the history; `Complete`, without faults the session at hand, the
  one in Redis, and what rows and `user_memory` would restore are the whole dialog, but for the turn
  between its two writes and what the summary has no room for. That cutting after every eviction
  leaves what cutting the whole dialog at once would (`Kept`) needs only that a part of what fits does.

`RecentTurns` sorts rows by `turn_index`; it is defined by rank (`RowAt`), and a lemma shows that
under `Counted` the rows are their own order.

`AtMostTwice`, about `RequestLimit`, by `TwoCounters`: the messages admitted within the last window
split into those that the counter before counted, `Limit` at most, and those that the counter there
is has counted; when that
one expires, the former have left the window. A counter that a stopped call left without a TTL
refuses for good, which the property allows.

`PostsBounded`, about `HDELimiter`, by `Posting`: `timestamps` holds the last posts, every other post is a
minute old, and they are in order (`LastPosts`); no block that a response asked for outlasts the one
that is kept (`Blocked`). Popping from the left is the choice of the first moment inside the window;
that there is one (`FirstOf`) is an induction over the indices.

`RetentionSafe`, about `Retention`, by `Retained`. What the statements have deleted is what qualifies at
every later moment of the transaction too (`DeletedFit`), because whatever changes a row dates it now, not
before the transaction; a row that is deleted is not updated meanwhile. Traces are the exception: their
age does not change when their job ends, so one may qualify that did not before, and `DeletedFit` says
only that no deleted trace ceases to. That the dry run is exact for them is `ShownFit`: a trace that it
has shown is deleted unless a webhook has opened its event again since. `AnswersFit` is the argument
of idempotence: an inbox row that is gone belongs to an event older than the queues' TTL, and an
event that was answered never has an open row.

### AnswerGraphProofs

`SentAndKeptAsVerified`, by `OutcomeInv`, one conjunct per region of the graph: `SearchInv` (what a
request has before it has searched), `ResponseInv` (citations, and who wrote the text), `AcceptedInv`
(a response that `verify` let through, up to the end), `ClarifyInv`, `ResultInv`. `FewCalls`, by `BudgetInv`: at
each node a number of calls is spent at most, three more after the recovery that is tried once.

The six theorems of the suite say of `ConversationSpec` what is proved of its components. A part, once
chosen, stays (`TurnsAlone` to `MemoryAlone`), so a behaviour in which `part` is `"limit"` is one of
`RequestLimit`, and the theorem about `RequestLimit` is cited for that instance. `ConversationAssumption` is
the conjunction of the components' assumptions.

### KBCacheProofs

`TypeCorrect` includes that a point of the cache has one payload.

`AnswersStayCurrent` and `IndexToldRight` rest on `Ties`, `Indexed`, `Looked`, `Quiet` and `Fresh`: while the seed has the revision a call,
a run or a status request began with, what it has read goes with that revision. That is true
because a seed that has moved on never comes back, which is `~Reverts`: no chunk gets back a text it
had before. The code compares hashes, so a text that is edited away and back while a call reads in
between is taken for unchanged, and an answer made from the text in the middle is filed under
the revision of the two ends. The code does not exclude it; nothing but the interval of two edits
within one answer makes it rare. `Onward` is what it is used for.

`PullSound`, about `YonotePull`, by `Pulled`. `Timed` is the deadline: nothing is asked after it, a sleep
ends at it, and what is waited for was begun no later than the waits since the last look allow
(`Allowed`, which each of them raises by one timeout). Completeness goes from the listing to
the snapshot: while a collection is paged, as many references were read as the offset says, each
to a document that is there or was deleted for good (`Seen`); so when the last page is not full there
are as many references as documents, and unless one came twice they are all of them (`LastPage`,
by counting: `Pigeons`). Reference by reference they are then loaded (`Loads`), where a deleted one
fails the pull (`Holds`), and a collection that is done is in what was read, or something is in it
twice (`Covered`), which the preview refuses. Counting needs that no document leaves a collection but
by deletion, which is `~Crossing`: a document that moves to another collection pulls the later
ones over a page boundary unseen (known exceptions). That a document is listed once (`Apart`) holds
with crossing too. `PullTyped` adds `Tallied`: the limits of attempts, of parts and waits, and of the time of one.

`NamesSound`, about `ChunkIdentity`, by `NamedInv`. What it needs of the seed is that an ID has the slug
of its document, or the shared slug if the document may have it (`Named`): then a raw ID that is
taken is taken inside its document (`OwnSlug`, `TakenInside`), and counting gives a document as many
vacated IDs as displaced sections (`EnoughFree`). Places in two sets of rows pair them off (`PlaceOfOne`,
`DonorIs`), so a section has its old ID or an untaken raw ID of its document (`SourceIs`), and no two
have the same (`NewIdTells`); from this follow that no preview is refused (`NotRefused`), that every step
keeps `Named`, and that IDs stay with texts and documents (`KeepsIdentity`, `StaysInside`). Naming
settles because the second time the sections that are now matched leave the displaced ones, the
vacated sections in their places leave too, and so the places of the others still agree
(`MovedAgain`, `PlacesAgree`, `DonorAgain`).

`EditsKept`, about `AdminPage`, by `Edited`. `OneMutation` holds for any user: the server works only on the
change that holds the lock (`Served`). The other three are about one who waits: a single request is
then under way (`OneDue`), which makes the order of the server that of the page (`Ordered`); an
editor without unsaved changes shows a text that was stored, or will when the load that is under way
answers (`Shown`); and a save carries the text of the chunk that it names (`Carried`). A user who gives
a request up breaks each of the three, and a load that fails the last two (known exceptions).

### KnowledgeProofs

The six theorems of the suite say of `KnowledgeSpec` what is proved of the components: `EditsAlone` to
`AnyhowAlone` say that the behaviours of a part are those of its instance (of some of them: the index
part makes no call), `OnePart` that there are no others.

### EvalRunProofs

`Safe` relates the local state of each run to the files: `Paid` is the order in which a run pays
(reservation, marker, receipt, first case), `Recorded` that a report of its own stands behind what
it has completed, `StartedFit`, `CompletedFit` and `ReportFit` that a file is what its writer had found, and
`ReplayFit` that a replay begins after the sealed run has its receipt. `SelectionAskedOnce` follows
because the exclusive creation of the started receipt has one winner. `ServedFit` adds which release
answers between the two looks at the runtime; with two deployments a release may be taken back
in between, unnoticed (known exceptions), hence `MaxDeploys <= 1` for `ReportOfItsRuntime` alone.

`FrozenForGood`, about `DatasetRegistry`, by `Kept`. Its hypothesis `OneAtATime` is what the known exceptions
leave: one command at a time, and one edit of an artifact meanwhile. What `freeze` needs is said by
`Trusted`: a hash that complete-review has bound is of bytes that passed every check, or the edit
came between the two readings and its bytes are the ones that are bound and still there. In the latter
case the reading of the records refuses the freeze, so that what is frozen is sealed. `Good` is what a
changed copy of the registry keeps (`FrozenKept`, `Replaced`) until `Save` puts it in the place of a
registry that, with one command, nobody else has changed.

`LaunchesSound`, about `CandidateRunner`, by `Launched`: what each launcher knows where it is in the script
(`JobFit`: a container of its own only between `Start` and its removal, the receipt it goes by, what it
has marked, asked and found unchanged since) and what is in the run directory of each commit
(`DirFit`: whoever published or completed it is over and its container gone). A step of one launcher
keeps that of the others because it takes over nothing of theirs (`LaunchFrame`), and identities of
production and index only grow, so what is the same at both ends was the same in between.

`LedgerKept`, about `CostLedger`, by `Reserved`. The limits are stated of all records, complete or not
(`RoutineKept`, `FullKept`), because an incomplete one may still be completed. What the scan allowed
is still allowed where the record is created (`Granted`), since whoever is between the two holds the
lock (`Holds`) and only a lock that nobody may write under is taken away. The runners read their
clocks before they have the lock, so records may be created in another order than that of their
times; no 24 hours exceed the cap all the same, because what the scan adds up as recent has no upper
end: whatever window the new record falls in, the others in it, later ones included, are among them.
`Spending` is the loop of a runner, and `OwnPlaces` that its record is nobody else's.
`LedgerImplementsBook` is the refinement of `ReservationBook`: the creation of a record maps to `Enter`,
its content to `Complete`, a case to `Pay`, and every other step to a stutter. The limits of the book
after `Enter` are those of the invariant after the step, so it shows that what the scan looks for, rule
by rule, is enough for limits that are stated of the whole book (`ReservedWithin`). The sums are
taken over finite sets of records: `SumExists` to `TotalSame` say what such a sum is, grows to and
depends on, each by a smallest set for which it would be false (`Smallest`).

### BypassProofProofs

`NonceInv`: a call that found the proof valid did so within the latency, and a nonce, once set, exists
as long as any such call may be on its way. The assumption is the inequality of the code's
numbers; without it a second call could come after the key.

The six theorems of the suite say of `EvaluationSpec` what is proved of the components, part by part, as
in `AnswerGraphProofs`: `RoutineAlone` to `ProofAlone` say that the behaviours of a part are those of its
instance. `LedgerHolds` includes that the ledger of each part implements `ReservationBook`.

### Only model-checked

* Liveness under fairness, out of the prover's reach: `EventuallySettled`, `CommittedResolves`,
  `LockFreed`, `RefusalEnds`, `EveryRequestEnds`, `PullEnds`.
* The three violations, whose runs show a behaviour.

## 5. Plan

Done: every component with shared state has a module, and every part of it a run; proved: the
transport's safety and its refinement, the receipts, the pull, the naming of chunks, the admin
page, the dialog, both limits, retention, the outcome of the graph, the knowledge base, the one-shot evaluations with
their ledger, their datasets and their launcher, and the bypass. Three abstract specifications are
implemented: by the transport, the receipts and the ledger.

## 6. Not modelled

* Text processing (analysis, retrieval, generation, verification, screening, extraction): the
  regular expressions, prompts and rankings over Russian that make up most of the source. They
  are functions of their input without state; their outcomes are the choices of `AnswerGraph`.
* Offline evaluation and dataset tooling other than the parts above: scoring, builders and
  reports that one operator runs on files of their own. The launcher of the recovery
  evaluation is a near copy of the one that is modelled.
* The language-model client: a cascade that keeps no state between requests.
* Deployment, configuration, reports, the VK and MAX stubs; the sign-in and the read-only
  endpoints of the admin API; the report and Yonote panels of the admin page, which display what
  the server answers.

The components table of `PROJECT.json` gives the reason for each.
