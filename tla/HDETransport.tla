---------------------------- MODULE HDETransport ----------------------------
(***************************************************************************)
(* The durable HDE transport: the webhook that stores an incoming event,   *)
(* the PostgreSQL inbox and outbox (src/channels/hde_transport.py), the    *)
(* worker loops that lease their rows (src/channels/hde_worker.py), the    *)
(* request trace that carries the answer from one queue to the other, and  *)
(* the operator's audited recovery of dead letters.                        *)
(*                                                                         *)
(* One SQL statement is one action; every await between two statements is  *)
(* a point where another process may run.  A statement of a worker may     *)
(* also fail: before it commits, or after it (the acknowledgement is lost).*)
(* Lease age and retry delay are not measured: a lease may be found stale  *)
(* at any time, and a retry may be due at any time.                        *)
(***************************************************************************)
EXTENDS Naturals

CONSTANTS
    Events,             \* stable upstream events: one per inbox event_key
    Ticket,             \* the ticket_key of each event, a function on Events
    Workers,            \* ML processes, each with an inbox and an outbox loop
    Responses,          \* texts that process_message may produce
    Empty,              \* the empty response (may be in Responses)
    Blank,              \* a response of white space only (may be in Responses)
    NoText,             \* no trace row, or no envelope
    Nobody,             \* locked_by IS NULL
    NoEvent,            \* an idle loop holds no job
    InboxMaxAttempts,   \* DEFAULT_INBOX_MAX_ATTEMPTS
    OutboxMaxAttempts,  \* DEFAULT_OUTBOX_MAX_ATTEMPTS
    MaxInboxRequeues,   \* bound: operator requeues of an inbox row
    MaxOutboxRequeues,  \* bound: operator requeues of an outbox row
    MaxId               \* bound: values drawn from the inbox id sequence

ASSUME TextAssumption   == NoText \notin Responses
ASSUME WorkerAssumption == Nobody \notin Workers
ASSUME EventAssumption  == NoEvent \notin Events
ASSUME BoundAssumption  ==
    /\ InboxMaxAttempts \in Nat \ {0}
    /\ OutboxMaxAttempts \in Nat \ {0}
    /\ MaxInboxRequeues \in Nat
    /\ MaxOutboxRequeues \in Nat
    /\ MaxId \in Nat

VARIABLES
    nextId,     \* last value drawn from the bigserial of hde_inbox
    openTx,     \* openTx[e]: id drawn by an uncommitted enqueue of e, or 0
    rowId,      \* rowId[e]: id of e's inbox row, or 0
    inbox,      \* inbox[e]: status, attempt_count and locked_by
    outbox,     \* outbox[e]: the same, its id, and the text of its envelope
    nextOutId,  \* last value drawn from the bigserial of hde_outbox
    purged,     \* events whose safe_payload has been replaced by the marker
    trace,      \* trace[e]: response_text of e's request_traces row, or NoText
    telemetry,  \* telemetry[e]: delivery_status of that row
    audit,      \* audit[e]: what hde_transport_audit records of e
    inTask,     \* inTask[w]: the inbox loop of w and its local variables
    outTask,    \* outTask[w]: the outbox loop of w and its local variables
    ahead,      \* history: rows of e's ticket committed, with a smaller id, before e
    turns,      \* history: operator generations in which a session turn of e ran
    sent        \* history: generations whose POST of e's answer may have been accepted

queueVars   == <<nextId, openTx, rowId, inbox, outbox, nextOutId, purged>>
traceVars   == <<trace, telemetry>>
historyVars == <<ahead, turns, sent>>
vars == <<nextId, openTx, rowId, inbox, outbox, nextOutId, purged,
          trace, telemetry, audit, inTask, outTask, ahead, turns, sent>>

InboxStatus  == {"absent", "pending", "processing", "retry", "processed", "dead_letter"}
OutboxStatus == {"absent", "pending", "sending", "retry", "delivered", "dead_letter"}

IdleIn  == [pc |-> "idle", job |-> NoEvent, attempt |-> 0, gen |-> 0, text |-> NoText]
IdleOut == [pc |-> "idle", job |-> NoEvent, attempt |-> 0, gen |-> 0]

NoInboxRow  == [status |-> "absent", attempts |-> 0, owner |-> Nobody]
NoOutboxRow == [status |-> "absent", attempts |-> 0, owner |-> Nobody,
                id |-> 0, text |-> NoText]

Init ==
    /\ nextId = 0
    /\ openTx = [e \in Events |-> 0]
    /\ rowId = [e \in Events |-> 0]
    /\ inbox = [e \in Events |-> NoInboxRow]
    /\ outbox = [e \in Events |-> NoOutboxRow]
    /\ nextOutId = 0
    /\ purged = {}
    /\ trace = [e \in Events |-> NoText]
    /\ telemetry = [e \in Events |-> "unset"]
    /\ audit = [e \in Events |-> [inbox |-> 0, outbox |-> 0, reconciled |-> FALSE]]
    /\ inTask = [w \in Workers |-> IdleIn]
    /\ outTask = [w \in Workers |-> IdleOut]
    /\ ahead = [e \in Events |-> {}]
    /\ turns = [e \in Events |-> {}]
    /\ sent = [e \in Events |-> {}]

-----------------------------------------------------------------------------
\* Helpers

Accepted  == {e \in Events : inbox[e].status # "absent"}
Processed == {e \in Events : inbox[e].status = "processed"}
Delivered == {e \in Events : outbox[e].status = "delivered"}

\* Committed rows of e's ticket with a smaller id, in each queue.
OlderInbox(e) ==
    {a \in Accepted : Ticket[a] = Ticket[e] /\ rowId[a] < rowId[e]}
OlderOutbox(e) ==
    {a \in Events : /\ outbox[a].status # "absent"
                    /\ Ticket[a] = Ticket[e]
                    /\ outbox[a].id < outbox[e].id}

\* WHERE id = $1 AND status = ... AND locked_by = $2: the fence of every completion.
HoldsInbox(w)  == /\ inbox[inTask[w].job].status = "processing"
                  /\ inbox[inTask[w].job].owner = w
HoldsOutbox(w) == /\ outbox[outTask[w].job].status = "sending"
                  /\ outbox[outTask[w].job].owner = w

\* Mutation: the last attempt is retried as well.
PlanFailureOffByOne(attempt, max) == IF attempt > max THEN "dead_letter" ELSE "retry"

\* plan_failure: the status a failed attempt leaves behind.
PlanFailure(attempt, max) == IF attempt >= max THEN "dead_letter" ELSE "retry"

\* A row is leased, leaves its lease (locked_by = NULL, locked_at = NULL), or is
\* given back all of its attempts.
Lease(row, status, w) ==
    [row EXCEPT !.status = status, !.attempts = row.attempts + 1, !.owner = w]
Release(row, status) == [row EXCEPT !.status = status, !.owner = Nobody]
Requeue(row) == [row EXCEPT !.status = "retry", !.attempts = 0, !.owner = Nobody]

\* A delivered row gives up its envelope as well: delivery_envelope_ciphertext = NULL.
Deliver(row) == [row EXCEPT !.status = "delivered", !.owner = Nobody, !.text = NoText]

\* Mutation: the loop drops its job and forgets to start over.
InIdleKeepsPlace(w) == inTask' = [inTask EXCEPT ![w].job = NoEvent]

\* A loop goes on, goes on with an answer (resumed from the trace or just made), or
\* is done with its job.
InGoto(w, pc)  == inTask' = [inTask EXCEPT ![w].pc = pc]
InCarry(w, pc, text) == inTask' = [inTask EXCEPT ![w].pc = pc, ![w].text = text]
OutGoto(w, pc) == outTask' = [outTask EXCEPT ![w].pc = pc]
InIdle(w)      == inTask' = [inTask EXCEPT ![w] = IdleIn]
OutIdle(w)     == outTask' = [outTask EXCEPT ![w] = IdleOut]

-----------------------------------------------------------------------------
\* The webhook: INSERT ... ON CONFLICT (event_key).  The id is drawn from the
\* sequence when the statement runs and the row is seen only at its commit; the
\* two are apart, so rows may be committed out of id order.

EnqueueBegin(e) ==
    /\ openTx[e] = 0
    /\ nextId < MaxId
    /\ nextId' = nextId + 1
    /\ openTx' = [openTx EXCEPT ![e] = nextId + 1]
    /\ UNCHANGED <<rowId, inbox, outbox, nextOutId, purged, traceVars, audit,
                   inTask, outTask, historyVars>>

\* A redelivered event conflicts with its row, which is returned as it is.
EnqueueCommit(e) ==
    /\ openTx[e] # 0
    /\ openTx' = [openTx EXCEPT ![e] = 0]
    /\ \/ /\ inbox[e].status # "absent"
          /\ UNCHANGED <<rowId, inbox, ahead>>
       \/ /\ inbox[e].status = "absent"
          /\ rowId' = [rowId EXCEPT ![e] = openTx[e]]
          /\ inbox' = [inbox EXCEPT ![e] = Release(@, "pending")]
          /\ ahead' = [ahead EXCEPT ![e] =
                {a \in Accepted : Ticket[a] = Ticket[e] /\ rowId[a] < openTx[e]}]
    /\ UNCHANGED <<nextId, outbox, nextOutId, purged, traceVars, audit,
                   inTask, outTask, turns, sent>>

\* The statement fails: the caller gets 503 and may send the event again.
EnqueueAbort(e) ==
    /\ openTx[e] # 0
    /\ openTx' = [openTx EXCEPT ![e] = 0]
    /\ UNCHANGED <<nextId, rowId, inbox, outbox, nextOutId, purged, traceVars, audit,
                   inTask, outTask, historyVars>>

-----------------------------------------------------------------------------
\* The inbox loop, HDETransportWorker.process_inbox_once

\* Mutations: the claim forgets the older rows of its ticket; its bound on attempts
\* is off by one.
InboxClaimableAnyOrder(e) ==
    /\ inbox[e].status \in {"pending", "retry"}
    /\ inbox[e].attempts < InboxMaxAttempts
InboxClaimableOffByOne(e) ==
    /\ inbox[e].status \in {"pending", "retry"}
    /\ inbox[e].attempts + 1 < InboxMaxAttempts
    /\ OlderInbox(e) \subseteq Processed

InboxClaimable(e) ==
    /\ inbox[e].status \in {"pending", "retry"}
    /\ inbox[e].attempts < InboxMaxAttempts
    /\ OlderInbox(e) \subseteq Processed

\* ORDER BY queued.id LIMIT 1; a row that another claim has locked is skipped,
\* which a claim of any claimable row allows for.  When the result is lost the
\* row is leased and no loop works on it.
ClaimInbox(w, e) ==
    /\ inTask[w].pc = "idle"
    /\ InboxClaimable(e)
    /\ inbox' = [inbox EXCEPT ![e] = Lease(@, "processing", w)]
    /\ \/ inTask' = [inTask EXCEPT ![w] =
            [pc |-> "load", job |-> e, attempt |-> inbox[e].attempts + 1,
             gen |-> audit[e].inbox, text |-> NoText]]
       \/ UNCHANGED inTask
    /\ UNCHANGED <<nextId, openTx, rowId, outbox, nextOutId, purged, traceVars, audit,
                   outTask, historyVars>>

\* Mutation: every failure is retried, whatever was invoked.
InboxHandlerRetries(w) == "fail"

\* The exception handler of process_inbox_once, by safe_to_retry and process_invoked.
InboxHandler(w) == IF inTask[w].pc \in {"load", "resume"} THEN "fail" ELSE "quarantine"

\* load_trace_response before processing.
LoadTrace(w) ==
    LET e == inTask[w].job IN
    /\ inTask[w].pc = "load"
    /\ \/ InGoto(w, InboxHandler(w))                \* the query failed
       \/ /\ trace[e] = NoText
          /\ InGoto(w, "turn")                      \* process_invoked = True
       \/ /\ trace[e] = Empty
          /\ InGoto(w, "quarantine")                \* HDETraceResumeConflict
       \/ /\ trace[e] \notin {NoText, Empty}
          /\ InCarry(w, "resume", trace[e])         \* safe_to_retry = True
    /\ UNCHANGED <<queueVars, traceVars, audit, outTask, historyVars>>

\* process_message up to its trace: the turn is appended to the session, or the
\* rate limiter answers without one, or an exception leaves process_message.
RunTurn(w) ==
    LET e == inTask[w].job IN
    /\ inTask[w].pc = "turn"
    /\ \/ \E r \in Responses :
            /\ InCarry(w, "log", r)
            /\ \/ turns' = [turns EXCEPT ![e] = @ \cup {inTask[w].gen}]
               \/ UNCHANGED turns
       \/ /\ InGoto(w, InboxHandler(w))
          /\ UNCHANGED turns
    /\ UNCHANGED <<queueVars, traceVars, audit, outTask, ahead, sent>>

\* _safe_log: a failed insert is logged and forgotten; request_id is unique, so a
\* second insert for the event fails too.
LogTrace(w) ==
    LET e == inTask[w].job IN
    /\ inTask[w].pc = "log"
    /\ \/ /\ trace[e] = NoText
          /\ trace' = [trace EXCEPT ![e] = inTask[w].text]
          /\ InGoto(w, "verify")
       \/ /\ InGoto(w, "verify")
          /\ UNCHANGED trace
       \/ /\ InGoto(w, InboxHandler(w))             \* process_message raised
          /\ UNCHANGED trace
    /\ UNCHANGED <<queueVars, telemetry, audit, outTask, historyVars>>

\* Mutation: the answer that process_message returned goes on without its trace.
VerifyTraceSkipped(w) ==
    /\ inTask[w].pc = "verify"
    /\ InGoto(w, "complete")
    /\ UNCHANGED <<queueVars, traceVars, audit, outTask, historyVars>>

\* load_trace_response after processing: only the persisted answer may go on.
VerifyTrace(w) ==
    LET e == inTask[w].job IN
    /\ inTask[w].pc = "verify"
    /\ \/ InGoto(w, InboxHandler(w))                \* absent, empty, different, unread
       \/ /\ trace[e] = inTask[w].text
          /\ trace[e] # Empty
          /\ InGoto(w, "complete")
    /\ UNCHANGED <<queueVars, traceVars, audit, outTask, historyVars>>

\* complete_inbox_with_outbox: both rows in one statement.  A blank response, a lost
\* lease and an outbox row that is already there (ON CONFLICT DO NOTHING) raise.
CompleteInbox(w) ==
    LET e == inTask[w].job IN
    /\ inTask[w].pc \in {"resume", "complete"}
    /\ \/ /\ inTask[w].text \notin {Empty, Blank}
          /\ HoldsInbox(w)
          /\ inbox' = [inbox EXCEPT ![e] = Release(@, "processed")]
          /\ \/ /\ outbox[e].status = "absent"
                /\ nextOutId' = nextOutId + 1
                /\ outbox' = [outbox EXCEPT ![e] =
                     [status |-> "pending", attempts |-> 0, owner |-> Nobody,
                      id |-> nextOutId + 1, text |-> inTask[w].text]]
                /\ InIdle(w) \/ InGoto(w, InboxHandler(w))
             \/ /\ outbox[e].status # "absent"
                /\ InGoto(w, InboxHandler(w))
                /\ UNCHANGED <<outbox, nextOutId>>
       \/ /\ InGoto(w, InboxHandler(w))
          /\ UNCHANGED <<inbox, outbox, nextOutId>>
    /\ UNCHANGED <<nextId, openTx, rowId, purged, traceVars, audit, outTask, historyVars>>

\* fail_inbox: LeaseLost and database errors leave the loop to log them.
FailInbox(w) ==
    /\ inTask[w].pc = "fail"
    /\ InIdle(w)
    /\ \/ /\ HoldsInbox(w)
          /\ inbox' = [inbox EXCEPT ![inTask[w].job] =
                         Release(@, PlanFailure(inTask[w].attempt, InboxMaxAttempts))]
       \/ UNCHANGED inbox
    /\ UNCHANGED <<nextId, openTx, rowId, outbox, nextOutId, purged, traceVars, audit,
                   outTask, historyVars>>

QuarantineInbox(w) ==
    /\ inTask[w].pc = "quarantine"
    /\ InIdle(w)
    /\ \/ /\ HoldsInbox(w)
          /\ inbox' = [inbox EXCEPT ![inTask[w].job] = Release(@, "dead_letter")]
       \/ UNCHANGED inbox
    /\ UNCHANGED <<nextId, openTx, rowId, outbox, nextOutId, purged, traceVars, audit,
                   outTask, historyVars>>

-----------------------------------------------------------------------------
\* The outbox loop, HDETransportWorker.process_outbox_once

\* Mutation: the claim looks at one row and forgets the older ones of its ticket.
OutboxClaimableAnyOrder(e) ==
    /\ outbox[e].status \in {"pending", "retry"}
    /\ outbox[e].attempts < OutboxMaxAttempts

OutboxClaimable(e) ==
    /\ outbox[e].status \in {"pending", "retry"}
    /\ outbox[e].attempts < OutboxMaxAttempts
    /\ OlderOutbox(e) \subseteq Delivered

ClaimOutbox(w, e) ==
    /\ outTask[w].pc = "idle"
    /\ OutboxClaimable(e)
    /\ outbox' = [outbox EXCEPT ![e] = Lease(@, "sending", w)]
    /\ \/ outTask' = [outTask EXCEPT ![w] =
            [pc |-> "send", job |-> e, attempt |-> outbox[e].attempts + 1,
             gen |-> audit[e].outbox]]
       \/ UNCHANGED outTask                         \* the result is lost
    /\ UNCHANGED <<nextId, openTx, rowId, inbox, nextOutId, purged, traceVars, audit,
                   inTask, historyVars>>

\* HDEAdapter.send returns before any request: not configured, or the local limiter.
SendNotAttempted(w) ==
    /\ outTask[w].pc = "send"
    /\ OutGoto(w, "fail")
    /\ UNCHANGED <<queueVars, traceVars, audit, inTask, historyVars>>

\* The POST leaves: from here the provider may have accepted the answer.
SendPost(w) ==
    LET e == outTask[w].job IN
    /\ outTask[w].pc = "send"
    /\ OutGoto(w, "posted")
    /\ sent' = [sent EXCEPT ![e] = @ \cup {outTask[w].gen}]
    /\ UNCHANGED <<queueVars, traceVars, audit, inTask, ahead, turns>>

\* 429: the provider refused this POST, and the only ambiguity is removed.
PostRateLimited(w) ==
    LET e == outTask[w].job IN
    /\ outTask[w].pc = "posted"
    /\ OutGoto(w, "fail")
    /\ sent' = [sent EXCEPT ![e] = @ \ {outTask[w].gen}]
    /\ UNCHANGED <<queueVars, traceVars, audit, inTask, ahead, turns>>

\* A success answer, an ambiguous one (timeout, network or HTTP error), or an
\* unexpected exception after the call was entered.
PostAnswered(w) ==
    /\ outTask[w].pc = "posted"
    /\ \E next \in {"mark", "quarantine", "handler"} : OutGoto(w, next)
    /\ UNCHANGED <<queueVars, traceVars, audit, inTask, historyVars>>

\* Mutation: the confirmation of a delivery is not fenced by the lease.
MarkDeliveredUnfenced(w) ==
    LET e == outTask[w].job IN
    /\ outTask[w].pc = "mark"
    /\ trace[e] # NoText
    /\ telemetry' = [telemetry EXCEPT ![e] = "delivered"]
    /\ outbox' = [outbox EXCEPT ![e] = IF HoldsOutbox(w) THEN Deliver(@) ELSE @]
    /\ purged' = purged \cup {e}
    /\ OutIdle(w)
    /\ UNCHANGED <<nextId, openTx, rowId, inbox, nextOutId, trace, audit, inTask,
                   historyVars>>

\* mark_outbox_delivered: trace telemetry, outbox and purge in one statement.
\* Without the lease or the trace no row is returned and LeaseLost is raised.
MarkDelivered(w) ==
    LET e == outTask[w].job IN
    /\ outTask[w].pc = "mark"
    /\ \/ /\ HoldsOutbox(w)
          /\ trace[e] # NoText
          /\ telemetry' = [telemetry EXCEPT ![e] = "delivered"]
          /\ outbox' = [outbox EXCEPT ![e] = Deliver(@)]
          /\ purged' = purged \cup {e}
          /\ OutIdle(w) \/ OutGoto(w, "handler")
       \/ /\ OutGoto(w, "handler")
          /\ UNCHANGED <<telemetry, outbox, purged>>
    /\ UNCHANGED <<nextId, openTx, rowId, inbox, nextOutId, trace, audit, inTask,
                   historyVars>>

\* fail_outbox runs inside the try block: its own failure reaches the handler.
FailOutbox(w) ==
    LET e == outTask[w].job IN
    /\ outTask[w].pc = "fail"
    /\ \/ /\ HoldsOutbox(w)
          /\ outbox' = [outbox EXCEPT ![e] =
                          Release(@, PlanFailure(outTask[w].attempt, OutboxMaxAttempts))]
          /\ \E next \in {"record", "handler"} : OutGoto(w, next)
       \/ /\ OutGoto(w, "handler")
          /\ UNCHANGED outbox
    /\ UNCHANGED <<nextId, openTx, rowId, inbox, nextOutId, purged, traceVars, audit,
                   inTask, historyVars>>

\* quarantine_outbox, in the try block ("quarantine") and in the handler; the
\* loop logs what the handler's own call raises.
QuarantineOutbox(w) ==
    LET e == outTask[w].job IN
    /\ outTask[w].pc \in {"quarantine", "handler"}
    /\ \/ /\ HoldsOutbox(w)
          /\ outbox' = [outbox EXCEPT ![e] = Release(@, "dead_letter")]
          /\ OutGoto(w, "record")
       \/ /\ HoldsOutbox(w)
          /\ outbox' = [outbox EXCEPT ![e] = Release(@, "dead_letter")]
          /\ IF outTask[w].pc = "quarantine" THEN OutGoto(w, "handler") ELSE OutIdle(w)
       \/ /\ IF outTask[w].pc = "quarantine" THEN OutGoto(w, "handler") ELSE OutIdle(w)
          /\ UNCHANGED outbox
    /\ UNCHANGED <<nextId, openTx, rowId, inbox, nextOutId, purged, traceVars, audit,
                   inTask, historyVars>>

\* _record_delivery: a second statement, fenced by nothing; its errors are swallowed.
RecordDelivery(w) ==
    LET e == outTask[w].job IN
    /\ outTask[w].pc = "record"
    /\ OutIdle(w)
    /\ \/ /\ trace[e] # NoText
          /\ telemetry' = [telemetry EXCEPT ![e] = "undelivered"]
       \/ UNCHANGED telemetry
    /\ UNCHANGED <<queueVars, trace, audit, inTask, historyVars>>

-----------------------------------------------------------------------------
\* A process stops: crash, or cancellation at shutdown, which is re-raised
\* without touching the row.  Its next incarnation starts with idle loops.
Crash(w) ==
    /\ inTask[w].pc # "idle" \/ outTask[w].pc # "idle"
    /\ InIdle(w)
    /\ OutIdle(w)
    /\ UNCHANGED <<queueVars, traceVars, audit, historyVars>>

\* RECOVER_STALE_INBOX_SQL over the rows whose lease is found too old: a row
\* resumes only from a persisted, non-empty response.
RecoverStaleInbox(stale) ==
    /\ stale # {}
    /\ \A e \in stale : inbox[e].status = "processing"
    /\ inbox' = [e \in Events |->
          IF e \notin stale THEN inbox[e]
          ELSE Release(inbox[e],
                 IF /\ inbox[e].attempts < InboxMaxAttempts
                    /\ trace[e] \notin {NoText, Empty}
                 THEN "retry" ELSE "dead_letter")]
    /\ UNCHANGED <<nextId, openTx, rowId, outbox, nextOutId, purged, traceVars, audit,
                   inTask, outTask, historyVars>>

\* Mutation: an expired send is retried while attempts are left.
RecoverStaleOutboxRetries(stale) ==
    /\ stale # {}
    /\ \A e \in stale : outbox[e].status = "sending"
    /\ outbox' = [e \in Events |->
          IF e \in stale
          THEN Release(outbox[e], PlanFailure(outbox[e].attempts, OutboxMaxAttempts))
          ELSE outbox[e]]
    /\ UNCHANGED <<nextId, openTx, rowId, inbox, nextOutId, purged, traceVars, audit,
                   inTask, outTask, historyVars>>

\* RECOVER_STALE_OUTBOX_SQL: an expired send is ambiguous, never a retry.
RecoverStaleOutbox(stale) ==
    /\ stale # {}
    /\ \A e \in stale : outbox[e].status = "sending"
    /\ outbox' = [e \in Events |->
          IF e \in stale THEN Release(outbox[e], "dead_letter") ELSE outbox[e]]
    /\ UNCHANGED <<nextId, openTx, rowId, inbox, nextOutId, purged, traceVars, audit,
                   inTask, outTask, historyVars>>

-----------------------------------------------------------------------------
\* The operator's CLI, scripts/hde_transport_admin.py: row and audit in one statement.

RequeueInbox(e) ==
    /\ inbox[e].status = "dead_letter"
    /\ audit[e].inbox < MaxInboxRequeues
    /\ inbox' = [inbox EXCEPT ![e] = Requeue(@)]
    /\ audit' = [audit EXCEPT ![e].inbox = audit[e].inbox + 1]
    /\ UNCHANGED <<nextId, openTx, rowId, outbox, nextOutId, purged, traceVars,
                   inTask, outTask, historyVars>>

RequeueOutbox(e) ==
    /\ outbox[e].status = "dead_letter"
    /\ audit[e].outbox < MaxOutboxRequeues
    /\ outbox' = [outbox EXCEPT ![e] = Requeue(@)]
    /\ audit' = [audit EXCEPT ![e].outbox = audit[e].outbox + 1]
    /\ UNCHANGED <<nextId, openTx, rowId, inbox, nextOutId, purged, traceVars,
                   inTask, outTask, historyVars>>

ReconcileDelivered(e) ==
    /\ outbox[e].status = "dead_letter"
    /\ trace[e] # NoText
    /\ telemetry' = [telemetry EXCEPT ![e] = "delivered"]
    /\ outbox' = [outbox EXCEPT ![e] = Deliver(@)]
    /\ purged' = purged \cup {e}
    /\ audit' = [audit EXCEPT ![e].reconciled = TRUE]
    /\ UNCHANGED <<nextId, openTx, rowId, inbox, nextOutId, trace, inTask, outTask,
                   historyVars>>

-----------------------------------------------------------------------------

InboxStep(w) ==
    \/ \E e \in Events : ClaimInbox(w, e)
    \/ LoadTrace(w) \/ RunTurn(w) \/ LogTrace(w) \/ VerifyTrace(w)
    \/ CompleteInbox(w) \/ FailInbox(w) \/ QuarantineInbox(w)

OutboxStep(w) ==
    \/ \E e \in Events : ClaimOutbox(w, e)
    \/ SendNotAttempted(w) \/ SendPost(w) \/ PostRateLimited(w) \/ PostAnswered(w)
    \/ MarkDelivered(w) \/ FailOutbox(w) \/ QuarantineOutbox(w) \/ RecordDelivery(w)

Webhook(e) == EnqueueBegin(e) \/ EnqueueCommit(e) \/ EnqueueAbort(e)

Operator(e) == RequeueInbox(e) \/ RequeueOutbox(e) \/ ReconcileDelivered(e)

Recovery == \E stale \in SUBSET Events : RecoverStaleInbox(stale) \/ RecoverStaleOutbox(stale)

Next ==
    \/ \E e \in Events : Webhook(e) \/ Operator(e)
    \/ \E w \in Workers : InboxStep(w) \/ OutboxStep(w) \/ Crash(w)
    \/ Recovery

Spec == Init /\ [][Next]_vars

\* What the event loop and the recovery timer give every process: a loop that can
\* step does, and a lease that stays out is found stale.  Nothing is assumed of the
\* webhook's callers, of the operator, or of crashes.
Fairness ==
    /\ \A w \in Workers : WF_vars(InboxStep(w)) /\ WF_vars(OutboxStep(w))
    /\ \A e \in Events :
         /\ WF_vars(\E stale \in SUBSET Events : e \in stale /\ RecoverStaleInbox(stale))
         /\ WF_vars(\E stale \in SUBSET Events : e \in stale /\ RecoverStaleOutbox(stale))

FairSpec == Spec /\ Fairness

-----------------------------------------------------------------------------
\* Properties

InPc  == {"idle", "load", "turn", "log", "verify", "resume", "complete",
          "fail", "quarantine"}
OutPc == {"idle", "send", "posted", "mark", "fail", "quarantine", "handler", "record"}

InboxRow  == [status : InboxStatus, attempts : Nat, owner : Workers \cup {Nobody}]
OutboxRow == [status : OutboxStatus, attempts : Nat, owner : Workers \cup {Nobody},
              id : Nat, text : Responses \cup {NoText}]
AuditRow  == [inbox : Nat, outbox : Nat, reconciled : BOOLEAN]
InTask    == [pc : InPc, job : Events \cup {NoEvent}, attempt : Nat, gen : Nat,
              text : Responses \cup {NoText}]
OutTask   == [pc : OutPc, job : Events \cup {NoEvent}, attempt : Nat, gen : Nat]

\* The columns' CHECK constraints, the loops' locals, and what is recorded of an event.
QueueType ==
    /\ nextId \in Nat /\ nextOutId \in Nat
    /\ openTx \in [Events -> Nat] /\ rowId \in [Events -> Nat]
    /\ inbox \in [Events -> InboxRow]
    /\ outbox \in [Events -> OutboxRow]
    /\ purged \in SUBSET Events

TaskType ==
    /\ inTask \in [Workers -> InTask]
    /\ outTask \in [Workers -> OutTask]
    /\ \A w \in Workers : /\ inTask[w].pc # "idle" => inTask[w].job \in Events
                          /\ outTask[w].pc # "idle" => outTask[w].job \in Events

RecordType ==
    /\ trace \in [Events -> Responses \cup {NoText}]
    /\ telemetry \in [Events -> {"unset", "delivered", "undelivered"}]
    /\ audit \in [Events -> AuditRow]
    /\ ahead \in [Events -> SUBSET Events]
    /\ turns \in [Events -> SUBSET Nat]
    /\ sent \in [Events -> SUBSET Nat]

\* Every variable has its type.
TypeOK == QueueType /\ TaskType /\ RecordType

\* Without the operator a conversation turn runs at most once: a loop about to call
\* process_message does so for a generation of the job in which no turn has run,
\* whatever leases expired, were recovered or were taken over before.
TurnOncePerGeneration ==
    \A w \in Workers : inTask[w].pc = "turn" => inTask[w].gen \notin turns[inTask[w].job]

\* D-021: only sends that surely did not start, and 429, are repeated.  A loop about
\* to POST does so for a generation in which no POST may have been accepted.
SendOncePerGeneration ==
    \A w \in Workers : outTask[w].pc = "send" => outTask[w].gen \notin sent[outTask[w].job]

\* Order within a ticket, end to end: a message whose older neighbour was committed
\* before it is answered after that neighbour and posted after it was delivered.
TicketOrder ==
    \A e \in Events : \A a \in ahead[e] :
        /\ turns[e] # {} => inbox[a].status = "processed"
        /\ sent[e] # {} => outbox[a].status = "delivered"

\* The two queues agree: an event has an outbox row exactly when its inbox row is
\* processed, and what waits to be sent is the persisted trace answer.
HandOff ==
    \A e \in Events :
        /\ (outbox[e].status # "absent") <=> (inbox[e].status = "processed")
        /\ (outbox[e].status \notin {"absent", "delivered"}) =>
              /\ outbox[e].text = trace[e]
              /\ trace[e] \notin {NoText, Empty, Blank}

\* The masked payload is purged with the delivery, not before and not later, and the
\* trace claims a delivery only of an answer that the outbox has as delivered.
DeliveryEvidence ==
    \A e \in Events :
        /\ (e \in purged) <=> (outbox[e].status = "delivered")
        /\ telemetry[e] = "delivered" => outbox[e].status = "delivered"

\* A row that waits can be claimed: no retry leaves a row with its attempts used up,
\* where no claim takes it, no recovery sees it and it blocks its ticket unseen.
NoStuckRow ==
    \A e \in Events :
        /\ inbox[e].status \in {"pending", "retry"} => inbox[e].attempts < InboxMaxAttempts
        /\ outbox[e].status \in {"pending", "retry"} => outbox[e].attempts < OutboxMaxAttempts

\* Inductive strengthenings.  A loop whose POST may yet be accepted, or was surely
\* not: no other loop is so for the same generation of the same job, and none is for
\* the generation of a row that waits to be claimed.
MaySend(w) == outTask[w].pc \in {"send", "posted", "fail"}

SendInv ==
    /\ \A w \in Workers : outTask[w].pc # "idle" =>
          LET e == outTask[w].job IN
          /\ outbox[e].status # "absent"
          /\ outTask[w].gen <= audit[e].outbox
          /\ HoldsOutbox(w) => outTask[w].gen = audit[e].outbox
          /\ outTask[w].pc \in {"send", "fail"} => outTask[w].gen \notin sent[e]
    /\ \A v, w \in Workers :
          /\ MaySend(v) /\ MaySend(w)
          /\ outTask[v].job = outTask[w].job
          /\ outTask[v].gen = outTask[w].gen
          => v = w
    /\ \A e \in Events :
          /\ \A g \in sent[e] : g <= audit[e].outbox
          /\ outbox[e].status = "absent" => sent[e] = {}
          /\ outbox[e].status \in {"pending", "retry"} =>
                /\ audit[e].outbox \notin sent[e]
                /\ \A w \in Workers : MaySend(w) /\ outTask[w].job = e =>
                                        outTask[w].gen # audit[e].outbox

\* The holder of a lease knows how many attempts its row has used.
LeaseInv ==
    /\ \A w \in Workers :
          /\ inTask[w].pc # "idle" /\ HoldsInbox(w) =>
                inTask[w].attempt = inbox[inTask[w].job].attempts
          /\ outTask[w].pc # "idle" /\ HoldsOutbox(w) =>
                outTask[w].attempt = outbox[outTask[w].job].attempts
    /\ \A e \in Events : inbox[e].status = "absent" => inbox[e].attempts = 0

\* The same of turns.  A loop that may yet run one, or surely ran none: when it has read
\* no trace, or failed before it could, and there is none to resume from.
MayTurn(w) ==
    \/ inTask[w].pc = "turn"
    \/ inTask[w].pc \in {"load", "fail"} /\ trace[inTask[w].job] = NoText

TurnTask(w) ==
    LET e == inTask[w].job IN
    inTask[w].pc # "idle" =>
        /\ inbox[e].status # "absent"
        /\ inTask[w].gen <= audit[e].inbox
        /\ HoldsInbox(w) => inTask[w].gen = audit[e].inbox
        /\ MayTurn(w) => inTask[w].gen \notin turns[e]
        /\ inTask[w].pc = "resume" => trace[e] # NoText

TurnRow(e) ==
    /\ \A g \in turns[e] : g <= audit[e].inbox
    /\ inbox[e].status = "absent" => turns[e] = {}
    /\ inbox[e].status \in {"pending", "retry"} /\ trace[e] = NoText =>
          /\ audit[e].inbox \notin turns[e]
          /\ \A w \in Workers : MayTurn(w) /\ inTask[w].job = e =>
                                  inTask[w].gen # audit[e].inbox

TurnInv ==
    /\ \A w \in Workers : TurnTask(w)
    /\ \A v, w \in Workers :
          MayTurn(v) /\ MayTurn(w) /\ inTask[v].job = inTask[w].job
             /\ inTask[v].gen = inTask[w].gen => v = w
    /\ \A e \in Events : TurnRow(e)

\* The answer that a loop completes its job with, and that of a processed row, is the one
\* that its trace has for good.
AnswerTask(w) ==
    /\ inTask[w].pc \in {"log", "verify"} => inTask[w].text # NoText
    /\ inTask[w].pc \in {"resume", "complete"} =>
          inTask[w].text = trace[inTask[w].job] /\ inTask[w].text # NoText

AnswerInv ==
    /\ \A w \in Workers : AnswerTask(w)
    /\ \A e \in Events :
          inbox[e].status = "processed" => trace[e] \notin {NoText, Empty, Blank}

\* A row that has ever been leased: its older neighbours were through before that.
Leased(e)     == inbox[e].status \notin {"absent", "pending"}
LeasedOut(e)  == outbox[e].status \notin {"absent", "pending"}

\* The ids keep the order of a ticket in either queue, and who has been leased has its
\* older neighbours behind it.
InOrder(e) ==
    /\ inbox[e].status = "absent" => ahead[e] = {}
    /\ \A a \in ahead[e] :
          inbox[a].status # "absent" /\ Ticket[a] = Ticket[e] /\ rowId[a] < rowId[e]
    /\ Leased(e) => ahead[e] \subseteq Processed
    /\ turns[e] # {} => Leased(e)

OutOrder(e) ==
    /\ outbox[e].id <= nextOutId
    /\ outbox[e].status # "absent" => \A a \in ahead[e] : outbox[a].id < outbox[e].id
    /\ LeasedOut(e) => ahead[e] \subseteq Delivered
    /\ sent[e] # {} => LeasedOut(e)

OrderInv ==
    /\ \A e \in Events : InOrder(e) /\ OutOrder(e)
    /\ \A w \in Workers : /\ inTask[w].pc # "idle" => Leased(inTask[w].job)
                          /\ outTask[w].pc # "idle" => LeasedOut(outTask[w].job)

\* The transport implements TicketFlow: an event's answer is the text of its trace
\* once its inbox row is processed.
FlowAnswer == [e \in Events |-> IF inbox[e].status = "processed" THEN trace[e] ELSE NoText]

Flow == INSTANCE TicketFlow
          WITH Answers <- Responses \ {Empty, Blank},
               accepted <- Accepted, behind <- ahead,
               answer <- FlowAnswer, delivered <- Delivered

ImplementsTicketFlow == Flow!FlowSpec

\* The head of line of e's ticket is a dead letter, which only the operator moves.
TicketBlocked(e) ==
    \E a \in Events : /\ Ticket[a] = Ticket[e]
                     /\ \/ inbox[a].status = "dead_letter"
                        \/ outbox[a].status = "dead_letter"

\* An event that the webhook acknowledged is answered, or its ticket waits for the
\* operator: no crash, lost lease or lost acknowledgement leaves it hanging.
EventuallySettled ==
    \A e \in Events : (e \in Accepted) ~> (e \in Delivered \/ TicketBlocked(e))

-----------------------------------------------------------------------------
\* What the documents say and the code does not keep

\* docs/operations.md, D-021: one event per ticket at a time, in order.
OneEventPerTicket ==
    \A a, b \in Events :
        a # b /\ Ticket[a] = Ticket[b] =>
            ~ (inbox[a].status = "processing" /\ inbox[b].status = "processing")

\* D-021: a confirmed delivery fixes the outbox and its trace telemetry together
\* (rows an operator reconciled by hand are left out).
DeliveredTelemetry ==
    \A e \in Events :
        outbox[e].status = "delivered" /\ ~ audit[e].reconciled => telemetry[e] = "delivered"
=============================================================================
