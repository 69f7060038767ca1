------------------------- MODULE HDETransportProofs -------------------------
(***************************************************************************)
(* Theorems about HDETransport, for any events, tickets, processes and     *)
(* bounds.                                                                 *)
(***************************************************************************)
EXTENDS HDETransport, TLAPS

-----------------------------------------------------------------------------
\* What the operators on rows and on the loops' local variables return

LEMMA InboxRowOps ==
    ASSUME NEW row \in InboxRow
    PROVE  /\ \A st \in InboxStatus : /\ Release(row, st) \in InboxRow
                                    /\ Release(row, st).status = st
                                    /\ Release(row, st).attempts = row.attempts
                                    /\ Release(row, st).owner = Nobody
           /\ \A st \in InboxStatus, w \in Workers :
                /\ Lease(row, st, w) \in InboxRow
                /\ Lease(row, st, w).status = st
                /\ Lease(row, st, w).attempts = row.attempts + 1
                /\ Lease(row, st, w).owner = w
           /\ Requeue(row) \in InboxRow
           /\ Requeue(row).status = "retry"
           /\ Requeue(row).attempts = 0
<1> DEFINE n == row.attempts + 1
<1>1. n \in Nat BY DEF InboxRow
<1>2. ASSUME NEW st, NEW w
      PROVE  Lease(row, st, w) = [row EXCEPT !.status = st, !.attempts = n, !.owner = w]
  BY DEF Lease
<1> HIDE DEF n
<1>3. ASSUME NEW st \in InboxStatus, NEW w \in Workers
      PROVE  /\ Lease(row, st, w) \in InboxRow
             /\ Lease(row, st, w).status = st
             /\ Lease(row, st, w).attempts = n
             /\ Lease(row, st, w).owner = w
  <2>1. Lease(row, st, w) = [row EXCEPT !.status = st, !.attempts = n, !.owner = w]
    BY <1>2
  <2>2. QED BY <1>1, <2>1 DEF InboxRow
<1>4. ASSUME NEW st \in InboxStatus
      PROVE  /\ Release(row, st) \in InboxRow
             /\ Release(row, st).status = st
             /\ Release(row, st).attempts = row.attempts
             /\ Release(row, st).owner = Nobody
  BY DEF InboxRow, Release
<1>5. /\ Requeue(row) \in InboxRow
      /\ Requeue(row).status = "retry"
      /\ Requeue(row).attempts = 0
  BY DEF InboxRow, InboxStatus, Requeue
<1>6. QED BY <1>3, <1>4, <1>5 DEF n

LEMMA OutboxRowOps ==
    ASSUME NEW row \in OutboxRow
    PROVE  /\ \A st \in OutboxStatus : /\ Release(row, st) \in OutboxRow
                                    /\ Release(row, st).status = st
                                    /\ Release(row, st).attempts = row.attempts
                                    /\ Release(row, st).owner = Nobody
           /\ \A st \in OutboxStatus, w \in Workers :
                /\ Lease(row, st, w) \in OutboxRow
                /\ Lease(row, st, w).status = st
                /\ Lease(row, st, w).attempts = row.attempts + 1
                /\ Lease(row, st, w).owner = w
           /\ Requeue(row) \in OutboxRow
           /\ Requeue(row).status = "retry"
           /\ Requeue(row).attempts = 0
           /\ Deliver(row) \in OutboxRow
           /\ Deliver(row).status = "delivered"
<1> DEFINE n == row.attempts + 1
<1>1. n \in Nat BY DEF OutboxRow
<1>2. ASSUME NEW st, NEW w
      PROVE  Lease(row, st, w) = [row EXCEPT !.status = st, !.attempts = n, !.owner = w]
  BY DEF Lease
<1> HIDE DEF n
<1>3. ASSUME NEW st \in OutboxStatus, NEW w \in Workers
      PROVE  /\ Lease(row, st, w) \in OutboxRow
             /\ Lease(row, st, w).status = st
             /\ Lease(row, st, w).attempts = n
             /\ Lease(row, st, w).owner = w
  <2>1. Lease(row, st, w) = [row EXCEPT !.status = st, !.attempts = n, !.owner = w]
    BY <1>2
  <2>2. QED BY <1>1, <2>1 DEF OutboxRow
<1>4. ASSUME NEW st \in OutboxStatus
      PROVE  /\ Release(row, st) \in OutboxRow
             /\ Release(row, st).status = st
             /\ Release(row, st).attempts = row.attempts
             /\ Release(row, st).owner = Nobody
  BY DEF OutboxRow, Release
<1>5. /\ Requeue(row) \in OutboxRow
      /\ Requeue(row).status = "retry"
      /\ Requeue(row).attempts = 0
  BY DEF OutboxRow, OutboxStatus, Requeue
<1>6. /\ Deliver(row) \in OutboxRow
      /\ Deliver(row).status = "delivered"
  BY DEF OutboxRow, OutboxStatus, Deliver
<1>7. QED BY <1>3, <1>4, <1>5, <1>6 DEF n

\* A loop that moves on keeps its job and its lease; a loop that stops keeps nothing.
LEMMA InTaskOps ==
    ASSUME TypeOK, NEW w \in Workers
    PROVE  /\ \A pc \in InPc : InGoto(w, pc) =>
                /\ inTask' \in [Workers -> InTask]
                /\ inTask'[w].pc = pc
                /\ inTask'[w].job = inTask[w].job
                /\ inTask'[w].attempt = inTask[w].attempt
                /\ inTask'[w].gen = inTask[w].gen
                /\ \A v \in Workers \ {w} : inTask'[v] = inTask[v]
           /\ \A pc \in InPc, text \in Responses \cup {NoText} :
                InCarry(w, pc, text) =>
                  /\ inTask' \in [Workers -> InTask]
                  /\ inTask'[w].pc = pc
                  /\ inTask'[w].job = inTask[w].job
                  /\ inTask'[w].attempt = inTask[w].attempt
                  /\ inTask'[w].gen = inTask[w].gen
                  /\ \A v \in Workers \ {w} : inTask'[v] = inTask[v]
           /\ InIdle(w) =>
                /\ inTask' \in [Workers -> InTask]
                /\ inTask'[w].pc = "idle"
                /\ \A v \in Workers \ {w} : inTask'[v] = inTask[v]
<1>1. inTask \in [Workers -> InTask] /\ inTask[w] \in InTask BY DEF TypeOK, TaskType
<1>2. ASSUME NEW pc \in InPc, InGoto(w, pc)
      PROVE  /\ inTask' \in [Workers -> InTask]
             /\ inTask'[w].pc = pc
             /\ inTask'[w].job = inTask[w].job
             /\ inTask'[w].attempt = inTask[w].attempt
             /\ inTask'[w].gen = inTask[w].gen
             /\ \A v \in Workers \ {w} : inTask'[v] = inTask[v]
  <2> DEFINE t == [inTask[w] EXCEPT !.pc = pc]
  <2>1. /\ t \in InTask /\ t.pc = pc /\ t.job = inTask[w].job
        /\ t.attempt = inTask[w].attempt /\ t.gen = inTask[w].gen
    BY <1>1 DEF InTask
  <2>2. inTask' = [inTask EXCEPT ![w] = t] BY <1>2 DEF InGoto
  <2> HIDE DEF t
  <2>3. QED BY <1>1, <2>1, <2>2
<1>3. ASSUME InIdle(w)
      PROVE  /\ inTask' \in [Workers -> InTask]
             /\ inTask'[w].pc = "idle"
             /\ \A v \in Workers \ {w} : inTask'[v] = inTask[v]
  <2>1. IdleIn \in InTask /\ IdleIn.pc = "idle" BY DEF IdleIn, InTask, InPc
  <2>2. QED BY <1>1, <1>3, <2>1 DEF InIdle
<1>4. ASSUME NEW pc \in InPc, NEW text \in Responses \cup {NoText},
             InCarry(w, pc, text)
      PROVE  /\ inTask' \in [Workers -> InTask]
             /\ inTask'[w].pc = pc
             /\ inTask'[w].job = inTask[w].job
             /\ inTask'[w].attempt = inTask[w].attempt
             /\ inTask'[w].gen = inTask[w].gen
             /\ \A v \in Workers \ {w} : inTask'[v] = inTask[v]
  <2> DEFINE t == [inTask[w] EXCEPT !.pc = pc, !.text = text]
  <2>1. /\ t \in InTask /\ t.pc = pc /\ t.job = inTask[w].job
        /\ t.attempt = inTask[w].attempt /\ t.gen = inTask[w].gen
    BY <1>1 DEF InTask
  <2>2. inTask' = [inTask EXCEPT ![w] = t] BY <1>4 DEF InCarry
  <2> HIDE DEF t
  <2>3. QED BY <1>1, <2>1, <2>2
<1>5. QED BY <1>2, <1>3, <1>4

LEMMA OutTaskOps ==
    ASSUME TypeOK, NEW w \in Workers
    PROVE  /\ \A pc \in OutPc : OutGoto(w, pc) =>
                /\ outTask' \in [Workers -> OutTask]
                /\ outTask'[w].pc = pc
                /\ outTask'[w].job = outTask[w].job
                /\ outTask'[w].attempt = outTask[w].attempt
                /\ outTask'[w].gen = outTask[w].gen
                /\ \A v \in Workers \ {w} : outTask'[v] = outTask[v]
           /\ OutIdle(w) =>
                /\ outTask' \in [Workers -> OutTask]
                /\ outTask'[w].pc = "idle"
                /\ \A v \in Workers \ {w} : outTask'[v] = outTask[v]
<1>1. outTask \in [Workers -> OutTask] /\ outTask[w] \in OutTask BY DEF TypeOK, TaskType
<1>2. ASSUME NEW pc \in OutPc, OutGoto(w, pc)
      PROVE  /\ outTask' \in [Workers -> OutTask]
             /\ outTask'[w].pc = pc
             /\ outTask'[w].job = outTask[w].job
             /\ outTask'[w].attempt = outTask[w].attempt
             /\ outTask'[w].gen = outTask[w].gen
             /\ \A v \in Workers \ {w} : outTask'[v] = outTask[v]
  <2> DEFINE t == [outTask[w] EXCEPT !.pc = pc]
  <2>1. /\ t \in OutTask /\ t.pc = pc /\ t.job = outTask[w].job
        /\ t.attempt = outTask[w].attempt /\ t.gen = outTask[w].gen
    BY <1>1 DEF OutTask
  <2>2. outTask' = [outTask EXCEPT ![w] = t] BY <1>2 DEF OutGoto
  <2> HIDE DEF t
  <2>3. QED BY <1>1, <2>1, <2>2
<1>3. ASSUME OutIdle(w)
      PROVE  /\ outTask' \in [Workers -> OutTask]
             /\ outTask'[w].pc = "idle"
             /\ \A v \in Workers \ {w} : outTask'[v] = outTask[v]
  <2>1. IdleOut \in OutTask /\ IdleOut.pc = "idle" BY DEF IdleOut, OutTask, OutPc
  <2>2. QED BY <1>1, <1>3, <2>1 DEF OutIdle
<1>4. QED BY <1>2, <1>3

-----------------------------------------------------------------------------
\* Types

LEMMA TypeWebhook ==
    ASSUME TypeOK, NEW e \in Events, Webhook(e)
    PROVE  TypeOK'
<1> USE DEF TypeOK, RecordType, traceVars, historyVars
<1>1. TaskType' BY DEF Webhook, EnqueueBegin, EnqueueCommit, EnqueueAbort, TaskType
<1>2. CASE EnqueueBegin(e)
  BY <1>1, <1>2 DEF EnqueueBegin, QueueType
<1>3. CASE EnqueueCommit(e)
  <2>1. Release(inbox[e], "pending") \in InboxRow
    BY InboxRowOps DEF QueueType, InboxStatus
  <2>2. QueueType' BY <1>3, <2>1 DEF EnqueueCommit, QueueType
  <2>3. ahead' \in [Events -> SUBSET Events]
    <3>1. {a \in Accepted : Ticket[a] = Ticket[e] /\ rowId[a] < openTx[e]} \in SUBSET Events
      BY DEF Accepted
    <3>2. QED BY <1>3, <3>1 DEF EnqueueCommit
  <2>4. QED BY <1>1, <1>3, <2>2, <2>3 DEF EnqueueCommit
<1>4. CASE EnqueueAbort(e)
  BY <1>1, <1>4 DEF EnqueueAbort, QueueType
<1>5. QED BY <1>2, <1>3, <1>4 DEF Webhook

LEMMA TypeInbox ==
    ASSUME TypeOK, NEW w \in Workers, InboxStep(w)
    PROVE  TypeOK'
<1> USE DEF TypeOK, traceVars, historyVars, queueVars
<1> DEFINE e == inTask[w].job
<1> USE InTaskOps
<1>1. ASSUME NEW f \in Events, ClaimInbox(w, f) PROVE TypeOK'
  <2>1. Lease(inbox[f], "processing", w) \in InboxRow
    BY InboxRowOps DEF QueueType, InboxStatus
  <2>2. QueueType' BY <1>1, <2>1 DEF ClaimInbox, QueueType
  <2>3. inbox[f].attempts + 1 \in Nat BY DEF QueueType, InboxRow
  <2>4. [pc |-> "load", job |-> f, attempt |-> inbox[f].attempts + 1,
         gen |-> audit[f].inbox, text |-> NoText] \in InTask
    BY <2>3 DEF InTask, InPc, RecordType, AuditRow
  <2>5. TaskType' BY <1>1, <2>4 DEF ClaimInbox, TaskType
  <2>6. QED BY <1>1, <2>2, <2>5 DEF ClaimInbox, RecordType
<1>2. CASE LoadTrace(w)
  <2>1. PICK pc \in InPc, text \in Responses \cup {NoText} :
          InGoto(w, pc) \/ InCarry(w, pc, text)
    BY <1>2 DEF LoadTrace, InboxHandler, InPc, TaskType, RecordType
  <2>2. TaskType' BY <1>2, <2>1 DEF LoadTrace, TaskType
  <2>3. QED BY <1>2, <2>2 DEF LoadTrace, QueueType, RecordType
<1>3. CASE RunTurn(w)
  <2>1. PICK pc \in InPc, text \in Responses \cup {NoText} :
          InGoto(w, pc) \/ InCarry(w, pc, text)
    BY <1>3 DEF RunTurn, InboxHandler, InPc
  <2>2. TaskType' BY <1>3, <2>1 DEF RunTurn, TaskType
  <2>3. turns' \in [Events -> SUBSET Nat] BY <1>3 DEF RunTurn, TaskType, RecordType, InTask
  <2>4. QED BY <1>3, <2>2, <2>3 DEF RunTurn, QueueType, RecordType
<1>4. CASE LogTrace(w)
  <2>1. PICK pc \in InPc : InGoto(w, pc) BY <1>4 DEF LogTrace, InboxHandler, InPc
  <2>2. TaskType' BY <1>4, <2>1 DEF LogTrace, TaskType
  <2>3. trace' \in [Events -> Responses \cup {NoText}]
    BY <1>4 DEF LogTrace, TaskType, RecordType, InTask
  <2>4. QED BY <1>4, <2>2, <2>3 DEF LogTrace, QueueType, RecordType
<1>5. CASE VerifyTrace(w)
  <2>1. PICK pc \in InPc : InGoto(w, pc) BY <1>5 DEF VerifyTrace, InboxHandler, InPc
  <2>2. TaskType' BY <1>5, <2>1 DEF VerifyTrace, TaskType
  <2>3. QED BY <1>5, <2>2 DEF VerifyTrace, QueueType, RecordType
<1>6. CASE CompleteInbox(w)
  <2> DEFINE row == [status |-> "pending", attempts |-> 0, owner |-> Nobody,
                     id |-> nextOutId + 1, text |-> inTask[w].text]
  <2>1. InIdle(w) \/ \E pc \in InPc : InGoto(w, pc)
    BY <1>6 DEF CompleteInbox, InboxHandler, InPc
  <2>2. TaskType' BY <1>6, <2>1 DEF CompleteInbox, TaskType
  <2>3. Release(inbox[e], "processed") \in InboxRow
    BY <1>6, InboxRowOps DEF CompleteInbox, TaskType, QueueType, InboxStatus
  <2>4. nextOutId + 1 \in Nat /\ inTask[w].text \in Responses \cup {NoText}
    BY DEF QueueType, TaskType, InTask
  <2>5. row \in OutboxRow BY <2>4 DEF OutboxRow, OutboxStatus
  <2>6. inbox' \in [Events -> InboxRow] BY <1>6, <2>3 DEF CompleteInbox, QueueType
  <2>7. outbox' \in [Events -> OutboxRow] /\ nextOutId' \in Nat
    BY <1>6, <2>4, <2>5 DEF CompleteInbox, QueueType
  <2>8. QED BY <1>6, <2>2, <2>6, <2>7 DEF CompleteInbox, QueueType, RecordType
<1>7. CASE FailInbox(w)
  <2>1. TaskType' BY <1>7 DEF FailInbox, TaskType
  <2>2. PlanFailure(inTask[w].attempt, InboxMaxAttempts) \in InboxStatus
    BY DEF PlanFailure, InboxStatus
  <2>3. Release(inbox[e], PlanFailure(inTask[w].attempt, InboxMaxAttempts)) \in InboxRow
    BY <1>7, <2>2, InboxRowOps DEF FailInbox, TaskType, QueueType
  <2>4. QED BY <1>7, <2>1, <2>3 DEF FailInbox, QueueType, RecordType
<1>8. CASE QuarantineInbox(w)
  <2>1. TaskType' BY <1>8 DEF QuarantineInbox, TaskType
  <2>2. Release(inbox[e], "dead_letter") \in InboxRow
    BY <1>8, InboxRowOps DEF QuarantineInbox, TaskType, QueueType, InboxStatus
  <2>3. QED BY <1>8, <2>1, <2>2 DEF QuarantineInbox, QueueType, RecordType
<1>9. QED BY <1>1, <1>2, <1>3, <1>4, <1>5, <1>6, <1>7, <1>8 DEF InboxStep

LEMMA TypeOutbox ==
    ASSUME TypeOK, NEW w \in Workers, OutboxStep(w)
    PROVE  TypeOK'
<1> USE DEF TypeOK, traceVars, historyVars, queueVars
<1> DEFINE e == outTask[w].job
<1> USE OutTaskOps
<1>1. ASSUME NEW f \in Events, ClaimOutbox(w, f) PROVE TypeOK'
  <2>1. Lease(outbox[f], "sending", w) \in OutboxRow
    BY OutboxRowOps DEF QueueType, OutboxStatus
  <2>2. QueueType' BY <1>1, <2>1 DEF ClaimOutbox, QueueType
  <2>3. outbox[f].attempts + 1 \in Nat BY DEF QueueType, OutboxRow
  <2>4. [pc |-> "send", job |-> f, attempt |-> outbox[f].attempts + 1,
         gen |-> audit[f].outbox] \in OutTask
    BY <2>3 DEF OutTask, OutPc, RecordType, AuditRow
  <2>5. TaskType' BY <1>1, <2>4 DEF ClaimOutbox, TaskType
  <2>6. QED BY <1>1, <2>2, <2>5 DEF ClaimOutbox, RecordType
<1>2. CASE SendNotAttempted(w)
  <2>1. TaskType' BY <1>2 DEF SendNotAttempted, TaskType, OutPc
  <2>2. QED BY <1>2, <2>1 DEF SendNotAttempted, QueueType, RecordType
<1>3. CASE SendPost(w)
  <2>1. TaskType' BY <1>3 DEF SendPost, TaskType, OutPc
  <2>2. sent' \in [Events -> SUBSET Nat] BY <1>3 DEF SendPost, TaskType, RecordType, OutTask
  <2>3. QED BY <1>3, <2>1, <2>2 DEF SendPost, QueueType, RecordType
<1>4. CASE PostRateLimited(w)
  <2>1. TaskType' BY <1>4 DEF PostRateLimited, TaskType, OutPc
  <2>2. sent' \in [Events -> SUBSET Nat] BY <1>4 DEF PostRateLimited, TaskType, RecordType
  <2>3. QED BY <1>4, <2>1, <2>2 DEF PostRateLimited, QueueType, RecordType
<1>5. CASE PostAnswered(w)
  <2>1. TaskType' BY <1>5 DEF PostAnswered, TaskType, OutPc
  <2>2. QED BY <1>5, <2>1 DEF PostAnswered, QueueType, RecordType
<1>6. CASE MarkDelivered(w)
  <2>1. OutIdle(w) \/ \E pc \in OutPc : OutGoto(w, pc) BY <1>6 DEF MarkDelivered, OutPc
  <2>2. TaskType' BY <1>6, <2>1 DEF MarkDelivered, TaskType
  <2>3. e \in Events /\ Deliver(outbox[e]) \in OutboxRow
    BY <1>6, OutboxRowOps DEF MarkDelivered, TaskType, QueueType
  <2>4. QueueType' BY <1>6, <2>3 DEF MarkDelivered, QueueType
  <2>5. QED BY <1>6, <2>2, <2>4 DEF MarkDelivered, RecordType
<1>7. CASE FailOutbox(w)
  <2>1. \E pc \in OutPc : OutGoto(w, pc) BY <1>7 DEF FailOutbox, OutPc
  <2>2. TaskType' BY <1>7, <2>1 DEF FailOutbox, TaskType
  <2>3. PlanFailure(outTask[w].attempt, OutboxMaxAttempts) \in OutboxStatus
    BY DEF PlanFailure, OutboxStatus
  <2>4. Release(outbox[e], PlanFailure(outTask[w].attempt, OutboxMaxAttempts)) \in OutboxRow
    BY <1>7, <2>3, OutboxRowOps DEF FailOutbox, TaskType, QueueType
  <2>5. QED BY <1>7, <2>2, <2>4 DEF FailOutbox, QueueType, RecordType
<1>8. CASE QuarantineOutbox(w)
  <2>1. OutIdle(w) \/ \E pc \in OutPc : OutGoto(w, pc) BY <1>8 DEF QuarantineOutbox, OutPc
  <2>2. TaskType' BY <1>8, <2>1 DEF QuarantineOutbox, TaskType
  <2>3. Release(outbox[e], "dead_letter") \in OutboxRow
    BY <1>8, OutboxRowOps DEF QuarantineOutbox, TaskType, QueueType, OutboxStatus
  <2>4. QED BY <1>8, <2>2, <2>3 DEF QuarantineOutbox, QueueType, RecordType
<1>9. CASE RecordDelivery(w)
  <2>1. TaskType' BY <1>9 DEF RecordDelivery, TaskType
  <2>2. QED BY <1>9, <2>1 DEF RecordDelivery, QueueType, RecordType
<1>10. QED BY <1>1, <1>2, <1>3, <1>4, <1>5, <1>6, <1>7, <1>8, <1>9 DEF OutboxStep

LEMMA TypeCrash ==
    ASSUME TypeOK, NEW w \in Workers, Crash(w)
    PROVE  TypeOK'
<1>1. TaskType' BY InTaskOps, OutTaskOps DEF Crash, TypeOK, TaskType
<1>2. QED BY <1>1 DEF Crash, TypeOK, QueueType, RecordType, queueVars, traceVars, historyVars

LEMMA TypeRecovery ==
    ASSUME TypeOK, Recovery
    PROVE  TypeOK'
<1> USE DEF TypeOK, traceVars, historyVars
<1>1. ASSUME NEW stale \in SUBSET Events, RecoverStaleInbox(stale) PROVE TypeOK'
  <2>1. \A e \in Events, st \in InboxStatus : Release(inbox[e], st) \in InboxRow
    BY InboxRowOps DEF QueueType
  <2>2. inbox' \in [Events -> InboxRow]
    BY <1>1, <2>1 DEF RecoverStaleInbox, QueueType, InboxStatus
  <2>3. QED BY <1>1, <2>2 DEF RecoverStaleInbox, QueueType, TaskType, RecordType
<1>2. ASSUME NEW stale \in SUBSET Events, RecoverStaleOutbox(stale) PROVE TypeOK'
  <2>1. \A e \in Events : Release(outbox[e], "dead_letter") \in OutboxRow
    BY OutboxRowOps DEF QueueType, OutboxStatus
  <2>2. outbox' \in [Events -> OutboxRow] BY <1>2, <2>1 DEF RecoverStaleOutbox, QueueType
  <2>3. QED BY <1>2, <2>2 DEF RecoverStaleOutbox, QueueType, TaskType, RecordType
<1>3. QED BY <1>1, <1>2 DEF Recovery

LEMMA TypeOperator ==
    ASSUME TypeOK, NEW e \in Events, Operator(e)
    PROVE  TypeOK'
<1> USE DEF TypeOK, traceVars, historyVars
<1>1. /\ Requeue(inbox[e]) \in InboxRow
      /\ Requeue(outbox[e]) \in OutboxRow
      /\ Deliver(outbox[e]) \in OutboxRow
  BY InboxRowOps, OutboxRowOps DEF QueueType
<1>2. /\ audit[e].inbox + 1 \in Nat
      /\ audit[e].outbox + 1 \in Nat
  BY DEF RecordType, AuditRow
<1>3. ASSUME NEW n \in Nat
      PROVE  /\ [audit[e] EXCEPT !.inbox = n] \in AuditRow
             /\ [audit[e] EXCEPT !.outbox = n] \in AuditRow
             /\ [audit[e] EXCEPT !.reconciled = TRUE] \in AuditRow
  BY DEF RecordType, AuditRow
<1>4. TaskType' BY DEF Operator, RequeueInbox, RequeueOutbox, ReconcileDelivered, TaskType
<1>5. CASE RequeueInbox(e)
  <2>1. audit' \in [Events -> AuditRow] BY <1>2, <1>3, <1>5 DEF RequeueInbox, RecordType
  <2>2. QED BY <1>1, <1>4, <1>5, <2>1 DEF RequeueInbox, QueueType, RecordType
<1>6. CASE RequeueOutbox(e)
  <2>1. audit' \in [Events -> AuditRow] BY <1>2, <1>3, <1>6 DEF RequeueOutbox, RecordType
  <2>2. QED BY <1>1, <1>4, <1>6, <2>1 DEF RequeueOutbox, QueueType, RecordType
<1>7. CASE ReconcileDelivered(e)
  <2>1. audit' \in [Events -> AuditRow] BY <1>3, <1>7 DEF ReconcileDelivered, RecordType
  <2>2. QED BY <1>1, <1>4, <1>7, <2>1 DEF ReconcileDelivered, QueueType, RecordType
<1>8. QED BY <1>5, <1>6, <1>7 DEF Operator

\* Every reachable state is well typed: the columns keep their CHECK constraints and
\* a loop that is at work holds a job.
THEOREM TypeCorrect == Spec => []TypeOK
<1>1. Init => TypeOK
  <2>1. /\ NoInboxRow \in InboxRow /\ NoOutboxRow \in OutboxRow
        /\ IdleIn \in InTask /\ IdleIn.pc = "idle"
        /\ IdleOut \in OutTask /\ IdleOut.pc = "idle"
        /\ [inbox |-> 0, outbox |-> 0, reconciled |-> FALSE] \in AuditRow
    BY DEF NoInboxRow, NoOutboxRow, InboxRow, OutboxRow, InboxStatus, OutboxStatus,
           IdleIn, IdleOut, InTask, OutTask, InPc, OutPc, AuditRow
  <2>2. QED BY <2>1 DEF Init, TypeOK, QueueType, TaskType, RecordType
<1>2. TypeOK /\ [Next]_vars => TypeOK'
  <2> SUFFICES ASSUME TypeOK, [Next]_vars PROVE TypeOK' OBVIOUS
  <2>1. CASE UNCHANGED vars BY <2>1 DEF vars, TypeOK, QueueType, TaskType, RecordType
  <2>2. CASE Next BY <2>2, TypeWebhook, TypeInbox, TypeOutbox, TypeCrash, TypeRecovery,
                     TypeOperator DEF Next
  <2>3. QED BY <2>1, <2>2
<1>3. QED BY <1>1, <1>2, PTL DEF Spec

-----------------------------------------------------------------------------
\* Sends

\* Actions that leave the outbox, its loops and what was sent alone.
LEMMA SendStutter ==
    ASSUME TypeOK, SendInv, UNCHANGED <<outTask, sent, outbox>>,
           \A e \in Events : audit'[e].outbox = audit[e].outbox
    PROVE  SendInv'
BY DEF TypeOK, TaskType, SendInv, MaySend, HoldsOutbox

\* Loops that stop, or have left the POST behind, and rows that are settled take
\* nothing away that the other loops rely on.
LEMMA SendLeave ==
    ASSUME TypeOK, SendInv, sent' = sent,
           \A e \in Events : audit'[e].outbox = audit[e].outbox,
           \A w \in Workers :
              \/ outTask'[w] = outTask[w]
              \/ outTask'[w].pc = "idle"
              \/ /\ outTask'[w].pc \notin {"send", "posted", "fail"}
                 /\ outTask[w].pc # "idle"
                 /\ outTask'[w].job = outTask[w].job
                 /\ outTask'[w].gen = outTask[w].gen,
           \A e \in Events :
              \/ outbox'[e] = outbox[e]
              \/ outbox'[e].status \in {"delivered", "dead_letter"}
    PROVE  SendInv'
<1>1. ASSUME NEW v \in Workers PROVE MaySend(v)' => MaySend(v) /\ outTask'[v] = outTask[v]
  BY DEF MaySend
<1>2. QED BY <1>1 DEF TypeOK, TaskType, SendInv, MaySend, HoldsOutbox

\* CompleteInbox: the new row meets no loop and no POST.
LEMMA SendComplete ==
    ASSUME TypeOK, SendInv, NEW w \in Workers, CompleteInbox(w)
    PROVE  SendInv'
<1> DEFINE e == inTask[w].job
<1>1. e \in Events BY DEF CompleteInbox, TypeOK, TaskType
<1>2. UNCHANGED <<outTask, sent, audit>> BY DEF CompleteInbox, historyVars
<1>3. CASE outbox' = outbox BY <1>2, <1>3, SendStutter
<1>4. CASE outbox' # outbox
  <2>1. /\ outbox[e].status = "absent"
        /\ outbox'[e].status = "pending"
        /\ \A f \in Events \ {e} : outbox'[f] = outbox[f]
    BY <1>1, <1>4 DEF CompleteInbox, TypeOK, QueueType
  <2>2. sent[e] = {} /\ \A v \in Workers : outTask[v].pc # "idle" => outTask[v].job # e
    BY <1>1, <2>1 DEF SendInv
  <2>3. QED BY <1>1, <1>2, <2>1, <2>2 DEF TypeOK, TaskType, SendInv, MaySend, HoldsOutbox
<1>5. QED BY <1>3, <1>4

\* ClaimOutbox: only a row that no POST and no other loop is at is claimed.
LEMMA SendClaim ==
    ASSUME TypeOK, SendInv, NEW w \in Workers, NEW e \in Events, ClaimOutbox(w, e)
    PROVE  SendInv'
<1>1. UNCHANGED <<sent, audit>> BY DEF ClaimOutbox, historyVars
<1>2. /\ outbox[e].status \in {"pending", "retry"}
      /\ outbox'[e].status = "sending"
      /\ outbox'[e].owner = w
      /\ \A f \in Events \ {e} : outbox'[f] = outbox[f]
  BY OutboxRowOps DEF ClaimOutbox, OutboxClaimable, TypeOK, QueueType, OutboxStatus
<1>3. /\ outTask[w].pc = "idle"
      /\ \A v \in Workers \ {w} : outTask'[v] = outTask[v]
      /\ \/ outTask'[w] = outTask[w]
         \/ /\ outTask'[w].pc = "send"
            /\ outTask'[w].job = e
            /\ outTask'[w].gen = audit[e].outbox
  BY DEF ClaimOutbox, TypeOK, TaskType
<1>4. audit[e].outbox \in Nat BY DEF TypeOK, RecordType, AuditRow
<1>5. QED BY <1>1, <1>2, <1>3, <1>4 DEF TypeOK, TaskType, SendInv, MaySend, HoldsOutbox

\* The loop that sends: the POST is skipped, leaves, or is refused.
LEMMA SendAttempt ==
    ASSUME TypeOK, SendInv, NEW w \in Workers,
           SendNotAttempted(w) \/ SendPost(w) \/ PostRateLimited(w)
    PROVE  SendInv'
<1> DEFINE e == outTask[w].job
           g == outTask[w].gen
<1>1. e \in Events /\ outTask[w].pc # "idle"
  BY DEF SendNotAttempted, SendPost, PostRateLimited, TypeOK, TaskType
<1>2. /\ UNCHANGED <<outbox, audit>>
      /\ outTask'[w].job = e /\ outTask'[w].gen = g
      /\ outTask'[w].pc \in {"posted", "fail"}
      /\ \A v \in Workers \ {w} : outTask'[v] = outTask[v]
  BY OutTaskOps DEF SendNotAttempted, SendPost, PostRateLimited, queueVars, OutPc
<1>3. \A v \in Workers : MaySend(v)' => MaySend(v)
  BY <1>2 DEF MaySend, SendNotAttempted, SendPost, PostRateLimited
<1>4. MaySend(w) BY DEF MaySend, SendNotAttempted, SendPost, PostRateLimited
<1>5. /\ \A f \in Events \ {e} : sent'[f] = sent[f]
      /\ \/ sent'[e] = sent[e] /\ outTask[w].pc = "send"
         \/ sent'[e] = sent[e] \cup {g} /\ outTask'[w].pc = "posted"
         \/ sent'[e] = sent[e] \ {g} /\ outTask'[w].pc = "fail"
  BY <1>1, <1>2, OutTaskOps
     DEF SendNotAttempted, SendPost, PostRateLimited, historyVars, TypeOK, RecordType, OutPc
<1>6. /\ \A v \in Workers : outTask'[v].job = outTask[v].job /\ outTask'[v].gen = outTask[v].gen
      /\ \A v \in Workers : HoldsOutbox(v)' <=> HoldsOutbox(v)
      /\ \A v \in Workers : outTask'[v].pc # "idle" => outTask[v].pc # "idle"
  BY <1>1, <1>2 DEF HoldsOutbox
<1>7. \A v \in Workers : outTask'[v].pc \in {"send", "fail"} =>
        outTask'[v].gen \notin sent'[outTask'[v].job]
  <2> SUFFICES ASSUME NEW v \in Workers, outTask'[v].pc \in {"send", "fail"}
               PROVE  outTask[v].gen \notin sent'[outTask[v].job]
    BY <1>6
  <2>1. MaySend(v) /\ outTask[v].job \in Events
    BY <1>3 DEF MaySend, TypeOK, TaskType
  <2>2. CASE v = w
    <3>1. outTask[w].pc = "send" => g \notin sent[e] BY <1>1 DEF SendInv
    <3>2. QED BY <1>1, <1>5, <2>2, <3>1
  <2>3. CASE v # w
    <3>1. outTask[v].job = e => outTask[v].gen # g BY <1>4, <2>1, <2>3 DEF SendInv
    <3>2. outTask[v].gen \notin sent[outTask[v].job]
      BY <1>2, <1>6, <2>3 DEF SendInv
    <3>3. QED BY <1>1, <1>5, <2>1, <3>1, <3>2
  <2>4. QED BY <2>2, <2>3
<1>8. \A f \in Events :
         /\ \A n \in sent'[f] : n <= audit'[f].outbox
         /\ outbox'[f].status = "absent" => sent'[f] = {}
         /\ outbox'[f].status \in {"pending", "retry"} =>
              /\ audit'[f].outbox \notin sent'[f]
              /\ \A v \in Workers : MaySend(v)' /\ outTask'[v].job = f =>
                                      outTask'[v].gen # audit'[f].outbox
  BY <1>1, <1>2, <1>3, <1>4, <1>5, <1>6 DEF SendInv
<1>9. QED BY <1>2, <1>3, <1>6, <1>7, <1>8 DEF SendInv

\* fail_outbox: the row waits again, and its generation has no POST and no other loop.
LEMMA SendFail ==
    ASSUME TypeOK, SendInv, NEW w \in Workers, FailOutbox(w)
    PROVE  SendInv'
<1> DEFINE e == outTask[w].job
<1>1. e \in Events /\ outTask[w].pc = "fail" BY DEF FailOutbox, TypeOK, TaskType
<1>2. /\ UNCHANGED <<sent, audit>>
      /\ outTask'[w].job = e /\ outTask'[w].gen = outTask[w].gen
      /\ outTask'[w].pc \in {"record", "handler"}
      /\ \A v \in Workers \ {w} : outTask'[v] = outTask[v]
  <2>1. PICK pc \in {"record", "handler"} : OutGoto(w, pc) BY DEF FailOutbox
  <2>2. pc \in OutPc BY DEF OutPc
  <2>3. QED BY <2>1, <2>2, OutTaskOps DEF FailOutbox, historyVars
<1>3. CASE outbox' = outbox BY <1>1, <1>2, <1>3, SendLeave
<1>4. CASE outbox' # outbox
  <2>1. /\ HoldsOutbox(w)
        /\ outbox'[e].status \in {"retry", "dead_letter"}
        /\ \A f \in Events \ {e} : outbox'[f] = outbox[f]
    <3>1. PlanFailure(outTask[w].attempt, OutboxMaxAttempts) \in {"retry", "dead_letter"}
      BY DEF PlanFailure
    <3>2. QED BY <1>1, <1>4, <3>1, OutboxRowOps
                 DEF FailOutbox, TypeOK, QueueType, OutboxStatus
  <2>2. /\ outTask[w].gen = audit[e].outbox
        /\ outTask[w].gen \notin sent[e]
        /\ \A v \in Workers \ {w} :
             MaySend(v) /\ outTask[v].job = e => outTask[v].gen # audit[e].outbox
    BY <1>1, <2>1 DEF SendInv, MaySend
  <2>3. QED BY <1>1, <1>2, <2>1, <2>2 DEF TypeOK, TaskType, SendInv, MaySend, HoldsOutbox
<1>5. QED BY <1>3, <1>4

\* RequeueOutbox: a new generation, which no loop and no POST belongs to.
LEMMA SendRequeue ==
    ASSUME TypeOK, SendInv, NEW e \in Events, RequeueOutbox(e)
    PROVE  SendInv'
<1>1. UNCHANGED <<outTask, sent>> BY DEF RequeueOutbox, historyVars
<1>2. /\ audit[e].outbox \in Nat
      /\ audit'[e].outbox = audit[e].outbox + 1
      /\ \A f \in Events \ {e} : audit'[f].outbox = audit[f].outbox
  <2> DEFINE n == audit[e].outbox + 1
  <2>1. audit[e].outbox \in Nat /\ n \in Nat BY DEF TypeOK, RecordType, AuditRow
  <2>2. audit' = [audit EXCEPT ![e].outbox = n] BY DEF RequeueOutbox
  <2> HIDE DEF n
  <2>3. /\ audit'[e].outbox = n
        /\ \A f \in Events \ {e} : audit'[f].outbox = audit[f].outbox
    BY <2>1, <2>2 DEF TypeOK, RecordType, AuditRow
  <2>4. QED BY <2>1, <2>3 DEF n
<1>3. /\ outbox[e].status = "dead_letter"
      /\ outbox'[e].status = "retry"
      /\ \A f \in Events \ {e} : outbox'[f] = outbox[f]
  BY OutboxRowOps DEF RequeueOutbox, TypeOK, QueueType
<1>4. \A v \in Workers : outTask[v].pc # "idle" /\ outTask[v].job = e =>
        outTask[v].gen <= audit[e].outbox /\ outTask[v].gen \in Nat
  BY DEF SendInv, TypeOK, TaskType, OutTask
<1>5. \A g \in sent[e] : g <= audit[e].outbox /\ g \in Nat
  BY DEF SendInv, TypeOK, RecordType
<1>6. QED BY <1>1, <1>2, <1>3, <1>4, <1>5 DEF TypeOK, TaskType, SendInv, MaySend, HoldsOutbox

LEMMA SendInit == Init => SendInv
BY DEF Init, SendInv, MaySend, IdleOut, NoOutboxRow

LEMMA SendNext ==
    ASSUME TypeOK, SendInv, [Next]_vars
    PROVE  SendInv'
<1>1. ASSUME NEW e \in Events, Webhook(e) PROVE SendInv'
  BY <1>1, SendStutter
     DEF Webhook, EnqueueBegin, EnqueueCommit, EnqueueAbort, historyVars
<1>2. ASSUME NEW e \in Events, Operator(e) PROVE SendInv'
  <2>1. CASE RequeueInbox(e)
    <3>1. \A f \in Events : audit'[f].outbox = audit[f].outbox
      BY <2>1 DEF RequeueInbox, TypeOK, RecordType, AuditRow
    <3>2. QED BY <2>1, <3>1, SendStutter DEF RequeueInbox, historyVars
  <2>2. CASE RequeueOutbox(e) BY <2>2, SendRequeue
  <2>3. CASE ReconcileDelivered(e)
    <3>1. \A f \in Events : audit'[f].outbox = audit[f].outbox
      BY <2>3 DEF ReconcileDelivered, TypeOK, RecordType, AuditRow
    <3>2. \A f \in Events : outbox'[f] = outbox[f] \/ outbox'[f].status = "delivered"
      BY <2>3, OutboxRowOps DEF ReconcileDelivered, TypeOK, QueueType
    <3>3. QED BY <2>3, <3>1, <3>2, SendLeave DEF ReconcileDelivered, historyVars
  <2>4. QED BY <1>2, <2>1, <2>2, <2>3 DEF Operator
<1>3. ASSUME NEW w \in Workers, InboxStep(w) PROVE SendInv'
  <2>1. CASE CompleteInbox(w) BY <2>1, SendComplete
  <2>2. CASE ~ CompleteInbox(w)
    BY <1>3, <2>2, SendStutter
       DEF InboxStep, ClaimInbox, LoadTrace, RunTurn, LogTrace, VerifyTrace, FailInbox,
           QuarantineInbox, queueVars, historyVars
  <2>3. QED BY <2>1, <2>2
<1>4. ASSUME NEW w \in Workers, OutboxStep(w) PROVE SendInv'
  <2>1. ASSUME NEW e \in Events, ClaimOutbox(w, e) PROVE SendInv' BY <2>1, SendClaim
  <2>2. CASE SendNotAttempted(w) \/ SendPost(w) \/ PostRateLimited(w) BY <2>2, SendAttempt
  <2>3. CASE FailOutbox(w) BY <2>3, SendFail
  <2>4. CASE PostAnswered(w) \/ MarkDelivered(w) \/ QuarantineOutbox(w) \/ RecordDelivery(w)
    <3>1. /\ outTask[w].pc # "idle" /\ outTask[w].job \in Events
          /\ sent' = sent /\ audit' = audit
      BY <2>4 DEF PostAnswered, MarkDelivered, QuarantineOutbox, RecordDelivery, historyVars,
                  TypeOK, TaskType
    <3>2. OutIdle(w) \/ \E pc \in OutPc \ {"send", "posted", "fail"} : OutGoto(w, pc)
      BY <2>4 DEF PostAnswered, MarkDelivered, QuarantineOutbox, RecordDelivery, OutPc
    <3>3. \A e \in Events : outbox'[e] = outbox[e]
                            \/ outbox'[e].status \in {"delivered", "dead_letter"}
      BY <2>4, <3>1, OutboxRowOps
         DEF PostAnswered, MarkDelivered, QuarantineOutbox, RecordDelivery, queueVars,
             TypeOK, QueueType, OutboxStatus
    <3>4. QED BY <3>1, <3>2, <3>3, OutTaskOps, SendLeave
  <2>5. QED BY <1>4, <2>1, <2>2, <2>3, <2>4 DEF OutboxStep
<1>5. ASSUME NEW w \in Workers, Crash(w) PROVE SendInv'
  BY <1>5, OutTaskOps, SendLeave DEF Crash, queueVars, historyVars
<1>6. ASSUME NEW stale \in SUBSET Events, RecoverStaleInbox(stale) PROVE SendInv'
  BY <1>6, SendStutter DEF RecoverStaleInbox, historyVars
<1>7. ASSUME NEW stale \in SUBSET Events, RecoverStaleOutbox(stale) PROVE SendInv'
  <2>1. \A e \in Events : outbox'[e] = outbox[e] \/ outbox'[e].status = "dead_letter"
    BY <1>7, OutboxRowOps DEF RecoverStaleOutbox, TypeOK, QueueType, OutboxStatus
  <2>2. QED BY <1>7, <2>1, SendLeave DEF RecoverStaleOutbox, historyVars
<1>8. CASE UNCHANGED vars BY <1>8, SendStutter DEF vars
<1>9. QED BY <1>1, <1>2, <1>3, <1>4, <1>5, <1>6, <1>7, <1>8 DEF Next, Recovery

\* D-021, "retry only what surely did not start": whatever leases expire, processes
\* crash and acknowledgements are lost, no loop is about to POST an answer that may
\* already have been accepted since the operator last requeued it.
THEOREM SendsOnce == Spec => []SendOncePerGeneration
<1>1. TypeOK /\ SendInv /\ [Next]_vars => SendInv' BY SendNext
<1>2. TypeOK /\ SendInv => SendOncePerGeneration
  BY DEF SendInv, SendOncePerGeneration
<1>3. QED BY <1>1, <1>2, SendInit, TypeCorrect, PTL DEF Spec

-----------------------------------------------------------------------------
\* What a step may do

\* What a step may do to an inbox row, whichever step it is: nothing, or one of
InboxMove(e) ==
    \/ /\ inbox[e].status = "absent"
       /\ inbox'[e].status = "pending"
       /\ inbox'[e].attempts = inbox[e].attempts
       /\ EnqueueCommit(e)
    \/ /\ inbox[e].status \in {"pending", "retry"}
       /\ inbox'[e].status = "processing"
       /\ \E w \in Workers : ClaimInbox(w, e)
    \/ /\ inbox[e].status = "processing"
       /\ inbox'[e].status = "processed"
       /\ \E w \in Workers : CompleteInbox(w) /\ inTask[w].job = e /\ HoldsInbox(w)
    \/ /\ inbox[e].status = "processing"
       /\ inbox'[e].attempts = inbox[e].attempts
       /\ \E w \in Workers :
             /\ FailInbox(w) /\ inTask[w].job = e /\ HoldsInbox(w)
             /\ inbox'[e].status = PlanFailure(inTask[w].attempt, InboxMaxAttempts)
    \/ /\ inbox[e].status = "processing"
       /\ inbox'[e].status = "dead_letter"
    \/ /\ inbox[e].status = "processing"
       /\ inbox'[e].status = "retry"
       /\ inbox'[e].attempts = inbox[e].attempts
       /\ inbox[e].attempts < InboxMaxAttempts
       /\ trace[e] # NoText
    \/ /\ inbox[e].status = "dead_letter"
       /\ inbox'[e].status = "retry"
       /\ inbox'[e].attempts = 0
       /\ RequeueInbox(e)

LEMMA InboxMoves ==
    ASSUME TypeOK, [Next]_vars, NEW e \in Events
    PROVE  inbox'[e] = inbox[e] \/ InboxMove(e)
<1> SUFFICES ASSUME inbox'[e] # inbox[e] PROVE InboxMove(e) OBVIOUS
<1> USE DEF queueVars, traceVars, historyVars
<1>0. /\ inbox \in [Events -> InboxRow] /\ inbox[e] \in InboxRow
      /\ \A w \in Workers : inTask[w].pc # "idle" => inTask[w].job \in Events
  BY DEF TypeOK, QueueType, TaskType
<1>1. CASE UNCHANGED vars BY <1>1 DEF vars
<1>2. ASSUME NEW f \in Events, Webhook(f) PROVE InboxMove(e)
  <2>1. EnqueueCommit(f) /\ f = e /\ inbox[e].status = "absent"
    BY <1>0, <1>2 DEF Webhook, EnqueueBegin, EnqueueCommit, EnqueueAbort
  <2>2. inbox'[e] = Release(inbox[e], "pending") BY <1>0, <2>1 DEF EnqueueCommit
  <2>3. QED BY <1>0, <2>1, <2>2, InboxRowOps DEF InboxMove, InboxStatus
<1>3. ASSUME NEW f \in Events, Operator(f) PROVE InboxMove(e)
  <2>1. RequeueInbox(f) /\ f = e
    BY <1>0, <1>3 DEF Operator, RequeueInbox, RequeueOutbox, ReconcileDelivered
  <2>2. inbox'[e] = Requeue(inbox[e]) BY <1>0, <2>1 DEF RequeueInbox
  <2>3. QED BY <1>0, <2>1, <2>2, InboxRowOps DEF InboxMove, RequeueInbox
<1>4. ASSUME NEW w \in Workers, InboxStep(w) PROVE InboxMove(e)
  <2>1. ASSUME NEW f \in Events, ClaimInbox(w, f) PROVE InboxMove(e)
    <3>1. f = e BY <1>0, <2>1 DEF ClaimInbox
    <3>2. inbox'[e] = Lease(inbox[e], "processing", w) BY <1>0, <2>1, <3>1 DEF ClaimInbox
    <3>3. inbox[e].status \in {"pending", "retry"}
      BY <2>1, <3>1 DEF ClaimInbox, InboxClaimable
    <3>4. Lease(inbox[e], "processing", w).status = "processing"
      <4>1. "processing" \in InboxStatus BY DEF InboxStatus
      <4>2. QED BY <1>0, <4>1, InboxRowOps, Zenon
    <3>5. QED BY <2>1, <3>1, <3>2, <3>3, <3>4 DEF InboxMove
  <2>2. CASE CompleteInbox(w)
    <3>1. inTask[w].job = e /\ HoldsInbox(w)
      BY <1>0, <2>2 DEF CompleteInbox
    <3>2. inbox'[e] = Release(inbox[e], "processed") BY <1>0, <2>2, <3>1 DEF CompleteInbox
    <3>3. QED
      BY <1>0, <2>2, <3>1, <3>2, InboxRowOps DEF InboxMove, InboxStatus, HoldsInbox
  <2>3. CASE FailInbox(w)
    <3> DEFINE st == PlanFailure(inTask[w].attempt, InboxMaxAttempts)
    <3>1. inTask[w].job = e /\ HoldsInbox(w)
      BY <1>0, <2>3 DEF FailInbox
    <3>2. inbox'[e] = Release(inbox[e], st) BY <1>0, <2>3, <3>1 DEF FailInbox
    <3>3. st \in InboxStatus BY DEF PlanFailure, InboxStatus
    <3>4. inbox'[e].status = st /\ inbox'[e].attempts = inbox[e].attempts
      BY <1>0, <3>2, <3>3, InboxRowOps
    <3>5. QED BY <2>3, <3>1, <3>4 DEF InboxMove, HoldsInbox
  <2>4. CASE QuarantineInbox(w)
    <3>1. inTask[w].job = e /\ HoldsInbox(w)
      BY <1>0, <2>4 DEF QuarantineInbox
    <3>2. inbox'[e] = Release(inbox[e], "dead_letter")
      BY <1>0, <2>4, <3>1 DEF QuarantineInbox
    <3>3. QED BY <1>0, <3>1, <3>2, InboxRowOps DEF InboxMove, InboxStatus, HoldsInbox
  <2>5. CASE LoadTrace(w) \/ RunTurn(w) \/ LogTrace(w) \/ VerifyTrace(w)
    BY <2>5 DEF LoadTrace, RunTurn, LogTrace, VerifyTrace
  <2>6. QED BY <1>4, <2>1, <2>2, <2>3, <2>4, <2>5 DEF InboxStep
<1>5. ASSUME NEW w \in Workers, OutboxStep(w) \/ Crash(w) PROVE InboxMove(e)
  BY <1>5 DEF OutboxStep, Crash, ClaimOutbox, SendNotAttempted, SendPost, PostRateLimited,
              PostAnswered, MarkDelivered, FailOutbox, QuarantineOutbox, RecordDelivery
<1>6. ASSUME NEW stale \in SUBSET Events, RecoverStaleInbox(stale) PROVE InboxMove(e)
  <2>1. e \in stale /\ inbox[e].status = "processing" BY <1>6 DEF RecoverStaleInbox
  <2>2. inbox'[e] = Release(inbox[e],
                 IF /\ inbox[e].attempts < InboxMaxAttempts
                    /\ trace[e] \notin {NoText, Empty}
                 THEN "retry" ELSE "dead_letter")
    BY <1>6, <2>1 DEF RecoverStaleInbox
  <2>3. QED BY <1>0, <2>1, <2>2, InboxRowOps DEF InboxMove, InboxStatus
<1>7. ASSUME NEW stale \in SUBSET Events, RecoverStaleOutbox(stale) PROVE InboxMove(e)
  BY <1>7 DEF RecoverStaleOutbox
<1>8. QED BY <1>1, <1>2, <1>3, <1>4, <1>5, <1>6, <1>7 DEF Next, Recovery

\* The same of an outbox row.
OutboxMove(e) ==
    \/ /\ outbox[e].status = "absent"
       /\ outbox'[e].status = "pending"
       /\ outbox'[e].attempts = 0
       /\ \E w \in Workers : CompleteInbox(w) /\ inTask[w].job = e /\ HoldsInbox(w)
    \/ /\ outbox[e].status \in {"pending", "retry"}
       /\ outbox'[e].status = "sending"
       /\ \E w \in Workers : ClaimOutbox(w, e)
    \/ /\ outbox[e].status \in {"sending", "dead_letter"}
       /\ outbox'[e].status = "delivered"
       /\ \/ \E w \in Workers : MarkDelivered(w) /\ outTask[w].job = e /\ HoldsOutbox(w)
          \/ ReconcileDelivered(e)
    \/ /\ outbox[e].status = "sending"
       /\ outbox'[e].attempts = outbox[e].attempts
       /\ \E w \in Workers :
             /\ FailOutbox(w) /\ outTask[w].job = e /\ HoldsOutbox(w)
             /\ outbox'[e].status = PlanFailure(outTask[w].attempt, OutboxMaxAttempts)
    \/ /\ outbox[e].status = "sending"
       /\ outbox'[e].status = "dead_letter"
    \/ /\ outbox[e].status = "dead_letter"
       /\ outbox'[e].status = "retry"
       /\ outbox'[e].attempts = 0
       /\ RequeueOutbox(e)

\* A row keeps its id, and until it is delivered its envelope, from the start.
OutboxKeeps(e) ==
    /\ outbox[e].status # "absent" => outbox'[e].id = outbox[e].id
    /\ outbox[e].status # "absent" /\ outbox'[e].status # "delivered" =>
          outbox'[e].text = outbox[e].text

LEMMA OutboxFields ==
    ASSUME NEW row \in OutboxRow, NEW st, NEW w
    PROVE  /\ Release(row, st).id = row.id /\ Release(row, st).text = row.text
           /\ Lease(row, st, w).id = row.id /\ Lease(row, st, w).text = row.text
           /\ Requeue(row).id = row.id /\ Requeue(row).text = row.text
           /\ Deliver(row).id = row.id
<1> DEFINE n == row.attempts + 1
<1>1. Lease(row, st, w) = [row EXCEPT !.status = st, !.attempts = n, !.owner = w]
  BY DEF Lease
<1> HIDE DEF n
<1>2. Lease(row, st, w).id = row.id /\ Lease(row, st, w).text = row.text
  BY <1>1 DEF OutboxRow
<1>3. QED BY <1>2 DEF OutboxRow, Release, Requeue, Deliver

LEMMA OutboxMoves ==
    ASSUME TypeOK, [Next]_vars, NEW e \in Events
    PROVE  outbox'[e] = outbox[e] \/ (OutboxMove(e) /\ OutboxKeeps(e))
<1> SUFFICES ASSUME outbox'[e] # outbox[e] PROVE OutboxMove(e) /\ OutboxKeeps(e) OBVIOUS
<1> USE DEF queueVars, traceVars, historyVars
<1>0. /\ outbox \in [Events -> OutboxRow] /\ outbox[e] \in OutboxRow
      /\ \A w \in Workers : inTask[w].pc # "idle" => inTask[w].job \in Events
      /\ \A w \in Workers : outTask[w].pc # "idle" => outTask[w].job \in Events
  BY DEF TypeOK, QueueType, TaskType
<1>1. CASE UNCHANGED vars BY <1>1 DEF vars
<1>2. ASSUME NEW f \in Events, Webhook(f) PROVE FALSE
  BY <1>2 DEF Webhook, EnqueueBegin, EnqueueCommit, EnqueueAbort
<1>3. ASSUME NEW f \in Events, Operator(f) PROVE OutboxMove(e) /\ OutboxKeeps(e)
  <2>1. /\ RequeueOutbox(f) \/ ReconcileDelivered(f)
        /\ f = e /\ outbox[e].status = "dead_letter"
    BY <1>0, <1>3 DEF Operator, RequeueInbox, RequeueOutbox, ReconcileDelivered
  <2>2. CASE RequeueOutbox(e)
    <3>1. outbox'[e] = Requeue(outbox[e]) BY <1>0, <2>2 DEF RequeueOutbox
    <3>2. QED BY <1>0, <2>1, <2>2, <3>1, OutboxRowOps, OutboxFields DEF OutboxMove, OutboxKeeps
  <2>3. CASE ReconcileDelivered(e)
    <3>1. outbox'[e] = Deliver(outbox[e]) BY <1>0, <2>3 DEF ReconcileDelivered
    <3>2. QED BY <1>0, <2>1, <2>3, <3>1, OutboxRowOps, OutboxFields DEF OutboxMove, OutboxKeeps
  <2>4. QED BY <2>1, <2>2, <2>3
<1>4. ASSUME NEW w \in Workers, InboxStep(w) \/ Crash(w)
      PROVE  OutboxMove(e) /\ OutboxKeeps(e)
  <2>1. CASE CompleteInbox(w)
    <3> DEFINE row == [status |-> "pending", attempts |-> 0, owner |-> Nobody,
                       id |-> nextOutId + 1, text |-> inTask[w].text]
    <3>1. inTask[w].job = e /\ HoldsInbox(w) /\ outbox[e].status = "absent"
      BY <1>0, <2>1 DEF CompleteInbox
    <3>2. outbox'[e] = row BY <1>0, <2>1, <3>1 DEF CompleteInbox
    <3>3. QED BY <2>1, <3>1, <3>2 DEF OutboxMove, OutboxKeeps
  <2>2. CASE ~ CompleteInbox(w)
    BY <1>4, <2>2 DEF InboxStep, Crash, ClaimInbox, LoadTrace, RunTurn, LogTrace, VerifyTrace,
                      FailInbox, QuarantineInbox
  <2>3. QED BY <2>1, <2>2
<1>5. ASSUME NEW w \in Workers, OutboxStep(w) PROVE OutboxMove(e) /\ OutboxKeeps(e)
  <2>1. ASSUME NEW f \in Events, ClaimOutbox(w, f) PROVE OutboxMove(e) /\ OutboxKeeps(e)
    <3>1. f = e BY <1>0, <2>1 DEF ClaimOutbox
    <3>2. outbox'[e] = Lease(outbox[e], "sending", w) BY <1>0, <2>1, <3>1 DEF ClaimOutbox
    <3>3. outbox[e].status \in {"pending", "retry"}
      BY <2>1, <3>1 DEF ClaimOutbox, OutboxClaimable
    <3>4. Lease(outbox[e], "sending", w).status = "sending"
      <4>1. "sending" \in OutboxStatus BY DEF OutboxStatus
      <4>2. QED BY <1>0, <4>1, OutboxRowOps, Zenon
    <3>5. OutboxKeeps(e) BY <1>0, <3>2, OutboxFields DEF OutboxKeeps
    <3>6. QED BY <2>1, <3>1, <3>2, <3>3, <3>4, <3>5 DEF OutboxMove
  <2>2. CASE MarkDelivered(w)
    <3>1. outTask[w].job = e /\ HoldsOutbox(w)
      BY <1>0, <2>2 DEF MarkDelivered
    <3>2. outbox'[e] = Deliver(outbox[e]) BY <1>0, <2>2, <3>1 DEF MarkDelivered
    <3>3. QED
      BY <1>0, <2>2, <3>1, <3>2, OutboxRowOps, OutboxFields
         DEF OutboxMove, OutboxKeeps, HoldsOutbox
  <2>3. CASE FailOutbox(w)
    <3> DEFINE st == PlanFailure(outTask[w].attempt, OutboxMaxAttempts)
    <3>1. outTask[w].job = e /\ HoldsOutbox(w)
      BY <1>0, <2>3 DEF FailOutbox
    <3>2. outbox'[e] = Release(outbox[e], st) BY <1>0, <2>3, <3>1 DEF FailOutbox
    <3>3. st \in OutboxStatus BY DEF PlanFailure, OutboxStatus
    <3>4. outbox'[e].status = st /\ outbox'[e].attempts = outbox[e].attempts
      <4>1. Release(outbox[e], st).status = st /\ Release(outbox[e], st).attempts = outbox[e].attempts
        BY <1>0, <3>3, OutboxRowOps, Zenon
      <4>2. QED BY <3>2, <4>1, Zenon
    <3>5. OutboxKeeps(e) BY <1>0, <3>2, OutboxFields DEF OutboxKeeps
    <3>6. QED BY <2>3, <3>1, <3>4, <3>5 DEF OutboxMove, HoldsOutbox
  <2>4. CASE QuarantineOutbox(w)
    <3>1. outTask[w].job = e /\ HoldsOutbox(w)
      BY <1>0, <2>4 DEF QuarantineOutbox
    <3>2. outbox'[e] = Release(outbox[e], "dead_letter")
      BY <1>0, <2>4, <3>1 DEF QuarantineOutbox
    <3>3. QED
      BY <1>0, <3>1, <3>2, OutboxRowOps, OutboxFields
         DEF OutboxMove, OutboxKeeps, OutboxStatus, HoldsOutbox
  <2>5. CASE \/ SendNotAttempted(w) \/ SendPost(w) \/ PostRateLimited(w) \/ PostAnswered(w)
             \/ RecordDelivery(w)
    BY <2>5 DEF SendNotAttempted, SendPost, PostRateLimited, PostAnswered, RecordDelivery
  <2>6. QED BY <1>5, <2>1, <2>2, <2>3, <2>4, <2>5 DEF OutboxStep
<1>6. ASSUME NEW stale \in SUBSET Events, RecoverStaleInbox(stale) PROVE FALSE
  BY <1>6 DEF RecoverStaleInbox
<1>7. ASSUME NEW stale \in SUBSET Events, RecoverStaleOutbox(stale)
      PROVE  OutboxMove(e) /\ OutboxKeeps(e)
  <2>1. e \in stale /\ outbox[e].status = "sending" BY <1>7 DEF RecoverStaleOutbox
  <2>2. outbox'[e] = Release(outbox[e], "dead_letter")
    BY <1>7, <2>1 DEF RecoverStaleOutbox
  <2>3. outbox'[e].status = "dead_letter"
    BY <2>2, OutboxRowOps DEF OutboxStatus, TypeOK, QueueType
  <2>4. OutboxKeeps(e) BY <1>0, <2>2, OutboxFields DEF OutboxKeeps
  <2>5. QED BY <2>1, <2>3, <2>4 DEF OutboxMove
<1>8. QED BY <1>1, <1>2, <1>3, <1>4, <1>5, <1>6, <1>7 DEF Next, Recovery

\* What a step may do to a loop of the inbox.
InMove(w) ==
    \/ inTask'[w].pc = "idle"
    \/ /\ inTask[w].pc = "idle"
       /\ \E e \in Events :
             /\ ClaimInbox(w, e)
             /\ inTask'[w].pc = "load"
             /\ inTask'[w].job = e
             /\ inTask'[w].attempt = inbox[e].attempts + 1
             /\ inTask'[w].gen = audit[e].inbox
    \/ /\ inTask[w].pc # "idle"
       /\ inTask'[w].job = inTask[w].job
       /\ inTask'[w].attempt = inTask[w].attempt
       /\ inTask'[w].gen = inTask[w].gen
       /\ \/ /\ LoadTrace(w)
             /\ inTask'[w].pc = "turn"
             /\ trace[inTask[w].job] = NoText
          \/ /\ LoadTrace(w)
             /\ inTask'[w].pc = "resume"
             /\ trace[inTask[w].job] # NoText
             /\ inTask'[w].text = trace[inTask[w].job]
          \/ inTask[w].pc \in {"load", "resume"} /\ inTask'[w].pc = "fail"
          \/ RunTurn(w) /\ inTask'[w].pc = "log" /\ inTask'[w].text # NoText
          \/ LogTrace(w) /\ inTask'[w].pc = "verify" /\ inTask'[w].text = inTask[w].text
          \/ /\ VerifyTrace(w)
             /\ inTask'[w].pc = "complete"
             /\ inTask'[w].text = inTask[w].text
             /\ inTask[w].text = trace[inTask[w].job]
          \/ inTask'[w].pc = "quarantine"

LEMMA InMoves ==
    ASSUME TypeOK, [Next]_vars, NEW w \in Workers
    PROVE  inTask'[w] = inTask[w] \/ InMove(w)
<1> SUFFICES ASSUME inTask'[w] # inTask[w] PROVE InMove(w) OBVIOUS
<1> USE DEF queueVars, traceVars, historyVars
<1>0. /\ inTask \in [Workers -> InTask]
      /\ \A v \in Workers : inTask[v].pc # "idle" => inTask[v].job \in Events
  BY DEF TypeOK, TaskType
<1>1. CASE UNCHANGED vars BY <1>1 DEF vars
<1>2. ASSUME NEW e \in Events, Webhook(e) \/ Operator(e) PROVE InMove(w)
  BY <1>2 DEF Webhook, EnqueueBegin, EnqueueCommit, EnqueueAbort,
              Operator, RequeueInbox, RequeueOutbox, ReconcileDelivered
<1>3. ASSUME NEW v \in Workers, Crash(v) PROVE InMove(w)
  BY <1>0, <1>3 DEF Crash, InIdle, IdleIn, InMove
<1>4. ASSUME NEW v \in Workers, OutboxStep(v) PROVE InMove(w)
  BY <1>4 DEF OutboxStep, ClaimOutbox, SendNotAttempted, SendPost, PostRateLimited,
              PostAnswered, MarkDelivered, FailOutbox, QuarantineOutbox, RecordDelivery
<1>5. ASSUME NEW v \in Workers, InboxStep(v) PROVE InMove(w)
  <2>1. ASSUME NEW e \in Events, ClaimInbox(v, e) PROVE InMove(w)
    <3> DEFINE t == [pc |-> "load", job |-> e, attempt |-> inbox[e].attempts + 1,
                     gen |-> audit[e].inbox, text |-> NoText]
    <3>1. inTask' = [inTask EXCEPT ![v] = t] /\ inTask[v].pc = "idle"
      BY <2>1 DEF ClaimInbox
    <3> HIDE DEF t
    <3>2. v = w /\ inTask'[w] = t BY <1>0, <3>1
    <3>3. QED BY <2>1, <3>1, <3>2 DEF t, InMove
  <2> DEFINE Same == /\ inTask[w].pc # "idle"
                     /\ inTask'[w].job = inTask[w].job
                     /\ inTask'[w].attempt = inTask[w].attempt
                     /\ inTask'[w].gen = inTask[w].gen
  <2>2. ASSUME NEW pc \in InPc, InGoto(v, pc), inTask[v].pc # "idle"
        PROVE  /\ v = w /\ Same
               /\ inTask'[w].pc = pc
               /\ inTask'[w].text = inTask[w].text
    <3> DEFINE t == [inTask[v] EXCEPT !.pc = pc]
    <3>1. inTask' = [inTask EXCEPT ![v] = t] BY <2>2 DEF InGoto
    <3>2. t.pc = pc /\ t.text = inTask[v].text /\ t.job = inTask[v].job
          /\ t.attempt = inTask[v].attempt /\ t.gen = inTask[v].gen
      BY <1>0 DEF InTask
    <3> HIDE DEF t
    <3>3. QED BY <1>0, <2>2, <3>1, <3>2
  <2>3. ASSUME NEW pc \in InPc, NEW text \in Responses \cup {NoText}, InCarry(v, pc, text),
               inTask[v].pc # "idle"
        PROVE  /\ v = w /\ Same
               /\ inTask'[w].pc = pc
               /\ inTask'[w].text = text
    <3> DEFINE t == [inTask[v] EXCEPT !.pc = pc, !.text = text]
    <3>1. inTask' = [inTask EXCEPT ![v] = t] BY <2>3 DEF InCarry
    <3>2. t.pc = pc /\ t.text = text /\ t.job = inTask[v].job
          /\ t.attempt = inTask[v].attempt /\ t.gen = inTask[v].gen
      BY <1>0 DEF InTask
    <3> HIDE DEF t
    <3>3. QED BY <1>0, <2>3, <3>1, <3>2
  <2>4. ASSUME InIdle(v) PROVE InMove(w)
    BY <1>0, <2>4 DEF InIdle, IdleIn, InMove
  <2> HIDE DEF Same
  <2>5. InPc = {"idle", "load", "turn", "log", "verify", "resume", "complete",
                "fail", "quarantine"}
    BY DEF InPc
  <2>6. ASSUME v = w, Same, inTask'[w].pc = "quarantine" PROVE InMove(w)
    BY <2>6 DEF Same, InMove
  <2>7. CASE LoadTrace(v)
    <3>1. inTask[v].pc = "load" BY <2>7 DEF LoadTrace
    <3>2. CASE InGoto(v, InboxHandler(v))
      <4>1. InGoto(v, "fail") BY <3>1, <3>2 DEF InboxHandler
      <4>2. QED BY <2>2, <2>5, <3>1, <4>1 DEF Same, InMove
    <3>3. CASE trace[inTask[v].job] = NoText /\ InGoto(v, "turn")
      BY <2>2, <2>5, <2>7, <3>1, <3>3 DEF Same, InMove
    <3>4. CASE InGoto(v, "quarantine") BY <2>2, <2>5, <2>6, <3>1, <3>4
    <3>5. CASE /\ trace[inTask[v].job] \notin {NoText, Empty}
               /\ InCarry(v, "resume", trace[inTask[v].job])
      <4>1. trace[inTask[v].job] \in Responses \cup {NoText}
        BY <1>0, <3>1 DEF TypeOK, RecordType
      <4>2. QED BY <2>3, <2>5, <2>7, <3>1, <3>5, <4>1 DEF Same, InMove
    <3>6. QED BY <2>7, <3>2, <3>3, <3>4, <3>5 DEF LoadTrace
  <2>8. CASE RunTurn(v)
    <3>1. inTask[v].pc = "turn" BY <2>8 DEF RunTurn
    <3>2. ASSUME NEW r \in Responses, InCarry(v, "log", r) PROVE InMove(w)
      <4>1. r # NoText BY TextAssumption
      <4>2. QED BY <2>3, <2>5, <2>8, <3>1, <3>2, <4>1 DEF Same, InMove
    <3>3. CASE InGoto(v, InboxHandler(v))
      <4>1. InGoto(v, "quarantine") BY <3>1, <3>3 DEF InboxHandler
      <4>2. QED BY <2>2, <2>5, <2>6, <3>1, <4>1
    <3>4. QED BY <2>8, <3>2, <3>3 DEF RunTurn
  <2>9. CASE LogTrace(v)
    <3>1. inTask[v].pc = "log" BY <2>9 DEF LogTrace
    <3>2. CASE InGoto(v, "verify")
      BY <2>2, <2>5, <2>9, <3>1, <3>2 DEF Same, InMove
    <3>3. CASE InGoto(v, InboxHandler(v))
      <4>1. InGoto(v, "quarantine") BY <3>1, <3>3 DEF InboxHandler
      <4>2. QED BY <2>2, <2>5, <2>6, <3>1, <4>1
    <3>4. QED BY <2>9, <3>2, <3>3 DEF LogTrace
  <2>10. CASE VerifyTrace(v)
    <3>1. inTask[v].pc = "verify" BY <2>10 DEF VerifyTrace
    <3>2. CASE trace[inTask[v].job] = inTask[v].text /\ InGoto(v, "complete")
      BY <2>2, <2>5, <2>10, <3>1, <3>2 DEF Same, InMove
    <3>3. CASE InGoto(v, InboxHandler(v))
      <4>1. InGoto(v, "quarantine") BY <3>1, <3>3 DEF InboxHandler
      <4>2. QED BY <2>2, <2>5, <2>6, <3>1, <4>1
    <3>4. QED BY <2>10, <3>2, <3>3 DEF VerifyTrace
  <2>11. CASE CompleteInbox(v)
    <3>1. inTask[v].pc \in {"resume", "complete"} BY <2>11 DEF CompleteInbox
    <3>2. CASE InGoto(v, InboxHandler(v)) /\ inTask[v].pc = "resume"
      <4>1. InGoto(v, "fail") BY <3>2 DEF InboxHandler
      <4>2. QED BY <2>2, <2>5, <3>2, <4>1 DEF Same, InMove
    <3>3. CASE InGoto(v, InboxHandler(v)) /\ inTask[v].pc = "complete"
      <4>1. InGoto(v, "quarantine") BY <3>3 DEF InboxHandler
      <4>2. QED BY <2>2, <2>5, <2>6, <3>3, <4>1
    <3>4. QED BY <2>4, <2>11, <3>1, <3>2, <3>3 DEF CompleteInbox
  <2>12. CASE FailInbox(v) \/ QuarantineInbox(v)
    BY <2>4, <2>12 DEF FailInbox, QuarantineInbox
  <2>13. QED BY <1>5, <2>1, <2>7, <2>8, <2>9, <2>10, <2>11, <2>12 DEF InboxStep
<1>6. ASSUME NEW stale \in SUBSET Events, RecoverStaleInbox(stale) \/ RecoverStaleOutbox(stale)
      PROVE  InMove(w)
  BY <1>6 DEF RecoverStaleInbox, RecoverStaleOutbox
<1>7. QED BY <1>1, <1>2, <1>3, <1>4, <1>5, <1>6 DEF Next, Recovery

\* The trace is written once; a turn is recorded by the loop that runs it; and only the
\* operator begins a generation.
LEMMA RecordMoves ==
    ASSUME TypeOK, [Next]_vars, NEW e \in Events
    PROVE  /\ \/ trace'[e] = trace[e]
              \/ /\ trace[e] = NoText
                 /\ \E w \in Workers : /\ LogTrace(w)
                                       /\ inTask[w].job = e
                                       /\ trace'[e] = inTask[w].text
           /\ \/ turns'[e] = turns[e]
              \/ \E w \in Workers : /\ RunTurn(w)
                                    /\ inTask[w].job = e
                                    /\ turns'[e] = turns[e] \cup {inTask[w].gen}
           /\ audit'[e].inbox = audit[e].inbox \/ RequeueInbox(e)
<1> USE DEF queueVars, traceVars, historyVars
<1> DEFINE P == /\ UNCHANGED <<trace, turns>>
                /\ audit'[e].inbox = audit[e].inbox
<1>0. /\ trace \in [Events -> Responses \cup {NoText}] /\ turns \in [Events -> SUBSET Nat]
      /\ audit \in [Events -> AuditRow] /\ audit[e] \in AuditRow
      /\ \A w \in Workers : inTask[w].pc # "idle" => inTask[w].job \in Events
  BY DEF TypeOK, RecordType, TaskType
<1>1. CASE UNCHANGED vars BY <1>1 DEF vars
<1>2. ASSUME NEW f \in Events, Webhook(f) PROVE P
  BY <1>2 DEF Webhook, EnqueueBegin, EnqueueCommit, EnqueueAbort
<1>3. ASSUME NEW f \in Events, Operator(f)
      PROVE  UNCHANGED <<trace, turns>> /\ (audit'[e].inbox = audit[e].inbox \/ RequeueInbox(e))
  <2>1. CASE RequeueInbox(f)
    BY <1>0, <2>1 DEF RequeueInbox
  <2>2. CASE RequeueOutbox(f) \/ ReconcileDelivered(f)
    BY <1>0, <2>2 DEF RequeueOutbox, ReconcileDelivered, AuditRow
  <2>3. QED BY <1>3, <2>1, <2>2 DEF Operator
<1>4. ASSUME NEW w \in Workers, OutboxStep(w) \/ Crash(w) PROVE P
  BY <1>4 DEF OutboxStep, Crash, ClaimOutbox, SendNotAttempted, SendPost, PostRateLimited,
              PostAnswered, MarkDelivered, FailOutbox, QuarantineOutbox, RecordDelivery
<1>5. ASSUME NEW w \in Workers, InboxStep(w), ~ RunTurn(w), ~ LogTrace(w) PROVE P
  BY <1>5 DEF InboxStep, ClaimInbox, LoadTrace, VerifyTrace, CompleteInbox, FailInbox,
              QuarantineInbox
<1>6. ASSUME NEW w \in Workers, RunTurn(w)
      PROVE  /\ trace' = trace /\ audit' = audit
             /\ turns'[e] = turns[e] \/ (/\ inTask[w].job = e
                                         /\ turns'[e] = turns[e] \cup {inTask[w].gen})
  BY <1>0, <1>6 DEF RunTurn
<1>7. ASSUME NEW w \in Workers, LogTrace(w)
      PROVE  /\ turns' = turns /\ audit' = audit
             /\ trace'[e] = trace[e] \/ (/\ trace[e] = NoText
                                         /\ inTask[w].job = e
                                         /\ trace'[e] = inTask[w].text)
  BY <1>0, <1>7 DEF LogTrace
<1>8. ASSUME Recovery PROVE P
  BY <1>8 DEF Recovery, RecoverStaleInbox, RecoverStaleOutbox
<1>9. QED BY <1>1, <1>2, <1>3, <1>4, <1>5, <1>6, <1>7, <1>8 DEF Next

\* What a step may do to a loop of the outbox.
OutMove(w) ==
    \/ outTask'[w].pc = "idle"
    \/ /\ outTask[w].pc = "idle"
       /\ \E e \in Events :
             /\ ClaimOutbox(w, e)
             /\ outTask'[w].pc = "send"
             /\ outTask'[w].job = e
             /\ outTask'[w].attempt = outbox[e].attempts + 1
             /\ outTask'[w].gen = audit[e].outbox
    \/ /\ outTask[w].pc # "idle"
       /\ outTask'[w].job = outTask[w].job
       /\ outTask'[w].attempt = outTask[w].attempt
       /\ outTask'[w].gen = outTask[w].gen

LEMMA OutMoves ==
    ASSUME TypeOK, [Next]_vars, NEW w \in Workers
    PROVE  outTask'[w] = outTask[w] \/ OutMove(w)
<1> SUFFICES ASSUME outTask'[w] # outTask[w] PROVE OutMove(w) OBVIOUS
<1> USE DEF queueVars, traceVars, historyVars
<1>0. outTask \in [Workers -> OutTask] BY DEF TypeOK, TaskType
<1>1. CASE UNCHANGED vars BY <1>1 DEF vars
<1>2. ASSUME NEW e \in Events, Webhook(e) \/ Operator(e) PROVE OutMove(w)
  BY <1>2 DEF Webhook, EnqueueBegin, EnqueueCommit, EnqueueAbort,
              Operator, RequeueInbox, RequeueOutbox, ReconcileDelivered
<1>3. ASSUME NEW v \in Workers, OutIdle(v) PROVE OutMove(w)
  BY <1>0, <1>3 DEF OutIdle, IdleOut, OutMove
<1>4. ASSUME NEW v \in Workers, NEW pc \in OutPc, OutGoto(v, pc), outTask[v].pc # "idle"
      PROVE  OutMove(w)
  <2>1. v = w BY <1>0, <1>4 DEF OutGoto
  <2>2. QED BY <1>4, <2>1, OutTaskOps DEF OutMove
<1>5. ASSUME NEW v \in Workers, InboxStep(v) PROVE OutMove(w)
  BY <1>5 DEF InboxStep, ClaimInbox, LoadTrace, RunTurn, LogTrace, VerifyTrace, CompleteInbox,
              FailInbox, QuarantineInbox
<1>6. ASSUME NEW v \in Workers, Crash(v) PROVE OutMove(w) BY <1>3, <1>6 DEF Crash
<1>7. ASSUME NEW v \in Workers, OutboxStep(v) PROVE OutMove(w)
  <2>1. ASSUME NEW e \in Events, ClaimOutbox(v, e) PROVE OutMove(w)
    <3> DEFINE t == [pc |-> "send", job |-> e, attempt |-> outbox[e].attempts + 1,
                     gen |-> audit[e].outbox]
    <3>1. outTask' = [outTask EXCEPT ![v] = t] /\ outTask[v].pc = "idle"
      BY <2>1 DEF ClaimOutbox
    <3> HIDE DEF t
    <3>2. v = w /\ outTask'[w] = t BY <1>0, <3>1
    <3>3. QED BY <2>1, <3>1, <3>2 DEF t, OutMove
  <2>2. CASE ~ \E e \in Events : ClaimOutbox(v, e)
    <3>1. /\ outTask[v].pc # "idle"
          /\ OutIdle(v) \/ \E pc \in OutPc : OutGoto(v, pc)
      BY <1>7, <2>2 DEF OutboxStep, SendNotAttempted, SendPost, PostRateLimited, PostAnswered,
              MarkDelivered, FailOutbox, QuarantineOutbox, RecordDelivery, OutPc
    <3>2. QED BY <1>3, <1>4, <3>1
  <2>3. QED BY <2>1, <2>2
<1>8. ASSUME Recovery PROVE OutMove(w)
  BY <1>8 DEF Recovery, RecoverStaleInbox, RecoverStaleOutbox
<1>9. QED BY <1>1, <1>2, <1>5, <1>6, <1>7, <1>8 DEF Next

\* A claim leases the row to an idle loop, and counts the attempt.
LEMMA ClaimLeases ==
    ASSUME TypeOK, NEW w \in Workers, NEW e \in Events
    PROVE  /\ ClaimInbox(w, e) =>
                /\ inTask[w].pc = "idle"
                /\ inbox'[e].status = "processing"
                /\ inbox'[e].owner = w
                /\ inbox'[e].attempts = inbox[e].attempts + 1
           /\ ClaimOutbox(w, e) =>
                /\ outTask[w].pc = "idle"
                /\ outbox'[e].status = "sending"
                /\ outbox'[e].owner = w
                /\ outbox'[e].attempts = outbox[e].attempts + 1
<1> DEFINE n == inbox[e].attempts + 1
           m == outbox[e].attempts + 1
<1>1. inbox \in [Events -> InboxRow] /\ inbox[e] \in InboxRow
      /\ outbox \in [Events -> OutboxRow] /\ outbox[e] \in OutboxRow
  BY DEF TypeOK, QueueType
<1>2. ASSUME ClaimInbox(w, e)
      PROVE  /\ inTask[w].pc = "idle" /\ inbox'[e].status = "processing"
             /\ inbox'[e].owner = w /\ inbox'[e].attempts = n
  <2>1. /\ inTask[w].pc = "idle"
        /\ inbox' = [inbox EXCEPT ![e] = Lease(@, "processing", w)]
    BY <1>2 DEF ClaimInbox
  <2>2. inbox'[e] = [inbox[e] EXCEPT !.status = "processing", !.attempts = n, !.owner = w]
    BY <1>1, <2>1 DEF Lease
  <2> HIDE DEF n
  <2>3. QED BY <1>1, <2>1, <2>2 DEF InboxRow
<1>3. ASSUME ClaimOutbox(w, e)
      PROVE  /\ outTask[w].pc = "idle" /\ outbox'[e].status = "sending"
             /\ outbox'[e].owner = w /\ outbox'[e].attempts = m
  <2>1. /\ outTask[w].pc = "idle"
        /\ outbox' = [outbox EXCEPT ![e] = Lease(@, "sending", w)]
    BY <1>3 DEF ClaimOutbox
  <2>2. outbox'[e] = [outbox[e] EXCEPT !.status = "sending", !.attempts = m, !.owner = w]
    BY <1>1, <2>1 DEF Lease
  <2> HIDE DEF m
  <2>3. QED BY <1>1, <2>1, <2>2 DEF OutboxRow
<1>4. QED BY <1>2, <1>3

-----------------------------------------------------------------------------
\* Attempts

LEMMA LeaseInit == Init => LeaseInv
BY DEF Init, LeaseInv, IdleIn, IdleOut, NoInboxRow

LEMMA LeaseNext ==
    ASSUME TypeOK, LeaseInv, [Next]_vars
    PROVE  LeaseInv'
<1>0. /\ \A w \in Workers : inTask[w].pc # "idle" => inTask[w].job \in Events
      /\ \A w \in Workers : outTask[w].pc # "idle" => outTask[w].job \in Events
  BY DEF TypeOK, TaskType
<1>1. ASSUME NEW w \in Workers, inTask'[w].pc # "idle", HoldsInbox(w)'
      PROVE  inTask'[w].attempt = inbox'[inTask'[w].job].attempts
  <2>1. CASE /\ inTask[w].pc # "idle"
             /\ inTask'[w].job = inTask[w].job
             /\ inTask'[w].attempt = inTask[w].attempt
    <3> DEFINE e == inTask[w].job
    <3>1. e \in Events /\ inbox'[e].status = "processing" /\ inbox'[e].owner = w
      BY <1>0, <1>1, <2>1 DEF HoldsInbox
    <3>2. CASE inbox'[e] = inbox[e] BY <1>1, <2>1, <3>1, <3>2 DEF LeaseInv, HoldsInbox
    <3>3. CASE inbox'[e] # inbox[e]
      <4>1. PICK v \in Workers : ClaimInbox(v, e)
        BY <3>1, <3>3, InboxMoves DEF InboxMove, PlanFailure
      <4>2. v = w /\ inTask[v].pc = "idle" BY <3>1, <4>1, ClaimLeases
      <4>3. QED BY <2>1, <4>2
    <3>4. QED BY <3>2, <3>3
  <2>2. ASSUME NEW e \in Events, ClaimInbox(w, e),
               inTask'[w].job = e, inTask'[w].attempt = inbox[e].attempts + 1
        PROVE  inTask'[w].attempt = inbox'[inTask'[w].job].attempts
    BY <2>2, ClaimLeases
  <2>3. QED BY <1>1, <2>1, <2>2, InMoves DEF InMove
<1>2. ASSUME NEW w \in Workers, outTask'[w].pc # "idle", HoldsOutbox(w)'
      PROVE  outTask'[w].attempt = outbox'[outTask'[w].job].attempts
  <2>1. CASE /\ outTask[w].pc # "idle"
             /\ outTask'[w].job = outTask[w].job
             /\ outTask'[w].attempt = outTask[w].attempt
    <3> DEFINE e == outTask[w].job
    <3>1. e \in Events /\ outbox'[e].status = "sending" /\ outbox'[e].owner = w
      BY <1>0, <1>2, <2>1 DEF HoldsOutbox
    <3>2. CASE outbox'[e] = outbox[e] BY <1>2, <2>1, <3>1, <3>2 DEF LeaseInv, HoldsOutbox
    <3>3. CASE outbox'[e] # outbox[e]
      <4>1. PICK v \in Workers : ClaimOutbox(v, e)
        BY <3>1, <3>3, OutboxMoves DEF OutboxMove, PlanFailure
      <4>2. v = w /\ outTask[v].pc = "idle" BY <3>1, <4>1, ClaimLeases
      <4>3. QED BY <2>1, <4>2
    <3>4. QED BY <3>2, <3>3
  <2>2. ASSUME NEW e \in Events, ClaimOutbox(w, e),
               outTask'[w].job = e, outTask'[w].attempt = outbox[e].attempts + 1
        PROVE  outTask'[w].attempt = outbox'[outTask'[w].job].attempts
    BY <2>2, ClaimLeases
  <2>3. QED BY <1>2, <2>1, <2>2, OutMoves DEF OutMove
<1>3. ASSUME NEW e \in Events, inbox'[e].status = "absent" PROVE inbox'[e].attempts = 0
  <2>1. inbox'[e] = inbox[e] BY <1>3, InboxMoves DEF InboxMove, PlanFailure
  <2>2. QED BY <1>3, <2>1 DEF LeaseInv
<1>4. QED BY <1>1, <1>2, <1>3 DEF LeaseInv

\* A row that waits has attempts left, so that a claim takes it: no retry, recovery or
\* requeue leaves a row behind that blocks its ticket unseen.  The attempt that a loop
\* fails with is the one its row counts, as long as the loop holds the lease.
THEOREM WaitingRowsClaimable == Spec => []NoStuckRow
<1>1. Init => NoStuckRow
  <2>1. ASSUME Init, NEW e \in Events
        PROVE  inbox[e].status = "absent" /\ outbox[e].status = "absent"
    BY <2>1 DEF Init, NoInboxRow, NoOutboxRow
  <2>2. QED BY <2>1 DEF NoStuckRow
<1>2. TypeOK /\ LeaseInv /\ NoStuckRow /\ [Next]_vars => NoStuckRow'
  <2> SUFFICES ASSUME TypeOK, LeaseInv, NoStuckRow, [Next]_vars, NEW e \in Events
               PROVE  /\ inbox'[e].status \in {"pending", "retry"} =>
                            inbox'[e].attempts < InboxMaxAttempts
                      /\ outbox'[e].status \in {"pending", "retry"} =>
                            outbox'[e].attempts < OutboxMaxAttempts
    BY DEF NoStuckRow
  <2>1. 0 < InboxMaxAttempts /\ 0 < OutboxMaxAttempts BY BoundAssumption
  <2>2. ASSUME NEW w \in Workers, FailInbox(w), inTask[w].job = e, HoldsInbox(w),
               PlanFailure(inTask[w].attempt, InboxMaxAttempts) = "retry"
        PROVE  inbox[e].attempts < InboxMaxAttempts
    <3>1. inTask[w].attempt = inbox[e].attempts BY <2>2 DEF FailInbox, LeaseInv
    <3>2. inTask[w].attempt \in Nat BY DEF TypeOK, TaskType, InTask
    <3>3. QED BY <2>2, <3>1, <3>2, BoundAssumption DEF PlanFailure
  <2>3. ASSUME NEW w \in Workers, FailOutbox(w), outTask[w].job = e, HoldsOutbox(w),
               PlanFailure(outTask[w].attempt, OutboxMaxAttempts) = "retry"
        PROVE  outbox[e].attempts < OutboxMaxAttempts
    <3>1. outTask[w].attempt = outbox[e].attempts BY <2>3 DEF FailOutbox, LeaseInv
    <3>2. outTask[w].attempt \in Nat BY DEF TypeOK, TaskType, OutTask
    <3>3. QED BY <2>3, <3>1, <3>2, BoundAssumption DEF PlanFailure
  <2>4. \A n, m : PlanFailure(n, m) # "pending" BY DEF PlanFailure
  <2>5. inbox'[e].status \in {"pending", "retry"} => inbox'[e].attempts < InboxMaxAttempts
    <3>1. CASE inbox'[e] = inbox[e] BY <3>1 DEF NoStuckRow
    <3>2. CASE InboxMove(e) BY <2>1, <2>2, <2>4, <3>2 DEF InboxMove, LeaseInv
    <3>3. QED BY <3>1, <3>2, InboxMoves
  <2>6. outbox'[e].status \in {"pending", "retry"} => outbox'[e].attempts < OutboxMaxAttempts
    <3>1. CASE outbox'[e] = outbox[e] BY <3>1 DEF NoStuckRow
    <3>2. CASE OutboxMove(e) BY <2>1, <2>3, <2>4, <3>2 DEF OutboxMove
    <3>3. QED BY <3>1, <3>2, OutboxMoves
  <2>7. QED BY <2>5, <2>6
<1>3. TypeOK /\ LeaseInv /\ [Next]_vars => LeaseInv' BY LeaseNext
<1>4. QED BY <1>1, <1>2, <1>3, LeaseInit, TypeCorrect, PTL DEF Spec

-----------------------------------------------------------------------------
\* Evidence of a delivery

\* The payload is purged, and the delivery claimed, in the statement that delivers.
LEMMA EvidenceMoves ==
    ASSUME TypeOK, [Next]_vars, NEW e \in Events
    PROVE  /\ \/ e \in purged' <=> e \in purged
              \/ e \in purged' /\ outbox'[e].status = "delivered"
           /\ telemetry'[e] = "delivered" =>
                telemetry[e] = "delivered" \/ outbox'[e].status = "delivered"
           /\ outbox'[e].status = "delivered" =>
                outbox[e].status = "delivered" \/ e \in purged'
<1> USE DEF queueVars, traceVars, historyVars
<1>0. /\ outbox \in [Events -> OutboxRow]
      /\ telemetry \in [Events -> {"unset", "delivered", "undelivered"}]
      /\ \A w \in Workers : outTask[w].pc # "idle" => outTask[w].job \in Events
      /\ \A f \in Events : Deliver(outbox[f]).status = "delivered"
  BY OutboxRowOps DEF TypeOK, QueueType, RecordType, TaskType
<1>1. ASSUME NEW f \in Events, purged' = purged \cup {f},
             telemetry' = [telemetry EXCEPT ![f] = "delivered"],
             outbox' = [outbox EXCEPT ![f] = Deliver(@)]
      PROVE  /\ \/ e \in purged' <=> e \in purged
                \/ e \in purged' /\ outbox'[e].status = "delivered"
             /\ telemetry'[e] = "delivered" =>
                  telemetry[e] = "delivered" \/ outbox'[e].status = "delivered"
             /\ outbox'[e].status = "delivered" =>
                  outbox[e].status = "delivered" \/ e \in purged'
  <2>1. CASE e = f
    <3>1. outbox'[e] = Deliver(outbox[e]) BY <1>0, <1>1, <2>1
    <3>2. QED BY <1>0, <1>1, <2>1, <3>1
  <2>2. CASE e # f BY <1>0, <1>1, <2>2
  <2>3. QED BY <2>1, <2>2
<1>2. CASE \E w \in Workers : MarkDelivered(w) BY <1>0, <1>1, <1>2 DEF MarkDelivered
<1>3. CASE \E f \in Events : ReconcileDelivered(f) BY <1>1, <1>3 DEF ReconcileDelivered
<1>4. CASE /\ ~ \E w \in Workers : MarkDelivered(w)
           /\ ~ \E f \in Events : ReconcileDelivered(f)
  <2>1. \/ UNCHANGED <<purged, telemetry>>
        \/ \E w \in Workers : RecordDelivery(w)
    BY <1>4 DEF Next, vars, Webhook, EnqueueBegin, EnqueueCommit, EnqueueAbort,
              Operator, RequeueInbox, RequeueOutbox,
              InboxStep, ClaimInbox, LoadTrace, RunTurn, LogTrace, VerifyTrace, CompleteInbox,
              FailInbox, QuarantineInbox,
              OutboxStep, ClaimOutbox, SendNotAttempted, SendPost, PostRateLimited,
              PostAnswered, FailOutbox, QuarantineOutbox, Crash,
              Recovery, RecoverStaleInbox, RecoverStaleOutbox
  <2>2. purged' = purged /\ (telemetry'[e] = "delivered" => telemetry[e] = "delivered")
    BY <1>0, <2>1 DEF RecordDelivery
  <2>3. outbox'[e].status = "delivered" => outbox[e].status = "delivered"
    <3>1. CASE outbox'[e] = outbox[e] BY <3>1
    <3>2. CASE OutboxMove(e) BY <1>4, <3>2 DEF OutboxMove, PlanFailure
    <3>3. QED BY <3>1, <3>2, OutboxMoves
  <2>4. QED BY <2>2, <2>3
<1>5. QED BY <1>2, <1>3, <1>4

\* The masked payload is purged with the delivery, not before and not later, and the trace
\* claims a delivery only of an answer that the outbox has as delivered
\* (mark_outbox_delivered and the operator's reconciliation, against every lost lease).
THEOREM DeliveryIsEvident == Spec => []DeliveryEvidence
<1>1. Init => DeliveryEvidence
  <2>1. ASSUME Init, NEW e \in Events
        PROVE  e \notin purged /\ outbox[e].status = "absent" /\ telemetry[e] = "unset"
    BY <2>1 DEF Init, NoOutboxRow
  <2>2. QED BY <2>1 DEF DeliveryEvidence
<1>2. TypeOK /\ DeliveryEvidence /\ [Next]_vars => DeliveryEvidence'
  <2> SUFFICES ASSUME TypeOK, DeliveryEvidence, [Next]_vars, NEW e \in Events
               PROVE  /\ (e \in purged') <=> (outbox'[e].status = "delivered")
                      /\ telemetry'[e] = "delivered" => outbox'[e].status = "delivered"
    BY DEF DeliveryEvidence
  <2>1. outbox[e].status = "delivered" => outbox'[e].status = "delivered"
    BY OutboxMoves DEF OutboxMove
  <2>2. QED BY <2>1, EvidenceMoves DEF DeliveryEvidence
<1>3. QED BY <1>1, <1>2, TypeCorrect, PTL DEF Spec

LEMMA TypeNext ==
    ASSUME TypeOK, [Next]_vars PROVE TypeOK'
<1>1. CASE UNCHANGED vars BY <1>1 DEF vars, TypeOK, QueueType, TaskType, RecordType
<1>2. CASE Next BY <1>2, TypeWebhook, TypeInbox, TypeOutbox, TypeCrash, TypeRecovery,
                   TypeOperator DEF Next
<1>3. QED BY <1>1, <1>2

-----------------------------------------------------------------------------
\* Turns

LEMMA TurnInit == Init => TurnInv
BY DEF Init, TurnInv, TurnTask, TurnRow, MayTurn, IdleIn, NoInboxRow

\* Loops that stop or go on without the chance of a turn, and rows that are settled or
\* wait with a trace to resume from, take nothing away.
LEMMA TurnLeave ==
    ASSUME TypeOK, TurnInv, turns' = turns,
           \A e \in Events : audit'[e].inbox = audit[e].inbox,
           \A e \in Events : trace[e] # NoText => trace'[e] # NoText,
           \A w \in Workers :
              \/ inTask'[w] = inTask[w]
              \/ inTask'[w].pc = "idle"
              \/ /\ inTask[w].pc # "idle"
                 /\ inTask'[w].job = inTask[w].job
                 /\ inTask'[w].gen = inTask[w].gen
                 /\ MayTurn(w)' => MayTurn(w)
                 /\ inTask'[w].pc = "resume" => trace'[inTask[w].job] # NoText,
           \A e \in Events :
              \/ inbox'[e] = inbox[e]
              \/ inbox'[e].status \in {"processed", "dead_letter"}
              \/ inbox'[e].status = "retry" /\ trace'[e] # NoText
    PROVE  TurnInv'
<1>0. \A w \in Workers : inTask[w].pc # "idle" => inTask[w].job \in Events
  BY DEF TypeOK, TaskType
<1>1. ASSUME NEW w \in Workers, inTask'[w].pc # "idle"
      PROVE  /\ inTask[w].pc # "idle" /\ inTask[w].job \in Events
             /\ inTask'[w].job = inTask[w].job
             /\ inTask'[w].gen = inTask[w].gen
             /\ MayTurn(w)' => MayTurn(w)
             /\ HoldsInbox(w)' => HoldsInbox(w)
             /\ inTask'[w].pc = "resume" => trace'[inTask[w].job] # NoText
  BY <1>0, <1>1 DEF TurnInv, TurnTask, MayTurn, HoldsInbox
<1>2. ASSUME NEW w \in Workers, MayTurn(w)' PROVE inTask'[w].pc # "idle"
  BY <1>2 DEF MayTurn
<1>3. ASSUME NEW w \in Workers PROVE TurnTask(w)'
  BY <1>1 DEF TurnInv, TurnTask
<1>4. ASSUME NEW e \in Events PROVE TurnRow(e)'
  BY <1>1, <1>2 DEF TurnInv, TurnRow
<1>5. QED BY <1>1, <1>2, <1>3, <1>4 DEF TurnInv

\* ClaimInbox: only a row that no turn has run for and no other loop is at is claimed, or
\* one that has a trace.
LEMMA TurnClaim ==
    ASSUME TypeOK, TurnInv, NEW w \in Workers, NEW e \in Events, ClaimInbox(w, e)
    PROVE  TurnInv'
<1>0. /\ \A v \in Workers : inTask[v].pc # "idle" => inTask[v].job \in Events
      /\ \A f \in Events : audit[f].inbox \in Nat
  BY DEF TypeOK, TaskType, RecordType, AuditRow
<1>1. /\ UNCHANGED <<trace, turns, audit>> /\ inTask[w].pc = "idle"
      /\ \A f \in Events \ {e} : inbox'[f] = inbox[f]
      /\ \A v \in Workers \ {w} : inTask'[v] = inTask[v]
      /\ inbox[e].status \in {"pending", "retry"}
  BY DEF ClaimInbox, InboxClaimable, traceVars, historyVars, TypeOK, QueueType, TaskType
<1>2. inbox'[e].status = "processing" /\ inbox'[e].owner = w BY ClaimLeases
<1>3. \/ inTask'[w] = inTask[w]
      \/ /\ inTask'[w].pc = "load" /\ inTask'[w].job = e
         /\ inTask'[w].gen = audit[e].inbox
  BY <1>1 DEF ClaimInbox, TypeOK, TaskType
<1>4. \A v \in Workers \ {w} : /\ MayTurn(v)' <=> MayTurn(v)
                               /\ HoldsInbox(v)' /\ inTask[v].pc # "idle" => HoldsInbox(v)
  BY <1>0, <1>1, <1>2 DEF MayTurn, HoldsInbox
<1>5. MayTurn(w)' => /\ inTask'[w].job = e /\ inTask'[w].gen = audit[e].inbox
                     /\ trace[e] = NoText
  BY <1>1, <1>3 DEF MayTurn
<1>6. trace[e] = NoText =>
        /\ audit[e].inbox \notin turns[e]
        /\ \A v \in Workers : MayTurn(v) /\ inTask[v].job = e => inTask[v].gen # audit[e].inbox
  BY <1>1 DEF TurnInv, TurnRow
<1>7. ASSUME NEW v \in Workers PROVE TurnTask(v)'
  <2>1. CASE v = w BY <1>0, <1>1, <1>2, <1>3, <1>5, <1>6, <2>1 DEF TurnTask
  <2>2. CASE v # w BY <1>0, <1>1, <1>2, <1>4, <2>2 DEF TurnInv, TurnTask
  <2>3. QED BY <2>1, <2>2
<1>8. ASSUME NEW u \in Workers, NEW v \in Workers, MayTurn(u)', MayTurn(v)',
             inTask'[u].job = inTask'[v].job, inTask'[u].gen = inTask'[v].gen
      PROVE  u = v
  <2>1. CASE u = w \/ v = w BY <1>1, <1>4, <1>5, <1>6, <1>8, <2>1
  <2>2. CASE u # w /\ v # w BY <1>1, <1>4, <1>8, <2>2 DEF TurnInv
  <2>3. QED BY <2>1, <2>2
<1>9. ASSUME NEW f \in Events PROVE TurnRow(f)'
  <2>1. CASE f = e BY <1>1, <1>2, <2>1 DEF TurnInv, TurnRow
  <2>2. CASE f # e BY <1>1, <1>4, <1>5, <2>2 DEF TurnInv, TurnRow
  <2>3. QED BY <2>1, <2>2
<1>10. QED BY <1>7, <1>8, <1>9 DEF TurnInv

\* RunTurn: the loop gives up its chance, and no other one has the generation.
LEMMA TurnRun ==
    ASSUME TypeOK, TurnInv, NEW w \in Workers, RunTurn(w)
    PROVE  TurnInv'
<1> DEFINE e == inTask[w].job
           g == inTask[w].gen
<1>0. /\ \A v \in Workers : inTask[v].pc # "idle" => inTask[v].job \in Events
      /\ \A f \in Events : audit[f].inbox \in Nat
  BY DEF TypeOK, TaskType, RecordType, AuditRow
<1>1. /\ UNCHANGED <<trace, audit, inbox>>
      /\ inTask[w].pc = "turn" /\ e \in Events
      /\ \A f \in Events \ {e} : turns'[f] = turns[f]
      /\ turns'[e] = turns[e] \/ turns'[e] = turns[e] \cup {g}
  BY <1>0 DEF RunTurn, queueVars, traceVars, TypeOK, RecordType
<1>2. (\E r \in Responses : InCarry(w, "log", r)) \/ InGoto(w, "quarantine")
  BY <1>1 DEF RunTurn, InboxHandler
<1>3. /\ inTask'[w].pc \in {"log", "quarantine"}
      /\ inTask'[w].job = e /\ inTask'[w].gen = g
      /\ \A v \in Workers \ {w} : inTask'[v] = inTask[v]
  BY <1>2, InTaskOps DEF InPc
<1>4. \A v \in Workers : MayTurn(v)' => MayTurn(v) /\ v # w /\ inTask'[v] = inTask[v]
  BY <1>1, <1>3 DEF MayTurn
<1>5. \A v \in Workers : HoldsInbox(v)' <=> HoldsInbox(v)
  BY <1>1, <1>3 DEF HoldsInbox
<1>6. MayTurn(w) BY <1>1 DEF MayTurn
<1>7. ASSUME NEW v \in Workers, MayTurn(v)', inTask[v].job = e PROVE inTask[v].gen # g
  BY <1>4, <1>6, <1>7 DEF TurnInv
<1>8. ASSUME NEW v \in Workers PROVE TurnTask(v)'
  <2>1. CASE v = w BY <1>0, <1>1, <1>3, <1>4, <1>5, <2>1 DEF TurnInv, TurnTask
  <2>2. CASE v # w BY <1>0, <1>1, <1>3, <1>4, <1>5, <1>7, <2>2 DEF TurnInv, TurnTask
  <2>3. QED BY <2>1, <2>2
<1>9. ASSUME NEW f \in Events PROVE TurnRow(f)'
  BY <1>0, <1>1, <1>4, <1>6 DEF TurnInv, TurnRow, TurnTask
<1>10. QED BY <1>4, <1>8, <1>9 DEF TurnInv

\* FailInbox: the row waits again, and its generation has no turn and no other loop, or a
\* trace.
LEMMA TurnFail ==
    ASSUME TypeOK, TurnInv, [Next]_vars, NEW w \in Workers, FailInbox(w)
    PROVE  TurnInv'
<1> DEFINE e == inTask[w].job
<1>1. /\ UNCHANGED <<trace, turns, audit>> /\ e \in Events
      /\ inTask[w].pc = "fail" /\ inTask'[w].pc = "idle"
      /\ \A v \in Workers \ {w} : inTask'[v] = inTask[v]
      /\ \A f \in Events \ {e} : inbox'[f] = inbox[f]
      /\ inbox'[e] = inbox[e] \/ HoldsInbox(w)
  BY InTaskOps DEF FailInbox, traceVars, historyVars, TypeOK, QueueType, TaskType
<1>2. CASE inbox'[e] = inbox[e]
  BY <1>1, <1>2, TurnLeave
<1>3. CASE inbox'[e] # inbox[e]
  <2>1. /\ inbox[e].status # "absent"
        /\ inbox'[e].status \notin {"absent", "processing"}
    BY <1>1, <1>3, InboxMoves DEF InboxMove, PlanFailure, HoldsInbox, ClaimInbox
  <2>2. /\ inTask[w].gen = audit[e].inbox
        /\ trace[e] = NoText => /\ audit[e].inbox \notin turns[e]
                                /\ \A v \in Workers \ {w} :
                                     MayTurn(v) /\ inTask[v].job = e =>
                                        inTask[v].gen # audit[e].inbox
    BY <1>1, <1>3 DEF TurnInv, TurnTask, MayTurn
  <2>3. \A v \in Workers : /\ MayTurn(v)' => v # w /\ MayTurn(v)
                           /\ inTask'[v].pc # "idle" /\ HoldsInbox(v)' => HoldsInbox(v)
    BY <1>1, <2>1 DEF MayTurn, HoldsInbox, TypeOK, TaskType
  <2>4. ASSUME NEW v \in Workers PROVE TurnTask(v)'
    <3>1. CASE v = w BY <1>1, <3>1 DEF TurnTask
    <3>2. CASE v # w
      <4>1. inTask[v].pc # "idle" => inbox'[inTask[v].job].status # "absent"
        BY <1>1, <2>1, <3>2 DEF TurnInv, TurnTask, TypeOK, TaskType
      <4>2. inTask'[v] = inTask[v] BY <1>1, <3>2
      <4>3. QED BY <1>1, <2>3, <4>1, <4>2 DEF TurnInv, TurnTask
    <3>3. QED BY <3>1, <3>2
  <2>5. ASSUME NEW f \in Events PROVE TurnRow(f)'
    BY <1>1, <2>1, <2>2, <2>3 DEF TurnInv, TurnRow
  <2>6. QED BY <1>1, <2>3, <2>4, <2>5 DEF TurnInv
<1>4. QED BY <1>2, <1>3

\* RequeueInbox: a new generation, which no loop and no turn belongs to.
LEMMA TurnRequeue ==
    ASSUME TypeOK, TurnInv, NEW e \in Events, RequeueInbox(e)
    PROVE  TurnInv'
<1>1. UNCHANGED <<inTask, turns, trace>> BY DEF RequeueInbox, traceVars, historyVars
<1>2. /\ audit[e].inbox \in Nat
      /\ audit'[e].inbox = audit[e].inbox + 1
      /\ \A f \in Events \ {e} : audit'[f].inbox = audit[f].inbox
  <2> DEFINE n == audit[e].inbox + 1
  <2>1. audit[e].inbox \in Nat /\ n \in Nat BY DEF TypeOK, RecordType, AuditRow
  <2>2. audit' = [audit EXCEPT ![e].inbox = n] BY DEF RequeueInbox
  <2> HIDE DEF n
  <2>3. /\ audit'[e].inbox = n
        /\ \A f \in Events \ {e} : audit'[f].inbox = audit[f].inbox
    BY <2>1, <2>2 DEF TypeOK, RecordType, AuditRow
  <2>4. QED BY <2>1, <2>3 DEF n
<1>3. /\ inbox[e].status = "dead_letter"
      /\ inbox'[e].status = "retry"
      /\ \A f \in Events \ {e} : inbox'[f] = inbox[f]
  BY InboxRowOps DEF RequeueInbox, TypeOK, QueueType
<1>4. \A v \in Workers : inTask[v].pc # "idle" /\ inTask[v].job = e =>
        inTask[v].gen <= audit[e].inbox /\ inTask[v].gen \in Nat
  BY DEF TurnInv, TurnTask, TypeOK, TaskType, InTask
<1>5. \A g \in turns[e] : g <= audit[e].inbox /\ g \in Nat
  BY DEF TurnInv, TurnRow, TypeOK, RecordType
<1>6. \A v \in Workers : /\ MayTurn(v)' <=> MayTurn(v)
                         /\ MayTurn(v) => inTask[v].pc # "idle"
                         /\ inTask[v].pc # "idle" /\ HoldsInbox(v)' => HoldsInbox(v) /\ inTask[v].job # e
  BY <1>1, <1>3 DEF MayTurn, HoldsInbox, TypeOK, TaskType
<1>7. ASSUME NEW v \in Workers PROVE TurnTask(v)'
  BY <1>1, <1>2, <1>3, <1>4, <1>6 DEF TurnInv, TurnTask, TypeOK, TaskType
<1>8. ASSUME NEW f \in Events PROVE TurnRow(f)'
  BY <1>1, <1>2, <1>3, <1>4, <1>5, <1>6 DEF TurnInv, TurnRow
<1>9. QED BY <1>1, <1>6, <1>7, <1>8 DEF TurnInv

\* EnqueueCommit: the row of an event that no loop has had.
LEMMA TurnEnqueue ==
    ASSUME TypeOK, TurnInv, [Next]_vars, NEW e \in Events, EnqueueCommit(e)
    PROVE  TurnInv'
<1>1. UNCHANGED <<inTask, turns, trace, audit>> BY DEF EnqueueCommit, traceVars
<1>2. CASE inbox' = inbox BY <1>1, <1>2, TurnLeave
<1>3. CASE inbox' # inbox
  <2>1. /\ inbox[e].status = "absent"
        /\ inbox'[e].status = "pending"
        /\ \A f \in Events \ {e} : inbox'[f] = inbox[f]
    BY <1>3, InboxRowOps DEF EnqueueCommit, TypeOK, QueueType, InboxStatus
  <2>2. turns[e] = {} /\ \A v \in Workers : inTask[v].pc # "idle" => inTask[v].job # e
    BY <2>1 DEF TurnInv, TurnTask, TurnRow
  <2>3. \A v \in Workers : /\ MayTurn(v)' <=> MayTurn(v)
                           /\ MayTurn(v) => inTask[v].pc # "idle"
                           /\ inTask[v].pc # "idle" => (HoldsInbox(v)' <=> HoldsInbox(v))
    BY <1>1, <2>1, <2>2 DEF MayTurn, HoldsInbox, TypeOK, TaskType
  <2>4. ASSUME NEW v \in Workers PROVE TurnTask(v)'
    BY <1>1, <2>1, <2>2, <2>3 DEF TurnInv, TurnTask, TypeOK, TaskType
  <2>5. ASSUME NEW f \in Events PROVE TurnRow(f)'
    BY <1>1, <2>1, <2>2, <2>3 DEF TurnInv, TurnRow
  <2>6. QED BY <1>1, <2>3, <2>4, <2>5 DEF TurnInv
<1>4. QED BY <1>2, <1>3

LEMMA TurnNext ==
    ASSUME TypeOK, TurnInv, [Next]_vars
    PROVE  TurnInv'
<1>1. ASSUME NEW w \in Workers, NEW e \in Events, ClaimInbox(w, e) PROVE TurnInv'
  BY <1>1, TurnClaim
<1>2. ASSUME NEW w \in Workers, RunTurn(w) PROVE TurnInv' BY <1>2, TurnRun
<1>3. ASSUME NEW w \in Workers, FailInbox(w) PROVE TurnInv' BY <1>3, TurnFail
<1>4. ASSUME NEW e \in Events, RequeueInbox(e) PROVE TurnInv' BY <1>4, TurnRequeue
<1>5. ASSUME NEW e \in Events, EnqueueCommit(e) PROVE TurnInv' BY <1>5, TurnEnqueue
<1>6. CASE /\ ~ \E w \in Workers, e \in Events : ClaimInbox(w, e)
           /\ ~ \E w \in Workers : RunTurn(w)
           /\ ~ \E w \in Workers : FailInbox(w)
           /\ ~ \E e \in Events : RequeueInbox(e)
           /\ ~ \E e \in Events : EnqueueCommit(e)
  <2>1. \A e \in Events : /\ turns'[e] = turns[e]
                          /\ audit'[e].inbox = audit[e].inbox
                          /\ trace[e] # NoText => trace'[e] = trace[e]
    BY <1>6, RecordMoves
  <2>2. \A w \in Workers : inTask[w].pc # "idle" => inTask[w].job \in Events
    BY DEF TypeOK, TaskType
  <2>3. ASSUME NEW w \in Workers
        PROVE  \/ inTask'[w] = inTask[w]
               \/ inTask'[w].pc = "idle"
               \/ /\ inTask[w].pc # "idle"
                  /\ inTask'[w].job = inTask[w].job
                  /\ inTask'[w].gen = inTask[w].gen
                  /\ MayTurn(w)' => MayTurn(w)
                  /\ inTask'[w].pc = "resume" => trace'[inTask[w].job] # NoText
    <3>1. CASE InMove(w)
      BY <1>6, <2>1, <2>2, <3>1 DEF InMove, MayTurn, TurnInv, TurnTask, LoadTrace
    <3>2. QED BY <3>1, InMoves
  <2>4. ASSUME NEW e \in Events
        PROVE  \/ inbox'[e] = inbox[e]
               \/ inbox'[e].status \in {"processed", "dead_letter"}
               \/ inbox'[e].status = "retry" /\ trace'[e] # NoText
    <3>1. CASE InboxMove(e) BY <1>6, <2>1, <3>1 DEF InboxMove
    <3>2. QED BY <3>1, InboxMoves
  <2>5. turns' = turns
    <3>1. turns \in [Events -> SUBSET Nat] /\ turns' \in [Events -> SUBSET Nat]
      BY TypeNext DEF TypeOK, RecordType
    <3>2. QED BY <2>1, <3>1
  <2>6. QED BY <2>1, <2>3, <2>4, <2>5, TurnLeave
<1>7. QED BY <1>1, <1>2, <1>3, <1>4, <1>5, <1>6

\* Without the operator a conversation turn runs at most once: whatever leases expire,
\* processes crash and acknowledgements are lost, a loop about to call process_message does
\* so for a generation of its job in which no turn has run.
THEOREM TurnsOnce == Spec => []TurnOncePerGeneration
<1>1. TypeOK /\ TurnInv /\ [Next]_vars => TurnInv' BY TurnNext
<1>2. TypeOK /\ TurnInv => TurnOncePerGeneration
  BY DEF TurnInv, TurnTask, MayTurn, TurnOncePerGeneration
<1>3. QED BY <1>1, <1>2, TurnInit, TypeCorrect, PTL DEF Spec

-----------------------------------------------------------------------------
\* The answer, from the loop to the outbox

LEMMA AnswerInit == Init => AnswerInv
BY DEF Init, AnswerInv, AnswerTask, IdleIn, NoInboxRow

LEMMA AnswerNext ==
    ASSUME TypeOK, AnswerInv, [Next]_vars
    PROVE  AnswerInv'
<1>0. /\ \A w \in Workers : inTask[w].pc # "idle" => inTask[w].job \in Events
      /\ \A e \in Events : trace[e] # NoText => trace'[e] = trace[e]
  BY RecordMoves DEF TypeOK, TaskType
<1>1. ASSUME NEW w \in Workers PROVE AnswerTask(w)'
  <2>1. CASE inTask'[w] = inTask[w] BY <1>0, <2>1 DEF AnswerInv, AnswerTask
  <2>2. CASE InMove(w)
    <3>1. /\ inTask'[w].pc = "log" => inTask'[w].text # NoText
          /\ inTask'[w].pc = "verify" => LogTrace(w) /\ inTask'[w].text = inTask[w].text
          /\ inTask'[w].pc = "resume" =>
                /\ LoadTrace(w) /\ inTask'[w].job = inTask[w].job
                /\ trace[inTask[w].job] # NoText /\ inTask'[w].text = trace[inTask[w].job]
          /\ inTask'[w].pc = "complete" =>
                /\ VerifyTrace(w) /\ inTask'[w].job = inTask[w].job
                /\ inTask'[w].text = inTask[w].text
                /\ inTask[w].text = trace[inTask[w].job]
      BY <2>2 DEF InMove
    <3>2. LogTrace(w) => inTask[w].text # NoText
      BY DEF LogTrace, AnswerInv, AnswerTask
    <3>3. VerifyTrace(w) => trace' = trace /\ inTask[w].text # NoText
      BY DEF VerifyTrace, traceVars, AnswerInv, AnswerTask
    <3>4. LoadTrace(w) => trace' = trace BY DEF LoadTrace, traceVars
    <3>5. QED BY <3>1, <3>2, <3>3, <3>4 DEF AnswerTask
  <2>3. QED BY <2>1, <2>2, InMoves
<1>2. ASSUME NEW e \in Events, inbox'[e].status = "processed"
      PROVE  trace'[e] \notin {NoText, Empty, Blank}
  <2>1. CASE inbox'[e] = inbox[e] BY <1>0, <1>2, <2>1 DEF AnswerInv
  <2>2. CASE InboxMove(e)
    <3>1. PICK w \in Workers : CompleteInbox(w) /\ inTask[w].job = e
      BY <1>2, <2>2 DEF InboxMove, PlanFailure
    <3>2. inTask[w].text \notin {Empty, Blank}
      BY <1>2, <2>2, <3>1 DEF CompleteInbox, InboxMove
    <3>3. trace[e] = inTask[w].text /\ trace[e] # NoText
      BY <3>1 DEF CompleteInbox, AnswerInv, AnswerTask
    <3>4. QED BY <1>0, <3>2, <3>3
  <2>3. QED BY <2>1, <2>2, InboxMoves
<1>3. QED BY <1>1, <1>2 DEF AnswerInv

\* CompleteInbox: one statement settles the inbox row and opens the outbox row.
LEMMA CompleteBoth ==
    ASSUME TypeOK, AnswerInv, HandOff, NEW w \in Workers, CompleteInbox(w)
    PROVE  LET e == inTask[w].job IN
           /\ e \in Events
           /\ inbox'[e].status = "processed" /\ HoldsInbox(w) =>
                /\ outbox'[e] = [status |-> "pending", attempts |-> 0, owner |-> Nobody,
                                 id |-> nextOutId + 1, text |-> trace[e]]
                /\ nextOutId' = nextOutId + 1
                /\ trace[e] \notin {NoText, Empty, Blank}
           /\ outbox[e].status = "absent" /\ outbox'[e].status # "absent" =>
                inbox'[e].status = "processed" /\ HoldsInbox(w)
<1> DEFINE e == inTask[w].job
           row == [status |-> "pending", attempts |-> 0, owner |-> Nobody,
                   id |-> nextOutId + 1, text |-> inTask[w].text]
<1>1. /\ e \in Events /\ inbox \in [Events -> InboxRow] /\ inbox[e] \in InboxRow
      /\ outbox \in [Events -> OutboxRow]
      /\ inTask[w].text = trace[e] /\ inTask[w].text # NoText
  BY DEF CompleteInbox, TypeOK, TaskType, QueueType, AnswerInv, AnswerTask
<1>2. \/ /\ inTask[w].text \notin {Empty, Blank}
         /\ HoldsInbox(w)
         /\ inbox' = [inbox EXCEPT ![e] = Release(@, "processed")]
         /\ \/ /\ outbox[e].status = "absent"
               /\ outbox' = [outbox EXCEPT ![e] = row]
               /\ nextOutId' = nextOutId + 1
            \/ outbox[e].status # "absent"
      \/ inbox' = inbox /\ outbox' = outbox
  BY DEF CompleteInbox
<1>3. HoldsInbox(w) => inbox[e].status = "processing" /\ outbox[e].status = "absent"
  BY <1>1 DEF HoldsInbox, HandOff
<1> HIDE DEF row, e
<1>4. Release(inbox[e], "processed").status = "processed"
  BY <1>1, InboxRowOps DEF InboxStatus
<1>5. /\ inbox'[e].status = "processed" /\ HoldsInbox(w) =>
            /\ outbox'[e] = row /\ nextOutId' = nextOutId + 1
            /\ inTask[w].text \notin {Empty, Blank}
      /\ outbox[e].status = "absent" /\ outbox'[e].status # "absent" =>
            inbox'[e].status = "processed" /\ HoldsInbox(w)
  BY <1>1, <1>2, <1>3, <1>4
<1>6. QED BY <1>1, <1>5 DEF row, e

LEMMA HandOffInit == Init => HandOff
<1>1. ASSUME Init, NEW e \in Events
      PROVE  inbox[e].status = "absent" /\ outbox[e].status = "absent"
  BY <1>1 DEF Init, NoInboxRow, NoOutboxRow
<1>2. QED BY <1>1 DEF HandOff

LEMMA HandOffNext ==
    ASSUME TypeOK, AnswerInv, HandOff, [Next]_vars
    PROVE  HandOff'
<1> SUFFICES ASSUME NEW e \in Events
             PROVE  /\ (outbox'[e].status # "absent") <=> (inbox'[e].status = "processed")
                    /\ (outbox'[e].status \notin {"absent", "delivered"}) =>
                          /\ outbox'[e].text = trace'[e]
                          /\ trace'[e] \notin {NoText, Empty, Blank}
  BY DEF HandOff
<1>1. trace[e] # NoText => trace'[e] = trace[e] BY RecordMoves
<1>2. ASSUME NEW w \in Workers, CompleteInbox(w), inTask[w].job = e, HoldsInbox(w),
             inbox'[e].status = "processed"
      PROVE  /\ outbox'[e].status = "pending" /\ outbox'[e].text = trace[e]
             /\ trace[e] \notin {NoText, Empty, Blank}
  <2>1. /\ outbox'[e] = [status |-> "pending", attempts |-> 0, owner |-> Nobody,
                         id |-> nextOutId + 1, text |-> trace[e]]
        /\ trace[e] \notin {NoText, Empty, Blank}
    BY <1>2, CompleteBoth
  <2>2. QED BY <2>1
<1>3. ASSUME inbox'[e].status = "processed" PROVE outbox'[e].status # "absent"
  <2>1. CASE inbox[e].status = "processed"
    BY <2>1, OutboxMoves DEF HandOff, OutboxMove, PlanFailure
  <2>2. CASE inbox[e].status # "processed"
    BY <1>2, <1>3, <2>2, InboxMoves DEF InboxMove, PlanFailure
  <2>3. QED BY <2>1, <2>2
<1>4. ASSUME outbox'[e].status # "absent", outbox[e].status = "absent"
      PROVE  /\ inbox'[e].status = "processed"
             /\ outbox'[e].text = trace[e] /\ trace[e] \notin {NoText, Empty, Blank}
  <2>1. PICK w \in Workers : CompleteInbox(w) /\ inTask[w].job = e /\ HoldsInbox(w)
    BY <1>4, OutboxMoves DEF OutboxMove
  <2>2. QED BY <1>2, <1>4, <2>1, CompleteBoth
<1>5. ASSUME outbox'[e].status # "absent", outbox[e].status # "absent"
      PROVE  inbox'[e].status = "processed"
  BY <1>5, InboxMoves DEF InboxMove, HandOff
<1>6. ASSUME outbox'[e].status \notin {"absent", "delivered"}, outbox[e].status # "absent"
      PROVE  outbox'[e].text = trace[e] /\ trace[e] \notin {NoText, Empty, Blank}
  BY <1>6, OutboxMoves DEF OutboxMove, OutboxKeeps, HandOff
<1>7. QED BY <1>1, <1>3, <1>4, <1>5, <1>6

\* The two queues agree at every await, and what waits to be sent is the answer that the
\* trace has (complete_inbox_with_outbox writes both rows in one statement, after
\* load_trace_response has confirmed the answer, whatever leases are lost meanwhile).
THEOREM QueuesAgree == Spec => []HandOff
<1>1. TypeOK /\ AnswerInv /\ HandOff /\ [Next]_vars => AnswerInv' /\ HandOff'
  BY AnswerNext, HandOffNext
<1>2. QED BY <1>1, AnswerInit, HandOffInit, TypeCorrect, PTL DEF Spec

-----------------------------------------------------------------------------
\* Order

\* What a step may do to the place of an event in its ticket, and to the ids of the outbox.
LEMMA PlaceMoves ==
    ASSUME TypeOK, [Next]_vars, NEW e \in Events
    PROVE  /\ \/ ahead'[e] = ahead[e] /\ rowId'[e] = rowId[e]
              \/ /\ inbox[e].status = "absent"
                 /\ inbox'[e].status = "pending"
                 /\ rowId'[e] = openTx[e]
                 /\ ahead'[e] = {a \in Accepted : Ticket[a] = Ticket[e]
                                                  /\ rowId[a] < openTx[e]}
           /\ nextOutId' = nextOutId \/ nextOutId' = nextOutId + 1
           /\ \/ sent'[e] \subseteq sent[e]
              \/ \E w \in Workers : SendPost(w) /\ outTask[w].job = e
<1> USE DEF queueVars, traceVars, historyVars
<1> DEFINE Keeps == ahead' = ahead /\ rowId' = rowId
           KeepsOut == nextOutId' = nextOutId /\ sent' = sent
<1>0. /\ ahead \in [Events -> SUBSET Events] /\ rowId \in [Events -> Nat]
      /\ sent \in [Events -> SUBSET Nat]
      /\ inbox \in [Events -> InboxRow] /\ inbox[e] \in InboxRow
      /\ \A w \in Workers : outTask[w].pc # "idle" => outTask[w].job \in Events
  BY DEF TypeOK, QueueType, RecordType, TaskType
<1>1. CASE UNCHANGED vars BY <1>1 DEF vars
<1>2. ASSUME NEW f \in Events, Webhook(f)
      PROVE  /\ KeepsOut
             /\ Keeps \/ (EnqueueCommit(f) /\ inbox[f].status = "absent")
  BY <1>2 DEF Webhook, EnqueueBegin, EnqueueCommit, EnqueueAbort
<1>3. ASSUME NEW f \in Events, EnqueueCommit(f), inbox[f].status = "absent", f = e
      PROVE  /\ inbox'[e].status = "pending"
             /\ rowId'[e] = openTx[e]
             /\ ahead'[e] = {a \in Accepted : Ticket[a] = Ticket[e] /\ rowId[a] < openTx[e]}
  <2>1. /\ inbox' = [inbox EXCEPT ![e] = Release(@, "pending")]
        /\ rowId' = [rowId EXCEPT ![e] = openTx[e]]
        /\ ahead' = [ahead EXCEPT ![e] =
                {a \in Accepted : Ticket[a] = Ticket[e] /\ rowId[a] < openTx[e]}]
    BY <1>3 DEF EnqueueCommit
  <2>2. Release(inbox[e], "pending").status = "pending"
    BY <1>0, InboxRowOps DEF InboxStatus
  <2>3. QED BY <1>0, <2>1, <2>2
<1>4. ASSUME NEW f \in Events, EnqueueCommit(f), inbox[f].status = "absent", f # e
      PROVE  ahead'[e] = ahead[e] /\ rowId'[e] = rowId[e]
  BY <1>0, <1>4 DEF EnqueueCommit
<1>5. ASSUME NEW f \in Events, Operator(f) PROVE Keeps /\ KeepsOut
  BY <1>5 DEF Operator, RequeueInbox, RequeueOutbox, ReconcileDelivered
<1>6. ASSUME NEW w \in Workers, InboxStep(w) \/ Crash(w)
      PROVE  Keeps /\ sent' = sent /\ (nextOutId' = nextOutId \/ nextOutId' = nextOutId + 1)
  BY <1>6 DEF InboxStep, Crash, ClaimInbox, LoadTrace, RunTurn, LogTrace, VerifyTrace,
              CompleteInbox, FailInbox, QuarantineInbox
<1>7. ASSUME NEW w \in Workers, OutboxStep(w)
      PROVE  /\ Keeps /\ nextOutId' = nextOutId
             /\ \/ sent'[e] \subseteq sent[e]
                \/ SendPost(w) /\ outTask[w].job = e
  <2>1. CASE SendPost(w)
    BY <1>0, <2>1 DEF SendPost
  <2>2. CASE PostRateLimited(w)
    BY <1>0, <2>2 DEF PostRateLimited
  <2>3. CASE ~ SendPost(w) /\ ~ PostRateLimited(w)
    BY <1>7, <2>3 DEF OutboxStep, ClaimOutbox, SendNotAttempted, PostAnswered,
              MarkDelivered, FailOutbox, QuarantineOutbox, RecordDelivery
  <2>4. QED BY <2>1, <2>2, <2>3
<1>8. ASSUME Recovery PROVE Keeps /\ KeepsOut
  BY <1>8 DEF Recovery, RecoverStaleInbox, RecoverStaleOutbox
<1>9. QED BY <1>1, <1>2, <1>3, <1>4, <1>5, <1>6, <1>7, <1>8 DEF Next

\* A row that has ever been leased has been from then on, and what is behind it stays so.
LEMMA LeasedStays ==
    ASSUME TypeOK, [Next]_vars, NEW e \in Events
    PROVE  /\ Leased(e) => Leased(e)'
           /\ LeasedOut(e) => LeasedOut(e)'
           /\ inbox[e].status = "processed" => inbox'[e].status = "processed"
           /\ outbox[e].status = "delivered" => outbox'[e].status = "delivered"
           /\ inbox[e].status # "absent" => inbox'[e].status # "absent"
           /\ outbox[e].status # "absent" => outbox'[e].status # "absent"
BY InboxMoves, OutboxMoves DEF InboxMove, OutboxMove, PlanFailure, Leased, LeasedOut

LEMMA OrderInit == Init => OrderInv
<1>1. ASSUME Init, NEW e \in Events
      PROVE  /\ inbox[e].status = "absent" /\ outbox[e].status = "absent"
             /\ outbox[e].id = 0 /\ nextOutId = 0
             /\ ahead[e] = {} /\ turns[e] = {} /\ sent[e] = {}
  BY <1>1 DEF Init, NoInboxRow, NoOutboxRow
<1>2. ASSUME Init, NEW w \in Workers PROVE inTask[w].pc = "idle" /\ outTask[w].pc = "idle"
  BY <1>2 DEF Init, IdleIn, IdleOut
<1>3. QED BY <1>1, <1>2 DEF OrderInv, InOrder, OutOrder, Leased, LeasedOut

LEMMA InOrderNext ==
    ASSUME TypeOK, OrderInv, [Next]_vars, NEW e \in Events
    PROVE  InOrder(e)'
<1>0. /\ ahead[e] \subseteq Events /\ Accepted \subseteq Events
      /\ rowId \in [Events -> Nat] /\ InOrder(e)
  BY DEF TypeOK, QueueType, RecordType, Accepted, OrderInv
<1>1. ASSUME NEW a \in Events, inbox[a].status # "absent"
      PROVE  rowId'[a] = rowId[a] /\ inbox'[a].status # "absent"
  BY <1>1, PlaceMoves, LeasedStays
<1>2. /\ inbox'[e].status = "absent" => ahead'[e] = {}
      /\ \A a \in ahead'[e] :
            a \in Events /\ inbox'[a].status # "absent" /\ Ticket[a] = Ticket[e]
            /\ rowId'[a] < rowId'[e]
  <2>1. CASE ahead'[e] = ahead[e] /\ rowId'[e] = rowId[e]
    BY <1>0, <1>1, <2>1, LeasedStays DEF InOrder
  <2>2. CASE /\ inbox'[e].status = "pending"
             /\ rowId'[e] = openTx[e]
             /\ ahead'[e] = {a \in Accepted : Ticket[a] = Ticket[e]
                                              /\ rowId[a] < openTx[e]}
    BY <1>0, <1>1, <2>2 DEF Accepted
  <2>3. QED BY <2>1, <2>2, PlaceMoves
<1>3. ASSUME Leased(e)' PROVE ahead'[e] \subseteq Processed'
  <2>1. ahead'[e] = ahead[e] BY <1>3, PlaceMoves DEF Leased
  <2>2. ahead[e] \subseteq Processed
    <3>1. CASE Leased(e) BY <1>0, <3>1 DEF InOrder
    <3>2. CASE ~ Leased(e)
      <4>1. PICK w \in Workers : ClaimInbox(w, e)
        BY <1>3, <3>2, InboxMoves DEF Leased, InboxMove
      <4>2. OlderInbox(e) \subseteq Processed BY <4>1 DEF ClaimInbox, InboxClaimable
      <4>3. ahead[e] \subseteq OlderInbox(e)
        BY <1>0 DEF InOrder, OlderInbox, Accepted
      <4>4. QED BY <4>2, <4>3
    <3>3. QED BY <3>1, <3>2
  <2>3. QED BY <2>1, <2>2, LeasedStays DEF Processed
<1>4. ASSUME turns'[e] # {} PROVE Leased(e)'
  <2>1. CASE turns'[e] = turns[e] BY <1>0, <1>4, <2>1, LeasedStays DEF InOrder
  <2>2. ASSUME NEW w \in Workers, RunTurn(w), inTask[w].job = e PROVE Leased(e)'
    <3>1. inTask[w].pc # "idle" BY <2>2 DEF RunTurn
    <3>2. Leased(e) BY <2>2, <3>1 DEF OrderInv
    <3>3. QED BY <3>2, LeasedStays
  <2>3. QED BY <2>1, <2>2, RecordMoves
<1>5. QED BY <1>2, <1>3, <1>4 DEF InOrder

LEMMA OutOrderNext ==
    ASSUME TypeOK, AnswerInv, HandOff, OrderInv, [Next]_vars, NEW e \in Events
    PROVE  OutOrder(e)'
<1>0. /\ ahead[e] \subseteq Events
      /\ \A a \in Events : outbox[a].id \in Nat
      /\ nextOutId \in Nat
      /\ InOrder(e) /\ OutOrder(e)
  BY DEF TypeOK, QueueType, RecordType, OutboxRow, OrderInv
<1>1. ASSUME NEW a \in Events, outbox[a].status # "absent" PROVE outbox'[a].id = outbox[a].id
  BY <1>1, OutboxMoves DEF OutboxKeeps
<1>2. ASSUME outbox[e].status = "absent", outbox'[e].status # "absent"
      PROVE  /\ outbox'[e].id = nextOutId + 1 /\ nextOutId' = nextOutId + 1
             /\ Leased(e) /\ outbox'[e].status = "pending"
  <2>1. PICK w \in Workers : CompleteInbox(w) /\ inTask[w].job = e /\ HoldsInbox(w)
    BY <1>2, OutboxMoves DEF OutboxMove
  <2>2. /\ outbox'[e] = [status |-> "pending", attempts |-> 0, owner |-> Nobody,
                         id |-> nextOutId + 1, text |-> trace[e]]
        /\ nextOutId' = nextOutId + 1
    BY <1>2, <2>1, CompleteBoth
  <2> DEFINE n == nextOutId + 1
  <2>3. outbox'[e].id = n /\ outbox'[e].status = "pending" BY <2>2
  <2>4. Leased(e) BY <2>1 DEF HoldsInbox, Leased
  <2>5. QED BY <2>2, <2>3, <2>4
<1>3. outbox[e].status = "absent" /\ outbox'[e].status = "absent" => outbox'[e].id = outbox[e].id
  BY OutboxMoves DEF OutboxMove, PlanFailure
<1>4. outbox'[e].id <= nextOutId'
  <2>1. nextOutId' = nextOutId \/ nextOutId' = nextOutId + 1 BY PlaceMoves
  <2>2. CASE outbox'[e].id = outbox[e].id
    BY <1>0, <2>1, <2>2 DEF OutOrder
  <2>3. CASE outbox'[e].id # outbox[e].id
    BY <1>0, <1>1, <1>2, <1>3, <2>3
  <2>4. QED BY <2>2, <2>3
<1>5. ASSUME outbox'[e].status # "absent"
      PROVE  /\ ahead'[e] = ahead[e]
             /\ \A a \in ahead[e] : /\ outbox[a].status # "absent"
                                    /\ outbox'[a].id < outbox'[e].id
  <2>1. Leased(e)
    BY <1>2, <1>5 DEF HandOff, Leased
  <2>2. ahead'[e] = ahead[e] BY <2>1, PlaceMoves DEF Leased
  <2>3. ASSUME NEW a \in ahead[e]
        PROVE  outbox[a].status # "absent" /\ outbox'[a].id = outbox[a].id
    <3>1. a \in Events /\ inbox[a].status = "processed"
      BY <1>0, <2>1, <2>3 DEF InOrder, Processed
    <3>2. QED BY <1>1, <3>1 DEF HandOff
  <2>4. ASSUME NEW a \in ahead[e] PROVE outbox[a].id < outbox'[e].id
    <3>1. CASE outbox[e].status # "absent" BY <1>0, <1>1, <3>1 DEF OutOrder
    <3>2. CASE outbox[e].status = "absent"
      <4>1. a \in Events /\ OutOrder(a) BY <1>0 DEF OrderInv
      <4>2. outbox[a].id <= nextOutId BY <4>1 DEF OutOrder
      <4>3. QED BY <1>0, <1>2, <1>5, <3>2, <4>1, <4>2
    <3>3. QED BY <3>1, <3>2
  <2>5. QED BY <2>2, <2>3, <2>4
<1>6. ASSUME LeasedOut(e)' PROVE ahead'[e] \subseteq Delivered'
  <2>1. outbox'[e].status # "absent" BY <1>6 DEF LeasedOut
  <2>2. ahead[e] \subseteq Delivered
    <3>1. CASE LeasedOut(e) BY <1>0, <3>1 DEF OutOrder
    <3>2. CASE ~ LeasedOut(e)
      <4>1. outbox[e].status # "absent"
        BY <1>2, <1>6, <2>1 DEF LeasedOut
      <4>2. PICK w \in Workers : ClaimOutbox(w, e)
        BY <1>6, <3>2, <4>1, OutboxMoves DEF LeasedOut, OutboxMove
      <4>3. OlderOutbox(e) \subseteq Delivered BY <4>2 DEF ClaimOutbox, OutboxClaimable
      <4>4. ahead[e] \subseteq OlderOutbox(e)
        BY <1>0, <1>5, <2>1, <4>1 DEF InOrder, OutOrder, OlderOutbox
      <4>5. QED BY <4>3, <4>4
    <3>3. QED BY <3>1, <3>2
  <2>3. ahead'[e] = ahead[e] BY <1>5, <2>1
  <2>4. QED BY <2>2, <2>3, LeasedStays DEF Delivered
<1>7. ASSUME sent'[e] # {} PROVE LeasedOut(e)'
  <2>1. CASE sent[e] # {} BY <1>0, <2>1, LeasedStays DEF OutOrder
  <2>2. ASSUME NEW w \in Workers, SendPost(w), outTask[w].job = e PROVE LeasedOut(e)'
    <3>1. outTask[w].pc # "idle" BY <2>2 DEF SendPost
    <3>2. LeasedOut(e) BY <2>2, <3>1 DEF OrderInv
    <3>3. QED BY <3>2, LeasedStays
  <2>3. QED BY <1>7, <2>1, <2>2, PlaceMoves
<1>8. QED BY <1>4, <1>5, <1>6, <1>7 DEF OutOrder

LEMMA OrderNext ==
    ASSUME TypeOK, AnswerInv, HandOff, OrderInv, [Next]_vars
    PROVE  OrderInv'
<1>0. /\ \A w \in Workers : inTask[w].pc # "idle" => inTask[w].job \in Events
      /\ \A w \in Workers : outTask[w].pc # "idle" => outTask[w].job \in Events
  BY DEF TypeOK, TaskType
<1>1. ASSUME NEW w \in Workers, inTask'[w].pc # "idle"
      PROVE  \E e \in Events : inTask'[w].job = e /\ Leased(e)'
  <2>1. CASE inTask[w].pc # "idle" /\ inTask'[w].job = inTask[w].job
    BY <1>0, <2>1, LeasedStays DEF OrderInv
  <2>2. ASSUME NEW e \in Events, ClaimInbox(w, e), inTask'[w].job = e
        PROVE  Leased(e)'
    BY <2>2, ClaimLeases DEF Leased
  <2>3. QED BY <1>1, <2>1, <2>2, InMoves DEF InMove
<1>2. ASSUME NEW w \in Workers, outTask'[w].pc # "idle"
      PROVE  \E e \in Events : outTask'[w].job = e /\ LeasedOut(e)'
  <2>1. CASE outTask[w].pc # "idle" /\ outTask'[w].job = outTask[w].job
    BY <1>0, <2>1, LeasedStays DEF OrderInv
  <2>2. ASSUME NEW e \in Events, ClaimOutbox(w, e), outTask'[w].job = e
        PROVE  LeasedOut(e)'
    BY <2>2, ClaimLeases DEF LeasedOut
  <2>3. QED BY <1>2, <2>1, <2>2, OutMoves DEF OutMove
<1>3. ASSUME NEW w \in Workers
      PROVE  /\ inTask'[w].pc # "idle" => Leased(inTask[w].job)'
             /\ outTask'[w].pc # "idle" => LeasedOut(outTask[w].job)'
  BY <1>1, <1>2 DEF Leased, LeasedOut
<1>4. QED BY <1>3, InOrderNext, OutOrderNext DEF OrderInv

\* Order within a ticket, end to end, for any number of events, loops and crashes: a message
\* whose older neighbour was committed before it runs its turn after the neighbour is
\* processed, and is posted after the neighbour was delivered (the NOT EXISTS of the two
\* claims, with the id of the outbox row drawn in the statement that settles the inbox row).
THEOREM TicketsInOrder == Spec => []TicketOrder
<1>1. TypeOK /\ AnswerInv /\ HandOff /\ OrderInv /\ [Next]_vars =>
        AnswerInv' /\ HandOff' /\ OrderInv'
  BY AnswerNext, HandOffNext, OrderNext
<1>2. TypeOK /\ OrderInv => TicketOrder
  BY DEF TypeOK, RecordType, OrderInv, InOrder, OutOrder, TicketOrder, Processed, Delivered
<1>3. QED BY <1>1, <1>2, AnswerInit, HandOffInit, OrderInit, TypeCorrect, PTL DEF Spec

-----------------------------------------------------------------------------
\* The transport implements TicketFlow

LEMMA FlowInit == Init => Flow!Init
<1> SUFFICES ASSUME Init PROVE Flow!Init OBVIOUS
<1>1. ASSUME NEW e \in Events
      PROVE  inbox[e].status = "absent" /\ outbox[e].status = "absent" /\ ahead[e] = {}
  BY DEF Init, NoInboxRow, NoOutboxRow
<1>2. Accepted = {} /\ Delivered = {} BY <1>1 DEF Accepted, Delivered
<1>3. FlowAnswer = [e \in Events |-> NoText] BY <1>1 DEF FlowAnswer
<1>4. ahead = [e \in Events |-> {}] BY DEF Init
<1>5. QED BY <1>2, <1>3, <1>4 DEF Flow!Init

\* A processed row is one that has an answer.
LEMMA FlowAnswered ==
    ASSUME AnswerInv PROVE Flow!Answered = Processed
BY DEF AnswerInv, Flow!Answered, FlowAnswer, Processed

LEMMA FlowAccept ==
    ASSUME TypeOK, NEW e \in Events, EnqueueCommit(e), inbox[e].status = "absent"
    PROVE  Flow!Accept(e)
<1> DEFINE front == {a \in Accepted : Ticket[a] = Ticket[e] /\ rowId[a] < openTx[e]}
<1>1. /\ inbox' = [inbox EXCEPT ![e] = Release(@, "pending")]
      /\ ahead' = [ahead EXCEPT ![e] = front]
      /\ UNCHANGED <<outbox, trace>>
  BY DEF EnqueueCommit, traceVars
<1>2. /\ inbox'[e].status = "pending"
      /\ \A f \in Events \ {e} : inbox'[f] = inbox[f]
  BY <1>1, InboxRowOps DEF TypeOK, QueueType, InboxStatus
<1>3. Accepted' = Accepted \cup {e} /\ e \notin Accepted BY <1>2 DEF Accepted
<1>4. FlowAnswer' = FlowAnswer BY <1>1, <1>2 DEF FlowAnswer
<1>5. Delivered' = Delivered BY <1>1 DEF Delivered
<1>6. front \in SUBSET {a \in Accepted : Ticket[a] = Ticket[e]} OBVIOUS
<1> HIDE DEF front
<1>7. QED BY <1>1, <1>3, <1>4, <1>5, <1>6 DEF Flow!Accept

LEMMA FlowComplete ==
    ASSUME TypeOK, AnswerInv, HandOff, OrderInv, NEW w \in Workers, CompleteInbox(w),
           HoldsInbox(w), inbox'[inTask[w].job].status = "processed"
    PROVE  \E e \in Events : \E text \in Responses \ {Empty, Blank} : Flow!Answer(e, text)
<1> DEFINE e == inTask[w].job
           text == trace[e]
<1>1. /\ e \in Events /\ inTask[w].pc # "idle"
      /\ \A f \in Events \ {e} : inbox'[f] = inbox[f] /\ outbox'[f] = outbox[f]
      /\ UNCHANGED <<trace, ahead>>
  BY DEF CompleteInbox, TypeOK, TaskType, QueueType, traceVars, historyVars
<1>2. /\ inbox[e].status = "processing" /\ inbox'[e].status = "processed"
      /\ outbox[e].status = "absent" /\ outbox'[e].status = "pending"
      /\ text \notin {NoText, Empty, Blank}
  <2>1. /\ outbox'[e] = [status |-> "pending", attempts |-> 0, owner |-> Nobody,
                         id |-> nextOutId + 1, text |-> trace[e]]
        /\ text \notin {NoText, Empty, Blank}
    BY CompleteBoth
  <2>2. QED BY <1>1, <2>1 DEF HoldsInbox, HandOff
<1>3. text \in Responses \ {Empty, Blank} BY <1>1, <1>2 DEF TypeOK, RecordType
<1> HIDE DEF e, text
<1>4. Accepted' = Accepted /\ Delivered' = Delivered
  BY <1>1, <1>2 DEF Accepted, Delivered
<1>5. FlowAnswer' = [FlowAnswer EXCEPT ![e] = text]
  BY <1>1, <1>2 DEF FlowAnswer, text
<1>6. e \in Accepted \ Flow!Answered
  BY <1>1, <1>2, FlowAnswered DEF Accepted, Processed
<1>7. ahead[e] \subseteq Flow!Answered
  BY <1>1, <1>2, FlowAnswered DEF OrderInv, InOrder, Leased
<1>8. Flow!Answer(e, text) BY <1>1, <1>4, <1>5, <1>6, <1>7 DEF Flow!Answer
<1>9. QED BY <1>1, <1>3, <1>8

LEMMA FlowConfirm ==
    ASSUME TypeOK, AnswerInv, HandOff, OrderInv, NEW e \in Events,
           outbox[e].status \in {"sending", "dead_letter"},
           outbox' = [outbox EXCEPT ![e] = Deliver(@)],
           UNCHANGED <<inbox, trace, ahead>>
    PROVE  Flow!Confirm(e)
<1>1. /\ outbox'[e].status = "delivered"
      /\ \A f \in Events \ {e} : outbox'[f] = outbox[f]
  BY OutboxRowOps DEF TypeOK, QueueType
<1>2. Delivered' = Delivered \cup {e} BY <1>1 DEF Delivered
<1>3. Accepted' = Accepted /\ FlowAnswer' = FlowAnswer BY DEF Accepted, FlowAnswer
<1>4. e \in Flow!Answered \ Delivered
  BY FlowAnswered DEF HandOff, Processed, Delivered
<1>5. ahead[e] \subseteq Delivered BY DEF OrderInv, OutOrder, LeasedOut
<1>6. QED BY <1>2, <1>3, <1>4, <1>5 DEF Flow!Confirm

LEMMA FlowNext ==
    ASSUME TypeOK, AnswerInv, HandOff, OrderInv, [Next]_vars
    PROVE  [Flow!Next]_(Flow!flowVars)
<1>1. CASE \E e \in Events : EnqueueCommit(e) /\ inbox[e].status = "absent"
  BY <1>1, FlowAccept DEF Flow!Next
<1>2. CASE \E w \in Workers : /\ CompleteInbox(w) /\ HoldsInbox(w)
                              /\ inbox'[inTask[w].job].status = "processed"
  BY <1>2, FlowComplete DEF Flow!Next
<1>3. ASSUME NEW e \in Events, outbox[e].status # "delivered", outbox'[e].status = "delivered"
      PROVE  Flow!Next
  <2>1. /\ outbox[e].status \in {"sending", "dead_letter"}
        /\ \/ \E w \in Workers : MarkDelivered(w) /\ outTask[w].job = e /\ HoldsOutbox(w)
           \/ ReconcileDelivered(e)
    BY <1>3, OutboxMoves DEF OutboxMove, PlanFailure
  <2>2. /\ outbox' = [outbox EXCEPT ![e] = Deliver(@)]
        /\ UNCHANGED <<inbox, trace, ahead>>
    <3>1. CASE ReconcileDelivered(e) BY <3>1 DEF ReconcileDelivered, historyVars
    <3>2. ASSUME NEW w \in Workers, MarkDelivered(w), outTask[w].job = e
          PROVE  /\ outbox' = [outbox EXCEPT ![e] = Deliver(@)]
                 /\ UNCHANGED <<inbox, trace, ahead>>
      BY <1>3, <3>2 DEF MarkDelivered, historyVars
    <3>3. QED BY <2>1, <3>1, <3>2
  <2>3. QED BY <2>1, <2>2, FlowConfirm DEF Flow!Next
<1>4. CASE /\ ~ \E e \in Events : EnqueueCommit(e) /\ inbox[e].status = "absent"
           /\ ~ \E w \in Workers : /\ CompleteInbox(w) /\ HoldsInbox(w)
                                   /\ inbox'[inTask[w].job].status = "processed"
           /\ \A e \in Events : outbox'[e].status = "delivered" => outbox[e].status = "delivered"
  <2>1. ASSUME NEW e \in Events
        PROVE  /\ inbox'[e].status = "absent" <=> inbox[e].status = "absent"
               /\ inbox'[e].status = "processed" <=> inbox[e].status = "processed"
    BY <1>4, InboxMoves DEF InboxMove, PlanFailure
  <2>2. Accepted' = Accepted BY <2>1 DEF Accepted
  <2>3. Delivered' = Delivered BY <1>4, LeasedStays DEF Delivered
  <2>4. ahead' = ahead
    <3>1. ahead \in [Events -> SUBSET Events] /\ ahead' \in [Events -> SUBSET Events]
      BY TypeNext DEF TypeOK, RecordType
    <3>2. \A e \in Events : ahead'[e] = ahead[e] BY <2>1, PlaceMoves
    <3>3. QED BY <3>1, <3>2
  <2>5. FlowAnswer' = FlowAnswer
    <3>1. ASSUME NEW e \in Events, inbox[e].status = "processed" PROVE trace'[e] = trace[e]
      BY <3>1, RecordMoves DEF AnswerInv
    <3>2. QED BY <2>1, <3>1 DEF FlowAnswer
  <2>6. QED BY <2>2, <2>3, <2>4, <2>5 DEF Flow!flowVars
<1>5. QED BY <1>1, <1>2, <1>3, <1>4

\* What the transport promises of an event (docs/DECISIONS.md, D-021), for any number of
\* events, tickets, processes and attempts: one answer that never changes, delivered at most
\* once, in the order of the ticket.  Every other statement of the code is a stutter of it.
THEOREM TransportImplementsFlow == Spec => ImplementsTicketFlow
<1>1. TypeOK /\ AnswerInv /\ HandOff /\ OrderInv /\ [Next]_vars =>
        AnswerInv' /\ HandOff' /\ OrderInv'
  BY AnswerNext, HandOffNext, OrderNext
<1>2. TypeOK /\ AnswerInv /\ HandOff /\ OrderInv /\ [Next]_vars => [Flow!Next]_(Flow!flowVars)
  BY FlowNext
<1>3. QED
  BY <1>1, <1>2, FlowInit, AnswerInit, HandOffInit, OrderInit, TypeCorrect, PTL
     DEF Spec, ImplementsTicketFlow, Flow!FlowSpec
=============================================================================
