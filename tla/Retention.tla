------------------------------ MODULE Retention ------------------------------
(***************************************************************************)
(* scripts/purge_old_memory.py beside the running system: the dry run and  *)
(* the transaction that deletes old conversation memory, old request       *)
(* traces and terminal rows of the HDE queues, while webhooks are          *)
(* redelivered, jobs finish and the user goes on talking.                  *)
(*                                                                         *)
(* Every statement of the transaction sees what is committed at its start; *)
(* what it deletes is gone at the commit, and another writer of such a row *)
(* waits.  NOW() is the start of the transaction.  The queues are those of *)
(* HDETransport, reduced to the states retention tells apart.              *)
(***************************************************************************)
EXTENDS Integers, FiniteSets

CONSTANTS
    Events,         \* upstream events
    Never,          \* a timestamp that is not set, or a row that is not there
    MemoryTTL,      \* MEMORY_TTL_DAYS or --memory-ttl-days
    TraceTTL,       \* --request-trace-ttl-days
    QueueTTL,       \* --hde-terminal-ttl-days
    Horizon,        \* HDE redelivers a webhook for this long
    Recent,         \* turns kept in the session, the older ones are in the summary
    MaxTime,        \* bound: the clock
    MaxTurns,       \* bound: turns of the user
    MaxRuns         \* bound: runs of the command

\* What is assumed of the constants.
Assumptions ==
    /\ {MemoryTTL, TraceTTL, QueueTTL} \subseteq Nat \ {0}
    /\ {Horizon, Recent, MaxTime, MaxTurns, MaxRuns} \subseteq Nat
    /\ Never \notin Nat

VARIABLES
    now,
    inbox,      \* inbox[e]: "absent", "open", "processed" or "dead_letter", and processed_at
    outbox,     \* outbox[e]: "absent", "open", "delivered" or "dead_letter", and delivered_at
    trace,      \* trace[e]: the timestamp of its request_traces row, or Never
    turns,      \* conversation_turns: the turns that have a row, with created_at
    memory,     \* user_memory: last_interaction and interaction_count
    job,        \* the run of purge_old_memory
    first,      \* history variable: when e was first delivered
    answers     \* history variable: answers to e that HDE has

queueVars == <<inbox, outbox, trace>>
memoryVars == <<turns, memory>>
vars == <<now, queueVars, memoryVars, job, first, answers>>

NoRow == [status |-> "absent", at |-> Never]
Forgotten == [last |-> Never, count |-> 0]
Nothing == [turns |-> {}, memory |-> FALSE, traces |-> {}, outbox |-> {}, inbox |-> {}]
IdleJob == [pc |-> "idle", runs |-> 0, at |-> 0, eligible |-> Nothing, seen |-> <<>>, deleted |-> Nothing]

Init ==
    /\ now = 0
    /\ inbox = [e \in Events |-> NoRow]
    /\ outbox = [e \in Events |-> NoRow]
    /\ trace = [e \in Events |-> Never]
    /\ turns = {}
    /\ memory = Forgotten
    /\ job = IdleJob
    /\ first = [e \in Events |-> Never]
    /\ answers = [e \in Events |-> 0]

-----------------------------------------------------------------------------
\* The running system

\* INSERT ... ON CONFLICT (event_key): a repeated delivery finds the row.  A row that the
\* transaction has deleted makes it wait.
Webhook(e) ==
    /\ first[e] # Never => now - first[e] <= Horizon
    /\ e \notin job.deleted.inbox
    /\ inbox[e].status = "absent"
    /\ inbox' = [inbox EXCEPT ![e] = [status |-> "open", at |-> Never]]
    /\ first' = [first EXCEPT ![e] = IF @ = Never THEN now ELSE @]
    \* A new row has a new request_id, of which no trace exists and none was deleted.
    /\ trace' = [trace EXCEPT ![e] = Never]
    /\ job' = [job EXCEPT !.deleted.traces = @ \ {e}]
    /\ UNCHANGED <<now, outbox, memoryVars, answers>>

\* process_message writes the trace of the request.
Answer(e) ==
    /\ inbox[e].status = "open" /\ trace[e] = Never
    /\ trace' = [trace EXCEPT ![e] = now]
    /\ UNCHANGED <<now, inbox, outbox, memoryVars, job, first, answers>>

\* The job becomes an outbox row, ends without an answer, or becomes a dead letter.
Process(e) ==
    /\ inbox[e].status = "open"
    /\ \/ /\ trace[e] # Never
          /\ inbox' = [inbox EXCEPT ![e] = [status |-> "processed", at |-> now]]
          /\ outbox' \in {outbox, [outbox EXCEPT ![e] = [status |-> "open", at |-> Never]]}
       \/ /\ inbox' = [inbox EXCEPT ![e].status = "dead_letter"]
          /\ UNCHANGED outbox
    /\ UNCHANGED <<now, trace, memoryVars, job, first, answers>>

\* The delivery, or its reconciliation, is committed with the telemetry in the trace.
Deliver(e) ==
    /\ outbox[e].status \in {"open", "dead_letter"}
    /\ trace[e] # Never
    /\ outbox' = [outbox EXCEPT ![e] = [status |-> "delivered", at |-> now]]
    /\ answers' = [answers EXCEPT ![e] = @ + 1]
    /\ UNCHANGED <<now, inbox, trace, memoryVars, job, first>>

DeadLetter(e) ==
    /\ outbox[e].status = "open"
    /\ outbox' = [outbox EXCEPT ![e].status = "dead_letter"]
    /\ UNCHANGED <<now, inbox, trace, memoryVars, job, first, answers>>

\* The operator gives a dead letter back to its queue.
Requeue(e) ==
    /\ \/ /\ inbox[e].status = "dead_letter"
          /\ inbox' = [inbox EXCEPT ![e].status = "open"]
          /\ UNCHANGED outbox
       \/ /\ outbox[e].status = "dead_letter"
          /\ outbox' = [outbox EXCEPT ![e].status = "open"]
          /\ UNCHANGED inbox
    /\ UNCHANGED <<now, trace, memoryVars, job, first, answers>>

\* UserMemory.append_turn: the row and user_memory in one transaction.
Turn ==
    /\ ~job.deleted.memory
    /\ memory.count < MaxTurns
    /\ memory' = [last |-> now, count |-> memory.count + 1]
    /\ turns' = turns \cup {[n |-> memory'.count, at |-> now]}
    /\ UNCHANGED <<now, queueVars, job, first, answers>>

Tick ==
    /\ now < MaxTime
    /\ now' = now + 1
    /\ UNCHANGED <<queueVars, memoryVars, job, first, answers>>

-----------------------------------------------------------------------------
\* Which rows qualify

Old(at, from, ttl) == at # Never /\ at < from - ttl

Unresolved(e) ==
    \/ inbox[e].status \notin {"absent", "processed"}
    \/ outbox[e].status \notin {"absent", "delivered"}

\* Mutation: only the inbox is consulted.
OldTracesOfInbox(from) ==
    {e \in Events : Old(trace[e], from, TraceTTL) /\ inbox[e].status \in {"absent", "processed"}}

OldTurns(from)  == {t \in turns : Old(t.at, from, MemoryTTL)}
OldMemory(from) == Old(memory.last, from, MemoryTTL)
OldTraces(from) == {e \in Events : Old(trace[e], from, TraceTTL) /\ ~Unresolved(e)}
OldOutbox(from) ==
    {e \in Events : outbox[e].status = "delivered" /\ Old(outbox[e].at, from, QueueTTL)}
OldInbox(from) ==
    {e \in Events : inbox[e].status = "processed" /\ Old(inbox[e].at, from, QueueTTL)}

\* preview_retention counts an inbox row with the outbox as it would be.
Preview(from) ==
    [turns |-> OldTurns(from), memory |-> OldMemory(from), traces |-> OldTraces(from),
     outbox |-> OldOutbox(from),
     inbox |-> {e \in OldInbox(from) :
                   outbox[e].status = "absent" \/ e \in OldOutbox(from)}]

-----------------------------------------------------------------------------
\* The command

Seen == <<now, inbox, outbox, trace, turns, memory>>
AtStep(pc) == job.pc = pc
Going(pc, table, rows) == job' = [job EXCEPT !.pc = pc, !.deleted[table] = rows]

DryRun ==
    /\ AtStep("idle") /\ job.runs < MaxRuns
    /\ job' = [IdleJob EXCEPT !.pc = "preview", !.runs = job.runs + 1,
                              !.eligible = Preview(now), !.seen = Seen]
    /\ UNCHANGED <<now, queueVars, memoryVars, first, answers>>

\* Without --apply the command ends here.
Begin ==
    /\ AtStep("preview")
    /\ \/ job' = [job EXCEPT !.pc = "turns", !.at = now]
       \/ job' = [IdleJob EXCEPT !.runs = job.runs]
    /\ UNCHANGED <<now, queueVars, memoryVars, first, answers>>

DeleteTurns ==
    /\ AtStep("turns") /\ Going("memory", "turns", OldTurns(job.at))
    /\ UNCHANGED <<now, queueVars, memoryVars, first, answers>>

DeleteMemory ==
    /\ AtStep("memory") /\ Going("traces", "memory", OldMemory(job.at))
    /\ UNCHANGED <<now, queueVars, memoryVars, first, answers>>

DeleteTraces ==
    /\ AtStep("traces") /\ Going("outbox", "traces", OldTraces(job.at))
    /\ UNCHANGED <<now, queueVars, memoryVars, first, answers>>

DeleteOutbox ==
    /\ AtStep("outbox") /\ Going("inbox", "outbox", OldOutbox(job.at))
    /\ UNCHANGED <<now, queueVars, memoryVars, first, answers>>

\* The transaction sees its own deletions: an inbox row goes when no outbox row is left.
DeleteInbox ==
    /\ AtStep("inbox")
    /\ Going("commit", "inbox", {e \in OldInbox(job.at) :
                                    outbox[e].status = "absent" \/ e \in job.deleted.outbox})
    /\ UNCHANGED <<now, queueVars, memoryVars, first, answers>>

Commit ==
    /\ AtStep("commit")
    /\ turns' = turns \ job.deleted.turns
    /\ memory' = IF job.deleted.memory THEN Forgotten ELSE memory
    /\ trace' = [e \in Events |-> IF e \in job.deleted.traces THEN Never ELSE trace[e]]
    /\ outbox' = [e \in Events |-> IF e \in job.deleted.outbox THEN NoRow ELSE outbox[e]]
    /\ inbox' = [e \in Events |-> IF e \in job.deleted.inbox THEN NoRow ELSE inbox[e]]
    /\ job' = [IdleJob EXCEPT !.runs = job.runs]
    /\ UNCHANGED <<now, first, answers>>

\* A statement fails or the process stops: the transaction is rolled back.
Rollback ==
    /\ job.pc \in {"turns", "memory", "traces", "outbox", "inbox", "commit"}
    /\ job' = [IdleJob EXCEPT !.runs = job.runs]
    /\ UNCHANGED <<now, queueVars, memoryVars, first, answers>>

Command == DryRun \/ Begin \/ DeleteTurns \/ DeleteMemory \/ DeleteTraces
             \/ DeleteOutbox \/ DeleteInbox \/ Commit \/ Rollback

Next ==
    \/ \E e \in Events : Webhook(e) \/ Answer(e) \/ Process(e) \/ Deliver(e)
                            \/ DeadLetter(e) \/ Requeue(e)
    \/ Turn
    \/ Tick
    \/ Command

Spec == Init /\ [][Next]_vars

-----------------------------------------------------------------------------
\* Properties

Times == (0..MaxTime) \cup {Never}

\* Every variable has its type, and exactly the ended jobs are dated.
TypeOK ==
    /\ now \in 0..MaxTime
    /\ inbox \in [Events -> [status : {"absent", "open", "processed", "dead_letter"}, at : Times]]
    /\ outbox \in [Events -> [status : {"absent", "open", "delivered", "dead_letter"}, at : Times]]
    /\ \A e \in Events : (inbox[e].status = "processed") <=> (inbox[e].at # Never)
    /\ \A e \in Events : (outbox[e].status = "delivered") <=> (outbox[e].at # Never)
    /\ trace \in [Events -> Times]
    /\ turns \subseteq [n : 1..MaxTurns, at : 0..MaxTime]
    /\ memory \in [last : Times, count : 0..MaxTurns]
    /\ job.runs \in 0..MaxRuns
    /\ first \in [Events -> Times]
    /\ answers \in [Events -> Nat]

\* Retention leaves every open job what it needs to end: its inbox row, and the trace
\* without which a delivery cannot be committed or reconciled.
OpenJobsKeepTheirRows ==
    \A e \in Events : outbox[e].status # "absent" =>
        /\ inbox[e].status = "processed"
        /\ outbox[e].status # "delivered" => trace[e] # Never

\* The dry run shows what --apply deletes, when nothing has changed in between.
ExactDryRun == Commit /\ job.seen = Seen => job.deleted = job.eligible

\* A repeated delivery of the same event does not produce a second answer, as long as HDE
\* repeats no delivery that is older than the queues' TTL.
AnsweredOnce == \A e \in Events : answers[e] <= 1

\* Stored turns never outlive the user's memory: without it they would not be restored,
\* and the next turn would count from the start.
TurnsHaveMemory == turns # {} => memory.last # Never

\* Retention takes nothing that something kept depends on, and does what it has shown; for
\* redelivered events, as long as none is older than the queues' TTL.
RetentionIsSafe ==
    /\ [](OpenJobsKeepTheirRows /\ TurnsHaveMemory)
    /\ [](Horizon <= QueueTTL => AnsweredOnce)
    /\ [][ExactDryRun]_vars
=============================================================================
