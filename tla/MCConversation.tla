---------------------------- MODULE MCConversation ----------------------------
(***************************************************************************)
(* The way of a message for TLC: the limit on a user's messages, the turn  *)
(* of a dialog, the answer graph, the limiter of posts to HDE and the      *)
(* retention of what is left behind.  They meet in calls that one model    *)
(* makes in a step and share no variable, so a behaviour moves one of them *)
(* and leaves the others where they start: part says which, and in which   *)
(* instance.  The state space is the sum of theirs.                        *)
(*                                                                         *)
(* The answer graph is the module that this one extends, and its           *)
(* properties are that module's.  The others are instances of the modules  *)
(* with their proofs, so that what is proved of a component can be cited   *)
(* of its instance; AnswerGraphProofs does so, for any constants.          *)
(***************************************************************************)
EXTENDS AnswerGraph, TLC

CONSTANTS
    Messages, Fewer,     \* messages of a user: of the first dialog, of the other two
    Long,                \* those whose turn fills a summary
    Forums, NoForum,
    SessionTurns, SessionOfFewer,   \* turns that a session keeps
    Faults, MoreFaults,
    Nobody, NoSession, NoMemory

CONSTANTS
    Calls, MaxMessages, Window, MaxStops, NoKey, NoTTL

CONSTANTS
    Senders, Rpm, Minute, Ban, Delays, MaxTime

CONSTANTS
    Events, Never, MemoryTTL, TraceTTL, QueueTTL, Horizon, TurnsKept, MaxDays, MaxTurns, MaxRuns

VARIABLES
    part,
    lock, session, rows, memory, turn, faults, history,
    key, call, stops, admitted,
    now, timestamps, blockedUntil, sender, refusal, posts, blocks,
    day, inbox, outbox, trace, turns, remembered, job, first, answers

dialogVars    == <<lock, session, rows, memory, turn, faults, history>>
limitVars     == <<key, call, stops, admitted>>
senderVars    == <<now, timestamps, blockedUntil, sender, refusal, posts, blocks>>
retentionVars == <<day, inbox, outbox, trace, turns, remembered, job, first, answers>>
conversationVars ==
    <<part, dialogVars, limitVars, senderVars, vars, retentionVars>>

-----------------------------------------------------------------------------
\* Three instances of the dialog: three messages and a fault, two messages and two faults, and
\* two messages whose turns may outlive the lock.  The session of the first keeps one turn, so
\* that two are evicted, which the summary has room for unless one of them is long; those of
\* the others keep both turns.
\*
\* The limit on a user's messages, two calls at once, one of which may stop halfway, and the
\* limiter of posts, two a minute, are the first instance's; a header is useless (-1), short or
\* long.  Retention is the second's with one upstream event, since events share nothing but the
\* command, and the third's with a user's turns.

\* A long turn fills a summary, and so do two of the others.
Short(used) ==
    {<<>>} \cup {<<m>> : m \in used} \cup {<<m, n>> : m, n \in used \ Long}

One == INSTANCE DialogProofs WITH
    Recent <- SessionTurns, Summaries <- Short(Messages), LeaseOutlivesTurn <- TRUE,
    MaxFaults <- Faults, RetryAfter <- Delays \cup {-1}
Two == INSTANCE DialogProofs WITH
    Messages <- Fewer, Recent <- SessionOfFewer, Summaries <- Short(Fewer),
    LeaseOutlivesTurn <- TRUE, MaxFaults <- MoreFaults, RetryAfter <- Delays, MaxTurns <- 0
Three == INSTANCE DialogProofs WITH
    Messages <- Fewer, Recent <- SessionOfFewer, Summaries <- Short(Fewer),
    LeaseOutlivesTurn <- FALSE, MaxFaults <- Faults, RetryAfter <- Delays, Events <- {}

ASSUME ConversationAssumption ==
    /\ One!Assumptions /\ Two!Assumptions /\ Three!Assumptions
    /\ One!Rate!Assumptions /\ One!Limiter!Assumptions /\ Assumptions
    /\ Two!Purge!Assumptions /\ Three!Purge!Assumptions /\ Horizon <= QueueTTL

-----------------------------------------------------------------------------

ConversationInit ==
    /\ part \in {"turns", "faults", "outlived", "limit", "limiter", "graph", "queues", "memory"}
    /\ IF part = "turns" THEN One!Init ELSE Two!Init
    /\ One!Rate!Init
    /\ One!Limiter!Init
    /\ Init
    /\ IF part = "memory" THEN Three!Purge!Init ELSE Two!Purge!Init

\* The named part moves and the others stand still.
Alone(name, others) == part = name /\ UNCHANGED <<part, others>>

ConversationNext ==
    \/ Alone("turns", <<limitVars, senderVars, vars, retentionVars>>) /\ One!Next
    \/ Alone("faults", <<limitVars, senderVars, vars, retentionVars>>) /\ Two!Next
    \/ Alone("outlived", <<limitVars, senderVars, vars, retentionVars>>) /\ Three!Next
    \/ Alone("limit", <<dialogVars, senderVars, vars, retentionVars>>) /\ One!Rate!Next
    \/ Alone("limiter", <<dialogVars, limitVars, vars, retentionVars>>) /\ One!Limiter!Next
    \/ Alone("graph", <<dialogVars, limitVars, senderVars, retentionVars>>) /\ Next
    \/ Alone("queues", <<dialogVars, limitVars, senderVars, vars>>) /\ Two!Purge!Next
    \/ Alone("memory", <<dialogVars, limitVars, senderVars, vars>>) /\ Three!Purge!Next

ConversationSpec == ConversationInit /\ [][ConversationNext]_conversationVars

-----------------------------------------------------------------------------

\* The variables of the part that moves have their types.
PartsTyped ==
    CASE part = "turns"    -> One!TypeOK
      [] part = "faults"   -> Two!TypeOK
      [] part = "outlived" -> Three!TypeOK
      [] part = "limit"    -> One!Rate!TypeOK
      [] part = "limiter"  -> One!Limiter!TypeOK
      [] part = "graph"    -> TypeOK
      [] part = "queues"   -> Two!Purge!TypeOK
      [] part = "memory"   -> Three!Purge!TypeOK

\* Two messages of a user are never processed at once while turns end within the TTL of the
\* lock, and a turn that does not leaves the lock of the next one alone (manager.py,
\* serialized).
LockHolds ==
    /\ [](/\ part = "turns" => One!SerializedTurn
          /\ part = "faults" => Two!SerializedTurn)
    /\ [][/\ part = "turns" => One!FencedRelease
          /\ part = "faults" => Two!FencedRelease
          /\ part = "outlived" => Three!FencedRelease]_dialogVars

\* Whatever expires, fails or stops, the turns that a session shows were had, each once, also
\* when turns outlive the lock and write back what they have read; while they do not, these are
\* in their order, a turn_index names one stored turn, and without faults nothing of the dialog
\* is repeated, or lost before the summary is full, also by a restoration (manager.py,
\* append_turn, _append_summary and get_or_create).
TurnsRemembered ==
    /\ part = "turns" => One!TurnsRemembered
    /\ part = "faults" => Two!TurnsRemembered
    /\ part = "outlived" => Three!TurnsRemembered

\* Two fixed windows side by side admit twice the limit of a user's messages at most
\* (rate_limiter.py, check).
TwiceTheLimit == part = "limit" => One!Rate!TwiceTheLimit

\* No minute, wherever it begins, holds more posts to HDE than are configured, none begins
\* while a block that HDE has asked for is in force, and a sender that a full minute refuses
\* is told the first moment that keeps the bound (hde.py, try_acquire and block_for).
PostsLimited ==
    /\ [](part = "limiter" => One!Limiter!WindowBound /\ One!Limiter!BlocksRespected)
    /\ [][part = "limiter" => One!Limiter!ExactRetry]_senderVars

\* Retention leaves an open job its inbox row and the trace it is reconciled by, and turns the
\* memory they are restored with; no event is answered twice for its sake; and the dry run
\* shows what --apply deletes (purge_old_memory.py).
RetentionIsSafe ==
    /\ [](/\ part = "queues" => Two!Purge!OpenJobsKeepTheirRows /\ Two!Purge!AnsweredOnce
          /\ part = "memory" => Three!Purge!TurnsHaveMemory)
    /\ [][/\ part = "queues" => Two!Purge!ExactDryRun
          /\ part = "memory" => Three!Purge!ExactDryRun]_retentionVars
=============================================================================
