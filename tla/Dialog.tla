-------------------------------- MODULE Dialog --------------------------------
(***************************************************************************)
(* The turns of one user's dialog: process_message of src/main.py under    *)
(* the distributed session lock, the session in Redis, and its long-term   *)
(* copy in PostgreSQL (src/session/manager.py, src/session/memory.py).     *)
(*                                                                         *)
(* Every await on a store is an action.  The lock and the session expire   *)
(* by themselves; a process may stop between any two awaits; errors of     *)
(* PostgreSQL are swallowed where the code swallows them.  Different users *)
(* share nothing, so one dialog is enough.                                 *)
(***************************************************************************)
EXTENDS FiniteSets, Naturals, Sequences

CONSTANTS
    Messages,           \* messages of the user; each is one call of process_message
    Forums,             \* events a dialog can be about
    NoForum,            \* no event in the context
    Nobody,             \* the lock is free
    NoSession,          \* the Redis key has expired or was never set
    NoMemory,           \* the user has no row in user_memory
    Recent,             \* RECENT_SESSION_TURNS
    Summaries,          \* sequences of turns whose text is within SUMMARY_MAX_CHARS
    LeaseOutlivesTurn,  \* no turn takes longer than the lock's TTL
    MaxFaults           \* bound: crashes, raised errors and swallowed errors

\* A session in Redis, and the row of user_memory.
SessionSet == [count : Nat, recent : Seq(Messages), summary : Seq(Messages),
               forum : Forums \cup {NoForum}, pending : BOOLEAN, attempts : Nat]
ContextSet == [forum : Forums \cup {NoForum}, pending : BOOLEAN, attempts : Nat]
MemorySet  == [lastForum : Forums \cup {NoForum}, context : ContextSet,
               summary : Seq(Messages), count : Nat]

\* The last n elements of s, s[-n:], and what comes before them, s[:-n].
Newest(s, n) == IF Len(s) <= n THEN s ELSE SubSeq(s, Len(s) - n + 1, Len(s))

Evicted(s, n) == IF Len(s) <= n THEN <<>> ELSE SubSeq(s, 1, Len(s) - n)

\* What is assumed of the constants; of a text that fits, every part does.
Assumptions ==
    /\ Recent \in Nat \ {0}
    /\ <<>> \in Summaries /\ Summaries \subseteq Seq(Messages)
    /\ \A q \in Summaries : \A i \in 1..(Len(q) + 1), j \in 0..Len(q) :
           SubSeq(q, i, j) \in Summaries
    /\ NoForum \notin Forums /\ Nobody \notin Messages /\ NoMemory \notin MemorySet
    /\ LeaseOutlivesTurn \in BOOLEAN
    /\ MaxFaults \in Nat

VARIABLES
    lock,       \* the token in session-lock:<channel>:<user>, one per message
    session,    \* the JSON under session:<channel>:<user>
    rows,       \* conversation_turns of the user, in the order of their id
    memory,     \* the row of user_memory
    turn,       \* turn[m]: where process_message is for m, and its local variables
    faults,     \* faults so far
    history     \* history variable: the turns in the order they were saved in Redis

storeVars == <<session, rows, memory>>
vars == <<lock, session, rows, memory, turn, faults, history>>

Fresh == [count |-> 0, recent |-> <<>>, summary |-> <<>>,
          forum |-> NoForum, pending |-> FALSE, attempts |-> 0]

Init ==
    /\ lock = Nobody
    /\ session = NoSession
    /\ rows = <<>>
    /\ memory = NoMemory
    /\ turn = [m \in Messages |-> [pc |-> "waiting", session |-> Fresh, analysed |-> FALSE]]
    /\ faults = 0
    /\ history = <<>>

RunningPc == {"rate", "get", "memory", "turns", "save", "screen", "answer",
              "append", "persist", "upsert", "log"}
EndedPc   == {"done", "failed", "crashed"}

Running(m) == turn[m].pc \in RunningPc
Ended(m)   == turn[m].pc \in EndedPc

-----------------------------------------------------------------------------
\* Helpers

\* The rows by turn_index, then id, of which there is one each; the k-th of them.
Precedes(i, j) == \/ rows[i].index < rows[j].index
                  \/ rows[i].index = rows[j].index /\ rows[i].id < rows[j].id
RowsBefore(i) == {j \in DOMAIN rows : Precedes(j, i)}
RowAt(k) == CHOOSE i \in DOMAIN rows : Cardinality(RowsBefore(i)) = k - 1

\* The messages of the last rows, ORDER BY turn_index DESC, id DESC LIMIT, oldest first.
RecentTurns == Newest([k \in DOMAIN rows |-> rows[RowAt(k)].message], Recent)

\* _structured_context
Context(s) == [forum |-> s.forum, pending |-> s.pending, attempts |-> s.attempts]

\* get_or_create without a Redis session: last_forum wins over the structured context.
FromMemory(mem) ==
    [count |-> mem.count, recent |-> <<>>, summary |-> mem.summary,
     forum |-> IF mem.lastForum # NoForum THEN mem.lastForum ELSE mem.context.forum,
     pending |-> mem.context.pending, attempts |-> mem.context.attempts]

\* _append_summary keeps the last SUMMARY_MAX_CHARS characters: of the turns in q, the newest
\* whose text fits.  What is left of a turn that the cut goes through is not counted as a turn.
Room(q) == CHOOSE n \in 0..Len(q) :
               /\ Newest(q, n) \in Summaries
               /\ \A k \in 0..Len(q) : Newest(q, k) \in Summaries => k <= n
Kept(q) == Newest(q, Room(q))

\* SessionManager.append_turn
Appended(s, m) ==
    LET all == Append(s.recent, m)
    IN  [s EXCEPT !.count = @ + 1,
                  !.recent = Newest(all, Recent),
                  !.summary = Kept(@ \o Evicted(all, Recent))]

\* Mutation: the attempts are counted down instead of reset.
AnsweredCountsDown(s) == [s EXCEPT !.pending = FALSE, !.attempts = @ - 1]

Answered(s) == [s EXCEPT !.pending = FALSE, !.attempts = 0]
Asking(s)   == [s EXCEPT !.pending = TRUE, !.attempts = @ + 1]

Goto(m, pc) == turn' = [turn EXCEPT ![m].pc = pc]
\* Carry on at pc with s as the local session, which was also written to Redis.
Save(m, s, pc) ==
    /\ session' = s
    /\ turn' = [turn EXCEPT ![m].pc = pc, ![m].session = s]
\* Carry on with s; nothing is written when it is the session at hand.
SaveIfChanged(m, s, pc) ==
    IF s = turn[m].session THEN Goto(m, pc) /\ UNCHANGED session ELSE Save(m, s, pc)

Fault == faults < MaxFaults /\ faults' = faults + 1
Works == UNCHANGED faults

-----------------------------------------------------------------------------
\* SessionManager.serialized

\* A free lock is taken; a caller that has waited too long gives up.
Acquire(m) ==
    /\ turn[m].pc = "waiting"
    /\ lock = Nobody
    /\ lock' = m
    /\ Goto(m, "rate")
    /\ UNCHANGED <<storeVars, faults, history>>

LockTimeout(m) ==
    /\ turn[m].pc = "waiting"
    /\ lock # Nobody
    /\ Goto(m, "failed")
    /\ UNCHANGED <<lock, storeVars, faults, history>>

\* Mutation: the key is deleted whoever holds it.
ReleaseUnfenced(m) ==
    /\ lock' = Nobody
    /\ Works

\* release() deletes the key only if it still holds the caller's token; an error of
\* Redis is logged and the key is left to expire.
Release(m) ==
    \/ /\ lock' = IF lock = m THEN Nobody ELSE lock
       /\ Works
    \/ /\ lock = m
       /\ UNCHANGED lock
       /\ Fault

\* Mutation: the lock has no TTL, it is only ever released.
LockWithoutTTL ==
    /\ lock # Nobody
    /\ ~LeaseOutlivesTurn
    /\ lock' = Nobody
    /\ UNCHANGED <<storeVars, turn, faults, history>>

LockExpire ==
    /\ lock # Nobody
    /\ LeaseOutlivesTurn => Ended(lock)
    /\ lock' = Nobody
    /\ UNCHANGED <<storeVars, turn, faults, history>>

-----------------------------------------------------------------------------
\* _process_message_unlocked

\* Over the limit: the refusal is logged, the session is not touched.
CheckRate(m) ==
    /\ turn[m].pc = "rate"
    /\ \E pc \in {"get", "log"} : Goto(m, pc)
    /\ UNCHANGED <<lock, storeVars, faults, history>>

GetSession(m) ==
    /\ turn[m].pc = "get"
    /\ IF session # NoSession
       THEN turn' = [turn EXCEPT ![m].pc = "screen", ![m].session = session]
       ELSE Goto(m, "memory")
    /\ UNCHANGED <<lock, storeVars, faults, history>>

ReadMemory(m) ==
    /\ turn[m].pc = "memory"
    /\ turn' = IF memory = NoMemory
               THEN [turn EXCEPT ![m].pc = "save", ![m].session = Fresh]
               ELSE [turn EXCEPT ![m].pc = "turns", ![m].session = FromMemory(memory)]
    /\ UNCHANGED <<lock, storeVars, faults, history>>

ReadTurns(m) ==
    /\ turn[m].pc = "turns"
    /\ turn' = [turn EXCEPT ![m].pc = "save", ![m].session.recent = RecentTurns]
    /\ UNCHANGED <<lock, storeVars, faults, history>>

SaveRestored(m) ==
    /\ turn[m].pc = "save"
    /\ Save(m, turn[m].session, "screen")
    /\ UNCHANGED <<lock, rows, memory, faults, history>>

\* Attachments, unsafe text and profanity are answered at once; a request for an
\* operator also closes an open clarification; otherwise the event named by the channel
\* replaces that of the session.
Screen(m) ==
    /\ turn[m].pc = "screen"
    /\ \/ Goto(m, "append") /\ UNCHANGED session
       \/ SaveIfChanged(m, Answered(turn[m].session), "append")
       \/ \E f \in Forums \cup {turn[m].session.forum} :
              SaveIfChanged(m, [turn[m].session EXCEPT !.forum = f], "answer")
    /\ UNCHANGED <<lock, rows, memory, faults, history>>

\* The cache or the graph has answered.  With an analysis, _update_dialog_session saves
\* the event (named in this turn, kept, or dropped for a category without one) and opens
\* or closes a clarification.
AnswerAnalysed(m) ==
    /\ turn[m].pc = "answer"
    /\ \E f \in Forums \cup {turn[m].session.forum, NoForum}, clarify \in BOOLEAN :
           LET base == [turn[m].session EXCEPT !.forum = f]
               s    == IF clarify THEN Asking(base) ELSE Answered(base)
           IN  /\ session' = s
               /\ turn' = [turn EXCEPT ![m].pc = "append", ![m].session = s,
                                       ![m].analysed = TRUE]
    /\ UNCHANGED <<lock, rows, memory, faults, history>>

\* Without one (request_timeout, an answer before the analysis, no model configured),
\* an escalation closes the clarification and anything else leaves the session alone.
AnswerUnanalysed(m) ==
    /\ turn[m].pc = "answer"
    /\ \/ Goto(m, "append") /\ UNCHANGED session
       \/ SaveIfChanged(m, Answered(turn[m].session), "append")
    /\ UNCHANGED <<lock, rows, memory, faults, history>>

AppendTurn(m) ==
    /\ turn[m].pc = "append"
    /\ Save(m, Appended(turn[m].session, m), "persist")
    /\ history' = Append(history, m)
    /\ UNCHANGED <<lock, rows, memory, faults>>

\* UserMemory.append_turn, one transaction
Persisted(m, s) ==
    /\ rows' = Append(rows, [id |-> Len(rows) + 1, index |-> s.count, message |-> m])
    /\ memory' =
         IF memory = NoMemory
         THEN [lastForum |-> NoForum, context |-> Context(s),
               summary |-> s.summary, count |-> s.count]
         ELSE [memory EXCEPT !.context = Context(s), !.summary = s.summary,
                             !.count = IF @ < s.count THEN s.count ELSE @]

\* An error is logged and forgotten (also one that hides a commit).
PersistTurn(m) ==
    /\ turn[m].pc = "persist"
    /\ \/ Persisted(m, turn[m].session) /\ Works
       \/ UNCHANGED <<rows, memory>> /\ Fault
    /\ Goto(m, IF turn[m].analysed THEN "upsert" ELSE "log")
    /\ UNCHANGED <<lock, session, history>>

\* Mutation: interaction_count takes its inserted value also on conflict.
UpsertedResetsCount(s) ==
    memory' = [lastForum |-> s.forum, context |-> Context(s),
               summary |-> IF memory = NoMemory THEN <<>> ELSE memory.summary, count |-> 0]

\* _update_memory, UserMemory.upsert
Upserted(s) ==
    memory' = IF memory = NoMemory
              THEN [lastForum |-> s.forum, context |-> Context(s),
                    summary |-> <<>>, count |-> 0]
              ELSE [memory EXCEPT !.lastForum = s.forum, !.context = Context(s)]

UpsertMemory(m) ==
    /\ turn[m].pc = "upsert"
    /\ \/ Upserted(turn[m].session) /\ Works
       \/ UNCHANGED memory /\ Fault
    /\ Goto(m, "log")
    /\ UNCHANGED <<lock, session, rows, history>>

\* _safe_log swallows its errors; then the lock is released and the answer returned.
Finish(m) ==
    /\ turn[m].pc = "log"
    /\ Goto(m, "done")
    /\ Release(m)
    /\ UNCHANGED <<storeVars, history>>

\* An await raises (Redis, the restoring reads, the graph, a cancellation): the lock is
\* released on the way out.  A second fault leaves it to expire.
Raise(m) ==
    /\ Running(m)
    /\ Fault
    /\ Goto(m, "failed")
    /\ lock' \in {lock, IF lock = m THEN Nobody ELSE lock}
    /\ UNCHANGED <<storeVars, history>>

Crash(m) ==
    /\ Running(m)
    /\ Fault
    /\ Goto(m, "crashed")
    /\ UNCHANGED <<lock, storeVars, history>>

\* The Redis key of the session reaches its TTL.
SessionExpire ==
    /\ session # NoSession
    /\ session' = NoSession
    /\ UNCHANGED <<lock, rows, memory, turn, faults, history>>

-----------------------------------------------------------------------------

Step(m) ==
    \/ CheckRate(m) \/ GetSession(m) \/ ReadMemory(m) \/ ReadTurns(m) \/ SaveRestored(m)
    \/ Screen(m) \/ AnswerAnalysed(m) \/ AnswerUnanalysed(m)
    \/ AppendTurn(m) \/ PersistTurn(m) \/ UpsertMemory(m) \/ Finish(m)

Next ==
    \/ \E m \in Messages : Acquire(m) \/ LockTimeout(m) \/ Step(m) \/ Raise(m) \/ Crash(m)
    \/ LockExpire
    \/ SessionExpire

\* A call runs on, Redis expires its keys, and a waiting caller polls for the lock and
\* gives up at its blocking_timeout.
Fairness ==
    /\ \A m \in Messages : WF_vars(Step(m)) /\ WF_vars(Acquire(m) \/ LockTimeout(m))
    /\ WF_vars(LockExpire)

Spec     == Init /\ [][Next]_vars
FairSpec == Spec /\ Fairness

-----------------------------------------------------------------------------
\* Properties

\* Every variable has its type.
TypeOK ==
    /\ lock \in Messages \cup {Nobody}
    /\ session \in SessionSet \cup {NoSession}
    /\ rows \in Seq([id : Nat, index : Nat, message : Messages])
    /\ memory \in MemorySet \cup {NoMemory}
    /\ turn \in [Messages -> [pc : {"waiting"} \cup RunningPc \cup EndedPc,
                              session : SessionSet, analysed : BOOLEAN]]
    /\ faults \in 0..MaxFaults
    /\ history \in Seq(Messages)

\* SessionManager.serialized: "Serialize a full dialog turn across workers".
SerializedTurn == \A m, n \in Messages : Running(m) /\ Running(n) => m = n

\* A turn_index names one row of conversation_turns, across expired sessions, lost
\* writes and crashes: the restored counter is never behind the rows.
TurnIndexUnique ==
    \A i, j \in DOMAIN rows : rows[i].index = rows[j].index => i = j

\* What the bot takes for the last messages are turns that were had, each once, in the
\* order they were had, whatever was restored from where.
RecentInOrder ==
    session # NoSession =>
        LET PositionOf(m) == CHOOSE i \in DOMAIN history : history[i] = m
        IN  /\ \A i \in DOMAIN session.recent : \E j \in DOMAIN history :
                   session.recent[i] = history[j]
            /\ \A i, j \in DOMAIN session.recent :
                   i < j => PositionOf(session.recent[i]) < PositionOf(session.recent[j])

\* What the bot takes for the last messages are turns that were had, each once, also when
\* turns run beside each other and one writes back a session in which another's turn is not
\* yet: that forgets a turn or turns two of them round, but repeats and invents none.
NothingInvented ==
    session # NoSession =>
        /\ \A i \in DOMAIN session.recent : \E j \in DOMAIN history :
               session.recent[i] = history[j]
        /\ \A i, j \in DOMAIN session.recent : session.recent[i] = session.recent[j] => i = j

\* Without faults nothing of the dialog is repeated, and nothing lost but for the length of
\* the summary: the recent messages are the last turns had, the summary holds the turns right
\* before them, and it lacks one only if its text would be too long with it, through every
\* eviction and restoration.
WholeDialog ==
    faults = 0 /\ session # NoSession =>
        LET old == Evicted(history, Recent)
            n   == Len(session.summary)
        IN  /\ session.recent = Newest(history, Recent)
            /\ session.summary = Newest(old, n) /\ session.summary \in Summaries
            /\ n < Len(old) => Newest(old, n + 1) \notin Summaries

\* Without faults, what would be restored between two turns is what would be lost: the
\* messages, the summary, the counter and the open clarification.
Restored == [FromMemory(memory) EXCEPT !.recent = RecentTurns]
RestoreFaithful ==
    (faults = 0 /\ lock = Nobody /\ session # NoSession) =>
        /\ memory # NoMemory
        /\ [Restored EXCEPT !.forum = NoForum] = [session EXCEPT !.forum = NoForum]

\* A turn loses its lock to time alone: the release of a turn that has outlived its lease
\* does not free the lock of the turn that runs now.
FencedRelease ==
    \A m \in Messages :
        (Running(m) /\ lock = m /\ lock' # m /\ turn'[m] = turn[m]) => turn' = turn

\* The dialog goes on: whoever holds the lock loses it, also a process that has died or
\* could not reach Redis to release it.
LockFreed == \A m \in Messages : lock = m ~> lock # m

\* The lock does what it is for: while turns end within its TTL no two run at once, and
\* one that does not leaves the lock of the turn after it alone.
LockHolds ==
    /\ [](LeaseOutlivesTurn => SerializedTurn)
    /\ [][FencedRelease]_vars

\* The bot never remembers what was not said, and while turns end within the TTL, what it
\* remembers of a dialog is the dialog.
TurnsRemembered ==
    /\ NothingInvented
    /\ LeaseOutlivesTurn =>
         TurnIndexUnique /\ RecentInOrder /\ WholeDialog /\ RestoreFaithful
=============================================================================
