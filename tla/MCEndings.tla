------------------------------ MODULE MCEndings ------------------------------
(***************************************************************************)
(* What must come to an end, for TLC: an application of a receipt that was *)
(* interrupted, the hold on a dialog's lock, the refusal of a user's       *)
(* messages, a request in the answer graph and a pull from Yonote.  They   *)
(* share no variable, so a behaviour moves one of them and leaves the      *)
(* others where they start; the fairness of each is that of its own        *)
(* module.  (The delivery of an answer has a run of its own.)              *)
(***************************************************************************)
EXTENDS MCYonoteReceipts

CONSTANTS
    m1, m2, f1, c1, c2,            \* messages, a forum and calls of a user
    y, x,                          \* chunks
    d1, d2, general, events,       \* documents and collections of the provider
    NoForum, NoSession, NoMemory, NoKey, NoTTL

VARIABLES
    part,
    lock, session, rows, memory, turn, mishaps, history,
    key, call, stops, admitted,
    at, bot, sources, drafts, calls, accepted, cached, pending,
    now, listing, pull, request, read, steady, moves

dialogVars == <<lock, session, rows, memory, turn, mishaps, history>>
limitVars  == <<key, call, stops, admitted>>
graphVars  == <<at, bot, sources, drafts, calls, accepted, cached, pending>>
pullVars   == <<now, listing, pull, request, read, steady, moves>>

-----------------------------------------------------------------------------
\* The receipts are those of MCYonoteReceipts.  Two messages and a fault; two calls, one of
\* which may stop halfway; a request whose search may be recovered; a pull with three attempts
\* for each response, under a deadline.

Dialog == INSTANCE Dialog WITH
    Messages <- {m1, m2}, Forums <- {f1}, Recent <- 1, Summaries <- {<<>>, <<m1>>},
    LeaseOutlivesTurn <- TRUE, MaxFaults <- 1, faults <- mishaps
Limit == INSTANCE RequestLimit WITH
    Calls <- {c1, c2}, Limit <- 3, Window <- 4, MaxFaults <- 1, faults <- stops
Graph == INSTANCE AnswerGraph WITH
    Yonote <- {y}, Other <- {x}, Volatile <- {}, RecoveryEnabled <- TRUE, CallCap <- 8
Pull == INSTANCE YonotePull WITH
    Documents <- {d1, d2}, New <- {d2}, Selected <- <<general, events>>, PageSize <- 2,
    MaxRetries <- 2, Timeout <- 2, Duration <- 3, Delays <- {0, 2}, MaxParts <- 2, MaxWaits <- 1,
    Crossing <- FALSE, MaxMoves <- 1

ASSUME EndingsAssumption ==
    Dialog!Assumptions /\ Limit!Assumptions /\ Graph!Assumptions /\ Pull!Assumptions

-----------------------------------------------------------------------------

EndingsInit ==
    /\ part \in {"receipts", "dialog", "limit", "graph", "pull"}
    /\ Init
    /\ Dialog!Init
    /\ Limit!Init
    /\ Graph!Init
    /\ Pull!Init /\ (part # "pull" => listing[general] = <<d1>>)

\* The named part moves and the others stand still.
Alone(name, others) == part = name /\ UNCHANGED <<part, others>>

EndingsNext ==
    \/ Alone("receipts", <<dialogVars, limitVars, graphVars, pullVars>>) /\ Next
    \/ Alone("dialog", <<vars, limitVars, graphVars, pullVars>>) /\ Dialog!Next
    \/ Alone("limit", <<vars, dialogVars, graphVars, pullVars>>) /\ Limit!Next
    \/ Alone("graph", <<vars, dialogVars, limitVars, pullVars>>) /\ Graph!Next
    \/ Alone("pull", <<vars, dialogVars, limitVars, graphVars>>) /\ Pull!Next

\* The fairness of YonoteReceipts, Dialog, RequestLimit, AnswerGraph and YonotePull.  That of
\* the receipts needs no guard: while another part moves, no request is under way and none of
\* its actions is enabled.
EndingsFairness ==
    /\ Fairness
    /\ \A m \in {m1, m2} :
         /\ WF_dialogVars(part = "dialog" /\ Dialog!Step(m))
         /\ WF_dialogVars(part = "dialog" /\ (Dialog!Acquire(m) \/ Dialog!LockTimeout(m)))
    /\ WF_dialogVars(part = "dialog" /\ Dialog!LockExpire)
    /\ WF_limitVars(part = "limit" /\ Limit!Tick)
    /\ \A r \in {c1, c2} : WF_limitVars(part = "limit" /\ Limit!Expire(r))
    /\ WF_graphVars(part = "graph" /\ Graph!Node)
    /\ WF_pullVars(part = "pull" /\ Pull!Work)

EndingsSpec ==
    /\ EndingsInit
    /\ [][EndingsNext]_<<part, vars, dialogVars, limitVars, graphVars, pullVars>>
    /\ EndingsFairness

-----------------------------------------------------------------------------

\* Whoever holds the lock of a dialog loses it, also a process that has died
\* (manager.py, the TTL of the lock).
LockFreed == Dialog!LockFreed

\* A user who is refused is admitted again: the counter that refuses goes away, unless the
\* call that began its window stopped between INCR and EXPIRE (rate_limiter.py, check).
RefusalEnds == Limit!RefusalEnds

\* Every request leaves the answer graph: it is not searched for again for ever
\* (graph/edges.py).
EveryRequestEnds == part = "graph" ~> at = "done"

\* Every pull ends, whatever the provider repeats, delays or sends in small parts
\* (yonote_sync.py, the deadline).
PullEnds == Pull!PullEnds
=============================================================================
