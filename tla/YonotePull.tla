------------------------------ MODULE YonotePull ------------------------------
(***************************************************************************)
(* One pull of the Yonote documents: YonoteClient and                      *)
(* load_yonote_documents of scripts/sync_yonote_kb.py, as preview_sync     *)
(* runs them (src/admin/yonote_sync.py).  The provider pages its listings  *)
(* by offset and goes on being edited while it is read; requests fail, are *)
(* repeated, and answer part by part under a deadline for the whole pull.  *)
(*                                                                         *)
(* The code looks at the deadline before and after a request, at the head  *)
(* of the response and at every chunk of its body.  Between two such looks *)
(* httpx may wait several times: to connect, for TLS, to write, for every  *)
(* read of an incomplete head or chunk.  The timeout of the request bounds *)
(* each of these waits by itself, not their sum.                           *)
(*                                                                         *)
(* The pull is alone: _YONOTE_SYNC_LOCK admits one.  Time is discrete and  *)
(* passes only while a request or a sleep waits; the wait for a request    *)
(* slot is part of such a sleep.                                           *)
(***************************************************************************)
EXTENDS Integers, FiniteSets, Sequences, SequencesExt

CONSTANTS
    Documents,      \* documents of the provider
    New,            \* those that are created while it is read, and then stay
    Selected,       \* the selected collections, in the order they are read
    PageSize,       \* limit of _get_paginated
    MaxRetries,     \* yonote_max_retries
    Timeout,        \* yonote_request_timeout_seconds, in ticks
    Duration,       \* MAX_PREVIEW_DURATION_SECONDS, in ticks
    Delays,         \* pauses before a request is repeated, in ticks
    MaxParts,       \* parts of a response before its last: the head, chunks within the limit
    MaxWaits,       \* bound: further waits of httpx between two looks at the deadline
    Crossing,       \* whether documents also move to another collection
    MaxMoves        \* bound: edits of the listings during the pull

\* What is assumed of the constants.
Assumptions ==
    /\ New \subseteq Documents /\ Delays \subseteq Nat /\ Crossing \in BOOLEAN
    /\ {PageSize, Timeout, Duration} \subseteq Nat \ {0}
    /\ {MaxRetries, MaxParts, MaxWaits, MaxMoves} \subseteq Nat
    /\ Selected \in Seq(Range(Selected)) \ {<<>>}

VARIABLES
    now,        \* time since the client was made
    listing,    \* listing[c]: the documents of a collection, in the provider's order
    pull,       \* where the pull is: see TypeOK
    request,    \* the request under way
    read,       \* <<collection, document>> pairs as loaded
    steady,     \* history: pairs that have been in their place since the start
    moves       \* edits of the listings so far

vars == <<now, listing, pull, request, read, steady, moves>>

Collections == Range(Selected)
Listed(c)   == Range(listing[c])
Placed      == UNION {{c} \X Listed(c) : c \in Collections}

\* All ways to distribute the first documents over the collections, each in one place
Listings ==
    {l \in [Collections -> BoundedSeq(Documents \ New, Cardinality(Documents \ New))] :
        /\ \A c \in Collections : IsInjective(l[c])
        /\ \A c, e \in Collections : c # e => Range(l[c]) \cap Range(l[e]) = {}}

NoRequest == [attempt |-> 0, patience |-> 0, until |-> 0, parts |-> 0, waits |-> 0]

Init ==
    /\ now = 0
    /\ listing \in Listings
    /\ pull = [pc |-> "idle", kind |-> "collections", coll |-> 1, offset |-> 0,
               refs |-> <<>>, next |-> 1]
    /\ request = NoRequest
    /\ read = <<>>
    /\ steady = {}
    /\ moves = 0

-----------------------------------------------------------------------------
\* The provider's editors, while the pull is under way

Underway == pull.pc \in {"ask", "waiting", "sleeping"}

Edit ==
    /\ Underway
    /\ moves < MaxMoves
    /\ moves' = moves + 1
    /\ UNCHANGED <<now, pull, request, read>>

Create ==
    /\ Edit
    /\ \E d \in New, c \in Collections : \E i \in 1..Len(listing[c]) + 1 :
        /\ \A e \in Collections : d \notin Listed(e)
        /\ listing' = [listing EXCEPT ![c] = InsertAt(@, i, d)]
    /\ UNCHANGED steady

Delete ==
    /\ Edit
    /\ \E c \in Collections : \E i \in DOMAIN listing[c] :
        /\ listing[c][i] \notin New
        /\ listing' = [listing EXCEPT ![c] = RemoveAt(@, i)]
        /\ steady' = steady \ {<<c, listing[c][i]>>}

\* To another place of its listing, or to another collection
Move ==
    /\ Edit
    /\ \E c, e \in Collections : \E i \in DOMAIN listing[c] :
        LET left == [listing EXCEPT ![c] = RemoveAt(@, i)]
        IN  /\ c = e \/ Crossing
            /\ \E j \in 1..Len(left[e]) + 1 :
                /\ listing' = [left EXCEPT ![e] = InsertAt(@, j, listing[c][i])]
                /\ listing' # listing
                /\ steady' = IF c = e THEN steady ELSE steady \ {<<c, listing[c][i]>>}

-----------------------------------------------------------------------------
\* Requests

Least(m, n) == IF m < n THEN m ELSE n
Expired     == now >= Duration

Fail == /\ pull' = [pull EXCEPT !.pc = "failed"]
        /\ UNCHANGED <<request, read>>

Start ==
    /\ pull.pc = "idle"
    /\ pull' = [pull EXCEPT !.pc = "ask"]
    /\ steady' = Placed
    /\ UNCHANGED <<now, listing, request, read, moves>>

\* The timeout that is passed with the request is what is left, at most its own; it is
\* the limit of every single wait of the request
Ask ==
    /\ pull.pc = "ask"
    /\ IF Expired THEN Fail
       ELSE /\ pull' = [pull EXCEPT !.pc = "waiting"]
            /\ request' = [request EXCEPT !.patience = Least(Timeout, Duration - now),
                                          !.until = now + Least(Timeout, Duration - now),
                                          !.parts = 0, !.waits = 0]
            /\ UNCHANGED read
    /\ UNCHANGED <<now, listing, steady, moves>>

\* One wait of httpx is over, and nothing is there yet that the code would see: the
\* connection, TLS, the written request, some bytes of a head or of a chunk
Wait ==
    /\ pull.pc = "waiting"
    /\ request.waits < MaxWaits
    /\ request' = [request EXCEPT !.waits = @ + 1, !.until = now + request.patience]
    /\ UNCHANGED <<now, listing, pull, read, steady, moves>>

\* Mutation: a response is read to its end whatever the time
PartUnchecked ==
    /\ pull.pc = "waiting"
    /\ IF request.parts = MaxParts THEN Fail
       ELSE /\ request' = [request EXCEPT !.parts = @ + 1, !.waits = 0,
                                          !.until = now + request.patience]
            /\ UNCHANGED <<pull, read>>
    /\ UNCHANGED <<now, listing, steady, moves>>

\* A part of the response has come: its head, at the response hook, or a chunk, under
\* the stream guard that the hook puts in
Part ==
    /\ pull.pc = "waiting"
    /\ IF Expired \/ request.parts = MaxParts THEN Fail
       ELSE /\ request' = [request EXCEPT !.parts = @ + 1, !.waits = 0,
                                          !.until = now + request.patience]
            /\ UNCHANGED <<pull, read>>
    /\ UNCHANGED <<now, listing, steady, moves>>

\* Mutation: attempts are not counted
TroubleUncounted ==
    /\ pull.pc = "waiting"
    /\ IF Expired THEN Fail
       ELSE \E delay \in Delays :
              /\ pull' = [pull EXCEPT !.pc = "sleeping"]
              /\ request' = [request EXCEPT !.until = now + Least(delay, Duration - now),
                                            !.waits = 0]
              /\ UNCHANGED read
    /\ UNCHANGED <<now, listing, steady, moves>>

\* A transport error, which a read timeout is, or a transient status
Trouble ==
    /\ pull.pc = "waiting"
    /\ IF Expired \/ request.attempt = MaxRetries THEN Fail
       ELSE \E delay \in Delays :
              /\ pull' = [pull EXCEPT !.pc = "sleeping"]
              /\ request' = [request EXCEPT !.until = now + Least(delay, Duration - now),
                                            !.attempt = @ + 1, !.waits = 0]
              /\ UNCHANGED read
    /\ UNCHANGED <<now, listing, steady, moves>>

Wake ==
    /\ pull.pc = "sleeping"
    /\ now = request.until
    /\ IF Expired THEN Fail
       ELSE pull' = [pull EXCEPT !.pc = "ask"] /\ UNCHANGED <<request, read>>
    /\ UNCHANGED <<now, listing, steady, moves>>

Tick ==
    /\ pull.pc \in {"waiting", "sleeping"}
    /\ now < request.until
    /\ now' = now + 1
    /\ UNCHANGED <<listing, pull, request, read, steady, moves>>

-----------------------------------------------------------------------------
\* Answers

Collection == Selected[pull.coll]

\* The next request of a pull at p
NextInfo(p) ==
    IF p.next <= Len(p.refs) THEN [p EXCEPT !.pc = "ask", !.kind = "info"]
    ELSE IF p.coll < Len(Selected)
         THEN [pc |-> "ask", kind |-> "page", coll |-> p.coll + 1, offset |-> 0,
               refs |-> <<>>, next |-> 1]
         ELSE [p EXCEPT !.pc = "done"]

Answer(kind) ==
    /\ pull.pc = "waiting"
    /\ pull.kind = kind
    /\ UNCHANGED <<now, listing, steady, moves>>

CollectionsAnswer ==
    /\ Answer("collections")
    /\ IF Expired THEN Fail
       ELSE /\ pull' = [pull EXCEPT !.pc = "ask", !.kind = "page"]
            /\ request' = NoRequest
            /\ UNCHANGED read

\* A page that is not full is the last
IsLast(page) == Len(page) < PageSize

PageAnswer ==
    /\ Answer("page")
    /\ IF Expired THEN Fail
       ELSE LET docs == listing[Collection]
                page == SubSeq(docs, pull.offset + 1,
                               Least(pull.offset + PageSize, Len(docs)))
                grown == [pull EXCEPT !.refs = @ \o page]
            IN  /\ pull' = IF IsLast(page) THEN NextInfo(grown)
                           ELSE [grown EXCEPT !.pc = "ask", !.offset = @ + PageSize]
                /\ request' = NoRequest
                /\ UNCHANGED read

\* documents.info of a document that is gone is an error
InfoAnswer ==
    /\ Answer("info")
    /\ LET d == pull.refs[pull.next]
       IN  IF Expired \/ \A c \in Collections : d \notin Listed(c) THEN Fail
           ELSE /\ read' = Append(read, <<Collection, d>>)
                /\ pull' = NextInfo([pull EXCEPT !.next = @ + 1])
                /\ request' = NoRequest

\* An error that is not transient, a malformed or an oversized response
Refusal ==
    /\ pull.pc = "waiting"
    /\ Fail
    /\ UNCHANGED <<now, listing, steady, moves>>

Answers == CollectionsAnswer \/ PageAnswer \/ InfoAnswer

Work == Ask \/ Wait \/ Part \/ Trouble \/ Refusal \/ Wake \/ Tick \/ Answers

Next == Start \/ Work \/ Create \/ Delete \/ Move

Spec == Init /\ [][Next]_vars

\* A server that keeps a connection is timed out, a sleep ends
Fairness == WF_vars(Work)

FairSpec == Spec /\ Fairness

-----------------------------------------------------------------------------
\* The preview of what was read

\* validate_seed_items refuses a document that was loaded twice, _snapshot_safety
\* an empty snapshot; a document that was not loaded at all is one that was removed
Sealed == pull.pc = "done" /\ IsInjective(read) /\ read # <<>>

-----------------------------------------------------------------------------
\* Properties

TypeOK ==
    /\ now \in Nat
    /\ listing \in [Collections -> Seq(Documents)]
    /\ pull \in [pc : {"idle", "ask", "waiting", "sleeping", "done", "failed"},
                 kind : {"collections", "page", "info"}, coll : DOMAIN Selected,
                 offset : Nat, refs : Seq(Documents), next : Nat]
    /\ request \in [attempt : 0..MaxRetries, patience : 0..Timeout,
                    until : Nat, parts : 0..MaxParts, waits : 0..MaxWaits]
    /\ read \in Seq(Collections \X Documents)
    /\ steady \subseteq Collections \X Documents
    /\ moves \in 0..MaxMoves

\* A document that was in its collection all the time is in every snapshot that a
\* preview accepts (load_yonote_documents; _get_paginated asks for pages by offset).
SteadyAreRead == Sealed => steady \subseteq Range(read)

\* The deadline holds at every look at the clock, whatever the server sends and however
\* often it is asked again: no pull is done after it, and one that is still under way
\* outlives it by less than one timeout for each wait of httpx since the last such look
\* (_ensure_operation_active, _YonoteResponseStreamGuard; the timeout of _request).
InTime ==
    /\ pull.pc = "done" => now < Duration
    /\ Underway => now < Duration + (request.waits + 1) * Timeout

\* Every pull ends: neither repeated errors nor a response in small parts keep it, when
\* httpx waits only so often for one of them.
PullEnds == Underway ~> pull.pc \in {"done", "failed"}

\* A pull ends in time, and with everything that stayed where it was, unless documents
\* cross from one collection to another meanwhile.
PullIsSound == InTime /\ (~Crossing => SteadyAreRead)
=============================================================================
