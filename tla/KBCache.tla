------------------------------- MODULE KBCache -------------------------------
(***************************************************************************)
(* The knowledge base while it changes under running answers: the seed     *)
(* file, the Qdrant index built from it, the keyword snapshot of each      *)
(* process and the semantic response cache (src/rag/cache.py), with the    *)
(* actors that read and write them: process_message, the admin's edit and  *)
(* reindex handlers, scripts/index_kb.py and the runtime status.           *)
(*                                                                         *)
(* The hash of the seed file is injective, so the seed is its own          *)
(* revision.  A question is answered by one chunk; what a text says is its *)
(* name.  Every call to a store is an action; the atomic replacement of    *)
(* the seed file and the locks of several processes that edit it are in    *)
(* YonoteReceipts: one process edits here, any number answer.              *)
(***************************************************************************)
EXTENDS FiniteSets, Naturals

CONSTANTS
    Chunks,         \* chunk ids
    Texts,          \* texts a published chunk may have
    NoText,         \* the chunk is not published, or has no point in the index
    Scopes,         \* cache scopes: events, and the global one
    ForumOf,        \* ForumOf[c]: the scope of the event a chunk belongs to
    Asks,           \* calls of process_message
    Processes,      \* processes that answer
    ProcessOf,      \* ProcessOf[r]: the process that answers call r
    NoSeed, NoSnapshot, NoEntry,
    Offline,        \* index_kb runs while no process is up
    Reverts,        \* a chunk may get back a text it had before
    MaxEdits,       \* bound: changes of the seed
    MaxIndexRuns,   \* bound: runs of index_kb
    MaxChecks       \* bound: runtime-status requests

\* What is assumed of the constants.
Assumptions ==
    /\ Chunks # {} /\ Scopes # {} /\ NoText \notin Texts
    /\ {NoSeed, NoSnapshot} \cap [Chunks -> Texts \cup {NoText}] = {}
    /\ ForumOf \in [Chunks -> Scopes]
    /\ \A r \in Asks : ProcessOf[r] \in Processes
    /\ {Offline, Reverts} \subseteq BOOLEAN
    /\ {MaxEdits, MaxIndexRuns, MaxChecks} \subseteq Nat

VARIABLES
    seed,       \* knowledge_base_seed.json
    index,      \* the collection knowledge_base
    keyword,    \* keyword[p]: _keyword_payload_cache of process p
    cache,      \* the collection response_cache
    ask,        \* ask[r]: where process_message is for r, and its local variables
    admin,      \* the edit or reindex that holds _ADMIN_MUTATION_LOCK
    run,        \* the run of index_kb
    status,     \* the runtime-status request
    counts,     \* edits, index runs and checks so far
    past,       \* history variable: texts each chunk has had
    restarted   \* history variable: processes restarted since the last index run

askVars == <<keyword, cache, ask>>
toolVars == <<admin, run, status>>
historyVars == <<counts, past, restarted>>
vars == <<seed, index, askVars, toolVars, historyVars>>

SeedSet == [Chunks -> Texts \cup {NoText}]

IdleAsk == [pc |-> "idle", chunk |-> CHOOSE c \in Chunks : TRUE, scope |-> CHOOSE s \in Scopes : TRUE,
            rev |-> NoSeed, text |-> NoText, readRev |-> NoSeed, pages |-> NoSnapshot, entry |-> NoEntry]
IdleAdmin == [pc |-> "idle", chunk |-> CHOOSE c \in Chunks : TRUE, text |-> NoText]
IdleRun == [pc |-> "idle", seed |-> NoSeed, todo |-> {}, prune |-> FALSE, full |-> FALSE,
            doomed |-> {}, changed |-> FALSE]
IdleStatus == [pc |-> "idle", seed |-> NoSeed, unread |-> {}, exact |-> TRUE, disturbed |-> FALSE]

\* A release that has been indexed; index, snapshots and cache are empty or follow it.
Init ==
    /\ seed \in [Chunks -> Texts]
    /\ index = seed
    /\ keyword = [p \in Processes |-> NoSnapshot]
    /\ cache = {}
    /\ ask = [r \in Asks |-> IdleAsk]
    /\ admin = IdleAdmin
    /\ run = IdleRun
    /\ status = IdleStatus
    /\ counts = [edits |-> 0, runs |-> 0, checks |-> 0]
    /\ past = [c \in Chunks |-> {seed[c]}]
    /\ restarted = {}

RunPc   == {"upsert", "prune", "delete", "collect", "clear", "verify"}
Running == run.pc \in RunPc
AdminFree == admin.pc = "idle"
Answering(r) == ask[r].pc \notin {"idle", "done"}
Up == Offline => ~Running

Done    == [IdleAsk EXCEPT !.pc = "done"]
To(r, pc) == ask' = [ask EXCEPT ![r] = IF pc = "done" THEN Done ELSE [@ EXCEPT !.pc = pc]]
Count(what) == counts' = [counts EXCEPT ![what] = @ + 1]

-----------------------------------------------------------------------------
\* process_message and SemanticCache

\* The revision is read before anything else; without it the cache is not used.
BeginAsk(r) ==
    /\ ask[r].pc = "idle"
    /\ Up
    /\ \E c \in Chunks, s \in Scopes, rev \in {seed, NoSeed} :
          ask' = [ask EXCEPT ![r] = [IdleAsk EXCEPT
                !.pc = IF rev = NoSeed THEN "retrieve" ELSE "check",
                !.chunk = c, !.scope = s, !.rev = rev]]
    /\ UNCHANGED <<seed, index, keyword, cache, toolVars, historyVars>>

\* check compares the hash before it encodes the question ...
Check(r) ==
    /\ ask[r].pc = "check"
    /\ To(r, IF seed = ask[r].rev THEN "lookup" ELSE "retrieve")
    /\ UNCHANGED <<seed, index, keyword, cache, toolVars, historyVars>>

Matches(e, r) == e.scope = ask[r].scope /\ e.chunk = ask[r].chunk /\ e.rev = ask[r].rev

\* ... looks the question up, where an entry past its TTL or a failed call is a miss ...
Lookup(r) ==
    /\ ask[r].pc = "lookup"
    /\ \/ To(r, "retrieve")
       \/ \E e \in {x \in cache : Matches(x, r)} :
             ask' = [ask EXCEPT ![r].pc = "confirm", ![r].entry = e]
    /\ UNCHANGED <<seed, index, keyword, cache, toolVars, historyVars>>

\* ... and compares it again before a hit is used.
Confirm(r) ==
    /\ ask[r].pc = "confirm"
    /\ To(r, IF seed = ask[r].rev THEN "done" ELSE "retrieve")
    /\ UNCHANGED <<seed, index, keyword, cache, toolVars, historyVars>>

Read(r, text) == ask' = [ask EXCEPT ![r].pc = "answer", ![r].text = text, ![r].readRev = seed,
                                        ![r].pages = NoSnapshot, ![r].entry = NoEntry]

\* The evidence comes from the index or from the keyword snapshot of the process,
\* which is filled by a scroll when it is missing.
Retrieve(r) ==
    /\ ask[r].pc = "retrieve"
    /\ \/ Read(r, index[ask[r].chunk])
       \/ /\ keyword[ProcessOf[r]] # NoSnapshot
          /\ Read(r, keyword[ProcessOf[r]][ask[r].chunk])
       \/ /\ keyword[ProcessOf[r]] = NoSnapshot
          /\ ask' = [ask EXCEPT ![r].pc = "store", ![r].pages = index]
    /\ UNCHANGED <<seed, index, keyword, cache, toolVars, historyVars>>

StoreSnapshot(r) ==
    /\ ask[r].pc = "store"
    /\ keyword' = [keyword EXCEPT ![ProcessOf[r]] = ask[r].pages]
    /\ Read(r, ask[r].pages[ask[r].chunk])
    /\ UNCHANGED <<seed, index, cache, toolVars, historyVars>>

\* _save_cache refuses escalations, partial answers and uncited ones.
Answer(r) ==
    /\ ask[r].pc = "answer"
    /\ \/ To(r, "done")
       \/ ask[r].rev # NoSeed /\ ask[r].text # NoText /\ To(r, "save")
    /\ UNCHANGED <<seed, index, keyword, cache, toolVars, historyVars>>

\* Mutation: save files the answer under the revision it finds.
SaveUnderCurrent(r) ==
    /\ ask[r].pc = "save"
    /\ ask' = [ask EXCEPT ![r].pc = "upsert", ![r].rev = seed]
    /\ UNCHANGED <<seed, index, keyword, cache, toolVars, historyVars>>

\* save compares the hash with the expected one ...
SaveCheck(r) ==
    /\ ask[r].pc = "save"
    /\ To(r, IF seed = ask[r].rev THEN "upsert" ELSE "done")
    /\ UNCHANGED <<seed, index, keyword, cache, toolVars, historyVars>>

\* ... and writes the point, whose id is the revision, the scope and the question.
SaveUpsert(r) ==
    /\ ask[r].pc = "upsert"
    /\ cache' = {e \in cache : ~Matches(e, r)} \cup
                {[rev |-> ask[r].rev, scope |-> ask[r].scope, chunk |-> ask[r].chunk,
                  text |-> ask[r].text, readRev |-> ask[r].readRev]}
    /\ To(r, "done")
    /\ UNCHANGED <<seed, index, keyword, toolVars, historyVars>>

\* An entry reaches cache_ttl_hours.
Expire ==
    /\ \E e \in cache : cache' = cache \ {e}
    /\ UNCHANGED <<seed, index, keyword, ask, toolVars, historyVars>>

Step(r) == Check(r) \/ Lookup(r) \/ Confirm(r) \/ Retrieve(r) \/ StoreSnapshot(r)
             \/ Answer(r) \/ SaveCheck(r) \/ SaveUpsert(r)

\* A process restarts: its snapshot and the calls it was answering are gone.
Restart(p) ==
    /\ run.pc = "done"
    /\ p \notin restarted
    /\ keyword' = [keyword EXCEPT ![p] = NoSnapshot]
    /\ ask' = [r \in Asks |-> IF ProcessOf[r] = p /\ Answering(r)
                              THEN Done ELSE ask[r]]
    /\ restarted' = restarted \cup {p}
    /\ UNCHANGED <<seed, index, cache, toolVars, counts, past>>

-----------------------------------------------------------------------------
\* The admin: update_chunk, the reindex of one chunk, and a Yonote apply, each under
\* _ADMIN_MUTATION_LOCK

Edit(c, text, reindex) ==
    /\ AdminFree
    /\ counts.edits < MaxEdits
    /\ Reverts \/ text \notin past[c]
    /\ seed' = [seed EXCEPT ![c] = text]
    /\ past' = [past EXCEPT ![c] = @ \cup {text}]
    /\ admin' = IF reindex THEN [pc |-> "index", chunk |-> c, text |-> text] ELSE admin
    /\ Count("edits")
    /\ UNCHANGED <<index, askVars, run, status, restarted>>

\* An apply replaces the file and leaves the index to index_kb.
ApplySeed(new) ==
    /\ AdminFree
    /\ counts.edits < MaxEdits
    /\ Reverts \/ \A c \in Chunks : new[c] = seed[c] \/ new[c] \notin past[c]
    /\ seed' = new
    /\ past' = [c \in Chunks |-> past[c] \cup {new[c]}]
    /\ Count("edits")
    /\ UNCHANGED <<index, askVars, toolVars, restarted>>

\* The reindex endpoint reads the record under the same lock.
ReindexChunk(c) ==
    /\ AdminFree
    /\ admin' = [pc |-> "index", chunk |-> c, text |-> seed[c]]
    /\ UNCHANGED <<seed, index, askVars, run, status, historyVars>>

\* upsert_chunk: a point for a published record, a deletion for another.
UpsertChunk ==
    /\ admin.pc = "index"
    /\ \/ /\ index' = [index EXCEPT ![admin.chunk] = admin.text]
          /\ admin' = [admin EXCEPT !.pc = "keyword"]
       \/ admin' = IdleAdmin /\ UNCHANGED index
    /\ UNCHANGED <<seed, askVars, run, status, historyVars>>

\* The snapshot of the process that serves the admin.
InvalidateKeyword(p) ==
    /\ admin.pc = "keyword"
    /\ keyword' = [keyword EXCEPT ![p] = NoSnapshot]
    /\ admin' = [admin EXCEPT !.pc = "cache"]
    /\ UNCHANGED <<seed, index, cache, ask, run, status, historyVars>>

\* invalidate_forum drops the scope of the chunk, for a generic chunk the global one alone;
\* its failure is a warning in the answer.
InvalidateForum ==
    /\ admin.pc = "cache"
    /\ \/ cache' = {e \in cache : e.scope # ForumOf[admin.chunk]}
       \/ UNCHANGED cache
    /\ admin' = IdleAdmin
    /\ UNCHANGED <<seed, index, keyword, ask, run, status, historyVars>>

-----------------------------------------------------------------------------
\* scripts/index_kb.py

Present == {c \in Chunks : index[c] # NoText}
Published(s) == {c \in Chunks : s[c] # NoText}

\* The seed has the reviewed hash: any other run stops before Qdrant.  --only-missing
\* and --limit take a part of the published chunks, and --limit excludes --prune-stale.
BeginIndex(todo, prune) ==
    /\ run.pc \in {"idle", "done", "failed"}
    /\ counts.runs < MaxIndexRuns
    /\ Offline => AdminFree /\ \A r \in Asks : ~Answering(r)
    /\ todo \subseteq Published(seed)
    /\ prune => todo \in {Published(seed), Published(seed) \ Present}
    /\ run' = [pc |-> "upsert", seed |-> seed, prune |-> prune, full |-> (todo = Published(seed)),
               todo |-> todo, doomed |-> {}, changed |-> FALSE]
    /\ keyword' = IF Offline THEN [p \in Processes |-> NoSnapshot] ELSE keyword
    /\ restarted' = IF Offline THEN Processes ELSE {}
    /\ Count("runs")
    /\ UNCHANGED <<seed, index, cache, ask, admin, status, past>>

Disturb == status' = [status EXCEPT !.disturbed = (status.pc = "scan")]

UpsertBatch(batch) ==
    /\ run.pc = "upsert"
    /\ IF run.todo = {}
       THEN /\ batch = {}
            /\ run' = [run EXCEPT !.pc = IF run.prune THEN "prune" ELSE "collect"]
            /\ UNCHANGED <<index, status>>
       ELSE /\ batch # {} /\ batch \subseteq run.todo
            /\ index' = [c \in Chunks |-> IF c \in batch THEN run.seed[c] ELSE index[c]]
            /\ run' = [run EXCEPT !.todo = @ \ batch, !.changed = TRUE]
            /\ Disturb
    /\ UNCHANGED <<seed, askVars, admin, historyVars>>

\* prune_stale_points scrolls the ids first ...
CollectStale ==
    /\ run.pc = "prune"
    /\ run' = [run EXCEPT !.pc = "delete", !.doomed = Present \ Published(run.seed)]
    /\ UNCHANGED <<seed, index, askVars, admin, status, historyVars>>

\* ... and deletes them.
DeleteStale ==
    /\ run.pc = "delete"
    /\ index' = [c \in Chunks |-> IF c \in run.doomed THEN NoText ELSE index[c]]
    /\ run' = [run EXCEPT !.pc = "collect", !.changed = @ \/ run.doomed # {}, !.doomed = {}]
    /\ Disturb
    /\ UNCHANGED <<seed, askVars, admin, historyVars>>

PointId(e) == [rev |-> e.rev, scope |-> e.scope, chunk |-> e.chunk]

\* clear_response_cache, when something was indexed or pruned: the ids first ...
CollectCached ==
    /\ run.pc = "collect"
    /\ run' = [run EXCEPT !.pc = IF run.changed THEN "clear" ELSE "verify",
                          !.doomed = IF run.changed THEN {PointId(e) : e \in cache} ELSE {}]
    /\ UNCHANGED <<seed, index, askVars, admin, status, historyVars>>

\* ... then the points with these ids.
ClearCached ==
    /\ run.pc = "clear"
    /\ cache' = {e \in cache : PointId(e) \notin run.doomed}
    /\ run' = [run EXCEPT !.pc = "verify", !.doomed = {}]
    /\ UNCHANGED <<seed, index, keyword, ask, admin, status, historyVars>>

CompleteIndex ==
    /\ run.pc = "verify"
    /\ run' = IF seed = run.seed THEN [run EXCEPT !.pc = "done"] ELSE [IdleRun EXCEPT !.pc = "failed"]
    /\ UNCHANGED <<seed, index, askVars, admin, status, historyVars>>

\* The run stops at any of its calls to Qdrant.
FailIndex ==
    /\ Running
    /\ run' = [IdleRun EXCEPT !.pc = "failed"]
    /\ UNCHANGED <<seed, index, askVars, admin, status, historyVars>>

IndexKB ==
    \/ \E todo \in SUBSET Chunks, prune \in BOOLEAN : BeginIndex(todo, prune)
    \/ \E batch \in SUBSET Chunks : UpsertBatch(batch)
    \/ CollectStale \/ DeleteStale \/ CollectCached \/ ClearCached \/ CompleteIndex \/ FailIndex

-----------------------------------------------------------------------------
\* build_runtime_kb_status

BeginStatus ==
    /\ status.pc # "scan"
    /\ counts.checks < MaxChecks
    /\ status' = [pc |-> "scan", seed |-> seed, unread |-> Chunks, exact |-> TRUE,
                  disturbed |-> Running]
    /\ Count("checks")
    /\ UNCHANGED <<seed, index, askVars, admin, run, past, restarted>>

\* One page of the scroll, compared with the published records of the snapshot.
ScanPage(c) ==
    /\ status.pc = "scan"
    /\ c \in status.unread
    /\ status' = [status EXCEPT !.unread = @ \ {c}, !.exact = @ /\ index[c] = status.seed[c]]
    /\ UNCHANGED <<seed, index, askVars, admin, run, historyVars>>

\* Mutation: the hash is not read again after the scan.
ConcludeUnchecked ==
    /\ status.pc = "scan" /\ status.unread = {}
    /\ status' = [IdleStatus EXCEPT !.pc = IF status.exact THEN "go" ELSE "stop"]
    /\ UNCHANGED <<seed, index, askVars, admin, run, historyVars>>

Conclude ==
    /\ status.pc = "scan" /\ status.unread = {}
    /\ status' = [IdleStatus EXCEPT !.pc =
                     IF status.exact /\ seed = status.seed THEN "go" ELSE "stop"]
    /\ UNCHANGED <<seed, index, askVars, admin, run, historyVars>>

-----------------------------------------------------------------------------

Admin ==
    /\ Up
    /\ \/ \E c \in Chunks, text \in Texts \cup {NoText}, reindex \in BOOLEAN : Edit(c, text, reindex)
       \/ \E new \in SeedSet : ApplySeed(new)
       \/ \E c \in Chunks : ReindexChunk(c)
       \/ UpsertChunk \/ InvalidateForum
       \/ InvalidateKeyword(CHOOSE p \in Processes : TRUE)

Next ==
    \/ \E r \in Asks : BeginAsk(r) \/ Step(r)
    \/ Expire
    \/ \E p \in Processes : Restart(p)
    \/ Admin
    \/ IndexKB
    \/ BeginStatus \/ Conclude \/ \E c \in Chunks : ScanPage(c)

Spec == Init /\ [][Next]_vars

-----------------------------------------------------------------------------
\* Properties

EntrySet == [rev : SeedSet, scope : Scopes, chunk : Chunks, text : Texts, readRev : SeedSet]

\* Every variable has its type, and a point of the cache has one payload.
TypeOK ==
    /\ seed \in SeedSet /\ index \in SeedSet
    /\ keyword \in [Processes -> SeedSet \cup {NoSnapshot}]
    /\ cache \subseteq EntrySet
    /\ \A e, f \in cache : PointId(e) = PointId(f) => e = f
    /\ admin \in [pc : {"idle", "index", "keyword", "cache"}, chunk : Chunks,
                  text : Texts \cup {NoText}]
    /\ run.pc \in RunPc \cup {"idle", "done", "failed"}
    /\ status.pc \in {"idle", "scan", "go", "stop"}

\* SemanticCache binds an answer to a revision: its evidence was read while the seed had
\* the revision the answer is filed under, however the seed changed meanwhile.
RevisionBinding == \A e \in cache : e.readRev = e.rev

\* A served hit was written for the revision that the seed has when it is confirmed.
ConfirmsRevision ==
    \A r \in Asks : (ask[r].pc = "confirm" /\ ask'[r].pc = "done" /\ restarted' = restarted)
       => ask[r].entry.readRev = seed

\* index_kb --prune-stale completes only with an index that is the published seed, also
\* beside edits and reindexing in the admin.
CompletesExact == (run.pc = "verify" /\ run'.pc = "done" /\ run.full /\ run.prune) => index = seed

\* The runtime status says GO only while the index is the published seed, unless a full
\* index was running during the scan.
GoesExact == (status.pc = "scan" /\ status'.pc = "go" /\ ~status.disturbed) => index = seed

Stale(e) == e.rev = seed /\ e.text # seed[e.chunk]

\* docs/operations.md: after the full index and the restart of the processes no answer of
\* an older text can be a hit.
ReleaseIsFresh ==
    (/\ run.pc = "done" /\ run.full /\ run.prune
     /\ run.seed = seed /\ Published(seed) # {}
     /\ restarted = Processes) => \A e \in cache : ~Stale(e)

\* Cached answers follow the seed: they are filed and served under the revision they were
\* read at, and a release with the processes down leaves none of an older text.
AnswersAreCurrent ==
    /\ [](RevisionBinding /\ (Offline => ReleaseIsFresh))
    /\ [][ConfirmsRevision]_vars

\* Who says that the index is the published seed has looked while it was.
IndexIsTold == [][CompletesExact /\ GoesExact]_vars
=============================================================================
