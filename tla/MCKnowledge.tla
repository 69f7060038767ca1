----------------------------- MODULE MCKnowledge -----------------------------
(***************************************************************************)
(* The knowledge base for TLC: the pull from Yonote, the naming of chunks  *)
(* that a synchronisation keeps, the page an administrator edits with, and *)
(* the seed, the index and the caches that answers are made from.  Each    *)
(* hands the next a file or a request that has been completed, so a        *)
(* behaviour moves one of them and leaves the others where they start:     *)
(* part says which, and in which instance.  The state space is the sum of  *)
(* theirs.                                                                 *)
(*                                                                         *)
(* The instances are of the module with the components' proofs, so that    *)
(* what is proved of a component can be cited of its instance;             *)
(* KnowledgeProofs does so.                                                *)
(***************************************************************************)
EXTENDS Naturals, FiniteSets, SequencesExt, TLC

CONSTANTS
    c1, c2,              \* chunks
    t1, t2, t3,          \* texts
    global, event,       \* scopes of the cache
    r1, r2, p1,          \* calls of process_message and the process that answers them
    d1, d2, slug,        \* documents and the slug of both
    intro, rules,        \* headings
    doc1, doc2, doc3, doc4, general, events,    \* documents of the provider, its collections
    NoText, NoSeed, NoSnapshot, NoEntry, None

VARIABLES
    part,
    seed, index, keyword, cache, ask, admin, run, status, counts, past, restarted,
    records, snapshot, edits,
    now, listing, pull, request, read, steady, moves,
    selected, title, box, original, dirty, locked, requests, mutation, texts, stored,
    latest, typed, sent

cacheVars  == <<seed, index, keyword, cache, ask, admin, run, status, counts, past, restarted>>
namingVars == <<records, snapshot, edits>>
pullVars   == <<now, listing, pull, request, read, steady, moves>>
pageVars   == <<selected, title, box, original, dirty, locked, requests, mutation, texts,
                stored, latest, typed, sent>>
knowledgeVars == <<part, cacheVars, namingVars, pullVars, pageVars>>

-----------------------------------------------------------------------------
\* What the instances have in common: no answer cites a chunk of another event and no chunk
\* gets back a text it had; two selected collections, read two documents at a time, with a
\* pause of none or two ticks, and no document crosses from one to the other; two chunks on
\* the page, and two changes of its box.

Texts      == {t1, t2}
Scopes     == {global, event}
Processes  == {p1}
Reverts    == FALSE

SharedSlug  == slug
MaxRemovals == 2

Selected == <<general, events>>
PageSize == 2
Delays   == {0, 2}
Crossing == FALSE

PageChunks == {c1, c2}
MaxTyped   == 2

\* The first instance: two calls beside two edits in the admin; a document whose sections are
\* inserted, removed, moved and repeated under two headings; a pull of listings that are
\* edited while they are read; a user who waits for every answer.
One == INSTANCE KBCacheProofs WITH
    Chunks <- {c1}, ForumOf <- (c1 :> global),
    Asks <- {r1, r2}, ProcessOf <- (r1 :> p1) @@ (r2 :> p1),
    Offline <- FALSE, MaxEdits <- 2, MaxIndexRuns <- 0, MaxChecks <- 0,
    NamedDocuments <- {d1}, SameSlug <- {}, SectionTexts <- {t1, t2, t3},
    Heading <- (t1 :> intro) @@ (t2 :> rules) @@ (t3 :> rules),
    MaxSections <- 3, MaxHandEdits <- 0, MinForRatio <- 2,
    Documents <- {doc1, doc2, doc3, doc4}, New <- {doc4}, MaxRetries <- 0, Timeout <- 1,
    Duration <- 1, MaxParts <- 0, MaxWaits <- 0, MaxMoves <- 3,
    Impatient <- FALSE, LoadsFail <- FALSE, MaxRequests <- 6

\* The second: an index run and a status request beside an edit and a call, over a generic
\* chunk and a chunk of the event (the call never begins); two documents with one slug, and a
\* chunk that is edited by hand; a pull under errors, pauses and responses that
\* come in parts, each after up to three waits; a user who does anything.
Two == INSTANCE KBCacheProofs WITH
    Chunks <- {c1, c2}, ForumOf <- (c1 :> global) @@ (c2 :> event),
    Asks <- {r1}, ProcessOf <- (r1 :> p1),
    Offline <- FALSE, MaxEdits <- 1, MaxIndexRuns <- 1, MaxChecks <- 1,
    NamedDocuments <- {d1, d2}, SameSlug <- {d1, d2}, SectionTexts <- {t1, t2},
    Heading <- (t1 :> intro) @@ (t2 :> intro),
    MaxSections <- 2, MaxHandEdits <- 1, MinForRatio <- 3,
    Documents <- {doc2, doc3}, New <- {doc3}, MaxRetries <- 2, Timeout <- 3, Duration <- 6,
    MaxParts <- 3, MaxWaits <- 2, MaxMoves <- 1,
    Impatient <- TRUE, LoadsFail <- TRUE, MaxRequests <- 4

\* The third: a release of a seed, with edits and calls before and after it.
Three == INSTANCE KBCacheProofs WITH
    Chunks <- {c1}, ForumOf <- (c1 :> global),
    Asks <- {r1}, ProcessOf <- (r1 :> p1),
    Offline <- TRUE, MaxEdits <- 2, MaxIndexRuns <- 1, MaxChecks <- 0,
    NamedDocuments <- {d1}, SameSlug <- {}, SectionTexts <- {t1}, Heading <- (t1 :> intro),
    MaxSections <- 1, MaxHandEdits <- 0, MinForRatio <- 2,
    Documents <- {doc2}, New <- {}, MaxRetries <- 0, Timeout <- 1, Duration <- 1,
    MaxParts <- 0, MaxWaits <- 0, MaxMoves <- 0,
    Impatient <- FALSE, LoadsFail <- FALSE, MaxRequests <- 0

ASSUME KnowledgeAssumption ==
    /\ One!Assumptions /\ Two!Assumptions /\ Three!Assumptions
    /\ One!Id!Assumptions /\ Two!Id!Assumptions
    /\ One!Pull!Assumptions /\ Two!Pull!Assumptions
    /\ One!Page!Assumptions /\ Two!Page!Assumptions

-----------------------------------------------------------------------------

\* The first text of the first chunk is t1, since texts are interchangeable, documents are named
\* in the order of the first listings, and a part that stands still has one state.
KnowledgeInit ==
    /\ part \in {"edits", "release", "index", "shift", "slugs", "pages", "deadline",
                 "patient", "anyhow"}
    /\ CASE part = "index"   -> Two!Init
         [] part = "release" -> Three!Init
         [] OTHER            -> One!Init
    /\ seed[c1] = t1
    /\ IF part = "slugs" THEN Two!Id!Init ELSE One!Id!Init
    /\ IF part = "pages"
       THEN One!Pull!Init /\ IsPrefix(listing[general] \o listing[events], <<doc1, doc2, doc3>>)
       ELSE Two!Pull!Init /\ (part # "deadline" => listing[general] = <<doc2>>)
    /\ IF part = "anyhow" THEN Two!Page!Init ELSE One!Page!Init

\* The named part moves and the others stand still.
Alone(name, others) == part = name /\ UNCHANGED <<part, others>>

KnowledgeNext ==
    \/ Alone("edits", <<namingVars, pullVars, pageVars>>) /\ One!Next
    \/ Alone("release", <<namingVars, pullVars, pageVars>>) /\ Three!Next
    \/ Alone("index", <<ask, namingVars, pullVars, pageVars>>) /\ Two!Next
    \/ Alone("shift", <<cacheVars, pullVars, pageVars>>) /\ One!Id!Next
    \/ Alone("slugs", <<cacheVars, pullVars, pageVars>>) /\ Two!Id!Next
    \/ Alone("pages", <<cacheVars, namingVars, pageVars>>) /\ One!Pull!Next
    \/ Alone("deadline", <<cacheVars, namingVars, pageVars>>) /\ Two!Pull!Next
    \/ Alone("patient", <<cacheVars, namingVars, pullVars>>) /\ One!Page!Next
    \/ Alone("anyhow", <<cacheVars, namingVars, pullVars>>) /\ Two!Page!Next

KnowledgeSpec == KnowledgeInit /\ [][KnowledgeNext]_knowledgeVars

-----------------------------------------------------------------------------

\* The variables of the part that moves have their types.
PartsTyped ==
    CASE part = "edits"    -> One!TypeOK
      [] part = "release"  -> Three!TypeOK
      [] part = "index"    -> Two!TypeOK
      [] part = "shift"    -> One!Id!TypeOK
      [] part = "slugs"    -> Two!Id!TypeOK
      [] part = "pages"    -> One!Pull!TypeOK
      [] part = "deadline" -> Two!Pull!TypeOK
      [] part = "patient"  -> One!Page!TypeOK
      [] part = "anyhow"   -> Two!Page!TypeOK

\* Cached answers follow the seed: they are filed and served under the revision they were
\* made from, and a release leaves none of the one before it (rag/cache.py,
\* scripts/index_kb.py).
AnswersAreCurrent ==
    /\ [](/\ part = "edits" => One!RevisionBinding
          /\ part = "index" => Two!RevisionBinding
          /\ part = "release" => Three!RevisionBinding /\ Three!ReleaseIsFresh)
    /\ [][/\ part = "edits" => One!ConfirmsRevision
          /\ part = "index" => Two!ConfirmsRevision
          /\ part = "release" => Three!ConfirmsRevision]_cacheVars

\* Who says that the index is the published seed has looked while it was (index_kb.py, the
\* verification of a run; main.py, the runtime status).
IndexIsTold ==
    [][/\ part = "edits" => One!CompletesExact /\ One!GoesExact
       /\ part = "index" => Two!CompletesExact /\ Two!GoesExact
       /\ part = "release" => Three!CompletesExact /\ Three!GoesExact]_cacheVars

\* A preview is never refused for its chunk IDs, to synchronise the same snapshot once more
\* changes no chunk, and a preview is stopped only if some text is lost or repeated; a text
\* that a document holds once before and after keeps its ID, and an ID passes to another
\* document only when its own has left the provider (yonote_sync.py, the reconciliation).
NamingIsSound ==
    /\ [](/\ part = "shift" => One!Id!NeverRefused /\ One!Id!Settled /\ One!Id!StoppedForLoss
          /\ part = "slugs" => Two!Id!NeverRefused /\ Two!Id!Settled)
    /\ [][part = "slugs" => Two!Id!IdentityKept /\ Two!Id!IdsStay]_namingVars

\* A document that stays in its collection is in every snapshot that a preview accepts, and a
\* pull is over less than one read timeout after its deadline (sync_yonote_kb.py).
PullIsSound ==
    /\ part = "pages" => One!Pull!PullIsSound
    /\ part = "deadline" => Two!Pull!PullIsSound

\* For a user who waits for every answer, what is saved under the name of a chunk was made
\* from the text of that chunk, an editor without unsaved changes shows a stored text, and
\* saves are stored in the order in which they were sent; whatever is clicked and given up,
\* the server makes one change at a time (admin/ui.py; main.py, the mutation lock).
EditsAreKept ==
    /\ [](/\ part = "patient" =>
               One!Page!OneMutation /\ One!Page!SavedAsShown /\ One!Page!CleanIsStored
          /\ part = "anyhow" => Two!Page!OneMutation)
    /\ [][part = "patient" => One!Page!StoresInOrder]_pageVars
=============================================================================
