---------------------------- MODULE ChunkIdentity ----------------------------
(***************************************************************************)
(* How a Yonote synchronisation names the chunks of a new snapshot         *)
(* (scripts/sync_yonote_kb.py, src/admin/yonote_sync.py).  A chunk's raw   *)
(* ID is built from its place: the slug of its document, the ordinal of    *)
(* its section and the section's heading.  A section inserted above the    *)
(* others moves them all to other IDs, so the preview gives a text that a  *)
(* document holds once, before and now, the ID it had, and finds another   *)
(* of the document's IDs for new content whose raw ID is thereby taken.    *)
(* The index, the cache and the evaluation cases all refer to chunk IDs.   *)
(*                                                                         *)
(* A preview and the application of its receipt are one step here: the     *)
(* receipt is bound to the seed it was computed from (YonoteReceipts).     *)
(* Documents are named by their immutable scope, (collection, document).   *)
(***************************************************************************)
EXTENDS Integers, FiniteSets, Sequences, SequencesExt

CONSTANTS
    Documents,      \* document scopes, as _immutable_document_scope names them
    SameSlug,       \* the documents whose provider url IDs have one slug
    SharedSlug,     \* that slug
    Texts,          \* section texts, each with its heading in it
    Heading,        \* Heading[t]: the slug of the heading of text t
    MaxSections,    \* bound: sections of a document
    MaxEdits,       \* bound: chunks edited by hand
    MaxRemovals,    \* MAX_REMOVALS_WITHOUT_WAIVER
    MinForRatio     \* MIN_REMOVALS_FOR_RATIO_GUARD

\* What is assumed of the constants.
Assumptions ==
    /\ IsFiniteSet(Documents)
    /\ SameSlug \subseteq Documents /\ SharedSlug \notin Documents
    /\ {MaxSections, MaxEdits, MaxRemovals, MinForRatio} \subseteq Nat

VARIABLES
    seed,       \* the Yonote records of the seed: chunk ID -> document and text
    snapshot,   \* the provider's documents as last applied: document -> its sections
    edits       \* chunks edited since Init

vars == <<seed, snapshot, edits>>

Topics == {Heading[t] : t \in Texts}
Ids    == [slug : Documents \cup {SharedSlug}, row : 1..MaxSections, topic : Topics]
Bodies == UNION {[1..n -> Texts] : n \in 0..MaxSections}
Snapshots == UNION {[D -> Bodies] : D \in SUBSET Documents}

-----------------------------------------------------------------------------
\* The sections of a snapshot and their raw IDs

Sections(s) == UNION {{d} \X DOMAIN s[d] : d \in DOMAIN s}
Body(s, x)  == s[x[1]][x[2]]

\* A document keeps the slug of its url ID unless another of the snapshot has it
SlugOf(s, d) ==
    IF SameSlug \cap DOMAIN s = {d} THEN SharedSlug ELSE d

\* Mutation: ordinals are counted from 0
RawIdFromZero(s, x) ==
    [slug |-> SlugOf(s, x[1]), row |-> x[2] - 1, topic |-> Heading[Body(s, x)]]

RawId(s, x) ==
    [slug |-> SlugOf(s, x[1]), row |-> x[2], topic |-> Heading[Body(s, x)]]

-----------------------------------------------------------------------------
\* Reconciliation of the raw IDs with the seed k

\* Where the seed, and where the snapshot, has a text of a document
Holding(k, d, t)   == {o \in DOMAIN k : k[o].doc = d /\ k[o].text = t}
Occurring(s, d, t) == {i \in DOMAIN s[d] : s[d][i] = t}

\* The sections whose text their document holds once, in the seed and now
Matched(k, s) ==
    {x \in Sections(s) : /\ Cardinality(Holding(k, x[1], Body(s, x))) = 1
                         /\ Cardinality(Occurring(s, x[1], Body(s, x))) = 1}

\* fresh_to_old: the IDs that the matched sections had
Kept(k, s) ==
    [x \in Matched(k, s) |-> CHOOSE o \in Holding(k, x[1], Body(s, x)) : TRUE]

\* New content whose raw ID belongs to content that moved ...
Displaced(s, kept, d) ==
    LET taken == Range(kept)
    IN  {x \in Sections(s) \ DOMAIN kept : x[1] = d /\ RawId(s, x) \in taken}

\* ... and the sections of moved content whose raw ID is thereby free
Vacated(s, kept, d) ==
    LET taken == Range(kept)
    IN  {x \in DOMAIN kept : x[1] = d /\ RawId(s, x) \notin taken}

\* The place of a section among others of its document
Place(S, x) == Cardinality({y \in S : y[2] <= x[2]})

\* Mutation: one pool of free IDs for all documents
ReallocatedAnywhere(s, kept, x) ==
    LET displaced == SetToSeq(UNION {Displaced(s, kept, d) : d \in DOMAIN s})
        vacated   == SetToSeq(UNION {Vacated(s, kept, d) : d \in DOMAIN s})
        n == CHOOSE n \in DOMAIN displaced : displaced[n] = x
    IN  RawId(s, vacated[n])

\* The n-th displaced section of a document gets the n-th free ID of the document
Reallocated(s, kept, x) ==
    LET displaced == Displaced(s, kept, x[1])
        vacated   == Vacated(s, kept, x[1])
    IN  RawId(s, CHOOSE y \in vacated : Place(vacated, y) = Place(displaced, x))

\* assigned_ids: the chunk ID of each section
Assigned(s, kept) ==
    LET taken == Range(kept)
    IN  [x \in Sections(s) |->
            IF x \in DOMAIN kept THEN kept[x]
            ELSE IF RawId(s, x) \notin taken THEN RawId(s, x)
            ELSE Reallocated(s, kept, x)]

\* The snapshot's records under their new IDs
Records(s, assigned) ==
    [o \in Range(assigned) |->
        LET section == CHOOSE x \in Sections(s) : assigned[x] = o
        IN  [doc |-> section[1], text |-> Body(s, section)]]

RawIds(s) == {RawId(s, x) : x \in Sections(s)}

NoFreeId(s, kept) ==
    \E d \in DOMAIN s :
        Cardinality(Vacated(s, kept, d)) < Cardinality(Displaced(s, kept, d))

\* Rekeyed content as counted from the added and from the removed raw IDs
FromAdded(k, s, ids) ==
    Cardinality(RawIds(s) \ DOMAIN k) - Cardinality(ids \ DOMAIN k)
FromRemoved(k, s, ids) ==
    Cardinality(DOMAIN k \ RawIds(s)) - Cardinality(DOMAIN k \ ids)

\* The ValueErrors of the preview: there is no receipt
Refused(k, s) ==
    LET kept  == Kept(k, s)
        ids   == Range(Assigned(s, kept))
        added == FromAdded(k, s, ids)
    IN  \/ Cardinality(RawIds(s)) # Cardinality(Sections(s))
        \/ NoFreeId(s, kept)
        \/ Cardinality(ids) # Cardinality(Sections(s))
        \/ added # FromRemoved(k, s, ids)
        \/ added < 0

-----------------------------------------------------------------------------
\* The gates of a full preview

Removed(k, s) == DOMAIN k \ Range(Assigned(s, Kept(k, s)))

\* A document of the seed that is still there and has no chunk any more
LostAllChunks(k, s) ==
    \E d \in DOMAIN s : s[d] = <<>> /\ \E o \in DOMAIN k : k[o].doc = d

Stopped(k, s) ==
    LET removed == Cardinality(Removed(k, s))
    IN  \/ k # <<>> /\ Sections(s) = {}
        \/ removed > MaxRemovals
        \/ removed >= MinForRatio /\ 4 * removed > Cardinality(DOMAIN k)
        \/ LostAllChunks(k, s)

-----------------------------------------------------------------------------
Init ==
    /\ seed = <<>>
    /\ snapshot = <<>>
    /\ edits = 0

\* A full preview of what the provider holds, and the application of its receipt:
\* the snapshot replaces every Yonote record of the seed
Sync ==
    \E s \in Snapshots :
        /\ ~Refused(seed, s)
        /\ ~Stopped(seed, s)
        /\ seed' = Records(s, Assigned(s, Kept(seed, s)))
        /\ snapshot' = s
        /\ UNCHANGED edits

\* update_chunk: an administrator changes the text of a chunk
EditChunk ==
    /\ edits < MaxEdits
    /\ \E o \in DOMAIN seed, t \in Texts :
            /\ t # seed[o].text
            /\ seed' = [seed EXCEPT ![o].text = t]
    /\ edits' = edits + 1
    /\ UNCHANGED snapshot

Next == Sync \/ EditChunk

Spec == Init /\ [][Next]_vars

-----------------------------------------------------------------------------
\* Properties

TypeOK ==
    /\ DOMAIN seed \subseteq Ids
    /\ \A o \in DOMAIN seed : seed[o] \in [doc : Documents, text : Texts]
    /\ snapshot \in Snapshots
    /\ edits \in 0..MaxEdits

\* A preview is never refused for its chunk IDs: whatever the history of the seed
\* and whatever the provider holds, every section finds an ID of its own inside
\* its document (the ValueErrors of _reconcile_exact_content_chunk_ids).
NeverRefused == \A s \in Snapshots : ~Refused(seed, s)

\* The removal limits judge knowledge, not IDs: a preview is stopped only if some
\* text of the seed is not exactly once in the seed and in the snapshot
\* (_snapshot_safety counts after the reconciliation).
StoppedForLoss ==
    \A s \in Snapshots :
        Stopped(seed, s) =>
            \E o \in DOMAIN seed :
                \/ Cardinality(Holding(seed, seed[o].doc, seed[o].text)) # 1
                \/ seed[o].doc \notin DOMAIN s
                \/ Cardinality(Occurring(s, seed[o].doc, seed[o].text)) # 1

\* Naming settles: between edits the seed has exactly the texts of the snapshot
\* last applied, and to synchronise it once more would change no chunk, even
\* where displaced content took the ID of another section.
Settled == edits = 0 => Records(snapshot, Assigned(snapshot, Kept(seed, snapshot))) = seed

\* A text that its document holds once before and after a synchronisation keeps
\* its chunk ID, wherever it moved in the document.
IdentityKept ==
    edits' = edits =>
       \A d \in Documents, t \in Texts :
          (/\ Cardinality(Holding(seed, d, t)) = 1
           /\ Cardinality(Holding(seed', d, t)) = 1)
              => Holding(seed', d, t) = Holding(seed, d, t)

\* An ID passes from a document to another only when the one that had it has left
\* the provider (_document_scope_slugs, and the pools of free IDs per document).
IdsStay ==
    \A o \in DOMAIN seed \cap DOMAIN seed' :
        seed[o].doc \in DOMAIN snapshot' => seed'[o].doc = seed[o].doc

\* Every section has an ID, whatever came before, and an ID stands for the same text, or at
\* least for the same document, as long as there is one.
NamingIsSound ==
    /\ [](NeverRefused /\ Settled /\ StoppedForLoss)
    /\ [][IdentityKept /\ IdsStay]_vars
=============================================================================
