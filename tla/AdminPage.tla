------------------------------- MODULE AdminPage -------------------------------
(***************************************************************************)
(* The chunk editor of the admin page (the script in src/admin/ui.py) and  *)
(* the two handlers of src/main.py behind it.  A click on a row asks for   *)
(* the chunk and shows it when the answer comes; Save sends what the box   *)
(* holds under the name that was clicked last; answers come in any order,  *)
(* late, or not at all.  The page is one thread: what runs between two     *)
(* awaits is one action.                                                   *)
(*                                                                         *)
(* One editor at one page; the box and the status field are one text.      *)
(* Impatient and LoadsFail say whether it acts while the page waits for an *)
(* answer and whether a chunk may fail to load.                            *)
(***************************************************************************)
EXTENDS Naturals

CONSTANTS
  Chunks,
  None,
  Impatient,    \* the user clicks and types while an answer is due
  LoadsFail,    \* the answer to a click may be an error
  MaxTyped,     \* bound: changes of the box
  MaxRequests   \* bound: requests of the page

Text == [of : Chunks, n : 0..MaxTyped]

\* What is assumed of the constants.
Assumptions ==
  /\ None \notin Chunks /\ None \notin Text /\ None \notin Nat
  /\ Impatient \in BOOLEAN /\ LoadsFail \in BOOLEAN
  /\ MaxTyped \in Nat /\ MaxRequests \in Nat

VARIABLES
  selected,            \* selectedChunkId
  title, text,         \* detailTitle; the box: whose text, and which version
  original, dirty,     \* editorOriginalText, editorDirty
  locked,              \* the box and the buttons are disabled
  requests,            \* what the page awaits, and what the server still does
  mutation,            \* who holds _ADMIN_MUTATION_LOCK
  seed,                \* the text of each chunk
  stored, latest,      \* history: the texts a chunk ever had, its last save
  typed, sent          \* counters

editor == <<selected, title, text, original, dirty, locked>>
server == <<mutation, seed, stored, latest>>
vars == <<editor, server, requests, typed, sent>>

Init ==
  /\ selected = None /\ title = None /\ text = None /\ original = None
  /\ dirty = FALSE /\ locked = TRUE
  /\ requests = {}
  /\ mutation = None
  /\ seed = [c \in Chunks |-> [of |-> c, n |-> 0]]
  /\ stored = [c \in Chunks |-> {seed[c]}]
  /\ latest = [c \in Chunks |-> 0]
  /\ typed = 0 /\ sent = 0

\* An answer the page awaits.
Due == {r \in requests : r.at # "orphan"}

\* The user may act.
Free == Impatient \/ Due = {}

Send(kind, c, t) ==
  /\ sent < MaxRequests
  /\ sent' = sent + 1
  /\ requests' = requests \cup
       {[id |-> sent, kind |-> kind, chunk |-> c, text |-> t, at |-> "sent"]}

Move(r, at) == requests' = (requests \ {r}) \cup {[r EXCEPT !.at = at]}
Gone(r) == requests' = requests \ {r}

-----------------------------------------------------------------------------
\* loadChunk up to its await.  The user who is asked about unsaved changes and
\* keeps them has not clicked; the same row is loaded again without asking.
Click(c) ==
  /\ Free
  /\ selected' = c
  /\ Send("load", c, None)
  /\ UNCHANGED <<title, text, original, dirty, locked, server, typed>>

\* admin_get_kb_chunk reads the seed.
ServeLoad(r) ==
  /\ r.kind = "load" /\ r.at = "sent"
  /\ requests' = (requests \ {r}) \cup {[r EXCEPT !.at = "ok", !.text = seed[r.chunk]]}
  /\ UNCHANGED <<editor, server, typed, sent>>

\* Mutation: unsaved changes are carried over to the chunk that comes.
LoadedBeside(r) ==
  /\ r.kind = "load" /\ r.at = "ok"
  /\ title' = r.chunk
  /\ text' = IF dirty THEN text ELSE r.text
  /\ original' = r.text
  /\ locked' = FALSE
  /\ Gone(r)
  /\ UNCHANGED <<selected, dirty, server, typed, sent>>

\* The answer is shown, whichever row was clicked meanwhile.
Loaded(r) ==
  /\ r.kind = "load" /\ r.at = "ok"
  /\ title' = r.chunk
  /\ text' = r.text /\ original' = r.text
  /\ dirty' = FALSE /\ locked' = FALSE
  /\ Gone(r)
  /\ UNCHANGED <<selected, server, typed, sent>>

\* An error, or a timeout, is told, and nothing else changes.
LoadFailed(r) ==
  /\ LoadsFail
  /\ r.kind = "load"
  /\ Gone(r)
  /\ UNCHANGED <<editor, server, typed, sent>>

\* updateEditorDirty; a version of a text belongs to the chunk it was made from.
Type ==
  /\ Free /\ ~locked /\ typed < MaxTyped
  /\ typed' = typed + 1
  /\ text' = [text EXCEPT !.n = typed + 1]
  /\ dirty' = TRUE
  /\ UNCHANGED <<selected, title, original, locked, requests, sent, server>>

-----------------------------------------------------------------------------
\* saveChunk and reindexChunk up to their await.
Submit(kind) ==
  /\ Free /\ ~locked /\ selected # None
  /\ locked' = TRUE
  /\ Send(kind, selected, text)
  /\ UNCHANGED <<selected, title, text, original, dirty, server, typed>>

\* admin_update_kb_chunk, admin_reindex_kb_chunk: one at a time, 409 otherwise.
ServeMutation(r) ==
  /\ r.kind \in {"save", "reindex"} /\ r.at = "sent"
  /\ IF mutation = None
       THEN mutation' = r.id /\ Move(r, "running")
       ELSE Move(r, "failed") /\ UNCHANGED mutation
  /\ UNCHANGED <<editor, seed, stored, latest, typed, sent>>

\* The text is stored, and the chunk perhaps not indexed; or nothing is.
FinishMutation(r) ==
  /\ r.at \in {"running", "orphan"}
  /\ mutation' = IF mutation = r.id THEN None ELSE mutation
  /\ \/ /\ r.kind = "save"
        /\ seed' = [seed EXCEPT ![r.chunk] = r.text]
        /\ stored' = [stored EXCEPT ![r.chunk] = @ \cup {r.text}]
        /\ latest' = [latest EXCEPT ![r.chunk] = r.id]
        /\ IF r.at = "orphan" THEN Gone(r)
                              ELSE Move(r, "ok") \/ Move(r, "failed")
     \/ /\ IF r.at = "orphan" THEN Gone(r)
           ELSE Move(r, "failed") \/ (r.kind = "reindex" /\ Move(r, "ok"))
        /\ UNCHANGED <<seed, stored, latest>>
  /\ UNCHANGED <<editor, typed, sent>>

\* requestJson aborts: a handler that has begun goes on without the page
\* (_await_cancellation_safe_mutation).
GiveUp(r) ==
  /\ r.at = "running"
  /\ requests' = (requests \ {r}) \cup
       {[r EXCEPT !.at = "orphan"],
        [r EXCEPT !.at = "failed", !.id = MaxRequests + r.id]}
  /\ UNCHANGED <<editor, server, typed, sent>>

\* The box is now the original, whatever it holds by now; the list is loaded
\* before the editor is unlocked.
Saved(r) ==
  /\ r.kind = "save" /\ r.at = "ok"
  /\ original' = text /\ dirty' = FALSE
  /\ Move(r, "listing")
  /\ UNCHANGED <<selected, title, text, locked, server, typed, sent>>

\* finally: setEditorBusy(false).
Unlock(r) ==
  /\ r.at = "listing" \/ (r.kind # "load" /\ r.at = "failed")
                      \/ (r.kind = "reindex" /\ r.at = "ok")
  /\ locked' = FALSE
  /\ Gone(r)
  /\ UNCHANGED <<selected, title, text, original, dirty, server, typed, sent>>

Next ==
  \/ \E c \in Chunks : Click(c)
  \/ Type
  \/ \E kind \in {"save", "reindex"} : Submit(kind)
  \/ \E r \in requests :
       \/ ServeLoad(r) \/ Loaded(r) \/ LoadFailed(r)
       \/ ServeMutation(r) \/ FinishMutation(r) \/ GiveUp(r)
       \/ Saved(r) \/ Unlock(r)

Spec == Init /\ [][Next]_vars

-----------------------------------------------------------------------------
Request == [id : 0..(2 * MaxRequests), kind : {"load", "save", "reindex"},
            chunk : Chunks, text : Text \cup {None},
            at : {"sent", "running", "orphan", "ok", "failed", "listing"}]

\* Every variable holds a value of its kind, and once a chunk is shown the
\* editor is locked only while a change is under way.
TypeOK ==
  /\ selected \in Chunks \cup {None} /\ title \in Chunks \cup {None}
  /\ text \in Text \cup {None} /\ original \in Text \cup {None}
  /\ dirty \in BOOLEAN /\ locked \in BOOLEAN
  /\ requests \subseteq Request
  /\ mutation \in 0..MaxRequests \cup {None}
  /\ seed \in [Chunks -> Text] /\ stored \in [Chunks -> SUBSET Text]
  /\ latest \in [Chunks -> 0..MaxRequests]
  /\ locked /\ title # None => \E r \in Due : r.kind # "load"

\* What is saved under the name of a chunk was made from the text of that chunk
\* (saveChunk pairs selectedChunkId, set at the click, with the box, set by the
\* answer).
SavedAsShown ==
  \A c \in Chunks : \A t \in stored[c] : t.of = c

\* An editor that shows no unsaved changes shows a text that was once stored
\* (dirtyIndicator, and the question that is left out when it is hidden).
CleanIsStored ==
  title # None /\ ~dirty => text \in stored[title]

\* Whatever is clicked and given up, the server makes one change at a time (the
\* admin mutation lock, which an abandoned handler keeps to its end).
OneMutation ==
  \A r, s \in requests :
    r.at \in {"running", "orphan"} /\ s.at \in {"running", "orphan"} => r = s

\* A chunk's saves are stored in the order in which they were sent, with one that
\* the page has given up among them (the admin mutation lock).
StoresInOrder == \A c \in Chunks : latest'[c] # latest[c] => latest'[c] > latest[c]

\* What a user who waits for every answer edits is stored as shown and in order, and nobody
\* gets the server to make two changes at once.
EditsAreKept ==
  /\ []OneMutation
  /\ [](~Impatient /\ ~LoadsFail => SavedAsShown /\ CleanIsStored)
  /\ [][~Impatient => StoresInOrder]_vars
=============================================================================
