---------------------------- MODULE KBCacheProofs ----------------------------
(***************************************************************************)
(* Proofs about the knowledge base that changes under running answers, for *)
(* any chunks, texts, scopes, processes and calls, and any number of edits,*)
(* index runs and status requests.  What compares revisions holds as long  *)
(* as no chunk gets back a text it had before (Reverts).                   *)
(*                                                                         *)
(* After them, about the three that bring the seed its chunks: the editor  *)
(* of the admin page (AdminPage), for any chunks and bounds, the pull of   *)
(* the documents (YonotePull), for any of them, and the naming of their    *)
(* chunks (ChunkIdentity), for any snapshots.                              *)
(***************************************************************************)
EXTENDS KBCache, Sequences, FiniteSetTheorems, TLAPS

MaybeText == Texts \cup {NoText}
Revs == SeedSet \cup {NoSeed}
Snapshots == SeedSet \cup {NoSnapshot}
Points == [rev : SeedSet, scope : Scopes, chunk : Chunks]

AskPcs == {"idle", "check", "lookup", "confirm", "retrieve", "store", "answer", "save",
           "upsert", "done"}

\* The local variables of a call, of an index run and of a status request.
AskSet == [pc : AskPcs, chunk : Chunks, scope : Scopes, rev : Revs, text : MaybeText,
           readRev : Revs, pages : Snapshots, entry : EntrySet \cup {NoEntry}]
AdminSet == [pc : {"idle", "index", "keyword", "cache"}, chunk : Chunks, text : MaybeText]
RunSet == [pc : RunPc \cup {"idle", "done", "failed"}, seed : Revs, todo : SUBSET Chunks,
           prune : BOOLEAN, full : BOOLEAN, doomed : SUBSET (Chunks \cup Points),
           changed : BOOLEAN]
StatusSet == [pc : {"idle", "scan", "go", "stop"}, seed : Revs, unread : SUBSET Chunks,
              exact : BOOLEAN, disturbed : BOOLEAN]

Typed ==
    /\ seed \in SeedSet /\ index \in SeedSet
    /\ keyword \in [Processes -> Snapshots]
    /\ cache \in SUBSET EntrySet
    /\ ask \in [Asks -> AskSet]
    /\ admin \in AdminSet /\ run \in RunSet /\ status \in StatusSet
    /\ past \in [Chunks -> SUBSET MaybeText]
    /\ restarted \in SUBSET Processes
    /\ \A e, f \in cache : PointId(e) = PointId(f) => e = f

\* What a call, a run and a request hold where they are.
Held(r) ==
    /\ ask[r].pc \in {"check", "lookup", "confirm"} => ask[r].rev \in SeedSet
    /\ ask[r].pc = "confirm" => ask[r].entry \in EntrySet /\ ask[r].entry.rev = ask[r].rev
    /\ ask[r].pc = "store" => ask[r].pages \in SeedSet
    /\ ask[r].pc \in {"answer", "save", "upsert"} => ask[r].readRev \in SeedSet
    /\ ask[r].pc \in {"save", "upsert"} => ask[r].text \in Texts /\ ask[r].rev \in SeedSet

ToolsHeld ==
    /\ Running => run.seed \in SeedSet /\ run.todo \subseteq Published(run.seed)
    /\ run.pc = "delete" => run.doomed \subseteq Chunks \ Published(run.seed)
    /\ status.pc = "scan" => status.seed \in SeedSet

Sorts == Typed /\ (\A r \in Asks : Held(r)) /\ ToolsHeld

\* Every chunk has had the text that s gives it.
Old(s) == \A c \in Chunks : s[c] \in past[c]

\* A call keeps the revision it began with, and what it has read goes with it as long as the
\* seed has that revision.
Bound(r) ==
    /\ ask[r].rev # NoSeed => Old(ask[r].rev)
    /\ ask[r].pc \in {"answer", "save"} /\ seed = ask[r].rev => ask[r].readRev = ask[r].rev
    /\ ask[r].pc = "upsert" => ask[r].readRev = ask[r].rev
    /\ ask[r].pc = "confirm" => ask[r].entry.readRev = ask[r].rev

CacheBound == \A e \in cache : e.readRev = e.rev

\* The reindexing of a chunk writes the text that the seed has.
AdminBound == admin.pc = "index" => admin.text = seed[admin.chunk]

\* While the seed is that of the run, the index is that seed as far as the run has come.
Indexed ==
    /\ Running \/ run.pc = "done" => run.seed \in SeedSet /\ Old(run.seed)
    /\ Running /\ run.pc # "upsert" => run.todo = {}
    /\ Running /\ run.full /\ seed = run.seed =>
         \A c \in Published(seed) \ run.todo : index[c] = seed[c]
    /\ run.pc = "delete" /\ seed = run.seed => Present \ Published(seed) \subseteq run.doomed
    /\ run.pc \in {"collect", "clear", "verify"} /\ run.prune /\ seed = run.seed =>
         Present \subseteq Published(seed)

\* While the seed is that of the request, the index is that seed on the pages seen.
Looked ==
    status.pc = "scan" =>
        /\ Old(status.seed)
        /\ seed = status.seed /\ status.exact /\ ~status.disturbed =>
             \A c \in Chunks \ status.unread : index[c] = seed[c]

\* An index run with the processes down: nothing answers or edits, and a full one of a seed
\* that publishes something has emptied the cache when it verifies.
Quiet ==
    Offline /\ Running =>
        /\ AdminFree /\ seed = run.seed
        /\ \A r \in Asks : ~Answering(r)
        /\ \A p \in Processes : keyword[p] = NoSnapshot
        /\ run.full /\ Published(seed) # {} =>
             run.changed \/ (run.pc = "upsert" /\ run.todo = Published(seed))
        /\ run.pc = "clear" => \A e \in cache : PointId(e) \in run.doomed
        /\ run.pc = "verify" /\ run.changed => cache = {}

\* After such a run, while the seed is the released one, whatever is read is its text.
Released ==
    /\ Offline /\ run.pc = "done" /\ run.full /\ run.prune
    /\ run.seed = seed /\ Published(seed) # {}

Fresh ==
    Released =>
        /\ index = seed
        /\ \A p \in Processes : keyword[p] \in {NoSnapshot, seed}
        /\ \A r \in Asks :
             /\ ask[r].pc = "store" => ask[r].pages = seed
             /\ ask[r].pc \in {"answer", "save", "upsert"} => ask[r].text = seed[ask[r].chunk]
        /\ \A e \in cache : ~Stale(e)

-----------------------------------------------------------------------------
(* Values.                                                                 *)

LEMMA Constants ==
    ASSUME Assumptions
    PROVE  /\ (CHOOSE c \in Chunks : TRUE) \in Chunks
           /\ (CHOOSE s \in Scopes : TRUE) \in Scopes
           /\ NoText \notin Texts /\ NoText \in MaybeText /\ Texts \subseteq MaybeText
           /\ NoSeed \notin SeedSet /\ NoSnapshot \notin SeedSet
           /\ SeedSet = [Chunks -> MaybeText]
           /\ NoSeed \in Revs /\ SeedSet \subseteq Revs
           /\ NoSnapshot \in Snapshots /\ SeedSet \subseteq Snapshots
           /\ \A c \in Chunks : ForumOf[c] \in Scopes
           /\ \A r \in Asks : ProcessOf[r] \in Processes
<1>1. (CHOOSE c \in Chunks : TRUE) \in Chunks
    BY DEF Assumptions
<1>2. (CHOOSE s \in Scopes : TRUE) \in Scopes
    BY DEF Assumptions
<1>3. QED
    BY <1>1, <1>2 DEF Assumptions, SeedSet, MaybeText, Revs, Snapshots

LEMMA Idles ==
    ASSUME Assumptions
    PROVE  /\ IdleAsk \in AskSet /\ IdleAsk.pc = "idle" /\ IdleAsk.rev = NoSeed
           /\ Done \in AskSet /\ Done.pc = "done" /\ Done.rev = NoSeed
           /\ IdleAdmin \in AdminSet /\ IdleAdmin.pc = "idle"
           /\ IdleRun \in RunSet /\ IdleRun.pc = "idle"
           /\ IdleStatus \in StatusSet /\ IdleStatus.pc = "idle"
<1> USE Constants
<1>1. IdleAsk \in AskSet /\ IdleAsk.pc = "idle" /\ IdleAsk.rev = NoSeed
  <2> HIDE DEF Revs, MaybeText, Snapshots, EntrySet
  <2>1. QED
      BY DEF IdleAsk, AskSet, AskPcs
<1>2. Done \in AskSet /\ Done.pc = "done" /\ Done.rev = NoSeed
    BY <1>1 DEF Done, AskSet, AskPcs
<1>3. IdleAdmin \in AdminSet /\ IdleAdmin.pc = "idle"
    BY DEF IdleAdmin, AdminSet
<1>4. IdleRun \in RunSet /\ IdleRun.pc = "idle"
    BY DEF IdleRun, RunSet
<1>5. IdleStatus \in StatusSet /\ IdleStatus.pc = "idle"
    BY DEF IdleStatus, StatusSet
<1>6. QED
    BY <1>1, <1>2, <1>3, <1>4, <1>5

-----------------------------------------------------------------------------
(* Moves of a call.                                                        *)

Others(r) == \A q \in Asks \ {r} : ask'[q] = ask[q]

\* A call is over, or goes on at pc with the variables it had.
LEMMA Moves ==
    ASSUME Assumptions, Typed, NEW r \in Asks, NEW pc \in AskPcs, To(r, pc)
    PROVE  /\ ask' \in [Asks -> AskSet] /\ Others(r)
           /\ pc = "done" => ask'[r] = Done
           /\ pc # "done" =>
                /\ ask'[r].pc = pc
                /\ ask'[r].chunk = ask[r].chunk /\ ask'[r].scope = ask[r].scope
                /\ ask'[r].rev = ask[r].rev /\ ask'[r].text = ask[r].text
                /\ ask'[r].readRev = ask[r].readRev /\ ask'[r].pages = ask[r].pages
                /\ ask'[r].entry = ask[r].entry
<1> DEFINE next == IF pc = "done" THEN Done ELSE [ask[r] EXCEPT !.pc = pc]
<1>1. ask \in [Asks -> AskSet] /\ ask[r] \in AskSet
    BY DEF Typed
<1>2. ask' = [ask EXCEPT ![r] = next]
    BY DEF To
<1>3. /\ next \in AskSet
      /\ pc = "done" => next = Done
      /\ pc # "done" =>
           /\ next.pc = pc
           /\ next.chunk = ask[r].chunk /\ next.scope = ask[r].scope
           /\ next.rev = ask[r].rev /\ next.text = ask[r].text
           /\ next.readRev = ask[r].readRev /\ next.pages = ask[r].pages
           /\ next.entry = ask[r].entry
    BY <1>1, Idles DEF AskSet
<1> HIDE DEF next
<1>4. ask' \in [Asks -> AskSet] /\ Others(r) /\ ask'[r] = next
    BY <1>1, <1>2, <1>3 DEF Others
<1>5. QED
    BY <1>3, <1>4

LEMMA Reads ==
    ASSUME Assumptions, Typed, NEW r \in Asks, NEW text \in MaybeText, Read(r, text)
    PROVE  /\ ask' \in [Asks -> AskSet] /\ Others(r)
           /\ ask'[r].pc = "answer" /\ ask'[r].text = text /\ ask'[r].readRev = seed
           /\ ask'[r].chunk = ask[r].chunk /\ ask'[r].scope = ask[r].scope
           /\ ask'[r].rev = ask[r].rev
<1> DEFINE next == [ask[r] EXCEPT !.pc = "answer", !.text = text, !.readRev = seed,
                                  !.pages = NoSnapshot, !.entry = NoEntry]
<1>1. ask \in [Asks -> AskSet] /\ ask[r] \in AskSet /\ seed \in Revs /\ NoSnapshot \in Snapshots
    BY Constants DEF Typed
<1>2. ask' = [ask EXCEPT ![r] = next]
    BY <1>1 DEF Read, AskSet
<1>3. /\ next \in AskSet
      /\ next.pc = "answer" /\ next.text = text /\ next.readRev = seed
      /\ next.chunk = ask[r].chunk /\ next.scope = ask[r].scope
      /\ next.rev = ask[r].rev
    BY <1>1 DEF AskSet, AskPcs
<1> HIDE DEF next
<1>4. ask' \in [Asks -> AskSet] /\ Others(r) /\ ask'[r] = next
    BY <1>1, <1>2, <1>3 DEF Others
<1>5. QED
    BY <1>3, <1>4

LEMMA Begins ==
    ASSUME Assumptions, Typed, NEW r \in Asks, BeginAsk(r)
    PROVE  /\ ask' \in [Asks -> AskSet] /\ Others(r)
           /\ ask'[r].rev \in {seed, NoSeed}
           /\ ask'[r].pc = IF ask'[r].rev = NoSeed THEN "retrieve" ELSE "check"
<1>1. PICK c \in Chunks, s \in Scopes, rev \in {seed, NoSeed} :
        ask' = [ask EXCEPT ![r] = [IdleAsk EXCEPT
              !.pc = IF rev = NoSeed THEN "retrieve" ELSE "check",
              !.chunk = c, !.scope = s, !.rev = rev]]
    BY DEF BeginAsk
<1> DEFINE next == [IdleAsk EXCEPT !.pc = IF rev = NoSeed THEN "retrieve" ELSE "check",
                                   !.chunk = c, !.scope = s, !.rev = rev]
<1>2. ask \in [Asks -> AskSet] /\ rev \in Revs /\ IdleAsk \in AskSet
    BY Constants, Idles DEF Typed
<1>3. /\ next \in AskSet
      /\ next.pc = IF rev = NoSeed THEN "retrieve" ELSE "check"
      /\ next.chunk = c /\ next.scope = s /\ next.rev = rev
    BY <1>2 DEF AskSet, AskPcs
<1>4. ask' = [ask EXCEPT ![r] = next]
    BY <1>1
<1> HIDE DEF next
<1>5. ask' \in [Asks -> AskSet] /\ Others(r) /\ ask'[r] = next
    BY <1>2, <1>3, <1>4 DEF Others
<1>6. QED
    BY <1>1, <1>3, <1>5

\* A hit, and a scroll of the index.
LEMMA Hits ==
    ASSUME Assumptions, Typed, NEW r \in Asks, NEW e \in cache,
           ask' = [ask EXCEPT ![r].pc = "confirm", ![r].entry = e]
    PROVE  /\ ask' \in [Asks -> AskSet] /\ Others(r)
           /\ ask'[r].pc = "confirm" /\ ask'[r].entry = e
           /\ ask'[r].chunk = ask[r].chunk /\ ask'[r].scope = ask[r].scope
           /\ ask'[r].rev = ask[r].rev
<1> DEFINE next == [ask[r] EXCEPT !.pc = "confirm", !.entry = e]
<1>1. ask \in [Asks -> AskSet] /\ ask[r] \in AskSet /\ e \in EntrySet \cup {NoEntry}
    BY DEF Typed
<1>2. ask' = [ask EXCEPT ![r] = next]
    BY <1>1 DEF AskSet
<1>3. /\ next \in AskSet
      /\ next.pc = "confirm" /\ next.entry = e
      /\ next.chunk = ask[r].chunk /\ next.scope = ask[r].scope
      /\ next.rev = ask[r].rev
    BY <1>1 DEF AskSet, AskPcs
<1> HIDE DEF next
<1>4. ask' \in [Asks -> AskSet] /\ Others(r) /\ ask'[r] = next
    BY <1>1, <1>2, <1>3 DEF Others
<1>5. QED
    BY <1>3, <1>4

LEMMA Scrolls ==
    ASSUME Assumptions, Typed, NEW r \in Asks,
           ask' = [ask EXCEPT ![r].pc = "store", ![r].pages = index]
    PROVE  /\ ask' \in [Asks -> AskSet] /\ Others(r)
           /\ ask'[r].pc = "store" /\ ask'[r].pages = index
           /\ ask'[r].chunk = ask[r].chunk /\ ask'[r].scope = ask[r].scope
           /\ ask'[r].rev = ask[r].rev
<1> DEFINE next == [ask[r] EXCEPT !.pc = "store", !.pages = index]
<1>1. ask \in [Asks -> AskSet] /\ ask[r] \in AskSet /\ index \in Snapshots
    BY Constants DEF Typed
<1>2. ask' = [ask EXCEPT ![r] = next]
    BY <1>1 DEF AskSet
<1>3. /\ next \in AskSet
      /\ next.pc = "store" /\ next.pages = index
      /\ next.chunk = ask[r].chunk /\ next.scope = ask[r].scope
      /\ next.rev = ask[r].rev
    BY <1>1 DEF AskSet, AskPcs
<1> HIDE DEF next
<1>4. ask' \in [Asks -> AskSet] /\ Others(r) /\ ask'[r] = next
    BY <1>1, <1>2, <1>3 DEF Others
<1>5. QED
    BY <1>3, <1>4

-----------------------------------------------------------------------------
(* A step of a call.                                                       *)

\* The point that save writes.
Point(r) == [rev |-> ask[r].rev, scope |-> ask[r].scope, chunk |-> ask[r].chunk,
             text |-> ask[r].text, readRev |-> ask[r].readRev]

LEMMA Stores ==
    ASSUME Assumptions, Sorts, NEW r \in Asks, StoreSnapshot(r)
    PROVE  /\ ask[r].chunk \in Chunks /\ ProcessOf[r] \in Processes
           /\ ask[r].pages \in SeedSet /\ ask[r].pages[ask[r].chunk] \in MaybeText
           /\ Read(r, ask[r].pages[ask[r].chunk])
           /\ keyword' \in [Processes -> Snapshots]
<1>1. ask[r] \in AskSet /\ Held(r) /\ ask[r].pc = "store"
    BY DEF Sorts, Typed, StoreSnapshot
<1>2. ask[r].chunk \in Chunks /\ ask[r].pages \in SeedSet /\ ProcessOf[r] \in Processes
    BY <1>1, Constants DEF AskSet, Held
<1>3. ask[r].pages[ask[r].chunk] \in MaybeText
    BY <1>2, Constants
<1>4. keyword' \in [Processes -> Snapshots]
    BY <1>2, Constants DEF Sorts, Typed, StoreSnapshot
<1>5. QED
    BY <1>2, <1>3, <1>4 DEF StoreSnapshot

LEMMA Saves ==
    ASSUME Assumptions, Sorts, NEW r \in Asks, SaveUpsert(r)
    PROVE  /\ Point(r) \in EntrySet /\ Point(r).rev = ask[r].rev
           /\ Point(r).readRev = ask[r].readRev /\ Point(r).text = ask[r].text
           /\ Point(r).chunk = ask[r].chunk /\ Point(r).scope = ask[r].scope
           /\ cache' = {e \in cache : ~Matches(e, r)} \cup {Point(r)}
           /\ cache' \in SUBSET EntrySet
           /\ \A e, f \in cache' : PointId(e) = PointId(f) => e = f
<1>1. ask[r] \in AskSet /\ Held(r) /\ ask[r].pc = "upsert"
    BY DEF Sorts, Typed, SaveUpsert
<1>2. /\ Point(r) \in EntrySet /\ Point(r).rev = ask[r].rev
      /\ Point(r).readRev = ask[r].readRev /\ Point(r).text = ask[r].text
      /\ Point(r).chunk = ask[r].chunk /\ Point(r).scope = ask[r].scope
    BY <1>1 DEF Point, EntrySet, AskSet, Held
<1>3. cache' = {e \in cache : ~Matches(e, r)} \cup {Point(r)}
    BY DEF SaveUpsert, Point
<1>4. \A e \in cache : PointId(e) = PointId(Point(r)) => Matches(e, r)
    BY <1>2 DEF PointId, Matches
<1>5. QED
  <2> HIDE DEF Point
  <2>1. QED
      BY <1>2, <1>3, <1>4 DEF Sorts, Typed

LEMMA CallTypes ==
    ASSUME Assumptions, Sorts, NEW r \in Asks, BeginAsk(r) \/ Step(r)
    PROVE  Typed' /\ Held(r)' /\ Others(r)
<1> USE DEF toolVars, historyVars
<1>1. Typed /\ ask \in [Asks -> AskSet] /\ ask[r] \in AskSet /\ Held(r)
    BY DEF Sorts, Typed
<1>2. CASE BeginAsk(r)
    BY <1>1, <1>2, Begins, Constants DEF BeginAsk, Held, Typed
<1>3. CASE Check(r)
  <2>1. PICK pc \in {"lookup", "retrieve"} : To(r, pc)
      BY <1>3 DEF Check
  <2>2. QED
      BY <1>1, <1>3, <2>1, Moves DEF Check, AskPcs, Held, Typed
<1>4. CASE Lookup(r)
  <2>1. ask' \in [Asks -> AskSet] /\ Held(r)' /\ Others(r)
    <3>1. CASE To(r, "retrieve")
        BY <1>1, <3>1, Moves DEF AskPcs, Held
    <3>2. CASE \E e \in {x \in cache : Matches(x, r)} :
                 ask' = [ask EXCEPT ![r].pc = "confirm", ![r].entry = e]
      <4>1. PICK e \in cache : /\ Matches(e, r)
                               /\ ask' = [ask EXCEPT ![r].pc = "confirm", ![r].entry = e]
          BY <3>2
      <4>2. e \in EntrySet /\ e.rev = ask[r].rev
          BY <1>1, <4>1 DEF Matches, Typed
      <4>3. ask[r].pc = "lookup"
          BY <1>4 DEF Lookup
      <4>4. ask[r].rev \in SeedSet
          BY <1>1, <4>3 DEF Held
      <4>5. /\ ask' \in [Asks -> AskSet] /\ Others(r)
            /\ ask'[r].pc = "confirm" /\ ask'[r].entry = e /\ ask'[r].rev = ask[r].rev
          BY <4>1, Hits DEF Sorts
      <4>6. QED
          BY <4>2, <4>4, <4>5 DEF Held
    <3>3. QED
        BY <1>4, <3>1, <3>2 DEF Lookup
  <2>2. QED
      BY <1>1, <1>4, <2>1 DEF Lookup, Typed
<1>5. CASE Confirm(r)
  <2>1. PICK pc \in {"done", "retrieve"} : To(r, pc)
      BY <1>5 DEF Confirm
  <2>2. QED
      BY <1>1, <1>5, <2>1, Moves, Idles DEF Confirm, AskPcs, Held, Typed
<1>6. CASE Retrieve(r)
  <2>1. ask' \in [Asks -> AskSet] /\ Held(r)' /\ Others(r)
    <3>1. ask[r].chunk \in Chunks /\ ProcessOf[r] \in Processes /\ seed \in SeedSet /\ index \in SeedSet
        BY <1>1, Constants DEF AskSet, Typed
    <3>2. CASE Read(r, index[ask[r].chunk])
      <4>1. index[ask[r].chunk] \in MaybeText
          BY <3>1, Constants
      <4>2. QED
          BY <1>1, <3>1, <3>2, <4>1, Reads DEF Held
    <3>3. CASE /\ keyword[ProcessOf[r]] # NoSnapshot
               /\ Read(r, keyword[ProcessOf[r]][ask[r].chunk])
      <4>1. keyword[ProcessOf[r]][ask[r].chunk] \in MaybeText
          BY <1>1, <3>1, <3>3, Constants DEF Snapshots, Typed
      <4>2. QED
          BY <1>1, <3>1, <3>3, <4>1, Reads DEF Held
    <3>4. CASE ask' = [ask EXCEPT ![r].pc = "store", ![r].pages = index]
        BY <1>1, <3>1, <3>4, Scrolls DEF Held
    <3>5. QED
        BY <1>6, <3>2, <3>3, <3>4 DEF Retrieve
  <2>2. QED
      BY <1>1, <1>6, <2>1 DEF Retrieve, Typed
<1>7. CASE StoreSnapshot(r)
    BY <1>1, <1>7, Stores, Reads DEF StoreSnapshot, Typed, Held
<1>8. CASE Answer(r)
  <2>1. PICK pc \in {"done", "save"} :
          To(r, pc) /\ (pc = "save" => ask[r].rev # NoSeed /\ ask[r].text # NoText)
      BY <1>8 DEF Answer
  <2>2. QED
      BY <1>1, <1>8, <2>1, Moves, Idles
      DEF Answer, AskPcs, Held, Typed, AskSet, Revs, MaybeText
<1>9. CASE SaveCheck(r)
  <2>1. PICK pc \in {"upsert", "done"} : To(r, pc)
      BY <1>9 DEF SaveCheck
  <2>2. QED
      BY <1>1, <1>9, <2>1, Moves, Idles DEF SaveCheck, AskPcs, Held, Typed
<1>10. CASE SaveUpsert(r)
    BY <1>1, <1>10, Saves, Moves, Idles DEF SaveUpsert, AskPcs, Held, Typed
<1>11. QED
    BY <1>2, <1>3, <1>4, <1>5, <1>6, <1>7, <1>8, <1>9, <1>10 DEF Step

-----------------------------------------------------------------------------
(* The other steps.                                                        *)

\* Calls that were answered by a process that restarts are over.
LEMMA Restarts ==
    ASSUME Assumptions, Sorts, NEW p \in Processes, Restart(p)
    PROVE  /\ ask' \in [Asks -> AskSet] /\ keyword' \in [Processes -> Snapshots]
           /\ \A r \in Asks : ask'[r] = ask[r] \/ ask'[r] = Done
           /\ \A q \in Processes : keyword'[q] \in {keyword[q], NoSnapshot}
<1>1. ask \in [Asks -> AskSet] /\ keyword \in [Processes -> Snapshots] /\ NoSnapshot \in Snapshots
    BY Constants DEF Sorts, Typed
<1>2. Done \in AskSet
    BY Idles
<1>3. QED
    BY <1>1, <1>2 DEF Restart

LEMMA AdminTypes ==
    ASSUME Assumptions, Sorts, Admin
    PROVE  /\ seed' \in SeedSet /\ index' \in SeedSet /\ past' \in [Chunks -> SUBSET MaybeText]
           /\ keyword' \in [Processes -> Snapshots] /\ admin' \in AdminSet
           /\ cache' \in SUBSET cache
           /\ UNCHANGED <<ask, run, status, restarted>>
<1> USE DEF askVars, toolVars, historyVars
<1>1. /\ seed \in SeedSet /\ index \in SeedSet /\ past \in [Chunks -> SUBSET MaybeText]
      /\ keyword \in [Processes -> Snapshots] /\ admin \in AdminSet
    BY DEF Sorts, Typed
<1>2. ASSUME NEW c \in Chunks, NEW text \in MaybeText, NEW reindex \in BOOLEAN, Edit(c, text, reindex)
      PROVE  /\ seed' \in SeedSet /\ past' \in [Chunks -> SUBSET MaybeText] /\ admin' \in AdminSet
    BY <1>1, <1>2 DEF Edit, SeedSet, MaybeText, AdminSet
<1>3. ASSUME NEW new \in SeedSet, ApplySeed(new)
      PROVE  seed' \in SeedSet /\ past' \in [Chunks -> SUBSET MaybeText]
    BY <1>1, <1>3 DEF ApplySeed, SeedSet, MaybeText
<1>4. ASSUME NEW c \in Chunks, ReindexChunk(c)
      PROVE  admin' \in AdminSet
  <2>1. seed[c] \in MaybeText
      BY <1>1, Constants
  <2>2. QED
      BY <1>4, <2>1 DEF ReindexChunk, AdminSet
<1>5. ASSUME UpsertChunk
      PROVE  index' \in SeedSet /\ admin' \in AdminSet
    BY <1>1, <1>5, Idles DEF UpsertChunk, SeedSet, AdminSet, MaybeText
<1>6. ASSUME NEW p, InvalidateKeyword(p)
      PROVE  keyword' \in [Processes -> Snapshots] /\ admin' \in AdminSet
    BY <1>1, <1>6, Constants DEF InvalidateKeyword, AdminSet
<1>7. ASSUME InvalidateForum
      PROVE  cache' \in SUBSET cache /\ admin' \in AdminSet
    BY <1>1, <1>7, Idles DEF InvalidateForum, AdminSet
<1>8. CASE \E c \in Chunks, text \in Texts \cup {NoText}, reindex \in BOOLEAN : Edit(c, text, reindex)
    BY <1>1, <1>2, <1>8 DEF Edit, MaybeText
<1>9. CASE \E new \in SeedSet : ApplySeed(new)
    BY <1>1, <1>3, <1>9 DEF ApplySeed
<1>10. CASE \E c \in Chunks : ReindexChunk(c)
    BY <1>1, <1>4, <1>10 DEF ReindexChunk
<1>11. CASE UpsertChunk
    BY <1>1, <1>5, <1>11 DEF UpsertChunk
<1>12. CASE InvalidateForum
    BY <1>1, <1>7, <1>12 DEF InvalidateForum
<1>13. CASE InvalidateKeyword(CHOOSE p \in Processes : TRUE)
    BY <1>1, <1>6, <1>13 DEF InvalidateKeyword
<1>14. QED
    BY <1>8, <1>9, <1>10, <1>11, <1>12, <1>13 DEF Admin

LEMMA RunTypes ==
    ASSUME Assumptions, Sorts, IndexKB
    PROVE  /\ index' \in SeedSet /\ keyword' \in [Processes -> Snapshots]
           /\ run' \in RunSet /\ status' \in StatusSet /\ restarted' \in SUBSET Processes
           /\ cache' \in SUBSET cache
           /\ ToolsHeld'
           /\ UNCHANGED <<seed, ask, admin, past>>
<1> USE DEF askVars, toolVars, historyVars
<1>1. /\ seed \in SeedSet /\ index \in SeedSet /\ restarted \in SUBSET Processes
      /\ keyword \in [Processes -> Snapshots] /\ run \in RunSet /\ status \in StatusSet
      /\ cache \in SUBSET EntrySet
    BY DEF Sorts, Typed
<1>2. /\ run.pc \in RunPc \cup {"idle", "done", "failed"} /\ run.seed \in Revs
      /\ run.todo \in SUBSET Chunks /\ run.prune \in BOOLEAN /\ run.full \in BOOLEAN
      /\ run.doomed \in SUBSET (Chunks \cup Points) /\ run.changed \in BOOLEAN
    BY <1>1 DEF RunSet
<1>3. ToolsHeld
    BY DEF Sorts
<1>4. Disturb => status' \in StatusSet /\ status'.pc = status.pc /\ status'.seed = status.seed
    BY <1>1 DEF Disturb, StatusSet
<1>5. CASE \E todo \in SUBSET Chunks, prune \in BOOLEAN : BeginIndex(todo, prune)
  <2>1. PICK todo \in SUBSET Chunks, prune \in BOOLEAN : BeginIndex(todo, prune)
      BY <1>5
  <2> DEFINE next == [pc |-> "upsert", seed |-> seed, prune |-> prune,
                      full |-> (todo = Published(seed)), todo |-> todo, doomed |-> {},
                      changed |-> FALSE]
  <2>2. next \in RunSet /\ next.pc = "upsert" /\ next.seed = seed /\ next.todo = todo
      BY <1>1, Constants DEF RunSet, RunPc
  <2>3. run' = next /\ todo \subseteq Published(seed)
      BY <2>1 DEF BeginIndex
  <2> HIDE DEF next
  <2>4. run' \in RunSet /\ run'.pc = "upsert" /\ run'.seed = seed /\ run'.todo = todo
      BY <2>2, <2>3
  <2>5. keyword' \in [Processes -> Snapshots] /\ restarted' \in SUBSET Processes
      BY <1>1, <2>1, Constants DEF BeginIndex
  <2>6. UNCHANGED <<seed, index, cache, ask, admin, status, past>>
      BY <2>1 DEF BeginIndex
  <2>7. QED
      BY <1>1, <1>3, <2>3, <2>4, <2>5, <2>6 DEF ToolsHeld, Running, Published
<1>6. CASE \E batch \in SUBSET Chunks : UpsertBatch(batch)
  <2>1. PICK batch \in SUBSET Chunks : UpsertBatch(batch)
      BY <1>6
  <2>2. run.pc = "upsert" /\ Running /\ run.seed \in SeedSet
      BY <1>3, <2>1 DEF UpsertBatch, Running, RunPc, ToolsHeld
  <2>3. CASE run.todo = {}
    <3>1. /\ run' = [run EXCEPT !.pc = IF run.prune THEN "prune" ELSE "collect"]
          /\ UNCHANGED <<index, status, seed, askVars, admin, historyVars>>
        BY <2>1, <2>3 DEF UpsertBatch
    <3>2. run' \in RunSet /\ run'.pc \in {"prune", "collect"} /\ run'.seed = run.seed
          /\ run'.todo = run.todo
        BY <1>1, <3>1 DEF RunSet, RunPc
    <3>3. QED
        BY <1>1, <1>3, <2>2, <3>1, <3>2 DEF ToolsHeld, Running, Published
  <2>4. CASE run.todo # {}
    <3>1. /\ batch \subseteq run.todo
          /\ index' = [c \in Chunks |-> IF c \in batch THEN run.seed[c] ELSE index[c]]
          /\ run' = [run EXCEPT !.todo = @ \ batch, !.changed = TRUE]
          /\ Disturb
          /\ UNCHANGED <<seed, askVars, admin, historyVars>>
        BY <2>1, <2>4 DEF UpsertBatch
    <3>2. run' \in RunSet /\ run'.pc = "upsert" /\ run'.seed = run.seed
          /\ run'.todo = run.todo \ batch
        BY <1>1, <2>2, <3>1 DEF RunSet
    <3>3. index' \in SeedSet
        BY <1>1, <2>2, <3>1 DEF SeedSet
    <3>4. QED
        BY <1>1, <1>3, <1>4, <2>2, <3>1, <3>2, <3>3 DEF ToolsHeld, Running, Published
  <2>5. QED
      BY <2>3, <2>4
<1>7. CASE CollectStale
  <2>1. run' \in RunSet /\ run'.pc = "delete" /\ run'.seed = run.seed /\ run'.todo = run.todo
        /\ run'.doomed = Present \ Published(run.seed)
      BY <1>1, <1>2, <1>7 DEF CollectStale, RunSet, RunPc, Present
  <2>2. QED
      BY <1>1, <1>3, <1>7, <2>1
      DEF CollectStale, ToolsHeld, Running, RunPc, Published, Present
<1>8. CASE DeleteStale
  <2>1. run' \in RunSet /\ run'.pc = "collect" /\ run'.seed = run.seed /\ run'.todo = run.todo
      BY <1>1, <1>2, <1>8 DEF DeleteStale, RunSet, RunPc
  <2>2. index' \in SeedSet
      BY <1>1, <1>8 DEF DeleteStale, SeedSet
  <2>3. QED
      BY <1>1, <1>3, <1>4, <1>8, <2>1, <2>2 DEF DeleteStale, ToolsHeld, Running, RunPc, Published
<1>9. CASE CollectCached
  <2>1. {PointId(e) : e \in cache} \subseteq Points
      BY <1>1 DEF PointId, Points, EntrySet
  <2>2. run' \in RunSet /\ run'.pc \in {"clear", "verify"} /\ run'.seed = run.seed
        /\ run'.todo = run.todo
      BY <1>1, <1>9, <2>1 DEF CollectCached, RunSet, RunPc
  <2>3. QED
      BY <1>1, <1>3, <1>9, <2>2 DEF CollectCached, ToolsHeld, Running, RunPc, Published
<1>10. CASE ClearCached
  <2>1. run' \in RunSet /\ run'.pc = "verify" /\ run'.seed = run.seed /\ run'.todo = run.todo
      BY <1>1, <1>10 DEF ClearCached, RunSet, RunPc
  <2>2. QED
      BY <1>1, <1>3, <1>10, <2>1 DEF ClearCached, ToolsHeld, Running, RunPc, Published
<1>11. CASE CompleteIndex
  <2>1. run' \in RunSet /\ run'.pc \in {"done", "failed"}
      BY <1>1, <1>11, Idles DEF CompleteIndex, RunSet
  <2>2. QED
      BY <1>1, <1>3, <1>11, <2>1 DEF CompleteIndex, ToolsHeld, Running, RunPc
<1>12. CASE FailIndex
  <2>1. run' \in RunSet /\ run'.pc = "failed"
      BY <1>12, Idles DEF FailIndex, RunSet
  <2>2. QED
      BY <1>1, <1>3, <1>12, <2>1 DEF FailIndex, ToolsHeld, Running, RunPc
<1>13. QED
    BY <1>5, <1>6, <1>7, <1>8, <1>9, <1>10, <1>11, <1>12 DEF IndexKB

LEMMA StatusTypes ==
    ASSUME Assumptions, Sorts, BeginStatus \/ Conclude \/ (\E c \in Chunks : ScanPage(c))
    PROVE  /\ status' \in StatusSet
           /\ ToolsHeld'
           /\ UNCHANGED <<seed, index, askVars, admin, run, past, restarted>>
<1>1. seed \in SeedSet /\ status \in StatusSet /\ ToolsHeld
    BY DEF Sorts, Typed
<1>2. CASE BeginStatus
  <2>1. status' \in StatusSet /\ status'.seed = seed
      BY <1>1, <1>2, Constants DEF BeginStatus, StatusSet, Running
  <2>2. QED
      BY <1>1, <1>2, <2>1 DEF BeginStatus, ToolsHeld, Running, Published
<1>3. CASE Conclude
  <2>1. status' \in StatusSet /\ status'.pc \in {"go", "stop"}
      BY <1>3, Idles DEF Conclude, StatusSet
  <2>2. QED
      BY <1>1, <1>3, <2>1 DEF Conclude, ToolsHeld, Running, Published, historyVars
<1>4. CASE \E c \in Chunks : ScanPage(c)
  <2>1. PICK c \in Chunks : ScanPage(c)
      BY <1>4
  <2>2. /\ status' \in StatusSet /\ status'.pc = "scan" /\ status'.seed = status.seed
        /\ status.pc = "scan"
      BY <1>1, <2>1 DEF ScanPage, StatusSet
  <2>3. QED
      BY <1>1, <2>1, <2>2 DEF ScanPage, ToolsHeld, Running, Published, historyVars
<1>5. QED
    BY <1>2, <1>3, <1>4

-----------------------------------------------------------------------------
(* The invariant of the types.                                             *)

LEMMA SortsInit ==
    ASSUME Assumptions, Init
    PROVE  Sorts
<1>1. seed \in SeedSet /\ index \in SeedSet
    BY Constants DEF Init
<1>2. keyword \in [Processes -> Snapshots] /\ cache = {} /\ restarted = {}
    BY Constants DEF Init
<1>3. ask \in [Asks -> AskSet] /\ \A r \in Asks : ask[r].pc = "idle"
    BY Idles DEF Init
<1>4. admin \in AdminSet /\ run \in RunSet /\ status \in StatusSet
      /\ run.pc = "idle" /\ status.pc = "idle"
    BY Idles DEF Init
<1>5. past \in [Chunks -> SUBSET MaybeText]
    BY Constants DEF Init
<1>6. Typed
    BY <1>1, <1>2, <1>3, <1>4, <1>5 DEF Typed
<1>7. \A r \in Asks : Held(r)
    BY <1>3 DEF Held
<1>8. ToolsHeld
    BY <1>4 DEF ToolsHeld, Running, RunPc
<1>9. QED
    BY <1>6, <1>7, <1>8 DEF Sorts

\* What a call holds does not depend on the others.
LEMMA HeldKept ==
    ASSUME NEW r \in Asks, Held(r), ask'[r] = ask[r] \/ ask'[r] = Done, Done.pc = "done"
    PROVE  Held(r)'
<1>1. CASE ask'[r] = ask[r]
    BY <1>1 DEF Held
<1>2. CASE ask'[r] = Done
    BY <1>2 DEF Held
<1>3. QED
    BY <1>1, <1>2

LEMMA SortsStep ==
    ASSUME Assumptions, Sorts, [Next]_vars
    PROVE  Sorts'
<1> USE DEF askVars, toolVars, historyVars
<1>1. Typed /\ ToolsHeld /\ Done.pc = "done"
    BY Idles DEF Sorts
<1>2. \A r \in Asks : Held(r) /\ (ask'[r] = ask[r] \/ ask'[r] = Done => Held(r)')
    BY <1>1, HeldKept DEF Sorts
<1>3. cache' \in SUBSET cache =>
        /\ cache' \in SUBSET EntrySet
        /\ \A e, f \in cache' : PointId(e) = PointId(f) => e = f
    BY <1>1 DEF Typed
<1>4. CASE \E r \in Asks : BeginAsk(r) \/ Step(r)
  <2>1. PICK r \in Asks : BeginAsk(r) \/ Step(r)
      BY <1>4
  <2>2. Typed' /\ Held(r)' /\ Others(r)
      BY <2>1, CallTypes
  <2>3. UNCHANGED <<run, status>>
      BY <2>1 DEF BeginAsk, Step, Check, Lookup, Confirm, Retrieve, StoreSnapshot, Answer,
                  SaveCheck, SaveUpsert
  <2>4. ToolsHeld'
      BY <1>1, <2>3 DEF ToolsHeld, Running, Published
  <2>5. QED
      BY <1>2, <2>2, <2>4 DEF Sorts, Others
<1>5. CASE Expire
  <2>1. cache' \in SUBSET cache
        /\ UNCHANGED <<seed, index, keyword, ask, admin, run, status, past, restarted>>
      BY <1>5 DEF Expire
  <2>2. ToolsHeld'
      BY <1>1, <2>1 DEF ToolsHeld, Running, Published
  <2>3. Typed'
      BY <1>1, <1>3, <2>1 DEF Typed
  <2>4. QED
      BY <1>2, <2>1, <2>2, <2>3 DEF Sorts
<1>6. CASE \E p \in Processes : Restart(p)
  <2>1. PICK p \in Processes : Restart(p)
      BY <1>6
  <2>2. UNCHANGED <<seed, index, cache, admin, run, status, past>>
        /\ restarted' = restarted \cup {p}
      BY <2>1 DEF Restart
  <2>3. /\ ask' \in [Asks -> AskSet] /\ keyword' \in [Processes -> Snapshots]
        /\ \A r \in Asks : ask'[r] = ask[r] \/ ask'[r] = Done
      BY <2>1, Restarts
  <2>4. ToolsHeld'
      BY <1>1, <2>2 DEF ToolsHeld, Running, Published
  <2>5. Typed'
      BY <1>1, <1>3, <2>2, <2>3 DEF Typed
  <2>6. QED
      BY <1>2, <2>3, <2>4, <2>5 DEF Sorts
<1>7. CASE Admin
  <2>1. /\ seed' \in SeedSet /\ index' \in SeedSet /\ past' \in [Chunks -> SUBSET MaybeText]
        /\ keyword' \in [Processes -> Snapshots] /\ admin' \in AdminSet
        /\ cache' \in SUBSET cache
        /\ UNCHANGED <<ask, run, status, restarted>>
      BY <1>7, AdminTypes
  <2>2. ToolsHeld'
      BY <1>1, <2>1 DEF ToolsHeld, Running, Published
  <2>3. Typed'
      BY <1>1, <1>3, <2>1 DEF Typed
  <2>4. QED
      BY <1>2, <2>1, <2>2, <2>3 DEF Sorts
<1>8. CASE IndexKB
  <2>1. /\ index' \in SeedSet /\ keyword' \in [Processes -> Snapshots]
        /\ run' \in RunSet /\ status' \in StatusSet /\ restarted' \in SUBSET Processes
        /\ cache' \in SUBSET cache
        /\ ToolsHeld'
        /\ UNCHANGED <<seed, ask, admin, past>>
      BY <1>8, RunTypes
  <2>2. Typed'
      BY <1>1, <1>3, <2>1 DEF Typed
  <2>3. QED
      BY <1>2, <2>1, <2>2 DEF Sorts
<1>9. CASE BeginStatus \/ Conclude \/ (\E c \in Chunks : ScanPage(c))
  <2>1. /\ status' \in StatusSet
        /\ ToolsHeld'
        /\ UNCHANGED <<seed, index, askVars, admin, run, past, restarted>>
      BY <1>9, StatusTypes
  <2>2. Typed'
      BY <1>1, <2>1 DEF Typed
  <2>3. QED
      BY <1>2, <2>1, <2>2 DEF Sorts
<1>10. CASE UNCHANGED vars
  <2>1. UNCHANGED <<seed, index, keyword, cache, ask, admin, run, status, past, restarted>>
      BY <1>10 DEF vars
  <2>2. ToolsHeld'
      BY <1>1, <2>1 DEF ToolsHeld, Running, Published
  <2>3. Typed'
      BY <1>1, <2>1 DEF Typed
  <2>4. QED
      BY <1>2, <2>1, <2>2, <2>3 DEF Sorts
<1>11. QED
    BY <1>4, <1>5, <1>6, <1>7, <1>8, <1>9, <1>10 DEF Next

\* Every variable has its type, and a point of the cache one payload, whatever runs beside
\* the answers (cache.py: the id of a point is its revision, its scope and its question).
THEOREM TypeCorrect ==
    ASSUME Assumptions
    PROVE  Spec => []TypeOK
<1>1. Init => Sorts
    BY SortsInit
<1>2. Sorts /\ [Next]_vars => Sorts'
    BY SortsStep
<1>3. Sorts => TypeOK
    BY DEF Sorts, Typed, TypeOK, AdminSet, RunSet, StatusSet, Snapshots, MaybeText
<1>4. QED
    BY <1>1, <1>2, <1>3, PTL DEF Spec

-----------------------------------------------------------------------------
(* The seed does not come back to what it was.                             *)

Onward == \A s \in SeedSet : Old(s) => Old(s)' /\ (seed' = s => seed = s)

LEMMA SeedStep ==
    ASSUME Assumptions, ~Reverts, Sorts, Old(seed), [Next]_vars
    PROVE  Old(seed)' /\ Onward
<1> USE DEF askVars, toolVars, historyVars
<1>1. seed \in SeedSet /\ past \in [Chunks -> SUBSET MaybeText]
    BY DEF Sorts, Typed
<1>2. CASE UNCHANGED <<seed, past>>
    BY <1>2 DEF Old, Onward
<1>3. CASE \E c \in Chunks, text \in Texts \cup {NoText}, reindex \in BOOLEAN : Edit(c, text, reindex)
  <2>1. PICK c \in Chunks, text \in MaybeText, reindex \in BOOLEAN : Edit(c, text, reindex)
      BY <1>3 DEF MaybeText
  <2>2. /\ text \notin past[c]
        /\ seed' = [seed EXCEPT ![c] = text]
        /\ past' = [past EXCEPT ![c] = @ \cup {text}]
      BY <2>1 DEF Edit
  <2>3. Old(seed)'
      BY <1>1, <2>2, Constants DEF Old
  <2>4. ASSUME NEW s \in SeedSet, Old(s)
        PROVE  Old(s)' /\ seed' # s
    <3>1. Old(s)'
        BY <1>1, <2>2, <2>4 DEF Old
    <3>2. s[c] # text
        BY <2>2, <2>4 DEF Old
    <3>3. seed'[c] = text
        BY <1>1, <2>2, Constants
    <3>4. QED
        BY <3>1, <3>2, <3>3
  <2>5. QED
      BY <2>3, <2>4 DEF Onward
<1>4. CASE \E new \in SeedSet : ApplySeed(new)
  <2>1. PICK new \in SeedSet : ApplySeed(new)
      BY <1>4
  <2>2. /\ \A c \in Chunks : new[c] = seed[c] \/ new[c] \notin past[c]
        /\ seed' = new
        /\ past' = [c \in Chunks |-> past[c] \cup {new[c]}]
      BY <2>1 DEF ApplySeed
  <2>3. Old(seed)'
      BY <2>2 DEF Old
  <2>4. ASSUME NEW s \in SeedSet, Old(s)
        PROVE  Old(s)' /\ (seed' = s => seed = s)
    <3>1. Old(s)'
        BY <2>2, <2>4 DEF Old
    <3>2. ASSUME seed' = s
          PROVE  seed = s
      <4>1. \A c \in Chunks : seed[c] = s[c]
          BY <2>2, <2>4, <3>2 DEF Old
      <4>2. QED
          BY <1>1, <4>1 DEF SeedSet
    <3>3. QED
        BY <3>1, <3>2
  <2>5. QED
      BY <2>3, <2>4 DEF Onward
<1>5. ASSUME [Next]_vars
      PROVE  \/ UNCHANGED <<seed, past>>
             \/ \E c \in Chunks, text \in Texts \cup {NoText}, reindex \in BOOLEAN :
                  Edit(c, text, reindex)
             \/ \E new \in SeedSet : ApplySeed(new)
  <2>1. CASE \E r \in Asks : BeginAsk(r) \/ Step(r)
      BY <2>1 DEF BeginAsk, Step, Check, Lookup, Confirm, Retrieve, StoreSnapshot, Answer,
                  SaveCheck, SaveUpsert
  <2>2. CASE Expire \/ \E p \in Processes : Restart(p)
      BY <2>2 DEF Expire, Restart
  <2>3. CASE Admin
      BY <2>3 DEF Admin, ReindexChunk, UpsertChunk, InvalidateForum, InvalidateKeyword
  <2>4. CASE IndexKB
      BY <2>4, RunTypes
  <2>5. CASE BeginStatus \/ Conclude \/ (\E c \in Chunks : ScanPage(c))
      BY <2>5, StatusTypes
  <2>6. CASE UNCHANGED vars
      BY <2>6 DEF vars
  <2>7. QED
      BY <1>5, <2>1, <2>2, <2>3, <2>4, <2>5, <2>6 DEF Next
<1>6. QED
    BY <1>2, <1>3, <1>4, <1>5

-----------------------------------------------------------------------------
(* Answers are filed and served under the revision they were read at.      *)

LEMMA BoundKept ==
    ASSUME Assumptions, Sorts, Sorts', Onward, NEW r \in Asks, Bound(r),
           ask'[r] = ask[r] \/ ask'[r] = Done
    PROVE  Bound(r)'
<1>1. CASE ask'[r] = Done
    BY <1>1, Idles DEF Bound
<1>2. CASE ask'[r] = ask[r]
  <2>1. ask[r].rev \in Revs /\ seed' \in SeedSet /\ NoSeed \notin SeedSet
      BY Constants DEF Sorts, Typed, AskSet
  <2>2. ask[r].rev # NoSeed => Old(ask[r].rev)
      BY DEF Bound
  <2>3. ask[r].rev # NoSeed => \A c \in Chunks : ask[r].rev[c] \in past'[c]
      BY <2>1, <2>2 DEF Onward, Old, Revs
  <2>4. seed' = ask[r].rev => seed = ask[r].rev
      BY <2>1, <2>2 DEF Onward, Revs
  <2>5. QED
      BY <1>2, <2>3, <2>4 DEF Bound, Old
<1>3. QED
    BY <1>1, <1>2

LEMMA BoundStep ==
    ASSUME Assumptions, Sorts, Old(seed), CacheBound, NEW r \in Asks, Bound(r),
           BeginAsk(r) \/ Step(r)
    PROVE  Bound(r)'
<1> USE DEF historyVars
<1>1. /\ UNCHANGED <<seed, past>> /\ Held(r) /\ ask[r] \in AskSet
      /\ seed \in SeedSet /\ NoSeed \notin SeedSet
    BY Constants DEF Sorts, Typed, BeginAsk, Step, Check, Lookup, Confirm, Retrieve, StoreSnapshot,
                     Answer, SaveCheck, SaveUpsert
<1>2. ASSUME ask'[r] = Done
      PROVE  Bound(r)'
    BY <1>2, Idles DEF Bound
<1>3. ASSUME ask'[r].rev = ask[r].rev
      PROVE  ask'[r].rev # NoSeed => Old(ask[r].rev)'
    BY <1>1, <1>3 DEF Bound, Old
<1>4. CASE BeginAsk(r)
  <2>1. /\ ask'[r].rev \in {seed, NoSeed}
        /\ ask'[r].pc = IF ask'[r].rev = NoSeed THEN "retrieve" ELSE "check"
      BY <1>4, Begins DEF Sorts
  <2>2. QED
      BY <1>1, <2>1 DEF Bound, Old
<1>5. CASE Check(r)
  <2>1. PICK pc \in {"lookup", "retrieve"} : To(r, pc)
      BY <1>5 DEF Check
  <2>2. QED
      BY <1>3, <1>5, <2>1, Moves DEF Check, AskPcs, Sorts, Bound, Old
<1>6. CASE Lookup(r)
  <2>1. CASE To(r, "retrieve")
      BY <1>3, <1>6, <2>1, Moves DEF Lookup, AskPcs, Sorts, Bound, Old
  <2>2. CASE \E e \in {x \in cache : Matches(x, r)} :
               ask' = [ask EXCEPT ![r].pc = "confirm", ![r].entry = e]
    <3>1. PICK e \in cache : /\ Matches(e, r)
                             /\ ask' = [ask EXCEPT ![r].pc = "confirm", ![r].entry = e]
        BY <2>2
    <3>2. e.readRev = ask[r].rev
        BY <3>1 DEF Matches, CacheBound
    <3>3. /\ ask'[r].pc = "confirm" /\ ask'[r].entry = e
          /\ ask'[r].rev = ask[r].rev
        BY <3>1, Hits DEF Sorts
    <3>4. QED
        BY <1>3, <3>2, <3>3 DEF Bound, Old
  <2>3. QED
      BY <1>6, <2>1, <2>2 DEF Lookup
<1>7. CASE Confirm(r)
  <2>1. PICK pc \in {"done", "retrieve"} : To(r, pc)
      BY <1>7 DEF Confirm
  <2>2. QED
      BY <1>2, <1>3, <1>7, <2>1, Moves DEF Confirm, AskPcs, Sorts, Bound, Old
<1>8. CASE Retrieve(r) \/ StoreSnapshot(r)
  <2>1. ask[r].chunk \in Chunks /\ ProcessOf[r] \in Processes /\ index \in SeedSet
        /\ keyword \in [Processes -> Snapshots]
      BY <1>1, <1>8, Constants DEF Sorts, Typed, AskSet
  <2>2. CASE \E text \in MaybeText : Read(r, text)
    <3>1. /\ ask'[r].pc = "answer" /\ ask'[r].readRev = seed
          /\ ask'[r].rev = ask[r].rev
        BY <2>2, Reads DEF Sorts
    <3>2. QED
        BY <1>1, <1>3, <2>1, <3>1 DEF Bound, Old
  <2>3. CASE ask' = [ask EXCEPT ![r].pc = "store", ![r].pages = index]
    <3>1. /\ ask'[r].pc = "store"
          /\ ask'[r].rev = ask[r].rev
        BY <2>3, Scrolls DEF Sorts
    <3>2. QED
        BY <1>3, <2>1, <3>1 DEF Bound, Old
  <2>4. ASSUME Retrieve(r)
        PROVE  \/ \E text \in MaybeText : Read(r, text)
               \/ ask' = [ask EXCEPT ![r].pc = "store", ![r].pages = index]
    <3>1. CASE Read(r, index[ask[r].chunk])
        BY <2>1, <3>1, Constants
    <3>2. CASE /\ keyword[ProcessOf[r]] # NoSnapshot
               /\ Read(r, keyword[ProcessOf[r]][ask[r].chunk])
      <4>1. keyword[ProcessOf[r]][ask[r].chunk] \in MaybeText
          BY <2>1, <3>2, Constants DEF Snapshots
      <4>2. QED
          BY <3>2, <4>1
    <3>3. QED
        BY <2>4, <3>1, <3>2 DEF Retrieve
  <2>5. ASSUME StoreSnapshot(r)
        PROVE  \E text \in MaybeText : Read(r, text)
      BY <2>5, Stores
  <2>6. QED
      BY <1>8, <2>2, <2>3, <2>4, <2>5
<1>9. CASE Answer(r)
  <2>1. PICK pc \in {"done", "save"} : To(r, pc)
      BY <1>9 DEF Answer
  <2>2. QED
      BY <1>1, <1>2, <1>3, <1>9, <2>1, Moves DEF Answer, AskPcs, Sorts, Bound, Old
<1>10. CASE SaveCheck(r)
  <2>1. To(r, IF seed = ask[r].rev THEN "upsert" ELSE "done") /\ ask[r].pc = "save"
      BY <1>10 DEF SaveCheck
  <2>2. CASE seed = ask[r].rev /\ To(r, "upsert")
      BY <1>1, <1>3, <2>1, <2>2, Moves DEF AskPcs, Sorts, Bound, Old
  <2>3. CASE To(r, "done")
      BY <1>2, <2>3, Moves DEF AskPcs, Sorts
  <2>4. QED
      BY <2>1, <2>2, <2>3
<1>11. CASE SaveUpsert(r)
    BY <1>2, <1>11, Moves DEF SaveUpsert, AskPcs, Sorts
<1>12. QED
    BY <1>4, <1>5, <1>6, <1>7, <1>8, <1>9, <1>10, <1>11 DEF Step

LEMMA CacheBoundStep ==
    ASSUME Assumptions, Sorts, CacheBound, \A r \in Asks : Bound(r), [Next]_vars
    PROVE  CacheBound'
<1> USE DEF askVars, toolVars, historyVars
<1>1. ASSUME cache' \in SUBSET cache
      PROVE  CacheBound'
    BY <1>1 DEF CacheBound
<1>2. CASE \E r \in Asks : BeginAsk(r) \/ Step(r)
  <2>1. PICK r \in Asks : BeginAsk(r) \/ Step(r)
      BY <1>2
  <2>2. CASE SaveUpsert(r)
    <3>1. ask[r].pc = "upsert" /\ Answering(r)
        BY <2>2 DEF SaveUpsert, Answering
    <3>2. Point(r).readRev = Point(r).rev
        BY <2>2, <3>1, Saves DEF Bound
    <3>3. cache' = {e \in cache : ~Matches(e, r)} \cup {Point(r)}
        BY <2>2, Saves
    <3> HIDE DEF Point
    <3>4. QED
        BY <3>2, <3>3 DEF CacheBound
  <2>3. CASE ~SaveUpsert(r)
      BY <1>1, <2>1, <2>3 DEF BeginAsk, Step, Check, Lookup, Confirm, Retrieve, StoreSnapshot,
                              Answer, SaveCheck
  <2>4. QED
      BY <2>2, <2>3
<1>3. CASE Expire \/ \E p \in Processes : Restart(p)
    BY <1>1, <1>3 DEF Expire, Restart
<1>4. CASE Admin
    BY <1>1, <1>4, AdminTypes
<1>5. CASE IndexKB
    BY <1>1, <1>5, RunTypes
<1>6. CASE BeginStatus \/ Conclude \/ (\E c \in Chunks : ScanPage(c))
    BY <1>1, <1>6, StatusTypes
<1>7. CASE UNCHANGED vars
    BY <1>1, <1>7 DEF vars
<1>8. QED
    BY <1>2, <1>3, <1>4, <1>5, <1>6, <1>7 DEF Next

LEMMA AdminBoundStep ==
    ASSUME Assumptions, Sorts, AdminBound, [Next]_vars
    PROVE  AdminBound'
<1> USE DEF askVars, toolVars, historyVars
<1>1. seed \in SeedSet /\ admin \in AdminSet
    BY DEF Sorts, Typed
<1>2. ASSUME UNCHANGED <<seed, admin>>
      PROVE  AdminBound'
    BY <1>2 DEF AdminBound
<1>3. CASE \E r \in Asks : BeginAsk(r) \/ Step(r)
    BY <1>2, <1>3 DEF BeginAsk, Step, Check, Lookup, Confirm, Retrieve, StoreSnapshot, Answer,
                      SaveCheck, SaveUpsert
<1>4. CASE Expire \/ \E p \in Processes : Restart(p)
    BY <1>2, <1>4 DEF Expire, Restart
<1>5. CASE Admin
  <2>1. ASSUME NEW c \in Chunks, NEW text \in MaybeText, NEW reindex \in BOOLEAN, Edit(c, text, reindex)
        PROVE  AdminBound'
    <3>1. seed'[c] = text
        BY <1>1, <2>1, Constants DEF Edit
    <3>2. QED
        BY <1>1, <2>1, <3>1 DEF Edit, AdminBound, AdminFree
  <2>2. ASSUME NEW new \in SeedSet, ApplySeed(new)
        PROVE  AdminBound'
      BY <2>2 DEF ApplySeed, AdminBound, AdminFree
  <2>3. ASSUME NEW c \in Chunks, ReindexChunk(c)
        PROVE  AdminBound'
      BY <2>3 DEF ReindexChunk, AdminBound
  <2>4. ASSUME UpsertChunk \/ InvalidateForum \/ (\E p : InvalidateKeyword(p))
        PROVE  AdminBound'
      BY <1>1, <2>4, Idles DEF UpsertChunk, InvalidateForum, InvalidateKeyword, AdminBound, AdminSet
  <2>5. QED
      BY <1>5, <2>1, <2>2, <2>3, <2>4 DEF Admin, MaybeText
<1>6. CASE IndexKB
    BY <1>2, <1>6, RunTypes
<1>7. CASE BeginStatus \/ Conclude \/ (\E c \in Chunks : ScanPage(c))
    BY <1>2, <1>7, StatusTypes
<1>8. CASE UNCHANGED vars
    BY <1>2, <1>8 DEF vars
<1>9. QED
    BY <1>3, <1>4, <1>5, <1>6, <1>7, <1>8 DEF Next

\* What answers and edits are bound to.
Ties == Sorts /\ Old(seed) /\ (\A r \in Asks : Bound(r)) /\ CacheBound /\ AdminBound

LEMMA TiesInit ==
    ASSUME Assumptions, Init
    PROVE  Ties
<1>1. Sorts
    BY SortsInit
<1>2. Old(seed) /\ CacheBound
    BY DEF Init, Old, CacheBound
<1>3. \A r \in Asks : ask[r].pc = "idle" /\ ask[r].rev = NoSeed
    BY Idles DEF Init
<1>4. \A r \in Asks : Bound(r)
    BY <1>3 DEF Bound, Answering
<1>5. AdminBound
    BY Idles DEF Init, AdminBound
<1>6. QED
    BY <1>1, <1>2, <1>4, <1>5 DEF Ties

LEMMA TiesStep ==
    ASSUME Assumptions, ~Reverts, Ties, [Next]_vars
    PROVE  Ties' /\ Onward
<1>1. Sorts /\ Old(seed) /\ (\A r \in Asks : Bound(r)) /\ CacheBound /\ AdminBound
    BY DEF Ties
<1>2. Sorts' /\ Old(seed)' /\ Onward
    BY <1>1, SortsStep, SeedStep
<1>3. CacheBound' /\ AdminBound'
    BY <1>1, CacheBoundStep, AdminBoundStep
<1>4. ASSUME NEW r \in Asks, ask'[r] = ask[r] \/ ask'[r] = Done
      PROVE  Bound(r)'
    BY <1>1, <1>2, <1>4, BoundKept
<1>5. \A r \in Asks : Bound(r)'
  <2>1. CASE \E r \in Asks : BeginAsk(r) \/ Step(r)
    <3>1. PICK r \in Asks : BeginAsk(r) \/ Step(r)
        BY <2>1
    <3>2. Bound(r)'
        BY <1>1, <3>1, BoundStep
    <3>3. Others(r)
        BY <1>1, <3>1, CallTypes
    <3>4. QED
        BY <1>4, <3>2, <3>3 DEF Others
  <2>2. CASE \E p \in Processes : Restart(p)
      BY <1>1, <1>4, <2>2, Restarts
  <2>3. CASE UNCHANGED ask
      BY <1>4, <2>3
  <2>4. CASE Expire
      BY <2>3, <2>4 DEF Expire
  <2>5. CASE Admin
      BY <1>1, <2>3, <2>5, AdminTypes
  <2>6. CASE IndexKB
      BY <1>1, <2>3, <2>6, RunTypes
  <2>7. CASE BeginStatus \/ Conclude \/ (\E c \in Chunks : ScanPage(c))
      BY <1>1, <2>3, <2>7, StatusTypes DEF askVars
  <2>8. CASE UNCHANGED vars
      BY <2>3, <2>8 DEF vars, askVars
  <2>9. QED
      BY <2>1, <2>2, <2>4, <2>5, <2>6, <2>7, <2>8 DEF Next
<1>6. QED
    BY <1>2, <1>3, <1>5 DEF Ties

\* A hit is served only by its confirmation.
LEMMA HitsConfirmed ==
    ASSUME Assumptions, Ties, [Next]_vars
    PROVE  ConfirmsRevision
<1> SUFFICES ASSUME NEW r \in Asks, ask[r].pc = "confirm", ask'[r].pc = "done",
                    restarted' = restarted
             PROVE  ask[r].entry.readRev = seed
    BY DEF ConfirmsRevision
<1>1. Sorts /\ Bound(r) /\ ask'[r] # ask[r]
    BY DEF Ties
<1>2. CASE \E q \in Asks : BeginAsk(q) \/ Step(q)
  <2>1. PICK q \in Asks : BeginAsk(q) \/ Step(q)
      BY <1>2
  <2>2. q = r
      BY <1>1, <2>1, CallTypes DEF Others
  <2>3. Confirm(r)
      BY <2>1, <2>2 DEF BeginAsk, Step, Check, Lookup, Retrieve, StoreSnapshot, Answer,
                        SaveCheck, SaveUpsert
  <2>4. CASE seed = ask[r].rev
      BY <1>1, <2>4 DEF Bound
  <2>5. CASE seed # ask[r].rev
    <3>1. To(r, "retrieve")
        BY <2>3, <2>5 DEF Confirm
    <3>2. ask'[r].pc = "retrieve"
        BY <1>1, <3>1, Moves DEF AskPcs, Sorts
    <3>3. QED
        BY <3>2
  <2>6. QED
      BY <2>4, <2>5
<1>3. CASE \E p \in Processes : Restart(p)
    BY <1>3 DEF Restart
<1>4. CASE Expire \/ UNCHANGED vars
    BY <1>1, <1>4 DEF Expire, vars, askVars
<1>5. CASE Admin
    BY <1>1, <1>5, AdminTypes
<1>6. CASE IndexKB
    BY <1>1, <1>6, RunTypes
<1>7. CASE BeginStatus \/ Conclude \/ (\E c \in Chunks : ScanPage(c))
    BY <1>1, <1>7, StatusTypes DEF askVars
<1>8. QED
    BY <1>2, <1>3, <1>4, <1>5, <1>6, <1>7 DEF Next

-----------------------------------------------------------------------------
(* The index follows the seed while the seed stays.                        *)

\* What is written to the index outside a run is what the seed has.
Follows ==
    \A c \in Chunks : index'[c] = index[c] \/ (seed' = seed /\ index'[c] = seed[c])

LEMMA AdminFollows ==
    ASSUME Assumptions, Ties, Admin
    PROVE  Follows
<1> USE DEF askVars, toolVars, historyVars
<1>1. index \in SeedSet /\ admin \in AdminSet /\ seed \in SeedSet
    BY DEF Ties, Sorts, Typed
<1>2. CASE UNCHANGED index
    BY <1>2 DEF Follows
<1>3. CASE UpsertChunk
  <2>1. admin.text = seed[admin.chunk] /\ admin.chunk \in Chunks /\ seed' = seed
      BY <1>1, <1>3 DEF UpsertChunk, Ties, AdminBound, AdminSet
  <2>2. CASE index' = [index EXCEPT ![admin.chunk] = admin.text]
      BY <1>1, <2>1, <2>2, Constants DEF Follows
  <2>3. QED
      BY <1>2, <1>3, <2>2 DEF UpsertChunk
<1>4. QED
    BY <1>2, <1>3 DEF Admin, Edit, ApplySeed, ReindexChunk, InvalidateForum, InvalidateKeyword

\* The steps that are no step of a run.
LEMMA Besides ==
    ASSUME Assumptions, Ties, [Next]_vars, ~IndexKB
    PROVE  Follows /\ run' = run
<1> USE DEF askVars, toolVars, historyVars
<1>1. Sorts
    BY DEF Ties
<1>2. CASE UNCHANGED <<index, run>>
    BY <1>2 DEF Follows
<1>3. CASE \E r \in Asks : BeginAsk(r) \/ Step(r)
    BY <1>2, <1>3 DEF BeginAsk, Step, Check, Lookup, Confirm, Retrieve, StoreSnapshot, Answer,
                      SaveCheck, SaveUpsert
<1>4. CASE Expire \/ (\E p \in Processes : Restart(p)) \/ UNCHANGED vars
    BY <1>2, <1>4 DEF Expire, Restart, vars
<1>5. CASE Admin
    BY <1>1, <1>5, AdminTypes, AdminFollows
<1>6. CASE BeginStatus \/ Conclude \/ (\E c \in Chunks : ScanPage(c))
    BY <1>1, <1>2, <1>6, StatusTypes
<1>7. QED
    BY <1>3, <1>4, <1>5, <1>6 DEF Next

LEMMA IndexedKept ==
    ASSUME Assumptions, Ties, Ties', Indexed, Onward, Follows, run' = run
    PROVE  Indexed'
<1>1. seed \in SeedSet /\ seed' \in SeedSet
    BY DEF Ties, Sorts, Typed
<1>2. Running \/ run.pc = "done" =>
        /\ run.seed \in SeedSet
        /\ \A c \in Chunks : run.seed[c] \in past'[c]
        /\ seed' = run.seed => seed = run.seed
    BY DEF Indexed, Onward, Old
<1>3. /\ Running \/ run.pc = "done" => run.seed \in SeedSet /\ Old(run.seed)'
      /\ Running /\ run.pc # "upsert" => run.todo = {}
    BY <1>2 DEF Indexed, Old
<1>4. ASSUME Running, run.full, seed' = run.seed, NEW c \in Chunks, seed'[c] # NoText, c \notin run.todo
      PROVE  index'[c] = seed'[c]
    BY <1>2, <1>4 DEF Indexed, Published, Follows
<1>5. ASSUME Running, seed' = run.seed, NEW c \in Chunks, index'[c] # NoText, seed'[c] = NoText
      PROVE  index[c] # NoText /\ seed = run.seed /\ seed[c] = NoText
    BY <1>2, <1>5 DEF Follows
<1>6. ASSUME run.pc = "delete", seed' = run.seed, NEW c \in Chunks, index'[c] # NoText, seed'[c] = NoText
      PROVE  c \in run.doomed
    BY <1>5, <1>6 DEF Indexed, Present, Published, Running, RunPc
<1>7. ASSUME run.pc \in {"collect", "clear", "verify"}, run.prune, seed' = run.seed,
             NEW c \in Chunks, index'[c] # NoText
      PROVE  seed'[c] # NoText
    BY <1>5, <1>7 DEF Indexed, Present, Published, Running, RunPc
<1>8. QED
    BY <1>3, <1>4, <1>6, <1>7 DEF Indexed, Present, Published, Running, Old

LEMMA IndexedStep ==
    ASSUME Assumptions, Ties, Ties', Indexed, Onward, [Next]_vars
    PROVE  Indexed'
<1> USE DEF askVars, toolVars, historyVars
<1>1. /\ Sorts /\ seed \in SeedSet /\ index \in SeedSet /\ run \in RunSet /\ Old(seed) /\ ToolsHeld
    BY DEF Ties, Sorts, Typed
<1>2. CASE ~IndexKB
    BY <1>2, Besides, IndexedKept
<1>3. CASE \E todo \in SUBSET Chunks, prune \in BOOLEAN : BeginIndex(todo, prune)
  <2>1. PICK todo \in SUBSET Chunks, prune \in BOOLEAN : BeginIndex(todo, prune)
      BY <1>3
  <2>2. /\ run'.pc = "upsert" /\ run'.seed = seed /\ run'.todo = todo
        /\ run'.full = (todo = Published(seed))
        /\ UNCHANGED <<seed, past>>
      BY <2>1 DEF BeginIndex
  <2>3. QED
      BY <1>1, <2>2 DEF Indexed, Running, Old, Published
<1>4. CASE \E batch \in SUBSET Chunks : UpsertBatch(batch)
  <2>1. PICK batch \in SUBSET Chunks : UpsertBatch(batch)
      BY <1>4
  <2>2. Running /\ run.pc = "upsert" /\ UNCHANGED <<seed, past>>
      BY <2>1 DEF UpsertBatch, Running, RunPc
  <2>3. CASE run.todo = {}
    <3>1. /\ run' = [run EXCEPT !.pc = IF run.prune THEN "prune" ELSE "collect"]
          /\ index' = index
        BY <2>1, <2>3 DEF UpsertBatch
    <3>2. /\ run'.pc = IF run.prune THEN "prune" ELSE "collect"
          /\ run'.seed = run.seed /\ run'.todo = {} /\ run'.full = run.full /\ run'.prune = run.prune
        BY <1>1, <2>3, <3>1 DEF RunSet
    <3>3. QED
        BY <2>2, <3>1, <3>2 DEF Indexed, Running, RunPc, Old, Published
  <2>4. CASE run.todo # {}
    <3>1. /\ batch \subseteq run.todo
          /\ index' = [c \in Chunks |-> IF c \in batch THEN run.seed[c] ELSE index[c]]
          /\ run' = [run EXCEPT !.todo = @ \ batch, !.changed = TRUE]
        BY <2>1, <2>4 DEF UpsertBatch
    <3>2. /\ run'.pc = "upsert"
          /\ run'.seed = run.seed /\ run'.todo = run.todo \ batch /\ run'.full = run.full
        BY <1>1, <2>2, <3>1 DEF RunSet
    <3>3. QED
        BY <2>2, <3>1, <3>2 DEF Indexed, Running, RunPc, Old, Published
  <2>5. QED
      BY <2>3, <2>4
<1>5. CASE CollectStale
  <2>1. /\ run.pc = "prune" /\ Running /\ UNCHANGED <<seed, past, index>>
        /\ run'.pc = "delete" /\ run'.seed = run.seed /\ run'.todo = run.todo
        /\ run'.full = run.full /\ run'.doomed = Present \ Published(run.seed)
      BY <1>1, <1>5 DEF CollectStale, Running, RunPc, RunSet
  <2>2. QED
      BY <2>1 DEF Indexed, Running, RunPc, Old, Published, Present
<1>6. CASE DeleteStale
  <2>1. /\ run.pc = "delete" /\ Running /\ UNCHANGED <<seed, past>>
        /\ run'.pc = "collect" /\ run'.seed = run.seed /\ run'.todo = run.todo
        /\ run'.full = run.full /\ run'.prune = run.prune
        /\ index' = [c \in Chunks |-> IF c \in run.doomed THEN NoText ELSE index[c]]
      BY <1>1, <1>6 DEF DeleteStale, Running, RunPc, RunSet
  <2>2. run.doomed \subseteq Chunks \ Published(run.seed) /\ run.todo = {}
      BY <1>1, <2>1 DEF ToolsHeld, Indexed
  <2>3. QED
      BY <2>1, <2>2 DEF Indexed, Running, RunPc, Old, Published, Present
<1>7. CASE CollectCached
  <2>1. /\ run.pc = "collect" /\ Running /\ UNCHANGED <<seed, past, index>>
        /\ run'.pc \in {"clear", "verify"} /\ run'.seed = run.seed /\ run'.todo = run.todo
        /\ run'.full = run.full /\ run'.prune = run.prune
      BY <1>1, <1>7 DEF CollectCached, Running, RunPc, RunSet
  <2>2. QED
      BY <2>1 DEF Indexed, Running, RunPc, Old, Published, Present
<1>8. CASE ClearCached
  <2>1. /\ run.pc = "clear" /\ Running /\ UNCHANGED <<seed, past, index>>
        /\ run'.pc = "verify" /\ run'.seed = run.seed /\ run'.todo = run.todo
        /\ run'.full = run.full /\ run'.prune = run.prune
      BY <1>1, <1>8 DEF ClearCached, Running, RunPc, RunSet
  <2>2. QED
      BY <2>1 DEF Indexed, Running, RunPc, Old, Published, Present
<1>9. CASE CompleteIndex
  <2>1. /\ run.pc = "verify" /\ Running /\ UNCHANGED <<seed, past>>
        /\ \/ run'.pc = "done" /\ run'.seed = run.seed
           \/ run'.pc = "failed"
      BY <1>1, <1>9, Idles DEF CompleteIndex, Running, RunPc, RunSet
  <2>2. QED
      BY <2>1 DEF Indexed, Running, RunPc, Old
<1>10. CASE FailIndex
    BY <1>10 DEF FailIndex, IdleRun, Indexed, Running, RunPc
<1>11. QED
    BY <1>2, <1>3, <1>4, <1>5, <1>6, <1>7, <1>8, <1>9, <1>10 DEF IndexKB

\* A run that completes has compared the hash of the seed with its own.
LEMMA CompletedExact ==
    ASSUME Assumptions, Ties, Indexed, [Next]_vars
    PROVE  CompletesExact
<1> SUFFICES ASSUME run.pc = "verify", run'.pc = "done", run.full, run.prune
             PROVE  index = seed
    BY DEF CompletesExact
<1>1. IndexKB
    BY Besides
<1>2. CompleteIndex
    BY <1>1 DEF IndexKB, BeginIndex, UpsertBatch, CollectStale, DeleteStale, CollectCached,
                ClearCached, FailIndex, IdleRun
<1>3. seed = run.seed
    BY <1>2 DEF CompleteIndex, IdleRun
<1>4. \A c \in Chunks : index[c] = seed[c]
    BY <1>3 DEF Indexed, Running, RunPc, Published, Present
<1>5. QED
    BY <1>4 DEF Ties, Sorts, Typed, SeedSet

-----------------------------------------------------------------------------
(* The status looks while the seed stays.                                  *)

LEMMA LookedKept ==
    ASSUME Assumptions, Ties, Ties', Looked, Onward, Follows,
           status' = status \/ Disturb
    PROVE  Looked'
<1>1. /\ status \in StatusSet /\ seed' \in SeedSet
      /\ status.pc = "scan" => status.seed \in SeedSet
    BY DEF Ties, Sorts, Typed, ToolsHeld
<1>2. status.pc = "scan" =>
        /\ \A c \in Chunks : status.seed[c] \in past'[c]
        /\ seed' = status.seed => seed = status.seed
    BY <1>1 DEF Looked, Onward, Old
<1>3. CASE status' = status
    BY <1>2, <1>3 DEF Looked, Old, Follows
<1>4. CASE Disturb
  <2>1. /\ status'.pc = status.pc /\ status'.seed = status.seed
        /\ status.pc = "scan" => status'.disturbed
      BY <1>1, <1>4 DEF Disturb, StatusSet
  <2>2. QED
      BY <1>2, <2>1 DEF Looked, Old
<1>5. QED
    BY <1>3, <1>4

\* A batch disturbs the status, whether the seed has its texts or not.
LEMMA LookedBeside ==
    ASSUME Assumptions, Ties, Ties', Looked, Onward, Disturb
    PROVE  Looked'
<1>1. /\ status \in StatusSet
      /\ status.pc = "scan" => status.seed \in SeedSet
    BY DEF Ties, Sorts, Typed, ToolsHeld
<1>2. status.pc = "scan" => \A c \in Chunks : status.seed[c] \in past'[c]
    BY <1>1 DEF Looked, Onward, Old
<1>3. /\ status'.pc = status.pc /\ status'.seed = status.seed
      /\ status.pc = "scan" => status'.disturbed
    BY <1>1 DEF Disturb, StatusSet
<1>4. QED
    BY <1>2, <1>3 DEF Looked, Old

LEMMA LookedStep ==
    ASSUME Assumptions, Ties, Ties', Looked, Onward, [Next]_vars
    PROVE  Looked'
<1> USE DEF askVars, toolVars, historyVars
<1>1. /\ Sorts /\ seed \in SeedSet /\ index \in SeedSet /\ status \in StatusSet /\ Old(seed)
    BY DEF Ties, Sorts, Typed
<1>2. ASSUME Follows, status' = status
      PROVE  Looked'
    BY <1>2, LookedKept
<1>3. ASSUME UNCHANGED <<index, status>>
      PROVE  Looked'
    BY <1>2, <1>3 DEF Follows
<1>4. CASE IndexKB
  <2>1. CASE \E batch \in SUBSET Chunks : UpsertBatch(batch)
      BY <1>3, <2>1, LookedBeside DEF UpsertBatch
  <2>2. CASE DeleteStale
      BY <2>2, LookedBeside DEF DeleteStale
  <2>3. QED
      BY <1>3, <1>4, <2>1, <2>2
      DEF IndexKB, BeginIndex, CollectStale, CollectCached, ClearCached, CompleteIndex, FailIndex
<1>5. CASE BeginStatus
  <2>1. /\ status'.seed = seed /\ status'.unread = Chunks /\ UNCHANGED <<seed, past, index>>
      BY <1>5 DEF BeginStatus
  <2>2. QED
      BY <1>1, <2>1 DEF Looked, Old
<1>6. CASE Conclude
    BY <1>6 DEF Conclude, IdleStatus, Looked
<1>7. CASE \E c \in Chunks : ScanPage(c)
  <2>1. PICK c \in Chunks : ScanPage(c)
      BY <1>7
  <2>2. /\ status.pc = "scan" /\ UNCHANGED <<seed, past, index>>
        /\ status'.seed = status.seed /\ status'.unread = status.unread \ {c}
        /\ status'.disturbed = status.disturbed
        /\ status'.exact => status.exact /\ index[c] = status.seed[c]
      BY <1>1, <2>1 DEF ScanPage, StatusSet
  <2>3. QED
      BY <2>2 DEF Looked, Old
<1>8. CASE Admin
    BY <1>1, <1>2, <1>8, AdminTypes, AdminFollows
<1>9. CASE \E r \in Asks : BeginAsk(r) \/ Step(r)
    BY <1>3, <1>9 DEF BeginAsk, Step, Check, Lookup, Confirm, Retrieve, StoreSnapshot, Answer,
                      SaveCheck, SaveUpsert
<1>10. CASE Expire \/ (\E p \in Processes : Restart(p)) \/ UNCHANGED vars
    BY <1>3, <1>10 DEF Expire, Restart, vars
<1>11. QED
    BY <1>4, <1>5, <1>6, <1>7, <1>8, <1>9, <1>10 DEF Next

LEMMA WentExact ==
    ASSUME Assumptions, Ties, Looked, [Next]_vars
    PROVE  GoesExact
<1> SUFFICES ASSUME status.pc = "scan", status'.pc = "go", ~status.disturbed
             PROVE  index = seed
    BY DEF GoesExact
<1> USE DEF askVars, toolVars, historyVars
<1>1. Sorts /\ status \in StatusSet /\ status'.pc # status.pc
    BY DEF Ties, Sorts, Typed
<1>2. ASSUME Conclude
      PROVE  index = seed
  <2>1. status.exact /\ seed = status.seed /\ status.unread = {}
      BY <1>2 DEF Conclude, IdleStatus
  <2>2. \A c \in Chunks : index[c] = seed[c]
      BY <2>1 DEF Looked
  <2>3. QED
      BY <2>2 DEF Ties, Sorts, Typed, SeedSet
<1>3. CASE IndexKB
    BY <1>1, <1>3 DEF IndexKB, BeginIndex, UpsertBatch, CollectStale, DeleteStale, CollectCached,
                      ClearCached, CompleteIndex, FailIndex, Disturb, StatusSet
<1>4. CASE BeginStatus \/ (\E c \in Chunks : ScanPage(c))
    BY <1>1, <1>4 DEF BeginStatus, ScanPage, StatusSet
<1>5. CASE Admin
    BY <1>1, <1>5, AdminTypes
<1>6. CASE \E r \in Asks : BeginAsk(r) \/ Step(r)
    BY <1>1, <1>6 DEF BeginAsk, Step, Check, Lookup, Confirm, Retrieve, StoreSnapshot, Answer,
                      SaveCheck, SaveUpsert
<1>7. CASE Expire \/ (\E p \in Processes : Restart(p)) \/ UNCHANGED vars
    BY <1>1, <1>7 DEF Expire, Restart, vars
<1>8. QED
    BY <1>2, <1>3, <1>4, <1>5, <1>6, <1>7 DEF Next

-----------------------------------------------------------------------------
(* A release: a full run with the processes down.                          *)

\* While the run is at work, only it, the status and the TTL of the cache go on.
LEMMA DownSteps ==
    ASSUME Assumptions, Ties, Quiet, Offline, Running, [Next]_vars
    PROVE  \/ IndexKB
           \/ /\ cache' \in SUBSET cache
              /\ UNCHANGED <<seed, index, keyword, ask, admin, run>>
<1>1. Sorts /\ ~Up /\ run.pc # "done" /\ \A r \in Asks : ask[r].pc \in {"idle", "done"}
    BY DEF Ties, Up, Running, RunPc, Quiet, Answering
<1>2. ASSUME NEW r \in Asks, BeginAsk(r) \/ Step(r)
      PROVE  FALSE
    BY <1>1, <1>2 DEF BeginAsk, Step, Check, Lookup, Confirm, Retrieve, StoreSnapshot, Answer,
                      SaveCheck, SaveUpsert
<1>3. CASE Expire \/ UNCHANGED vars
    BY <1>3 DEF Expire, vars, askVars, toolVars
<1>4. CASE (\E p \in Processes : Restart(p)) \/ Admin
    BY <1>1, <1>4 DEF Restart, Admin
<1>5. CASE BeginStatus \/ Conclude \/ (\E c \in Chunks : ScanPage(c))
    BY <1>1, <1>5, StatusTypes DEF askVars
<1>6. QED
    BY <1>2, <1>3, <1>4, <1>5 DEF Next

LEMMA QuietStep ==
    ASSUME Assumptions, Ties, Indexed, Quiet, [Next]_vars
    PROVE  Quiet'
<1> USE DEF askVars, toolVars, historyVars
<1>1. /\ Sorts /\ seed \in SeedSet /\ run \in RunSet /\ ToolsHeld /\ cache \in SUBSET EntrySet
    BY DEF Ties, Sorts, Typed
<1> SUFFICES ASSUME Offline, Running'
             PROVE  Quiet'
    BY DEF Quiet
<1>2. CASE ~IndexKB
  <2>1. run' = run /\ Running
      BY <1>2, Besides DEF Running
  <2>2. cache' \in SUBSET cache /\ UNCHANGED <<seed, index, keyword, ask, admin, run>>
      BY <1>2, <2>1, DownSteps
  <2>3. QED
      BY <2>1, <2>2 DEF Quiet, Running, AdminFree, Answering, Published
<1>3. CASE \E todo \in SUBSET Chunks, prune \in BOOLEAN : BeginIndex(todo, prune)
  <2>1. PICK todo \in SUBSET Chunks, prune \in BOOLEAN : BeginIndex(todo, prune)
      BY <1>3
  <2>2. /\ run'.pc = "upsert" /\ run'.seed = seed /\ run'.todo = todo
        /\ run'.full = (todo = Published(seed))
        /\ UNCHANGED <<seed, ask, admin>>
        /\ AdminFree /\ \A r \in Asks : ~Answering(r)
        /\ keyword' = [p \in Processes |-> NoSnapshot]
      BY <2>1 DEF BeginIndex
  <2>3. QED
      BY <2>2 DEF Quiet, Running, AdminFree, Answering, Published
<1>4. ASSUME Running, UNCHANGED <<seed, keyword, ask, admin>>, run'.seed = run.seed
      PROVE  /\ AdminFree' /\ seed' = run'.seed
             /\ \A r \in Asks : ~Answering(r)'
             /\ \A p \in Processes : keyword'[p] = NoSnapshot
    BY <1>4 DEF Quiet, AdminFree, Answering
<1>5. CASE \E batch \in SUBSET Chunks : UpsertBatch(batch)
  <2>1. PICK batch \in SUBSET Chunks : UpsertBatch(batch)
      BY <1>5
  <2>2. Running /\ run.pc = "upsert" /\ UNCHANGED <<seed, keyword, cache, ask, admin>>
      BY <2>1 DEF UpsertBatch, Running, RunPc
  <2>3. CASE run.todo = {}
    <3>1. run' = [run EXCEPT !.pc = IF run.prune THEN "prune" ELSE "collect"]
        BY <2>1, <2>3 DEF UpsertBatch
    <3>2. /\ run'.pc \in {"prune", "collect"}
          /\ run'.seed = run.seed /\ run'.full = run.full /\ run'.changed = run.changed
        BY <1>1, <3>1 DEF RunSet
    <3>3. run.full /\ Published(seed) # {} => run.changed
        BY <2>2, <2>3 DEF Quiet
    <3>4. QED
        BY <1>4, <2>2, <3>2, <3>3 DEF Quiet, Published
  <2>4. CASE run.todo # {}
    <3>1. run' = [run EXCEPT !.todo = @ \ batch, !.changed = TRUE]
        BY <2>1, <2>4 DEF UpsertBatch
    <3>2. run'.pc = "upsert" /\ run'.seed = run.seed /\ run'.changed
        BY <1>1, <2>2, <3>1 DEF RunSet
    <3>3. QED
        BY <1>4, <2>2, <3>2 DEF Quiet
  <2>5. QED
      BY <2>3, <2>4
<1>6. CASE CollectStale
  <2>1. /\ run.pc = "prune" /\ Running /\ UNCHANGED <<seed, keyword, ask, admin>>
        /\ run'.pc = "delete" /\ run'.seed = run.seed
        /\ run'.full = run.full /\ run'.changed = run.changed
      BY <1>1, <1>6 DEF CollectStale, Running, RunPc, RunSet
  <2>2. QED
      BY <1>4, <2>1 DEF Quiet, Published
<1>7. CASE DeleteStale
  <2>1. /\ run.pc = "delete" /\ Running /\ UNCHANGED <<seed, keyword, ask, admin>>
        /\ run'.pc = "collect" /\ run'.seed = run.seed
        /\ run'.full = run.full /\ (run.changed => run'.changed)
      BY <1>1, <1>7 DEF DeleteStale, Running, RunPc, RunSet
  <2>2. QED
      BY <1>4, <2>1 DEF Quiet, Published
<1>8. CASE CollectCached
  <2>1. /\ run.pc = "collect" /\ Running /\ UNCHANGED <<seed, keyword, cache, ask, admin>>
        /\ run'.pc = (IF run.changed THEN "clear" ELSE "verify") /\ run'.seed = run.seed
        /\ run'.full = run.full /\ run'.changed = run.changed
        /\ run.changed => run'.doomed = {PointId(e) : e \in cache}
      BY <1>1, <1>8 DEF CollectCached, Running, RunPc, RunSet
  <2>2. run.changed \in BOOLEAN /\ run'.pc # "upsert" /\ run.pc # "upsert"
      BY <1>1, <2>1 DEF RunSet
  <2>3. run'.pc = "clear" => \A e \in cache' : PointId(e) \in run'.doomed
      BY <2>1, <2>2
  <2>4. run'.pc = "verify" => ~run'.changed
      BY <2>1, <2>2
  <2>5. QED
      BY <1>4, <2>1, <2>2, <2>3, <2>4 DEF Quiet, Published
<1>9. CASE ClearCached
  <2>1. /\ run.pc = "clear" /\ Running /\ UNCHANGED <<seed, keyword, ask, admin>>
        /\ run'.pc = "verify" /\ run'.seed = run.seed
        /\ run'.full = run.full /\ run'.changed = run.changed
        /\ cache' = {e \in cache : PointId(e) \notin run.doomed}
      BY <1>1, <1>9 DEF ClearCached, Running, RunPc, RunSet
  <2>2. cache' = {}
      BY <2>1 DEF Quiet
  <2>3. QED
      BY <1>4, <2>1, <2>2 DEF Quiet, Published
<1>10. CASE CompleteIndex \/ FailIndex
    BY <1>1, <1>10, Idles DEF CompleteIndex, FailIndex, Running, RunPc, RunSet
<1>11. QED
    BY <1>2, <1>3, <1>5, <1>6, <1>7, <1>8, <1>9, <1>10 DEF IndexKB

\* What is read of a released seed is its text.
LEMMA FreshCall ==
    ASSUME Assumptions, Ties, Fresh, Released, NEW r \in Asks, BeginAsk(r) \/ Step(r)
    PROVE  Fresh'
<1> USE DEF askVars, toolVars, historyVars
<1>1. /\ Sorts /\ ask[r] \in AskSet /\ ask[r].chunk \in Chunks /\ ProcessOf[r] \in Processes
      /\ seed \in SeedSet /\ NoSnapshot \notin SeedSet /\ keyword \in [Processes -> Snapshots]
    BY Constants DEF Ties, Sorts, Typed, AskSet
<1>2. UNCHANGED <<seed, index, run>> /\ Others(r)
    BY <1>1, CallTypes DEF BeginAsk, Step, Check, Lookup, Confirm, Retrieve, StoreSnapshot, Answer,
                           SaveCheck, SaveUpsert
<1>3. /\ index = seed
      /\ \A p \in Processes : keyword[p] \in {NoSnapshot, seed}
      /\ \A q \in Asks :
           /\ ask[q].pc = "store" => ask[q].pages = seed
           /\ ask[q].pc \in {"answer", "save", "upsert"} => ask[q].text = seed[ask[q].chunk]
      /\ \A e \in cache : ~Stale(e)
    BY DEF Fresh
<1> DEFINE Good == /\ ask'[r].pc = "store" => ask'[r].pages = seed
                   /\ ask'[r].pc \in {"answer", "save", "upsert"} =>
                        ask'[r].text = seed[ask'[r].chunk]
<1>4. ASSUME Good, UNCHANGED <<keyword, cache>>
      PROVE  Fresh'
    BY <1>2, <1>3, <1>4 DEF Fresh, Stale, Others
<1>5. ASSUME NEW pc \in AskPcs \ {"store"}, To(r, pc),
             pc \in {"save", "upsert"} => ask[r].pc \in {"answer", "save"}, pc # "answer"
      PROVE  Good
    BY <1>1, <1>3, <1>5, Moves, Idles DEF Sorts
<1>6. CASE BeginAsk(r)
  <2>1. ask'[r].pc \in {"retrieve", "check"}
      BY <1>1, <1>6, Begins DEF Sorts
  <2>2. QED
      BY <1>4, <1>6, <2>1 DEF BeginAsk
<1>7. CASE Check(r)
  <2>1. PICK pc \in {"lookup", "retrieve"} : To(r, pc)
      BY <1>7 DEF Check
  <2>2. QED
      BY <1>4, <1>5, <1>7, <2>1 DEF Check, AskPcs
<1>8. CASE Lookup(r)
  <2>1. CASE To(r, "retrieve")
      BY <1>4, <1>5, <1>8, <2>1 DEF Lookup, AskPcs
  <2>2. CASE \E e \in cache : ask' = [ask EXCEPT ![r].pc = "confirm", ![r].entry = e]
    <3>1. ask'[r].pc = "confirm"
        BY <1>1, <2>2, Hits DEF Sorts
    <3>2. QED
        BY <1>4, <1>8, <3>1 DEF Lookup
  <2>3. QED
      BY <1>8, <2>1, <2>2 DEF Lookup
<1>9. CASE Confirm(r)
  <2>1. PICK pc \in {"done", "retrieve"} : To(r, pc)
      BY <1>9 DEF Confirm
  <2>2. QED
      BY <1>4, <1>5, <1>9, <2>1 DEF Confirm, AskPcs
<1>10. ASSUME Read(r, seed[ask[r].chunk])
       PROVE  Good
  <2>1. seed[ask[r].chunk] \in MaybeText
      BY <1>1, Constants
  <2>2. ask'[r].pc = "answer" /\ ask'[r].text = seed[ask[r].chunk] /\ ask'[r].chunk = ask[r].chunk
      BY <1>1, <1>10, <2>1, Reads DEF Sorts
  <2>3. QED
      BY <2>2
<1>11. CASE Retrieve(r)
  <2>1. CASE Read(r, index[ask[r].chunk])
      BY <1>3, <1>4, <1>10, <1>11, <2>1 DEF Retrieve
  <2>2. CASE /\ keyword[ProcessOf[r]] # NoSnapshot
             /\ Read(r, keyword[ProcessOf[r]][ask[r].chunk])
    <3>1. keyword[ProcessOf[r]] = seed
        BY <1>1, <1>3, <2>2
    <3>2. QED
        BY <1>4, <1>10, <1>11, <2>2, <3>1 DEF Retrieve
  <2>3. CASE ask' = [ask EXCEPT ![r].pc = "store", ![r].pages = index]
    <3>1. ask'[r].pc = "store" /\ ask'[r].pages = seed
        BY <1>1, <1>3, <2>3, Scrolls DEF Sorts
    <3>2. QED
        BY <1>4, <1>11, <3>1 DEF Retrieve
  <2>4. QED
      BY <1>11, <2>1, <2>2, <2>3 DEF Retrieve
<1>12. CASE StoreSnapshot(r)
  <2>1. ask[r].pages = seed /\ Read(r, seed[ask[r].chunk])
      BY <1>3, <1>12 DEF StoreSnapshot
  <2>2. keyword' = [keyword EXCEPT ![ProcessOf[r]] = seed] /\ cache' = cache
      BY <1>12, <2>1 DEF StoreSnapshot
  <2>3. \A p \in Processes : keyword'[p] \in {NoSnapshot, seed}
      BY <1>1, <1>3, <2>2
  <2>4. Good
      BY <1>10, <2>1
  <2>5. QED
      BY <1>2, <1>3, <2>2, <2>3, <2>4 DEF Fresh, Stale, Others
<1>13. CASE Answer(r)
  <2>1. PICK pc \in {"done", "save"} : To(r, pc)
      BY <1>13 DEF Answer
  <2>2. QED
      BY <1>4, <1>5, <1>13, <2>1 DEF Answer, AskPcs
<1>14. CASE SaveCheck(r)
  <2>1. PICK pc \in {"upsert", "done"} : To(r, pc)
      BY <1>14 DEF SaveCheck
  <2>2. QED
      BY <1>4, <1>5, <1>14, <2>1 DEF SaveCheck, AskPcs
<1>15. CASE SaveUpsert(r)
  <2>1. Good
      BY <1>5, <1>15 DEF SaveUpsert, AskPcs
  <2>2. Point(r).text = seed[Point(r).chunk]
      BY <1>1, <1>3, <1>15, Saves DEF SaveUpsert
  <2>3. cache' = {e \in cache : ~Matches(e, r)} \cup {Point(r)} /\ keyword' = keyword
      BY <1>1, <1>15, Saves DEF SaveUpsert
  <2> HIDE DEF Good, Point
  <2>4. \A e \in cache' : e.text = seed[e.chunk] \/ e \in cache
      BY <2>2, <2>3
  <2>5. QED
      BY <1>2, <1>3, <2>1, <2>3, <2>4 DEF Fresh, Stale, Others, Good
<1>16. QED
    BY <1>6, <1>7, <1>8, <1>9, <1>11, <1>12, <1>13, <1>14, <1>15 DEF Step

LEMMA FreshStep ==
    ASSUME Assumptions, Ties, Ties', Onward, Indexed, Indexed', Quiet, Fresh, [Next]_vars
    PROVE  Fresh'
<1> USE DEF askVars, toolVars, historyVars
<1> SUFFICES ASSUME Released'
             PROVE  Fresh'
    BY DEF Fresh
<1>1. /\ Sorts /\ index \in SeedSet /\ index' \in SeedSet /\ seed' \in SeedSet
      /\ keyword \in [Processes -> Snapshots] /\ NoSnapshot \in Snapshots
    BY Constants DEF Ties, Sorts, Typed
<1>2. ASSUME run' = run
      PROVE  Released /\ seed' = seed
    BY <1>1, <1>2 DEF Released, Indexed, Onward
<1>3. Released =>
        /\ index = seed
        /\ \A p \in Processes : keyword[p] \in {NoSnapshot, seed}
        /\ \A q \in Asks :
             /\ ask[q].pc = "store" => ask[q].pages = seed
             /\ ask[q].pc \in {"answer", "save", "upsert"} => ask[q].text = seed[ask[q].chunk]
        /\ \A e \in cache : ~Stale(e)
    BY DEF Fresh
<1>4. ASSUME run' = run, index' = index, cache' \in SUBSET cache,
             \A r \in Asks : ask'[r] = ask[r] \/ ask'[r] = Done,
             \A p \in Processes : keyword'[p] \in {keyword[p], NoSnapshot}
      PROVE  Fresh'
    BY <1>2, <1>3, <1>4, Idles DEF Fresh, Stale
<1>5. CASE \E r \in Asks : BeginAsk(r) \/ Step(r)
  <2>1. run' = run
      BY <1>5 DEF BeginAsk, Step, Check, Lookup, Confirm, Retrieve, StoreSnapshot, Answer,
                  SaveCheck, SaveUpsert
  <2>2. QED
      BY <1>2, <1>5, <2>1, FreshCall
<1>6. CASE Expire
    BY <1>4, <1>6 DEF Expire
<1>7. CASE \E p \in Processes : Restart(p)
  <2>1. PICK p \in Processes : Restart(p)
      BY <1>7
  <2>2. UNCHANGED <<index, cache, run>>
      BY <2>1 DEF Restart
  <2>3. QED
      BY <1>1, <1>4, <2>1, <2>2, Restarts
<1>8. CASE Admin
  <2>1. run' = run /\ ask' = ask /\ cache' \in SUBSET cache
      BY <1>1, <1>8, AdminTypes
  <2>2. \A c \in Chunks : index'[c] = index[c]
      BY <1>2, <1>3, <1>8, <2>1, AdminFollows DEF Follows
  <2>3. index' = index
      BY <1>1, <2>2 DEF SeedSet
  <2>4. keyword' = keyword \/ \E p : keyword' = [keyword EXCEPT ![p] = NoSnapshot]
      BY <1>8 DEF Admin, Edit, ApplySeed, ReindexChunk, UpsertChunk, InvalidateForum, InvalidateKeyword
  <2>5. \A p \in Processes : keyword'[p] \in {keyword[p], NoSnapshot}
      BY <1>1, <2>4
  <2>6. QED
      BY <1>4, <2>1, <2>3, <2>5
<1>9. CASE IndexKB
  <2>0. run \in RunSet /\ run'.pc = "done"
      BY <1>1 DEF Sorts, Typed, Released
  <2>1. CompleteIndex /\ run' = [run EXCEPT !.pc = "done"]
    <3>1. ~(\E todo \in SUBSET Chunks, prune \in BOOLEAN : BeginIndex(todo, prune))
        BY <2>0 DEF BeginIndex
    <3>2. ~(\E batch \in SUBSET Chunks : UpsertBatch(batch))
        BY <2>0 DEF UpsertBatch, RunSet
    <3>3. ~CollectStale /\ ~DeleteStale /\ ~CollectCached /\ ~ClearCached
        BY <2>0 DEF CollectStale, DeleteStale, CollectCached, ClearCached, RunSet
    <3>4. ~FailIndex
        BY <2>0 DEF FailIndex, IdleRun
    <3>5. CompleteIndex
        BY <1>9, <3>1, <3>2, <3>3, <3>4 DEF IndexKB
    <3>6. QED
        BY <2>0, <3>5 DEF CompleteIndex, IdleRun
  <2>2. /\ run.pc = "verify" /\ Running /\ Offline /\ run.full /\ run.prune /\ Published(seed) # {}
        /\ run'.pc = "done" /\ UNCHANGED <<seed, index, keyword, cache, ask>>
      BY <2>0, <2>1 DEF CompleteIndex, Running, RunPc, Released, RunSet, Published
  <2>3. index = seed
      BY <1>9, <2>2, CompletedExact DEF CompletesExact
  <2>4. cache = {} /\ (\A r \in Asks : ~Answering(r)) /\ \A p \in Processes : keyword[p] = NoSnapshot
      BY <2>2 DEF Quiet
  <2>5. QED
      BY <2>2, <2>3, <2>4 DEF Fresh, Answering
<1>10. CASE BeginStatus \/ Conclude \/ (\E c \in Chunks : ScanPage(c))
    BY <1>1, <1>4, <1>10, StatusTypes
<1>11. CASE UNCHANGED vars
    BY <1>4, <1>11 DEF vars
<1>12. QED
    BY <1>5, <1>6, <1>7, <1>8, <1>9, <1>10, <1>11 DEF Next

-----------------------------------------------------------------------------
(* Theorems.                                                               *)

\* Answers go with their revision; the index and the status with the seed; a release empties
\* what was cached before it.
Safe == Ties /\ Indexed /\ Looked /\ Quiet /\ Fresh

LEMMA SafeInit ==
    ASSUME Assumptions, Init
    PROVE  Safe
<1>1. Ties
    BY TiesInit
<1>2. run.pc = "idle" /\ status.pc = "idle"
    BY Idles DEF Init
<1>3. Indexed /\ Looked /\ Quiet /\ Fresh
    BY <1>2 DEF Indexed, Looked, Quiet, Fresh, Released, Running, RunPc
<1>4. QED
    BY <1>1, <1>2, <1>3 DEF Safe

LEMMA SafeStep ==
    ASSUME Assumptions, ~Reverts, Safe, [Next]_vars
    PROVE  Safe'
<1>1. Ties /\ Indexed /\ Looked /\ Quiet /\ Fresh
    BY DEF Safe
<1>2. Ties' /\ Onward
    BY <1>1, TiesStep DEF Ties
<1>3. Indexed'
    BY <1>1, <1>2, IndexedStep
<1>4. Looked'
    BY <1>1, <1>2, LookedStep
<1>5. Quiet'
    BY <1>1, QuietStep
<1>6. Fresh'
    BY <1>1, <1>2, <1>3, FreshStep
<1>7. QED
    BY <1>2, <1>3, <1>4, <1>5, <1>6 DEF Safe

\* An answer is filed and served under the revision its evidence was read at, and a release
\* with the processes down leaves none of an older text, for any number of calls, processes
\* and edits, if no chunk gets back a text it had before (cache.py, check and save;
\* index_kb.py, clear_response_cache).
THEOREM AnswersStayCurrent ==
    ASSUME Assumptions, ~Reverts
    PROVE  Spec => AnswersAreCurrent
<1>1. Init => Safe
    BY SafeInit
<1>2. Safe /\ [Next]_vars => Safe'
    BY SafeStep
<1>3. Safe => RevisionBinding /\ (Offline => ReleaseIsFresh)
  <2>1. Safe => RevisionBinding
      BY DEF Safe, Ties, CacheBound, RevisionBinding
  <2>2. Safe => (Offline => ReleaseIsFresh)
      BY DEF Safe, Fresh, Released, ReleaseIsFresh
  <2>3. QED
      BY <2>1, <2>2
<1>4. Safe /\ [Next]_vars => ConfirmsRevision
    BY HitsConfirmed DEF Safe, Ties
<1>5. QED
    BY <1>1, <1>2, <1>3, <1>4, PTL DEF Spec, AnswersAreCurrent

\* A full run with --prune-stale completes, and the status says GO, only with an index that is
\* the published seed, beside any edits, if no chunk gets back a text it had before
\* (index_kb.py, verify_seed_revision; runtime_status.py, build_runtime_kb_status).
THEOREM IndexToldRight ==
    ASSUME Assumptions, ~Reverts
    PROVE  Spec => IndexIsTold
<1>1. Init => Safe
    BY SafeInit
<1>2. Safe /\ [Next]_vars => Safe'
    BY SafeStep
<1>3. Safe /\ [Next]_vars => CompletesExact /\ GoesExact
    BY CompletedExact, WentExact DEF Safe
<1>4. QED
    BY <1>1, <1>2, <1>3, PTL DEF Spec, IndexIsTold

-----------------------------------------------------------------------------
(* The chunk editor of the admin page (AdminPage).                         *)

CONSTANTS PageChunks, None, Impatient, LoadsFail, MaxTyped, MaxRequests
VARIABLES
  selected, title, box, original, dirty, locked, requests, mutation, texts, stored, latest, typed,
  sent

Page == INSTANCE AdminPage WITH Chunks <- PageChunks, text <- box, seed <- texts

\* The answers of a change, and where the server still works on one.
Working == {"running", "orphan"}
Changes == {"save", "reindex"}

\* The server works on the change that holds the lock.  The number of a request is its own;
\* only what the page makes of one that it gave up has a number beyond.
Served ==
    /\ sent \in 0..MaxRequests
    /\ \A r \in requests :
         /\ r.at \in Working => r.kind \in Changes /\ mutation = r.id /\ r.id < MaxRequests
         /\ r.id < MaxRequests => r.id < sent
         /\ r.id >= MaxRequests => r.at = "failed"
         /\ r.kind = "load" => r.at \in {"sent", "ok"}
    /\ \A r, s \in requests : r.id = s.id /\ r.id < MaxRequests => r = s

\* Until a chunk is shown, chunks are only loaded; and from then on there is a text.
Opened ==
    /\ typed \in 0..MaxTyped
    /\ \A r \in requests : r.kind # "load" \/ r.at = "ok" => r.text # None
    /\ title = None => locked /\ \A r \in requests : r.kind = "load"
    /\ title # None => box # None

\* A user who waits has one request under way.
OneDue == \A r, s \in Page!Due : r = s

\* No save that may still be stored was sent before one that is.
Ordered ==
    /\ \A c \in PageChunks : latest[c] <= sent
    /\ \A r \in requests, c \in PageChunks :
         r.at \in {"sent", "running", "orphan"} => latest[c] <= r.id
    /\ \A r, s \in requests : r.at = "orphan" /\ s.at = "sent" => r.id < s.id

\* When nobody waits, what is shown is what was clicked.
Shown ==
    /\ title # None => box.of = title /\ (~dirty => box \in stored[title])
    /\ \A r \in Page!Due : r.kind = "load" => selected = r.chunk
    /\ \A r \in Page!Due : r.kind # "load" => title = r.chunk /\ box = r.text
    /\ (\A r \in Page!Due : r.kind # "load") => selected = title

\* The texts that requests carry.
Carried ==
    \A r \in requests :
      /\ r.kind = "load" /\ r.at = "ok" => r.text \in stored[r.chunk]
      /\ r.kind # "load" => r.text.of = r.chunk
      /\ r.kind = "save" /\ r.at \in {"ok", "listing"} => r.text \in stored[r.chunk]

KeptAsShown == Shown /\ Carried /\ Page!SavedAsShown

Edited ==
    /\ Page!TypeOK /\ Served /\ Opened
    /\ \A c \in PageChunks : texts[c] \in stored[c]
    /\ ~Impatient => OneDue /\ Ordered
    /\ ~Impatient /\ ~LoadsFail => KeptAsShown

-----------------------------------------------------------------------------

Ats == {"sent", "running", "orphan", "ok", "failed", "listing"}

\* A request that moves is what it was, elsewhere.
LEMMA RequestMoves ==
    ASSUME Page!TypeOK, NEW r \in requests, NEW at \in Ats, Page!Move(r, at)
    PROVE  \E q \in Page!Request :
             /\ q.id = r.id /\ q.kind = r.kind /\ q.chunk = r.chunk /\ q.text = r.text
             /\ q.at = at
             /\ requests' = (requests \ {r}) \cup {q}
  <1>1. r \in Page!Request
    BY DEF Page!TypeOK
  <1>2. [r EXCEPT !.at = at] \in Page!Request
    BY <1>1 DEF Page!Request, Ats
  <1> QED BY <1>1, <1>2 DEF Page!Move, Page!Request

\* A request that is sent.
LEMMA Sends ==
    ASSUME Page!Assumptions, Page!TypeOK, Served,
           NEW kind \in {"load", "save", "reindex"}, NEW c \in PageChunks,
           NEW t \in Page!Text \cup {None}, Page!Send(kind, c, t)
    PROVE  /\ sent < MaxRequests /\ sent' = sent + 1 /\ sent' \in 0..MaxRequests
           /\ \E q \in Page!Request :
               /\ q.id = sent /\ q.kind = kind /\ q.chunk = c /\ q.text = t
               /\ q.at = "sent" /\ requests' = requests \cup {q}
  <1> DEFINE q == [id |-> sent, kind |-> kind, chunk |-> c, text |-> t, at |-> "sent"]
  <1>1. sent \in 0..(2 * MaxRequests) /\ sent < MaxRequests /\ sent' = sent + 1
        /\ sent' \in 0..MaxRequests
    BY DEF Page!Send, Served, Page!Assumptions
  <1>2. q \in Page!Request
    BY <1>1 DEF Page!Request
  <1>3. requests' = requests \cup {q}
    BY DEF Page!Send
  <1> QED BY <1>1, <1>2, <1>3

LEMMA RequestTypes ==
    ASSUME Page!Assumptions, Page!TypeOK
    PROVE  \A r \in requests :
             /\ r.id \in Nat /\ r.kind \in {"load", "save", "reindex"} /\ r.chunk \in PageChunks
             /\ r.text \in Page!Text \cup {None} /\ r.at \in Ats
  BY DEF Page!Assumptions, Page!TypeOK, Page!Request, Ats

\* What is sent has a number of its own, the greatest so far, and is all that is due when the
\* page awaited nothing.
LEMMA SentLast ==
    ASSUME Page!Assumptions, Page!TypeOK, Served,
           NEW q \in Page!Request, q.id = sent, q.at = "sent",
           sent < MaxRequests, sent' = sent + 1, requests' = requests \cup {q},
           UNCHANGED <<mutation, latest>>
    PROVE  /\ Served'
           /\ Page!Due = {} => OneDue' /\ (Ordered => Ordered')
  <1>0. MaxRequests \in Nat /\ sent \in Nat /\ sent + 1 \in 0..MaxRequests
    BY DEF Page!Assumptions, Served
  <1>1. \A r \in requests : r.id \in Nat /\ (r.id < MaxRequests => r.id < sent)
    BY RequestTypes DEF Served
  <1>2. sent' \in 0..MaxRequests
    BY <1>0
  <1>3. ASSUME NEW r \in requests'
        PROVE  /\ r.at \in Working => r.kind \in Changes /\ mutation' = r.id /\ r.id < MaxRequests
               /\ r.id < MaxRequests => r.id < sent'
               /\ r.id >= MaxRequests => r.at = "failed"
               /\ r.kind = "load" => r.at \in {"sent", "ok"}
    <2>1. CASE r = q
      BY <2>1, <1>0 DEF Working
    <2>2. CASE r \in requests
      BY <2>2, <1>0, <1>1 DEF Served
    <2> QED BY <2>1, <2>2
  <1>4. \A r, s \in requests' : r.id = s.id /\ r.id < MaxRequests => r = s
    BY <1>0, <1>1 DEF Served
  <1>5. Served'
    BY <1>2, <1>3, <1>4 DEF Served
  <1>6. ASSUME Page!Due = {} PROVE OneDue'
    BY <1>6 DEF Page!Due, OneDue
  <1>7. ASSUME Page!Due = {}, Ordered PROVE Ordered'
    <2>0. \A c \in PageChunks : latest[c] \in Nat /\ latest[c] <= sent
      BY <1>0, <1>7 DEF Ordered, Page!TypeOK
    <2>1. \A c \in PageChunks : latest'[c] <= sent'
      BY <2>0, <1>0
    <2>2. \A r \in requests', c \in PageChunks :
            r.at \in {"sent", "running", "orphan"} => latest'[c] <= r.id
      BY <2>0, <1>7 DEF Ordered
    <2>3. ASSUME NEW r \in requests', NEW s \in requests', r.at = "orphan", s.at = "sent"
          PROVE  r.id < s.id
      <3>1. r \in requests /\ s = q
        BY <2>3, <1>7 DEF Page!Due
      <3>2. r.id < MaxRequests
        BY <2>3, <3>1 DEF Served, Working
      <3> QED BY <3>1, <3>2, <1>1
    <2> QED BY <2>1, <2>2, <2>3 DEF Ordered
  <1> QED BY <1>5, <1>6, <1>7

LEMMA ClickKeeps ==
    ASSUME Page!Assumptions, Edited, NEW c \in PageChunks, Page!Click(c)
    PROVE  Edited'
  <1>0. Page!TypeOK /\ Served /\ Opened /\ None \notin PageChunks
    BY DEF Edited, Page!Assumptions
  <1>1. PICK q \in Page!Request :
          /\ q.id = sent /\ q.kind = "load" /\ q.chunk = c /\ q.text = None
          /\ q.at = "sent" /\ requests' = requests \cup {q}
    BY <1>0, Sends DEF Page!Click
  <1>2. sent < MaxRequests /\ sent' = sent + 1 /\ sent' \in 0..MaxRequests
    BY <1>0, Sends DEF Page!Click
  <1>3. /\ selected' = c /\ UNCHANGED <<title, box, original, dirty, locked, typed>>
        /\ UNCHANGED <<mutation, texts, stored, latest>>
    BY DEF Page!Click, Page!server
  <1>4. Page!TypeOK'
    BY <1>0, <1>1, <1>3 DEF Page!TypeOK, Page!Due
  <1>5. Served'
    BY <1>0, <1>1, <1>2, <1>3, SentLast
  <1>6. ~Impatient => Page!Due = {}
    BY DEF Page!Click, Page!Free
  <1>9. Opened'
    BY <1>0, <1>1, <1>3 DEF Opened
  <1>7. ~Impatient => (OneDue /\ Ordered)'
    BY <1>0, <1>1, <1>2, <1>3, <1>6, SentLast DEF Edited
  <1>8. ~Impatient /\ ~LoadsFail => KeptAsShown'
    BY <1>0, <1>1, <1>3, <1>6 DEF Edited, KeptAsShown, Shown, Carried, Page!SavedAsShown,
       Page!Due
  <1> QED BY <1>3, <1>4, <1>5, <1>7, <1>8, <1>9 DEF Edited

LEMMA ServeLoadKeeps ==
    ASSUME Page!Assumptions, Edited, NEW r \in requests, Page!ServeLoad(r)
    PROVE  Edited'
  <1>0. Page!TypeOK /\ Served /\ Opened /\ r \in Page!Request
    BY DEF Edited, Page!TypeOK
  <1>1. PICK q \in Page!Request :
          /\ q.id = r.id /\ q.kind = r.kind /\ q.chunk = r.chunk
          /\ q.text = texts[r.chunk] /\ q.at = "ok"
          /\ requests' = (requests \ {r}) \cup {q}
    <2>1. texts[r.chunk] \in Page!Text
      BY <1>0 DEF Page!TypeOK, Page!Request
    <2>2. [r EXCEPT !.at = "ok", !.text = texts[r.chunk]] \in Page!Request
      BY <1>0, <2>1 DEF Page!Request
    <2> QED BY <1>0, <2>2 DEF Page!ServeLoad, Page!Request
  <1>2. r.kind = "load" /\ r.at = "sent" /\ UNCHANGED <<Page!editor, Page!server, typed, sent>>
    BY DEF Page!ServeLoad
  <1>3. UNCHANGED <<selected, title, box, original, dirty, locked, mutation, texts, stored,
                    latest, typed, sent>>
    BY <1>2 DEF Page!editor, Page!server
  <1>4. Page!TypeOK'
    BY <1>0, <1>1, <1>2, <1>3 DEF Page!TypeOK, Page!Due
  <1>5. Served'
    BY <1>0, <1>1, <1>2, <1>3, RequestTypes DEF Served, Working
  <1>9. Opened'
    BY <1>0, <1>1, <1>2, <1>3 DEF Opened, Page!TypeOK, Page!Assumptions, Page!Request
  <1>7. ~Impatient => (OneDue /\ Ordered)'
    BY <1>0, <1>1, <1>2, <1>3, RequestTypes DEF Edited, OneDue, Ordered, Page!Due
  <1>8. ~Impatient /\ ~LoadsFail => KeptAsShown'
    <2> SUFFICES ASSUME ~Impatient, ~LoadsFail PROVE KeptAsShown'
      OBVIOUS
    <2>1. KeptAsShown /\ OneDue /\ texts[r.chunk] \in stored[r.chunk]
      BY <1>0 DEF Edited, Page!Request
    <2>2. Page!Due = {r} /\ Page!Due' = {q}
      BY <2>1, <1>1, <1>2 DEF OneDue, Page!Due
    <2>3. Shown'
      BY <1>1, <1>2, <1>3, <2>1, <2>2 DEF KeptAsShown, Shown
    <2>4. Carried'
      BY <1>1, <1>2, <1>3, <2>1 DEF KeptAsShown, Carried
    <2> QED BY <1>3, <2>1, <2>3, <2>4 DEF KeptAsShown, Page!SavedAsShown
  <1> QED BY <1>3, <1>4, <1>5, <1>7, <1>8, <1>9 DEF Edited

LEMMA LoadedKeeps ==
    ASSUME Page!Assumptions, Edited, NEW r \in requests, Page!Loaded(r)
    PROVE  Edited'
  <1>0. Page!TypeOK /\ Served /\ Opened /\ r \in Page!Request
    BY DEF Edited, Page!TypeOK
  <1>1. requests' = requests \ {r}
    BY DEF Page!Loaded, Page!Gone
  <1>2. r.kind = "load" /\ r.at = "ok"
    BY DEF Page!Loaded
  <1>3. /\ title' = r.chunk /\ box' = r.text /\ original' = r.text /\ dirty' = FALSE
        /\ locked' = FALSE
        /\ UNCHANGED <<selected, mutation, texts, stored, latest, typed, sent>>
    BY DEF Page!Loaded, Page!server
  <1>4. Page!TypeOK'
    BY <1>0, <1>1, <1>2, <1>3 DEF Page!TypeOK, Page!Request
  <1>5. Served'
    BY <1>0, <1>1, <1>3 DEF Served
  <1>9. Opened'
    BY <1>0, <1>1, <1>2, <1>3 DEF Opened, Page!Assumptions, Page!Request, Page!TypeOK
  <1>7. ~Impatient => (OneDue /\ Ordered)'
    BY <1>0, <1>1, <1>3 DEF Edited, OneDue, Ordered, Page!Due
  <1>8. ~Impatient /\ ~LoadsFail => KeptAsShown'
    <2> SUFFICES ASSUME ~Impatient, ~LoadsFail PROVE KeptAsShown'
      OBVIOUS
    <2>1. r.text \in stored[r.chunk] /\ r.chunk \in PageChunks /\ r.text \in Page!Text
      BY <1>0, <1>2 DEF Edited, KeptAsShown, Carried, Page!TypeOK, Page!Request
    <2>2. r.text # None /\ r.text.of = r.chunk /\ r.chunk # None
      BY <2>1 DEF Edited, KeptAsShown, Page!SavedAsShown, Page!Assumptions
    <2>3. Page!Due' = {} /\ selected = r.chunk
      BY <1>1, <1>2 DEF Edited, KeptAsShown, Shown, OneDue, Page!Due
    <2> QED BY <1>0, <1>1, <1>2, <1>3, <2>1, <2>2, <2>3 DEF Edited, KeptAsShown, Shown,
            Carried, Page!SavedAsShown
  <1> QED BY <1>3, <1>4, <1>5, <1>7, <1>8, <1>9 DEF Edited

LEMMA LoadFailedKeeps ==
    ASSUME Page!Assumptions, Edited, NEW r \in requests, Page!LoadFailed(r)
    PROVE  Edited'
  <1>0. Page!TypeOK /\ Served /\ Opened /\ r \in Page!Request
    BY DEF Edited, Page!TypeOK
  <1>1. requests' = requests \ {r} /\ r.kind = "load" /\ LoadsFail
    BY DEF Page!LoadFailed, Page!Gone
  <1>3. UNCHANGED <<selected, title, box, original, dirty, locked, mutation, texts, stored,
                    latest, typed, sent>>
    BY DEF Page!LoadFailed, Page!editor, Page!server
  <1>4. Page!TypeOK'
    BY <1>0, <1>1, <1>3 DEF Page!TypeOK, Page!Due
  <1>5. Served'
    BY <1>0, <1>1, <1>3 DEF Served
  <1>9. Opened'
    BY <1>0, <1>1, <1>3 DEF Opened
  <1>7. ~Impatient => (OneDue /\ Ordered)'
    BY <1>0, <1>1, <1>3 DEF Edited, OneDue, Ordered, Page!Due
  <1> QED BY <1>1, <1>3, <1>4, <1>5, <1>7, <1>9 DEF Edited

LEMMA TypeKeeps ==
    ASSUME Page!Assumptions, Edited, Page!Type
    PROVE  Edited'
  <1>0. Page!TypeOK /\ Served /\ Opened
    BY DEF Edited
  <1>1. /\ box' = [box EXCEPT !.n = typed + 1] /\ dirty' = TRUE /\ ~locked /\ typed' = typed + 1
        /\ typed < MaxTyped
        /\ UNCHANGED <<selected, title, original, locked, requests, sent, mutation, texts,
                       stored, latest>>
    BY DEF Page!Type, Page!server
  <1>2. box \in Page!Text /\ typed + 1 \in 0..MaxTyped /\ title # None
    BY <1>0, <1>1 DEF Opened, Page!TypeOK, Page!Assumptions
  <1>3. box' \in Page!Text /\ box'.of = box.of
    BY <1>1, <1>2 DEF Page!Text
  <1>4. Page!TypeOK' /\ Opened'
    BY <1>0, <1>1, <1>2, <1>3 DEF Page!TypeOK, Opened, Page!Due, Page!Assumptions
  <1>5. Served' /\ (~Impatient => (OneDue /\ Ordered)')
    BY <1>0, <1>1 DEF Edited, Served, OneDue, Ordered, Page!Due
  <1>6. ~Impatient /\ ~LoadsFail => KeptAsShown'
    BY <1>1, <1>3 DEF Edited, KeptAsShown, Shown, Carried, Page!SavedAsShown, Page!Due,
       Page!Type, Page!Free
  <1> QED BY <1>1, <1>4, <1>5, <1>6 DEF Edited

LEMMA SubmitKeeps ==
    ASSUME Page!Assumptions, Edited, NEW kind \in Changes, Page!Submit(kind)
    PROVE  Edited'
  <1>0. Page!TypeOK /\ Served /\ Opened /\ kind \in {"save", "reindex"} /\ None \notin PageChunks
    BY DEF Edited, Changes, Page!Assumptions
  <1>a. /\ ~locked /\ selected # None /\ locked' = TRUE /\ Page!Send(kind, selected, box)
        /\ UNCHANGED <<selected, title, box, original, dirty, typed, mutation, texts, stored,
                       latest>>
    BY DEF Page!Submit, Page!server
  <1>b. selected \in PageChunks /\ box \in Page!Text /\ title # None
    BY <1>0, <1>a DEF Page!TypeOK, Opened
  <1>1. PICK q \in Page!Request :
          /\ q.id = sent /\ q.kind = kind /\ q.chunk = selected /\ q.text = box
          /\ q.at = "sent" /\ requests' = requests \cup {q}
    BY <1>0, <1>a, <1>b, Sends
  <1>2. sent < MaxRequests /\ sent' = sent + 1 /\ sent' \in 0..MaxRequests
    BY <1>0, <1>a, <1>b, Sends
  <1>4. Page!TypeOK'
    BY <1>0, <1>1, <1>a DEF Page!TypeOK, Page!Due
  <1>5. Served'
    BY <1>0, <1>1, <1>2, <1>a, SentLast
  <1>6. ~Impatient => Page!Due = {}
    BY DEF Page!Submit, Page!Free
  <1>9. Opened'
    BY <1>0, <1>1, <1>a, <1>b DEF Opened
  <1>7. ~Impatient => (OneDue /\ Ordered)'
    BY <1>0, <1>1, <1>2, <1>a, <1>6, SentLast DEF Edited
  <1>8. ~Impatient /\ ~LoadsFail => KeptAsShown'
    <2> SUFFICES ASSUME ~Impatient, ~LoadsFail PROVE KeptAsShown'
      OBVIOUS
    <2>1. Page!Due = {} /\ KeptAsShown
      BY <1>6 DEF Edited
    <2>2. selected = title /\ box.of = title
      BY <2>1, <1>b DEF KeptAsShown, Shown
    <2>3. Page!Due' = {q}
      BY <2>1, <1>1 DEF Page!Due
    <2>4. Shown'
      BY <1>0, <1>1, <1>a, <2>1, <2>2, <2>3 DEF KeptAsShown, Shown
    <2>5. Carried'
      BY <1>0, <1>1, <1>a, <1>b, <2>1, <2>2 DEF KeptAsShown, Carried, Page!Assumptions
    <2> QED BY <1>a, <2>1, <2>4, <2>5 DEF KeptAsShown, Page!SavedAsShown
  <1> QED BY <1>a, <1>4, <1>5, <1>7, <1>8, <1>9 DEF Edited

LEMMA ServeMutationKeeps ==
    ASSUME Page!Assumptions, Edited, NEW r \in requests, Page!ServeMutation(r)
    PROVE  Edited'
  <1>0. Page!TypeOK /\ Served /\ Opened /\ r \in Page!Request
    BY DEF Edited, Page!TypeOK
  <1>a. \/ mutation = None /\ mutation' = r.id /\ Page!Move(r, "running")
        \/ mutation # None /\ mutation' = mutation /\ Page!Move(r, "failed")
    BY DEF Page!ServeMutation
  <1>1. PICK q \in Page!Request :
          /\ q.id = r.id /\ q.kind = r.kind /\ q.chunk = r.chunk
          /\ q.text = r.text /\ q.at \in {"running", "failed"}
          /\ q.at = "running" => mutation = None /\ mutation' = r.id
          /\ q.at = "failed" => mutation' = mutation
          /\ requests' = (requests \ {r}) \cup {q}
    BY <1>0, <1>a, RequestMoves DEF Ats
  <1>2. r.kind \in Changes /\ r.at = "sent" /\ r.id < MaxRequests /\ r.id < sent
    BY <1>0, RequestTypes DEF Page!ServeMutation, Changes, Served, Page!Assumptions
  <1>3. UNCHANGED <<selected, title, box, original, dirty, locked, texts, stored, latest, typed,
                    sent>>
    BY DEF Page!ServeMutation, Page!editor
  <1>4. Page!TypeOK'
    <2>1. r.id \in 0..MaxRequests
      BY <1>0, <1>2, RequestTypes DEF Page!Assumptions
    <2> QED BY <1>0, <1>1, <1>2, <1>3, <2>1 DEF Page!TypeOK, Page!Due, Changes
  <1>5. Served'
    BY <1>0, <1>1, <1>2, <1>3, RequestTypes DEF Served, Working, Changes, Page!Assumptions
  <1>9. Opened'
    BY <1>0, <1>1, <1>2, <1>3 DEF Opened, Changes
  <1>7. ~Impatient => (OneDue /\ Ordered)'
    BY <1>0, <1>1, <1>2, <1>3, RequestTypes DEF Edited, OneDue, Ordered, Page!Due
  <1>8. ~Impatient /\ ~LoadsFail => KeptAsShown'
    BY <1>0, <1>1, <1>2, <1>3 DEF Edited, KeptAsShown, Shown, Carried, Page!SavedAsShown,
       Page!Due, OneDue, Changes
  <1> QED BY <1>3, <1>4, <1>5, <1>7, <1>8, <1>9 DEF Edited

LEMMA GiveUpKeeps ==
    ASSUME Page!Assumptions, Edited, NEW r \in requests, Page!GiveUp(r)
    PROVE  Edited'
  <1>0. Page!TypeOK /\ Served /\ Opened /\ r \in Page!Request
    BY DEF Edited, Page!TypeOK
  <1>2. r.at = "running" /\ r.kind \in Changes /\ mutation = r.id /\ r.id < MaxRequests
        /\ r.id < sent
    BY <1>0 DEF Page!GiveUp, Served, Working
  <1>a. r.id \in Nat /\ MaxRequests \in Nat /\ MaxRequests + r.id \in 0..(2 * MaxRequests)
    BY <1>0, <1>2, RequestTypes DEF Page!Assumptions
  <1>1. PICK q \in Page!Request, f \in Page!Request :
          /\ q.id = r.id /\ q.at = "orphan" /\ f.id = MaxRequests + r.id /\ f.at = "failed"
          /\ q.kind = r.kind /\ q.chunk = r.chunk /\ q.text = r.text
          /\ f.kind = r.kind /\ f.chunk = r.chunk /\ f.text = r.text
          /\ requests' = (requests \ {r}) \cup {q, f}
    <2>1. /\ [r EXCEPT !.at = "orphan"] \in Page!Request
          /\ [r EXCEPT !.at = "failed", !.id = MaxRequests + r.id] \in Page!Request
      BY <1>0, <1>a DEF Page!Request
    <2> QED BY <1>0, <2>1 DEF Page!GiveUp, Page!Request
  <1>3. UNCHANGED <<selected, title, box, original, dirty, locked, mutation, texts, stored,
                    latest, typed, sent>>
    BY DEF Page!GiveUp, Page!editor, Page!server
  <1>4. Page!TypeOK'
    BY <1>0, <1>1, <1>2, <1>3 DEF Page!TypeOK, Page!Due, Changes
  <1>5. Served'
    BY <1>0, <1>1, <1>2, <1>3, <1>a, RequestTypes DEF Served, Working, Changes
  <1>9. Opened'
    BY <1>0, <1>1, <1>2, <1>3 DEF Opened, Changes
  <1>7. ~Impatient => (OneDue /\ Ordered)'
    BY <1>0, <1>1, <1>2, <1>3, <1>a, RequestTypes DEF Edited, OneDue, Ordered, Page!Due
  <1>8. ~Impatient /\ ~LoadsFail => KeptAsShown'
    BY <1>0, <1>1, <1>2, <1>3 DEF Edited, KeptAsShown, Shown, Carried, Page!SavedAsShown,
       Page!Due, OneDue, Changes
  <1> QED BY <1>3, <1>4, <1>5, <1>7, <1>8, <1>9 DEF Edited

LEMMA SavedKeeps ==
    ASSUME Page!Assumptions, Edited, NEW r \in requests, Page!Saved(r)
    PROVE  Edited'
  <1>0. Page!TypeOK /\ Served /\ Opened /\ r \in Page!Request
    BY DEF Edited, Page!TypeOK
  <1>1. PICK q \in Page!Request :
          /\ q.id = r.id /\ q.kind = r.kind /\ q.chunk = r.chunk
          /\ q.text = r.text /\ q.at = "listing"
          /\ requests' = (requests \ {r}) \cup {q}
    BY <1>0, RequestMoves DEF Page!Saved, Ats
  <1>2. r.kind = "save" /\ r.at = "ok"
    BY DEF Page!Saved
  <1>3. /\ original' = box /\ dirty' = FALSE
        /\ UNCHANGED <<selected, title, box, locked, mutation, texts, stored, latest, typed,
                       sent>>
    BY DEF Page!Saved, Page!server
  <1>4. Page!TypeOK'
    BY <1>0, <1>1, <1>2, <1>3 DEF Page!TypeOK, Page!Due
  <1>5. Served'
    BY <1>0, <1>1, <1>2, <1>3, RequestTypes DEF Served, Working
  <1>9. Opened'
    BY <1>0, <1>1, <1>2, <1>3 DEF Opened
  <1>7. ~Impatient => (OneDue /\ Ordered)'
    BY <1>0, <1>1, <1>2, <1>3, RequestTypes DEF Edited, OneDue, Ordered, Page!Due
  <1>8. ~Impatient /\ ~LoadsFail => KeptAsShown'
    <2>1. ~Impatient /\ ~LoadsFail => box = r.text /\ title = r.chunk /\ box \in stored[title]
      BY <1>2 DEF Edited, KeptAsShown, Shown, Carried, Page!Due
    <2> QED BY <1>0, <1>1, <1>2, <1>3, <2>1 DEF Edited, KeptAsShown, Shown, Carried,
            Page!SavedAsShown, Page!Due, OneDue
  <1> QED BY <1>3, <1>4, <1>5, <1>7, <1>8, <1>9 DEF Edited

LEMMA UnlockKeeps ==
    ASSUME Page!Assumptions, Edited, NEW r \in requests, Page!Unlock(r)
    PROVE  Edited'
  <1>0. Page!TypeOK /\ Served /\ Opened /\ r \in Page!Request
    BY DEF Edited, Page!TypeOK
  <1>1. requests' = requests \ {r} /\ r.at \in {"listing", "failed", "ok"} /\ r.kind # "load"
    BY <1>0 DEF Page!Unlock, Page!Gone, Served
  <1>3. /\ locked' = FALSE
        /\ UNCHANGED <<selected, title, box, original, dirty, mutation, texts, stored, latest,
                       typed, sent>>
    BY DEF Page!Unlock, Page!server
  <1>4. Page!TypeOK'
    BY <1>0, <1>1, <1>3 DEF Page!TypeOK
  <1>5. Served'
    BY <1>0, <1>1, <1>3 DEF Served
  <1>9. Opened'
    BY <1>0, <1>1, <1>3 DEF Opened
  <1>7. ~Impatient => (OneDue /\ Ordered)'
    BY <1>0, <1>1, <1>3 DEF Edited, OneDue, Ordered, Page!Due
  <1>8. ~Impatient /\ ~LoadsFail => KeptAsShown'
    BY <1>0, <1>1, <1>3 DEF Edited, KeptAsShown, Shown, Carried, Page!SavedAsShown, Page!Due,
       OneDue
  <1> QED BY <1>3, <1>4, <1>5, <1>7, <1>8, <1>9 DEF Edited
\* What a change leaves in the chunks: nothing, or its text.
LEMMA PageStores ==
    ASSUME Page!Assumptions, Edited, NEW r \in requests, Page!FinishMutation(r)
    PROVE  /\ texts' \in [PageChunks -> Page!Text] /\ stored' \in [PageChunks -> SUBSET Page!Text]
           /\ latest' \in [PageChunks -> 0..MaxRequests]
           /\ \A c \in PageChunks :
                /\ stored[c] \subseteq stored'[c] /\ texts'[c] \in stored'[c]
                /\ \A t \in stored'[c] :
                     t \in stored[c] \/ (r.kind = "save" /\ c = r.chunk /\ t = r.text)
                /\ latest'[c] = latest[c] \/ (c = r.chunk /\ latest'[c] = r.id)
  <1>0. /\ texts \in [PageChunks -> Page!Text] /\ stored \in [PageChunks -> SUBSET Page!Text]
        /\ latest \in [PageChunks -> 0..MaxRequests]
        /\ \A c \in PageChunks : texts[c] \in stored[c]
    BY DEF Edited, Page!TypeOK
  <1>1. CASE UNCHANGED <<texts, stored, latest>>
    BY <1>0, <1>1
  <1>2. CASE /\ r.kind = "save"
             /\ texts' = [texts EXCEPT ![r.chunk] = r.text]
             /\ stored' = [stored EXCEPT ![r.chunk] = @ \cup {r.text}]
             /\ latest' = [latest EXCEPT ![r.chunk] = r.id]
    <2>1. r.chunk \in PageChunks /\ r.text \in Page!Text
      BY <1>2, RequestTypes DEF Edited, Opened
    <2>2. r.id \in 0..MaxRequests
      <3>1. r.id < MaxRequests
        BY RequestTypes DEF Edited, Served, Working, Page!FinishMutation, Page!Assumptions
      <3> QED BY <3>1, RequestTypes DEF Edited, Page!Assumptions
    <2> QED BY <1>0, <1>2, <2>1, <2>2
  <1> QED BY <1>1, <1>2 DEF Page!FinishMutation

\* Where the change goes: with the page that gave it up, or back to the page.
LEMMA Answers ==
    ASSUME Page!Assumptions, Edited, NEW r \in requests, Page!FinishMutation(r)
    PROVE  \/ r.at = "orphan" /\ requests' = requests \ {r}
           \/ /\ r.at = "running"
              /\ \E q \in Page!Request :
                   /\ q.id = r.id /\ q.kind = r.kind /\ q.chunk = r.chunk /\ q.text = r.text
                   /\ q.at \in {"ok", "failed"}
                   /\ q.kind = "save" /\ q.at = "ok" => r.text \in stored'[r.chunk]
                   /\ requests' = (requests \ {r}) \cup {q}
  <1>0. Page!TypeOK /\ r.chunk \in PageChunks
    BY RequestTypes DEF Edited
  <1>1. CASE r.at = "orphan"
    BY <1>1 DEF Page!FinishMutation, Page!Gone
  <1>2. CASE r.at = "running"
    <2>1. CASE Page!Move(r, "failed")
      BY <1>0, <1>2, <2>1, RequestMoves DEF Ats
    <2>2. CASE Page!Move(r, "ok") /\ r.kind = "reindex"
      BY <1>0, <1>2, <2>2, RequestMoves DEF Ats
    <2>3. CASE Page!Move(r, "ok") /\ stored' = [stored EXCEPT ![r.chunk] = @ \cup {r.text}]
      <3>1. r.text \in stored'[r.chunk]
        BY <1>0, <2>3 DEF Page!TypeOK
      <3> QED BY <1>0, <1>2, <2>3, <3>1, RequestMoves DEF Ats
    <2> QED BY <1>2, <2>1, <2>2, <2>3 DEF Page!FinishMutation
  <1> QED BY <1>1, <1>2 DEF Page!FinishMutation

LEMMA FinishMutationKeeps ==
    ASSUME Page!Assumptions, Edited, NEW r \in requests, Page!FinishMutation(r)
    PROVE  Edited' /\ (~Impatient => Page!StoresInOrder)
  <1>0. Page!TypeOK /\ Served /\ Opened /\ r \in Page!Request /\ None \notin PageChunks
    BY DEF Edited, Page!TypeOK, Page!Assumptions
  <1>1. MaxRequests \in Nat /\ r.id \in Nat
    BY <1>0, RequestTypes DEF Page!Assumptions
  <1>2. r.at \in Working /\ r.kind \in Changes /\ mutation = r.id /\ mutation' = None
        /\ r.id < MaxRequests /\ r.id < sent /\ r.chunk \in PageChunks
    BY <1>0, RequestTypes DEF Page!FinishMutation, Served, Working
  <1>3. UNCHANGED <<selected, title, box, original, dirty, locked, typed, sent>>
    BY DEF Page!FinishMutation, Page!editor
  <1>4. PICK Q \in SUBSET Page!Request :
          /\ requests' = (requests \ {r}) \cup Q
          /\ \A q \in Q :
              /\ q.id = r.id /\ q.kind = r.kind /\ q.chunk = r.chunk /\ q.text = r.text
              /\ q.at \in {"ok", "failed"}
              /\ q.kind = "save" /\ q.at = "ok" => r.text \in stored'[r.chunk]
          /\ \A p, q \in Q : p = q
          /\ r.at = "running" <=> Q # {}
    <2>1. CASE r.at = "orphan" /\ requests' = requests \ {r}
      <3> WITNESS {} \in SUBSET Page!Request
      <3> QED BY <2>1
    <2>2. CASE /\ r.at = "running"
               /\ \E q \in Page!Request :
                    /\ q.id = r.id /\ q.kind = r.kind /\ q.chunk = r.chunk /\ q.text = r.text
                    /\ q.at \in {"ok", "failed"}
                    /\ q.kind = "save" /\ q.at = "ok" => r.text \in stored'[r.chunk]
                    /\ requests' = (requests \ {r}) \cup {q}
      <3>1. PICK q \in Page!Request :
              /\ q.id = r.id /\ q.kind = r.kind /\ q.chunk = r.chunk /\ q.text = r.text
              /\ q.at \in {"ok", "failed"}
              /\ q.kind = "save" /\ q.at = "ok" => r.text \in stored'[r.chunk]
              /\ requests' = (requests \ {r}) \cup {q}
        BY <2>2
      <3> WITNESS {q} \in SUBSET Page!Request
      <3> QED BY <2>2, <3>1
    <2> QED BY <2>1, <2>2, Answers
  <1>5. Page!TypeOK'
    <2>1. locked /\ title # None => \E s \in Page!Due' : s.kind # "load"
      <3> SUFFICES ASSUME locked, title # None PROVE \E s \in Page!Due' : s.kind # "load"
        OBVIOUS
      <3>1. PICK s \in Page!Due : s.kind # "load"
        BY <1>0 DEF Page!TypeOK
      <3>2. CASE s # r
        BY <1>4, <3>1, <3>2 DEF Page!Due
      <3>3. CASE s = r
        <4>1. PICK q \in Q : TRUE
          BY <1>2, <1>4, <3>1, <3>3 DEF Page!Due, Working
        <4>2. q \in Page!Due' /\ q.kind # "load"
          BY <1>4, <3>1, <3>3 DEF Page!Due
        <4> QED BY <4>2
      <3> QED BY <3>2, <3>3
    <2>2. requests' \subseteq Page!Request
      BY <1>0, <1>4 DEF Page!TypeOK
    <2> QED BY <1>0, <1>2, <1>3, <2>1, <2>2, PageStores DEF Page!TypeOK
  <1>6. Served'
    <2>1. \A s \in requests' : s.at \notin Working
      BY <1>0, <1>2, <1>4 DEF Served, Working
    <2> QED BY <1>0, <1>1, <1>2, <1>3, <1>4, <2>1 DEF Served, Changes
  <1>7. Opened'
    BY <1>0, <1>2, <1>3, <1>4 DEF Opened, Changes
  <1>8. \A c \in PageChunks : texts'[c] \in stored'[c]
    BY PageStores
  <1>9. ~Impatient => (OneDue /\ Ordered)' /\ Page!StoresInOrder
    <2> SUFFICES ASSUME ~Impatient PROVE (OneDue /\ Ordered)' /\ Page!StoresInOrder
      OBVIOUS
    <2>1. OneDue /\ Ordered
      BY DEF Edited
    <2>2. OneDue'
      BY <1>4, <2>1 DEF OneDue, Page!Due
    <2>3. \A c \in PageChunks :
        /\ latest[c] \in Nat /\ latest'[c] \in Nat /\ latest[c] <= r.id
        /\ latest'[c] = latest[c] \/ latest'[c] = r.id
      BY <1>0, <1>2, <2>1, PageStores DEF Ordered, Page!TypeOK, Working
    <2>4. sent \in Nat
      BY <1>0 DEF Served
    <2>5. \A c \in PageChunks : latest'[c] <= sent'
      BY <1>1, <1>2, <1>3, <2>1, <2>3, <2>4 DEF Ordered
    <2>6. \A s \in requests' : s.at \in {"sent", "running", "orphan"} =>
                                 s \in requests /\ s.at = "sent" /\ s.id \in Nat
      BY <1>0, <1>2, <1>4, RequestTypes DEF Served, Working
    \* What is still to be served was sent after this change.
    <2>7. \A s \in requests : s.at = "sent" => r.id <= s.id
      <3> SUFFICES ASSUME NEW s \in requests, s.at = "sent" PROVE r.id <= s.id
        OBVIOUS
      <3>1. CASE r.at = "orphan"
        BY <1>1, <2>1, <3>1, RequestTypes, <1>0 DEF Ordered
      <3>2. CASE r.at = "running"
        BY <2>1, <3>2 DEF OneDue, Page!Due
      <3> QED BY <1>2, <3>1, <3>2 DEF Working
    <2>8. \A s \in requests', c \in PageChunks :
            s.at \in {"sent", "running", "orphan"} => latest'[c] <= s.id
      BY <2>1, <2>3, <2>6, <2>7 DEF Ordered
    <2>9. Ordered'
      BY <2>5, <2>6, <2>8 DEF Ordered
    <2>10. Page!StoresInOrder
      BY <1>1, <2>3 DEF Page!StoresInOrder
    <2> QED BY <2>2, <2>9, <2>10
  <1>10. ~Impatient /\ ~LoadsFail => KeptAsShown'
    <2> SUFFICES ASSUME ~Impatient, ~LoadsFail PROVE KeptAsShown'
      OBVIOUS
    <2>1. KeptAsShown /\ OneDue
      BY DEF Edited
    <2>2. r.text.of = r.chunk
      BY <1>2, <2>1 DEF KeptAsShown, Carried, Changes
    <2>3. Page!SavedAsShown'
      BY <2>1, <2>2, PageStores DEF KeptAsShown, Page!SavedAsShown
    <2>4. \A s \in Page!Due' : s \in Page!Due \/ (s \in Q /\ r \in Page!Due)
      BY <1>2, <1>4 DEF Page!Due, Working
    <2>5. \A c \in PageChunks : stored[c] \subseteq stored'[c]
      BY PageStores
    <2>6. (\A s \in Page!Due' : s.kind # "load") => \A s \in Page!Due : s.kind # "load"
      BY <1>2, <1>4 DEF Page!Due, Changes
    <2>7. Shown'
      BY <1>0, <1>2, <1>3, <1>4, <2>1, <2>4, <2>5, <2>6 DEF KeptAsShown, Shown, Page!TypeOK
    <2>8. Carried'
      BY <1>0, <1>2, <1>4, <2>1, <2>2, <2>5, RequestTypes DEF KeptAsShown, Carried, Changes
    <2> QED BY <2>3, <2>7, <2>8 DEF KeptAsShown
  <1> QED BY <1>5, <1>6, <1>7, <1>8, <1>9, <1>10 DEF Edited

LEMMA InitEdited == ASSUME Page!Assumptions, Page!Init PROVE Edited
  <1>0. 0 \in 0..MaxTyped /\ 0 \in 0..MaxRequests
    BY DEF Page!Assumptions
  <1>a. \A c \in PageChunks : [of |-> c, n |-> 0] \in Page!Text
    BY <1>0 DEF Page!Text
  <1>b. texts \in [PageChunks -> Page!Text]
    BY <1>a DEF Page!Init
  <1>c. stored \in [PageChunks -> SUBSET Page!Text]
    BY <1>b DEF Page!Init
  <1>d. latest \in [PageChunks -> 0..MaxRequests]
    BY <1>0 DEF Page!Init
  <1>1. Page!TypeOK
    BY <1>b, <1>c, <1>d DEF Page!Init, Page!TypeOK
  <1>2. Served /\ Opened /\ OneDue
    BY DEF Page!Assumptions, Page!Init, Served, Opened, OneDue, Page!Due
  <1>3. \A c \in PageChunks : texts[c] \in stored[c] /\ latest[c] <= sent
    BY DEF Page!Init
  <1>4. Ordered
    BY <1>3 DEF Page!Init, Ordered
  <1>5. KeptAsShown
    BY DEF Page!Assumptions, Page!Init, KeptAsShown, Shown, Carried, Page!SavedAsShown, Page!Due
  <1> QED BY <1>1, <1>2, <1>3, <1>4, <1>5 DEF Edited

LEMMA StepKeeps ==
    ASSUME Page!Assumptions, Edited, [Page!Next]_(Page!vars)
    PROVE  Edited' /\ (~Impatient => [Page!StoresInOrder]_(Page!vars))
  <1>1. CASE UNCHANGED Page!vars
    BY <1>1 DEF Page!vars, Page!editor, Page!server, Edited, Page!TypeOK, Served, Opened,
       OneDue, Ordered, KeptAsShown, Shown, Carried, Page!SavedAsShown, Page!Due
  <1>2. CASE \E r \in requests : Page!FinishMutation(r)
    BY <1>2, FinishMutationKeeps
  <1>3. CASE Page!Next /\ ~\E r \in requests : Page!FinishMutation(r)
    <2>1. UNCHANGED latest
      BY <1>3 DEF Page!Next, Page!Click, Page!ServeLoad, Page!Loaded, Page!LoadFailed,
         Page!Type, Page!Submit, Page!ServeMutation, Page!GiveUp, Page!Saved, Page!Unlock,
         Page!server
    <2>2. Page!StoresInOrder
      BY <2>1 DEF Page!StoresInOrder
    <2>3. Edited'
      BY <1>3, ClickKeeps, ServeLoadKeeps, LoadedKeeps, LoadFailedKeeps, TypeKeeps, SubmitKeeps,
         ServeMutationKeeps, GiveUpKeeps, SavedKeeps, UnlockKeeps DEF Page!Next, Changes
    <2> QED BY <2>2, <2>3
  <1> QED BY <1>1, <1>2, <1>3

\* One change at a time, and what is shown without unsaved changes was stored.
LEMMA EditedMeans ==
    ASSUME Page!Assumptions, Edited
    PROVE  /\ Page!OneMutation
           /\ ~Impatient /\ ~LoadsFail => Page!SavedAsShown /\ Page!CleanIsStored
  <1>1. Page!OneMutation
    BY DEF Edited, Served, Working, Page!OneMutation
  <1> QED BY <1>1 DEF Edited, KeptAsShown, Shown, Page!CleanIsStored

\* What a user who waits for every answer edits is stored as shown and in order, and nobody
\* gets the server to make two changes at once (saveChunk, loadChunk, the admin mutation lock),
\* for any chunks, any number of requests and of changes of the box.
THEOREM EditsKept == ASSUME Page!Assumptions PROVE Page!Spec => Page!EditsAreKept
  <1>1. Page!Spec => []Edited
    BY InitEdited, StepKeeps, PTL DEF Page!Spec
  <1>2. Page!Spec => []Page!OneMutation
    BY <1>1, EditedMeans, PTL
  <1>3. Page!Spec => [](~Impatient /\ ~LoadsFail => Page!SavedAsShown /\ Page!CleanIsStored)
    BY <1>1, EditedMeans, PTL
  <1>4. Page!Spec => [][~Impatient => Page!StoresInOrder]_(Page!vars)
    <2>1. Edited /\ [Page!Next]_(Page!vars) => [~Impatient => Page!StoresInOrder]_(Page!vars)
      BY StepKeeps
    <2> QED BY <1>1, <2>1, PTL DEF Page!Spec
  <1> QED BY <1>2, <1>3, <1>4 DEF Page!EditsAreKept
\* What the editor shows, what the page awaits and what the server stores have their types
\* (the script of admin/ui.py; main.py, the update of a chunk), for any chunks and bounds.
THEOREM PageTyped == ASSUME Page!Assumptions PROVE Page!Spec => []Page!TypeOK
  <1>1. Page!Spec => []Edited
    BY InitEdited, StepKeeps, PTL DEF Page!Spec
  <1>2. Edited => Page!TypeOK
    BY DEF Edited
  <1> QED BY <1>1, <1>2, PTL

-----------------------------------------------------------------------------
(* The pull of the Yonote documents (YonotePull).                          *)

CONSTANTS
  Documents, New, Selected, PageSize, MaxRetries, Timeout, Duration, Delays, MaxParts, MaxWaits,
  Crossing, MaxMoves
VARIABLES now, listing, pull, request, read, steady, moves

Pull == INSTANCE YonotePull

PullRequests == [attempt : Nat, patience : Nat, until : Nat, parts : Nat, waits : Nat]

\* The end of k waits that were begun at the deadline.
Allowed(k) == Duration + k * Timeout

\* Where the pull is in its time: asked and done before the deadline, asleep at most up to it,
\* and waiting for a part whose first wait was begun before it.
Timed ==
    /\ now \in Nat
    /\ request \in PullRequests
    /\ pull.pc = "idle" => now = 0
    /\ pull.pc \in {"ask", "done"} => now < Duration
    /\ pull.pc = "sleeping" => now <= request.until /\ request.until <= Duration
    /\ pull.pc = "waiting" =>
         /\ now <= request.until /\ request.until < Allowed(request.waits + 1)
         /\ request.patience <= Timeout

\* A document is in one place.
Apart(l) ==
    /\ l \in [Pull!Collections -> Seq(Documents)]
    /\ \A c \in Pull!Collections : Pull!IsInjective(l[c])
    /\ \A c, e \in Pull!Collections : c # e => Pull!Range(l[c]) \cap Pull!Range(l[e]) = {}

\* Steady documents are where they were.
Disjoint ==
    /\ Apart(listing)
    /\ steady \subseteq Pull!Collections \X Documents
    /\ \A c \in Pull!Collections : \A d : <<c, d>> \in steady => d \in Pull!Listed(c)

\* A document that was deleted is not created again.
Dead(d) == d \notin New /\ \A c \in Pull!Collections : d \notin Pull!Listed(c)

\* The last requests were for the first references, before the n-th.
Loads(rd, c, refs, n) ==
    /\ n <= Len(rd) + 1
    /\ \A i \in 1..(n - 1) : rd[Len(rd) + 1 - n + i] = <<c, refs[i]>>

\* Every reference of the listing is one to a document that is there or was deleted.
Seen(c, refs) == \A i \in DOMAIN refs : refs[i] \in Pull!Listed(c) \/ Dead(refs[i])

\* The references hold the steady documents of the collection, or one twice, or one that was
\* deleted before it is asked for.
Holds(c, refs, n) ==
    \/ \E i \in n..Len(refs) : Dead(refs[i])
    \/ \E i, j \in DOMAIN refs : i # j /\ refs[i] = refs[j]
    \/ \A d : <<c, d>> \in steady => \E i \in DOMAIN refs : refs[i] = d

\* What was read holds the steady documents of the first collections, or one twice.
Covered(rd, k) ==
    Pull!IsInjective(rd) =>
      \A j \in 1..k : \A d : <<Selected[j], d>> \in steady =>
        \E i \in DOMAIN rd : rd[i] = <<Selected[j], d>>

\* The references of a collection, as far as the pull has them.
Goings == {"ask", "waiting", "sleeping"}
Going(p) == p.pc \in Goings
Paging(p) == Going(p) /\ p.kind = "page"
Loading(p) == Going(p) /\ p.kind = "info"
Kinds == {"collections", "page", "info"}
Pcs == {"idle", "ask", "waiting", "sleeping", "done", "failed"}
Pulls == [pc : Pcs, kind : Kinds, coll : 1..Len(Selected), offset : Nat,
          refs : Seq(Documents), next : Nat]

\* The next reference of a pull that loads documents is one of those it has.
Fits(p) == /\ Paging(p) => p.next = 1
           /\ Loading(p) => p.next \in 1..Len(p.refs)

\* The pull and what it read have their types; nothing is asked of a collection before the
\* collections are known.
PullTypes ==
    /\ pull \in Pulls /\ Fits(pull)
    /\ read \in Seq(Pull!Collections \X Documents)
    /\ pull.pc = "idle" => pull.kind = "collections" /\ steady = {}
    /\ pull.kind = "collections" =>
         pull.pc # "done" /\ pull.coll = 1 /\ pull.offset = 0 /\ pull.refs = <<>> /\ pull.next = 1

\* What a pull at p has, having read rd.
Gathered(p, rd) ==
    /\ Going(p) => Covered(rd, p.coll - 1)
    /\ Paging(p) => Len(p.refs) = p.offset /\ Seen(Selected[p.coll], p.refs)
    /\ Loading(p) => /\ Loads(rd, Selected[p.coll], p.refs, p.next)
                     /\ Holds(Selected[p.coll], p.refs, p.next)
    /\ p.pc = "done" => Covered(rd, Len(Selected))

\* The invariant: in time always, and complete unless documents cross.
Pulled == PullTypes /\ Timed /\ Disjoint /\ (~Crossing => Gathered(pull, read))

-----------------------------------------------------------------------------

\* A sequence without one of its elements.
LEMMA RemoveOps ==
    ASSUME NEW D, NEW s \in Seq(D), NEW i \in 1..Len(s), Pull!IsInjective(s)
    PROVE  /\ Pull!RemoveAt(s, i) \in Seq(D) /\ Pull!IsInjective(Pull!RemoveAt(s, i))
           /\ \A d : d \in Pull!Range(Pull!RemoveAt(s, i)) <=> d \in Pull!Range(s) /\ d # s[i]
  <1> DEFINE t == Pull!RemoveAt(s, i)
  <1>1. t \in Seq(D) /\ Len(t) = Len(s) - 1
        /\ \A j \in 1..Len(t) : t[j] = IF j < i THEN s[j] ELSE s[j + 1]
    <2> DEFINE u == SubSeq(s, 1, i - 1)
               v == SubSeq(s, i + 1, Len(s))
    <2>0. Len(s) \in Nat /\ \A j \in 1..Len(s) : s[j] \in D
      OBVIOUS
    <2>1. u \in Seq(D) /\ Len(u) = i - 1 /\ \A j \in 1..(i - 1) : u[j] = s[j]
      OBVIOUS
    <2>2. v \in Seq(D) /\ Len(v) = Len(s) - i /\ \A j \in 1..(Len(s) - i) : v[j] = s[i + j]
      OBVIOUS
    <2>3. t = u \o v
      BY DEF Pull!RemoveAt
    <2> HIDE DEF t, u, v
    <2>4. t \in Seq(D) /\ Len(t) = Len(s) - 1
      BY <2>0, <2>1, <2>2, <2>3
    <2>5. \A j \in 1..Len(t) : t[j] = IF j < i THEN s[j] ELSE s[j + 1]
      <3> SUFFICES ASSUME NEW j \in 1..Len(t)
                   PROVE  t[j] = IF j < i THEN s[j] ELSE s[j + 1]
        OBVIOUS
      <3>1. t[j] = IF j <= Len(u) THEN u[j] ELSE v[j - Len(u)]
        BY <2>1, <2>2, <2>3, <2>4
      <3>2. CASE j < i
        BY <2>0, <2>1, <3>1, <3>2
      <3>3. CASE j >= i
        <4>1. j - (i - 1) \in 1..(Len(s) - i) /\ i + (j - (i - 1)) = j + 1
          BY <2>0, <2>4, <3>3
        <4>2. v[j - (i - 1)] = s[j + 1]
          BY <2>2, <4>1
        <4> QED BY <2>0, <2>1, <3>1, <3>3, <4>2
      <3> QED BY <2>0, <2>4, <3>2, <3>3
    <2> QED BY <2>4, <2>5
  <1>2. DOMAIN s = 1..Len(s) /\ DOMAIN t = 1..Len(t) /\ Len(s) \in Nat /\ Len(t) \in Nat
    BY <1>1
  <1> HIDE DEF t
  <1>3. \A j, k \in 1..Len(s) : s[j] = s[k] => j = k
    BY <1>2 DEF Pull!IsInjective
  <1>4. Pull!IsInjective(t)
    BY <1>1, <1>2, <1>3 DEF Pull!IsInjective
  <1>5. ASSUME NEW j \in 1..Len(t) PROVE t[j] \in Pull!Range(s) /\ t[j] # s[i]
    <2>1. PICK k \in 1..Len(s) : k # i /\ t[j] = s[k]
      <3>1. CASE j < i
        BY <1>1, <1>2, <3>1
      <3>2. CASE j >= i
        BY <1>1, <1>2, <3>2
      <3> QED BY <1>2, <3>1, <3>2
    <2> QED BY <1>2, <1>3, <2>1 DEF Pull!Range
  <1>6. ASSUME NEW j \in 1..Len(s), j # i PROVE s[j] \in Pull!Range(t)
    <2>1. CASE j < i
      BY <1>1, <1>2, <2>1 DEF Pull!Range
    <2>2. CASE j > i
      <3>1. j - 1 \in 1..Len(t) /\ t[j - 1] = s[j]
        BY <1>1, <1>2, <2>2
      <3> QED BY <1>2, <3>1 DEF Pull!Range
    <2> QED BY <1>2, <1>6, <2>1, <2>2
  <1>7. \A d : d \in Pull!Range(t) <=> d \in Pull!Range(s) /\ d # s[i]
    BY <1>2, <1>5, <1>6 DEF Pull!Range
  <1> QED BY <1>1, <1>4, <1>7 DEF t

\* A sequence with one more.
LEMMA InsertOps ==
    ASSUME NEW D, NEW s \in Seq(D), NEW i \in 1..(Len(s) + 1), NEW e \in D, Pull!IsInjective(s),
           e \notin Pull!Range(s)
    PROVE  /\ Pull!InsertAt(s, i, e) \in Seq(D) /\ Pull!IsInjective(Pull!InsertAt(s, i, e))
           /\ \A d : d \in Pull!Range(Pull!InsertAt(s, i, e)) <=> d \in Pull!Range(s) \/ d = e
  <1> DEFINE t == Pull!InsertAt(s, i, e)
  <1>1. t \in Seq(D) /\ Len(t) = Len(s) + 1
        /\ \A j \in 1..Len(t) : t[j] = IF j < i THEN s[j] ELSE IF j = i THEN e ELSE s[j - 1]
    <2> DEFINE u == SubSeq(s, 1, i - 1)
               v == SubSeq(s, i, Len(s))
               w == u \o <<e>>
    <2>0. Len(s) \in Nat /\ \A j \in 1..Len(s) : s[j] \in D
      OBVIOUS
    <2>1. u \in Seq(D) /\ Len(u) = i - 1 /\ \A j \in 1..(i - 1) : u[j] = s[j]
      OBVIOUS
    <2>2. v \in Seq(D) /\ Len(v) = Len(s) - i + 1
          /\ \A j \in 1..(Len(s) - i + 1) : v[j] = s[i + j - 1]
      OBVIOUS
    <2>3. t = w \o v
      BY DEF Pull!InsertAt
    <2> HIDE DEF t, u, v
    <2>b. w \in Seq(D) /\ Len(w) = Len(u) + 1 /\ w[Len(u) + 1] = e
      <3>1. Len(u) \in Nat /\ u \in Seq(D) /\ <<e>> \in Seq(D) /\ Len(<<e>>) = 1
        BY <2>0, <2>1
      <3>2. Len(w) = Len(u) + 1 /\ w \in Seq(D)
        BY <3>1
      <3> QED BY <3>1, <3>2
    <2>c. \A j \in 1..Len(u) : w[j] = u[j]
      BY <2>1
    <2>a. w \in Seq(D) /\ Len(w) = i /\ w[i] = e /\ \A j \in 1..(i - 1) : w[j] = s[j]
      BY <2>0, <2>1, <2>b, <2>c
    <2> HIDE DEF w
    <2>4. t \in Seq(D) /\ Len(t) = Len(s) + 1
      <3>1. w \in Seq(D) /\ v \in Seq(D) /\ Len(w) + Len(v) = Len(s) + 1
        BY <2>0, <2>a, <2>2
      <3> QED BY <2>3, <3>1
    <2>5. \A j \in 1..Len(t) : t[j] = IF j < i THEN s[j] ELSE IF j = i THEN e ELSE s[j - 1]
      <3> SUFFICES ASSUME NEW j \in 1..Len(t)
                   PROVE  t[j] = IF j < i THEN s[j] ELSE IF j = i THEN e ELSE s[j - 1]
        OBVIOUS
      <3>1. t[j] = IF j <= Len(w) THEN w[j] ELSE v[j - Len(w)]
        BY <2>a, <2>2, <2>3, <2>4
      <3>2. CASE j <= i
        BY <2>0, <2>a, <3>1, <3>2
      <3>3. CASE j > i
        <4>1. j - i \in 1..(Len(s) - i + 1) /\ i + (j - i) - 1 = j - 1
          BY <2>0, <2>4, <3>3
        <4>2. v[j - i] = s[j - 1]
          BY <2>2, <4>1
        <4> QED BY <2>0, <2>a, <3>1, <3>3, <4>2
      <3> QED BY <2>0, <2>4, <3>2, <3>3
    <2> QED BY <2>4, <2>5
  <1>2. DOMAIN s = 1..Len(s) /\ DOMAIN t = 1..Len(t) /\ Len(s) \in Nat /\ Len(t) \in Nat
    BY <1>1
  <1> HIDE DEF t
  <1>3. \A j, k \in 1..Len(s) : s[j] = s[k] => j = k
    BY <1>2 DEF Pull!IsInjective
  <1>a. \A j \in 1..Len(s) : s[j] # e
    BY <1>2 DEF Pull!Range
  <1>4. Pull!IsInjective(t)
    BY <1>1, <1>2, <1>3, <1>a DEF Pull!IsInjective
  <1>5. ASSUME NEW j \in 1..Len(t) PROVE t[j] \in Pull!Range(s) \/ t[j] = e
    BY <1>1, <1>2 DEF Pull!Range
  <1>6. ASSUME NEW j \in 1..Len(s) PROVE s[j] \in Pull!Range(t)
    <2>1. CASE j < i
      BY <1>1, <1>2, <2>1 DEF Pull!Range
    <2>2. CASE j >= i
      <3>1. j + 1 \in 1..Len(t) /\ t[j + 1] = s[j]
        BY <1>1, <1>2, <2>2
      <3> QED BY <1>2, <3>1 DEF Pull!Range
    <2> QED BY <1>2, <2>1, <2>2
  <1>b. e \in Pull!Range(t)
    BY <1>1, <1>2 DEF Pull!Range
  <1>7. \A d : d \in Pull!Range(t) <=> d \in Pull!Range(s) \/ d = e
    BY <1>2, <1>5, <1>6, <1>b DEF Pull!Range
  <1> QED BY <1>1, <1>4, <1>7 DEF t

\* References that are at least as many as there are documents, and all to different ones, are
\* to all of them.
LEMMA Pigeons ==
    ASSUME NEW D, NEW s \in Seq(D), NEW t \in Seq(D), Len(s) <= Len(t),
           Pull!IsInjective(t), Pull!Range(t) \subseteq Pull!Range(s)
    PROVE  Pull!Range(s) \subseteq Pull!Range(t)
  <1> DEFINE m == Len(s)
             n == Len(t)
             f == [j \in 1..n |-> CHOOSE i \in 1..m : t[j] = s[i]]
  <1>1. m \in Nat /\ n \in Nat /\ m <= n
    OBVIOUS
  <1>d. /\ DOMAIN s = 1..m /\ DOMAIN t = 1..n
        /\ \A i, j \in 1..n : t[i] = t[j] => i = j
        /\ \A j \in 1..n : \E i \in 1..m : t[j] = s[i]
    <2>1. DOMAIN s = 1..m /\ DOMAIN t = 1..n
      OBVIOUS
    <2>2. \A i, j \in 1..n : t[i] = t[j] => i = j
      BY <2>1 DEF Pull!IsInjective
    <2>3. ASSUME NEW j \in 1..n PROVE \E i \in 1..m : t[j] = s[i]
      <3>1. t[j] \in Pull!Range(s)
        BY <2>1 DEF Pull!Range
      <3> QED BY <2>1, <3>1 DEF Pull!Range
    <2> QED BY <2>1, <2>2, <2>3
  <1>2. \A j \in 1..n : f[j] \in 1..m /\ t[j] = s[f[j]]
    BY <1>d
  <1>3. f \in [1..n -> 1..m]
    BY <1>2
  <1> HIDE DEF f
  <1>a. ASSUME NEW i \in 1..n, NEW j \in 1..n, f[i] = f[j] PROVE i = j
    <2>1. t[i] = s[f[i]] /\ t[j] = s[f[j]]
      BY <1>2, Zenon
    <2>2. t[i] = t[j]
      BY <1>a, <2>1, Zenon
    <2> QED BY <1>d, <2>2
  <1>b. DOMAIN f = 1..n
    BY <1>3
  <1>4. f \in Injection(1..n, 1..m)
    BY <1>3, <1>a, <1>b, Zenon DEF Injection, IsInjective
  <1>5. IsFiniteSet(1..m) /\ Cardinality(1..m) = m /\ Cardinality(1..n) = n
    <2>1. 1 \in Int /\ m \in Int /\ n \in Int
      BY <1>1
    <2>2. IsFiniteSet(1..m) /\ Cardinality(1..m) = IF 1 > m THEN 0 ELSE m - 1 + 1
      BY <2>1, FS_Interval, Zenon
    <2>3. Cardinality(1..n) = IF 1 > n THEN 0 ELSE n - 1 + 1
      BY <2>1, FS_Interval, Zenon
    <2> QED BY <1>1, <2>2, <2>3
  <1>6. Cardinality(1..n) <= Cardinality(1..m)
        /\ (Cardinality(1..n) = Cardinality(1..m) <=> f \in Surjection(1..n, 1..m))
    BY <1>4, <1>5, FS_Injection
  <1>7. f \in Surjection(1..n, 1..m)
    BY <1>1, <1>5, <1>6
  <1>8. \A i \in 1..m : \E j \in 1..n : f[j] = i
    BY <1>3, <1>7 DEF Surjection
  <1>c. ASSUME NEW i \in 1..m PROVE \E j \in 1..n : t[j] = s[i]
    <2>1. PICK j \in 1..n : f[j] = i
      BY <1>8
    <2>2. t[j] = s[f[j]]
      BY <1>2, Zenon
    <2> QED BY <2>1, <2>2
  <1> QED BY <1>c, <1>d DEF Pull!Range

-----------------------------------------------------------------------------

\* The part of it that time has no say in.
Kept == Disjoint /\ (~Crossing => Gathered(pull, read))

LEMMA InitPulled == ASSUME Pull!Assumptions, Pull!Init PROVE Pulled
  <1>1. Selected \in Seq(Pull!Range(Selected)) /\ Len(Selected) \in Nat /\ Len(Selected) >= 1
    BY DEF Pull!Assumptions
  <1>2. PullTypes
    BY <1>1 DEF Pull!Init, PullTypes, Pcs, Kinds, Pulls, Fits, Paging, Loading, Going, Goings
  <1>3. Timed
    BY DEF Pull!Init, Timed, Pull!NoRequest, PullRequests
  <1>4. listing \in [Pull!Collections -> Seq(Documents)]
    <2>1. ASSUME NEW c \in Pull!Collections PROVE listing[c] \in Seq(Documents)
      <3>1. PICK n \in 0..Pull!Cardinality(Documents \ New) :
              listing[c] \in [1..n -> Documents \ New]
        <4>1. listing[c] \in Pull!BoundedSeq(Documents \ New, Pull!Cardinality(Documents \ New))
          BY <2>1, Zenon DEF Pull!Init, Pull!Listings
        <4> QED BY <4>1, Zenon DEF Pull!BoundedSeq, Pull!SeqOf
      <3>2. n \in Nat
        BY <3>1
      <3> QED BY <3>1, <3>2
    <2>2. listing \in [Pull!Collections ->
                        Pull!BoundedSeq(Documents \ New, Pull!Cardinality(Documents \ New))]
      BY DEF Pull!Init, Pull!Listings
    <2> QED BY <2>1, <2>2
  <1>5. Disjoint
    BY <1>4 DEF Pull!Init, Disjoint, Apart, Pull!Listings, Pull!Listed
  <1>6. Gathered(pull, read)
    BY DEF Pull!Init, Gathered, Going, Goings, Paging, Loading
  <1> QED BY <1>2, <1>3, <1>5, <1>6 DEF Pulled

\* A pull that goes on to wait, or fails, with what it has.
LEMMA PullWaits ==
    ASSUME PullTypes, Kept, NEW pc \in Goings \cup {"failed"}, Going(pull),
           pull' = [pull EXCEPT !.pc = pc], UNCHANGED <<listing, steady, read>>
    PROVE  PullTypes' /\ Kept'
  <1>1. /\ pull' \in Pulls
        /\ pull'.pc = pc /\ pull'.kind = pull.kind /\ pull'.coll = pull.coll
        /\ pull'.offset = pull.offset /\ pull'.refs = pull.refs /\ pull'.next = pull.next
    BY DEF PullTypes, Pcs, Goings, Pulls
  <1>2. PullTypes'
    BY <1>1 DEF PullTypes, Goings, Going, Fits, Paging, Loading
  <1>3. Disjoint => Disjoint'
    BY DEF Disjoint, Pull!Listed
  <1>4. Gathered(pull, read) => Gathered(pull, read)'
    <2>1. /\ \A k : Covered(read, k)' <=> Covered(read, k)
          /\ Seen(Selected[pull.coll], pull.refs)' <=> Seen(Selected[pull.coll], pull.refs)
          /\ Loads(read, Selected[pull.coll], pull.refs, pull.next)' <=>
               Loads(read, Selected[pull.coll], pull.refs, pull.next)
          /\ Holds(Selected[pull.coll], pull.refs, pull.next)' <=>
               Holds(Selected[pull.coll], pull.refs, pull.next)
      BY <1>1 DEF Covered, Seen, Loads, Holds, Dead, Pull!Listed
    <2> QED BY <1>1, <2>1 DEF Gathered, Going, Paging, Loading, Goings
  <1> QED BY <1>2, <1>3, <1>4 DEF Kept

LEMMA PullFails ==
    ASSUME Pulled, Going(pull), Pull!Fail, UNCHANGED <<now, listing, steady>>
    PROVE  Pulled'
  <1>1. PullTypes' /\ Kept'
    BY PullWaits DEF Pulled, Kept, Pull!Fail
  <1>2. pull'.pc = "failed"
    BY DEF Pull!Fail, Pulled, PullTypes, Pulls
  <1>3. Timed'
    BY <1>2 DEF Pulled, Timed, Pull!Fail
  <1> QED BY <1>1, <1>3 DEF Pulled, Kept

LEMMA TimeTypes ==
    ASSUME Pull!Assumptions, Pulled
    PROVE  /\ now \in Nat /\ Timeout \in Nat /\ Duration \in Nat /\ 0 < Timeout /\ 0 < Duration
           /\ request.patience \in Nat /\ request.until \in Nat
           /\ request.attempt \in Nat /\ request.parts \in Nat /\ request.waits \in Nat
           /\ request \in PullRequests
           /\ \A d \in Delays : d \in Nat
  BY DEF Pull!Assumptions, Pulled, Timed, PullRequests

LEMMA AllowedGrows ==
    ASSUME Pull!Assumptions, NEW k \in Nat
    PROVE  /\ Allowed(k) \in Nat /\ Allowed(k + 1) = Allowed(k) + Timeout
           /\ Duration + Timeout <= Allowed(k + 1) /\ Allowed(0) = Duration
  <1>1. Duration \in Nat /\ Timeout \in Nat
    BY DEF Pull!Assumptions
  <1>2. k * Timeout \in Nat /\ (k + 1) * Timeout = k * Timeout + Timeout /\ 0 * Timeout = 0
    BY <1>1
  <1> QED BY <1>1, <1>2 DEF Allowed

LEMMA AskKeeps == ASSUME Pull!Assumptions, Pulled, Pull!Ask PROVE Pulled'
  <1>0. Going(pull) /\ UNCHANGED <<now, listing, steady>>
    BY DEF Pull!Ask, Going, Goings
  <1>1. CASE Pull!Expired
    BY <1>0, <1>1, PullFails DEF Pull!Ask
  <1>2. CASE ~Pull!Expired
    <2> DEFINE l == Pull!Least(Timeout, Duration - now)
    <2>1. /\ pull' = [pull EXCEPT !.pc = "waiting"] /\ UNCHANGED read
          /\ request' = [request EXCEPT !.patience = l, !.until = now + l, !.parts = 0,
                                        !.waits = 0]
      BY <1>2 DEF Pull!Ask
    <2>2. l \in Nat /\ l <= Timeout /\ now + l <= Duration /\ now + l \in Nat /\ now <= now + l
      BY <1>2, TimeTypes DEF Pull!Expired, Pull!Least
    <2> HIDE DEF l
    <2>3. PullTypes' /\ Kept'
      BY <1>0, <2>1, PullWaits DEF Pulled, Kept, Goings
    <2>4. pull'.pc = "waiting" /\ now' = now
      BY <1>0, <2>1 DEF Pulled, PullTypes, Pulls
    <2>5. /\ request' \in PullRequests /\ request'.waits = 0
          /\ request'.until = now + l /\ request'.patience = l
      BY <2>1, <2>2, TimeTypes DEF PullRequests
    <2>6. request'.until < Allowed(request'.waits + 1)
      <3>1. 0 + 1 = request'.waits + 1
        BY <2>5
      <3>2. Duration < Allowed(0 + 1)
        BY AllowedGrows, TimeTypes
      <3>3. Allowed(0 + 1) \in Nat
        BY AllowedGrows
      <3> QED BY <2>2, <2>5, <3>1, <3>2, <3>3, TimeTypes
    <2>7. Timed'
      BY <2>2, <2>4, <2>5, <2>6, TimeTypes DEF Timed, Allowed
    <2> QED BY <2>3, <2>7 DEF Pulled, Kept
  <1> QED BY <1>1, <1>2

LEMMA WaitKeeps == ASSUME Pull!Assumptions, Pulled, Pull!Wait PROVE Pulled'
  <1>0. Going(pull) /\ UNCHANGED <<now, listing, pull, read, steady>> /\ pull.pc = "waiting"
    BY DEF Pull!Wait, Going, Goings
  <1>1. /\ request' \in PullRequests /\ request'.waits = request.waits + 1
        /\ request'.until = now + request.patience /\ request'.patience = request.patience
        /\ now + request.patience \in Nat /\ now <= now + request.patience
    <2>1. request' = [request EXCEPT !.waits = @ + 1, !.until = now + request.patience]
      BY DEF Pull!Wait
    <2>2. now + request.patience \in Nat /\ now <= now + request.patience
          /\ request.waits + 1 \in Nat /\ request \in PullRequests
      BY TimeTypes
    <2> QED BY <2>1, <2>2 DEF PullRequests
  <1>2. PullTypes' /\ Kept'
    <2>1. pull' = [pull EXCEPT !.pc = "waiting"]
      BY <1>0 DEF Pulled, PullTypes, Pulls
    <2> QED BY <1>0, <2>1, PullWaits DEF Pulled, Kept, Goings
  <1>3. now + request.patience < Allowed(request'.waits + 1)
    <2>1. now < Allowed(request.waits + 1) /\ request.patience <= Timeout
      BY <1>0, TimeTypes, AllowedGrows DEF Pulled, Timed
    <2>2. Allowed(request.waits + 1 + 1) = Allowed(request.waits + 1) + Timeout
          /\ Allowed(request.waits + 1) \in Nat
      BY TimeTypes, AllowedGrows
    <2> QED BY <1>1, <2>1, <2>2, TimeTypes
  <1>4. Timed'
    BY <1>0, <1>1, <1>3 DEF Pulled, Timed
  <1> QED BY <1>2, <1>4 DEF Pulled, Kept

LEMMA PartKeeps == ASSUME Pull!Assumptions, Pulled, Pull!Part PROVE Pulled'
  <1>0. Going(pull) /\ UNCHANGED <<now, listing, steady>> /\ pull.pc = "waiting"
    BY DEF Pull!Part, Going, Goings
  <1>1. CASE Pull!Fail
    BY <1>0, <1>1, PullFails
  <1>2. CASE /\ ~Pull!Expired
             /\ request' = [request EXCEPT !.parts = @ + 1, !.waits = 0,
                                           !.until = now + request.patience]
             /\ UNCHANGED <<pull, read>>
    <2>1. Duration + Timeout <= Allowed(0 + 1)
      BY AllowedGrows
    <2>2. /\ now + request.patience \in Nat /\ now + request.patience < Duration + Timeout
          /\ now <= now + request.patience /\ request.parts + 1 \in Nat
      BY <1>0, <1>2, TimeTypes DEF Pull!Expired, Pulled, Timed
    <2>3. PullTypes' /\ Kept'
      <3>1. pull' = [pull EXCEPT !.pc = "waiting"]
        BY <1>0, <1>2 DEF Pulled, PullTypes, Pulls
      <3> QED BY <1>0, <1>2, <3>1, PullWaits DEF Pulled, Kept, Goings
    <2>5. /\ request' \in PullRequests /\ request'.waits = 0
          /\ request'.until = now + request.patience /\ request'.patience = request.patience
      BY <1>2, <2>2, TimeTypes DEF PullRequests
    <2>4. now + request.patience < Allowed(0 + 1)
      BY <2>1, <2>2, TimeTypes, AllowedGrows
    <2>6. Timed'
      BY <1>0, <1>2, <2>2, <2>4, <2>5 DEF Pulled, Timed
    <2> QED BY <2>3, <2>6 DEF Pulled, Kept
  <1> QED BY <1>1, <1>2 DEF Pull!Part

LEMMA TroubleKeeps == ASSUME Pull!Assumptions, Pulled, Pull!Trouble PROVE Pulled'
  <1>0. Going(pull) /\ UNCHANGED <<now, listing, steady>> /\ pull.pc = "waiting"
    BY DEF Pull!Trouble, Going, Goings
  <1>1. CASE Pull!Fail
    BY <1>0, <1>1, PullFails
  <1>2. ASSUME NEW delay \in Delays, ~Pull!Expired, pull' = [pull EXCEPT !.pc = "sleeping"],
               request' = [request EXCEPT !.until = now + Pull!Least(delay, Duration - now),
                                          !.attempt = @ + 1, !.waits = 0],
               UNCHANGED read
        PROVE  Pulled'
    <2> DEFINE l == Pull!Least(delay, Duration - now)
    <2>2. l \in Nat /\ now + l <= Duration /\ now + l \in Nat /\ now <= now + l
          /\ request.attempt + 1 \in Nat
      BY <1>2, TimeTypes DEF Pull!Expired, Pull!Least
    <2>1. request' = [request EXCEPT !.until = now + l, !.attempt = @ + 1, !.waits = 0]
      BY <1>2
    <2> HIDE DEF l
    <2>3. PullTypes' /\ Kept'
      BY <1>0, <1>2, PullWaits DEF Pulled, Kept, Goings
    <2>4. pull'.pc = "sleeping" /\ now' = now
      BY <1>0, <1>2 DEF Pulled, PullTypes, Pulls
    <2>5. /\ request' \in PullRequests
          /\ request'.until = now + l /\ request'.patience = request.patience
      BY <2>1, <2>2, TimeTypes DEF PullRequests
    <2>6. Timed'
      BY <2>2, <2>4, <2>5, TimeTypes DEF Timed
    <2> QED BY <2>3, <2>6 DEF Pulled, Kept
  <1> QED BY <1>1, <1>2 DEF Pull!Trouble

LEMMA WakeKeeps == ASSUME Pull!Assumptions, Pulled, Pull!Wake PROVE Pulled'
  <1>0. Going(pull) /\ UNCHANGED <<now, listing, steady>>
    BY DEF Pull!Wake, Going, Goings
  <1>1. CASE Pull!Fail
    BY <1>0, <1>1, PullFails
  <1>2. CASE ~Pull!Expired /\ pull' = [pull EXCEPT !.pc = "ask"] /\ UNCHANGED <<request, read>>
    <2>3. PullTypes' /\ Kept'
      BY <1>0, <1>2, PullWaits DEF Pulled, Kept, Goings
    <2>4. pull'.pc = "ask" /\ now' = now /\ now < Duration
      BY <1>0, <1>2, TimeTypes DEF Pulled, PullTypes, Pulls, Pull!Expired
    <2>6. Timed'
      BY <1>2, <2>4 DEF Pulled, Timed
    <2> QED BY <2>3, <2>6 DEF Pulled, Kept
  <1> QED BY <1>1, <1>2 DEF Pull!Wake

LEMMA TickKeeps == ASSUME Pull!Assumptions, Pulled, Pull!Tick PROVE Pulled'
  <1>0. Going(pull) /\ UNCHANGED <<listing, pull, request, read, steady>>
    BY DEF Pull!Tick, Going, Goings
  <1>1. now' \in Nat /\ now' <= request.until /\ pull.pc \in {"waiting", "sleeping"}
    BY TimeTypes DEF Pull!Tick
  <1>2. Timed'
    BY <1>0, <1>1 DEF Pulled, Timed
  <1>3. PullTypes' /\ Kept'
    <2>1. pull' = [pull EXCEPT !.pc = pull.pc] /\ pull.pc \in Goings
      BY <1>0 DEF Pulled, PullTypes, Pulls, Going
    <2> QED BY <1>0, <2>1, PullWaits DEF Pulled, Kept
  <1> QED BY <1>2, <1>3 DEF Pulled, Kept

LEMMA StartKeeps == ASSUME Pull!Assumptions, Pulled, Pull!Start PROVE Pulled'
  <1>0. /\ pull.pc = "idle" /\ pull' = [pull EXCEPT !.pc = "ask"] /\ steady' = Pull!Placed
        /\ UNCHANGED <<now, listing, request, read>>
    BY DEF Pull!Start
  <1>1. /\ pull' \in Pulls
        /\ pull'.pc = "ask" /\ pull'.kind = pull.kind /\ pull'.coll = pull.coll
        /\ pull'.offset = pull.offset /\ pull'.refs = pull.refs /\ pull'.next = pull.next
        /\ pull.kind = "collections" /\ pull.coll = 1
    BY <1>0 DEF Pulled, PullTypes, Pcs, Pulls
  <1>2. PullTypes'
    BY <1>0, <1>1 DEF Pulled, PullTypes, Fits, Paging, Loading
  <1>3. Timed'
    BY <1>0, <1>1, TimeTypes DEF Pulled, Timed
  <1>4. Disjoint => Disjoint'
    <2> SUFFICES ASSUME Disjoint PROVE Disjoint'
      OBVIOUS
    <2>1. \A c \in Pull!Collections : Pull!Listed(c) \subseteq Documents
      BY DEF Disjoint, Apart, Pull!Listed, Pull!Range
    <2>2. Pull!Placed \subseteq Pull!Collections \X Documents
      BY <2>1 DEF Pull!Placed
    <2>3. \A c \in Pull!Collections : \A d : <<c, d>> \in Pull!Placed => d \in Pull!Listed(c)
      BY DEF Pull!Placed, Pull!Listed
    <2> QED BY <1>0, <2>2, <2>3 DEF Disjoint, Pull!Listed
  <1>5. Gathered(pull, read)'
    <2>1. Covered(read, pull.coll - 1)'
      BY <1>1 DEF Covered
    <2> QED BY <1>1, <2>1 DEF Gathered, Going, Paging, Loading, Goings
  <1> QED BY <1>2, <1>3, <1>4, <1>5 DEF Pulled

-----------------------------------------------------------------------------

\* Another order of a collection, or other documents in it.
LEMMA Relisted ==
    ASSUME NEW l, Apart(l), NEW m \in [Pull!Collections -> Seq(Documents)],
           NEW c \in Pull!Collections, Pull!IsInjective(m[c]),
           \A e \in Pull!Collections : e # c => m[e] = l[e],
           \A d \in Pull!Range(m[c]) :
             d \in Pull!Range(l[c]) \/ \A e \in Pull!Collections : d \notin Pull!Range(l[e])
    PROVE  Apart(m)
  <1>2. \A e \in Pull!Collections : Pull!IsInjective(m[e])
    <2>1. \A e \in Pull!Collections : Pull!IsInjective(l[e])
      BY DEF Apart
    <2> QED BY <2>1, Zenon
  <1>3. ASSUME NEW e \in Pull!Collections, NEW f \in Pull!Collections, e # f
        PROVE  Pull!Range(m[e]) \cap Pull!Range(m[f]) = {}
    <2>1. Pull!Range(l[e]) \cap Pull!Range(l[f]) = {}
      BY <1>3 DEF Apart
    <2>2. CASE e = c
      BY <1>3, <2>1, <2>2
    <2>3. CASE f = c
      BY <1>3, <2>1, <2>3
    <2>4. CASE e # c /\ f # c
      BY <2>1, <2>4
    <2> QED BY <2>2, <2>3, <2>4
  <1> QED BY <1>2, <1>3 DEF Apart

\* The provider's editors while the pull is under way: unless documents cross, what was listed
\* is listed or dead, and the dead stay dead.
LEMMA ListingKeeps ==
    ASSUME Pulled, Pull!Edit, Disjoint', steady' \subseteq steady,
           ~Crossing => /\ \A c \in Pull!Collections : \A d \in Pull!Listed(c) :
                             d \in Pull!Listed(c)' \/ Dead(d)'
                        /\ \A d : Dead(d) => Dead(d)'
    PROVE  Pulled'
  <1>0. UNCHANGED <<now, pull, request, read>> /\ pull.pc # "idle"
    BY DEF Pull!Edit, Pull!Underway
  <1>1. PullTypes' /\ Timed'
    BY <1>0 DEF Pulled, PullTypes, Timed, Fits, Paging, Loading, Going
  <1>2. ASSUME ~Crossing PROVE Gathered(pull, read)'
    <2>1. Gathered(pull, read) /\ \A d : Dead(d) => Dead(d)'
      BY <1>2 DEF Pulled
    <2>2. \A k : Covered(read, k) => Covered(read, k)'
      BY <1>0 DEF Covered
    <2>3. \A c : Holds(c, pull.refs, pull.next) => Holds(c, pull.refs, pull.next)'
      BY <1>0, <2>1 DEF Holds
    <2>4. \A c \in Pull!Collections : Seen(c, pull.refs) => Seen(c, pull.refs)'
      BY <1>0, <1>2, <2>1 DEF Seen
    <2>5. \A c : Loads(read, c, pull.refs, pull.next) => Loads(read, c, pull.refs, pull.next)'
      BY <1>0 DEF Loads
    <2>6. pull.coll \in DOMAIN Selected => Selected[pull.coll] \in Pull!Collections
      BY DEF Pull!Collections, Pull!Range
    <2>7. pull.coll \in DOMAIN Selected
      BY DEF Pulled, PullTypes, Pulls
    <2> QED BY <1>0, <2>1, <2>2, <2>3, <2>4, <2>5, <2>6, <2>7 DEF Gathered, Going, Paging, Loading
  <1> QED BY <1>1, <1>2 DEF Pulled

LEMMA CreateKeeps == ASSUME Pull!Assumptions, Pulled, Pull!Create PROVE Pulled'
  <1>0. Pull!Edit /\ steady' = steady /\ Disjoint /\ Apart(listing)
    BY DEF Pull!Create, Pulled, Disjoint
  <1>1. PICK d \in New, c \in Pull!Collections : \E i \in 1..Len(listing[c]) + 1 :
          /\ \A e \in Pull!Collections : d \notin Pull!Listed(e)
          /\ listing' = [listing EXCEPT ![c] = Pull!InsertAt(@, i, d)]
    BY DEF Pull!Create
  <1>2. PICK i \in 1..Len(listing[c]) + 1 :
          /\ \A e \in Pull!Collections : d \notin Pull!Listed(e)
          /\ listing' = [listing EXCEPT ![c] = Pull!InsertAt(@, i, d)]
    BY <1>1
  <1> DEFINE t == Pull!InsertAt(listing[c], i, d)
  <1>3. /\ listing[c] \in Seq(Documents) /\ Pull!IsInjective(listing[c]) /\ d \in Documents
        /\ d \notin Pull!Range(listing[c])
    BY <1>0, <1>2 DEF Apart, Pull!Assumptions, Pull!Listed
  <1>4. /\ t \in Seq(Documents) /\ Pull!IsInjective(t)
        /\ \A x : x \in Pull!Range(t) <=> x \in Pull!Listed(c) \/ x = d
    BY <1>3, InsertOps DEF Pull!Listed
  <1>5. listing' = [listing EXCEPT ![c] = t]
    BY <1>2
  <1> HIDE DEF t
  <1>6. \A x \in Pull!Range(t) :
          \/ x \in Pull!Range(listing[c])
          \/ \A e \in Pull!Collections : x \notin Pull!Range(listing[e])
    BY <1>2, <1>4 DEF Pull!Listed
  <1>7. /\ Apart(listing)' /\ listing'[c] = t
        /\ \A e \in Pull!Collections : e # c => listing'[e] = listing[e]
    <2>1. /\ listing' \in [Pull!Collections -> Seq(Documents)] /\ listing'[c] = t
          /\ \A e \in Pull!Collections : e # c => listing'[e] = listing[e]
      BY <1>0, <1>4, <1>5 DEF Apart
    <2>2. Apart(listing')
      BY <1>0, <1>4, <1>6, <2>1, Relisted
    <2> QED BY <2>1, <2>2 DEF Apart
  <1>8. \A e \in Pull!Collections : \A x :
          x \in Pull!Listed(e)' <=> x \in Pull!Listed(e) \/ (e = c /\ x = d)
    BY <1>4, <1>7 DEF Pull!Listed
  <1>9. Disjoint'
    BY <1>0, <1>7, <1>8 DEF Disjoint
  <1>10. /\ \A e \in Pull!Collections : \A x \in Pull!Listed(e) : x \in Pull!Listed(e)'
         /\ \A x : Dead(x) => Dead(x)'
    BY <1>8 DEF Dead
  <1> QED BY <1>0, <1>9, <1>10, ListingKeeps

LEMMA DeleteKeeps == ASSUME Pull!Assumptions, Pulled, Pull!Delete PROVE Pulled'
  <1>0. Pull!Edit /\ Disjoint /\ Apart(listing)
    BY DEF Pull!Delete, Pulled, Disjoint
  <1>1. PICK c \in Pull!Collections : \E i \in DOMAIN listing[c] :
          /\ listing[c][i] \notin New
          /\ listing' = [listing EXCEPT ![c] = Pull!RemoveAt(@, i)]
          /\ steady' = steady \ {<<c, listing[c][i]>>}
    BY DEF Pull!Delete
  <1>2. PICK i \in DOMAIN listing[c] :
          /\ listing[c][i] \notin New
          /\ listing' = [listing EXCEPT ![c] = Pull!RemoveAt(@, i)]
          /\ steady' = steady \ {<<c, listing[c][i]>>}
    BY <1>1
  <1>d. PICK d : d = listing[c][i]
    OBVIOUS
  <1> DEFINE t == Pull!RemoveAt(listing[c], i)
  <1>3. /\ listing[c] \in Seq(Documents) /\ Pull!IsInjective(listing[c])
        /\ i \in 1..Len(listing[c]) /\ d \in Pull!Listed(c)
    BY <1>0, <1>d DEF Apart, Pull!Listed, Pull!Range
  <1>4. /\ t \in Seq(Documents) /\ Pull!IsInjective(t)
        /\ \A x : x \in Pull!Range(t) <=> x \in Pull!Listed(c) /\ x # d
    BY <1>3, <1>d, RemoveOps DEF Pull!Listed
  <1>5. listing' = [listing EXCEPT ![c] = t]
    BY <1>2
  <1> HIDE DEF t
  <1>6. \A x \in Pull!Range(t) :
          \/ x \in Pull!Range(listing[c])
          \/ \A e \in Pull!Collections : x \notin Pull!Range(listing[e])
    BY <1>4 DEF Pull!Listed
  <1>7. /\ Apart(listing)' /\ listing'[c] = t
        /\ \A e \in Pull!Collections : e # c => listing'[e] = listing[e]
    <2>1. /\ listing' \in [Pull!Collections -> Seq(Documents)] /\ listing'[c] = t
          /\ \A e \in Pull!Collections : e # c => listing'[e] = listing[e]
      BY <1>0, <1>4, <1>5 DEF Apart
    <2>2. Apart(listing')
      BY <1>0, <1>4, <1>6, <2>1, Relisted
    <2> QED BY <2>1, <2>2 DEF Apart
  <1>8. \A e \in Pull!Collections : \A x :
          x \in Pull!Listed(e)' <=> x \in Pull!Listed(e) /\ ~(e = c /\ x = d)
    BY <1>4, <1>7 DEF Pull!Listed
  <1>9. Disjoint'
    BY <1>0, <1>2, <1>d, <1>7, <1>8 DEF Disjoint
  <1>a. Dead(d)'
    BY <1>0, <1>2, <1>d, <1>3, <1>8 DEF Dead, Apart, Pull!Listed
  <1>10. /\ \A e \in Pull!Collections : \A x \in Pull!Listed(e) :
              x \in Pull!Listed(e)' \/ Dead(x)'
         /\ \A x : Dead(x) => Dead(x)'
    BY <1>8, <1>a DEF Dead
  <1>11. steady' \subseteq steady
    BY <1>2
  <1> QED BY <1>0, <1>9, <1>10, <1>11, ListingKeeps

LEMMA MoveKeeps == ASSUME Pull!Assumptions, Pulled, Pull!Move PROVE Pulled'
  <1>0. Pull!Edit /\ Disjoint /\ Apart(listing)
    BY DEF Pull!Move, Pulled, Disjoint
  <1>1. PICK c \in Pull!Collections, e \in Pull!Collections : \E i \in DOMAIN listing[c] :
          LET left == [listing EXCEPT ![c] = Pull!RemoveAt(@, i)]
          IN  /\ c = e \/ Crossing
              /\ \E j \in 1..Len(left[e]) + 1 :
                  /\ listing' = [left EXCEPT ![e] = Pull!InsertAt(@, j, listing[c][i])]
                  /\ steady' = IF c = e THEN steady ELSE steady \ {<<c, listing[c][i]>>}
    BY DEF Pull!Move
  <1>2. PICK i \in DOMAIN listing[c] :
          LET left == [listing EXCEPT ![c] = Pull!RemoveAt(@, i)]
          IN  /\ c = e \/ Crossing
              /\ \E j \in 1..Len(left[e]) + 1 :
                  /\ listing' = [left EXCEPT ![e] = Pull!InsertAt(@, j, listing[c][i])]
                  /\ steady' = IF c = e THEN steady ELSE steady \ {<<c, listing[c][i]>>}
    BY <1>1
  <1>d. PICK d : d = listing[c][i]
    OBVIOUS
  <1>l. PICK left : left = [listing EXCEPT ![c] = Pull!RemoveAt(@, i)]
    OBVIOUS
  <1>3. PICK j \in 1..Len(left[e]) + 1 :
          /\ c = e \/ Crossing
          /\ listing' = [left EXCEPT ![e] = Pull!InsertAt(@, j, d)]
          /\ steady' = IF c = e THEN steady ELSE steady \ {<<c, d>>}
    BY <1>2, <1>d, <1>l
  <1> DEFINE s == Pull!RemoveAt(listing[c], i)
             t == Pull!InsertAt(left[e], j, d)
  <1>4. /\ listing[c] \in Seq(Documents) /\ Pull!IsInjective(listing[c])
        /\ i \in 1..Len(listing[c]) /\ d \in Documents /\ d \in Pull!Listed(c)
    BY <1>0, <1>d DEF Apart, Pull!Listed, Pull!Range
  <1>5. /\ s \in Seq(Documents) /\ Pull!IsInjective(s)
        /\ \A x : x \in Pull!Range(s) <=> x \in Pull!Listed(c) /\ x # d
    BY <1>4, <1>d, RemoveOps DEF Pull!Listed
  <1>6. left = [listing EXCEPT ![c] = s]
    BY <1>l
  <1> HIDE DEF s
  <1>7. Apart(left) /\ left[c] = s /\ \A f \in Pull!Collections : f # c => left[f] = listing[f]
    <2>1. \A x \in Pull!Range(s) : x \in Pull!Range(listing[c])
      BY <1>5 DEF Pull!Listed
    <2>2. /\ left \in [Pull!Collections -> Seq(Documents)] /\ left[c] = s
          /\ \A f \in Pull!Collections : f # c => left[f] = listing[f]
      BY <1>0, <1>5, <1>6 DEF Apart
    <2> QED BY <1>0, <1>5, <2>1, <2>2, Relisted
  <1>8. \A f \in Pull!Collections : \A x :
          x \in Pull!Range(left[f]) <=> x \in Pull!Listed(f) /\ x # d
    BY <1>0, <1>4, <1>5, <1>7 DEF Apart, Pull!Listed
  <1>9. /\ t \in Seq(Documents) /\ Pull!IsInjective(t)
        /\ \A x : x \in Pull!Range(t) <=> x \in Pull!Range(left[e]) \/ x = d
    <2>1. left[e] \in Seq(Documents) /\ Pull!IsInjective(left[e]) /\ d \notin Pull!Range(left[e])
      BY <1>7, <1>8 DEF Apart
    <2> QED BY <1>4, <2>1, InsertOps
  <1>10. listing' = [left EXCEPT ![e] = t]
    BY <1>3
  <1> HIDE DEF t
  <1>11. /\ Apart(listing)' /\ listing'[e] = t
         /\ \A f \in Pull!Collections : f # e => listing'[f] = left[f]
    <2>1. \A x \in Pull!Range(t) :
            x \in Pull!Range(left[e]) \/ \A f \in Pull!Collections : x \notin Pull!Range(left[f])
      BY <1>8, <1>9
    <2>2. /\ listing' \in [Pull!Collections -> Seq(Documents)] /\ listing'[e] = t
          /\ \A f \in Pull!Collections : f # e => listing'[f] = left[f]
      BY <1>7, <1>9, <1>10 DEF Apart
    <2>3. Apart(listing')
      BY <1>7, <1>9, <2>1, <2>2, Relisted
    <2> QED BY <2>2, <2>3 DEF Apart
  <1>12. \A f \in Pull!Collections : \A x :
           x \in Pull!Listed(f)' <=> (x \in Pull!Listed(f) /\ x # d) \/ (f = e /\ x = d)
    BY <1>8, <1>9, <1>11 DEF Pull!Listed
  <1>13. Disjoint'
    <2>1. \A f \in Pull!Collections : \A x : <<f, x>> \in steady' => x \in Pull!Listed(f)'
      BY <1>0, <1>3, <1>4, <1>12 DEF Disjoint, Apart, Pull!Listed
    <2> QED BY <1>0, <1>3, <1>11, <2>1 DEF Disjoint
  <1>14. ~Crossing => /\ \A f \in Pull!Collections : Pull!Listed(f) \subseteq Pull!Listed(f)'
                      /\ \A x : Dead(x) => Dead(x)'
    BY <1>0, <1>3, <1>4, <1>12 DEF Dead, Apart, Pull!Listed
  <1>15. steady' \subseteq steady
    BY <1>3
  <1> QED BY <1>0, <1>13, <1>14, <1>15, ListingKeeps

-----------------------------------------------------------------------------

\* A collection whose references have all been asked for is covered, and the pull goes on to
\* the next.
LEMMA NextInfoOps ==
    ASSUME Pull!Assumptions, NEW p \in Pulls, NEW rd \in Seq(Pull!Collections \X Documents),
           p.kind # "collections", p.next \in 1..(Len(p.refs) + 1)
    PROVE  /\ Pull!NextInfo(p) \in Pulls /\ Fits(Pull!NextInfo(p))
           /\ Pull!NextInfo(p).kind # "collections" /\ Pull!NextInfo(p).pc \in {"ask", "done"}
           /\ /\ Covered(rd, p.coll - 1)
              /\ Loads(rd, Selected[p.coll], p.refs, p.next)
              /\ Holds(Selected[p.coll], p.refs, p.next)
              => Gathered(Pull!NextInfo(p), rd)
  <1>0. /\ p.coll \in 1..Len(Selected) /\ Len(Selected) \in Nat /\ p.refs \in Seq(Documents)
        /\ p.next \in Nat /\ Len(p.refs) \in Nat /\ Len(rd) \in Nat /\ p.pc \in Pcs
        /\ p.kind \in Kinds /\ p.offset \in Nat /\ DOMAIN p.refs = 1..Len(p.refs)
        /\ DOMAIN rd = 1..Len(rd)
    BY DEF Pull!Assumptions, Pulls
  <1> DEFINE q == Pull!NextInfo(p)
             All == /\ Covered(rd, p.coll - 1)
                    /\ Loads(rd, Selected[p.coll], p.refs, p.next)
                    /\ Holds(Selected[p.coll], p.refs, p.next)
  <1>1. CASE p.next <= Len(p.refs)
    <2>1. q = [p EXCEPT !.pc = "ask", !.kind = "info"]
      BY <1>1 DEF Pull!NextInfo
    <2> HIDE DEF q
    <2>2. /\ q \in Pulls /\ q.pc = "ask" /\ q.kind = "info" /\ q.coll = p.coll
          /\ q.refs = p.refs /\ q.next = p.next
      BY <2>1 DEF Pulls, Pcs, Kinds
    <2>3. Fits(q)
      BY <1>0, <1>1, <2>2 DEF Fits, Paging, Loading
    <2>4. All => Gathered(q, rd)
      BY <2>2 DEF Gathered, Going, Paging, Loading
    <2> QED BY <2>2, <2>3, <2>4 DEF q
  <1>2. CASE p.next = Len(p.refs) + 1
    <2>1. ASSUME All PROVE Covered(rd, p.coll)
      <3> SUFFICES ASSUME Pull!IsInjective(rd), NEW j \in 1..p.coll, NEW d,
                          <<Selected[j], d>> \in steady
                   PROVE  \E i \in DOMAIN rd : rd[i] = <<Selected[j], d>>
        BY DEF Covered
      <3>1. CASE j < p.coll
        <4>1. j \in 1..(p.coll - 1)
          BY <1>0, <3>1
        <4> QED BY <2>1, <4>1 DEF Covered
      <3>2. CASE j = p.coll
        <4> DEFINE c == Selected[p.coll]
                   k == Len(rd) + 1 - p.next
        <4>1. /\ k \in Nat
              /\ \A i \in 1..Len(p.refs) : k + i \in DOMAIN rd /\ rd[k + i] = <<c, p.refs[i]>>
          BY <1>0, <1>2, <2>1 DEF Loads
        <4>2. ~\E i \in p.next..Len(p.refs) : Dead(p.refs[i])
          BY <1>0, <1>2
        <4>3. ASSUME NEW i \in DOMAIN p.refs, NEW h \in DOMAIN p.refs, p.refs[i] = p.refs[h]
              PROVE  i = h
          <5>1. rd[k + i] = rd[k + h] /\ k + i \in DOMAIN rd /\ k + h \in DOMAIN rd
            BY <1>0, <4>1, <4>3
          <5>2. k + i = k + h
            BY <5>1 DEF Pull!IsInjective
          <5> QED BY <1>0, <4>1, <5>2
        <4>4. PICK i \in DOMAIN p.refs : p.refs[i] = d
          BY <2>1, <3>2, <4>2, <4>3 DEF Holds
        <4> QED BY <1>0, <3>2, <4>1, <4>4
      <3> QED BY <1>0, <3>1, <3>2
    <2>2. CASE p.coll < Len(Selected)
      <3>1. q = [pc |-> "ask", kind |-> "page", coll |-> p.coll + 1, offset |-> 0,
                 refs |-> <<>>, next |-> 1]
        BY <1>0, <1>2, <2>2 DEF Pull!NextInfo
      <3> HIDE DEF q
      <3>2. /\ q \in Pulls /\ q.pc = "ask" /\ q.kind = "page" /\ q.coll = p.coll + 1
            /\ q.refs = <<>> /\ q.next = 1 /\ q.offset = 0
        BY <1>0, <2>2, <3>1 DEF Pulls, Pcs, Kinds
      <3>3. Fits(q)
        BY <3>2 DEF Fits, Paging, Loading
      <3>4. ASSUME All PROVE Gathered(q, rd)
        <4>1. q.coll - 1 = p.coll
          BY <1>0, <3>2
        <4>2. Covered(rd, q.coll - 1)
          BY <2>1, <3>4, <4>1
        <4>3. Seen(Selected[q.coll], q.refs)
          BY <3>2 DEF Seen
        <4> QED BY <3>2, <4>2, <4>3 DEF Gathered, Going, Paging, Loading
      <3> QED BY <3>2, <3>3, <3>4 DEF q
    <2>3. CASE p.coll = Len(Selected)
      <3>1. q = [p EXCEPT !.pc = "done"]
        BY <1>0, <1>2, <2>3 DEF Pull!NextInfo
      <3> HIDE DEF q
      <3>2. q \in Pulls /\ q.pc = "done" /\ q.kind = p.kind
        BY <3>1 DEF Pulls, Pcs
      <3>3. Fits(q)
        BY <3>2 DEF Fits, Paging, Loading, Going, Goings
      <3>4. All => Gathered(q, rd)
        BY <2>1, <2>3, <3>2 DEF Gathered, Going, Goings, Paging, Loading
      <3> QED BY <3>2, <3>3, <3>4 DEF q
    <2> QED BY <1>0, <2>2, <2>3
  <1> QED BY <1>0, <1>1, <1>2

\* What holds of the next place of the pull holds when it is there.
LEMMA Arrives ==
    ASSUME UNCHANGED <<listing, steady>>, NEW q, NEW rd, pull' = q, read' = rd, Gathered(q, rd)
    PROVE  Gathered(pull, read)'
  <1>1. \A k : Covered(rd, k) <=> Covered(read, k)'
    BY DEF Covered
  <1>2. Seen(Selected[q.coll], q.refs) <=> Seen(Selected[pull.coll], pull.refs)'
    BY DEF Seen, Dead, Pull!Listed
  <1>3. Loads(rd, Selected[q.coll], q.refs, q.next)
          <=> Loads(read, Selected[pull.coll], pull.refs, pull.next)'
    BY DEF Loads
  <1>4. Holds(Selected[q.coll], q.refs, q.next)
          <=> Holds(Selected[pull.coll], pull.refs, pull.next)'
    BY DEF Holds, Dead, Pull!Listed
  <1> QED BY <1>1, <1>2, <1>3, <1>4 DEF Gathered, Going, Paging, Loading

LEMMA AnswerTimed ==
    ASSUME Pull!Assumptions, Pulled, ~Pull!Expired, UNCHANGED now, request' = Pull!NoRequest,
           pull'.pc \in {"ask", "done"}
    PROVE  Timed'
  BY TimeTypes DEF Timed, Pull!NoRequest, Pull!Expired, PullRequests

LEMMA CollectionsKeeps == ASSUME Pull!Assumptions, Pulled, Pull!CollectionsAnswer PROVE Pulled'
  <1>0. Going(pull) /\ UNCHANGED <<now, listing, steady>> /\ pull.kind = "collections"
    BY DEF Pull!CollectionsAnswer, Pull!Answer, Going, Goings
  <1>1. CASE Pull!Fail
    BY <1>0, <1>1, PullFails
  <1>2. CASE /\ ~Pull!Expired /\ pull' = [pull EXCEPT !.pc = "ask", !.kind = "page"]
             /\ request' = Pull!NoRequest /\ UNCHANGED read
    <2>1. /\ pull' \in Pulls /\ pull'.pc = "ask" /\ pull'.kind = "page" /\ pull'.coll = 1
          /\ pull'.offset = 0 /\ pull'.refs = <<>> /\ pull'.next = 1
      BY <1>0, <1>2 DEF Pulled, PullTypes, Pulls, Pcs, Kinds
    <2>2. PullTypes'
      BY <1>0, <1>2, <2>1 DEF Pulled, PullTypes, Fits, Paging, Loading
    <2>3. Timed'
      BY <1>0, <1>2, <2>1, AnswerTimed
    <2>4. Disjoint'
      BY <1>0 DEF Pulled, Disjoint, Pull!Listed
    <2>5. Gathered(pull, read)'
      BY <2>1 DEF Gathered, Going, Paging, Loading, Covered, Seen
    <2> QED BY <2>2, <2>3, <2>4, <2>5 DEF Pulled
  <1> QED BY <1>1, <1>2 DEF Pull!CollectionsAnswer

\* A page, from the offset on, and the references with it.
PageOf(docs, offset) == SubSeq(docs, offset + 1, Pull!Least(offset + PageSize, Len(docs)))
Joined(s, t) == s \o t

LEMMA PageOps ==
    ASSUME Pull!Assumptions, NEW docs \in Seq(Documents), NEW offset \in Nat
    PROVE  /\ PageOf(docs, offset) \in Seq(Documents)
           /\ Len(PageOf(docs, offset)) \in Nat /\ Len(PageOf(docs, offset)) <= PageSize
           /\ \A i \in 1..Len(PageOf(docs, offset)) : PageOf(docs, offset)[i] \in Pull!Range(docs)
           /\ Len(PageOf(docs, offset)) < PageSize
                => Len(docs) <= offset + Len(PageOf(docs, offset))
  <1> DEFINE end == Pull!Least(offset + PageSize, Len(docs))
             page == SubSeq(docs, offset + 1, end)
  <1>1. end \in Nat /\ end <= offset + PageSize /\ end <= Len(docs) /\ Len(docs) \in Nat
        /\ (end < offset + PageSize => end = Len(docs)) /\ PageSize \in Nat
    BY DEF Pull!Least, Pull!Assumptions
  <1>0. PageOf(docs, offset) = page
    BY DEF PageOf
  <1> HIDE DEF end
  <1>2. page \in Seq(Documents)
    BY <1>1
  <1>3. CASE end <= offset
    <2>1. Len(page) = 0
      BY <1>1, <1>3
    <2> QED BY <1>0, <1>1, <1>2, <1>3, <2>1
  <1>4. CASE offset < end
    <2>1. Len(page) = end - offset /\ \A i \in 1..Len(page) : page[i] = docs[offset + i]
      BY <1>1, <1>4
    <2>2. \A i \in 1..Len(page) : offset + i \in DOMAIN docs
      BY <1>1, <1>4, <2>1
    <2> HIDE DEF page
    <2>3. \A i \in 1..Len(page) : page[i] \in Pull!Range(docs)
      BY <2>1, <2>2 DEF Pull!Range
    <2> QED BY <1>0, <1>1, <1>2, <1>4, <2>1, <2>3
  <1> QED BY <1>1, <1>3, <1>4

LEMMA JoinOps ==
    ASSUME NEW s \in Seq(Documents), NEW t \in Seq(Documents)
    PROVE  /\ Joined(s, t) \in Seq(Documents) /\ Len(Joined(s, t)) = Len(s) + Len(t)
           /\ \A i \in 1..Len(Joined(s, t)) :
                \/ \E j \in 1..Len(s) : Joined(s, t)[i] = s[j]
                \/ \E j \in 1..Len(t) : Joined(s, t)[i] = t[j]
  <1> DEFINE r == s \o t
  <1>0. Joined(s, t) = r
    BY DEF Joined
  <1>1. r \in Seq(Documents) /\ Len(r) = Len(s) + Len(t) /\ Len(s) \in Nat /\ Len(t) \in Nat
    OBVIOUS
  <1>2. ASSUME NEW i \in 1..Len(r), i > Len(s)
        PROVE  i - Len(s) \in 1..Len(t) /\ r[i] = t[i - Len(s)]
    BY <1>1, <1>2
  <1>3. ASSUME NEW i \in 1..Len(r), i <= Len(s)
        PROVE  i \in 1..Len(s) /\ r[i] = s[i]
    BY <1>1, <1>3
  <1> HIDE DEF r
  <1>4. ASSUME NEW i \in 1..Len(r)
        PROVE  \/ \E j \in 1..Len(s) : r[i] = s[j]
               \/ \E j \in 1..Len(t) : r[i] = t[j]
    <2>1. CASE i > Len(s)
      BY <1>2, <2>1
    <2>2. CASE i <= Len(s)
      BY <1>3, <2>2
    <2> QED BY <1>1, <2>1, <2>2
  <1> QED BY <1>0, <1>1, <1>4

\* References to as many documents as a collection has hold its steady ones.
LEMMA LastPage ==
    ASSUME Disjoint, NEW c \in Pull!Collections, NEW refs \in Seq(Documents), Seen(c, refs),
           Len(listing[c]) <= Len(refs)
    PROVE  Holds(c, refs, 1)
  <1>0. listing[c] \in Seq(Documents) /\ DOMAIN listing[c] = 1..Len(listing[c])
        /\ DOMAIN refs = 1..Len(refs)
    BY DEF Disjoint, Apart
  <1> SUFFICES ASSUME ~\E i \in 1..Len(refs) : Dead(refs[i]),
                      ~\E i, j \in DOMAIN refs : i # j /\ refs[i] = refs[j],
                      NEW d, <<c, d>> \in steady
               PROVE  \E i \in DOMAIN refs : refs[i] = d
    BY DEF Holds
  <1>1. Pull!IsInjective(refs)
    BY <1>0 DEF Pull!IsInjective
  <1>2. Pull!Range(refs) \subseteq Pull!Range(listing[c])
    <2>1. \A j \in 1..Len(refs) : refs[j] \in Pull!Listed(c)
      BY <1>0 DEF Seen
    <2> QED BY <1>0, <2>1 DEF Pull!Listed, Pull!Range
  <1>3. Pull!Range(listing[c]) \subseteq Pull!Range(refs)
    BY <1>0, <1>1, <1>2, Pigeons
  <1>4. d \in Pull!Listed(c)
    BY DEF Disjoint, Apart
  <1> QED BY <1>3, <1>4 DEF Pull!Listed, Pull!Range

LEMMA PageKeeps == ASSUME Pull!Assumptions, Pulled, Pull!PageAnswer PROVE Pulled'
  <1>0. /\ Going(pull) /\ UNCHANGED <<now, listing, steady>> /\ pull.kind = "page"
        /\ pull \in Pulls /\ Paging(pull) /\ pull.next = 1
    BY DEF Pull!PageAnswer, Pull!Answer, Going, Goings, Paging, Pulled, PullTypes, Fits
  <1>1. CASE Pull!Fail
    BY <1>0, <1>1, PullFails
  <1>2. CASE ~Pull!Fail
    <2> DEFINE c == Pull!Collection
               docs == listing[c]
               page == PageOf(docs, pull.offset)
               grown == [pull EXCEPT !.refs = @ \o page]
               next == [grown EXCEPT !.pc = "ask", !.offset = @ + PageSize]
    <2>1. /\ ~Pull!Expired
          /\ pull' = IF Pull!IsLast(page) THEN Pull!NextInfo(grown) ELSE next
          /\ request' = Pull!NoRequest /\ UNCHANGED read
      BY <1>2 DEF Pull!PageAnswer, PageOf
    <2>2. c \in Pull!Collections /\ pull.offset \in Nat /\ PageSize \in Nat /\ 0 < PageSize
          /\ pull.refs \in Seq(Documents) /\ Len(pull.refs) \in Nat
          /\ pull.coll \in 1..Len(Selected)
          /\ read \in Seq(Pull!Collections \X Documents) /\ Len(read) \in Nat
      <3>1. PageSize \in Nat /\ 0 < PageSize /\ Selected \in Seq(Pull!Range(Selected))
        BY DEF Pull!Assumptions
      <3>2. read \in Seq(Pull!Collections \X Documents)
        BY DEF Pulled, PullTypes
      <3>3. pull.coll \in DOMAIN Selected
        BY <1>0, <3>1 DEF Pulls
      <3> QED BY <1>0, <3>1, <3>2, <3>3 DEF Pull!Collection, Pull!Collections, Pull!Range, Pulls
    <2>3. docs \in Seq(Documents) /\ Len(docs) \in Nat
      BY <2>2 DEF Pulled, Disjoint, Apart
    <2>4. /\ page \in Seq(Documents) /\ Len(page) <= PageSize /\ Len(page) \in Nat
          /\ \A i \in 1..Len(page) : page[i] \in Pull!Range(docs)
          /\ Len(page) < PageSize => Len(docs) <= pull.offset + Len(page)
      BY <2>2, <2>3, PageOps
    <2> HIDE DEF page, docs
    <2> DEFINE refs == Joined(pull.refs, page)
    <2>5. /\ refs \in Seq(Documents) /\ Len(refs) = Len(pull.refs) + Len(page)
          /\ \A i \in 1..Len(refs) : \/ \E k \in 1..Len(pull.refs) : refs[i] = pull.refs[k]
                                     \/ \E k \in 1..Len(page) : refs[i] = page[k]
      BY <2>2, <2>4, JoinOps
    <2>6. grown = [pull EXCEPT !.refs = refs]
      BY <1>0 DEF Pulls, Joined
    <2> HIDE DEF refs
    <2>7. /\ grown \in Pulls /\ grown.kind = "page" /\ grown.refs = refs /\ grown.coll = pull.coll
          /\ grown.next = 1 /\ grown.offset = pull.offset
      BY <1>0, <2>5, <2>6 DEF Pulls
    <2> HIDE DEF grown
    <2>8. ASSUME ~Crossing PROVE Seen(c, refs) /\ Len(refs) = pull.offset + Len(page)
      <3>1. Gathered(pull, read)
        BY <2>8 DEF Pulled
      <3>2. Seen(c, pull.refs) /\ Len(pull.refs) = pull.offset
        BY <1>0, <3>1 DEF Gathered, Pull!Collection
      <3>3. DOMAIN refs = 1..Len(refs) /\ DOMAIN pull.refs = 1..Len(pull.refs)
        BY <2>2, <2>5
      <3>4. ASSUME NEW i \in 1..Len(refs) PROVE refs[i] \in Pull!Listed(c) \/ Dead(refs[i])
        <4>1. CASE \E k \in 1..Len(pull.refs) : refs[i] = pull.refs[k]
          BY <3>2, <3>3, <4>1 DEF Seen
        <4>2. CASE \E k \in 1..Len(page) : refs[i] = page[k]
          BY <2>4, <4>2 DEF Pull!Listed, docs
        <4> QED BY <2>5, <4>1, <4>2
      <3> QED BY <2>5, <3>2, <3>3, <3>4 DEF Seen
    <2>9. PICK q \in Pulls : /\ q = pull' /\ Fits(q) /\ q.kind # "collections"
                             /\ q.pc \in {"ask", "done"}
                             /\ ~Crossing => Gathered(q, read)
      <3>1. CASE Pull!IsLast(page)
        <4>1. pull' = Pull!NextInfo(grown)
          BY <2>1, <3>1
        <4>2. grown.next \in 1..(Len(grown.refs) + 1)
          BY <2>2, <2>4, <2>5, <2>7
        <4>3. /\ Pull!NextInfo(grown) \in Pulls /\ Fits(Pull!NextInfo(grown))
              /\ Pull!NextInfo(grown).kind # "collections"
              /\ Pull!NextInfo(grown).pc \in {"ask", "done"}
          BY <2>2, <2>7, <4>2, NextInfoOps
        <4>4. ASSUME ~Crossing PROVE Gathered(Pull!NextInfo(grown), read)
          <5>1. Covered(read, grown.coll - 1)
            BY <1>0, <2>7, <4>4 DEF Pulled, Gathered
          <5>2. Loads(read, c, refs, 1)
            BY <2>2 DEF Loads
          <5>3. Len(listing[c]) <= Len(refs)
            BY <2>2, <2>3, <2>4, <2>8, <3>1, <4>4 DEF Pull!IsLast, docs
          <5>4. Holds(c, refs, 1)
            BY <2>2, <2>5, <2>8, <4>4, <5>3, LastPage DEF Pulled
          <5> QED BY <2>2, <2>7, <4>2, <5>1, <5>2, <5>4, NextInfoOps DEF Pull!Collection
        <4> QED BY <4>1, <4>3, <4>4
      <3>2. CASE ~Pull!IsLast(page)
        <4>1. pull' = next
          BY <2>1, <3>2
        <4>2. /\ next \in Pulls /\ next.pc = "ask" /\ next.kind = "page" /\ next.refs = refs
              /\ next.coll = pull.coll /\ next.next = 1 /\ next.offset = pull.offset + PageSize
          <5>1. next = [grown EXCEPT !.pc = "ask", !.offset = pull.offset + PageSize]
            BY <2>7 DEF Pulls
          <5>2. pull.offset + PageSize \in Nat
            BY <2>2
          <5> HIDE DEF next
          <5> QED BY <2>2, <2>7, <5>1, <5>2 DEF Pulls, Pcs
        <4> HIDE DEF next
        <4>3. Fits(next)
          BY <4>2 DEF Fits, Paging, Loading
        <4>4. ASSUME ~Crossing PROVE Gathered(next, read)
          <5>1. Covered(read, next.coll - 1)
            BY <1>0, <4>2, <4>4 DEF Pulled, Gathered
          <5>2. Len(refs) = next.offset
            BY <2>2, <2>4, <2>8, <3>2, <4>2, <4>4 DEF Pull!IsLast
          <5>3. Seen(Selected[next.coll], next.refs)
            BY <2>8, <4>2, <4>4 DEF Pull!Collection
          <5> QED BY <4>2, <5>1, <5>2, <5>3 DEF Gathered, Going, Paging, Loading
        <4> QED BY <4>1, <4>2, <4>3, <4>4
      <3> QED BY <3>1, <3>2
    <2>10. PullTypes'
      BY <2>1, <2>9 DEF Pulled, PullTypes
    <2>11. Timed'
      BY <1>0, <2>1, <2>9, AnswerTimed
    <2>12. Disjoint'
      BY <1>0 DEF Pulled, Disjoint, Pull!Listed
    <2>13. ~Crossing => Gathered(pull, read)'
      BY <1>0, <2>1, <2>9, Arrives
    <2> QED BY <2>10, <2>11, <2>12, <2>13 DEF Pulled
  <1> QED BY <1>1, <1>2

LEMMA InfoKeeps == ASSUME Pull!Assumptions, Pulled, Pull!InfoAnswer PROVE Pulled'
  <1>0. /\ Going(pull) /\ UNCHANGED <<now, listing, steady>> /\ pull.kind = "info"
        /\ pull \in Pulls /\ Loading(pull) /\ pull.next \in 1..Len(pull.refs)
    BY DEF Pull!InfoAnswer, Pull!Answer, Going, Goings, Loading, Pulled, PullTypes, Fits
  <1>1. CASE Pull!Fail
    BY <1>0, <1>1, PullFails
  <1>2. CASE ~Pull!Fail
    <2> DEFINE d == pull.refs[pull.next]
               c == Pull!Collection
               p == [pull EXCEPT !.next = @ + 1]
               rd == Append(read, <<c, d>>)
    <2>1. /\ ~Pull!Expired /\ ~Dead(d)
          /\ read' = rd /\ pull' = Pull!NextInfo(p) /\ request' = Pull!NoRequest
      BY <1>2 DEF Pull!InfoAnswer, Dead
    <2>2. c \in Pull!Collections /\ pull.refs \in Seq(Documents) /\ Len(pull.refs) \in Nat
          /\ pull.coll \in 1..Len(Selected) /\ d \in Documents /\ pull.next \in Nat
          /\ read \in Seq(Pull!Collections \X Documents) /\ DOMAIN pull.refs = 1..Len(pull.refs)
      BY <1>0 DEF Pull!Collection, Pull!Collections, Pull!Range, Pulls, Pull!Assumptions,
         Pulled, PullTypes
    <2>3. /\ p \in Pulls /\ p.kind = "info" /\ p.refs = pull.refs /\ p.coll = pull.coll
          /\ p.next = pull.next + 1
      BY <1>0, <2>2 DEF Pulls
    <2>4. /\ rd \in Seq(Pull!Collections \X Documents) /\ Len(rd) = Len(read) + 1
          /\ \A i \in 1..Len(read) : rd[i] = read[i]
          /\ rd[Len(read) + 1] = <<c, d>> /\ Len(read) \in Nat
          /\ DOMAIN read = 1..Len(read) /\ DOMAIN rd = 1..(Len(read) + 1)
      BY <2>2
    <2> HIDE DEF d, c, p, rd
    <2>5. p.next \in 1..(Len(p.refs) + 1)
      BY <1>0, <2>2, <2>3
    <2>6. /\ Pull!NextInfo(p) \in Pulls /\ Fits(Pull!NextInfo(p))
          /\ Pull!NextInfo(p).kind # "collections" /\ Pull!NextInfo(p).pc \in {"ask", "done"}
      BY <2>3, <2>4, <2>5, NextInfoOps
    <2>7. PullTypes'
      BY <2>1, <2>4, <2>6 DEF PullTypes
    <2>8. Timed'
      BY <1>0, <2>1, <2>6, AnswerTimed
    <2>10. Disjoint'
      BY <1>0 DEF Pulled, Disjoint, Pull!Listed
    <2>9. ASSUME ~Crossing PROVE Gathered(pull, read)'
      <3>1. Gathered(pull, read)
        BY <2>9 DEF Pulled
      <3>3. Covered(rd, p.coll - 1)
        <4>1. Covered(read, p.coll - 1)
          BY <1>0, <2>3, <3>1 DEF Gathered
        <4>2. Pull!IsInjective(rd) => Pull!IsInjective(read)
          BY <2>4 DEF Pull!IsInjective
        <4>3. ASSUME NEW x, \E i \in DOMAIN read : read[i] = x
              PROVE  \E i \in DOMAIN rd : rd[i] = x
          <5>1. PICK i \in DOMAIN read : read[i] = x
            BY <4>3
          <5>2. i \in DOMAIN rd /\ rd[i] = x
            BY <2>4, <5>1
          <5> QED BY <5>2
        <4> QED BY <4>1, <4>2, <4>3 DEF Covered
      <3>4. Loads(rd, c, p.refs, p.next)
        <4>1. Loads(read, c, pull.refs, pull.next)
          BY <1>0, <3>1 DEF Gathered, c, Pull!Collection
        <4>2. p.next <= Len(rd) + 1
          BY <2>2, <2>3, <2>4, <4>1 DEF Loads
        <4>3. ASSUME NEW i \in 1..(p.next - 1)
              PROVE  rd[Len(rd) + 1 - p.next + i] = <<c, p.refs[i]>>
          <5>1. CASE i = pull.next
            <6>1. Len(rd) + 1 - p.next + i = Len(read) + 1
              BY <2>2, <2>3, <2>4, <5>1
            <6> QED BY <2>3, <2>4, <5>1, <6>1 DEF d
          <5>2. CASE i # pull.next
            <6>1. i \in 1..(pull.next - 1)
              BY <2>2, <2>3, <5>2
            <6>2. Len(rd) + 1 - p.next + i = Len(read) + 1 - pull.next + i
              BY <2>2, <2>3, <2>4
            <6>3. Len(read) + 1 - pull.next + i \in 1..Len(read)
              BY <2>2, <2>4, <4>1, <6>1 DEF Loads
            <6>4. read[Len(read) + 1 - pull.next + i] = <<c, pull.refs[i]>>
              BY <4>1, <6>1 DEF Loads
            <6> QED BY <2>3, <2>4, <6>2, <6>3, <6>4
          <5> QED BY <5>1, <5>2
        <4> QED BY <4>2, <4>3 DEF Loads
      <3>5. Holds(c, p.refs, p.next)
        <4>1. Holds(c, pull.refs, pull.next)
          BY <1>0, <3>1 DEF Gathered, c, Pull!Collection
        <4>2. ASSUME NEW i \in pull.next..Len(pull.refs), Dead(pull.refs[i])
              PROVE  i \in p.next..Len(p.refs)
          <5>1. i # pull.next
            BY <2>1, <4>2 DEF d
          <5> QED BY <2>2, <2>3, <4>2, <5>1
        <4> QED BY <2>3, <4>1, <4>2 DEF Holds
      <3>6. Gathered(Pull!NextInfo(p), rd)
        BY <2>3, <2>4, <2>5, <3>3, <3>4, <3>5, NextInfoOps DEF c, Pull!Collection
      <3>7. Gathered(pull, read)'
        BY <1>0, <2>1, <3>6, Arrives
      <3> QED BY <3>7
    <2> QED BY <2>7, <2>8, <2>9, <2>10 DEF Pulled
  <1> QED BY <1>1, <1>2

LEMMA RefusalKeeps == ASSUME Pulled, Pull!Refusal PROVE Pulled'
  BY PullFails DEF Pull!Refusal, Going, Goings

LEMMA PullNext == ASSUME Pull!Assumptions, Pulled, [Pull!Next]_(Pull!vars) PROVE Pulled'
  <1>1. CASE UNCHANGED Pull!vars
    <2>1. PullTypes' /\ Timed' /\ Disjoint'
      BY <1>1 DEF Pulled, PullTypes, Timed, Disjoint, Pull!vars, Fits, Paging, Loading, Going,
         Pull!Listed
    <2>2. ~Crossing => Gathered(pull, read)'
      BY <1>1, Arrives DEF Pulled, Pull!vars
    <2> QED BY <2>1, <2>2 DEF Pulled
  <1>2. CASE Pull!Next
    BY <1>2, StartKeeps, AskKeeps, WaitKeeps, PartKeeps, TroubleKeeps, RefusalKeeps, WakeKeeps,
       TickKeeps,
       CollectionsKeeps, PageKeeps, InfoKeeps, CreateKeeps, DeleteKeeps, MoveKeeps DEF
       Pull!Next, Pull!Work, Pull!Answers
  <1> QED BY <1>1, <1>2

LEMMA PulledMeans == ASSUME Pull!Assumptions, Pulled PROVE Pull!PullIsSound
  <1>1. Pull!InTime
    <2>1. Duration < Allowed(request.waits + 1) /\ Allowed(request.waits + 1) \in Nat
      BY TimeTypes, AllowedGrows
    <2>2. Pull!Underway => now < Allowed(request.waits + 1)
      BY <2>1, TimeTypes DEF Pull!Underway, Pulled, Timed
    <2>3. pull.pc = "done" => now < Duration
      BY DEF Pulled, Timed
    <2> QED BY <2>2, <2>3 DEF Pull!InTime, Allowed
  <1>2. ASSUME ~Crossing, Pull!Sealed, NEW x \in steady PROVE x \in Pull!Range(read)
    <2>1. Covered(read, Len(Selected)) /\ Pull!IsInjective(read)
      BY <1>2 DEF Pulled, Gathered, Pull!Sealed
    <2>2. PICK c \in Pull!Collections, d \in Documents : x = <<c, d>>
      BY <1>2 DEF Pulled, Disjoint
    <2>3. PICK j \in 1..Len(Selected) : c = Selected[j]
      BY DEF Pull!Collections, Pull!Range, Pull!Assumptions
    <2>4. PICK i \in DOMAIN read : read[i] = <<Selected[j], d>>
      BY <1>2, <2>1, <2>2, <2>3 DEF Covered
    <2> QED BY <2>2, <2>3, <2>4 DEF Pull!Range
  <1> QED BY <1>1, <1>2 DEF Pull!PullIsSound, Pull!SteadyAreRead

\* A pull is done before its deadline or not at all; one that is under way outlives it by less
\* than one timeout for each wait of httpx since the code last looked at the clock; and what it
\* seals holds every document that stayed in its collection, unless documents cross from one
\* to another (load_yonote_documents, _get_paginated, _ensure_operation_active, _request): for
\* any documents, collections, edits, page size, timeouts, retries, pauses and waits.
THEOREM PullSound == ASSUME Pull!Assumptions PROVE Pull!Spec => []Pull!PullIsSound
  <1>1. Pull!Spec => []Pulled
    BY InitPulled, PullNext, PTL DEF Pull!Spec
  <1> QED BY <1>1, PulledMeans, PTL
-----------------------------------------------------------------------------

\* No request is repeated more often, no response has more parts, and no wait is longer or
\* repeated more often than the pull allows.
Tallied ==
    /\ request.attempt <= MaxRetries /\ request.parts <= MaxParts
    /\ request.waits <= MaxWaits
    /\ request.patience <= Timeout
    /\ moves \in 0..MaxMoves

LEMMA TalliedInit == ASSUME Pull!Assumptions, Pull!Init PROVE Tallied
  BY DEF Pull!Assumptions, Pull!Init, Pull!NoRequest, Tallied

LEMMA TalliedNext ==
    ASSUME Pull!Assumptions, Pulled, Tallied, [Pull!Next]_(Pull!vars)
    PROVE  Tallied'
  <1>0. /\ request \in PullRequests /\ MaxWaits \in Nat
        /\ MaxRetries \in Nat /\ MaxParts \in Nat /\ MaxMoves \in Nat /\ moves \in 0..MaxMoves
    BY DEF Pulled, Timed, Tallied, Pull!Assumptions
  <1>1. CASE UNCHANGED <<request, moves>>
    BY <1>1 DEF Tallied
  <1>2. CASE request' = Pull!NoRequest /\ UNCHANGED moves
    BY <1>0, <1>2, TimeTypes DEF Tallied, Pull!NoRequest
  <1>3. CASE Pull!Ask
    <2> DEFINE l == Pull!Least(Timeout, Duration - now)
    <2>1. CASE /\ request' = [request EXCEPT !.patience = l, !.until = now + l, !.parts = 0,
                                             !.waits = 0]
               /\ ~Pull!Expired
      <3>1. l \in Nat /\ l <= Timeout /\ now + l \in Nat
        BY <2>1, TimeTypes DEF Pull!Expired, Pull!Least
      <3> HIDE DEF l
      <3>2. request'.attempt = request.attempt /\ request'.parts = 0 /\ request'.patience = l
            /\ request'.waits = 0
        BY <1>0, <2>1 DEF PullRequests
      <3> QED BY <1>0, <1>3, <3>1, <3>2 DEF Tallied, Pull!Ask
    <2> QED BY <1>1, <1>3, <2>1 DEF Pull!Ask, Pull!Fail
  <1>4. CASE Pull!Part
    <2>1. CASE /\ request.parts # MaxParts
               /\ request' = [request EXCEPT !.parts = @ + 1, !.waits = 0,
                                             !.until = now + request.patience]
      <3>1. request'.attempt = request.attempt /\ request'.parts = request.parts + 1
            /\ request'.patience = request.patience /\ request'.waits = 0
        BY <1>0, <2>1 DEF PullRequests
      <3> QED BY <1>0, <1>4, <2>1, <3>1, TimeTypes DEF Tallied, Pull!Part
    <2> QED BY <1>1, <1>4, <2>1 DEF Pull!Part, Pull!Fail
  <1>5. CASE Pull!Trouble
    <2>1. CASE Pull!Expired \/ request.attempt = MaxRetries
      BY <1>1, <1>5, <2>1 DEF Pull!Trouble, Pull!Fail
    <2>2. CASE ~(Pull!Expired \/ request.attempt = MaxRetries)
      <3>1. PICK delay \in Delays :
              request' = [request EXCEPT !.until = now + Pull!Least(delay, Duration - now),
                                         !.attempt = @ + 1, !.waits = 0]
        BY <1>5, <2>2 DEF Pull!Trouble
      <3>2. request'.attempt = request.attempt + 1 /\ request'.parts = request.parts
            /\ request'.patience = request.patience /\ request'.waits = 0
        BY <1>0, <3>1 DEF PullRequests
      <3>3. moves' = moves
        BY <1>5 DEF Pull!Trouble
      <3> QED BY <1>0, <2>2, <3>2, <3>3, TimeTypes DEF Tallied
    <2> QED BY <2>1, <2>2
  <1>8. CASE Pull!Wait
    <2>1. request'.attempt = request.attempt /\ request'.parts = request.parts
          /\ request'.patience = request.patience /\ request'.waits = request.waits + 1
      BY <1>0, <1>8 DEF Pull!Wait, PullRequests
    <2> QED BY <1>0, <1>8, <2>1, TimeTypes DEF Tallied, Pull!Wait
  <1>6. CASE Pull!Create \/ Pull!Delete \/ Pull!Move
    BY <1>0, <1>6 DEF Tallied, Pull!Create, Pull!Delete, Pull!Move, Pull!Edit
  <1>7. CASE Pull!Start \/ Pull!Wake \/ Pull!Tick \/ Pull!Refusal \/ Pull!Answers
    BY <1>1, <1>2, <1>7
    DEF Pull!Start, Pull!Wake, Pull!Tick, Pull!Refusal, Pull!Answers, Pull!Answer, Pull!Fail,
        Pull!CollectionsAnswer, Pull!PageAnswer, Pull!InfoAnswer
  <1> QED
    BY <1>1, <1>3, <1>4, <1>5, <1>6, <1>7, <1>8 DEF Pull!Next, Pull!Work, Pull!vars

LEMMA PulledTypes == ASSUME Pull!Assumptions, Pulled, Tallied PROVE Pull!TypeOK
  <1>1. DOMAIN Selected = 1..Len(Selected)
    BY DEF Pull!Assumptions
  <1>2. request \in [attempt : 0..MaxRetries, patience : 0..Timeout, until : Nat,
                     parts : 0..MaxParts, waits : 0..MaxWaits]
    BY TimeTypes DEF PullRequests, Tallied, Pull!Assumptions
  <1>3. pull \in [pc : {"idle", "ask", "waiting", "sleeping", "done", "failed"},
                  kind : {"collections", "page", "info"}, coll : DOMAIN Selected,
                  offset : Nat, refs : Seq(Documents), next : Nat]
    BY <1>1 DEF Pulled, PullTypes, Pulls, Pcs, Kinds
  <1> QED
    BY <1>2, <1>3
    DEF Pull!TypeOK, Pulled, PullTypes, Timed, Disjoint, Apart, Tallied

\* What the pull asks for, waits for and has read has its type; no request is repeated more
\* often and no response read in more parts than allowed (YonoteClient._request), for any
\* documents and bounds.
THEOREM PullTyped == ASSUME Pull!Assumptions PROVE Pull!Spec => []Pull!TypeOK
  <1>1. Pull!Spec => [](Pulled /\ Tallied)
    BY InitPulled, PullNext, TalliedInit, TalliedNext, PTL DEF Pull!Spec
  <1> QED BY <1>1, PulledTypes, PTL

-----------------------------------------------------------------------------
(* The naming of the chunks (ChunkIdentity).                              *)

CONSTANTS
  NamedDocuments, SameSlug, SharedSlug, SectionTexts, Heading, MaxSections, MaxHandEdits,
  MaxRemovals, MinForRatio
VARIABLES records, snapshot, edits

Id == INSTANCE ChunkIdentity WITH
  Documents <- NamedDocuments, seed <- records, Texts <- SectionTexts, MaxEdits <- MaxHandEdits

-----------------------------------------------------------------------------
\* Finite sets and their sizes

\* The finite sets and the sizes of the module are those of the library.
LEMMA Sizes ==
    /\ \A S : Id!Cardinality(S) = Cardinality(S)
    /\ \A S : Id!IsFiniteSet(S) <=> IsFiniteSet(S)
  <1>1. \A S : Id!Cardinality(S) = Cardinality(S)
    BY Zenon DEF Id!Cardinality, Cardinality
  <1>2. \A S : Id!IsFiniteSet(S) <=> IsFiniteSet(S)
    BY Zenon DEF Id!IsFiniteSet, IsFiniteSet
  <1> QED BY <1>1, <1>2

\* A function that tells the elements of a finite set apart: there are as many of its values.
LEMMA ImageSize ==
    ASSUME NEW S, IsFiniteSet(S), NEW f, DOMAIN f = S, f \in [S -> {f[x] : x \in S}],
           \A x, y \in S : f[x] = f[y] => x = y
    PROVE  /\ IsFiniteSet({f[x] : x \in S})
           /\ Cardinality({f[x] : x \in S}) = Cardinality(S)
  <1> DEFINE T == {f[x] : x \in S}
  <1>1. f \in Surjection(S, T)
    BY DEF Surjection
  <1>2. f \in Injection(S, T)
    BY DEF Injection, IsInjective
  <1>3. IsFiniteSet(T)
    BY <1>1, FS_Surjection
  <1>4. Cardinality(T) = Cardinality(S)
    BY <1>1, <1>2, <1>3, FS_Injection
  <1> QED BY <1>3, <1>4

\* There are at most as many, if they are all in a finite set.
LEMMA IntoSize ==
    ASSUME NEW S, NEW T, IsFiniteSet(T), NEW f \in [S -> T],
           \A x, y \in S : f[x] = f[y] => x = y
    PROVE  IsFiniteSet(S) /\ Cardinality(S) <= Cardinality(T)
  <1>1. f \in Injection(S, T)
    BY DEF Injection, IsInjective
  <1> QED BY <1>1, FS_Injection

\* A finite set is as large as its two parts together.
LEMMA SplitSize ==
    ASSUME NEW S, NEW T, IsFiniteSet(S)
    PROVE  /\ IsFiniteSet(S \cap T) /\ IsFiniteSet(S \ T)
           /\ Cardinality(S \cap T) \in Nat /\ Cardinality(S \ T) \in Nat
           /\ Cardinality(S) = Cardinality(S \cap T) + Cardinality(S \ T)
  <1>1. IsFiniteSet(S \cap T) /\ IsFiniteSet(S \ T)
    BY FS_Intersection, FS_Difference
  <1>2. Cardinality(S \ T) = Cardinality(S) - Cardinality(S \cap T)
    BY FS_Difference
  <1>3. Cardinality(S \cap T) \in Nat /\ Cardinality(S \ T) \in Nat /\ Cardinality(S) \in Nat
    BY <1>1, FS_CardinalityType
  <1> QED BY <1>1, <1>2, <1>3

-----------------------------------------------------------------------------
\* Places

\* The elements of S have rows that tell them apart, as the sections of a document have.
InRows(S) ==
    /\ IsFiniteSet(S)
    /\ \A x \in S : x[2] \in Nat
    /\ \A x, y \in S : x[2] = y[2] => x = y

UpTo(S, n) == {y \in S : y[2] <= n}

\* The place of a section counts those up to its row.
LEMMA PlaceIs ==
    ASSUME NEW S, NEW x PROVE Id!Place(S, x) = Cardinality(UpTo(S, x[2]))
  BY Sizes DEF Id!Place, UpTo

\* The places count from one in the order of the rows.
LEMMA PlaceOrder ==
    ASSUME NEW S, InRows(S), NEW x \in S
    PROVE  /\ Id!Place(S, x) \in 1..Cardinality(S)
           /\ \A y \in S : Id!Place(S, x) <= Id!Place(S, y) <=> x[2] <= y[2]
  <1>1. ASSUME NEW n PROVE IsFiniteSet(UpTo(S, n)) /\ Cardinality(UpTo(S, n)) \in Nat
                           /\ Cardinality(UpTo(S, n)) <= Cardinality(S)
    <2>1. UpTo(S, n) \in SUBSET S
      BY DEF UpTo
    <2>2. IsFiniteSet(S)
      BY DEF InRows
    <2>3. IsFiniteSet(UpTo(S, n)) /\ Cardinality(UpTo(S, n)) <= Cardinality(S)
      BY <2>1, <2>2, FS_Subset
    <2> QED BY <2>3, FS_CardinalityType
  <1>2. ASSUME NEW y \in S, NEW z \in S, y[2] <= z[2]
        PROVE  Cardinality(UpTo(S, y[2])) <= Cardinality(UpTo(S, z[2]))
    <2>1. UpTo(S, y[2]) \in SUBSET UpTo(S, z[2])
      BY <1>2 DEF UpTo, InRows
    <2> QED BY <1>1, <2>1, FS_Subset
  <1>3. ASSUME NEW y \in S, NEW z \in S, y[2] < z[2]
        PROVE  Cardinality(UpTo(S, y[2])) < Cardinality(UpTo(S, z[2]))
    <2>0. y[2] \in Nat /\ z[2] \in Nat
      BY DEF InRows
    <2>1. UpTo(S, y[2]) \in SUBSET UpTo(S, z[2])
      BY <1>3 DEF UpTo, InRows
    <2>2. z \in UpTo(S, z[2]) /\ z \notin UpTo(S, y[2])
      BY <1>3, <2>0 DEF UpTo
    <2>3. Cardinality(UpTo(S, y[2])) # Cardinality(UpTo(S, z[2]))
      BY <1>1, <2>1, <2>2, FS_Subset
    <2>4. Cardinality(UpTo(S, y[2])) <= Cardinality(UpTo(S, z[2]))
      BY <1>2, <1>3, <2>0
    <2> QED BY <1>1, <2>3, <2>4
  <1>4. Cardinality(UpTo(S, x[2])) >= 1
    <2>1. x \in UpTo(S, x[2])
      BY DEF UpTo, InRows
    <2>2. Cardinality(UpTo(S, x[2])) # 0
      BY <1>1, <2>1, FS_EmptySet
    <2> QED BY <1>1, <2>2
  <1>5. Id!Place(S, x) \in 1..Cardinality(S)
    <2>1. Cardinality(S) \in Nat
      BY FS_CardinalityType DEF InRows
    <2> QED BY <1>1, <1>4, <2>1, PlaceIs
  <1>6. ASSUME NEW y \in S PROVE Id!Place(S, x) <= Id!Place(S, y) <=> x[2] <= y[2]
    <2>0. x[2] \in Nat /\ y[2] \in Nat
      BY DEF InRows
    <2>1. CASE x[2] <= y[2]
      BY <1>2, <2>1, PlaceIs
    <2>2. CASE y[2] < x[2]
      <3>1. Cardinality(UpTo(S, y[2])) < Cardinality(UpTo(S, x[2]))
        BY <1>3, <2>2
      <3> QED BY <1>1, <2>0, <2>2, <3>1, PlaceIs
    <2> QED BY <2>0, <2>1, <2>2
  <1> QED BY <1>5, <1>6

\* Every number up to the size of the set is the place of one element.
LEMMA PlaceOfOne ==
    ASSUME NEW S, InRows(S)
    PROVE  /\ \A x, y \in S : Id!Place(S, x) = Id!Place(S, y) => x = y
           /\ \A n \in 1..Cardinality(S) : \E x \in S : Id!Place(S, x) = n
  <1> DEFINE f == [x \in S |-> Id!Place(S, x)]
             m == Cardinality(S)
  <1>1. m \in Nat /\ IsFiniteSet(S)
    BY FS_CardinalityType DEF InRows
  <1>2. ASSUME NEW x \in S, NEW y \in S, Id!Place(S, x) = Id!Place(S, y) PROVE x = y
    <2>1. Id!Place(S, x) \in Int /\ Id!Place(S, y) \in Int
      BY <1>1, PlaceOrder
    <2>2. x[2] <= y[2] /\ y[2] <= x[2]
      BY <1>2, <2>1, PlaceOrder
    <2> QED BY <2>2 DEF InRows
  <1>3. f \in [S -> 1..m]
    BY PlaceOrder
  <1>4. f \in Injection(S, 1..m)
    BY <1>2, <1>3 DEF Injection, IsInjective
  <1>5. IsFiniteSet(1..m) /\ Cardinality(1..m) = m
    <2>1. 1 \in Int /\ m \in Int
      BY <1>1
    <2>2. IsFiniteSet(1..m) /\ Cardinality(1..m) = IF 1 > m THEN 0 ELSE m - 1 + 1
      BY <2>1, FS_Interval, Zenon
    <2> QED BY <1>1, <2>2
  <1>6. f \in Surjection(S, 1..m)
    BY <1>4, <1>5, FS_Injection
  <1>7. \A n \in 1..m : \E x \in S : f[x] = n
    BY <1>6 DEF Surjection
  <1> QED BY <1>2, <1>7

-----------------------------------------------------------------------------
\* The sections of a snapshot and their raw IDs

\* Sections are pairs of a document of the snapshot and a row of it; they are finitely many.
LEMMA SectionTypes ==
    ASSUME Id!Assumptions, NEW s \in Id!Snapshots
    PROVE  /\ IsFiniteSet(Id!Sections(s)) /\ DOMAIN s \subseteq NamedDocuments
           /\ \A x \in Id!Sections(s) :
                /\ x = <<x[1], x[2]>> /\ x[1] \in DOMAIN s /\ x[2] \in DOMAIN s[x[1]]
                /\ x[2] \in 1..MaxSections /\ x[2] \in Nat
                /\ s[x[1]][x[2]] \in SectionTexts
           /\ \A d \in DOMAIN s : \A i \in DOMAIN s[d] : <<d, i>> \in Id!Sections(s)
  <1>1. PICK D \in SUBSET NamedDocuments : s \in [D -> Id!Bodies]
    BY DEF Id!Snapshots
  <1>2. ASSUME NEW d \in DOMAIN s
        PROVE  /\ DOMAIN s[d] \subseteq 1..MaxSections
               /\ \A i \in DOMAIN s[d] : s[d][i] \in SectionTexts
    <2>1. PICK n \in 0..MaxSections : s[d] \in [1..n -> SectionTexts]
      BY <1>1, <1>2 DEF Id!Bodies
    <2> QED BY <2>1 DEF Id!Assumptions
  <1>3. ASSUME NEW x \in Id!Sections(s)
        PROVE  x = <<x[1], x[2]>> /\ x[1] \in DOMAIN s /\ x[2] \in DOMAIN s[x[1]]
    <2>1. PICK d \in DOMAIN s : x \in {d} \X DOMAIN s[d]
      BY DEF Id!Sections
    <2> QED BY <2>1
  <1>4. Id!Sections(s) \subseteq NamedDocuments \X (1..MaxSections)
    BY <1>1, <1>2, <1>3
  <1>5. IsFiniteSet(NamedDocuments \X (1..MaxSections))
    <2>1. IsFiniteSet(NamedDocuments)
      BY Sizes DEF Id!Assumptions
    <2>2. IsFiniteSet(1..MaxSections)
      BY FS_Interval DEF Id!Assumptions
    <2> QED BY <2>1, <2>2, FS_Product
  <1>6. IsFiniteSet(Id!Sections(s))
    BY <1>4, <1>5, FS_Subset
  <1>7. \A x \in Id!Sections(s) : /\ x[2] \in 1..MaxSections /\ x[2] \in Nat
                                  /\ s[x[1]][x[2]] \in SectionTexts
    BY <1>2, <1>3
  <1>8. \A d \in DOMAIN s : \A i \in DOMAIN s[d] : <<d, i>> \in Id!Sections(s)
    BY DEF Id!Sections
  <1> QED BY <1>1, <1>3, <1>6, <1>7, <1>8

\* One document at most has the shared slug, and then it is the only one of the snapshot.
LEMMA SlugIs ==
    ASSUME NEW s, NEW d \in DOMAIN s
    PROVE  \/ Id!SlugOf(s, d) = d
           \/ Id!SlugOf(s, d) = SharedSlug /\ SameSlug \cap DOMAIN s = {d}
  BY DEF Id!SlugOf

\* Raw IDs tell the sections of a snapshot apart.
LEMMA RawIdTells ==
    ASSUME Id!Assumptions, NEW s \in Id!Snapshots, NEW x \in Id!Sections(s),
           NEW y \in Id!Sections(s), Id!RawId(s, x) = Id!RawId(s, y)
    PROVE  x = y
  <1>1. Id!SlugOf(s, x[1]) = Id!SlugOf(s, y[1]) /\ x[2] = y[2]
    BY DEF Id!RawId
  <1>2. x[1] \in DOMAIN s /\ y[1] \in DOMAIN s /\ DOMAIN s \subseteq NamedDocuments
        /\ x = <<x[1], x[2]>> /\ y = <<y[1], y[2]>>
    BY SectionTypes
  <1>3. SharedSlug \notin NamedDocuments
    BY DEF Id!Assumptions
  <1>4. x[1] = y[1]
    BY <1>1, <1>2, <1>3, SlugIs
  <1> QED BY <1>1, <1>2, <1>4

\* The sections of a document are in rows.
LEMMA SectionRows ==
    ASSUME Id!Assumptions, NEW s \in Id!Snapshots, NEW d,
           NEW S \in SUBSET {x \in Id!Sections(s) : x[1] = d}
    PROVE  InRows(S)
  <1>1. S \in SUBSET Id!Sections(s)
    OBVIOUS
  <1>2. IsFiniteSet(S)
    BY <1>1, SectionTypes, FS_Subset
  <1>3. \A x \in S : x[2] \in Nat /\ x = <<d, x[2]>>
    BY <1>1, SectionTypes
  <1> QED BY <1>2, <1>3 DEF InRows

-----------------------------------------------------------------------------
\* The seed

\* The records of the seed have their types, and an ID has the slug of its document, or the
\* shared slug if that document is one of those that may have it.
Named(k) ==
    /\ k = [o \in DOMAIN k |-> k[o]]
    /\ IsFiniteSet(DOMAIN k) /\ DOMAIN k \subseteq Id!Ids
    /\ \A o \in DOMAIN k :
         /\ k[o] \in [doc : NamedDocuments, text : SectionTexts]
         /\ \/ o.slug = k[o].doc
            \/ o.slug = SharedSlug /\ k[o].doc \in SameSlug

\* An ID of the seed with the slug that a document has now is one of that document, unless it
\* is one of a document that is gone.
LEMMA OwnSlug ==
    ASSUME Id!Assumptions, NEW s \in Id!Snapshots, NEW k, Named(k), NEW o \in DOMAIN k,
           k[o].doc \in DOMAIN s, NEW d \in DOMAIN s, o.slug = Id!SlugOf(s, d)
    PROVE  k[o].doc = d
  <1>1. d \in NamedDocuments /\ k[o].doc \in NamedDocuments /\ SharedSlug \notin NamedDocuments
    BY SectionTypes DEF Named, Id!Assumptions
  <1>2. \/ o.slug = k[o].doc
        \/ o.slug = SharedSlug /\ k[o].doc \in SameSlug
    BY DEF Named
  <1> QED BY <1>1, <1>2, SlugIs

\* Where the text of a section is held once, and where it occurs once.
LEMMA MatchedIs ==
    ASSUME Id!Assumptions, NEW s \in Id!Snapshots, NEW k, Named(k), NEW x \in Id!Sections(s)
    PROVE  x \in Id!Matched(k, s) <=>
             /\ \E o \in DOMAIN k : Id!Holding(k, x[1], Id!Body(s, x)) = {o}
             /\ Id!Occurring(s, x[1], Id!Body(s, x)) = {x[2]}
  <1> DEFINE H == Id!Holding(k, x[1], Id!Body(s, x))
             O == Id!Occurring(s, x[1], Id!Body(s, x))
  <1>1. H \in SUBSET DOMAIN k /\ IsFiniteSet(DOMAIN k)
    BY DEF Id!Holding, Named
  <1>2. IsFiniteSet(H)
    BY <1>1, FS_Subset
  <1>3. O \in SUBSET (1..MaxSections) /\ x[2] \in O
    <2>1. x[1] \in DOMAIN s /\ x[2] \in DOMAIN s[x[1]]
      BY SectionTypes
    <2>2. \A i \in DOMAIN s[x[1]] : <<x[1], i>> \in Id!Sections(s)
      BY <2>1, SectionTypes
    <2>3. \A i \in DOMAIN s[x[1]] : <<x[1], i>>[2] \in 1..MaxSections
      BY <2>2, SectionTypes
    <2> QED BY <2>1, <2>3 DEF Id!Occurring, Id!Body
  <1>4. IsFiniteSet(O)
    <2>1. IsFiniteSet(1..MaxSections)
      BY FS_Interval DEF Id!Assumptions
    <2> QED BY <1>3, <2>1, FS_Subset
  <1>5. x \in Id!Matched(k, s) <=> Cardinality(H) = 1 /\ Cardinality(O) = 1
    BY Sizes DEF Id!Matched
  <1>6. Cardinality(H) = 1 <=> \E o : H = {o}
    BY <1>2, FS_Singleton
  <1>7. Cardinality(O) = 1 <=> \E o : O = {o}
    BY <1>4, FS_Singleton
  <1>8. (\E o : O = {o}) <=> O = {x[2]}
    BY <1>3
  <1>9. (\E o : H = {o}) <=> \E o \in DOMAIN k : H = {o}
    BY <1>1
  <1> HIDE DEF H, O
  <1>10. x \in Id!Matched(k, s) <=> (\E o \in DOMAIN k : H = {o}) /\ O = {x[2]}
    BY <1>5, <1>6, <1>7, <1>8, <1>9
  <1> QED BY <1>10 DEF H, O

-----------------------------------------------------------------------------
\* The names of one synchronisation

Taken(k, s) == Id!Range(Id!Kept(k, s))
NewIds(k, s) == Id!Assigned(s, Id!Kept(k, s))
Moved(k, s, d) == Id!Displaced(s, Id!Kept(k, s), d)
Freed(k, s, d) == Id!Vacated(s, Id!Kept(k, s), d)

\* A matched section keeps the one ID under which the seed holds its text, and no other has it.
LEMMA KeptFacts ==
    ASSUME Id!Assumptions, NEW s \in Id!Snapshots, NEW k, Named(k)
    PROVE  /\ DOMAIN Id!Kept(k, s) = Id!Matched(k, s)
           /\ Id!Matched(k, s) \subseteq Id!Sections(s)
           /\ Taken(k, s) = {Id!Kept(k, s)[x] : x \in Id!Matched(k, s)}
           /\ Taken(k, s) \subseteq DOMAIN k
           /\ \A x \in Id!Matched(k, s) :
                /\ Id!Kept(k, s)[x] \in DOMAIN k
                /\ Id!Holding(k, x[1], Id!Body(s, x)) = {Id!Kept(k, s)[x]}
                /\ k[Id!Kept(k, s)[x]].doc = x[1]
                /\ k[Id!Kept(k, s)[x]].text = Id!Body(s, x)
           /\ \A x, y \in Id!Matched(k, s) : Id!Kept(k, s)[x] = Id!Kept(k, s)[y] => x = y
  <1>1. /\ DOMAIN Id!Kept(k, s) = Id!Matched(k, s)
        /\ Id!Matched(k, s) \subseteq Id!Sections(s)
        /\ \A x \in Id!Matched(k, s) :
             Id!Kept(k, s)[x] = CHOOSE o \in Id!Holding(k, x[1], Id!Body(s, x)) : TRUE
    BY DEF Id!Kept, Id!Matched
  <1>2. Taken(k, s) = {Id!Kept(k, s)[x] : x \in Id!Matched(k, s)}
    BY <1>1, Zenon DEF Taken, Id!Range
  <1>3. ASSUME NEW x \in Id!Matched(k, s)
        PROVE  /\ Id!Kept(k, s)[x] \in DOMAIN k
               /\ Id!Holding(k, x[1], Id!Body(s, x)) = {Id!Kept(k, s)[x]}
               /\ k[Id!Kept(k, s)[x]].doc = x[1]
               /\ k[Id!Kept(k, s)[x]].text = Id!Body(s, x)
    <2>1. PICK o \in DOMAIN k : Id!Holding(k, x[1], Id!Body(s, x)) = {o}
      BY <1>1, MatchedIs
    <2>2. Id!Kept(k, s)[x] = o
      BY <1>1, <2>1
    <2>3. k[o].doc = x[1] /\ k[o].text = Id!Body(s, x)
      BY <2>1 DEF Id!Holding
    <2> QED BY <2>1, <2>2, <2>3
  <1>4. ASSUME NEW x \in Id!Matched(k, s), NEW y \in Id!Matched(k, s),
               Id!Kept(k, s)[x] = Id!Kept(k, s)[y]
        PROVE  x = y
    <2>1. x[1] = y[1] /\ Id!Body(s, x) = Id!Body(s, y)
      BY <1>3, <1>4
    <2>2. {x[2]} = {y[2]}
      BY <1>1, <2>1, MatchedIs
    <2>3. x = <<x[1], x[2]>> /\ y = <<y[1], y[2]>>
      BY <1>1, SectionTypes
    <2> QED BY <2>1, <2>2, <2>3
  <1>5. Taken(k, s) \subseteq DOMAIN k
    BY <1>2, <1>3
  <1> QED BY <1>1, <1>2, <1>3, <1>4, <1>5

\* A raw ID that is taken is taken by a section of the same document.
LEMMA TakenInside ==
    ASSUME Id!Assumptions, NEW s \in Id!Snapshots, NEW k, Named(k),
           NEW x \in Id!Sections(s), NEW y \in Id!Matched(k, s),
           Id!RawId(s, x) = Id!Kept(k, s)[y]
    PROVE  y[1] = x[1]
  <1> DEFINE o == Id!Kept(k, s)[y]
  <1>1. o \in DOMAIN k /\ k[o].doc = y[1] /\ y \in Id!Sections(s)
    BY KeptFacts
  <1>2. y[1] \in DOMAIN s /\ x[1] \in DOMAIN s
    BY <1>1, SectionTypes
  <1>3. o.slug = Id!SlugOf(s, x[1])
    BY DEF Id!RawId
  <1> HIDE DEF o
  <1> QED BY <1>1, <1>2, <1>3, OwnSlug

\* The displaced and the vacated sections of a document, and that they are in rows.
LEMMA MovedIs ==
    ASSUME Id!Assumptions, NEW s \in Id!Snapshots, NEW k, Named(k), NEW d
    PROVE  /\ Moved(k, s, d) = {x \in Id!Sections(s) \ Id!Matched(k, s) :
                                   x[1] = d /\ Id!RawId(s, x) \in Taken(k, s)}
           /\ Freed(k, s, d) = {x \in Id!Matched(k, s) :
                                   x[1] = d /\ Id!RawId(s, x) \notin Taken(k, s)}
           /\ InRows(Moved(k, s, d)) /\ InRows(Freed(k, s, d))
  <1>1. DOMAIN Id!Kept(k, s) = Id!Matched(k, s) /\ Id!Matched(k, s) \subseteq Id!Sections(s)
    BY KeptFacts
  <1>2. Moved(k, s, d) = {x \in Id!Sections(s) \ Id!Matched(k, s) :
                             x[1] = d /\ Id!RawId(s, x) \in Taken(k, s)}
    BY <1>1, Zenon DEF Moved, Id!Displaced, Taken
  <1>3. Freed(k, s, d) = {x \in Id!Matched(k, s) :
                             x[1] = d /\ Id!RawId(s, x) \notin Taken(k, s)}
    BY <1>1, Zenon DEF Freed, Id!Vacated, Taken
  <1>4. Moved(k, s, d) \in SUBSET {x \in Id!Sections(s) : x[1] = d}
    BY <1>2
  <1>5. Freed(k, s, d) \in SUBSET {x \in Id!Sections(s) : x[1] = d}
    BY <1>1, <1>3
  <1>6. InRows(Moved(k, s, d))
    BY <1>4, SectionRows
  <1>7. InRows(Freed(k, s, d))
    BY <1>5, SectionRows
  <1> QED BY <1>2, <1>3, <1>6, <1>7

\* A document has an ID to give to each of its displaced sections.
LEMMA EnoughFree ==
    ASSUME Id!Assumptions, NEW s \in Id!Snapshots, NEW k, Named(k), NEW d
    PROVE  /\ Cardinality(Moved(k, s, d)) <= Cardinality(Freed(k, s, d))
           /\ Cardinality(Moved(k, s, d)) \in Nat /\ Cardinality(Freed(k, s, d)) \in Nat
  <1> DEFINE P == {x \in Id!Sections(s) : x[1] = d /\ Id!RawId(s, x) \in Taken(k, s)}
             M == {x \in Id!Matched(k, s) : x[1] = d}
             g == [x \in P |-> CHOOSE y \in M : Id!Kept(k, s)[y] = Id!RawId(s, x)]
  <1>1. IsFiniteSet(P) /\ IsFiniteSet(M)
    <2>1. P \in SUBSET Id!Sections(s) /\ M \in SUBSET Id!Sections(s)
      BY KeptFacts
    <2> QED BY <2>1, SectionTypes, FS_Subset
  <1>2. ASSUME NEW x \in P
        PROVE  \E y \in M : Id!Kept(k, s)[y] = Id!RawId(s, x)
    <2>1. PICK y \in Id!Matched(k, s) : Id!Kept(k, s)[y] = Id!RawId(s, x)
      BY KeptFacts
    <2>2. y[1] = x[1]
      BY <2>1, TakenInside
    <2> QED BY <2>1, <2>2
  <1>3. \A x \in P : g[x] \in M /\ Id!Kept(k, s)[g[x]] = Id!RawId(s, x)
    BY <1>2
  <1>4. g \in [P -> M]
    BY <1>3
  <1>5. ASSUME NEW x \in P, NEW y \in P, g[x] = g[y] PROVE x = y
    <2>1. Id!RawId(s, x) = Id!RawId(s, y)
      BY <1>3, <1>5
    <2> QED BY <2>1, RawIdTells
  <1> HIDE DEF g
  <1>6. Cardinality(P) <= Cardinality(M)
    BY <1>1, <1>4, <1>5, IntoSize
  <1>7. P \cap M = M \cap P /\ P \ M = Moved(k, s, d) /\ M \ P = Freed(k, s, d)
    <2>1. Id!Matched(k, s) \subseteq Id!Sections(s)
      BY KeptFacts
    <2> QED BY <2>1, MovedIs
  <1> HIDE DEF P, M
  <1>8. /\ Cardinality(P \cap M) \in Nat /\ Cardinality(P \ M) \in Nat
        /\ Cardinality(P) = Cardinality(P \cap M) + Cardinality(P \ M)
    BY <1>1, SplitSize
  <1>9. /\ Cardinality(M \ P) \in Nat
        /\ Cardinality(M) = Cardinality(M \cap P) + Cardinality(M \ P)
    BY <1>1, SplitSize
  <1>10. /\ Cardinality(P \cap M) = Cardinality(M \cap P)
         /\ Cardinality(P \ M) = Cardinality(Moved(k, s, d))
         /\ Cardinality(M \ P) = Cardinality(Freed(k, s, d))
    BY <1>7, Zenon
  <1> QED BY <1>6, <1>8, <1>9, <1>10

\* The section whose raw ID a displaced section gets.
Donor(k, s, x) ==
    CHOOSE y \in Freed(k, s, x[1]) :
        Id!Place(Freed(k, s, x[1]), y) = Id!Place(Moved(k, s, x[1]), x)

\* Exactly one vacated section of the document has the place of a displaced one.
LEMMA DonorIs ==
    ASSUME Id!Assumptions, NEW s \in Id!Snapshots, NEW k, Named(k), NEW d,
           NEW x \in Moved(k, s, d)
    PROVE  /\ x[1] = d
           /\ Donor(k, s, x) \in Freed(k, s, d)
           /\ Id!Place(Freed(k, s, d), Donor(k, s, x)) = Id!Place(Moved(k, s, d), x)
           /\ \A y \in Freed(k, s, d) :
                Id!Place(Freed(k, s, d), y) = Id!Place(Moved(k, s, d), x)
                    => y = Donor(k, s, x)
  <1>1. x[1] = d /\ InRows(Moved(k, s, d)) /\ InRows(Freed(k, s, d))
    BY MovedIs
  <1>2. Id!Place(Moved(k, s, d), x) \in 1..Cardinality(Freed(k, s, d))
    <2>1. Id!Place(Moved(k, s, d), x) \in 1..Cardinality(Moved(k, s, d))
      BY <1>1, PlaceOrder
    <2> QED BY <2>1, EnoughFree
  <1>3. \E y \in Freed(k, s, d) : Id!Place(Freed(k, s, d), y) = Id!Place(Moved(k, s, d), x)
    BY <1>1, <1>2, PlaceOfOne
  <1>4. Donor(k, s, x) = CHOOSE y \in Freed(k, s, d) :
            Id!Place(Freed(k, s, d), y) = Id!Place(Moved(k, s, d), x)
    BY <1>1 DEF Donor
  <1>5. /\ Donor(k, s, x) \in Freed(k, s, d)
        /\ Id!Place(Freed(k, s, d), Donor(k, s, x)) = Id!Place(Moved(k, s, d), x)
    BY <1>3, <1>4
  <1>6. \A y, z \in Freed(k, s, d) :
            Id!Place(Freed(k, s, d), y) = Id!Place(Freed(k, s, d), z) => y = z
    BY <1>1, PlaceOfOne
  <1> QED BY <1>1, <1>5, <1>6

\* Different displaced sections get the raw IDs of different sections.
LEMMA DonorTells ==
    ASSUME Id!Assumptions, NEW s \in Id!Snapshots, NEW k, Named(k),
           NEW d, NEW x \in Moved(k, s, d), NEW e, NEW y \in Moved(k, s, e),
           Donor(k, s, x) = Donor(k, s, y)
    PROVE  x = y
  <1>1. Donor(k, s, x) \in Freed(k, s, d) /\ Donor(k, s, y) \in Freed(k, s, e)
    BY DonorIs
  <1>2. d = e
    BY <1>1, MovedIs
  <1>3. Id!Place(Moved(k, s, d), x) = Id!Place(Moved(k, s, d), y)
    BY <1>2, DonorIs
  <1>4. InRows(Moved(k, s, d))
    BY MovedIs
  <1> QED BY <1>2, <1>3, <1>4, PlaceOfOne

\* The name of a section: the one it had, or the raw ID of a section of its document that no
\* section had; and for which of the two it is.
LEMMA NewIdIs ==
    ASSUME Id!Assumptions, NEW s \in Id!Snapshots, NEW k, Named(k), NEW x \in Id!Sections(s)
    PROVE  /\ x \in Id!Matched(k, s) => NewIds(k, s)[x] = Id!Kept(k, s)[x]
           /\ (x \notin Id!Matched(k, s) /\ Id!RawId(s, x) \notin Taken(k, s))
                => NewIds(k, s)[x] = Id!RawId(s, x)
           /\ (x \notin Id!Matched(k, s) /\ Id!RawId(s, x) \in Taken(k, s))
                => /\ x \in Moved(k, s, x[1])
                   /\ NewIds(k, s)[x] = Id!RawId(s, Donor(k, s, x))
  <1>1. DOMAIN Id!Kept(k, s) = Id!Matched(k, s)
    BY KeptFacts
  <1>2. NewIds(k, s)[x] =
            IF x \in DOMAIN Id!Kept(k, s) THEN Id!Kept(k, s)[x]
            ELSE IF Id!RawId(s, x) \notin Id!Range(Id!Kept(k, s)) THEN Id!RawId(s, x)
            ELSE Id!Reallocated(s, Id!Kept(k, s), x)
    BY DEF NewIds, Id!Assigned
  <1>3. Id!Reallocated(s, Id!Kept(k, s), x) = Id!RawId(s, Donor(k, s, x))
    BY Zenon DEF Id!Reallocated, Donor, Freed, Moved
  <1>4. ASSUME x \notin Id!Matched(k, s), Id!RawId(s, x) \in Taken(k, s)
        PROVE  x \in Moved(k, s, x[1])
    BY <1>4, MovedIs
  <1> QED BY <1>1, <1>2, <1>3, <1>4 DEF Taken

\* The section whose raw ID a section that is not matched gets.
Source(k, s, x) == IF Id!RawId(s, x) \in Taken(k, s) THEN Donor(k, s, x) ELSE x

\* A section that is not matched gets an untaken raw ID of its document.
LEMMA SourceIs ==
    ASSUME Id!Assumptions, NEW s \in Id!Snapshots, NEW k, Named(k),
           NEW x \in Id!Sections(s), x \notin Id!Matched(k, s)
    PROVE  /\ Source(k, s, x) \in Id!Sections(s)
           /\ Source(k, s, x)[1] = x[1]
           /\ NewIds(k, s)[x] = Id!RawId(s, Source(k, s, x))
           /\ Id!RawId(s, Source(k, s, x)) \notin Taken(k, s)
  <1>1. CASE Id!RawId(s, x) \notin Taken(k, s)
    BY <1>1, NewIdIs DEF Source
  <1>2. CASE Id!RawId(s, x) \in Taken(k, s)
    <2>1. x \in Moved(k, s, x[1]) /\ NewIds(k, s)[x] = Id!RawId(s, Donor(k, s, x))
      BY <1>2, NewIdIs
    <2>2. Donor(k, s, x) \in Freed(k, s, x[1])
      BY <2>1, DonorIs
    <2>3. /\ Donor(k, s, x) \in Id!Sections(s) /\ Donor(k, s, x)[1] = x[1]
          /\ Id!RawId(s, Donor(k, s, x)) \notin Taken(k, s)
      BY <2>2, MovedIs, KeptFacts
    <2> QED BY <1>2, <2>1, <2>3 DEF Source
  <1> QED BY <1>1, <1>2

\* The names tell the sections of a snapshot apart.
LEMMA NewIdTells ==
    ASSUME Id!Assumptions, NEW s \in Id!Snapshots, NEW k, Named(k),
           NEW x \in Id!Sections(s), NEW y \in Id!Sections(s),
           NewIds(k, s)[x] = NewIds(k, s)[y]
    PROVE  x = y
  <1>1. \A z \in Id!Matched(k, s) : z \in Id!Sections(s)
                                    /\ NewIds(k, s)[z] = Id!Kept(k, s)[z]
                                    /\ NewIds(k, s)[z] \in Taken(k, s)
    BY KeptFacts, NewIdIs
  <1>2. \A z \in Id!Sections(s) : z \notin Id!Matched(k, s)
                                    => NewIds(k, s)[z] \notin Taken(k, s)
    BY SourceIs
  <1>3. CASE x \in Id!Matched(k, s)
    <2>1. y \in Id!Matched(k, s)
      BY <1>1, <1>2, <1>3
    <2> QED BY <1>1, <1>3, <2>1, KeptFacts
  <1>4. CASE x \notin Id!Matched(k, s)
    <2>1. y \notin Id!Matched(k, s)
      BY <1>1, <1>2, <1>4
    <2>2. Source(k, s, x) = Source(k, s, y)
      BY <1>4, <2>1, SourceIs, RawIdTells
    <2>3. CASE Id!RawId(s, x) \notin Taken(k, s) /\ Id!RawId(s, y) \notin Taken(k, s)
      BY <2>2, <2>3 DEF Source
    <2>4. ASSUME NEW v \in Id!Sections(s), NEW w \in Id!Sections(s),
                 v \notin Id!Matched(k, s), w \notin Id!Matched(k, s),
                 Id!RawId(s, v) \in Taken(k, s), Id!RawId(s, w) \notin Taken(k, s)
          PROVE  Source(k, s, v) # Source(k, s, w)
      <3>1. v \in Moved(k, s, v[1])
        BY <2>4, NewIdIs
      <3>2. Donor(k, s, v) \in Freed(k, s, v[1])
        BY <3>1, DonorIs
      <3>3. Donor(k, s, v) \in Id!Matched(k, s)
        BY <3>2, MovedIs
      <3> QED BY <2>4, <3>3 DEF Source
    <2>5. CASE Id!RawId(s, x) \in Taken(k, s) /\ Id!RawId(s, y) \in Taken(k, s)
      <3>1. x \in Moved(k, s, x[1]) /\ y \in Moved(k, s, y[1])
        BY <1>4, <2>1, <2>5, NewIdIs
      <3>2. Donor(k, s, x) = Donor(k, s, y)
        BY <2>2, <2>5 DEF Source
      <3> QED BY <3>1, <3>2, DonorTells
    <2> QED BY <1>4, <2>1, <2>2, <2>3, <2>4, <2>5
  <1> QED BY <1>3, <1>4

\* The IDs of the new snapshot are as many as its sections.
LEMMA NewIdCount ==
    ASSUME Id!Assumptions, NEW s \in Id!Snapshots, NEW k, Named(k)
    PROVE  /\ DOMAIN NewIds(k, s) = Id!Sections(s)
           /\ Id!Range(NewIds(k, s)) = {NewIds(k, s)[x] : x \in Id!Sections(s)}
           /\ IsFiniteSet(Id!Range(NewIds(k, s)))
           /\ Cardinality(Id!Range(NewIds(k, s))) = Cardinality(Id!Sections(s))
           /\ IsFiniteSet(Id!RawIds(s))
           /\ Cardinality(Id!RawIds(s)) = Cardinality(Id!Sections(s))
           /\ Cardinality(Id!Sections(s)) \in Nat
           /\ Id!Range(NewIds(k, s)) \subseteq Id!RawIds(s) \cup DOMAIN k
  <1> DEFINE f == NewIds(k, s)
             S == Id!Sections(s)
             r == [x \in S |-> Id!RawId(s, x)]
  <1>1. f = [x \in S |-> f[x]] /\ DOMAIN f = S
    BY DEF NewIds, Id!Assigned
  <1>2. Id!Range(f) = {f[x] : x \in S}
    BY <1>1, Zenon DEF Id!Range
  <1>3. IsFiniteSet(S)
    BY SectionTypes
  <1>4. f \in [S -> {f[x] : x \in S}]
    BY <1>1
  <1>5. \A x, y \in S : f[x] = f[y] => x = y
    BY NewIdTells
  <1>6. IsFiniteSet({f[x] : x \in S}) /\ Cardinality({f[x] : x \in S}) = Cardinality(S)
    <2> HIDE DEF f, S
    <2> QED BY <1>1, <1>3, <1>4, <1>5, ImageSize
  <1>7. \A x, y \in S : r[x] = r[y] => x = y
    BY RawIdTells
  <1>8. r \in [S -> {r[x] : x \in S}] /\ DOMAIN r = S
    OBVIOUS
  <1>9. IsFiniteSet({r[x] : x \in S}) /\ Cardinality({r[x] : x \in S}) = Cardinality(S)
    <2> HIDE DEF r, S
    <2> QED BY <1>3, <1>7, <1>8, ImageSize
  <1>10. Id!RawIds(s) = {r[x] : x \in S}
    BY DEF Id!RawIds
  <1>11. \A x \in S : f[x] \in Id!RawIds(s) \cup DOMAIN k
    <2>1. \A x \in S : x \in Id!Matched(k, s) => f[x] \in DOMAIN k
      BY KeptFacts, NewIdIs
    <2>2. \A x \in S : x \notin Id!Matched(k, s) => f[x] \in Id!RawIds(s)
      BY SourceIs DEF Id!RawIds
    <2> QED BY <2>1, <2>2
  <1>12. Cardinality(S) \in Nat
    BY <1>3, FS_CardinalityType
  <1>13. IsFiniteSet(Id!RawIds(s)) /\ Cardinality(Id!RawIds(s)) = Cardinality(S)
    BY <1>9, <1>10, Zenon
  <1>14. IsFiniteSet(Id!Range(f)) /\ Cardinality(Id!Range(f)) = Cardinality(S)
    BY <1>2, <1>6, Zenon
  <1>15. Id!Range(f) \subseteq Id!RawIds(s) \cup DOMAIN k
    BY <1>2, <1>11
  <1> QED BY <1>1, <1>2, <1>12, <1>13, <1>14, <1>15, Zenon

\* No snapshot is refused for the IDs of its chunks.
LEMMA NotRefused ==
    ASSUME Id!Assumptions, NEW s \in Id!Snapshots, NEW k, Named(k)
    PROVE  ~Id!Refused(k, s)
  <1> DEFINE I == Id!Range(NewIds(k, s))
             R == Id!RawIds(s)
             K == DOMAIN k
  <1>1. /\ IsFiniteSet(I) /\ IsFiniteSet(R) /\ Cardinality(I) = Cardinality(R)
        /\ Cardinality(R) = Cardinality(Id!Sections(s))
        /\ Cardinality(R) \in Nat /\ I \ K \subseteq R \ K
    <2>1. /\ IsFiniteSet(I) /\ IsFiniteSet(R)
          /\ Cardinality(I) = Cardinality(Id!Sections(s))
          /\ Cardinality(R) = Cardinality(Id!Sections(s))
          /\ Cardinality(Id!Sections(s)) \in Nat
          /\ I \subseteq R \cup K
      BY NewIdCount
    <2> QED BY <2>1
  <1>2. IsFiniteSet(K)
    BY DEF Named
  <1>3. ~Id!NoFreeId(s, Id!Kept(k, s))
    <2>1. SUFFICES ASSUME NEW d \in DOMAIN s,
                          Id!Cardinality(Id!Vacated(s, Id!Kept(k, s), d))
                            < Id!Cardinality(Id!Displaced(s, Id!Kept(k, s), d))
                   PROVE  FALSE
      BY DEF Id!NoFreeId
    <2>2. Cardinality(Freed(k, s, d)) < Cardinality(Moved(k, s, d))
      BY <2>1, Sizes DEF Freed, Moved
    <2> QED BY <2>2, EnoughFree
  <1>4. /\ Id!FromAdded(k, s, I) = Cardinality(R \ K) - Cardinality(I \ K)
        /\ Id!FromRemoved(k, s, I) = Cardinality(K \ R) - Cardinality(K \ I)
    BY Sizes DEF Id!FromAdded, Id!FromRemoved
  <1>5. Id!Refused(k, s) =>
            \/ Cardinality(R) # Cardinality(Id!Sections(s))
            \/ Id!NoFreeId(s, Id!Kept(k, s))
            \/ Cardinality(I) # Cardinality(Id!Sections(s))
            \/ Id!FromAdded(k, s, I) # Id!FromRemoved(k, s, I)
            \/ Id!FromAdded(k, s, I) < 0
    BY Sizes DEF Id!Refused, NewIds
  <1> HIDE DEF I, R, K
  <1>6. /\ Cardinality(R \cap K) \in Nat /\ Cardinality(R \ K) \in Nat /\ IsFiniteSet(R \ K)
        /\ Cardinality(R) = Cardinality(R \cap K) + Cardinality(R \ K)
    BY <1>1, SplitSize
  <1>7. /\ Cardinality(I \cap K) \in Nat /\ Cardinality(I \ K) \in Nat
        /\ Cardinality(I) = Cardinality(I \cap K) + Cardinality(I \ K)
    BY <1>1, SplitSize
  <1>8. /\ Cardinality(K \ R) \in Nat
        /\ Cardinality(K) = Cardinality(K \cap R) + Cardinality(K \ R)
    BY <1>2, SplitSize
  <1>9. /\ Cardinality(K \ I) \in Nat
        /\ Cardinality(K) = Cardinality(K \cap I) + Cardinality(K \ I)
    BY <1>2, SplitSize
  <1>10. Cardinality(K \cap R) = Cardinality(R \cap K)
         /\ Cardinality(K \cap I) = Cardinality(I \cap K)
    <2>1. K \cap R = R \cap K /\ K \cap I = I \cap K
      OBVIOUS
    <2> QED BY <2>1, Zenon
  <1>11. Cardinality(I \ K) <= Cardinality(R \ K)
    <2>1. I \ K \in SUBSET (R \ K)
      BY <1>1
    <2> QED BY <1>6, <2>1, FS_Subset
  <1>12. Id!FromAdded(k, s, I) = Id!FromRemoved(k, s, I) /\ ~(Id!FromAdded(k, s, I) < 0)
    BY <1>1, <1>4, <1>6, <1>7, <1>8, <1>9, <1>10, <1>11
  <1> QED BY <1>1, <1>3, <1>5, <1>12

-----------------------------------------------------------------------------
\* The seed after a synchronisation

NewSeed(k, s) == Id!Records(s, NewIds(k, s))

\* The records of the new seed are those of the sections, under their names.
LEMMA NewSeedIs ==
    ASSUME Id!Assumptions, NEW s \in Id!Snapshots, NEW k, Named(k)
    PROVE  /\ DOMAIN NewSeed(k, s) = Id!Range(NewIds(k, s))
           /\ \A o \in DOMAIN NewSeed(k, s) : \E x \in Id!Sections(s) : o = NewIds(k, s)[x]
           /\ \A x \in Id!Sections(s) :
                /\ NewIds(k, s)[x] \in DOMAIN NewSeed(k, s)
                /\ NewSeed(k, s)[NewIds(k, s)[x]] = [doc |-> x[1], text |-> Id!Body(s, x)]
                /\ NewSeed(k, s)[NewIds(k, s)[x]].doc = x[1]
                /\ NewSeed(k, s)[NewIds(k, s)[x]].text = Id!Body(s, x)
           /\ NewSeed(k, s) = [o \in DOMAIN NewSeed(k, s) |-> NewSeed(k, s)[o]]
  <1> DEFINE f == NewIds(k, s)
             S == Id!Sections(s)
             of(o) == CHOOSE x \in S : f[x] = o
  <1>1. NewSeed(k, s) = [o \in Id!Range(f) |-> [doc |-> of(o)[1], text |-> Id!Body(s, of(o))]]
    BY Zenon DEF NewSeed, Id!Records
  <1>2. Id!Range(f) = {f[x] : x \in S}
    BY NewIdCount
  <1>3. ASSUME NEW x \in S PROVE of(f[x]) = x
    BY NewIdTells
  <1> HIDE DEF f, S, of
  <1>4. /\ DOMAIN NewSeed(k, s) = Id!Range(f)
        /\ \A o \in DOMAIN NewSeed(k, s) : \E x \in S : o = f[x]
    BY <1>1, <1>2
  <1>5. ASSUME NEW x \in S
        PROVE  f[x] \in DOMAIN NewSeed(k, s)
               /\ NewSeed(k, s)[f[x]] = [doc |-> x[1], text |-> Id!Body(s, x)]
               /\ NewSeed(k, s)[f[x]].doc = x[1]
               /\ NewSeed(k, s)[f[x]].text = Id!Body(s, x)
    <2>1. f[x] \in Id!Range(f) /\ f[x] \in DOMAIN NewSeed(k, s)
      BY <1>2, <1>4
    <2>2. NewSeed(k, s)[f[x]] = [doc |-> of(f[x])[1], text |-> Id!Body(s, of(f[x]))]
      BY <1>1, <2>1
    <2> QED BY <1>3, <2>1, <2>2
  <1>6. NewSeed(k, s) = [o \in DOMAIN NewSeed(k, s) |-> NewSeed(k, s)[o]]
    BY <1>1
  <1> QED BY <1>4, <1>5, <1>6 DEF f, S

\* A synchronisation leaves the seed well named.
LEMMA NewSeedNamed ==
    ASSUME Id!Assumptions, NEW s \in Id!Snapshots, NEW k, Named(k)
    PROVE  Named(NewSeed(k, s))
  <1> DEFINE n == NewSeed(k, s)
  <1>1. IsFiniteSet(DOMAIN n)
    BY NewSeedIs, NewIdCount
  <1>2. ASSUME NEW x \in Id!Sections(s)
        PROVE  LET o == NewIds(k, s)[x]
               IN  /\ o \in Id!Ids
                   /\ n[o] \in [doc : NamedDocuments, text : SectionTexts]
                   /\ \/ o.slug = n[o].doc
                      \/ o.slug = SharedSlug /\ n[o].doc \in SameSlug
    <2> DEFINE o == NewIds(k, s)[x]
    <2>1. n[o] = [doc |-> x[1], text |-> Id!Body(s, x)]
      BY NewSeedIs
    <2>2. /\ x[1] \in NamedDocuments /\ x[1] \in DOMAIN s /\ Id!Body(s, x) \in SectionTexts
      BY SectionTypes DEF Id!Body
    <2>3. CASE x \in Id!Matched(k, s)
      <3>1. o = Id!Kept(k, s)[x]
        BY <2>3, NewIdIs
      <3>2. o \in DOMAIN k /\ k[o].doc = x[1]
        BY <2>3, <3>1, KeptFacts
      <3> HIDE DEF o
      <3>3. /\ o \in Id!Ids
            /\ \/ o.slug = x[1]
               \/ o.slug = SharedSlug /\ x[1] \in SameSlug
        BY <3>2 DEF Named
      <3> QED BY <2>1, <2>2, <3>3 DEF o
    <2>4. CASE x \notin Id!Matched(k, s)
      <3>1. PICK y \in Id!Sections(s) : y[1] = x[1] /\ o = Id!RawId(s, y)
        BY <2>4, SourceIs
      <3>2. o = [slug |-> Id!SlugOf(s, x[1]), row |-> y[2],
                 topic |-> Heading[Id!Body(s, y)]]
        BY <3>1 DEF Id!RawId
      <3>3. y[2] \in 1..MaxSections /\ Id!Body(s, y) \in SectionTexts
        BY SectionTypes DEF Id!Body
      <3>4. \/ Id!SlugOf(s, x[1]) = x[1]
            \/ Id!SlugOf(s, x[1]) = SharedSlug /\ x[1] \in SameSlug
        BY <2>2, SlugIs
      <3>5. Heading[Id!Body(s, y)] \in Id!Topics
        BY <3>3 DEF Id!Topics
      <3> HIDE DEF o
      <3>6. o \in Id!Ids
        BY <2>2, <3>2, <3>3, <3>4, <3>5 DEF Id!Ids
      <3> QED BY <2>1, <2>2, <3>2, <3>4, <3>6 DEF o
    <2> QED BY <2>3, <2>4
  <1>3. \A o \in DOMAIN n : \E x \in Id!Sections(s) : o = NewIds(k, s)[x]
    BY NewSeedIs
  <1>4. n = [o \in DOMAIN n |-> n[o]]
    BY NewSeedIs
  <1> HIDE DEF n
  <1> QED BY <1>1, <1>2, <1>3, <1>4 DEF Named, n

\* A preview is stopped only for a text that is not once in the seed and in the snapshot.
LEMMA StoppedOnlyForLoss ==
    ASSUME Id!Assumptions, NEW s \in Id!Snapshots, NEW k, Named(k), Id!Stopped(k, s)
    PROVE  \E o \in DOMAIN k :
                \/ Id!Cardinality(Id!Holding(k, k[o].doc, k[o].text)) # 1
                \/ k[o].doc \notin DOMAIN s
                \/ Id!Cardinality(Id!Occurring(s, k[o].doc, k[o].text)) # 1
  <1>1. SUFFICES ASSUME \A o \in DOMAIN k :
                          /\ Id!Cardinality(Id!Holding(k, k[o].doc, k[o].text)) = 1
                          /\ k[o].doc \in DOMAIN s
                          /\ Id!Cardinality(Id!Occurring(s, k[o].doc, k[o].text)) = 1
                 PROVE  FALSE
    OBVIOUS
  <1>2. ASSUME NEW o \in DOMAIN k
        PROVE  \E x \in Id!Sections(s) : x[1] = k[o].doc /\ NewIds(k, s)[x] = o
    <2> DEFINE d == k[o].doc
               t == k[o].text
               O == Id!Occurring(s, d, t)
    <2>1. Cardinality(O) = 1 /\ d \in DOMAIN s /\ Id!Cardinality(Id!Holding(k, d, t)) = 1
      BY <1>1, Sizes
    <2>2. O # {}
      <3> HIDE DEF O
      <3> QED BY <2>1, FS_EmptySet
    <2>3. PICK i \in DOMAIN s[d] : s[d][i] = t
      BY <2>2 DEF Id!Occurring
    <2> DEFINE x == <<d, i>>
    <2>4. x \in Id!Sections(s) /\ x[1] = d /\ Id!Body(s, x) = t
      BY <2>1, <2>3, SectionTypes DEF Id!Body
    <2>5. x \in Id!Matched(k, s)
      BY <1>1, <2>4 DEF Id!Matched
    <2>6. o \in Id!Holding(k, d, t)
      BY DEF Id!Holding
    <2>7. o \in {Id!Kept(k, s)[x]}
      BY <2>4, <2>5, <2>6, KeptFacts, Zenon
    <2>8. NewIds(k, s)[x] = o
      BY <2>4, <2>5, <2>7, NewIdIs
    <2> QED BY <2>4, <2>8
  <1>3. Id!Removed(k, s) = {}
    <2>1. Id!Removed(k, s) = DOMAIN k \ Id!Range(NewIds(k, s))
      BY Zenon DEF Id!Removed, NewIds
    <2>2. DOMAIN k \subseteq Id!Range(NewIds(k, s))
      BY <1>2, NewIdCount
    <2> QED BY <2>1, <2>2
  <1>4. Id!Cardinality(Id!Removed(k, s)) = 0
    BY <1>3, Sizes, FS_EmptySet
  <1>5. Id!Cardinality(DOMAIN k) \in Nat
    BY Sizes, FS_CardinalityType DEF Named
  <1>6. MaxRemovals \in Nat
    BY DEF Id!Assumptions
  <1>7. ~(0 >= MinForRatio /\ 4 * 0 > Id!Cardinality(DOMAIN k)) /\ ~(0 > MaxRemovals)
    BY <1>5, <1>6
  <1>8. ~Id!LostAllChunks(k, s)
    <2>1. SUFFICES ASSUME NEW d \in DOMAIN s, s[d] = <<>>, NEW o \in DOMAIN k, k[o].doc = d
                   PROVE  FALSE
      BY DEF Id!LostAllChunks
    <2>2. PICK x \in Id!Sections(s) : x[1] = d
      BY <1>2, <2>1
    <2> QED BY <2>1, <2>2, SectionTypes
  <1>9. k # <<>> /\ Id!Sections(s) = {}
    BY <1>4, <1>7, <1>8 DEF Id!Stopped
  <1>10. DOMAIN k = {}
    BY <1>2, <1>9
  <1>11. k = [o \in DOMAIN k |-> k[o]]
    BY DEF Named
  <1>12. k = <<>>
    BY <1>10, <1>11
  <1> QED BY <1>9, <1>12

\* Where the new seed has a text of a document.
LEMMA NewHolding ==
    ASSUME Id!Assumptions, NEW s \in Id!Snapshots, NEW k, Named(k), NEW d, NEW t
    PROVE  Id!Holding(NewSeed(k, s), d, t) =
             {NewIds(k, s)[x] : x \in {z \in Id!Sections(s) : z[1] = d /\ Id!Body(s, z) = t}}
  <1> DEFINE n == NewSeed(k, s)
             f == NewIds(k, s)
             S == Id!Sections(s)
  <1>1. \A o \in DOMAIN n : \E x \in S : o = f[x]
    BY NewSeedIs
  <1>2. \A x \in S : /\ f[x] \in DOMAIN n
                     /\ n[f[x]].doc = x[1] /\ n[f[x]].text = Id!Body(s, x)
    BY NewSeedIs
  <1>3. Id!Holding(n, d, t) = {o \in DOMAIN n : n[o].doc = d /\ n[o].text = t}
    BY DEF Id!Holding
  <1> HIDE DEF n, f, S
  <1> QED BY <1>1, <1>2, <1>3 DEF n, f, S

\* What the new seed holds once, the snapshot has once.
LEMMA OnceIsOnce ==
    ASSUME Id!Assumptions, NEW s \in Id!Snapshots, NEW k, Named(k), NEW x \in Id!Sections(s)
    PROVE  /\ NewIds(k, s)[x] \in Id!Holding(NewSeed(k, s), x[1], Id!Body(s, x))
           /\ Id!Occurring(s, x[1], Id!Body(s, x)) = {x[2]}
                => Id!Holding(NewSeed(k, s), x[1], Id!Body(s, x)) = {NewIds(k, s)[x]}
           /\ \A o : Id!Holding(NewSeed(k, s), x[1], Id!Body(s, x)) = {o}
                => Id!Occurring(s, x[1], Id!Body(s, x)) = {x[2]}
  <1> DEFINE H == Id!Holding(NewSeed(k, s), x[1], Id!Body(s, x))
             O == Id!Occurring(s, x[1], Id!Body(s, x))
  <1>1. H = {NewIds(k, s)[y] : y \in {z \in Id!Sections(s) :
                                         z[1] = x[1] /\ Id!Body(s, z) = Id!Body(s, x)}}
    BY NewHolding
  <1>2. NewIds(k, s)[x] \in H
    BY <1>1
  <1>3. x[1] \in DOMAIN s /\ x[2] \in DOMAIN s[x[1]] /\ x = <<x[1], x[2]>>
    BY SectionTypes
  <1>4. x[2] \in O
    BY <1>3 DEF Id!Occurring, Id!Body
  <1>5. ASSUME NEW o, H = {o}, NEW i \in O PROVE i = x[2]
    <2>1. i \in DOMAIN s[x[1]] /\ s[x[1]][i] = Id!Body(s, x)
      BY <1>5 DEF Id!Occurring
    <2>2. <<x[1], i>> \in Id!Sections(s)
      BY <1>3, <2>1, SectionTypes
    <2>3. Id!Body(s, <<x[1], i>>) = Id!Body(s, x)
      BY <2>1 DEF Id!Body
    <2>4. NewIds(k, s)[<<x[1], i>>] \in H
      BY <1>1, <2>2, <2>3
    <2>5. NewIds(k, s)[<<x[1], i>>] = NewIds(k, s)[x]
      BY <1>2, <1>5, <2>4
    <2>6. <<x[1], i>> = x
      BY <2>2, <2>5, NewIdTells
    <2> QED BY <1>3, <2>6
  <1>6. ASSUME O = {x[2]}, NEW o \in H PROVE o = NewIds(k, s)[x]
    <2>1. PICK y \in Id!Sections(s) : /\ y[1] = x[1] /\ Id!Body(s, y) = Id!Body(s, x)
                                      /\ o = NewIds(k, s)[y]
      BY <1>1, <1>6
    <2>2. y[2] \in DOMAIN s[y[1]] /\ y = <<y[1], y[2]>>
      BY SectionTypes
    <2>3. y[2] \in O
      BY <2>1, <2>2 DEF Id!Occurring, Id!Body
    <2>4. y = x
      BY <1>3, <1>6, <2>1, <2>2, <2>3
    <2> QED BY <2>1, <2>4
  <1> HIDE DEF H, O
  <1>7. ASSUME O = {x[2]} PROVE H = {NewIds(k, s)[x]}
    BY <1>2, <1>6, <1>7
  <1>8. ASSUME NEW o, H = {o} PROVE O = {x[2]}
    BY <1>4, <1>5, <1>8
  <1> QED BY <1>2, <1>7, <1>8, Zenon DEF H, O

\* A text that is once in the seed before and after a synchronisation keeps its ID.
LEMMA KeepsIdentity ==
    ASSUME Id!Assumptions, NEW s \in Id!Snapshots, NEW k, Named(k), NEW d, NEW t,
           Id!Cardinality(Id!Holding(k, d, t)) = 1,
           Id!Cardinality(Id!Holding(NewSeed(k, s), d, t)) = 1
    PROVE  Id!Holding(NewSeed(k, s), d, t) = Id!Holding(k, d, t)
  <1> DEFINE H == Id!Holding(NewSeed(k, s), d, t)
             G == Id!Holding(k, d, t)
  <1>1. IsFiniteSet(H) /\ IsFiniteSet(G)
    <2>1. IsFiniteSet(DOMAIN NewSeed(k, s)) /\ IsFiniteSet(DOMAIN k)
      BY NewSeedNamed DEF Named
    <2>2. H \in SUBSET DOMAIN NewSeed(k, s) /\ G \in SUBSET DOMAIN k
      BY DEF Id!Holding
    <2> QED BY <2>1, <2>2, FS_Subset
  <1>2. Cardinality(H) = 1 /\ Cardinality(G) = 1
    BY Sizes
  <1>3. H = {NewIds(k, s)[y] : y \in {z \in Id!Sections(s) : z[1] = d /\ Id!Body(s, z) = t}}
    BY NewHolding
  <1> HIDE DEF H, G
  <1>4. PICK o : H = {o}
    BY <1>1, <1>2, FS_Singleton
  <1>5. PICK g : G = {g}
    BY <1>1, <1>2, FS_Singleton
  <1>6. PICK x \in Id!Sections(s) : x[1] = d /\ Id!Body(s, x) = t /\ o = NewIds(k, s)[x]
    BY <1>3, <1>4
  <1>7. Id!Occurring(s, x[1], Id!Body(s, x)) = {x[2]}
    BY <1>4, <1>6, OnceIsOnce DEF H
  <1>8. g \in DOMAIN k /\ Id!Holding(k, x[1], Id!Body(s, x)) = {g}
    BY <1>5, <1>6 DEF G, Id!Holding
  <1>9. x \in Id!Matched(k, s)
    BY <1>7, <1>8, MatchedIs
  <1>10. Id!Kept(k, s)[x] = NewIds(k, s)[x]
    BY <1>9, NewIdIs
  <1>11. Id!Holding(k, x[1], Id!Body(s, x)) = {Id!Kept(k, s)[x]}
    BY <1>9, KeptFacts
  <1>12. o = g
    BY <1>6, <1>8, <1>10, <1>11
  <1>13. H = G
    BY <1>4, <1>5, <1>12
  <1> QED BY <1>13 DEF H, G

\* An ID stays with its document as long as that document is there.
LEMMA StaysInside ==
    ASSUME Id!Assumptions, NEW s \in Id!Snapshots, NEW k, Named(k), NEW o \in DOMAIN k,
           o \in DOMAIN NewSeed(k, s), k[o].doc \in DOMAIN s
    PROVE  NewSeed(k, s)[o].doc = k[o].doc
  <1>1. PICK x \in Id!Sections(s) : o = NewIds(k, s)[x]
    BY NewSeedIs
  <1>2. NewSeed(k, s)[o].doc = x[1]
    BY <1>1, NewSeedIs
  <1>3. CASE x \in Id!Matched(k, s)
    BY <1>1, <1>2, <1>3, NewIdIs, KeptFacts
  <1>4. CASE x \notin Id!Matched(k, s)
    <2>1. PICK y \in Id!Sections(s) : y[1] = x[1] /\ o = Id!RawId(s, y)
      BY <1>1, <1>4, SourceIs
    <2>2. o.slug = Id!SlugOf(s, x[1])
      BY <2>1 DEF Id!RawId
    <2>3. x[1] \in DOMAIN s
      BY SectionTypes
    <2>4. k[o].doc = x[1]
      BY <2>2, <2>3, OwnSlug
    <2> QED BY <1>2, <2>4
  <1> QED BY <1>3, <1>4

-----------------------------------------------------------------------------
\* Naming settles

\* What is left of S without C, and the sections that g gives to those of C.
Without(S, C) == S \ C
ImageOf(g, C) == {g[u] : u \in C}

\* g gives every section one in the same place.
SamePlaces(S, V, g) == \A u \in S : Id!Place(V, g[u]) = Id!Place(S, u)

\* Sections leave S, and those of V in their places leave V: the places of the others agree.
LEMMA PlacesAgree ==
    ASSUME NEW S, NEW V, InRows(S), InRows(V), NEW g \in [S -> V],
           SamePlaces(S, V, g),
           NEW C \in SUBSET S, NEW x \in S \ C
    PROVE  /\ g[x] \in Without(V, ImageOf(g, C))
           /\ Id!Place(Without(V, ImageOf(g, C)), g[x]) = Id!Place(Without(S, C), x)
  <1> DEFINE y == g[x]
             G == ImageOf(g, C)
             CX == UpTo(C, x[2])
             GY == UpTo(G, y[2])
             h == [u \in CX |-> g[u]]
  <1>0. \A u \in S : Id!Place(V, g[u]) = Id!Place(S, u)
    BY DEF SamePlaces
  <1>1. \A u, w \in S : g[u] = g[w] => u = w
    <2>1. \A u, w \in S : Id!Place(S, u) = Id!Place(S, w) => u = w
      BY PlaceOfOne
    <2> QED BY <1>0, <2>1
  <1>2. y \in V /\ y \notin G
    BY <1>1 DEF ImageOf
  <1>3. ASSUME NEW u \in S PROVE u[2] <= x[2] <=> g[u][2] <= y[2]
    <2>1. Id!Place(S, u) <= Id!Place(S, x) <=> u[2] <= x[2]
      BY PlaceOrder
    <2>2. Id!Place(V, g[u]) <= Id!Place(V, g[x]) <=> g[u][2] <= g[x][2]
      BY PlaceOrder
    <2> QED BY <1>0, <2>1, <2>2
  <1>4. GY = {h[u] : u \in CX}
    BY <1>3 DEF UpTo, ImageOf
  <1>5. IsFiniteSet(CX) /\ CX \in SUBSET UpTo(S, x[2]) /\ IsFiniteSet(UpTo(S, x[2]))
    <2>1. UpTo(S, x[2]) \in SUBSET S /\ CX \in SUBSET UpTo(S, x[2])
      BY DEF UpTo
    <2>2. IsFiniteSet(UpTo(S, x[2]))
      BY <2>1, FS_Subset DEF InRows
    <2> QED BY <2>1, <2>2, FS_Subset
  <1>6. IsFiniteSet(UpTo(V, y[2])) /\ GY \in SUBSET UpTo(V, y[2])
    <2>1. UpTo(V, y[2]) \in SUBSET V /\ GY \in SUBSET UpTo(V, y[2])
      BY DEF UpTo, ImageOf
    <2> QED BY <2>1, FS_Subset DEF InRows
  <1>7. IsFiniteSet(GY) /\ Cardinality(GY) = Cardinality(CX)
    <2>1. DOMAIN h = CX /\ h \in [CX -> {h[u] : u \in CX}]
      OBVIOUS
    <2>2. \A u, w \in CX : h[u] = h[w] => u = w
      BY <1>1 DEF UpTo
    <2> HIDE DEF h, CX, GY
    <2>3. /\ IsFiniteSet({h[u] : u \in CX})
          /\ Cardinality({h[u] : u \in CX}) = Cardinality(CX)
      BY <1>5, <2>1, <2>2, ImageSize
    <2> QED BY <1>4, <2>3, Zenon
  <1>8. Cardinality(UpTo(S, x[2]) \ CX) = Cardinality(UpTo(S, x[2])) - Cardinality(CX)
    <2>1. UpTo(S, x[2]) \cap CX = CX
      BY <1>5
    <2>2. Cardinality(UpTo(S, x[2]) \ CX)
            = Cardinality(UpTo(S, x[2])) - Cardinality(UpTo(S, x[2]) \cap CX)
      BY <1>5, FS_Difference
    <2> QED BY <2>1, <2>2
  <1>9. Cardinality(UpTo(V, y[2]) \ GY) = Cardinality(UpTo(V, y[2])) - Cardinality(GY)
    <2>1. UpTo(V, y[2]) \cap GY = GY
      BY <1>6
    <2>2. Cardinality(UpTo(V, y[2]) \ GY)
            = Cardinality(UpTo(V, y[2])) - Cardinality(UpTo(V, y[2]) \cap GY)
      BY <1>6, FS_Difference
    <2> QED BY <2>1, <2>2
  <1>10. Cardinality(UpTo(V, y[2])) = Cardinality(UpTo(S, x[2]))
    BY <1>0, PlaceIs
  <1>11. /\ UpTo(S \ C, x[2]) = UpTo(S, x[2]) \ CX
         /\ UpTo(V \ G, y[2]) = UpTo(V, y[2]) \ GY
    BY DEF UpTo
  <1>12. Cardinality(UpTo(S \ C, x[2])) = Cardinality(UpTo(V \ G, y[2]))
    BY <1>7, <1>8, <1>9, <1>10, <1>11, Zenon
  <1>13. Id!Place(V \ G, y) = Id!Place(S \ C, x)
    BY <1>12, PlaceIs
  <1> QED BY <1>2, <1>13, Zenon DEF Without

\* A second synchronisation of the same snapshot: what is matched, and what is taken.
LEMMA MatchedAgain ==
    ASSUME Id!Assumptions, NEW s \in Id!Snapshots, NEW k, Named(k)
    PROVE  /\ Id!Matched(k, s) \subseteq Id!Matched(NewSeed(k, s), s)
           /\ \A x \in Id!Matched(NewSeed(k, s), s) :
                /\ x \in Id!Sections(s)
                /\ Id!Kept(NewSeed(k, s), s)[x] = NewIds(k, s)[x]
                /\ NewIds(k, s)[x] \in Taken(NewSeed(k, s), s)
           /\ \A o \in Taken(NewSeed(k, s), s) :
                \E x \in Id!Matched(NewSeed(k, s), s) : o = NewIds(k, s)[x]
           /\ Taken(k, s) \subseteq Taken(NewSeed(k, s), s)
  <1> DEFINE n == NewSeed(k, s)
             f == NewIds(k, s)
             M2 == Id!Matched(n, s)
  <1>0. Named(n)
    BY NewSeedNamed
  <1>1. ASSUME NEW x \in Id!Sections(s), Id!Occurring(s, x[1], Id!Body(s, x)) = {x[2]}
        PROVE  x \in M2
    <2>1. f[x] \in Id!Holding(n, x[1], Id!Body(s, x))
      BY OnceIsOnce
    <2>2. Id!Holding(NewSeed(k, s), x[1], Id!Body(s, x)) = {NewIds(k, s)[x]}
      <3> HIDE DEF n, f, M2
      <3>1. Id!Occurring(s, x[1], Id!Body(s, x)) = {x[2]}
        BY <1>1
      <3> QED BY <3>1, OnceIsOnce
    <2>3. f[x] \in DOMAIN n
      BY <2>1 DEF Id!Holding
    <2> HIDE DEF n, f
    <2>4. \E o \in DOMAIN n : Id!Holding(n, x[1], Id!Body(s, x)) = {o}
      BY <2>2, <2>3 DEF n, f
    <2> QED BY <1>0, <1>1, <2>4, MatchedIs
  <1>2. ASSUME NEW x \in Id!Matched(k, s) PROVE x \in M2
    <2>1. x \in Id!Sections(s)
      BY KeptFacts
    <2>2. Id!Occurring(s, x[1], Id!Body(s, x)) = {x[2]}
      BY <2>1, MatchedIs
    <2> QED BY <1>1, <2>1, <2>2
  <1>3. ASSUME NEW x \in M2
        PROVE  x \in Id!Sections(s) /\ Id!Kept(n, s)[x] = f[x]
    <2> HIDE DEF n
    <2>1. x \in Id!Sections(s) /\ Id!Holding(n, x[1], Id!Body(s, x)) = {Id!Kept(n, s)[x]}
      BY <1>0, KeptFacts
    <2>2. f[x] \in Id!Holding(n, x[1], Id!Body(s, x))
      BY <2>1, OnceIsOnce DEF n
    <2> QED BY <2>1, <2>2
  <1>4. Taken(n, s) = {Id!Kept(n, s)[x] : x \in M2}
    <2> HIDE DEF n
    <2> QED BY <1>0, KeptFacts
  <1>5. \A x \in M2 : f[x] \in Taken(n, s)
    BY <1>3, <1>4
  <1>6. \A o \in Taken(n, s) : \E x \in M2 : o = f[x]
    BY <1>3, <1>4
  <1>7. ASSUME NEW o \in Taken(k, s) PROVE o \in Taken(n, s)
    <2>1. PICK x \in Id!Matched(k, s) : o = Id!Kept(k, s)[x]
      BY KeptFacts
    <2>2. x \in Id!Sections(s)
      BY KeptFacts
    <2>3. o = f[x]
      BY <2>1, <2>2, NewIdIs
    <2> QED BY <1>2, <1>5, <2>3
  <1> QED BY <1>2, <1>3, <1>5, <1>6, <1>7

\* The displaced sections that are matched the second time.
Resettled(k, s, d) == Moved(k, s, d) \cap Id!Matched(NewSeed(k, s), s)

\* The second time the displaced sections that were matched leave, and the sections whose
\* raw IDs they have.
LEMMA MovedAgain ==
    ASSUME Id!Assumptions, NEW s \in Id!Snapshots, NEW k, Named(k), NEW d
    PROVE  /\ Moved(NewSeed(k, s), s, d) = Moved(k, s, d) \ Resettled(k, s, d)
           /\ Freed(NewSeed(k, s), s, d)
                = Freed(k, s, d) \ {Donor(k, s, u) : u \in Resettled(k, s, d)}
  <1> DEFINE n == NewSeed(k, s)
             f == NewIds(k, s)
             M2 == Id!Matched(n, s)
             T2 == Taken(n, s)
  <1>0. Named(n)
    BY NewSeedNamed
  <1>1. /\ Id!Matched(k, s) \subseteq M2 /\ M2 \subseteq Id!Sections(s)
        /\ Taken(k, s) \subseteq T2
        /\ \A x \in M2 : f[x] \in T2
        /\ \A o \in T2 : \E x \in M2 : o = f[x]
    BY MatchedAgain
  <1>2. /\ Moved(n, s, d) = {x \in Id!Sections(s) \ M2 : x[1] = d /\ Id!RawId(s, x) \in T2}
        /\ Freed(n, s, d) = {x \in M2 : x[1] = d /\ Id!RawId(s, x) \notin T2}
    <2> HIDE DEF n
    <2> QED BY <1>0, MovedIs
  <1>3. /\ Moved(k, s, d) = {x \in Id!Sections(s) \ Id!Matched(k, s) :
                                x[1] = d /\ Id!RawId(s, x) \in Taken(k, s)}
        /\ Freed(k, s, d) = {x \in Id!Matched(k, s) :
                                x[1] = d /\ Id!RawId(s, x) \notin Taken(k, s)}
    BY MovedIs
  <1>4. \A x \in Id!Sections(s) :
            (x \notin Id!Matched(k, s) /\ Id!RawId(s, x) \notin Taken(k, s))
                => f[x] = Id!RawId(s, x)
    BY NewIdIs
  <1>5. ASSUME NEW u \in Moved(k, s, d)
        PROVE  f[u] = Id!RawId(s, Donor(k, s, u)) /\ Donor(k, s, u) \in Freed(k, s, d)
    <2>1. /\ u \in Id!Sections(s) /\ u \notin Id!Matched(k, s)
          /\ Id!RawId(s, u) \in Taken(k, s)
      BY <1>3
    <2> QED BY <2>1, NewIdIs, DonorIs
  <1>6. \A x \in Id!Matched(k, s) : f[x] \in Taken(k, s)
    BY KeptFacts, NewIdIs
  <1>7. \A x, y \in Id!Sections(s) : f[x] = f[y] => x = y
    BY NewIdTells
  <1>8. \A x, y \in Id!Sections(s) : Id!RawId(s, x) = Id!RawId(s, y) => x = y
    BY RawIdTells
  <1>9. \A x \in Id!Sections(s) \ Id!Matched(k, s) :
            \E y \in Id!Sections(s) : y[1] = x[1] /\ f[x] = Id!RawId(s, y)
    BY SourceIs
  <1>10. Resettled(k, s, d) = Moved(k, s, d) \cap M2
    BY DEF Resettled
  <1> HIDE DEF n, f, M2, T2
  <1>11. ASSUME NEW x \in Moved(n, s, d) PROVE x \in Moved(k, s, d) \ M2
    <2>1. /\ x \in Id!Sections(s) /\ x \notin M2 /\ x[1] = d /\ Id!RawId(s, x) \in T2
          /\ x \notin Id!Matched(k, s)
      BY <1>1, <1>2
    <2>2. PICK y \in M2 : Id!RawId(s, x) = f[y]
      BY <1>1, <2>1
    <2>3. Id!RawId(s, x) \in Taken(k, s)
      BY <1>1, <1>4, <1>7, <2>1, <2>2
    <2> QED BY <1>3, <2>1, <2>3
  <1>12. ASSUME NEW x \in Moved(k, s, d) \ M2 PROVE x \in Moved(n, s, d)
    BY <1>1, <1>2, <1>3, <1>12
  <1>13. ASSUME NEW y \in Freed(n, s, d), NEW u \in Moved(k, s, d) \cap M2
         PROVE  y \in Freed(k, s, d) /\ y # Donor(k, s, u)
    <2>1. /\ y \in M2 /\ y[1] = d /\ Id!RawId(s, y) \notin T2 /\ y \in Id!Sections(s)
          /\ Id!RawId(s, y) \notin Taken(k, s)
      BY <1>1, <1>2
    <2>2. y \in Id!Matched(k, s)
      BY <1>1, <1>4, <2>1
    <2>3. y \in Freed(k, s, d)
      BY <1>3, <2>1, <2>2
    <2>4. f[u] = Id!RawId(s, Donor(k, s, u)) /\ f[u] \in T2
      BY <1>1, <1>5
    <2> QED BY <2>1, <2>3, <2>4
  <1>14. ASSUME NEW y \in Freed(n, s, d) PROVE y \in Freed(k, s, d)
    BY <1>1, <1>2, <1>3, <1>4
  <1>15. ASSUME NEW y \in Freed(k, s, d),
                \A u \in Moved(k, s, d) \cap M2 : y # Donor(k, s, u)
         PROVE  y \in Freed(n, s, d)
    <2>1. /\ y \in Id!Matched(k, s) /\ y \in M2 /\ y[1] = d /\ y \in Id!Sections(s)
          /\ Id!RawId(s, y) \notin Taken(k, s)
      BY <1>1, <1>3
    <2>2. SUFFICES ASSUME Id!RawId(s, y) \in T2 PROVE FALSE
      BY <1>2, <2>1
    <2>3. PICK z \in M2 : Id!RawId(s, y) = f[z]
      BY <1>1, <2>2
    <2>4. z \in Id!Sections(s) /\ z \notin Id!Matched(k, s)
      BY <1>1, <1>6, <2>1, <2>3
    <2>5. Id!RawId(s, z) \in Taken(k, s)
      <3>1. SUFFICES ASSUME Id!RawId(s, z) \notin Taken(k, s) PROVE FALSE
        OBVIOUS
      <3>2. f[z] = Id!RawId(s, z)
        BY <1>4, <2>4, <3>1
      <3>3. y = z
        BY <1>8, <2>1, <2>3, <2>4, <3>2
      <3> QED BY <2>1, <2>4, <3>3
    <2>6. z[1] = d
      <3>1. PICK w \in Id!Sections(s) : w[1] = z[1] /\ f[z] = Id!RawId(s, w)
        BY <1>9, <2>4
      <3>2. w = y
        BY <1>8, <2>1, <2>3, <3>1
      <3> QED BY <2>1, <3>1, <3>2
    <2>7. z \in Moved(k, s, d) \cap M2
      BY <1>3, <2>4, <2>5, <2>6
    <2>8. f[z] = Id!RawId(s, Donor(k, s, z)) /\ Donor(k, s, z) \in Id!Sections(s)
      BY <1>1, <1>3, <1>5, <2>7
    <2>9. y = Donor(k, s, z)
      BY <1>8, <2>1, <2>3, <2>8
    <2> QED BY <1>15, <2>7, <2>9
  <1>16. Moved(n, s, d) = Moved(k, s, d) \ Resettled(k, s, d)
    BY <1>10, <1>11, <1>12
  <1>17. Freed(n, s, d) = Freed(k, s, d) \ {Donor(k, s, u) : u \in Resettled(k, s, d)}
    <2>1. \A y \in Freed(n, s, d) :
              y \in Freed(k, s, d) \ {Donor(k, s, u) : u \in Resettled(k, s, d)}
      BY <1>10, <1>13, <1>14
    <2>2. \A y \in Freed(k, s, d) \ {Donor(k, s, u) : u \in Resettled(k, s, d)} :
              y \in Freed(n, s, d)
      BY <1>10, <1>15
    <2> QED BY <2>1, <2>2
  <1> QED BY <1>16, <1>17 DEF n

\* The same section gives its ID the second time.
LEMMA DonorAgain ==
    ASSUME Id!Assumptions, NEW s \in Id!Snapshots, NEW k, Named(k), NEW d,
           NEW x \in Moved(NewSeed(k, s), s, d)
    PROVE  x \in Moved(k, s, d) /\ Donor(NewSeed(k, s), s, x) = Donor(k, s, x)
  <1> DEFINE n == NewSeed(k, s)
             S == Moved(k, s, d)
             V == Freed(k, s, d)
             C == Resettled(k, s, d)
             D == {Donor(k, s, u) : u \in C}
             g == [u \in S |-> Donor(k, s, u)]
  <1>0. Named(n)
    BY NewSeedNamed
  <1>1. Moved(n, s, d) = S \ C /\ Freed(n, s, d) = V \ D
    BY MovedAgain
  <1>2. C \in SUBSET S
    BY DEF Resettled
  <1>3. D = ImageOf(g, C)
    BY <1>2 DEF ImageOf
  <1>4. InRows(S) /\ InRows(V)
    BY MovedIs
  <1>5. g \in [S -> V] /\ SamePlaces(S, V, g)
    BY DonorIs DEF SamePlaces
  <1>6. x \in S \ C
    BY <1>1
  <1>7. g[x] = Donor(k, s, x)
    BY <1>6
  <1>8. \A y \in Freed(n, s, d) :
            Id!Place(Freed(n, s, d), y) = Id!Place(Moved(n, s, d), x) => y = Donor(n, s, x)
    <2>1. x \in Moved(n, s, d)
      OBVIOUS
    <2> HIDE DEF n
    <2> QED BY <1>0, <2>1, DonorIs
  <1> HIDE DEF n, S, V, C, D, g
  <1>9. /\ g[x] \in Without(V, ImageOf(g, C))
        /\ Id!Place(Without(V, ImageOf(g, C)), g[x]) = Id!Place(Without(S, C), x)
    BY <1>2, <1>4, <1>5, <1>6, PlacesAgree
  <1>10. /\ g[x] \in Freed(n, s, d)
         /\ Id!Place(Freed(n, s, d), g[x]) = Id!Place(Moved(n, s, d), x)
    BY <1>1, <1>3, <1>9, Zenon DEF Without
  <1>11. g[x] = Donor(n, s, x)
    BY <1>8, <1>10
  <1> QED BY <1>6, <1>7, <1>11 DEF n, S

\* To synchronise the same snapshot once more changes no name, and so no chunk.
LEMMA Settles ==
    ASSUME Id!Assumptions, NEW s \in Id!Snapshots, NEW k, Named(k)
    PROVE  NewSeed(NewSeed(k, s), s) = NewSeed(k, s)
  <1> DEFINE n == NewSeed(k, s)
  <1>0. Named(n)
    BY NewSeedNamed
  <1>1. ASSUME NEW x \in Id!Sections(s) PROVE NewIds(n, s)[x] = NewIds(k, s)[x]
    <2>0. /\ x \in Id!Matched(n, s) => NewIds(n, s)[x] = Id!Kept(n, s)[x]
          /\ (x \notin Id!Matched(n, s) /\ Id!RawId(s, x) \notin Taken(n, s))
                => NewIds(n, s)[x] = Id!RawId(s, x)
          /\ (x \notin Id!Matched(n, s) /\ Id!RawId(s, x) \in Taken(n, s))
                => /\ x \in Moved(n, s, x[1])
                   /\ NewIds(n, s)[x] = Id!RawId(s, Donor(n, s, x))
      <3> HIDE DEF n
      <3> QED BY <1>0, NewIdIs
    <2>1. CASE x \in Id!Matched(n, s)
      <3>1. Id!Kept(n, s)[x] = NewIds(k, s)[x]
        BY <2>1, MatchedAgain
      <3> QED BY <2>0, <2>1, <3>1
    <2>2. CASE x \notin Id!Matched(n, s)
      <3>0. x \notin Id!Matched(k, s)
        BY <2>2, MatchedAgain
      <3>1. CASE Id!RawId(s, x) \notin Taken(n, s)
        <4>1. Id!RawId(s, x) \notin Taken(k, s)
          BY <3>1, MatchedAgain
        <4>2. NewIds(k, s)[x] = Id!RawId(s, x)
          BY <3>0, <4>1, NewIdIs
        <4> QED BY <2>0, <2>2, <3>1, <4>2
      <3>2. CASE Id!RawId(s, x) \in Taken(n, s)
        <4>1. x \in Moved(n, s, x[1]) /\ NewIds(n, s)[x] = Id!RawId(s, Donor(n, s, x))
          BY <2>0, <2>2, <3>2
        <4>2. x \in Moved(k, s, x[1]) /\ Donor(n, s, x) = Donor(k, s, x)
          BY <4>1, DonorAgain
        <4>3. Id!RawId(s, x) \in Taken(k, s)
          BY <4>2, MovedIs
        <4>4. NewIds(k, s)[x] = Id!RawId(s, Donor(k, s, x))
          BY <3>0, <4>3, NewIdIs
        <4> QED BY <4>1, <4>2, <4>4
      <3> QED BY <3>1, <3>2
    <2> QED BY <2>1, <2>2
  <1>2. /\ NewIds(n, s) = [x \in Id!Sections(s) |-> NewIds(n, s)[x]]
        /\ NewIds(k, s) = [x \in Id!Sections(s) |-> NewIds(k, s)[x]]
    BY DEF NewIds, Id!Assigned
  <1> HIDE DEF n
  <1>3. NewIds(n, s) = NewIds(k, s)
    BY <1>1, <1>2
  <1> QED BY <1>3, Zenon DEF NewSeed, n

-----------------------------------------------------------------------------
\* The behaviours

\* The seed is well named, the snapshot and the count have their types, and between edits
\* the snapshot last applied is settled.
NamedInv ==
    /\ Named(records) /\ snapshot \in Id!Snapshots /\ edits \in 0..MaxHandEdits
    /\ edits = 0 => NewSeed(records, snapshot) = records

\* At first there is nothing to name.
LEMMA NamedInit == ASSUME Id!Assumptions, Id!Init PROVE NamedInv
  <1>1. records = <<>> /\ snapshot = <<>> /\ edits = 0
    BY DEF Id!Init
  <1>2. Named(<<>>)
    <2>1. DOMAIN <<>> = {} /\ IsFiniteSet({})
      BY FS_EmptySet
    <2>2. <<>> = [o \in DOMAIN <<>> |-> <<>>[o]]
      OBVIOUS
    <2> QED BY <2>1, <2>2 DEF Named
  <1>3. <<>> \in Id!Snapshots
    <2>1. <<>> \in [{} -> Id!Bodies]
      OBVIOUS
    <2> QED BY <2>1 DEF Id!Snapshots
  <1>4. NewSeed(<<>>, <<>>) = <<>>
    <2>1. Id!Sections(<<>>) = {}
      BY DEF Id!Sections
    <2>2. DOMAIN NewSeed(<<>>, <<>>) = {}
      BY <1>2, <1>3, <2>1, NewSeedIs
    <2>3. NewSeed(<<>>, <<>>) = [o \in DOMAIN NewSeed(<<>>, <<>>) |-> NewSeed(<<>>, <<>>)[o]]
      BY <1>2, <1>3, NewSeedIs
    <2> QED BY <2>2, <2>3
  <1>5. 0 \in 0..MaxHandEdits
    BY DEF Id!Assumptions
  <1> QED BY <1>1, <1>2, <1>3, <1>4, <1>5 DEF NamedInv

\* Every step keeps the seed well named and the snapshot settled.
LEMMA NamedNext ==
    ASSUME Id!Assumptions, NamedInv, [Id!Next]_(Id!vars) PROVE NamedInv'
  <1> USE DEF NamedInv
  <1>1. CASE Id!Sync
    <2>1. PICK s \in Id!Snapshots : /\ records' = NewSeed(records, s) /\ snapshot' = s
                                    /\ edits' = edits
      BY <1>1, Zenon DEF Id!Sync, NewSeed, NewIds
    <2>2. Named(records')
      BY <2>1, NewSeedNamed
    <2>3. NewSeed(records', snapshot') = records'
      BY <2>1, Settles
    <2> QED BY <2>1, <2>2, <2>3
  <1>2. CASE Id!EditChunk
    <2>1. PICK o \in DOMAIN records, t \in SectionTexts :
            records' = [records EXCEPT ![o].text = t]
      BY <1>2 DEF Id!EditChunk
    <2>2. edits' = edits + 1 /\ edits < MaxHandEdits /\ snapshot' = snapshot
      BY <1>2 DEF Id!EditChunk
    <2>3. edits' \in 0..MaxHandEdits /\ edits' # 0
      BY <2>2 DEF Id!Assumptions
    <2>4. DOMAIN records' = DOMAIN records /\ records' = [p \in DOMAIN records' |-> records'[p]]
      BY <2>1
    <2>5. ASSUME NEW p \in DOMAIN records
          PROVE  /\ records'[p] \in [doc : NamedDocuments, text : SectionTexts]
                 /\ records'[p].doc = records[p].doc
      BY <2>1 DEF Named
    <2>6. Named(records')
      BY <2>4, <2>5 DEF Named
    <2> QED BY <2>2, <2>3, <2>6
  <1>3. CASE UNCHANGED Id!vars
    BY <1>3 DEF Id!vars
  <1> QED BY <1>1, <1>2, <1>3 DEF Id!Next

\* In a well-named seed no preview is refused for its IDs or stopped without a loss.
LEMMA NamedSound ==
    ASSUME Id!Assumptions, NamedInv
    PROVE  Id!NeverRefused /\ Id!Settled /\ Id!StoppedForLoss
  <1>1. Id!NeverRefused
    BY NotRefused DEF NamedInv, Id!NeverRefused
  <1>2. Id!Settled
    BY Zenon DEF NamedInv, Id!Settled, NewSeed, NewIds
  <1>3. Id!StoppedForLoss
    BY StoppedOnlyForLoss DEF NamedInv, Id!StoppedForLoss
  <1> QED BY <1>1, <1>2, <1>3

\* Every step keeps the IDs of the texts and of the documents.
LEMMA IdentitySound ==
    ASSUME Id!Assumptions, NamedInv, [Id!Next]_(Id!vars)
    PROVE  [Id!IdentityKept /\ Id!IdsStay]_(Id!vars)
  <1> USE DEF NamedInv
  <1>1. CASE Id!Sync
    <2>1. PICK s \in Id!Snapshots : records' = NewSeed(records, s) /\ snapshot' = s
      BY <1>1, Zenon DEF Id!Sync, NewSeed, NewIds
    <2>2. Id!IdentityKept
      BY <2>1, KeepsIdentity DEF Id!IdentityKept
    <2>3. Id!IdsStay
      BY <2>1, StaysInside DEF Id!IdsStay
    <2> QED BY <2>2, <2>3
  <1>2. CASE Id!EditChunk
    <2>1. PICK o \in DOMAIN records, t \in SectionTexts :
            records' = [records EXCEPT ![o].text = t]
      BY <1>2 DEF Id!EditChunk
    <2>2. edits' # edits
      BY <1>2 DEF Id!EditChunk
    <2>3. Id!IdsStay
      BY <2>1 DEF Id!IdsStay, Named
    <2> QED BY <2>2, <2>3 DEF Id!IdentityKept
  <1>3. CASE UNCHANGED Id!vars
    BY <1>3
  <1> QED BY <1>1, <1>2, <1>3 DEF Id!Next

\* The seed, the snapshot last applied and the count of edits have their types, whatever was
\* synchronised and edited (ChunkIdentity).
THEOREM NamesTyped == ASSUME Id!Assumptions PROVE Id!Spec => []Id!TypeOK
  <1>1. Id!Init => NamedInv
    BY NamedInit
  <1>2. NamedInv /\ [Id!Next]_(Id!vars) => NamedInv'
    BY NamedNext
  <1>3. NamedInv => Id!TypeOK
    BY DEF NamedInv, Named, Id!TypeOK
  <1> QED BY <1>1, <1>2, <1>3, PTL DEF Id!Spec

\* Every section of every snapshot has an ID of its own inside its document, whatever came
\* before; naming settles; the removal limits judge knowledge, not IDs; a text that is once
\* in its document keeps its ID and an ID its document (ChunkIdentity).
THEOREM NamesSound == ASSUME Id!Assumptions PROVE Id!Spec => Id!NamingIsSound
  <1>1. Id!Init => NamedInv
    BY NamedInit
  <1>2. NamedInv /\ [Id!Next]_(Id!vars) => NamedInv'
    BY NamedNext
  <1>3. NamedInv => Id!NeverRefused /\ Id!Settled /\ Id!StoppedForLoss
    BY NamedSound
  <1>4. NamedInv /\ [Id!Next]_(Id!vars) => [Id!IdentityKept /\ Id!IdsStay]_(Id!vars)
    BY IdentitySound
  <1> QED BY <1>1, <1>2, <1>3, <1>4, PTL DEF Id!Spec, Id!NamingIsSound
=============================================================================
