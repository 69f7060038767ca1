---------------------------- MODULE KnowledgeProofs ----------------------------
(***************************************************************************)
(* Theorems about the knowledge base as the suite MCKnowledge puts it      *)
(* together: what is proved of the seed and its caches, of the naming, of  *)
(* the pull and of the admin page (KBCacheProofs), for any constants,      *)
(* holds in each of its instances.  The part of a behaviour never changes, *)
(* so the behaviours of a part are those of its instance.                  *)
(***************************************************************************)
EXTENDS MCKnowledge, TLAPS

LEMMA EditsAlone ==
  KnowledgeSpec => \/ [](~(part = "edits"))
                   \/ One!Spec /\ [](part = "edits")
<1>1. KnowledgeInit /\ part = "edits" => One!Init
  BY DEF KnowledgeInit
<1>2. part = "edits" /\ [KnowledgeNext]_knowledgeVars
     => (part = "edits")' /\ [One!Next]_(One!vars)
  BY DEF KnowledgeNext, Alone, knowledgeVars, cacheVars, One!vars, One!askVars, One!toolVars,
     One!historyVars
<1>3. ~(part = "edits") /\ [KnowledgeNext]_knowledgeVars
     => ~(part = "edits")'
  BY DEF KnowledgeNext, Alone, knowledgeVars
<1>4. QED
  BY <1>1, <1>2, <1>3, PTL DEF KnowledgeSpec, One!Spec

LEMMA ReleaseAlone ==
  KnowledgeSpec => \/ [](~(part = "release"))
                   \/ Three!Spec /\ [](part = "release")
<1>1. KnowledgeInit /\ part = "release" => Three!Init
  BY DEF KnowledgeInit
<1>2. part = "release" /\ [KnowledgeNext]_knowledgeVars
     => (part = "release")' /\ [Three!Next]_(Three!vars)
  BY DEF KnowledgeNext, Alone, knowledgeVars, cacheVars, Three!vars, Three!askVars,
     Three!toolVars, Three!historyVars
<1>3. ~(part = "release") /\ [KnowledgeNext]_knowledgeVars
     => ~(part = "release")'
  BY DEF KnowledgeNext, Alone, knowledgeVars
<1>4. QED
  BY <1>1, <1>2, <1>3, PTL DEF KnowledgeSpec, Three!Spec

LEMMA IndexAlone ==
  KnowledgeSpec => \/ [](~(part = "index"))
                   \/ Two!Spec /\ [](part = "index")
<1>1. KnowledgeInit /\ part = "index" => Two!Init
  BY DEF KnowledgeInit
<1>2. part = "index" /\ [KnowledgeNext]_knowledgeVars
     => (part = "index")' /\ [Two!Next]_(Two!vars)
  BY DEF KnowledgeNext, Alone, knowledgeVars, cacheVars, Two!vars, Two!askVars, Two!toolVars,
     Two!historyVars
<1>3. ~(part = "index") /\ [KnowledgeNext]_knowledgeVars
     => ~(part = "index")'
  BY DEF KnowledgeNext, Alone, knowledgeVars
<1>4. QED
  BY <1>1, <1>2, <1>3, PTL DEF KnowledgeSpec, Two!Spec

LEMMA ShiftAlone ==
  KnowledgeSpec => \/ [](~(part = "shift"))
                   \/ One!Id!Spec /\ [](part = "shift")
<1>1. KnowledgeInit /\ part = "shift" => One!Id!Init
  BY DEF KnowledgeInit
<1>2. part = "shift" /\ [KnowledgeNext]_knowledgeVars
     => (part = "shift")' /\ [One!Id!Next]_(One!Id!vars)
  BY DEF KnowledgeNext, Alone, knowledgeVars, namingVars, One!Id!vars
<1>3. ~(part = "shift") /\ [KnowledgeNext]_knowledgeVars
     => ~(part = "shift")'
  BY DEF KnowledgeNext, Alone, knowledgeVars
<1>4. QED
  BY <1>1, <1>2, <1>3, PTL DEF KnowledgeSpec, One!Id!Spec

LEMMA SlugsAlone ==
  KnowledgeSpec => \/ [](~(part = "slugs"))
                   \/ Two!Id!Spec /\ [](part = "slugs")
<1>1. KnowledgeInit /\ part = "slugs" => Two!Id!Init
  BY DEF KnowledgeInit
<1>2. part = "slugs" /\ [KnowledgeNext]_knowledgeVars
     => (part = "slugs")' /\ [Two!Id!Next]_(Two!Id!vars)
  BY DEF KnowledgeNext, Alone, knowledgeVars, namingVars, Two!Id!vars
<1>3. ~(part = "slugs") /\ [KnowledgeNext]_knowledgeVars
     => ~(part = "slugs")'
  BY DEF KnowledgeNext, Alone, knowledgeVars
<1>4. QED
  BY <1>1, <1>2, <1>3, PTL DEF KnowledgeSpec, Two!Id!Spec

LEMMA PagesAlone ==
  KnowledgeSpec => \/ [](~(part = "pages"))
                   \/ One!Pull!Spec /\ [](part = "pages")
<1>1. KnowledgeInit /\ part = "pages" => One!Pull!Init
  BY DEF KnowledgeInit
<1>2. part = "pages" /\ [KnowledgeNext]_knowledgeVars
     => (part = "pages")' /\ [One!Pull!Next]_(One!Pull!vars)
  BY DEF KnowledgeNext, Alone, knowledgeVars, pullVars, One!Pull!vars
<1>3. ~(part = "pages") /\ [KnowledgeNext]_knowledgeVars
     => ~(part = "pages")'
  BY DEF KnowledgeNext, Alone, knowledgeVars
<1>4. QED
  BY <1>1, <1>2, <1>3, PTL DEF KnowledgeSpec, One!Pull!Spec

LEMMA DeadlineAlone ==
  KnowledgeSpec => \/ [](~(part = "deadline"))
                   \/ Two!Pull!Spec /\ [](part = "deadline")
<1>1. KnowledgeInit /\ part = "deadline" => Two!Pull!Init
  BY DEF KnowledgeInit
<1>2. part = "deadline" /\ [KnowledgeNext]_knowledgeVars
     => (part = "deadline")' /\ [Two!Pull!Next]_(Two!Pull!vars)
  BY DEF KnowledgeNext, Alone, knowledgeVars, pullVars, Two!Pull!vars
<1>3. ~(part = "deadline") /\ [KnowledgeNext]_knowledgeVars
     => ~(part = "deadline")'
  BY DEF KnowledgeNext, Alone, knowledgeVars
<1>4. QED
  BY <1>1, <1>2, <1>3, PTL DEF KnowledgeSpec, Two!Pull!Spec

LEMMA PatientAlone ==
  KnowledgeSpec => \/ [](~(part = "patient"))
                   \/ One!Page!Spec /\ [](part = "patient")
<1>1. KnowledgeInit /\ part = "patient" => One!Page!Init
  BY DEF KnowledgeInit
<1>2. part = "patient" /\ [KnowledgeNext]_knowledgeVars
     => (part = "patient")' /\ [One!Page!Next]_(One!Page!vars)
  BY DEF KnowledgeNext, Alone, knowledgeVars, pageVars, One!Page!vars, One!Page!editor,
     One!Page!server
<1>3. ~(part = "patient") /\ [KnowledgeNext]_knowledgeVars
     => ~(part = "patient")'
  BY DEF KnowledgeNext, Alone, knowledgeVars
<1>4. QED
  BY <1>1, <1>2, <1>3, PTL DEF KnowledgeSpec, One!Page!Spec

LEMMA AnyhowAlone ==
  KnowledgeSpec => \/ [](~(part = "anyhow"))
                   \/ Two!Page!Spec /\ [](part = "anyhow")
<1>1. KnowledgeInit /\ part = "anyhow" => Two!Page!Init
  BY DEF KnowledgeInit
<1>2. part = "anyhow" /\ [KnowledgeNext]_knowledgeVars
     => (part = "anyhow")' /\ [Two!Page!Next]_(Two!Page!vars)
  BY DEF KnowledgeNext, Alone, knowledgeVars, pageVars, Two!Page!vars, Two!Page!editor,
     Two!Page!server
<1>3. ~(part = "anyhow") /\ [KnowledgeNext]_knowledgeVars
     => ~(part = "anyhow")'
  BY DEF KnowledgeNext, Alone, knowledgeVars
<1>4. QED
  BY <1>1, <1>2, <1>3, PTL DEF KnowledgeSpec, Two!Page!Spec

LEMMA OnePart == KnowledgeSpec => [](\/ part = "edits" \/ part = "release" \/ part = "index"
                                     \/ part = "shift" \/ part = "slugs" \/ part = "pages"
                                     \/ part = "deadline" \/ part = "patient" \/ part = "anyhow")
<1> DEFINE Some == \/ part = "edits" \/ part = "release" \/ part = "index"
                   \/ part = "shift" \/ part = "slugs" \/ part = "pages"
                   \/ part = "deadline" \/ part = "patient" \/ part = "anyhow"
<1>1. KnowledgeInit => Some
  BY DEF KnowledgeInit
<1>2. Some /\ [KnowledgeNext]_knowledgeVars => Some'
  BY DEF KnowledgeNext, Alone, knowledgeVars
<1>3. QED
  BY <1>1, <1>2, PTL DEF KnowledgeSpec

\* Whatever part of the knowledge base a behaviour is about, its variables keep their types.
THEOREM KnowledgeTyped == KnowledgeSpec => []PartsTyped
<1>1. /\ part = "edits" /\ One!TypeOK => PartsTyped
      /\ part = "release" /\ Three!TypeOK => PartsTyped
      /\ part = "index" /\ Two!TypeOK => PartsTyped
      /\ part = "shift" /\ One!Id!TypeOK => PartsTyped
      /\ part = "slugs" /\ Two!Id!TypeOK => PartsTyped
      /\ part = "pages" /\ One!Pull!TypeOK => PartsTyped
      /\ part = "deadline" /\ Two!Pull!TypeOK => PartsTyped
      /\ part = "patient" /\ One!Page!TypeOK => PartsTyped
      /\ part = "anyhow" /\ Two!Page!TypeOK => PartsTyped
  BY DEF PartsTyped
<1>2. /\ One!Spec => []One!TypeOK
      /\ Two!Spec => []Two!TypeOK
      /\ Three!Spec => []Three!TypeOK
  BY KnowledgeAssumption, One!TypeCorrect, Two!TypeCorrect, Three!TypeCorrect
<1>3. /\ One!Id!Spec => []One!Id!TypeOK
      /\ Two!Id!Spec => []Two!Id!TypeOK
  BY KnowledgeAssumption, One!NamesTyped, Two!NamesTyped
<1>4. /\ One!Pull!Spec => []One!Pull!TypeOK
      /\ Two!Pull!Spec => []Two!Pull!TypeOK
  BY KnowledgeAssumption, One!PullTyped, Two!PullTyped
<1>5. /\ One!Page!Spec => []One!Page!TypeOK
      /\ Two!Page!Spec => []Two!Page!TypeOK
  BY KnowledgeAssumption, One!PageTyped, Two!PageTyped
<1>6. QED
  BY <1>1, <1>2, <1>3, <1>4, <1>5, OnePart, EditsAlone, ReleaseAlone, IndexAlone, ShiftAlone,
     SlugsAlone, PagesAlone, DeadlineAlone, PatientAlone, AnyhowAlone, PTL

\* rag/cache.py, main.py, scripts/index_kb.py: an answer is filed and served under the revision
\* that it was made from, and a release with the processes down leaves none of an older text.
THEOREM KnowledgeCurrent == KnowledgeSpec => AnswersAreCurrent
<1> DEFINE Bound == /\ part = "edits" => One!RevisionBinding
                    /\ part = "index" => Two!RevisionBinding
                    /\ part = "release" => Three!RevisionBinding /\ Three!ReleaseIsFresh
           Fresh == /\ part = "edits" => One!ConfirmsRevision
                    /\ part = "index" => Two!ConfirmsRevision
                    /\ part = "release" => Three!ConfirmsRevision
<1>1. /\ One!Spec => One!AnswersAreCurrent
      /\ Two!Spec => Two!AnswersAreCurrent
      /\ Three!Spec => Three!AnswersAreCurrent
  BY KnowledgeAssumption, One!AnswersStayCurrent, Two!AnswersStayCurrent,
     Three!AnswersStayCurrent DEF Reverts
<1>2. /\ One!Spec => /\ []One!RevisionBinding
                     /\ [][One!ConfirmsRevision]_(One!vars)
      /\ Two!Spec => /\ []Two!RevisionBinding
                     /\ [][Two!ConfirmsRevision]_(Two!vars)
      /\ Three!Spec => /\ [](Three!RevisionBinding /\ Three!ReleaseIsFresh)
                       /\ [][Three!ConfirmsRevision]_(Three!vars)
  BY <1>1, PTL DEF One!AnswersAreCurrent, Two!AnswersAreCurrent, Three!AnswersAreCurrent
<1>3. /\ part = "edits" /\ One!RevisionBinding => Bound
      /\ part = "index" /\ Two!RevisionBinding => Bound
      /\ part = "release" /\ Three!RevisionBinding /\ Three!ReleaseIsFresh => Bound
      /\ ~(part = "edits") /\ ~(part = "index") /\ ~(part = "release") => Bound
  OBVIOUS
<1>4. /\ part = "edits" /\ [One!ConfirmsRevision]_(One!vars)
           => [Fresh]_cacheVars
      /\ part = "index" /\ [Two!ConfirmsRevision]_(Two!vars)
           => [Fresh]_cacheVars
      /\ part = "release" /\ [Three!ConfirmsRevision]_(Three!vars)
           => [Fresh]_cacheVars
      /\ ~(part = "edits") /\ ~(part = "index") /\ ~(part = "release") => [Fresh]_cacheVars
  BY DEF cacheVars, One!vars, One!askVars, One!toolVars, One!historyVars, Two!vars,
     Two!askVars, Two!toolVars, Two!historyVars, Three!vars, Three!askVars, Three!toolVars,
     Three!historyVars
<1>5. QED
  BY <1>2, <1>3, <1>4, EditsAlone, IndexAlone, ReleaseAlone, PTL DEF AnswersAreCurrent

\* index_kb.py, the verification of a run, and runtime_status.py: who says that the index is the
\* published seed has looked while it was, beside any edits.
THEOREM KnowledgeIndexTold == KnowledgeSpec => IndexIsTold
<1> DEFINE Told == /\ part = "edits" => One!CompletesExact /\ One!GoesExact
                   /\ part = "index" => Two!CompletesExact /\ Two!GoesExact
                   /\ part = "release" => Three!CompletesExact /\ Three!GoesExact
<1>1. /\ One!Spec => One!IndexIsTold
      /\ Two!Spec => Two!IndexIsTold
      /\ Three!Spec => Three!IndexIsTold
  BY KnowledgeAssumption, One!IndexToldRight, Two!IndexToldRight, Three!IndexToldRight
  DEF Reverts
<1>2. /\ part = "edits" /\ [One!CompletesExact /\ One!GoesExact]_(One!vars) => [Told]_cacheVars
      /\ part = "index" /\ [Two!CompletesExact /\ Two!GoesExact]_(Two!vars) => [Told]_cacheVars
      /\ part = "release" /\ [Three!CompletesExact /\ Three!GoesExact]_(Three!vars)
           => [Told]_cacheVars
      /\ ~(part = "edits") /\ ~(part = "index") /\ ~(part = "release") => [Told]_cacheVars
  BY DEF cacheVars, One!vars, One!askVars, One!toolVars, One!historyVars, Two!vars,
     Two!askVars, Two!toolVars, Two!historyVars, Three!vars, Three!askVars, Three!toolVars,
     Three!historyVars
<1>3. QED
  BY <1>1, <1>2, EditsAlone, IndexAlone, ReleaseAlone, PTL
  DEF IndexIsTold, One!IndexIsTold, Two!IndexIsTold, Three!IndexIsTold

\* yonote_sync.py, the reconciliation: no preview is refused for its chunk IDs, to synchronise a
\* snapshot once more changes no chunk, a preview is stopped only for texts that are lost or
\* repeated, and a text that its document holds once keeps its ID.
THEOREM KnowledgeNamed == KnowledgeSpec => NamingIsSound
<1> DEFINE Named == /\ part = "shift" => /\ One!Id!NeverRefused /\ One!Id!Settled
                                         /\ One!Id!StoppedForLoss
                    /\ part = "slugs" => Two!Id!NeverRefused /\ Two!Id!Settled
           Kept == part = "slugs" => Two!Id!IdentityKept /\ Two!Id!IdsStay
<1>1. /\ One!Id!Spec => One!Id!NamingIsSound
      /\ Two!Id!Spec => Two!Id!NamingIsSound
  BY KnowledgeAssumption, One!NamesSound, Two!NamesSound
<1>2. /\ (/\ part = "shift" /\ One!Id!NeverRefused /\ One!Id!Settled
          /\ One!Id!StoppedForLoss) => Named
      /\ part = "slugs" /\ Two!Id!NeverRefused /\ Two!Id!Settled => Named
      /\ ~(part = "shift") /\ ~(part = "slugs") => Named
  OBVIOUS
<1>3. /\ [Two!Id!IdentityKept /\ Two!Id!IdsStay]_(Two!Id!vars) => [Kept]_namingVars
      /\ ~(part = "slugs") => [Kept]_namingVars
  BY DEF namingVars, Two!Id!vars
<1>4. QED
  BY <1>1, <1>2, <1>3, ShiftAlone, SlugsAlone, PTL
  DEF NamingIsSound, One!Id!NamingIsSound, Two!Id!NamingIsSound

\* sync_yonote_kb.py: a document that stays in its collection is in every snapshot that a preview
\* accepts, and a pull is over less than one read timeout after its deadline.
THEOREM KnowledgePulled == KnowledgeSpec => []PullIsSound
<1>1. /\ One!Pull!Spec => []One!Pull!PullIsSound
      /\ Two!Pull!Spec => []Two!Pull!PullIsSound
  BY KnowledgeAssumption, One!PullSound, Two!PullSound
<1>2. /\ part = "pages" /\ One!Pull!PullIsSound => PullIsSound
      /\ part = "deadline" /\ Two!Pull!PullIsSound => PullIsSound
      /\ ~(part = "pages") /\ ~(part = "deadline") => PullIsSound
  BY DEF PullIsSound
<1>3. QED
  BY <1>1, <1>2, PagesAlone, DeadlineAlone, PTL

\* admin/ui.py and main.py, the mutation lock: what a user who waits for every answer edits is
\* stored as shown and in order, and nobody gets the server to make two changes at once.
THEOREM KnowledgeEdited == KnowledgeSpec => EditsAreKept
<1> DEFINE Kept == /\ part = "patient" => /\ One!Page!OneMutation /\ One!Page!SavedAsShown
                                          /\ One!Page!CleanIsStored
                   /\ part = "anyhow" => Two!Page!OneMutation
           InOrder == part = "patient" => One!Page!StoresInOrder
<1>1. /\ One!Page!Spec => One!Page!EditsAreKept
      /\ Two!Page!Spec => Two!Page!EditsAreKept
  BY KnowledgeAssumption, One!EditsKept, Two!EditsKept
<1>2. /\ One!Page!Spec =>
           /\ [](/\ One!Page!OneMutation /\ One!Page!SavedAsShown
                 /\ One!Page!CleanIsStored)
           /\ [][One!Page!StoresInOrder]_(One!Page!vars)
      /\ Two!Page!Spec => []Two!Page!OneMutation
  BY <1>1, PTL DEF One!Page!EditsAreKept, Two!Page!EditsAreKept
<1>3. /\ (/\ part = "patient" /\ One!Page!OneMutation /\ One!Page!SavedAsShown
          /\ One!Page!CleanIsStored) => Kept
      /\ part = "anyhow" /\ Two!Page!OneMutation => Kept
      /\ ~(part = "patient") /\ ~(part = "anyhow") => Kept
  OBVIOUS
<1>4. /\ [One!Page!StoresInOrder]_(One!Page!vars) => [InOrder]_pageVars
      /\ ~(part = "patient") => [InOrder]_pageVars
  BY DEF pageVars, One!Page!vars, One!Page!editor, One!Page!server
<1>5. QED
  BY <1>2, <1>3, <1>4, PatientAlone, AnyhowAlone, PTL DEF EditsAreKept
================================================================================
