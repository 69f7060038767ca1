------------------------- MODULE AnswerGraphProofs -------------------------
(***************************************************************************)
(* Proofs about one request in the answer graph, for every set of chunks,  *)
(* with and without semantic recovery: what is sent, cached and remembered *)
(* of it, and how often the language model is called.  After them, what is *)
(* proved of every component on the way of a message, for the suite that   *)
(* composes them: AnswerGraph is the module that MCConversation extends.   *)
(***************************************************************************)
EXTENDS MCConversation, TLAPS

-----------------------------------------------------------------------------
(* The invariant: what is known at each node of the path that ends in an   *)
(* answer.                                                                 *)

Searching == {"retrieve", "rerank", "recover", "generate", "draft", "guard", "verify", "respond"}

\* A request starts from nothing, only one that needs no clarification is searched, and
\* only one that has not been recovered is recovered.
SearchInv ==
  /\ at = "analyze" => bot = InitialBot
  /\ at \in Searching => bot.analysis \in Analyses /\ bot.analysis.clarify = "no"
  /\ at = "recover" => ~bot.attempted
  /\ at \in {"generate", "draft"} => ~bot.escalate

\* A response before and during verification: it has citations, only the generator's own text
\* goes to the judge as the generator's, and a text with a note is marked incomplete.
ResponseInv ==
  at \in {"guard", "verify"} =>
    /\ ~bot.escalate /\ bot.response.by \in Factual /\ bot.cited # {}
    /\ bot.response.by = "llm" => bot.model = "llm"
    /\ bot.response.noted => bot.missing

\* A response that verify let through.
AcceptedInv ==
  at = "respond" =>
    /\ ~bot.escalate /\ bot.verdict = "pass" /\ bot.cited # {}
    /\ bot.cited \subseteq bot.reranked \cap Yonote
    /\ [text |-> bot.response, cited |-> bot.cited] \in accepted
    /\ bot.response.by \in Factual \cup {"forum"}
    /\ bot.response.noted => bot.missing
    /\ bot.response.by = "llm" /\ ~bot.response.noted => bot.judged

\* A request that is clarified is in scope only when it is not escalated.
ClarifyInv ==
  at = "clarify" => bot.cited = {} /\ (bot.analysis.offtopic \/ ~bot.escalate)

\* The result, as the caller finds it.
ResultInv ==
  /\ SentAsVerified /\ SynthesisIsJudged /\ EscalationIsTold
  /\ at = "finish" =>
       /\ AwaitsAnswer => bot.final.by = "clarification"
       /\ Cacheable => /\ ~bot.final.noted /\ bot.verdict = "pass"
                       /\ [text |-> bot.final, cited |-> bot.cited] \in accepted
  /\ at # "done" => ~cached /\ ~pending
  /\ PendingWasAsked /\ CachedIsComplete

OutcomeInv == SearchInv /\ ResponseInv /\ AcceptedInv /\ ClarifyInv /\ ResultInv

\* Calls of the model spent at each node, and where the judge leaves a request.
Pass == IF bot.attempted THEN 3 ELSE 0

BudgetInv ==
  /\ calls <= 7
  /\ at = "analyze" => calls = 0
  /\ at \in {"retrieve", "rerank", "generate"} => calls <= 1 + Pass
  /\ at = "draft" => calls <= 1 + Pass + drafts
  /\ at = "recover" => calls <= 3
  /\ at \in {"guard", "verify"} => calls <= 3 + Pass
  /\ bot.judged => at \in {"respond", "escalate", "finish", "done"}

-----------------------------------------------------------------------------
(* Types.                                                                  *)

LEMMA TextIsText ==
  ASSUME NEW by \in {"none", "source", "llm", "fact", "forum", "scope", "clarification", "operator"},
         NEW llm \in BOOLEAN, NEW noted \in BOOLEAN
  PROVE  Text(by, llm, noted) \in Texts
  BY DEF Texts, Text

\* The texts, reasons, analyses and confidences that the nodes assign.
LEMMA Values ==
  /\ {NoText, OperatorTransfer, UnknownForum} \subseteq Texts
  /\ 0 \in 0..High /\ NoAnalysis \in Analyses \cup {NoAnalysis}
  /\ {"", "analysis", "fault", "generation", "verification", "final_response",
      "request_timeout", "needs_operator", "low_confidence", "no_relevant_chunks",
      "no_sources_for_generation", "insufficient_sources"} \subseteq Reasons
<1>1. {NoText, OperatorTransfer, UnknownForum} \subseteq Texts
  BY TextIsText DEF NoText, OperatorTransfer, UnknownForum
<1>2. 0 \in 0..High
  BY DEF High
<1>3. QED
  BY <1>1, <1>2 DEF Reasons, Recoverable

LEMMA InitialIsBot == InitialBot \in Bots
  BY Values DEF InitialBot, Bots

LEMMA TypeInit == ASSUME Assumptions, Init PROVE TypeOK
<1>1. 0 \in 0..CallCap /\ 0 \in 0..1
  BY DEF Assumptions
<1>2. QED
  BY <1>1, InitialIsBot DEF Init, TypeOK, Nodes

LEMMA CallsCounted == ASSUME Assumptions, calls \in 0..CallCap, CallModel PROVE calls' \in 0..CallCap
  BY DEF Assumptions, CallModel

LEMMA TypeAnalyze == ASSUME Assumptions, TypeOK, Analyze PROVE TypeOK'
<1>1. CASE \E a \in Analyses :
             bot' = [bot EXCEPT !.analysis = a, !.escalate = a.operator,
                                !.reason = IF a.operator THEN "analysis" ELSE ""]
  <2>1. PICK a \in Analyses :
             bot' = [bot EXCEPT !.analysis = a, !.escalate = a.operator,
                                !.reason = IF a.operator THEN "analysis" ELSE ""]
    BY <1>1
  <2>2. a.operator \in BOOLEAN
    BY DEF Analyses
  <2>3. (IF a.operator THEN "analysis" ELSE "") \in Reasons
    BY Values
  <2>4. bot' \in Bots
    BY <2>1, <2>2, <2>3 DEF TypeOK, Bots
  <2>5. QED
    BY <2>4, CallsCounted DEF Analyze, TypeOK, RouteAfterAnalyze, Nodes
<1>2. CASE \/ bot' = [bot EXCEPT !.analysis = [present |-> TRUE, offtopic |-> FALSE,
                                            operator |-> FALSE, clarify |-> "asks"]]
           \/ bot' = [bot EXCEPT !.escalate = TRUE, !.reason = "fault"]
  <2>1. [present |-> TRUE, offtopic |-> FALSE, operator |-> FALSE, clarify |-> "asks"] \in Analyses
    BY DEF Analyses
  <2>2. bot' \in Bots
    BY <1>2, <2>1, Values DEF TypeOK, Bots
  <2>3. QED
    BY <2>2, CallsCounted DEF Analyze, TypeOK, RouteAfterAnalyze, Nodes
<1>3. QED
  BY <1>1, <1>2 DEF Analyze

LEMMA TypeRetrieve == ASSUME Assumptions, TypeOK, Retrieve PROVE TypeOK'
<1>1. bot' \in Bots
  BY Values DEF Retrieve, TypeOK, Bots
<1>2. QED
  BY <1>1 DEF Retrieve, TypeOK, Nodes

LEMMA TypeRanked ==
  ASSUME TypeOK, NEW kept \in SUBSET Chunks, NEW c \in 0..High, NEW failed \in BOOLEAN,
         NEW why \in Reasons,
         bot' = [bot EXCEPT !.reranked = kept, !.confidence = c, !.escalate = failed,
                            !.reason = IF failed THEN why ELSE @]
  PROVE  bot' \in Bots
  BY DEF TypeOK, Bots

LEMMA TypeRerank == ASSUME Assumptions, TypeOK, Rerank PROVE TypeOK'
<1> DEFINE candidates == bot.retrieved \cap Yonote
           Ranked(kept, c, failed, why) ==
             bot' = [bot EXCEPT !.reranked = kept, !.confidence = c, !.escalate = failed,
                                !.reason = IF failed THEN why ELSE @]
<1>1. at' \in Nodes
  BY DEF Rerank, RouteAfterRerank, Nodes
<1>2. \/ bot' = bot
      \/ Ranked({}, 0, TRUE, "no_relevant_chunks")
      \/ Ranked({}, 0, TRUE, "fault")
      \/ \E kept \in SUBSET candidates, c \in 0..High :
           Ranked(kept, c, c < Low, IF c = 0 THEN "no_relevant_chunks" ELSE "low_confidence")
  BY DEF Rerank
<1>3. candidates \in SUBSET Chunks /\ {} \in SUBSET Chunks
  BY DEF Chunks
<1>4. ASSUME NEW why \in {"no_relevant_chunks", "fault"}, Ranked({}, 0, TRUE, why)
      PROVE  bot' \in Bots
  <2>1. why \in Reasons
    BY Values
  <2>2. QED
    BY <1>3, <1>4, <2>1, Values, TypeRanked
<1>5. ASSUME NEW kept \in SUBSET candidates, NEW c \in 0..High,
             Ranked(kept, c, c < Low, IF c = 0 THEN "no_relevant_chunks" ELSE "low_confidence")
      PROVE  bot' \in Bots
  <2>1. (IF c = 0 THEN "no_relevant_chunks" ELSE "low_confidence") \in Reasons
    BY Values
  <2>2. kept \in SUBSET Chunks /\ (c < Low) \in BOOLEAN
    BY <1>3
  <2>3. QED
    BY <1>5, <2>1, <2>2, TypeRanked
<1>6. bot' \in Bots
  BY <1>2, <1>4, <1>5 DEF TypeOK
<1>7. QED
  BY <1>1, <1>6 DEF Rerank, TypeOK

\* What semantic recovery does: the request starts afresh, or the first failure stands.
LEMMA RecoverMoves ==
  ASSUME TypeOK, SearchInv, Recover
  PROVE  \/ /\ at' = "retrieve"
            /\ \E a \in Analyses :
                 /\ a.clarify = "no"
                 /\ bot' = [bot EXCEPT !.analysis = a, !.attempted = TRUE, !.retrieved = {},
                              !.reranked = {}, !.confidence = 0, !.response = NoText, !.cited = {},
                              !.missing = FALSE, !.escalate = FALSE, !.reason = ""]
         \/ /\ at' = "escalate"
            /\ bot' = [bot EXCEPT !.attempted = TRUE, !.escalate = TRUE,
                                  !.response = NoText, !.cited = {}]
<1> DEFINE a == [bot.analysis EXCEPT !.clarify = "no", !.operator = FALSE]
<1>1. a \in Analyses /\ a.clarify = "no"
  BY DEF SearchInv, Searching, Recover, Analyses
<1>2. \/ /\ at' = "retrieve"
         /\ bot' = [bot EXCEPT !.analysis = a, !.attempted = TRUE, !.retrieved = {}, !.reranked = {},
                           !.confidence = 0, !.response = NoText, !.cited = {},
                           !.missing = FALSE, !.escalate = FALSE, !.reason = ""]
      \/ /\ at' = "escalate"
         /\ bot' = [bot EXCEPT !.attempted = TRUE, !.escalate = TRUE,
                           !.response = NoText, !.cited = {}]
  BY DEF Recover, TypeOK, Bots, SearchInv, Searching, Analyses
<1> HIDE DEF a
<1>3. QED
  BY <1>1, <1>2, Zenon

LEMMA TypeRecover == ASSUME Assumptions, TypeOK, SearchInv, Recover PROVE TypeOK'
<1>1. ASSUME NEW a \in Analyses,
             bot' = [bot EXCEPT !.analysis = a, !.attempted = TRUE, !.retrieved = {},
                              !.reranked = {}, !.confidence = 0, !.response = NoText, !.cited = {},
                              !.missing = FALSE, !.escalate = FALSE, !.reason = ""]
      PROVE  bot' \in Bots
  <2>1. /\ bot \in Bots /\ a \in Analyses \cup {NoAnalysis} /\ 0 \in 0..High
        /\ NoText \in Texts /\ "" \in Reasons /\ {} \in SUBSET Chunks
    BY Values DEF TypeOK
  <2>2. QED
    BY <1>1, <2>1 DEF Bots
<1>2. ASSUME bot' = [bot EXCEPT !.attempted = TRUE, !.escalate = TRUE,
                                !.response = NoText, !.cited = {}]
      PROVE  bot' \in Bots
  BY <1>2, Values DEF TypeOK, Bots
<1>3. bot' \in Bots
  BY <1>1, <1>2, RecoverMoves
<1>4. QED
  BY <1>3, CallsCounted DEF Recover, TypeOK, Nodes

LEMMA FailsType ==
  ASSUME TypeOK, NEW why \in Reasons,
         NEW model \in {"none", "source_chunk", "source_only", "llm"}, GenerationFails(why, model)
  PROVE  bot' \in Bots /\ at' \in Nodes
<1>1. bot' \in Bots
  BY Values DEF GenerationFails, TypeOK, Bots
<1>2. QED
  BY <1>1 DEF GenerationFails, RouteAfterGenerate, Nodes

LEMMA CopiesType ==
  ASSUME TypeOK, NEW used \in SUBSET Chunks, NEW partial \in BOOLEAN, Copies(used, partial)
  PROVE  bot' \in Bots /\ at' \in Nodes
<1>1. Text("source", FALSE, partial) \in Texts
  BY TextIsText
<1>2. bot.missing \/ partial \in BOOLEAN
  BY DEF TypeOK, Bots
<1>3. bot' \in Bots
  BY <1>1, <1>2 DEF Copies, TypeOK, Bots
<1>4. QED
  BY <1>3 DEF Copies, RouteAfterGenerate, Nodes

\* What generate does before its first call of the model.
LEMMA GenerateMoves ==
  ASSUME TypeOK, Generate
  PROVE  \/ \E why \in {"generation", "no_sources_for_generation", "insufficient_sources"},
               model \in {"source_chunk", "source_only"} :
             GenerationFails(why, model) /\ NoDraft
         \/ \E used \in (SUBSET Chunks) \ {{}}, partial \in BOOLEAN : Copies(used, partial)
         \/ \E used \in (SUBSET Chunks) \ {{}} : Synthesises(used)
<1> DEFINE chunks == bot.reranked \cap Yonote
<1>1. \A used \in (SUBSET chunks) \ {{}} : used \in (SUBSET Chunks) \ {{}}
  BY DEF Chunks
<1>2. NoSources(chunks) \/ NotEnough(chunks) \/ FromFacts(chunks)
         \/ FromClauses(chunks) \/ FromSources(chunks) \/ FromPartOfSources(chunks)
  BY DEF Generate
<1> HIDE DEF chunks
<1>3. CASE NoSources(chunks) \/ NotEnough(chunks)
  BY <1>3 DEF NoSources, NotEnough
<1>4. CASE FromFacts(chunks) \/ FromClauses(chunks) \/ FromSources(chunks) \/ FromPartOfSources(chunks)
  BY <1>1, <1>4 DEF FromFacts, FromClauses, FromSources, FromPartOfSources, ContractFails
<1>5. QED
  BY <1>2, <1>3, <1>4

LEMMA TypeGenerate == ASSUME Assumptions, TypeOK, Generate PROVE TypeOK'
<1>1. CASE \E why \in {"generation", "no_sources_for_generation", "insufficient_sources"},
              model \in {"source_chunk", "source_only"} : GenerationFails(why, model) /\ NoDraft
  <2>1. bot' \in Bots /\ at' \in Nodes
    BY <1>1, Values, FailsType
  <2>2. QED
    BY <1>1, <2>1 DEF Generate, NoDraft, TypeOK
<1>2. CASE \E used \in (SUBSET Chunks) \ {{}}, partial \in BOOLEAN : Copies(used, partial)
  <2>1. bot' \in Bots /\ at' \in Nodes
    BY <1>2, CopiesType
  <2>2. QED
    BY <1>2, <2>1 DEF Generate, Copies, NoDraft, TypeOK
<1>3. CASE \E used \in (SUBSET Chunks) \ {{}} : Synthesises(used)
  BY <1>3 DEF Generate, Synthesises, TypeOK, Nodes
<1>4. QED
  BY <1>1, <1>2, <1>3, GenerateMoves

\* What one draft comes to.
LEMMA DraftMoves ==
  ASSUME TypeOK, Draft
  PROVE  \/ /\ \E used \in (SUBSET Chunks) \ {{}} :
                  bot' = [bot EXCEPT !.response = Text("llm", TRUE, FALSE),
                                     !.cited = used, !.model = "llm"]
            /\ at' = RouteAfterGenerate(bot') /\ drafts' = drafts
         \/ drafts = 0 /\ drafts' = 1 /\ at' = at /\ bot' = bot
         \/ drafts = 1 /\ drafts' = 1 /\ GenerationFails("generation", "llm")
<1>1. sources \subseteq Chunks /\ drafts \in 0..1
  BY DEF TypeOK
<1>2. CASE \E used \in (SUBSET sources) \ {{}} :
          /\ Cardinality(sources) = 1 => used = sources
          /\ bot' = [bot EXCEPT !.response = Text("llm", TRUE, FALSE),
                                !.cited = used, !.model = "llm"]
          /\ at' = RouteAfterGenerate(bot')
          /\ UNCHANGED drafts
  <2>1. PICK used \in (SUBSET sources) \ {{}} :
          /\ bot' = [bot EXCEPT !.response = Text("llm", TRUE, FALSE),
                                !.cited = used, !.model = "llm"]
          /\ at' = RouteAfterGenerate(bot')
          /\ drafts' = drafts
    BY <1>2
  <2>2. used \in (SUBSET Chunks) \ {{}}
    BY <1>1
  <2>3. QED
    BY <2>1, <2>2
<1>3. CASE MayRedraft /\ drafts' = drafts + 1 /\ UNCHANGED <<at, bot>>
  BY <1>3 DEF MayRedraft
<1>4. CASE ~MayRedraft /\ GenerationFails("generation", "llm") /\ UNCHANGED drafts
  <2>1. drafts = 1 /\ drafts' = 1
    BY <1>1, <1>4 DEF MayRedraft
  <2>2. QED
    BY <1>4, <2>1, Zenon
<1>5. QED
  BY <1>2, <1>3, <1>4, Zenon DEF Draft

LEMMA TypeDraft == ASSUME Assumptions, TypeOK, Draft PROVE TypeOK'
<1>1. calls' \in 0..CallCap
  BY CallsCounted DEF Draft, TypeOK
<1>2. CASE drafts' = drafts /\ at' = RouteAfterGenerate(bot') /\ \E used \in (SUBSET Chunks) \ {{}} :
            bot' = [bot EXCEPT !.response = Text("llm", TRUE, FALSE),
                               !.cited = used, !.model = "llm"]
  <2>1. Text("llm", TRUE, FALSE) \in Texts
    BY TextIsText
  <2>2. bot' \in Bots
    BY <1>2, <2>1 DEF TypeOK, Bots
  <2>3. QED
    BY <1>1, <1>2, <2>2 DEF Draft, TypeOK, RouteAfterGenerate, Nodes
<1>3. CASE drafts = 0 /\ drafts' = 1 /\ at' = at /\ bot' = bot
  BY <1>1, <1>3 DEF Draft, TypeOK
<1>4. CASE drafts = 1 /\ drafts' = 1 /\ GenerationFails("generation", "llm")
  BY <1>1, <1>4, FailsType, Values DEF Draft, TypeOK
<1>5. QED
  BY <1>2, <1>3, <1>4, DraftMoves

LEMMA TypeGuard == ASSUME Assumptions, TypeOK, Guard PROVE TypeOK'
<1>1. CASE UNCHANGED bot
  BY <1>1 DEF Guard, TypeOK, Nodes
<1>2. ASSUME NEW fact \in Yonote,
             bot' = [bot EXCEPT !.response = Text("fact", FALSE, FALSE), !.cited = {fact},
                                !.model = "source_chunk", !.reranked = @ \cup {fact}]
      PROVE  bot' \in Bots
  <2>1. Text("fact", FALSE, FALSE) \in Texts /\ {fact} \in SUBSET Chunks
    BY TextIsText DEF Chunks
  <2>2. bot.reranked \cup {fact} \in SUBSET Chunks
    BY <2>1 DEF TypeOK, Bots
  <2>3. QED
    BY <1>2, <2>1, <2>2 DEF TypeOK, Bots
<1>3. CASE bot' = [bot EXCEPT !.response = Text("fact", bot.response.llm, bot.response.noted),
                              !.model = "source_chunk"]
  <2>1. bot.response.llm \in BOOLEAN /\ bot.response.noted \in BOOLEAN
    BY DEF TypeOK, Bots, Texts
  <2>2. Text("fact", bot.response.llm, bot.response.noted) \in Texts
    BY <2>1, TextIsText
  <2>3. bot' \in Bots
    BY <1>3, <2>2 DEF TypeOK, Bots
  <2>4. QED
    BY <2>3 DEF Guard, TypeOK, Nodes
<1>4. QED
  BY <1>1, <1>2, <1>3 DEF Guard, TypeOK, Nodes

\* What verify decides: the verdicts that need no model, and the judge's.
LEMMA VerifyMoves ==
  ASSUME Verify
  PROVE  \/ calls' = calls /\ \E why \in {"", "verification"} : Rejected(why)
         \/ /\ calls' = calls /\ Grounded
            /\ SignalsInsufficient \/ AsksForForum \/ NotesMissing
               \/ (Copied /\ Judged("pass", FALSE))
         \/ /\ CallModel /\ Grounded
            /\ \E verdict \in {"pass", "hallucination"} : Judged(verdict, TRUE)
  BY DEF Verify, MaySkipJudge

LEMMA TypeVerify == ASSUME Assumptions, TypeOK, Verify PROVE TypeOK'
<1>1. UnknownForum \in Texts /\ [bot.response EXCEPT !.noted = TRUE] \in Texts
  BY Values DEF TypeOK, Bots, Texts
<1>2. ASSUME NEW why \in {"", "verification"}, Rejected(why) PROVE bot' \in Bots
  BY <1>2, Values DEF Rejected, TypeOK, Bots
<1>3. ASSUME SignalsInsufficient PROVE bot' \in Bots
  BY <1>3, Values DEF SignalsInsufficient, TypeOK, Bots
<1>4. ASSUME AsksForForum PROVE bot' \in Bots
  BY <1>1, <1>4, Values DEF AsksForForum, TypeOK, Bots
<1>5. ASSUME NotesMissing PROVE bot' \in Bots
  BY <1>1, <1>5, Values DEF NotesMissing, TypeOK, Bots
<1>6. ASSUME NEW v \in {"pass", "hallucination"}, NEW t \in BOOLEAN, Judged(v, t)
      PROVE  bot' \in Bots
  BY <1>6 DEF Judged, TypeOK, Bots
<1>7. bot' \in Bots
  BY <1>2, <1>3, <1>4, <1>5, <1>6, VerifyMoves
<1>8. calls' \in 0..CallCap
  BY CallsCounted DEF Verify, TypeOK
<1>9. bot'.response \in Texts /\ bot'.cited \in SUBSET Chunks
  BY <1>7 DEF Bots
<1>10. accepted' \subseteq [text : Texts, cited : SUBSET Chunks]
  <2>1. [text |-> bot'.response, cited |-> bot'.cited] \in [text : Texts, cited : SUBSET Chunks]
    BY <1>9
  <2>2. accepted' \subseteq accepted \cup {[text |-> bot'.response, cited |-> bot'.cited]}
    BY DEF Verify
  <2>3. QED
    BY <2>1, <2>2 DEF TypeOK
<1>11. QED
  BY <1>7, <1>8, <1>10 DEF Verify, TypeOK, RouteAfterVerify, Nodes

LEMMA TypeEnds ==
  ASSUME Assumptions, TypeOK, Respond \/ Clarify \/ Escalate \/ Timeout \/ Finish
  PROVE  TypeOK'
<1>1. CASE Respond
  <2>1. bot.response \in Texts
    BY DEF TypeOK, Bots
  <2>2. bot' \in Bots
    BY <1>1, <2>1, Values DEF Respond, TypeOK, Bots
  <2>3. QED
    BY <1>1, <2>2 DEF Respond, TypeOK, Nodes
<1>2. CASE Clarify
  <2>1. Text("scope", FALSE, FALSE) \in Texts
        /\ (IF bot.analysis.clarify = "blank" THEN UnknownForum
            ELSE Text("clarification", FALSE, FALSE)) \in Texts
    BY TextIsText, Values
  <2>2. bot' \in Bots
    BY <1>2, <2>1, Values DEF Clarify, TypeOK, Bots
  <2>3. QED
    BY <1>2, <2>2 DEF Clarify, TypeOK, Nodes
<1>3. CASE Escalate
  <2>1. bot.reason \in Reasons
    BY DEF TypeOK, Bots
  <2>2. bot' \in Bots
    BY <1>3, <2>1, Values DEF Escalate, TypeOK, Bots
  <2>3. QED
    BY <1>3, <2>2 DEF Escalate, TypeOK, Nodes
<1>4. CASE Timeout
  <2>1. bot' \in Bots
    BY <1>4, InitialIsBot, Values DEF Timeout, Bots
  <2>2. QED
    BY <1>4, <2>1 DEF Timeout, TypeOK, Nodes
<1>5. CASE Finish
  BY <1>5 DEF Finish, TypeOK, Nodes, AwaitsAnswer, Cacheable
<1>6. QED
  BY <1>1, <1>2, <1>3, <1>4, <1>5

LEMMA TypeNext == ASSUME Assumptions, TypeOK, SearchInv, [Next]_vars PROVE TypeOK'
<1>1. CASE UNCHANGED vars
  BY <1>1 DEF vars, TypeOK
<1>2. CASE Node
  BY <1>2, TypeAnalyze, TypeRetrieve, TypeRerank, TypeRecover, TypeGenerate, TypeDraft,
     TypeGuard, TypeVerify, TypeEnds DEF Node
<1>3. QED
  BY <1>1, <1>2, TypeEnds DEF Next

-----------------------------------------------------------------------------
(* The steps.                                                              *)

Safe == TypeOK /\ OutcomeInv /\ BudgetInv

LEMMA SafeInit == ASSUME Assumptions, Init PROVE Safe
<1> USE DEF Init
<1>1. SearchInv /\ ResponseInv /\ AcceptedInv /\ ClarifyInv
  BY DEF SearchInv, Searching, ResponseInv, AcceptedInv, ClarifyInv
<1>2. ResultInv
  BY DEF ResultInv, SentAsVerified, SynthesisIsJudged, EscalationIsTold, PendingWasAsked,
     CachedIsComplete
<1>3. BudgetInv
  <2>1. ~bot.judged
    BY DEF InitialBot
  <2>2. QED
    BY <2>1 DEF BudgetInv
<1>4. QED
  BY <1>1, <1>2, <1>3, TypeInit DEF Safe, OutcomeInv

\* Before the end there is no result to speak of.
LEMMA OnTheWay ==
  ASSUME ResultInv, at \notin {"finish", "done"}, at' \notin {"finish", "done"},
         cached' = cached, pending' = pending
  PROVE  ResultInv'
  BY DEF ResultInv, SentAsVerified, SynthesisIsJudged, EscalationIsTold, PendingWasAsked,
     CachedIsComplete

\* A call of the model is one call.
LEMMA OneCall == ASSUME Assumptions, TypeOK, CallModel PROVE calls' <= calls + 1 /\ calls' \in Nat
  BY DEF CallModel, TypeOK, Assumptions

LEMMA OutcomeAnalyze == ASSUME Assumptions, Safe, Analyze PROVE OutcomeInv' /\ BudgetInv'
<1>1. at = "analyze" /\ at' = RouteAfterAnalyze(bot') /\ cached' = cached /\ pending' = pending
  BY DEF Analyze
<1>2. calls = 0 /\ ~bot.attempted /\ ~bot.judged /\ bot.cited = {}
  <2>1. calls = 0 /\ bot = InitialBot
    BY <1>1 DEF Safe, OutcomeInv, SearchInv, BudgetInv
  <2>2. QED
    BY <2>1 DEF InitialBot
<1>3. calls' <= 1 /\ calls' \in Nat
  <2>1. calls' = calls \/ CallModel
    BY DEF Analyze
  <2>2. QED
    BY <1>2, <2>1, OneCall DEF Safe
<1>4. at' \in {"clarify", "escalate", "retrieve"}
  BY <1>1 DEF RouteAfterAnalyze
<1>5. /\ bot'.attempted = bot.attempted /\ bot'.judged = bot.judged /\ bot'.cited = bot.cited
      /\ bot'.escalate \/ bot'.analysis \in Analyses
  <2>1. [present |-> TRUE, offtopic |-> FALSE, operator |-> FALSE, clarify |-> "asks"] \in Analyses
    BY DEF Analyses
  <2>2. QED
    BY <2>1 DEF Analyze, Safe, TypeOK, Bots
<1>6. SearchInv'
  <2>1. at' = "retrieve" => bot'.analysis \in Analyses /\ bot'.analysis.clarify = "no"
    BY <1>1, <1>5 DEF RouteAfterAnalyze
  <2>2. QED
    BY <1>4, <2>1 DEF SearchInv, Searching
<1>7. ResponseInv' /\ AcceptedInv'
  BY <1>4 DEF ResponseInv, AcceptedInv
<1>8. ClarifyInv'
  BY <1>1, <1>2, <1>4, <1>5 DEF ClarifyInv, RouteAfterAnalyze
<1>9. ResultInv'
  BY <1>1, <1>4, OnTheWay DEF Safe, OutcomeInv
<1>10. BudgetInv'
  BY <1>2, <1>3, <1>4, <1>5 DEF BudgetInv, Pass
<1>11. QED
  BY <1>6, <1>7, <1>8, <1>9, <1>10 DEF OutcomeInv

LEMMA OutcomeRetrieve == ASSUME Assumptions, Safe, Retrieve PROVE OutcomeInv' /\ BudgetInv'
<1>1. /\ at = "retrieve" /\ at' = "rerank"
      /\ calls' = calls /\ cached' = cached /\ pending' = pending
      /\ bot'.analysis = bot.analysis /\ bot'.attempted = bot.attempted /\ bot'.judged = bot.judged
  BY DEF Retrieve, Safe, TypeOK, Bots
<1>2. SearchInv' /\ ResponseInv' /\ AcceptedInv' /\ ClarifyInv'
  BY <1>1 DEF Safe, OutcomeInv, SearchInv, Searching, ResponseInv, AcceptedInv, ClarifyInv
<1>3. ResultInv'
  BY <1>1, OnTheWay DEF Safe, OutcomeInv
<1>4. BudgetInv'
  BY <1>1 DEF Safe, BudgetInv, Pass
<1>5. QED
  BY <1>2, <1>3, <1>4 DEF OutcomeInv

LEMMA OutcomeRerank == ASSUME Assumptions, Safe, Rerank PROVE OutcomeInv' /\ BudgetInv'
<1>1. /\ at = "rerank" /\ at' = RouteAfterRerank(bot')
      /\ calls' = calls /\ cached' = cached /\ pending' = pending
      /\ bot'.analysis = bot.analysis /\ bot'.attempted = bot.attempted /\ bot'.judged = bot.judged
  BY DEF Rerank, Safe, TypeOK, Bots
<1>2. /\ at' \in {"recover", "generate", "escalate"}
      /\ at' = "recover" => ~bot'.attempted
      /\ at' = "generate" => ~bot'.escalate
  BY <1>1 DEF RouteAfterRerank, CanRecover
<1>3. SearchInv' /\ ResponseInv' /\ AcceptedInv' /\ ClarifyInv'
  BY <1>1, <1>2 DEF Safe, OutcomeInv, SearchInv, Searching, ResponseInv, AcceptedInv, ClarifyInv
<1>4. ResultInv'
  BY <1>1, <1>2, OnTheWay DEF Safe, OutcomeInv
<1>5. BudgetInv'
  BY <1>1, <1>2 DEF Safe, TypeOK, BudgetInv, Pass
<1>6. QED
  BY <1>3, <1>4, <1>5 DEF OutcomeInv

LEMMA OutcomeRecover == ASSUME Assumptions, Safe, Recover PROVE OutcomeInv' /\ BudgetInv'
<1>1. /\ at' = "retrieve" => bot'.analysis \in Analyses /\ bot'.analysis.clarify = "no"
      /\ at' \in {"retrieve", "escalate"}
      /\ bot'.attempted /\ bot'.judged = bot.judged
  BY RecoverMoves DEF Safe, TypeOK, Bots, OutcomeInv
<1>2. at = "recover" /\ cached' = cached /\ pending' = pending
  BY DEF Recover
<1>3. calls <= 3 /\ calls' <= calls + 1 /\ calls' \in Nat /\ calls \in Nat
  BY <1>2, OneCall DEF Recover, Safe, BudgetInv, TypeOK, Assumptions
<1>4. SearchInv' /\ ResponseInv' /\ AcceptedInv' /\ ClarifyInv'
  BY <1>1 DEF SearchInv, Searching, ResponseInv, AcceptedInv, ClarifyInv
<1>5. ResultInv'
  BY <1>1, <1>2, OnTheWay DEF Safe, OutcomeInv
<1>6. BudgetInv'
  BY <1>1, <1>2, <1>3 DEF Safe, BudgetInv, Pass
<1>7. QED
  BY <1>4, <1>5, <1>6 DEF OutcomeInv

\* A node of generation that gives up, with the calls it has made.
LEMMA OutcomeFails ==
  ASSUME Assumptions, Safe, at \in {"generate", "draft"}, NEW why \in Reasons,
         NEW model \in {"source_chunk", "source_only", "llm"}, GenerationFails(why, model),
         cached' = cached, pending' = pending, calls' \in Nat, calls' <= 3 + Pass
  PROVE  OutcomeInv' /\ BudgetInv'
<1>1. /\ bot'.escalate /\ bot'.analysis = bot.analysis /\ bot'.attempted = bot.attempted
      /\ bot'.judged = bot.judged
  BY DEF GenerationFails, Safe, TypeOK, Bots
<1>2. at' \in {"recover", "escalate"} /\ (at' = "recover" => ~bot'.attempted)
  BY <1>1 DEF GenerationFails, RouteAfterGenerate, CanRecover
<1>3. SearchInv' /\ ResponseInv' /\ AcceptedInv' /\ ClarifyInv'
  BY <1>1, <1>2 DEF Safe, OutcomeInv, SearchInv, Searching, ResponseInv, AcceptedInv, ClarifyInv
<1>4. ResultInv'
  BY <1>2, OnTheWay DEF Safe, OutcomeInv
<1>5. BudgetInv'
  BY <1>1, <1>2 DEF Safe, BudgetInv, Pass
<1>6. QED
  BY <1>3, <1>4, <1>5 DEF OutcomeInv

\* A node of generation that has a response, with the calls it has made.
LEMMA OutcomeWrites ==
  ASSUME Assumptions, Safe, at \in {"generate", "draft"}, at' = RouteAfterGenerate(bot'),
         bot'.escalate = bot.escalate, bot'.analysis = bot.analysis,
         bot'.attempted = bot.attempted, bot'.judged = bot.judged, bot'.cited # {},
         \/ bot'.response.by = "source" /\ (bot'.response.noted => bot'.missing)
         \/ bot'.response.by = "llm" /\ ~bot'.response.noted /\ bot'.model = "llm",
         cached' = cached, pending' = pending, calls' \in Nat, calls' <= 3 + Pass
  PROVE  OutcomeInv' /\ BudgetInv'
<1>1. ~bot'.escalate /\ at' = "guard"
  BY DEF Safe, OutcomeInv, SearchInv, RouteAfterGenerate
<1>2. SearchInv' /\ ResponseInv' /\ AcceptedInv' /\ ClarifyInv'
  BY <1>1 DEF Safe, OutcomeInv, SearchInv, Searching, ResponseInv, AcceptedInv, ClarifyInv, Factual
<1>3. ResultInv'
  BY <1>1, OnTheWay DEF Safe, OutcomeInv
<1>4. BudgetInv'
  BY <1>1 DEF Safe, BudgetInv, Pass
<1>5. QED
  BY <1>2, <1>3, <1>4 DEF OutcomeInv

LEMMA OutcomeGenerate == ASSUME Assumptions, Safe, Generate PROVE OutcomeInv' /\ BudgetInv'
<1>1. at = "generate" /\ cached' = cached /\ pending' = pending /\ calls' = calls
  BY DEF Generate
<1>2. calls' \in Nat /\ calls' <= 1 + Pass /\ calls' <= 3 + Pass /\ calls' <= 7
  BY <1>1 DEF Safe, TypeOK, BudgetInv, Pass, Assumptions
<1>3. ASSUME NEW why \in {"generation", "no_sources_for_generation", "insufficient_sources"},
             NEW model \in {"source_chunk", "source_only"}, GenerationFails(why, model)
      PROVE  OutcomeInv' /\ BudgetInv'
  <2>1. why \in Reasons
    BY Values
  <2>2. QED
    BY <1>1, <1>2, <1>3, <2>1, OutcomeFails
<1>4. ASSUME NEW used \in (SUBSET Chunks) \ {{}}, NEW partial \in BOOLEAN, Copies(used, partial)
      PROVE  OutcomeInv' /\ BudgetInv'
  <2>1. /\ bot'.escalate = bot.escalate /\ bot'.analysis = bot.analysis
        /\ bot'.attempted = bot.attempted /\ bot'.judged = bot.judged /\ bot'.cited # {}
        /\ bot'.response = Text("source", FALSE, partial) /\ (partial => bot'.missing)
        /\ at' = RouteAfterGenerate(bot')
    BY <1>4 DEF Copies, Safe, TypeOK, Bots
  <2>2. bot'.response.by = "source" /\ (bot'.response.noted => bot'.missing)
    BY <2>1 DEF Text
  <2>3. QED
    BY <1>1, <1>2, <2>1, <2>2, OutcomeWrites
<1>5. ASSUME NEW used \in (SUBSET Chunks) \ {{}}, Synthesises(used)
      PROVE  OutcomeInv' /\ BudgetInv'
  <2>1. at' = "draft" /\ drafts' = 0 /\ bot' = bot
    BY <1>5 DEF Synthesises
  <2>2. SearchInv' /\ ResponseInv' /\ AcceptedInv' /\ ClarifyInv'
    BY <1>1, <2>1 DEF Safe, OutcomeInv, SearchInv, Searching, ResponseInv, AcceptedInv, ClarifyInv
  <2>3. ResultInv'
    BY <1>1, <2>1, OnTheWay DEF Safe, OutcomeInv
  <2>4. BudgetInv'
    BY <1>1, <1>2, <2>1 DEF Safe, BudgetInv, Pass
  <2>5. QED
    BY <2>2, <2>3, <2>4 DEF OutcomeInv
<1>6. QED
  BY <1>3, <1>4, <1>5, GenerateMoves DEF Safe

LEMMA OutcomeDraft == ASSUME Assumptions, Safe, Draft PROVE OutcomeInv' /\ BudgetInv'
<1>1. at = "draft" /\ cached' = cached /\ pending' = pending
  BY DEF Draft
<1>2. /\ calls \in Nat /\ drafts \in 0..1 /\ calls <= 1 + Pass + drafts /\ Pass \in Nat
      /\ calls' \in Nat /\ calls' <= calls + 1
  <2>1. calls \in Nat /\ drafts \in 0..1
    BY DEF Safe, TypeOK, Assumptions
  <2>2. calls' \in Nat /\ calls' <= calls + 1
    BY OneCall DEF Draft, Safe
  <2>3. Pass \in Nat
    BY DEF Pass
  <2>4. calls <= 1 + Pass + drafts
    BY <1>1 DEF Safe, BudgetInv
  <2>5. QED
    BY <2>1, <2>2, <2>3, <2>4
<1>3. calls' <= 3 + Pass
  BY <1>2
<1>4. CASE at' = RouteAfterGenerate(bot') /\ \E used \in (SUBSET Chunks) \ {{}} :
            bot' = [bot EXCEPT !.response = Text("llm", TRUE, FALSE),
                               !.cited = used, !.model = "llm"]
  <2>1. /\ bot'.escalate = bot.escalate /\ bot'.analysis = bot.analysis
        /\ bot'.attempted = bot.attempted /\ bot'.judged = bot.judged /\ bot'.cited # {}
        /\ bot'.response = Text("llm", TRUE, FALSE) /\ bot'.model = "llm"
    BY <1>4 DEF Safe, TypeOK, Bots
  <2>2. bot'.response.by = "llm" /\ ~bot'.response.noted
    BY <2>1 DEF Text
  <2>3. QED
    BY <1>1, <1>2, <1>3, <1>4, <2>1, <2>2, OutcomeWrites
<1>5. CASE drafts = 0 /\ drafts' = 1 /\ at' = at /\ bot' = bot
  <2>1. SearchInv' /\ ResponseInv' /\ AcceptedInv' /\ ClarifyInv'
    BY <1>1, <1>5 DEF Safe, OutcomeInv, SearchInv, Searching, ResponseInv, AcceptedInv, ClarifyInv
  <2>2. ResultInv'
    BY <1>1, <1>5, OnTheWay DEF Safe, OutcomeInv
  <2>3. BudgetInv'
    BY <1>1, <1>2, <1>5 DEF Safe, BudgetInv, Pass
  <2>4. QED
    BY <2>1, <2>2, <2>3 DEF OutcomeInv
<1>6. CASE GenerationFails("generation", "llm")
  <2>1. "generation" \in Reasons
    BY Values
  <2>2. QED
    BY <1>1, <1>2, <1>3, <1>6, <2>1, OutcomeFails
<1>7. QED
  BY <1>4, <1>5, <1>6, DraftMoves DEF Safe

LEMMA OutcomeGuard == ASSUME Assumptions, Safe, Guard PROVE OutcomeInv' /\ BudgetInv'
<1>1. at = "guard" /\ at' = "verify" /\ cached' = cached /\ pending' = pending /\ calls' = calls
  BY DEF Guard
<1>2. /\ bot'.escalate = bot.escalate /\ bot'.analysis = bot.analysis
      /\ bot'.attempted = bot.attempted /\ bot'.judged = bot.judged
      /\ bot'.missing = bot.missing
  BY DEF Guard, Safe, TypeOK, Bots
<1>3. /\ bot'.cited # {} /\ bot'.response.by \in Factual
      /\ bot'.response.by = "llm" => bot'.model = "llm"
      /\ bot'.response.noted => bot.response.noted
  <2>1. bot.cited # {} /\ bot.response.by \in Factual
        /\ (bot.response.by = "llm" => bot.model = "llm")
    BY <1>1 DEF Safe, OutcomeInv, ResponseInv
  <2>2. CASE UNCHANGED bot
    BY <2>1, <2>2
  <2>3. ASSUME NEW fact \in Yonote,
               bot' = [bot EXCEPT !.response = Text("fact", FALSE, FALSE), !.cited = {fact},
                                  !.model = "source_chunk", !.reranked = @ \cup {fact}]
        PROVE  bot'.cited # {} /\ bot'.response.by = "fact" /\ ~bot'.response.noted
    BY <2>3 DEF Text, Safe, TypeOK, Bots
  <2>4. CASE bot' = [bot EXCEPT !.response = Text("fact", bot.response.llm, bot.response.noted),
                                !.model = "source_chunk"]
    <3>1. bot'.cited = bot.cited /\ bot'.response = Text("fact", bot.response.llm, bot.response.noted)
      BY <2>4 DEF Safe, TypeOK, Bots
    <3>2. bot'.response.by = "fact" /\ bot'.response.noted = bot.response.noted
      BY <3>1 DEF Text
    <3>3. QED
      BY <2>1, <3>1, <3>2 DEF Factual
  <2>5. QED
    BY <2>2, <2>3, <2>4 DEF Guard, Factual
<1>4. SearchInv' /\ ResponseInv' /\ AcceptedInv' /\ ClarifyInv'
  BY <1>1, <1>2, <1>3 DEF Safe, OutcomeInv, SearchInv, Searching, ResponseInv, AcceptedInv, ClarifyInv
<1>5. ResultInv'
  BY <1>1, OnTheWay DEF Safe, OutcomeInv
<1>6. BudgetInv'
  BY <1>1, <1>2 DEF Safe, BudgetInv, Pass
<1>7. QED
  BY <1>4, <1>5, <1>6 DEF OutcomeInv

LEMMA OutcomeVerify == ASSUME Assumptions, Safe, Verify PROVE OutcomeInv' /\ BudgetInv'
<1>1. at = "verify" /\ at' = RouteAfterVerify(bot') /\ cached' = cached /\ pending' = pending
  BY DEF Verify
<1>2. /\ ~bot.escalate /\ bot.response.by \in Factual /\ bot.cited # {}
      /\ (bot.response.by = "llm" => bot.model = "llm") /\ (bot.response.noted => bot.missing)
      /\ bot.analysis \in Analyses /\ bot.analysis.clarify = "no" /\ ~bot.judged
  BY <1>1 DEF Safe, OutcomeInv, ResponseInv, SearchInv, Searching, BudgetInv
<1>3. /\ bot'.analysis = bot.analysis /\ bot'.attempted = bot.attempted
      /\ bot'.cited = bot.cited /\ bot'.reranked = bot.reranked
  BY VerifyMoves DEF Rejected, SignalsInsufficient, AsksForForum, NotesMissing, Judged, Safe,
     TypeOK, Bots
<1>4. /\ at' \in {"recover", "escalate", "respond"}
      /\ at' = "recover" => ~bot'.attempted /\ ~bot'.judged /\ calls' = calls
      /\ at' = "respond" =>
           /\ ~bot'.escalate /\ bot'.verdict = "pass" /\ Grounded
           /\ bot'.response.by \in Factual \cup {"forum"}
           /\ bot'.response.noted => bot'.missing
           /\ bot'.response.by = "llm" /\ ~bot'.response.noted => bot'.judged
  <2>1. ASSUME NEW why \in {"", "verification"}, Rejected(why) PROVE at' = "escalate"
    BY <1>1, <2>1 DEF Rejected, RouteAfterVerify, Safe, TypeOK, Bots
  <2>2. ASSUME SignalsInsufficient
        PROVE  ~bot'.judged /\ (at' = "escalate" \/ (at' = "recover" /\ ~bot'.attempted))
    BY <1>1, <2>2 DEF SignalsInsufficient, RouteAfterVerify, CanRecover, Safe, TypeOK, Bots
  <2>3. ASSUME AsksForForum
        PROVE  /\ at' = "respond" /\ ~bot'.escalate /\ bot'.verdict = "pass"
               /\ bot'.response.by = "forum" /\ ~bot'.response.noted
    <3>1. ~bot'.escalate /\ bot'.verdict = "pass" /\ bot'.response = UnknownForum
      BY <2>3 DEF AsksForForum, Safe, TypeOK, Bots
    <3>2. QED
      BY <1>1, <3>1 DEF RouteAfterVerify, UnknownForum, Text
  <2>4. ASSUME NotesMissing
        PROVE  /\ at' = "respond" /\ ~bot'.escalate /\ bot'.verdict = "pass" /\ bot'.missing
               /\ bot'.response.by \in Factual /\ bot'.response.noted
    <3>1. /\ ~bot'.escalate /\ bot'.verdict = "pass" /\ bot'.missing
          /\ bot'.response = [bot.response EXCEPT !.noted = TRUE]
      BY <2>4 DEF NotesMissing, Safe, TypeOK, Bots
    <3>2. bot'.response.by = bot.response.by /\ bot'.response.noted
      BY <3>1 DEF Safe, TypeOK, Bots, Texts
    <3>3. QED
      BY <1>1, <1>2, <3>1, <3>2 DEF RouteAfterVerify
  <2>5. ASSUME NEW v \in {"pass", "hallucination"}, NEW t \in BOOLEAN, Judged(v, t)
        PROVE  /\ ~bot'.escalate /\ bot'.verdict = v /\ bot'.judged = t
               /\ bot'.response = bot.response /\ bot'.missing = bot.missing
               /\ at' = IF v = "pass" THEN "respond" ELSE "escalate"
    BY <1>1, <1>2, <2>5 DEF Judged, RouteAfterVerify, Safe, TypeOK, Bots
  <2>6. CASE \E why \in {"", "verification"} : Rejected(why)
    BY <2>1, <2>6
  <2>7. CASE calls' = calls /\ SignalsInsufficient
    BY <2>2, <2>7
  <2>8. CASE Grounded /\ AsksForForum
    BY <2>3, <2>8
  <2>9. CASE Grounded /\ NotesMissing
    BY <2>4, <2>9
  <2>10. CASE Grounded /\ Copied /\ Judged("pass", FALSE)
    <3>1. /\ ~bot'.escalate /\ bot'.verdict = "pass" /\ bot'.response = bot.response
          /\ bot'.missing = bot.missing /\ at' = "respond"
      BY <2>5, <2>10
    <3>2. bot.response.by # "llm"
      BY <1>2, <2>10 DEF Copied
    <3>3. QED
      BY <1>2, <2>10, <3>1, <3>2
  <2>11. CASE Grounded /\ \E verdict \in {"pass", "hallucination"} : Judged(verdict, TRUE)
    <3>1. PICK v \in {"pass", "hallucination"} : Judged(v, TRUE)
      BY <2>11
    <3>2. /\ ~bot'.escalate /\ bot'.verdict = v /\ bot'.judged
          /\ bot'.response = bot.response /\ bot'.missing = bot.missing
          /\ at' = IF v = "pass" THEN "respond" ELSE "escalate"
      BY <2>5, <3>1
    <3>3. QED
      BY <1>2, <2>11, <3>2
  <2>12. QED
    BY <2>6, <2>7, <2>8, <2>9, <2>10, <2>11, VerifyMoves
<1>5. SearchInv' /\ ResponseInv' /\ ClarifyInv'
  BY <1>2, <1>3, <1>4 DEF SearchInv, Searching, ResponseInv, ClarifyInv
<1>6. AcceptedInv'
  <2>1. at' = "respond" => [text |-> bot'.response, cited |-> bot'.cited] \in accepted'
    BY DEF Verify
  <2>2. QED
    BY <1>2, <1>3, <1>4, <2>1 DEF AcceptedInv, Grounded
<1>7. ResultInv'
  BY <1>1, <1>4, OnTheWay DEF Safe, OutcomeInv
<1>8. BudgetInv'
  <2>1. Pass' = Pass /\ Pass \in {0, 3} /\ (~bot.attempted => Pass = 0)
    BY <1>3 DEF Pass
  <2>2. calls \in Nat /\ calls <= 3 + Pass
    BY <1>1 DEF Safe, TypeOK, BudgetInv, Assumptions
  <2>3. calls' \in Nat /\ calls' <= calls + 1
    <3>1. calls' = calls \/ CallModel
      BY DEF Verify
    <3>2. QED
      BY <2>2, <3>1, OneCall DEF Safe
  <2>4. QED
    BY <1>3, <1>4, <2>1, <2>2, <2>3 DEF BudgetInv
<1>9. QED
  BY <1>5, <1>6, <1>7, <1>8 DEF OutcomeInv

\* The result that a node of the end hands to the caller.
LEMMA AtFinish ==
  ASSUME Safe, at \notin {"finish", "done"}, at' = "finish",
         cached' = cached, pending' = pending, calls' = calls,
         SentAsVerified', SynthesisIsJudged', EscalationIsTold',
         AwaitsAnswer' => bot'.final.by = "clarification",
         Cacheable' => /\ ~bot'.final.noted /\ bot'.verdict = "pass"
                       /\ [text |-> bot'.final, cited |-> bot'.cited] \in accepted'
  PROVE  OutcomeInv' /\ BudgetInv'
<1>1. ~cached /\ ~pending
  BY DEF Safe, OutcomeInv, ResultInv
<1>2. SearchInv' /\ ResponseInv' /\ AcceptedInv' /\ ClarifyInv'
  BY DEF SearchInv, Searching, ResponseInv, AcceptedInv, ClarifyInv
<1>3. ResultInv'
  BY <1>1 DEF ResultInv, PendingWasAsked, CachedIsComplete
<1>4. BudgetInv'
  BY DEF Safe, BudgetInv
<1>5. QED
  BY <1>2, <1>3, <1>4 DEF OutcomeInv

LEMMA ByWhom ==
  /\ OperatorTransfer.by = "operator" /\ ~OperatorTransfer.noted
  /\ UnknownForum.by = "forum" /\ ~UnknownForum.noted
  /\ Text("scope", FALSE, FALSE).by = "scope" /\ Text("clarification", FALSE, FALSE).by = "clarification"
  BY DEF OperatorTransfer, UnknownForum, Text

\* The operator's text, with a reason.
LEMMA OutcomeTransfers ==
  ASSUME Safe, at \notin {"finish", "done"}, at' = "finish",
         cached' = cached, pending' = pending, calls' = calls,
         bot'.final = OperatorTransfer, bot'.escalate, bot'.reason # ""
  PROVE  OutcomeInv' /\ BudgetInv'
<1>1. SentAsVerified' /\ SynthesisIsJudged' /\ EscalationIsTold' /\ ~AwaitsAnswer' /\ ~Cacheable'
  BY ByWhom DEF SentAsVerified, Factual, SynthesisIsJudged, EscalationIsTold, AwaitsAnswer, Cacheable
<1>2. QED
  BY <1>1, AtFinish

LEMMA OutcomeRespond == ASSUME Assumptions, Safe, Respond PROVE OutcomeInv' /\ BudgetInv'
<1>1. /\ at = "respond" /\ at' = "finish" /\ cached' = cached /\ pending' = pending
      /\ calls' = calls /\ accepted' = accepted
  BY DEF Respond
<1>2. CASE bot' = [bot EXCEPT !.final = OperatorTransfer, !.escalate = TRUE,
                              !.reason = "final_response"]
  <2>1. bot'.final = OperatorTransfer /\ bot'.escalate /\ bot'.reason = "final_response"
    BY <1>2 DEF Safe, TypeOK, Bots
  <2>2. QED
    BY <1>1, <2>1, OutcomeTransfers
<1>3. CASE bot' = [bot EXCEPT !.final = bot.response]
  <2>1. /\ bot'.final = bot.response /\ bot'.cited = bot.cited /\ bot'.reranked = bot.reranked
        /\ bot'.escalate = bot.escalate /\ bot'.verdict = bot.verdict
        /\ bot'.judged = bot.judged /\ bot'.missing = bot.missing
        /\ bot'.analysis = bot.analysis /\ bot'.reason = bot.reason
    BY <1>3 DEF Safe, TypeOK, Bots
  <2>2. AcceptedInv /\ bot.analysis.clarify = "no"
    BY <1>1 DEF Safe, OutcomeInv, SearchInv, Searching
  <2>3. bot.response # OperatorTransfer
    BY <1>1, <2>2, ByWhom DEF AcceptedInv, Factual
  <2>4. SentAsVerified' /\ SynthesisIsJudged'
    BY <1>1, <2>1, <2>2 DEF AcceptedInv, SentAsVerified, SynthesisIsJudged
  <2>5. EscalationIsTold'
    BY <1>1, <2>1, <2>2, <2>3 DEF AcceptedInv, EscalationIsTold
  <2>6. ~AwaitsAnswer'
    BY <2>1, <2>2 DEF AwaitsAnswer
  <2>7. Cacheable' => /\ ~bot'.final.noted /\ bot'.verdict = "pass"
                      /\ [text |-> bot'.final, cited |-> bot'.cited] \in accepted'
    BY <1>1, <2>1, <2>2 DEF Cacheable, AcceptedInv
  <2>8. QED
    BY <1>1, <2>4, <2>5, <2>6, <2>7, AtFinish
<1>4. QED
  BY <1>2, <1>3 DEF Respond

LEMMA OutcomeClarify == ASSUME Assumptions, Safe, Clarify PROVE OutcomeInv' /\ BudgetInv'
<1>1. /\ at = "clarify" /\ at' = "finish" /\ cached' = cached /\ pending' = pending
      /\ calls' = calls /\ accepted' = accepted
  BY DEF Clarify
<1>2. bot.cited = {} /\ (bot.analysis.offtopic \/ ~bot.escalate)
  BY <1>1 DEF Safe, OutcomeInv, ClarifyInv
<1>3. /\ bot'.cited = {} /\ ~bot'.escalate /\ bot'.analysis = bot.analysis
      /\ \/ bot'.final = Text("scope", FALSE, FALSE) /\ bot'.analysis.offtopic
         \/ bot'.final = UnknownForum /\ bot'.analysis.clarify = "blank"
         \/ bot'.final = Text("clarification", FALSE, FALSE)
  BY <1>2 DEF Clarify, Safe, TypeOK, Bots
<1>4. SentAsVerified' /\ SynthesisIsJudged' /\ EscalationIsTold'
  BY <1>3, ByWhom DEF SentAsVerified, Factual, SynthesisIsJudged, EscalationIsTold
<1>5. (AwaitsAnswer' => bot'.final.by = "clarification") /\ ~Cacheable'
  BY <1>3, ByWhom DEF AwaitsAnswer, Cacheable
<1>6. QED
  BY <1>1, <1>4, <1>5, AtFinish

LEMMA OutcomeEnds == ASSUME Assumptions, Safe, Escalate \/ Timeout PROVE OutcomeInv' /\ BudgetInv'
<1>1. /\ at \notin {"finish", "done"} /\ at' = "finish" /\ cached' = cached
      /\ pending' = pending /\ calls' = calls
  BY DEF Escalate, Timeout
<1>2. bot'.final = OperatorTransfer /\ bot'.escalate /\ bot'.reason # ""
  <2>1. CASE Escalate
    BY <2>1 DEF Escalate, Safe, TypeOK, Bots
  <2>2. CASE Timeout
    BY <2>2, InitialIsBot DEF Timeout, Bots
  <2>3. QED
    BY <2>1, <2>2
<1>3. QED
  BY <1>1, <1>2, OutcomeTransfers

LEMMA OutcomeFinish == ASSUME Assumptions, Safe, Finish PROVE OutcomeInv' /\ BudgetInv'
<1>1. /\ at = "finish" /\ at' = "done" /\ bot' = bot /\ accepted' = accepted /\ calls' = calls
      /\ pending' = AwaitsAnswer /\ cached' = Cacheable
  BY DEF Finish
<1>2. ResultInv
  BY DEF Safe, OutcomeInv
<1>3. SearchInv' /\ ResponseInv' /\ AcceptedInv' /\ ClarifyInv'
  BY <1>1 DEF SearchInv, Searching, ResponseInv, AcceptedInv, ClarifyInv
<1>4. SentAsVerified' /\ SynthesisIsJudged' /\ EscalationIsTold'
  BY <1>1, <1>2 DEF ResultInv, SentAsVerified, SynthesisIsJudged, EscalationIsTold
<1>5. PendingWasAsked' /\ CachedIsComplete'
  BY <1>1, <1>2 DEF ResultInv, PendingWasAsked, CachedIsComplete, Cacheable
<1>6. BudgetInv'
  BY <1>1 DEF Safe, BudgetInv
<1>7. QED
  BY <1>1, <1>3, <1>4, <1>5, <1>6 DEF OutcomeInv, ResultInv

LEMMA SafeNext == ASSUME Assumptions, Safe, [Next]_vars PROVE Safe'
<1>1. TypeOK'
  BY TypeNext DEF Safe, OutcomeInv
<1>2. CASE UNCHANGED vars
  <2>1. SearchInv' /\ ResponseInv' /\ AcceptedInv' /\ ClarifyInv'
    BY <1>2 DEF vars, Safe, OutcomeInv, SearchInv, ResponseInv, AcceptedInv, ClarifyInv
  <2>2. SentAsVerified' /\ SynthesisIsJudged' /\ EscalationIsTold' /\ PendingWasAsked'
        /\ CachedIsComplete'
    BY <1>2 DEF vars, Safe, OutcomeInv, ResultInv, SentAsVerified, SynthesisIsJudged,
       EscalationIsTold, PendingWasAsked, CachedIsComplete
  <2>3. AwaitsAnswer' = AwaitsAnswer /\ Cacheable' = Cacheable
    BY <1>2 DEF vars, AwaitsAnswer, Cacheable
  <2>4. ResultInv'
    BY <1>2, <2>2, <2>3 DEF vars, Safe, OutcomeInv, ResultInv
  <2>5. BudgetInv'
    BY <1>2 DEF vars, Safe, BudgetInv, Pass
  <2>6. QED
    BY <1>1, <2>1, <2>4, <2>5 DEF Safe, OutcomeInv
<1>3. CASE Next
  BY <1>1, <1>3, OutcomeAnalyze, OutcomeRetrieve, OutcomeRerank, OutcomeRecover, OutcomeGenerate,
     OutcomeDraft, OutcomeGuard, OutcomeVerify, OutcomeRespond, OutcomeClarify, OutcomeEnds,
     OutcomeFinish DEF Next, Node, Safe
<1>4. QED
  BY <1>2, <1>3

-----------------------------------------------------------------------------
(* The theorems.                                                           *)

\* Every field of BotState and the rest of the request's state keep their types.
THEOREM TypeCorrect == ASSUME Assumptions PROVE Spec => []TypeOK
<1>1. Init => Safe
  BY SafeInit
<1>2. Safe /\ [Next]_vars => Safe'
  BY SafeNext
<1>3. Safe => TypeOK
  BY DEF Safe
<1>4. QED
  BY <1>1, <1>2, <1>3, PTL DEF Spec

\* graph/nodes/verify.py, respond.py and main.py: an answer is sent with the text and the
\* citations that verify let through, a complete text of the generator model was judged, the
\* user is sent to the operator exactly when the result says so and with a reason, the session
\* waits only for the answer to what was asked, and what is cached is complete, verified and
\* does not age.
THEOREM SentAndKeptAsVerified == ASSUME Assumptions PROVE Spec => []OutcomeIsVerified
<1>1. Init => Safe
  BY SafeInit
<1>2. Safe /\ [Next]_vars => Safe'
  BY SafeNext
<1>3. Safe => OutcomeIsVerified
  BY DEF Safe, OutcomeInv, ResultInv, OutcomeIsVerified
<1>4. QED
  BY <1>1, <1>2, <1>3, PTL DEF Spec

\* One request makes seven calls of the language model at most, and none after the judge has
\* spoken: a rejected synthesis is not rewritten until some judge accepts it.
THEOREM FewCalls == ASSUME Assumptions PROVE Spec => ModelCalls
<1>1. Init => Safe
  BY SafeInit
<1>2. Safe /\ [Next]_vars => Safe'
  BY SafeNext
<1>3. Safe => CallBudget
  BY DEF Safe, BudgetInv, CallBudget
<1>4. Safe /\ [Next]_vars => [NothingAfterJudge]_vars
  <2> SUFFICES ASSUME Safe, Next, bot.judged PROVE calls' = calls
    BY DEF NothingAfterJudge
  <2>1. at \in {"respond", "escalate", "finish", "done"}
    BY DEF Safe, BudgetInv
  <2>2. QED
    BY <2>1 DEF Next, Node, Analyze, Retrieve, Rerank, Recover, Generate, Draft, Guard, Verify,
       Respond, Clarify, Escalate, Finish, Timeout
<1>5. QED
  BY <1>1, <1>2, <1>3, <1>4, PTL DEF Spec, ModelCalls

-----------------------------------------------------------------------------
(* The suite: what is proved of each component holds in each of its        *)
(* instances in MCConversation.  The part of a behaviour never changes, so *)
(* the behaviours of a part are those of its instance.                     *)

LEMMA TurnsAlone ==
  ConversationSpec => \/ [](~(part = "turns"))
                      \/ One!Spec /\ [](part = "turns")
<1>1. ConversationInit /\ part = "turns" => One!Init
  BY DEF ConversationInit
<1>2. part = "turns" /\ [ConversationNext]_conversationVars
     => (part = "turns")' /\ [One!Next]_(One!vars)
  BY DEF ConversationNext, Alone, conversationVars, dialogVars, One!vars
<1>3. ~(part = "turns") /\ [ConversationNext]_conversationVars
     => ~(part = "turns")'
  BY DEF ConversationNext, Alone, conversationVars
<1>4. QED
  BY <1>1, <1>2, <1>3, PTL DEF ConversationSpec, One!Spec

LEMMA FaultsAlone ==
  ConversationSpec => \/ [](~(part = "faults"))
                      \/ Two!Spec /\ [](part = "faults")
<1>1. ConversationInit /\ part = "faults" => Two!Init
  BY DEF ConversationInit
<1>2. part = "faults" /\ [ConversationNext]_conversationVars
     => (part = "faults")' /\ [Two!Next]_(Two!vars)
  BY DEF ConversationNext, Alone, conversationVars, dialogVars, Two!vars
<1>3. ~(part = "faults") /\ [ConversationNext]_conversationVars
     => ~(part = "faults")'
  BY DEF ConversationNext, Alone, conversationVars
<1>4. QED
  BY <1>1, <1>2, <1>3, PTL DEF ConversationSpec, Two!Spec

LEMMA OutlivedAlone ==
  ConversationSpec => \/ [](~(part = "outlived"))
                      \/ Three!Spec /\ [](part = "outlived")
<1>1. ConversationInit /\ part = "outlived" => Three!Init
  BY DEF ConversationInit, Two!Init, Three!Init, Two!Fresh, Three!Fresh
<1>2. part = "outlived" /\ [ConversationNext]_conversationVars
     => (part = "outlived")' /\ [Three!Next]_(Three!vars)
  BY DEF ConversationNext, Alone, conversationVars, dialogVars, Three!vars
<1>3. ~(part = "outlived") /\ [ConversationNext]_conversationVars
     => ~(part = "outlived")'
  BY DEF ConversationNext, Alone, conversationVars
<1>4. QED
  BY <1>1, <1>2, <1>3, PTL DEF ConversationSpec, Three!Spec

LEMMA RateAlone ==
  ConversationSpec => \/ [](~(part = "limit"))
                      \/ One!Rate!Spec /\ [](part = "limit")
<1>1. ConversationInit /\ part = "limit" => One!Rate!Init
  BY DEF ConversationInit
<1>2. part = "limit" /\ [ConversationNext]_conversationVars
     => (part = "limit")' /\ [One!Rate!Next]_(One!Rate!vars)
  BY DEF ConversationNext, Alone, conversationVars, limitVars, One!Rate!vars
<1>3. ~(part = "limit") /\ [ConversationNext]_conversationVars
     => ~(part = "limit")'
  BY DEF ConversationNext, Alone, conversationVars
<1>4. QED
  BY <1>1, <1>2, <1>3, PTL DEF ConversationSpec, One!Rate!Spec

LEMMA LimiterAlone ==
  ConversationSpec => \/ [](~(part = "limiter"))
                      \/ One!Limiter!Spec /\ [](part = "limiter")
<1>1. ConversationInit /\ part = "limiter" => One!Limiter!Init
  BY DEF ConversationInit
<1>2. part = "limiter" /\ [ConversationNext]_conversationVars
     => (part = "limiter")' /\ [One!Limiter!Next]_(One!Limiter!vars)
  BY DEF ConversationNext, Alone, conversationVars, senderVars, One!Limiter!vars
<1>3. ~(part = "limiter") /\ [ConversationNext]_conversationVars
     => ~(part = "limiter")'
  BY DEF ConversationNext, Alone, conversationVars
<1>4. QED
  BY <1>1, <1>2, <1>3, PTL DEF ConversationSpec, One!Limiter!Spec

LEMMA GraphAlone ==
  ConversationSpec => \/ [](~(part = "graph"))
                      \/ Spec /\ [](part = "graph")
<1>1. ConversationInit /\ part = "graph" => Init
  BY DEF ConversationInit
<1>2. part = "graph" /\ [ConversationNext]_conversationVars
     => (part = "graph")' /\ [Next]_(vars)
  BY DEF ConversationNext, Alone, conversationVars, vars
<1>3. ~(part = "graph") /\ [ConversationNext]_conversationVars
     => ~(part = "graph")'
  BY DEF ConversationNext, Alone, conversationVars
<1>4. QED
  BY <1>1, <1>2, <1>3, PTL DEF ConversationSpec, Spec

LEMMA QueuesAlone ==
  ConversationSpec => \/ [](~(part = "queues"))
                      \/ Two!Purge!Spec /\ [](part = "queues")
<1>1. ConversationInit /\ part = "queues" => Two!Purge!Init
  BY DEF ConversationInit
<1>2. part = "queues" /\ [ConversationNext]_conversationVars
     => (part = "queues")' /\ [Two!Purge!Next]_(Two!Purge!vars)
  BY DEF ConversationNext, Alone, conversationVars, retentionVars, Two!Purge!vars,
     Two!Purge!queueVars, Two!Purge!memoryVars
<1>3. ~(part = "queues") /\ [ConversationNext]_conversationVars
     => ~(part = "queues")'
  BY DEF ConversationNext, Alone, conversationVars
<1>4. QED
  BY <1>1, <1>2, <1>3, PTL DEF ConversationSpec, Two!Purge!Spec

LEMMA MemoryAlone ==
  ConversationSpec => \/ [](~(part = "memory"))
                      \/ Three!Purge!Spec /\ [](part = "memory")
<1>1. ConversationInit /\ part = "memory" => Three!Purge!Init
  BY DEF ConversationInit
<1>2. part = "memory" /\ [ConversationNext]_conversationVars
     => (part = "memory")' /\ [Three!Purge!Next]_(Three!Purge!vars)
  BY DEF ConversationNext, Alone, conversationVars, retentionVars, Three!Purge!vars,
     Three!Purge!queueVars, Three!Purge!memoryVars
<1>3. ~(part = "memory") /\ [ConversationNext]_conversationVars
     => ~(part = "memory")'
  BY DEF ConversationNext, Alone, conversationVars
<1>4. QED
  BY <1>1, <1>2, <1>3, PTL DEF ConversationSpec, Three!Purge!Spec

LEMMA OnePart == ConversationSpec => [](\/ part = "turns" \/ part = "faults" \/ part = "outlived"
                                       \/ part = "limit" \/ part = "limiter" \/ part = "graph"
                                       \/ part = "queues" \/ part = "memory")
<1> DEFINE Some == \/ part = "turns" \/ part = "faults" \/ part = "outlived" \/ part = "limit"
                   \/ part = "limiter" \/ part = "graph" \/ part = "queues" \/ part = "memory"
<1>1. ConversationInit => Some
  BY DEF ConversationInit
<1>2. Some /\ [ConversationNext]_conversationVars => Some'
  BY DEF ConversationNext, Alone, conversationVars
<1>3. QED
  BY <1>1, <1>2, PTL DEF ConversationSpec

\* Whatever part of the way of a message a behaviour is about, its variables keep their types.
THEOREM ConversationTyped == ConversationSpec => []PartsTyped
<1>1. /\ part = "turns" /\ One!TypeOK => PartsTyped
      /\ part = "faults" /\ Two!TypeOK => PartsTyped
      /\ part = "outlived" /\ Three!TypeOK => PartsTyped
      /\ part = "limit" /\ One!Rate!TypeOK => PartsTyped
      /\ part = "limiter" /\ One!Limiter!TypeOK => PartsTyped
      /\ part = "graph" /\ TypeOK => PartsTyped
      /\ part = "queues" /\ Two!Purge!TypeOK => PartsTyped
      /\ part = "memory" /\ Three!Purge!TypeOK => PartsTyped
  BY DEF PartsTyped
<1>2. /\ One!Spec => []One!TypeOK
      /\ Two!Spec => []Two!TypeOK
      /\ Three!Spec => []Three!TypeOK
  BY ConversationAssumption, One!TypeCorrect, Two!TypeCorrect, Three!TypeCorrect
<1>3. /\ One!Rate!Spec => []One!Rate!TypeOK
      /\ One!Limiter!Spec => []One!Limiter!TypeOK
  BY ConversationAssumption, One!LimitTyped, One!LimiterTyped
<1>4. Spec => []TypeOK
  BY ConversationAssumption, TypeCorrect
<1>5. /\ Two!Purge!Spec => []Two!Purge!TypeOK
      /\ Three!Purge!Spec => []Three!Purge!TypeOK
  BY ConversationAssumption, Two!RetentionTyped, Three!RetentionTyped
<1>6. QED
  BY <1>1, <1>2, <1>3, <1>4, <1>5, OnePart, TurnsAlone, FaultsAlone, OutlivedAlone,
     RateAlone, LimiterAlone, GraphAlone, QueuesAlone, MemoryAlone, PTL

\* manager.py, serialized: while turns end within the TTL of the lock, two messages of a user are
\* never processed at once, and a turn that outlives it leaves the lock of the next one alone.
THEOREM ConversationLocked == ConversationSpec => LockHolds
<1> DEFINE Fenced == /\ part = "turns" => One!FencedRelease
                     /\ part = "faults" => Two!FencedRelease
                     /\ part = "outlived" => Three!FencedRelease
<1>1. /\ One!Spec => /\ []One!SerializedTurn
                     /\ [][One!FencedRelease]_(One!vars)
      /\ Two!Spec => /\ []Two!SerializedTurn
                     /\ [][Two!FencedRelease]_(Two!vars)
      /\ Three!Spec => [][Three!FencedRelease]_(Three!vars)
  <2>1. /\ One!Spec => One!LockHolds
        /\ Two!Spec => Two!LockHolds
        /\ Three!Spec => Three!LockHolds
    BY ConversationAssumption, One!LockHeld, Two!LockHeld, Three!LockHeld
  <2>2. QED
    BY <2>1, PTL DEF One!LockHolds, Two!LockHolds, Three!LockHolds
<1>2. /\ part = "turns" /\ [One!FencedRelease]_(One!vars) => [Fenced]_dialogVars
      /\ part = "faults" /\ [Two!FencedRelease]_(Two!vars) => [Fenced]_dialogVars
      /\ part = "outlived" /\ [Three!FencedRelease]_(Three!vars) => [Fenced]_dialogVars
      /\ ~(part = "turns") /\ ~(part = "faults") /\ ~(part = "outlived") => [Fenced]_dialogVars
  BY DEF dialogVars, One!vars, Two!vars, Three!vars
<1>3. ~(part = "turns" /\ part = "faults")
  OBVIOUS
<1>4. QED
  BY <1>1, <1>2, <1>3, TurnsAlone, FaultsAlone, OutlivedAlone, PTL DEF LockHolds

\* manager.py, append_turn and get_or_create: the turns that a session shows were had, each once,
\* also when turns outlive the lock; while they do not, a turn_index names one stored turn, those
\* shown are in their order, and without faults none is lost before the summary is full.
THEOREM ConversationRemembered == ConversationSpec => []TurnsRemembered
<1>1. /\ One!Spec => []One!TurnsRemembered
      /\ Two!Spec => []Two!TurnsRemembered
      /\ Three!Spec => []Three!TurnsRemembered
  <2>1. Three!Spec => []Three!TurnsRemembered
    BY ConversationAssumption, Three!DialogRemembered
  <2>2. QED
    BY <2>1, ConversationAssumption, One!DialogRemembered, Two!DialogRemembered
<1>2. /\ part = "turns" /\ One!TurnsRemembered => TurnsRemembered
      /\ part = "faults" /\ Two!TurnsRemembered => TurnsRemembered
      /\ part = "outlived" /\ Three!TurnsRemembered => TurnsRemembered
      /\ ~(part = "turns") /\ ~(part = "faults") /\ ~(part = "outlived") => TurnsRemembered
  BY DEF TurnsRemembered
<1>3. QED
  BY <1>1, <1>2, TurnsAlone, FaultsAlone, OutlivedAlone, PTL

\* rate_limiter.py, check: a window of any place holds twice the limit of a user's messages at
\* most, also when a call stops between INCR and EXPIRE.
THEOREM ConversationLimited == ConversationSpec => []TwiceTheLimit
<1>1. One!Rate!Spec => []One!Rate!TwiceTheLimit
  BY ConversationAssumption, One!AtMostTwice
<1>2. One!Rate!TwiceTheLimit \/ ~(part = "limit") => TwiceTheLimit
  BY DEF TwiceTheLimit
<1>3. QED
  BY <1>1, <1>2, RateAlone, PTL

\* hde.py, try_acquire and block_for: no minute holds more posts than are configured, none begins
\* while a block is in force, and a refusal tells the first moment that keeps the bound.
THEOREM ConversationPosts == ConversationSpec => PostsLimited
<1> DEFINE Bound == part = "limiter" => One!Limiter!WindowBound /\ One!Limiter!BlocksRespected
           Exact == part = "limiter" => One!Limiter!ExactRetry
<1>1. One!Limiter!Spec => One!Limiter!PostsLimited
  BY ConversationAssumption, One!PostsBounded
<1>2. /\ [One!Limiter!ExactRetry]_(One!Limiter!vars) => [Exact]_senderVars
      /\ ~(part = "limiter") => [Exact]_senderVars
  BY DEF senderVars, One!Limiter!vars
<1>3. /\ One!Limiter!WindowBound /\ One!Limiter!BlocksRespected => Bound
      /\ ~(part = "limiter") => Bound
  OBVIOUS
<1>4. QED
  BY <1>1, <1>2, <1>3, LimiterAlone, PTL DEF PostsLimited, One!Limiter!PostsLimited

\* purge_old_memory.py: an open job keeps its inbox row and the trace it is reconciled by, turns
\* keep the memory they are restored with, no event is answered twice once retention reaches no
\* further back than redeliveries, and the dry run shows what --apply deletes.
THEOREM ConversationRetention == ConversationSpec => RetentionIsSafe
<1> DEFINE Rows == /\ part = "queues" =>
                        Two!Purge!OpenJobsKeepTheirRows /\ Two!Purge!AnsweredOnce
                   /\ part = "memory" => Three!Purge!TurnsHaveMemory
           Dry  == /\ part = "queues" => Two!Purge!ExactDryRun
                   /\ part = "memory" => Three!Purge!ExactDryRun
<1>1. /\ Two!Purge!Spec => Two!Purge!RetentionIsSafe
      /\ Three!Purge!Spec => Three!Purge!RetentionIsSafe
  BY ConversationAssumption, Two!RetentionSafe, Three!RetentionSafe
<1>2. /\ part = "queues" /\ [Two!Purge!ExactDryRun]_(Two!Purge!vars) => [Dry]_retentionVars
      /\ part = "memory" /\ [Three!Purge!ExactDryRun]_(Three!Purge!vars) => [Dry]_retentionVars
      /\ ~(part = "queues") /\ ~(part = "memory") => [Dry]_retentionVars
  BY DEF retentionVars, Two!Purge!vars, Two!Purge!queueVars, Two!Purge!memoryVars,
     Three!Purge!vars, Three!Purge!queueVars, Three!Purge!memoryVars
<1>3. /\ (/\ part = "queues" /\ Two!Purge!OpenJobsKeepTheirRows
          /\ Two!Purge!AnsweredOnce) => Rows
      /\ part = "memory" /\ Three!Purge!TurnsHaveMemory => Rows
      /\ ~(part = "queues") /\ ~(part = "memory") => Rows
  OBVIOUS
<1>4. Horizon <= QueueTTL
  BY ConversationAssumption
<1>5. /\ Two!Purge!Spec =>
           /\ [](Two!Purge!OpenJobsKeepTheirRows /\ Two!Purge!AnsweredOnce)
           /\ [][Two!Purge!ExactDryRun]_(Two!Purge!vars)
      /\ Three!Purge!Spec => /\ []Three!Purge!TurnsHaveMemory
                             /\ [][Three!Purge!ExactDryRun]_(Three!Purge!vars)
  BY <1>1, <1>4, PTL DEF Two!Purge!RetentionIsSafe, Three!Purge!RetentionIsSafe
<1>6. QED
  BY <1>2, <1>3, <1>5, QueuesAlone, MemoryAlone, PTL DEF RetentionIsSafe
============================================================================
