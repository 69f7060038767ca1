---------------------------- MODULE AnswerGraph ----------------------------
(***************************************************************************)
(* One request in the answer graph (src/src/graph) and what the caller,    *)
(* process_message, does with the result.  The state that LangGraph        *)
(* threads through the nodes is the record bot; a node is an action, its   *)
(* returned dict the fields it assigns, and the edge functions pick the    *)
(* next node.  What the nodes compute from text (topics, wording, facts)   *)
(* is a choice among the outcomes their code distinguishes.                *)
(***************************************************************************)
EXTENDS Integers, FiniteSets

CONSTANTS
  Yonote,           \* chunks whose source type is Yonote, the only factual one
  Other,            \* chunks of any other source type
  Volatile,         \* Yonote chunks with a validity period or conditional logic
  RecoveryEnabled,  \* semantic_recovery_enabled
  CallCap           \* bound of the model: calls of the language model counted

\* What is assumed of the constants.
Assumptions ==
  /\ Yonote \cap Other = {} /\ Volatile \subseteq Yonote
  /\ RecoveryEnabled \in BOOLEAN /\ CallCap \in Nat

VARIABLES
  at,        \* the node about to run, "draft" inside generate, "done" at the end
  bot,       \* BotState
  sources,   \* the chunks given to the generator model
  drafts,    \* drafts it returned in this call of generate
  calls,     \* history: calls of the language model in this request
  accepted,  \* history: what verify let through
  cached,    \* the response is saved in the semantic cache
  pending    \* the session waits for the answer to a clarification

vars == <<at, bot, sources, drafts, calls, accepted, cached, pending>>

Chunks == Yonote \cup Other
Low == 2     \* reranker_threshold_low, on a scale of
High == 3    \* none, below low, at least low, at least high

Nodes == {"analyze", "retrieve", "rerank", "recover", "generate", "draft", "guard",
          "verify", "respond", "clarify", "escalate", "finish", "done"}

\* The reasons that semantic recovery may answer, and classes of the others.
Recoverable == {"low_confidence", "no_relevant_chunks", "no_sources_for_generation",
                "insufficient_sources", "partial_source_coverage"}
Reasons == Recoverable \cup {"", "analysis", "fault", "generation", "verification",
                             "final_response", "request_timeout", "needs_operator"}

\* A text: who wrote it, whether the generator model wrote any of it, and
\* whether it says that something asked has no confirmed data.
Text(by, llm, noted) == [by |-> by, llm |-> llm, noted |-> noted]
Texts == [by : {"none", "source", "llm", "fact", "forum", "scope", "clarification", "operator"},
          llm : BOOLEAN, noted : BOOLEAN]
NoText == Text("none", FALSE, FALSE)
OperatorTransfer == Text("operator", FALSE, FALSE)
UnknownForum == Text("forum", FALSE, FALSE)

\* QueryAnalysis.  A clarification asks something that the session waits for,
\* tells something (a greeting), or has no text of its own.
Analyses == [present : {TRUE}, offtopic : BOOLEAN, operator : BOOLEAN,
             clarify : {"no", "asks", "tells", "blank"}]
NoAnalysis == [present |-> FALSE, offtopic |-> FALSE, operator |-> FALSE, clarify |-> "no"]

InitialBot ==
  [analysis |-> NoAnalysis, retrieved |-> {}, reranked |-> {}, confidence |-> 0,
   attempted |-> FALSE, response |-> NoText, cited |-> {}, model |-> "none",
   missing |-> FALSE, verdict |-> "none", judged |-> FALSE,
   escalate |-> FALSE, reason |-> "", final |-> NoText]

Bots ==
  [analysis : Analyses \cup {NoAnalysis}, retrieved : SUBSET Chunks,
   reranked : SUBSET Chunks, confidence : 0..High, attempted : BOOLEAN,
   response : Texts, cited : SUBSET Chunks,
   model : {"none", "source_chunk", "source_only", "llm"}, missing : BOOLEAN,
   verdict : {"none", "pass", "hallucination"}, judged : BOOLEAN,
   escalate : BOOLEAN, reason : Reasons, final : Texts]

Init ==
  /\ at = "analyze" /\ bot = InitialBot
  /\ sources = {} /\ drafts = 0 /\ calls = 0
  /\ accepted = {} /\ cached = FALSE /\ pending = FALSE

CallModel == calls' = IF calls < CallCap THEN calls + 1 ELSE calls

-----------------------------------------------------------------------------
(* The edges.                                                              *)

CanRecover(b) ==
  /\ ~b.attempted /\ RecoveryEnabled
  /\ b.analysis.present /\ ~b.analysis.offtopic /\ ~b.analysis.operator
  /\ b.reason \in Recoverable

RouteAfterAnalyze(b) ==
  IF b.analysis.offtopic THEN "clarify"
  ELSE IF b.escalate \/ b.analysis.operator THEN "escalate"
  ELSE IF b.analysis.clarify # "no" THEN "clarify"
  ELSE "retrieve"

RouteAfterRerank(b) ==
  IF b.confidence < Low THEN IF CanRecover(b) THEN "recover" ELSE "escalate"
  ELSE IF b.escalate THEN "escalate" ELSE "generate"

RouteAfterGenerate(b) ==
  IF ~b.escalate THEN "guard" ELSE IF CanRecover(b) THEN "recover" ELSE "escalate"

\* Mutation: a judged hallucination is searched again instead of escalated.
RouteVerifyAgain(b) ==
  IF b.verdict = "hallucination" /\ ~b.attempted /\ RecoveryEnabled THEN "recover"
  ELSE IF b.escalate THEN "escalate" ELSE "respond"

RouteAfterVerify(b) ==
  IF b.escalate
  THEN IF b.verdict # "hallucination" /\ CanRecover(b) THEN "recover" ELSE "escalate"
  ELSE IF b.verdict = "hallucination" THEN "escalate" ELSE "respond"

-----------------------------------------------------------------------------
(* Analysis and search.                                                    *)

\* analyze_query: rules decide, or the model does; when it fails, a message
\* without category is answered with a clarification or is given up.
Analyze ==
  /\ at = "analyze"
  /\ \/ /\ \E a \in Analyses :
             bot' = [bot EXCEPT !.analysis = a, !.escalate = a.operator,
                                !.reason = IF a.operator THEN "analysis" ELSE ""]
        /\ \/ UNCHANGED calls
           \/ CallModel
     \/ /\ bot' = [bot EXCEPT !.analysis = [present |-> TRUE, offtopic |-> FALSE,
                                            operator |-> FALSE, clarify |-> "asks"]]
        /\ CallModel
     \/ /\ bot' = [bot EXCEPT !.escalate = TRUE, !.reason = "fault"]
        /\ CallModel
  /\ at' = RouteAfterAnalyze(bot')
  /\ UNCHANGED <<sources, drafts, accepted, cached, pending>>

Retrieve ==
  /\ at = "retrieve"
  /\ \/ \E found \in SUBSET Chunks : bot' = [bot EXCEPT !.retrieved = found]
     \/ bot' = [bot EXCEPT !.retrieved = {}, !.escalate = TRUE, !.reason = "fault"]
  /\ at' = "rerank"
  /\ UNCHANGED <<sources, drafts, calls, accepted, cached, pending>>

\* The scored chunks are bounded to Yonote; the confidence may be raised by
\* the floor for an exact filter even when the reranker keeps nothing.
Rerank ==
  LET candidates == bot.retrieved \cap Yonote
      Ranked(kept, c, failed, why) ==
        bot' = [bot EXCEPT !.reranked = kept, !.confidence = c, !.escalate = failed,
                           !.reason = IF failed THEN why ELSE @]
  IN  /\ at = "rerank"
      /\ IF bot.escalate THEN UNCHANGED bot
         ELSE IF candidates = {} THEN Ranked({}, 0, TRUE, "no_relevant_chunks")
         ELSE \/ Ranked({}, 0, TRUE, "fault")
              \/ \E kept \in SUBSET candidates, c \in 0..High :
                   Ranked(kept, c, c < Low,
                          IF c = 0 THEN "no_relevant_chunks" ELSE "low_confidence")
      /\ at' = RouteAfterRerank(bot')
      /\ UNCHANGED <<sources, drafts, calls, accepted, cached, pending>>

\* Mutation: a successful rewrite does not mark the request as recovered.
RecoverUnmarked ==
  /\ at = "recover" /\ CallModel
  /\ bot' = [InitialBot EXCEPT !.analysis = [bot.analysis EXCEPT !.clarify = "no"],
                               !.attempted = FALSE, !.model = bot.model]
  /\ at' = "retrieve"
  /\ UNCHANGED <<sources, drafts, accepted, cached, pending>>

\* semantic_recovery: the model rewrites the questions once and the search
\* starts afresh; when it cannot, the first failure is escalated.
Recover ==
  /\ at = "recover" /\ CallModel
  /\ \/ /\ bot' = [bot EXCEPT !.analysis.clarify = "no", !.analysis.operator = FALSE,
                              !.attempted = TRUE, !.retrieved = {}, !.reranked = {},
                              !.confidence = 0, !.response = NoText, !.cited = {},
                              !.missing = FALSE, !.escalate = FALSE, !.reason = ""]
        /\ at' = "retrieve"
     \/ /\ bot' = [bot EXCEPT !.attempted = TRUE, !.escalate = TRUE,
                              !.response = NoText, !.cited = {}]
        /\ at' = "escalate"
  /\ UNCHANGED <<sources, drafts, accepted, cached, pending>>

-----------------------------------------------------------------------------
(* Generation.                                                             *)

GenerationFails(why, model) ==
  /\ bot' = [bot EXCEPT !.escalate = TRUE, !.reason = why, !.response = NoText,
                        !.cited = {}, !.model = model]
  /\ at' = RouteAfterGenerate(bot')

NoDraft == UNCHANGED <<sources, drafts>>

\* The contract of a copied answer is not met.
ContractFails == GenerationFails("generation", "source_chunk") /\ NoDraft

Copies(used, partial) ==
  /\ bot' = [bot EXCEPT !.response = Text("source", FALSE, partial), !.cited = used,
                        !.model = "source_chunk", !.missing = @ \/ partial]
  /\ at' = RouteAfterGenerate(bot')
  /\ NoDraft

Synthesises(used) ==
  at' = "draft" /\ sources' = used /\ drafts' = 0 /\ UNCHANGED bot

NoSources(chunks) ==
  /\ chunks = {}
  /\ GenerationFails("no_sources_for_generation", "source_only") /\ NoDraft

NotEnough(chunks) ==
  /\ chunks # {}
  /\ GenerationFails("insufficient_sources", "source_only") /\ NoDraft

\* Facts bound to the request, recomputed by the contract, from any number
\* of sources, unless they have to be put together by the model.
FromFacts(chunks) ==
  \E used \in (SUBSET chunks) \ {{}} :
    Copies(used, FALSE) \/ Synthesises(used) \/ ContractFails

\* Part of the request is in no known aspect: only the model can answer it.
FromClauses(chunks) == \E used \in (SUBSET chunks) \ {{}} : Synthesises(used)

\* A published answer, copied when it is one source and short enough.
FromSources(chunks) ==
  \E used \in (SUBSET chunks) \ {{}} :
    \/ Synthesises(used)
    \/ Cardinality(used) = 1 /\ (Copies(used, FALSE) \/ ContractFails)

\* Some questions have sources and the answer says that the others have none;
\* the contract may find that bounded facts cover them all.
FromPartOfSources(chunks) ==
  \E used \in (SUBSET chunks) \ {{}} :
    Synthesises(used) \/ Copies(used, TRUE) \/ Copies(used, FALSE) \/ ContractFails

\* generate, up to its first call of the model.
Generate ==
  /\ at = "generate"
  /\ LET chunks == bot.reranked \cap Yonote
     IN  NoSources(chunks) \/ NotEnough(chunks) \/ FromFacts(chunks)
         \/ FromClauses(chunks) \/ FromSources(chunks) \/ FromPartOfSources(chunks)
  /\ UNCHANGED <<calls, accepted, cached, pending>>

\* A refused draft is sent back to the model once.
MayRedraft == drafts = 0

\* One draft: accepted with the sources it cites (the only one, if there is
\* one), refused and written once more, or refused for the second time.
Draft ==
  /\ at = "draft" /\ CallModel
  /\ \/ \E used \in (SUBSET sources) \ {{}} :
          /\ Cardinality(sources) = 1 => used = sources
          /\ bot' = [bot EXCEPT !.response = Text("llm", TRUE, FALSE),
                                !.cited = used, !.model = "llm"]
          /\ at' = RouteAfterGenerate(bot')
          /\ UNCHANGED drafts
     \/ /\ MayRedraft
        /\ drafts' = drafts + 1
        /\ UNCHANGED <<at, bot>>
     \/ /\ ~MayRedraft
        /\ GenerationFails("generation", "llm")
        /\ UNCHANGED drafts
  /\ UNCHANGED <<sources, accepted, cached, pending>>

\* apply_response_guards: a dated fact of one chunk, of those cited or of the
\* seed file, replaces the whole answer, or one sentence of it.
Guard ==
  /\ at = "guard"
  /\ \/ UNCHANGED bot
     \/ \E fact \in Yonote :
          bot' = [bot EXCEPT !.response = Text("fact", FALSE, FALSE), !.cited = {fact},
                             !.model = "source_chunk", !.reranked = @ \cup {fact}]
     \/ /\ bot.cited # {}
        /\ bot' = [bot EXCEPT !.response = Text("fact", bot.response.llm, bot.response.noted),
                              !.model = "source_chunk"]
  /\ at' = "verify"
  /\ UNCHANGED <<sources, drafts, calls, accepted, cached, pending>>

-----------------------------------------------------------------------------
(* Verification.                                                           *)

Copied == bot.model \in {"source_chunk", "source_only"}

\* Every source is known to this request and is from Yonote; a synthesis
\* that cites none, and any other source, is rejected.
Grounded ==
  /\ bot.cited # {} \/ Copied
  /\ bot.cited \subseteq bot.reranked \cap Yonote

Judged(verdict, triggered) ==
  bot' = [bot EXCEPT !.verdict = verdict, !.judged = triggered]

Rejected(why) ==
  bot' = [bot EXCEPT !.verdict = "hallucination", !.judged = FALSE,
                     !.escalate = why # "", !.reason = IF why = "" THEN @ ELSE why]

\* The answer does not claim to be an answer: another search may help.
SignalsInsufficient ==
  bot' = [bot EXCEPT !.verdict = "pass", !.judged = FALSE,
                     !.escalate = TRUE, !.reason = "insufficient_sources"]

\* The sources speak of several forums and the user of none.
AsksForForum ==
  bot' = [bot EXCEPT !.verdict = "pass", !.judged = FALSE, !.response = UnknownForum,
                     !.escalate = FALSE, !.reason = ""]

\* An aspect of the question has no source: the answer says so.
NotesMissing ==
  bot' = [bot EXCEPT !.verdict = "pass", !.judged = FALSE, !.response.noted = TRUE,
                     !.missing = TRUE, !.escalate = FALSE, !.reason = ""]

\* _can_skip_llm_judge: a copied answer, when the retrieval is confident or
\* the sources are the ones of technical support.
MaySkipJudge == Copied

MustSkipJudge == Copied /\ bot.confidence >= High

\* verify: a text that contradicts the question, asks for secrets, instructs
\* what its sources do not, or cites what it should not, is rejected.
Verify ==
  /\ at = "verify"
  /\ \/ /\ \/ Rejected("")
           \/ Rejected("verification")
           \/ /\ Grounded
              /\ \/ SignalsInsufficient
                 \/ AsksForForum
                 \/ NotesMissing
                 \/ MaySkipJudge /\ Judged("pass", FALSE)
        /\ UNCHANGED calls
     \/ /\ Grounded
        /\ ~MustSkipJudge
        /\ \E verdict \in {"pass", "hallucination"} : Judged(verdict, TRUE)
        /\ CallModel
  /\ at' = RouteAfterVerify(bot')
  /\ accepted' = IF at' = "respond"
                 THEN accepted \cup {[text |-> bot'.response, cited |-> bot'.cited]}
                 ELSE accepted
  /\ UNCHANGED <<sources, drafts, cached, pending>>

-----------------------------------------------------------------------------
(* The three ways out, the deadline, and the caller.                       *)

\* Mutation: the guards are applied to the final text, after verification.
RespondGuarded ==
  /\ at = "respond"
  /\ \/ bot' = [bot EXCEPT !.final = bot.response]
     \/ \E fact \in Yonote :
          bot' = [bot EXCEPT !.final = Text("fact", FALSE, FALSE), !.cited = {fact}]
  /\ at' = "finish"
  /\ UNCHANGED <<sources, drafts, calls, accepted, cached, pending>>

\* respond: the verified text, or the operator when it is too long, has too
\* many links or symbols the contract does not allow.
Respond ==
  /\ at = "respond"
  /\ \/ bot' = [bot EXCEPT !.final = bot.response]
     \/ bot' = [bot EXCEPT !.final = OperatorTransfer, !.escalate = TRUE,
                           !.reason = "final_response"]
  /\ at' = "finish"
  /\ UNCHANGED <<sources, drafts, calls, accepted, cached, pending>>

Clarify ==
  /\ at = "clarify"
  /\ bot' = IF bot.analysis.offtopic
            THEN [bot EXCEPT !.final = Text("scope", FALSE, FALSE),
                             !.escalate = FALSE, !.reason = ""]
            ELSE [bot EXCEPT !.final = IF bot.analysis.clarify = "blank" THEN UnknownForum
                                       ELSE Text("clarification", FALSE, FALSE)]
  /\ at' = "finish"
  /\ UNCHANGED <<sources, drafts, calls, accepted, cached, pending>>

\* escalate: a verdict of hallucination may come without a reason.
Escalate ==
  /\ at = "escalate"
  /\ bot' = [bot EXCEPT !.escalate = TRUE, !.final = OperatorTransfer,
                        !.reason = IF @ = "" THEN "needs_operator" ELSE @]
  /\ at' = "finish"
  /\ UNCHANGED <<sources, drafts, calls, accepted, cached, pending>>

\* The deadline of the request cancels the graph at any of its awaits; the
\* result is the state the graph was given, not the one it had reached.
Timeout ==
  /\ at \notin {"finish", "done"}
  /\ bot' = [InitialBot EXCEPT !.final = OperatorTransfer, !.escalate = TRUE,
                               !.reason = "request_timeout"]
  /\ at' = "finish"
  /\ UNCHANGED <<sources, drafts, calls, accepted, cached, pending>>

\* _save_cache.
Cacheable ==
  /\ ~bot.escalate /\ ~bot.missing
  /\ bot.analysis.present /\ bot.analysis.clarify = "no"
  /\ bot.cited # {} /\ bot.cited \subseteq bot.reranked \cap Yonote
  /\ bot.cited \cap Volatile = {} /\ bot.verdict # "hallucination"

\* _update_dialog_session.
AwaitsAnswer ==
  /\ bot.analysis.present /\ ~bot.analysis.offtopic /\ bot.analysis.clarify = "asks"
  /\ ~bot.escalate

Finish ==
  /\ at = "finish"
  /\ pending' = AwaitsAnswer
  /\ cached' = Cacheable
  /\ at' = "done"
  /\ UNCHANGED <<bot, sources, drafts, calls, accepted>>

Node ==
  \/ Analyze \/ Retrieve \/ Rerank \/ Recover \/ Generate \/ Draft \/ Guard
  \/ Verify \/ Respond \/ Clarify \/ Escalate \/ Finish

Next == Node \/ Timeout

Spec == Init /\ [][Next]_vars

\* Every awaited call of a node returns or raises within its own deadline,
\* so a node that runs returns; the deadline of the request need not pass.
FairSpec == Spec /\ WF_vars(Node)

-----------------------------------------------------------------------------
(* Properties.                                                             *)

TypeOK ==
  /\ at \in Nodes
  /\ bot \in Bots
  /\ sources \subseteq Chunks
  /\ drafts \in 0..1
  /\ calls \in 0..CallCap
  /\ accepted \subseteq [text : Texts, cited : SUBSET Chunks]
  /\ cached \in BOOLEAN
  /\ pending \in BOOLEAN

Factual == {"source", "llm", "fact"}

\* What is sent as an answer is exactly a text that verify let through with
\* the sources it had then, all of them Yonote chunks of the last search or
\* of a guard: no node after verify changes the text or its citations.
SentAsVerified ==
  at \in {"finish", "done"} /\ bot.final.by \in Factual =>
    /\ [text |-> bot.final, cited |-> bot.cited] \in accepted
    /\ bot.verdict = "pass"
    /\ bot.cited # {} /\ bot.cited \subseteq bot.reranked \cap Yonote

\* The user is sent to the operator exactly when the result says so, and the
\* result then names a reason.
EscalationIsTold ==
  at \in {"finish", "done"} =>
    /\ bot.escalate <=> bot.final = OperatorTransfer
    /\ bot.escalate => bot.reason # ""

\* One request never makes more than seven calls of the language model: one
\* of analysis, one of recovery, two drafts in each of two passes, one of
\* the judge.
CallBudget == calls <= 7

\* The judge has the last word: no model is called after it, so a rejected
\* synthesis is not rewritten until some judge accepts it.
NothingAfterJudge == bot.judged => calls' = calls

\* A complete answer that the generator model wrote and no guard touched is
\* sent only after the judge accepted it, however confident the retrieval.
SynthesisIsJudged ==
  at \in {"finish", "done"} /\ bot.final.by = "llm" /\ ~bot.final.noted => bot.judged

\* A cached answer is complete, was accepted by verify and cites nothing that
\* stops being true by itself.
CachedIsComplete ==
  cached =>
    /\ ~bot.final.noted /\ ~bot.escalate /\ bot.verdict = "pass"
    /\ [text |-> bot.final, cited |-> bot.cited] \in accepted
    /\ bot.cited \cap Volatile = {}

\* The session waits for the answer to a question only when that question is
\* what the user was sent.
PendingWasAsked == pending => bot.final.by = "clarification"

\* Every request ends: a search is recovered at most once.
EveryRequestEnds == <>(at = "done")

\* What is sent, cached and remembered of a request is what was verified.
OutcomeIsVerified ==
  /\ SentAsVerified /\ SynthesisIsJudged
  /\ EscalationIsTold /\ PendingWasAsked
  /\ CachedIsComplete

\* The calls of the language model are few, and the judge's is the last.
ModelCalls == []CallBudget /\ [][NothingAfterJudge]_vars
=============================================================================
