--------------------------- MODULE SearchPipeline ---------------------------
(***************************************************************************)
(* HybridSearchOrchestrator.search (app/services/search/hybrid.py): what   *)
(* happens to one question between the request and its answer, for several *)
(* searches that share the orchestrator and its faithfulness checker.      *)
(*                                                                         *)
(* One event loop runs every search: a step is the code from one await to  *)
(* the next. A stage is what a search is waiting for.                      *)
(***************************************************************************)
EXTENDS Ranking

CONSTANTS
    Searches,         \* the searches in progress
    Requests,         \* the requests (and settings) there are
    asked,            \* which of them each search may have
    VectorLists,      \* what PGVector may answer: lists of hits, best first
    KeywordLists,     \* what Elasticsearch may answer
    RerankScores,     \* scores the cross encoder may give
    FaithScores,      \* scores the judge of faithfulness may give
    Personal          \* passages that hold personal data

Mode == {"vector", "keyword", "cascading", "hybrid"}

\* RAGSettings with the overrides of the request, the category of the
\* question, and generate_answer: all of it is fixed when a search begins.
Request ==
    [injection : BOOLEAN, multi_query : BOOLEAN, multi_query_count : Nat,
     hyde : BOOLEAN, mode : Mode, rrf_constant : Nat \ {0},
     vector_weight : Nat, keyword_weight : Nat,
     bm25_threshold : Int, min_qualifying_docs : Nat, bm25_min_doc_score : Int,
     expansion : BOOLEAN, fallback_vector_weight : Nat, fallback_keyword_weight : Nat,
     scope : BOOLEAN, top_n : Nat, reranking : BOOLEAN, top_k : Nat,
     gate : BOOLEAN, min_top_score : Int, min_doc_count : Nat, min_doc_score : Int,
     soft_mode : BOOLEAN, pii : BOOLEAN,
     category : {"regulatory", "extraction", "explanatory"}, exact_citation : BOOLEAN,
     generate_answer : BOOLEAN, faithfulness : BOOLEAN, threshold : Int,
     action : {"warn", "block"}, hallucination : BOOLEAN]

List == {l \in Seq(Hit) : \A i, j \in DOMAIN l :
                            i < j => l[i].score >= l[j].score /\ chunk_id(l[i]) # chunk_id(l[j])}

ASSUME PipelineAssumption ==
    /\ Requests \subseteq Request
    /\ asked \in [Searches -> SUBSET Requests]
    /\ VectorLists \subseteq List /\ \A l \in VectorLists : \A i \in DOMAIN l : l[i].store = "pg"
    /\ KeywordLists \subseteq List /\ \A l \in KeywordLists : \A i \in DOMAIN l : l[i].store = "es"
    /\ RerankScores \subseteq Int
    /\ FaithScores \subseteq Int
    /\ Personal \subseteq Chunk

VARIABLES
    request,    \* the request of each search
    stage,      \* what each search waits for
    pending,    \* queries (the question and its variants) not searched yet
    found,      \* hits of the queries that have been searched
    documents,  \* the documents of the result
    gate,       \* how the retrieval gate judged them
    masked,     \* passages among them whose personal data is masked
    disclosed,  \* passages that went to a language model unmasked
    answer,     \* what the answer is, as far as it has got
    notes,      \* warnings appended to it
    score,      \* what the judge of faithfulness gave
    threshold,  \* FaithfulnessChecker.threshold, shared
    disturbed   \* history: threshold changed under a search that was being judged

retrieval == <<pending, found>>
outcome == <<documents, gate, masked>>
judgement == <<notes, score, threshold, disturbed>>
vars == <<request, stage, retrieval, outcome, disclosed, answer, judgement>>

Stage == {"screen", "rewrite", "hyde", "retrieve", "expand", "fallback", "variants",
          "select", "evidence", "extract", "generate", "judge", "check", "done"}
Answer == {"none", "not_found", "evidence", "extracted", "generated", "blocked",
           "refused", "error"}

(***************************************************************************)
(* Which stage comes next: a stage that is switched off is no await.       *)
(***************************************************************************)

\* Mutant: the question is taken to be among the queries.
after_hyde_always(queries) == "retrieve"

after_hyde(queries) == IF queries = 0 THEN "select" ELSE "retrieve"
after_rewrite(r, queries) == IF r.hyde THEN "hyde" ELSE after_hyde(queries)
after_screen(r) == IF r.multi_query THEN "rewrite" ELSE after_rewrite(r, 1)
first_stage(r) == IF r.injection THEN "screen" ELSE after_screen(r)

after_answer(r) == IF r.faithfulness THEN "judge"
                   ELSE IF r.hallucination THEN "check" ELSE "done"
after_judge(r) == IF r.hallucination THEN "check" ELSE "done"

Init ==
    /\ request \in [Searches -> Requests]
    /\ \A s \in Searches : request[s] \in asked[s]
    /\ stage = [s \in Searches |-> first_stage(request[s])]
    /\ pending = [s \in Searches |-> 1]
    /\ found = [s \in Searches |-> {}]
    /\ documents = [s \in Searches |-> {}]
    /\ gate = [s \in Searches |-> "off"]
    /\ masked = [s \in Searches |-> {}]
    /\ disclosed = [s \in Searches |-> {}]
    /\ answer = [s \in Searches |-> "none"]
    /\ notes = [s \in Searches |-> {}]
    /\ score = [s \in Searches |-> 0]
    /\ threshold = 0
    /\ disturbed = [s \in Searches |-> FALSE]

Goto(s, next) == stage' = [stage EXCEPT ![s] = next]

\* The exception of a call leaves search, and the client gets an error.
Raise(s, kind) ==
    /\ Goto(s, "done")
    /\ answer' = [answer EXCEPT ![s] = kind]

(***************************************************************************)
(* Before the retrieval.                                                   *)
(***************************************************************************)

\* The injection detector lets the question pass, blocks it, or its model
\* cannot be asked.
Screen(s) ==
    /\ stage[s] = "screen"
    /\ \/ Goto(s, after_screen(request[s])) /\ UNCHANGED answer
       \/ \E kind \in {"refused", "error"} : Raise(s, kind)
    /\ UNCHANGED <<request, retrieval, outcome, disclosed, judgement>>

\* MultiQueryGenerator.generate: the question and the variants the model
\* thought of, cut to multi_query_count; the question alone if it failed.
MultiQuery(s) ==
    LET count == request[s].multi_query_count
    IN  /\ stage[s] = "rewrite"
        /\ \E queries \in (IF count = 0 THEN {0} ELSE 1..count) :
             /\ pending' = [pending EXCEPT ![s] = queries]
             /\ Goto(s, after_rewrite(request[s], queries))
        /\ UNCHANGED <<request, found, outcome, disclosed, answer, judgement>>

\* HyDE decides what is embedded, and the question is when it fails: either
\* way the search goes on.
Hyde(s) ==
    /\ stage[s] = "hyde"
    /\ Goto(s, after_hyde(pending[s]))
    /\ UNCHANGED <<request, retrieval, outcome, disclosed, answer, judgement>>

(***************************************************************************)
(* Retrieval. The queries of a search run at the same time; they share     *)
(* nothing, so they are taken one after the other, the question first.     *)
(***************************************************************************)

\* One query more has its hits.
Collect(s, H) ==
    /\ found' = [found EXCEPT ![s] = @ \cup H]
    /\ pending' = [pending EXCEPT ![s] = @ - 1]
    /\ Goto(s, IF pending[s] = 1 THEN "select" ELSE "variants")
    /\ UNCHANGED <<request, outcome, disclosed, answer, judgement>>

Fused(r, vector, keyword) ==
    combine(vector, keyword, r.rrf_constant, r.vector_weight, r.keyword_weight)

Sufficient(r, list) ==
    sufficient(hits(list), r.bm25_threshold, r.min_qualifying_docs, r.bm25_min_doc_score)

\* _search_single in the modes without stages.
SearchSingle(s) ==
    /\ stage[s] = "retrieve"
    /\ \/ /\ request[s].mode = "vector"
          /\ \E vector \in VectorLists : Collect(s, hits(vector))
       \/ /\ request[s].mode = "keyword"
          /\ \E keyword \in KeywordLists : Collect(s, hits(keyword))
       \/ /\ request[s].mode = "hybrid"
          /\ \E vector \in VectorLists, keyword \in KeywordLists :
               Collect(s, Fused(request[s], vector, keyword))

\* _cascading_search: keywords, then more keywords, then vectors as well.
CascadeKeyword(s) ==
    /\ stage[s] = "retrieve" /\ request[s].mode = "cascading"
    /\ \E keyword \in KeywordLists :
         \/ /\ Sufficient(request[s], keyword)
            /\ Collect(s, hits(keyword))
         \/ /\ ~ Sufficient(request[s], keyword)
            /\ Goto(s, IF request[s].expansion THEN "expand" ELSE "fallback")
            /\ UNCHANGED <<request, retrieval, outcome, disclosed, answer, judgement>>

CascadeExpanded(s) ==
    /\ stage[s] = "expand"
    /\ \E keyword \in KeywordLists :
         \/ /\ Sufficient(request[s], keyword)
            /\ Collect(s, hits(keyword))
         \/ /\ ~ Sufficient(request[s], keyword)
            /\ Goto(s, "fallback")
            /\ UNCHANGED <<request, retrieval, outcome, disclosed, answer, judgement>>

CascadeFallback(s) ==
    /\ stage[s] = "fallback"
    /\ \E vector \in VectorLists, keyword \in KeywordLists :
         Collect(s, combine(vector, keyword, request[s].rrf_constant,
                            request[s].fallback_vector_weight,
                            request[s].fallback_keyword_weight))

SearchVariant(s) ==
    /\ stage[s] = "variants"
    /\ \E vector \in VectorLists, keyword \in KeywordLists :
         Collect(s, Fused(request[s], vector, keyword))

\* The embedding, a store, or the model that expands the query fails: gather
\* raises the first exception it gets.
SearchFails(s) ==
    /\ stage[s] \in {"retrieve", "expand", "fallback", "variants"}
    /\ Raise(s, "error")
    /\ UNCHANGED <<request, retrieval, outcome, disclosed, judgement>>

(***************************************************************************)
(* Selection: everything from the end of the retrieval to the call of a    *)
(* model is one step, because nothing in it waits (the cross encoder is    *)
(* called without one).                                                    *)
(***************************************************************************)

\* H with the scores of the cross encoder.
Rescored(H, scoring) ==
    {[chunk |-> h.chunk, store |-> h.store, score |-> scoring[h]] : h \in H}

\* The candidates as they are, if the cross encoder fails, or the best top_k
\* by its scores.
Reranked(r, H) ==
    UNION {{C} \cup UNION {cut(Rescored(C, scoring), r.top_k) :
                             scoring \in [C -> RerankScores]} :
             C \in cut(H, 4 * r.top_k)}

\* The possible results of scope and reranking.
Selections(r, H) ==
    LET scoped == IF r.scope THEN select(deduplicate(H), r.top_n) ELSE {deduplicate(H)}
    IN  IF r.reranking THEN UNION {Reranked(r, S) : S \in scoped} ELSE scoped

Judged(r, H) ==
    IF r.gate
    THEN evaluate(H, r.min_top_score, r.min_doc_count, r.min_doc_score, r.soft_mode)
    ELSE "off"

\* Mutant: a soft failure of the gate is forgotten.
answer_stage_ungated(r, verdict) ==
    IF verdict = "failed" \/ ~ r.generate_answer THEN "done"
    ELSE IF r.exact_citation /\ r.category = "regulatory" THEN "evidence"
    ELSE IF r.category = "extraction" THEN "extract"
    ELSE "generate"

\* How the answer is made.
answer_stage(r, verdict) ==
    IF verdict = "failed" \/ ~ r.generate_answer THEN "done"
    ELSE IF verdict = "soft" THEN "evidence"
    ELSE IF r.exact_citation /\ r.category = "regulatory" THEN "evidence"
    ELSE IF r.category = "extraction" THEN "extract"
    ELSE "generate"

\* Mutant: masking is left to the end of the search.
Select_masks_late(s) ==
    /\ stage[s] = "select"
    /\ \E H \in Selections(request[s], found[s]) :
         LET verdict == Judged(request[s], H)
             next == answer_stage(request[s], verdict)
         IN  /\ documents' = [documents EXCEPT ![s] = H]
             /\ gate' = [gate EXCEPT ![s] = verdict]
             /\ masked' = [masked EXCEPT ![s] =
                             IF request[s].pii /\ next = "done" /\ verdict # "failed"
                             THEN passages(H) \cap Personal ELSE {}]
             /\ answer' = [answer EXCEPT ![s] =
                             IF verdict = "failed" THEN "not_found" ELSE "none"]
             /\ Goto(s, next)
    /\ found' = [found EXCEPT ![s] = {}]
    /\ pending' = [pending EXCEPT ![s] = 0]
    /\ UNCHANGED <<request, disclosed, judgement>>

\* Duplicates, scope, reranking, gate and masking. A hard failure of the gate
\* returns before the masking.
Select(s) ==
    /\ stage[s] = "select"
    /\ \E H \in Selections(request[s], found[s]) :
         LET verdict == Judged(request[s], H)
         IN  /\ documents' = [documents EXCEPT ![s] = H]
             /\ gate' = [gate EXCEPT ![s] = verdict]
             /\ masked' = [masked EXCEPT ![s] =
                             IF request[s].pii /\ verdict # "failed"
                             THEN passages(H) \cap Personal ELSE {}]
             /\ answer' = [answer EXCEPT ![s] =
                             IF verdict = "failed" THEN "not_found" ELSE "none"]
             /\ Goto(s, answer_stage(request[s], verdict))
    /\ found' = [found EXCEPT ![s] = {}]
    /\ pending' = [pending EXCEPT ![s] = 0]
    /\ UNCHANGED <<request, disclosed, judgement>>

(***************************************************************************)
(* The answer.                                                             *)
(***************************************************************************)

\* The documents go into the prompt of a model.
Prompt(s) ==
    disclosed' = [disclosed EXCEPT
                    ![s] = @ \cup ((passages(documents[s]) \cap Personal) \ masked[s])]

\* Mutant: the checker keeps the threshold it was made with.
Answered_keeps_threshold(s, kind) ==
    /\ answer' = [answer EXCEPT ![s] = kind]
    /\ Goto(s, after_answer(request[s]))
    /\ UNCHANGED judgement

\* The model has answered: the judge of faithfulness is given the threshold
\* of this search and asked, with no await in between.
Answered(s, kind) ==
    /\ answer' = [answer EXCEPT ![s] = kind]
    /\ Goto(s, after_answer(request[s]))
    /\ IF request[s].faithfulness
       THEN /\ threshold' = request[s].threshold
            /\ disturbed' = [t \in Searches |->
                               \/ disturbed[t]
                               \/ /\ t # s /\ stage[t] = "judge"
                                  /\ request[t].threshold # request[s].threshold]
       ELSE UNCHANGED <<threshold, disturbed>>
    /\ UNCHANGED <<notes, score>>

\* extract_and_answer. Its failures are None; after a soft failure of the gate
\* an answer without evidence sentences counts for nothing.
Evidence(s) ==
    /\ stage[s] = "evidence"
    /\ Prompt(s)
    /\ \/ /\ gate[s] = "soft"
          /\ \/ Answered(s, "evidence")
             \/ /\ Goto(s, "done")
                /\ answer' = [answer EXCEPT ![s] = "not_found"]
                /\ UNCHANGED judgement
       \/ /\ gate[s] # "soft"
          /\ \/ Answered(s, "extracted")
             \/ Goto(s, "generate") /\ UNCHANGED <<answer, judgement>>
    /\ UNCHANGED <<request, retrieval, outcome>>

\* extract_short_answer
Extract(s) ==
    /\ stage[s] = "extract"
    /\ Prompt(s)
    /\ \/ Answered(s, "extracted")
       \/ Goto(s, "generate") /\ UNCHANGED <<answer, judgement>>
    /\ UNCHANGED <<request, retrieval, outcome>>

Generate(s) ==
    /\ stage[s] = "generate"
    /\ Prompt(s)
    /\ Answered(s, "generated") \/ (Raise(s, "error") /\ UNCHANGED judgement)
    /\ UNCHANGED <<request, retrieval, outcome>>

(***************************************************************************)
(* The guardrails of the answer. The numeric verification only logs.       *)
(***************************************************************************)

\* FaithfulnessChecker.verify and handle_result: the score is compared with
\* the threshold the checker has by then.
Judge(s) ==
    /\ stage[s] = "judge"
    /\ \E x \in FaithScores :
         LET unfaithful == x < threshold
             blocks == request[s].action = "block"
         IN  /\ score' = [score EXCEPT ![s] = x]
             /\ answer' = [answer EXCEPT ![s] =
                             IF unfaithful /\ blocks THEN "blocked" ELSE @]
             /\ notes' = [notes EXCEPT ![s] =
                            IF unfaithful /\ ~ blocks THEN @ \cup {"unfaithful"} ELSE @]
    /\ Goto(s, after_judge(request[s]))
    /\ UNCHANGED <<request, retrieval, outcome, disclosed, threshold, disturbed>>

\* HallucinationDetector, whose action is always a warning.
Check(s) ==
    /\ stage[s] = "check"
    /\ Goto(s, "done")
    /\ \E warning \in SUBSET {"hallucination"} :
         notes' = [notes EXCEPT ![s] = @ \cup warning]
    /\ UNCHANGED <<request, retrieval, outcome, disclosed, answer, score, threshold, disturbed>>

JudgementFails(s) ==
    /\ stage[s] \in {"judge", "check"}
    /\ Raise(s, "error")
    /\ UNCHANGED <<request, retrieval, outcome, disclosed, judgement>>

Step(s) ==
    \/ Screen(s) \/ MultiQuery(s) \/ Hyde(s)
    \/ SearchSingle(s) \/ CascadeKeyword(s) \/ CascadeExpanded(s) \/ CascadeFallback(s)
    \/ SearchVariant(s) \/ SearchFails(s) \/ Select(s)
    \/ Evidence(s) \/ Extract(s) \/ Generate(s)
    \/ Judge(s) \/ Check(s) \/ JudgementFails(s)

Next == \E s \in Searches : Step(s)

Spec == Init /\ [][Next]_vars

-----------------------------------------------------------------------------
(***************************************************************************)
(* Properties                                                              *)
(***************************************************************************)

\* Every variable has its type. It could fail: multi_query_count cuts the list
\* of queries the question itself is in, and a count of 0 leaves none.
TypeOK ==
    /\ request \in [Searches -> Requests]
    /\ stage \in [Searches -> Stage]
    /\ pending \in [Searches -> Nat]
    /\ found \in [Searches -> SUBSET Hit]
    /\ documents \in [Searches -> SUBSET Hit]
    /\ gate \in [Searches -> {"off", "passed", "soft", "failed"}]
    /\ masked \in [Searches -> SUBSET Personal]
    /\ disclosed \in [Searches -> SUBSET Personal]
    /\ answer \in [Searches -> Answer]
    /\ notes \in [Searches -> SUBSET {"unfaithful", "hallucination"}]
    /\ score \in [Searches -> FaithScores \cup {0}]
    /\ threshold \in Int
    /\ disturbed \in [Searches -> BOOLEAN]

\* With PII detection on, no model is ever given personal data of a document,
\* through whichever of the four prompts an answer is made, and the documents
\* of the result are masked, unless the retrieval gate failed hard: then
\* search returns before it masks (hybrid.py:286).
MaskedUnlessGated ==
    \A s \in Searches : request[s].pii =>
        /\ disclosed[s] = {}
        /\ gate[s] # "failed" => passages(documents[s]) \cap Personal \subseteq masked[s]

\* What the gate does not let through is never answered from the documents
\* without evidence quoted from them: every way out of a failed gate ends with
\* the evidence, with the message that nothing was found, or without answer,
\* whatever the category of the question and whatever fails later.
GateHoldsBack ==
    \A s \in Searches : gate[s] \in {"soft", "failed"} =>
        answer[s] \in {"none", "not_found", "evidence", "blocked", "error"}

\* A result has no identifier twice, is from at most document_scope_top_n
\* documents, and has at most four times reranker_top_k of them: the factor is
\* for the candidates a failed cross encoder leaves (hybrid.py:242).
WithinLimits ==
    \A s \in Searches :
        /\ \A g, h \in documents[s] : chunk_id(g) = chunk_id(h) => g = h
        /\ request[s].scope => Cardinality(documents_of(documents[s])) <= request[s].top_n
        /\ request[s].reranking => Cardinality(documents[s]) <= 4 * request[s].top_k

\* Selection loses neither everything nor the best: something found is
\* something returned, and without reranking a hit with the best score of all
\* queries is among the documents, after duplicates of several queries were
\* removed and documents were left out.
BestIsKept ==
    [][\A s \in Searches :
         /\ stage[s] = "select" /\ stage'[s] # "select"
         /\ found[s] # {} /\ request[s].top_n > 0 /\ request[s].top_k > 0
         => /\ documents'[s] # {}
            /\ ~ request[s].reranking =>
                 top_score(found[s]) \in {h.score : h \in documents'[s]}]_vars

\* An answer whose faithfulness is below the threshold of its search is
\* blocked or carries the warning, and one that is not below it is returned
\* as it is, unless another search changed the threshold of the shared checker
\* while the judge was being asked (hybrid.py:443, faithfulness.py:65).
UnfaithfulIsHandled ==
    \A s \in Searches :
        /\ request[s].faithfulness /\ ~ disturbed[s]
        /\ stage[s] = "check" \/ stage[s] = "done"
        /\ answer[s] \in {"evidence", "extracted", "generated", "blocked"}
        => (score[s] < request[s].threshold)
              <=> (answer[s] = "blocked" \/ "unfaithful" \in notes[s])
=============================================================================
