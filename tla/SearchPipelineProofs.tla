------------------------ MODULE SearchPipelineProofs ------------------------
(***************************************************************************)
(* TLAPS proofs about SearchPipeline, for any searches, requests, passages *)
(* and answers of the stores and the models, and then about the operators  *)
(* of Ranking, Judges, Chunking and PersonalData, for inputs of any size,  *)
(* and about the inputs Algorithms applies them to.                        *)
(***************************************************************************)
EXTENDS SearchPipeline, Algorithms, FiniteSetTheorems, WellFoundedInduction, TLAPS

(***************************************************************************)
(* What the ranking operators return                                       *)
(***************************************************************************)

LEMMA HitsOfLists ==
    /\ \A l \in VectorLists : hits(l) \subseteq Hit
    /\ \A l \in KeywordLists : hits(l) \subseteq Hit
  BY PipelineAssumption DEF hits, List

LEMMA RequestFields ==
    ASSUME NEW r \in Requests
    PROVE  /\ r \in Request
           /\ r.multi_query_count \in Nat /\ r.rrf_constant \in Nat \ {0}
           /\ r.vector_weight \in Nat /\ r.keyword_weight \in Nat
           /\ r.fallback_vector_weight \in Nat /\ r.fallback_keyword_weight \in Nat
           /\ r.top_n \in Nat /\ r.top_k \in Nat /\ r.threshold \in Int
           /\ r.action \in {"warn", "block"}
  BY PipelineAssumption DEF Request

LEMMA ShareIsInt ==
    ASSUME NEW l, l \in VectorLists \/ l \in KeywordLists, NEW h,
           NEW k \in Nat \ {0}, NEW w \in Nat
    PROVE  rrf_share(l, h, k, w) \in Int
  <1> DEFINE ranks == {i \in DOMAIN l : chunk_id(l[i]) = chunk_id(h)}
  <1>1. DOMAIN l \subseteq Nat
    BY PipelineAssumption DEF List
  <1>2. CASE ranks = {}
    BY <1>2 DEF rrf_share
  <1>3. CASE ranks # {}
    <2> DEFINE i == CHOOSE j \in ranks : TRUE
    <2>1. i \in Nat
      BY <1>1, <1>3
    <2>2. w * Scale \in Int
      BY RankingAssumption
    <2>3. k + i \in Nat /\ k + i > 0
      BY <2>1
    <2>4. (w * Scale) \div (k + i) \in Int
      <3> DEFINE a == w * Scale
                 b == k + i
      <3>1. a \in Int /\ b \in Nat /\ b > 0
        BY <2>2, <2>3
      <3> HIDE DEF a, b
      <3>2. a \div b \in Int
        BY <3>1
      <3>3. QED BY <3>2 DEF a, b
    <2>5. QED BY <2>4, <1>3 DEF rrf_share
  <1>4. QED BY <1>2, <1>3

LEMMA CombineHits ==
    ASSUME NEW vector \in VectorLists, NEW keyword \in KeywordLists,
           NEW k \in Nat \ {0}, NEW v \in Nat, NEW w \in Nat
    PROVE  combine(vector, keyword, k, v, w) \subseteq Hit
  <1> SUFFICES ASSUME NEW h \in hits(vector) \cup hits(keyword)
               PROVE  [chunk |-> h.chunk, store |-> h.store,
                       score |-> rrf_share(vector, h, k, v)
                                 + rrf_share(keyword, h, k, w)] \in Hit
    BY DEF combine
  <1>1. h \in Hit
    BY HitsOfLists
  <1>2. /\ rrf_share(vector, h, k, v) \in Int
        /\ rrf_share(keyword, h, k, w) \in Int
    BY ShareIsInt
  <1>3. QED BY <1>1, <1>2 DEF Hit

LEMMA CutIsPart ==
    ASSUME NEW H, NEW n, NEW T \in cut(H, n)
    PROVE  T \subseteq H
  BY DEF cut, Leading

LEMMA SelectIsPart ==
    ASSUME NEW H, NEW n, NEW T \in select(H, n)
    PROVE  T \subseteq H
  BY DEF select

LEMMA RescoredHits ==
    ASSUME NEW H \in SUBSET Hit, NEW scoring \in [H -> RerankScores]
    PROVE  Rescored(H, scoring) \subseteq Hit
  <1> SUFFICES ASSUME NEW h \in H
               PROVE  [chunk |-> h.chunk, store |-> h.store, score |-> scoring[h]] \in Hit
    BY DEF Rescored
  <1>1. scoring[h] \in Int
    BY PipelineAssumption
  <1>2. h.chunk \in Chunk /\ h.store \in Store
    BY DEF Hit
  <1>3. QED BY <1>1, <1>2 DEF Hit

LEMMA RerankedHits ==
    ASSUME NEW r, NEW H \in SUBSET Hit, NEW T \in Reranked(r, H)
    PROVE  T \subseteq Hit
  <1>1. PICK C \in cut(H, 4 * r.top_k) :
          T \in {C} \cup UNION {cut(Rescored(C, scoring), r.top_k) :
                                  scoring \in [C -> RerankScores]}
    BY DEF Reranked
  <1>2. C \in SUBSET Hit
    BY CutIsPart
  <1>3. CASE T = C
    BY <1>2, <1>3
  <1>4. CASE T # C
    <2>1. PICK scoring \in [C -> RerankScores] : T \in cut(Rescored(C, scoring), r.top_k)
      BY <1>1, <1>4
    <2>2. T \subseteq Rescored(C, scoring)
      BY <2>1, CutIsPart
    <2>3. QED BY <2>2, <1>2, RescoredHits
  <1>5. QED BY <1>3, <1>4

LEMMA SelectedHits ==
    ASSUME NEW r, NEW H \in SUBSET Hit, NEW T \in Selections(r, H)
    PROVE  T \subseteq Hit
  <1> DEFINE unique == deduplicate(H)
             scoped == IF r.scope THEN select(unique, r.top_n) ELSE {unique}
  <1>1. unique \subseteq Hit
    BY DEF deduplicate
  <1>2. \A S \in scoped : S \in SUBSET Hit
    <2> HIDE DEF unique
    <2>1. QED BY <1>1, SelectIsPart
  <1>3. CASE r.reranking
    <2>1. PICK S \in scoped : T \in Reranked(r, S)
      BY <1>3 DEF Selections
    <2>2. QED BY <2>1, <1>2, RerankedHits
  <1>4. CASE ~ r.reranking
    BY <1>2, <1>4 DEF Selections
  <1>5. QED BY <1>3, <1>4

(***************************************************************************)
(* Types                                                                   *)
(***************************************************************************)

\* A search that waits for a store has a query left to search, and one that
\* has not been screened has its question.
QueriesLeft ==
    \A s \in Searches :
        stage[s] \in {"screen", "retrieve", "expand", "fallback", "variants"}
        => pending[s] > 0

Typed == TypeOK /\ QueriesLeft

LEMMA InitTyped == Init => Typed
  <1> SUFFICES ASSUME Init PROVE Typed
    OBVIOUS
  <1>1. \A s \in Searches : first_stage(request[s]) \in Stage
    BY DEF first_stage, after_screen, after_rewrite, after_hyde, Stage
  <1>2. TypeOK
    BY <1>1 DEF Init, TypeOK, Answer
  <1>3. QueriesLeft
    BY DEF Init, QueriesLeft
  <1>4. QED BY <1>2, <1>3 DEF Typed

LEMMA CollectTyped ==
    ASSUME Typed, NEW s \in Searches, NEW H \in SUBSET Hit, Collect(s, H), pending[s] > 0
    PROVE  Typed'
  <1>1. pending[s] \in Nat /\ pending[s] - 1 \in Nat
    BY DEF Typed, TypeOK
  <1>2. TypeOK'
    BY <1>1 DEF Collect, Goto, Typed, TypeOK, Stage, outcome, judgement
  <1>3. QueriesLeft'
    BY <1>1 DEF Collect, Goto, Typed, TypeOK, QueriesLeft
  <1>4. QED BY <1>2, <1>3 DEF Typed

LEMMA AnsweredTyped ==
    ASSUME Typed, NEW s \in Searches, NEW kind \in Answer, Answered(s, kind),
           UNCHANGED <<request, retrieval, outcome>>, Prompt(s)
    PROVE  Typed'
  <1>1. request[s].threshold \in Int
    BY RequestFields DEF Typed, TypeOK
  <1>2. threshold' \in Int /\ disturbed' \in [Searches -> BOOLEAN]
    BY <1>1 DEF Answered, Typed, TypeOK
  <1>3. TypeOK'
    BY <1>2 DEF Answered, Goto, after_answer, Prompt, Typed, TypeOK, Stage, retrieval, outcome
  <1>4. QueriesLeft'
    BY DEF Answered, Goto, after_answer, Typed, TypeOK, QueriesLeft, retrieval
  <1>5. QED BY <1>3, <1>4 DEF Typed

\* The steps that change little but the stage and the answer.
LEMMA QuietTyped ==
    ASSUME Typed, NEW s \in Searches, NEW g \in Stage,
           stage' = [stage EXCEPT ![s] = g],
           g \notin {"screen", "retrieve", "expand", "fallback", "variants"} \/ pending[s] > 0,
           answer' = answer \/ \E a \in Answer : answer' = [answer EXCEPT ![s] = a],
           Prompt(s) \/ disclosed' = disclosed,
           UNCHANGED <<request, retrieval, outcome, judgement>>
    PROVE  Typed'
  <1>1. TypeOK'
    BY DEF Prompt, Typed, TypeOK, retrieval, outcome, judgement
  <1>2. QueriesLeft'
    BY DEF Typed, TypeOK, QueriesLeft, retrieval
  <1>3. QED BY <1>1, <1>2 DEF Typed


LEMMA ScreenTyped ==
    ASSUME Typed, NEW s \in Searches, Screen(s)
    PROVE  Typed'
  <1>1. pending[s] > 0
    BY DEF Screen, Typed, QueriesLeft
  <1>2. CASE Goto(s, after_screen(request[s])) /\ UNCHANGED answer
    <2>1. after_screen(request[s]) \in Stage
      BY DEF after_screen, after_rewrite, after_hyde, Stage
    <2>2. QED
      BY <1>1, <1>2, <2>1, QuietTyped DEF Screen, Goto, retrieval, outcome, judgement
  <1>3. ASSUME NEW kind \in {"refused", "error"}, Raise(s, kind)
        PROVE  Typed'
    BY <1>1, <1>3, QuietTyped DEF Screen, Raise, Goto, Stage, Answer, retrieval, outcome, judgement
  <1>4. QED BY <1>2, <1>3 DEF Screen

LEMMA MultiQueryTyped ==
    ASSUME Typed, NEW s \in Searches, MultiQuery(s)
    PROVE  Typed'
  <1>1. request[s].multi_query_count \in Nat
    BY RequestFields DEF Typed, TypeOK
  <1> DEFINE count == request[s].multi_query_count
  <1>a. (IF count = 0 THEN {0} ELSE 1..count) \subseteq Nat
    <2> HIDE DEF count
    <2>1. count \in Nat
      BY <1>1 DEF count
    <2>2. QED BY <2>1
  <1>2. PICK queries \in Nat :
          /\ pending' = [pending EXCEPT ![s] = queries]
          /\ Goto(s, after_rewrite(request[s], queries))
    BY <1>a DEF MultiQuery
  <1>3. after_rewrite(request[s], queries) \in Stage
    BY DEF after_rewrite, after_hyde, Stage
  <1>4. TypeOK'
    BY <1>2, <1>3 DEF MultiQuery, Goto, Typed, TypeOK, outcome, judgement
  <1>5. QueriesLeft'
    BY <1>2 DEF Goto, after_rewrite, after_hyde, Typed, TypeOK, QueriesLeft
  <1>6. QED BY <1>4, <1>5 DEF Typed

LEMMA HydeTyped ==
    ASSUME Typed, NEW s \in Searches, Hyde(s)
    PROVE  Typed'
  <1>1. TypeOK'
    BY DEF Hyde, Goto, after_hyde, Stage, Typed, TypeOK, retrieval, outcome, judgement
  <1>2. QueriesLeft'
    BY DEF Hyde, Goto, after_hyde, Typed, TypeOK, QueriesLeft, retrieval
  <1>3. QED BY <1>1, <1>2 DEF Typed

LEMMA RetrievalTyped ==
    ASSUME Typed, NEW s \in Searches,
           \/ SearchSingle(s) \/ CascadeKeyword(s) \/ CascadeExpanded(s)
           \/ CascadeFallback(s) \/ SearchVariant(s) \/ SearchFails(s)
    PROVE  Typed'
  <1>1. pending[s] > 0 /\ request[s] \in Requests
    BY DEF SearchSingle, CascadeKeyword, CascadeExpanded, CascadeFallback,
           SearchVariant, SearchFails, Typed, TypeOK, QueriesLeft
  <1>2. ASSUME NEW v \in VectorLists, NEW k \in KeywordLists
        PROVE  /\ Fused(request[s], v, k) \subseteq Hit
               /\ combine(v, k, request[s].rrf_constant,
                          request[s].fallback_vector_weight,
                          request[s].fallback_keyword_weight) \subseteq Hit
    BY <1>1, RequestFields, CombineHits DEF Fused
  <1>3. CASE SearchSingle(s)
    <2>1. PICK H \in SUBSET Hit : Collect(s, H)
      BY <1>2, <1>3, HitsOfLists DEF SearchSingle
    <2>2. QED BY <1>1, <2>1, CollectTyped
  <1>4. CASE CascadeKeyword(s)
    <2>1. CASE \E H \in SUBSET Hit : Collect(s, H)
      BY <1>1, <2>1, CollectTyped
    <2>2. CASE ~ \E H \in SUBSET Hit : Collect(s, H)
      <3>1. /\ Goto(s, IF request[s].expansion THEN "expand" ELSE "fallback")
            /\ UNCHANGED <<request, retrieval, outcome, disclosed, answer, judgement>>
        BY <1>4, <2>2, HitsOfLists DEF CascadeKeyword
      <3>2. QED
        BY <1>1, <3>1, QuietTyped DEF Goto, Stage, retrieval, outcome, judgement
    <2>3. QED BY <2>1, <2>2
  <1>5. CASE CascadeExpanded(s)
    <2>1. CASE \E H \in SUBSET Hit : Collect(s, H)
      BY <1>1, <2>1, CollectTyped
    <2>2. CASE ~ \E H \in SUBSET Hit : Collect(s, H)
      <3>1. /\ Goto(s, "fallback")
            /\ UNCHANGED <<request, retrieval, outcome, disclosed, answer, judgement>>
        BY <1>5, <2>2, HitsOfLists DEF CascadeExpanded
      <3>2. QED
        BY <1>1, <3>1, QuietTyped DEF Goto, Stage, retrieval, outcome, judgement
    <2>3. QED BY <2>1, <2>2
  <1>6. CASE CascadeFallback(s)
    <2>1. PICK H \in SUBSET Hit : Collect(s, H)
      BY <1>2, <1>6 DEF CascadeFallback
    <2>2. QED BY <1>1, <2>1, CollectTyped
  <1>7. CASE SearchVariant(s)
    <2>1. PICK H \in SUBSET Hit : Collect(s, H)
      BY <1>2, <1>7 DEF SearchVariant
    <2>2. QED BY <1>1, <2>1, CollectTyped
  <1>8. CASE SearchFails(s)
    BY <1>1, <1>8, QuietTyped DEF SearchFails, Raise, Goto, Stage, Answer, retrieval, outcome, judgement
  <1>9. QED BY <1>3, <1>4, <1>5, <1>6, <1>7, <1>8

\* What Select does, with its choice named.
Chooses(s, H) ==
    LET verdict == Judged(request[s], H)
    IN  /\ H \in Selections(request[s], found[s])
        /\ stage[s] = "select"
        /\ documents' = [documents EXCEPT ![s] = H]
        /\ gate' = [gate EXCEPT ![s] = verdict]
        /\ masked' = [masked EXCEPT ![s] =
                        IF request[s].pii /\ verdict # "failed"
                        THEN passages(H) \cap Personal ELSE {}]
        /\ answer' = [answer EXCEPT ![s] =
                        IF verdict = "failed" THEN "not_found" ELSE "none"]
        /\ Goto(s, answer_stage(request[s], verdict))
        /\ found' = [found EXCEPT ![s] = {}]
        /\ pending' = [pending EXCEPT ![s] = 0]
        /\ UNCHANGED <<request, disclosed, judgement>>

LEMMA SelectChooses ==
    ASSUME NEW s \in Searches, Select(s)
    PROVE  \E H : Chooses(s, H)
  BY DEF Select, Chooses

LEMMA SelectTyped ==
    ASSUME Typed, NEW s \in Searches, Select(s)
    PROVE  Typed'
  <1>1. PICK H : Chooses(s, H)
    BY SelectChooses
  <1>2. H \in SUBSET Hit
    BY <1>1, SelectedHits DEF Chooses, Typed, TypeOK
  <1> DEFINE verdict == Judged(request[s], H)
  <1>3. verdict \in {"off", "passed", "soft", "failed"}
    BY DEF Judged, evaluate
  <1>4. /\ answer_stage(request[s], verdict) \in Stage
        /\ answer_stage(request[s], verdict)
             \notin {"screen", "retrieve", "expand", "fallback", "variants"}
    BY DEF answer_stage, Stage
  <1> HIDE DEF verdict
  <1>5. /\ documents' \in [Searches -> SUBSET Hit]
        /\ gate' \in [Searches -> {"off", "passed", "soft", "failed"}]
        /\ masked' \in [Searches -> SUBSET Personal]
        /\ answer' \in [Searches -> Answer]
        /\ stage' \in [Searches -> Stage]
    BY <1>1, <1>2, <1>3, <1>4 DEF Chooses, verdict, Goto, Answer, Typed, TypeOK
  <1>6. found' \in [Searches -> SUBSET Hit] /\ pending' \in [Searches -> Nat]
    BY <1>1 DEF Chooses, Typed, TypeOK
  <1>7. UNCHANGED <<request, disclosed, notes, score, threshold, disturbed>>
    BY <1>1 DEF Chooses, judgement
  <1>8. TypeOK'
    BY <1>5, <1>6, <1>7 DEF Typed, TypeOK
  <1>9. QueriesLeft'
    BY <1>1, <1>4 DEF Chooses, verdict, Goto, Typed, TypeOK, QueriesLeft
  <1>10. QED BY <1>8, <1>9 DEF Typed

LEMMA AnswerTyped ==
    ASSUME Typed, NEW s \in Searches, Evidence(s) \/ Extract(s) \/ Generate(s)
    PROVE  Typed'
  <1>1. Prompt(s) /\ UNCHANGED <<request, retrieval, outcome>>
    BY DEF Evidence, Extract, Generate
  <1>2. CASE \E kind \in {"evidence", "extracted", "generated"} : Answered(s, kind)
    BY <1>1, <1>2, AnsweredTyped DEF Answer
  <1>3. CASE ~ \E kind \in {"evidence", "extracted", "generated"} : Answered(s, kind)
    <2>1. /\ UNCHANGED judgement
          /\ \E g \in {"done", "generate"} : stage' = [stage EXCEPT ![s] = g]
          /\ \/ answer' = answer
             \/ \E a \in Answer : answer' = [answer EXCEPT ![s] = a]
      BY <1>3 DEF Evidence, Extract, Generate, Goto, Raise, Answer
    <2>2. QED BY <1>1, <2>1, QuietTyped DEF Stage
  <1>4. QED BY <1>2, <1>3

LEMMA JudgementTyped ==
    ASSUME Typed, NEW s \in Searches, Judge(s) \/ Check(s) \/ JudgementFails(s)
    PROVE  Typed'
  <1>1. CASE Judge(s)
    <2>1. PICK x \in FaithScores :
            /\ score' = [score EXCEPT ![s] = x]
            /\ answer' = [answer EXCEPT ![s] =
                            IF x < threshold /\ request[s].action = "block"
                            THEN "blocked" ELSE @]
            /\ notes' = [notes EXCEPT ![s] =
                           IF x < threshold /\ request[s].action # "block"
                           THEN @ \cup {"unfaithful"} ELSE @]
      BY <1>1 DEF Judge
    <2>2. TypeOK'
      BY <1>1, <2>1 DEF Judge, Goto, after_judge, Stage, Answer, Typed, TypeOK, retrieval, outcome
    <2>3. QueriesLeft'
      BY <1>1 DEF Judge, Goto, after_judge, Typed, TypeOK, QueriesLeft, retrieval
    <2>4. QED BY <2>2, <2>3 DEF Typed
  <1>2. CASE Check(s)
    <2>1. PICK warning \in SUBSET {"hallucination"} :
            notes' = [notes EXCEPT ![s] = @ \cup warning]
      BY <1>2 DEF Check
    <2>2. TypeOK'
      BY <1>2, <2>1 DEF Check, Goto, Stage, Typed, TypeOK, retrieval, outcome
    <2>3. QueriesLeft'
      BY <1>2 DEF Check, Goto, Typed, TypeOK, QueriesLeft, retrieval
    <2>4. QED BY <2>2, <2>3 DEF Typed
  <1>3. CASE JudgementFails(s)
    BY <1>3, QuietTyped
       DEF JudgementFails, Raise, Goto, Stage, Answer, retrieval, outcome, judgement
  <1>4. QED BY <1>1, <1>2, <1>3

LEMMA NextTyped == Typed /\ [Next]_vars => Typed'
  <1> SUFFICES ASSUME Typed, [Next]_vars PROVE Typed'
    OBVIOUS
  <1>1. ASSUME NEW s \in Searches, Step(s)
        PROVE  Typed'
    BY <1>1, ScreenTyped, MultiQueryTyped, HydeTyped, RetrievalTyped, SelectTyped,
       AnswerTyped, JudgementTyped DEF Step
  <1>2. CASE UNCHANGED vars
    BY <1>2 DEF vars, retrieval, outcome, judgement, Typed, TypeOK, QueriesLeft
  <1>3. QED BY <1>1, <1>2 DEF Next

\* Every variable keeps its type, and no search goes to the stores without a
\* query: the list of queries is never cut below what is counted off it.
THEOREM TypeCorrect == Spec => []TypeOK
  <1>1. Typed => TypeOK
    BY DEF Typed
  <1>2. QED BY InitTyped, NextTyped, <1>1, PTL DEF Spec

(***************************************************************************)
(* The guardrails                                                          *)
(***************************************************************************)

Early == {"screen", "rewrite", "hyde", "retrieve", "expand", "fallback", "variants", "select"}

\* A search that has selected nothing yet has no outcome and no answer.
NothingYet ==
    \A s \in Searches : stage[s] \in Early =>
        /\ gate[s] = "off" /\ documents[s] = {} /\ disclosed[s] = {}
        /\ answer[s] = "none" /\ notes[s] = {}

\* The stages an answer is made in are reached past the gate only: a hard
\* failure reaches none, a soft one the extraction of evidence.
PastGate ==
    \A s \in Searches :
        /\ stage[s] = "evidence" => gate[s] # "failed"
        /\ stage[s] \in {"extract", "generate"} => gate[s] \notin {"soft", "failed"}
        /\ stage[s] \in {"evidence", "extract", "generate"} =>
             answer[s] = "none" /\ notes[s] = {}

\* A search that is being judged has an answer, and its own threshold unless
\* it was disturbed.
BeingJudged ==
    \A s \in Searches : stage[s] = "judge" =>
        /\ request[s].faithfulness
        /\ answer[s] \in {"evidence", "extracted", "generated"} /\ notes[s] = {}
        /\ ~ disturbed[s] => threshold = request[s].threshold

IInv ==
    /\ Typed /\ NothingYet /\ PastGate /\ BeingJudged
    /\ MaskedUnlessGated /\ GateHoldsBack /\ UnfaithfulIsHandled

Guarded ==
    /\ NothingYet /\ PastGate /\ BeingJudged
    /\ MaskedUnlessGated /\ GateHoldsBack /\ UnfaithfulIsHandled

LEMMA InitIInv == Init => IInv
  <1> SUFFICES ASSUME Init PROVE Guarded
    BY InitTyped DEF IInv, Guarded
  <1>1. \A s \in Searches : stage[s] \in Early
    BY DEF Init, first_stage, after_screen, after_rewrite, after_hyde, Early
  <1>2. \A s \in Searches :
          /\ gate[s] = "off" /\ documents[s] = {} /\ disclosed[s] = {}
          /\ answer[s] = "none" /\ notes[s] = {}
    BY DEF Init
  <1>3. NothingYet /\ PastGate /\ BeingJudged
    BY <1>1, <1>2 DEF NothingYet, PastGate, BeingJudged, Early
  <1>4. MaskedUnlessGated
    BY <1>2 DEF MaskedUnlessGated, passages
  <1>5. GateHoldsBack /\ UnfaithfulIsHandled
    BY <1>1, <1>2 DEF GateHoldsBack, UnfaithfulIsHandled, Early
  <1>6. QED BY <1>3, <1>4, <1>5 DEF Guarded

\* Before the selection: the search stays there, or it ends with an exception.
LEMMA EarlyGuarded ==
    ASSUME IInv, NEW s \in Searches, stage[s] \in Early,
           UNCHANGED <<request, outcome, disclosed, judgement>>,
           \/ /\ \E g \in Early : Goto(s, g)
              /\ answer' = answer
           \/ Raise(s, "error") \/ Raise(s, "refused")
    PROVE  Guarded'
  <1>1. NothingYet' /\ PastGate' /\ BeingJudged'
    BY DEF IInv, Typed, TypeOK, NothingYet, PastGate, BeingJudged, Early,
           Goto, Raise, outcome, judgement
  <1>2. MaskedUnlessGated'
    BY DEF IInv, MaskedUnlessGated, outcome
  <1>3. GateHoldsBack'
    BY DEF IInv, Typed, TypeOK, NothingYet, GateHoldsBack, Goto, Raise, outcome
  <1>4. UnfaithfulIsHandled'
    BY DEF IInv, Typed, TypeOK, UnfaithfulIsHandled, Early, Goto, Raise, judgement
  <1>5. QED BY <1>1, <1>2, <1>3, <1>4 DEF Guarded

LEMMA PrepareGuarded ==
    ASSUME IInv, NEW s \in Searches,
           \/ Screen(s) \/ MultiQuery(s) \/ Hyde(s) \/ SearchSingle(s) \/ CascadeKeyword(s)
           \/ CascadeExpanded(s) \/ CascadeFallback(s) \/ SearchVariant(s) \/ SearchFails(s)
    PROVE  Guarded'
  <1>1. CASE Screen(s)
    BY <1>1, EarlyGuarded DEF Screen, after_screen, after_rewrite, after_hyde, Early
  <1>2. CASE MultiQuery(s)
    BY <1>2, EarlyGuarded DEF MultiQuery, after_rewrite, after_hyde, Early
  <1>3. CASE Hyde(s)
    BY <1>3, EarlyGuarded DEF Hyde, after_hyde, Early
  <1>4. CASE SearchFails(s)
    BY <1>4, EarlyGuarded DEF SearchFails, Early
  <1>5. ASSUME stage[s] \in Early, NEW H, Collect(s, H)
        PROVE  Guarded'
    BY <1>5, EarlyGuarded DEF Collect, Early
  <1>6. CASE SearchSingle(s)
    BY <1>5, <1>6 DEF SearchSingle, Early
  <1>7. CASE CascadeKeyword(s)
    BY <1>5, <1>7, EarlyGuarded DEF CascadeKeyword, Early
  <1>8. CASE CascadeExpanded(s)
    BY <1>5, <1>8, EarlyGuarded DEF CascadeExpanded, Early
  <1>9. CASE CascadeFallback(s) \/ SearchVariant(s)
    BY <1>5, <1>9 DEF CascadeFallback, SearchVariant, Early
  <1>10. QED BY <1>1, <1>2, <1>3, <1>4, <1>6, <1>7, <1>8, <1>9

LEMMA SelectGuarded ==
    ASSUME IInv, NEW s \in Searches, Select(s)
    PROVE  Guarded'
  <1>1. PICK H : Chooses(s, H)
    BY SelectChooses
  <1> DEFINE verdict == Judged(request[s], H)
             next == answer_stage(request[s], verdict)
  <1>2. /\ next \in {"done", "evidence", "extract", "generate"}
        /\ verdict = "failed" => next = "done"
        /\ verdict = "soft" => next \in {"done", "evidence"}
    BY DEF answer_stage
  <1>3. /\ stage' = [stage EXCEPT ![s] = next]
        /\ documents' = [documents EXCEPT ![s] = H]
        /\ gate' = [gate EXCEPT ![s] = verdict]
        /\ masked' = [masked EXCEPT ![s] =
                        IF request[s].pii /\ verdict # "failed"
                        THEN passages(H) \cap Personal ELSE {}]
        /\ answer' = [answer EXCEPT ![s] =
                        IF verdict = "failed" THEN "not_found" ELSE "none"]
        /\ UNCHANGED <<request, disclosed, notes, score, threshold, disturbed>>
    BY <1>1 DEF Chooses, Goto, judgement
  <1>4. /\ stage[s] = "select"
        /\ gate[s] = "off" /\ disclosed[s] = {} /\ notes[s] = {}
    BY <1>1 DEF Chooses, IInv, NothingYet, Early
  <1> HIDE DEF verdict, next
  <1>5. NothingYet' /\ PastGate' /\ BeingJudged'
    BY <1>2, <1>3, <1>4 DEF IInv, Typed, TypeOK, NothingYet, PastGate, BeingJudged, Early
  <1>6. MaskedUnlessGated'
    BY <1>3, <1>4 DEF IInv, Typed, TypeOK, MaskedUnlessGated
  <1>7. GateHoldsBack'
    BY <1>3 DEF IInv, Typed, TypeOK, GateHoldsBack
  <1>8. UnfaithfulIsHandled'
    BY <1>2, <1>3 DEF IInv, Typed, TypeOK, UnfaithfulIsHandled
  <1>9. QED BY <1>5, <1>6, <1>7, <1>8 DEF Guarded

\* What a model is given is masked.
LEMMA PromptIsMasked ==
    ASSUME IInv, NEW s \in Searches, gate[s] # "failed", Prompt(s),
           UNCHANGED <<request, outcome>>
    PROVE  MaskedUnlessGated'
  BY DEF IInv, Typed, TypeOK, MaskedUnlessGated, Prompt, outcome

LEMMA AnsweredGuarded ==
    ASSUME IInv, NEW s \in Searches, NEW kind \in {"evidence", "extracted", "generated"},
           stage[s] \in {"evidence", "extract", "generate"},
           gate[s] = "soft" => kind = "evidence", gate[s] # "failed",
           Answered(s, kind), Prompt(s), UNCHANGED <<request, outcome>>
    PROVE  Guarded'
  <1>1. after_answer(request[s]) \in {"judge", "check", "done"}
    BY DEF after_answer
  <1>2. request[s].faithfulness <=> after_answer(request[s]) = "judge"
    BY DEF after_answer
  <1>3. NothingYet' /\ PastGate'
    BY <1>1 DEF IInv, Typed, TypeOK, NothingYet, PastGate, Early, Answered, Goto, Prompt, outcome
  <1>4. BeingJudged'
    <2> SUFFICES ASSUME NEW t \in Searches, stage'[t] = "judge"
                 PROVE  /\ request[t].faithfulness
                        /\ answer'[t] \in {"evidence", "extracted", "generated"}
                        /\ notes'[t] = {}
                        /\ ~ disturbed'[t] => threshold' = request[t].threshold
      BY DEF BeingJudged
    <2>1. CASE t = s
      BY <2>1, <1>2 DEF IInv, Typed, TypeOK, PastGate, Answered, Goto
    <2>2. CASE t # s
      <3>1. stage[t] = "judge" /\ answer'[t] = answer[t] /\ notes' = notes
        BY <2>2 DEF IInv, Typed, TypeOK, Answered, Goto
      <3>2. ~ disturbed'[t] => threshold' = request[t].threshold
        BY <2>2, <3>1 DEF IInv, Typed, TypeOK, BeingJudged, Answered
      <3>3. QED BY <3>1, <3>2 DEF IInv, BeingJudged
    <2>3. QED BY <2>1, <2>2
  <1>5. MaskedUnlessGated'
    BY PromptIsMasked
  <1>6. GateHoldsBack'
    BY DEF IInv, Typed, TypeOK, GateHoldsBack, Answered, outcome
  <1>7. UnfaithfulIsHandled'
    BY <1>1, <1>2 DEF IInv, Typed, TypeOK, UnfaithfulIsHandled, Answered, Goto
  <1>8. QED BY <1>3, <1>4, <1>5, <1>6, <1>7 DEF Guarded

\* No answer: another way is tried, or the search ends.
LEMMA UnansweredGuarded ==
    ASSUME IInv, NEW s \in Searches, stage[s] \in {"evidence", "extract", "generate"},
           gate[s] # "failed", Prompt(s), UNCHANGED <<request, outcome, judgement>>,
           \/ Goto(s, "generate") /\ gate[s] # "soft" /\ answer' = answer
           \/ \E a \in {"not_found", "error"} :
                Goto(s, "done") /\ answer' = [answer EXCEPT ![s] = a]
    PROVE  Guarded'
  <1>1. NothingYet' /\ PastGate' /\ BeingJudged'
    BY DEF IInv, Typed, TypeOK, NothingYet, PastGate, BeingJudged, Early, Goto, Prompt,
           outcome, judgement
  <1>2. MaskedUnlessGated'
    BY PromptIsMasked
  <1>3. GateHoldsBack'
    BY DEF IInv, Typed, TypeOK, GateHoldsBack, outcome
  <1>4. UnfaithfulIsHandled'
    BY DEF IInv, Typed, TypeOK, UnfaithfulIsHandled, Goto, judgement
  <1>5. QED BY <1>1, <1>2, <1>3, <1>4 DEF Guarded

LEMMA AnswerGuarded ==
    ASSUME IInv, NEW s \in Searches, Evidence(s) \/ Extract(s) \/ Generate(s)
    PROVE  Guarded'
  <1>1. /\ stage[s] \in {"evidence", "extract", "generate"} /\ Prompt(s)
        /\ UNCHANGED <<request, outcome>>
    BY DEF Evidence, Extract, Generate
  <1>2. /\ gate[s] # "failed"
        /\ Extract(s) \/ Generate(s) => gate[s] # "soft"
    BY DEF IInv, PastGate, Evidence, Extract, Generate
  <1>3. CASE \E kind \in {"evidence", "extracted", "generated"} :
               Answered(s, kind) /\ (gate[s] = "soft" => kind = "evidence")
    BY <1>1, <1>2, <1>3, AnsweredGuarded
  <1>4. CASE /\ UNCHANGED judgement
             /\ \/ Goto(s, "generate") /\ gate[s] # "soft" /\ answer' = answer
                \/ \E a \in {"not_found", "error"} :
                     Goto(s, "done") /\ answer' = [answer EXCEPT ![s] = a]
    BY <1>1, <1>2, <1>4, UnansweredGuarded
  <1>5. QED BY <1>2, <1>3, <1>4 DEF Evidence, Extract, Generate, Raise

LEMMA JudgementGuarded ==
    ASSUME IInv, NEW s \in Searches, Judge(s) \/ Check(s) \/ JudgementFails(s)
    PROVE  Guarded'
  <1>1. /\ stage[s] \in {"judge", "check"}
        /\ UNCHANGED <<request, documents, gate, masked, disclosed, threshold, disturbed>>
    BY DEF Judge, Check, JudgementFails, outcome, judgement
  <1>2. /\ \E g \in {"check", "done"} : stage' = [stage EXCEPT ![s] = g]
        /\ \/ answer' = answer
           \/ \E a \in {answer[s], "blocked", "error"} : answer' = [answer EXCEPT ![s] = a]
        /\ \/ notes' = notes
           \/ \E n : notes' = [notes EXCEPT ![s] = n]
    BY DEF Judge, Check, JudgementFails, Goto, Raise, after_judge, judgement
  <1>3. NothingYet' /\ PastGate' /\ BeingJudged'
    BY <1>1, <1>2 DEF IInv, Typed, TypeOK, NothingYet, PastGate, BeingJudged, Early
  <1>4. MaskedUnlessGated'
    BY <1>1 DEF IInv, MaskedUnlessGated
  <1>5. GateHoldsBack'
    BY <1>1, <1>2 DEF IInv, Typed, TypeOK, GateHoldsBack
  <1>6. UnfaithfulIsHandled'
    <2>1. CASE Judge(s)
      <3>1. PICK x \in FaithScores :
              /\ score' = [score EXCEPT ![s] = x]
              /\ answer' = [answer EXCEPT ![s] =
                              IF x < threshold /\ request[s].action = "block"
                              THEN "blocked" ELSE @]
              /\ notes' = [notes EXCEPT ![s] =
                             IF x < threshold /\ request[s].action # "block"
                             THEN @ \cup {"unfaithful"} ELSE @]
        BY <2>1 DEF Judge
      <3>2. /\ answer[s] \in {"evidence", "extracted", "generated"} /\ notes[s] = {}
            /\ ~ disturbed[s] => threshold = request[s].threshold
        BY <2>1 DEF Judge, IInv, BeingJudged
      <3> SUFFICES ASSUME NEW t \in Searches,
                          request[t].faithfulness, ~ disturbed[t],
                          stage'[t] = "check" \/ stage'[t] = "done",
                          answer'[t] \in {"evidence", "extracted", "generated", "blocked"}
                   PROVE  (score'[t] < request[t].threshold)
                             <=> (answer'[t] = "blocked" \/ "unfaithful" \in notes'[t])
        BY <1>1 DEF UnfaithfulIsHandled
      <3>3. CASE t = s
        BY <3>1, <3>2, <3>3 DEF IInv, Typed, TypeOK
      <3>4. CASE t # s
        BY <1>2, <3>1, <3>4 DEF IInv, Typed, TypeOK, UnfaithfulIsHandled
      <3>5. QED BY <3>3, <3>4
    <2>2. CASE Check(s)
      <3>1. PICK warning \in SUBSET {"hallucination"} :
              notes' = [notes EXCEPT ![s] = @ \cup warning]
        BY <2>2 DEF Check
      <3>2. stage[s] = "check" /\ stage' = [stage EXCEPT ![s] = "done"]
        BY <2>2 DEF Check, Goto
      <3>3. UNCHANGED <<answer, score>>
        BY <2>2 DEF Check
      <3>4. \A t \in Searches : "unfaithful" \in notes'[t] <=> "unfaithful" \in notes[t]
        BY <3>1 DEF IInv, Typed, TypeOK
      <3>5. QED BY <1>1, <3>2, <3>3, <3>4 DEF IInv, Typed, TypeOK, UnfaithfulIsHandled
    <2>3. CASE JudgementFails(s)
      BY <2>3 DEF JudgementFails, Raise, Goto, judgement, IInv, Typed, TypeOK, UnfaithfulIsHandled
    <2>4. QED BY <2>1, <2>2, <2>3
  <1>7. QED BY <1>3, <1>4, <1>5, <1>6 DEF Guarded

LEMMA NextIInv == IInv /\ [Next]_vars => IInv'
  <1> SUFFICES ASSUME IInv, [Next]_vars PROVE IInv'
    OBVIOUS
  <1>1. Typed'
    BY NextTyped DEF IInv
  <1>2. ASSUME NEW s \in Searches, Step(s)
        PROVE  Guarded'
    BY <1>2, PrepareGuarded, SelectGuarded, AnswerGuarded, JudgementGuarded DEF Step
  <1>3. CASE UNCHANGED vars
    <2>1. UNCHANGED <<request, stage, documents, gate, masked, disclosed, answer,
                      notes, score, threshold, disturbed>>
      BY <1>3 DEF vars, outcome, judgement
    <2>2. NothingYet' /\ PastGate' /\ BeingJudged'
      BY <2>1 DEF IInv, NothingYet, PastGate, BeingJudged
    <2>3. MaskedUnlessGated' /\ GateHoldsBack'
      BY <2>1 DEF IInv, MaskedUnlessGated, GateHoldsBack
    <2>4. UnfaithfulIsHandled'
      BY <2>1 DEF IInv, UnfaithfulIsHandled
    <2>5. QED BY <1>1, <2>2, <2>3, <2>4 DEF IInv
  <1>4. QED BY <1>1, <1>2, <1>3 DEF Next, IInv, Guarded

\* Personal data is masked in everything a model is given and in everything
\* that is returned past the gate, for any mix of stages and failures.
THEOREM MaskingIsInTime == Spec => []MaskedUnlessGated
  <1>1. IInv => MaskedUnlessGated
    BY DEF IInv
  <1>2. QED BY InitIInv, NextIInv, <1>1, PTL DEF Spec

\* Nothing is generated behind the back of the retrieval gate.
THEOREM GateIsObeyed == Spec => []GateHoldsBack
  <1>1. IInv => GateHoldsBack
    BY DEF IInv
  <1>2. QED BY InitIInv, NextIInv, <1>1, PTL DEF Spec

\* A verdict on faithfulness follows the threshold of its search as long as no
\* other search sets another one while the judge is asked.
THEOREM VerdictsAreOwn == Spec => []UnfaithfulIsHandled
  <1>1. IInv => UnfaithfulIsHandled
    BY DEF IInv
  <1>2. QED BY InitIInv, NextIInv, <1>1, PTL DEF Spec

(***************************************************************************)
(* Finite lists and their best score                                       *)
(***************************************************************************)

LEMMA ListHitsAreFinite ==
    ASSUME NEW l, l \in VectorLists \/ l \in KeywordLists
    PROVE  IsFiniteSet(hits(l))
  <1>1. l \in Seq(Hit)
    BY PipelineAssumption DEF List
  <1>2. l \in Surjection(1..Len(l), hits(l))
    BY <1>1 DEF Surjection, hits
  <1>3. IsFiniteSet(1..Len(l))
    BY <1>1, FS_Interval
  <1>4. QED BY <1>2, <1>3, FS_Surjection

LEMMA CombineIsFinite ==
    ASSUME NEW vector \in VectorLists, NEW keyword \in KeywordLists, NEW k, NEW v, NEW w
    PROVE  IsFiniteSet(combine(vector, keyword, k, v, w))
  <1> DEFINE both == hits(vector) \cup hits(keyword)
             fuse == [h \in both |-> [chunk |-> h.chunk, store |-> h.store,
                                      score |-> rrf_share(vector, h, k, v)
                                                + rrf_share(keyword, h, k, w)]]
  <1>1. IsFiniteSet(both)
    BY ListHitsAreFinite, FS_Union
  <1>2. fuse \in Surjection(both, combine(vector, keyword, k, v, w))
    BY DEF Surjection, combine
  <1>3. QED BY <1>1, <1>2, FS_Surjection

LEMMA DocumentsAreFinite ==
    ASSUME NEW H, IsFiniteSet(H)
    PROVE  IsFiniteSet(documents_of(H))
  <1> DEFINE of == [h \in H |-> document_of[h.chunk]]
  <1>1. of \in Surjection(H, documents_of(H))
    BY DEF Surjection, documents_of, passages
  <1>2. QED BY <1>1, FS_Surjection

LEMMA RescoredIsFinite ==
    ASSUME NEW H, IsFiniteSet(H), NEW scoring
    PROVE  IsFiniteSet(Rescored(H, scoring))
  <1> DEFINE again == [h \in H |-> [chunk |-> h.chunk, store |-> h.store,
                                    score |-> scoring[h]]]
  <1>1. again \in Surjection(H, Rescored(H, scoring))
    BY DEF Surjection, Rescored
  <1>2. QED BY <1>1, FS_Surjection

\* A finite set of numbers has a greatest one: it is what has the fewest above it.
LEMMA GreatestExists ==
    ASSUME NEW S \in SUBSET Int, S # {}, IsFiniteSet(S)
    PROVE  \E m \in S : \A x \in S : x <= m
  <1> DEFINE up(x) == {y \in S : y > x}
             U == {up(x) : x \in S}
             R == StrictSubsetOrdering(S)
  <1>1. IsWellFoundedOn(R, SUBSET S)
    BY FS_StrictSubsetOrderingWellFounded, FS_FiniteSubsetsOfFinite
  <1>2. U \subseteq SUBSET S /\ U # {}
    OBVIOUS
  <1>3. \E u \in U : \A v \in U : <<v, u>> \notin R
    <2> HIDE DEF U, R
    <2>1. QED BY <1>1, <1>2, WFMin
  <1>4. PICK m \in S : \A v \in U : <<v, up(m)>> \notin R
    BY <1>3
  <1>5. ASSUME NEW x \in S, x > m
        PROVE  FALSE
    <2>0. up(x) \in U
      OBVIOUS
    <2>1. up(x) \subseteq up(m) /\ x \in up(m) /\ x \notin up(x)
      <3> HIDE DEF U, R
      <3>1. m \in Int /\ x \in Int /\ \A y \in S : y \in Int
        OBVIOUS
      <3>2. \A y \in S : y > x => y > m
        BY <3>1, <1>5
      <3>3. ~ x > x
        BY <3>1
      <3>4. QED BY <3>2, <3>3, <1>5
    <2>2. <<up(x), up(m)>> \in R
      <3> HIDE DEF U
      <3>1. up(x) \in SUBSET S /\ up(m) \in SUBSET S /\ up(x) # up(m)
        BY <2>1
      <3> HIDE DEF up
      <3>2. QED BY <2>1, <3>1 DEF StrictSubsetOrdering
    <2>3. QED BY <1>4, <2>0, <2>2
  <1>6. QED BY <1>5

LEMMA TopScore ==
    ASSUME NEW H \in SUBSET Hit, H # {}, IsFiniteSet(H)
    PROVE  /\ top_score(H) \in Int
           /\ \E h \in H : h.score = top_score(H)
           /\ \A h \in H : h.score <= top_score(H)
  <1> DEFINE scores == {h.score : h \in H}
             of == [h \in H |-> h.score]
  <1>1. scores \in SUBSET Int /\ scores # {}
    BY DEF Hit
  <1>2. of \in Surjection(H, scores)
    BY DEF Surjection
  <1>3. IsFiniteSet(scores)
    <2> HIDE DEF scores, of
    <2>1. QED BY <1>2, FS_Surjection
  <1>4. PICK m \in scores : \A x \in scores : x <= m
    <2> HIDE DEF scores
    <2>1. QED BY <1>1, <1>3, GreatestExists
  <1>5. \A h \in H : h.score <= m
    BY <1>4
  <1>6. top_score(H) \in scores /\ \A h \in H : h.score <= top_score(H)
    BY <1>5 DEF top_score
  <1>7. QED BY <1>1, <1>6

\* A cut keeps something if it keeps anything, and never more than it may.
LEMMA LeadingSize ==
    ASSUME NEW S, IsFiniteSet(S), NEW n \in Nat, NEW rank, NEW T \in Leading(S, n, rank)
    PROVE  /\ T \subseteq S /\ IsFiniteSet(T)
           /\ Cardinality(T) \in Nat /\ Cardinality(T) <= n
           /\ S # {} /\ n > 0 => T # {}
  <1>1. T \subseteq S /\ IsFiniteSet(T)
    BY FS_Subset DEF Leading
  <1>2. Cardinality(S) \in Nat /\ Cardinality(T) \in Nat
    BY <1>1, FS_CardinalityType
  <1>3. Cardinality(T) = IF Cardinality(S) <= n THEN Cardinality(S) ELSE n
    BY DEF Leading
  <1>4. S # {} => Cardinality(S) # 0
    BY FS_EmptySet
  <1>5. S # {} /\ n > 0 => Cardinality(T) # 0
    BY <1>2, <1>3, <1>4
  <1>6. QED BY <1>1, <1>2, <1>3, <1>5, FS_EmptySet

(***************************************************************************)
(* What the selection returns                                              *)
(***************************************************************************)

\* No identifier twice.
Distinct(H) == \A g, h \in H : chunk_id(g) = chunk_id(h) => g = h

LEMMA DeduplicateIsDistinct ==
    ASSUME NEW H \in SUBSET Hit
    PROVE  Distinct(deduplicate(H))
  <1> SUFFICES ASSUME NEW g \in deduplicate(H), NEW h \in deduplicate(H),
                      chunk_id(g) = chunk_id(h)
               PROVE  g = h
    BY DEF Distinct
  <1>1. g \in H /\ h \in H /\ g.score <= h.score /\ h.score <= g.score
    BY DEF deduplicate
  <1>2. g \in Hit /\ h \in Hit /\ g.score = h.score
    BY <1>1 DEF Hit
  <1>3. g.chunk = h.chunk /\ g.store = h.store
    BY DEF chunk_id
  <1>4. QED BY <1>2, <1>3 DEF Hit

LEMMA RescoredIsDistinct ==
    ASSUME NEW H, Distinct(H), NEW scoring
    PROVE  Distinct(Rescored(H, scoring))
  <1> SUFFICES ASSUME NEW a \in H, NEW b \in H,
                      a.chunk = b.chunk /\ a.store = b.store
               PROVE  a = b
    BY DEF Distinct, Rescored, chunk_id
  <1>1. QED BY DEF Distinct, chunk_id

LEMMA DocumentsOfPart ==
    ASSUME NEW H, NEW T \in SUBSET H
    PROVE  documents_of(T) \subseteq documents_of(H)
  BY DEF documents_of, passages

LEMMA DocumentsOfRescored ==
    ASSUME NEW H, NEW scoring
    PROVE  documents_of(Rescored(H, scoring)) = documents_of(H)
  <1>1. \A h \in H : [chunk |-> h.chunk, store |-> h.store, score |-> scoring[h]].chunk = h.chunk
    OBVIOUS
  <1>2. passages(Rescored(H, scoring)) = passages(H)
    <2>1. ASSUME NEW h \in H
          PROVE  h.chunk \in passages(Rescored(H, scoring))
      <3>1. [chunk |-> h.chunk, store |-> h.store, score |-> scoring[h]] \in Rescored(H, scoring)
        BY DEF Rescored
      <3>2. QED BY <3>1, <1>1 DEF passages
    <2>2. ASSUME NEW g \in Rescored(H, scoring)
          PROVE  g.chunk \in passages(H)
      BY DEF passages, Rescored
    <2>3. QED BY <2>1, <2>2 DEF passages
  <1>3. QED BY <1>2 DEF documents_of

\* The scope leaves hits of at most top_n documents.
LEMMA SelectLimits ==
    ASSUME NEW H, IsFiniteSet(H), NEW n \in Nat, NEW T \in select(H, n)
    PROVE  IsFiniteSet(documents_of(T)) /\ Cardinality(documents_of(T)) <= n
  <1> DEFINE rank == [d \in documents_of(H) |-> top_score(of_document(H, d))]
  <1>1. PICK D \in Leading(documents_of(H), n, rank) :
          T = {h \in H : document_of[h.chunk] \in D}
    BY DEF select
  <1> HIDE DEF rank
  <1>2. IsFiniteSet(D) /\ Cardinality(D) \in Nat /\ Cardinality(D) <= n
    BY <1>1, DocumentsAreFinite, LeadingSize
  <1>3. documents_of(T) \subseteq D
    BY <1>1 DEF documents_of, passages
  <1>4. /\ IsFiniteSet(documents_of(T)) /\ Cardinality(documents_of(T)) <= Cardinality(D)
    BY <1>2, <1>3, FS_Subset
  <1>5. Cardinality(documents_of(T)) \in Nat
    BY <1>4, FS_CardinalityType
  <1>6. QED BY <1>2, <1>4, <1>5

\* Reranking adds no document, and either leaves four times top_k candidates
\* or has cut them to top_k.
LEMMA RerankedLimits ==
    ASSUME NEW r \in Requests, NEW H, Distinct(H), IsFiniteSet(H), NEW T \in Reranked(r, H)
    PROVE  /\ Distinct(T) /\ documents_of(T) \subseteq documents_of(H)
           /\ Cardinality(T) <= 4 * r.top_k
           /\ H # {} /\ r.top_k > 0 => T # {}
  <1>1. r.top_k \in Nat /\ 4 * r.top_k \in Nat
    BY RequestFields
  <1>2. PICK C \in cut(H, 4 * r.top_k) :
          T \in {C} \cup UNION {cut(Rescored(C, scoring), r.top_k) :
                                  scoring \in [C -> RerankScores]}
    BY DEF Reranked
  <1>3. /\ C \subseteq H /\ IsFiniteSet(C)
        /\ Cardinality(C) \in Nat /\ Cardinality(C) <= 4 * r.top_k
        /\ H # {} /\ 4 * r.top_k > 0 => C # {}
    <2>1. C \in Leading(H, 4 * r.top_k, [h \in H |-> h.score])
      BY <1>2 DEF cut
    <2>2. QED BY <1>1, <2>1, LeadingSize
  <1>4. Distinct(C) /\ documents_of(C) \subseteq documents_of(H)
    BY <1>3, DocumentsOfPart DEF Distinct
  <1>5. CASE T = C
    BY <1>1, <1>3, <1>4, <1>5
  <1>6. CASE T # C
    <2>1. PICK scoring \in [C -> RerankScores] : T \in cut(Rescored(C, scoring), r.top_k)
      BY <1>2, <1>6
    <2> DEFINE again == Rescored(C, scoring)
    <2>2. IsFiniteSet(again) /\ Distinct(again) /\ documents_of(again) = documents_of(C)
      BY <1>3, <1>4, RescoredIsFinite, RescoredIsDistinct, DocumentsOfRescored
    <2>3. C # {} => again # {}
      BY DEF Rescored
    <2> HIDE DEF again
    <2>4. /\ T \subseteq again
          /\ Cardinality(T) \in Nat /\ Cardinality(T) <= r.top_k
          /\ again # {} /\ r.top_k > 0 => T # {}
      <3>1. T \in Leading(again, r.top_k, [h \in again |-> h.score])
        BY <2>1 DEF cut, again
      <3>2. QED BY <1>1, <2>2, <3>1, LeadingSize
    <2>5. Distinct(T) /\ documents_of(T) \subseteq documents_of(H)
      BY <1>4, <2>2, <2>4, DocumentsOfPart DEF Distinct
    <2>6. Cardinality(T) <= 4 * r.top_k
      BY <1>1, <2>4
    <2>7. QED BY <1>1, <1>3, <2>3, <2>4, <2>5, <2>6
  <1>7. QED BY <1>5, <1>6

\* The first stage of a selection: duplicates and scope.
Scoped(r, H) ==
    IF r.scope THEN select(deduplicate(H), r.top_n) ELSE {deduplicate(H)}

LEMMA SelectionsAreScoped ==
    ASSUME NEW r, NEW H, NEW T \in Selections(r, H)
    PROVE  \E S \in Scoped(r, H) : IF r.reranking THEN T \in Reranked(r, S) ELSE T = S
  BY DEF Selections, Scoped

LEMMA ScopedLimits ==
    ASSUME NEW r \in Requests, NEW H \in SUBSET Hit, IsFiniteSet(H), NEW S \in Scoped(r, H)
    PROVE  /\ S \subseteq H /\ IsFiniteSet(S) /\ Distinct(S)
           /\ r.scope => /\ IsFiniteSet(documents_of(S))
                         /\ Cardinality(documents_of(S)) <= r.top_n
  <1> DEFINE unique == deduplicate(H)
  <1>1. unique \subseteq H /\ IsFiniteSet(unique) /\ Distinct(unique)
    <2>1. unique \subseteq H
      BY DEF deduplicate
    <2>2. QED BY <2>1, FS_Subset, DeduplicateIsDistinct
  <1>2. CASE r.scope
    <2>1. S \in select(unique, r.top_n)
      BY <1>2 DEF Scoped
    <2> HIDE DEF unique
    <2>2. S \subseteq unique
      BY <2>1, SelectIsPart
    <2>3. S \subseteq H /\ IsFiniteSet(S) /\ Distinct(S)
      BY <1>1, <2>2, FS_Subset DEF Distinct
    <2>4. r.top_n \in Nat
      BY RequestFields
    <2>5. IsFiniteSet(documents_of(S)) /\ Cardinality(documents_of(S)) <= r.top_n
      BY <1>1, <2>1, <2>4, SelectLimits
    <2>6. QED BY <2>3, <2>5
  <1>3. CASE ~ r.scope
    BY <1>1, <1>3 DEF Scoped
  <1>4. QED BY <1>2, <1>3

LEMMA SelectionsLimits ==
    ASSUME NEW r \in Requests, NEW H \in SUBSET Hit, IsFiniteSet(H), NEW T \in Selections(r, H)
    PROVE  /\ Distinct(T)
           /\ r.scope => Cardinality(documents_of(T)) <= r.top_n
           /\ r.reranking => Cardinality(T) <= 4 * r.top_k
  <1>1. PICK S \in Scoped(r, H) : IF r.reranking THEN T \in Reranked(r, S) ELSE T = S
    BY SelectionsAreScoped
  <1>2. /\ IsFiniteSet(S) /\ Distinct(S)
        /\ r.scope => /\ IsFiniteSet(documents_of(S))
                      /\ Cardinality(documents_of(S)) <= r.top_n
    BY ScopedLimits
  <1>3. /\ Distinct(T) /\ documents_of(T) \subseteq documents_of(S)
        /\ r.reranking => Cardinality(T) <= 4 * r.top_k
    BY <1>1, <1>2, RerankedLimits
  <1>4. ASSUME r.scope
        PROVE  Cardinality(documents_of(T)) <= r.top_n
    <2>1. /\ IsFiniteSet(documents_of(T))
          /\ Cardinality(documents_of(T)) <= Cardinality(documents_of(S))
      BY <1>2, <1>3, <1>4, FS_Subset
    <2>2. Cardinality(documents_of(T)) \in Nat /\ Cardinality(documents_of(S)) \in Nat
      BY <1>2, <1>4, <2>1, FS_CardinalityType
    <2>3. r.top_n \in Nat
      BY RequestFields
    <2>4. QED BY <1>2, <1>4, <2>1, <2>2, <2>3
  <1>5. QED BY <1>3, <1>4

\* The scope keeps a hit with the best score: its document is among those that
\* are kept, or each of them has a hit as good.
LEMMA SelectKeepsBest ==
    ASSUME NEW H \in SUBSET Hit, IsFiniteSet(H), NEW n \in Nat, n > 0,
           NEW T \in select(H, n),
           NEW m \in Int, \A h \in H : h.score <= m, NEW b \in H, b.score = m
    PROVE  \E t \in T : t.score = m
  <1> DEFINE top(d) == top_score(of_document(H, d))
             rank == [d \in documents_of(H) |-> top(d)]
  <1>1. PICK D \in Leading(documents_of(H), n, rank) :
          T = {h \in H : document_of[h.chunk] \in D}
    BY DEF select
  <1> DEFINE best == document_of[b.chunk]
  <1>2. best \in documents_of(H)
    BY DEF documents_of, passages
  <1>3. D \subseteq documents_of(H) /\ D # {}
    <2> HIDE DEF rank
    <2>1. QED BY <1>1, <1>2, DocumentsAreFinite, LeadingSize
  <1>4. ASSUME NEW d \in documents_of(H)
        PROVE  /\ top(d) \in Int
               /\ \E h \in of_document(H, d) : h.score = top(d)
               /\ \A h \in of_document(H, d) : h.score <= top(d)
    <2>1. of_document(H, d) \subseteq H /\ of_document(H, d) # {}
      BY DEF of_document, documents_of, passages
    <2>2. QED BY <2>1, FS_Subset, TopScore
  <1>5. CASE best \in D
    BY <1>1, <1>5
  <1>6. CASE best \notin D
    <2>1. PICK d \in D : TRUE
      BY <1>3
    <2>2. rank[d] >= rank[best]
      <3> HIDE DEF rank
      <3>1. QED BY <1>1, <1>2, <1>6 DEF Leading
    <2>3. top(d) >= top(best)
      BY <1>2, <1>3, <2>2
    <2>4. b \in of_document(H, best)
      BY DEF of_document
    <2> HIDE DEF top, best
    <2>5. top(best) >= m
      BY <1>2, <1>4, <2>4
    <2>6. PICK h \in of_document(H, d) : h.score = top(d)
      BY <1>3, <1>4
    <2>7. h \in H /\ document_of[h.chunk] = d
      BY <2>6 DEF of_document
    <2>8. h.score = m
      <3>1. h.score <= m /\ top(d) \in Int /\ top(best) \in Int
        BY <1>2, <1>3, <1>4, <2>7
      <3>2. QED BY <3>1, <2>3, <2>5, <2>6
    <2>9. h \in T
      BY <1>1, <2>7
    <2>10. QED BY <2>8, <2>9
  <1>7. QED BY <1>5, <1>6

LEMMA SelectionsKeepBest ==
    ASSUME NEW r \in Requests, NEW H \in SUBSET Hit, IsFiniteSet(H), H # {},
           r.top_n > 0, r.top_k > 0, NEW T \in Selections(r, H)
    PROVE  /\ T # {}
           /\ ~ r.reranking => \E t \in T : t.score = top_score(H)
  <1> DEFINE unique == deduplicate(H)
             m == top_score(H)
  <1>1. PICK S \in Scoped(r, H) : IF r.reranking THEN T \in Reranked(r, S) ELSE T = S
    BY SelectionsAreScoped
  <1>2. m \in Int /\ (\E h \in H : h.score = m) /\ \A h \in H : h.score <= m
    BY TopScore
  <1>3. PICK b \in H : b.score = m
    BY <1>2
  <1>4. b \in unique /\ unique \subseteq H /\ IsFiniteSet(unique)
    <2>1. b \in unique /\ unique \subseteq H
      BY <1>2, <1>3 DEF deduplicate
    <2>2. QED BY <2>1, FS_Subset
  <1> HIDE DEF unique, m
  <1>5. r.top_n \in Nat /\ r.top_k \in Nat
    BY RequestFields
  <1>6. \E t \in S : t.score = m
    <2>1. CASE r.scope
      <3>1. S \in select(unique, r.top_n)
        BY <2>1 DEF Scoped, unique
      <3>2. unique \in SUBSET Hit /\ \A h \in unique : h.score <= m
        BY <1>2, <1>4
      <3>3. QED BY <1>2, <1>3, <1>4, <1>5, <3>1, <3>2, SelectKeepsBest
    <2>2. CASE ~ r.scope
      BY <1>3, <1>4, <2>2 DEF Scoped, unique
    <2>3. QED BY <2>1, <2>2
  <1>7. CASE r.reranking
    <2>1. IsFiniteSet(S) /\ Distinct(S)
      BY ScopedLimits
    <2>2. T \in Reranked(r, S) /\ S # {}
      BY <1>1, <1>6, <1>7
    <2>3. QED BY <1>7, <2>1, <2>2, RerankedLimits
  <1>8. CASE ~ r.reranking
    BY <1>1, <1>6, <1>8 DEF m
  <1>9. QED BY <1>7, <1>8

\* What the queries of a search have found is finite.
FoundIsFinite == \A s \in Searches : IsFiniteSet(found[s])

LInv == TypeOK /\ FoundIsFinite /\ WithinLimits

LEMMA InitLInv == Init => LInv
  <1> SUFFICES ASSUME Init PROVE LInv
    OBVIOUS
  <1>1. TypeOK
    BY InitTyped DEF Typed
  <1>2. FoundIsFinite
    BY FS_EmptySet DEF Init, FoundIsFinite
  <1>3. WithinLimits
    <2> SUFFICES ASSUME NEW s \in Searches
                 PROVE  /\ \A g, h \in documents[s] : chunk_id(g) = chunk_id(h) => g = h
                        /\ request[s].scope =>
                             Cardinality(documents_of(documents[s])) <= request[s].top_n
                        /\ request[s].reranking =>
                             Cardinality(documents[s]) <= 4 * request[s].top_k
      BY DEF WithinLimits
    <2>1. documents[s] = {} /\ documents_of(documents[s]) = {}
      BY DEF Init, documents_of, passages
    <2>2. request[s].top_n \in Nat /\ request[s].top_k \in Nat
      BY <1>1, RequestFields DEF TypeOK
    <2>3. Cardinality(documents[s]) = 0 /\ Cardinality(documents_of(documents[s])) = 0
      BY <2>1, FS_EmptySet
    <2>4. 0 <= 4 * request[s].top_k
      <3> DEFINE k == request[s].top_k
      <3>1. k \in Nat
        BY <2>2
      <3> HIDE DEF k
      <3>2. 0 <= 4 * k
        BY <3>1
      <3>3. QED BY <3>2 DEF k
    <2>5. QED BY <2>1, <2>2, <2>3, <2>4
  <1>4. QED BY <1>1, <1>2, <1>3 DEF LInv

\* Hits are added by the queries only, and a query has finitely many.
LEMMA FoundStaysFinite ==
    ASSUME LInv, NEW s \in Searches, Step(s)
    PROVE  FoundIsFinite'
  <1>1. request[s] \in Requests /\ found \in [Searches -> SUBSET Hit]
    BY DEF LInv, TypeOK
  <1>2. ASSUME NEW H, IsFiniteSet(H), Collect(s, H)
        PROVE  FoundIsFinite'
    <2>1. IsFiniteSet(found[s] \cup H)
      BY <1>2, FS_Union DEF LInv, FoundIsFinite
    <2>2. found' = [found EXCEPT ![s] = found[s] \cup H]
      BY <1>2 DEF Collect
    <2>3. QED BY <1>1, <2>1, <2>2 DEF LInv, FoundIsFinite
  <1>3. \A l \in VectorLists \cup KeywordLists : IsFiniteSet(hits(l))
    BY ListHitsAreFinite
  <1>4. \A v \in VectorLists, k \in KeywordLists :
          /\ IsFiniteSet(Fused(request[s], v, k))
          /\ IsFiniteSet(combine(v, k, request[s].rrf_constant,
                                 request[s].fallback_vector_weight,
                                 request[s].fallback_keyword_weight))
    BY CombineIsFinite DEF Fused
  <1>5. CASE found' = found
    BY <1>5 DEF LInv, FoundIsFinite
  <1>6. CASE SearchSingle(s)
    BY <1>2, <1>3, <1>4, <1>6 DEF SearchSingle
  <1>7. CASE CascadeKeyword(s) \/ CascadeExpanded(s)
    BY <1>2, <1>3, <1>5, <1>7 DEF CascadeKeyword, CascadeExpanded, retrieval
  <1>8. CASE CascadeFallback(s) \/ SearchVariant(s)
    BY <1>2, <1>4, <1>8 DEF CascadeFallback, SearchVariant
  <1>9. CASE Select(s)
    <2>1. found' = [found EXCEPT ![s] = {}]
      BY <1>9 DEF Select
    <2>2. QED BY <1>1, <2>1, FS_EmptySet DEF LInv, FoundIsFinite
  <1>10. CASE Screen(s) \/ MultiQuery(s) \/ Hyde(s) \/ SearchFails(s)
    BY <1>5, <1>10 DEF Screen, MultiQuery, Hyde, SearchFails, retrieval
  <1>11. CASE Evidence(s) \/ Extract(s) \/ Generate(s)
              \/ Judge(s) \/ Check(s) \/ JudgementFails(s)
    BY <1>5, <1>11 DEF Evidence, Extract, Generate, Judge, Check, JudgementFails, retrieval
  <1>12. QED
    BY <1>6, <1>7, <1>8, <1>9, <1>10, <1>11 DEF Step

LEMMA StepKeepsRequests ==
    ASSUME NEW s \in Searches, Step(s)
    PROVE  request' = request /\ (Select(s) \/ documents' = documents)
  <1>1. CASE Select(s)
    BY <1>1 DEF Select
  <1>2. CASE Screen(s) \/ MultiQuery(s) \/ Hyde(s) \/ SearchFails(s)
    BY <1>2 DEF Screen, MultiQuery, Hyde, SearchFails, outcome
  <1>3. CASE SearchSingle(s) \/ CascadeKeyword(s) \/ CascadeExpanded(s)
             \/ CascadeFallback(s) \/ SearchVariant(s)
    BY <1>3 DEF SearchSingle, CascadeKeyword, CascadeExpanded, CascadeFallback, SearchVariant,
                Collect, outcome
  <1>4. CASE Evidence(s) \/ Extract(s) \/ Generate(s)
             \/ Judge(s) \/ Check(s) \/ JudgementFails(s)
    BY <1>4 DEF Evidence, Extract, Generate, Judge, Check, JudgementFails, outcome
  <1>5. QED BY <1>1, <1>2, <1>3, <1>4 DEF Step

LEMMA SelectWithinLimits ==
    ASSUME LInv, NEW s \in Searches, Select(s)
    PROVE  WithinLimits'
  <1>1. PICK H \in Selections(request[s], found[s]) :
          documents' = [documents EXCEPT ![s] = H] /\ request' = request
    BY SelectChooses DEF Chooses
  <1>2. request[s] \in Requests /\ found[s] \in SUBSET Hit /\ IsFiniteSet(found[s])
    BY DEF LInv, TypeOK, FoundIsFinite
  <1>3. /\ Distinct(H)
        /\ request[s].scope => Cardinality(documents_of(H)) <= request[s].top_n
        /\ request[s].reranking => Cardinality(H) <= 4 * request[s].top_k
    BY <1>1, <1>2, SelectionsLimits
  <1>4. documents'[s] = H /\ \A t \in Searches \ {s} : documents'[t] = documents[t]
    BY <1>1 DEF LInv, TypeOK
  <1> SUFFICES ASSUME NEW t \in Searches
               PROVE  /\ Distinct(documents'[t])
                      /\ request[t].scope =>
                           Cardinality(documents_of(documents'[t])) <= request[t].top_n
                      /\ request[t].reranking =>
                           Cardinality(documents'[t]) <= 4 * request[t].top_k
    BY <1>1 DEF WithinLimits, Distinct
  <1>5. CASE t = s
    BY <1>3, <1>4, <1>5
  <1>6. CASE t # s
    BY <1>4, <1>6 DEF LInv, WithinLimits, Distinct
  <1>7. QED BY <1>5, <1>6

LEMMA NextLInv == TypeOK' /\ LInv /\ [Next]_vars => LInv'
  <1> SUFFICES ASSUME TypeOK', LInv, [Next]_vars PROVE LInv'
    OBVIOUS
  <1>1. ASSUME NEW s \in Searches, Step(s)
        PROVE  FoundIsFinite' /\ WithinLimits'
    <2>1. FoundIsFinite'
      BY <1>1, FoundStaysFinite
    <2>2. CASE Select(s)
      BY <2>1, <2>2, SelectWithinLimits
    <2>3. CASE ~ Select(s)
      <3>1. request' = request /\ documents' = documents
        BY <1>1, <2>3, StepKeepsRequests
      <3>2. QED BY <2>1, <3>1 DEF LInv, WithinLimits
    <2>4. QED BY <2>2, <2>3
  <1>2. CASE UNCHANGED vars
    BY <1>2 DEF vars, retrieval, outcome, LInv, FoundIsFinite, WithinLimits
  <1>3. QED BY <1>1, <1>2 DEF Next, LInv

\* A result never has an identifier twice, nor more documents or passages than
\* its request allows, whatever the stores and the cross encoder answer.
THEOREM ResultsAreWithinLimits == Spec => []WithinLimits
  <1>1. LInv => WithinLimits
    BY DEF LInv
  <1>2. QED BY InitLInv, NextLInv, TypeCorrect, <1>1, PTL DEF Spec

\* A search leaves the selection by selecting.
LEMMA SelectionIsLeftBySelecting ==
    ASSUME TypeOK, [Next]_vars, NEW s \in Searches, stage[s] = "select", stage'[s] # "select"
    PROVE  Select(s)
  <1>1. PICK t \in Searches : Step(t)
    BY DEF Next, vars
  <1>2. CASE t = s
    BY <1>1, <1>2 DEF Step, Screen, MultiQuery, Hyde, SearchSingle, CascadeKeyword,
       CascadeExpanded, CascadeFallback, SearchVariant, SearchFails, Evidence, Extract,
       Generate, Judge, Check, JudgementFails
  <1>3. CASE t # s
    <2>1. \E g : stage' = [stage EXCEPT ![t] = g]
      BY <1>1 DEF Step, Screen, MultiQuery, Hyde, SearchSingle, CascadeKeyword,
         CascadeExpanded, CascadeFallback, SearchVariant, SearchFails, Select, Evidence,
         Extract, Generate, Judge, Check, JudgementFails, Collect, Answered, Raise, Goto
    <2>2. QED BY <1>3, <2>1 DEF TypeOK
  <1>4. QED BY <1>2, <1>3

\* Something found is something returned, and without reranking a hit with the
\* best score is: neither duplicates nor the scope cost it.
THEOREM TheBestIsKept == Spec => BestIsKept
  <1> DEFINE Kept ==
        \A s \in Searches :
           /\ stage[s] = "select" /\ stage'[s] # "select"
           /\ found[s] # {} /\ request[s].top_n > 0 /\ request[s].top_k > 0
           => /\ documents'[s] # {}
              /\ ~ request[s].reranking =>
                   top_score(found[s]) \in {h.score : h \in documents'[s]}
  <1>1. LInv /\ [Next]_vars => Kept
    <2> SUFFICES ASSUME LInv, [Next]_vars, NEW s \in Searches,
                        stage[s] = "select", stage'[s] # "select", found[s] # {},
                        request[s].top_n > 0, request[s].top_k > 0
                 PROVE  /\ documents'[s] # {}
                        /\ ~ request[s].reranking =>
                             top_score(found[s]) \in {h.score : h \in documents'[s]}
      OBVIOUS
    <2>1. Select(s)
      BY SelectionIsLeftBySelecting DEF LInv
    <2>2. PICK H \in Selections(request[s], found[s]) :
            documents' = [documents EXCEPT ![s] = H]
      BY <2>1, SelectChooses DEF Chooses
    <2>3. documents'[s] = H
      BY <2>2 DEF LInv, TypeOK
    <2>4. request[s] \in Requests /\ found[s] \in SUBSET Hit /\ IsFiniteSet(found[s])
      BY DEF LInv, TypeOK, FoundIsFinite
    <2>5. H # {} /\ (~ request[s].reranking => \E t \in H : t.score = top_score(found[s]))
      BY <2>2, <2>4, SelectionsKeepBest
    <2>6. QED BY <2>3, <2>5
  <1>2. QED BY InitLInv, NextLInv, TypeCorrect, <1>1, PTL DEF Spec, BestIsKept

(***************************************************************************)
(* The judges' reading of a reply                                          *)
(***************************************************************************)

LEMMA MaxOfNumbers ==
    ASSUME NEW S \in SUBSET Int, S # {}, IsFiniteSet(S)
    PROVE  Max(S) \in S /\ \A x \in S : x <= Max(S)
  <1>1. \E m \in S : \A x \in S : m >= x
    <2>1. PICK m \in S : \A x \in S : x <= m
      BY GreatestExists
    <2>2. \A x \in S : m >= x
      BY <2>1
    <2>3. QED BY <2>2
  <1>2. Max(S) \in S /\ \A x \in S : Max(S) >= x
    BY <1>1 DEF Max
  <1>3. QED BY <1>2

LEMMA MaxIsOne ==
    ASSUME NEW S \in SUBSET Int, IsFiniteSet(S), NEW m \in S, \A x \in S : x <= m
    PROVE  Max(S) = m
  <1>1. Max(S) \in S /\ m <= Max(S)
    BY MaxOfNumbers
  <1>2. Max(S) <= m /\ Max(S) \in Int /\ m \in Int
    BY <1>1
  <1>3. QED BY <1>1, <1>2

LEMMA PartOfInterval ==
    ASSUME NEW n \in Nat, NEW s \in SUBSET (1..n)
    PROVE  s \in SUBSET Int /\ IsFiniteSet(s)
  <1>1. 1..n \subseteq Int
    OBVIOUS
  <1>2. IsFiniteSet(1..n)
    BY FS_Interval
  <1>3. IsFiniteSet(s)
    BY <1>2, FS_Subset
  <1>4. QED BY <1>1, <1>3

\* A reply whose lines are numbered from 1 to n.
Lines(n) == [1..n -> ReplyLine]

stated_in(reply, s) ==
    {i \in s : reply[i].key = "score" /\ reply[i].number # Unreadable}
verdicts_in(reply, s) == {i \in s : reply[i].key = "verdict"}

\* What the lines in s say: the last score that can be read, the last verdict.
reading(reply, s) ==
    [score |-> IF stated_in(reply, s) = {} THEN Perfect
               ELSE reply[Max(stated_in(reply, s))].number,
     failed |-> IF verdicts_in(reply, s) = {} THEN FALSE
                ELSE reply[Max(verdicts_in(reply, s))].failed]

LEMMA ReadingChanged ==
    ASSUME NEW a, NEW b, NEW c
    PROVE  LET r == [score |-> a, failed |-> b]
           IN  /\ [r EXCEPT !.score = c] = [score |-> c, failed |-> r.failed]
               /\ [r EXCEPT !.failed = c] = [score |-> r.score, failed |-> c]
  OBVIOUS

\* The last line of s decides, or says nothing.
LEMMA LastLine ==
    ASSUME NEW n \in Nat, NEW reply \in Lines(n), NEW s \in SUBSET (1..n), s # {}
    PROVE  reading(reply, s) = parse_line(reading(reply, s \ {Max(s)}), reply[Max(s)])
  <1> DEFINE x == Max(s)
             before == s \ {x}
  <1>1. /\ s \in SUBSET Int /\ IsFiniteSet(s)
        /\ \A t \in SUBSET s : t \in SUBSET Int /\ IsFiniteSet(t)
    <2>1. \A t \in SUBSET s : t \in SUBSET (1..n)
      OBVIOUS
    <2>2. QED BY <2>1, PartOfInterval
  <1>2. x \in s /\ \A y \in s : y <= x
    BY <1>1, MaxOfNumbers
  <1>3. \A t \in SUBSET s : x \in t => Max(t) = x
    BY <1>1, <1>2, MaxIsOne
  <1> HIDE DEF x
  <1>4. CASE reply[x].key = "score" /\ reply[x].number # Unreadable
    <2>1. x \in stated_in(reply, s) /\ stated_in(reply, s) \subseteq s
      BY <1>2, <1>4 DEF stated_in
    <2>2. verdicts_in(reply, s) = verdicts_in(reply, before)
      BY <1>4 DEF verdicts_in
    <2>3. Max(stated_in(reply, s)) = x
      BY <1>3, <2>1
    <2>4. reading(reply, s) = [score |-> reply[x].number,
                               failed |-> reading(reply, before).failed]
      <3>1. stated_in(reply, s) # {}
        BY <2>1
      <3>2. QED BY <2>2, <2>3, <3>1 DEF reading
    <2>5. parse_line(reading(reply, before), reply[x])
            = [reading(reply, before) EXCEPT !.score = reply[x].number]
      BY <1>4 DEF parse_line
    <2>6. [reading(reply, before) EXCEPT !.score = reply[x].number]
            = [score |-> reply[x].number, failed |-> reading(reply, before).failed]
      <3>1. PICK a, b : reading(reply, before) = [score |-> a, failed |-> b]
        BY DEF reading
      <3>2. QED BY <3>1, ReadingChanged
    <2>7. QED BY <2>4, <2>5, <2>6 DEF x
  <1>5. CASE reply[x].key = "verdict"
    <2>1. x \in verdicts_in(reply, s) /\ verdicts_in(reply, s) \subseteq s
      BY <1>2, <1>5 DEF verdicts_in
    <2>2. stated_in(reply, s) = stated_in(reply, before)
      BY <1>5 DEF stated_in
    <2>3. Max(verdicts_in(reply, s)) = x
      BY <1>3, <2>1
    <2>4. reading(reply, s) = [score |-> reading(reply, before).score,
                               failed |-> reply[x].failed]
      <3>1. verdicts_in(reply, s) # {}
        BY <2>1
      <3>2. QED BY <2>2, <2>3, <3>1 DEF reading
    <2>5. parse_line(reading(reply, before), reply[x])
            = [reading(reply, before) EXCEPT !.failed = reply[x].failed]
      BY <1>5 DEF parse_line
    <2>6. [reading(reply, before) EXCEPT !.failed = reply[x].failed]
            = [score |-> reading(reply, before).score, failed |-> reply[x].failed]
      <3>1. PICK a, b : reading(reply, before) = [score |-> a, failed |-> b]
        BY DEF reading
      <3>2. QED BY <3>1, ReadingChanged
    <2>7. QED BY <2>4, <2>5, <2>6 DEF x
  <1>6. CASE /\ ~ (reply[x].key = "score" /\ reply[x].number # Unreadable)
             /\ reply[x].key # "verdict"
    <2>1. /\ stated_in(reply, s) = stated_in(reply, before)
          /\ verdicts_in(reply, s) = verdicts_in(reply, before)
      BY <1>6 DEF stated_in, verdicts_in
    <2>2. reading(reply, s) = reading(reply, before)
      BY <2>1 DEF reading
    <2>3. QED BY <1>6, <2>2 DEF parse_line, x
  <1>7. QED BY <1>4, <1>5, <1>6

\* The fold over the lines reads all of them: the function it is defined by is
\* the reading of every set of lines, for otherwise a least set would differ.
LEMMA ParseResultReads ==
    ASSUME NEW n \in Nat, NEW reply \in Lines(n)
    PROVE  parse_result(reply) = reading(reply, 1..n)
  <1> DEFINE base == [score |-> Perfect, failed |-> FALSE]
             step(f, s) == IF s = {} THEN base
                           ELSE parse_line(f[s \ {Max(s)}], reply[Max(s)])
             iter == CHOOSE f : f = [s \in SUBSET (1..n) |-> step(f, s)]
             g == [s \in SUBSET (1..n) |-> reading(reply, s)]
  <1>1. DOMAIN reply = 1..n
    BY DEF Lines
  <1>2. parse_result(reply) = iter[1..n]
    BY <1>1 DEF parse_result, FoldLeft, MapThenFoldSet
  <1>3. reading(reply, {}) = base
    BY DEF reading, stated_in, verdicts_in
  <1>4. IsFiniteSet(1..n)
    BY FS_Interval
  <1>5. ASSUME NEW s \in SUBSET (1..n), s # {}
        PROVE  Max(s) \in s
    <2>1. s \in SUBSET Int /\ IsFiniteSet(s)
      BY PartOfInterval
    <2>2. QED BY <1>5, <2>1, MaxOfNumbers
  <1>6. g = [s \in SUBSET (1..n) |-> step(g, s)]
    <2>1. ASSUME NEW s \in SUBSET (1..n)
          PROVE  reading(reply, s) = step(g, s)
      <3>1. CASE s = {}
        BY <1>3, <3>1
      <3>2. CASE s # {}
        <4>1. g[s \ {Max(s)}] = reading(reply, s \ {Max(s)})
          OBVIOUS
        <4> HIDE DEF g
        <4>2. QED BY <3>2, <4>1, LastLine
      <3>3. QED BY <3>1, <3>2
    <2>2. QED BY <2>1
  <1> HIDE DEF step, base, g
  <1>7. iter = [s \in SUBSET (1..n) |-> step(iter, s)]
    BY <1>6
  <1> HIDE DEF iter
  <1> DEFINE differ == {s \in SUBSET (1..n) : iter[s] # reading(reply, s)}
             R == StrictSubsetOrdering(1..n)
  <1>8. differ = {}
    <2> SUFFICES ASSUME differ # {}
                 PROVE  FALSE
      OBVIOUS
    <2>1. IsWellFoundedOn(R, SUBSET (1..n))
      BY <1>4, FS_StrictSubsetOrderingWellFounded, FS_FiniteSubsetsOfFinite
    <2>2. differ \subseteq SUBSET (1..n)
      OBVIOUS
    <2>3. PICK s \in differ : \A t \in differ : <<t, s>> \notin R
      <3> HIDE DEF differ, R
      <3>1. QED BY <2>1, <2>2, WFMin
    <2>4. s \in SUBSET (1..n) /\ iter[s] # reading(reply, s) /\ iter[s] = step(iter, s)
      BY <1>7
    <2>5. s # {}
      BY <1>3, <2>4 DEF step
    <2> DEFINE t == s \ {Max(s)}
    <2>6. t \in SUBSET (1..n) /\ t \subseteq s /\ t # s
      BY <1>5, <2>4, <2>5
    <2>7. <<t, s>> \in R
      <3> HIDE DEF t
      <3>1. QED BY <2>4, <2>6 DEF StrictSubsetOrdering
    <2>8. iter[t] = reading(reply, t)
      BY <2>3, <2>6, <2>7
    <2>9. iter[s] = reading(reply, s)
      BY <2>4, <2>5, <2>8, LastLine DEF step
    <2>10. QED BY <2>4, <2>9
  <1>9. QED BY <1>2, <1>8

LEMMA OnlyScoresCondemn ==
    ASSUME NEW n \in Nat, NEW judged, judged.reply \in Lines(n), judged.threshold \in Int,
           judged.action \in {"block", "warn", "regenerate"}
    PROVE  OnlyAStatedScoreCondemns(judged)
  <1> DEFINE reply == judged.reply
             stated == {i \in DOMAIN reply : /\ reply[i].key = "score"
                                             /\ reply[i].number # Unreadable}
             below == \/ \E last \in stated : /\ \A i \in stated : i <= last
                                              /\ reply[last].number < judged.threshold
                      \/ stated = {} /\ Perfect < judged.threshold
             result == parse_result(reply)
  <1>1. DOMAIN reply = 1..n /\ stated = stated_in(reply, 1..n)
    BY DEF Lines, stated_in
  <1>2. result = reading(reply, 1..n)
    BY ParseResultReads
  <1>3. result.score = IF stated = {} THEN Perfect ELSE reply[Max(stated)].number
    <2> HIDE DEF stated, result
    <2>1. QED BY <1>1, <1>2 DEF reading
  <1>4. stated # {} => Max(stated) \in stated /\ \A i \in stated : i <= Max(stated)
    <2>1. stated \in SUBSET (1..n)
      BY <1>1
    <2>2. stated \in SUBSET Int /\ IsFiniteSet(stated)
      BY <2>1, PartOfInterval
    <2> HIDE DEF stated
    <2>3. QED BY <2>2, MaxOfNumbers
  <1>5. (result.score < judged.threshold) <=> below
    <2>1. \A i, j \in stated : i \in Int /\ j \in Int
      BY <1>1
    <2> HIDE DEF stated, result
    <2>2. CASE stated = {}
      BY <2>2, <1>3
    <2>3. CASE stated # {}
      <3>1. \A last \in stated : (\A i \in stated : i <= last) => last = Max(stated)
        <4>1. ASSUME NEW last \in stated, \A i \in stated : i <= last
              PROVE  last = Max(stated)
          <5>1. Max(stated) <= last /\ last <= Max(stated)
            BY <1>4, <2>3, <4>1
          <5>2. Max(stated) \in Int /\ last \in Int
            BY <1>4, <2>1, <2>3
          <5>3. QED BY <5>1, <5>2
        <4>2. QED BY <4>1
      <3>2. QED BY <1>3, <1>4, <2>3, <3>1
    <2>4. QED BY <2>2, <2>3
  <1>6. verify(reply, judged.threshold).failed <=> result.score < judged.threshold
    BY <1>2 DEF verify, reading
  <1>7. handle_result(verify(reply, judged.threshold), judged.action) # "answer"
          <=> judged.action \in {"block", "warn"} /\ below
    <2> HIDE DEF below, result
    <2>1. QED BY <1>5, <1>6 DEF handle_result
  <1>8. QED BY <1>7 DEF OnlyAStatedScoreCondemns

(***************************************************************************)
(* The fusion of two lists                                                 *)
(***************************************************************************)

LEMMA ProductGrows ==
    ASSUME NEW m \in Nat, NEW p \in Nat, NEW q \in Nat, p <= q
    PROVE  m * p <= m * q
  <1>1. PICK d \in Nat : q = p + d
    <2>1. q - p \in Nat /\ q = p + (q - p)
      OBVIOUS
    <2>2. QED BY <2>1
  <1>2. m * (p + d) = m * p + m * d
    OBVIOUS
  <1>3. m * d \in Nat /\ m * p \in Nat
    OBVIOUS
  <1>4. QED BY <1>1, <1>2, <1>3

\* A quotient does not grow with its divisor.
LEMMA QuotientFalls ==
    ASSUME NEW a \in Nat, NEW m \in Nat, NEW n \in Nat, 0 < m, m <= n
    PROVE  /\ a \div m \in Nat /\ a \div n \in Nat
           /\ a \div n <= a \div m
  <1>1. ASSUME NEW d \in Nat, 0 < d
        PROVE  /\ a \div d \in Nat
               /\ d * (a \div d) <= a /\ a < d * (a \div d) + d
    BY <1>1
  <1> DEFINE p == a \div m
             q == a \div n
  <1>2. /\ p \in Nat /\ q \in Nat
        /\ n * q <= a /\ a < m * p + m
    BY <1>1
  <1> HIDE DEF p, q
  <1>3. q * m <= q * n
    BY <1>2, ProductGrows
  <1>4. m * q <= a
    <2>1. m * q \in Nat /\ n * q \in Nat /\ m * q = q * m /\ n * q = q * n
      BY <1>2
    <2>2. QED BY <1>2, <1>3, <2>1
  <1>5. ASSUME p + 1 <= q
        PROVE  FALSE
    <2>1. m * (p + 1) <= m * q
      BY <1>2, <1>5, ProductGrows
    <2>2. m * (p + 1) = m * p + m /\ m * p \in Nat /\ m * q \in Nat
      BY <1>2
    <2>3. QED BY <1>2, <1>4, <2>1, <2>2
  <1>6. q <= p
    BY <1>2, <1>5
  <1>7. QED BY <1>2, <1>6 DEF p, q

\* A list in which no identifier is twice.
Ranked(list) ==
    /\ DOMAIN list \subseteq Nat \ {0}
    /\ \A i, j \in DOMAIN list : chunk_id(list[i]) = chunk_id(list[j]) => i = j

before(list, a, b) ==
    \A j \in DOMAIN list : chunk_id(list[j]) = chunk_id(b) =>
        \E i \in 1..j - 1 : chunk_id(list[i]) = chunk_id(a)

\* The share of the hit at a rank, and of one that is not in the list.
LEMMA ShareAtRank ==
    ASSUME NEW list, Ranked(list), NEW h, NEW k \in Nat, NEW w \in Nat
    PROVE  /\ (\A i \in DOMAIN list : chunk_id(list[i]) # chunk_id(h))
                => rrf_share(list, h, k, w) = 0
           /\ \A i \in DOMAIN list : chunk_id(list[i]) = chunk_id(h)
                => rrf_share(list, h, k, w) = (w * Scale) \div (k + i)
  <1> DEFINE ranks == {i \in DOMAIN list : chunk_id(list[i]) = chunk_id(h)}
  <1>1. ranks = {} => rrf_share(list, h, k, w) = 0
    BY DEF rrf_share
  <1>2. ASSUME NEW i \in ranks
        PROVE  rrf_share(list, h, k, w) = (w * Scale) \div (k + i)
    <2>1. ranks = {i}
      BY <1>2 DEF Ranked
    <2>2. (CHOOSE j \in ranks : TRUE) = i
      BY <2>1
    <2>3. QED BY <2>1, <2>2 DEF rrf_share
  <1>3. QED BY <1>1, <1>2

LEMMA ShareFollowsRank ==
    ASSUME NEW list, Ranked(list), NEW a, NEW b, before(list, a, b),
           NEW k \in Nat, NEW w \in Nat, \A j \in DOMAIN list : 1..j \subseteq DOMAIN list
    PROVE  /\ rrf_share(list, a, k, w) \in Nat /\ rrf_share(list, b, k, w) \in Nat
           /\ rrf_share(list, a, k, w) >= rrf_share(list, b, k, w)
  <1>1. w * Scale \in Nat
    BY RankingAssumption
  <1> DEFINE s == w * Scale
  <1>2. s \in Nat
    BY <1>1
  <1> HIDE DEF s
  <1>3. \A i \in DOMAIN list : k + i \in Nat /\ 0 < k + i
    BY DEF Ranked
  <1>4. \A i \in DOMAIN list : s \div (k + i) \in Nat
    <2>1. ASSUME NEW i \in DOMAIN list
          PROVE  s \div (k + i) \in Nat
      <3> DEFINE m == k + i
      <3>1. m \in Nat /\ 0 < m /\ m <= m
        BY <1>3
      <3> HIDE DEF m
      <3>2. s \div m \in Nat
        BY <1>2, <3>1, QuotientFalls
      <3>3. QED BY <3>2 DEF m
    <2>2. QED BY <2>1
  <1>5. \A h : rrf_share(list, h, k, w) \in Nat
    <2>1. ASSUME NEW h
          PROVE  rrf_share(list, h, k, w) \in Nat
      <3>1. CASE \A i \in DOMAIN list : chunk_id(list[i]) # chunk_id(h)
        <4>1. rrf_share(list, h, k, w) = 0
          BY <3>1, ShareAtRank
        <4>2. QED BY <4>1
      <3>2. CASE \E i \in DOMAIN list : chunk_id(list[i]) = chunk_id(h)
        BY <1>4, <3>2, ShareAtRank DEF s
      <3>3. QED BY <3>1, <3>2
    <2>2. QED BY <2>1
  <1>6. CASE \A j \in DOMAIN list : chunk_id(list[j]) # chunk_id(b)
    <2>1. rrf_share(list, b, k, w) = 0
      BY <1>6, ShareAtRank
    <2>2. QED BY <1>5, <2>1
  <1>7. CASE \E j \in DOMAIN list : chunk_id(list[j]) = chunk_id(b)
    <2>1. PICK j \in DOMAIN list : chunk_id(list[j]) = chunk_id(b)
      BY <1>7
    <2>2. PICK i \in 1..j - 1 : chunk_id(list[i]) = chunk_id(a)
      BY <2>1 DEF before
    <2>3. i \in DOMAIN list /\ i < j /\ i \in Nat /\ j \in Nat
      <3>1. j \in Nat
        BY DEF Ranked
      <3>2. i \in 1..j /\ i < j /\ i \in Nat
        BY <3>1, <2>2
      <3>3. QED BY <3>1, <3>2
    <2>4. /\ rrf_share(list, a, k, w) = s \div (k + i)
          /\ rrf_share(list, b, k, w) = s \div (k + j)
      BY <2>1, <2>2, <2>3, ShareAtRank DEF s
    <2>5. s \div (k + j) <= s \div (k + i)
      <3> DEFINE m == k + i
                 n == k + j
      <3>1. m \in Nat /\ n \in Nat /\ 0 < m /\ m <= n
        BY <1>3, <2>3
      <3> HIDE DEF m, n
      <3>2. s \div n <= s \div m
        BY <1>2, <3>1, QuotientFalls
      <3>3. QED BY <3>2 DEF m, n
    <2>6. QED BY <1>5, <2>4, <2>5
  <1>8. QED BY <1>6, <1>7

\* A list of a store, as far as the fusion looks at it.
StoreList(list) ==
    /\ Ranked(list)
    /\ \A j \in DOMAIN list : 1..j \subseteq DOMAIN list

\* For lists of any length, any weights and any constant: two lists that agree
\* on an order are not contradicted by their fusion.
THEOREM FusionKeepsTheOrder ==
    ASSUME NEW vector, NEW keyword, StoreList(vector), StoreList(keyword),
           NEW k \in Nat, NEW v \in Nat, NEW w \in Nat
    PROVE  FusionRespectsRanks(vector, keyword, k, v, w)
  <1> SUFFICES ASSUME NEW a \in combine(vector, keyword, k, v, w),
                      NEW b \in combine(vector, keyword, k, v, w),
                      before(vector, a, b), before(keyword, a, b)
               PROVE  a.score >= b.score
    BY DEF FusionRespectsRanks, before
  <1>1. ASSUME NEW c \in combine(vector, keyword, k, v, w)
        PROVE  c.score = rrf_share(vector, c, k, v) + rrf_share(keyword, c, k, w)
    <2>1. PICK h \in hits(vector) \cup hits(keyword) :
            c = [chunk |-> h.chunk, store |-> h.store,
                 score |-> rrf_share(vector, h, k, v) + rrf_share(keyword, h, k, w)]
      BY DEF combine
    <2>2. chunk_id(c) = chunk_id(h)
      BY <2>1 DEF chunk_id
    <2>3. /\ rrf_share(vector, c, k, v) = rrf_share(vector, h, k, v)
          /\ rrf_share(keyword, c, k, w) = rrf_share(keyword, h, k, w)
      BY <2>2 DEF rrf_share
    <2>4. QED BY <2>1, <2>3
  <1>2. /\ rrf_share(vector, a, k, v) \in Nat /\ rrf_share(vector, b, k, v) \in Nat
        /\ rrf_share(vector, a, k, v) >= rrf_share(vector, b, k, v)
    BY ShareFollowsRank DEF StoreList
  <1>3. /\ rrf_share(keyword, a, k, w) \in Nat /\ rrf_share(keyword, b, k, w) \in Nat
        /\ rrf_share(keyword, a, k, w) >= rrf_share(keyword, b, k, w)
    BY ShareFollowsRank DEF StoreList
  <1>4. QED BY <1>1, <1>2, <1>3

(***************************************************************************)
(* The check of injections                                                 *)
(***************************************************************************)

\* More keywords never lower the score, and a score above 0.8 is above 0.5.
LEMMA ScoreGrows ==
    ASSUME NEW h \in Nat, NEW more \in Nat, h <= more
    PROVE  /\ score_exceeds(h, 8) => score_exceeds(more, 8)
           /\ score_exceeds(h, 5) => score_exceeds(more, 5)
           /\ score_exceeds(h, 8) => score_exceeds(h, 5)
  BY DEF score_exceeds, Keywords

LEMMA SignsOnlyBlock ==
    ASSUME NEW query \in Query
    PROVE  MoreSignsStayBlocked(query)
  <1> SUFFICES ASSUME blocked(query),
                      NEW definite \in BOOLEAN, NEW suspicious \in BOOLEAN,
                      NEW number \in query.hits..Keywords,
                      query.definite => definite,
                      query.suspicious => suspicious
               PROVE  blocked([query EXCEPT !.definite = definite,
                                            !.suspicious = suspicious,
                                            !.hits = number])
    BY DEF MoreSignsStayBlocked
  <1> DEFINE more == [query EXCEPT !.definite = definite, !.suspicious = suspicious,
                                   !.hits = number]
  <1>1. /\ more.definite = definite /\ more.suspicious = suspicious
        /\ more.hits = number /\ more.reply = query.reply
    BY DEF Query
  <1>2. query.hits \in Nat /\ number \in Nat /\ query.hits <= number
    BY DEF Query, Keywords
  <1>3. /\ score_exceeds(query.hits, 8) => score_exceeds(number, 8)
        /\ score_exceeds(query.hits, 5) => score_exceeds(number, 5)
    BY <1>2, ScoreGrows
  <1>4. QED BY <1>1, <1>3 DEF blocked

(***************************************************************************)
(* The splitting of a text (Chunking)                                      *)
(***************************************************************************)

\* Any numbers have a least one.
LEMMA LeastExists ==
    ASSUME NEW T \in SUBSET Nat, T # {}
    PROVE  \E m \in T : \A x \in T : m <= x
  <1>1. PICK t \in T : TRUE
    OBVIOUS
  <1> DEFINE S == 0..t
             down(x) == {y \in T : y < x}
             D == {down(x) : x \in T \cap S}
             R == StrictSubsetOrdering(S)
  <1>2. t \in Nat /\ IsFiniteSet(S)
    BY FS_Interval
  <1>3. IsWellFoundedOn(R, SUBSET S)
    <2> HIDE DEF S
    <2>1. QED BY <1>2, FS_StrictSubsetOrderingWellFounded, FS_FiniteSubsetsOfFinite
  <1>4. D \subseteq SUBSET S /\ D # {}
    <2>1. ASSUME NEW x \in T \cap S PROVE down(x) \in SUBSET S
      <3>1. \A y \in T : y < x => y \in S
        BY <1>2
      <3>2. QED BY <3>1
    <2>2. t \in T \cap S
      BY <1>2
    <2> HIDE DEF down, S
    <2>3. QED BY <2>1, <2>2
  <1>5. \E d \in D : \A e \in D : <<e, d>> \notin R
    <2> HIDE DEF D, R
    <2>1. QED BY <1>3, <1>4, WFMin
  <1>6. PICK m \in T \cap S : \A e \in D : <<e, down(m)>> \notin R
    BY <1>5
  <1>7. ASSUME NEW x \in T, x < m
        PROVE  FALSE
    <2>1. x \in T \cap S /\ down(x) \in D
      BY <1>2, <1>7
    <2>2. down(x) \subseteq down(m) /\ down(x) # down(m)
      <3>1. \A y \in T : y < x => y < m
        BY <1>7
      <3>2. x \in down(m) /\ x \notin down(x)
        BY <1>7
      <3>3. QED BY <3>1, <3>2
    <2>3. down(x) \in SUBSET S /\ down(m) \in SUBSET S
      <3>1. down(m) \in D
        BY <1>6
      <3> HIDE DEF down, S, D
      <3>2. QED BY <1>4, <2>1, <3>1
    <2>4. <<down(x), down(m)>> \in R
      <3> HIDE DEF down, D, S
      <3>1. QED BY <2>2, <2>3 DEF StrictSubsetOrdering
    <2>5. QED BY <1>6, <2>1, <2>4
  <1>8. QED
    <2>1. \A x \in T : m <= x
      BY <1>7
    <2>2. QED BY <2>1

LEMMA LengthIsTwo ==
    /\ split_length(ChunkSize) \in Nat /\ split_length(ChunkSize) >= 2
    /\ split_overlap(ChunkSize) \in Nat \ {0}
    /\ split_overlap(ChunkSize) < split_length(ChunkSize)
  <1>1. split_length(ChunkSize) \in Nat /\ split_length(ChunkSize) >= 2
    BY ChunkingAssumption DEF split_length
  <1>2. ASSUME NEW n \in Nat, n >= 2
        PROVE  n \div 3 \in Nat /\ n \div 3 < n
    BY <1>2
  <1>3. /\ split_length(ChunkSize) \div 3 \in Nat
        /\ split_length(ChunkSize) \div 3 < split_length(ChunkSize)
    BY <1>1, <1>2
  <1>4. QED BY <1>1, <1>3 DEF split_overlap

LEMMA NextStep ==
    ASSUME NEW k \in Int, NEW step \in Nat \ {0}
    PROVE  /\ k * step \in Int
           /\ (k - 1) * step = k * step - step
           /\ k >= 0 => k * step >= k
  OBVIOUS

\* Where a window ends.
cut_end(body, n, step, k) ==
    IF k * step + n < Len(body) THEN k * step + n ELSE Len(body)

\* The windows are as many as it takes until one reaches the last sentence.
LEMMA WindowsEnd ==
    ASSUME NEW S, NEW body \in Seq(S), body # <<>>,
           NEW n \in Nat \ {0}, NEW step \in 1..n
    PROVE  \E N \in Nat \ {0} :
              /\ windows(body, n, step)
                    = [i \in 1..N |-> SubSeq(body, (i - 1) * step + 1,
                                             cut_end(body, n, step, i - 1))]
              /\ \A k \in 1..N - 1 : (k - 1) * step + n < Len(body)
              /\ (N - 1) * step + n >= Len(body)
  <1> DEFINE L == Len(body)
             ks == {k \in 0..L : k = 0 \/ (k - 1) * step + n < L}
             beyond == {k \in Nat : k \notin ks}
  <1>1. L \in Nat \ {0} /\ step \in Nat \ {0}
    OBVIOUS
  <1>2. windows(body, n, step)
           = [i \in 1..Cardinality(ks) |-> SubSeq(body, (i - 1) * step + 1,
                                             cut_end(body, n, step, i - 1))]
    BY DEF windows, cut_end
  <1> HIDE DEF L
  <1>3. ASSUME NEW k \in ks, NEW j \in 0..k PROVE j \in ks
    <2>1. k \in 0..L /\ j \in 0..L /\ (k = 0 \/ (k - 1) * step + n < L)
      BY <1>1, <1>3
    <2>2. CASE j = 0
      BY <1>1, <2>2
    <2>3. CASE j > 0
      <3>1. (j - 1) * step <= (k - 1) * step
        BY <1>1, <2>1, <2>3
      <3>2. (k - 1) * step \in Int /\ (j - 1) * step \in Int
        BY <1>1, <2>1
      <3>3. (j - 1) * step + n < L
        BY <1>1, <2>1, <2>3, <3>1, <3>2
      <3>4. QED BY <2>1, <3>3
    <2>4. QED BY <2>1, <2>2, <2>3
  <1>4. L + 1 \in beyond /\ 0 \in ks /\ beyond \in SUBSET Nat
    BY <1>1
  <1>5. PICK N \in beyond : \A k \in beyond : N <= k
    <2> HIDE DEF beyond
    <2>1. QED BY <1>4, LeastExists
  <1>6. N \in Nat \ {0} /\ N \notin ks
    BY <1>4
  <1>7. ks = 0..N - 1
    <2>1. ASSUME NEW k \in ks PROVE k \in 0..N - 1
      <3>1. k \in Nat
        BY <1>1
      <3>2. ~ N <= k
        <4> HIDE DEF ks
        <4>1. QED BY <1>3, <1>6, <3>1
      <3>3. QED BY <1>6, <3>1, <3>2
    <2>2. ASSUME NEW k \in 0..N - 1 PROVE k \in ks
      BY <1>5, <1>6
    <2>3. QED BY <2>1, <2>2
  <1>8. Cardinality(ks) = N
    <2> HIDE DEF ks
    <2>1. QED BY <1>6, <1>7, FS_Interval
  <1>9. ASSUME NEW k \in 1..N - 1 PROVE (k - 1) * step + n < L
    <2>1. k \in ks
      <3> HIDE DEF ks
      <3>1. QED BY <1>6, <1>7
    <2>2. QED BY <2>1, <1>6
  <1>10. (N - 1) * step + n >= L
    <2>1. (N - 1) * step \in Int /\ (N - 1) * step >= N - 1
      BY <1>1, <1>6, NextStep
    <2>2. N > L \/ ~ (N - 1) * step + n < L
      BY <1>1, <1>6
    <2>3. QED BY <1>1, <1>6, <2>1, <2>2
  <1>11. QED
    BY <1>2, <1>6, <1>8, <1>9, <1>10 DEF L

\* One stretch of a text for each chunk: where it begins and where it ends.
Stretches(body, chunks, from, to) ==
    /\ Len(chunks) \in Nat /\ DOMAIN chunks = 1..Len(chunks)
    /\ \A k \in DOMAIN chunks :
          /\ chunks[k].index = k - 1
          /\ chunks[k].body = SubSeq(body, from[k], to[k])
          /\ from[k] \in DOMAIN body /\ to[k] \in DOMAIN body /\ from[k] <= to[k]
    /\ body # <<>> =>
          /\ Len(chunks) > 0
          /\ from[1] = 1
          /\ to[Len(chunks)] = Len(body)
    /\ \A k \in 2..Len(chunks) :
          /\ from[k - 1] < from[k] /\ from[k] <= to[k - 1]
          /\ to[k - 1] < to[k]

LEMMA IndexChanged ==
    ASSUME NEW a, NEW b, NEW c, NEW d, NEW index
    PROVE  [[crumb |-> a, body |-> b, index |-> c, contextual |-> d]
               EXCEPT !.index = index]
              = [crumb |-> a, body |-> b, index |-> index, contextual |-> d]
  OBVIOUS

LEMMA Renumbered ==
    ASSUME NEW crumb, NEW body, NEW old, NEW index
    PROVE  [piece(crumb, body, old) EXCEPT !.index = index] = piece(crumb, body, index)
  <1>1. PICK no : no = FALSE
    OBVIOUS
  <1>2. \A i : piece(crumb, body, i)
                 = [crumb |-> crumb, body |-> body, index |-> i, contextual |-> no]
    BY <1>1 DEF piece
  <1>3. QED BY <1>2, IndexChanged

LEMMA RecursiveWindows ==
    ASSUME NEW S, NEW body \in Seq(S), body # <<>>, Len(body) * LineLength > ChunkSize
    PROVE  LET cuts == windows(body, split_length(ChunkSize),
                               split_length(ChunkSize) - split_overlap(ChunkSize))
           IN  recursive(body) = [i \in DOMAIN cuts |-> piece(<<>>, cuts[i], i - 1)]
  <1> DEFINE cuts == windows(body, split_length(ChunkSize),
                             split_length(ChunkSize) - split_overlap(ChunkSize))
             zeros == [i \in DOMAIN cuts |-> piece(<<>>, cuts[i], 0)]
  <1>1. ~ Len(body) * LineLength <= ChunkSize
    BY ChunkingAssumption
  <1>2. recursive(body) = numbered(zeros)
    BY <1>1 DEF recursive
  <1> HIDE DEF cuts
  <1>3. ASSUME NEW i \in DOMAIN cuts
        PROVE  [zeros[i] EXCEPT !.index = i - 1] = piece(<<>>, cuts[i], i - 1)
    <2>1. zeros[i] = piece(<<>>, cuts[i], 0)
      OBVIOUS
    <2>2. QED BY <2>1, Renumbered
  <1> HIDE DEF zeros
  <1>4. numbered(zeros) = [i \in DOMAIN cuts |-> piece(<<>>, cuts[i], i - 1)]
    <2>1. DOMAIN zeros = DOMAIN cuts
      BY DEF zeros
    <2>2. QED BY <1>3, <2>1 DEF numbered
  <1>5. QED BY <1>2, <1>4 DEF cuts, zeros

\* Whatever the chunk size, even 0, and however long the text: the chunks are
\* numbered from 0, each is a stretch of the text, the first begins and the last
\* ends with it, and each begins after the one before it began, before or where
\* that one ends, and ends later (recursive.py:25).
THEOREM SplittingFollowsTheText ==
    ASSUME NEW S, NEW body \in Seq(S)
    PROVE  \E from, to : Stretches(body, recursive(body), from, to)
  <1>1. CASE body = <<>>
    <2>1. recursive(body) = <<>>
      BY <1>1 DEF recursive
    <2>2. DOMAIN recursive(body) = {} /\ Len(recursive(body)) = 0
      BY <2>1
    <2>3. QED BY <1>1, <2>2 DEF Stretches
  <1>2. CASE body # <<>> /\ Len(body) * LineLength <= ChunkSize
    <2>1. recursive(body) = <<piece(<<>>, body, 0)>>
      BY <1>2 DEF recursive
    <2> DEFINE from == [k \in 1..1 |-> 1]
               to == [k \in 1..1 |-> Len(body)]
    <2>2. DOMAIN recursive(body) = 1..1 /\ Len(recursive(body)) = 1
      BY <2>1
    <2>3. Len(body) \in Nat \ {0} /\ DOMAIN body = 1..Len(body)
      BY <1>2
    <2>4. SubSeq(body, 1, Len(body)) = body
      OBVIOUS
    <2>5. recursive(body)[1].index = 0 /\ recursive(body)[1].body = body
      BY <2>1 DEF piece
    <2>6. Stretches(body, recursive(body), from, to)
      BY <2>1, <2>2, <2>3, <2>4, <2>5 DEF Stretches
    <2>7. QED BY <2>6
  <1>3. CASE body # <<>> /\ Len(body) * LineLength > ChunkSize
    <2> DEFINE n == split_length(ChunkSize)
               step == n - split_overlap(ChunkSize)
               L == Len(body)
               cuts == windows(body, n, step)
               chunks == recursive(body)
    <2>1. /\ n \in Nat \ {0} /\ step \in 1..n /\ step < n
          /\ L \in Nat \ {0} /\ DOMAIN body = 1..L
      BY <1>3, LengthIsTwo
    <2>2. chunks = [i \in DOMAIN cuts |-> piece(<<>>, cuts[i], i - 1)]
      BY <1>3, RecursiveWindows
    <2> HIDE DEF n, step
    <2>3. PICK N \in Nat \ {0} :
             /\ cuts = [i \in 1..N |-> SubSeq(body, (i - 1) * step + 1,
                                             cut_end(body, n, step, i - 1))]
             /\ \A k \in 1..N - 1 : (k - 1) * step + n < L
             /\ (N - 1) * step + n >= L
      BY <1>3, <2>1, WindowsEnd
    <2> HIDE DEF cuts, chunks
    <2> DEFINE from == [k \in 1..N |-> (k - 1) * step + 1]
               to == [k \in 1..N |-> cut_end(body, n, step, k - 1)]
    <2>4. DOMAIN chunks = 1..N /\ Len(chunks) = N /\ chunks # <<>>
      <3>1. DOMAIN cuts = 1..N
        BY <2>3
      <3>2. chunks = [i \in 1..N |-> piece(<<>>, cuts[i], i - 1)]
        BY <2>2, <3>1
      <3>3. DOMAIN chunks = 1..N /\ Len(chunks) = N
        BY <3>2
      <3>4. QED BY <3>3
    <2>5. ASSUME NEW k \in 1..N
          PROVE  /\ chunks[k].index = k - 1
                 /\ chunks[k].body = SubSeq(body, from[k], to[k])
      BY <2>2, <2>3 DEF piece
    <2>6. ASSUME NEW k \in 1..N
          PROVE  /\ k # N => to[k] = from[k] + n - 1 /\ to[k] < L
                 /\ k = N => to[k] = L
                 /\ from[k] \in Nat \ {0}
                 /\ k > 1 => from[k] = from[k - 1] + step
      <3>1. k \in Int /\ k - 1 \in Int /\ k - 1 >= 0 /\ (k > 1 => k - 1 \in 1..N - 1)
        OBVIOUS
      <3>2. /\ (k - 1) * step \in Int
            /\ (k - 1) * step >= k - 1
            /\ (k - 2) * step = (k - 1) * step - step
        <4>1. k - 1 - 1 = k - 2
          BY <3>1
        <4>2. step \in Nat \ {0}
          BY <2>1
        <4>3. QED BY <3>1, <4>1, <4>2, NextStep
      <3>3. k > 1 => from[k - 1] = (k - 2) * step + 1
        <4>1. k > 1 => (k - 1) - 1 = k - 2
          BY <3>1
        <4>2. QED BY <3>1, <4>1
      <3>4. k # N => (k - 1) * step + n < L
        BY <2>3
      <3>5. from[k] = (k - 1) * step + 1 /\ to[k] = cut_end(body, n, step, k - 1)
        OBVIOUS
      <3>6. k # N => cut_end(body, n, step, k - 1) = (k - 1) * step + n
        BY <3>4 DEF cut_end
      <3>7. k = N => cut_end(body, n, step, k - 1) = L
        <4>1. (N - 1) * step \in Int
          BY <2>1, <2>3
        <4>2. ~ (N - 1) * step + n < L
          BY <2>1, <2>3, <4>1
        <4>3. cut_end(body, n, step, N - 1) = L
          BY <4>2 DEF cut_end
        <4>4. QED BY <4>3
      <3> HIDE DEF from, to, L
      <3>8. QED BY <2>1, <3>1, <3>2, <3>3, <3>4, <3>5, <3>6, <3>7
    <2> HIDE DEF from, to
    <2>7. ASSUME NEW k \in 2..N
          PROVE  /\ from[k - 1] < from[k] /\ from[k] <= to[k - 1]
                 /\ to[k - 1] < L
                 /\ from[k] <= L
      <3>1. k \in 1..N /\ k - 1 \in 1..N /\ k - 1 # N /\ k > 1
        OBVIOUS
      <3>2. /\ to[k - 1] = from[k - 1] + n - 1 /\ to[k - 1] < L
            /\ from[k - 1] \in Nat \ {0} /\ from[k] = from[k - 1] + step
        BY <2>6, <3>1
      <3>3. QED BY <2>1, <3>2
    <2>8. ASSUME NEW k \in 1..N
          PROVE  from[k] \in 1..L /\ to[k] \in 1..L /\ from[k] <= to[k]
      <3>1. from[1] = 1
        BY <2>1, <2>3, NextStep DEF from
      <3>2. from[k] \in Nat \ {0} /\ from[k] <= L
        BY <2>1, <2>6, <2>7, <3>1
      <3>3. QED BY <2>1, <2>6, <3>2
    <2>9. ASSUME NEW k \in 2..N PROVE to[k - 1] < to[k]
      <3>1. k \in 1..N /\ k - 1 \in 1..N /\ k - 1 # N /\ k > 1
        OBVIOUS
      <3>2. CASE k = N
        BY <2>7, <2>6, <3>1, <3>2
      <3>3. CASE k # N
        <4>1. /\ to[k - 1] = from[k - 1] + n - 1 /\ to[k] = from[k] + n - 1
              /\ from[k - 1] < from[k]
              /\ from[k - 1] \in Nat /\ from[k] \in Nat
          BY <2>6, <2>7, <3>1, <3>3
        <4>2. QED BY <2>1, <4>1
      <3>4. QED BY <3>2, <3>3
    <2>10. from[1] = 1 /\ to[N] = L
      <3>1. 1 \in 1..N /\ N \in 1..N
        BY <2>3
      <3>2. from[1] = 1
        BY <2>1, <3>1, NextStep DEF from
      <3>3. QED BY <2>6, <3>1, <3>2
    <2>11. Stretches(body, chunks, from, to)
      <3>1. /\ Len(chunks) = N /\ Len(chunks) \in Nat /\ DOMAIN chunks = 1..Len(chunks)
            /\ Len(chunks) > 0
        BY <2>4
      <3>2. \A k \in DOMAIN chunks :
               /\ chunks[k].index = k - 1
               /\ chunks[k].body = SubSeq(body, from[k], to[k])
        BY <2>4, <2>5
      <3>3. \A k \in DOMAIN chunks :
               from[k] \in DOMAIN body /\ to[k] \in DOMAIN body /\ from[k] <= to[k]
        BY <2>1, <2>4, <2>8
      <3>4. \A k \in 2..Len(chunks) :
               /\ from[k - 1] < from[k] /\ from[k] <= to[k - 1]
               /\ to[k - 1] < to[k]
        BY <3>1, <2>7, <2>9
      <3>5. from[1] = 1 /\ to[Len(chunks)] = Len(body)
        BY <3>1, <2>10
      <3> HIDE DEF L
      <3>6. QED BY <3>1, <3>2, <3>3, <3>4, <3>5 DEF Stretches
    <2>12. QED BY <2>11 DEF chunks
  <1>4. QED
    BY <1>1, <1>2, <1>3, ChunkingAssumption

\* No sentence is lost: each is in a chunk.
THEOREM SplittingKeepsAll ==
    ASSUME NEW S, NEW body \in Seq(S), NEW p \in DOMAIN body
    PROVE  \E k \in DOMAIN recursive(body) : body[p] \in ToSet(recursive(body)[k].body)
  <1> DEFINE chunks == recursive(body)
             N == Len(chunks)
  <1>1. PICK from, to : Stretches(body, chunks, from, to)
    BY SplittingFollowsTheText
  <1>2. body # <<>> /\ p \in 1..Len(body)
    OBVIOUS
  <1>3. /\ N \in Nat \ {0} /\ DOMAIN chunks = 1..N
        /\ from[1] = 1 /\ to[N] = Len(body)
    <2>1. N \in Nat \ {0} /\ DOMAIN chunks = 1..N
      BY <1>1, <1>2 DEF Stretches
    <2>2. QED BY <1>1, <1>2, <2>1 DEF Stretches
  <1> HIDE DEF chunks, N
  <1> DEFINE T == {k \in 1..N : to[k] >= p}
  <1>4. PICK k \in T : \A j \in T : k <= j
    <2>1. N \in T
      BY <1>2, <1>3
    <2>2. T \in SUBSET Nat /\ T # {}
      BY <2>1
    <2> HIDE DEF T
    <2>3. QED BY <2>2, LeastExists
  <1>5. /\ chunks[k].body = SubSeq(body, from[k], to[k])
        /\ from[k] \in 1..Len(body) /\ to[k] \in 1..Len(body)
        /\ from[k] <= to[k] /\ p <= to[k]
    BY <1>1, <1>2, <1>3 DEF Stretches, N
  <1>6. from[k] <= p
    <2>1. CASE k = 1
      BY <1>2, <1>3, <2>1
    <2>2. CASE k # 1
      <3>1. k \in 2..N /\ k - 1 \in 1..N /\ ~ k <= k - 1
        BY <1>3, <2>2
      <3>2. k - 1 \notin T
        BY <1>4, <3>1
      <3>3. from[k] <= to[k - 1] /\ to[k - 1] \in 1..Len(body)
        <4>1. /\ \A j \in 2..N : from[j] <= to[j - 1]
              /\ \A j \in 1..N : to[j] \in DOMAIN body
          BY <1>1, <1>3 DEF Stretches, N
        <4>2. DOMAIN body = 1..Len(body)
          OBVIOUS
        <4>3. QED BY <3>1, <4>1, <4>2
      <3>4. to[k - 1] < p
        BY <1>2, <3>1, <3>2, <3>3
      <3>5. QED BY <1>2, <1>5, <3>3, <3>4
    <2>3. QED BY <2>1, <2>2
  <1>7. body[p] = SubSeq(body, from[k], to[k])[p - from[k] + 1]
           /\ p - from[k] + 1 \in DOMAIN SubSeq(body, from[k], to[k])
    <2>1. ASSUME NEW f \in 1..Len(body), NEW t \in 1..Len(body), f <= p, p <= t
          PROVE  body[p] = SubSeq(body, f, t)[p - f + 1]
                    /\ p - f + 1 \in DOMAIN SubSeq(body, f, t)
      <3>1. p - f + 1 \in 1..(t - f + 1) /\ f + (p - f + 1) - 1 = p
        BY <1>2, <2>1
      <3>2. /\ DOMAIN SubSeq(body, f, t) = 1..(t - f + 1)
            /\ \A j \in 1..(t - f + 1) : SubSeq(body, f, t)[j] = body[f + j - 1]
        BY <2>1
      <3>3. QED BY <3>1, <3>2
    <2>2. from[k] \in 1..Len(body) /\ to[k] \in 1..Len(body) /\ from[k] <= p /\ p <= to[k]
      BY <1>5, <1>6
    <2>3. QED BY <2>1, <2>2
  <1> DEFINE b == chunks[k].body
             i == p - from[k] + 1
  <1>8. i \in DOMAIN b /\ b[i] = body[p]
    <2> HIDE DEF N, T
    <2>1. b = SubSeq(body, from[k], to[k])
      BY <1>5
    <2>2. body[p] = b[i] /\ i \in DOMAIN b
      BY <1>7, <2>1
    <2> HIDE DEF b, i
    <2>3. QED BY <2>2
  <1>9. k \in DOMAIN chunks
    BY <1>3
  <1>10. body[p] \in ToSet(b)
    <2> HIDE DEF b, i
    <2>1. QED BY <1>8 DEF ToSet
  <1>11. QED
    BY <1>9, <1>10 DEF chunks

(***************************************************************************)
(* The scan for personal data                                              *)
(***************************************************************************)

\* What one pattern finds.
DisjointSpans(S) ==
    /\ IsFiniteSet(S)
    /\ \A s \in S : s[1] \in Int /\ s[2] \in Int /\ s[1] <= s[2]
    /\ \A s, t \in S : s = t \/ places(s) \cap places(t) = {}

\* The order by a key is one-to-one, rises, and leaves no element out.
Sorted(S, key, order) ==
    LET n == Cardinality(S)
    IN  /\ n \in Nat
        /\ order \in [1..n -> S]
        /\ \A i, j \in 1..n : i < j => key[order[i]] < key[order[j]]
        /\ \A x \in S : \E i \in 1..n : order[i] = x

LEMMA ByKey ==
    ASSUME NEW S, IsFiniteSet(S), NEW key \in [S -> Int],
           \A x, y \in S : key[x] = key[y] => x = y
    PROVE  Sorted(S, key, by_key(S, key))
  <1> DEFINE n == Cardinality(S)
             order == by_key(S, key)
             low(x) == {y \in S : key[y] <= key[x]}
             rank == [x \in S |-> Cardinality(low(x))]
  <1>1. n \in Nat /\ \A x \in S : key[x] \in Int
    BY FS_CardinalityType
  <1>2. IsFiniteSet(1..n) /\ Cardinality(1..n) = n
    <2> HIDE DEF n
    <2>1. QED BY <1>1, FS_Interval
  <1>3. ASSUME NEW x \in S
        PROVE  IsFiniteSet(low(x)) /\ rank[x] \in 1..n
    <2>1. low(x) \in SUBSET S /\ x \in low(x)
      BY <1>1
    <2> HIDE DEF low
    <2>2. IsFiniteSet(low(x)) /\ Cardinality(low(x)) <= n
      BY <2>1, FS_Subset
    <2>3. Cardinality(low(x)) \in Nat /\ Cardinality(low(x)) # 0
      BY <2>1, <2>2, FS_EmptySet, FS_CardinalityType
    <2> HIDE DEF n
    <2>4. QED BY <1>1, <2>2, <2>3
  <1>4. ASSUME NEW x \in S, NEW y \in S, key[x] < key[y]
        PROVE  rank[x] < rank[y]
    <2>1. low(x) \in SUBSET low(y) /\ y \in low(y) /\ y \notin low(x)
      BY <1>1, <1>4
    <2>2. IsFiniteSet(low(x)) /\ IsFiniteSet(low(y)) /\ rank[x] \in 1..n /\ rank[y] \in 1..n
      BY <1>3
    <2> HIDE DEF low, n
    <2>3. Cardinality(low(x)) <= Cardinality(low(y))
          /\ (Cardinality(low(y)) = Cardinality(low(x)) => low(y) = low(x))
      BY <2>1, <2>2, FS_Subset
    <2>4. rank[x] = Cardinality(low(x)) /\ rank[y] = Cardinality(low(y))
      OBVIOUS
    <2> HIDE DEF rank
    <2>5. QED BY <1>1, <2>1, <2>2, <2>3, <2>4
  <1>5. order = [i \in 1..n |-> CHOOSE x \in S : rank[x] = i]
    <2>1. \A x \in S : rank[x] = Cardinality({y \in S : key[y] <= key[x]})
      OBVIOUS
    <2> HIDE DEF rank, low
    <2> DEFINE a(i) == CHOOSE x \in S : rank[x] = i
               b(i) == CHOOSE x \in S : Cardinality({y \in S : key[y] <= key[x]}) = i
    <2>2. \A i : a(i) = b(i)
      BY <2>1
    <2>3. order = [i \in 1..n |-> b(i)]
      BY DEF by_key
    <2> HIDE DEF a, b, order, n
    <2>4. order = [i \in 1..n |-> a(i)]
      BY <2>2, <2>3
    <2>5. QED BY <2>4 DEF a
  <1> HIDE DEF low, n, order
  <1>6. rank \in Injection(S, 1..n)
    <2>1. rank \in [S -> 1..n]
      <3>1. rank = [x \in S |-> rank[x]]
        OBVIOUS
      <3> HIDE DEF rank
      <3>2. QED BY <1>3, <3>1
    <2> HIDE DEF rank
    <2>2. ASSUME NEW x \in S, NEW y \in S, rank[x] = rank[y]
          PROVE  x = y
      <3>1. rank[x] \in Int /\ rank[y] \in Int
        BY <1>1, <1>3
      <3>2. ~ key[x] < key[y] /\ ~ key[y] < key[x]
        BY <1>4, <2>2, <3>1
      <3>3. QED BY <1>1, <3>2
    <2>3. QED BY <2>1, <2>2 DEF Injection, IsInjective
  <1> HIDE DEF rank
  <1>7. rank \in Surjection(S, 1..n)
    BY <1>1, <1>2, <1>6, FS_Injection DEF n
  <1>8. ASSUME NEW i \in 1..n
        PROVE  order[i] \in S /\ rank[order[i]] = i
    <2>1. \E x \in S : rank[x] = i
      BY <1>7 DEF Surjection
    <2>2. order[i] = CHOOSE x \in S : rank[x] = i
      BY <1>5
    <2>3. QED BY <2>1, <2>2
  <1>9. order \in [1..n -> S]
    BY <1>5, <1>8
  <1>10. ASSUME NEW i \in 1..n, NEW j \in 1..n, i < j
         PROVE  key[order[i]] < key[order[j]]
    <2>1. /\ order[i] \in S /\ order[j] \in S
          /\ rank[order[i]] = i /\ rank[order[j]] = j
      BY <1>8
    <2>2. ~ key[order[j]] < key[order[i]] /\ order[i] # order[j]
      <3>1. i \in Int /\ j \in Int
        BY <1>1
      <3>2. key[order[j]] < key[order[i]] => j < i
        BY <1>4, <2>1
      <3>3. QED BY <1>10, <2>1, <3>1, <3>2
    <2>3. key[order[i]] \in Int /\ key[order[j]] \in Int /\ key[order[i]] # key[order[j]]
      BY <1>1, <2>1, <2>2
    <2>4. QED BY <2>2, <2>3
  <1>11. ASSUME NEW x \in S
         PROVE  \E i \in 1..n : order[i] = x
    <2>1. rank[x] \in 1..n
      BY <1>3
    <2>2. order[rank[x]] \in S /\ rank[order[rank[x]]] = rank[x]
      BY <1>8, <2>1
    <2>3. order[rank[x]] = x
      BY <1>6, <2>2 DEF Injection, IsInjective
    <2>4. QED BY <2>1, <2>3
  <1>12. QED
    BY <1>1, <1>9, <1>10, <1>11 DEF Sorted, n, order

\* Different elements of the order have different numbers.
LEMMA SortedApart ==
    ASSUME NEW S, NEW key, NEW order, Sorted(S, key, order), key \in [S -> Int],
           NEW i \in 1..Cardinality(S), NEW j \in 1..Cardinality(S), i # j
    PROVE  order[i] # order[j]
  <1>1. /\ order[i] \in S /\ order[j] \in S
        /\ i \in Int /\ j \in Int
    BY DEF Sorted
  <1>2. key[order[i]] \in Int
    BY <1>1
  <1>3. i < j \/ j < i
    BY <1>1
  <1>4. key[order[i]] < key[order[j]] \/ key[order[j]] < key[order[i]]
    BY <1>3 DEF Sorted
  <1>5. QED BY <1>2, <1>4

LEMMA StartsDiffer ==
    ASSUME NEW S, DisjointSpans(S), NEW s \in S, NEW t \in S, s[1] = t[1]
    PROVE  s = t
  <1>1. s[1] \in places(s) /\ t[1] \in places(t)
    BY DEF DisjointSpans, places
  <1>2. QED BY <1>1 DEF DisjointSpans

LEMMA InOrder ==
    ASSUME NEW S, DisjointSpans(S)
    PROVE  LET n == Cardinality(S)
               order == left_to_right(S)
           IN  /\ n \in Nat
               /\ order \in [1..n -> S]
               /\ \A i, j \in 1..n : i # j => order[i] # order[j]
               /\ \A s \in S : \E i \in 1..n : order[i] = s
  <1> DEFINE key == [s \in S |-> s[1]]
  <1>1. /\ IsFiniteSet(S) /\ key \in [S -> Int]
        /\ \A s, t \in S : key[s] = key[t] => s = t
    BY StartsDiffer DEF DisjointSpans
  <1>2. left_to_right(S) = by_key(S, key)
    BY DEF left_to_right
  <1> HIDE DEF key
  <1>3. Sorted(S, key, left_to_right(S))
    BY <1>1, <1>2, ByKey
  <1>4. \A i, j \in 1..Cardinality(S) : i # j => left_to_right(S)[i] # left_to_right(S)[j]
    BY <1>1, <1>3, SortedApart
  <1>5. QED BY <1>3, <1>4 DEF Sorted

Kind == {"resident", "email", "account"}
Match == [kind : Kind, start : Int, end : Int]
extent(m) == m.start..m.end

\* No two candidates share a place.
Apart(c) ==
    \A i, j \in DOMAIN c : i # j => extent(c[i]) \cap extent(c[j]) = {}

Follow(M, c, n, e, r) ==
    /\ r \in Seq(M)
    /\ DOMAIN r = 1..Len(c) + n
    /\ \A i \in 1..Len(c) : r[i] = c[i]
    /\ \A i \in 1..n : r[Len(c) + i] = e[i]

LEMMA Appended ==
    ASSUME NEW M, NEW c \in Seq(M), NEW n \in Nat, NEW e \in [1..n -> M]
    PROVE  Follow(M, c, n, e, c \o e)
  BY DEF Follow

\* What the scan for one kind makes of the candidates c.
Adds(c, kind, spans, dates, r) ==
    /\ r \in Seq(Match) /\ Apart(r)
    /\ \A i \in DOMAIN c : i \in DOMAIN r /\ r[i] = c[i]
    /\ \A i \in DOMAIN r \ DOMAIN c :
          r[i].kind = kind /\ \E s \in spans : r[i] = match(kind, s)
    /\ \A s \in spans :
          \/ \E i \in DOMAIN r : r[i] = match(kind, s)
          \/ kind \in NeverInDates /\ touches(s, dates)
          \/ \E i \in DOMAIN c : touches(s, extent(c[i]))

LEMMA ScanKind ==
    ASSUME NEW c \in Seq(Match), Apart(c), NEW kind \in Kind, NEW spans,
           DisjointSpans(spans), NEW dates
    PROVE  Adds(c, kind, spans, dates, scan_kind(c, kind, spans, dates))
  <1> DEFINE S == {s \in spans : /\ ~touches(s, occupied(c))
                                 /\ ~(kind \in NeverInDates /\ touches(s, dates))}
             n == Cardinality(S)
             order == left_to_right(S)
             e == [i \in DOMAIN order |-> match(kind, order[i])]
             r == scan_kind(c, kind, spans, dates)
  <1>1. r = c \o e
    BY DEF scan_kind
  <1>2. DisjointSpans(S)
    <2>1. IsFiniteSet(S)
      <3>1. IsFiniteSet(spans) /\ S \in SUBSET spans
        BY DEF DisjointSpans
      <3> HIDE DEF S
      <3>2. QED BY <3>1, FS_Subset
    <2>2. QED BY <2>1 DEF DisjointSpans
  <1>3. ASSUME NEW s \in S
        PROVE  /\ match(kind, s) \in Match
               /\ match(kind, s).kind = kind
               /\ extent(match(kind, s)) = places(s)
               /\ \A i \in DOMAIN c : places(s) \cap extent(c[i]) = {}
    <2>1. match(kind, s) \in Match /\ match(kind, s).kind = kind
      BY DEF DisjointSpans, match, Match
    <2>2. extent(match(kind, s)) = places(s)
      BY DEF match, extent, places
    <2>3. \A i \in DOMAIN c : places(s) \cap extent(c[i]) = {}
      BY DEF touches, occupied, extent
    <2>4. QED BY <2>1, <2>2, <2>3
  <1>4. ASSUME NEW s \in spans, s \notin S
        PROVE  \/ kind \in NeverInDates /\ touches(s, dates)
               \/ \E i \in DOMAIN c : touches(s, extent(c[i]))
    BY <1>4 DEF touches, occupied, extent
  <1>5. \A s, t \in S : s = t \/ places(s) \cap places(t) = {}
    BY <1>2 DEF DisjointSpans
  <1>6. /\ n \in Nat
        /\ order \in [1..n -> S]
        /\ \A i, j \in 1..n : i # j => order[i] # order[j]
        /\ \A s \in S : \E i \in 1..n : order[i] = s
    <2> HIDE DEF S
    <2>1. QED BY <1>2, InOrder
  <1>7. S \subseteq spans
    OBVIOUS
  <1> HIDE DEF S, n, order, r
  <1>8. e \in [1..n -> Match] /\ \A i \in 1..n : order[i] \in S /\ e[i] = match(kind, order[i])
    BY <1>3, <1>6
  <1> HIDE DEF e
  <1> DEFINE L == Len(c)
  <1>9. L \in Nat /\ DOMAIN c = 1..L
    OBVIOUS
  <1>10. /\ r \in Seq(Match)
         /\ DOMAIN r = 1..L + n
         /\ \A i \in 1..L : r[i] = c[i]
         /\ \A i \in 1..n : r[L + i] = e[i]
    <2>1. Follow(Match, c, n, e, c \o e)
      BY <1>6, <1>8, Appended
    <2>2. Follow(Match, c, n, e, r)
      BY <1>1, <2>1
    <2>3. QED BY <2>2 DEF Follow
  <1> HIDE DEF L
  <1>11. ASSUME NEW i \in DOMAIN r
         PROVE  \/ i \in 1..L /\ r[i] = c[i]
                \/ /\ i \notin 1..L
                   /\ i - L \in 1..n
                   /\ r[i] = match(kind, order[i - L])
    <2>1. i \in 1..L + n
      BY <1>10
    <2>2. i \in 1..L \/ (i \notin 1..L /\ i - L \in 1..n /\ L + (i - L) = i)
      BY <1>6, <1>9, <2>1
    <2>3. QED BY <1>8, <1>10, <2>2
  <1>12. Apart(r)
    <2> SUFFICES ASSUME NEW i \in DOMAIN r, NEW j \in DOMAIN r, i # j
                 PROVE  extent(r[i]) \cap extent(r[j]) = {}
      BY DEF Apart
    <2>1. CASE i \in 1..L /\ j \in 1..L
      BY <1>9, <1>11, <2>1 DEF Apart
    <2>2. CASE i \in 1..L /\ j \notin 1..L
      <3>1. r[i] = c[i] /\ j - L \in 1..n /\ r[j] = match(kind, order[j - L])
        BY <1>11, <2>2
      <3>2. order[j - L] \in S
        BY <1>8, <3>1
      <3>3. QED BY <1>3, <1>9, <2>2, <3>1, <3>2
    <2>3. CASE i \notin 1..L /\ j \in 1..L
      <3>1. r[j] = c[j] /\ i - L \in 1..n /\ r[i] = match(kind, order[i - L])
        BY <1>11, <2>3
      <3>2. order[i - L] \in S
        BY <1>8, <3>1
      <3>3. QED BY <1>3, <1>9, <2>3, <3>1, <3>2
    <2>4. CASE i \notin 1..L /\ j \notin 1..L
      <3>1. /\ i - L \in 1..n /\ r[i] = match(kind, order[i - L])
            /\ j - L \in 1..n /\ r[j] = match(kind, order[j - L])
        BY <1>11, <2>4
      <3>2. i - L # j - L
        <4>1. i \in Int /\ j \in Int
          BY <1>6, <1>9, <1>10
        <4>2. QED BY <1>9, <4>1
      <3>3. /\ order[i - L] \in S /\ order[j - L] \in S
            /\ order[i - L] # order[j - L]
        BY <1>6, <1>8, <3>1, <3>2
      <3>4. places(order[i - L]) \cap places(order[j - L]) = {}
        BY <1>5, <3>3
      <3>5. QED BY <1>3, <3>1, <3>3, <3>4
    <2>5. QED BY <2>1, <2>2, <2>3, <2>4
  <1>13. \A i \in DOMAIN c : i \in DOMAIN r /\ r[i] = c[i]
    BY <1>6, <1>9, <1>10
  <1>14. ASSUME NEW i \in DOMAIN r \ DOMAIN c
         PROVE  r[i].kind = kind /\ \E s \in spans : r[i] = match(kind, s)
    <2>1. i \notin 1..L
      BY <1>9
    <2>2. i - L \in 1..n /\ r[i] = match(kind, order[i - L])
      BY <1>11, <2>1
    <2>3. order[i - L] \in S
      BY <1>8, <2>2
    <2>4. QED BY <1>3, <1>7, <2>2, <2>3
  <1>15. ASSUME NEW s \in S
         PROVE  \E i \in DOMAIN r : r[i] = match(kind, s)
    <2>1. PICK i \in 1..n : order[i] = s
      BY <1>6
    <2>2. L + i \in 1..L + n
      BY <1>6, <1>9
    <2>3. L + i \in DOMAIN r /\ r[L + i] = e[i] /\ e[i] = match(kind, s)
      BY <1>8, <1>10, <2>1, <2>2
    <2>4. QED BY <2>3
  <1>16. QED
    BY <1>4, <1>10, <1>12, <1>13, <1>14, <1>15 DEF r, Adds

\* The scan is the three patterns one after the other.
LEMMA ScanUnrolled ==
    ASSUME NEW finds, NEW dates
    PROVE  regex_scan(finds, dates)
              = scan_kind(scan_kind(scan_kind(<<>>, "resident", finds["resident"], dates),
                                    "email", finds["email"], dates),
                          "account", finds["account"], dates)
  <1> DEFINE op(kind, c) == scan_kind(c, kind, finds[kind], dates)
             step(f, s) == IF s = {} THEN <<>>
                           ELSE op(Ordered[Max(s)], f[s \ {Max(s)}])
             iter == CHOOSE f : f = [s \in SUBSET (1..3) |-> step(f, s)]
             one(s) == IF 1 \in s THEN op("resident", <<>>) ELSE <<>>
             two(s) == IF 2 \in s THEN op("email", one(s)) ELSE one(s)
             all(s) == IF 3 \in s THEN op("account", two(s)) ELSE two(s)
             g == [s \in SUBSET (1..3) |-> all(s)]
  <1>1. /\ DOMAIN Ordered = 1..3
        /\ Ordered[1] = "resident" /\ Ordered[2] = "email" /\ Ordered[3] = "account"
    BY DEF Ordered
  <1>2. regex_scan(finds, dates) = iter[1..3]
    BY <1>1 DEF regex_scan, FoldLeft, MapThenFoldSet
  <1>3. ASSUME NEW s \in SUBSET (1..3)
        PROVE  /\ 3 \in s => Max(s) = 3
               /\ 3 \notin s /\ 2 \in s => Max(s) = 2
               /\ 3 \notin s /\ 2 \notin s /\ 1 \in s => Max(s) = 1
               /\ 3 \notin s /\ 2 \notin s /\ 1 \notin s => s = {}
    <2>1. \A m \in s : (\A x \in s : x <= m) => Max(s) = m
      <3>1. s \in SUBSET Int /\ IsFiniteSet(s)
        BY PartOfInterval
      <3>2. QED BY <3>1, MaxIsOne
    <2>2. QED BY <2>1
  <1>4. ASSUME NEW s \in SUBSET (1..3)
        PROVE  all(s) = step(g, s)
    <2>1. CASE 3 \in s
      BY <1>1, <1>3, <2>1
    <2>2. CASE 3 \notin s /\ 2 \in s
      BY <1>1, <1>3, <2>2
    <2>3. CASE 3 \notin s /\ 2 \notin s /\ 1 \in s
      BY <1>1, <1>3, <2>3
    <2>4. CASE 3 \notin s /\ 2 \notin s /\ 1 \notin s
      BY <1>3, <2>4
    <2>5. QED BY <2>1, <2>2, <2>3, <2>4
  <1>5. g = [s \in SUBSET (1..3) |-> step(g, s)]
    <2>1. g = [s \in SUBSET (1..3) |-> all(s)]
      OBVIOUS
    <2> HIDE DEF all, step, g
    <2>2. QED BY <1>4, <2>1
  <1>6. iter = [s \in SUBSET (1..3) |-> step(iter, s)]
    <2> HIDE DEF step, g
    <2>1. QED BY <1>5
  <1> HIDE DEF iter, op, g
  <1>7. /\ {} \in SUBSET (1..3) /\ {1} \in SUBSET (1..3) /\ {1, 2} \in SUBSET (1..3)
        /\ 1..3 \in SUBSET (1..3)
        /\ (1..3) \ {3} = {1, 2} /\ {1, 2} \ {2} = {1} /\ {1} \ {1} = {}
    OBVIOUS
  <1>8. iter[{}] = <<>>
    BY <1>6, <1>7
  <1>9. iter[{1}] = op("resident", iter[{}])
    <2>1. Max({1}) = 1 /\ {1} # {}
      BY <1>3, <1>7
    <2>2. iter[{1}] = step(iter, {1})
      BY <1>6, <1>7
    <2>3. step(iter, {1}) = op(Ordered[1], iter[{}])
      BY <1>7, <2>1
    <2>4. QED BY <1>1, <2>2, <2>3
  <1>10. iter[{1, 2}] = op("email", iter[{1}])
    BY <1>1, <1>3, <1>6, <1>7
  <1>11. iter[1..3] = op("account", iter[{1, 2}])
    BY <1>1, <1>3, <1>6, <1>7
  <1>12. QED
    BY <1>2, <1>8, <1>9, <1>10, <1>11 DEF op

\* For texts of any length, any number of finds of each pattern and any dates: no
\* two candidates overlap, and whatever a pattern finds is a candidate, part of a
\* date, or overlaps a candidate of a kind that comes earlier (pii.py:56).
THEOREM ScanningMissesNothing ==
    ASSUME NEW scan, DOMAIN scan.found = Kind,
           \A kind \in Kind : DisjointSpans(scan.found[kind])
    PROVE  ScanMissesNothing(scan)
  <1> DEFINE finds == scan.found
             dates == scan.dates
             one == scan_kind(<<>>, "resident", finds["resident"], dates)
             two == scan_kind(one, "email", finds["email"], dates)
             all == scan_kind(two, "account", finds["account"], dates)
             rank(kind) == CHOOSE i \in DOMAIN Ordered : Ordered[i] = kind
  <1>1. regex_scan(finds, dates) = all
    BY ScanUnrolled
  <1>2. rank("resident") = 1 /\ rank("email") = 2 /\ rank("account") = 3
    BY DEF Ordered
  <1>3. <<>> \in Seq(Match) /\ Apart(<<>>) /\ DOMAIN <<>> = {}
    BY DEF Apart
  <1>4. "resident" \in Kind /\ "email" \in Kind /\ "account" \in Kind
    BY DEF Kind
  <1>5. /\ one \in Seq(Match) /\ Apart(one)
        /\ \A i \in DOMAIN one : one[i].kind = "resident"
        /\ \A s \in finds["resident"] :
              \/ \E i \in DOMAIN one : one[i] = match("resident", s)
              \/ "resident" \in NeverInDates /\ touches(s, dates)
    <2>1. DisjointSpans(finds["resident"])
      BY <1>4
    <2>2. Adds(<<>>, "resident", finds["resident"], dates, one)
      BY <1>3, <1>4, <2>1, ScanKind
    <2> HIDE DEF one
    <2>3. QED BY <1>3, <2>2 DEF Adds
  <1> HIDE DEF one
  <1>6. /\ two \in Seq(Match) /\ Apart(two)
        /\ \A i \in DOMAIN one : i \in DOMAIN two /\ two[i] = one[i]
        /\ \A i \in DOMAIN two \ DOMAIN one : two[i].kind = "email"
        /\ \A s \in finds["email"] :
              \/ \E i \in DOMAIN two : two[i] = match("email", s)
              \/ "email" \in NeverInDates /\ touches(s, dates)
              \/ \E i \in DOMAIN one : touches(s, extent(one[i]))
    <2>1. DisjointSpans(finds["email"])
      BY <1>4
    <2>2. Adds(one, "email", finds["email"], dates, two)
      BY <1>4, <1>5, <2>1, ScanKind
    <2> HIDE DEF two
    <2>3. QED BY <2>2 DEF Adds
  <1> HIDE DEF two
  <1>7. /\ all \in Seq(Match) /\ Apart(all)
        /\ \A i \in DOMAIN two : i \in DOMAIN all /\ all[i] = two[i]
        /\ \A s \in finds["account"] :
              \/ \E i \in DOMAIN all : all[i] = match("account", s)
              \/ "account" \in NeverInDates /\ touches(s, dates)
              \/ \E i \in DOMAIN two : touches(s, extent(two[i]))
    <2>1. DisjointSpans(finds["account"])
      BY <1>4
    <2>2. Adds(two, "account", finds["account"], dates, all)
      BY <1>4, <1>6, <2>1, ScanKind
    <2> HIDE DEF all
    <2>3. QED BY <2>2 DEF Adds
  <1> HIDE DEF all, rank
  <1>8. /\ \A i \in DOMAIN one : i \in DOMAIN all /\ all[i] = one[i]
        /\ \A i \in DOMAIN one : rank(one[i].kind) = 1
        /\ \A i \in DOMAIN two : rank(two[i].kind) \in {1, 2}
    BY <1>2, <1>5, <1>6, <1>7
  <1>9. ASSUME NEW kind \in Kind, NEW s \in finds[kind]
        PROVE  \/ \E i \in DOMAIN all : all[i] = match(kind, s)
               \/ kind \in NeverInDates /\ touches(s, dates)
               \/ \E i \in DOMAIN all : /\ rank(all[i].kind) < rank(kind)
                                        /\ touches(s, extent(all[i]))
    <2>1. CASE kind = "resident"
      BY <1>5, <1>8, <2>1
    <2>2. CASE kind = "email"
      <3>1. CASE \E i \in DOMAIN two : two[i] = match("email", s)
        BY <1>7, <2>2, <3>1
      <3>2. CASE \E i \in DOMAIN one : touches(s, extent(one[i]))
        <4>1. PICK i \in DOMAIN one : touches(s, extent(one[i]))
          BY <3>2
        <4>2. i \in DOMAIN all /\ all[i] = one[i] /\ rank(all[i].kind) < rank(kind)
          BY <1>2, <1>8, <2>2
        <4>3. QED BY <4>1, <4>2
      <3>3. QED BY <1>6, <2>2, <3>1, <3>2
    <2>3. CASE kind = "account"
      <3>1. CASE \E i \in DOMAIN two : touches(s, extent(two[i]))
        <4>1. PICK i \in DOMAIN two : touches(s, extent(two[i]))
          BY <3>1
        <4>2. i \in DOMAIN all /\ all[i] = two[i] /\ rank(all[i].kind) < rank(kind)
          BY <1>2, <1>7, <1>8, <2>3
        <4>3. QED BY <4>1, <4>2
      <3>2. QED BY <1>7, <2>3, <3>1
    <2>4. QED BY <2>1, <2>2, <2>3 DEF Kind
  <1>10. QED
    <2>1. \A i, j \in DOMAIN all : i # j =>
             (all[i].start..all[i].end) \cap (all[j].start..all[j].end) = {}
      BY <1>7 DEF Apart, extent
    <2>2. ScanMissesNothing(scan) <=>
             /\ \A i, j \in DOMAIN all : i # j =>
                  (all[i].start..all[i].end) \cap (all[j].start..all[j].end) = {}
             /\ \A k \in DOMAIN finds : \A s \in finds[k] :
                  \/ \E i \in DOMAIN all : all[i] = match(k, s)
                  \/ k \in NeverInDates /\ touches(s, dates)
                  \/ \E i \in DOMAIN all :
                        /\ rank(all[i].kind) < rank(k)
                        /\ touches(s, all[i].start..all[i].end)
      BY <1>1 DEF ScanMissesNothing, rank
    <2>3. QED BY <1>9, <2>1, <2>2 DEF extent

\* Every candidate is a find of some pattern, and no two share a place.
AreFinds(c, finds) ==
    /\ c \in Seq(Match) /\ Apart(c)
    /\ \A i \in DOMAIN c :
          \E kind \in Kind : \E s \in finds[kind] : c[i] = match(kind, s)

LEMMA CandidatesAreFinds ==
    ASSUME NEW finds, NEW dates, DOMAIN finds = Kind,
           \A kind \in Kind : DisjointSpans(finds[kind])
    PROVE  AreFinds(regex_scan(finds, dates), finds)
  <1> DEFINE one == scan_kind(<<>>, "resident", finds["resident"], dates)
             two == scan_kind(one, "email", finds["email"], dates)
             all == scan_kind(two, "account", finds["account"], dates)
  <1>1. regex_scan(finds, dates) = all
    BY ScanUnrolled
  <1>2. <<>> \in Seq(Match) /\ Apart(<<>>) /\ DOMAIN <<>> = {}
    BY DEF Apart
  <1>3. "resident" \in Kind /\ "email" \in Kind /\ "account" \in Kind
    BY DEF Kind
  <1>4. Adds(<<>>, "resident", finds["resident"], dates, one)
    BY <1>2, <1>3, ScanKind
  <1> HIDE DEF one
  <1>5. Adds(one, "email", finds["email"], dates, two)
    <2>1. one \in Seq(Match) /\ Apart(one) /\ DisjointSpans(finds["email"])
      BY <1>3, <1>4 DEF Adds
    <2>2. QED BY <1>3, <2>1, ScanKind
  <1> HIDE DEF two
  <1>6. Adds(two, "account", finds["account"], dates, all)
    <2>1. two \in Seq(Match) /\ Apart(two) /\ DisjointSpans(finds["account"])
      BY <1>3, <1>5 DEF Adds
    <2>2. QED BY <1>3, <2>1, ScanKind
  <1> HIDE DEF all
  <1> DEFINE Find(m) == \E kind \in Kind : \E s \in finds[kind] : m = match(kind, s)
  <1>7. \A i \in DOMAIN one : Find(one[i])
    BY <1>2, <1>3, <1>4 DEF Adds
  <1>8. \A i \in DOMAIN two : Find(two[i])
    <2>1. \A i \in DOMAIN two \ DOMAIN one : Find(two[i])
      BY <1>3, <1>5 DEF Adds
    <2> HIDE DEF Find
    <2>2. QED BY <1>5, <1>7, <2>1 DEF Adds
  <1>9. \A i \in DOMAIN all : Find(all[i])
    <2>1. \A i \in DOMAIN all \ DOMAIN two : Find(all[i])
      BY <1>3, <1>6 DEF Adds
    <2> HIDE DEF Find
    <2>2. QED BY <1>6, <1>8, <2>1 DEF Adds
  <1>10. all \in Seq(Match) /\ Apart(all)
    BY <1>6 DEF Adds
  <1>11. QED BY <1>1, <1>9, <1>10 DEF AreFinds

(***************************************************************************)
(* The masking                                                             *)
(***************************************************************************)

\* Step by step from a to n.
LEMMA Climbs ==
    ASSUME NEW a \in Int, NEW n \in Int, a <= n, NEW T, a \in T,
           \A k \in a..n : k \in T /\ k < n => k + 1 \in T
    PROVE  \A k \in a..n : k \in T
  <1> DEFINE U == {k \in a..n : \A i \in a..k : i \in T}
  <1>1. U \in SUBSET Int /\ a \in U
    <2>1. \A i \in a..a : i = a
      OBVIOUS
    <2>2. a \in a..n
      OBVIOUS
    <2>3. QED BY <2>1, <2>2
  <1>2. IsFiniteSet(U)
    <2>1. IsFiniteSet(a..n) /\ U \in SUBSET (a..n)
      BY FS_Interval
    <2> HIDE DEF U
    <2>2. QED BY <2>1, FS_Subset
  <1>3. PICK m \in U : \A k \in U : k <= m
    <2> HIDE DEF U
    <2>1. QED BY <1>1, <1>2, GreatestExists
  <1>4. m = n
    <2> SUFFICES ASSUME m # n PROVE FALSE
      OBVIOUS
    <2>1. m \in a..n /\ m \in Int /\ m < n /\ \A i \in a..m : i \in T
      OBVIOUS
    <2>2. m \in T /\ m + 1 \in T /\ m + 1 \in a..n
      BY <2>1
    <2>3. \A i \in a..m + 1 : i \in a..m \/ i = m + 1
      BY <2>1
    <2>4. m + 1 \in U
      BY <2>1, <2>2, <2>3
    <2> HIDE DEF U
    <2>5. m + 1 <= m
      BY <1>3, <2>4
    <2>6. QED BY <2>1, <2>5
  <1>5. QED BY <1>4

\* f tells what the first i pieces make together.
Joined(S, n, q, f) ==
    /\ f \in [0..n -> Seq(S)]
    /\ f[0] = <<>>
    /\ \A i \in 1..n : f[i] = f[i - 1] \o q[i]

LEMMA JoinedExists ==
    ASSUME NEW S, NEW n \in Nat, NEW q \in [1..n -> Seq(S)]
    PROVE  \E f : Joined(S, n, q, f)
  <1> DEFINE T == {k \in 0..n : \E f : Joined(S, k, q, f)}
  <1>1. 0 \in T
    <2> DEFINE f == [i \in 0..0 |-> <<>>]
    <2>1. f \in [0..0 -> Seq(S)] /\ f[0] = <<>>
      OBVIOUS
    <2>2. \A i \in 1..0 : FALSE
      OBVIOUS
    <2>3. Joined(S, 0, q, f)
      BY <2>1, <2>2 DEF Joined
    <2>4. QED BY <2>3
  <1>2. ASSUME NEW k \in 0..n, k \in T, k < n
        PROVE  k + 1 \in T
    <2>1. PICK f : Joined(S, k, q, f)
      BY <1>2
    <2> DEFINE g == [i \in 0..k + 1 |-> IF i = k + 1 THEN f[k] \o q[k + 1] ELSE f[i]]
    <2>2. /\ k \in Nat /\ k + 1 \in 1..n /\ k \in 0..k
          /\ \A i \in 0..k + 1 : i # k + 1 => i \in 0..k
          /\ \A i \in 1..k + 1 : i # k + 1 => i \in 1..k /\ i - 1 \in 0..k /\ i - 1 # k + 1
      BY <1>2
    <2>3. f[k] \o q[k + 1] \in Seq(S)
      BY <2>1, <2>2 DEF Joined
    <2>4. g \in [0..k + 1 -> Seq(S)]
      BY <2>1, <2>2, <2>3 DEF Joined
    <2>5. g[0] = <<>>
      BY <2>1, <2>2 DEF Joined
    <2>6. ASSUME NEW i \in 1..k + 1
          PROVE  g[i] = g[i - 1] \o q[i]
      <3>1. CASE i = k + 1
        <4>1. k \in 0..k + 1 /\ k # k + 1 /\ i \in 0..k + 1 /\ i - 1 = k
          BY <2>2, <3>1
        <4>2. g[i] = f[k] \o q[k + 1] /\ g[i - 1] = f[k]
          BY <3>1, <4>1
        <4>3. QED BY <3>1, <4>2
      <3>2. CASE i # k + 1
        <4>1. /\ i \in 1..k /\ i - 1 \in 0..k + 1 /\ i - 1 # k + 1
              /\ i \in 0..k + 1
          BY <2>2, <3>2
        <4>2. g[i] = f[i] /\ g[i - 1] = f[i - 1]
          BY <3>2, <4>1
        <4>3. QED BY <2>1, <4>1, <4>2 DEF Joined
      <3>3. QED BY <3>1, <3>2
    <2> HIDE DEF g
    <2>7. Joined(S, k + 1, q, g)
      BY <2>4, <2>5, <2>6 DEF Joined
    <2>8. QED BY <2>2, <2>7
  <1>3. n \in T
    <2> HIDE DEF T
    <2>1. 0 \in Int /\ n \in Int /\ 0 <= n /\ n \in 0..n
      OBVIOUS
    <2>2. \A k \in 0..n : k \in T
      BY <1>1, <1>2, <2>1, Climbs
    <2>3. QED BY <2>1, <2>2
  <1>4. QED BY <1>3

LEMMA FlattenJoins ==
    ASSUME NEW S, NEW n \in Nat, NEW q \in [1..n -> Seq(S)]
    PROVE  \E f : Joined(S, n, q, f) /\ FlattenSeq(q) = f[n]
  <1>1. PICK f : Joined(S, n, q, f)
    BY JoinedExists
  <1>2. Len(q) = n /\ q \in Seq(Seq(S))
    OBVIOUS
  <1>3. CASE n = 0
    <2>1. FlattenSeq(q) = q /\ q = <<>>
      BY <1>2, <1>3 DEF FlattenSeq
    <2>2. QED BY <1>1, <1>3, <2>1 DEF Joined
  <1>4. CASE n # 0
    <2> DEFINE step(h, i) == IF i = 1 THEN q[i] ELSE h[i - 1] \o q[i]
               flatten == CHOOSE h : h = [i \in 1..n |-> step(h, i)]
               g == [i \in 1..n |-> f[i]]
    <2>1. FlattenSeq(q) = flatten[n]
      BY <1>2, <1>4 DEF FlattenSeq
    <2>2. ASSUME NEW i \in 1..n
          PROVE  f[i] = step(g, i)
      <3>1. CASE i = 1
        <4>1. 1 \in 1..n /\ 1 - 1 = 0
          BY <3>1
        <4>2. f[1] = <<>> \o q[1]
          BY <1>1, <4>1 DEF Joined
        <4>3. q[1] \in Seq(S)
          BY <4>1
        <4>4. <<>> \o q[1] = q[1]
          BY <4>3
        <4>5. QED BY <3>1, <4>2, <4>4
      <3>2. CASE i # 1
        <4>1. i - 1 \in 1..n
          BY <3>2
        <4>2. QED BY <1>1, <3>2, <4>1 DEF Joined
      <3>3. QED BY <3>1, <3>2
    <2>3. g = [i \in 1..n |-> step(g, i)]
      <3> HIDE DEF step
      <3>1. g = [i \in 1..n |-> f[i]]
        OBVIOUS
      <3> HIDE DEF g
      <3>2. QED BY <2>2, <3>1
    <2>4. flatten = [i \in 1..n |-> step(flatten, i)]
      <3> HIDE DEF step, g
      <3>1. QED BY <2>3
    <2> HIDE DEF flatten
    <2> DEFINE T == {k \in 1..n : flatten[k] = f[k]}
    <2>5. 1 \in T
      <3>1. 1 \in 1..n /\ flatten[1] = q[1]
        BY <1>4, <2>4
      <3>2. f[1] = q[1]
        BY <2>2, <3>1
      <3>3. QED BY <3>1, <3>2
    <2>6. ASSUME NEW k \in 1..n, k \in T, k < n
          PROVE  k + 1 \in T
      <3>1. k + 1 \in 1..n /\ k + 1 # 1 /\ (k + 1) - 1 = k
        BY <2>6
      <3>2. flatten[k + 1] = flatten[k] \o q[k + 1]
        BY <2>4, <3>1
      <3>3. f[k + 1] = f[k] \o q[k + 1]
        BY <1>1, <3>1 DEF Joined
      <3>4. QED BY <2>6, <3>1, <3>2, <3>3
    <2>7. n \in T
      <3> HIDE DEF T
      <3>1. 1 \in Int /\ n \in Int /\ 1 <= n /\ n \in 1..n
        BY <1>4
      <3>2. \A k \in 1..n : k \in T
        BY <2>5, <2>6, <3>1, Climbs
      <3>3. QED BY <3>1, <3>2
    <2>8. QED BY <1>1, <2>1, <2>7
  <1>5. QED BY <1>3, <1>4

LEMMA JoinedIsSeq ==
    ASSUME NEW S, NEW n \in Nat, NEW q, NEW f, Joined(S, n, q, f), NEW k \in 0..n
    PROVE  f[k] \in Seq(S)
  BY DEF Joined

Appends(S, a, b, c) ==
    (a \o b) \o c = a \o (b \o c) /\ b \o c \in Seq(S)

LEMMA Associative ==
    ASSUME NEW S, NEW a \in Seq(S), NEW b \in Seq(S), NEW c \in Seq(S)
    PROVE  Appends(S, a, b, c)
  BY DEF Appends

AlikeAfter(e, n, q, r) == \A i \in e + 1..n : q[i] = r[i]

EndAlike(S, e, n, f, g) ==
    \E rest \in Seq(S) : f[n] = f[e] \o rest /\ g[n] = g[e] \o rest

\* Two lists of pieces that agree after e end alike.
LEMMA SameTail ==
    ASSUME NEW S, NEW n \in Nat, NEW q \in [1..n -> Seq(S)], NEW r, NEW f, NEW g,
           Joined(S, n, q, f), Joined(S, n, r, g), NEW e \in 0..n,
           AlikeAfter(e, n, q, r)
    PROVE  EndAlike(S, e, n, f, g)
  <1> DEFINE T == {k \in e..n : \E rest \in Seq(S) :
                      f[k] = f[e] \o rest /\ g[k] = g[e] \o rest}
  <1>1. f[e] \in Seq(S) /\ g[e] \in Seq(S)
    BY JoinedIsSeq
  <1>2. e \in T
    <2>1. <<>> \in Seq(S) /\ f[e] = f[e] \o <<>> /\ g[e] = g[e] \o <<>>
      BY <1>1
    <2>2. e \in e..n
      OBVIOUS
    <2>3. QED BY <2>1, <2>2
  <1>3. ASSUME NEW k \in e..n, k \in T, k < n
        PROVE  k + 1 \in T
    <2>1. PICK rest \in Seq(S) : f[k] = f[e] \o rest /\ g[k] = g[e] \o rest
      BY <1>3
    <2>2. k + 1 \in e + 1..n /\ k + 1 \in 1..n /\ k + 1 \in e..n /\ (k + 1) - 1 = k
      BY <1>3
    <2>3. /\ f[k + 1] = (f[e] \o rest) \o q[k + 1]
          /\ g[k + 1] = (g[e] \o rest) \o q[k + 1]
      <3>1. f[k + 1] = f[k] \o q[k + 1] /\ g[k + 1] = g[k] \o r[k + 1]
        BY <2>2 DEF Joined
      <3>2. q[k + 1] = r[k + 1]
        BY <2>2 DEF AlikeAfter
      <3>3. QED BY <2>1, <3>1, <3>2
    <2>9. q[k + 1] \in Seq(S)
      BY <2>2
    <2>4. /\ rest \o q[k + 1] \in Seq(S)
          /\ f[k + 1] = f[e] \o (rest \o q[k + 1])
          /\ g[k + 1] = g[e] \o (rest \o q[k + 1])
      <3>1. /\ (f[e] \o rest) \o q[k + 1] = f[e] \o (rest \o q[k + 1])
            /\ (g[e] \o rest) \o q[k + 1] = g[e] \o (rest \o q[k + 1])
            /\ rest \o q[k + 1] \in Seq(S)
        <4> DEFINE a == f[e]
                   b == g[e]
                   c == q[k + 1]
        <4>1. a \in Seq(S) /\ b \in Seq(S) /\ c \in Seq(S)
          BY <1>1, <2>9
        <4> HIDE DEF T, a, b, c
        <4>2. Appends(S, a, rest, c) /\ Appends(S, b, rest, c)
          BY <4>1, Associative
        <4>3. QED BY <4>2 DEF a, b, c, Appends
      <3>2. QED BY <2>3, <3>1
    <2>5. QED BY <2>2, <2>4
  <1>4. n \in T
    <2> HIDE DEF T
    <2>1. e \in Int /\ n \in Int /\ e <= n /\ n \in e..n
      OBVIOUS
    <2>2. \A k \in e..n : k \in T
      BY <1>2, <1>3, <2>1, Climbs
    <2>3. QED BY <2>1, <2>2
  <1>5. QED BY <1>4 DEF EndAlike

\* Pieces that are single places make up a stretch of the text.
LEMMA PlainPieces ==
    ASSUME NEW n \in Nat, NEW q, NEW f, Joined(Int, n, q, f), NEW e \in 0..n,
           \A i \in 1..e : q[i] = <<i>>
    PROVE  f[e] = [i \in 1..e |-> i]
  <1> DEFINE T == {k \in 0..e : f[k] = [i \in 1..k |-> i]}
  <1>1. 0 \in T
    <2>1. f[0] = [i \in 1..0 |-> i]
      BY DEF Joined
    <2>2. QED BY <2>1
  <1>2. ASSUME NEW k \in 0..e, k \in T, k < e
        PROVE  k + 1 \in T
    <2>1. /\ k + 1 \in 1..n /\ k + 1 \in 1..e /\ k + 1 \in 0..e
          /\ (k + 1) - 1 = k /\ k \in Nat
      BY <1>2
    <2>2. f[k + 1] = [i \in 1..k |-> i] \o <<k + 1>>
      BY <1>2, <2>1 DEF Joined
    <2>3. [i \in 1..k |-> i] \o <<k + 1>> = [i \in 1..k + 1 |-> i]
      <3> DEFINE a == [i \in 1..k |-> i]
                 b == [i \in 1..k + 1 |-> i]
      <3>1. a \in Seq(Int) /\ Len(a) = k /\ b \in Seq(Int) /\ Len(b) = k + 1
        BY <2>1
      <3>2. Len(a \o <<k + 1>>) = k + 1 /\ a \o <<k + 1>> \in Seq(Int)
        BY <2>1, <3>1
      <3>3. ASSUME NEW i \in 1..k + 1
            PROVE  (a \o <<k + 1>>)[i] = b[i]
        BY <2>1
      <3> HIDE DEF a, b
      <3>4. QED BY <3>1, <3>2, <3>3
    <2>4. QED BY <2>1, <2>2, <2>3
  <1>3. e \in T
    <2> HIDE DEF T
    <2>1. e \in Int /\ 0 <= e /\ e \in 0..e
      OBVIOUS
    <2>2. \A k \in 0..e : k \in T
      BY <1>1, <1>2, <2>1, Climbs
    <2>3. QED BY <2>1, <2>2
  <1>4. QED BY <1>3

\* Empty pieces add nothing.
LEMMA EmptyPieces ==
    ASSUME NEW S, NEW n \in Nat, NEW q, NEW f, Joined(S, n, q, f),
           NEW e \in 0..n, NEW a \in 0..e, \A i \in a + 1..e : q[i] = <<>>
    PROVE  f[e] = f[a]
  <1> DEFINE T == {k \in a..e : f[k] = f[a]}
  <1>1. a \in T
    OBVIOUS
  <1>2. ASSUME NEW k \in a..e, k \in T, k < e
        PROVE  k + 1 \in T
    <2>1. /\ k + 1 \in 1..n /\ k + 1 \in a + 1..e /\ k + 1 \in a..e
          /\ (k + 1) - 1 = k /\ k \in 0..n
      BY <1>2
    <2>2. f[k + 1] = f[k] \o <<>> /\ f[k] \in Seq(S)
      BY <2>1 DEF Joined
    <2>3. f[k + 1] = f[k]
      BY <2>2
    <2>4. QED BY <1>2, <2>1, <2>3
  <1>3. e \in T
    <2> HIDE DEF T
    <2>1. a \in Int /\ e \in Int /\ a <= e /\ e \in a..e
      OBVIOUS
    <2>2. \A k \in a..e : k \in T
      BY <1>1, <1>2, <2>1, Climbs
    <2>3. QED BY <2>1, <2>2
  <1>4. QED BY <1>3

\* Candidates of a text of length n that share no place.
Placed(P, n) ==
    /\ P \subseteq Match
    /\ \A m \in P : 1 <= m.start /\ m.start <= m.end /\ m.end <= n
    /\ \A l, m \in P : l = m \/ extent(l) \cap extent(m) = {}

\* What the masked text shows for place i.
shown_at(P, i) ==
    IF \E m \in P : m.start = i
    THEN mask_value(CHOOSE m \in P : m.start = i)
    ELSE IF \E m \in P : i \in m.start..m.end THEN <<>> ELSE <<i>>

pieces(P, n) == [i \in 1..n |-> shown_at(P, i)]

\* One turn of mask.
put_mask(t, m) ==
    SubSeq(t, 1, m.start - 1) \o mask_value(m) \o SubSeq(t, m.end + 1, Len(t))

LEMMA MaskIsSeq ==
    ASSUME NEW m \in Match, m.start <= m.end
    PROVE  mask_value(m) \in Seq(Int)
  <1>1. m.start \in Int /\ m.end \in Int /\ m.end - m.start \in Nat
    BY DEF Match
  <1>2. CASE m.kind = "email"
    BY <1>1, <1>2 DEF mask_value
  <1>3. CASE m.kind # "email"
    <2> DEFINE stars == [i \in 1..m.end - m.start |-> 0]
    <2>1. stars \in Seq(Int) /\ <<m.start>> \in Seq(Int)
      BY <1>1
    <2> HIDE DEF stars
    <2>2. <<m.start>> \o stars \in Seq(Int)
      BY <2>1
    <2>3. QED BY <1>3, <2>2 DEF mask_value, stars
  <1>4. QED BY <1>2, <1>3

\* A candidate is the only one that begins where it does.
LEMMA StartIsOwn ==
    ASSUME NEW n \in Nat, NEW P, Placed(P, n), NEW l \in P, NEW m \in P,
           m.start \in extent(l)
    PROVE  l = m
  <1>1. m.start \in extent(m)
    BY DEF Placed, Match, extent
  <1>2. QED BY <1>1 DEF Placed

LEMMA PiecesAreSeqs ==
    ASSUME NEW n \in Nat, NEW P, Placed(P, n)
    PROVE  pieces(P, n) \in [1..n -> Seq(Int)]
  <1> SUFFICES ASSUME NEW i \in 1..n PROVE shown_at(P, i) \in Seq(Int)
    BY DEF pieces
  <1>1. CASE \E m \in P : m.start = i
    <2> DEFINE m == CHOOSE m \in P : m.start = i
    <2>1. m \in P
      BY <1>1
    <2> HIDE DEF m
    <2>2. mask_value(m) \in Seq(Int)
      BY <2>1, MaskIsSeq DEF Placed
    <2>3. QED BY <1>1, <2>2 DEF shown_at, m
  <1>2. CASE ~ \E m \in P : m.start = i
    BY <1>2 DEF shown_at
  <1>3. QED BY <1>1, <1>2

\* The place where a candidate begins shows its mask, the others of it nothing,
\* and a place of no candidate itself.
LEMMA PlacesShown ==
    ASSUME NEW n \in Nat, NEW P, Placed(P, n)
    PROVE  /\ \A m \in P : shown_at(P, m.start) = mask_value(m)
           /\ \A m \in P : \A i \in m.start + 1..m.end : shown_at(P, i) = <<>>
           /\ \A i \in Int : (\A m \in P : i \notin extent(m)) => shown_at(P, i) = <<i>>
  <1>1. ASSUME NEW m \in P
        PROVE  shown_at(P, m.start) = mask_value(m)
    <2> DEFINE x == CHOOSE x \in P : x.start = m.start
    <2>1. x \in P /\ x.start = m.start
      OBVIOUS
    <2> HIDE DEF x
    <2>2. m.start \in extent(x)
      BY <2>1 DEF Placed, Match, extent
    <2>3. x = m
      BY <2>1, <2>2, StartIsOwn
    <2>4. shown_at(P, m.start) = mask_value(x)
      BY DEF shown_at, x
    <2>5. QED BY <2>3, <2>4
  <1>2. ASSUME NEW m \in P, NEW i \in m.start + 1..m.end
        PROVE  shown_at(P, i) = <<>>
    <2>1. /\ m.start \in Int /\ m.end \in Int /\ i \in m.start..m.end
          /\ i # m.start
      BY DEF Placed, Match
    <2>2. ASSUME NEW x \in P, x.start = i
          PROVE  FALSE
      <3>1. x.start \in extent(m)
        BY <2>1, <2>2 DEF extent
      <3>2. x = m
        BY <3>1, StartIsOwn
      <3>3. QED BY <2>1, <2>2, <3>2
    <2>3. QED BY <2>1, <2>2 DEF shown_at
  <1>3. ASSUME NEW i \in Int, \A m \in P : i \notin extent(m)
        PROVE  shown_at(P, i) = <<i>>
    <2>1. \A m \in P : m.start # i
      <3>1. \A m \in P : m.start \in extent(m)
        BY DEF Placed, Match, extent
      <3>2. QED BY <1>3, <3>1
    <2>2. QED BY <1>3, <2>1 DEF shown_at, extent
  <1>4. QED BY <1>1, <1>2, <1>3

\* Masking a candidate before all the masked ones leaves them where they are.
LEMMA MaskStep ==
    ASSUME NEW n \in Nat, NEW P, NEW m \in Match, Placed(P \cup {m}, n),
           \A p \in P : m.start < p.start
    PROVE  FlattenSeq(pieces(P \cup {m}, n)) = put_mask(FlattenSeq(pieces(P, n)), m)
  <1> DEFINE A == P \cup {m}
             q == pieces(P, n)
             r == pieces(A, n)
             s == m.start
             e == m.end
             plain(k) == [i \in 1..k |-> i]
  <1>1. Placed(A, n) /\ Placed(P, n)
    BY DEF Placed
  <1>2. /\ s \in 1..n /\ e \in 1..n /\ s <= e /\ s - 1 \in 0..n /\ e \in 0..n
        /\ s - 1 \in Nat /\ e \in Nat
    BY <1>1 DEF Placed, Match
  <1>3. ASSUME NEW p \in P
        PROVE  p.start \in Int /\ p.end \in Int /\ e < p.start
    <2>1. p.start \in Int /\ p.end \in Int /\ p # m
      BY <1>1, <1>2 DEF Placed, Match
    <2>2. p.start \notin extent(m)
      BY <1>1, <2>1, StartIsOwn
    <2>3. QED BY <1>2, <2>1, <2>2 DEF extent
  <1>4. q \in [1..n -> Seq(Int)] /\ r \in [1..n -> Seq(Int)]
    BY <1>1, PiecesAreSeqs
  <1>5. ASSUME NEW i \in 1..e
        PROVE  q[i] = <<i>>
    <2>1. i \in 1..n /\ \A p \in P : i \notin extent(p)
      BY <1>2, <1>3 DEF extent
    <2>2. shown_at(P, i) = <<i>>
      BY <1>1, <2>1, PlacesShown
    <2>3. QED BY <2>1, <2>2 DEF pieces
  <1>6. ASSUME NEW i \in 1..s - 1
        PROVE  r[i] = <<i>>
    <2>1. i \in 1..n /\ \A p \in A : i \notin extent(p)
      BY <1>2, <1>3 DEF extent
    <2>2. shown_at(A, i) = <<i>>
      BY <1>1, <2>1, PlacesShown
    <2>3. QED BY <2>1, <2>2 DEF pieces
  <1>7. r[s] = mask_value(m)
    BY <1>1, <1>2, PlacesShown DEF pieces
  <1>8. ASSUME NEW i \in s + 1..e
        PROVE  r[i] = <<>>
    <2>1. i \in 1..n
      BY <1>2
    <2>2. shown_at(A, i) = <<>>
      BY <1>1, PlacesShown
    <2>3. QED BY <2>1, <2>2 DEF pieces
  <1>9. ASSUME NEW i \in e + 1..n
        PROVE  q[i] = r[i]
    <2>1. i \in 1..n /\ m.start # i /\ i \notin m.start..m.end
      BY <1>2
    <2>2. \A x : x \in A /\ x.start = i <=> x \in P /\ x.start = i
      BY <2>1
    <2>3. /\ (\E x \in A : x.start = i) <=> (\E x \in P : x.start = i)
          /\ (\E x \in A : i \in x.start..x.end) <=> (\E x \in P : i \in x.start..x.end)
      BY <2>1
    <2>4. (CHOOSE x \in A : x.start = i) = (CHOOSE x \in P : x.start = i)
      BY <2>2
    <2> HIDE DEF A
    <2>5. shown_at(A, i) = shown_at(P, i)
      BY <2>3, <2>4 DEF shown_at
    <2>6. QED BY <2>1, <2>5 DEF pieces
  <1> HIDE DEF A, q, r, s, e
  <1>10. PICK f : Joined(Int, n, q, f) /\ FlattenSeq(q) = f[n]
    BY <1>4, FlattenJoins
  <1>11. PICK g : Joined(Int, n, r, g) /\ FlattenSeq(r) = g[n]
    BY <1>4, FlattenJoins
  <1>12. PICK rest \in Seq(Int) : f[n] = f[e] \o rest /\ g[n] = g[e] \o rest
    <2>1. AlikeAfter(e, n, q, r)
      BY <1>9 DEF AlikeAfter
    <2>2. e \in 0..n
      BY <1>2
    <2>3. /\ q \in [1..n -> Seq(Int)]
          /\ Joined(Int, n, q, f)
          /\ Joined(Int, n, r, g)
      BY <1>4, <1>10, <1>11
    <2>4. EndAlike(Int, e, n, f, g)
      BY <2>1, <2>2, <2>3, SameTail
    <2>5. QED BY <2>4 DEF EndAlike
  <1>13. f[e] = plain(e)
    BY <1>2, <1>5, <1>10, PlainPieces
  <1>14. g[s - 1] = plain(s - 1)
    BY <1>2, <1>6, <1>11, PlainPieces
  <1>15. g[s] = plain(s - 1) \o mask_value(m)
    BY <1>2, <1>7, <1>11, <1>14 DEF Joined
  <1>16. g[e] = g[s]
    <2>1. e \in 0..n /\ s \in 0..e
      BY <1>2
    <2>2. QED BY <1>8, <1>11, <2>1, EmptyPieces
  <1>17. /\ SubSeq(plain(e) \o rest, 1, s - 1) = plain(s - 1)
         /\ SubSeq(plain(e) \o rest, e + 1, Len(plain(e) \o rest)) = rest
    <2> DEFINE t == plain(e) \o rest
    <2>1. /\ plain(e) \in Seq(Int) /\ Len(plain(e)) = e
          /\ plain(s - 1) \in Seq(Int) /\ Len(plain(s - 1)) = s - 1
      BY <1>2
    <2>2. /\ t \in Seq(Int) /\ Len(t) = e + Len(rest) /\ Len(rest) \in Nat
          /\ \A i \in 1..e : t[i] = i
          /\ \A i \in 1..Len(rest) : t[e + i] = rest[i]
      BY <1>2, <2>1
    <2>3. SubSeq(t, 1, s - 1) = plain(s - 1)
      <3> HIDE DEF t
      <3>1. SubSeq(t, 1, s - 1) \in Seq(Int) /\ Len(SubSeq(t, 1, s - 1)) = s - 1
        BY <1>2, <2>2
      <3>2. \A i \in 1..s - 1 : SubSeq(t, 1, s - 1)[i] = plain(s - 1)[i]
        BY <1>2, <2>2
      <3> HIDE DEF plain
      <3>3. QED BY <1>2, <2>1, <3>1, <3>2
    <2>4. SubSeq(t, e + 1, Len(t)) = rest
      <3> HIDE DEF t, plain
      <3>1. /\ SubSeq(t, e + 1, Len(t)) \in Seq(Int)
            /\ Len(SubSeq(t, e + 1, Len(t))) = Len(rest)
        BY <1>2, <2>2
      <3>2. \A i \in 1..Len(rest) : SubSeq(t, e + 1, Len(t))[i] = rest[i]
        <4> SUFFICES ASSUME NEW i \in 1..Len(rest)
                     PROVE  SubSeq(t, e + 1, Len(t))[i] = rest[i]
          OBVIOUS
        <4>1. SubSeq(t, e + 1, Len(t))[i] = t[(e + 1) + i - 1]
          BY <1>2, <2>2
        <4>2. (e + 1) + i - 1 = e + i
          BY <1>2, <2>2
        <4>3. QED BY <2>2, <4>1, <4>2
      <3>3. Len(rest) \in Nat /\ rest \in Seq(Int)
        BY <2>2
      <3> DEFINE u == SubSeq(t, e + 1, Len(t))
      <3> HIDE DEF u
      <3>4. /\ u \in Seq(Int) /\ Len(u) = Len(rest)
            /\ \A i \in 1..Len(rest) : u[i] = rest[i]
        BY <3>1, <3>2 DEF u
      <3>5. u = rest
        BY <3>3, <3>4
      <3>6. QED BY <3>5 DEF u
    <2>5. QED BY <2>3, <2>4
  <1>18. FlattenSeq(r) = (plain(s - 1) \o mask_value(m)) \o rest
    BY <1>11, <1>12, <1>15, <1>16
  <1>19. FlattenSeq(q) = plain(e) \o rest
    BY <1>10, <1>12, <1>13
  <1>20. put_mask(FlattenSeq(q), m) = (plain(s - 1) \o mask_value(m)) \o rest
    BY <1>17, <1>19 DEF put_mask, s, e
  <1>21. QED BY <1>18, <1>20 DEF A, q, r

\* Without a candidate the text stays.
LEMMA PlainText ==
    ASSUME NEW n \in Nat
    PROVE  FlattenSeq(pieces({}, n)) = [i \in 1..n |-> i]
  <1>1. Placed({}, n)
    BY DEF Placed
  <1>2. pieces({}, n) \in [1..n -> Seq(Int)]
    BY <1>1, PiecesAreSeqs
  <1>3. PICK f : Joined(Int, n, pieces({}, n), f) /\ FlattenSeq(pieces({}, n)) = f[n]
    BY <1>2, FlattenJoins
  <1>4. \A i \in 1..n : pieces({}, n)[i] = <<i>>
    BY DEF pieces, shown_at
  <1>5. n \in 0..n
    OBVIOUS
  <1> DEFINE q == pieces({}, n)
  <1> HIDE DEF q
  <1>6. Joined(Int, n, q, f) /\ \A i \in 1..n : q[i] = <<i>>
    BY <1>3, <1>4 DEF q
  <1>7. f[n] = [i \in 1..n |-> i]
    BY <1>5, <1>6, PlainPieces
  <1>8. QED BY <1>3, <1>7

\* What is masked stands in the text as its mask, and the rest as it was.
LEMMA MaskShows ==
    ASSUME NEW n \in Nat, NEW matches \in Seq(Match), Placed(ToSet(matches), n)
    PROVE  mask([i \in 1..n |-> i], matches) = FlattenSeq(pieces(ToSet(matches), n))
  <1> DEFINE H == ToSet(matches)
             key == [m \in H |-> -m.start]
             N == Cardinality(H)
             order == by_key(H, key)
             text == [i \in 1..n |-> i]
             step(f, s) == IF s = {} THEN text
                           ELSE put_mask(f[s \ {Max(s)}], order[Max(s)])
             iter == CHOOSE f : f = [s \in SUBSET (1..N) |-> step(f, s)]
             chosen(s) == {order[k] : k \in s}
             shows(s) == FlattenSeq(pieces(chosen(s), n))
             g == [s \in SUBSET (1..N) |-> shows(s)]
  <1>1. IsFiniteSet(H)
    <2>1. IsFiniteSet(DOMAIN matches)
      BY FS_Interval
    <2>2. matches \in Surjection(DOMAIN matches, H)
      BY DEF Surjection, ToSet
    <2>3. QED BY <2>1, <2>2, FS_Surjection
  <1>2. H \subseteq Match /\ \A m \in H : m.start \in Int
    BY DEF Placed, Match
  <1>3. key \in [H -> Int] /\ \A l, m \in H : key[l] = key[m] => l = m
    <2>1. ASSUME NEW l \in H, NEW m \in H, l.start = m.start
          PROVE  l = m
      <3>1. m.start \in extent(l)
        BY <2>1 DEF Placed, Match, extent
      <3>2. QED BY <3>1, StartIsOwn
    <2>2. QED BY <1>2, <2>1
  <1> HIDE DEF H
  <1>4. Sorted(H, key, order)
    <2> HIDE DEF key
    <2>1. QED BY <1>1, <1>3, ByKey
  <1>5. /\ N \in Nat /\ order \in [1..N -> H]
        /\ \A i, j \in 1..N : i < j => order[j].start < order[i].start
        /\ \A m \in H : \E i \in 1..N : order[i] = m
    <2> HIDE DEF order
    <2>1. /\ N \in Nat /\ order \in [1..N -> H]
          /\ \A i, j \in 1..N : i < j => key[order[i]] < key[order[j]]
          /\ \A m \in H : \E i \in 1..N : order[i] = m
      BY <1>4 DEF Sorted
    <2>2. ASSUME NEW i \in 1..N, NEW j \in 1..N, i < j
          PROVE  order[j].start < order[i].start
      <3>1. order[i] \in H /\ order[j] \in H
        BY <2>1
      <3>2. key[order[i]] < key[order[j]]
        BY <2>1, <2>2
      <3>3. -order[i].start < -order[j].start
        BY <3>1, <3>2
      <3>4. QED BY <1>2, <3>1, <3>3
    <2> HIDE DEF N
    <2>3. QED BY <2>1, <2>2
  <1>6. mask(text, matches) = iter[1..N]
    BY <1>5 DEF mask, put_mask, FoldLeft, MapThenFoldSet, H
  <1> HIDE DEF order, N, text
  <1>7. ASSUME NEW s \in SUBSET (1..N), NEW m \in s, \A k \in s : k <= m
        PROVE  Max(s) = m
    <2>1. s \in SUBSET Int /\ IsFiniteSet(s)
      BY <1>5, PartOfInterval
    <2>2. QED BY <1>7, <2>1, MaxIsOne
  <1>8. ASSUME NEW s \in SUBSET (1..N)
        PROVE  shows(s) = step(g, s)
    <2>1. CASE s = {}
      <3>1. chosen(s) = {}
        BY <2>1
      <3>2. shows(s) = text
        BY <3>1, PlainText DEF text
      <3>3. QED BY <2>1, <3>2
    <2>2. CASE s # {}
      <3>1. s \in SUBSET Int /\ IsFiniteSet(s)
        BY <1>5, PartOfInterval
      <3>2. PICK m \in s : \A k \in s : k <= m
        BY <2>2, <3>1, GreatestExists
      <3>3. Max(s) = m
        BY <1>7, <3>2
      <3> DEFINE rest == s \ {m}
                 P == chosen(rest)
      <3>4. rest \in SUBSET (1..N) /\ m \in 1..N /\ order[m] \in H /\ order[m] \in Match
        BY <1>2, <1>5
      <3>5. chosen(s) = P \cup {order[m]}
        OBVIOUS
      <3>6. \A p \in P : order[m].start < p.start
        <4>1. ASSUME NEW k \in rest
              PROVE  order[m].start < order[k].start
          <5>1. k \in 1..N /\ k < m
            BY <1>5, <3>2, <3>4
          <5>2. QED BY <1>5, <3>4, <5>1
        <4>2. QED BY <4>1
      <3>7. Placed(P \cup {order[m]}, n)
        <4>1. P \cup {order[m]} \subseteq H
          BY <1>5, <3>4
        <4> HIDE DEF P
        <4>2. QED BY <4>1 DEF Placed, H
      <3> HIDE DEF P
      <3>8. FlattenSeq(pieces(P \cup {order[m]}, n))
               = put_mask(FlattenSeq(pieces(P, n)), order[m])
        BY <3>4, <3>6, <3>7, MaskStep
      <3>9. g[rest] = FlattenSeq(pieces(P, n))
        BY <3>4 DEF P
      <3>10. shows(s) = put_mask(g[rest], order[m])
        BY <3>5, <3>8, <3>9
      <3> HIDE DEF g, chosen
      <3>11. QED BY <2>2, <3>3, <3>10
    <2>3. QED BY <2>1, <2>2
  <1>9. g = [s \in SUBSET (1..N) |-> step(g, s)]
    <2>1. g = [s \in SUBSET (1..N) |-> shows(s)]
      OBVIOUS
    <2> HIDE DEF shows, step, g
    <2>2. QED BY <1>8, <2>1
  <1>10. iter = [s \in SUBSET (1..N) |-> step(iter, s)]
    <2> HIDE DEF step, g
    <2>1. QED BY <1>9
  <1> HIDE DEF iter, shows
  <1> DEFINE T == {k \in 0..N : iter[1..k] = g[1..k]}
  <1>11. 0 \in T
    <2>1. 1..0 = {} /\ {} \in SUBSET (1..N) /\ 0 \in 0..N
      BY <1>5
    <2>2. iter[{}] = text
      BY <1>10, <2>1
    <2>3. g[{}] = text
      BY <1>9, <2>1
    <2>4. QED BY <2>1, <2>2, <2>3
  <1>12. ASSUME NEW k \in 0..N, k \in T, k < N
         PROVE  k + 1 \in T
    <2> DEFINE s == 1..k + 1
    <2>1. /\ k + 1 \in 0..N /\ k + 1 \in s /\ s # {} /\ s \in SUBSET (1..N)
          /\ s \ {k + 1} = 1..k
          /\ \A i \in s : i <= k + 1
      <3>1. k \in Nat /\ k + 1 \in 0..N
        BY <1>5, <1>12
      <3>2. k + 1 \in s /\ s # {} /\ \A i \in s : i <= k + 1
        <4>1. k + 1 \in 1..k + 1
          BY <3>1
        <4>2. \A i \in 1..k + 1 : i <= k + 1
          BY <3>1
        <4>3. QED BY <4>1, <4>2
      <3>3. s \in SUBSET (1..N)
        BY <1>5, <3>1
      <3>4. s \ {k + 1} = 1..k
        BY <3>1
      <3> HIDE DEF s
      <3>5. QED BY <3>1, <3>2, <3>3, <3>4
    <2>2. Max(s) = k + 1
      <3> HIDE DEF s
      <3>1. QED BY <1>7, <2>1
    <2> HIDE DEF s, g
    <2>3. iter[s] = put_mask(iter[1..k], order[k + 1])
      BY <1>10, <2>1, <2>2
    <2>4. g[s] = put_mask(g[1..k], order[k + 1])
      BY <1>9, <2>1, <2>2
    <2>5. iter[s] = g[s]
      BY <1>12, <2>3, <2>4
    <2>6. QED BY <2>1, <2>5 DEF s
  <1>13. N \in T
    <2> HIDE DEF T
    <2>1. 0 \in Int /\ N \in Int /\ 0 <= N /\ N \in 0..N
      BY <1>5
    <2>2. \A k \in 0..N : k \in T
      BY <1>11, <1>12, <2>1, Climbs
    <2>3. QED BY <2>1, <2>2
  <1>14. iter[1..N] = shows(1..N)
    <2>1. 1..N \in SUBSET (1..N)
      OBVIOUS
    <2>2. QED BY <1>13, <2>1
  <1>15. chosen(1..N) = H
    BY <1>5
  <1>16. QED BY <1>6, <1>14, <1>15 DEF shows, H, text

\* What detect leaves: the candidates that no line calls a false alarm.
LEMMA AlarmsStay ==
    ASSUME NEW c \in Seq(Match), Apart(c), NEW lines,
           \A i \in DOMAIN c : c[i].start <= c[i].end
    PROVE  /\ parse_verified(c, lines) \in Seq(Match)
           /\ ToSet(parse_verified(c, lines))
                 = {m \in ToSet(c) : ~\E i \in DOMAIN lines :
                       i \in DOMAIN c /\ c[i] = m /\ lines[i]}
  <1> DEFINE kept == {i \in DOMAIN c : i \in DOMAIN lines => ~lines[i]}
             key == [i \in kept |-> i]
             order == by_key(kept, key)
             N == Cardinality(kept)
             real == [k \in 1..N |-> c[order[k]]]
             hidden == {m \in ToSet(c) : ~\E i \in DOMAIN lines :
                           i \in DOMAIN c /\ c[i] = m /\ lines[i]}
  <1>1. DOMAIN c = 1..Len(c) /\ Len(c) \in Nat
    OBVIOUS
  <1>2. kept \in SUBSET (1..Len(c))
    BY <1>1
  <1>3. IsFiniteSet(kept)
    <2> HIDE DEF kept
    <2>1. QED BY <1>1, <1>2, PartOfInterval
  <1>4. key \in [kept -> Int] /\ \A i, j \in kept : key[i] = key[j] => i = j
    BY <1>1
  <1>5. Sorted(kept, key, order)
    <2> HIDE DEF kept, key
    <2>1. QED BY <1>3, <1>4, ByKey
  <1>6. /\ N \in Nat /\ order \in [1..N -> kept]
        /\ \A i \in kept : \E k \in 1..N : order[k] = i
    <2> HIDE DEF kept, key, order
    <2>1. QED BY <1>5 DEF Sorted
  <1>7. parse_verified(c, lines) = real
    <2>1. parse_verified(c, lines) = [k \in DOMAIN order |-> c[order[k]]]
      BY DEF parse_verified, in_order
    <2> HIDE DEF order
    <2>2. DOMAIN order = 1..N
      BY <1>6
    <2>3. QED BY <2>1, <2>2
  <1>8. \A i, j \in DOMAIN c : c[i] = c[j] => i = j
    <2>1. ASSUME NEW i \in DOMAIN c, NEW j \in DOMAIN c, i # j
          PROVE  c[i] # c[j]
      <3>1. c[i].start \in extent(c[i])
        <4>1. c[i] \in Match
          BY <1>1
        <4>2. QED BY <4>1 DEF Match, extent
      <3>2. extent(c[i]) \cap extent(c[j]) = {}
        BY <2>1 DEF Apart
      <3>3. QED BY <3>1, <3>2
    <2>2. QED BY <2>1
  <1>9. ASSUME NEW i \in DOMAIN c
        PROVE  c[i] \in hidden <=> i \in kept
    <2>1. c[i] \in ToSet(c)
      BY DEF ToSet
    <2>2. (\E j \in DOMAIN lines : j \in DOMAIN c /\ c[j] = c[i] /\ lines[j])
             <=> i \in DOMAIN lines /\ lines[i]
      BY <1>8
    <2>3. QED BY <2>1, <2>2
  <1>10. hidden \subseteq ToSet(c)
    OBVIOUS
  <1>11. kept \subseteq DOMAIN c
    OBVIOUS
  <1> HIDE DEF kept, order, N, hidden
  <1>12. /\ real \in Seq(Match) /\ DOMAIN real = 1..N
         /\ \A k \in 1..N : real[k] = c[order[k]] /\ order[k] \in kept
    <2>1. \A k \in 1..N : order[k] \in kept /\ order[k] \in 1..Len(c)
      BY <1>1, <1>6, <1>11
    <2>2. \A k \in 1..N : c[order[k]] \in Match
      BY <1>1, <2>1
    <2>3. QED BY <1>6, <2>1, <2>2
  <1> HIDE DEF real
  <1>13. ASSUME NEW m \in ToSet(real)
         PROVE  m \in hidden
    <2>1. PICK k \in 1..N : m = real[k]
      BY <1>12 DEF ToSet
    <2>2. m = c[order[k]] /\ order[k] \in kept /\ order[k] \in DOMAIN c
      BY <1>11, <1>12, <2>1
    <2>3. QED BY <1>9, <2>2
  <1>14. ASSUME NEW m \in hidden
         PROVE  m \in ToSet(real)
    <2>1. PICK i \in DOMAIN c : m = c[i]
      BY <1>10 DEF ToSet
    <2>2. i \in kept
      BY <1>9, <2>1
    <2>3. PICK k \in 1..N : order[k] = i
      BY <1>6, <2>2
    <2>4. real[k] = m
      BY <1>12, <2>1, <2>3
    <2>5. QED BY <1>12, <2>4 DEF ToSet
  <1>15. ToSet(real) = hidden
    BY <1>13, <1>14
  <1>16. QED BY <1>7, <1>12, <1>15 DEF hidden

\* For texts of any length, any number of finds of each pattern, any dates and any
\* answer of the model: the candidates that no line of the answer calls a false
\* alarm stand in the masked text as their masks, and the rest of the text is as
\* it was (pii.py:186).
THEOREM MaskingHidesAll ==
    ASSUME NEW scan, scan.length \in Nat, DOMAIN scan.found = Kind,
           \A kind \in Kind : /\ DisjointSpans(scan.found[kind])
                              /\ scan.found[kind] \subseteq Span(scan.length)
    PROVE  MaskHidesAllButFalseAlarms(scan)
  <1> DEFINE n == scan.length
             c == regex_scan(scan.found, scan.dates)
             lines == scan.lines
             hidden == {m \in ToSet(c) : ~\E i \in DOMAIN lines :
                           i \in DOMAIN c /\ c[i] = m /\ lines[i]}
             left == parse_verified(c, lines)
             text == [i \in 1..n |-> i]
  <1>1. /\ c \in Seq(Match) /\ Apart(c)
        /\ \A i \in DOMAIN c :
              \E kind \in Kind : \E s \in scan.found[kind] : c[i] = match(kind, s)
    <2>1. DOMAIN scan.found = Kind /\ \A kind \in Kind : DisjointSpans(scan.found[kind])
      OBVIOUS
    <2>2. AreFinds(c, scan.found)
      BY <2>1, CandidatesAreFinds
    <2> HIDE DEF c
    <2>3. QED BY <2>2 DEF AreFinds
  <1> HIDE DEF c
  <1>2. ASSUME NEW i \in DOMAIN c
        PROVE  1 <= c[i].start /\ c[i].start <= c[i].end /\ c[i].end <= n
    <2>1. PICK kind \in Kind : \E s \in scan.found[kind] : c[i] = match(kind, s)
      BY <1>1
    <2>2. PICK s \in scan.found[kind] : c[i] = match(kind, s)
      BY <2>1
    <2>3. s \in Span(n)
      BY <2>2
    <2>4. /\ s[1] \in 1..n /\ s[2] \in 1..n /\ s[1] < s[2]
      BY <2>3 DEF Span
    <2>5. c[i].start = s[1] /\ c[i].end = s[2]
      BY <2>2 DEF match
    <2>6. QED BY <2>4, <2>5
  <1>3. left \in Seq(Match) /\ ToSet(left) = hidden
    BY <1>1, <1>2, AlarmsStay
  <1>4. Placed(hidden, n)
    <2>1. ASSUME NEW m \in hidden
          PROVE  \E i \in DOMAIN c : m = c[i]
      BY DEF ToSet
    <2> HIDE DEF hidden
    <2>2. ASSUME NEW m \in hidden
          PROVE  /\ m \in Match
                 /\ 1 <= m.start /\ m.start <= m.end /\ m.end <= n
      BY <1>1, <1>2, <2>1
    <2>3. ASSUME NEW l \in hidden, NEW m \in hidden, l # m
          PROVE  extent(l) \cap extent(m) = {}
      <3>1. PICK i \in DOMAIN c : l = c[i]
        BY <2>1
      <3>2. PICK j \in DOMAIN c : m = c[j]
        BY <2>1
      <3>3. i # j
        BY <2>3, <3>1, <3>2
      <3>4. QED BY <1>1, <3>1, <3>2, <3>3 DEF Apart
    <2> HIDE DEF n
    <2>4. QED BY <2>2, <2>3 DEF Placed
  <1> HIDE DEF left, hidden, n
  <1>5. mask(text, left) = FlattenSeq(pieces(hidden, n))
    <2>1. Placed(ToSet(left), n) /\ n \in Nat
      BY <1>3, <1>4 DEF n
    <2>2. QED BY <1>3, <2>1, MaskShows
  <1>6. QED
    BY <1>5 DEF MaskHidesAllButFalseAlarms, detect, pieces, shown_at, c, left, hidden, n

(***************************************************************************)
(* Chunking: the order of the lines                                        *)
(***************************************************************************)

\* s holds the numbers of S, from the smallest to the greatest.
Rising(s, S) ==
    /\ s \in Seq(S)
    /\ \A i, j \in DOMAIN s : i < j => s[i] < s[j]
    /\ \A x \in S : \E i \in DOMAIN s : s[i] = x

Rises(s, S, n) ==
    /\ n \in Nat /\ n = Len(s) /\ DOMAIN s = 1..n /\ s \in Seq(S)
    /\ \A i \in 1..n : s[i] \in S /\ s[i] \in Int
    /\ \A i, j \in 1..n : i < j => s[i] < s[j]
    /\ \A x \in S : \E i \in 1..n : s[i] = x

\* Rising, as facts about places.
LEMMA RisingFacts ==
    ASSUME NEW S \in SUBSET Int, NEW s, Rising(s, S)
    PROVE  Rises(s, S, Len(s))
  <1> DEFINE n == Len(s)
  <1>1. n \in Nat /\ DOMAIN s = 1..n /\ s \in Seq(S)
    BY DEF Rising
  <1>2. \A i \in 1..n : s[i] \in S
    BY <1>1
  <1> HIDE DEF n
  <1>3. /\ \A i, j \in 1..n : i < j => s[i] < s[j]
        /\ \A x \in S : \E i \in 1..n : s[i] = x
    BY <1>1 DEF Rising
  <1>4. \A i \in 1..n : s[i] \in Int
    BY <1>2
  <1>5. n = Len(s)
    BY DEF n
  <1>6. Rises(s, S, n)
    BY <1>1, <1>2, <1>3, <1>4, <1>5 DEF Rises
  <1>7. QED BY <1>6 DEF n

LEMMA RisingByFacts ==
    ASSUME NEW S, NEW s, NEW n \in Nat, DOMAIN s = 1..n, s \in Seq(S),
           \A i, j \in 1..n : i < j => s[i] < s[j],
           \A x \in S : \E i \in 1..n : s[i] = x
    PROVE  Rising(s, S)
  BY DEF Rising

\* in_order sorts what is finite.
LEMMA InOrderRises ==
    ASSUME NEW S \in SUBSET Int, IsFiniteSet(S)
    PROVE  Rising(in_order(S), S)
  <1> DEFINE key == [x \in S |-> x]
             n == Cardinality(S)
  <1>1. key \in [S -> Int] /\ \A x, y \in S : key[x] = key[y] => x = y
    OBVIOUS
  <1>2. in_order(S) = by_key(S, key)
    BY DEF in_order
  <1> DEFINE order == in_order(S)
  <1>3. \A x \in S : key[x] = x
    OBVIOUS
  <1> HIDE DEF key, order
  <1>4. Sorted(S, key, order)
    <2>1. Sorted(S, key, by_key(S, key))
      BY <1>1, ByKey
    <2>2. order = by_key(S, key)
      BY <1>2 DEF order
    <2>3. QED BY <2>1, <2>2
  <1>5. /\ n \in Nat /\ order \in [1..n -> S]
        /\ \A i, j \in 1..n : i < j => key[order[i]] < key[order[j]]
        /\ \A x \in S : \E i \in 1..n : order[i] = x
    BY <1>4 DEF Sorted
  <1> HIDE DEF n
  <1>6. order \in Seq(S) /\ DOMAIN order = 1..n /\ \A i \in 1..n : order[i] \in S
    BY <1>5
  <1>7. /\ \A i, j \in 1..n : i < j => order[i] < order[j]
        /\ \A x \in S : \E i \in 1..n : order[i] = x
    BY <1>3, <1>5, <1>6
  <1>8. Rising(order, S)
    BY <1>5, <1>6, <1>7, RisingByFacts
  <1>9. QED BY <1>8 DEF order

\* There is one way to put numbers in order.
LEMMA RisingIsUnique ==
    ASSUME NEW S \in SUBSET Int, NEW s, NEW t, Rising(s, S), Rising(t, S)
    PROVE  s = t
  <1> DEFINE m == Len(s)
             n == Len(t)
  <1>0. Rises(s, S, m) /\ Rises(t, S, n)
    BY RisingFacts
  <1> HIDE DEF m, n
  <1>1. /\ m \in Nat /\ DOMAIN s = 1..m /\ s \in Seq(S)
        /\ n \in Nat /\ DOMAIN t = 1..n /\ t \in Seq(S)
    BY <1>0 DEF Rises
  <1>2. /\ \A i \in 1..m : s[i] \in Int /\ s[i] \in S
        /\ \A i \in 1..n : t[i] \in Int /\ t[i] \in S
    BY <1>0 DEF Rises
  <1>3. /\ \A i, j \in 1..m : i < j => s[i] < s[j]
        /\ \A i, j \in 1..n : i < j => t[i] < t[j]
        /\ \A x \in S : \E i \in 1..m : s[i] = x
        /\ \A x \in S : \E i \in 1..n : t[i] = x
    BY <1>0 DEF Rises
  <1> DEFINE T == {k \in 0..m : \A i \in 1..k : i \in 1..n /\ s[i] = t[i]}
  <1>4. 0 \in T
    BY <1>1
  <1>5. ASSUME NEW k \in 0..m, k \in T, k < m
        PROVE  k + 1 \in T
    <2>1. /\ k + 1 \in 1..m /\ k \in Nat /\ k + 1 \in 0..m
          /\ \A i \in 1..k : i \in 1..n /\ s[i] = t[i]
      BY <1>1, <1>5
    <2>2. PICK j \in 1..n : t[j] = s[k + 1]
      BY <1>2, <1>3, <2>1
    <2>3. j \notin 1..k
      <3>1. SUFFICES ASSUME j \in 1..k PROVE FALSE
        OBVIOUS
      <3>2. j \in 1..m /\ j < k + 1 /\ t[j] = s[j]
        <4>1. j \in Int /\ j <= k /\ k \in Int /\ k <= m
          BY <2>1, <3>1
        <4>2. QED BY <1>1, <2>1, <3>1, <4>1
      <3>3. s[j] < s[k + 1]
        BY <1>3, <2>1, <3>2
      <3>4. QED BY <1>2, <2>1, <2>2, <3>2, <3>3
    <2>4. k + 1 \in 1..n /\ k + 1 <= j
      BY <1>1, <2>1, <2>3
    <2>5. PICK i \in 1..m : s[i] = t[k + 1]
      BY <1>2, <1>3, <2>4
    <2>6. i \notin 1..k
      <3>1. SUFFICES ASSUME i \in 1..k PROVE FALSE
        OBVIOUS
      <3>2. i \in 1..n /\ i < k + 1 /\ t[i] = s[i]
        BY <2>1, <3>1
      <3>3. t[i] < t[k + 1]
        BY <1>3, <2>4, <3>2
      <3>4. QED BY <1>2, <2>4, <2>5, <3>2, <3>3
    <2>7. k + 1 <= i
      BY <1>1, <2>1, <2>6
    <2>8. /\ k + 1 < j => t[k + 1] < t[j]
          /\ k + 1 < i => s[k + 1] < s[i]
      BY <1>3, <2>1, <2>4
    <2>9. s[k + 1] = t[k + 1]
      <3>1. j \in Int /\ i \in Int /\ k + 1 \in Int
        BY <2>1
      <3>2. CASE j = k + 1
        BY <2>2, <3>2
      <3>3. CASE i = k + 1
        BY <2>5, <3>3
      <3>4. CASE k + 1 < j /\ k + 1 < i
        <4>1. t[k + 1] < s[k + 1] /\ s[k + 1] < t[k + 1]
          BY <2>2, <2>5, <2>8, <3>4
        <4>2. QED BY <1>2, <2>1, <2>4, <4>1
      <3>5. QED BY <2>4, <2>7, <3>1, <3>2, <3>3, <3>4
    <2>10. \A x \in 1..k + 1 : x \in 1..k \/ x = k + 1
      BY <2>1
    <2>11. QED BY <2>1, <2>4, <2>9, <2>10
  <1>6. m \in T
    <2> HIDE DEF T
    <2>1. 0 \in Int /\ m \in Int /\ 0 <= m /\ m \in 0..m
      BY <1>1
    <2>2. \A k \in 0..m : k \in T
      BY <1>4, <1>5, <2>1, Climbs
    <2>3. QED BY <2>1, <2>2
  <1>7. \A i \in 1..m : i \in 1..n /\ s[i] = t[i]
    BY <1>6
  <1>8. ASSUME NEW j \in 1..n
        PROVE  j \in 1..m
    <2>1. PICK i \in 1..m : s[i] = t[j]
      BY <1>2, <1>3
    <2>2. i \in 1..n /\ t[i] = t[j] /\ i \in Int /\ j \in Int
      BY <1>7, <2>1
    <2>3. i = j
      <3>1. ~ t[i] < t[j] /\ ~ t[j] < t[i]
        BY <1>2, <2>2
      <3>2. QED BY <1>3, <2>2, <3>1
    <2>4. QED BY <2>3
  <1>9. m = n
    <2>1. 1..m = 1..n
      BY <1>7, <1>8
    <2>2. m > 0 => m \in 1..m
      BY <1>1
    <2>3. n > 0 => n \in 1..n
      BY <1>1
    <2>4. QED BY <1>1, <2>1, <2>2, <2>3
  <1>10. \A i \in 1..m : s[i] = t[i]
    BY <1>7
  <1>11. QED BY <1>1, <1>9, <1>10 DEF m, n

LEMMA RisingIsInOrder ==
    ASSUME NEW S \in SUBSET Int, IsFiniteSet(S), NEW s, Rising(s, S)
    PROVE  s = in_order(S)
  BY InOrderRises, RisingIsUnique

\* A part of it is in order too, and has all that lies between its ends.
LEMMA RisingPart ==
    ASSUME NEW S \in SUBSET Int, NEW s, Rising(s, S),
           NEW from \in DOMAIN s, NEW to \in DOMAIN s, from <= to
    PROVE  Rising(SubSeq(s, from, to), {x \in S : s[from] <= x /\ x <= s[to]})
  <1> DEFINE n == Len(s)
             part == SubSeq(s, from, to)
             P == {x \in S : s[from] <= x /\ x <= s[to]}
             m == to - from + 1
  <1>0. Rises(s, S, n)
    BY RisingFacts
  <1>1. n \in Nat /\ DOMAIN s = 1..n /\ s \in Seq(S)
    BY <1>0 DEF Rises
  <1>2. /\ \A i \in 1..n : s[i] \in Int /\ s[i] \in S
        /\ \A i, j \in 1..n : i < j => s[i] < s[j]
        /\ \A x \in S : \E i \in 1..n : s[i] = x
    BY <1>0 DEF Rises
  <1>3. from \in 1..n /\ to \in 1..n /\ m \in Nat /\ from \in Nat /\ to \in Nat
    BY <1>1
  <1>4. /\ part \in Seq(S) /\ Len(part) = m /\ DOMAIN part = 1..m
        /\ \A i \in 1..m : part[i] = s[from + i - 1] /\ from + i - 1 \in 1..n
    BY <1>1, <1>3
  <1> HIDE DEF n, part, m
  <1>5. \A i, j \in 1..n : i <= j => s[i] <= s[j]
    <2>1. SUFFICES ASSUME NEW i \in 1..n, NEW j \in 1..n, i <= j
                   PROVE  s[i] <= s[j]
      OBVIOUS
    <2>2. i < j \/ i = j
      BY <1>1, <2>1
    <2>3. s[i] \in Int /\ s[j] \in Int
      BY <1>2
    <2>4. QED BY <1>2, <2>2, <2>3
  <1>6. ASSUME NEW i \in 1..m
        PROVE  part[i] \in P
    <2>1. from + i - 1 \in 1..n /\ from <= from + i - 1 /\ from + i - 1 <= to
      <3>1. i \in Int /\ 1 <= i /\ i <= m
        BY <1>3
      <3>2. from <= from + i - 1 /\ from + i - 1 <= to
        BY <1>3, <3>1 DEF m
      <3>3. QED BY <1>4, <3>2
    <2>2. s[from] <= s[from + i - 1] /\ s[from + i - 1] <= s[to]
      BY <1>3, <1>5, <2>1
    <2>3. QED BY <1>2, <1>4, <2>1, <2>2
  <1>7. part \in Seq(P)
    <2> HIDE DEF P
    <2>1. \A i \in 1..m : part[i] \in P
      BY <1>6
    <2>2. part = [i \in 1..m |-> part[i]] /\ m \in Nat
      BY <1>3, <1>4
    <2>3. QED BY <2>1, <2>2
  <1>8. ASSUME NEW i \in 1..m, NEW j \in 1..m, i < j
        PROVE  part[i] < part[j]
    <2>1. from + i - 1 < from + j - 1
      BY <1>3, <1>8
    <2>2. QED BY <1>2, <1>4, <2>1
  <1>9. ASSUME NEW x \in P
        PROVE  \E i \in 1..m : part[i] = x
    <2>1. PICK j \in 1..n : s[j] = x
      BY <1>2
    <2>2. j \in from..to
      <3>1. ~ j < from
        <4>1. j < from => s[j] < s[from]
          BY <1>2, <1>3
        <4>2. QED BY <1>2, <1>3, <2>1, <4>1
      <3>2. ~ to < j
        <4>1. to < j => s[to] < s[j]
          BY <1>2, <1>3
        <4>2. QED BY <1>2, <1>3, <2>1, <4>1
      <3>3. QED BY <1>1, <1>3, <3>1, <3>2
    <2>3. j - from + 1 \in 1..m /\ from + (j - from + 1) - 1 = j
      BY <1>3, <2>2 DEF m
    <2>4. QED BY <1>4, <2>1, <2>3
  <1>10. QED
    BY <1>4, <1>7, <1>8, <1>9 DEF Rising, part

\* A greater number goes to the end.
LEMMA RisingGrows ==
    ASSUME NEW S \in SUBSET Int, NEW s, Rising(s, S), NEW x \in Int, \A y \in S : y < x
    PROVE  Rising(Append(s, x), S \cup {x})
  <1> DEFINE n == Len(s)
             t == Append(s, x)
             T == S \cup {x}
  <1>0. Rises(s, S, n)
    BY RisingFacts
  <1>1. n \in Nat /\ DOMAIN s = 1..n /\ s \in Seq(S)
    BY <1>0 DEF Rises
  <1>2. /\ \A i \in 1..n : s[i] \in S
        /\ \A i, j \in 1..n : i < j => s[i] < s[j]
        /\ \A y \in S : \E i \in 1..n : s[i] = y
    BY <1>0 DEF Rises
  <1>3. /\ t \in Seq(T) /\ DOMAIN t = 1..n + 1
        /\ \A i \in 1..n : t[i] = s[i]
        /\ t[n + 1] = x
    <2>1. s \in Seq(T) /\ x \in T
      BY <1>1
    <2> HIDE DEF T
    <2>2. QED BY <2>1
  <1> HIDE DEF n, t
  <1>4. \A i \in 1..n + 1 : i \in 1..n \/ i = n + 1
    BY <1>1
  <1>5. ASSUME NEW i \in 1..n + 1, NEW j \in 1..n + 1, i < j
        PROVE  t[i] < t[j]
    <2>1. i \in 1..n
      BY <1>1, <1>5
    <2>2. t[i] = s[i] /\ s[i] \in S
      BY <1>2, <1>3, <2>1
    <2>3. CASE j \in 1..n
      BY <1>2, <1>3, <1>5, <2>1, <2>3
    <2>4. CASE j = n + 1
      BY <1>3, <2>2, <2>4
    <2>5. QED BY <1>4, <2>3, <2>4
  <1>6. ASSUME NEW y \in T
        PROVE  \E i \in 1..n + 1 : t[i] = y
    <2>1. CASE y \in S
      <3>1. PICK i \in 1..n : s[i] = y
        BY <1>2, <2>1
      <3>2. i \in 1..n + 1
        BY <1>1
      <3>3. QED BY <1>3, <3>1, <3>2
    <2>2. CASE y = x
      <3>1. n + 1 \in 1..n + 1
        BY <1>1
      <3>2. QED BY <1>3, <2>2, <3>1
    <2>3. QED BY <2>1, <2>2
  <1>7. QED BY <1>3, <1>5, <1>6 DEF Rising, t

\* Element k comes from the place after that of element k - 1, or a later piece.
GoesOn(part, place, k) ==
    \/ part[k - 1] < part[k]
    \/ part[k - 1] = part[k] /\ place[k - 1] + 1 = place[k]

\* Element k of the pieces q put together is element place[k] of piece part[k].
Places(n, q, flat, part, place) ==
    /\ Len(flat) \in Nat /\ DOMAIN flat = 1..Len(flat)
    /\ \A k \in DOMAIN flat : /\ part[k] \in 1..n /\ place[k] \in DOMAIN q[part[k]]
                              /\ flat[k] = q[part[k]][place[k]]
    /\ \A k \in 2..Len(flat) : GoesOn(part, place, k)
    /\ \A i \in 1..n : \A j \in DOMAIN q[i] :
          \E k \in DOMAIN flat : part[k] = i /\ place[k] = j

LEMMA PlacesOfOneMore ==
    ASSUME NEW S, NEW m \in Nat, NEW q, NEW flat \in Seq(S), NEW part, NEW place,
           q[m + 1] \in Seq(S), Places(m, q, flat, part, place)
    PROVE  \E part2, place2 : Places(m + 1, q, flat \o q[m + 1], part2, place2)
  <1> DEFINE L == Len(flat)
             M == Len(q[m + 1])
             all == flat \o q[m + 1]
             part2 == [k \in 1..L + M |-> IF k <= L THEN part[k] ELSE m + 1]
             place2 == [k \in 1..L + M |-> IF k <= L THEN place[k] ELSE k - L]
  <1>1. /\ L \in Nat /\ M \in Nat /\ DOMAIN flat = 1..L /\ DOMAIN q[m + 1] = 1..M
        /\ Len(all) = L + M /\ DOMAIN all = 1..L + M
        /\ \A k \in 1..L : all[k] = flat[k]
        /\ \A j \in 1..M : all[L + j] = q[m + 1][j]
    OBVIOUS
  <1>2. /\ \A k \in 1..L : /\ part[k] \in 1..m /\ place[k] \in DOMAIN q[part[k]]
                           /\ flat[k] = q[part[k]][place[k]]
        /\ \A k \in 2..L : GoesOn(part, place, k)
        /\ \A i \in 1..m : \A j \in DOMAIN q[i] :
              \E k \in 1..L : part[k] = i /\ place[k] = j
    BY <1>1 DEF Places
  <1> HIDE DEF L, M, all
  <1>3. /\ \A k \in 1..L : k \in 1..L + M /\ part2[k] = part[k] /\ place2[k] = place[k]
        /\ \A j \in 1..M : L + j \in 1..L + M /\ part2[L + j] = m + 1 /\ place2[L + j] = j
    BY <1>1
  <1>4. \A k \in 1..L + M : k \in 1..L \/ (k - L \in 1..M /\ k = L + (k - L))
    BY <1>1
  <1> HIDE DEF part2, place2
  <1>5. ASSUME NEW k \in 1..L + M
        PROVE  /\ part2[k] \in 1..m + 1 /\ place2[k] \in DOMAIN q[part2[k]]
               /\ all[k] = q[part2[k]][place2[k]]
    <2>1. CASE k \in 1..L
      <3>1. part[k] \in 1..m + 1
        BY <1>2, <2>1
      <3>2. QED BY <1>1, <1>2, <1>3, <2>1, <3>1
    <2>2. CASE k - L \in 1..M /\ k = L + (k - L)
      <3>1. m + 1 \in 1..m + 1
        OBVIOUS
      <3> DEFINE j == k - L
      <3>2. j \in 1..M /\ k = L + j
        BY <2>2
      <3> HIDE DEF j
      <3>3. part2[k] = m + 1 /\ place2[k] = j /\ all[k] = q[m + 1][j]
        BY <1>1, <1>3, <3>2
      <3>4. QED BY <1>1, <3>1, <3>2, <3>3
    <2>3. QED BY <1>4, <2>1, <2>2
  <1>6. ASSUME NEW k \in 2..L + M
        PROVE  GoesOn(part2, place2, k)
    <2>0. k \in Int /\ k - 1 \in 1..L + M /\ k \in 1..L + M
      BY <1>1
    <2>1. CASE k \in 1..L
      <3>1. k \in 2..L /\ k - 1 \in 1..L
        BY <1>1, <2>1
      <3>2. GoesOn(part, place, k)
        BY <1>2, <3>1
      <3>3. /\ part2[k - 1] = part[k - 1] /\ place2[k - 1] = place[k - 1]
            /\ part2[k] = part[k] /\ place2[k] = place[k]
        BY <1>3, <2>1, <3>1
      <3>4. QED BY <3>2, <3>3 DEF GoesOn
    <2>2. CASE k = L + 1
      <3>1. k - 1 = L /\ L \in 1..L /\ 1 \in 1..M
        BY <1>1, <2>2
      <3>2. part2[k - 1] = part[L] /\ part[L] \in 1..m /\ part2[k] = m + 1
        BY <1>2, <1>3, <2>2, <3>1
      <3>3. QED BY <3>2 DEF GoesOn
    <2>3. CASE k > L + 1
      <3>1. k - L \in 1..M /\ k - L - 1 \in 1..M /\ k = L + (k - L) /\ k - 1 = L + (k - L - 1)
        BY <1>1, <2>3
      <3> DEFINE j == k - L
                 i == k - L - 1
      <3>2. i \in 1..M /\ j \in 1..M /\ k = L + j /\ k - 1 = L + i /\ i + 1 = j
        BY <2>0, <3>1, <1>1
      <3> HIDE DEF i, j
      <3>3. part2[k - 1] = m + 1 /\ part2[k] = m + 1 /\ place2[k - 1] = i /\ place2[k] = j
        BY <1>3, <3>2
      <3>4. QED BY <3>2, <3>3 DEF GoesOn
    <2>4. QED BY <1>1, <2>0, <2>1, <2>2, <2>3
  <1>7. ASSUME NEW i \in 1..m + 1, NEW j \in DOMAIN q[i]
        PROVE  \E k \in 1..L + M : part2[k] = i /\ place2[k] = j
    <2>1. CASE i \in 1..m
      <3>1. PICK k \in 1..L : part[k] = i /\ place[k] = j
        BY <1>2, <2>1
      <3>2. QED BY <1>3, <3>1
    <2>2. CASE i = m + 1
      <3>1. j \in 1..M
        BY <1>1, <2>2
      <3>2. QED BY <1>3, <2>2, <3>1
    <2>3. QED BY <2>1, <2>2
  <1>8. Places(m + 1, q, all, part2, place2)
    <2>1. Len(all) \in Nat /\ DOMAIN all = 1..Len(all)
      BY <1>1
    <2>2. \A k \in DOMAIN all : /\ part2[k] \in 1..m + 1 /\ place2[k] \in DOMAIN q[part2[k]]
                                /\ all[k] = q[part2[k]][place2[k]]
      BY <1>1, <1>5
    <2>3. \A k \in 2..Len(all) : GoesOn(part2, place2, k)
      BY <1>1, <1>6
    <2>4. \A i \in 1..m + 1 : \A j \in DOMAIN q[i] :
             \E k \in DOMAIN all : part2[k] = i /\ place2[k] = j
      <3>1. DOMAIN all = 1..L + M
        BY <1>1
      <3>2. ASSUME NEW i \in 1..m + 1, NEW j \in DOMAIN q[i]
            PROVE  \E k \in DOMAIN all : part2[k] = i /\ place2[k] = j
        <4>1. PICK k \in 1..L + M : part2[k] = i /\ place2[k] = j
          BY <1>7
        <4>2. QED BY <3>1, <4>1
      <3>3. QED BY <3>2
    <2>5. QED BY <2>1, <2>2, <2>3, <2>4, Zenon DEF Places
  <1>9. QED BY <1>8 DEF all

\* Every element of the flattened sequence comes from one place of one piece, and
\* they come in order.
LEMMA FlattenPlaces ==
    ASSUME NEW S, NEW n \in Nat, NEW q \in [1..n -> Seq(S)]
    PROVE  \E part, place : Places(n, q, FlattenSeq(q), part, place)
  <1>1. PICK f : Joined(S, n, q, f) /\ FlattenSeq(q) = f[n]
    BY FlattenJoins
  <1> DEFINE T == {k \in 0..n : \E part, place : Places(k, q, f[k], part, place)}
  <1>2. 0 \in T
    <2>1. f[0] = <<>>
      BY <1>1 DEF Joined
    <2>2. Len(f[0]) = 0 /\ DOMAIN f[0] = {} /\ 1..0 = {} /\ 2..0 = {} /\ 0 \in 0..n
      BY <2>1
    <2>3. Places(0, q, f[0], <<>>, <<>>)
      BY <2>2 DEF Places
    <2>4. QED BY <2>2, <2>3
  <1>3. ASSUME NEW k \in 0..n, k \in T, k < n
        PROVE  k + 1 \in T
    <2>1. PICK part, place : Places(k, q, f[k], part, place)
      BY <1>3
    <2>2. k \in Nat /\ k + 1 \in 1..n /\ k + 1 \in 0..n /\ (k + 1) - 1 = k
      BY <1>3
    <2>3. f[k] \in Seq(S) /\ q[k + 1] \in Seq(S) /\ f[k + 1] = f[k] \o q[k + 1]
      BY <1>1, <2>2 DEF Joined
    <2>4. \E part2, place2 : Places(k + 1, q, f[k] \o q[k + 1], part2, place2)
      BY <2>1, <2>2, <2>3, PlacesOfOneMore
    <2>5. QED BY <2>2, <2>3, <2>4
  <1>4. n \in T
    <2> HIDE DEF T
    <2>1. 0 \in Int /\ n \in Int /\ 0 <= n /\ n \in 0..n
      OBVIOUS
    <2>2. \A k \in 0..n : k \in T
      BY <1>2, <1>3, <2>1, Climbs
    <2>3. QED BY <2>1, <2>2
  <1>5. QED BY <1>1, <1>4

(***************************************************************************)
(* Chunking: the sections the parsers make of the lines.  T stands for the *)
(* lines with text, H for the headings, and D[k] for the headings that are *)
(* put before a section that ends with line k.                             *)
(***************************************************************************)

within(T, a, b) == {x \in T : a <= x /\ x <= b}

LEMMA Within ==
    ASSUME NEW T \in SUBSET Int, NEW a \in Int, NEW b \in Int
    PROVE  /\ within(T, a, b) \in SUBSET Int
           /\ \A x \in within(T, a, b) : x \in T /\ x \in Int /\ a <= x /\ x <= b
           /\ \A x \in T : a <= x /\ x <= b => x \in within(T, a, b)
           /\ b < a => within(T, a, b) = {}
  <1>1. \A x \in within(T, a, b) : x \in T /\ x \in Int /\ a <= x /\ x <= b
    BY DEF within
  <1>2. \A x \in T : a <= x /\ x <= b => x \in within(T, a, b)
    BY DEF within
  <1>3. b < a => within(T, a, b) = {}
    BY <1>1
  <1>4. QED BY <1>1, <1>2, <1>3

Sec == [crumb : Seq(Int), body : Seq(Int)]

\* A section has the text from lo to hi, where there is no heading.
Section(T, H, D, a, s) ==
    \E lo, hi \in 1..a :
       /\ lo <= hi /\ within(H, lo, hi) = {}
       /\ s.body # <<>> /\ Rising(s.body, within(T, lo, hi))
       /\ s.crumb = D[hi]

Before(b, c) == \A i \in DOMAIN b, j \in DOMAIN c : b[i] < c[j]

InBody(x, body) == \E i \in DOMAIN body : body[i] = x

\* The sections of the first a lines.
Sections(T, H, D, a, secs) ==
    /\ secs \in Seq(Sec)
    /\ \A p \in DOMAIN secs : Section(T, H, D, a, secs[p])
    /\ \A p, q \in DOMAIN secs : p < q => Before(secs[p].body, secs[q].body)
    /\ \A x \in T : x <= a /\ x \notin H => \E p \in DOMAIN secs : InBody(x, secs[p].body)

closing(secs, body, crumb) ==
    IF body = <<>> THEN secs ELSE Append(secs, [crumb |-> crumb, body |-> body])

LEMMA RisingOfNothing ==
    ASSUME NEW S \in SUBSET Int, NEW s, Rising(s, S)
    PROVE  /\ s = <<>> <=> S = {}
           /\ s \in Seq(Int)
           /\ \A x \in S : InBody(x, s)
           /\ \A i \in DOMAIN s : s[i] \in S
  <1> DEFINE n == Len(s)
  <1>0. Rises(s, S, n)
    BY RisingFacts
  <1>1. n \in Nat /\ DOMAIN s = 1..n /\ s \in Seq(S)
    BY <1>0 DEF Rises
  <1>2. /\ \A i \in 1..n : s[i] \in S
        /\ \A x \in S : \E i \in 1..n : s[i] = x
    BY <1>0 DEF Rises
  <1>3. s = <<>> => S = {}
    <2>1. s = <<>> => 1..n = {}
      OBVIOUS
    <2> HIDE DEF n
    <2>2. QED BY <1>2, <2>1
  <1>4. S = {} => s = <<>>
    <2>1. S = {} => 1..n = {}
      BY <1>2
    <2>2. 1..n = {} => n = 0
      BY <1>1
    <2>3. QED BY <1>1, <2>1, <2>2
  <1>5. s \in Seq(Int)
    <2>1. s = [i \in 1..n |-> s[i]] /\ n \in Nat
      BY <1>1
    <2>2. \A i \in 1..n : s[i] \in Int
      BY <1>2
    <2> HIDE DEF n
    <2>3. QED BY <2>1, <2>2
  <1> HIDE DEF n
  <1>6. QED BY <1>1, <1>2, <1>3, <1>4, <1>5 DEF InBody

\* Before the first line.
LEMMA NoSection ==
    ASSUME NEW T \in SUBSET (Nat \ {0}), NEW H, NEW D
    PROVE  Sections(T, H, D, 0, <<>>)
  <1>1. DOMAIN <<>> = {} /\ <<>> \in Seq(Sec)
    OBVIOUS
  <1>2. \A x \in T : ~ x <= 0
    OBVIOUS
  <1>3. QED BY <1>1, <1>2 DEF Sections

LEMMA SectionOfMore ==
    ASSUME NEW T, NEW H, NEW D, NEW a \in Nat, NEW k \in Nat, a <= k, NEW s,
           Section(T, H, D, a, s)
    PROVE  Section(T, H, D, k, s)
  <1>1. 1..a \subseteq 1..k
    OBVIOUS
  <1>2. QED BY <1>1 DEF Section

\* A section more: the text since the last heading, if there is some.
LEMMA Closing ==
    ASSUME NEW T \in SUBSET Int, NEW H \in SUBSET Int, NEW D,
           NEW a \in Nat, NEW k \in Nat, a <= k, D[k] \in Seq(Int),
           NEW secs, Sections(T, H, D, a, secs),
           within(H, a + 1, k) = {},
           NEW body, Rising(body, within(T, a + 1, k))
    PROVE  Sections(T, H, D, k, closing(secs, body, D[k]))
  <1> DEFINE W == within(T, a + 1, k)
             all == closing(secs, body, D[k])
  <1>1. W \in SUBSET Int /\ \A x \in W : x \in T /\ a < x /\ x <= k
    <2>1. a + 1 \in Int /\ k \in Int
      OBVIOUS
    <2>2. W \in SUBSET Int /\ \A x \in W : x \in T /\ x \in Int /\ a + 1 <= x /\ x <= k
      BY <2>1, Within
    <2> HIDE DEF W
    <2>3. QED BY <2>2
  <1>2. \A x \in T : x <= k => x <= a \/ x \in W
    BY DEF within
  <1>3. /\ body = <<>> <=> W = {}
        /\ body \in Seq(Int)
        /\ \A x \in W : InBody(x, body)
        /\ \A i \in DOMAIN body : body[i] \in W
    <2> HIDE DEF W
    <2>1. QED BY <1>1, RisingOfNothing DEF W
  <1>4. /\ secs \in Seq(Sec)
        /\ \A p \in DOMAIN secs : Section(T, H, D, a, secs[p])
        /\ \A p, q \in DOMAIN secs : p < q => Before(secs[p].body, secs[q].body)
        /\ \A x \in T : x <= a /\ x \notin H
              => \E p \in DOMAIN secs : InBody(x, secs[p].body)
    BY DEF Sections
  <1>5. \A p \in DOMAIN secs : Section(T, H, D, k, secs[p])
    BY <1>4, SectionOfMore
  <1> HIDE DEF W
  <1>6. CASE body = <<>>
    <2>1. all = secs
      BY <1>6 DEF closing
    <2>2. \A x \in T : x <= k /\ x \notin H
              => \E p \in DOMAIN secs : InBody(x, secs[p].body)
      BY <1>2, <1>3, <1>4, <1>6
    <2> HIDE DEF all
    <2>3. Sections(T, H, D, k, secs)
      BY <1>4, <1>5, <2>2 DEF Sections
    <2>4. QED BY <2>1, <2>3 DEF all
  <1>7. CASE body # <<>>
    <2> DEFINE s == [crumb |-> D[k], body |-> body]
               n == Len(secs)
    <2>1. all = Append(secs, s) /\ s \in Sec /\ s.body = body /\ s.crumb = D[k]
      BY <1>3, <1>7 DEF closing, Sec
    <2> HIDE DEF s, all
    <2>2. /\ n \in Nat /\ DOMAIN secs = 1..n /\ all \in Seq(Sec)
          /\ DOMAIN all = 1..n + 1 /\ all[n + 1] = s
          /\ \A p \in 1..n : all[p] = secs[p]
      BY <1>4, <2>1
    <2> HIDE DEF n
    <2>3. \A p \in 1..n + 1 : p \in 1..n \/ p = n + 1
      BY <2>2
    <2>4. Section(T, H, D, k, s)
      <3>1. PICK x \in W : TRUE
        BY <1>3, <1>7
      <3>2. a + 1 \in 1..k /\ k \in 1..k /\ a + 1 <= k
        BY <1>1, <3>1
      <3>3. QED BY <1>7, <2>1, <3>2 DEF Section
    <2>5. ASSUME NEW p \in 1..n
          PROVE  Before(secs[p].body, body)
      <3>1. PICK lo \in 1..a, hi \in 1..a : Rising(secs[p].body, within(T, lo, hi))
        BY <1>4, <2>2 DEF Section
      <3>2. within(T, lo, hi) \in SUBSET Int /\ \A x \in within(T, lo, hi) : x <= a
        <4>1. lo \in Int /\ hi \in Int /\ hi <= a
          OBVIOUS
        <4>2. within(T, lo, hi) \in SUBSET Int /\ \A x \in within(T, lo, hi) : x \in Int /\ x <= hi
          BY <4>1, Within
        <4>3. QED BY <4>1, <4>2
      <3>3. \A i \in DOMAIN secs[p].body : secs[p].body[i] \in within(T, lo, hi)
        BY <3>1, <3>2, RisingOfNothing
      <3>4. SUFFICES ASSUME NEW i \in DOMAIN secs[p].body, NEW j \in DOMAIN body
                     PROVE  secs[p].body[i] < body[j]
        BY DEF Before
      <3>5. secs[p].body[i] \in Int /\ secs[p].body[i] <= a
        BY <3>2, <3>3
      <3>6. body[j] \in Int /\ a < body[j]
        BY <1>1, <1>3
      <3>7. QED BY <3>5, <3>6
    <2>6. ASSUME NEW p \in 1..n + 1, NEW q \in 1..n + 1, p < q
          PROVE  Before(all[p].body, all[q].body)
      <3>1. p \in 1..n
        BY <2>2, <2>6
      <3>2. CASE q \in 1..n
        BY <1>4, <2>2, <2>6, <3>1, <3>2
      <3>3. CASE q = n + 1
        BY <2>1, <2>2, <2>5, <3>1, <3>3
      <3>4. QED BY <2>3, <3>2, <3>3
    <2>7. \A p \in 1..n + 1 : Section(T, H, D, k, all[p])
      BY <1>5, <2>2, <2>3, <2>4
    <2>8. ASSUME NEW x \in T, x <= k, x \notin H
          PROVE  \E p \in 1..n + 1 : InBody(x, all[p].body)
      <3>1. CASE x <= a
        <4>1. PICK p \in 1..n : InBody(x, secs[p].body)
          BY <1>4, <2>2, <2>8, <3>1
        <4>2. p \in 1..n + 1
          BY <2>2
        <4>3. QED BY <2>2, <4>1, <4>2
      <3>2. CASE x \in W
        <4>1. n + 1 \in 1..n + 1
          BY <2>2
        <4>2. QED BY <1>3, <2>1, <2>2, <3>2, <4>1
      <3>3. QED BY <1>2, <2>8, <3>1, <3>2
    <2>9. Sections(T, H, D, k, all)
      BY <2>2, <2>6, <2>7, <2>8 DEF Sections
    <2>10. QED BY <2>9 DEF all
  <1>8. QED BY <1>6, <1>7

\* What the parsers do, line by line.
Parse(T, H, n, secs, bods, D) ==
    /\ secs[0] = <<>> /\ bods[0] = <<>>
    /\ D \in [0..n -> Seq(Int)]
    /\ \A i \in 1..n :
          IF i \in H
          THEN secs[i] = closing(secs[i - 1], bods[i - 1], D[i - 1]) /\ bods[i] = <<>>
          ELSE /\ secs[i] = secs[i - 1]
               /\ bods[i] = IF i \in T THEN Append(bods[i - 1], i) ELSE bods[i - 1]

LEMMA RisingEmpty ==
    ASSUME NEW S, S = {}
    PROVE  Rising(<<>>, S)
  BY DEF Rising

\* By induction over the lines: a parser that ends a section at each heading makes
\* sections of all the text but the headings.
LEMMA Parsed ==
    ASSUME NEW n \in Nat, NEW T \in SUBSET (1..n), NEW H \in SUBSET (1..n),
           NEW secs, NEW bods, NEW D, Parse(T, H, n, secs, bods, D)
    PROVE  Sections(T, H, D, n, closing(secs[n], bods[n], D[n]))
  <1> DEFINE U == {k \in 0..n : \E a \in 0..k :
                      /\ Sections(T, H, D, a, secs[k])
                      /\ within(H, a + 1, k) = {}
                      /\ Rising(bods[k], within(T, a + 1, k))}
  <1>0. T \in SUBSET Int /\ H \in SUBSET Int /\ T \in SUBSET (Nat \ {0})
    OBVIOUS
  <1>1. 0 \in U
    <2>1. within(H, 0 + 1, 0) = {} /\ within(T, 0 + 1, 0) = {}
      BY <1>0, Within
    <2>2. secs[0] = <<>> /\ bods[0] = <<>> /\ 0 \in 0..n /\ 0 \in 0..0
      BY DEF Parse
    <2>3. Sections(T, H, D, 0, secs[0])
      BY <1>0, <2>2, NoSection
    <2>4. Rising(bods[0], within(T, 0 + 1, 0))
      BY <2>1, <2>2, RisingEmpty
    <2>5. QED BY <2>1, <2>2, <2>3, <2>4
  <1>2. ASSUME NEW k \in 0..n, k \in U, k < n
        PROVE  k + 1 \in U
    <2>1. PICK a \in 0..k : /\ Sections(T, H, D, a, secs[k])
                            /\ within(H, a + 1, k) = {}
                            /\ Rising(bods[k], within(T, a + 1, k))
      BY <1>2
    <2> DEFINE m == k + 1
    <2>2. /\ k \in Nat /\ a \in Nat /\ a <= k /\ m \in 1..n /\ m \in 0..n /\ m - 1 = k
          /\ m \in Nat /\ k < m /\ m = k + 1 /\ a \in 0..m /\ m \in 0..m
      BY <1>2
    <2> HIDE DEF m
    <2>3. D[k] \in Seq(Int)
      BY DEF Parse
    <2>4. CASE m \in H
      <3>1. secs[m] = closing(secs[k], bods[k], D[k]) /\ bods[m] = <<>>
        BY <2>2, <2>4 DEF Parse
      <3>2. Sections(T, H, D, k, secs[m])
        BY <1>0, <2>1, <2>2, <2>3, <3>1, Closing
      <3>3. Sections(T, H, D, m, secs[m])
        <4>1. /\ secs[m] \in Seq(Sec)
              /\ \A p \in DOMAIN secs[m] : Section(T, H, D, k, secs[m][p])
              /\ \A p, q \in DOMAIN secs[m] : p < q => Before(secs[m][p].body, secs[m][q].body)
              /\ \A x \in T : x <= k /\ x \notin H
                    => \E p \in DOMAIN secs[m] : InBody(x, secs[m][p].body)
          BY <3>2 DEF Sections
        <4>2. \A p \in DOMAIN secs[m] : Section(T, H, D, m, secs[m][p])
          BY <2>2, <4>1, SectionOfMore
        <4>3. \A x \in T : x <= m /\ x \notin H => x <= k
          BY <1>0, <2>2, <2>4
        <4>4. \A x \in T : x <= m /\ x \notin H
                    => \E p \in DOMAIN secs[m] : InBody(x, secs[m][p].body)
          BY <4>1, <4>3
        <4>5. QED BY <4>1, <4>2, <4>4 DEF Sections
      <3>4. within(H, m + 1, m) = {} /\ within(T, m + 1, m) = {}
        BY <1>0, <2>2, Within
      <3>5. Rising(bods[m], within(T, m + 1, m))
        BY <3>1, <3>4, RisingEmpty
      <3>6. QED BY <2>2, <3>3, <3>4, <3>5 DEF m
    <2>5. CASE m \notin H
      <3>1. /\ secs[m] = secs[k]
            /\ bods[m] = IF m \in T THEN Append(bods[k], m) ELSE bods[k]
        BY <2>2, <2>5 DEF Parse
      <3>2. within(H, a + 1, m) = {}
        <4>1. \A x \in H : x <= m => x <= k
          BY <1>0, <2>2, <2>5
        <4>2. QED BY <2>1, <4>1 DEF within
      <3>3. Rising(bods[m], within(T, a + 1, m))
        <4>1. CASE m \in T
          <5>1. within(T, a + 1, m) = within(T, a + 1, k) \cup {m}
            <6>1. \A x \in T : x <= m <=> x <= k \/ x = m
              BY <1>0, <2>2
            <6>2. a + 1 <= m
              BY <2>2
            <6>3. QED BY <4>1, <6>1, <6>2 DEF within
          <5>2. within(T, a + 1, k) \in SUBSET Int /\ \A y \in within(T, a + 1, k) : y < m
            <6>1. a + 1 \in Int /\ k \in Int
              BY <2>2
            <6>2. within(T, a + 1, k) \in SUBSET Int
                  /\ \A y \in within(T, a + 1, k) : y \in Int /\ y <= k
              BY <1>0, <6>1, Within
            <6>3. QED BY <2>2, <6>2
          <5>3. Rising(Append(bods[k], m), within(T, a + 1, k) \cup {m})
            BY <2>1, <2>2, <5>2, RisingGrows
          <5>4. QED BY <3>1, <4>1, <5>1, <5>3
        <4>2. CASE m \notin T
          <5>1. within(T, a + 1, m) = within(T, a + 1, k)
            <6>1. \A x \in T : x <= m <=> x <= k
              BY <1>0, <2>2, <4>2
            <6>2. QED BY <6>1 DEF within
          <5>2. QED BY <2>1, <3>1, <4>2, <5>1
        <4>3. QED BY <4>1, <4>2
      <3>4. Sections(T, H, D, a, secs[m])
        BY <2>1, <3>1
      <3>5. QED BY <2>2, <3>2, <3>3, <3>4 DEF m
    <2>6. QED BY <2>4, <2>5
  <1>3. n \in U
    <2> HIDE DEF U
    <2>1. 0 \in Int /\ n \in Int /\ 0 <= n /\ n \in 0..n
      OBVIOUS
    <2>2. \A k \in 0..n : k \in U
      BY <1>1, <1>2, <2>1, Climbs
    <2>3. QED BY <2>1, <2>2
  <1>4. PICK a \in 0..n : /\ Sections(T, H, D, a, secs[n])
                          /\ within(H, a + 1, n) = {}
                          /\ Rising(bods[n], within(T, a + 1, n))
    BY <1>3
  <1>5. D[n] \in Seq(Int)
    BY DEF Parse
  <1>6. QED BY <1>0, <1>4, <1>5, Closing

(***************************************************************************)
(* Chunking: the parsers, line by line                                     *)
(***************************************************************************)

text_of(lines) == {i \in DOMAIN lines : lines[i] # "blank"}
markdown_heads(lines) == {i \in DOMAIN lines : level(lines[i]) # 0}
plain_heads(lines) == {i \in DOMAIN lines : is_heading_candidate(lines, i)}

markdown_step(lines, p, i) ==
    IF level(lines[i]) = 0 THEN with_line(lines, p, i)
    ELSE with_heading(p, i, level(lines[i]))

plain_step(lines, p, i) ==
    IF is_heading_candidate(lines, i)
    THEN [sections |-> closed(p, p.heading), body |-> <<>>, heading |-> <<i>>]
    ELSE with_line(lines, p, i)

line_step(md, lines, p, i) ==
    IF md THEN markdown_step(lines, p, i) ELSE plain_step(lines, p, i)

\* h[i] is what the parser has after i lines.
History(md, lines, base, n, h) ==
    /\ h = [i \in 0..n |-> h[i]]
    /\ h[0] = base
    /\ \A i \in 1..n : h[i] = line_step(md, lines, h[i - 1], i)

\* The parser is a recursive function of the line, so it has a history.
LEMMA HistoryExists ==
    ASSUME NEW md, NEW lines, NEW base, NEW n \in Nat
    PROVE  \E h : History(md, lines, base, n, h)
  <1> DEFINE T == {k \in 0..n : \E h : History(md, lines, base, k, h)}
  <1>1. 0 \in T
    <2> DEFINE h == [i \in 0..0 |-> base]
    <2>1. h = [i \in 0..0 |-> h[i]] /\ h[0] = base /\ 1..0 = {} /\ 0 \in 0..n
      OBVIOUS
    <2> HIDE DEF h
    <2>2. History(md, lines, base, 0, h)
      BY <2>1 DEF History
    <2>3. QED BY <2>1, <2>2
  <1>2. ASSUME NEW k \in 0..n, k \in T, k < n
        PROVE  k + 1 \in T
    <2>1. PICK h : History(md, lines, base, k, h)
      BY <1>2
    <2> DEFINE more == line_step(md, lines, h[k], k + 1)
               g == [i \in 0..k + 1 |-> IF i = k + 1 THEN more ELSE h[i]]
    <2>2. /\ k \in Nat /\ k + 1 \in 1..n /\ k + 1 \in 0..n
          /\ \A i \in 0..k : i # k + 1 /\ i \in 0..k + 1
          /\ \A i \in 1..k + 1 : i # k + 1 => i \in 1..k /\ i \in 0..k /\ i - 1 \in 0..k
      BY <1>2
    <2> HIDE DEF more
    <2>3. g[k + 1] = more /\ \A i \in 0..k : g[i] = h[i]
      BY <2>2
    <2>4. g = [i \in 0..k + 1 |-> g[i]]
      OBVIOUS
    <2> HIDE DEF g
    <2>5. g[0] = base
      BY <2>1, <2>2, <2>3 DEF History
    <2>6. ASSUME NEW i \in 1..k + 1
          PROVE  g[i] = line_step(md, lines, g[i - 1], i)
      <3>1. CASE i = k + 1
        <4>1. i - 1 = k /\ k \in 0..k
          BY <2>2, <3>1
        <4>2. QED BY <2>3, <3>1, <4>1 DEF more
      <3>2. CASE i # k + 1
        <4>1. i \in 1..k /\ g[i] = h[i] /\ g[i - 1] = h[i - 1]
          BY <2>2, <2>3, <3>2
        <4>2. QED BY <2>1, <4>1 DEF History
      <3>3. QED BY <3>1, <3>2
    <2>7. History(md, lines, base, k + 1, g)
      BY <2>4, <2>5, <2>6 DEF History
    <2>8. QED BY <2>2, <2>7
  <1>3. n \in T
    <2> HIDE DEF T
    <2>1. 0 \in Int /\ n \in Int /\ 0 <= n /\ n \in 0..n
      OBVIOUS
    <2>2. \A k \in 0..n : k \in T
      BY <1>1, <1>2, <2>1, Climbs
    <2>3. QED BY <2>1, <2>2
  <1>4. QED BY <1>3

LEMMA MarkdownHistory ==
    ASSUME NEW S, NEW lines \in Seq(S)
    PROVE  \E h : /\ History(TRUE, lines, [sections |-> <<>>, body |-> <<>>,
                                           stack |-> <<0, 0, 0>>], Len(lines), h)
                  /\ parse_markdown(lines)
                        = closed(h[Len(lines)], breadcrumb(h[Len(lines)].stack))
  <1> DEFINE n == Len(lines)
             base == [sections |-> <<>>, body |-> <<>>, stack |-> <<0, 0, 0>>]
             next(f, i) == IF i = 0 THEN base
                           ELSE IF level(lines[i]) = 0 THEN with_line(lines, f[i - 1], i)
                           ELSE with_heading(f[i - 1], i, level(lines[i]))
             parsed == CHOOSE f : f = [i \in 0..n |-> next(f, i)]
  <1>1. n \in Nat
    OBVIOUS
  <1>2. parse_markdown(lines) = closed(parsed[n], breadcrumb(parsed[n].stack))
    BY DEF parse_markdown
  <1> HIDE DEF n, base
  <1>3. \A f : \A i \in 1..n : next(f, i) = line_step(TRUE, lines, f[i - 1], i)
    BY <1>1 DEF line_step, markdown_step
  <1>4. \A f : next(f, 0) = base
    OBVIOUS
  <1> HIDE DEF next
  <1>5. PICK g : History(TRUE, lines, base, n, g)
    BY <1>1, HistoryExists
  <1>6. \A i \in 0..n : i = 0 \/ i \in 1..n
    BY <1>1
  <1>7. g = [i \in 0..n |-> next(g, i)]
    <2>1. \A i \in 0..n : g[i] = next(g, i)
      BY <1>3, <1>4, <1>5, <1>6 DEF History
    <2>2. g = [i \in 0..n |-> g[i]]
      BY <1>5 DEF History
    <2>3. QED BY <2>1, <2>2
  <1>8. parsed = [i \in 0..n |-> next(parsed, i)]
    BY <1>7
  <1> HIDE DEF parsed
  <1>9. History(TRUE, lines, base, n, parsed)
    <2>1. parsed = [i \in 0..n |-> parsed[i]]
      BY <1>8
    <2>2. \A i \in 0..n : parsed[i] = next(parsed, i)
      BY <1>8
    <2>3. \A i \in 1..n : i \in 0..n
      BY <1>1
    <2>4. 0 \in 0..n
      BY <1>1
    <2>5. QED BY <1>3, <1>4, <2>1, <2>2, <2>3, <2>4 DEF History
  <1>10. QED BY <1>2, <1>9 DEF n, base

LEMMA PlainHistory ==
    ASSUME NEW S, NEW lines \in Seq(S)
    PROVE  \E h : /\ History(FALSE, lines, [sections |-> <<>>, body |-> <<>>,
                                            heading |-> <<>>], Len(lines), h)
                  /\ parse_plaintext(lines)
                        = closed(h[Len(lines)], h[Len(lines)].heading)
  <1> DEFINE n == Len(lines)
             base == [sections |-> <<>>, body |-> <<>>, heading |-> <<>>]
             next(f, i) == IF i = 0 THEN base
                           ELSE IF is_heading_candidate(lines, i)
                           THEN [sections |-> closed(f[i - 1], f[i - 1].heading),
                                 body |-> <<>>, heading |-> <<i>>]
                           ELSE with_line(lines, f[i - 1], i)
             parsed == CHOOSE f : f = [i \in 0..n |-> next(f, i)]
  <1>1. n \in Nat
    OBVIOUS
  <1>2. parse_plaintext(lines) = closed(parsed[n], parsed[n].heading)
    BY DEF parse_plaintext
  <1> HIDE DEF n, base
  <1>3. \A f : \A i \in 1..n : next(f, i) = line_step(FALSE, lines, f[i - 1], i)
    BY <1>1 DEF line_step, plain_step
  <1>4. \A f : next(f, 0) = base
    OBVIOUS
  <1> HIDE DEF next
  <1>5. PICK g : History(FALSE, lines, base, n, g)
    BY <1>1, HistoryExists
  <1>6. \A i \in 0..n : i = 0 \/ i \in 1..n
    BY <1>1
  <1>7. g = [i \in 0..n |-> next(g, i)]
    <2>1. \A i \in 0..n : g[i] = next(g, i)
      BY <1>3, <1>4, <1>5, <1>6 DEF History
    <2>2. g = [i \in 0..n |-> g[i]]
      BY <1>5 DEF History
    <2>3. QED BY <2>1, <2>2
  <1>8. parsed = [i \in 0..n |-> next(parsed, i)]
    BY <1>7
  <1> HIDE DEF parsed
  <1>9. History(FALSE, lines, base, n, parsed)
    <2>1. parsed = [i \in 0..n |-> parsed[i]]
      BY <1>8
    <2>2. \A i \in 0..n : parsed[i] = next(parsed, i)
      BY <1>8
    <2>3. \A i \in 1..n : i \in 0..n
      BY <1>1
    <2>4. 0 \in 0..n
      BY <1>1
    <2>5. QED BY <1>3, <1>4, <2>1, <2>2, <2>3, <2>4 DEF History
  <1>10. QED BY <1>2, <1>9 DEF n, base

(***************************************************************************)
(* Chunking: the sections of a text that is no markdown                    *)
(***************************************************************************)

LEMMA PlainBody ==
    ASSUME NEW a, NEW b, NEW c, NEW x
    PROVE  [[sections |-> a, body |-> b, heading |-> c] EXCEPT !.body = x]
              = [sections |-> a, body |-> x, heading |-> c]
  OBVIOUS

LEMMA MarkdownBody ==
    ASSUME NEW a, NEW b, NEW c, NEW x
    PROVE  [[sections |-> a, body |-> b, stack |-> c] EXCEPT !.body = x]
              = [sections |-> a, body |-> x, stack |-> c]
  OBVIOUS

next_body(lines, body, i) == IF lines[i] = "blank" THEN body ELSE Append(body, i)

\* The heading a plain text has last, after k lines.
LastHead(H, k, crumb) ==
    \/ crumb = <<>> /\ within(H, 1, k) = {}
    \/ \E h \in H : h <= k /\ within(H, h + 1, k) = {} /\ crumb = <<h>>

IsPlain(p) == p = [sections |-> p.sections, body |-> p.body, heading |-> p.heading]

LEMMA PlainLine ==
    ASSUME NEW lines, NEW p, NEW i, IsPlain(p)
    PROVE  LET r == plain_step(lines, p, i)
           IN  /\ IsPlain(r)
               /\ is_heading_candidate(lines, i) =>
                     /\ r.sections = closing(p.sections, p.body, p.heading)
                     /\ r.body = <<>> /\ r.heading = <<i>>
               /\ ~ is_heading_candidate(lines, i) =>
                     /\ r.sections = p.sections /\ r.heading = p.heading
                     /\ r.body = next_body(lines, p.body, i)
  <1> DEFINE r == plain_step(lines, p, i)
  <1>1. CASE is_heading_candidate(lines, i)
    <2>1. r = [sections |-> closing(p.sections, p.body, p.heading), body |-> <<>>,
               heading |-> <<i>>]
      BY <1>1 DEF plain_step, closed, closing
    <2> HIDE DEF r
    <2>2. QED BY <1>1, <2>1 DEF IsPlain, r
  <1>2. CASE ~ is_heading_candidate(lines, i)
    <2>1. r = [p EXCEPT !.body = next_body(lines, p.body, i)]
      BY <1>2 DEF plain_step, with_line, next_body
    <2> HIDE DEF r
    <2>2. r = [sections |-> p.sections, body |-> next_body(lines, p.body, i),
               heading |-> p.heading]
      BY <2>1, PlainBody DEF IsPlain
    <2>3. QED BY <1>2, <2>2 DEF IsPlain, r
  <1>3. QED BY <1>1, <1>2

\* The sections of a text that is no markdown, each with the last heading before it.
LEMMA PlainSections ==
    ASSUME NEW S, NEW lines \in Seq(S)
    PROVE  \E D : /\ Sections(text_of(lines), plain_heads(lines), D, Len(lines),
                              parse_plaintext(lines))
                  /\ \A k \in 0..Len(lines) : LastHead(plain_heads(lines), k, D[k])
  <1> DEFINE n == Len(lines)
             T == text_of(lines)
             H == plain_heads(lines)
             base == [sections |-> <<>>, body |-> <<>>, heading |-> <<>>]
  <1>1. PICK h : /\ History(FALSE, lines, base, n, h)
                 /\ parse_plaintext(lines) = closed(h[n], h[n].heading)
    BY PlainHistory
  <1>2. /\ n \in Nat /\ T \in SUBSET (1..n) /\ H \in SUBSET (1..n)
        /\ \A i \in 1..n : i \in H <=> is_heading_candidate(lines, i)
        /\ \A i \in 1..n : i \in T <=> lines[i] # "blank"
    BY DEF text_of, plain_heads
  <1> HIDE DEF n, T, H
  <1>3. /\ h[0] = base
        /\ \A i \in 1..n : h[i] = plain_step(lines, h[i - 1], i)
    BY <1>1 DEF History, line_step
  <1> DEFINE U == {k \in 0..n : /\ IsPlain(h[k]) /\ h[k].heading \in Seq(Int)
                                /\ LastHead(H, k, h[k].heading)}
  <1>4. 0 \in U
    <2>1. /\ h[0].heading = <<>> /\ h[0].body = <<>> /\ h[0].sections = <<>>
          /\ 0 \in 0..n /\ IsPlain(h[0])
      BY <1>2, <1>3 DEF IsPlain
    <2>2. within(H, 1, 0) = {}
      <3>1. H \in SUBSET Int
        BY <1>2
      <3>2. QED BY <3>1, Within
    <2>3. h[0].heading \in Seq(Int)
      BY <2>1
    <2>4. QED BY <2>1, <2>2, <2>3 DEF LastHead
  <1>5. ASSUME NEW k \in 0..n, k \in U, k < n
        PROVE  k + 1 \in U
    <2> DEFINE m == k + 1
    <2>1. /\ k \in Nat /\ m \in 1..n /\ m \in 0..n /\ m - 1 = k /\ m = k + 1
          /\ \A x \in H : x \in Int
      BY <1>2, <1>5
    <2> HIDE DEF m
    <2>2. h[m] = plain_step(lines, h[k], m) /\ IsPlain(h[k])
      BY <1>3, <1>5, <2>1
    <2>3. CASE m \in H
      <3>1. IsPlain(h[m]) /\ h[m].heading = <<m>>
        BY <1>2, <2>1, <2>2, <2>3, PlainLine
      <3>2. m \in Int /\ m <= m /\ within(H, m + 1, m) = {}
        BY <2>1 DEF within
      <3>3. h[m].heading \in Seq(Int)
        BY <3>1, <3>2
      <3>4. LastHead(H, m, h[m].heading)
        BY <2>3, <3>1, <3>2 DEF LastHead
      <3>5. QED BY <2>1, <3>1, <3>3, <3>4 DEF m
    <2>4. CASE m \notin H
      <3>1. IsPlain(h[m]) /\ h[m].heading = h[k].heading
        BY <1>2, <2>1, <2>2, <2>4, PlainLine
      <3>2. \A x \in H : x <= m <=> x <= k
        BY <2>1, <2>4
      <3>3. \A b : within(H, b, m) = within(H, b, k)
        BY <3>2 DEF within
      <3>4. LastHead(H, k, h[k].heading) /\ h[k].heading \in Seq(Int)
        BY <1>5
      <3>5. LastHead(H, m, h[k].heading)
        BY <3>2, <3>3, <3>4 DEF LastHead
      <3>6. QED BY <2>1, <3>1, <3>4, <3>5 DEF m
    <2>5. QED BY <2>3, <2>4
  <1>6. \A k \in 0..n : k \in U
    <2> HIDE DEF U
    <2>1. 0 \in Int /\ n \in Int /\ 0 <= n
      BY <1>2
    <2>2. QED BY <1>4, <1>5, <2>1, Climbs
  <1>7. \A k \in 0..n : /\ IsPlain(h[k]) /\ h[k].heading \in Seq(Int)
                        /\ LastHead(H, k, h[k].heading)
    BY <1>6
  <1> HIDE DEF U
  <1> DEFINE secs == [k \in 0..n |-> h[k].sections]
             bods == [k \in 0..n |-> h[k].body]
             D == [k \in 0..n |-> h[k].heading]
  <1>8. Parse(T, H, n, secs, bods, D)
    <2>1. 0 \in 0..n /\ \A i \in 1..n : i \in 0..n /\ i - 1 \in 0..n
      BY <1>2
    <2>2. secs[0] = <<>> /\ bods[0] = <<>>
      BY <1>3, <2>1
    <2>3. D \in [0..n -> Seq(Int)]
      BY <1>7
    <2>4. ASSUME NEW i \in 1..n
          PROVE  IF i \in H
                 THEN secs[i] = closing(secs[i - 1], bods[i - 1], D[i - 1]) /\ bods[i] = <<>>
                 ELSE /\ secs[i] = secs[i - 1]
                      /\ bods[i] = IF i \in T THEN Append(bods[i - 1], i) ELSE bods[i - 1]
      <3>1. /\ secs[i] = h[i].sections /\ bods[i] = h[i].body
            /\ secs[i - 1] = h[i - 1].sections /\ bods[i - 1] = h[i - 1].body
            /\ D[i - 1] = h[i - 1].heading
        BY <2>1
      <3>2. IsPlain(h[i - 1]) /\ h[i] = plain_step(lines, h[i - 1], i)
        BY <1>3, <1>7, <2>1
      <3> HIDE DEF secs, bods, D
      <3>3. CASE i \in H
        <4>1. /\ h[i].sections = closing(h[i - 1].sections, h[i - 1].body, h[i - 1].heading)
              /\ h[i].body = <<>>
          BY <1>2, <3>2, <3>3, PlainLine
        <4>2. QED BY <3>1, <3>3, <4>1
      <3>4. CASE i \notin H
        <4>1. /\ h[i].sections = h[i - 1].sections
              /\ h[i].body = next_body(lines, h[i - 1].body, i)
          BY <1>2, <3>2, <3>4, PlainLine
        <4>2. next_body(lines, h[i - 1].body, i)
                 = IF i \in T THEN Append(h[i - 1].body, i) ELSE h[i - 1].body
          BY <1>2 DEF next_body
        <4>3. QED BY <3>1, <3>4, <4>1, <4>2
      <3>5. QED BY <3>3, <3>4
    <2> HIDE DEF secs, bods, D
    <2>5. QED BY <2>2, <2>3, <2>4 DEF Parse
  <1>9. Sections(T, H, D, n, closing(secs[n], bods[n], D[n]))
    <2> HIDE DEF secs, bods, D
    <2>1. QED BY <1>2, <1>8, Parsed
  <1>10. closing(secs[n], bods[n], D[n]) = parse_plaintext(lines)
    <2>1. n \in 0..n
      BY <1>2
    <2>2. secs[n] = h[n].sections /\ bods[n] = h[n].body /\ D[n] = h[n].heading
      BY <2>1
    <2> HIDE DEF secs, bods, D
    <2>3. QED BY <1>1, <2>2 DEF closed, closing
  <1>11. \A k \in 0..n : LastHead(H, k, D[k])
    BY <1>7
  <1> HIDE DEF D
  <1>12. QED BY <1>9, <1>10, <1>11 DEF n, T, H

(***************************************************************************)
(* Chunking: the headings of markdown                                      *)
(***************************************************************************)

IsMarkdown(p) == p = [sections |-> p.sections, body |-> p.body, stack |-> p.stack]

pushed(stack, lv, i) ==
    [j \in 1..3 |-> IF j < lv THEN stack[j] ELSE IF j = lv THEN i ELSE 0]

\* What line i, with level lv, makes of p.
LineEffect(lines, p, lv, i, r) ==
    /\ IsMarkdown(r)
    /\ lv # 0 => /\ r.sections = closing(p.sections, p.body, breadcrumb(p.stack))
                 /\ r.body = <<>>
                 /\ r.stack = pushed(p.stack, lv, i)
    /\ lv = 0 => /\ r.sections = p.sections /\ r.stack = p.stack
                 /\ r.body = next_body(lines, p.body, i)

LEMMA MarkdownLine ==
    ASSUME NEW lines, NEW p, NEW i, IsMarkdown(p)
    PROVE  LineEffect(lines, p, level(lines[i]), i, markdown_step(lines, p, i))
  <1> DEFINE r == markdown_step(lines, p, i)
             lv == level(lines[i])
             st == pushed(p.stack, lv, i)
  <1>1. CASE lv # 0
    <2>1. r = [sections |-> closing(p.sections, p.body, breadcrumb(p.stack)),
               body |-> <<>>, stack |-> st]
      BY <1>1 DEF markdown_step, with_heading, closed, closing, pushed
    <2> HIDE DEF r, st
    <2>2. QED BY <1>1, <2>1 DEF IsMarkdown, LineEffect, r, st
  <1>2. CASE lv = 0
    <2>1. r = [p EXCEPT !.body = next_body(lines, p.body, i)]
      BY <1>2 DEF markdown_step, with_line, next_body
    <2> HIDE DEF r
    <2>2. r = [sections |-> p.sections, body |-> next_body(lines, p.body, i),
               stack |-> p.stack]
      BY <2>1, MarkdownBody DEF IsMarkdown
    <2>3. QED BY <1>2, <2>2 DEF IsMarkdown, LineEffect, r
  <1>3. QED BY <1>1, <1>2

\* The headings a line after line k is under.
open(lines, k) ==
    {h \in 1..k : /\ level(lines[h]) > 0
                  /\ \A j \in h + 1..k : \/ level(lines[j]) = 0
                                         \/ level(lines[j]) > level(lines[h])}

\* The stack holds the open headings, each at its level.
Stacked(lines, k, stack) ==
    /\ DOMAIN stack = 1..3
    /\ \A lv \in 1..3 : \/ stack[lv] = 0
                        \/ stack[lv] \in open(lines, k) /\ level(lines[stack[lv]]) = lv
    /\ \A h \in open(lines, k) : stack[level(lines[h])] = h

LEMMA LevelIsSmall ==
    ASSUME NEW line
    PROVE  level(line) \in 0..3
  BY DEF level

\* A heading closes those of its level and below; another line closes none.
LEMMA OpenAfter ==
    ASSUME NEW lines, NEW k \in Nat
    PROVE  /\ level(lines[k + 1]) = 0 => open(lines, k + 1) = open(lines, k)
           /\ level(lines[k + 1]) # 0 =>
                 open(lines, k + 1) = {k + 1} \cup {h \in open(lines, k) :
                                          level(lines[h]) < level(lines[k + 1])}
  <1> DEFINE m == k + 1
  <1>1. /\ k \in Nat /\ m \in Nat /\ k < m /\ m = k + 1
        /\ \A h \in 1..m : h \in 1..k \/ h = m
        /\ \A h \in 1..k : h \in 1..m /\ h # m /\ m \in h + 1..m /\ m \notin h + 1..k
                           /\ (\A j \in h + 1..m : j \in h + 1..k \/ j = m)
                           /\ (\A j \in h + 1..k : j \in h + 1..m)
        /\ m + 1..m = {} /\ m \in 1..m
    OBVIOUS
  <1> HIDE DEF m
  <1>2. \A i : level(lines[i]) \in Int /\ level(lines[i]) >= 0
    BY LevelIsSmall
  <1>3. ASSUME NEW h \in 1..k
        PROVE  h \in open(lines, m) <=> /\ h \in open(lines, k)
                                        /\ \/ level(lines[m]) = 0
                                           \/ level(lines[m]) > level(lines[h])
    BY <1>1 DEF open
  <1>4. m \in open(lines, m) <=> level(lines[m]) # 0
    BY <1>1, <1>2 DEF open
  <1>5. /\ \A h \in open(lines, m) : h \in 1..k \/ h = m
        /\ \A h \in open(lines, k) : h \in 1..k
    BY <1>1 DEF open
  <1>6. CASE level(lines[m]) = 0
    BY <1>3, <1>4, <1>5, <1>6 DEF m
  <1>7. CASE level(lines[m]) # 0
    <2>1. \A h \in 1..k : h \in open(lines, m) <=> /\ h \in open(lines, k)
                                                   /\ level(lines[h]) < level(lines[m])
      BY <1>2, <1>3, <1>7
    <2>2. open(lines, m) = {m} \cup {h \in open(lines, k) :
                                        level(lines[h]) < level(lines[m])}
      BY <1>4, <1>5, <1>7, <2>1
    <2>3. QED BY <1>7, <2>2 DEF m
  <1>8. QED BY <1>6, <1>7

\* heading_stack holds the open headings after every line.
LEMMA StackedAfter ==
    ASSUME NEW lines, NEW k \in Nat, NEW stack, Stacked(lines, k, stack)
    PROVE  LET lv == level(lines[k + 1])
           IN  IF lv = 0 THEN Stacked(lines, k + 1, stack)
               ELSE Stacked(lines, k + 1, pushed(stack, lv, k + 1))
  <1> DEFINE lv == level(lines[k + 1])
             st == pushed(stack, lv, k + 1)
             O == open(lines, k)
             P == open(lines, k + 1)
  <1>1. CASE lv = 0
    <2>1. P = O
      BY <1>1, OpenAfter
    <2>2. QED BY <1>1, <2>1 DEF Stacked
  <1>2. CASE lv # 0
    <2>1. P = {k + 1} \cup {h \in O : level(lines[h]) < lv}
      BY <1>2, OpenAfter
    <2>2. lv \in 1..3 /\ \A h \in P : level(lines[h]) \in 1..3
      <3>1. \A h \in P : level(lines[h]) > 0 /\ level(lines[h]) \in 0..3
        BY LevelIsSmall DEF open
      <3>2. lv \in 0..3
        BY LevelIsSmall
      <3> HIDE DEF lv, P
      <3>3. QED BY <1>2, <3>1, <3>2
    <2>3. /\ \A j \in 1..3 : \/ stack[j] = 0
                             \/ stack[j] \in O /\ level(lines[stack[j]]) = j
          /\ \A h \in O : stack[level(lines[h])] = h
      BY DEF Stacked
    <2>4. /\ DOMAIN st = 1..3
          /\ \A j \in 1..3 : /\ j < lv => st[j] = stack[j]
                             /\ j = lv => st[j] = k + 1
                             /\ ~ j < lv /\ j # lv => st[j] = 0
      BY <2>2 DEF pushed
    <2>5. level(lines[k + 1]) = lv
      OBVIOUS
    <2> HIDE DEF st, O, P, lv
    <2>6. ASSUME NEW j \in 1..3
          PROVE  st[j] = 0 \/ (st[j] \in P /\ level(lines[st[j]]) = j)
      <3>1. CASE j < lv
        BY <2>1, <2>3, <2>4, <3>1
      <3>2. CASE j = lv
        BY <2>1, <2>4, <2>5, <3>2
      <3>3. CASE ~ j < lv /\ j # lv
        BY <2>4, <3>3
      <3>4. QED BY <3>1, <3>2, <3>3
    <2>7. ASSUME NEW h \in P
          PROVE  st[level(lines[h])] = h
      <3>1. CASE h = k + 1
        BY <2>2, <2>4, <2>5, <3>1
      <3>2. CASE h \in O /\ level(lines[h]) < lv
        BY <2>2, <2>3, <2>4, <3>2
      <3>3. QED BY <2>1, <3>1, <3>2
    <2>8. Stacked(lines, k + 1, st)
      BY <2>4, <2>6, <2>7 DEF Stacked, P
    <2>9. QED BY <1>2, <2>8 DEF st, lv
  <1>3. QED BY <1>1, <1>2

\* What is before a section: the open headings, from the outermost one.
LEMMA BreadcrumbIsOpen ==
    ASSUME NEW lines, NEW k \in Nat, NEW stack, Stacked(lines, k, stack)
    PROVE  /\ breadcrumb(stack) = in_order(open(lines, k))
           /\ Rising(breadcrumb(stack), open(lines, k))
           /\ breadcrumb(stack) \in Seq(Int)
  <1> DEFINE L == {lv \in 1..3 : stack[lv] # 0}
             levels == in_order(L)
             n == Len(levels)
             O == open(lines, k)
             crumb == breadcrumb(stack)
  <1>1. /\ L \in SUBSET Int /\ IsFiniteSet(L) /\ L \in SUBSET (1..3)
        /\ \A lv \in L : stack[lv] # 0
        /\ \A lv \in 1..3 : stack[lv] # 0 => lv \in L
    <2>1. IsFiniteSet(1..3) /\ L \in SUBSET (1..3)
      <3>1. 1 \in Int /\ 3 \in Int
        OBVIOUS
      <3>2. IsFiniteSet(1..3)
        BY <3>1, FS_Interval
      <3>3. QED BY <3>2
    <2>2. IsFiniteSet(L)
      <3> HIDE DEF L
      <3>1. QED BY <2>1, FS_Subset
    <2>3. QED BY <2>2
  <1>2. crumb = [i \in DOMAIN levels |-> stack[levels[i]]]
    BY DEF breadcrumb
  <1>3. O \in SUBSET (1..k) /\ O \in SUBSET Int /\ IsFiniteSet(O)
    <2>1. O \in SUBSET (1..k)
      BY DEF open
    <2> HIDE DEF O
    <2>2. IsFiniteSet(1..k)
      BY FS_Interval
    <2>3. IsFiniteSet(O)
      BY <2>1, <2>2, FS_Subset
    <2>4. QED BY <2>1, <2>3
  <1>4. /\ \A lv \in 1..3 : \/ stack[lv] = 0
                            \/ stack[lv] \in O /\ level(lines[stack[lv]]) = lv
        /\ \A h \in O : stack[level(lines[h])] = h
        /\ \A h \in O : level(lines[h]) \in 1..3
    <2>1. \A h \in O : level(lines[h]) > 0 /\ level(lines[h]) \in 0..3
      BY LevelIsSmall DEF open
    <2>2. \A h \in O : level(lines[h]) \in 1..3
      BY <2>1
    <2>3. QED BY <2>2 DEF Stacked
  <1>5. ASSUME NEW g \in O, NEW h \in O, level(lines[g]) < level(lines[h])
        PROVE  g < h
    <2>1. g \in 1..k /\ h \in 1..k
      BY <1>3
    <2>2. SUFFICES ASSUME ~ g < h PROVE FALSE
      OBVIOUS
    <2>3. level(lines[g]) \in 1..3 /\ level(lines[h]) \in 1..3
      BY <1>4
    <2>4. g # h
      BY <1>5, <2>3
    <2>5. g \in h + 1..k
      BY <2>1, <2>2, <2>4
    <2>6. level(lines[g]) = 0 \/ level(lines[g]) > level(lines[h])
      BY <2>5 DEF open
    <2>7. QED BY <1>5, <2>3, <2>6
  <1> HIDE DEF L, O, levels
  <1>6. Rises(levels, L, n)
    <2>1. Rising(levels, L)
      BY <1>1, InOrderRises DEF levels
    <2>2. QED BY <1>1, <2>1, RisingFacts
  <1>7. /\ n \in Nat /\ DOMAIN levels = 1..n
        /\ \A i \in 1..n : levels[i] \in L /\ levels[i] \in Int
        /\ \A i, j \in 1..n : i < j => levels[i] < levels[j]
        /\ \A x \in L : \E i \in 1..n : levels[i] = x
    BY <1>6 DEF Rises
  <1> HIDE DEF n, crumb
  <1>8. \A i \in 1..n : /\ crumb[i] = stack[levels[i]]
                        /\ crumb[i] \in O /\ level(lines[crumb[i]]) = levels[i]
    BY <1>1, <1>2, <1>4, <1>7
  <1>9. crumb = [i \in 1..n |-> crumb[i]]
    BY <1>2, <1>7
  <1>10. crumb \in Seq(O) /\ crumb \in Seq(Int) /\ DOMAIN crumb = 1..n
    <2>1. \A i \in 1..n : crumb[i] \in O /\ crumb[i] \in Int
      BY <1>3, <1>8
    <2>2. DOMAIN crumb = 1..n
      BY <1>9
    <2>3. crumb \in [1..n -> O] /\ crumb \in [1..n -> Int]
      BY <1>9, <2>1
    <2>4. QED BY <1>7, <2>2, <2>3
  <1>11. \A i, j \in 1..n : i < j => crumb[i] < crumb[j]
    BY <1>5, <1>7, <1>8
  <1>12. ASSUME NEW h \in O
         PROVE  \E i \in 1..n : crumb[i] = h
    <2>1. h # 0
      BY <1>3
    <2>2. level(lines[h]) \in L
      BY <1>1, <1>4, <2>1
    <2>3. PICK i \in 1..n : levels[i] = level(lines[h])
      BY <1>7, <2>2
    <2>4. QED BY <1>4, <1>8, <2>3
  <1>13. Rising(crumb, O)
    BY <1>7, <1>10, <1>11, <1>12 DEF Rising
  <1>14. crumb = in_order(O)
    BY <1>3, <1>13, RisingIsInOrder
  <1>15. QED BY <1>10, <1>13, <1>14 DEF crumb, O

\* The sections of markdown, each with the headings that are open where it ends.
LEMMA MarkdownSections ==
    ASSUME NEW S, NEW lines \in Seq(S)
    PROVE  \E D : /\ Sections(text_of(lines), markdown_heads(lines), D, Len(lines),
                              parse_markdown(lines))
                  /\ \A k \in 0..Len(lines) : /\ D[k] = in_order(open(lines, k))
                                               /\ Rising(D[k], open(lines, k))
  <1> DEFINE n == Len(lines)
             T == text_of(lines)
             H == markdown_heads(lines)
             base == [sections |-> <<>>, body |-> <<>>, stack |-> <<0, 0, 0>>]
  <1>1. PICK h : /\ History(TRUE, lines, base, n, h)
                 /\ parse_markdown(lines) = closed(h[n], breadcrumb(h[n].stack))
    BY MarkdownHistory
  <1>2. /\ n \in Nat /\ T \in SUBSET (1..n) /\ H \in SUBSET (1..n)
        /\ \A i \in 1..n : i \in H <=> level(lines[i]) # 0
        /\ \A i \in 1..n : i \in T <=> lines[i] # "blank"
    BY DEF text_of, markdown_heads
  <1> HIDE DEF n, T, H
  <1>3. /\ h[0] = base
        /\ \A i \in 1..n : h[i] = markdown_step(lines, h[i - 1], i)
    BY <1>1 DEF History, line_step
  <1> DEFINE U == {k \in 0..n : IsMarkdown(h[k]) /\ Stacked(lines, k, h[k].stack)}
  <1>4. 0 \in U
    <2>1. h[0].stack = <<0, 0, 0>> /\ 0 \in 0..n /\ IsMarkdown(h[0])
      BY <1>2, <1>3 DEF IsMarkdown
    <2>2. open(lines, 0) = {}
      BY DEF open
    <2>3. Stacked(lines, 0, h[0].stack)
      BY <2>1, <2>2 DEF Stacked
    <2>4. QED BY <2>1, <2>3
  <1>5. ASSUME NEW k \in 0..n, k \in U, k < n
        PROVE  k + 1 \in U
    <2>1. k \in Nat /\ k + 1 \in 1..n /\ k + 1 \in 0..n /\ (k + 1) - 1 = k
      BY <1>2, <1>5
    <2>2. /\ h[k + 1] = markdown_step(lines, h[k], k + 1)
          /\ IsMarkdown(h[k]) /\ Stacked(lines, k, h[k].stack)
      BY <1>3, <1>5, <2>1
    <2>3. IsMarkdown(h[k + 1])
      BY <2>2, MarkdownLine DEF LineEffect
    <2>4. Stacked(lines, k + 1, h[k + 1].stack)
      <3>1. CASE level(lines[k + 1]) = 0
        <4>1. h[k + 1].stack = h[k].stack
          BY <2>2, <3>1, MarkdownLine DEF LineEffect
        <4>2. QED BY <2>1, <2>2, <3>1, <4>1, StackedAfter
      <3>2. CASE level(lines[k + 1]) # 0
        <4>1. h[k + 1].stack = pushed(h[k].stack, level(lines[k + 1]), k + 1)
          BY <2>2, <3>2, MarkdownLine DEF LineEffect
        <4>2. QED BY <2>1, <2>2, <3>2, <4>1, StackedAfter
      <3>3. QED BY <3>1, <3>2
    <2>5. QED BY <2>1, <2>3, <2>4
  <1>6. \A k \in 0..n : k \in U
    <2> HIDE DEF U
    <2>1. 0 \in Int /\ n \in Int /\ 0 <= n
      BY <1>2
    <2>2. QED BY <1>4, <1>5, <2>1, Climbs
  <1> DEFINE secs == [k \in 0..n |-> h[k].sections]
             bods == [k \in 0..n |-> h[k].body]
             D == [k \in 0..n |-> breadcrumb(h[k].stack)]
  <1>7. ASSUME NEW k \in 0..n
        PROVE  /\ IsMarkdown(h[k]) /\ D[k] \in Seq(Int)
               /\ D[k] = in_order(open(lines, k)) /\ Rising(D[k], open(lines, k))
    <2>1. IsMarkdown(h[k]) /\ Stacked(lines, k, h[k].stack) /\ k \in Nat
      BY <1>2, <1>6
    <2>2. D[k] = breadcrumb(h[k].stack)
      OBVIOUS
    <2> HIDE DEF D
    <2>3. QED BY <2>1, <2>2, BreadcrumbIsOpen
  <1> HIDE DEF U
  <1>8. Parse(T, H, n, secs, bods, D)
    <2>1. 0 \in 0..n /\ \A i \in 1..n : i \in 0..n /\ i - 1 \in 0..n
      BY <1>2
    <2>2. secs[0] = <<>> /\ bods[0] = <<>>
      BY <1>3, <2>1
    <2>3. D \in [0..n -> Seq(Int)]
      BY <1>7
    <2>4. ASSUME NEW i \in 1..n
          PROVE  IF i \in H
                 THEN secs[i] = closing(secs[i - 1], bods[i - 1], D[i - 1]) /\ bods[i] = <<>>
                 ELSE /\ secs[i] = secs[i - 1]
                      /\ bods[i] = IF i \in T THEN Append(bods[i - 1], i) ELSE bods[i - 1]
      <3>1. /\ secs[i] = h[i].sections /\ bods[i] = h[i].body
            /\ secs[i - 1] = h[i - 1].sections /\ bods[i - 1] = h[i - 1].body
            /\ D[i - 1] = breadcrumb(h[i - 1].stack)
        BY <2>1
      <3>2. IsMarkdown(h[i - 1]) /\ h[i] = markdown_step(lines, h[i - 1], i)
        BY <1>3, <1>7, <2>1
      <3> HIDE DEF secs, bods, D
      <3>3. CASE i \in H
        <4>1. /\ h[i].sections = closing(h[i - 1].sections, h[i - 1].body, breadcrumb(h[i - 1].stack))
              /\ h[i].body = <<>>
          BY <1>2, <3>2, <3>3, MarkdownLine DEF LineEffect
        <4>2. QED BY <3>1, <3>3, <4>1
      <3>4. CASE i \notin H
        <4>1. /\ h[i].sections = h[i - 1].sections
              /\ h[i].body = next_body(lines, h[i - 1].body, i)
          BY <1>2, <3>2, <3>4, MarkdownLine DEF LineEffect
        <4>2. next_body(lines, h[i - 1].body, i)
                 = IF i \in T THEN Append(h[i - 1].body, i) ELSE h[i - 1].body
          BY <1>2 DEF next_body
        <4>3. QED BY <3>1, <3>4, <4>1, <4>2
      <3>5. QED BY <3>3, <3>4
    <2> HIDE DEF secs, bods, D
    <2>5. QED BY <2>2, <2>3, <2>4 DEF Parse
  <1>9. Sections(T, H, D, n, closing(secs[n], bods[n], D[n]))
    <2> HIDE DEF secs, bods, D
    <2>1. QED BY <1>2, <1>8, Parsed
  <1>10. closing(secs[n], bods[n], D[n]) = parse_markdown(lines)
    <2>1. n \in 0..n
      BY <1>2
    <2>2. secs[n] = h[n].sections /\ bods[n] = h[n].body /\ D[n] = breadcrumb(h[n].stack)
      BY <2>1
    <2> HIDE DEF secs, bods, D
    <2>3. QED BY <1>1, <2>2 DEF closed, closing
  <1>11. \A k \in 0..n : D[k] = in_order(open(lines, k)) /\ Rising(D[k], open(lines, k))
    BY <1>7
  <1> HIDE DEF D
  <1>12. QED BY <1>9, <1>10, <1>11 DEF n, T, H

(***************************************************************************)
(* Chunking: cutting a piece of text                                       *)
(***************************************************************************)

IsPiece(c) == c = piece(c.crumb, c.body, c.index)

\* The chunks are cut out of the body, one after the other, and nothing is left out.
Cut(body, chunks, from, to) ==
    /\ Len(chunks) \in Nat /\ DOMAIN chunks = 1..Len(chunks)
    /\ \A k \in DOMAIN chunks :
          /\ IsPiece(chunks[k]) /\ chunks[k].index = k - 1
          /\ chunks[k].body = SubSeq(body, from[k], to[k])
          /\ from[k] \in DOMAIN body /\ to[k] \in DOMAIN body /\ from[k] <= to[k]
    /\ \A k \in 2..Len(chunks) : from[k - 1] < from[k] /\ to[k - 1] < to[k]
    /\ \A p \in DOMAIN body : \E k \in DOMAIN chunks : InBody(body[p], chunks[k].body)

LEMMA PieceIsPiece ==
    ASSUME NEW crumb, NEW body, NEW index
    PROVE  /\ IsPiece(piece(crumb, body, index))
           /\ piece(crumb, body, index).crumb = crumb
           /\ piece(crumb, body, index).body = body
           /\ piece(crumb, body, index).index = index
  <1>1. /\ piece(crumb, body, index).crumb = crumb
        /\ piece(crumb, body, index).body = body
        /\ piece(crumb, body, index).index = index
    BY DEF piece
  <1>2. QED BY <1>1 DEF IsPiece

LEMMA RecursiveIsPieces ==
    ASSUME NEW S, NEW body \in Seq(S), NEW k \in DOMAIN recursive(body)
    PROVE  IsPiece(recursive(body)[k])
  <1>1. CASE body = <<>>
    <2>1. recursive(body) = <<>>
      BY <1>1 DEF recursive
    <2>2. QED BY <2>1
  <1>2. CASE body # <<>> /\ Len(body) * LineLength <= ChunkSize
    <2>1. recursive(body) = <<piece(<<>>, body, 0)>>
      BY <1>2 DEF recursive
    <2>2. recursive(body)[k] = piece(<<>>, body, 0)
      BY <2>1
    <2>3. QED BY <2>2, PieceIsPiece
  <1>3. CASE body # <<>> /\ Len(body) * LineLength > ChunkSize
    <2> DEFINE cuts == windows(body, split_length(ChunkSize),
                               split_length(ChunkSize) - split_overlap(ChunkSize))
    <2>1. recursive(body) = [i \in DOMAIN cuts |-> piece(<<>>, cuts[i], i - 1)]
      BY <1>3, RecursiveWindows
    <2> HIDE DEF cuts
    <2>2. recursive(body)[k] = piece(<<>>, cuts[k], k - 1)
      BY <2>1
    <2>3. QED BY <2>2, PieceIsPiece
  <1>4. QED
    BY <1>1, <1>2, <1>3, ChunkingAssumption

\* RecursiveChunking cuts a text.
LEMMA RecursiveCuts ==
    ASSUME NEW S, NEW body \in Seq(S)
    PROVE  \E from, to : Cut(body, recursive(body), from, to)
  <1> DEFINE chunks == recursive(body)
  <1>1. PICK from, to : Stretches(body, chunks, from, to)
    BY SplittingFollowsTheText
  <1>2. \A k \in DOMAIN chunks : IsPiece(chunks[k])
    BY RecursiveIsPieces
  <1>3. ASSUME NEW p \in DOMAIN body
        PROVE  \E k \in DOMAIN chunks : InBody(body[p], chunks[k].body)
    <2>1. PICK k \in DOMAIN chunks : body[p] \in ToSet(chunks[k].body)
      BY SplittingKeepsAll
    <2>2. InBody(body[p], chunks[k].body)
      BY <2>1 DEF ToSet, InBody
    <2>3. QED BY <2>2
  <1> HIDE DEF chunks
  <1>4. /\ Len(chunks) \in Nat /\ DOMAIN chunks = 1..Len(chunks)
        /\ \A k \in DOMAIN chunks :
              /\ chunks[k].index = k - 1
              /\ chunks[k].body = SubSeq(body, from[k], to[k])
              /\ from[k] \in DOMAIN body /\ to[k] \in DOMAIN body /\ from[k] <= to[k]
        /\ \A k \in 2..Len(chunks) : from[k - 1] < from[k] /\ to[k - 1] < to[k]
    BY <1>1 DEF Stretches
  <1>5. Cut(body, chunks, from, to)
    BY <1>2, <1>3, <1>4 DEF Cut
  <1>6. QED BY <1>5 DEF chunks

\* The text has the sentences from b[1] to the last one of b, and no others of T.
Spanned(T, b) ==
    /\ b # <<>> /\ b \in Seq(Int)
    /\ b[1] \in T /\ b[Len(b)] \in T
    /\ Rising(b, within(T, b[1], b[Len(b)]))

Further(b, c) == b[1] < c[1] /\ b[Len(b)] < c[Len(c)]

IsPart(T, body, from, to, b) ==
    Spanned(T, b) /\ b[1] = body[from] /\ b[Len(b)] = body[to]

\* A part of a text in order.
LEMMA PartIsSpanned ==
    ASSUME NEW T \in SUBSET Int, NEW body, Rising(body, T),
           NEW from \in DOMAIN body, NEW to \in DOMAIN body, from <= to,
           NEW b, b = SubSeq(body, from, to)
    PROVE  IsPart(T, body, from, to, b)
  <1> DEFINE n == Len(body)
             m == to - from + 1
  <1>1. Rises(body, T, n)
    BY RisingFacts
  <1>2. n \in Nat /\ DOMAIN body = 1..n /\ body \in Seq(T)
    BY <1>1 DEF Rises
  <1>3. \A i \in 1..n : body[i] \in T /\ body[i] \in Int
    BY <1>1 DEF Rises
  <1>4. from \in 1..n /\ to \in 1..n /\ m \in Nat \ {0}
    BY <1>2
  <1>5. /\ Len(b) = m /\ DOMAIN b = 1..m /\ b[1] = body[from] /\ b[m] = body[to]
        /\ b \in Seq(T)
    BY <1>2, <1>4
  <1> HIDE DEF n, m
  <1>6. b # <<>> /\ b \in Seq(Int) /\ b[1] \in T /\ b[Len(b)] \in T
    <2>1. b # <<>> /\ b[1] \in T /\ b[Len(b)] \in T
      BY <1>3, <1>4, <1>5
    <2>2. b \in Seq(Int)
      <3> DEFINE P == {x \in T : body[from] <= x /\ x <= body[to]}
      <3>1. P \in SUBSET Int /\ Rising(b, P)
        BY RisingPart
      <3> HIDE DEF P
      <3>2. QED BY <3>1, RisingOfNothing
    <2>3. QED BY <2>1, <2>2
  <1>7. Rising(b, {x \in T : body[from] <= x /\ x <= body[to]})
    BY RisingPart
  <1>8. Rising(b, within(T, b[1], b[Len(b)]))
    BY <1>5, <1>7 DEF within
  <1>9. QED BY <1>5, <1>6, <1>8 DEF Spanned, IsPart

\* The chunks follow one another in the text T, and have all of it.
InSequence(T, chunks) ==
    /\ Len(chunks) \in Nat /\ DOMAIN chunks = 1..Len(chunks)
    /\ \A k \in DOMAIN chunks : /\ IsPiece(chunks[k]) /\ chunks[k].index = k - 1
                                /\ Spanned(T, chunks[k].body)
    /\ \A k \in 2..Len(chunks) : Further(chunks[k - 1].body, chunks[k].body)

AllKept(T, chunks) == \A x \in T : \E k \in DOMAIN chunks : InBody(x, chunks[k].body)

\* What is cut out of a text that is in order, is in order, and has all of it.
LEMMA CutsAreOrdered ==
    ASSUME NEW T \in SUBSET Int, NEW body, Rising(body, T),
           NEW chunks, NEW from, NEW to, Cut(body, chunks, from, to)
    PROVE  InSequence(T, chunks) /\ AllKept(T, chunks)
  <1> DEFINE n == Len(body)
             N == Len(chunks)
  <1>1. Rises(body, T, n)
    BY RisingFacts
  <1>2. /\ n \in Nat /\ DOMAIN body = 1..n
        /\ \A i, j \in 1..n : i < j => body[i] < body[j]
        /\ \A x \in T : \E i \in 1..n : body[i] = x
    BY <1>1 DEF Rises
  <1>3. /\ N \in Nat /\ DOMAIN chunks = 1..N
        /\ \A k \in 1..N : /\ IsPiece(chunks[k]) /\ chunks[k].index = k - 1
                           /\ chunks[k].body = SubSeq(body, from[k], to[k])
                           /\ from[k] \in DOMAIN body /\ to[k] \in DOMAIN body
                           /\ from[k] <= to[k]
        /\ \A k \in 2..N : from[k - 1] < from[k] /\ to[k - 1] < to[k]
        /\ \A p \in DOMAIN body : \E k \in 1..N : InBody(body[p], chunks[k].body)
    BY DEF Cut
  <1>4. N = Len(chunks)
    OBVIOUS
  <1> HIDE DEF n, N
  <1>5. ASSUME NEW k \in 1..N
        PROVE  /\ Spanned(T, chunks[k].body)
               /\ chunks[k].body[1] = body[from[k]]
               /\ chunks[k].body[Len(chunks[k].body)] = body[to[k]]
    <2>1. /\ chunks[k].body = SubSeq(body, from[k], to[k])
          /\ from[k] \in DOMAIN body /\ to[k] \in DOMAIN body /\ from[k] <= to[k]
      BY <1>3
    <2>2. IsPart(T, body, from[k], to[k], chunks[k].body)
      BY <2>1, PartIsSpanned
    <2>3. QED BY <2>2 DEF IsPart
  <1>6. ASSUME NEW k \in 2..N
        PROVE  Further(chunks[k - 1].body, chunks[k].body)
    <2>1. k \in 1..N /\ k - 1 \in 1..N
      BY <1>3
    <2>2. /\ from[k - 1] \in 1..n /\ from[k] \in 1..n /\ from[k - 1] < from[k]
          /\ to[k - 1] \in 1..n /\ to[k] \in 1..n /\ to[k - 1] < to[k]
      BY <1>2, <1>3, <2>1
    <2>3. body[from[k - 1]] < body[from[k]] /\ body[to[k - 1]] < body[to[k]]
      BY <1>2, <2>2
    <2>4. QED BY <1>5, <2>1, <2>3 DEF Further
  <1>7. AllKept(T, chunks)
    <2>1. SUFFICES ASSUME NEW x \in T
                   PROVE  \E k \in 1..N : InBody(x, chunks[k].body)
      BY <1>3 DEF AllKept
    <2>2. PICK i \in 1..n : body[i] = x
      BY <1>2
    <2>3. QED BY <1>2, <1>3, <2>2
  <1>8. InSequence(T, chunks)
    BY <1>3, <1>4, <1>5, <1>6 DEF InSequence
  <1>9. QED BY <1>7, <1>8

\* Where a chunk of the semantic strategy ends.
semantic_end(starts, n, k) == IF k < Len(starts) THEN starts[k + 1] - 1 ELSE n

LEMMA SemanticPieces ==
    ASSUME NEW body, NEW low, body # <<>>
    PROVE  LET starts == split_points(Len(body), low)
           IN  semantic(body, low)
                  = [k \in DOMAIN starts |->
                       piece(<<>>, SubSeq(body, starts[k],
                                          semantic_end(starts, Len(body), k)), k - 1)]
  <1> DEFINE starts == split_points(Len(body), low)
             part(k) == SubSeq(body, starts[k], semantic_end(starts, Len(body), k))
             zeros == [k \in DOMAIN starts |-> piece(<<>>, part(k), 0)]
  <1>1. semantic(body, low) = numbered(zeros)
    BY DEF semantic, semantic_end
  <1> HIDE DEF starts, part
  <1>2. ASSUME NEW k \in DOMAIN starts
        PROVE  [zeros[k] EXCEPT !.index = k - 1] = piece(<<>>, part(k), k - 1)
    <2>1. zeros[k] = piece(<<>>, part(k), 0)
      OBVIOUS
    <2>2. QED BY <2>1, Renumbered
  <1>3. numbered(zeros) = [k \in DOMAIN starts |-> piece(<<>>, part(k), k - 1)]
    <2>1. DOMAIN zeros = DOMAIN starts
      OBVIOUS
    <2> HIDE DEF zeros
    <2>2. QED BY <1>2, <2>1 DEF numbered
  <1>4. QED BY <1>1, <1>3 DEF starts, part

\* SemanticChunking cuts a text.
LEMMA SemanticCuts ==
    ASSUME NEW S, NEW body \in Seq(S), NEW low, body # <<>>
    PROVE  \E from, to : Cut(body, semantic(body, low), from, to)
  <1> DEFINE n == Len(body)
             P == {1} \cup {i \in 2..n : i - 1 \in low}
             starts == split_points(n, low)
             N == Len(starts)
             chunks == semantic(body, low)
             from == [k \in 1..N |-> starts[k]]
             to == [k \in 1..N |-> semantic_end(starts, n, k)]
  <1>1. n \in Nat \ {0} /\ DOMAIN body = 1..n
    OBVIOUS
  <1>2. P \in SUBSET (1..n) /\ P \in SUBSET Int /\ IsFiniteSet(P) /\ 1 \in P
    <2>1. P \in SUBSET (1..n) /\ 1 \in P
      BY <1>1
    <2>2. IsFiniteSet(1..n)
      BY <1>1, FS_Interval
    <2> HIDE DEF P
    <2>3. IsFiniteSet(P)
      BY <2>1, <2>2, FS_Subset
    <2>4. QED BY <2>1, <2>3
  <1>3. Rises(starts, P, N)
    <2>1. starts = in_order(P)
      BY DEF split_points
    <2> HIDE DEF P, starts
    <2>2. Rising(starts, P)
      BY <1>2, <2>1, InOrderRises
    <2>3. QED BY <1>2, <2>2, RisingFacts
  <1>4. chunks = [k \in DOMAIN starts |->
                    piece(<<>>, SubSeq(body, starts[k], semantic_end(starts, n, k)), k - 1)]
    BY SemanticPieces
  <1> HIDE DEF P, starts
  <1>5. /\ N \in Nat /\ DOMAIN starts = 1..N
        /\ \A i \in 1..N : starts[i] \in P /\ starts[i] \in Int
        /\ \A i, j \in 1..N : i < j => starts[i] < starts[j]
        /\ \A x \in P : \E i \in 1..N : starts[i] = x
    BY <1>3 DEF Rises
  <1>6. N = Len(starts)
    OBVIOUS
  <1> HIDE DEF n, N, chunks
  <1>7. /\ DOMAIN chunks = 1..N /\ Len(chunks) = N
        /\ \A k \in 1..N : /\ IsPiece(chunks[k]) /\ chunks[k].index = k - 1
                           /\ chunks[k].body = SubSeq(body, from[k], to[k])
    <2>1. DOMAIN chunks = 1..N /\ Len(chunks) = N
      BY <1>4, <1>5
    <2>2. ASSUME NEW k \in 1..N
          PROVE  /\ IsPiece(chunks[k]) /\ chunks[k].index = k - 1
                 /\ chunks[k].body = SubSeq(body, from[k], to[k])
      <3>1. from[k] = starts[k] /\ to[k] = semantic_end(starts, n, k)
        OBVIOUS
      <3>2. chunks[k] = piece(<<>>, SubSeq(body, from[k], to[k]), k - 1)
        BY <1>4, <1>5, <3>1
      <3> DEFINE part == SubSeq(body, from[k], to[k])
                 index == k - 1
      <3>3. chunks[k] = piece(<<>>, part, index)
        BY <3>2
      <3> HIDE DEF part, index
      <3>4. IsPiece(chunks[k]) /\ chunks[k].body = part /\ chunks[k].index = index
        BY <3>3, PieceIsPiece
      <3>5. QED BY <3>4 DEF part, index
    <2>3. QED BY <2>1, <2>2
  <1>8. ASSUME NEW k \in 1..N
        PROVE  /\ from[k] \in 1..n /\ to[k] \in 1..n /\ from[k] <= to[k]
               /\ k = N => to[k] = n
               /\ k # N => to[k] = from[k + 1] - 1 /\ from[k] < from[k + 1]
    <2>1. from[k] = starts[k] /\ to[k] = semantic_end(starts, n, k) /\ from[k] \in 1..n
      BY <1>2, <1>5
    <2>2. CASE k = N
      <3>1. to[k] = n
        BY <1>5, <1>6, <2>1, <2>2 DEF semantic_end
      <3>2. QED BY <1>1, <2>1, <2>2, <3>1
    <2>3. CASE k # N
      <3>1. k + 1 \in 1..N /\ k < k + 1 /\ k < N
        BY <1>5, <2>3
      <3>2. from[k + 1] = starts[k + 1] /\ from[k + 1] \in 1..n
        BY <1>2, <1>5, <3>1
      <3>3. starts[k] < starts[k + 1]
        BY <1>5, <3>1
      <3>4. to[k] = from[k + 1] - 1
        BY <1>6, <2>1, <3>1, <3>2 DEF semantic_end
      <3> HIDE DEF from, to
      <3>5. QED BY <1>1, <2>1, <2>3, <3>2, <3>3, <3>4
    <2>4. QED BY <2>2, <2>3
  <1>9. ASSUME NEW k \in 2..N
        PROVE  from[k - 1] < from[k] /\ to[k - 1] < to[k]
    <2>1. k \in 1..N /\ k - 1 \in 1..N /\ k - 1 # N /\ (k - 1) + 1 = k
      BY <1>5
    <2> HIDE DEF from, to
    <2>2. to[k - 1] = from[k] - 1 /\ from[k - 1] < from[k]
      BY <1>8, <2>1
    <2>3. from[k] \in 1..n /\ to[k] \in 1..n /\ from[k] <= to[k]
      BY <1>8, <2>1
    <2>4. QED BY <2>2, <2>3
  <1> HIDE DEF from, to
  <1>10. ASSUME NEW p \in DOMAIN body
         PROVE  \E k \in DOMAIN chunks : InBody(body[p], chunks[k].body)
    <2>1. p \in 1..n
      BY <1>1
    <2> DEFINE Q == {k \in 1..N : from[k] <= p}
    <2>2. Q # {} /\ Q \in SUBSET Int /\ IsFiniteSet(Q)
      <3>1. PICK i \in 1..N : starts[i] = 1
        BY <1>2, <1>5
      <3>2. from[i] = 1
        BY <3>1 DEF from
      <3>3. i \in Q
        BY <2>1, <3>2
      <3>4. IsFiniteSet(1..N)
        BY <1>5, FS_Interval
      <3>5. Q \in SUBSET (1..N)
        OBVIOUS
      <3> HIDE DEF Q
      <3>6. IsFiniteSet(Q)
        BY <3>4, <3>5, FS_Subset
      <3>7. QED BY <3>3, <3>5, <3>6
    <2>3. PICK k \in Q : \A j \in Q : j <= k
      <3> HIDE DEF Q
      <3>1. QED BY <2>2, GreatestExists
    <2>4. k \in 1..N /\ from[k] <= p
      OBVIOUS
    <2>5. p <= to[k]
      <3>1. CASE k = N
        BY <1>1, <1>8, <2>1, <2>4, <3>1
      <3>2. CASE k # N
        <4>1. k + 1 \in 1..N /\ ~ k + 1 <= k
          BY <1>5, <2>4, <3>2
        <4>2. k + 1 \notin Q
          BY <2>3, <4>1
        <4>3. ~ from[k + 1] <= p /\ from[k + 1] \in 1..n /\ to[k] = from[k + 1] - 1
          BY <1>8, <2>4, <3>2, <4>1, <4>2
        <4>4. QED BY <2>1, <4>3
      <3>3. QED BY <3>1, <3>2
    <2> HIDE DEF Q
    <2>6. from[k] \in 1..n /\ to[k] \in 1..n /\ from[k] <= p /\ p <= to[k]
      BY <1>8, <2>4, <2>5
    <2> DEFINE f == from[k]
               t == to[k]
               part == SubSeq(body, f, t)
    <2>7. f \in 1..n /\ t \in 1..n /\ f <= p /\ p <= t
      BY <2>6
    <2> HIDE DEF f, t
    <2>8. part[p - f + 1] = body[p] /\ p - f + 1 \in DOMAIN part
      BY <1>1, <2>1, <2>7
    <2>9. chunks[k].body = part
      BY <1>7, <2>4 DEF f, t
    <2> HIDE DEF part
    <2>10. InBody(body[p], chunks[k].body)
      BY <2>8, <2>9 DEF InBody
    <2>11. QED BY <1>7, <2>4, <2>10
  <1>11. Cut(body, chunks, from, to)
    <2>1. Len(chunks) \in Nat /\ DOMAIN chunks = 1..Len(chunks) /\ Len(chunks) = N
      BY <1>5, <1>7
    <2>2. \A k \in DOMAIN chunks :
             /\ IsPiece(chunks[k]) /\ chunks[k].index = k - 1
             /\ chunks[k].body = SubSeq(body, from[k], to[k])
             /\ from[k] \in DOMAIN body /\ to[k] \in DOMAIN body /\ from[k] <= to[k]
      BY <1>1, <1>7, <1>8
    <2>3. \A k \in 2..Len(chunks) : from[k - 1] < from[k] /\ to[k - 1] < to[k]
      BY <1>9, <2>1
    <2>4. QED BY <1>10, <2>1, <2>2, <2>3 DEF Cut
  <1>12. QED BY <1>11 DEF chunks

\* The sentences of a text are its lines with text, in order.
LEMMA SentencesRise ==
    ASSUME NEW S, NEW lines \in Seq(S)
    PROVE  /\ Rising(sentences(lines), text_of(lines))
           /\ text_of(lines) \in SUBSET (1..Len(lines))
           /\ text_of(lines) \in SUBSET Int /\ IsFiniteSet(text_of(lines))
           /\ sentences(lines) = in_order(text_of(lines))
           /\ sentences(lines) \in Seq(Int)
  <1> DEFINE T == text_of(lines)
             n == Len(lines)
  <1>1. n \in Nat /\ T \in SUBSET (1..n)
    BY DEF text_of
  <1>2. sentences(lines) = in_order(T)
    BY DEF sentences, text_of
  <1> HIDE DEF T, n
  <1>3. IsFiniteSet(1..n)
    BY <1>1, FS_Interval
  <1>4. IsFiniteSet(T) /\ T \in SUBSET Int
    <2>1. IsFiniteSet(T)
      BY <1>1, <1>3, FS_Subset
    <2>2. T \in SUBSET Int
      BY <1>1
    <2>3. QED BY <2>1, <2>2
  <1>5. Rising(in_order(T), T)
    BY <1>4, InOrderRises
  <1>6. in_order(T) \in Seq(Int)
    BY <1>4, <1>5, RisingOfNothing
  <1>7. QED BY <1>1, <1>2, <1>4, <1>5, <1>6 DEF T, n

(***************************************************************************)
(* Chunking: the chunks of the sections                                    *)
(***************************************************************************)

LEMMA CrumbChanged ==
    ASSUME NEW a, NEW b, NEW c, NEW d, NEW x
    PROVE  [[crumb |-> a, body |-> b, index |-> c, contextual |-> d] EXCEPT !.crumb = x]
              = [crumb |-> x, body |-> b, index |-> c, contextual |-> d]
  OBVIOUS

LEMMA Headlined ==
    ASSUME NEW old, NEW body, NEW index, NEW crumb
    PROVE  [piece(old, body, index) EXCEPT !.crumb = crumb] = piece(crumb, body, index)
  <1>1. PICK no : no = FALSE
    OBVIOUS
  <1>2. \A c : piece(c, body, index)
                 = [crumb |-> c, body |-> body, index |-> index, contextual |-> no]
    BY <1>1 DEF piece
  <1>3. QED BY <1>2, CrumbChanged

\* The chunks of one section.
Chunked(T, s, chunks) ==
    /\ Len(chunks) \in Nat /\ DOMAIN chunks = 1..Len(chunks)
    /\ \A j \in DOMAIN chunks : /\ IsPiece(chunks[j]) /\ Spanned(T, chunks[j].body)
                                /\ \A i \in DOMAIN chunks[j].body :
                                      InBody(chunks[j].body[i], s.body)
    /\ \A j \in 2..Len(chunks) : Further(chunks[j - 1].body, chunks[j].body)
    /\ \A i \in DOMAIN s.body : \E j \in DOMAIN chunks : InBody(s.body[i], chunks[j].body)

LEMMA SpannedInMore ==
    ASSUME NEW T \in SUBSET Int, NEW lo \in Int, NEW hi \in Int, NEW b,
           Spanned(within(T, lo, hi), b)
    PROVE  Spanned(T, b)
  <1> DEFINE W == within(T, lo, hi)
             x == b[1]
             y == b[Len(b)]
  <1>1. /\ b # <<>> /\ b \in Seq(Int) /\ x \in W /\ y \in W
        /\ Rising(b, within(W, x, y))
    BY DEF Spanned
  <1>2. x \in T /\ y \in T /\ x \in Int /\ y \in Int /\ lo <= x /\ y <= hi
    BY <1>1 DEF within
  <1> HIDE DEF x, y
  <1>3. within(W, x, y) = within(T, x, y)
    <2>1. \A z \in T : x <= z /\ z <= y => lo <= z /\ z <= hi
      BY <1>2
    <2>2. QED BY <2>1 DEF within
  <1>4. QED BY <1>1, <1>2, <1>3 DEF Spanned, x, y

\* The chunks of one section.
LEMMA SectionChunked ==
    ASSUME NEW T \in SUBSET Int, NEW H, NEW D, NEW a \in Nat, NEW s,
           Section(T, H, D, a, s)
    PROVE  Chunked(T, s, recursive(s.body))
  <1> DEFINE chunks == recursive(s.body)
  <1>1. PICK lo \in 1..a, hi \in 1..a : Rising(s.body, within(T, lo, hi))
    BY DEF Section
  <1> DEFINE W == within(T, lo, hi)
  <1>2. W \in SUBSET Int /\ lo \in Int /\ hi \in Int
    <2>1. lo \in Int /\ hi \in Int
      OBVIOUS
    <2>2. QED BY <2>1, Within
  <1>3. Rising(s.body, W)
    BY <1>1
  <1> HIDE DEF W
  <1>4. /\ s.body \in Seq(Int)
        /\ \A x \in W : InBody(x, s.body)
        /\ \A i \in DOMAIN s.body : s.body[i] \in W
    BY <1>2, <1>3, RisingOfNothing
  <1>5. PICK from, to : Cut(s.body, chunks, from, to)
    BY <1>4, RecursiveCuts
  <1> HIDE DEF chunks
  <1>6. InSequence(W, chunks) /\ AllKept(W, chunks)
    BY <1>2, <1>3, <1>5, CutsAreOrdered
  <1>7. /\ Len(chunks) \in Nat /\ DOMAIN chunks = 1..Len(chunks)
        /\ \A k \in DOMAIN chunks : IsPiece(chunks[k]) /\ Spanned(W, chunks[k].body)
        /\ \A k \in 2..Len(chunks) : Further(chunks[k - 1].body, chunks[k].body)
    BY <1>6 DEF InSequence
  <1>8. ASSUME NEW j \in DOMAIN chunks
        PROVE  /\ Spanned(T, chunks[j].body)
               /\ \A i \in DOMAIN chunks[j].body : InBody(chunks[j].body[i], s.body)
    <2> DEFINE b == chunks[j].body
               V == within(W, b[1], b[Len(b)])
    <2>1. Spanned(W, b)
      BY <1>7
    <2>2. Spanned(T, b)
      BY <1>2, <2>1, SpannedInMore DEF W
    <2>3. Rising(b, V)
      BY <2>1 DEF Spanned
    <2>4. V \in SUBSET W /\ V \in SUBSET Int
      BY <1>2 DEF within
    <2> HIDE DEF V, b
    <2>5. \A i \in DOMAIN b : b[i] \in V
      BY <2>3, <2>4, RisingOfNothing
    <2>6. \A i \in DOMAIN b : InBody(b[i], s.body)
      BY <1>4, <2>4, <2>5
    <2>7. QED BY <2>2, <2>6 DEF b
  <1>9. ASSUME NEW i \in DOMAIN s.body
        PROVE  \E j \in DOMAIN chunks : InBody(s.body[i], chunks[j].body)
    BY <1>4, <1>6 DEF AllKept
  <1>10. Chunked(T, s, chunks)
    BY <1>7, <1>8, <1>9 DEF Chunked
  <1>11. QED BY <1>10 DEF chunks

of_section(s) ==
    [j \in DOMAIN recursive(s.body) |-> [recursive(s.body)[j] EXCEPT !.crumb = s.crumb]]

LEMMA OfSection ==
    ASSUME NEW s, NEW j \in DOMAIN recursive(s.body), IsPiece(recursive(s.body)[j])
    PROVE  of_section(s)[j]
              = piece(s.crumb, recursive(s.body)[j].body, recursive(s.body)[j].index)
  <1> DEFINE c == recursive(s.body)[j]
  <1>1. of_section(s)[j] = [c EXCEPT !.crumb = s.crumb]
    BY DEF of_section
  <1>2. c = piece(c.crumb, c.body, c.index)
    BY DEF IsPiece
  <1> HIDE DEF c
  <1>3. [c EXCEPT !.crumb = s.crumb] = piece(s.crumb, c.body, c.index)
    BY <1>2, Headlined
  <1>4. QED BY <1>1, <1>3 DEF c

\* The headings before a chunk are those of a stretch without headings that it is in.
Headed(H, D, n, c) ==
    \E lo, hi \in 1..n : /\ within(H, lo, hi) = {} /\ c.crumb = D[hi]
                         /\ \A i \in DOMAIN c.body : lo <= c.body[i] /\ c.body[i] <= hi

AllHeaded(T, H, D, n, chunks) ==
    /\ InSequence(T, chunks)
    /\ AllKept(T \ H, chunks)
    /\ \A k \in DOMAIN chunks : Headed(H, D, n, chunks[k])

\* What is in a later section is further on.
LEMMA FurtherInNext ==
    ASSUME NEW T, NEW b, Spanned(T, b), NEW c, Spanned(T, c), NEW bs, NEW cs,
           Before(bs, cs),
           \A i \in DOMAIN b : InBody(b[i], bs), \A i \in DOMAIN c : InBody(c[i], cs)
    PROVE  Further(b, c)
  <1>1. /\ b \in Seq(Int) /\ b # <<>> /\ c \in Seq(Int) /\ c # <<>>
    BY DEF Spanned
  <1>2. 1 \in DOMAIN b /\ Len(b) \in DOMAIN b /\ 1 \in DOMAIN c /\ Len(c) \in DOMAIN c
    BY <1>1
  <1>3. ASSUME NEW i \in DOMAIN b, NEW j \in DOMAIN c
        PROVE  b[i] < c[j]
    BY DEF InBody, Before
  <1>4. QED BY <1>2, <1>3 DEF Further

all_of(secs) == FlattenSeq([p \in DOMAIN secs |-> of_section(secs[p])])

LEMMA NumberedPiece ==
    ASSUME NEW chunks, NEW k \in DOMAIN chunks, NEW crumb, NEW body, NEW old,
           chunks[k] = piece(crumb, body, old)
    PROVE  /\ IsPiece(numbered(chunks)[k])
           /\ numbered(chunks)[k].crumb = crumb
           /\ numbered(chunks)[k].body = body
           /\ numbered(chunks)[k].index = k - 1
  <1> DEFINE index == k - 1
  <1>1. numbered(chunks)[k] = [chunks[k] EXCEPT !.index = index]
    BY DEF numbered
  <1> HIDE DEF index
  <1>2. numbered(chunks)[k] = piece(crumb, body, index)
    BY <1>1, Renumbered
  <1>3. QED BY <1>2, PieceIsPiece DEF index

\* The chunk comes from place j of section s.
ComesFrom(c, s, j) ==
    /\ IsPiece(c) /\ c.crumb = s.crumb
    /\ j \in DOMAIN recursive(s.body) /\ c.body = recursive(s.body)[j].body

\* The chunks of all sections, counted through, are in the order of the text and
\* have all of it but the headings.
LEMMA SectionsChunked ==
    ASSUME NEW T \in SUBSET Int, NEW H, NEW D, NEW n \in Nat, NEW secs,
           Sections(T, H, D, n, secs)
    PROVE  /\ all_of(secs) = <<>> => T \cap 1..n \subseteq H
           /\ T \subseteq 1..n => AllHeaded(T, H, D, n, numbered(all_of(secs)))
  <1> DEFINE N == Len(secs)
             q == [p \in DOMAIN secs |-> of_section(secs[p])]
             all == all_of(secs)
             chunks == numbered(all)
  <1>1. /\ secs \in Seq(Sec) /\ N \in Nat /\ DOMAIN secs = 1..N
        /\ \A p \in 1..N : Section(T, H, D, n, secs[p])
        /\ \A p, r \in 1..N : p < r => Before(secs[p].body, secs[r].body)
        /\ \A x \in T : x <= n /\ x \notin H => \E p \in 1..N : InBody(x, secs[p].body)
    BY DEF Sections
  <1>2. \A p \in 1..N : Chunked(T, secs[p], recursive(secs[p].body))
    BY <1>1, SectionChunked
  <1>3. ASSUME NEW p \in 1..N
        PROVE  /\ DOMAIN q[p] = DOMAIN recursive(secs[p].body)
               /\ Len(recursive(secs[p].body)) \in Nat
               /\ DOMAIN q[p] = 1..Len(recursive(secs[p].body))
               /\ \A j \in DOMAIN q[p] :
                     q[p][j] = piece(secs[p].crumb, recursive(secs[p].body)[j].body,
                                     recursive(secs[p].body)[j].index)
    <2>1. q[p] = of_section(secs[p])
      BY <1>1
    <2>2. DOMAIN q[p] = DOMAIN recursive(secs[p].body)
      BY <2>1 DEF of_section
    <2>3. /\ Len(recursive(secs[p].body)) \in Nat
          /\ DOMAIN recursive(secs[p].body) = 1..Len(recursive(secs[p].body))
          /\ \A j \in DOMAIN recursive(secs[p].body) : IsPiece(recursive(secs[p].body)[j])
      BY <1>2 DEF Chunked
    <2>4. \A j \in DOMAIN q[p] :
             q[p][j] = piece(secs[p].crumb, recursive(secs[p].body)[j].body,
                             recursive(secs[p].body)[j].index)
      BY <2>1, <2>2, <2>3, OfSection
    <2>5. QED BY <2>2, <2>3, <2>4
  <1>4. all = FlattenSeq(q) /\ DOMAIN q = 1..N
    BY <1>1 DEF all_of
  <1> DEFINE X == {q[p][j] : p \in 1..N, j \in UNION {DOMAIN q[r] : r \in 1..N}}
  <1>5. q \in [1..N -> Seq(X)]
    <2>1. ASSUME NEW p \in 1..N
          PROVE  q[p] \in Seq(X)
      <3> DEFINE m == Len(recursive(secs[p].body))
      <3>1. m \in Nat /\ DOMAIN q[p] = 1..m
        BY <1>3
      <3>2. \A j \in 1..m : q[p][j] \in X
        BY <3>1
      <3>3. q[p] = [j \in 1..m |-> q[p][j]]
        BY <1>1, <3>1 DEF of_section
      <3> HIDE DEF X, q, m
      <3>4. QED BY <3>1, <3>2, <3>3
    <2>2. q = [p \in 1..N |-> q[p]]
      BY <1>1
    <2> HIDE DEF X, q
    <2>3. QED BY <2>1, <2>2
  <1> HIDE DEF X, q
  <1>6. PICK part, place : Places(N, q, all, part, place)
    BY <1>1, <1>4, <1>5, FlattenPlaces
  <1> HIDE DEF all
  <1> DEFINE M == Len(all)
  <1>7. /\ M \in Nat /\ DOMAIN all = 1..M
        /\ \A k \in 1..M : /\ part[k] \in 1..N /\ place[k] \in DOMAIN q[part[k]]
                           /\ all[k] = q[part[k]][place[k]]
        /\ \A k \in 2..M : GoesOn(part, place, k)
        /\ \A i \in 1..N : \A j \in DOMAIN q[i] : \E k \in 1..M : part[k] = i /\ place[k] = j
    BY <1>6 DEF Places
  <1>8. DOMAIN chunks = 1..M /\ Len(chunks) = M
    <2>1. DOMAIN chunks = DOMAIN all
      BY DEF numbered
    <2> HIDE DEF chunks
    <2>2. DOMAIN chunks = 1..M
      BY <1>7, <2>1
    <2>3. Len(chunks) = M
      BY <1>7, <2>2
    <2>4. QED BY <2>2, <2>3
  <1> HIDE DEF M
  <1>9. ASSUME NEW k \in 1..M
        PROVE  ComesFrom(chunks[k], secs[part[k]], place[k]) /\ chunks[k].index = k - 1
    <2> DEFINE p == part[k]
               j == place[k]
    <2>1. p \in 1..N /\ j \in DOMAIN q[p] /\ all[k] = q[p][j]
      BY <1>7
    <2> HIDE DEF p, j
    <2>2. /\ all[k] = piece(secs[p].crumb, recursive(secs[p].body)[j].body,
                            recursive(secs[p].body)[j].index)
          /\ j \in DOMAIN recursive(secs[p].body)
      BY <1>3, <2>1
    <2>3. k \in DOMAIN all
      BY <1>7
    <2>4. /\ IsPiece(chunks[k]) /\ chunks[k].crumb = secs[p].crumb
          /\ chunks[k].body = recursive(secs[p].body)[j].body
          /\ chunks[k].index = k - 1
      BY <2>2, <2>3, NumberedPiece
    <2>5. QED BY <2>2, <2>4 DEF ComesFrom, p, j
  <1> HIDE DEF chunks
  <1>10. ASSUME NEW k \in 1..M
         PROVE  /\ Spanned(T, chunks[k].body)
                /\ \A i \in DOMAIN chunks[k].body :
                      InBody(chunks[k].body[i], secs[part[k]].body)
    <2> DEFINE s == secs[part[k]]
               cuts == recursive(s.body)
               j == place[k]
    <2>1. Chunked(T, s, cuts)
      BY <1>2, <1>7
    <2>2. j \in DOMAIN cuts /\ chunks[k].body = cuts[j].body
      BY <1>9 DEF ComesFrom
    <2> HIDE DEF s, cuts, j
    <2>3. /\ Spanned(T, cuts[j].body)
          /\ \A i \in DOMAIN cuts[j].body : InBody(cuts[j].body[i], s.body)
      BY <2>1, <2>2 DEF Chunked
    <2>4. QED BY <2>2, <2>3 DEF s
  <1>11. ASSUME NEW k \in 2..M
         PROVE  Further(chunks[k - 1].body, chunks[k].body)
    <2>1. k \in 1..M /\ k - 1 \in 1..M
      BY <1>7
    <2>2. part[k] \in 1..N /\ part[k - 1] \in 1..N
      BY <1>7, <2>1
    <2>3. CASE part[k - 1] < part[k]
      <3>1. Before(secs[part[k - 1]].body, secs[part[k]].body)
        BY <1>1, <2>2, <2>3
      <3>2. QED BY <1>10, <2>1, <3>1, FurtherInNext
    <2>4. CASE part[k - 1] = part[k] /\ place[k - 1] + 1 = place[k]
      <3> DEFINE p == part[k]
                 j == place[k]
                 parts == recursive(secs[p].body)
      <3>1. /\ chunks[k].body = parts[j].body /\ j \in DOMAIN parts
            /\ chunks[k - 1].body = parts[place[k - 1]].body
            /\ place[k - 1] \in DOMAIN parts
        BY <1>9, <2>1, <2>4 DEF ComesFrom
      <3>2. /\ Len(parts) \in Nat /\ DOMAIN parts = 1..Len(parts)
            /\ \A i \in 2..Len(parts) : Further(parts[i - 1].body, parts[i].body)
        BY <1>2, <2>2 DEF Chunked
      <3>3. place[k - 1] + 1 = j
        BY <2>4
      <3> HIDE DEF p, j, parts
      <3>4. j \in 2..Len(parts) /\ place[k - 1] = j - 1
        BY <3>1, <3>2, <3>3
      <3>5. QED BY <3>1, <3>2, <3>4
    <2>5. QED BY <1>7, <2>3, <2>4 DEF GoesOn
  <1>12. ASSUME NEW x \in T, x <= n, x \notin H
         PROVE  \E k \in 1..M : InBody(x, chunks[k].body)
    <2>1. PICK p \in 1..N : InBody(x, secs[p].body)
      BY <1>1, <1>12
    <2>2. PICK j \in DOMAIN recursive(secs[p].body) : InBody(x, recursive(secs[p].body)[j].body)
      <3> DEFINE b == secs[p].body
                 cuts == recursive(b)
      <3>1. PICK i \in DOMAIN b : b[i] = x
        BY <2>1 DEF InBody
      <3>2. \A l \in DOMAIN b : \E j \in DOMAIN cuts : InBody(b[l], cuts[j].body)
        BY <1>2 DEF Chunked
      <3> HIDE DEF b, cuts
      <3>3. \E j \in DOMAIN cuts : InBody(x, cuts[j].body)
        BY <3>1, <3>2
      <3>4. QED BY <3>3 DEF cuts, b
    <2>3. j \in DOMAIN q[p]
      BY <1>3, <2>2
    <2>4. PICK k \in 1..M : part[k] = p /\ place[k] = j
      BY <1>7, <2>3
    <2>5. chunks[k].body = recursive(secs[p].body)[j].body
      BY <1>9, <2>4 DEF ComesFrom
    <2>6. QED BY <2>2, <2>5
  <1>13. ASSUME NEW k \in 1..M
         PROVE  Headed(H, D, n, chunks[k])
    <2> DEFINE s == secs[part[k]]
    <2>1. part[k] \in 1..N
      BY <1>7
    <2>2. PICK lo \in 1..n, hi \in 1..n :
             /\ within(H, lo, hi) = {} /\ Rising(s.body, within(T, lo, hi))
             /\ s.crumb = D[hi]
      BY <1>1, <2>1 DEF Section
    <2>3. chunks[k].crumb = s.crumb
      BY <1>9 DEF ComesFrom
    <2>4. ASSUME NEW i \in DOMAIN chunks[k].body
          PROVE  lo <= chunks[k].body[i] /\ chunks[k].body[i] <= hi
      <3>1. PICK l \in DOMAIN s.body : s.body[l] = chunks[k].body[i]
        BY <1>10 DEF InBody
      <3>2. lo \in Int /\ hi \in Int
        OBVIOUS
      <3>3. within(T, lo, hi) \in SUBSET Int
        BY <3>2, Within
      <3>4. s.body[l] \in within(T, lo, hi)
        BY <2>2, <3>3, RisingOfNothing
      <3>5. QED BY <3>1, <3>4 DEF within
    <2>5. QED BY <2>2, <2>3, <2>4 DEF Headed
  <1>14. all = <<>> => T \cap 1..n \subseteq H
    <2>1. all = <<>> => 1..M = {}
      BY <1>7
    <2>2. \A x \in 1..n : x <= n
      OBVIOUS
    <2>3. QED BY <1>12, <2>1, <2>2
  <1>15. T \subseteq 1..n => AllHeaded(T, H, D, n, chunks)
    <2> SUFFICES ASSUME T \subseteq 1..n PROVE AllHeaded(T, H, D, n, chunks)
      OBVIOUS
    <2>1. \A x \in T : x <= n
      OBVIOUS
    <2>2. InSequence(T, chunks)
      <3>1. Len(chunks) \in Nat /\ DOMAIN chunks = 1..Len(chunks) /\ Len(chunks) = M
        BY <1>7, <1>8
      <3>2. \A k \in DOMAIN chunks : /\ IsPiece(chunks[k]) /\ chunks[k].index = k - 1
                                     /\ Spanned(T, chunks[k].body)
        BY <1>8, <1>9, <1>10 DEF ComesFrom
      <3>3. \A k \in 2..Len(chunks) : Further(chunks[k - 1].body, chunks[k].body)
        BY <1>11, <3>1
      <3>4. QED BY <3>1, <3>2, <3>3 DEF InSequence
    <2>3. AllKept(T \ H, chunks)
      BY <1>8, <1>12, <2>1 DEF AllKept
    <2>4. QED BY <1>8, <1>13, <2>2, <2>3 DEF AllHeaded
  <1>16. QED BY <1>14, <1>15 DEF all, chunks

sections_of(lines, file_type) ==
    IF file_type = "md" THEN parse_markdown(lines) ELSE parse_plaintext(lines)

heads_of(lines, file_type) ==
    IF file_type = "md" THEN markdown_heads(lines) ELSE plain_heads(lines)

LEMMA HeaderParts ==
    ASSUME NEW lines, NEW file_type
    PROVE  header(lines, file_type)
              = IF sentences(lines) = <<>> THEN <<>>
                ELSE IF all_of(sections_of(lines, file_type)) = <<>>
                     THEN <<piece(<<>>, sentences(lines), 0)>>
                     ELSE numbered(all_of(sections_of(lines, file_type)))
  BY DEF header, sections_of, all_of, of_section

\* One chunk with all of the text, and no heading before it.
Whole(lines, chunks) == chunks = <<piece(<<>>, sentences(lines), 0)>>

\* What header makes of lines with the headings H and, after line k, those of D[k]
\* to put before a chunk.
ByHeadings(lines, H, D, chunks) ==
    \/ chunks = <<>> /\ text_of(lines) = {}
    \/ Whole(lines, chunks) /\ text_of(lines) # {} /\ text_of(lines) \subseteq H
    \/ AllHeaded(text_of(lines), H, D, Len(lines), chunks)

\* header, for markdown and for other texts.
LEMMA HeaderChunked ==
    ASSUME NEW S, NEW lines \in Seq(S), NEW file_type, NEW D,
           Sections(text_of(lines), heads_of(lines, file_type), D, Len(lines),
                    sections_of(lines, file_type))
    PROVE  ByHeadings(lines, heads_of(lines, file_type), D, header(lines, file_type))
  <1> DEFINE T == text_of(lines)
             H == heads_of(lines, file_type)
             n == Len(lines)
             secs == sections_of(lines, file_type)
             all == all_of(secs)
  <1>1. /\ n \in Nat /\ T \in SUBSET (1..n) /\ T \in SUBSET Int
        /\ Rising(sentences(lines), T)
    BY SentencesRise
  <1>2. sentences(lines) = <<>> <=> T = {}
    BY <1>1, RisingOfNothing
  <1>3. Sections(T, H, D, n, secs)
    OBVIOUS
  <1>4. header(lines, file_type) = IF sentences(lines) = <<>> THEN <<>>
                                   ELSE IF all = <<>>
                                        THEN <<piece(<<>>, sentences(lines), 0)>>
                                        ELSE numbered(all)
    BY HeaderParts
  <1> HIDE DEF T, H, n, secs
  <1>5. /\ all = <<>> => T \cap 1..n \subseteq H
        /\ T \subseteq 1..n => AllHeaded(T, H, D, n, numbered(all))
    BY <1>1, <1>3, SectionsChunked
  <1>6. AllHeaded(T, H, D, n, numbered(all)) /\ (all = <<>> => T \subseteq H)
    BY <1>1, <1>5
  <1> HIDE DEF all
  <1>7. ByHeadings(lines, H, D, header(lines, file_type))
    BY <1>2, <1>4, <1>6 DEF ByHeadings, Whole, T, n
  <1>8. QED BY <1>7 DEF H

LEMMA WholeIsOrdered ==
    ASSUME NEW S, NEW lines \in Seq(S), NEW chunks, Whole(lines, chunks),
           text_of(lines) # {}
    PROVE  /\ Len(chunks) = 1 /\ chunks[1].crumb = <<>>
           /\ chunks[1].body = sentences(lines)
           /\ InSequence(text_of(lines), chunks) /\ AllKept(text_of(lines), chunks)
  <1> DEFINE T == text_of(lines)
             b == sentences(lines)
             n == Len(b)
  <1>1. T \in SUBSET Int /\ Rising(b, T)
    BY SentencesRise
  <1>2. chunks = <<piece(<<>>, b, 0)>>
    BY DEF Whole
  <1>3. b # <<>>
    BY <1>1, RisingOfNothing
  <1>4. Rises(b, T, n)
    BY <1>1, RisingFacts
  <1> HIDE DEF T, b
  <1>5. n \in Nat /\ DOMAIN b = 1..n /\ b \in Seq(T)
    BY <1>4 DEF Rises
  <1>6. 1 \in DOMAIN b /\ n \in DOMAIN b /\ 1 <= n /\ SubSeq(b, 1, n) = b
    BY <1>3, <1>5
  <1>7. IsPart(T, b, 1, n, b)
    BY <1>1, <1>6, PartIsSpanned
  <1>8. Spanned(T, b)
    BY <1>7 DEF IsPart
  <1>9. Len(chunks) = 1 /\ DOMAIN chunks = 1..1 /\ chunks[1] = piece(<<>>, b, 0)
    BY <1>2
  <1>10. /\ IsPiece(chunks[1]) /\ chunks[1].index = 0 /\ chunks[1].body = b
         /\ chunks[1].crumb = <<>>
    BY <1>9, PieceIsPiece
  <1>11. InSequence(T, chunks)
    <2>1. \A k \in DOMAIN chunks : k = 1
      BY <1>9
    <2>2. 2..Len(chunks) = {}
      BY <1>9
    <2>3. QED BY <1>8, <1>9, <1>10, <2>1, <2>2 DEF InSequence
  <1>12. AllKept(T, chunks)
    <2>1. \A x \in T : InBody(x, b)
      BY <1>1, RisingOfNothing
    <2>2. 1 \in DOMAIN chunks
      BY <1>9
    <2>3. QED BY <1>10, <2>1, <2>2 DEF AllKept
  <1>13. QED BY <1>9, <1>10, <1>11, <1>12 DEF T, b

\* Only the contexts of the chunks differ.
Alike(chunks, others) ==
    /\ DOMAIN others = DOMAIN chunks /\ Len(others) = Len(chunks)
    /\ \A k \in DOMAIN chunks : /\ others[k].crumb = chunks[k].crumb
                                /\ others[k].body = chunks[k].body
                                /\ others[k].index = chunks[k].index

LEMMA ContextChanged ==
    ASSUME NEW a, NEW b, NEW c, NEW d, NEW x
    PROVE  [[crumb |-> a, body |-> b, index |-> c, contextual |-> d] EXCEPT !.contextual = x]
              = [crumb |-> a, body |-> b, index |-> c, contextual |-> x]
  OBVIOUS

\* A context changes nothing else, whether its call fails or not.
LEMMA ContextsAreAlike ==
    ASSUME NEW chunks, NEW failing, Len(chunks) \in Nat, DOMAIN chunks = 1..Len(chunks),
           \A k \in DOMAIN chunks : IsPiece(chunks[k])
    PROVE  Alike(chunks, contextual(chunks, failing))
  <1> DEFINE others == contextual(chunks, failing)
             n == Len(chunks)
  <1>1. DOMAIN others = DOMAIN chunks
    BY DEF contextual
  <1>2. ASSUME NEW k \in DOMAIN chunks
        PROVE  /\ others[k].crumb = chunks[k].crumb
               /\ others[k].body = chunks[k].body
               /\ others[k].index = chunks[k].index
    <2> DEFINE c == chunks[k]
               x == k \notin failing
    <2>1. others[k] = [c EXCEPT !.contextual = x]
      BY DEF contextual
    <2>2. c = piece(c.crumb, c.body, c.index)
      BY DEF IsPiece
    <2>3. PICK no : c = [crumb |-> c.crumb, body |-> c.body, index |-> c.index,
                         contextual |-> no]
      BY <2>2 DEF piece
    <2> HIDE DEF c
    <2>4. PICK y : others[k] = [c EXCEPT !.contextual = y]
      BY <2>1
    <2>5. others[k] = [crumb |-> c.crumb, body |-> c.body, index |-> c.index,
                       contextual |-> y]
      BY <2>3, <2>4, ContextChanged
    <2>6. others[k].crumb = c.crumb /\ others[k].body = c.body /\ others[k].index = c.index
      BY <2>5
    <2>7. QED BY <2>6 DEF c
  <1> HIDE DEF others
  <1>3. Len(others) = n
    BY <1>1
  <1>4. Alike(chunks, others)
    BY <1>1, <1>2, <1>3 DEF Alike
  <1>5. QED BY <1>4 DEF others

(***************************************************************************)
(* Chunking: what chunk makes of a text                                    *)
(***************************************************************************)

TextOK(text) ==
    /\ text.lines \in Seq({"blank", "text", "title", "h1", "h2", "h3"})
    /\ text.strategy \in {"recursive", "header", "semantic", "auto"}
    /\ text.embedder \in BOOLEAN /\ text.contextual \in BOOLEAN

LEMMA RecursiveOrders ==
    ASSUME NEW S, NEW lines \in Seq(S)
    PROVE  LET base == recursive(sentences(lines))
           IN  InSequence(text_of(lines), base) /\ AllKept(text_of(lines), base)
  <1> DEFINE body == sentences(lines)
             T == text_of(lines)
             base == recursive(body)
  <1>1. T \in SUBSET Int /\ Rising(body, T) /\ body \in Seq(Int)
    BY SentencesRise
  <1> HIDE DEF body, T
  <1>2. PICK from, to : Cut(body, base, from, to)
    BY <1>1, RecursiveCuts
  <1> HIDE DEF base
  <1>3. InSequence(T, base) /\ AllKept(T, base)
    BY <1>1, <1>2, CutsAreOrdered
  <1>4. QED BY <1>3 DEF base, body, T

LEMMA SemanticOrders ==
    ASSUME NEW S, NEW lines \in Seq(S), NEW low
    PROVE  LET base == semantic(sentences(lines), low)
           IN  InSequence(text_of(lines), base) /\ AllKept(text_of(lines), base)
  <1> DEFINE body == sentences(lines)
             T == text_of(lines)
             base == semantic(body, low)
  <1>1. T \in SUBSET Int /\ Rising(body, T) /\ body \in Seq(Int)
    BY SentencesRise
  <1> HIDE DEF body, T
  <1>2. CASE body # <<>>
    <2>1. PICK from, to : Cut(body, base, from, to)
      BY <1>1, <1>2, SemanticCuts
    <2> HIDE DEF base
    <2>2. InSequence(T, base) /\ AllKept(T, base)
      BY <1>1, <2>1, CutsAreOrdered
    <2>3. QED BY <2>2 DEF base, body, T
  <1>3. CASE body = <<>>
    <2>1. base = <<>>
      BY <1>3 DEF semantic
    <2>2. T = {}
      BY <1>1, <1>3, RisingOfNothing
    <2> HIDE DEF base
    <2>3. Len(base) = 0 /\ DOMAIN base = 1..0 /\ DOMAIN base = {} /\ 2..0 = {}
      BY <2>1
    <2>4. InSequence(T, base) /\ AllKept(T, base)
      BY <2>2, <2>3 DEF InSequence, AllKept
    <2>5. QED BY <2>4 DEF base, body, T
  <1>4. QED BY <1>2, <1>3

\* base is what the strategy makes of the text, before the contexts.
Strategy(text, base) ==
    IF parsed_by_header(text) THEN base = header(text.lines, text.file_type)
    ELSE InSequence(text_of(text.lines), base) /\ AllKept(text_of(text.lines), base)

\* Every strategy cuts the text, or is header.
LEMMA StrategyOfText ==
    ASSUME NEW text, TextOK(text)
    PROVE  \E base : /\ Strategy(text, base)
                     /\ \/ chunk(text) = base
                        \/ chunk(text) = contextual(base, text.failing)
  <1> DEFINE base ==
        CASE text.strategy = "recursive" -> recursive(sentences(text.lines))
          [] text.strategy = "header" -> header(text.lines, text.file_type)
          [] text.strategy = "semantic" /\ text.embedder ->
                semantic(sentences(text.lines), text.low)
          [] OTHER -> auto(text.lines, text.file_type)
  <1>1. chunk(text) = base \/ chunk(text) = contextual(base, text.failing)
    BY DEF chunk
  <1>2. text.strategy \in {"recursive", "header", "semantic", "auto"}
        /\ text.embedder \in BOOLEAN
    BY DEF TextOK
  <1>3. CASE text.strategy = "recursive" \/ \/ text.strategy = "auto"
                                            \/ text.strategy = "semantic" /\ ~ text.embedder
    <2>1. \/ /\ base = recursive(sentences(text.lines))
             /\ ~ parsed_by_header(text)
          \/ /\ base = header(text.lines, text.file_type)
             /\ parsed_by_header(text)
      <3>1. CASE text.strategy = "recursive"
        BY <3>1 DEF parsed_by_header
      <3>2. CASE \/ text.strategy = "auto"
                 \/ text.strategy = "semantic" /\ ~ text.embedder
        <4>1. base = auto(text.lines, text.file_type)
          BY <3>2
        <4>2. parsed_by_header(text) <=> text.file_type \in {"md", "pdf"}
          BY <3>2 DEF parsed_by_header
        <4> HIDE DEF base
        <4>3. QED BY <4>1, <4>2 DEF auto
      <3>3. QED BY <1>3, <3>1, <3>2
    <2> HIDE DEF base
    <2>2. Strategy(text, base)
      <3>1. CASE base = recursive(sentences(text.lines)) /\ ~ parsed_by_header(text)
        BY <3>1, RecursiveOrders DEF TextOK, Strategy
      <3>2. QED BY <2>1, <3>1 DEF Strategy
    <2>3. QED BY <1>1, <2>2
  <1>4. CASE text.strategy = "header"
    <2>1. base = header(text.lines, text.file_type) /\ parsed_by_header(text)
      BY <1>4 DEF parsed_by_header
    <2> HIDE DEF base
    <2>2. Strategy(text, base)
      BY <2>1 DEF Strategy
    <2>3. QED BY <1>1, <2>2
  <1>5. CASE text.strategy = "semantic" /\ text.embedder
    <2>1. base = semantic(sentences(text.lines), text.low) /\ ~ parsed_by_header(text)
      BY <1>5 DEF parsed_by_header
    <2> HIDE DEF base
    <2>2. Strategy(text, base)
      BY <2>1, SemanticOrders DEF TextOK, Strategy
    <2>3. QED BY <1>1, <2>2
  <1>6. QED BY <1>2, <1>3, <1>4, <1>5

\* Chunks whose order and numbers are those of the text.
Following(T, chunks) ==
    /\ Len(chunks) \in Nat /\ DOMAIN chunks = 1..Len(chunks)
    /\ \A k \in DOMAIN chunks : chunks[k].index = k - 1 /\ Spanned(T, chunks[k].body)
    /\ \A k \in 2..Len(chunks) : Further(chunks[k - 1].body, chunks[k].body)

LEMMA AlikeFollowing ==
    ASSUME NEW T, NEW chunks, NEW others, InSequence(T, chunks), Alike(chunks, others)
    PROVE  Following(T, others)
  <1>1. /\ Len(chunks) \in Nat /\ DOMAIN chunks = 1..Len(chunks)
        /\ \A k \in DOMAIN chunks : chunks[k].index = k - 1 /\ Spanned(T, chunks[k].body)
        /\ \A k \in 2..Len(chunks) : Further(chunks[k - 1].body, chunks[k].body)
    BY DEF InSequence
  <1>2. /\ DOMAIN others = DOMAIN chunks /\ Len(others) = Len(chunks)
        /\ \A k \in DOMAIN chunks : others[k].body = chunks[k].body
                                    /\ others[k].index = chunks[k].index
    BY DEF Alike
  <1>3. ASSUME NEW k \in 2..Len(chunks)
        PROVE  Further(others[k - 1].body, others[k].body)
    <2>1. k \in DOMAIN chunks /\ k - 1 \in DOMAIN chunks
      BY <1>1
    <2>2. QED BY <1>1, <1>2, <2>1
  <1>4. QED BY <1>1, <1>2, <1>3 DEF Following

LEMMA AlikeOneself ==
    ASSUME NEW chunks
    PROVE  Alike(chunks, chunks)
  BY DEF Alike

LEMMA StrategyIsAlike ==
    ASSUME NEW text, NEW base, NEW T, InSequence(T, base),
           chunk(text) = base \/ chunk(text) = contextual(base, text.failing)
    PROVE  Alike(base, chunk(text))
  <1>1. /\ Len(base) \in Nat /\ DOMAIN base = 1..Len(base)
        /\ \A k \in DOMAIN base : IsPiece(base[k])
    BY DEF InSequence
  <1>2. Alike(base, contextual(base, text.failing))
    BY <1>1, ContextsAreAlike
  <1>3. QED BY <1>2, AlikeOneself

LEMMA EmptyIsOrdered ==
    ASSUME NEW T, T = {}, NEW chunks, chunks = <<>>
    PROVE  InSequence(T, chunks) /\ AllKept(T, chunks)
  <1>1. Len(chunks) = 0 /\ DOMAIN chunks = 1..0 /\ DOMAIN chunks = {} /\ 2..0 = {}
    OBVIOUS
  <1>2. QED BY <1>1 DEF InSequence, AllKept

\* The headings of the text, and those to put before a chunk after each line.
HeadsOf(text, D) ==
    IF text.file_type = "md"
    THEN \A k \in 0..Len(text.lines) : /\ D[k] = in_order(open(text.lines, k))
                                       /\ Rising(D[k], open(text.lines, k))
    ELSE \A k \in 0..Len(text.lines) : LastHead(plain_heads(text.lines), k, D[k])

LEMMA HeaderOfText ==
    ASSUME NEW text, TextOK(text)
    PROVE  \E D : /\ HeadsOf(text, D)
                  /\ ByHeadings(text.lines, heads_of(text.lines, text.file_type), D,
                                header(text.lines, text.file_type))
  <1> DEFINE lines == text.lines
             S == {"blank", "text", "title", "h1", "h2", "h3"}
  <1>1. lines \in Seq(S)
    BY DEF TextOK
  <1> HIDE DEF S
  <1>2. \E D : /\ HeadsOf(text, D)
               /\ Sections(text_of(lines), heads_of(lines, text.file_type), D, Len(lines),
                           sections_of(lines, text.file_type))
    <2>1. CASE text.file_type = "md"
      <3>1. /\ heads_of(lines, text.file_type) = markdown_heads(lines)
            /\ sections_of(lines, text.file_type) = parse_markdown(lines)
        BY <2>1 DEF heads_of, sections_of
      <3>2. QED BY <1>1, <2>1, <3>1, MarkdownSections DEF HeadsOf
    <2>2. CASE text.file_type # "md"
      <3>1. /\ heads_of(lines, text.file_type) = plain_heads(lines)
            /\ sections_of(lines, text.file_type) = parse_plaintext(lines)
        BY <2>2 DEF heads_of, sections_of
      <3>2. QED BY <1>1, <2>2, <3>1, PlainSections DEF HeadsOf
    <2>3. QED BY <2>1, <2>2
  <1>3. QED BY <1>1, <1>2, HeaderChunked

LEMMA HeadingsAreOrdered ==
    ASSUME NEW text, TextOK(text), NEW H, NEW D, NEW chunks,
           ByHeadings(text.lines, H, D, chunks)
    PROVE  InSequence(text_of(text.lines), chunks)
  <1>1. CASE chunks = <<>> /\ text_of(text.lines) = {}
    BY <1>1, EmptyIsOrdered
  <1>2. CASE Whole(text.lines, chunks) /\ text_of(text.lines) # {}
    BY <1>2, WholeIsOrdered DEF TextOK
  <1>3. CASE AllHeaded(text_of(text.lines), H, D, Len(text.lines), chunks)
    BY <1>3 DEF AllHeaded
  <1>4. QED BY <1>1, <1>2, <1>3 DEF ByHeadings

\* What the chunks of a text are, whatever its strategy.
Chunks(text, D, base) ==
    /\ InSequence(text_of(text.lines), base) /\ Alike(base, chunk(text))
    /\ parsed_by_header(text) =>
          /\ HeadsOf(text, D)
          /\ ByHeadings(text.lines, heads_of(text.lines, text.file_type), D, base)
    /\ ~ parsed_by_header(text) => AllKept(text_of(text.lines), base)

LEMMA ChunksOfText ==
    ASSUME NEW text, TextOK(text)
    PROVE  \E D, base : Chunks(text, D, base)
  <1>1. PICK base : /\ Strategy(text, base)
                    /\ \/ chunk(text) = base
                       \/ chunk(text) = contextual(base, text.failing)
    BY StrategyOfText
  <1>2. PICK D : /\ HeadsOf(text, D)
                 /\ ByHeadings(text.lines, heads_of(text.lines, text.file_type), D,
                               header(text.lines, text.file_type))
    BY HeaderOfText
  <1>3. CASE parsed_by_header(text)
    <2>1. base = header(text.lines, text.file_type)
      BY <1>1, <1>3 DEF Strategy
    <2>2. ByHeadings(text.lines, heads_of(text.lines, text.file_type), D, base)
      BY <1>2, <2>1
    <2>3. InSequence(text_of(text.lines), base)
      BY <2>2, HeadingsAreOrdered
    <2>4. Alike(base, chunk(text))
      BY <1>1, <2>3, StrategyIsAlike
    <2>5. QED BY <1>2, <1>3, <2>2, <2>3, <2>4 DEF Chunks
  <1>4. CASE ~ parsed_by_header(text)
    <2>1. InSequence(text_of(text.lines), base) /\ AllKept(text_of(text.lines), base)
      BY <1>1, <1>4 DEF Strategy
    <2>2. Alike(base, chunk(text))
      BY <1>1, <2>1, StrategyIsAlike
    <2>3. QED BY <1>4, <2>1, <2>2 DEF Chunks
  <1>5. QED BY <1>3, <1>4

(***************************************************************************)
(* Chunking: the three properties of a text                                *)
(***************************************************************************)

LEMMA SentencesAreText ==
    ASSUME NEW S, NEW lines \in Seq(S)
    PROVE  ToSet(sentences(lines)) = text_of(lines)
  <1> DEFINE T == text_of(lines)
             s == sentences(lines)
  <1>1. T \in SUBSET Int /\ Rising(s, T)
    BY SentencesRise
  <1> HIDE DEF T, s
  <1>2. /\ \A x \in T : InBody(x, s)
        /\ \A i \in DOMAIN s : s[i] \in T
    BY <1>1, RisingOfNothing
  <1>3. ToSet(s) = T
    BY <1>2 DEF ToSet, InBody
  <1>4. QED BY <1>3 DEF T, s

LEMMA SpannedIsInOrder ==
    ASSUME NEW T \in SUBSET Int, IsFiniteSet(T), NEW b, Spanned(T, b)
    PROVE  b = in_order({i \in T : i \in b[1]..b[Len(b)]})
  <1> DEFINE x == b[1]
             y == b[Len(b)]
  <1>1. x \in T /\ y \in T /\ Rising(b, within(T, x, y))
    BY DEF Spanned
  <1> HIDE DEF x, y
  <1>2. x \in Int /\ y \in Int
    BY <1>1
  <1>3. within(T, x, y) \in SUBSET Int
    BY <1>2, Within
  <1>4. within(T, x, y) \subseteq T
    BY DEF within
  <1>5. IsFiniteSet(within(T, x, y))
    BY <1>4, FS_Subset
  <1>6. b = in_order(within(T, x, y))
    BY <1>1, <1>3, <1>5, RisingIsInOrder
  <1>7. within(T, x, y) = {i \in T : i \in x..y}
    BY <1>2 DEF within
  <1>8. QED BY <1>6, <1>7 DEF x, y

\* Of any text and under any strategy, the chunks are counted from 0 without a gap, each
\* is a stretch of the text, and each begins and ends after the one before.
THEOREM ChunksFollow ==
    ASSUME NEW text, TextOK(text)
    PROVE  ChunksFollowTheText(text)
  <1> DEFINE T == text_of(text.lines)
             chunks == chunk(text)
  <1>1. PICK D, base : Chunks(text, D, base)
    BY ChunksOfText
  <1>2. InSequence(T, base) /\ Alike(base, chunks)
    BY <1>1 DEF Chunks
  <1>3. Following(T, chunks)
    BY <1>2, AlikeFollowing
  <1>4. /\ T \in SUBSET Int /\ IsFiniteSet(T)
        /\ ToSet(sentences(text.lines)) = T
    BY SentencesRise, SentencesAreText DEF TextOK
  <1> HIDE DEF T, chunks
  <1>5. ASSUME NEW k \in DOMAIN chunks
        PROVE  /\ chunks[k].index = k - 1
               /\ chunks[k].body = in_order({i \in T :
                                      i \in chunks[k].body[1]..chunks[k].body[Len(chunks[k].body)]})
               /\ k > 1 => /\ chunks[k - 1].body[1] < chunks[k].body[1]
                           /\ chunks[k - 1].body[Len(chunks[k - 1].body)]
                                 < chunks[k].body[Len(chunks[k].body)]
    <2> DEFINE b == chunks[k].body
    <2>1. /\ Len(chunks) \in Nat /\ DOMAIN chunks = 1..Len(chunks)
          /\ chunks[k].index = k - 1 /\ Spanned(T, b)
          /\ \A j \in 2..Len(chunks) : Further(chunks[j - 1].body, chunks[j].body)
      BY <1>3 DEF Following
    <2> HIDE DEF b
    <2>2. b = in_order({i \in T : i \in b[1]..b[Len(b)]})
      BY <1>4, <2>1, SpannedIsInOrder
    <2>3. k > 1 => Further(chunks[k - 1].body, b)
      BY <2>1 DEF b
    <2>4. QED BY <2>1, <2>2, <2>3 DEF Further, b
  <1>6. QED BY <1>4, <1>5 DEF ChunksFollowTheText, chunks

\* A line without a heading between it and hi is under those open at hi.
LEMMA UnderIsOpen ==
    ASSUME NEW S, NEW lines \in Seq(S), NEW lo \in 1..Len(lines), NEW hi \in 1..Len(lines),
           within(markdown_heads(lines), lo, hi) = {},
           NEW i \in Int, lo <= i, i <= hi
    PROVE  {h \in DOMAIN lines : under(lines, h, i)} = open(lines, hi)
  <1> DEFINE n == Len(lines)
  <1>1. n \in Nat /\ DOMAIN lines = 1..n
    OBVIOUS
  <1>2. lo \in 1..n /\ hi \in 1..n
    OBVIOUS
  <1> HIDE DEF n
  <1>3. \A j \in Int : lo <= j /\ j <= hi => j \in 1..n
    BY <1>1, <1>2
  <1>4. \A j \in Int : lo <= j /\ j <= hi => level(lines[j]) = 0
    BY <1>1, <1>3 DEF within, markdown_heads
  <1>5. ASSUME NEW h \in 1..n, under(lines, h, i)
        PROVE  h \in open(lines, hi)
    <2>1. /\ h < i /\ level(lines[h]) > 0
          /\ \A j \in h + 1..i : level(lines[j]) = 0 \/ level(lines[j]) > level(lines[h])
      BY <1>5 DEF under
    <2>2. h \in 1..hi
      BY <1>1, <1>2, <2>1
    <2>3. ASSUME NEW j \in h + 1..hi
          PROVE  level(lines[j]) = 0 \/ level(lines[j]) > level(lines[h])
      <3>1. CASE j <= i
        BY <1>1, <2>1, <3>1
      <3>2. CASE j > i
        BY <1>1, <1>2, <1>4, <3>2
      <3>3. QED BY <1>1, <1>2, <3>1, <3>2
    <2>4. QED BY <2>1, <2>2, <2>3 DEF open
  <1>6. ASSUME NEW h \in open(lines, hi)
        PROVE  h \in 1..n /\ under(lines, h, i)
    <2>1. /\ h \in 1..hi /\ level(lines[h]) > 0
          /\ \A j \in h + 1..hi : level(lines[j]) = 0 \/ level(lines[j]) > level(lines[h])
      BY DEF open
    <2>2. h \in 1..n /\ h \in Int
      BY <1>1, <1>2, <2>1
    <2>3. h < lo
      <3>1. level(lines[h]) # 0
        BY <2>1, LevelIsSmall
      <3>2. ~ (lo <= h /\ h <= hi)
        BY <1>4, <2>2, <3>1
      <3>3. QED BY <1>2, <2>1, <3>2
    <2>4. h < i
      BY <1>2, <2>2, <2>3
    <2>5. \A j \in h + 1..i : j \in h + 1..hi
      BY <1>2, <2>2
    <2>6. QED BY <2>1, <2>2, <2>4, <2>5 DEF under
  <1>7. QED BY <1>1, <1>5, <1>6

HasOpen(lines, D) == \A k \in 0..Len(lines) : D[k] = in_order(open(lines, k))

LEMMA HeadedBelow ==
    ASSUME NEW S, NEW lines \in Seq(S), NEW D, HasOpen(lines, D),
           NEW c, Headed(markdown_heads(lines), D, Len(lines), c),
           NEW T \in SUBSET Int, Spanned(T, c.body),
           NEW i \in ToSet(c.body)
    PROVE  c.crumb = in_order({h \in DOMAIN lines : under(lines, h, i)})
  <1>1. PICK lo, hi \in 1..Len(lines) :
           /\ within(markdown_heads(lines), lo, hi) = {} /\ c.crumb = D[hi]
           /\ \A l \in DOMAIN c.body : lo <= c.body[l] /\ c.body[l] <= hi
    BY DEF Headed
  <1>2. PICK l \in DOMAIN c.body : c.body[l] = i
    BY DEF ToSet
  <1>3. i \in Int /\ lo <= i /\ i <= hi
    <2>1. c.body \in Seq(Int)
      BY DEF Spanned
    <2>2. c.body[l] \in Int
      BY <1>2, <2>1
    <2>3. QED BY <1>1, <1>2, <2>2
  <1>4. {h \in DOMAIN lines : under(lines, h, i)} = open(lines, hi)
    BY <1>1, <1>3, UnderIsOpen
  <1>5. hi \in 0..Len(lines)
    OBVIOUS
  <1>6. D[hi] = in_order(open(lines, hi))
    BY <1>5 DEF HasOpen
  <1>7. QED BY <1>1, <1>4, <1>6

\* The headings before a chunk of any markdown are those its text is under, from the
\* outermost one; only a text of nothing but headings is one chunk without any.
THEOREM BreadcrumbsArePaths ==
    ASSUME NEW text, TextOK(text)
    PROVE  BreadcrumbIsPath(text)
  <1> DEFINE lines == text.lines
             T == text_of(lines)
             chunks == chunk(text)
             H == markdown_heads(lines)
  <1> SUFFICES ASSUME parsed_by_header(text), text.file_type = "md",
                      NEW k \in DOMAIN chunks, NEW i \in ToSet(chunks[k].body)
               PROVE  \/ chunks[k].crumb = in_order({h \in DOMAIN lines : under(lines, h, i)})
                      \/ level(lines[i]) > 0 /\ Len(chunks) = 1
    BY DEF BreadcrumbIsPath
  <1>1. PICK D, base : Chunks(text, D, base)
    BY ChunksOfText
  <1>2. /\ InSequence(T, base) /\ Alike(base, chunks)
        /\ HeadsOf(text, D) /\ ByHeadings(lines, heads_of(lines, "md"), D, base)
    BY <1>1 DEF Chunks
  <1>3. heads_of(lines, "md") = H /\ HasOpen(lines, D)
    BY <1>2 DEF heads_of, HeadsOf, HasOpen
  <1>4. T \in SUBSET Int /\ \E S : lines \in Seq(S)
    BY SentencesRise DEF TextOK
  <1>5. ToSet(sentences(lines)) = T
    BY <1>4, SentencesAreText
  <1> HIDE DEF T, H, lines
  <1>6. /\ k \in DOMAIN base /\ Len(chunks) = Len(base)
        /\ chunks[k].crumb = base[k].crumb /\ chunks[k].body = base[k].body
    BY <1>2 DEF Alike
  <1> HIDE DEF chunks
  <1>7. CASE base = <<>>
    BY <1>6, <1>7
  <1>8. CASE Whole(lines, base) /\ T # {} /\ T \subseteq H
    <2>1. Len(base) = 1 /\ base[1].body = sentences(lines)
      BY <1>4, <1>8, WholeIsOrdered DEF T
    <2>2. DOMAIN base = 1..1
      BY <1>2, <2>1 DEF InSequence
    <2>3. k = 1
      BY <1>6, <2>2
    <2>4. i \in H
      BY <1>5, <1>6, <1>8, <2>1, <2>3
    <2>5. level(lines[i]) # 0
      BY <2>4 DEF H, markdown_heads
    <2>6. QED BY <1>6, <2>1, <2>5, LevelIsSmall
  <1>9. CASE AllHeaded(T, H, D, Len(lines), base)
    <2>1. Headed(H, D, Len(lines), base[k])
      BY <1>6, <1>9 DEF AllHeaded
    <2>2. Spanned(T, base[k].body)
      BY <1>2, <1>6 DEF InSequence
    <2>3. i \in ToSet(base[k].body)
      BY <1>6
    <2> DEFINE c == base[k]
    <2>4. c.crumb = in_order({h \in DOMAIN lines : under(lines, h, i)})
      <3>1. PICK S : lines \in Seq(S)
        BY <1>4
      <3>2. Headed(markdown_heads(lines), D, Len(lines), c)
        BY <2>1 DEF H
      <3>3. Spanned(T, c.body) /\ i \in ToSet(c.body) /\ T \in SUBSET Int
        BY <1>4, <2>2, <2>3
      <3> HIDE DEF c
      <3>4. QED BY <1>3, <3>1, <3>2, <3>3, HeadedBelow
    <2>5. QED BY <1>6, <2>4
  <1>10. QED BY <1>2, <1>3, <1>7, <1>8, <1>9 DEF ByHeadings, T

\* Line i is in a chunk or among the headings before one.
IsFound(i, chunks) ==
    \E k \in DOMAIN chunks : InBody(i, chunks[k].body) \/ InBody(i, chunks[k].crumb)

\* A heading of markdown with text under it stands before the chunk of that text.
LEMMA MarkdownHeadIsFound ==
    ASSUME NEW S, NEW lines \in Seq(S), NEW D, HasOpen(lines, D), NEW chunks,
           AllHeaded(text_of(lines), markdown_heads(lines), D, Len(lines), chunks),
           NEW h \in DOMAIN lines, NEW i \in DOMAIN lines,
           level(lines[i]) = 0, lines[i] # "blank", under(lines, h, i)
    PROVE  IsFound(h, chunks)
  <1> DEFINE T == text_of(lines)
             H == markdown_heads(lines)
             P == {g \in DOMAIN lines : under(lines, g, i)}
  <1>1. T \in SUBSET Int
    BY SentencesRise
  <1>2. i \in T \ H
    BY DEF text_of, markdown_heads
  <1>3. PICK k \in DOMAIN chunks : InBody(i, chunks[k].body)
    BY <1>2 DEF AllHeaded, AllKept
  <1> DEFINE c == chunks[k]
  <1>4. Headed(H, D, Len(lines), c)
    BY DEF AllHeaded
  <1>5. Spanned(T, c.body)
    BY DEF AllHeaded, InSequence
  <1>6. i \in ToSet(c.body)
    BY <1>3 DEF ToSet, InBody
  <1> HIDE DEF c, T
  <1>7. c.crumb = in_order(P)
    BY <1>1, <1>4, <1>5, <1>6, HeadedBelow
  <1>8. P \in SUBSET Int /\ IsFiniteSet(P) /\ h \in P
    <2>1. DOMAIN lines = 1..Len(lines) /\ 1 \in Int /\ Len(lines) \in Int
      OBVIOUS
    <2>2. IsFiniteSet(DOMAIN lines)
      BY <2>1, FS_Interval
    <2>3. P \subseteq DOMAIN lines
      OBVIOUS
    <2>4. IsFiniteSet(P)
      BY <2>2, <2>3, FS_Subset
    <2>5. P \in SUBSET Int
      BY <2>1, <2>3
    <2>6. QED BY <2>4, <2>5
  <1> HIDE DEF P
  <1>9. Rising(c.crumb, P)
    BY <1>7, <1>8, InOrderRises
  <1>10. InBody(h, c.crumb)
    BY <1>8, <1>9, RisingOfNothing
  <1>11. QED BY <1>10 DEF IsFound, c

\* A title stands before the chunk with the line after it.
LEMMA PlainHeadIsFound ==
    ASSUME NEW S, NEW lines \in Seq(S), NEW D,
           \A k \in 0..Len(lines) : LastHead(plain_heads(lines), k, D[k]), NEW chunks,
           AllHeaded(text_of(lines), plain_heads(lines), D, Len(lines), chunks),
           NEW i \in DOMAIN lines, is_heading_candidate(lines, i), i # Len(lines)
    PROVE  IsFound(i, chunks)
  <1> DEFINE T == text_of(lines)
             H == plain_heads(lines)
             n == Len(lines)
             j == i + 1
  <1>1. n \in Nat /\ DOMAIN lines = 1..n /\ i \in 1..n /\ i # n /\ j \in 1..n
        /\ j = i + 1 /\ j # 1 /\ j - 1 = i
    OBVIOUS
  <1>2. lines[i] # "blank" /\ lines[j] # "blank"
    BY <1>1 DEF is_heading_candidate
  <1>3. ~ is_heading_candidate(lines, j)
    BY <1>1, <1>2 DEF is_heading_candidate
  <1>4. j \in T \ H /\ i \in H
    BY <1>1, <1>2, <1>3 DEF text_of, plain_heads
  <1>5. PICK k \in DOMAIN chunks : InBody(j, chunks[k].body)
    BY <1>4 DEF AllHeaded, AllKept
  <1> DEFINE c == chunks[k]
  <1>6. Headed(H, D, n, c)
    BY DEF AllHeaded
  <1>7. H \subseteq 1..n
    BY <1>1 DEF plain_heads
  <1>8. \A l \in 1..n : l \in 0..n /\ LastHead(H, l, D[l])
    BY <1>1
  <1> HIDE DEF T, H, n, j
  <1>9. PICK lo, hi \in 1..n : /\ within(H, lo, hi) = {} /\ c.crumb = D[hi]
                               /\ \A l \in DOMAIN c.body : lo <= c.body[l] /\ c.body[l] <= hi
    BY <1>6 DEF Headed
  <1>10. lo <= j /\ j <= hi
    BY <1>5, <1>9 DEF InBody
  <1>11. LastHead(H, hi, c.crumb)
    BY <1>8, <1>9
  <1>12. c.crumb = <<i>>
    <2>1. i \in within(H, 1, hi)
      BY <1>1, <1>4, <1>9, <1>10 DEF within
    <2>2. PICK h \in H : h <= hi /\ within(H, h + 1, hi) = {} /\ c.crumb = <<h>>
      BY <1>11, <2>1 DEF LastHead
    <2>3. h \in 1..n /\ i \in 1..n
      BY <1>1, <1>7
    <2>4. ~ (h + 1 <= i)
      BY <1>1, <1>4, <1>9, <1>10, <2>2, <2>3 DEF within
    <2>5. ~ (lo <= h)
      BY <1>9, <2>2 DEF within
    <2>6. h = i
      BY <1>1, <1>9, <1>10, <2>3, <2>4, <2>5
    <2>7. QED BY <2>2, <2>6
  <1>13. InBody(i, c.crumb)
    <2>1. 1 \in DOMAIN c.crumb /\ c.crumb[1] = i
      BY <1>12
    <2>2. QED BY <2>1 DEF InBody
  <1>14. QED BY <1>13 DEF IsFound, c

LEMMA AlikeFound ==
    ASSUME NEW i, NEW chunks, NEW others, IsFound(i, chunks), Alike(chunks, others)
    PROVE  i \in UNION {ToSet(others[k].body) \cup ToSet(others[k].crumb) : k \in DOMAIN others}
  <1>1. PICK k \in DOMAIN chunks : InBody(i, chunks[k].body) \/ InBody(i, chunks[k].crumb)
    BY DEF IsFound
  <1>2. /\ k \in DOMAIN others
        /\ others[k].body = chunks[k].body /\ others[k].crumb = chunks[k].crumb
    BY DEF Alike
  <1>3. i \in ToSet(others[k].body) \cup ToSet(others[k].crumb)
    BY <1>1, <1>2 DEF InBody, ToSet
  <1>4. QED BY <1>2, <1>3

\* The headings the parsers drop.
IsDropped(text, i) ==
    /\ parsed_by_header(text)
    /\ IF text.file_type = "md"
       THEN /\ level(text.lines[i]) > 0
            /\ ~\E j \in DOMAIN text.lines :
                  level(text.lines[j]) = 0 /\ text.lines[j] # "blank" /\ under(text.lines, i, j)
       ELSE i = Len(text.lines) /\ is_heading_candidate(text.lines, i)

LEMMA LinesAreFound ==
    ASSUME NEW text, TextOK(text), NEW D, NEW base, Chunks(text, D, base),
           NEW i \in text_of(text.lines)
    PROVE  IsFound(i, base) \/ IsDropped(text, i)
  <1> DEFINE lines == text.lines
             T == text_of(lines)
             H == heads_of(lines, text.file_type)
  <1>1. PICK S : lines \in Seq(S)
    BY DEF TextOK
  <1>2. i \in DOMAIN lines /\ lines[i] # "blank" /\ i \in T
    BY DEF text_of
  <1>3. AllKept(T, base) => IsFound(i, base)
    BY <1>2 DEF AllKept, IsFound
  <1>4. CASE ~ parsed_by_header(text)
    BY <1>3, <1>4 DEF Chunks
  <1>5. CASE parsed_by_header(text)
    <2>1. HeadsOf(text, D) /\ ByHeadings(lines, H, D, base)
      BY <1>5 DEF Chunks
    <2> HIDE DEF H, lines
    <2>2. CASE Whole(lines, base)
      <3>1. AllKept(T, base)
        BY <1>1, <1>2, <2>2, WholeIsOrdered
      <3>2. QED BY <1>3, <3>1
    <2>3. CASE AllHeaded(T, H, D, Len(lines), base)
      <3>1. CASE i \notin H
        BY <1>2, <2>3, <3>1 DEF AllHeaded, AllKept, IsFound
      <3>2. CASE i \in H /\ text.file_type = "md"
        <4>1. H = markdown_heads(lines) /\ HasOpen(lines, D)
          BY <2>1, <3>2 DEF H, lines, heads_of, HeadsOf, HasOpen
        <4>2. level(lines[i]) > 0
          BY <3>2, <4>1, LevelIsSmall DEF markdown_heads
        <4>3. SUFFICES ASSUME ~ IsDropped(text, i) PROVE IsFound(i, base)
          OBVIOUS
        <4>4. PICK j \in DOMAIN lines :
                 level(lines[j]) = 0 /\ lines[j] # "blank" /\ under(lines, i, j)
          BY <1>5, <3>2, <4>2, <4>3 DEF IsDropped, lines
        <4>5. QED BY <1>1, <1>2, <2>3, <4>1, <4>4, MarkdownHeadIsFound
      <3>3. CASE i \in H /\ text.file_type # "md"
        <4>1. /\ H = plain_heads(lines)
              /\ \A k \in 0..Len(lines) : LastHead(plain_heads(lines), k, D[k])
          BY <2>1, <3>3 DEF H, lines, heads_of, HeadsOf
        <4>2. is_heading_candidate(lines, i)
          BY <3>3, <4>1 DEF plain_heads
        <4>3. CASE i = Len(lines)
          BY <1>5, <3>3, <4>2, <4>3 DEF IsDropped, lines
        <4>4. CASE i # Len(lines)
          <5>1. AllHeaded(text_of(lines), plain_heads(lines), D, Len(lines), base)
            BY <2>3, <4>1
          <5>2. IsFound(i, base)
            BY <1>1, <1>2, <4>1, <4>2, <4>4, <5>1, PlainHeadIsFound
          <5>3. QED BY <5>2
        <4>5. QED BY <4>3, <4>4
      <3>4. QED BY <3>1, <3>2, <3>3
    <2>4. CASE base = <<>> /\ T = {}
      BY <1>2, <2>4
    <2>5. QED BY <2>1, <2>2, <2>3, <2>4 DEF ByHeadings
  <1>6. QED BY <1>4, <1>5

\* Of any text, under any strategy and whichever calls for contexts fail, every line
\* with text is in a chunk or before one, except the headings the parsers drop: one of
\* markdown with no text under it, and a title in the last line.
THEOREM LinesAreKept ==
    ASSUME NEW text, TextOK(text)
    PROVE  EveryLineIsKept(text)
  <1> DEFINE lines == text.lines
             chunks == chunk(text)
             F == UNION {ToSet(chunks[k].body) \cup ToSet(chunks[k].crumb) :
                            k \in DOMAIN chunks}
  <1>1. PICK D, base : Chunks(text, D, base)
    BY ChunksOfText
  <1>2. Alike(base, chunks)
    BY <1>1 DEF Chunks
  <1> HIDE DEF chunks
  <1>3. ASSUME NEW i \in DOMAIN lines, lines[i] # "blank"
        PROVE  i \in F \/ IsDropped(text, i)
    <2>1. i \in text_of(text.lines)
      BY <1>3 DEF text_of
    <2>2. IsFound(i, base) \/ IsDropped(text, i)
      BY <1>1, <2>1, LinesAreFound
    <2>3. IsFound(i, base) => i \in F
      BY <1>2, AlikeFound
    <2>4. QED BY <2>2, <2>3
  <1>4. QED BY <1>3 DEF EveryLineIsKept, IsDropped, chunks

(***************************************************************************)
(* The inputs of Algorithms                                                *)
(***************************************************************************)

ScanOK(scan) ==
    /\ scan.length \in Nat
    /\ DOMAIN scan.found = Kind
    /\ \A kind \in Kind : /\ DisjointSpans(scan.found[kind])
                           /\ scan.found[kind] \subseteq Span(scan.length)

InputOK ==
    /\ input.about = "text" => TextOK(input)
    /\ input.about = "scan" => ScanOK(input)
    /\ input.about = "query" => input \in Query
    /\ input.about = "reply" => input \in Reply
    /\ input.about = "lists" => input \in ListPair

LEMMA SpansAreDisjoint ==
    ASSUME NEW k, NEW S \in Spans(k)
    PROVE  DisjointSpans(S) /\ S \subseteq Span(TextLength)
  <1>1. /\ S \subseteq Span(TextLength)
        /\ \A s, t \in S : s = t \/ places(s) \cap places(t) = {}
    BY DEF Spans
  <1>2. IsFiniteSet(S)
    <2>1. TextLength \in Int /\ IsFiniteSet(1..TextLength)
      BY AlgorithmsAssumption, FS_Interval
    <2>2. IsFiniteSet((1..TextLength) \X (1..TextLength))
      BY <2>1, FS_Product
    <2>3. S \subseteq (1..TextLength) \X (1..TextLength)
      BY <1>1 DEF Span
    <2>4. QED BY <2>2, <2>3, FS_Subset
  <1>3. ASSUME NEW s \in S
        PROVE  s[1] \in Int /\ s[2] \in Int /\ s[1] <= s[2]
    <2>1. s \in Span(TextLength)
      BY <1>1
    <2>2. s[1] \in 1..TextLength /\ s[2] \in 1..TextLength /\ s[1] < s[2]
      BY <2>1 DEF Span
    <2>3. QED BY <2>2
  <1>4. QED BY <1>1, <1>2, <1>3 DEF DisjointSpans

LEMMA ScansAreOK ==
    ASSUME NEW resident \in Spans(1), NEW email \in Spans(1), NEW account \in Spans(2),
           NEW scan, scan.length = TextLength,
           scan.found = [resident |-> resident, email |-> email, account |-> account]
    PROVE  ScanOK(scan)
  <1>1. TextLength \in Nat
    BY AlgorithmsAssumption
  <1>2. DOMAIN scan.found = Kind
    BY DEF Kind
  <1>3. /\ DisjointSpans(resident) /\ resident \subseteq Span(TextLength)
        /\ DisjointSpans(email) /\ email \subseteq Span(TextLength)
        /\ DisjointSpans(account) /\ account \subseteq Span(TextLength)
    BY SpansAreDisjoint
  <1>4. /\ scan.found["resident"] = resident /\ scan.found["email"] = email
        /\ scan.found["account"] = account
    OBVIOUS
  <1>5. QED BY <1>1, <1>2, <1>3, <1>4 DEF ScanOK, Kind

LEMMA TextsAreOK ==
    ASSUME NEW strategies, strategies \subseteq {"recursive", "header", "semantic", "auto"},
           NEW types, NEW kinds, kinds \subseteq {"blank", "text", "title", "h1", "h2", "h3"},
           NEW cuts, NEW contexts, contexts \subseteq BOOLEAN,
           NEW text \in Texts(strategies, types, kinds, cuts, contexts)
    PROVE  text.about = "text" /\ TextOK(text)
  <1> DEFINE L == {"blank", "text", "title", "h1", "h2", "h3"}
  <1>1. /\ text.about = "text" /\ text.strategy \in strategies
        /\ text.embedder \in BOOLEAN /\ text.contextual \in contexts
        /\ text.lines \in UNION {[1..n -> kinds] : n \in 0..MaxLines}
    BY DEF Texts
  <1>2. PICK n \in 0..MaxLines : text.lines \in [1..n -> kinds]
    BY <1>1
  <1>3. n \in Nat
    BY <1>2, AlgorithmsAssumption
  <1>4. kinds \subseteq L
    OBVIOUS
  <1> HIDE DEF L
  <1>5. text.lines \in Seq(L)
    <2> DEFINE lines == text.lines
    <2>1. DOMAIN lines = 1..n /\ \A i \in 1..n : lines[i] \in L
      BY <1>2, <1>4
    <2>2. lines = [i \in 1..n |-> lines[i]]
      BY <1>2
    <2> HIDE DEF lines
    <2>3. lines \in Seq(L)
      BY <1>3, <2>1, <2>2
    <2>4. QED BY <2>3 DEF lines
  <1>6. QED BY <1>1, <1>5 DEF TextOK, L

LEMMA InputsAreOK == InputSpec => []InputOK
  <1>1. InputInit => InputOK
    BY DEF InputInit, InputOK, Nothing
  <1>2. InputOK /\ [InputNext]_input => InputOK'
    <2> SUFFICES ASSUME InputOK, [InputNext]_input PROVE InputOK'
      OBVIOUS
    <2>1. CASE PutText
      <3>1. CASE input' \in Texts({"header"}, {"md"}, Markdown, {{}}, {FALSE})
        <4>1. Markdown \subseteq {"blank", "text", "title", "h1", "h2", "h3"}
          BY DEF Markdown
        <4>2. input'.about = "text" /\ TextOK(input')
          BY <3>1, <4>1, TextsAreOK
        <4>3. QED BY <4>2 DEF InputOK, TextOK
      <3>2. CASE input' \in Texts({"auto"}, {"pdf"}, Plain, {{}}, BOOLEAN)
        <4>1. Plain \subseteq {"blank", "text", "title", "h1", "h2", "h3"}
          BY DEF Plain
        <4>2. input'.about = "text" /\ TextOK(input')
          BY <3>2, <4>1, TextsAreOK
        <4>3. QED BY <4>2 DEF InputOK, TextOK
      <3>3. CASE input' \in Texts({"recursive", "auto"}, {"txt"}, {"blank", "text"},
                                  {{}}, {TRUE})
        <4>1. input'.about = "text" /\ TextOK(input')
          BY <3>3, TextsAreOK
        <4>2. QED BY <4>1 DEF InputOK, TextOK
      <3>4. CASE input' \in Texts({"semantic"}, {"md"}, {"blank", "text"},
                                  SUBSET (1..MaxLines - 1), {TRUE})
        <4>1. input'.about = "text" /\ TextOK(input')
          BY <3>4, TextsAreOK
        <4>2. QED BY <4>1 DEF InputOK, TextOK
      <3>5. CASE \E text \in Texts({"semantic"}, {"md"}, Markdown \ {"h3"}, {{}}, {TRUE}) :
                    input' = [text EXCEPT !.embedder = FALSE]
        <4>1. PICK text \in Texts({"semantic"}, {"md"}, Markdown \ {"h3"}, {{}}, {TRUE}) :
                 input' = [text EXCEPT !.embedder = FALSE]
          BY <3>5
        <4>2. Markdown \ {"h3"} \subseteq {"blank", "text", "title", "h1", "h2", "h3"}
          BY DEF Markdown
        <4>3. text.about = "text" /\ TextOK(text)
          BY <4>2, TextsAreOK
        <4>4. /\ input'.about = text.about /\ input'.strategy = text.strategy
              /\ input'.lines = text.lines /\ input'.contextual = text.contextual
              /\ input'.embedder \in BOOLEAN
          BY <4>1 DEF Texts
        <4>5. QED BY <4>3, <4>4 DEF InputOK, TextOK
      <3>6. QED BY <2>1, <3>1, <3>2, <3>3, <3>4, <3>5 DEF PutText
    <2>2. CASE PutScan
      <3>1. PICK resident \in Spans(1), email \in Spans(1), account \in Spans(2),
                 dates \in {{}, {2, 3}, {TextLength}},
                 lines \in {<<>>, <<TRUE>>, <<FALSE, TRUE>>} :
               input' = [about |-> "scan", length |-> TextLength, dates |-> dates,
                         found |-> [resident |-> resident, email |-> email,
                                    account |-> account],
                         lines |-> lines]
        BY <2>2 DEF PutScan
      <3>2. /\ input'.length = TextLength /\ input'.about = "scan"
            /\ input'.found = [resident |-> resident, email |-> email,
                               account |-> account]
        BY <3>1
      <3>3. ScanOK(input')
        BY <3>2, ScansAreOK
      <3>4. QED BY <3>2, <3>3 DEF InputOK
    <2>3. CASE PutQuery
      BY <2>3 DEF PutQuery, Query, InputOK
    <2>4. CASE PutReply
      BY <2>4 DEF PutReply, Reply, InputOK
    <2>5. CASE PutLists
      BY <2>5 DEF PutLists, ListPair, InputOK
    <2>6. CASE Take
      BY <2>6 DEF Take, Nothing, InputOK
    <2>7. CASE UNCHANGED input
      BY <2>7 DEF InputOK
    <2>8. QED BY <2>1, <2>2, <2>3, <2>4, <2>5, <2>6, <2>7 DEF InputNext
  <1>3. QED BY <1>1, <1>2, PTL DEF InputSpec

\* Whatever the strategy and whichever calls for contexts fail, no line of a text of
\* any length is lost except the headings the parsers drop (header.py:82, 115).
THEOREM NoLineIsLost == InputSpec => []EveryLine
  <1>1. InputOK => EveryLine
    <2> SUFFICES ASSUME InputOK, input.about = "text"
                 PROVE  EveryLineIsKept(input)
      BY DEF EveryLine
    <2>1. TextOK(input)
      BY DEF InputOK
    <2>2. QED BY <2>1, LinesAreKept
  <1>2. QED BY InputsAreOK, <1>1, PTL

\* The headings before a chunk of markdown of any length are those its
\* text is under, from the outermost one (header.py:63).
THEOREM BreadcrumbsArePath == InputSpec => []Breadcrumbs
  <1>1. InputOK => Breadcrumbs
    <2> SUFFICES ASSUME InputOK, input.about = "text"
                 PROVE  BreadcrumbIsPath(input)
      BY DEF Breadcrumbs
    <2>1. TextOK(input)
      BY DEF InputOK
    <2>2. QED BY <2>1, BreadcrumbsArePaths
  <1>2. QED BY InputsAreOK, <1>1, PTL

\* The chunks of a text of any length, under any strategy, are counted from 0 and
\* follow one another.
THEOREM ChunksAreInOrder == InputSpec => []ChunkOrder
  <1>1. InputOK => ChunkOrder
    <2> SUFFICES ASSUME InputOK, input.about = "text"
                 PROVE  ChunksFollowTheText(input)
      BY DEF ChunkOrder
    <2>1. TextOK(input)
      BY DEF InputOK
    <2>2. QED BY <2>1, ChunksFollow
  <1>2. QED BY InputsAreOK, <1>1, PTL

\* A sign of an injection more, a pattern or a keyword, never lets a blocked
\* question pass.
THEOREM ScreeningIsMonotone == InputSpec => []Screening
  <1>1. InputOK => Screening
    BY SignsOnlyBlock DEF InputOK, Screening
  <1>2. QED BY InputsAreOK, <1>1, PTL

\* For replies of any length: only the last readable score holds an answer back
\* or marks it, never the verdict the reply states.
THEOREM JudgementIsByScore == InputSpec => []Judgement
  <1>1. InputOK => Judgement
    <2> SUFFICES ASSUME InputOK, input.about = "reply"
                 PROVE  OnlyAStatedScoreCondemns(input)
      BY DEF Judgement
    <2>1. input \in Reply
      BY DEF InputOK
    <2>2. PICK n \in 0..MaxReply : input.reply \in Lines(n)
      BY <2>1 DEF Reply, Lines
    <2>3. n \in Nat
      BY <2>2, AlgorithmsAssumption
    <2>4. input.threshold \in Int /\ input.action \in {"block", "warn", "regenerate"}
      BY <2>1, AlgorithmsAssumption DEF Reply
    <2>5. QED BY <2>2, <2>3, <2>4, OnlyScoresCondemn
  <1>2. QED BY InputsAreOK, <1>1, PTL

LEMMA ListsAreOfStores ==
    ASSUME NEW list \in Lists
    PROVE  StoreList(list)
  <1> DEFINE H == {[chunk |-> c, store |-> st, score |-> 0] : c \in Chunk, st \in Store}
  <1>1. PICK n \in 0..MaxHits : list \in [1..n -> H]
    BY DEF Lists
  <1>2. n \in Nat
    BY <1>1, AlgorithmsAssumption
  <1>3. \A i, j \in DOMAIN list : list[i] = list[j] => i = j
    BY DEF Lists
  <1>4. \A g, h \in H : chunk_id(g) = chunk_id(h) => g = h
    BY DEF chunk_id
  <1> HIDE DEF H
  <1>5. DOMAIN list = 1..n /\ \A i \in 1..n : list[i] \in H
    BY <1>1
  <1>6. Ranked(list)
    <2>1. DOMAIN list \subseteq Nat \ {0}
      BY <1>2, <1>5
    <2>2. QED BY <1>3, <1>4, <1>5, <2>1 DEF Ranked
  <1>7. \A j \in 1..n : 1..j \subseteq 1..n
    BY <1>2
  <1>8. QED BY <1>5, <1>6, <1>7 DEF StoreList

\* The fusion keeps the order two lists agree on, for lists of any length.
THEOREM FusionIsFair == InputSpec => []FusionKeepsRanks
  <1>1. InputOK => FusionKeepsRanks
    <2> SUFFICES ASSUME InputOK, input.about = "lists"
                 PROVE  FusionRespectsRanks(input.vector, input.keyword, input.k,
                                            input.vector_weight, input.keyword_weight)
      BY DEF FusionKeepsRanks
    <2>1. input \in ListPair
      BY DEF InputOK
    <2>2. /\ input.vector \in Lists /\ input.keyword \in Lists
          /\ input.k \in Nat /\ input.vector_weight \in Nat /\ input.keyword_weight \in Nat
      BY <2>1, AlgorithmsAssumption DEF ListPair
    <2>3. QED BY <2>2, ListsAreOfStores, FusionKeepsTheOrder
  <1>2. QED BY InputsAreOK, <1>1, PTL

\* Whatever a pattern finds is a candidate or has a reason not to be one.
THEOREM ScansMissNothing == InputSpec => []ScanFinds
  <1>1. InputOK => ScanFinds
    <2> SUFFICES ASSUME InputOK, input.about = "scan"
                 PROVE  ScanMissesNothing(input)
      BY DEF ScanFinds
    <2>1. ScanOK(input)
      BY DEF InputOK
    <2>2. QED BY <2>1, ScanningMissesNothing DEF ScanOK
  <1>2. QED BY InputsAreOK, <1>1, PTL

\* The masked text hides the candidates that are no false alarm, and nothing else.
THEOREM MaskedTextHides == InputSpec => []MaskHides
  <1>1. InputOK => MaskHides
    <2> SUFFICES ASSUME InputOK, input.about = "scan"
                 PROVE  MaskHidesAllButFalseAlarms(input)
      BY DEF MaskHides
    <2>1. ScanOK(input)
      BY DEF InputOK
    <2>2. QED BY <2>1, MaskingHidesAll DEF ScanOK
  <1>2. QED BY InputsAreOK, <1>1, PTL
=============================================================================
