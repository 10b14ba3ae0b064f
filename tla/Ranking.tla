------------------------------- MODULE Ranking -------------------------------
(***************************************************************************)
(* What the steps of a search do to lists of passages: fusion, removal of  *)
(* duplicates, document scope, truncation, and the two judgements on their *)
(* scores (app/services/search/rrf.py, document_scope.py,                  *)
(* cascading_evaluator.py, app/services/guardrails/retrieval_gate.py).     *)
(*                                                                         *)
(* The code keeps its lists sorted by score, so a list is the set of its   *)
(* hits; only what a search engine returns is a sequence, because fusion   *)
(* looks at ranks. Where the code cuts a list, ties may be cut either way: *)
(* an operator that cuts is the set of its possible results.               *)
(***************************************************************************)
EXTENDS Integers, FiniteSets, Sequences

CONSTANTS Chunk,        \* passages of the documents
          Document,
          document_of,  \* the document of each passage
          Scale         \* scores of a fusion are multiples of 1 / Scale

ASSUME RankingAssumption ==
    /\ document_of \in [Chunk -> Document]
    /\ Scale \in Nat

\* Each store gives a passage an identifier of its own when it is written.
Store == {"pg", "es"}

\* SearchResult: its chunk_id is the pair of the store and the passage.
Hit == [chunk : Chunk, store : Store, score : Int]

chunk_id(h) == <<h.store, h.chunk>>

passages(H) == {h.chunk : h \in H}

documents_of(H) == {document_of[c] : c \in passages(H)}

hits(list) == {list[i] : i \in DOMAIN list}

\* The top score, of hits there are.
top_score(H) == CHOOSE x \in {h.score : h \in H} : \A h \in H : h.score <= x

\* S sorted by score and cut after n elements, in all the ways ties allow.
Leading(S, n, score) ==
    {T \in SUBSET S :
        /\ Cardinality(T) = IF Cardinality(S) <= n THEN Cardinality(S) ELSE n
        /\ \A t \in T, u \in S \ T : score[t] >= score[u]}

cut(H, n) == Leading(H, n, [h \in H |-> h.score])

(***************************************************************************)
(* Reciprocal rank fusion: RRFCombiner.combine. An identifier in both      *)
(* lists would get both shares.                                            *)
(***************************************************************************)

\* weight / (k + rank + 1), with ranks from 0, of the hit with h's identifier.
rrf_share(list, h, k, weight) ==
    LET ranks == {i \in DOMAIN list : chunk_id(list[i]) = chunk_id(h)}
    IN  IF ranks = {} THEN 0
        ELSE (weight * Scale) \div (k + (CHOOSE i \in ranks : TRUE))

\* Mutant: the share of the keyword list replaces the other one.
combine_last(vector, keyword, k, vector_weight, keyword_weight) ==
    {[chunk |-> h.chunk, store |-> h.store,
      score |-> IF rrf_share(keyword, h, k, keyword_weight) # 0
                THEN rrf_share(keyword, h, k, keyword_weight)
                ELSE rrf_share(vector, h, k, vector_weight)] :
        h \in hits(vector) \cup hits(keyword)}

combine(vector, keyword, k, vector_weight, keyword_weight) ==
    {[chunk |-> h.chunk, store |-> h.store,
      score |-> rrf_share(vector, h, k, vector_weight)
                + rrf_share(keyword, h, k, keyword_weight)] :
        h \in hits(vector) \cup hits(keyword)}

\* A hit that is before another one in every list the other is in is not behind it
\* in the fusion, whatever the weights are (rrf.py:41).
FusionRespectsRanks(vector, keyword, k, vector_weight, keyword_weight) ==
    LET fused == combine(vector, keyword, k, vector_weight, keyword_weight)
        before(list, a, b) ==
            \A j \in DOMAIN list : chunk_id(list[j]) = chunk_id(b) =>
                \E i \in 1..j - 1 : chunk_id(list[i]) = chunk_id(a)
    IN  \A a, b \in fused :
            before(vector, a, b) /\ before(keyword, a, b) => a.score >= b.score

(***************************************************************************)
(* _deduplicate_results: one hit per identifier, the one with the highest  *)
(* score.                                                                  *)
(***************************************************************************)

deduplicate(H) ==
    {h \in H : \A g \in H : chunk_id(g) = chunk_id(h) => g.score <= h.score}

(***************************************************************************)
(* DocumentScopeSelector.select: the hits of the top_n documents, by the   *)
(* best score of each.                                                     *)
(***************************************************************************)

of_document(H, d) == {h \in H : document_of[h.chunk] = d}

\* Mutant: documents are ranked by how many hits they have.
select_most_hits(H, top_n) ==
    {{h \in H : document_of[h.chunk] \in D} :
        D \in Leading(documents_of(H), top_n,
                      [d \in documents_of(H) |-> Cardinality(of_document(H, d))])}

\* Mutant: one document too many.
select_one_more(H, top_n) ==
    {{h \in H : document_of[h.chunk] \in D} :
        D \in Leading(documents_of(H), top_n + 1,
                      [d \in documents_of(H) |-> top_score(of_document(H, d))])}

select(H, top_n) ==
    {{h \in H : document_of[h.chunk] \in D} :
        D \in Leading(documents_of(H), top_n,
                      [d \in documents_of(H) |-> top_score(of_document(H, d))])}

(***************************************************************************)
(* Judgements on scores.                                                   *)
(***************************************************************************)

qualifying(H, min_doc_score) == {h \in H : h.score >= min_doc_score}

\* CascadingQualityEvaluator.evaluate
sufficient(H, threshold, min_docs, min_doc_score) ==
    /\ H # {}
    /\ top_score(H) >= threshold
    /\ Cardinality(qualifying(H, min_doc_score)) >= min_docs

\* RetrievalQualityGate.evaluate, with what search makes of a soft failure.
evaluate(H, min_top_score, min_doc_count, min_doc_score, soft_mode) ==
    IF /\ H # {}
       /\ top_score(H) >= min_top_score
       /\ Cardinality(qualifying(H, min_doc_score)) >= min_doc_count
    THEN "passed"
    ELSE IF H # {} /\ soft_mode THEN "soft" ELSE "failed"

=============================================================================
