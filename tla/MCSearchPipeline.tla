-------------------------- MODULE MCSearchPipeline --------------------------
(***************************************************************************)
(* Model values and definitions for the runs of SearchPipeline.            *)
(***************************************************************************)
EXTENDS SearchPipeline, TLC

CONSTANTS c1, c2, c3, d1, d2, s1, s2

MCChunk == {c1, c2, c3}
MCDocument == {d1, d2}
MCDocumentOf == (c1 :> d1) @@ (c2 :> d1) @@ (c3 :> d2)
MCPersonal == {c1, c3}

hit(c, st, x) == [chunk |-> c, store |-> st, score |-> x]

MCVectorLists ==
    {<<>>,
     <<hit(c3, "pg", 9), hit(c1, "pg", 4)>>,
     <<hit(c1, "pg", 7), hit(c2, "pg", 7), hit(c3, "pg", 2)>>}

MCKeywordLists ==
    {<<>>,
     <<hit(c2, "es", 8), hit(c1, "es", 3)>>,
     <<hit(c3, "es", 5)>>}

Plain ==
    [injection |-> FALSE, multi_query |-> FALSE, multi_query_count |-> 2,
     hyde |-> FALSE, mode |-> "hybrid", rrf_constant |-> 1,
     vector_weight |-> 5, keyword_weight |-> 5,
     bm25_threshold |-> 4, min_qualifying_docs |-> 1, bm25_min_doc_score |-> 4,
     expansion |-> TRUE, fallback_vector_weight |-> 3, fallback_keyword_weight |-> 7,
     scope |-> TRUE, top_n |-> 1, reranking |-> TRUE, top_k |-> 1,
     gate |-> TRUE, min_top_score |-> 3, min_doc_count |-> 1, min_doc_score |-> 2,
     soft_mode |-> TRUE, pii |-> TRUE,
     category |-> "explanatory", exact_citation |-> TRUE,
     generate_answer |-> TRUE, faithfulness |-> TRUE, threshold |-> 2,
     action |-> "block", hallucination |-> TRUE]

\* The second search has another threshold and only makes an answer.
Other ==
    [Plain EXCEPT !.mode = "keyword", !.scope = FALSE, !.reranking = FALSE,
                  !.gate = FALSE, !.pii = FALSE, !.threshold = 1,
                  !.action = "warn", !.hallucination = FALSE]

\* Every stage on, and each setting that changes the way varied.
Varied ==
    {Plain,
     [Plain EXCEPT !.multi_query = TRUE, !.reranking = FALSE, !.injection = TRUE],
     [Plain EXCEPT !.multi_query = TRUE, !.multi_query_count = 0, !.hyde = TRUE],
     [Plain EXCEPT !.mode = "cascading", !.category = "extraction", !.action = "warn"],
     [Plain EXCEPT !.mode = "cascading", !.expansion = FALSE, !.gate = FALSE,
                   !.category = "regulatory"],
     [Plain EXCEPT !.mode = "vector", !.multi_query = TRUE, !.soft_mode = FALSE,
                   !.scope = FALSE, !.hyde = TRUE],
     [Plain EXCEPT !.mode = "keyword", !.category = "extraction", !.soft_mode = FALSE,
                   !.reranking = FALSE, !.top_n = 2, !.hallucination = FALSE],
     [Plain EXCEPT !.scope = FALSE, !.category = "regulatory", !.pii = FALSE,
                   !.faithfulness = FALSE],
     [Plain EXCEPT !.generate_answer = FALSE, !.min_doc_count = 2, !.top_k = 2]}

MCRequests == Varied \cup {Other}
MCAsked == (s1 :> Varied) @@ (s2 :> {Other})
=============================================================================
