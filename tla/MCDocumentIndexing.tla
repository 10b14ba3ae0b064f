------------------------- MODULE MCDocumentIndexing -------------------------
(* Small instances of DocumentIndexing for TLC. *)
EXTENDS DocumentIndexing, TLC

CONSTANTS d1, d2, w1, w2

MCOneDoc == {d1}
MCTwoDocs == {d1, d2}
MCOneWorker == {w1}
MCTwoWorkers == {w1, w2}

\* d1 splits into two chunks, d2 is an empty file.
MCNumChunks == (d1 :> 2) @@ (d2 :> 0)
MCNumChunks1 == (d1 :> 2)
MCOneChunk == (d1 :> 1)

WorkerSymmetry == Permutations({w1, w2})
=============================================================================
