-------------------------- MODULE DocumentIndexing --------------------------
(***************************************************************************)
(* The life of a document: the upload, delete and reindex requests of      *)
(* backend/app/api/documents.py and api/system.py, the Celery queue and    *)
(* the workers that run index_document_task (tasks/indexing.py), and the   *)
(* two stores a run fills through DocumentProcessor and DocumentIndexer:   *)
(* the chunks table in PostgreSQL and the rag_chunks index in              *)
(* Elasticsearch.                                                          *)
(*                                                                         *)
(* Nothing serialises the runs of one document: a reindex request, or a    *)
(* retry, is a second message, and another worker process takes it.  A     *)
(* step is one call that touches the database, a store, the disk or the    *)
(* queue.                                                                  *)
(***************************************************************************)
EXTENDS Integers, FiniteSets

CONSTANTS
    Docs,           \* document ids (a uuid is never used twice)
    Workers,        \* the worker processes (and a running reindex_all.py)
    NumChunks,      \* how many chunks the file of each document splits into
    MaxRetries,     \* max_retries of index_document_task (5 in the code)
    MaxRequests,    \* bound: reindex requests
    Faults,         \* the faults that may occur, a subset of FaultKinds
    NoTask          \* a worker that has no task

(* "error": a step of process() raises, whatever of its effect happened.   *)
(* "lookup_error": the run fails before process(), reading the document    *)
(* or the settings.  "status_error": the update to FAILED raises as well.  *)
(* "partial_bulk": Elasticsearch answers 200 to a _bulk request some of    *)
(* whose items failed.  "crash": a process dies between two steps; Celery  *)
(* acknowledges a message when it is received, so its task is lost.        *)
(* "broker_down": delay() raises.                                          *)
FaultKinds == {"error", "lookup_error", "status_error", "partial_bulk",
               "crash", "broker_down"}

ASSUME IndexingAssumption ==
    /\ IsFiniteSet(Workers)
    /\ NumChunks \in [Docs -> Nat]
    /\ MaxRetries \in Nat
    /\ MaxRequests \in Nat
    /\ Faults \subseteq FaultKinds

Message == [doc : Docs, retries : 0..MaxRetries]

ASSUME NoTaskAssumption == NoTask \notin Message

VARIABLES
    row,            \* the documents table: the status of each row, or "absent"
    chunk_count,    \* documents.chunk_count, NoCount when NULL
    file,           \* is the uploaded file on disk
    upload,         \* how far the upload request of each document has come
    deleting,       \* is a delete request between the file and the row
    bulk,           \* ids start_reindex has listed and not dispatched yet
    requests,       \* reindex requests so far
    queue,          \* the Celery queue: how many copies of each message
    wpc,            \* the step each worker is at
    task,           \* the message each worker is working on
    pg,             \* copies of a document's chunks in PostgreSQL
    es,             \* copies of each chunk of a document in Elasticsearch
    run_doubts,     \* history: what went wrong during the current run
    doubts          \* history: what went wrong since the last clean run

api == <<file, upload, deleting, bulk, requests>>
vars == <<row, chunk_count, api, queue, wpc, task, pg, es, run_doubts, doubts>>

NoCount == -1
ChunkIds(d) == 1..NumChunks[d]

DocumentStatus == {"uploaded", "indexed", "failed"}
ProcessSteps == {"convert", "pg_delete", "es_delete", "embed", "pg_write",
                 "es_write", "mark_indexed"}
WorkerSteps == {"idle", "lookup", "mark_failed"} \cup ProcessSteps
DoubtKinds == {"overlap", "partial_bulk", "crash", "status_error"}

Active(d) == {w \in Workers : task[w] # NoTask /\ task[w].doc = d}

Send(m) == queue' = [queue EXCEPT ![m] = @ + 1]

Init ==
    /\ row = [d \in Docs |-> "absent"]
    /\ chunk_count = [d \in Docs |-> NoCount]
    /\ file = [d \in Docs |-> FALSE]
    /\ upload = [d \in Docs |-> "new"]
    /\ deleting = [d \in Docs |-> FALSE]
    /\ bulk = {}
    /\ requests = 0
    /\ queue = [m \in Message |-> 0]
    /\ wpc = [w \in Workers |-> "idle"]
    /\ task = [w \in Workers |-> NoTask]
    /\ pg = [d \in Docs |-> 0]
    /\ es = [d \in Docs |-> [i \in ChunkIds(d) |-> 0]]
    /\ run_doubts = [w \in Workers |-> {}]
    /\ doubts = [d \in Docs |-> {}]

-----------------------------------------------------------------------------
(***************************************************************************)
(* The API process                                                         *)
(***************************************************************************)

indexing == <<wpc, task, es, run_doubts, doubts>>

\* upload_document, up to the first await after the file is written.
SaveFile(d) ==
    /\ upload[d] = "new"
    /\ file' = [file EXCEPT ![d] = TRUE]
    /\ upload' = [upload EXCEPT ![d] = "saved"]
    /\ UNCHANGED <<row, chunk_count, deleting, bulk, requests, queue, pg, indexing>>

\* The row is committed with status UPLOADED.
CommitRow(d) ==
    /\ upload[d] = "saved"
    /\ row' = [row EXCEPT ![d] = "uploaded"]
    /\ upload' = [upload EXCEPT ![d] = "committed"]
    /\ UNCHANGED <<chunk_count, file, deleting, bulk, requests, queue, pg, indexing>>

\* index_document_task.delay; not reached if db.refresh finds the row deleted.
Dispatch(d) ==
    /\ upload[d] = "committed"
    /\ upload' = [upload EXCEPT ![d] = "done"]
    /\ \/ Send([doc |-> d, retries |-> 0])
       \/ /\ "broker_down" \in Faults \/ row[d] = "absent"
          /\ UNCHANGED queue
    /\ UNCHANGED <<row, chunk_count, file, deleting, bulk, requests, pg, indexing>>

\* The API process dies, or the commit fails, in the middle of an upload.
UploadDies(d) ==
    /\ "crash" \in Faults
    /\ upload[d] \in {"saved", "committed"}
    /\ upload' = [upload EXCEPT ![d] = "done"]
    /\ UNCHANGED <<row, chunk_count, file, deleting, bulk, requests, queue, pg, indexing>>

\* delete_document: the file goes first.
RemoveFile(d) ==
    /\ row[d] # "absent"
    /\ ~deleting[d]
    /\ file' = [file EXCEPT ![d] = FALSE]
    /\ deleting' = [deleting EXCEPT ![d] = TRUE]
    /\ UNCHANGED <<row, chunk_count, upload, bulk, requests, queue, pg, indexing>>

\* Mutant: the chunks of a deleted row are not cascaded to.
DeleteRow_nocascade(d) ==
    /\ deleting[d]
    /\ deleting' = [deleting EXCEPT ![d] = FALSE]
    /\ row' = [row EXCEPT ![d] = "absent"]
    /\ chunk_count' = [chunk_count EXCEPT ![d] = NoCount]
    /\ UNCHANGED <<file, upload, bulk, requests, queue, pg, indexing>>

\* Then the row, and by cascade its chunks in PostgreSQL.  Elasticsearch is not asked.
DeleteRow(d) ==
    /\ deleting[d]
    /\ deleting' = [deleting EXCEPT ![d] = FALSE]
    /\ row' = [row EXCEPT ![d] = "absent"]
    /\ chunk_count' = [chunk_count EXCEPT ![d] = NoCount]
    /\ pg' = [pg EXCEPT ![d] = 0]
    /\ UNCHANGED <<file, upload, bulk, requests, queue, indexing>>

\* The API process dies, or the commit fails, once the file is gone.
DeleteDies(d) ==
    /\ "crash" \in Faults
    /\ deleting[d]
    /\ deleting' = [deleting EXCEPT ![d] = FALSE]
    /\ UNCHANGED <<row, chunk_count, file, upload, bulk, requests, queue, pg, indexing>>

\* reindex_document: one more message, whatever is queued or running already.
Reindex(d) ==
    /\ row[d] # "absent"
    /\ requests < MaxRequests
    /\ requests' = requests + 1
    /\ Send([doc |-> d, retries |-> 0])
    /\ UNCHANGED <<row, chunk_count, file, upload, deleting, bulk, pg, indexing>>

\* ReindexService.start_reindex lists the ids ...
ReindexAll ==
    /\ bulk = {}
    /\ requests < MaxRequests
    /\ requests' = requests + 1
    /\ bulk' = {d \in Docs : row[d] # "absent"}
    /\ UNCHANGED <<row, chunk_count, file, upload, deleting, queue, pg, indexing>>

\* ... and sends one message for each, its row still there or not.
ReindexAllDispatch(d) ==
    /\ d \in bulk
    /\ bulk' = bulk \ {d}
    /\ Send([doc |-> d, retries |-> 0])
    /\ UNCHANGED <<row, chunk_count, file, upload, deleting, requests, pg, indexing>>

\* A delay() that raises ends the loop: the other ids are never sent.
ReindexAllDies ==
    /\ Faults \cap {"broker_down", "crash"} # {}
    /\ bulk # {}
    /\ bulk' = {}
    /\ UNCHANGED <<row, chunk_count, file, upload, deleting, requests, queue, pg, indexing>>

-----------------------------------------------------------------------------
(***************************************************************************)
(* A worker running index_document_task                                    *)
(***************************************************************************)

Goto(w, from, to) ==
    /\ wpc[w] = from
    /\ wpc' = [wpc EXCEPT ![w] = to]

\* Where a step of process() leads: on, or to the except clause.
Outcome(next) == {next} \cup (IF "error" \in Faults THEN {"mark_failed"} ELSE {})

\* A worker takes a message, which is acknowledged at once.
Receive(w) ==
    \E m \in Message :
      /\ queue[m] > 0
      /\ queue' = [queue EXCEPT ![m] = @ - 1]
      /\ Goto(w, "idle", "lookup")
      /\ task' = [task EXCEPT ![w] = m]
      /\ run_doubts' = IF Active(m.doc) = {}
                       THEN run_doubts
                       ELSE [x \in Workers |->
                               IF x = w \/ x \in Active(m.doc)
                               THEN run_doubts[x] \cup {"overlap"}
                               ELSE run_doubts[x]]
      /\ UNCHANGED <<row, chunk_count, api, pg, es, doubts>>

\* The task leaves the worker.
Leave(w) ==
    /\ wpc' = [wpc EXCEPT ![w] = "idle"]
    /\ task' = [task EXCEPT ![w] = NoTask]
    /\ run_doubts' = [run_doubts EXCEPT ![w] = {}]

\* Mutant: every failure is retried as if it were the first.
RetryOrGiveUp_forever(w) ==
    /\ Leave(w)
    /\ queue' = [queue EXCEPT ![task[w]] = @ + 1]

\* autoretry_for=(Exception,): a new message until max_retries is used up.
RetryOrGiveUp(w) ==
    /\ Leave(w)
    /\ queue' = IF task[w].retries < MaxRetries
                THEN [queue EXCEPT ![[doc |-> task[w].doc,
                                      retries |-> task[w].retries + 1]] = @ + 1]
                ELSE queue

\* get_document_file_path finds the row and create_processor reads the settings.
Lookup(w) ==
    /\ Goto(w, "lookup", "convert")
    /\ row[task[w].doc] # "absent"
    /\ UNCHANGED <<row, chunk_count, api, queue, task, pg, es, run_doubts, doubts>>

\* The row is gone, or one of the two raises: process() is never entered.
LookupFails(w) ==
    /\ wpc[w] = "lookup"
    /\ row[task[w].doc] = "absent" \/ "lookup_error" \in Faults
    /\ RetryOrGiveUp(w)
    /\ UNCHANGED <<row, chunk_count, api, pg, es, doubts>>

\* converter.convert and chunker.chunk read the file.
Convert(w) ==
    /\ Goto(w, "convert", "pg_delete")
    /\ file[task[w].doc]
    /\ UNCHANGED <<row, chunk_count, api, queue, task, pg, es, run_doubts, doubts>>

\* Mutant: a reindex adds to the chunks that are there.
PgDelete_skip(w) ==
    /\ \E to \in Outcome("es_delete") : Goto(w, "pg_delete", to)
    /\ UNCHANGED <<row, chunk_count, api, queue, task, pg, es, run_doubts, doubts>>

\* PgVectorStore.delete, in a transaction of its own.
PgDelete(w) ==
    /\ \E to \in Outcome("es_delete") : Goto(w, "pg_delete", to)
    /\ pg' = [pg EXCEPT ![task[w].doc] = 0]
    /\ UNCHANGED <<row, chunk_count, api, queue, task, es, run_doubts, doubts>>

\* ElasticsearchStore.delete; index() returns at once if there is no chunk.
EsDelete(w) ==
    LET d == task[w].doc
    IN  /\ Goto(w, "es_delete",
                IF NumChunks[d] = 0 THEN "mark_indexed" ELSE "embed")
        /\ es' = [es EXCEPT ![d] = [i \in ChunkIds(d) |-> 0]]
        /\ UNCHANGED <<row, chunk_count, api, queue, task, pg, run_doubts, doubts>>

\* _delete_by_query raises after removing some of the chunks, or none.
EsDeleteFails(w) ==
    LET d == task[w].doc
    IN  /\ "error" \in Faults
        /\ Goto(w, "es_delete", "mark_failed")
        /\ \E gone \in SUBSET ChunkIds(d) :
             es' = [es EXCEPT ![d] =
                      [i \in ChunkIds(d) |-> IF i \in gone THEN 0 ELSE es[d][i]]]
        /\ UNCHANGED <<row, chunk_count, api, queue, task, pg, run_doubts, doubts>>

\* embedding_provider.embed_documents.
Embed(w) ==
    /\ Goto(w, "embed", "pg_write")
    /\ UNCHANGED <<row, chunk_count, api, queue, task, pg, es, run_doubts, doubts>>

\* PgVectorStore.write: all rows or none, and only with the document's row (foreign key).
PgWrite(w) ==
    /\ \E to \in Outcome("es_write") : Goto(w, "pg_write", to)
    /\ row[task[w].doc] # "absent"
    /\ pg' = [pg EXCEPT ![task[w].doc] = @ + 1]
    /\ UNCHANGED <<row, chunk_count, api, queue, task, es, run_doubts, doubts>>

\* ElasticsearchStore.write: items the index took; only the HTTP status is looked at.
EsWrite(w) ==
    /\ wpc[w] = "es_write"
    /\ LET d == task[w].doc
       IN  \E taken \in SUBSET ChunkIds(d), to \in Outcome("mark_indexed") :
             /\ taken # ChunkIds(d) /\ to = "mark_indexed"
                  => "partial_bulk" \in Faults
             /\ wpc' = [wpc EXCEPT ![w] = to]
             /\ es' = [es EXCEPT ![d] = [i \in ChunkIds(d) |->
                         IF i \in taken THEN es[d][i] + 1 ELSE es[d][i]]]
             /\ run_doubts' = IF taken = ChunkIds(d) THEN run_doubts
                  ELSE [run_doubts EXCEPT ![w] = @ \cup {"partial_bulk"}]
    /\ UNCHANGED <<row, chunk_count, api, queue, task, pg, doubts>>

\* A step of process() raises with nothing done.
StepFails(w) ==
    /\ wpc[w] \in ProcessSteps
    /\ \/ "error" \in Faults
       \/ wpc[w] = "convert" /\ ~file[task[w].doc]
       \/ wpc[w] = "pg_write" /\ row[task[w].doc] = "absent"
    /\ wpc' = [wpc EXCEPT ![w] = "mark_failed"]
    /\ UNCHANGED <<row, chunk_count, api, queue, task, pg, es, run_doubts, doubts>>

\* Updating a row that is not there is no error.
SetStatus(d, status) ==
    row' = [row EXCEPT ![d] = IF @ = "absent" THEN @ ELSE status]

\* _update_status(INDEXED, len(chunks)): the run is over.
MarkIndexed(w) ==
    LET d == task[w].doc
    IN  /\ wpc[w] = "mark_indexed"
        /\ SetStatus(d, "indexed")
        /\ chunk_count' = [chunk_count EXCEPT ![d] =
                             IF row[d] = "absent" THEN @ ELSE NumChunks[d]]
        /\ doubts' = [doubts EXCEPT ![d] = run_doubts[w]]
        /\ Leave(w)
        /\ UNCHANGED <<api, queue, pg, es>>

\* Mutant: a failed run leaves the status alone.
MarkFailed_silent(w) ==
    /\ wpc[w] = "mark_failed"
    /\ RetryOrGiveUp(w)
    /\ UNCHANGED <<row, chunk_count, api, pg, es, doubts>>

\* _update_status(FAILED) in the except clause, which then re-raises.
MarkFailed(w) ==
    /\ wpc[w] = "mark_failed"
    /\ SetStatus(task[w].doc, "failed")
    /\ RetryOrGiveUp(w)
    /\ UNCHANGED <<chunk_count, api, pg, es, doubts>>

\* The update to FAILED raises as well: the row keeps its old status.
MarkFailedFails(w) ==
    /\ "status_error" \in Faults
    /\ wpc[w] = "mark_failed"
    /\ RetryOrGiveUp(w)
    /\ doubts' = [doubts EXCEPT ![task[w].doc] = @ \cup {"status_error"}]
    /\ UNCHANGED <<row, chunk_count, api, pg, es>>

\* The worker process is killed; the message was acknowledged, nobody takes it up.
Crash(w) ==
    /\ "crash" \in Faults
    /\ task[w] # NoTask
    /\ Leave(w)
    /\ doubts' = [doubts EXCEPT ![task[w].doc] = @ \cup {"crash"}]
    /\ UNCHANGED <<row, chunk_count, api, queue, pg, es>>

-----------------------------------------------------------------------------
Request(d) ==
    \/ SaveFile(d) \/ CommitRow(d) \/ Dispatch(d) \/ UploadDies(d)
    \/ RemoveFile(d) \/ DeleteRow(d) \/ DeleteDies(d)
    \/ Reindex(d) \/ ReindexAllDispatch(d)

\* The steps a live worker takes by itself.
WorkerStep(w) ==
    \/ Receive(w) \/ Lookup(w) \/ LookupFails(w) \/ Convert(w)
    \/ PgDelete(w) \/ EsDelete(w) \/ EsDeleteFails(w) \/ Embed(w)
    \/ PgWrite(w) \/ EsWrite(w) \/ StepFails(w)
    \/ MarkIndexed(w) \/ MarkFailed(w) \/ MarkFailedFails(w)

Next ==
    \/ \E d \in Docs : Request(d)
    \/ ReindexAll
    \/ ReindexAllDies
    \/ \E w \in Workers : WorkerStep(w) \/ Crash(w)

Spec == Init /\ [][Next]_vars

(* A live worker keeps taking messages and its calls return (the HTTP      *)
(* clients and the database driver time out); a request in progress goes   *)
(* on.  That anybody uploads, deletes or reindexes is not assumed.         *)
Fairness ==
    /\ \A w \in Workers : WF_vars(WorkerStep(w))
    /\ \A d \in Docs : WF_vars(Dispatch(d))

FairSpec == Spec /\ Fairness

-----------------------------------------------------------------------------
(***************************************************************************)
(* Properties                                                              *)
(***************************************************************************)

(* Every table, store, queue entry and worker stays in its type.           *)
TypeOK ==
    /\ row \in [Docs -> {"absent"} \cup DocumentStatus]
    /\ chunk_count \in [Docs -> {NoCount} \cup Nat]
    /\ file \in [Docs -> BOOLEAN]
    /\ upload \in [Docs -> {"new", "saved", "committed", "done"}]
    /\ deleting \in [Docs -> BOOLEAN]
    /\ bulk \subseteq Docs
    /\ requests \in 0..MaxRequests
    /\ queue \in [Message -> Nat]
    /\ wpc \in [Workers -> WorkerSteps]
    /\ task \in [Workers -> Message \cup {NoTask}]
    /\ \A w \in Workers : task[w] = NoTask <=> wpc[w] = "idle"
    /\ pg \in [Docs -> Nat]
    /\ DOMAIN es = Docs
    /\ \A d \in Docs : es[d] \in [ChunkIds(d) -> Nat]
    /\ run_doubts \in [Workers -> SUBSET DoubtKinds]
    /\ doubts \in [Docs -> SUBSET DoubtKinds]

(* What the status "indexed" is worth.  When no run of the document is in  *)
(* progress, and the last run that set "indexed" overlapped with no other, *)
(* and no worker crashed and no FAILED update was lost since: PostgreSQL   *)
(* holds the chunks exactly once, chunk_count is their number, and         *)
(* Elasticsearch holds none of them twice; all of them unless a bulk       *)
(* request failed in part.  Whatever leftovers earlier failed attempts,    *)
(* retries, crashes or overlapping runs left in the stores are gone.       *)
IndexedIsTruthful ==
    \A d \in Docs :
      (row[d] = "indexed" /\ Active(d) = {} /\ doubts[d] \subseteq {"partial_bulk"})
        => /\ pg[d] = IF NumChunks[d] = 0 THEN 0 ELSE 1
           /\ chunk_count[d] = NumChunks[d]
           /\ \A i \in ChunkIds(d) : es[d][i] \in {0, 1}
           /\ doubts[d] = {} => \A i \in ChunkIds(d) : es[d][i] = 1

(* Duplicates are bounded: however many messages, retries and crashes a    *)
(* document sees, each store holds at most one copy of a chunk per worker  *)
(* process, because every run deletes before it writes.                    *)
CopiesBounded ==
    \A d \in Docs :
      /\ pg[d] <= Cardinality(Workers)
      /\ \A i \in ChunkIds(d) : es[d][i] <= Cardinality(Workers)

(* No chunk stays in PostgreSQL without its document, also when the delete *)
(* request falls in the middle of a run.                                   *)
NoPgOrphans == \A d \in Docs : row[d] = "absent" => pg[d] = 0

\* What the API shows of a document, gone also when its upload came to nothing.
life(d) ==
    IF row[d] # "absent" THEN row[d]
    ELSE IF upload[d] \in {"new", "saved"} THEN "unlisted" ELSE "gone"

Life == INSTANCE DocumentLife
            WITH status <- [d \in Docs |-> life(d)],
                 findable <- {d \in Docs : pg[d] > 0}

(* The table and the vector store move as DocumentLife says: a document is *)
(* deleted and its chunks leave the vector search in one step, and no      *)
(* message still queued, retry or run in progress brings either back.      *)
DocumentsFollowLife == Life!Spec

(* Once the requests stop, the work stops: every task ends and the retries *)
(* of one that keeps failing are used up.                                  *)
WorkEnds ==
    <>[](/\ \A w \in Workers : wpc[w] = "idle"
         /\ \A m \in Message : queue[m] = 0)

(* A document whose upload reached the queue does not stay "uploaded": it  *)
(* becomes indexed or failed, unless it is deleted first.                  *)
UploadIsSettled ==
    \A d \in Docs :
      upload[d] = "done" ~> row[d] \in {"absent", "indexed", "failed"}
=============================================================================
