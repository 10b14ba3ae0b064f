----------------------- MODULE DocumentIndexingProofs -----------------------
(***************************************************************************)
(* TLAPS proofs about DocumentIndexing, for any documents, chunk counts,   *)
(* workers, number of retries and requests, and with every fault allowed.  *)
(***************************************************************************)
EXTENDS DocumentIndexing, FiniteSetTheorems, TLAPS

(***************************************************************************)
(* Types                                                                   *)
(***************************************************************************)

LEMMA InitTypeOK == Init => TypeOK
  BY IndexingAssumption
  DEF Init, TypeOK, DocumentStatus, WorkerSteps, ProcessSteps, DoubtKinds,
      NoCount, ChunkIds

\* What only the workers write, and the rest.
WorkersTyped ==
    /\ wpc \in [Workers -> WorkerSteps]
    /\ task \in [Workers -> Message \cup {NoTask}]
    /\ \A w \in Workers : task[w] = NoTask <=> wpc[w] = "idle"
    /\ DOMAIN es = Docs
    /\ \A d \in Docs : es[d] \in [ChunkIds(d) -> Nat]
    /\ run_doubts \in [Workers -> SUBSET DoubtKinds]
    /\ doubts \in [Docs -> SUBSET DoubtKinds]

SharedTyped ==
    /\ row \in [Docs -> {"absent"} \cup DocumentStatus]
    /\ chunk_count \in [Docs -> {NoCount} \cup Nat]
    /\ file \in [Docs -> BOOLEAN]
    /\ upload \in [Docs -> {"new", "saved", "committed", "done"}]
    /\ deleting \in [Docs -> BOOLEAN]
    /\ bulk \subseteq Docs
    /\ requests \in 0..MaxRequests
    /\ queue \in [Message -> Nat]
    /\ pg \in [Docs -> Nat]

LEMMA TypeParts == TypeOK <=> WorkersTyped /\ SharedTyped
  BY DEF TypeOK, WorkersTyped, SharedTyped

LEMMA FirstMessage ==
    \A d \in Docs : [doc |-> d, retries |-> 0] \in Message
  BY IndexingAssumption DEF Message

\* The requests touch neither a worker nor Elasticsearch.
LEMMA RequestTypeOK ==
    ASSUME TypeOK,
           \/ \E d \in Docs : Request(d)
           \/ ReindexAll
           \/ ReindexAllDies
    PROVE  TypeOK'
  <1>1. SharedTyped /\ WorkersTyped
    BY TypeParts
  <1>2. ASSUME NEW d \in Docs,
               SaveFile(d) \/ CommitRow(d) \/ UploadDies(d) \/ RemoveFile(d)
        PROVE  SharedTyped' /\ UNCHANGED indexing
    BY <1>1, <1>2
    DEF SaveFile, CommitRow, UploadDies, RemoveFile, SharedTyped, DocumentStatus
  <1>3. ASSUME NEW d \in Docs, DeleteRow(d) \/ DeleteDies(d)
        PROVE  SharedTyped' /\ UNCHANGED indexing
    <2>1. /\ row' \in [Docs -> {"absent"} \cup DocumentStatus]
          /\ chunk_count' \in [Docs -> {NoCount} \cup Nat]
          /\ deleting' \in [Docs -> BOOLEAN]
      BY <1>1, <1>3 DEF DeleteRow, DeleteDies, SharedTyped
    <2>2. pg' \in [Docs -> Nat]
      BY <1>1, <1>3 DEF DeleteRow, DeleteDies, SharedTyped
    <2>3. QED BY <1>1, <1>3, <2>1, <2>2 DEF DeleteRow, DeleteDies, SharedTyped
  <1>4. ASSUME NEW d \in Docs, Dispatch(d) \/ Reindex(d) \/ ReindexAllDispatch(d)
        PROVE  SharedTyped' /\ UNCHANGED indexing
    <2>1. requests' \in 0..MaxRequests
      BY <1>1, <1>4, IndexingAssumption
      DEF Dispatch, Reindex, ReindexAllDispatch, SharedTyped
    <2>2. queue' \in [Message -> Nat]
      BY <1>1, <1>4, FirstMessage
      DEF Dispatch, Reindex, ReindexAllDispatch, Send, SharedTyped
    <2>3. QED
      BY <1>1, <1>4, <2>1, <2>2
      DEF Dispatch, Reindex, ReindexAllDispatch, SharedTyped
  <1>5. ASSUME ReindexAll \/ ReindexAllDies
        PROVE  SharedTyped' /\ UNCHANGED indexing
    BY <1>1, <1>5, IndexingAssumption DEF ReindexAll, ReindexAllDies, SharedTyped
  <1>6. SharedTyped' /\ UNCHANGED indexing
    BY <1>2, <1>3, <1>4, <1>5 DEF Request
  <1>7. WorkersTyped'
    BY <1>1, <1>6 DEF WorkersTyped, indexing
  <1>8. QED BY <1>6, <1>7 DEF WorkersTyped, SharedTyped, TypeOK

\* A worker that is not idle has a message.
LEMMA BusyWorker ==
    ASSUME TypeOK, NEW w \in Workers, wpc[w] # "idle"
    PROVE  /\ task[w] \in Message
           /\ task[w].doc \in Docs
           /\ task[w].retries \in 0..MaxRetries
  BY DEF TypeOK, Message

LEMMA LeaveTypes ==
    ASSUME TypeOK, NEW w \in Workers, Leave(w)
    PROVE  /\ wpc' \in [Workers -> WorkerSteps]
           /\ task' \in [Workers -> Message \cup {NoTask}]
           /\ \A x \in Workers : task'[x] = NoTask <=> wpc'[x] = "idle"
           /\ run_doubts' \in [Workers -> SUBSET DoubtKinds]
  BY DEF TypeOK, Leave, WorkerSteps

LEMMA RetryTypes ==
    ASSUME TypeOK, NEW w \in Workers, wpc[w] # "idle", RetryOrGiveUp(w)
    PROVE  /\ wpc' \in [Workers -> WorkerSteps]
           /\ task' \in [Workers -> Message \cup {NoTask}]
           /\ \A x \in Workers : task'[x] = NoTask <=> wpc'[x] = "idle"
           /\ run_doubts' \in [Workers -> SUBSET DoubtKinds]
           /\ queue' \in [Message -> Nat]
  <1>1. Leave(w)
    BY DEF RetryOrGiveUp
  <1>2. task[w].retries < MaxRetries
          => [doc |-> task[w].doc, retries |-> task[w].retries + 1] \in Message
    BY BusyWorker, IndexingAssumption DEF Message
  <1>3. queue' \in [Message -> Nat]
    BY <1>2 DEF RetryOrGiveUp, TypeOK
  <1>4. QED BY <1>1, <1>3, LeaveTypes

LEMMA WorkerTypeOK ==
    ASSUME TypeOK, NEW w \in Workers, WorkerStep(w) \/ Crash(w)
    PROVE  TypeOK'
  <1> USE IndexingAssumption, NoTaskAssumption
  <1>1. CASE Receive(w)
    <2>1. PICK m \in Message :
            /\ queue[m] > 0
            /\ queue' = [queue EXCEPT ![m] = @ - 1]
            /\ task' = [task EXCEPT ![w] = m]
      BY <1>1 DEF Receive
    <2>2. queue' \in [Message -> Nat]
      BY <2>1 DEF TypeOK
    <2>3. /\ wpc' \in [Workers -> WorkerSteps]
          /\ task' \in [Workers -> Message \cup {NoTask}]
          /\ \A x \in Workers : task'[x] = NoTask <=> wpc'[x] = "idle"
      BY <1>1, <2>1 DEF Receive, Goto, TypeOK, WorkerSteps
    <2>4. run_doubts' \in [Workers -> SUBSET DoubtKinds]
      BY <1>1 DEF Receive, TypeOK, DoubtKinds
    <2>5. QED BY <1>1, <2>2, <2>3, <2>4 DEF Receive, TypeOK, api
  <1>2. CASE Lookup(w) \/ Convert(w) \/ Embed(w) \/ StepFails(w)
    BY <1>2
    DEF Lookup, Convert, Embed, StepFails, Goto, TypeOK, api, WorkerSteps,
        ProcessSteps
  <1>3. CASE LookupFails(w)
    BY <1>3, RetryTypes DEF LookupFails, TypeOK, api
  <1>4. CASE PgDelete(w) \/ PgWrite(w)
    <2>1. /\ wpc' \in [Workers -> WorkerSteps]
          /\ \A x \in Workers : task[x] = NoTask <=> wpc'[x] = "idle"
      BY <1>4
      DEF PgDelete, PgWrite, Goto, Outcome, TypeOK, WorkerSteps, ProcessSteps
    <2>2. pg' \in [Docs -> Nat]
      BY <1>4 DEF PgDelete, PgWrite, TypeOK
    <2>3. QED BY <1>4, <2>1, <2>2 DEF PgDelete, PgWrite, TypeOK, api
  <1>5. CASE EsDelete(w)
    <2>1. wpc[w] # "idle"
      BY <1>5 DEF EsDelete, Goto
    <2>2. /\ DOMAIN es' = Docs
          /\ \A d \in Docs : es'[d] \in [ChunkIds(d) -> Nat]
      BY <1>5, <2>1, BusyWorker DEF EsDelete, TypeOK
    <2>3. QED BY <1>5, <2>2
      DEF EsDelete, Goto, TypeOK, api, WorkerSteps, ProcessSteps
  <1>6. CASE EsDeleteFails(w)
    <2>1. wpc[w] # "idle"
      BY <1>6 DEF EsDeleteFails, Goto
    <2>2. /\ DOMAIN es' = Docs
          /\ \A d \in Docs : es'[d] \in [ChunkIds(d) -> Nat]
      BY <1>6, <2>1, BusyWorker DEF EsDeleteFails, TypeOK
    <2>3. QED BY <1>6, <2>2
      DEF EsDeleteFails, Goto, TypeOK, api, WorkerSteps, ProcessSteps
  <1>7. CASE EsWrite(w)
    <2>1. wpc[w] # "idle"
      BY <1>7 DEF EsWrite
    <2>2. /\ DOMAIN es' = Docs
          /\ \A d \in Docs : es'[d] \in [ChunkIds(d) -> Nat]
      BY <1>7, <2>1, BusyWorker DEF EsWrite, TypeOK
    <2>3. run_doubts' \in [Workers -> SUBSET DoubtKinds]
      BY <1>7 DEF EsWrite, TypeOK, DoubtKinds
    <2>4. /\ wpc' \in [Workers -> WorkerSteps]
          /\ \A x \in Workers : task'[x] = NoTask <=> wpc'[x] = "idle"
      BY <1>7 DEF EsWrite, Outcome, TypeOK, WorkerSteps, ProcessSteps
    <2>5. QED BY <1>7, <2>2, <2>3, <2>4 DEF EsWrite, TypeOK, api
  <1>8. CASE MarkIndexed(w)
    <2>1. /\ wpc[w] # "idle"
          /\ Leave(w)
      BY <1>8 DEF MarkIndexed
    <2>2. task[w].doc \in Docs
      BY <2>1, BusyWorker
    <2>3. /\ row' \in [Docs -> {"absent"} \cup DocumentStatus]
          /\ chunk_count' \in [Docs -> {NoCount} \cup Nat]
          /\ doubts' \in [Docs -> SUBSET DoubtKinds]
      BY <1>8, <2>2 DEF MarkIndexed, SetStatus, TypeOK, DocumentStatus
    <2>4. QED BY <1>8, <2>1, <2>3, LeaveTypes DEF MarkIndexed, TypeOK, api
  <1>9. CASE MarkFailed(w)
    <2>1. wpc[w] # "idle" /\ RetryOrGiveUp(w)
      BY <1>9 DEF MarkFailed
    <2>2. row' \in [Docs -> {"absent"} \cup DocumentStatus]
      BY <1>9 DEF MarkFailed, SetStatus, TypeOK, DocumentStatus
    <2>3. QED BY <1>9, <2>1, <2>2, RetryTypes DEF MarkFailed, TypeOK, api
  <1>10. CASE MarkFailedFails(w)
    <2>1. wpc[w] # "idle" /\ RetryOrGiveUp(w)
      BY <1>10 DEF MarkFailedFails
    <2>2. doubts' \in [Docs -> SUBSET DoubtKinds]
      BY <1>10, <2>1, BusyWorker DEF MarkFailedFails, TypeOK, DoubtKinds
    <2>3. QED BY <1>10, <2>1, <2>2, RetryTypes DEF MarkFailedFails, TypeOK, api
  <1>11. CASE Crash(w)
    <2>1. Leave(w) /\ task[w] # NoTask /\ task[w].doc \in Docs
      BY <1>11 DEF Crash, TypeOK, Message
    <2>2. doubts' \in [Docs -> SUBSET DoubtKinds]
      BY <1>11, <2>1 DEF Crash, TypeOK, DoubtKinds
    <2>3. QED BY <1>11, <2>1, <2>2, LeaveTypes DEF Crash, TypeOK, api
  <1>12. QED
    BY <1>1, <1>2, <1>3, <1>4, <1>5, <1>6, <1>7, <1>8, <1>9, <1>10, <1>11
    DEF WorkerStep

LEMMA NextTypeOK == TypeOK /\ [Next]_vars => TypeOK'
  <1> SUFFICES ASSUME TypeOK, [Next]_vars PROVE TypeOK'
    OBVIOUS
  <1>1. CASE UNCHANGED vars
    BY <1>1 DEF vars, api, TypeOK
  <1>2. CASE Next
    BY <1>2, RequestTypeOK, WorkerTypeOK DEF Next
  <1>3. QED BY <1>1, <1>2

(* Every table, store, queue entry and worker keeps its type; in           *)
(* particular a message never carries more than MaxRetries retries.        *)
THEOREM TypeCorrect == Spec => []TypeOK
  BY InitTypeOK, NextTypeOK, PTL DEF Spec

(***************************************************************************)
(* No orphans in PostgreSQL                                                *)
(***************************************************************************)

LEMMA OrphansStep == TypeOK /\ NoPgOrphans /\ [Next]_vars => NoPgOrphans'
  <1> SUFFICES ASSUME TypeOK, NoPgOrphans, [Next]_vars,
                      NEW d \in Docs, row'[d] = "absent"
               PROVE  pg'[d] = 0
    BY DEF NoPgOrphans
  <1>1. row[d] = "absent" => pg[d] = 0
    BY DEF NoPgOrphans
  <1>2. CASE UNCHANGED vars
    BY <1>1, <1>2 DEF vars
  <1>3. CASE (\E e \in Docs : Request(e)) \/ ReindexAll \/ ReindexAllDies
    BY <1>1, <1>3
    DEF Request, SaveFile, CommitRow, Dispatch, UploadDies, RemoveFile,
        DeleteRow, DeleteDies, Reindex, ReindexAllDispatch, ReindexAll,
        ReindexAllDies, TypeOK
  <1>4. ASSUME NEW w \in Workers, PgWrite(w) PROVE pg'[d] = 0
    <2>1. row[d] = "absent" /\ d # task[w].doc
      BY <1>4 DEF PgWrite
    <2>2. QED BY <1>1, <1>4, <2>1 DEF PgWrite, TypeOK
  <1>5. ASSUME NEW w \in Workers, PgDelete(w) PROVE pg'[d] = 0
    BY <1>1, <1>5 DEF PgDelete, TypeOK
  <1>6. ASSUME NEW w \in Workers, WorkerStep(w) \/ Crash(w),
               ~PgWrite(w), ~PgDelete(w)
        PROVE  pg'[d] = 0
    <2>1. UNCHANGED pg
      BY <1>6
      DEF WorkerStep, Receive, Lookup, LookupFails, Convert, EsDelete,
          EsDeleteFails, Embed, EsWrite, StepFails, MarkIndexed, MarkFailed,
          MarkFailedFails, Crash
    <2>2. row[d] = "absent"
      BY <1>6
      DEF WorkerStep, Receive, Lookup, LookupFails, Convert, EsDelete,
          EsDeleteFails, Embed, EsWrite, StepFails, MarkIndexed, MarkFailed,
          MarkFailedFails, Crash, SetStatus, TypeOK
    <2>3. QED BY <1>1, <2>1, <2>2
  <1>7. QED BY <1>2, <1>3, <1>4, <1>5, <1>6 DEF Next

(* A document without a row has no chunk in PostgreSQL, whatever run was   *)
(* writing them when the row was deleted.                                  *)
THEOREM NoOrphans == Spec => []NoPgOrphans
  <1>1. Init => NoPgOrphans
    BY DEF Init, NoPgOrphans
  <1>2. QED BY <1>1, OrphansStep, TypeCorrect, PTL DEF Spec

(***************************************************************************)
(* Duplicates are bounded                                                  *)
(*                                                                         *)
(* A run that has emptied a store and not yet written to it may still add  *)
(* one copy.  Such runs and the copies that are there never outnumber the  *)
(* workers: emptying the store makes room for all of them, and a write     *)
(* turns one such run into one copy.                                       *)
(***************************************************************************)

ArmedPg(d) ==
    {w \in Workers : /\ wpc[w] \in {"es_delete", "embed", "pg_write"}
                     /\ task[w].doc = d}

ArmedEs(d) ==
    {w \in Workers : /\ wpc[w] \in {"embed", "pg_write", "es_write"}
                     /\ task[w].doc = d}

Room ==
    \A d \in Docs :
      /\ pg[d] + Cardinality(ArmedPg(d)) <= Cardinality(Workers)
      /\ \A i \in ChunkIds(d) :
           es[d][i] + Cardinality(ArmedEs(d)) <= Cardinality(Workers)

\* n copies and the set A of runs that may add one, before and after a step.
LEMMA RoomKept ==
    ASSUME IsFiniteSet(Workers),
           NEW A \in SUBSET Workers, NEW B \in SUBSET Workers,
           NEW n \in Nat, NEW m \in Nat,
           n + Cardinality(A) <= Cardinality(Workers),
           \/ m = 0
           \/ m <= n /\ B \subseteq A
           \/ m <= n + 1 /\ \E w \in A : B \subseteq A \ {w}
    PROVE  m + Cardinality(B) <= Cardinality(Workers)
  <1>1. /\ IsFiniteSet(A) /\ IsFiniteSet(B)
        /\ Cardinality(A) \in Nat /\ Cardinality(B) \in Nat
        /\ Cardinality(Workers) \in Nat
        /\ Cardinality(B) <= Cardinality(Workers)
    BY FS_Subset, FS_CardinalityType
  <1>2. CASE m = 0
    BY <1>1, <1>2
  <1>3. CASE m <= n /\ B \subseteq A
    <2>1. Cardinality(B) <= Cardinality(A)
      BY <1>1, <1>3, FS_Subset
    <2>2. QED BY <1>1, <1>3, <2>1
  <1>4. CASE m <= n + 1 /\ \E w \in A : B \subseteq A \ {w}
    <2>1. PICK w \in A : B \subseteq A \ {w}
      BY <1>4
    <2>2. /\ IsFiniteSet(A \ {w})
          /\ Cardinality(A \ {w}) = Cardinality(A) - 1
      BY <1>1, FS_RemoveElement
    <2>3. Cardinality(B) <= Cardinality(A \ {w})
      BY <2>1, <2>2, FS_Subset
    <2>4. QED BY <1>1, <1>4, <2>2, <2>3
  <1>5. QED BY <1>2, <1>3, <1>4

\* How a step may change the copies in a store and the runs that may add to it.
PgMove(d) ==
    \/ pg'[d] = 0
    \/ pg'[d] <= pg[d] /\ ArmedPg(d)' \subseteq ArmedPg(d)
    \/ pg'[d] <= pg[d] + 1
       /\ \E w \in ArmedPg(d) : ArmedPg(d)' \subseteq ArmedPg(d) \ {w}

EsMove(d, i) ==
    \/ es'[d][i] = 0
    \/ es'[d][i] <= es[d][i] /\ ArmedEs(d)' \subseteq ArmedEs(d)
    \/ es'[d][i] <= es[d][i] + 1
       /\ \E w \in ArmedEs(d) : ArmedEs(d)' \subseteq ArmedEs(d) \ {w}

\* A worker that ends at a step where it is not armed leaves the sets or was never in.
LEMMA Disarmed ==
    ASSUME TypeOK, NEW w \in Workers,
           wpc' = [wpc EXCEPT ![w] = wpc'[w]],
           wpc'[w] \notin {"es_delete", "embed", "pg_write", "es_write"},
           \A x \in Workers \ {w} : task'[x] = task[x]
    PROVE  \A d \in Docs : /\ ArmedPg(d)' \subseteq ArmedPg(d) \ {w}
                           /\ ArmedEs(d)' \subseteq ArmedEs(d) \ {w}
  BY DEF ArmedPg, ArmedEs, TypeOK

\* A document whose copies and armed runs are as they were.
LEMMA Still ==
    ASSUME TypeOK, NEW d \in Docs
    PROVE  /\ UNCHANGED <<wpc, task, pg>> => PgMove(d)
           /\ UNCHANGED <<wpc, task, es>> =>
                \A i \in ChunkIds(d) : EsMove(d, i)
           /\ pg'[d] = pg[d] /\ ArmedPg(d)' \subseteq ArmedPg(d) => PgMove(d)
           /\ es'[d] = es[d] /\ ArmedEs(d)' \subseteq ArmedEs(d) =>
                \A i \in ChunkIds(d) : EsMove(d, i)
  <1>1. UNCHANGED <<wpc, task>> =>
          ArmedPg(d)' = ArmedPg(d) /\ ArmedEs(d)' = ArmedEs(d)
    BY DEF ArmedPg, ArmedEs
  <1>2. pg[d] \in Nat /\ \A i \in ChunkIds(d) : es[d][i] \in Nat
    BY DEF TypeOK
  <1>3. QED BY <1>1, <1>2 DEF PgMove, EsMove

LEMMA RequestMoves ==
    ASSUME TypeOK, NEW d \in Docs,
           (\E e \in Docs : Request(e)) \/ ReindexAll \/ ReindexAllDies
    PROVE  PgMove(d) /\ \A i \in ChunkIds(d) : EsMove(d, i)
  <1>1. UNCHANGED <<wpc, task, es>>
    BY DEF Request, SaveFile, CommitRow, Dispatch, UploadDies, RemoveFile,
           DeleteRow, DeleteDies, Reindex, ReindexAllDispatch, ReindexAll,
           ReindexAllDies, indexing
  <1>2. pg'[d] = pg[d] \/ pg'[d] = 0
    BY DEF Request, SaveFile, CommitRow, Dispatch, UploadDies, RemoveFile,
           DeleteRow, DeleteDies, Reindex, ReindexAllDispatch, ReindexAll,
           ReindexAllDies, TypeOK
  <1>3. ArmedPg(d)' = ArmedPg(d)
    BY <1>1 DEF ArmedPg
  <1>4. QED BY <1>1, <1>2, <1>3, Still DEF PgMove

LEMMA WorkerMoves ==
    ASSUME TypeOK, NEW w \in Workers, WorkerStep(w) \/ Crash(w), NEW d \in Docs
    PROVE  PgMove(d) /\ \A i \in ChunkIds(d) : EsMove(d, i)
  <1>1. CASE \/ Receive(w) \/ LookupFails(w) \/ MarkIndexed(w)
             \/ MarkFailed(w) \/ MarkFailedFails(w) \/ Crash(w)
             \/ Lookup(w) \/ Convert(w) \/ StepFails(w)
    <2>1. UNCHANGED <<pg, es>>
      BY <1>1
      DEF Receive, LookupFails, MarkIndexed, MarkFailed, MarkFailedFails,
          Crash, Lookup, Convert, StepFails
    <2>2. /\ wpc' = [wpc EXCEPT ![w] = wpc'[w]]
          /\ wpc'[w] \notin {"es_delete", "embed", "pg_write", "es_write"}
          /\ \A x \in Workers \ {w} : task'[x] = task[x]
      BY <1>1
      DEF Receive, LookupFails, MarkIndexed, MarkFailed, MarkFailedFails,
          Crash, Lookup, Convert, StepFails, RetryOrGiveUp, Leave, Goto, TypeOK
    <2>3. QED BY <2>1, <2>2, Disarmed, Still
  <1>2. CASE PgDelete(w)
    <2>1. /\ ArmedPg(d)' \subseteq ArmedPg(d) \cup {x \in {w} : task[w].doc = d}
          /\ ArmedEs(d)' \subseteq ArmedEs(d)
      BY <1>2 DEF PgDelete, Goto, Outcome, ArmedPg, ArmedEs, TypeOK
    <2>2. /\ task[w].doc = d => pg'[d] = 0
          /\ task[w].doc # d => pg'[d] = pg[d]
          /\ UNCHANGED es
      BY <1>2 DEF PgDelete, TypeOK
    <2>3. QED BY <2>1, <2>2, Still DEF PgMove
  <1>3. CASE EsDelete(w)
    <2>1. /\ ArmedEs(d)' \subseteq ArmedEs(d) \cup {x \in {w} : task[w].doc = d}
          /\ ArmedPg(d)' \subseteq ArmedPg(d)
      BY <1>3 DEF EsDelete, Goto, ArmedPg, ArmedEs, TypeOK
    <2>2. /\ task[w].doc = d => \A i \in ChunkIds(d) : es'[d][i] = 0
          /\ task[w].doc # d => es'[d] = es[d]
          /\ UNCHANGED pg
      BY <1>3 DEF EsDelete, TypeOK
    <2>3. QED BY <2>1, <2>2, Still DEF EsMove
  <1>4. CASE EsDeleteFails(w)
    <2>1. /\ ArmedPg(d)' \subseteq ArmedPg(d)
          /\ ArmedEs(d)' \subseteq ArmedEs(d)
      BY <1>4, Disarmed DEF EsDeleteFails, Goto, TypeOK
    <2>2. \A i \in ChunkIds(d) : es'[d][i] = 0 \/ es'[d][i] = es[d][i]
      BY <1>4 DEF EsDeleteFails, TypeOK
    <2>3. \A i \in ChunkIds(d) : es[d][i] \in Nat
      BY DEF TypeOK
    <2>4. UNCHANGED pg
      BY <1>4 DEF EsDeleteFails
    <2>5. QED BY <2>1, <2>2, <2>3, <2>4, Still DEF EsMove
  <1>5. CASE Embed(w)
    <2>1. /\ ArmedPg(d)' \subseteq ArmedPg(d)
          /\ ArmedEs(d)' \subseteq ArmedEs(d)
      BY <1>5 DEF Embed, Goto, ArmedPg, ArmedEs, TypeOK
    <2>2. QED BY <1>5, <2>1, Still DEF Embed
  <1>6. CASE PgWrite(w)
    <2>1. /\ ArmedPg(d)' \subseteq ArmedPg(d) \ {w}
          /\ ArmedEs(d)' \subseteq ArmedEs(d)
          /\ task[w].doc = d => w \in ArmedPg(d)
      BY <1>6 DEF PgWrite, Goto, Outcome, ArmedPg, ArmedEs, TypeOK
    <2>2. /\ task[w].doc = d => pg'[d] = pg[d] + 1
          /\ task[w].doc # d => pg'[d] = pg[d]
          /\ UNCHANGED es
          /\ pg[d] \in Nat
      BY <1>6 DEF PgWrite, TypeOK
    <2>3. QED BY <2>1, <2>2, Still DEF PgMove
  <1>7. CASE EsWrite(w)
    <2>1. /\ ArmedEs(d)' \subseteq ArmedEs(d) \ {w}
          /\ ArmedPg(d)' \subseteq ArmedPg(d)
          /\ task[w].doc = d => w \in ArmedEs(d)
      BY <1>7 DEF EsWrite, Outcome, ArmedPg, ArmedEs, TypeOK
    <2>2. /\ task[w].doc = d => \A i \in ChunkIds(d) :
                                  es'[d][i] \in {es[d][i], es[d][i] + 1}
          /\ task[w].doc # d => es'[d] = es[d]
      BY <1>7 DEF EsWrite, TypeOK
    <2>3. UNCHANGED pg /\ \A i \in ChunkIds(d) : es[d][i] \in Nat
      BY <1>7 DEF EsWrite, TypeOK
    <2>4. CASE task[w].doc = d
      BY <2>1, <2>2, <2>3, <2>4, Still DEF EsMove
    <2>5. QED BY <2>1, <2>2, <2>3, <2>4, Still
  <1>8. QED
    BY <1>1, <1>2, <1>3, <1>4, <1>5, <1>6, <1>7 DEF WorkerStep

LEMMA RoomStep == TypeOK /\ Room /\ [Next]_vars => Room'
  <1> SUFFICES ASSUME TypeOK, Room, [Next]_vars, NEW d \in Docs
               PROVE  /\ pg'[d] + Cardinality(ArmedPg(d)')
                            <= Cardinality(Workers)
                      /\ \A i \in ChunkIds(d) :
                           es'[d][i] + Cardinality(ArmedEs(d)')
                             <= Cardinality(Workers)
    BY DEF Room, ChunkIds
  <1>1. PgMove(d) /\ \A i \in ChunkIds(d) : EsMove(d, i)
    <2>1. CASE UNCHANGED vars
      BY <2>1, Still DEF vars
    <2>2. QED BY <2>1, RequestMoves, WorkerMoves DEF Next
  <1>2. /\ pg[d] \in Nat /\ pg'[d] \in Nat
        /\ \A i \in ChunkIds(d) : es[d][i] \in Nat /\ es'[d][i] \in Nat
    BY NextTypeOK DEF TypeOK, ChunkIds
  <1>3. /\ ArmedPg(d) \in SUBSET Workers /\ ArmedPg(d)' \in SUBSET Workers
        /\ ArmedEs(d) \in SUBSET Workers /\ ArmedEs(d)' \in SUBSET Workers
        /\ IsFiniteSet(Workers)
    BY IndexingAssumption DEF ArmedPg, ArmedEs
  <1>4. /\ pg[d] + Cardinality(ArmedPg(d)) <= Cardinality(Workers)
        /\ \A i \in ChunkIds(d) :
             es[d][i] + Cardinality(ArmedEs(d)) <= Cardinality(Workers)
    BY DEF Room
  <1>5. pg'[d] + Cardinality(ArmedPg(d)') <= Cardinality(Workers)
    BY <1>1, <1>2, <1>3, <1>4, RoomKept DEF PgMove
  <1>6. ASSUME NEW i \in ChunkIds(d)
        PROVE  es'[d][i] + Cardinality(ArmedEs(d)') <= Cardinality(Workers)
    BY <1>1, <1>2, <1>3, <1>4, RoomKept DEF EsMove
  <1>7. QED BY <1>5, <1>6

(* However many messages, retries and crashes a document sees, no store    *)
(* holds more copies of a chunk of it than there are worker processes.     *)
THEOREM DuplicatesBounded == Spec => []CopiesBounded
  <1>1. Init => Room
    <2> SUFFICES ASSUME Init, NEW d \in Docs
                 PROVE  /\ pg[d] + Cardinality(ArmedPg(d)) <= Cardinality(Workers)
                        /\ \A i \in ChunkIds(d) :
                             es[d][i] + Cardinality(ArmedEs(d))
                               <= Cardinality(Workers)
      BY DEF Room
    <2>1. ArmedPg(d) = {} /\ ArmedEs(d) = {}
      BY DEF Init, ArmedPg, ArmedEs
    <2>2. pg[d] = 0 /\ \A i \in ChunkIds(d) : es[d][i] = 0
      BY DEF Init
    <2>3. Cardinality(Workers) \in Nat /\ Cardinality({}) = 0
      BY IndexingAssumption, FS_CardinalityType, FS_EmptySet
    <2>4. QED BY <2>1, <2>2, <2>3
  <1>2. TypeOK /\ Room => CopiesBounded
    <2> SUFFICES ASSUME TypeOK, Room, NEW d \in Docs
                 PROVE  /\ pg[d] <= Cardinality(Workers)
                        /\ \A i \in ChunkIds(d) : es[d][i] <= Cardinality(Workers)
      BY DEF CopiesBounded
    <2>1. ArmedPg(d) \subseteq Workers /\ ArmedEs(d) \subseteq Workers
      BY DEF ArmedPg, ArmedEs
    <2>2. /\ Cardinality(ArmedPg(d)) \in Nat
          /\ Cardinality(ArmedEs(d)) \in Nat
          /\ Cardinality(Workers) \in Nat
      BY <2>1, IndexingAssumption, FS_Subset, FS_CardinalityType
    <2>3. pg[d] \in Nat /\ \A i \in ChunkIds(d) : es[d][i] \in Nat
      BY DEF TypeOK
    <2>4. QED BY <2>2, <2>3 DEF Room
  <1>3. QED BY <1>1, <1>2, RoomStep, TypeCorrect, PTL DEF Spec

(***************************************************************************)
(* What "indexed" is worth                                                 *)
(*                                                                         *)
(* A run that met no other knows what it has left in the stores at each of *)
(* its steps (RunsKnow), because nobody else touches them: so what it says *)
(* when it marks the document as indexed is true.  Afterwards it stays     *)
(* true until another run has begun to change the stores, and that run     *)
(* cannot end without changing the status, or leaving a doubt (ClaimsHold).*)
(* A row cannot come into being under a run (Begun): the upload commits it *)
(* before anything is sent.                                                *)
(***************************************************************************)

Begun ==
    \A d \in Docs :
        \/ row[d] # "absent"
        \/ d \in bulk
        \/ Active(d) # {}
        \/ \E m \in Message : m.doc = d /\ queue[m] > 0
        => upload[d] \in {"committed", "done"}

Clean(w) == task[w] # NoTask /\ run_doubts[w] \subseteq {"partial_bulk"}

SoFar(w, d) ==
    /\ wpc[w] \in {"es_delete", "embed", "pg_write"} => pg[d] = 0
    /\ wpc[w] \in {"embed", "pg_write", "es_write"} =>
         NumChunks[d] # 0 /\ \A i \in ChunkIds(d) : es[d][i] = 0
    /\ wpc[w] = "es_write" => row[d] = "absent" \/ pg[d] = 1
    /\ wpc[w] = "mark_indexed" =>
         /\ row[d] = "absent" \/ pg[d] = IF NumChunks[d] = 0 THEN 0 ELSE 1
         /\ \A i \in ChunkIds(d) : es[d][i] \in {0, 1}
         /\ run_doubts[w] = {} => \A i \in ChunkIds(d) : es[d][i] = 1

RunsKnow ==
    \A w \in Workers, d \in Docs :
        Clean(w) /\ task[w].doc = d => Active(d) = {w} /\ SoFar(w, d)

Claimed(d) == row[d] = "indexed" /\ doubts[d] \subseteq {"partial_bulk"}

Truthful(d) ==
    /\ pg[d] = IF NumChunks[d] = 0 THEN 0 ELSE 1
    /\ chunk_count[d] = NumChunks[d]
    /\ \A i \in ChunkIds(d) : es[d][i] \in {0, 1}
    /\ doubts[d] = {} => \A i \in ChunkIds(d) : es[d][i] = 1

Touching ==
    {"es_delete", "embed", "pg_write", "es_write", "mark_indexed", "mark_failed"}

Touched(d) == \E w \in Active(d) : wpc[w] \in Touching

ClaimsHold == \A d \in Docs : Claimed(d) => Truthful(d) \/ Touched(d)

\* A retry is sent for the document the worker had.
LEMMA RetryQueue ==
    ASSUME TypeOK, NEW w \in Workers, wpc[w] # "idle", RetryOrGiveUp(w),
           NEW m \in Message, queue'[m] > 0
    PROVE  queue[m] > 0 \/ m.doc = task[w].doc
  BY DEF RetryOrGiveUp, TypeOK

LEMMA BegunByRequest ==
    ASSUME TypeOK, Begun, NEW d \in Docs,
           (\E e \in Docs : Request(e)) \/ ReindexAll \/ ReindexAllDies,
           \/ row'[d] # "absent"
           \/ d \in bulk'
           \/ Active(d)' # {}
           \/ \E m \in Message : m.doc = d /\ queue'[m] > 0
    PROVE  upload'[d] \in {"committed", "done"}
  <1>1. Active(d)' = Active(d)
    BY DEF Request, SaveFile, CommitRow, Dispatch, UploadDies, RemoveFile,
           DeleteRow, DeleteDies, Reindex, ReindexAllDispatch, ReindexAll,
           ReindexAllDies, indexing, Active
  <1>2. upload[d] \in {"committed", "done"} => upload'[d] \in {"committed", "done"}
    BY DEF Request, SaveFile, CommitRow, Dispatch, UploadDies, RemoveFile,
           DeleteRow, DeleteDies, Reindex, ReindexAllDispatch, ReindexAll,
           ReindexAllDies, TypeOK
  <1>3. row'[d] # "absent" => row[d] # "absent" \/ upload'[d] \in {"committed", "done"}
    BY DEF Request, SaveFile, CommitRow, Dispatch, UploadDies, RemoveFile,
           DeleteRow, DeleteDies, Reindex, ReindexAllDispatch, ReindexAll,
           ReindexAllDies, TypeOK
  <1>4. d \in bulk' => d \in bulk \/ row[d] # "absent"
    BY DEF Request, SaveFile, CommitRow, Dispatch, UploadDies, RemoveFile,
           DeleteRow, DeleteDies, Reindex, ReindexAllDispatch, ReindexAll,
           ReindexAllDies
  <1>5. ASSUME NEW m \in Message, m.doc = d, queue'[m] > 0
        PROVE  \/ queue[m] > 0
               \/ row[d] # "absent" \/ d \in bulk
               \/ upload'[d] \in {"committed", "done"}
    <2>1. CASE UNCHANGED queue
      BY <1>5, <2>1
    <2>2. ASSUME NEW e \in Docs, Dispatch(e) \/ Reindex(e) \/ ReindexAllDispatch(e),
                 Send([doc |-> e, retries |-> 0])
          PROVE  \/ queue[m] > 0
                 \/ row[d] # "absent" \/ d \in bulk
                 \/ upload'[d] \in {"committed", "done"}
      <3>1. CASE m = [doc |-> e, retries |-> 0]
        <4>1. e = d
          BY <1>5, <3>1
        <4>2. QED BY <2>2, <4>1 DEF Dispatch, Reindex, ReindexAllDispatch, TypeOK
      <3>2. CASE m # [doc |-> e, retries |-> 0]
        BY <1>5, <2>2, <3>2 DEF Send, TypeOK
      <3>3. QED BY <3>1, <3>2
    <2>3. QED
      BY <2>1, <2>2
      DEF Request, SaveFile, CommitRow, Dispatch, UploadDies, RemoveFile,
          DeleteRow, DeleteDies, Reindex, ReindexAllDispatch, ReindexAll,
          ReindexAllDies
  <1>6. QED BY <1>1, <1>2, <1>3, <1>4, <1>5 DEF Begun

LEMMA BegunByWorker ==
    ASSUME TypeOK, Begun, NEW d \in Docs, NEW w \in Workers,
           WorkerStep(w) \/ Crash(w),
           \/ row'[d] # "absent"
           \/ d \in bulk'
           \/ Active(d)' # {}
           \/ \E m \in Message : m.doc = d /\ queue'[m] > 0
    PROVE  upload'[d] \in {"committed", "done"}
  <1>1. UNCHANGED api
    BY DEF WorkerStep, Receive, Lookup, LookupFails, Convert, PgDelete, EsDelete,
           EsDeleteFails, Embed, PgWrite, EsWrite, StepFails, MarkIndexed,
           MarkFailed, MarkFailedFails, Crash
  <1>2. row'[d] # "absent" => row[d] # "absent"
    BY DEF WorkerStep, Receive, Lookup, LookupFails, Convert, PgDelete, EsDelete,
           EsDeleteFails, Embed, PgWrite, EsWrite, StepFails, MarkIndexed,
           MarkFailed, MarkFailedFails, Crash, SetStatus, TypeOK
  <1>3. CASE Receive(w)
    <2>1. PICK m \in Message : /\ queue[m] > 0
                               /\ queue' = [queue EXCEPT ![m] = @ - 1]
                               /\ task' = [task EXCEPT ![w] = m]
      BY <1>3 DEF Receive
    <2>2. Active(d)' # {} => Active(d) # {} \/ m.doc = d
      BY <2>1 DEF Active, TypeOK
    <2>3. \A n \in Message : queue'[n] > 0 => queue[n] > 0
      BY <2>1 DEF TypeOK
    <2>4. QED BY <1>1, <1>2, <2>1, <2>2, <2>3 DEF Begun, api
  <1>4. ASSUME ~Receive(w)
        PROVE  upload'[d] \in {"committed", "done"}
    <2>1. wpc[w] # "idle" /\ w \in Active(task[w].doc)
      BY <1>4
      DEF WorkerStep, Lookup, LookupFails, Convert, PgDelete, EsDelete,
          EsDeleteFails, Embed, PgWrite, EsWrite, StepFails, MarkIndexed,
          MarkFailed, MarkFailedFails, Crash, Goto, ProcessSteps, TypeOK, Active
    <2>2. Active(d)' \subseteq Active(d)
      BY <1>4
      DEF WorkerStep, Lookup, LookupFails, Convert, PgDelete, EsDelete,
          EsDeleteFails, Embed, PgWrite, EsWrite, StepFails, MarkIndexed,
          MarkFailed, MarkFailedFails, Crash, RetryOrGiveUp, Leave, TypeOK, Active
    <2>3. UNCHANGED queue \/ RetryOrGiveUp(w)
      BY <1>4
      DEF WorkerStep, Lookup, LookupFails, Convert, PgDelete, EsDelete,
          EsDeleteFails, Embed, PgWrite, EsWrite, StepFails, MarkIndexed,
          MarkFailed, MarkFailedFails, Crash
    <2>4. \A m \in Message : queue'[m] > 0 => queue[m] > 0 \/ m.doc = task[w].doc
      BY <2>1, <2>3, RetryQueue
    <2>5. QED BY <1>1, <1>2, <2>1, <2>2, <2>4 DEF Begun, api
  <1>5. QED BY <1>3, <1>4

LEMMA BegunStep == TypeOK /\ Begun /\ [Next]_vars => Begun'
  <1> SUFFICES ASSUME TypeOK, Begun, [Next]_vars, NEW d \in Docs,
                      \/ row'[d] # "absent"
                      \/ d \in bulk'
                      \/ Active(d)' # {}
                      \/ \E m \in Message : m.doc = d /\ queue'[m] > 0
               PROVE  upload'[d] \in {"committed", "done"}
    BY DEF Begun, Message
  <1>1. CASE UNCHANGED vars
    BY <1>1 DEF vars, api, Begun, Active
  <1>2. CASE Next
    BY <1>2, BegunByRequest, BegunByWorker DEF Next
  <1>3. QED BY <1>1, <1>2

\* What a step of a worker leaves alone: the document, status and run of others.
LEMMA OthersKept ==
    ASSUME TypeOK, NEW x \in Workers, WorkerStep(x) \/ Crash(x),
           NEW d \in Docs, task[x] = NoTask \/ task[x].doc # d
    PROVE  /\ row'[d] = row[d]
           /\ chunk_count'[d] = chunk_count[d]
           /\ doubts'[d] = doubts[d]
           /\ pg'[d] = pg[d]
           /\ es'[d] = es[d]
  <1>1. CASE Receive(x)
    BY <1>1 DEF Receive
  <1>2. CASE ~Receive(x)
    <2>1. task[x].doc # d /\ wpc[x] # "idle"
      BY <1>2
      DEF WorkerStep, Lookup, LookupFails, Convert, PgDelete, EsDelete,
          EsDeleteFails, Embed, PgWrite, EsWrite, StepFails, MarkIndexed,
          MarkFailed, MarkFailedFails, Crash, Goto, ProcessSteps, TypeOK
    <2>2. CASE Lookup(x) \/ LookupFails(x) \/ Convert(x) \/ Embed(x) \/ StepFails(x)
      BY <2>2 DEF Lookup, LookupFails, Convert, Embed, StepFails
    <2>3. CASE PgDelete(x) \/ PgWrite(x)
      BY <2>1, <2>3 DEF PgDelete, PgWrite, TypeOK
    <2>4. CASE EsDelete(x) \/ EsDeleteFails(x) \/ EsWrite(x)
      BY <2>1, <2>4 DEF EsDelete, EsDeleteFails, EsWrite, TypeOK
    <2>5. CASE MarkIndexed(x) \/ MarkFailed(x) \/ MarkFailedFails(x) \/ Crash(x)
      BY <2>1, <2>5
      DEF MarkIndexed, MarkFailed, MarkFailedFails, Crash, SetStatus, TypeOK
    <2>6. QED BY <1>2, <2>2, <2>3, <2>4, <2>5 DEF WorkerStep
  <1>3. QED BY <1>1, <1>2

LEMMA OthersRun ==
    ASSUME TypeOK, NEW x \in Workers, WorkerStep(x) \/ Crash(x),
           NEW w \in Workers, w # x
    PROVE  /\ wpc'[w] = wpc[w]
           /\ task'[w] = task[w]
           /\ run_doubts[w] \subseteq run_doubts'[w]
  <1>1. CASE Receive(x)
    BY <1>1 DEF Receive, Goto, TypeOK
  <1>2. CASE ~Receive(x)
    <2>1. wpc'[w] = wpc[w] /\ task'[w] = task[w]
      BY <1>2
      DEF WorkerStep, Lookup, LookupFails, Convert, PgDelete, EsDelete,
          EsDeleteFails, Embed, PgWrite, EsWrite, StepFails, MarkIndexed,
          MarkFailed, MarkFailedFails, Crash, RetryOrGiveUp, Leave, Goto, TypeOK
    <2>2. run_doubts'[w] = run_doubts[w]
      BY <1>2
      DEF WorkerStep, Lookup, LookupFails, Convert, PgDelete, EsDelete,
          EsDeleteFails, Embed, PgWrite, EsWrite, StepFails, MarkIndexed,
          MarkFailed, MarkFailedFails, Crash, RetryOrGiveUp, Leave, TypeOK
    <2>3. QED BY <2>1, <2>2
  <1>3. QED BY <1>1, <1>2

\* A run that stays without a doubt through a step of another worker is alone.
LEMMA AloneStays ==
    ASSUME TypeOK, NEW x \in Workers, WorkerStep(x) \/ Crash(x),
           NEW w \in Workers, w # x, NEW d \in Docs,
           Active(d) = {w}, Clean(w)'
    PROVE  Active(d)' = {w}
  <1>1. task[w] # NoTask /\ task[w].doc = d /\ ~(task[x] # NoTask /\ task[x].doc = d)
    BY DEF Active
  <1>2. task'[x] = NoTask \/ task'[x].doc # d
    <2>1. CASE Receive(x)
      <3>1. PICK m \in Message :
              /\ task' = [task EXCEPT ![x] = m]
              /\ run_doubts' = IF Active(m.doc) = {}
                               THEN run_doubts
                               ELSE [y \in Workers |->
                                       IF y = x \/ y \in Active(m.doc)
                                       THEN run_doubts[y] \cup {"overlap"}
                                       ELSE run_doubts[y]]
        BY <2>1 DEF Receive
      <3>2. m.doc # d
        BY <3>1 DEF Clean
      <3>3. QED BY <3>1, <3>2 DEF TypeOK
    <2>2. CASE ~Receive(x)
      <3>1. task'[x] \in {task[x], NoTask}
        BY <2>2
        DEF WorkerStep, Lookup, LookupFails, Convert, PgDelete, EsDelete,
            EsDeleteFails, Embed, PgWrite, EsWrite, StepFails, MarkIndexed,
            MarkFailed, MarkFailedFails, Crash, RetryOrGiveUp, Leave, TypeOK
      <3>2. QED BY <1>1, <3>1
    <2>3. QED BY <2>1, <2>2
  <1>3. \A y \in Workers \ {x} : task'[y] = task[y]
    BY OthersRun
  <1>4. QED BY <1>1, <1>2, <1>3 DEF Active

LEMMA KnowByRequest ==
    ASSUME TypeOK, Begun, RunsKnow,
           (\E e \in Docs : Request(e)) \/ ReindexAll \/ ReindexAllDies,
           NEW w \in Workers, NEW d \in Docs, Clean(w)', task'[w].doc = d
    PROVE  Active(d)' = {w} /\ SoFar(w, d)'
  <1>1. UNCHANGED <<wpc, task, es, run_doubts>>
    BY DEF Request, SaveFile, CommitRow, Dispatch, UploadDies, RemoveFile,
           DeleteRow, DeleteDies, Reindex, ReindexAllDispatch, ReindexAll,
           ReindexAllDies, indexing
  <1>2. Active(d) = {w} /\ SoFar(w, d)
    BY <1>1 DEF RunsKnow, Clean
  <1>3. Active(d)' = {w}
    BY <1>1, <1>2 DEF Active
  <1>4. upload[d] \in {"committed", "done"}
    BY <1>2 DEF Begun
  <1>5. \/ row'[d] = row[d] /\ pg'[d] = pg[d]
        \/ row'[d] = "absent" /\ pg'[d] = 0
    BY <1>4
    DEF Request, SaveFile, CommitRow, Dispatch, UploadDies, RemoveFile,
        DeleteRow, DeleteDies, Reindex, ReindexAllDispatch, ReindexAll,
        ReindexAllDies, TypeOK
  <1>6. SoFar(w, d)'
    BY <1>1, <1>2, <1>5 DEF SoFar
  <1>7. QED BY <1>3, <1>6

\* Its own step: each establishes what the run is to know at the next.
LEMMA KnowByOwnStep ==
    ASSUME TypeOK, RunsKnow, NEW w \in Workers, WorkerStep(w) \/ Crash(w),
           NEW d \in Docs, Clean(w)', task'[w].doc = d
    PROVE  Active(d)' = {w} /\ SoFar(w, d)'
  <1>1. CASE Receive(w)
    <2>1. PICK m \in Message :
            /\ task[w] = NoTask
            /\ task' = [task EXCEPT ![w] = m]
            /\ run_doubts' = IF Active(m.doc) = {}
                             THEN run_doubts
                             ELSE [y \in Workers |->
                                     IF y = w \/ y \in Active(m.doc)
                                     THEN run_doubts[y] \cup {"overlap"}
                                     ELSE run_doubts[y]]
      BY <1>1 DEF Receive, Goto, TypeOK
    <2>2. task'[w] = m /\ m.doc = d /\ m # NoTask
      BY <2>1, NoTaskAssumption DEF TypeOK
    <2>3. Active(d) = {}
      BY <2>1, <2>2 DEF Clean
    <2>4. Active(d)' = {w}
      BY <2>1, <2>2, <2>3 DEF Active, TypeOK
    <2>5. wpc'[w] = "lookup"
      BY <1>1 DEF Receive, Goto, TypeOK
    <2>6. QED BY <2>4, <2>5 DEF SoFar
  <1>2. CASE \/ LookupFails(w) \/ MarkIndexed(w) \/ MarkFailed(w)
             \/ MarkFailedFails(w) \/ Crash(w)
    <2>1. Leave(w)
      BY <1>2 DEF LookupFails, MarkIndexed, MarkFailed, MarkFailedFails, Crash,
                  RetryOrGiveUp
    <2>2. task'[w] = NoTask
      BY <2>1 DEF Leave, TypeOK
    <2>3. QED BY <2>2 DEF Clean
  <1>3. ASSUME \/ Lookup(w) \/ Convert(w) \/ PgDelete(w) \/ EsDelete(w)
               \/ EsDeleteFails(w) \/ Embed(w) \/ PgWrite(w) \/ EsWrite(w)
               \/ StepFails(w)
        PROVE  Active(d)' = {w} /\ SoFar(w, d)'
    <2>1. UNCHANGED task /\ run_doubts[w] \subseteq run_doubts'[w]
      <3>1. CASE EsWrite(w)
        <4>1. \/ run_doubts' = run_doubts
              \/ run_doubts' = [run_doubts EXCEPT ![w] = @ \cup {"partial_bulk"}]
          BY <3>1 DEF EsWrite
        <4>2. UNCHANGED task
          BY <3>1 DEF EsWrite
        <4>3. QED BY <4>1, <4>2 DEF TypeOK
      <3>2. CASE ~EsWrite(w)
        BY <1>3, <3>2
        DEF Lookup, Convert, PgDelete, EsDelete, EsDeleteFails, Embed, PgWrite,
            StepFails
      <3>3. QED BY <3>1, <3>2
    <2>2. Active(d) = {w} /\ SoFar(w, d)
      BY <2>1 DEF RunsKnow, Clean
    <2>3. Active(d)' = {w}
      BY <2>1, <2>2 DEF Active
    <2>4. task[w].doc = d
      BY <2>1
    <2>5. CASE Lookup(w) \/ Convert(w) \/ StepFails(w)
      <3>1. wpc'[w] \in {"convert", "pg_delete", "mark_failed"}
        BY <2>5 DEF Lookup, Convert, StepFails, Goto, TypeOK
      <3>2. QED BY <2>3, <3>1 DEF SoFar
    <2>6. CASE PgDelete(w)
      <3>1. wpc'[w] \in {"es_delete", "mark_failed"} /\ pg'[d] = 0
        BY <2>4, <2>6 DEF PgDelete, Outcome, Goto, TypeOK
      <3>2. QED BY <2>3, <3>1 DEF SoFar
    <2>7. CASE EsDelete(w)
      <3>1. /\ wpc[w] = "es_delete"
            /\ wpc'[w] = IF NumChunks[d] = 0 THEN "mark_indexed" ELSE "embed"
            /\ \A i \in ChunkIds(d) : es'[d][i] = 0
            /\ UNCHANGED <<pg, row>>
        BY <2>4, <2>7 DEF EsDelete, Goto, TypeOK
      <3>2. NumChunks[d] = 0 => ChunkIds(d) = {}
        BY IndexingAssumption DEF ChunkIds
      <3>3. pg'[d] = 0
        BY <2>2, <3>1 DEF SoFar
      <3>4. QED BY <2>3, <3>1, <3>2, <3>3 DEF SoFar, ChunkIds
    <2>8. CASE EsDeleteFails(w)
      <3>1. wpc'[w] = "mark_failed"
        BY <2>8 DEF EsDeleteFails, Goto, TypeOK
      <3>2. QED BY <2>3, <3>1 DEF SoFar
    <2>9. CASE Embed(w)
      <3>1. wpc[w] = "embed" /\ wpc'[w] = "pg_write" /\ UNCHANGED <<pg, es, row>>
        BY <2>9 DEF Embed, Goto, TypeOK
      <3>2. QED BY <2>3, <2>2, <3>1 DEF SoFar
    <2>10. CASE PgWrite(w)
      <3>1. /\ wpc[w] = "pg_write" /\ wpc'[w] \in {"es_write", "mark_failed"}
            /\ pg'[d] = pg[d] + 1
            /\ UNCHANGED <<es, row>>
        BY <2>4, <2>10 DEF PgWrite, Outcome, Goto, TypeOK
      <3>2. pg[d] = 0
        BY <2>2, <3>1 DEF SoFar
      <3>3. QED BY <2>3, <2>2, <3>1, <3>2 DEF SoFar
    <2>11. CASE EsWrite(w)
      <3>1. PICK taken \in SUBSET ChunkIds(d) :
              /\ wpc[w] = "es_write"
              /\ wpc'[w] \in {"mark_indexed", "mark_failed"}
              /\ es' = [es EXCEPT ![d] = [i \in ChunkIds(d) |->
                          IF i \in taken THEN es[d][i] + 1 ELSE es[d][i]]]
              /\ taken # ChunkIds(d) => "partial_bulk" \in run_doubts'[w]
              /\ UNCHANGED <<pg, row>>
        <4>1. PICK taken \in SUBSET ChunkIds(d), to \in Outcome("mark_indexed") :
                /\ wpc' = [wpc EXCEPT ![w] = to]
                /\ es' = [es EXCEPT ![d] = [i \in ChunkIds(d) |->
                            IF i \in taken THEN es[d][i] + 1 ELSE es[d][i]]]
                /\ run_doubts' = IF taken = ChunkIds(d) THEN run_doubts
                     ELSE [run_doubts EXCEPT ![w] = @ \cup {"partial_bulk"}]
          BY <2>4, <2>11 DEF EsWrite
        <4>2. taken # ChunkIds(d) => "partial_bulk" \in run_doubts'[w]
          BY <4>1 DEF TypeOK
        <4>3. wpc'[w] \in {"mark_indexed", "mark_failed"}
          BY <4>1 DEF Outcome, TypeOK
        <4>4. wpc[w] = "es_write" /\ UNCHANGED <<pg, row>>
          BY <2>11 DEF EsWrite
        <4>5. QED BY <4>1, <4>2, <4>3, <4>4
      <3>2. \A i \in ChunkIds(d) : es'[d][i] = IF i \in taken THEN 1 ELSE 0
        BY <2>2, <3>1 DEF SoFar, TypeOK
      <3>3. run_doubts'[w] = {} => \A i \in ChunkIds(d) : es'[d][i] = 1
        BY <3>1, <3>2
      <3>4. NumChunks[d] # 0 /\ (row'[d] = "absent" \/ pg'[d] = 1)
        BY <2>2, <3>1 DEF SoFar
      <3>5. QED BY <2>3, <3>1, <3>2, <3>3, <3>4 DEF SoFar, ChunkIds
    <2>12. QED
      BY <1>3, <2>3, <2>5, <2>6, <2>7, <2>8, <2>9, <2>10, <2>11
  <1>4. QED BY <1>1, <1>2, <1>3 DEF WorkerStep

LEMMA KnowStep == TypeOK /\ Begun /\ RunsKnow /\ [Next]_vars => RunsKnow'
  <1> SUFFICES ASSUME TypeOK, Begun, RunsKnow, [Next]_vars,
                      NEW w \in Workers, NEW d \in Docs, Clean(w)', task'[w].doc = d
               PROVE  Active(d)' = {w} /\ SoFar(w, d)'
    BY DEF RunsKnow
  <1>1. CASE UNCHANGED vars
    <2>1. UNCHANGED <<row, wpc, task, pg, es, run_doubts>>
      BY <1>1 DEF vars
    <2>2. Active(d) = {w} /\ SoFar(w, d)
      BY <2>1 DEF RunsKnow, Clean
    <2>3. QED BY <2>1, <2>2 DEF Active, SoFar
  <1>2. CASE (\E e \in Docs : Request(e)) \/ ReindexAll \/ ReindexAllDies
    BY <1>2, KnowByRequest
  <1>3. ASSUME NEW x \in Workers, WorkerStep(x) \/ Crash(x)
        PROVE  Active(d)' = {w} /\ SoFar(w, d)'
    <2>1. CASE x = w
      BY <1>3, <2>1, KnowByOwnStep
    <2>2. CASE x # w
      <3>1. /\ wpc'[w] = wpc[w] /\ task'[w] = task[w]
            /\ run_doubts[w] \subseteq run_doubts'[w]
        BY <1>3, <2>2, OthersRun
      <3>2. Active(d) = {w} /\ SoFar(w, d)
        BY <3>1 DEF RunsKnow, Clean
      <3>3. Active(d)' = {w}
        BY <1>3, <2>2, <3>2, AloneStays
      <3>4. task[x] = NoTask \/ task[x].doc # d
        BY <2>2, <3>2 DEF Active
      <3>5. row'[d] = row[d] /\ pg'[d] = pg[d] /\ es'[d] = es[d]
        BY <1>3, <3>4, OthersKept
      <3>6. SoFar(w, d)'
        BY <3>1, <3>2, <3>5 DEF SoFar
      <3>7. QED BY <3>3, <3>6
    <2>3. QED BY <2>1, <2>2
  <1>4. QED BY <1>1, <1>2, <1>3 DEF Next

LEMMA ClaimsByRequest ==
    ASSUME TypeOK, ClaimsHold,
           (\E e \in Docs : Request(e)) \/ ReindexAll \/ ReindexAllDies,
           NEW d \in Docs, Claimed(d)'
    PROVE  Truthful(d)' \/ Touched(d)'
  <1>1. UNCHANGED <<wpc, task, es, doubts>>
    BY DEF Request, SaveFile, CommitRow, Dispatch, UploadDies, RemoveFile,
           DeleteRow, DeleteDies, Reindex, ReindexAllDispatch, ReindexAll,
           ReindexAllDies, indexing
  <1>2. row'[d] = "indexed"
    BY DEF Claimed
  <1>3. row[d] = "indexed" /\ pg'[d] = pg[d] /\ chunk_count'[d] = chunk_count[d]
    BY <1>2
    DEF Request, SaveFile, CommitRow, Dispatch, UploadDies, RemoveFile,
        DeleteRow, DeleteDies, Reindex, ReindexAllDispatch, ReindexAll,
        ReindexAllDies, TypeOK
  <1>4. Claimed(d)
    BY <1>1, <1>3 DEF Claimed
  <1>5. Truthful(d) \/ Touched(d)
    BY <1>4 DEF ClaimsHold
  <1>6. Truthful(d) => Truthful(d)'
    BY <1>1, <1>3 DEF Truthful
  <1>7. Touched(d) => Touched(d)'
    BY <1>1 DEF Touched, Active
  <1>8. QED BY <1>5, <1>6, <1>7

\* A step of a worker at the document itself.
LEMMA ClaimsByOwnStep ==
    ASSUME TypeOK, RunsKnow, ClaimsHold,
           NEW x \in Workers, WorkerStep(x) \/ Crash(x),
           NEW d \in Docs, task[x] # NoTask, task[x].doc = d, Claimed(d)'
    PROVE  Truthful(d)' \/ Touched(d)'
  <1>1. row'[d] = "indexed" /\ doubts'[d] \subseteq {"partial_bulk"}
    BY DEF Claimed
  <1>2. CASE MarkIndexed(x)
    <2>1. /\ wpc[x] = "mark_indexed"
          /\ row[d] # "absent"
          /\ chunk_count'[d] = NumChunks[d]
          /\ doubts'[d] = run_doubts[x]
          /\ UNCHANGED <<pg, es>>
      BY <1>1, <1>2 DEF MarkIndexed, SetStatus, TypeOK
    <2>2. SoFar(x, d)
      BY <1>1, <2>1 DEF RunsKnow, Clean
    <2>3. QED BY <2>1, <2>2 DEF SoFar, Truthful
  <1>3. CASE MarkFailed(x)
    <2>1. row'[d] # "indexed"
      BY <1>3 DEF MarkFailed, SetStatus, TypeOK
    <2>2. QED BY <1>1, <2>1
  <1>4. CASE MarkFailedFails(x) \/ Crash(x)
    <2>1. \E doubt \in {"status_error", "crash"} :
            doubts' = [doubts EXCEPT ![d] = @ \cup {doubt}]
      BY <1>4 DEF MarkFailedFails, Crash
    <2>2. \E doubt \in {"status_error", "crash"} : doubt \in doubts'[d]
      BY <2>1 DEF TypeOK
    <2>3. QED BY <1>1, <2>2
  <1>5. ASSUME ~MarkIndexed(x), ~MarkFailed(x), ~MarkFailedFails(x), ~Crash(x)
        PROVE  Truthful(d)' \/ Touched(d)'
    <2>1. ~Receive(x)
      BY DEF Receive, Goto, TypeOK
    <2>2. UNCHANGED <<row, chunk_count, doubts>>
      BY <1>5, <2>1
      DEF WorkerStep, Lookup, LookupFails, Convert, PgDelete, EsDelete,
          EsDeleteFails, Embed, PgWrite, EsWrite, StepFails
    <2>3. Truthful(d) \/ Touched(d)
      BY <2>2 DEF ClaimsHold, Claimed
    <2>4. wpc[x] \in Touching =>
            wpc'[x] \in Touching /\ task'[x] = task[x]
      BY <1>5, <2>1
      DEF WorkerStep, Lookup, LookupFails, Convert, PgDelete, EsDelete,
          EsDeleteFails, Embed, PgWrite, EsWrite, StepFails, Goto, Outcome,
          Touching, TypeOK
    <2>5. CASE Touched(d)
      <3>1. PICK w \in Active(d) : wpc[w] \in Touching
        BY <2>5 DEF Touched
      <3>2. w \in Workers /\ task'[w] = task[w] /\ wpc'[w] \in Touching
        BY <2>4, <3>1, OthersRun DEF Active
      <3>3. QED BY <3>1, <3>2 DEF Touched, Active
    <2>6. CASE UNCHANGED <<pg, es>> /\ Truthful(d)
      BY <2>2, <2>6 DEF Truthful
    <2>7. CASE ~(UNCHANGED <<pg, es>>)
      <3>1. \/ PgDelete(x) \/ EsDelete(x) \/ EsDeleteFails(x)
            \/ PgWrite(x) \/ EsWrite(x)
        BY <1>5, <2>1, <2>7
        DEF WorkerStep, Lookup, LookupFails, Convert, Embed, StepFails
      <3>2. wpc'[x] \in Touching /\ task'[x] = task[x]
        BY <3>1
        DEF PgDelete, EsDelete, EsDeleteFails, PgWrite, EsWrite, Goto, Outcome,
            Touching, TypeOK
      <3>3. QED BY <3>2 DEF Touched, Active
    <2>8. QED BY <2>3, <2>5, <2>6, <2>7
  <1>6. QED BY <1>2, <1>3, <1>4, <1>5

LEMMA ClaimsStep ==
    TypeOK /\ RunsKnow /\ ClaimsHold /\ [Next]_vars => ClaimsHold'
  <1> SUFFICES ASSUME TypeOK, RunsKnow, ClaimsHold, [Next]_vars,
                      NEW d \in Docs, Claimed(d)'
               PROVE  Truthful(d)' \/ Touched(d)'
    BY DEF ClaimsHold
  <1>1. CASE UNCHANGED vars
    BY <1>1 DEF vars, ClaimsHold, Claimed, Truthful, Touched, Active
  <1>2. CASE (\E e \in Docs : Request(e)) \/ ReindexAll \/ ReindexAllDies
    BY <1>2, ClaimsByRequest
  <1>3. ASSUME NEW x \in Workers, WorkerStep(x) \/ Crash(x)
        PROVE  Truthful(d)' \/ Touched(d)'
    <2>1. CASE task[x] # NoTask /\ task[x].doc = d
      BY <1>3, <2>1, ClaimsByOwnStep
    <2>2. CASE ~(task[x] # NoTask /\ task[x].doc = d)
      <3>1. /\ row'[d] = row[d] /\ chunk_count'[d] = chunk_count[d]
            /\ doubts'[d] = doubts[d] /\ pg'[d] = pg[d] /\ es'[d] = es[d]
        BY <1>3, <2>2, OthersKept
      <3>2. Truthful(d) \/ Touched(d)
        BY <3>1 DEF ClaimsHold, Claimed
      <3>3. CASE Truthful(d)
        BY <3>1, <3>3 DEF Truthful
      <3>4. CASE Touched(d)
        <4>1. PICK w \in Active(d) : wpc[w] \in Touching
          BY <3>4 DEF Touched
        <4>2. w \in Workers /\ w # x
          BY <2>2, <4>1 DEF Active
        <4>3. task'[w] = task[w] /\ wpc'[w] = wpc[w]
          BY <1>3, <4>2, OthersRun
        <4>4. QED BY <4>1, <4>2, <4>3 DEF Touched, Active
      <3>5. QED BY <3>2, <3>3, <3>4
    <2>3. QED BY <2>1, <2>2
  <1>4. QED BY <1>1, <1>2, <1>3 DEF Next

(* A document that says "indexed" has its chunks in both stores, for any   *)
(* number of runs, retries, crashes, deletes and faults before: unless the *)
(* last run that said so overlapped with another, a worker crashed or a    *)
(* FAILED update was lost since, or a run is under way.                    *)
THEOREM IndexedIsTrue == Spec => []IndexedIsTruthful
  <1>1. Init => Begun /\ RunsKnow /\ ClaimsHold
    <2> SUFFICES ASSUME Init PROVE Begun /\ RunsKnow /\ ClaimsHold
      OBVIOUS
    <2>1. \A d \in Docs : Active(d) = {} /\ row[d] = "absent"
      BY DEF Init, Active
    <2>2. Begun
      BY <2>1 DEF Init, Begun
    <2>3. RunsKnow
      BY DEF Init, RunsKnow, Clean
    <2>4. ClaimsHold
      BY <2>1 DEF ClaimsHold, Claimed
    <2>5. QED BY <2>2, <2>3, <2>4
  <1>2. ClaimsHold => IndexedIsTruthful
    BY DEF ClaimsHold, Claimed, Touched, Truthful, IndexedIsTruthful
  <1>3. QED
    BY <1>1, <1>2, BegunStep, KnowStep, ClaimsStep, TypeCorrect, PTL DEF Spec

(***************************************************************************)
(* DocumentIndexing implements DocumentLife                                *)
(*                                                                         *)
(* A step changes what DocumentLife sees of one document at most: CommitRow *)
(* lists it, PgWrite fills it, PgDelete empties it, MarkIndexed and        *)
(* MarkFailed settle it, DeleteRow deletes it, and UploadDies abandons it  *)
(* when its row was never committed.                                       *)
(***************************************************************************)

listing == [d \in Docs |-> life(d)]
found == {d \in Docs : pg[d] > 0}

\* A document has no row before its upload commits one: CommitRow, the only step
\* that writes a row where there is none, is taken once.
NotListedBefore ==
    \A d \in Docs : upload[d] \in {"new", "saved"} => row[d] = "absent"

LEMMA RowsOfWorkers ==
    ASSUME TypeOK, NEW w \in Workers, WorkerStep(w) \/ Crash(w)
    PROVE  /\ UNCHANGED upload
           /\ \A d \in Docs : row[d] = "absent" <=> row'[d] = "absent"
  <1>1. UNCHANGED upload
    BY DEF WorkerStep, Receive, Lookup, LookupFails, Convert, PgDelete, EsDelete,
           EsDeleteFails, Embed, PgWrite, EsWrite, StepFails, MarkIndexed,
           MarkFailed, MarkFailedFails, Crash, api
  <1>2. CASE MarkIndexed(w) \/ MarkFailed(w)
    BY <1>1, <1>2 DEF MarkIndexed, MarkFailed, SetStatus, TypeOK
  <1>3. CASE ~MarkIndexed(w) /\ ~MarkFailed(w)
    <2>1. UNCHANGED row
      BY <1>3
      DEF WorkerStep, Receive, Lookup, LookupFails, Convert, PgDelete, EsDelete,
          EsDeleteFails, Embed, PgWrite, EsWrite, StepFails, MarkFailedFails, Crash
    <2>2. QED BY <1>1, <2>1
  <1>4. QED BY <1>2, <1>3

LEMMA NotListedStep ==
    TypeOK /\ NotListedBefore /\ [Next]_vars => NotListedBefore'
  <1> SUFFICES ASSUME TypeOK, NotListedBefore, [Next]_vars,
                      NEW d \in Docs, upload'[d] \in {"new", "saved"}
               PROVE  row'[d] = "absent"
    BY DEF NotListedBefore
  <1>1. CASE UNCHANGED vars
    BY <1>1 DEF vars, api, NotListedBefore
  <1>2. CASE ReindexAll \/ ReindexAllDies
    BY <1>2 DEF ReindexAll, ReindexAllDies, NotListedBefore
  <1>3. ASSUME NEW e \in Docs, Request(e)
        PROVE  row'[d] = "absent"
    <2>1. CASE SaveFile(e) \/ CommitRow(e) \/ Dispatch(e) \/ UploadDies(e)
      BY <2>1 DEF SaveFile, CommitRow, Dispatch, UploadDies, TypeOK, NotListedBefore
    <2>2. CASE DeleteRow(e)
      BY <2>2 DEF DeleteRow, TypeOK, NotListedBefore
    <2>3. CASE RemoveFile(e) \/ DeleteDies(e) \/ Reindex(e) \/ ReindexAllDispatch(e)
      BY <2>3 DEF RemoveFile, DeleteDies, Reindex, ReindexAllDispatch, NotListedBefore
    <2>4. QED BY <1>3, <2>1, <2>2, <2>3 DEF Request
  <1>4. ASSUME NEW w \in Workers, WorkerStep(w) \/ Crash(w)
        PROVE  row'[d] = "absent"
    BY <1>4, RowsOfWorkers DEF NotListedBefore
  <1>5. QED BY <1>1, <1>2, <1>3, <1>4 DEF Next

\* A step that leaves all documents but d alone moves d, and nothing else.
LEMMA OneMoves ==
    ASSUME NEW d \in Docs,
           \A e \in Docs \ {d} :
              row'[e] = row[e] /\ upload'[e] = upload[e] /\ pg'[e] = pg[e]
    PROVE  /\ listing' = [listing EXCEPT ![d] = life(d)']
           /\ found' \ {d} = found \ {d}
  <1>1. ASSUME NEW e \in Docs
        PROVE  listing'[e] = [listing EXCEPT ![d] = life(d)'][e]
    BY <1>1 DEF listing, life
  <1>2. listing' = [e \in Docs |-> listing'[e]]
    BY DEF listing
  <1>3. [listing EXCEPT ![d] = life(d)']
            = [e \in Docs |-> [listing EXCEPT ![d] = life(d)'][e]]
    BY DEF listing
  <1>4. QED BY <1>1, <1>2, <1>3 DEF found

LEMMA NoneMoves ==
    ASSUME \A e \in Docs :
              life(e)' = life(e) /\ (pg'[e] > 0 <=> pg[e] > 0)
    PROVE  UNCHANGED <<listing, found>>
  BY DEF listing, found

LEMMA LifeInit == Init => Life!Init
  BY DEF Init, Life!Init, life

LEMMA LifeOfRequests ==
    ASSUME TypeOK, NotListedBefore, NoPgOrphans, NEW d \in Docs, Request(d)
    PROVE  Life!Next \/ UNCHANGED <<listing, found>>
  <1> USE DEF Life!Next, Life!Move, Life!Listed
  <1>1. CASE CommitRow(d)
    <2>1. life(d) = "unlisted" /\ life(d)' = "uploaded" /\ found' = found
      BY <1>1 DEF CommitRow, TypeOK, NotListedBefore, life, found
    <2>2. listing' = [listing EXCEPT ![d] = "uploaded"]
      BY <1>1, <2>1, OneMoves DEF CommitRow, TypeOK
    <2>3. Life!List(d)
      BY <2>1, <2>2 DEF Life!List, listing, found
    <2>4. QED BY <2>3
  <1>2. CASE UploadDies(d) /\ upload[d] = "saved"
    <2>1. life(d) = "unlisted" /\ life(d)' = "gone" /\ found' = found
      BY <1>2 DEF UploadDies, TypeOK, NotListedBefore, life, found
    <2>2. listing' = [listing EXCEPT ![d] = "gone"]
      BY <1>2, <2>1, OneMoves DEF UploadDies, TypeOK
    <2>3. Life!Abandon(d)
      BY <2>1, <2>2 DEF Life!Abandon, listing, found
    <2>4. QED BY <2>3
  <1>3. CASE DeleteRow(d) /\ row[d] # "absent"
    <2>1. life(d) \in Life!Listed /\ life(d)' = "gone" /\ pg'[d] = 0
      BY <1>3 DEF DeleteRow, TypeOK, DocumentStatus, NotListedBefore, life
    <2>2. /\ listing' = [listing EXCEPT ![d] = "gone"]
          /\ found' \ {d} = found \ {d}
      BY <1>3, <2>1, OneMoves DEF DeleteRow, TypeOK
    <2>3. found' = found \ {d}
      BY <2>1, <2>2 DEF found
    <2>4. Life!Delete(d)
      BY <2>1, <2>2, <2>3 DEF Life!Delete, listing, found
    <2>5. QED BY <2>4
  <1>4. CASE \/ SaveFile(d) \/ Dispatch(d) \/ RemoveFile(d) \/ DeleteDies(d)
             \/ Reindex(d) \/ ReindexAllDispatch(d)
             \/ UploadDies(d) /\ upload[d] # "saved"
             \/ DeleteRow(d) /\ row[d] = "absent"
    <2>1. ASSUME NEW e \in Docs
          PROVE  life(e)' = life(e) /\ pg'[e] = pg[e]
      BY <1>4
      DEF SaveFile, Dispatch, RemoveFile, DeleteDies, Reindex, ReindexAllDispatch,
          UploadDies, DeleteRow, TypeOK, NotListedBefore, NoPgOrphans, life
    <2>2. QED BY <2>1, NoneMoves
  <1>5. QED BY <1>1, <1>2, <1>3, <1>4 DEF Request

LEMMA LifeOfWorkers ==
    ASSUME TypeOK, NotListedBefore, NEW w \in Workers, WorkerStep(w) \/ Crash(w)
    PROVE  Life!Next \/ UNCHANGED <<listing, found>>
  <1> USE DEF Life!Next, Life!Move, Life!Listed
  <1>1. ASSUME wpc[w] # "idle"
        PROVE  \E d \in Docs : d = task[w].doc
    BY <1>1, BusyWorker
  <1>2. CASE PgWrite(w)
    <2>1. PICK d \in Docs :
             /\ row[d] # "absent"
             /\ UNCHANGED <<row, upload>>
             /\ pg' = [pg EXCEPT ![d] = @ + 1]
      BY <1>1, <1>2 DEF PgWrite, Goto, api
    <2>2. life(d) \in Life!Listed /\ UNCHANGED listing
      BY <2>1 DEF TypeOK, DocumentStatus, life, listing
    <2>3. pg'[d] > 0 /\ found' \ {d} = found \ {d}
      BY <2>1 DEF TypeOK, found
    <2>4. found' = found \cup {d}
      BY <2>1, <2>3 DEF found
    <2>5. Life!Fill(d)
      BY <2>1, <2>2, <2>4 DEF Life!Fill, listing, found
    <2>6. QED BY <2>1, <2>5
  <1>3. CASE PgDelete(w)
    <2>1. PICK d \in Docs :
             UNCHANGED <<row, upload>> /\ pg' = [pg EXCEPT ![d] = 0]
      BY <1>1, <1>3 DEF PgDelete, Goto, api
    <2>2. UNCHANGED listing
      BY <2>1 DEF life, listing
    <2>3. found' = found \ {d}
      BY <2>1 DEF TypeOK, found
    <2>4. Life!Empty(d)
      BY <2>2, <2>3 DEF Life!Empty, listing, found
    <2>5. QED BY <2>1, <2>4
  <1>4. CASE (MarkIndexed(w) \/ MarkFailed(w)) /\ row[task[w].doc] # "absent"
    <2>1. PICK d \in Docs, to \in Life!Settled :
             row[d] # "absent" /\ row' = [row EXCEPT ![d] = to]
      BY <1>1, <1>4 DEF MarkIndexed, MarkFailed, SetStatus, Life!Settled
    <2>2. UNCHANGED <<upload, pg>>
      BY <1>4 DEF MarkIndexed, MarkFailed, api
    <2>3. life(d) \in Life!Listed /\ life(d)' = to /\ UNCHANGED found
      BY <2>1, <2>2 DEF TypeOK, DocumentStatus, life, found, Life!Settled
    <2>4. listing' = [listing EXCEPT ![d] = to]
      BY <2>1, <2>2, <2>3, OneMoves DEF TypeOK
    <2>5. Life!Settle(d)
      BY <2>2, <2>3, <2>4 DEF Life!Settle, listing, found
    <2>6. QED BY <2>2, <2>5
  <1>5. CASE /\ ~PgWrite(w) /\ ~PgDelete(w)
             /\ MarkIndexed(w) \/ MarkFailed(w) => row[task[w].doc] = "absent"
    <2>1. UNCHANGED pg
      BY <1>5
      DEF WorkerStep, Receive, Lookup, LookupFails, Convert, EsDelete,
          EsDeleteFails, Embed, EsWrite, StepFails, MarkIndexed, MarkFailed,
          MarkFailedFails, Crash
    <2>2. UNCHANGED row
      <3>1. CASE MarkIndexed(w) \/ MarkFailed(w)
        BY <1>5, <3>1 DEF MarkIndexed, MarkFailed, SetStatus, TypeOK
      <3>2. CASE ~(MarkIndexed(w) \/ MarkFailed(w))
        BY <1>5, <3>2
        DEF WorkerStep, Receive, Lookup, LookupFails, Convert, EsDelete,
            EsDeleteFails, Embed, EsWrite, StepFails, MarkFailedFails, Crash
      <3>3. QED BY <3>1, <3>2
    <2>3. UNCHANGED upload
      BY RowsOfWorkers
    <2>4. ASSUME NEW e \in Docs PROVE life(e)' = life(e)
      BY <2>2, <2>3 DEF life
    <2>5. QED BY <2>1, <2>4, NoneMoves
  <1>6. QED BY <1>2, <1>3, <1>4, <1>5

LEMMA LifeStep ==
    TypeOK /\ NotListedBefore /\ NoPgOrphans /\ [Next]_vars
        => [Life!Next]_<<listing, found>>
  <1> SUFFICES ASSUME TypeOK, NotListedBefore, NoPgOrphans, [Next]_vars
               PROVE  Life!Next \/ UNCHANGED <<listing, found>>
    OBVIOUS
  <1>1. CASE UNCHANGED vars \/ ReindexAll \/ ReindexAllDies
    <2>1. UNCHANGED <<row, upload, pg>>
      BY <1>1 DEF vars, api, ReindexAll, ReindexAllDies
    <2>2. \A e \in Docs : life(e)' = life(e)
      BY <2>1 DEF life
    <2>3. QED BY <2>1, <2>2, NoneMoves
  <1>2. CASE \E d \in Docs : Request(d)
    BY <1>2, LifeOfRequests
  <1>3. CASE \E w \in Workers : WorkerStep(w) \/ Crash(w)
    BY <1>3, LifeOfWorkers
  <1>4. QED BY <1>1, <1>2, <1>3 DEF Next

(* A document is listed once, settles as runs end, and when it is deleted  *)
(* it leaves the list and the vector search in one step and for good,      *)
(* whatever messages, retries and runs of it are still about.              *)
THEOREM DocumentsFollowTheLife == Spec => DocumentsFollowLife
  <1>1. Init => Life!Init
    BY LifeInit
  <1>2. Init => NotListedBefore
    BY DEF Init, NotListedBefore
  <1>3. Spec => []NotListedBefore
    BY <1>2, NotListedStep, TypeCorrect, PTL DEF Spec
  <1>4. TypeOK /\ NotListedBefore /\ NoPgOrphans /\ [Next]_vars
            => [Life!Next]_<<[d \in Docs |-> life(d)], {d \in Docs : pg[d] > 0}>>
    BY LifeStep DEF listing, found
  <1>5. QED
    BY <1>1, <1>3, <1>4, TypeCorrect, NoOrphans, PTL
    DEF Spec, DocumentsFollowLife, Life!Spec
=============================================================================
