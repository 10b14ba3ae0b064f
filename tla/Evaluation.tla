----------------------------- MODULE Evaluation -----------------------------
(***************************************************************************)
(* Evaluation runs: POST /api/evaluation/run (backend/app/api/evaluation.py)*)
(* stores a row and queues a task; a Celery worker (tasks/evaluation.py,   *)
(* services/evaluation/ragas.py) puts every question of the dataset to the *)
(* search API, has RAGAS judge the answers and stores the result.          *)
(*                                                                         *)
(* The message is acknowledged when a worker receives it, and the task is  *)
(* never retried.  A step is one answer of PostgreSQL, of the broker, of   *)
(* the search API or of the judge.                                         *)
(***************************************************************************)
EXTENDS Integers

CONSTANTS
    Runs,           \* the rows of evaluation_runs that may come to exist
    Workers,
    Items,          \* questions of the dataset
    Faults          \* a subset of FaultKinds

(* "broker": delay() raises.  "crash": the API process or a worker dies.   *)
(* "db": a statement or a commit fails.  "api": the search API does not    *)
(* answer, or not in JSON.  "judge": evaluate() raises.                    *)
FaultKinds == {"broker", "crash", "db", "api", "judge"}

ASSUME EvaluationAssumption ==
    /\ Items \in Nat \ {0}
    /\ Faults \subseteq FaultKinds

NoRun == "no_run"

ASSUME NoRunAssumption == NoRun \notin Runs

VARIABLES
    status,     \* status of each row; absent: there is none
    snapshot,   \* settings_snapshot is stored
    results,    \* the runs whose metrics and per_question_results are stored
    answered,   \* the questions of each stored result that got an answer
    sending,    \* rows committed by a request that has not yet called delay()
    queue,      \* the messages of the broker
    pc,         \* where each worker is in evaluate()
    job,        \* the run it works on
    asked,      \* the questions it has put to the search API
    heard,      \* those that were answered
    lost        \* history: nobody will go on with the run

rows == <<status, snapshot, results, answered>>
workers == <<pc, job, asked, heard>>
vars == <<rows, sending, queue, workers, lost>>

PCs == {"idle", "load", "snapshot", "ask", "judge", "except"}

Init ==
    /\ status = [r \in Runs |-> "absent"]
    /\ snapshot = {}
    /\ results = {}
    /\ answered = [r \in Runs |-> 0]
    /\ sending = {}
    /\ queue = {}
    /\ pc = [w \in Workers |-> "idle"]
    /\ job = [w \in Workers |-> NoRun]
    /\ asked = [w \in Workers |-> 0]
    /\ heard = [w \in Workers |-> 0]
    /\ lost = {}

-----------------------------------------------------------------------------
(***************************************************************************)
(* start_evaluation_run                                                    *)
(***************************************************************************)

\* The row is committed as pending.
Request(r) ==
    /\ status[r] = "absent"
    /\ status' = [status EXCEPT ![r] = "pending"]
    /\ sending' = sending \cup {r}
    /\ UNCHANGED <<snapshot, results, answered, queue, workers, lost>>

\* run_evaluation_task.delay
Send(r) ==
    /\ r \in sending
    /\ sending' = sending \ {r}
    /\ queue' = queue \cup {r}
    /\ UNCHANGED <<rows, workers, lost>>

\* delay() raises and the request answers 201 all the same, or the process dies.
SendFails(r) ==
    /\ r \in sending
    /\ {"broker", "crash"} \cap Faults # {}
    /\ sending' = sending \ {r}
    /\ lost' = lost \cup {r}
    /\ UNCHANGED <<rows, queue, workers>>

-----------------------------------------------------------------------------
(***************************************************************************)
(* RAGASEvaluator.evaluate                                                 *)
(***************************************************************************)

Goto(w, label) == pc' = [pc EXCEPT ![w] = label]

\* The task ends; the worker takes the next message.
Rest(w) ==
    /\ pc' = [pc EXCEPT ![w] = "idle"]
    /\ job' = [job EXCEPT ![w] = NoRun]
    /\ asked' = [asked EXCEPT ![w] = 0]
    /\ heard' = [heard EXCEPT ![w] = 0]

Receive(w, r) ==
    /\ pc[w] = "idle"
    /\ r \in queue
    /\ queue' = queue \ {r}
    /\ Goto(w, "load")
    /\ job' = [job EXCEPT ![w] = r]
    /\ UNCHANGED <<rows, sending, asked, heard, lost>>

\* _load_run, and the commit of the status running.
MarkRunning(w) ==
    /\ pc[w] = "load"
    /\ status' = [status EXCEPT ![job[w]] = "running"]
    /\ Goto(w, "snapshot")
    /\ UNCHANGED <<snapshot, results, answered, sending, queue, job, asked, heard, lost>>

\* It fails outside the try: the task fails and the row stays pending.
MarkRunningFails(w) ==
    /\ pc[w] = "load"
    /\ "db" \in Faults
    /\ lost' = lost \cup {job[w]}
    /\ Rest(w)
    /\ UNCHANGED <<rows, sending, queue>>

\* _load_dataset, and the commit of the settings (RAGSettings(), the defaults).
TakeSnapshot(w) ==
    /\ pc[w] = "snapshot"
    /\ snapshot' = snapshot \cup {job[w]}
    /\ Goto(w, "ask")
    /\ UNCHANGED <<status, results, answered, sending, queue, job, asked, heard, lost>>

\* The search API asks every caller for a token or a key (dependencies.py:18).
Answers(credentials) == IF credentials = "none" THEN 0 ELSE 1

\* _run_search sends the question and nothing else, and reads the answer out of
\* whatever JSON comes back.
Ask(w) ==
    /\ pc[w] = "ask"
    /\ asked' = [asked EXCEPT ![w] = @ + 1]
    /\ heard' = [heard EXCEPT ![w] = @ + Answers("none")]
    /\ Goto(w, IF asked[w] + 1 = Items THEN "judge" ELSE "ask")
    /\ UNCHANGED <<rows, sending, queue, job, lost>>

\* Mutant: the status is committed, and the results with the next commit.
Judge_in_two(w) ==
    /\ pc[w] = "judge"
    /\ IF status[job[w]] = "running"
       THEN /\ status' = [status EXCEPT ![job[w]] = "completed"]
            /\ UNCHANGED <<results, answered, workers>>
       ELSE /\ results' = results \cup {job[w]}
            /\ answered' = [answered EXCEPT ![job[w]] = heard[w]]
            /\ Rest(w)
            /\ UNCHANGED status
    /\ UNCHANGED <<snapshot, sending, queue, lost>>

\* evaluate() of RAGAS, and the commit of metrics, answers and status at once.
Judge(w) ==
    /\ pc[w] = "judge"
    /\ status' = [status EXCEPT ![job[w]] = "completed"]
    /\ results' = results \cup {job[w]}
    /\ answered' = [answered EXCEPT ![job[w]] = heard[w]]
    /\ Rest(w)
    /\ UNCHANGED <<snapshot, sending, queue, lost>>

\* Mutant: nobody catches it.
Raise_uncaught(w) ==
    /\ \/ pc[w] = "snapshot" /\ "db" \in Faults
       \/ pc[w] = "ask" /\ "api" \in Faults
       \/ pc[w] = "judge" /\ {"db", "judge"} \cap Faults # {}
    /\ Rest(w)
    /\ UNCHANGED <<rows, sending, queue, lost>>

\* An exception in the try.
Raise(w) ==
    /\ \/ pc[w] = "snapshot" /\ "db" \in Faults
       \/ pc[w] = "ask" /\ "api" \in Faults
       \/ pc[w] = "judge" /\ {"db", "judge"} \cap Faults # {}
    /\ Goto(w, "except")
    /\ UNCHANGED <<rows, sending, queue, job, asked, heard, lost>>

\* Mutant: the status is not committed.
MarkFailed_uncommitted(w) ==
    /\ pc[w] = "except"
    /\ Rest(w)
    /\ UNCHANGED <<rows, sending, queue, lost>>

\* The commit of the status failed.
MarkFailed(w) ==
    /\ pc[w] = "except"
    /\ status' = [status EXCEPT ![job[w]] = "failed"]
    /\ Rest(w)
    /\ UNCHANGED <<snapshot, results, answered, sending, queue, lost>>

\* The session was not rolled back after the error, or the commit fails too.
MarkFailedFails(w) ==
    /\ pc[w] = "except"
    /\ "db" \in Faults
    /\ lost' = lost \cup {job[w]}
    /\ Rest(w)
    /\ UNCHANGED <<rows, sending, queue>>

\* The worker dies; its message is acknowledged and gone.
Crash(w) ==
    /\ pc[w] # "idle"
    /\ "crash" \in Faults
    /\ lost' = lost \cup {job[w]}
    /\ Rest(w)
    /\ UNCHANGED <<rows, sending, queue>>

Work(w) ==
    \/ MarkRunning(w) \/ TakeSnapshot(w) \/ Ask(w) \/ Judge(w) \/ MarkFailed(w)

Trouble(w) ==
    \/ MarkRunningFails(w) \/ Raise(w) \/ MarkFailedFails(w) \/ Crash(w)

Next ==
    \/ \E r \in Runs : Request(r) \/ Send(r) \/ SendFails(r)
    \/ \E w \in Workers, r \in Runs : Receive(w, r)
    \/ \E w \in Workers : Work(w) \/ Trouble(w)

(* A request that was accepted goes on to delay(), the worker processes    *)
(* keep taking messages, and a task that is under way goes on.             *)
Fairness ==
    /\ \A r \in Runs : WF_vars(Send(r))
    /\ \A w \in Workers, r \in Runs : WF_vars(Receive(w, r))
    /\ \A w \in Workers : WF_vars(Work(w))

Spec == Init /\ [][Next]_vars /\ Fairness

-----------------------------------------------------------------------------
(***************************************************************************)
(* Properties                                                              *)
(***************************************************************************)

\* Every row, message and worker keeps its type.
TypeOK ==
    /\ status \in [Runs -> {"absent", "pending", "running", "completed", "failed"}]
    /\ snapshot \subseteq Runs
    /\ results \subseteq Runs
    /\ answered \in [Runs -> 0..Items]
    /\ sending \subseteq Runs
    /\ queue \subseteq Runs
    /\ pc \in [Workers -> PCs]
    /\ job \in [Workers -> Runs \cup {NoRun}]
    /\ \A w \in Workers : pc[w] # "idle" => job[w] \in Runs
    /\ asked \in [Workers -> 0..Items]
    /\ heard \in [Workers -> 0..Items]
    /\ \A w \in Workers : heard[w] <= asked[w] /\ (pc[w] = "ask" => asked[w] < Items)
    /\ lost \subseteq Runs

\* The run is in somebody's hands: a request is about to queue it, its message
\* waits, or a worker is at it.
Held(r) == r \in sending \/ r \in queue \/ \E w \in Workers : job[w] = r

\* A run that has not ended is held by exactly one of them, or it was lost to a
\* broker, a crash or a database that failed: start_evaluation_run commits before
\* it queues (evaluation.py:175) and the worker acknowledges before it works.
UnfinishedRunsAreHeld ==
    \A r \in Runs :
        /\ status[r] \in {"pending", "running"} => Held(r) \/ r \in lost
        /\ Held(r) => status[r] \in {"pending", "running"} /\ r \notin lost
        /\ r \in sending => r \notin queue
        /\ \A w \in Workers : job[w] = r =>
              /\ r \notin sending \cup queue
              /\ \A v \in Workers : job[v] = r => v = w

\* The rows only ever move as EvaluationJob says: in particular the results of a
\* run and the status completed become visible in one commit (ragas.py:108), and
\* a run that has ended never changes again.
Job == INSTANCE EvaluationJob WITH status <- status, results <- results
RunsFollowJob == Job!Spec

\* Every run that was requested ends, completed or failed, or was lost.
RunsEnd ==
    \A r \in Runs :
        status[r] = "pending" ~> status[r] \in {"completed", "failed"} \/ r \in lost

\* A completed run judged an answer of the RAG pipeline to every question.
CompletedRunsWereAnswered ==
    \A r \in Runs : status[r] = "completed" => answered[r] = Items
=============================================================================
