-------------------------- MODULE EvaluationProofs --------------------------
(***************************************************************************)
(* TLAPS proofs about Evaluation, for any runs, workers and faults and any *)
(* number of questions: its types, that an unfinished run is in one hand   *)
(* or lost, and that it implements EvaluationJob.                          *)
(***************************************************************************)
EXTENDS Evaluation, TLAPS

\* What each worker is at fixes the status of its run; a worker has a run just
\* when it is not idle, and has asked nothing before it asks.
WorkMatchesStatus ==
    \A w \in Workers :
        /\ pc[w] = "idle" <=> job[w] = NoRun
        /\ pc[w] = "load" => status[job[w]] = "pending"
        /\ pc[w] \notin {"idle", "load"} => status[job[w]] = "running"
        /\ pc[w] \in {"idle", "load", "snapshot"} => asked[w] = 0

\* A run that nobody has started is pending, and only requested runs get lost.
WaitingIsPending ==
    /\ \A r \in sending \cup queue : status[r] = "pending"
    /\ \A r \in lost : status[r] # "absent"

(* The inductive invariant: who holds a run and what its row says belong   *)
(* together, so neither is inductive without the other.                    *)
IInv ==
    /\ TypeOK
    /\ WorkMatchesStatus
    /\ WaitingIsPending
    /\ UnfinishedRunsAreHeld

USE NoRunAssumption

LEMMA InitIInv == Init => IInv
  BY EvaluationAssumption
  DEF Init, IInv, TypeOK, WorkMatchesStatus, WaitingIsPending,
      UnfinishedRunsAreHeld, Held, PCs

(***************************************************************************)
(* The types                                                               *)
(***************************************************************************)

LEMMA TypeStep == IInv /\ [Next]_vars => TypeOK'
  <1> SUFFICES ASSUME IInv, [Next]_vars PROVE TypeOK'
    OBVIOUS
  <1> USE EvaluationAssumption DEF IInv, TypeOK, PCs
  <1>1. ASSUME NEW r \in Runs, Request(r) \/ Send(r) \/ SendFails(r)
        PROVE  TypeOK'
    BY <1>1 DEF Request, Send, SendFails, rows, workers
  <1>2. ASSUME NEW w \in Workers, NEW r \in Runs, Receive(w, r)
        PROVE  TypeOK'
    BY <1>2 DEF Receive, Goto, rows
  <1>3. ASSUME NEW w \in Workers, MarkRunning(w) \/ TakeSnapshot(w)
        PROVE  TypeOK'
    BY <1>3 DEF MarkRunning, TakeSnapshot, Goto, WorkMatchesStatus
  <1>4. ASSUME NEW w \in Workers, Ask(w)
        PROVE  TypeOK'
    <2>1. Answers("none") = 0
      BY DEF Answers
    <2>2. /\ asked[w] + 1 \in 0..Items
          /\ heard[w] + Answers("none") \in 0..Items
          /\ asked[w] + 1 # Items => asked[w] + 1 < Items
      BY <1>4, <2>1 DEF Ask
    <2> QED
      BY <1>4, <2>1, <2>2 DEF Ask, Goto, rows
  <1>5. ASSUME NEW w \in Workers, Judge(w)
        PROVE  TypeOK'
    BY <1>5 DEF Judge, Rest
  <1>6. ASSUME NEW w \in Workers, MarkFailed(w)
        PROVE  TypeOK'
    BY <1>6 DEF MarkFailed, Rest
  <1>7. ASSUME NEW w \in Workers, Trouble(w)
        PROVE  TypeOK'
    BY <1>7 DEF Trouble, MarkRunningFails, Raise, MarkFailedFails, Crash, Rest,
                Goto, rows
  <1>8. CASE UNCHANGED vars
    BY <1>8 DEF vars, rows, workers
  <1> QED
    BY <1>1, <1>2, <1>3, <1>4, <1>5, <1>6, <1>7, <1>8 DEF Next, Work

(***************************************************************************)
(* Who holds a run                                                         *)
(***************************************************************************)

LEMMA HoldStep ==
    IInv /\ [Next]_vars
        => WorkMatchesStatus' /\ WaitingIsPending' /\ UnfinishedRunsAreHeld'
  <1> SUFFICES ASSUME IInv, [Next]_vars
               PROVE  WorkMatchesStatus' /\ WaitingIsPending' /\ UnfinishedRunsAreHeld'
    OBVIOUS
  <1> USE DEF IInv, TypeOK, PCs, WorkMatchesStatus, WaitingIsPending,
              UnfinishedRunsAreHeld, Held
  <1>1. ASSUME NEW r \in Runs, Request(r)
        PROVE  WorkMatchesStatus' /\ WaitingIsPending' /\ UnfinishedRunsAreHeld'
    BY <1>1 DEF Request, workers
  <1>2. ASSUME NEW r \in Runs, Send(r) \/ SendFails(r)
        PROVE  WorkMatchesStatus' /\ WaitingIsPending' /\ UnfinishedRunsAreHeld'
    BY <1>2 DEF Send, SendFails, rows, workers
  <1>3. ASSUME NEW w \in Workers, NEW r \in Runs, Receive(w, r)
        PROVE  WorkMatchesStatus' /\ WaitingIsPending' /\ UnfinishedRunsAreHeld'
    BY <1>3 DEF Receive, Goto, rows
  <1>4. ASSUME NEW w \in Workers, MarkRunning(w)
        PROVE  WorkMatchesStatus' /\ WaitingIsPending' /\ UnfinishedRunsAreHeld'
    BY <1>4 DEF MarkRunning, Goto
  <1>5. ASSUME NEW w \in Workers, TakeSnapshot(w) \/ Ask(w) \/ Raise(w)
        PROVE  WorkMatchesStatus' /\ WaitingIsPending' /\ UnfinishedRunsAreHeld'
    BY <1>5 DEF TakeSnapshot, Ask, Raise, Goto, rows
  <1>6. ASSUME NEW w \in Workers, Judge(w) \/ MarkFailed(w)
        PROVE  WorkMatchesStatus' /\ WaitingIsPending' /\ UnfinishedRunsAreHeld'
    BY <1>6 DEF Judge, MarkFailed, Rest
  <1>7. ASSUME NEW w \in Workers, MarkRunningFails(w) \/ MarkFailedFails(w) \/ Crash(w)
        PROVE  WorkMatchesStatus' /\ WaitingIsPending' /\ UnfinishedRunsAreHeld'
    BY <1>7 DEF MarkRunningFails, MarkFailedFails, Crash, Rest, rows
  <1>8. CASE UNCHANGED vars
    BY <1>8 DEF vars, rows, workers
  <1> QED
    BY <1>1, <1>2, <1>3, <1>4, <1>5, <1>6, <1>7, <1>8 DEF Next, Work, Trouble

LEMMA InductiveStep == IInv /\ [Next]_vars => IInv'
  BY TypeStep, HoldStep DEF IInv

LEMMA Invariance == Spec => []IInv
  BY InitIInv, InductiveStep, PTL DEF Spec

(***************************************************************************)
(* The theorems                                                            *)
(***************************************************************************)

\* Every row, message and worker keeps its type.
THEOREM TypeCorrect == Spec => []TypeOK
  BY Invariance, PTL DEF IInv

\* A run that has not ended is held by exactly one request, message or worker,
\* or a broker, a crash or a database lost it.
THEOREM RunsAreHeld == Spec => []UnfinishedRunsAreHeld
  BY Invariance, PTL DEF IInv

(***************************************************************************)
(* Evaluation implements EvaluationJob: requesting, MarkRunning, Judge and *)
(* MarkFailed are its four steps, and every other step leaves the rows     *)
(* alone as far as it can see.                                             *)
(***************************************************************************)

LEMMA JobInit == Init => Job!Init
  BY DEF Init, Job!Init

LEMMA JobStep == IInv /\ [Next]_vars => [Job!Next]_<<status, results>>
  <1> SUFFICES ASSUME IInv, [Next]_vars PROVE [Job!Next]_<<status, results>>
    OBVIOUS
  <1> USE DEF Job!Next, Job!Move
  <1>1. ASSUME NEW r \in Runs, Request(r)
        PROVE  Job!Next
    BY <1>1 DEF Request, Job!Request
  <1>2. ASSUME NEW r \in Runs, Send(r) \/ SendFails(r)
        PROVE  UNCHANGED <<status, results>>
    BY <1>2 DEF Send, SendFails, rows
  <1>3. ASSUME NEW w \in Workers, NEW r \in Runs, Receive(w, r)
        PROVE  UNCHANGED <<status, results>>
    BY <1>3 DEF Receive, rows
  <1>4. ASSUME NEW w \in Workers, pc[w] # "idle"
        PROVE  job[w] \in Runs
    BY <1>4 DEF IInv, TypeOK
  <1>5. ASSUME NEW w \in Workers, MarkRunning(w)
        PROVE  Job!Next
    BY <1>5, <1>4 DEF MarkRunning, Job!Begin, IInv, WorkMatchesStatus
  <1>6. ASSUME NEW w \in Workers, Judge(w)
        PROVE  Job!Next
    BY <1>6, <1>4 DEF Judge, Job!Complete, IInv, WorkMatchesStatus
  <1>7. ASSUME NEW w \in Workers, MarkFailed(w)
        PROVE  Job!Next
    BY <1>7, <1>4 DEF MarkFailed, Job!Fail, IInv, WorkMatchesStatus
  <1>8. ASSUME NEW w \in Workers, TakeSnapshot(w) \/ Ask(w) \/ Trouble(w)
        PROVE  UNCHANGED <<status, results>>
    BY <1>8 DEF TakeSnapshot, Ask, Trouble, MarkRunningFails, Raise,
                MarkFailedFails, Crash, rows
  <1>9. CASE UNCHANGED vars
    BY <1>9 DEF vars, rows
  <1> QED
    BY <1>1, <1>2, <1>3, <1>5, <1>6, <1>7, <1>8, <1>9 DEF Next, Work

\* Whatever fails and whoever dies, a run begins once, ends once, and shows its
\* results in the very commit that completes it.
THEOREM RunsFollowTheJob == Spec => RunsFollowJob
  <1>1. Init => Job!Init
    BY JobInit
  <1>2. IInv /\ [Next]_vars => [Job!Next]_<<status, results>>
    BY JobStep
  <1> QED
    BY <1>1, <1>2, Invariance, PTL DEF Spec, RunsFollowJob, Job!Spec
=============================================================================
