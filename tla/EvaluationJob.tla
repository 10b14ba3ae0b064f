---------------------------- MODULE EvaluationJob ----------------------------
(***************************************************************************)
(* What GET /api/evaluation/runs promises of a run: it is requested, it    *)
(* runs once, and it ends once, completed with its results or failed       *)
(* without any.  How it gets there is Evaluation's business, which         *)
(* implements this specification.                                          *)
(***************************************************************************)
CONSTANT Runs

VARIABLES
    status,     \* absent, pending, running, completed or failed
    results     \* the runs whose metrics and answers are stored

Init ==
    /\ status = [r \in Runs |-> "absent"]
    /\ results = {}

Move(r, from, to) ==
    /\ status[r] = from
    /\ status' = [status EXCEPT ![r] = to]

Request(r) == Move(r, "absent", "pending") /\ UNCHANGED results
Begin(r) == Move(r, "pending", "running") /\ UNCHANGED results
Complete(r) == Move(r, "running", "completed") /\ results' = results \cup {r}
Fail(r) == Move(r, "running", "failed") /\ UNCHANGED results

Next == \E r \in Runs : Request(r) \/ Begin(r) \/ Complete(r) \/ Fail(r)

Spec == Init /\ [][Next]_<<status, results>>
=============================================================================
