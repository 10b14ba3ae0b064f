---------------------------- MODULE DocumentLife ----------------------------
(***************************************************************************)
(* What the documents API promises of a document: it is listed once, a run *)
(* after a run fills and empties what the vector search finds of it and    *)
(* settles its status, and once it is gone it is neither listed nor found  *)
(* by the vector search again.  The queue, the workers, the retries and    *)
(* the requests are DocumentIndexing's business, which implements this     *)
(* specification.                                                          *)
(***************************************************************************)
CONSTANT Docs

VARIABLES
    status,     \* unlisted, uploaded, indexed, failed or gone
    findable    \* the documents the vector search finds passages of

Listed == {"uploaded", "indexed", "failed"}
Settled == {"indexed", "failed"}

Init ==
    /\ status = [d \in Docs |-> "unlisted"]
    /\ findable = {}

Move(d, to) == status' = [status EXCEPT ![d] = to]

List(d) == status[d] = "unlisted" /\ Move(d, "uploaded") /\ UNCHANGED findable
Abandon(d) == status[d] = "unlisted" /\ Move(d, "gone") /\ UNCHANGED findable
Settle(d) ==
    /\ status[d] \in Listed
    /\ \E to \in Settled : Move(d, to)
    /\ UNCHANGED findable
Fill(d) == status[d] \in Listed /\ findable' = findable \cup {d} /\ UNCHANGED status
Empty(d) == findable' = findable \ {d} /\ UNCHANGED status
Delete(d) == status[d] \in Listed /\ Move(d, "gone") /\ findable' = findable \ {d}

Next ==
    \E d \in Docs :
       List(d) \/ Abandon(d) \/ Settle(d) \/ Fill(d) \/ Empty(d) \/ Delete(d)

Spec == Init /\ [][Next]_<<status, findable>>
=============================================================================
