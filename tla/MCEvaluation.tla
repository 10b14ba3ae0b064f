---------------------------- MODULE MCEvaluation ----------------------------
(***************************************************************************)
(* Model values for the runs of Evaluation.                                *)
(***************************************************************************)
EXTENDS Evaluation

CONSTANTS e1, e2, e3, w1, w2

MCRuns == {e1, e2, e3}
MCWorkers == {w1, w2}
=============================================================================
