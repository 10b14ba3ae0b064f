---------------------------- MODULE MCAlgorithms ----------------------------
(***************************************************************************)
(* Model values and definitions for the run of Algorithms.                 *)
(***************************************************************************)
EXTENDS Algorithms

CONSTANTS c1, c2, d1

MCChunk == {c1, c2}
MCDocument == {d1}
MCDocumentOf == [c \in MCChunk |-> d1]
MCNumbers == {Unreadable, 0, 5, 9, Perfect}
MCThresholds == {0, 5, 8, Perfect, Perfect + 2}
=============================================================================
