---------------------------- MODULE MCSearchCache ----------------------------
(* Small instances of SearchCache for TLC. *)
EXTENDS SearchCache, TLC

CONSTANTS r1, r2, k1, k2

MCRequests == {r1, r2}
MCKeys == {k1, k2}
RequestKeySymmetry == Permutations(MCRequests) \cup Permutations(MCKeys)
=============================================================================
