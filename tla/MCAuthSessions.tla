--------------------------- MODULE MCAuthSessions ---------------------------
(***************************************************************************)
(* Model values and symmetry for the run of AuthSessions.                  *)
(***************************************************************************)
EXTENDS AuthSessions, TLC

CONSTANTS b1, b2, f1, f2

MCTabs == {b1, b2}
MCSlots == {f1, f2}
SessionSymmetry == Permutations(MCTabs) \cup Permutations(MCSlots)
=============================================================================
