--------------------------- MODULE MCSettingsCache ---------------------------
(* Small instances of SettingsCache for TLC. *)
EXTENDS SettingsCache, TLC

CONSTANTS r1, r2

MCTwoRequests == {r1, r2}
MCOneRequest == {r1}
RequestSymmetry == Permutations({r1, r2})
=============================================================================
