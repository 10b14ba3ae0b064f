----------------------------- MODULE MCAccounts -----------------------------
(***************************************************************************)
(* Model values and symmetry for the run of Accounts.                      *)
(***************************************************************************)
EXTENDS Accounts, TLC

CONSTANTS root, u1, k1, k2, r1, r2

MCUsers == {root, u1}
MCKeys == {k1, k2}
MCRequests == {r1, r2}

\* A body with one field, or with both.
MCChanges ==
    {[role |-> "user", standing |-> "same"],
     [role |-> "same", standing |-> "inactive"],
     [role |-> "admin", standing |-> "active"]}

AccountSymmetry == Permutations(MCKeys) \cup Permutations(MCRequests)
=============================================================================
