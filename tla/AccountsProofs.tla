--------------------------- MODULE AccountsProofs ---------------------------
(***************************************************************************)
(* TLAPS proofs about Accounts, for any users, keys, limit and number of   *)
(* overlapping requests: the types, that an administrator remains, that    *)
(* the limit of keys holds, and that a revoked key stays revoked.          *)
(***************************************************************************)
EXTENDS Accounts, FiniteSetTheorems, TLAPS

\* What the handler of a request holds at each of its awaits.
WellFormed(r) ==
    /\ pc[r] = "touch" => key[r] \in Keys
    /\ pc[r] \in {"touch", "key_user"} => actor[r] \in Users
    /\ pc[r] \in {"ready", "commit"} =>
          /\ op[r] \in {"update", "delete", "create"} => target[r] \in Users
          /\ op[r] # "create" => actor[r] \in Users
          /\ op[r] = "revoke" => key[r] \in Keys
          /\ op[r] = "delete" => target[r] # actor[r]
          /\ op[r] = "create" => want[r].role \in Roles /\ want[r].standing = "active"
          /\ op[r] = "update" => want[r] \in Changes

RequestsWellFormed == \A r \in Requests : WellFormed(r)

\* The inductive invariant for the types and the administrators.
IInv == TypeOK /\ RequestsWellFormed /\ AdminRemains

-----------------------------------------------------------------------------
LEMMA ChangeFacts ==
    /\ Unchanged \in Change
    /\ Changes \subseteq Change
    /\ \A x \in Roles : [role |-> x, standing |-> "active"] \in Change
    /\ \A x \in Roles \cup {"none"}, y \in {"active", "inactive"} :
          [role |-> x, standing |-> y] \in Change
    /\ \A x, y : [role |-> x, standing |-> y].role = x
                 /\ [role |-> x, standing |-> y].standing = y
    /\ \A w \in Changes : /\ w.role \in Roles \cup {"same"}
                          /\ w.standing \in {"active", "inactive", "same"}
  <1>1. \A w \in Changes : w \in [role : Roles \cup {"same"},
                                  standing : {"active", "inactive", "same"}]
    BY AccountAssumption
  <1> QED
    BY <1>1 DEF Unchanged, Change, Roles

LEMMA WrittenFacts ==
    /\ \A w \in Roles \cup {"same"} : \A l, n :
          Written(w, l, n) \in Roles \cup {n}
    /\ \A w \in {"active", "inactive", "same"} : \A l, n :
          Written(w, l, n) \in {"active", "inactive", n}
    /\ \A w, l, n : Written(w, l, n) \in {w, n}
    /\ \A l, n : Written("same", l, n) = n
  BY DEF Written, Roles

LEMMA InitIInv == Init => IInv
  <1> SUFFICES ASSUME Init PROVE IInv
    OBVIOUS
  <1>1. TypeOK
    BY ChangeFacts DEF Init, TypeOK, Roles, Ops
  <1>2. RequestsWellFormed
    BY DEF Init, RequestsWellFormed, WellFormed
  <1>3. AdminRemains
    BY DEF Init, AdminRemains
  <1> QED
    BY <1>1, <1>2, <1>3 DEF IInv

-----------------------------------------------------------------------------
(***************************************************************************)
(* Types and requests                                                      *)
(***************************************************************************)

LEMMA DoneFacts ==
    ASSUME NEW r \in Requests, TypeOK, RequestsWellFormed, Done(r)
    PROVE  /\ pc' \in [Requests -> {"idle", "touch", "key_user", "ready", "commit"}]
           /\ op' \in [Requests -> Ops]
           /\ actor' \in [Requests -> Users \cup {Nobody}]
           /\ key' \in [Requests -> Keys \cup {NoKey}]
           /\ target' \in [Requests -> Users \cup {Nobody}]
           /\ want' \in [Requests -> Change]
           /\ seen' \in [Requests -> Change]
           /\ RequestsWellFormed'
  BY ChangeFacts DEF Done, TypeOK, RequestsWellFormed, WellFormed, Ops

LEMMA AsksFacts ==
    ASSUME NEW r \in Requests, NEW u \in Users, TypeOK, RequestsWellFormed, Asks(r, u)
    PROVE  TypeOK' /\ RequestsWellFormed'
  <1> USE DEF TypeOK, RequestsWellFormed, WellFormed, Ops
  <1>1. UNCHANGED <<users, keys, process, seen, history>>
    BY DEF Asks
  <1>2. actor' = [actor EXCEPT ![r] = u] /\ pc' = [pc EXCEPT ![r] = "ready"]
    BY DEF Asks
  <1>3. CASE \E t \in Users, w \in Changes :
            /\ op' = [op EXCEPT ![r] = "update"]
            /\ target' = [target EXCEPT ![r] = t]
            /\ want' = [want EXCEPT ![r] = w]
            /\ key' = [key EXCEPT ![r] = NoKey]
    BY <1>1, <1>2, <1>3, ChangeFacts DEF users, keys, history
  <1>4. CASE \E t \in Users, x \in Roles :
            /\ op' = [op EXCEPT ![r] = "create"]
            /\ target' = [target EXCEPT ![r] = t]
            /\ want' = [want EXCEPT ![r] = [role |-> x, standing |-> "active"]]
            /\ key' = [key EXCEPT ![r] = NoKey]
    BY <1>1, <1>2, <1>4, ChangeFacts DEF users, keys, history
  <1>5. CASE /\ \E t \in Deletable(u) :
                  /\ op' = [op EXCEPT ![r] = "delete"]
                  /\ target' = [target EXCEPT ![r] = t]
                  /\ key' = [key EXCEPT ![r] = NoKey]
                  /\ UNCHANGED want
    BY <1>1, <1>2, <1>5 DEF users, keys, history, Deletable
  <1>6. CASE /\ op' = [op EXCEPT ![r] = "create_key"]
             /\ key' = [key EXCEPT ![r] = NoKey]
             /\ UNCHANGED <<target, want>>
    BY <1>1, <1>2, <1>6 DEF users, keys, history
  <1>7. CASE \E k \in Keys :
            /\ op' = [op EXCEPT ![r] = "revoke"]
            /\ key' = [key EXCEPT ![r] = k]
            /\ UNCHANGED <<target, want>>
    BY <1>1, <1>2, <1>7 DEF users, keys, history
  <1> QED
    BY <1>3, <1>4, <1>5, <1>6, <1>7 DEF Asks

LEMMA TypeStep ==
    TypeOK /\ RequestsWellFormed /\ [Next]_vars => TypeOK' /\ RequestsWellFormed'
  <1> SUFFICES ASSUME TypeOK, RequestsWellFormed, [Next]_vars
               PROVE  TypeOK' /\ RequestsWellFormed'
    OBVIOUS
  <1>1. CASE Start
    <2>1. /\ role' \in [Users -> Roles \cup {"none"}]
          /\ standing' \in [Users -> {"active", "inactive"}]
          /\ \A u \in Users : role[u] # "none" => role'[u] # "none"
          /\ bootstrapped' \in BOOLEAN
      BY <1>1, AccountAssumption
      DEF Start, EnsureAdmin, EnsureAdminFails, users, TypeOK, Roles
    <2>2. process' \in {"up", "down"}
          /\ UNCHANGED <<keys, requests, self_removed, stale, crossed>>
      BY <1>1 DEF Start
    <2> QED
      BY <2>1, <2>2 DEF TypeOK, RequestsWellFormed, WellFormed, keys, requests
  <1>2. CASE Stop
    BY <1>2, ChangeFacts
    DEF Stop, TypeOK, RequestsWellFormed, WellFormed, users, keys, history, Ops
  <1>3. ASSUME NEW r \in Requests, NEW u \in Users, ByToken(r, u)
        PROVE  TypeOK' /\ RequestsWellFormed'
    BY <1>3, AsksFacts DEF ByToken
  <1>4. ASSUME NEW r \in Requests, NEW u \in Users, Signup(r, u)
        PROVE  TypeOK' /\ RequestsWellFormed'
    <2>1. [role |-> "user", standing |-> "active"] \in Change
          /\ [role |-> "user", standing |-> "active"].role \in Roles
          /\ [role |-> "user", standing |-> "active"].standing = "active"
      BY ChangeFacts DEF Roles
    <2> QED
      BY <1>4, <2>1
      DEF Signup, TypeOK, RequestsWellFormed, WellFormed, Ops, users, keys, history
  <1>5. ASSUME NEW r \in Requests, NEW k \in Keys, ByKey(r, k)
        PROVE  TypeOK' /\ RequestsWellFormed'
    BY <1>5
    DEF ByKey, TypeOK, RequestsWellFormed, WellFormed, Ops, users, keys, history
  <1>6. ASSUME NEW r \in Requests, Touch(r)
        PROVE  TypeOK' /\ RequestsWellFormed'
    BY <1>6 DEF Touch, TypeOK, RequestsWellFormed, WellFormed, users, keys, history
  <1>7. ASSUME NEW r \in Requests,
               TouchFails(r) \/ KeyUserFails(r) \/ QueryRefuses(r) \/ CommitFails(r)
        PROVE  TypeOK' /\ RequestsWellFormed'
    <2>1. Done(r) /\ UNCHANGED <<users, keys, process, history>>
      BY <1>7 DEF TouchFails, KeyUserFails, QueryRefuses, CommitFails
    <2> QED
      BY <2>1, DoneFacts DEF TypeOK, users, keys, history
  <1>8. ASSUME NEW r \in Requests, KeyUser(r)
        PROVE  TypeOK' /\ RequestsWellFormed'
    BY <1>8, AsksFacts DEF KeyUser, RequestsWellFormed, WellFormed
  <1>9. ASSUME NEW r \in Requests, Query(r)
        PROVE  TypeOK' /\ RequestsWellFormed'
    <2>1. op[r] = "update" => [role |-> role[target[r]],
                               standing |-> standing[target[r]]] \in Change
      <3>1. op[r] = "update" => /\ role[target[r]] \in Roles \cup {"none"}
                                /\ standing[target[r]] \in {"active", "inactive"}
        BY <1>9 DEF Query, TypeOK, RequestsWellFormed, WellFormed
      <3> QED
        BY <3>1, ChangeFacts
    <2>2. seen' \in [Requests -> Change] /\ crossed' \in [Users -> BOOLEAN]
      BY <1>9, <2>1 DEF Query, TypeOK
    <2> QED
      BY <1>9, <2>2 DEF Query, TypeOK, RequestsWellFormed, WellFormed, users, keys
  <1>10. ASSUME NEW r \in Requests, CommitUpdate(r)
         PROVE  TypeOK' /\ RequestsWellFormed'
    <2> DEFINE t == target[r]
    <2>1. t \in Users /\ want[r] \in Changes /\ role[t] # "none" /\ Done(r)
      BY <1>10 DEF CommitUpdate, RequestsWellFormed, WellFormed
    <2>2. /\ Written(want[r].role, seen[r].role, role[t]) \in Roles
          /\ Written(want[r].standing, seen[r].standing, standing[t])
                \in {"active", "inactive"}
      BY <2>1, ChangeFacts, WrittenFacts DEF TypeOK
    <2>3. /\ role' = [role EXCEPT ![t] = Written(want[r].role, seen[r].role, role[t])]
          /\ standing' = [standing EXCEPT ![t] =
                            Written(want[r].standing, seen[r].standing, standing[t])]
          /\ UNCHANGED <<keys, process, bootstrapped, crossed>>
          /\ self_removed' \in BOOLEAN /\ stale' \in BOOLEAN
      BY <1>10 DEF CommitUpdate, NoteStale, TypeOK
    <2>4. /\ role' \in [Users -> Roles \cup {"none"}]
          /\ standing' \in [Users -> {"active", "inactive"}]
          /\ \A u \in Users : role[u] # "none" => role'[u] # "none"
      BY <2>1, <2>2, <2>3 DEF TypeOK, Roles
    <2> QED
      BY <2>1, <2>3, <2>4, DoneFacts DEF TypeOK, keys
  <1>11. ASSUME NEW r \in Requests, CommitDelete(r)
         PROVE  TypeOK' /\ RequestsWellFormed'
    <2>1. Done(r) /\ target[r] \in Users
      BY <1>11 DEF CommitDelete, RequestsWellFormed, WellFormed
    <2>2. stale' \in BOOLEAN
      BY <1>11 DEF CommitDelete, NoteStale, TypeOK
    <2> QED
      BY <1>11, <2>1, <2>2, DoneFacts DEF CommitDelete, TypeOK
  <1>12. ASSUME NEW r \in Requests, CommitCreate(r)
         PROVE  TypeOK' /\ RequestsWellFormed'
    <2>1. Done(r) /\ target[r] \in Users /\ want[r].role \in Roles
          /\ want[r].standing = "active"
      BY <1>12 DEF CommitCreate, RequestsWellFormed, WellFormed
    <2> QED
      BY <1>12, <2>1, DoneFacts DEF CommitCreate, TypeOK, keys, history, Roles
  <1>13. ASSUME NEW r \in Requests, NEW k \in Keys, CommitKey(r, k)
         PROVE  TypeOK' /\ RequestsWellFormed'
    <2>1. Done(r) /\ actor[r] \in Users
      BY <1>13 DEF CommitKey, RequestsWellFormed, WellFormed
    <2> QED
      BY <1>13, <2>1, DoneFacts DEF CommitKey, TypeOK, users, history
  <1>14. ASSUME NEW r \in Requests, CommitRevoke(r)
         PROVE  TypeOK' /\ RequestsWellFormed'
    <2>1. Done(r) /\ key[r] \in Keys
      BY <1>14 DEF CommitRevoke, RequestsWellFormed, WellFormed
    <2> QED
      BY <1>14, <2>1, DoneFacts DEF CommitRevoke, TypeOK, users, history
  <1>15. CASE UNCHANGED vars
    BY <1>15 DEF vars, users, keys, requests, history, TypeOK, RequestsWellFormed, WellFormed
  <1> QED
    BY <1>1, <1>2, <1>3, <1>4, <1>5, <1>6, <1>7, <1>8, <1>9, <1>10, <1>11, <1>12,
       <1>13, <1>14, <1>15 DEF Next, Commit

(***************************************************************************)
(* Administrators                                                          *)
(***************************************************************************)

\* A step that leaves every administrator one, and forgets nothing.
LEMMA AdminsKept ==
    ASSUME AdminRemains,
           \A u \in Users : Admin(u) => Admin(u)',
           bootstrapped' => bootstrapped,
           self_removed => self_removed', stale => stale'
    PROVE  AdminRemains'
  BY DEF AdminRemains

LEMMA AdminStep == IInv /\ [Next]_vars => AdminRemains'
  <1> SUFFICES ASSUME IInv, [Next]_vars PROVE AdminRemains'
    OBVIOUS
  <1> USE DEF IInv
  <1>1. CASE Start
    <2>1. CASE /\ role' = [role EXCEPT ![AdminName] = "admin"]
               /\ standing' = [standing EXCEPT ![AdminName] = "active"]
      BY <2>1, AccountAssumption DEF AdminRemains, Admin, TypeOK
    <2>2. CASE UNCHANGED <<users, bootstrapped>>
      BY <1>1, <2>2 DEF Start, AdminRemains, Admin, users
    <2> QED
      BY <1>1, <2>1, <2>2 DEF Start, EnsureAdmin, EnsureAdminFails
  <1>2. ASSUME NEW r \in Requests, CommitUpdate(r)
        PROVE  AdminRemains'
    <2> DEFINE t == target[r]
    <2>1. t \in Users /\ actor[r] \in Users /\ want[r] \in Changes
      BY <1>2 DEF CommitUpdate, RequestsWellFormed, WellFormed
    <2>2. /\ role' = [role EXCEPT ![t] = Written(want[r].role, seen[r].role, role[t])]
          /\ standing' = [standing EXCEPT ![t] =
                            Written(want[r].standing, seen[r].standing, standing[t])]
          /\ stale' = (stale \/ ~Admin(actor[r]))
          /\ self_removed' = (self_removed \/ (t = actor[r] /\ (want[r].role = "user"
                                                  \/ want[r].standing = "inactive")))
          /\ UNCHANGED bootstrapped
      BY <1>2 DEF CommitUpdate, NoteStale
    <2>3. CASE ~Admin(actor[r])
      BY <2>2, <2>3 DEF AdminRemains
    <2>4. CASE Admin(actor[r]) /\ t # actor[r]
      <3>1. role'[actor[r]] = "admin" /\ standing'[actor[r]] = "active"
        BY <2>1, <2>2, <2>4 DEF Admin, TypeOK
      <3> QED
        BY <2>1, <3>1 DEF AdminRemains, Admin
    <2>5. CASE Admin(t) /\ t = actor[r] /\ (want[r].role = "user"
                                          \/ want[r].standing = "inactive")
      BY <2>2, <2>5 DEF AdminRemains
    <2>6. CASE Admin(t) /\ t = actor[r] /\ want[r].role # "user"
               /\ want[r].standing # "inactive"
      <3>1. want[r].role \in {"admin", "same"} /\ want[r].standing \in {"active", "same"}
        BY <2>1, <2>6, ChangeFacts DEF Roles
      <3>2. /\ Written(want[r].role, seen[r].role, role[t]) = "admin"
            /\ Written(want[r].standing, seen[r].standing, standing[t]) = "active"
        BY <2>6, <3>1 DEF Written, Admin
      <3>3. role'[t] = "admin" /\ standing'[t] = "active"
        BY <2>1, <2>2, <3>2 DEF TypeOK
      <3> QED
        BY <2>1, <3>3 DEF AdminRemains, Admin
    <2> QED
      BY <2>3, <2>4, <2>5, <2>6
  <1>3. ASSUME NEW r \in Requests, CommitDelete(r)
        PROVE  AdminRemains'
    <2>1. actor[r] \in Users /\ target[r] # actor[r]
      BY <1>3 DEF CommitDelete, RequestsWellFormed, WellFormed
    <2>2. CASE ~Admin(actor[r])
      BY <1>3, <2>2 DEF CommitDelete, NoteStale, AdminRemains
    <2>3. CASE Admin(actor[r])
      <3>1. role'[actor[r]] = "admin" /\ standing'[actor[r]] = "active"
        BY <1>3, <2>1, <2>3 DEF CommitDelete, Admin, TypeOK
      <3> QED
        BY <2>1, <3>1 DEF AdminRemains, Admin
    <2> QED
      BY <2>2, <2>3
  <1>4. ASSUME NEW r \in Requests, CommitCreate(r)
        PROVE  AdminRemains'
    <2>1. \A u \in Users : Admin(u) => Admin(u)'
      BY <1>4 DEF CommitCreate, Admin, TypeOK
    <2> QED
      BY <1>4, <2>1, AdminsKept DEF CommitCreate, history
  <1>5. CASE UNCHANGED <<users, bootstrapped, self_removed, stale>>
    BY <1>5, AdminsKept DEF Admin, users
  <1>6. ASSUME NEW r \in Requests,
               \/ \E u \in Users : ByToken(r, u) \/ Signup(r, u)
               \/ \E k \in Keys : ByKey(r, k) \/ CommitKey(r, k)
               \/ Touch(r) \/ TouchFails(r) \/ KeyUser(r) \/ KeyUserFails(r)
               \/ Query(r) \/ QueryRefuses(r) \/ CommitRevoke(r) \/ CommitFails(r)
        PROVE  UNCHANGED <<users, bootstrapped, self_removed, stale>>
    BY <1>6 DEF ByToken, Signup, ByKey, CommitKey, Touch, TouchFails, KeyUser, Asks,
                KeyUserFails, Query, QueryRefuses, CommitRevoke, CommitFails, history
  <1>7. Stop => UNCHANGED <<users, bootstrapped, self_removed, stale>>
    BY DEF Stop, history
  <1>8. UNCHANGED vars => UNCHANGED <<users, bootstrapped, self_removed, stale>>
    BY DEF vars, history
  <1> QED
    BY <1>1, <1>2, <1>3, <1>4, <1>5, <1>6, <1>7, <1>8 DEF Next, Commit

LEMMA Invariance == Spec => []IInv
  <1>1. IInv /\ [Next]_vars => IInv'
    BY TypeStep, AdminStep DEF IInv
  <1> QED
    BY <1>1, InitIInv, PTL DEF Spec

\* Every row, key and request keeps its type; a key always has an owner with a row.
THEOREM TypeCorrect == Spec => []TypeOK
  BY Invariance, PTL DEF IInv

\* With any number of overlapping requests: once a start has created the
\* administrator there is an active one, unless one gave up the own rights or a
\* request committed for one who had lost them.
THEOREM AdministratorRemains == Spec => []AdminRemains
  BY Invariance, PTL DEF IInv

-----------------------------------------------------------------------------
(***************************************************************************)
(* The limit of keys.  A request that has counted the keys is a key that   *)
(* may still come, so both are counted together.                           *)
(***************************************************************************)

KeysOf(u) == Cardinality(ActiveKeys(u))
ComingOf(u) == Cardinality(Creating(u))

KeyInv ==
    \A u \in Users :
        /\ KeysOf(u) + ComingOf(u) <= MaxKeys + Cardinality(Requests) - 1
        /\ ~crossed[u] => KeysOf(u) + ComingOf(u) <= MaxKeys /\ ComingOf(u) <= 1

LEMMA Counts ==
    ASSUME NEW u
    PROVE  /\ IsFiniteSet(ActiveKeys(u)) /\ KeysOf(u) \in Nat
           /\ IsFiniteSet(Creating(u)) /\ ComingOf(u) \in Nat
           /\ ComingOf(u) <= Cardinality(Requests)
           /\ Cardinality(Requests) \in Nat
           /\ Cardinality(Requests) >= 1
  <1>1. ActiveKeys(u) \subseteq Keys /\ Creating(u) \subseteq Requests
    BY DEF ActiveKeys, Creating
  <1>2. IsFiniteSet(Keys) /\ IsFiniteSet(Requests) /\ Requests # {}
    BY AccountAssumption
  <1>3. IsFiniteSet(ActiveKeys(u)) /\ IsFiniteSet(Creating(u))
        /\ Cardinality(Creating(u)) <= Cardinality(Requests)
    BY <1>1, <1>2, FS_Subset
  <1>4. Cardinality(Requests) \in Nat /\ Cardinality(Requests) # 0
    BY <1>2, FS_CardinalityType, FS_EmptySet
  <1> QED
    BY <1>3, <1>4, FS_CardinalityType DEF KeysOf, ComingOf

LEMMA CountsNext ==
    ASSUME NEW u
    PROVE  /\ IsFiniteSet(ActiveKeys(u)') /\ KeysOf(u)' \in Nat
           /\ IsFiniteSet(Creating(u)') /\ ComingOf(u)' \in Nat
           /\ ComingOf(u)' <= Cardinality(Requests)
  <1>1. ActiveKeys(u)' \subseteq Keys /\ Creating(u)' \subseteq Requests
    BY DEF ActiveKeys, Creating
  <1>2. IsFiniteSet(Keys) /\ IsFiniteSet(Requests)
    BY AccountAssumption
  <1>3. IsFiniteSet(ActiveKeys(u)') /\ IsFiniteSet(Creating(u)')
        /\ Cardinality(Creating(u)') <= Cardinality(Requests)
    BY <1>1, <1>2, FS_Subset
  <1> QED
    BY <1>3, FS_CardinalityType DEF KeysOf, ComingOf

\* A user whose keys and coming keys become no more is no nearer to the limit.
LEMMA Fewer ==
    ASSUME NEW u \in Users, KeyInv,
           ActiveKeys(u)' \subseteq ActiveKeys(u),
           Creating(u)' \subseteq Creating(u)
    PROVE  /\ KeysOf(u)' + ComingOf(u)' <= KeysOf(u) + ComingOf(u)
           /\ ComingOf(u)' <= ComingOf(u)
  <1>1. KeysOf(u)' <= KeysOf(u) /\ ComingOf(u)' <= ComingOf(u)
    BY Counts, FS_Subset DEF KeysOf, ComingOf
  <1> QED
    BY <1>1, Counts, CountsNext

LEMMA FewerKeepsInv ==
    ASSUME KeyInv,
           \A u \in Users : /\ ActiveKeys(u)' \subseteq ActiveKeys(u)
                            /\ Creating(u)' \subseteq Creating(u)
                            /\ crossed[u] => crossed'[u]
    PROVE  KeyInv'
  <1> SUFFICES ASSUME NEW u \in Users
               PROVE  /\ KeysOf(u)' + ComingOf(u)' <= MaxKeys + Cardinality(Requests) - 1
                      /\ ~crossed'[u] => KeysOf(u)' + ComingOf(u)' <= MaxKeys
                                          /\ ComingOf(u)' <= 1
    BY DEF KeyInv
  <1>1. /\ KeysOf(u)' + ComingOf(u)' <= KeysOf(u) + ComingOf(u)
        /\ ComingOf(u)' <= ComingOf(u)
    BY Fewer
  <1> QED
    BY <1>1, Counts, CountsNext, AccountAssumption DEF KeyInv

LEMMA InitKeyInv == Init => KeyInv
  <1> SUFFICES ASSUME Init, NEW u \in Users
               PROVE  KeysOf(u) + ComingOf(u) <= MaxKeys + Cardinality(Requests) - 1
                      /\ KeysOf(u) + ComingOf(u) <= MaxKeys /\ ComingOf(u) <= 1
    BY DEF KeyInv
  <1>1. ActiveKeys(u) = {} /\ Creating(u) = {}
    BY DEF Init, ActiveKeys, Creating
  <1>2. KeysOf(u) = 0 /\ ComingOf(u) = 0
    BY <1>1, FS_EmptySet DEF KeysOf, ComingOf
  <1> QED
    BY <1>2, Counts, AccountAssumption

\* Query is where a key begins to come: fewer than MaxKeys are there.
LEMMA QueryKeyInv ==
    ASSUME TypeOK, RequestsWellFormed, KeyInv, NEW r \in Requests, Query(r)
    PROVE  KeyInv'
  <1>1. /\ pc[r] = "ready" /\ QueryPasses(r)
        /\ pc' = [pc EXCEPT ![r] = "commit"]
        /\ crossed' = IF op[r] = "create_key" /\ Creating(actor[r]) # {}
                      THEN [crossed EXCEPT ![actor[r]] = TRUE]
                      ELSE crossed
        /\ UNCHANGED <<owner, key_state, op, actor>>
    BY DEF Query, keys
  <1>2. \A u \in Users : ActiveKeys(u)' = ActiveKeys(u) /\ (crossed[u] => crossed'[u])
    BY <1>1 DEF ActiveKeys, TypeOK
  <1>3. CASE op[r] # "create_key"
    <2>1. \A u \in Users : Creating(u)' \subseteq Creating(u)
      BY <1>1, <1>3 DEF Creating, TypeOK
    <2> QED
      BY <1>2, <2>1, FewerKeepsInv
  <1>4. CASE op[r] = "create_key"
    <2>0. actor[r] \in Users
      BY <1>1, <1>4 DEF RequestsWellFormed, WellFormed
    <2> PICK v \in Users : v = actor[r]
      BY <2>0
    <2>1. KeysOf(v) < MaxKeys
      BY <1>1, <1>4 DEF QueryPasses, UnderLimit, KeysOf
    <2>2. /\ Creating(v)' = Creating(v) \cup {r}
          /\ r \notin Creating(v)
          /\ \A u \in Users : u # v => Creating(u)' = Creating(u)
      BY <1>1, <1>4 DEF Creating, TypeOK
    <2>3. ComingOf(v)' = ComingOf(v) + 1 /\ KeysOf(v)' = KeysOf(v)
      BY <1>2, <2>1, <2>2, Counts, FS_AddElement DEF ComingOf, KeysOf
    <2>4. crossed'[v] \/ ComingOf(v) = 0
      <3>1. CASE Creating(v) # {}
        BY <1>1, <1>4, <2>1, <3>1 DEF TypeOK
      <3>2. CASE Creating(v) = {}
        BY <3>2, FS_EmptySet DEF ComingOf
      <3> QED
        BY <3>1, <3>2
    <2> SUFFICES ASSUME NEW u \in Users
                 PROVE  /\ KeysOf(u)' + ComingOf(u)' <= MaxKeys + Cardinality(Requests) - 1
                        /\ ~crossed'[u] => KeysOf(u)' + ComingOf(u)' <= MaxKeys
                                            /\ ComingOf(u)' <= 1
      BY DEF KeyInv
    <2>5. CASE u = v
      <3>1. /\ KeysOf(v) \in Nat /\ ComingOf(v) \in Nat
            /\ ComingOf(v)' <= Cardinality(Requests)
            /\ Cardinality(Requests) \in Nat /\ MaxKeys \in Nat
        BY Counts, CountsNext, AccountAssumption
      <3>2. KeysOf(v)' + ComingOf(v)' <= MaxKeys + Cardinality(Requests) - 1
        BY <2>1, <2>3, <3>1
      <3>3. ~crossed'[v] => KeysOf(v)' + ComingOf(v)' <= MaxKeys /\ ComingOf(v)' <= 1
        BY <2>1, <2>3, <2>4, <3>1
      <3> QED
        BY <2>5, <3>2, <3>3
    <2>6. CASE u # v
      <3>1. KeysOf(u)' = KeysOf(u) /\ ComingOf(u)' = ComingOf(u)
            /\ (crossed[u] => crossed'[u])
        BY <1>2, <2>2, <2>6 DEF KeysOf, ComingOf
      <3> QED
        BY <3>1 DEF KeyInv
    <2> QED
      BY <2>5, <2>6
  <1> QED
    BY <1>3, <1>4

\* CommitKey turns a coming key into one that is there.
LEMMA CommitKeyInv ==
    ASSUME TypeOK, RequestsWellFormed, KeyInv,
           NEW r \in Requests, NEW k \in Keys, CommitKey(r, k)
    PROVE  KeyInv'
  <1>0. actor[r] \in Users
    BY DEF CommitKey, RequestsWellFormed, WellFormed
  <1> PICK v \in Users : v = actor[r]
    BY <1>0
  <1>1. /\ pc[r] = "commit" /\ op[r] = "create_key" /\ key_state[k] = "none"
        /\ owner' = [owner EXCEPT ![k] = v]
        /\ key_state' = [key_state EXCEPT ![k] = "active"]
        /\ pc' = [pc EXCEPT ![r] = "idle"]
        /\ op' = [op EXCEPT ![r] = "update"]
        /\ actor' = [actor EXCEPT ![r] = Nobody]
        /\ crossed' = crossed
    BY DEF CommitKey, Done, history
  <1>2. /\ ActiveKeys(v)' = ActiveKeys(v) \cup {k} /\ k \notin ActiveKeys(v)
        /\ \A u \in Users : u # v => ActiveKeys(u)' \subseteq ActiveKeys(u)
    BY <1>1 DEF ActiveKeys, TypeOK
  <1>3. /\ Creating(v)' = Creating(v) \ {r} /\ r \in Creating(v)
        /\ \A u \in Users : u # v => Creating(u)' \subseteq Creating(u)
    BY <1>1 DEF Creating, TypeOK
  <1>4. KeysOf(v)' = KeysOf(v) + 1
    BY <1>2, Counts, FS_AddElement DEF KeysOf
  <1>5. ComingOf(v)' = ComingOf(v) - 1
    BY <1>3, Counts, FS_RemoveElement DEF ComingOf
  <1>6. KeysOf(v)' + ComingOf(v)' = KeysOf(v) + ComingOf(v)
        /\ (ComingOf(v) <= 1 => ComingOf(v)' <= 1)
    BY <1>4, <1>5, Counts
  <1> SUFFICES ASSUME NEW u \in Users
               PROVE  /\ KeysOf(u)' + ComingOf(u)' <= MaxKeys + Cardinality(Requests) - 1
                      /\ ~crossed'[u] => KeysOf(u)' + ComingOf(u)' <= MaxKeys
                                          /\ ComingOf(u)' <= 1
    BY DEF KeyInv
  <1>7. CASE u = v
    BY <1>1, <1>6, <1>7 DEF KeyInv
  <1>8. CASE u # v
    <2>1. /\ KeysOf(u)' + ComingOf(u)' <= KeysOf(u) + ComingOf(u)
          /\ ComingOf(u)' <= ComingOf(u)
      BY <1>2, <1>3, <1>8, Fewer
    <2> QED
      BY <1>1, <2>1, Counts, CountsNext, AccountAssumption DEF KeyInv
  <1> QED
    BY <1>7, <1>8

\* A request that is over, or not at its commit, brings no key.
LEMMA DoneCreates ==
    ASSUME TypeOK, NEW r \in Requests, Done(r), NEW u \in Users
    PROVE  Creating(u)' \subseteq Creating(u)
  BY DEF Done, Creating, TypeOK

LEMMA KeyStep == TypeOK /\ RequestsWellFormed /\ KeyInv /\ [Next]_vars => KeyInv'
  <1> SUFFICES ASSUME TypeOK, RequestsWellFormed, KeyInv, [Next]_vars PROVE KeyInv'
    OBVIOUS
  <1>1. CASE Start
    BY <1>1, FewerKeepsInv DEF Start, keys, requests, ActiveKeys, Creating
  <1>2. CASE Stop
    <2>1. \A u \in Users : Creating(u)' \subseteq Creating(u)
      BY <1>2 DEF Stop, Creating, TypeOK
    <2> QED
      BY <1>2, <2>1, FewerKeepsInv DEF Stop, keys, history, ActiveKeys
  <1>3. ASSUME NEW r \in Requests,
               \/ \E u \in Users : ByToken(r, u) \/ Signup(r, u)
               \/ \E k \in Keys : ByKey(r, k)
               \/ Touch(r) \/ KeyUser(r)
        PROVE  KeyInv'
    <2>1. \A u \in Users : Creating(u)' \subseteq Creating(u)
      BY <1>3 DEF ByToken, Signup, ByKey, Touch, KeyUser, Asks, Creating, TypeOK, Idle
    <2>2. UNCHANGED <<keys, crossed>>
      BY <1>3 DEF ByToken, Signup, ByKey, Touch, KeyUser, Asks, keys, history
    <2> QED
      BY <2>1, <2>2, FewerKeepsInv DEF keys, ActiveKeys
  <1>4. ASSUME NEW r \in Requests, Query(r)
        PROVE  KeyInv'
    BY <1>4, QueryKeyInv
  <1>5. ASSUME NEW r \in Requests,
               \/ TouchFails(r) \/ KeyUserFails(r) \/ QueryRefuses(r)
               \/ CommitUpdate(r) \/ CommitCreate(r) \/ CommitFails(r)
        PROVE  KeyInv'
    <2>1. Done(r) /\ UNCHANGED <<keys, crossed>>
      BY <1>5 DEF TouchFails, KeyUserFails, QueryRefuses, CommitUpdate, CommitCreate,
                  CommitFails, history
    <2> QED
      BY <2>1, DoneCreates, FewerKeepsInv DEF keys, ActiveKeys
  <1>6. ASSUME NEW r \in Requests, CommitDelete(r) \/ CommitRevoke(r)
        PROVE  KeyInv'
    <2>1. Done(r) /\ UNCHANGED crossed
      BY <1>6 DEF CommitDelete, CommitRevoke, history
    <2>2. \A u \in Users : ActiveKeys(u)' \subseteq ActiveKeys(u)
      <3>1. CASE CommitDelete(r)
        BY <3>1 DEF CommitDelete, ActiveKeys, TypeOK
      <3>2. CASE CommitRevoke(r)
        BY <3>2 DEF CommitRevoke, ActiveKeys, TypeOK
      <3> QED
        BY <1>6, <3>1, <3>2
    <2> QED
      BY <2>1, <2>2, DoneCreates, FewerKeepsInv
  <1>7. ASSUME NEW r \in Requests, NEW k \in Keys, CommitKey(r, k)
        PROVE  KeyInv'
    BY <1>7, CommitKeyInv
  <1>8. CASE UNCHANGED vars
    BY <1>8, FewerKeepsInv DEF vars, keys, requests, history, ActiveKeys, Creating
  <1> QED
    BY <1>1, <1>2, <1>3, <1>4, <1>5, <1>6, <1>7, <1>8 DEF Next, Commit

LEMMA KeyInvImpliesLimit == TypeOK /\ KeyInv => KeyLimit
  <1> SUFFICES ASSUME TypeOK, KeyInv, NEW u \in Users
               PROVE  /\ ~crossed[u] => KeysOf(u) <= MaxKeys
                      /\ KeysOf(u) <= MaxKeys + Cardinality(Requests) - 1
    BY DEF KeyLimit, KeysOf
  <1> QED
    BY Counts, AccountAssumption DEF KeyInv

\* For any limit and any number of overlapping requests: a user whose creations
\* never overlapped has at most MaxKeys active keys, and nobody ever has more than
\* one more for every other request.
THEOREM KeysAreLimited == Spec => []KeyLimit
  <1>1. TypeOK /\ RequestsWellFormed /\ KeyInv /\ [Next]_vars => KeyInv'
    BY KeyStep
  <1>2. Init => KeyInv
    BY InitKeyInv
  <1>3. IInv => TypeOK /\ RequestsWellFormed
    BY DEF IInv
  <1> QED
    BY <1>1, <1>2, <1>3, Invariance, KeyInvImpliesLimit, PTL DEF Spec

-----------------------------------------------------------------------------
LEMMA RevokedStep ==
    TypeOK /\ [Next]_vars =>
        [\A k \in Keys : key_state[k] = "revoked"
                           => key_state'[k] \in {"revoked", "none"}]_vars
  <1> SUFFICES ASSUME TypeOK, [Next]_vars, NEW k \in Keys, key_state[k] = "revoked"
               PROVE  key_state'[k] \in {"revoked", "none"}
    OBVIOUS
  <1>1. CASE Start \/ Stop
    BY <1>1 DEF Start, Stop, keys
  <1>2. ASSUME NEW r \in Requests,
               \/ \E u \in Users : ByToken(r, u) \/ Signup(r, u)
               \/ \E j \in Keys : ByKey(r, j)
               \/ Touch(r) \/ TouchFails(r) \/ KeyUser(r) \/ KeyUserFails(r)
               \/ Query(r) \/ QueryRefuses(r)
               \/ CommitUpdate(r) \/ CommitCreate(r) \/ CommitFails(r)
        PROVE  UNCHANGED key_state
    BY <1>2 DEF ByToken, Signup, ByKey, Touch, TouchFails, KeyUser, KeyUserFails, Asks,
                Query, QueryRefuses, CommitUpdate, CommitCreate, CommitFails, keys
  <1>3. ASSUME NEW r \in Requests, CommitDelete(r) \/ CommitRevoke(r)
        PROVE  key_state'[k] \in {"revoked", "none"}
    BY <1>3 DEF CommitDelete, CommitRevoke, TypeOK
  <1>4. ASSUME NEW r \in Requests, NEW j \in Keys, CommitKey(r, j)
        PROVE  key_state'[k] \in {"revoked", "none"}
    BY <1>4 DEF CommitKey, TypeOK
  <1>5. CASE UNCHANGED vars
    BY <1>5 DEF vars, keys
  <1> QED
    BY <1>1, <1>2, <1>3, <1>4, <1>5 DEF Next, Commit

\* No request, whatever it loaded before the revocation, makes a revoked key
\* active again.
THEOREM RevocationIsFinal == Spec => RevokedStaysRevoked
  <1>1. TypeOK /\ [Next]_vars =>
          [\A k \in Keys : key_state[k] = "revoked"
                             => key_state'[k] \in {"revoked", "none"}]_vars
    BY RevokedStep
  <1> QED
    BY <1>1, TypeCorrect, PTL DEF Spec, RevokedStaysRevoked
=============================================================================
