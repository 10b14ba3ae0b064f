------------------------------ MODULE Accounts ------------------------------
(***************************************************************************)
(* Users, administrators and API keys: backend/app/api/admin.py and        *)
(* api/keys.py, signup (api/auth.py), the check of an API key              *)
(* (services/apikey.py, dependencies.py), and what the process does with   *)
(* the users when it starts and stops (main.py).                           *)
(*                                                                         *)
(* A request is a coroutine: it is authorised, reads what its handler      *)
(* looks at, and commits; other requests run at each await in between.  A  *)
(* user is named by the unique username, a key by its hash; a row that is  *)
(* deleted and created again counts as the same one.                       *)
(***************************************************************************)
EXTENDS Integers, FiniteSets

CONSTANTS
    Users,
    Keys,
    Requests,       \* the coroutines that may be serving a request
    AdminName,      \* admin_username of the environment
    MaxKeys,        \* MAX_KEYS_PER_USER
    Changes         \* the bodies of PUT /admin/users

Roles == {"admin", "user"}

\* A body, or a row as it was loaded; "same": the field is not in the body.
Change == [role : Roles \cup {"same", "none"}, standing : {"active", "inactive", "same"}]

ASSUME AccountAssumption ==
    /\ AdminName \in Users
    /\ Changes \subseteq [role : Roles \cup {"same"},
                          standing : {"active", "inactive", "same"}]
    /\ IsFiniteSet(Requests) /\ IsFiniteSet(Keys)
    /\ Requests # {}
    /\ MaxKeys \in Nat \ {0}

Nobody == "nobody"
NoKey == "no_key"

Ops == {"update", "delete", "create", "create_key", "revoke"}

VARIABLES
    role,       \* the role in each row of users; "none": there is no row
    standing,   \* is_active of each row
    owner,      \* user_id of each key
    key_state,  \* none: no row; active; revoked.  (A key past its expires_at
                \* stays active and counts: it is one that is not used.)
    process,    \* the API process is up or down
    pc,         \* the await each request is at
    op,         \* its handler
    actor,      \* the user it is authorised as
    key,        \* the API key it came with, or the key it is about
    target,     \* the user it is about
    want,       \* the role and is_active it asks for; "same": not in the body
    seen,       \* the row of the target as the handler loaded it
    bootstrapped,   \* history: a start-up created the administrator
    self_removed,   \* history: an administrator gave up the own rights
    stale,          \* history: a request committed for one who had lost them
    crossed         \* history, by user: two creations of a key overlapped

users == <<role, standing>>
keys == <<owner, key_state>>
requests == <<pc, op, actor, key, target, want, seen>>
history == <<bootstrapped, self_removed, stale, crossed>>
vars == <<users, keys, process, requests, history>>

Unchanged == [role |-> "same", standing |-> "same"]

Admin(u) == role[u] = "admin" /\ standing[u] = "active"
ActiveKeys(u) == {k \in Keys : owner[k] = u /\ key_state[k] = "active"}

\* The requests of u that have counted the keys and not yet inserted one.
Creating(u) == {r \in Requests : pc[r] = "commit" /\ op[r] = "create_key" /\ actor[r] = u}

Idle(r) == pc[r] = "idle"

Init ==
    /\ role = [u \in Users |-> "none"]
    /\ standing = [u \in Users |-> "inactive"]
    /\ owner = [k \in Keys |-> Nobody]
    /\ key_state = [k \in Keys |-> "none"]
    /\ process = "down"
    /\ pc = [r \in Requests |-> "idle"]
    /\ op = [r \in Requests |-> "update"]
    /\ actor = [r \in Requests |-> Nobody]
    /\ key = [r \in Requests |-> NoKey]
    /\ target = [r \in Requests |-> Nobody]
    /\ want = [r \in Requests |-> Unchanged]
    /\ seen = [r \in Requests |-> Unchanged]
    /\ bootstrapped = FALSE
    /\ self_removed = FALSE
    /\ stale = FALSE
    /\ crossed = [u \in Users |-> FALSE]

-----------------------------------------------------------------------------
(***************************************************************************)
(* Start and stop of the process (main.py, lifespan)                       *)
(***************************************************************************)

\* _ensure_admin_user: only an empty table gets an administrator.
EnsureAdmin ==
    IF \A u \in Users : role[u] = "none"
    THEN /\ role' = [role EXCEPT ![AdminName] = "admin"]
         /\ standing' = [standing EXCEPT ![AdminName] = "active"]
         /\ bootstrapped' = TRUE
    ELSE UNCHANGED <<users, bootstrapped>>

\* The password is too weak or PostgreSQL does not answer: a warning is logged
\* and the start goes on.
EnsureAdminFails == UNCHANGED <<users, bootstrapped>>

Start ==
    /\ process = "down"
    /\ EnsureAdmin \/ EnsureAdminFails
    /\ process' = "up"
    /\ UNCHANGED <<keys, requests, self_removed, stale, crossed>>

\* A shutdown that has waited for its requests, or a crash that has not.
Stop ==
    /\ process = "up"
    /\ process' = "down"
    /\ pc' = [r \in Requests |-> "idle"]
    /\ op' = [r \in Requests |-> "update"]
    /\ actor' = [r \in Requests |-> Nobody]
    /\ key' = [r \in Requests |-> NoKey]
    /\ target' = [r \in Requests |-> Nobody]
    /\ want' = [r \in Requests |-> Unchanged]
    /\ seen' = [r \in Requests |-> Unchanged]
    /\ UNCHANGED <<users, keys, history>>

-----------------------------------------------------------------------------
(***************************************************************************)
(* Authorisation: dependencies.py, services/apikey.py                      *)
(***************************************************************************)

\* The response is sent; the coroutine and what it holds are gone.
Done(r) ==
    /\ pc' = [pc EXCEPT ![r] = "idle"]
    /\ op' = [op EXCEPT ![r] = "update"]
    /\ actor' = [actor EXCEPT ![r] = Nobody]
    /\ key' = [key EXCEPT ![r] = NoKey]
    /\ target' = [target EXCEPT ![r] = Nobody]
    /\ want' = [want EXCEPT ![r] = Unchanged]
    /\ seen' = [seen EXCEPT ![r] = Unchanged]

\* Mutant: the own row too.
Deletable_all(u) == Users

\* delete_user refuses the own row.
Deletable(u) == Users \ {u}

\* What an administrator asks for.
Asks(r, u) ==
    /\ actor' = [actor EXCEPT ![r] = u]
    /\ pc' = [pc EXCEPT ![r] = "ready"]
    /\ \/ \E t \in Users, w \in Changes :
            /\ op' = [op EXCEPT ![r] = "update"]
            /\ target' = [target EXCEPT ![r] = t]
            /\ want' = [want EXCEPT ![r] = w]
            /\ key' = [key EXCEPT ![r] = NoKey]
       \/ \E t \in Users, x \in Roles :
            /\ op' = [op EXCEPT ![r] = "create"]
            /\ target' = [target EXCEPT ![r] = t]
            /\ want' = [want EXCEPT ![r] = [role |-> x, standing |-> "active"]]
            /\ key' = [key EXCEPT ![r] = NoKey]
       \/ \E t \in Deletable(u) :
            /\ op' = [op EXCEPT ![r] = "delete"]
            /\ target' = [target EXCEPT ![r] = t]
            /\ key' = [key EXCEPT ![r] = NoKey]
            /\ UNCHANGED want
       \/ /\ op' = [op EXCEPT ![r] = "create_key"]
          /\ key' = [key EXCEPT ![r] = NoKey]
          /\ UNCHANGED <<target, want>>
       \/ \E k \in Keys :
            /\ op' = [op EXCEPT ![r] = "revoke"]
            /\ key' = [key EXCEPT ![r] = k]
            /\ UNCHANGED <<target, want>>
    /\ UNCHANGED <<users, keys, process, seen, history>>

\* require_admin, with an access token (AuthSessions): the row is loaded.
\* (A request that is refused changes nothing.)
ByToken(r, u) ==
    /\ process = "up" /\ Idle(r)
    /\ Admin(u)
    /\ Asks(r, u)

\* authenticate_api_key selects an active key that has not expired ...
ByKey(r, k) ==
    /\ process = "up" /\ Idle(r)
    /\ key_state[k] = "active"
    /\ pc' = [pc EXCEPT ![r] = "touch"]
    /\ actor' = [actor EXCEPT ![r] = owner[k]]
    /\ key' = [key EXCEPT ![r] = k]
    /\ UNCHANGED <<users, keys, process, op, target, want, seen, history>>

\* Mutant: the whole row is written as it was selected.
Touch_whole_row(r) ==
    /\ pc[r] = "touch"
    /\ key_state[key[r]] # "none"
    /\ key_state' = [key_state EXCEPT ![key[r]] = "active"]
    /\ pc' = [pc EXCEPT ![r] = "key_user"]
    /\ UNCHANGED <<users, owner, process, op, actor, key, target, want, seen, history>>

\* ... commits its last_used_at, and no other column ...
Touch(r) ==
    /\ pc[r] = "touch"
    /\ key_state[key[r]] # "none"
    /\ pc' = [pc EXCEPT ![r] = "key_user"]
    /\ UNCHANGED <<users, keys, process, op, actor, key, target, want, seen, history>>

\* (the row went away: 500)
TouchFails(r) ==
    /\ pc[r] = "touch"
    /\ key_state[key[r]] = "none"
    /\ Done(r)
    /\ UNCHANGED <<users, keys, process, history>>

\* ... and loads the owner, for require_admin.
KeyUser(r) ==
    /\ pc[r] = "key_user"
    /\ Admin(actor[r])
    /\ Asks(r, actor[r])

KeyUserFails(r) ==
    /\ pc[r] = "key_user"
    /\ ~Admin(actor[r])
    /\ Done(r)
    /\ UNCHANGED <<users, keys, process, history>>

\* POST /api/auth/signup, when it is allowed, asks nobody.
Signup(r, t) ==
    /\ process = "up" /\ Idle(r)
    /\ role[t] = "none"
    /\ pc' = [pc EXCEPT ![r] = "commit"]
    /\ op' = [op EXCEPT ![r] = "create"]
    /\ target' = [target EXCEPT ![r] = t]
    /\ want' = [want EXCEPT ![r] = [role |-> "user", standing |-> "active"]]
    /\ UNCHANGED <<users, keys, process, actor, key, seen, history>>

-----------------------------------------------------------------------------
(***************************************************************************)
(* The handlers: a query, then a commit                                    *)
(***************************************************************************)

\* Mutant: one key too many.
UnderLimit_inclusive(u) == Cardinality(ActiveKeys(u)) <= MaxKeys

\* create_api_key counts the active keys of the user.
UnderLimit(u) == Cardinality(ActiveKeys(u)) < MaxKeys

\* The checks of each handler on what it has just read.
QueryPasses(r) ==
    CASE op[r] \in {"update", "delete"} -> role[target[r]] # "none"
      [] op[r] = "create" -> role[target[r]] = "none"
      [] op[r] = "create_key" -> UnderLimit(actor[r])
      [] op[r] = "revoke" -> key_state[key[r]] # "none"

\* db.get, the lookup of the username, or the number of the active keys.
Query(r) ==
    /\ pc[r] = "ready"
    /\ QueryPasses(r)
    /\ pc' = [pc EXCEPT ![r] = "commit"]
    /\ seen' = IF op[r] = "update"
               THEN [seen EXCEPT ![r] = [role |-> role[target[r]],
                                         standing |-> standing[target[r]]]]
               ELSE seen
    /\ crossed' = IF op[r] = "create_key" /\ Creating(actor[r]) # {}
                  THEN [crossed EXCEPT ![actor[r]] = TRUE]
                  ELSE crossed
    /\ UNCHANGED <<users, keys, process, op, actor, key, target, want,
                   bootstrapped, self_removed, stale>>

\* 404, 409, or 400 for one key too many.
QueryRefuses(r) ==
    /\ pc[r] = "ready"
    /\ ~QueryPasses(r)
    /\ Done(r)
    /\ UNCHANGED <<users, keys, process, history>>

\* The request commits for an actor who is no administrator any more.
NoteStale(r) == stale' = (stale \/ ~Admin(actor[r]))

\* The session writes the columns that differ from what it loaded, and no others.
Written(asked, loaded, now) ==
    IF asked \in {"same", loaded} THEN now ELSE asked

CommitUpdate(r) ==
    LET t == target[r]
    IN  /\ pc[r] = "commit" /\ op[r] = "update"
        /\ role[t] # "none"
        /\ role' = [role EXCEPT ![t] = Written(want[r].role, seen[r].role, @)]
        /\ standing' =
              [standing EXCEPT ![t] = Written(want[r].standing, seen[r].standing, @)]
        /\ self_removed' = (self_removed \/ (t = actor[r] /\ (want[r].role = "user"
                                              \/ want[r].standing = "inactive")))
        /\ NoteStale(r)
        /\ Done(r)
        /\ UNCHANGED <<keys, process, bootstrapped, crossed>>

\* The keys go with their owner (ON DELETE CASCADE).
CommitDelete(r) ==
    LET t == target[r]
    IN  /\ pc[r] = "commit" /\ op[r] = "delete"
        /\ role' = [role EXCEPT ![t] = "none"]
        /\ standing' = [standing EXCEPT ![t] = "inactive"]
        /\ key_state' = [k \in Keys |-> IF owner[k] = t THEN "none" ELSE key_state[k]]
        /\ owner' = [k \in Keys |-> IF owner[k] = t THEN Nobody ELSE owner[k]]
        /\ NoteStale(r)
        /\ Done(r)
        /\ UNCHANGED <<process, bootstrapped, self_removed, crossed>>

\* create_user and signup insert the row; the username is unique.
CommitCreate(r) ==
    LET t == target[r]
    IN  /\ pc[r] = "commit" /\ op[r] = "create"
        /\ role[t] = "none"
        /\ role' = [role EXCEPT ![t] = want[r].role]
        /\ standing' = [standing EXCEPT ![t] = want[r].standing]
        /\ Done(r)
        /\ UNCHANGED <<keys, process, history>>

\* create_api_key inserts a key for the actor's row.
CommitKey(r, k) ==
    /\ pc[r] = "commit" /\ op[r] = "create_key"
    /\ role[actor[r]] # "none"
    /\ key_state[k] = "none"
    /\ owner' = [owner EXCEPT ![k] = actor[r]]
    /\ key_state' = [key_state EXCEPT ![k] = "active"]
    /\ Done(r)
    /\ UNCHANGED <<users, process, history>>

\* revoke_key: is_active = False, whoever owns the key.
CommitRevoke(r) ==
    /\ pc[r] = "commit" /\ op[r] = "revoke"
    /\ key_state[key[r]] # "none"
    /\ key_state' = [key_state EXCEPT ![key[r]] = "revoked"]
    /\ Done(r)
    /\ UNCHANGED <<users, owner, process, history>>

\* The row has gone, or has come, since the query: 500.
CommitFails(r) ==
    /\ pc[r] = "commit"
    /\ CASE op[r] = "update" -> role[target[r]] = "none"
         [] op[r] = "delete" -> FALSE
         [] op[r] = "create" -> role[target[r]] # "none"
         [] op[r] = "create_key" -> role[actor[r]] = "none"
         [] op[r] = "revoke" -> key_state[key[r]] = "none"
    /\ Done(r)
    /\ UNCHANGED <<users, keys, process, history>>

Commit(r) ==
    \/ CommitUpdate(r) \/ CommitDelete(r) \/ CommitCreate(r)
    \/ (\E k \in Keys : CommitKey(r, k)) \/ CommitRevoke(r) \/ CommitFails(r)

Next ==
    \/ Start \/ Stop
    \/ \E r \in Requests :
         \/ \E u \in Users : ByToken(r, u) \/ Signup(r, u)
         \/ \E k \in Keys : ByKey(r, k)
         \/ Touch(r) \/ TouchFails(r) \/ KeyUser(r) \/ KeyUserFails(r)
         \/ Query(r) \/ QueryRefuses(r) \/ Commit(r)

Spec == Init /\ [][Next]_vars

-----------------------------------------------------------------------------
(***************************************************************************)
(* Properties                                                              *)
(***************************************************************************)

\* Every row, key and request keeps its type, and a key has a row of an owner.
TypeOK ==
    /\ role \in [Users -> Roles \cup {"none"}]
    /\ standing \in [Users -> {"active", "inactive"}]
    /\ owner \in [Keys -> Users \cup {Nobody}]
    /\ key_state \in [Keys -> {"none", "active", "revoked"}]
    /\ \A k \in Keys : key_state[k] # "none" =>
                          owner[k] \in Users /\ role[owner[k]] # "none"
    /\ process \in {"up", "down"}
    /\ pc \in [Requests -> {"idle", "touch", "key_user", "ready", "commit"}]
    /\ op \in [Requests -> Ops]
    /\ actor \in [Requests -> Users \cup {Nobody}]
    /\ key \in [Requests -> Keys \cup {NoKey}]
    /\ target \in [Requests -> Users \cup {Nobody}]
    /\ want \in [Requests -> Change]
    /\ seen \in [Requests -> Change]
    /\ bootstrapped \in BOOLEAN
    /\ self_removed \in BOOLEAN
    /\ stale \in BOOLEAN
    /\ crossed \in [Users -> BOOLEAN]

\* Once a start has created the administrator there is always an active one,
\* unless an administrator gave up the own rights (update_user has no check for
\* it, and none for the last one) or a request committed for one who had lost
\* them meanwhile: two who delete each other pass the only check (admin.py:148).
AdminRemains ==
    bootstrapped => (\E u \in Users : Admin(u)) \/ self_removed \/ stale

\* Nobody has more than MaxKeys active keys, however the creations and the
\* revocations are mixed, unless two creations of the same user were under way
\* at once: each then can add one (keys.py:41).
KeyLimit ==
    \A u \in Users :
        /\ ~crossed[u] => Cardinality(ActiveKeys(u)) <= MaxKeys
        /\ Cardinality(ActiveKeys(u)) <= MaxKeys + Cardinality(Requests) - 1

\* A revoked key never becomes active again, whatever the requests that were
\* using it write to its row (apikey.py:74).
RevokedStaysRevoked ==
    [][\A k \in Keys : key_state[k] = "revoked" => key_state'[k] \in {"revoked", "none"}]_vars
=============================================================================
