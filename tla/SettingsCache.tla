---------------------------- MODULE SettingsCache ----------------------------
(***************************************************************************)
(* Reading and changing the RAG settings: SettingsService                  *)
(* (backend/app/services/settings.py) with its three tiers (a copy in      *)
(* memory, a copy in Redis, the row in PostgreSQL), and the requests that  *)
(* share two instances of it in one API process: every search reads        *)
(* through the instance main.py makes for the search API, GET and PATCH    *)
(* /settings go through the one of api/settings.py.                        *)
(*                                                                         *)
(* The requests are coroutines of one event loop: a step is one answer of  *)
(* Redis or PostgreSQL, or the code between two awaits.  Both tiers expire *)
(* after TTL ticks of the clock.                                           *)
(***************************************************************************)
EXTENDS Integers

CONSTANTS
    Requests,       \* the coroutines that may be serving a request
    TTL,            \* CACHE_TTL and the ttl of the Redis copy (60 seconds)
    Latency,        \* bound: ticks a request may take
    MaxPatches,     \* bound: PATCH requests that commit
    Faults          \* a subset of FaultKinds

(* "db_error": _load_from_db catches an exception and returns the          *)
(* defaults.  "redis_error": a Redis call fails, which CacheService        *)
(* swallows.  "save_error": _save_to_db raises and the request fails.      *)
(* "db_restart": PostgreSQL is restarted and every open connection is lost.*)
FaultKinds == {"db_error", "redis_error", "save_error", "db_restart"}

ASSUME SettingsAssumption ==
    /\ TTL \in Nat \ {0}
    /\ Latency \in Nat
    /\ MaxPatches \in Nat
    /\ Faults \subseteq FaultKinds

Services == {"search", "admin"}
Kinds == {"search", "admin_get", "patch"}

(* A settings value is named by the number of the PATCH that committed it  *)
(* (0 for the row the process starts with, Defaults for RAGSettings());    *)
(* what it holds is in commits.                                            *)
Defaults == -1
Version == 0..MaxPatches
Settings == Version \cup {Defaults}

(* Every PATCH sends one field of its own, so a value is the set of the    *)
(* PATCHes whose field it has, and the one field that matters here.        *)
Content == [applied : SUBSET Version, cache_enabled : BOOLEAN]
DefaultContent == [applied |-> {}, cache_enabled |-> TRUE]

VARIABLES
    db,         \* the rag_settings row
    commits,    \* what each committed value holds
    local,      \* _local_cache of each service
    local_age,  \* ticks since its _cache_time; TTL when there is no valid copy
    redis,      \* the value under cache:settings
    redis_ttl,  \* ticks it has left; 0 when the key is absent
    enabled,    \* CacheService._enabled
    session,    \* settings_session, which the search service keeps for ever
    pc,         \* the await each request is at
    kind,       \* what each request is
    value,      \* the settings each request holds
    age,        \* ticks since each request started
    stale,      \* history: ticks since each version was overwritten
    disturbed   \* history: the last PATCH met another request or a Redis error

caches == <<local, local_age, redis, redis_ttl, enabled>>
vars == <<db, commits, caches, session, pc, kind, value, age, stale, disturbed>>

Service(k) == IF k = "search" THEN "search" ELSE "admin"

\* How old a version can be in memory, and in the hands of a request.
LocalBound == 2 * (TTL - 1 + Latency)
HeldBound == LocalBound + Latency

StaleCap == HeldBound + 1

Init ==
    /\ db = 0
    /\ commits = [v \in Version |-> DefaultContent]
    /\ local = [s \in Services |-> 0]
    /\ local_age = [s \in Services |-> TTL]
    /\ redis = 0
    /\ redis_ttl = 0
    /\ enabled = TRUE
    /\ session = "fresh"
    /\ pc = [r \in Requests |-> "idle"]
    /\ kind = [r \in Requests |-> "search"]
    /\ value = [r \in Requests |-> 0]
    /\ age = [r \in Requests |-> 0]
    /\ stale = [v \in Version |-> 0]
    /\ disturbed = FALSE

-----------------------------------------------------------------------------
(***************************************************************************)
(* SettingsService.get_settings                                            *)
(***************************************************************************)

LocalValid(s) == local_age[s] < TTL

\* The response is sent; the coroutine and what it holds are gone.
Done(r) ==
    /\ pc' = [pc EXCEPT ![r] = "idle"]
    /\ kind' = [kind EXCEPT ![r] = "search"]
    /\ value' = [value EXCEPT ![r] = 0]
    /\ age' = [age EXCEPT ![r] = 0]

\* get_settings returns: a PATCH goes on to save, any other request is served.
Return(r) ==
    IF kind[r] = "patch"
    THEN pc' = [pc EXCEPT ![r] = "save"] /\ UNCHANGED <<kind, value, age>>
    ELSE Done(r)

Remember(r) ==
    /\ local' = [local EXCEPT ![Service(kind[r])] = value[r]]
    /\ local_age' = [local_age EXCEPT ![Service(kind[r])] = 0]

\* A PATCH whose commit is done and whose invalidations are not.
Invalidating == {q \in Requests : pc[q] \in {"saved", "redis_del", "finish"}}

\* No valid copy in memory: ask Redis.  (A copy serves GET and search on the spot.)
StartMiss(r, k) ==
    /\ pc[r] = "idle"
    /\ ~LocalValid(Service(k))
    /\ pc' = [pc EXCEPT ![r] = "redis_get"]
    /\ kind' = [kind EXCEPT ![r] = k]
    /\ disturbed' = (disturbed \/ Invalidating # {})
    /\ UNCHANGED <<db, commits, caches, session, value, age, stale>>

\* A PATCH that finds a valid copy in memory merges into it.
StartPatchHit(r) ==
    /\ pc[r] = "idle"
    /\ LocalValid("admin")
    /\ pc' = [pc EXCEPT ![r] = "save"]
    /\ kind' = [kind EXCEPT ![r] = "patch"]
    /\ value' = [value EXCEPT ![r] = local["admin"]]
    /\ disturbed' = (disturbed \/ Invalidating # {})
    /\ UNCHANGED <<db, commits, caches, session, age, stale>>

\* CacheService.get: a hit, or a miss, an error or a disabled cache.
RedisGet(r) ==
    /\ pc[r] = "redis_get"
    /\ \/ /\ enabled /\ redis_ttl > 0
          /\ value' = [value EXCEPT ![r] = redis]
          /\ pc' = [pc EXCEPT ![r] = "redis_hit"]
       \/ /\ ~enabled \/ redis_ttl = 0 \/ "redis_error" \in Faults
          /\ pc' = [pc EXCEPT ![r] = "db_read"]
          /\ UNCHANGED value
    /\ UNCHANGED <<db, commits, caches, session, kind, age, stale, disturbed>>

\* The hit arrives: it becomes the copy in memory, with a full TTL of its own.
RedisHit(r) ==
    /\ pc[r] = "redis_hit"
    /\ Remember(r)
    /\ Return(r)
    /\ UNCHANGED <<db, commits, redis, redis_ttl, enabled, session, stale, disturbed>>

\* The search service reads through the session it was made with.
SessionLost(r) == Service(kind[r]) = "search" /\ session = "lost"

\* _load_from_db: the row is read, and settings_session keeps its connection ...
DbRead(r) ==
    /\ pc[r] = "db_read"
    /\ ~SessionLost(r)
    /\ session' = IF Service(kind[r]) = "search" THEN "open" ELSE session
    /\ value' = [value EXCEPT ![r] = db]
    /\ pc' = [pc EXCEPT ![r] = "loaded"]
    /\ UNCHANGED <<db, commits, caches, kind, age, stale, disturbed>>

\* ... or an exception makes it the defaults.  Nothing is rolled back.
DbReadFails(r) ==
    /\ "db_error" \in Faults \/ SessionLost(r)
    /\ pc[r] = "db_read"
    /\ value' = [value EXCEPT ![r] = Defaults]
    /\ pc' = [pc EXCEPT ![r] = "loaded"]
    /\ UNCHANGED <<db, commits, caches, session, kind, age, stale, disturbed>>

(* PostgreSQL restarts.  The pool tests a connection when it hands it out, *)
(* but settings_session has its own, in a transaction that was never ended,*)
(* and SQLAlchemy refuses every statement until that is rolled back.       *)
DbRestart ==
    /\ "db_restart" \in Faults
    /\ session = "open"
    /\ session' = "lost"
    /\ UNCHANGED <<db, commits, caches, pc, kind, value, age, stale, disturbed>>

\* The row arrives: it becomes the copy in memory, then goes to Redis.
Loaded(r) ==
    /\ pc[r] = "loaded"
    /\ Remember(r)
    /\ IF enabled
       THEN pc' = [pc EXCEPT ![r] = "redis_set"] /\ UNCHANGED <<kind, value, age>>
       ELSE Return(r)
    /\ UNCHANGED <<db, commits, redis, redis_ttl, enabled, session, stale, disturbed>>

\* Mutant: the Redis copy is written without an expiry of its own.
RedisSet_persist(r) ==
    /\ pc[r] = "redis_set"
    /\ redis' = value[r]
    /\ redis_ttl' = 2 * TTL + Latency + 1
    /\ Return(r)
    /\ UNCHANGED <<db, commits, local, local_age, enabled, session, stale, disturbed>>

\* CacheService.set(PREFIX_SETTINGS, ttl=60), unless Redis fails.
RedisSet(r) ==
    /\ pc[r] = "redis_set"
    /\ \/ redis' = value[r] /\ redis_ttl' = TTL
       \/ "redis_error" \in Faults /\ UNCHANGED <<redis, redis_ttl>>
    /\ Return(r)
    /\ UNCHANGED <<db, commits, local, local_age, enabled, session, stale, disturbed>>

-----------------------------------------------------------------------------
(***************************************************************************)
(* SettingsService.update_settings and patch_settings                      *)
(***************************************************************************)

Held(r) == IF value[r] = Defaults THEN DefaultContent ELSE commits[value[r]]

\* _save_to_db writes the whole object: what the request holds, with its field set.
Save(r) ==
    LET v == db + 1
    IN  /\ pc[r] = "save"
        /\ db < MaxPatches
        /\ db' = v
        /\ \E on \in {Held(r).cache_enabled, ~Held(r).cache_enabled} :
             commits' = [commits EXCEPT ![v] =
                           [applied |-> Held(r).applied \cup {v}, cache_enabled |-> on]]
        /\ value' = [value EXCEPT ![r] = v]
        /\ pc' = [pc EXCEPT ![r] = "saved"]
        /\ disturbed' = (\E q \in Requests \ {r} : pc[q] # "idle")
        /\ UNCHANGED <<caches, session, kind, age, stale>>

\* The commit raises: the request ends with an error and nothing is invalidated.
SaveFails(r) ==
    /\ "save_error" \in Faults
    /\ pc[r] = "save"
    /\ Done(r)
    /\ UNCHANGED <<db, commits, caches, session, stale, disturbed>>

\* The service drops its copy in memory.
Saved(r) ==
    /\ pc[r] = "saved"
    /\ local_age' = [local_age EXCEPT !["admin"] = TTL]
    /\ pc' = [pc EXCEPT ![r] = "redis_del"]
    /\ UNCHANGED <<db, commits, local, redis, redis_ttl, enabled, session, kind, value, age, stale, disturbed>>

\* invalidate_settings, unless Redis fails; then invalidate_search.
RedisDel(r) ==
    /\ pc[r] = "redis_del"
    /\ \/ redis_ttl' = 0 /\ UNCHANGED disturbed
       \/ "redis_error" \in Faults /\ UNCHANGED redis_ttl /\ disturbed' = TRUE
    /\ pc' = [pc EXCEPT ![r] = "finish"]
    /\ UNCHANGED <<db, commits, local, local_age, redis, enabled, session, kind, value, age, stale>>

\* Mutant: only the admin service forgets its copy.
FinishPatch_keep(r) ==
    /\ pc[r] = "finish"
    /\ enabled' = commits[value[r]].cache_enabled
    /\ Done(r)
    /\ UNCHANGED <<db, commits, local, local_age, redis, redis_ttl, session, stale, disturbed>>

\* patch_settings drops the search service's copy and switches the cache.
FinishPatch(r) ==
    /\ pc[r] = "finish"
    /\ local_age' = [local_age EXCEPT !["search"] = TTL]
    /\ enabled' = commits[value[r]].cache_enabled
    /\ Done(r)
    /\ UNCHANGED <<db, commits, local, redis, redis_ttl, session, stale, disturbed>>

\* DELETE /monitoring/cache: invalidate_all deletes every cache: key.
ClearCache ==
    /\ redis_ttl' = 0
    /\ UNCHANGED <<db, commits, local, local_age, redis, enabled, session, pc, kind, value, age, stale, disturbed>>

-----------------------------------------------------------------------------
\* One tick; no request is older than Latency.
Tick ==
    /\ \A r \in Requests : pc[r] = "idle" \/ age[r] < Latency
    /\ local_age' = [s \in Services |->
                       IF LocalValid(s) THEN local_age[s] + 1 ELSE local_age[s]]
    /\ redis_ttl' = IF redis_ttl > 0 THEN redis_ttl - 1 ELSE 0
    /\ age' = [r \in Requests |-> IF pc[r] = "idle" THEN age[r] ELSE age[r] + 1]
    /\ stale' = [v \in Version |->
                   IF v < db /\ stale[v] < StaleCap
                   THEN stale[v] + 1 ELSE stale[v]]
    /\ UNCHANGED <<db, commits, local, redis, enabled, session, pc, kind, value, disturbed>>

RequestStep(r) ==
    \/ \E k \in Kinds : StartMiss(r, k)
    \/ StartPatchHit(r)
    \/ RedisGet(r) \/ RedisHit(r) \/ DbRead(r) \/ DbReadFails(r)
    \/ Loaded(r) \/ RedisSet(r)
    \/ Save(r) \/ SaveFails(r) \/ Saved(r) \/ RedisDel(r) \/ FinishPatch(r)

Next ==
    \/ \E r \in Requests : RequestStep(r)
    \/ ClearCache
    \/ DbRestart
    \/ Tick

Spec == Init /\ [][Next]_vars

(* A request in progress gets its answers, and the clock advances.  That   *)
(* anybody searches or changes a setting is not assumed.                   *)
Fairness ==
    /\ \A r \in Requests : WF_vars(pc[r] # "idle" /\ RequestStep(r))
    /\ WF_vars(Tick)

FairSpec == Spec /\ Fairness

-----------------------------------------------------------------------------
(***************************************************************************)
(* Properties                                                              *)
(***************************************************************************)

\* How long ago the row stopped being this value.
Staleness(v) == IF v = Defaults THEN 0 ELSE stale[v]

(* Every tier and every request stays in its type.                         *)
TypeOK ==
    /\ db \in Version
    /\ commits \in [Version -> Content]
    /\ local \in [Services -> Settings]
    /\ local_age \in [Services -> 0..TTL]
    /\ redis \in Settings
    /\ redis_ttl \in 0..TTL
    /\ enabled \in BOOLEAN
    /\ session \in {"fresh", "open", "lost"}
    /\ pc \in [Requests -> {"idle", "redis_get", "redis_hit", "db_read", "loaded",
                            "redis_set", "save", "saved", "redis_del", "finish"}]
    /\ kind \in [Requests -> Kinds]
    /\ value \in [Requests -> Settings]
    /\ age \in [Requests -> 0..Latency]
    /\ stale \in [Version -> 0..StaleCap]
    /\ disturbed \in BOOLEAN

(* The invalidations of a PATCH are complete: when it is over, no other    *)
(* request was being served since its commit and Redis took the delete,    *)
(* no tier is left with an older value in it.                              *)
InvalidationIsComplete ==
    (~disturbed /\ Invalidating = {})
      => /\ \A s \in Services : LocalValid(s) => local[s] \in {db, Defaults}
         /\ redis_ttl > 0 => redis \in {db, Defaults}

(* And when other requests do interfere: a search or a GET never works     *)
(* with settings that were overwritten longer ago than two TTLs and two    *)
(* request times, whatever reads were in flight when a PATCH invalidated   *)
(* the tiers, and even if Redis refused the invalidation.  A stale read    *)
(* may refill Redis, and Redis may refill the copy in memory, but no tier  *)
(* is ever refilled from below with an age that starts over twice.         *)
StalenessBounded ==
    \A s \in Services : LocalValid(s) => Staleness(local[s]) <= LocalBound

(* What a PATCH merges into was in the row no longer ago than one more     *)
(* request time: only changes that recent can be undone by it.             *)
MergeBaseIsRecent ==
    \A r \in Requests : pc[r] = "save" => Staleness(value[r]) <= HeldBound

(* README.md on pooling: the system recovers from a restart of the         *)
(* database by itself.  If searches keep reading the settings table, they  *)
(* keep coming to work with what is in it, not only with the defaults.     *)
SettingsReadsRecover ==
    []<>(\E r \in Requests : pc[r] = "loaded" /\ kind[r] = "search")
      => []<>(LocalValid("search") /\ local["search"] \in Version)
=============================================================================
