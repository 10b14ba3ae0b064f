------------------------- MODULE SettingsCacheProofs -------------------------
(***************************************************************************)
(* TLAPS proofs about SettingsCache, for any requests, times to live,      *)
(* latencies, numbers of PATCHes and faults.                               *)
(***************************************************************************)
EXTENDS SettingsCache, TLAPS

(***************************************************************************)
(* Types                                                                   *)
(***************************************************************************)

Labels == {"idle", "redis_get", "redis_hit", "db_read", "loaded",
           "redis_set", "save", "saved", "redis_del", "finish"}

\* The row and the tiers, and the requests: a PATCH that has committed holds
\* what it committed, never the defaults.
TiersTyped ==
    /\ db \in Version
    /\ commits \in [Version -> Content]
    /\ local \in [Services -> Settings]
    /\ local_age \in [Services -> 0..TTL]
    /\ redis \in Settings
    /\ redis_ttl \in 0..TTL
    /\ enabled \in BOOLEAN
    /\ session \in {"fresh", "open", "lost"}
    /\ stale \in [Version -> 0..StaleCap]
    /\ disturbed \in BOOLEAN

RequestsTyped ==
    /\ pc \in [Requests -> Labels]
    /\ kind \in [Requests -> Kinds]
    /\ value \in [Requests -> Settings]
    /\ age \in [Requests -> 0..Latency]
    /\ \A r \in Requests : pc[r] \in {"saved", "redis_del", "finish"} =>
                              value[r] \in Version

Typed == TiersTyped /\ RequestsTyped

LEMMA TypedIsTypeOK == Typed => TypeOK
  BY DEF Typed, TypeOK, TiersTyped, RequestsTyped, Labels

LEMMA Times ==
    /\ TTL \in Nat /\ TTL >= 1 /\ Latency \in Nat /\ MaxPatches \in Nat
    /\ LocalBound \in Nat /\ LocalBound = TTL + TTL + Latency + Latency - 2
    /\ HeldBound \in Nat /\ HeldBound = LocalBound + Latency
    /\ StaleCap \in Nat /\ StaleCap = HeldBound + 1
  BY SettingsAssumption DEF LocalBound, HeldBound, StaleCap

LEMMA Values ==
    /\ 0 \in Version /\ 0 \in Settings /\ Defaults \in Settings
    /\ Version \subseteq Settings /\ Defaults \notin Version
    /\ \A v \in Version : v \in Nat /\ v <= MaxPatches
    /\ \A v \in Settings : v = Defaults \/ v \in Version
    /\ DefaultContent \in Content
  BY SettingsAssumption DEF Version, Settings, Defaults, DefaultContent, Content

LEMMA Places ==
    \A k \in Kinds : Service(k) \in Services
  BY DEF Kinds, Service, Services

LEMMA InitTyped == Init => Typed
  <1> SUFFICES ASSUME Init PROVE TiersTyped /\ RequestsTyped
    BY DEF Typed
  <1>1. 0 \in 0..StaleCap /\ 0 \in 0..TTL /\ TTL \in 0..TTL /\ 0 \in 0..Latency
    BY Times
  <1>2. TiersTyped
    BY <1>1, Values DEF Init, TiersTyped
  <1>3. RequestsTyped
    BY <1>1, Values DEF Init, RequestsTyped, Labels, Kinds
  <1>4. QED BY <1>2, <1>3

LEMMA ReturnTypes ==
    ASSUME RequestsTyped, NEW r \in Requests, Done(r) \/ Return(r)
    PROVE  RequestsTyped'
  <1>1. 0 \in 0..Latency
    BY Times
  <1>2. CASE Done(r)
    BY <1>1, <1>2, Values DEF Done, RequestsTyped, Labels, Kinds
  <1>3. CASE Return(r) /\ ~Done(r)
    BY <1>3 DEF Return, RequestsTyped, Labels
  <1>4. QED BY <1>2, <1>3

LEMMA RememberTypes ==
    ASSUME TiersTyped, RequestsTyped, NEW r \in Requests, Remember(r)
    PROVE  /\ local' \in [Services -> Settings]
           /\ local_age' \in [Services -> 0..TTL]
  <1>1. kind[r] \in Kinds /\ Service(kind[r]) \in Services /\ value[r] \in Settings
    BY Places DEF RequestsTyped
  <1>2. 0 \in 0..TTL
    BY Times
  <1>3. QED BY <1>1, <1>2 DEF Remember, TiersTyped

\* The steps of get_settings.
LEMMA ReadTypes ==
    ASSUME TiersTyped, RequestsTyped, NEW r \in Requests,
           \/ \E k \in Kinds : StartMiss(r, k)
           \/ StartPatchHit(r)
           \/ RedisGet(r) \/ RedisHit(r) \/ DbRead(r) \/ DbReadFails(r)
           \/ Loaded(r) \/ RedisSet(r)
    PROVE  TiersTyped' /\ RequestsTyped'
  <1>1. ASSUME NEW k \in Kinds, StartMiss(r, k) PROVE TiersTyped' /\ RequestsTyped'
    BY <1>1 DEF StartMiss, caches, TiersTyped, RequestsTyped, Labels
  <1>2. CASE StartPatchHit(r)
    <2>1. local["admin"] \in Settings
      BY DEF TiersTyped, Services
    <2>2. TiersTyped'
      BY <1>2 DEF StartPatchHit, caches, TiersTyped
    <2>3. RequestsTyped'
      BY <1>2, <2>1 DEF StartPatchHit, RequestsTyped, Labels, Kinds
    <2>4. QED BY <2>2, <2>3
  <1>3. CASE RedisGet(r)
    <2>1. TiersTyped'
      BY <1>3 DEF RedisGet, caches, TiersTyped
    <2>2. redis \in Settings
      BY DEF TiersTyped
    <2>3. RequestsTyped'
      BY <1>3, <2>2 DEF RedisGet, RequestsTyped, Labels
    <2>4. QED BY <2>1, <2>3
  <1>4. CASE RedisHit(r)
    <2>1. RequestsTyped'
      BY <1>4, ReturnTypes DEF RedisHit
    <2>2. TiersTyped'
      BY <1>4, RememberTypes DEF RedisHit, TiersTyped
    <2>3. QED BY <2>1, <2>2
  <1>5. CASE DbRead(r)
    <2>1. TiersTyped'
      BY <1>5 DEF DbRead, caches, TiersTyped
    <2>2. db \in Settings
      BY Values DEF TiersTyped
    <2>3. RequestsTyped'
      BY <1>5, <2>2 DEF DbRead, RequestsTyped, Labels
    <2>4. QED BY <2>1, <2>3
  <1>6. CASE DbReadFails(r)
    <2>1. TiersTyped'
      BY <1>6 DEF DbReadFails, caches, TiersTyped
    <2>2. RequestsTyped'
      BY <1>6, Values DEF DbReadFails, RequestsTyped, Labels
    <2>3. QED BY <2>1, <2>2
  <1>7. CASE Loaded(r)
    <2>1. TiersTyped'
      BY <1>7, RememberTypes DEF Loaded, TiersTyped
    <2>2. CASE Return(r)
      BY <2>1, <2>2, ReturnTypes
    <2>3. CASE pc' = [pc EXCEPT ![r] = "redis_set"] /\ UNCHANGED <<kind, value, age>>
      BY <2>1, <2>3 DEF RequestsTyped, Labels
    <2>4. QED BY <1>7, <2>2, <2>3 DEF Loaded
  <1>8. CASE RedisSet(r)
    <2>1. RequestsTyped'
      BY <1>8, ReturnTypes DEF RedisSet
    <2>2. value[r] \in Settings /\ TTL \in 0..TTL
      BY Times DEF RequestsTyped
    <2>3. redis' \in Settings /\ redis_ttl' \in 0..TTL
      BY <1>8, <2>2 DEF RedisSet, TiersTyped
    <2>4. TiersTyped'
      BY <1>8, <2>3 DEF RedisSet, TiersTyped
    <2>5. QED BY <2>1, <2>4
  <1>9. QED
    BY <1>1, <1>2, <1>3, <1>4, <1>5, <1>6, <1>7, <1>8

\* The steps of update_settings and patch_settings.
LEMMA PatchTypes ==
    ASSUME TiersTyped, RequestsTyped, NEW r \in Requests,
           Save(r) \/ SaveFails(r) \/ Saved(r) \/ RedisDel(r) \/ FinishPatch(r)
    PROVE  TiersTyped' /\ RequestsTyped'
  <1>1. CASE Save(r)
    <2>1. db + 1 \in Version /\ db + 1 \in Settings
      BY <1>1, Values, Times DEF Save, TiersTyped, Version, Settings
    <2>2. Held(r) \in Content
      <3>1. value[r] = Defaults \/ value[r] \in Version
        BY Values DEF RequestsTyped
      <3>2. QED BY <3>1, Values DEF Held, TiersTyped
    <2>3. ASSUME NEW on \in BOOLEAN
          PROVE  [applied |-> Held(r).applied \cup {db + 1}, cache_enabled |-> on] \in Content
      BY <2>1, <2>2 DEF Content
    <2>4. Held(r).cache_enabled \in BOOLEAN
      BY <2>2 DEF Content
    <2>5. commits' \in [Version -> Content]
      BY <1>1, <2>1, <2>3, <2>4 DEF Save, TiersTyped
    <2>6. disturbed' \in BOOLEAN
      BY <1>1 DEF Save
    <2>7. TiersTyped'
      BY <1>1, <2>1, <2>5, <2>6 DEF Save, caches, TiersTyped
    <2>8. RequestsTyped'
      BY <1>1, <2>1 DEF Save, RequestsTyped, Labels
    <2>9. QED BY <2>7, <2>8
  <1>2. CASE SaveFails(r)
    <2>1. RequestsTyped'
      BY <1>2, ReturnTypes DEF SaveFails
    <2>2. TiersTyped'
      BY <1>2 DEF SaveFails, caches, TiersTyped
    <2>3. QED BY <2>1, <2>2
  <1>3. CASE Saved(r)
    <2>1. TTL \in 0..TTL
      BY Times
    <2>2. TiersTyped'
      BY <1>3, <2>1 DEF Saved, TiersTyped
    <2>3. RequestsTyped'
      BY <1>3 DEF Saved, RequestsTyped, Labels
    <2>4. QED BY <2>2, <2>3
  <1>4. CASE RedisDel(r)
    <2>1. 0 \in 0..TTL
      BY Times
    <2>2. TiersTyped'
      BY <1>4, <2>1 DEF RedisDel, TiersTyped
    <2>3. RequestsTyped'
      BY <1>4 DEF RedisDel, RequestsTyped, Labels
    <2>4. QED BY <2>2, <2>3
  <1>5. CASE FinishPatch(r)
    <2>1. RequestsTyped'
      BY <1>5, ReturnTypes DEF FinishPatch
    <2>2. TTL \in 0..TTL
      BY Times
    <2>3. enabled' \in BOOLEAN
      BY <1>5 DEF FinishPatch, TiersTyped, RequestsTyped, Content
    <2>4. TiersTyped'
      BY <1>5, <2>2, <2>3 DEF FinishPatch, TiersTyped
    <2>5. QED BY <2>1, <2>4
  <1>6. QED BY <1>1, <1>2, <1>3, <1>4, <1>5

LEMMA TickTypes ==
    ASSUME TiersTyped, RequestsTyped, Tick
    PROVE  TiersTyped' /\ RequestsTyped'
  <1>1. local_age' \in [Services -> 0..TTL]
    BY Times DEF Tick, LocalValid, TiersTyped
  <1>2. redis_ttl' \in 0..TTL
    BY Times DEF Tick, TiersTyped
  <1>3. stale' \in [Version -> 0..StaleCap]
    BY Times DEF Tick, TiersTyped
  <1>4. age' \in [Requests -> 0..Latency]
    BY Times DEF Tick, RequestsTyped
  <1>5. QED
    BY <1>1, <1>2, <1>3, <1>4 DEF Tick, TiersTyped, RequestsTyped

LEMMA NextTyped == Typed /\ [Next]_vars => Typed'
  <1> SUFFICES ASSUME TiersTyped, RequestsTyped, [Next]_vars
               PROVE  TiersTyped' /\ RequestsTyped'
    BY DEF Typed
  <1>1. CASE UNCHANGED vars
    BY <1>1 DEF vars, caches, TiersTyped, RequestsTyped
  <1>2. CASE ClearCache
    <2>1. 0 \in 0..TTL
      BY Times
    <2>2. QED BY <1>2, <2>1 DEF ClearCache, TiersTyped, RequestsTyped
  <1>3. CASE DbRestart
    BY <1>3 DEF DbRestart, caches, TiersTyped, RequestsTyped
  <1>4. QED
    BY <1>1, <1>2, <1>3, ReadTypes, PatchTypes, TickTypes DEF Next, RequestStep

(* Every tier and request keeps its type, for any requests and times; in   *)
(* particular the switch of the cache is never read from the defaults that *)
(* a failed read leaves behind.                                            *)
THEOREM TypeCorrect == Spec => []TypeOK
  BY InitTyped, NextTyped, TypedIsTypeOK, PTL DEF Spec

(***************************************************************************)
(* How stale a value can be                                                *)
(*                                                                         *)
(* What a request has read from the row was overwritten no longer ago than *)
(* the request has lasted.  In a tier the staleness of a value and the     *)
(* time the tier still keeps it for are bounded together: for Redis by     *)
(* TTL + Latency, and for memory, which may be filled from Redis, by the   *)
(* age of the copy and one TTL and one request more.                       *)
(***************************************************************************)

NewestIsFresh == \A v \in Version : v >= db => stale[v] = 0

ReadsAge ==
    \A r \in Requests, v \in Settings :
        value[r] = v =>
          /\ pc[r] \in {"loaded", "redis_set"} => Staleness(v) <= age[r]
          /\ pc[r] = "redis_hit" => Staleness(v) <= TTL - 1 + Latency + age[r]
          /\ pc[r] = "save" => Staleness(v) <= LocalBound + age[r]

RedisAges ==
    \A v \in Settings :
        redis = v /\ redis_ttl > 0 => Staleness(v) + redis_ttl <= TTL + Latency

LocalAges ==
    \A s \in Services, v \in Settings :
        local[s] = v /\ LocalValid(s) =>
          Staleness(v) <= TTL - 1 + Latency + Latency + local_age[s]

Aging == NewestIsFresh /\ ReadsAge /\ RedisAges /\ LocalAges

LEMMA StalenessNat ==
    ASSUME TiersTyped
    PROVE  \A v \in Settings : Staleness(v) \in Nat
  BY Values, Times DEF Staleness, TiersTyped

LEMMA AgeNat ==
    ASSUME RequestsTyped
    PROVE  \A r \in Requests : age[r] \in Nat /\ age[r] <= Latency
  <1> TAKE r \in Requests
  <1>1. age[r] \in 0..Latency
    BY DEF RequestsTyped
  <1>2. Latency \in Nat
    BY Times
  <1>3. QED BY <1>1, <1>2

\* A step that takes no time makes nothing staler.
LEMMA SameStaleness ==
    ASSUME UNCHANGED stale
    PROVE  \A v \in Settings : Staleness(v)' = Staleness(v)
  BY DEF Staleness

LEMMA NewestStep == Typed /\ NewestIsFresh /\ [Next]_vars => NewestIsFresh'
  <1> SUFFICES ASSUME Typed, NewestIsFresh, [Next]_vars,
                      NEW v \in Version, v >= db'
               PROVE  stale'[v] = 0
    BY DEF NewestIsFresh
  <1>1. db \in Nat /\ v \in Nat
    BY Values DEF Typed, TiersTyped
  <1>2. CASE Tick
    BY <1>1, <1>2 DEF Tick, NewestIsFresh
  <1>3. ASSUME NEW r \in Requests, Save(r) PROVE stale'[v] = 0
    <2>1. v >= db
      BY <1>1, <1>3 DEF Save
    <2>2. QED BY <1>3, <2>1 DEF Save, NewestIsFresh
  <1>4. CASE ~Tick /\ ~(\E r \in Requests : Save(r))
    <2>1. UNCHANGED <<db, stale>>
      BY <1>4
      DEF Next, RequestStep, vars, StartMiss, StartPatchHit, RedisGet, RedisHit,
          DbRead, DbReadFails, Loaded, RedisSet, SaveFails, Saved, RedisDel,
          FinishPatch, ClearCache, DbRestart
    <2>2. QED BY <2>1 DEF NewestIsFresh
  <1>5. QED BY <1>2, <1>3, <1>4

\* A tick adds one to every age.
LEMMA TickAges == Typed /\ Aging /\ Tick => ReadsAge' /\ RedisAges' /\ LocalAges'
  <1> SUFFICES ASSUME TiersTyped, RequestsTyped, Aging, Tick
               PROVE  ReadsAge' /\ RedisAges' /\ LocalAges'
    BY DEF Typed
  <1>1. ASSUME NEW v \in Settings
        PROVE  /\ Staleness(v) \in Nat /\ Staleness(v)' \in Nat
               /\ Staleness(v)' <= Staleness(v) + 1
    <2>1. CASE v = Defaults
      BY <2>1 DEF Staleness
    <2>2. CASE v # Defaults
      <3>1. v \in Version /\ Staleness(v) = stale[v] /\ Staleness(v)' = stale'[v]
        BY <2>2, Values DEF Staleness
      <3>2. stale[v] \in Nat
        BY <3>1, Times DEF TiersTyped
      <3>3. stale'[v] \in {stale[v], stale[v] + 1}
        BY <3>1 DEF Tick
      <3>4. QED BY <3>1, <3>2, <3>3
    <2>3. QED BY <2>1, <2>2
  <1>2. ASSUME NEW r \in Requests, NEW v \in Settings, value'[r] = v
        PROVE  /\ pc'[r] \in {"loaded", "redis_set"} => Staleness(v)' <= age'[r]
               /\ pc'[r] = "redis_hit" =>
                    Staleness(v)' <= TTL - 1 + Latency + age'[r]
               /\ pc'[r] = "save" => Staleness(v)' <= LocalBound + age'[r]
    <2>1. value[r] = v /\ pc'[r] = pc[r]
      BY <1>2 DEF Tick
    <2>2. pc[r] # "idle" => age'[r] = age[r] + 1
      BY DEF Tick
    <2>3. age[r] \in Nat
      BY AgeNat
    <2>4. /\ pc[r] \in {"loaded", "redis_set"} => Staleness(v) <= age[r]
          /\ pc[r] = "redis_hit" => Staleness(v) <= TTL - 1 + Latency + age[r]
          /\ pc[r] = "save" => Staleness(v) <= LocalBound + age[r]
      BY <2>1 DEF Aging, ReadsAge
    <2>5. CASE pc[r] \in {"loaded", "redis_set"}
      BY <1>1, <2>1, <2>2, <2>3, <2>4, <2>5
    <2>6. CASE pc[r] = "redis_hit"
      BY <1>1, <2>1, <2>2, <2>3, <2>4, <2>6, Times
    <2>7. CASE pc[r] = "save"
      BY <1>1, <2>1, <2>2, <2>3, <2>4, <2>7, Times
    <2>8. QED BY <2>1, <2>5, <2>6, <2>7
  <1>3. ASSUME NEW v \in Settings, redis' = v, redis_ttl' > 0
        PROVE  Staleness(v)' + redis_ttl' <= TTL + Latency
    <2>1. redis = v /\ redis_ttl \in Nat /\ redis_ttl > 0 /\ redis_ttl' = redis_ttl - 1
      BY <1>3, Times DEF Tick, TiersTyped
    <2>2. Staleness(v) + redis_ttl <= TTL + Latency
      BY <2>1 DEF Aging, RedisAges
    <2>3. QED BY <1>1, <2>1, <2>2, Times
  <1>4. ASSUME NEW s \in Services, NEW v \in Settings, local'[s] = v, LocalValid(s)'
        PROVE  Staleness(v)' <= TTL - 1 + Latency + Latency + local_age'[s]
    <2>1. /\ local[s] = v /\ LocalValid(s) /\ local_age[s] \in Nat
          /\ local_age'[s] = local_age[s] + 1
      BY <1>4, Times DEF Tick, LocalValid, TiersTyped
    <2>2. Staleness(v) <= TTL - 1 + Latency + Latency + local_age[s]
      BY <2>1 DEF Aging, LocalAges
    <2>3. QED BY <1>1, <2>1, <2>2, Times
  <1>5. QED BY <1>2, <1>3, <1>4 DEF ReadsAge, RedisAges, LocalAges

\* What a request holds, when it or another takes a step.
LEMMA ReadsByStep ==
    ASSUME TiersTyped, RequestsTyped, Aging, NEW x \in Requests, RequestStep(x)
    PROVE  ReadsAge'
  <1> SUFFICES ASSUME NEW r \in Requests, NEW v \in Settings, value'[r] = v
               PROVE  /\ pc'[r] \in {"loaded", "redis_set"} => Staleness(v)' <= age'[r]
                      /\ pc'[r] = "redis_hit" =>
                           Staleness(v)' <= TTL - 1 + Latency + age'[r]
                      /\ pc'[r] = "save" => Staleness(v)' <= LocalBound + age'[r]
    BY DEF ReadsAge
  <1>1. Staleness(v)' = Staleness(v) /\ Staleness(v) \in Nat
    <2>1. UNCHANGED stale
      BY DEF RequestStep, StartMiss, StartPatchHit, RedisGet, RedisHit, DbRead,
             DbReadFails, Loaded, RedisSet, Save, SaveFails, Saved, RedisDel,
             FinishPatch
    <2>2. QED BY <2>1, SameStaleness, StalenessNat
  <1>2. age[r] \in Nat /\ age[r] <= Latency
    BY AgeNat
  <1>3. value[r] = v =>
          /\ pc[r] \in {"loaded", "redis_set"} => Staleness(v) <= age[r]
          /\ pc[r] = "redis_hit" => Staleness(v) <= TTL - 1 + Latency + age[r]
          /\ pc[r] = "save" => Staleness(v) <= LocalBound + age[r]
    BY DEF Aging, ReadsAge
  <1>4. CASE r # x
    <2>1. value'[r] = value[r] /\ pc'[r] = pc[r] /\ age'[r] = age[r]
      BY <1>4
      DEF RequestStep, StartMiss, StartPatchHit, RedisGet, RedisHit, DbRead,
          DbReadFails, Loaded, RedisSet, Save, SaveFails, Saved, RedisDel,
          FinishPatch, Return, Done, RequestsTyped
    <2>2. QED BY <1>1, <1>3, <2>1
  <1>5. CASE r = x
    <2>1. CASE (\E k \in Kinds : StartMiss(r, k)) \/ Save(r) \/ SaveFails(r)
               \/ Saved(r) \/ RedisDel(r) \/ FinishPatch(r)
      <3>1. pc'[r] \in {"redis_get", "saved", "idle", "redis_del", "finish"}
        BY <2>1
        DEF StartMiss, Save, SaveFails, Saved, RedisDel, FinishPatch, Done,
            RequestsTyped
      <3>2. QED BY <3>1
    <2>2. CASE StartPatchHit(r)
      <3>1. /\ pc'[r] = "save" /\ age'[r] = age[r]
            /\ local["admin"] = v /\ LocalValid("admin")
        BY <2>2 DEF StartPatchHit, RequestsTyped
      <3>2. "admin" \in Services
        BY DEF Services
      <3>3. Staleness(v) <= TTL - 1 + Latency + Latency + local_age["admin"]
        BY <3>1, <3>2 DEF Aging, LocalAges
      <3>4. local_age["admin"] \in Nat /\ local_age["admin"] < TTL
        BY <3>1, <3>2, Times DEF LocalValid, TiersTyped
      <3>5. Staleness(v) <= LocalBound + age[r]
        BY <1>1, <1>2, <3>3, <3>4, Times
      <3>6. QED BY <1>1, <3>1, <3>5
    <2>3. CASE RedisGet(r)
      <3>1. CASE redis_ttl > 0 /\ value' = [value EXCEPT ![r] = redis]
                 /\ pc' = [pc EXCEPT ![r] = "redis_hit"]
        <4>1. redis = v /\ pc'[r] = "redis_hit" /\ age'[r] = age[r]
          BY <2>3, <3>1 DEF RedisGet, RequestsTyped
        <4>2. Staleness(v) + redis_ttl <= TTL + Latency
          BY <3>1, <4>1 DEF Aging, RedisAges
        <4>3. redis_ttl \in Nat
          BY Times DEF TiersTyped
        <4>4. Staleness(v) <= TTL - 1 + Latency + age[r]
          BY <1>1, <1>2, <3>1, <4>2, <4>3, Times
        <4>5. QED BY <1>1, <4>1, <4>4
      <3>2. CASE pc' = [pc EXCEPT ![r] = "db_read"]
        <4>1. pc'[r] = "db_read"
          BY <3>2 DEF RequestsTyped
        <4>2. QED BY <4>1
      <3>3. QED BY <2>3, <3>1, <3>2 DEF RedisGet
    <2>4. CASE DbRead(r) \/ DbReadFails(r)
      <3>1. /\ v \in {db, Defaults} /\ pc'[r] = "loaded" /\ age'[r] = age[r]
        BY <2>4 DEF DbRead, DbReadFails, RequestsTyped
      <3>2. Staleness(v) = 0
        <4>1. CASE v = Defaults
          BY <4>1 DEF Staleness
        <4>2. CASE v # Defaults
          <5>1. v = db /\ db \in Version /\ db \in Nat
            BY <3>1, <4>2, Values DEF TiersTyped
          <5>2. stale[db] = 0
            BY <5>1 DEF Aging, NewestIsFresh
          <5>3. QED BY <4>2, <5>1, <5>2 DEF Staleness
        <4>3. QED BY <4>1, <4>2
      <3>3. QED BY <1>1, <1>2, <3>1, <3>2
    <2>5. CASE RedisHit(r) \/ Loaded(r) \/ RedisSet(r)
      <3>1. CASE Done(r)
        <4>1. pc'[r] = "idle"
          BY <3>1 DEF Done, RequestsTyped
        <4>2. QED BY <4>1
      <3>2. CASE ~Done(r)
        <4>1. /\ pc[r] \in {"redis_hit", "loaded", "redis_set"}
              /\ value'[r] = value[r] /\ age'[r] = age[r]
              /\ \/ pc'[r] = "save"
                 \/ pc'[r] = "redis_set" /\ pc[r] = "loaded"
          <5>1. CASE RedisHit(r)
            BY <3>2, <5>1 DEF RedisHit, Return, RequestsTyped
          <5>2. CASE Loaded(r)
            BY <3>2, <5>2 DEF Loaded, Return, RequestsTyped
          <5>3. CASE RedisSet(r)
            BY <3>2, <5>3 DEF RedisSet, Return, RequestsTyped
          <5>4. QED BY <2>5, <5>1, <5>2, <5>3
        <4>2. pc[r] = "redis_hit" => Staleness(v) <= LocalBound + age[r]
          BY <1>1, <1>2, <1>3, <4>1, Times
        <4>3. pc[r] # "redis_hit" => Staleness(v) <= LocalBound + age[r]
          BY <1>1, <1>2, <1>3, <4>1, Times
        <4>4. QED BY <1>1, <1>3, <4>1, <4>2, <4>3
      <3>3. QED BY <3>1, <3>2
    <2>6. QED BY <1>5, <2>1, <2>2, <2>3, <2>4, <2>5 DEF RequestStep
  <1>6. QED BY <1>4, <1>5

\* What the tiers hold, when a request takes a step.
LEMMA TiersByStep ==
    ASSUME TiersTyped, RequestsTyped, Aging, NEW x \in Requests, RequestStep(x)
    PROVE  RedisAges' /\ LocalAges'
  <1>1. UNCHANGED stale
    BY DEF RequestStep, StartMiss, StartPatchHit, RedisGet, RedisHit, DbRead,
           DbReadFails, Loaded, RedisSet, Save, SaveFails, Saved, RedisDel,
           FinishPatch
  <1>2. \A v \in Settings : Staleness(v)' = Staleness(v) /\ Staleness(v) \in Nat
    BY <1>1, SameStaleness, StalenessNat
  <1>3. age[x] \in Nat /\ age[x] <= Latency /\ value[x] \in Settings
    BY AgeNat DEF RequestsTyped
  <1>4. RedisAges'
    <2> SUFFICES ASSUME NEW v \in Settings, redis' = v, redis_ttl' > 0
                 PROVE  Staleness(v)' + redis_ttl' <= TTL + Latency
      BY DEF RedisAges
    <2>1. CASE UNCHANGED <<redis, redis_ttl>>
      BY <1>2, <2>1 DEF Aging, RedisAges
    <2>2. CASE RedisSet(x) /\ ~UNCHANGED <<redis, redis_ttl>>
      <3>1. value[x] = v /\ redis_ttl' = TTL /\ pc[x] = "redis_set"
        BY <2>2 DEF RedisSet
      <3>2. Staleness(v) <= age[x]
        BY <3>1 DEF Aging, ReadsAge
      <3>3. QED BY <1>2, <1>3, <3>1, <3>2, Times
    <2>3. CASE RedisDel(x) /\ ~UNCHANGED <<redis, redis_ttl>>
      BY <2>3 DEF RedisDel
    <2>4. QED
      BY <2>1, <2>2, <2>3
      DEF RequestStep, StartMiss, StartPatchHit, RedisGet, RedisHit, DbRead,
          DbReadFails, Loaded, Save, SaveFails, Saved, FinishPatch, caches
  <1>5. LocalAges'
    <2> SUFFICES ASSUME NEW s \in Services, NEW v \in Settings,
                        local'[s] = v, LocalValid(s)'
                 PROVE  Staleness(v)' <= TTL - 1 + Latency + Latency + local_age'[s]
      BY DEF LocalAges
    <2>1. CASE local'[s] = local[s] /\ local_age'[s] = local_age[s]
      BY <1>2, <2>1 DEF Aging, LocalAges, LocalValid
    <2>2. CASE Remember(x) /\ pc[x] \in {"redis_hit", "loaded"}
               /\ Service(kind[x]) = s
      <3>1. value[x] = v /\ local_age'[s] = 0
        BY <2>2 DEF Remember, TiersTyped
      <3>2. Staleness(v) <= TTL - 1 + Latency + age[x]
        <4>1. CASE pc[x] = "redis_hit"
          BY <3>1, <4>1 DEF Aging, ReadsAge
        <4>2. CASE pc[x] = "loaded"
          <5>1. Staleness(v) <= age[x]
            BY <3>1, <4>2 DEF Aging, ReadsAge
          <5>2. QED BY <1>2, <1>3, <5>1, Times
        <4>3. QED BY <2>2, <4>1, <4>2
      <3>3. QED BY <1>2, <1>3, <3>1, <3>2, Times
    <2>3. CASE Remember(x) /\ Service(kind[x]) # s
      <3>1. local'[s] = local[s] /\ local_age'[s] = local_age[s]
        BY <2>3 DEF Remember, TiersTyped
      <3>2. QED BY <2>1, <3>1
    <2>4. CASE Saved(x) \/ FinishPatch(x)
      <3>1. local'[s] = local[s] /\ local_age'[s] \in {local_age[s], TTL}
        BY <2>4 DEF Saved, FinishPatch, TiersTyped
      <3>2. local_age'[s] # TTL
        BY Times DEF LocalValid
      <3>3. QED BY <2>1, <3>1, <3>2
    <2>5. QED
      BY <2>1, <2>2, <2>3, <2>4
      DEF RequestStep, StartMiss, StartPatchHit, RedisGet, RedisHit, DbRead,
          DbReadFails, Loaded, RedisSet, Save, SaveFails, RedisDel, caches
  <1>6. QED BY <1>4, <1>5

LEMMA AgingStep == Typed /\ Aging /\ [Next]_vars => Aging'
  <1> SUFFICES ASSUME Typed, TiersTyped, RequestsTyped, Aging, [Next]_vars
               PROVE  Aging'
    BY DEF Typed
  <1>1. NewestIsFresh'
    BY NewestStep DEF Aging
  <1>2. ReadsAge' /\ RedisAges' /\ LocalAges'
    <2>1. CASE Tick
      BY <2>1, TickAges
    <2>2. ASSUME NEW x \in Requests, RequestStep(x)
          PROVE  ReadsAge' /\ RedisAges' /\ LocalAges'
      BY <2>2, ReadsByStep, TiersByStep
    <2>3. CASE ClearCache \/ DbRestart \/ UNCHANGED vars
      <3>1. /\ UNCHANGED <<local, local_age, redis, pc, value, age, stale>>
            /\ redis_ttl' \in {0, redis_ttl}
        BY <2>3 DEF ClearCache, DbRestart, vars, caches
      <3>2. \A v \in Settings : Staleness(v)' = Staleness(v)
        BY <3>1, SameStaleness
      <3>3. ReadsAge'
        BY <3>1, <3>2 DEF Aging, ReadsAge
      <3>4. RedisAges'
        BY <3>1, <3>2 DEF Aging, RedisAges
      <3>5. LocalAges'
        BY <3>1, <3>2 DEF Aging, LocalAges, LocalValid
      <3>6. QED BY <3>3, <3>4, <3>5
    <2>4. QED BY <2>1, <2>2, <2>3 DEF Next
  <1>3. QED BY <1>1, <1>2 DEF Aging

LEMMA InitAging == Init => Aging
  <1> SUFFICES ASSUME Init PROVE Aging
    OBVIOUS
  <1>1. NewestIsFresh
    BY DEF Init, NewestIsFresh
  <1>2. ReadsAge
    BY DEF Init, ReadsAge
  <1>3. RedisAges
    BY DEF Init, RedisAges
  <1>4. LocalAges
    BY Times DEF Init, LocalAges, LocalValid
  <1>5. QED BY <1>1, <1>2, <1>3, <1>4 DEF Aging

LEMMA AgingBounds == Typed /\ Aging => StalenessBounded /\ MergeBaseIsRecent
  <1> SUFFICES ASSUME TiersTyped, RequestsTyped, Aging
               PROVE  StalenessBounded /\ MergeBaseIsRecent
    BY DEF Typed
  <1>1. ASSUME NEW s \in Services, LocalValid(s)
        PROVE  Staleness(local[s]) <= LocalBound
    <2>1. PICK v \in Settings : v = local[s]
      BY DEF TiersTyped
    <2>2. Staleness(v) <= TTL - 1 + Latency + Latency + local_age[s]
      BY <1>1, <2>1 DEF Aging, LocalAges
    <2>3. local_age[s] \in Nat /\ local_age[s] < TTL /\ Staleness(v) \in Nat
      BY <1>1, Times, StalenessNat DEF LocalValid, TiersTyped
    <2>4. Staleness(v) <= LocalBound
      BY <2>2, <2>3, Times
    <2>5. QED BY <2>1, <2>4
  <1>2. ASSUME NEW r \in Requests, pc[r] = "save"
        PROVE  Staleness(value[r]) <= HeldBound
    <2>1. PICK v \in Settings : v = value[r]
      BY DEF RequestsTyped
    <2>2. Staleness(v) <= LocalBound + age[r]
      BY <1>2, <2>1 DEF Aging, ReadsAge
    <2>3. age[r] \in Nat /\ age[r] <= Latency /\ Staleness(v) \in Nat
      BY AgeNat, StalenessNat
    <2>4. Staleness(v) <= HeldBound
      BY <2>2, <2>3, Times
    <2>5. QED BY <2>1, <2>4
  <1>3. QED BY <1>1, <1>2 DEF StalenessBounded, MergeBaseIsRecent

(* No search and no GET works with settings that were overwritten longer   *)
(* ago than two times to live and two request times, for any times and any *)
(* number of requests that overlap with PATCHes, with every fault.         *)
THEOREM SettingsAreRecent == Spec => []StalenessBounded
  BY InitTyped, NextTyped, InitAging, AgingStep, AgingBounds, PTL DEF Spec

(* A PATCH merges into a value that was in the row no longer ago than that *)
(* and one more request time.                                              *)
THEOREM MergesAreRecent == Spec => []MergeBaseIsRecent
  BY InitTyped, NextTyped, InitAging, AgingStep, AgingBounds, PTL DEF Spec

(***************************************************************************)
(* What a PATCH leaves behind                                              *)
(*                                                                         *)
(* As long as nothing disturbs a PATCH, the tiers and whoever is about to  *)
(* fill one hold the row or the defaults, except between the commit and    *)
(* the last invalidation; then the PATCH is the only request, and each     *)
(* invalidation it has done still holds because nobody else can fill the   *)
(* tier again.                                                             *)
(***************************************************************************)

Complete ==
    /\ \A s \in Services : LocalValid(s) => local[s] \in {db, Defaults}
    /\ redis_ttl > 0 => redis \in {db, Defaults}
    /\ \A r \in Requests : pc[r] \in {"redis_hit", "loaded", "redis_set"} =>
                              value[r] \in {db, Defaults}

Alone(r) ==
    /\ \A q \in Requests \ {r} : pc[q] = "idle"
    /\ pc[r] \in {"redis_del", "finish"} => ~LocalValid("admin")
    /\ pc[r] = "finish" => redis_ttl = 0

Undisturbed ==
    ~disturbed => IF Invalidating = {} THEN Complete
                  ELSE \A r \in Invalidating : Alone(r)

Busy == Labels \ {"idle", "saved", "redis_del", "finish"}

\* While another request is under way, no undisturbed PATCH is invalidating.
LEMMA NobodyInvalidates ==
    ASSUME Undisturbed, ~disturbed, NEW x \in Requests, pc[x] \in Busy
    PROVE  Invalidating = {} /\ Complete
  <1>1. ASSUME NEW r \in Invalidating PROVE FALSE
    <2>1. Alone(r)
      BY <1>1 DEF Undisturbed
    <2>2. x # r
      BY <1>1 DEF Invalidating, Busy, Labels
    <2>3. QED BY <2>1, <2>2 DEF Alone, Busy, Labels
  <1>2. Invalidating = {}
    BY <1>1
  <1>3. QED BY <1>2 DEF Undisturbed

\* A step of x to a label outside the invalidations brings no PATCH into them.
LEMMA StaysEmpty ==
    ASSUME RequestsTyped, NEW x \in Requests, Invalidating = {},
           NEW l \in Labels \ {"saved", "redis_del", "finish"},
           pc' = [pc EXCEPT ![x] = l]
    PROVE  Invalidating' = {}
  BY DEF Invalidating, RequestsTyped, Labels

\* The steps of a request that is reading, and those that start one.
LEMMA ReadKeepsComplete ==
    ASSUME TiersTyped, RequestsTyped, NEW x \in Requests,
           Invalidating = {}, Complete,
           \/ \E k \in Kinds : StartMiss(x, k)
           \/ StartPatchHit(x)
           \/ RedisGet(x) \/ RedisHit(x) \/ DbRead(x) \/ DbReadFails(x)
           \/ Loaded(x) \/ RedisSet(x) \/ SaveFails(x)
    PROVE  Invalidating' = {} /\ Complete'
  <1>1. ASSUME NEW k \in Kinds, StartMiss(x, k) PROVE Invalidating' = {} /\ Complete'
    <2>1. Invalidating' = {}
      BY <1>1, StaysEmpty DEF StartMiss, Labels
    <2>2. QED BY <1>1, <2>1 DEF StartMiss, caches, Complete, LocalValid, RequestsTyped
  <1>2. CASE StartPatchHit(x)
    <2>1. Invalidating' = {}
      BY <1>2, StaysEmpty DEF StartPatchHit, Labels
    <2>2. QED BY <1>2, <2>1 DEF StartPatchHit, caches, Complete, LocalValid, RequestsTyped
  <1>3. CASE RedisGet(x)
    <2>1. CASE redis_ttl > 0 /\ value' = [value EXCEPT ![x] = redis]
               /\ pc' = [pc EXCEPT ![x] = "redis_hit"]
      <3>1. Invalidating' = {}
        BY <2>1, StaysEmpty DEF Labels
      <3>2. QED
        BY <1>3, <2>1, <3>1 DEF RedisGet, caches, Complete, LocalValid, RequestsTyped
    <2>2. CASE pc' = [pc EXCEPT ![x] = "db_read"] /\ UNCHANGED value
      <3>1. Invalidating' = {}
        BY <2>2, StaysEmpty DEF Labels
      <3>2. QED
        BY <1>3, <2>2, <3>1 DEF RedisGet, caches, Complete, LocalValid, RequestsTyped
    <2>3. QED BY <1>3, <2>1, <2>2 DEF RedisGet
  <1>4. CASE DbRead(x) \/ DbReadFails(x)
    <2>1. /\ pc' = [pc EXCEPT ![x] = "loaded"]
          /\ \E v \in {db, Defaults} : value' = [value EXCEPT ![x] = v]
          /\ UNCHANGED <<db, local, local_age, redis, redis_ttl>>
      BY <1>4 DEF DbRead, DbReadFails, caches
    <2>2. Invalidating' = {}
      BY <2>1, StaysEmpty DEF Labels
    <2>3. PICK v \in {db, Defaults} : value' = [value EXCEPT ![x] = v]
      BY <2>1
    <2>4. QED BY <2>1, <2>2, <2>3 DEF Complete, LocalValid, RequestsTyped
  <1>5. CASE RedisHit(x) \/ Loaded(x) \/ RedisSet(x) \/ SaveFails(x)
    <2>1. Invalidating' = {}
      <3>1. PICK l \in {"idle", "save", "redis_set"} : pc' = [pc EXCEPT ![x] = l]
        BY <1>5 DEF RedisHit, Loaded, RedisSet, SaveFails, Return, Done
      <3>2. QED BY <3>1, StaysEmpty DEF Labels
    <2>2. ASSUME NEW r \in Requests, pc'[r] \in {"redis_hit", "loaded", "redis_set"}
          PROVE  value'[r] \in {db, Defaults}
      <3>1. CASE r # x
        <4>1. pc'[r] = pc[r] /\ value'[r] = value[r]
          BY <1>5, <3>1
          DEF RedisHit, Loaded, RedisSet, SaveFails, Return, Done, RequestsTyped
        <4>2. QED BY <2>2, <4>1 DEF Complete
      <3>2. CASE r = x
        <4>1. pc[r] = "loaded" /\ value'[r] = value[r]
          <5>1. pc[x] \in Labels
            BY DEF RequestsTyped
          <5>2. pc'[x] # "idle" /\ pc'[x] # "save"
            BY <2>2, <3>2
          <5>3. ~Return(x)
            BY <5>2 DEF Return, Done, RequestsTyped
          <5>4. ~RedisHit(x) /\ ~RedisSet(x) /\ ~SaveFails(x)
            BY <5>2, <5>3 DEF RedisHit, RedisSet, SaveFails, Done, RequestsTyped
          <5>5. QED BY <1>5, <3>2, <5>3, <5>4 DEF Loaded
        <4>2. QED BY <4>1 DEF Complete
      <3>3. QED BY <3>1, <3>2
    <2>3. UNCHANGED db
      BY <1>5 DEF RedisHit, Loaded, RedisSet, SaveFails
    <2>4. pc[x] \in {"redis_hit", "loaded", "redis_set"} => value[x] \in {db, Defaults}
      BY DEF Complete
    <2>5. ASSUME NEW s \in Services, LocalValid(s)' PROVE local'[s] \in {db, Defaults}
      <3>1. CASE UNCHANGED <<local, local_age>>
        BY <2>5, <3>1 DEF Complete, LocalValid
      <3>2. CASE Remember(x) /\ pc[x] \in {"redis_hit", "loaded"}
        BY <2>4, <2>5, <3>2 DEF Remember, Complete, LocalValid, TiersTyped
      <3>3. QED BY <1>5, <3>1, <3>2 DEF RedisHit, Loaded, RedisSet, SaveFails, caches
    <2>6. redis_ttl' > 0 => redis' \in {db, Defaults}
      <3>1. CASE UNCHANGED <<redis, redis_ttl>>
        BY <3>1 DEF Complete
      <3>2. CASE redis' = value[x] /\ pc[x] = "redis_set"
        BY <2>4, <3>2
      <3>3. QED BY <1>5, <3>1, <3>2 DEF RedisHit, Loaded, RedisSet, SaveFails, caches
    <2>7. QED BY <2>1, <2>2, <2>3, <2>5, <2>6 DEF Complete
  <1>6. QED BY <1>1, <1>2, <1>3, <1>4, <1>5

\* The steps of a PATCH from its commit on.
LEMMA PatchKeepsUndisturbed ==
    ASSUME TiersTyped, RequestsTyped, Undisturbed, NEW x \in Requests, ~disturbed',
           Save(x) \/ Saved(x) \/ RedisDel(x) \/ FinishPatch(x)
    PROVE  IF Invalidating' = {} THEN Complete' ELSE \A r \in Invalidating' : Alone(r)'
  <1>1. "admin" \in Services /\ "search" \in Services /\ Services = {"admin", "search"}
    BY DEF Services
  <1>2. \A q \in Requests \ {x} : pc[q] = "idle" /\ pc'[q] = "idle"
    <2>1. \A q \in Requests \ {x} : pc[q] = "idle"
      <3>1. CASE Save(x)
        BY <3>1 DEF Save
      <3>2. CASE Saved(x) \/ RedisDel(x) \/ FinishPatch(x)
        <4>1. x \in Invalidating /\ ~disturbed
          BY <3>2 DEF Saved, RedisDel, FinishPatch, Invalidating
        <4>2. QED BY <4>1 DEF Undisturbed, Alone
      <3>3. QED BY <3>1, <3>2
    <2>2. PICK l \in Labels : pc' = [pc EXCEPT ![x] = l]
      BY DEF Save, Saved, RedisDel, FinishPatch, Done, Labels
    <2>3. QED BY <2>1, <2>2 DEF RequestsTyped
  <1>3. ASSUME pc'[x] \in {"saved", "redis_del", "finish"}, Alone(x)'
        PROVE  IF Invalidating' = {} THEN Complete' ELSE \A r \in Invalidating' : Alone(r)'
    <2>1. Invalidating' = {x}
      BY <1>2, <1>3 DEF Invalidating
    <2>2. QED BY <1>3, <2>1
  <1>4. CASE Save(x)
    <2>1. pc'[x] = "saved"
      BY <1>4 DEF Save, RequestsTyped
    <2>2. QED BY <1>2, <1>3, <2>1 DEF Alone
  <1>5. ASSUME Saved(x) \/ RedisDel(x) \/ FinishPatch(x) PROVE Alone(x)
    <2>1. x \in Invalidating /\ ~disturbed
      BY <1>5 DEF Saved, RedisDel, FinishPatch, Invalidating
    <2>2. QED BY <2>1 DEF Undisturbed
  <1>6. CASE Saved(x)
    <2>1. pc'[x] = "redis_del" /\ local_age'["admin"] = TTL
      BY <1>1, <1>6 DEF Saved, RequestsTyped, TiersTyped
    <2>2. ~LocalValid("admin")'
      BY <2>1, Times DEF LocalValid
    <2>3. QED BY <1>2, <1>3, <2>1, <2>2 DEF Alone
  <1>7. CASE RedisDel(x)
    <2>1. pc'[x] = "finish" /\ redis_ttl' = 0 /\ pc[x] = "redis_del"
      BY <1>7 DEF RedisDel, RequestsTyped
    <2>2. ~LocalValid("admin")'
      BY <1>5, <1>7, <2>1 DEF RedisDel, Alone, LocalValid
    <2>3. QED BY <1>2, <1>3, <2>1, <2>2 DEF Alone
  <1>8. CASE FinishPatch(x)
    <2>1. pc[x] = "finish" /\ pc'[x] = "idle" /\ redis_ttl' = redis_ttl
      BY <1>8 DEF FinishPatch, Done, RequestsTyped
    <2>2. redis_ttl' = 0
      BY <1>5, <1>8, <2>1 DEF Alone
    <2>3. ~LocalValid("admin")
      BY <1>5, <1>8, <2>1 DEF Alone
    <2>4. local_age'["search"] = TTL /\ local_age'["admin"] = local_age["admin"]
      BY <1>1, <1>8 DEF FinishPatch, TiersTyped
    <2>5. \A s \in Services : ~LocalValid(s)'
      BY <1>1, <2>3, <2>4, Times DEF LocalValid
    <2>6. \A q \in Requests : pc'[q] = "idle"
      BY <1>2, <2>1
    <2>7. Invalidating' = {}
      BY <2>6 DEF Invalidating
    <2>8. Complete'
      BY <2>2, <2>5, <2>6 DEF Complete
    <2>9. QED BY <2>7, <2>8
  <1>9. QED BY <1>4, <1>6, <1>7, <1>8

LEMMA UndisturbedStep == Typed /\ Undisturbed /\ [Next]_vars => Undisturbed'
  <1> SUFFICES ASSUME TiersTyped, RequestsTyped, Undisturbed, [Next]_vars, ~disturbed'
               PROVE  IF Invalidating' = {} THEN Complete'
                      ELSE \A r \in Invalidating' : Alone(r)'
    BY DEF Typed, Undisturbed
  <1>1. ASSUME NEW x \in Requests,
               Save(x) \/ Saved(x) \/ RedisDel(x) \/ FinishPatch(x)
        PROVE  IF Invalidating' = {} THEN Complete' ELSE \A r \in Invalidating' : Alone(r)'
    BY <1>1, PatchKeepsUndisturbed
  <1>2. ASSUME NEW x \in Requests, (\E k \in Kinds : StartMiss(x, k)) \/ StartPatchHit(x)
        PROVE  Invalidating' = {} /\ Complete'
    <2>1. ~disturbed /\ Invalidating = {}
      BY <1>2 DEF StartMiss, StartPatchHit, TiersTyped
    <2>2. Complete
      BY <2>1 DEF Undisturbed
    <2>3. QED BY <1>2, <2>1, <2>2, ReadKeepsComplete
  <1>3. ASSUME NEW x \in Requests,
               \/ RedisGet(x) \/ RedisHit(x) \/ DbRead(x) \/ DbReadFails(x)
               \/ Loaded(x) \/ RedisSet(x) \/ SaveFails(x)
        PROVE  Invalidating' = {} /\ Complete'
    <2>1. ~disturbed /\ pc[x] \in Busy
      BY <1>3
      DEF RedisGet, RedisHit, DbRead, DbReadFails, Loaded, RedisSet, SaveFails, Busy, Labels
    <2>2. Invalidating = {} /\ Complete
      BY <2>1, NobodyInvalidates
    <2>3. QED BY <1>3, <2>2, ReadKeepsComplete
  <1>4. CASE Tick \/ ClearCache \/ DbRestart \/ UNCHANGED vars
    <2>1. /\ UNCHANGED <<db, local, redis, pc, value, disturbed>>
          /\ redis_ttl' > 0 => redis_ttl > 0
          /\ redis_ttl = 0 => redis_ttl' = 0
      BY <1>4, Times DEF Tick, ClearCache, DbRestart, vars, caches, TiersTyped
    <2>2. \A s \in Services : LocalValid(s)' => LocalValid(s)
      BY <1>4 DEF Tick, ClearCache, DbRestart, vars, caches, LocalValid
    <2>3. Invalidating' = Invalidating
      BY <2>1 DEF Invalidating
    <2>4. Complete => Complete'
      BY <2>1, <2>2 DEF Complete
    <2>5. \A r \in Requests : Alone(r) => Alone(r)'
      BY <2>1, <2>2 DEF Alone, Services
    <2>6. Invalidating \subseteq Requests
      BY DEF Invalidating
    <2>7. QED BY <2>1, <2>3, <2>4, <2>5, <2>6 DEF Undisturbed
  <1>5. QED BY <1>1, <1>2, <1>3, <1>4 DEF Next, RequestStep

LEMMA InitUndisturbed == Init => Undisturbed
  <1> SUFFICES ASSUME Init PROVE Invalidating = {} /\ Complete
    BY DEF Undisturbed
  <1>1. Invalidating = {}
    BY DEF Init, Invalidating
  <1>2. Complete
    BY Times DEF Init, Complete, LocalValid
  <1>3. QED BY <1>1, <1>2

(* After a PATCH that no other request overlapped and whose delete Redis   *)
(* took, no tier holds an older value, whatever is read, fails, expires or *)
(* is restarted around it.                                                 *)
THEOREM InvalidationsAreComplete == Spec => []InvalidationIsComplete
  <1>1. Undisturbed => InvalidationIsComplete
    BY DEF Undisturbed, Complete, InvalidationIsComplete
  <1>2. QED
    BY <1>1, InitTyped, NextTyped, InitUndisturbed, UndisturbedStep, PTL DEF Spec
=============================================================================
