-------------------------- MODULE SearchCacheProofs --------------------------
(***************************************************************************)
(* TLAPS proofs about SearchCache, for any requests, keys, times to live,  *)
(* settings ages, latencies and numbers of changes, with Redis failing.    *)
(***************************************************************************)
EXTENDS SearchCache, TLAPS

(***************************************************************************)
(* Types                                                                   *)
(***************************************************************************)

\* The two groups of variables that few actions write together.
WorldTyped ==
    /\ corpus \in Corpus
    /\ stale_corpus \in [Corpus -> 0..StaleCap]
    /\ cache_enabled \in [Version -> BOOLEAN]
    /\ settings \in Version
    /\ stale_settings \in [Version -> 0..StaleCap]
    /\ enabled \in BOOLEAN
    /\ entry \in [Key -> Response]
    /\ ttl \in [Key -> 0..CacheTTL]
    /\ runs \in 0..MaxChanges
    /\ exposed \in BOOLEAN

RequestsTyped ==
    /\ pc \in [Requests -> {"idle", "lookup", "hit", "search", "found", "changed",
                            "scan", "patched", "patch_scan"}]
    /\ key \in [Requests -> Key \cup {NoKey}]
    /\ \A r \in Requests :
         pc[r] \in {"lookup", "hit", "search", "found"} => key[r] \in Key
    /\ used \in [Requests -> Version]
    /\ response \in [Requests -> Response]
    /\ todo \in [Requests -> SUBSET Key]
    /\ age \in [Requests -> 0..Latency]

LEMMA TypeParts == TypeOK <=> WorldTyped /\ RequestsTyped
  BY DEF TypeOK, WorldTyped, RequestsTyped

LEMMA TypePartsAfter == WorldTyped' /\ RequestsTyped' => TypeOK'
  BY DEF TypeOK, WorldTyped, RequestsTyped

LEMMA Responses ==
    /\ NoResponse \in Response
    /\ \A c \in Corpus, v \in Version : [corpus |-> c, settings |-> v] \in Response
    /\ \A x \in Response : x.corpus \in Corpus /\ x.settings \in Version
  BY CacheAssumption DEF NoResponse, Response, Corpus, Version

LEMMA StaleCapNat == StaleCap \in Nat
  BY CacheAssumption DEF StaleCap, SettingsBound

LEMMA InitTypeOK == Init => TypeOK
  <1> SUFFICES ASSUME Init PROVE WorldTyped /\ RequestsTyped
    BY TypeParts
  <1>1. /\ 0 \in Corpus /\ 0 \in Version /\ 0 \in 0..StaleCap /\ 0 \in 0..CacheTTL
        /\ 0 \in 0..Latency /\ 0 \in 0..MaxChanges
    BY CacheAssumption, StaleCapNat DEF Corpus, Version
  <1>2. WorldTyped
    BY <1>1, Responses DEF Init, WorldTyped
  <1>3. RequestsTyped
    BY <1>1, Responses DEF Init, RequestsTyped
  <1>4. QED BY <1>2, <1>3

LEMMA DoneTypes ==
    ASSUME RequestsTyped, NEW r \in Requests, Done(r)
    PROVE  RequestsTyped'
  BY CacheAssumption, Responses DEF RequestsTyped, Done, Version

(* The steps of a search keep the types.                                   *)
LEMMA SearchTypeOK ==
    ASSUME TypeOK, NEW r \in Requests,
           \/ \E k \in Key, v \in Version : Search(r, k, v)
           \/ Lookup(r) \/ ServeHit(r) \/ ReadCorpus(r) \/ SearchFails(r) \/ Store(r)
    PROVE  TypeOK'
  <1>1. WorldTyped /\ RequestsTyped
    BY TypeParts
  <1>2. ASSUME NEW k \in Key, NEW v \in Version, Search(r, k, v)
        PROVE  WorldTyped' /\ RequestsTyped'
    BY <1>1, <1>2 DEF Search, Goto, WorldTyped, RequestsTyped, world, config, cache
  <1>3. ASSUME Lookup(r) PROVE WorldTyped' /\ RequestsTyped'
    BY <1>1, <1>3
    DEF Lookup, Goto, WorldTyped, RequestsTyped, world, config, cache
  <1>4. ASSUME ServeHit(r) PROVE WorldTyped' /\ RequestsTyped'
    BY <1>1, <1>4, DoneTypes DEF ServeHit, WorldTyped, world, config, cache
  <1>5. ASSUME ReadCorpus(r) PROVE WorldTyped' /\ RequestsTyped'
    BY <1>1, <1>5, Responses
    DEF ReadCorpus, Goto, WorldTyped, RequestsTyped, world, config, cache
  <1>6. ASSUME SearchFails(r) PROVE WorldTyped' /\ RequestsTyped'
    BY <1>1, <1>6, DoneTypes DEF SearchFails, WorldTyped, world, config, cache
  <1>7. ASSUME Store(r) PROVE WorldTyped' /\ RequestsTyped'
    BY <1>1, <1>7, DoneTypes, CacheAssumption
    DEF Store, WorldTyped, RequestsTyped, world, config, cache
  <1>8. QED BY <1>2, <1>3, <1>4, <1>5, <1>6, <1>7, TypePartsAfter

(* The steps of the requests that invalidate keep the types.               *)
LEMMA ChangeTypeOK ==
    ASSUME TypeOK, NEW r \in Requests,
           \/ Delete(r) \/ RequestRun(r)
           \/ \E on \in BOOLEAN : Patch(r, on)
           \/ StartScan(r) \/ EndScan(r)
           \/ \E k \in Key : DeleteKey(r, k)
    PROVE  TypeOK'
  <1>1. WorldTyped /\ RequestsTyped
    BY TypeParts
  <1>2. ASSUME Delete(r) PROVE WorldTyped' /\ RequestsTyped'
    BY <1>1, <1>2, CacheAssumption
    DEF Delete, ChangeCorpus, Corpus, Goto, WorldTyped, RequestsTyped, config, cache
  <1>3. ASSUME RequestRun(r) PROVE WorldTyped' /\ RequestsTyped'
    BY <1>1, <1>3, CacheAssumption
    DEF RequestRun, Goto, WorldTyped, RequestsTyped, config, cache
  <1>4. ASSUME NEW on \in BOOLEAN, Patch(r, on)
        PROVE  WorldTyped' /\ RequestsTyped'
    BY <1>1, <1>4, CacheAssumption
    DEF Patch, Version, Goto, WorldTyped, RequestsTyped, world, cache
  <1>5. ASSUME StartScan(r) PROVE WorldTyped' /\ RequestsTyped'
    BY <1>1, <1>5
    DEF StartScan, Scanned, Present, Goto, WorldTyped, RequestsTyped, world, config, cache
  <1>6. ASSUME EndScan(r) PROVE WorldTyped' /\ RequestsTyped'
    BY <1>1, <1>6, DoneTypes
    DEF EndScan, WorldTyped, RequestsTyped, world, cache
  <1>7. ASSUME NEW k \in Key, DeleteKey(r, k)
        PROVE  WorldTyped' /\ RequestsTyped'
    BY <1>1, <1>7, Responses, CacheAssumption
    DEF DeleteKey, WorldTyped, RequestsTyped, world, config
  <1>8. QED BY <1>2, <1>3, <1>4, <1>5, <1>6, <1>7, TypePartsAfter

LEMMA TickTypeOK == ASSUME TypeOK, Tick PROVE TypeOK'
  <1>1. WorldTyped /\ RequestsTyped
    BY TypeParts
  <1>2. RequestsTyped'
    BY <1>1, CacheAssumption DEF Tick, RequestsTyped
  <1>3. stale_corpus' \in [Corpus -> 0..StaleCap]
    BY <1>1, StaleCapNat DEF Tick, Older, WorldTyped
  <1>4. stale_settings' \in [Version -> 0..StaleCap]
    BY <1>1, StaleCapNat DEF Tick, Older, WorldTyped
  <1>5. entry' \in [Key -> Response] /\ ttl' \in [Key -> 0..CacheTTL]
    BY <1>1, Responses, CacheAssumption DEF Tick, WorldTyped
  <1>6. QED BY <1>1, <1>2, <1>3, <1>4, <1>5, TypePartsAfter DEF Tick, WorldTyped

LEMMA NextTypeOK == TypeOK /\ [Next]_vars => TypeOK'
  <1> SUFFICES ASSUME TypeOK, [Next]_vars PROVE TypeOK'
    OBVIOUS
  <1>1. ASSUME NEW r \in Requests, RequestStep(r) PROVE TypeOK'
    BY <1>1, SearchTypeOK, ChangeTypeOK DEF RequestStep
  <1>2. CASE QueueRun
    BY <1>2, CacheAssumption DEF QueueRun, TypeOK, config, cache
  <1>3. CASE IndexingStep
    BY <1>3, CacheAssumption DEF IndexingStep, ChangeCorpus, Corpus, TypeOK, config, cache
  <1>4. CASE UNCHANGED vars
    BY <1>4 DEF vars, world, config, cache, TypeOK
  <1>5. QED BY <1>1, <1>2, <1>3, <1>4, TickTypeOK DEF Next

(* Every key, request and history variable of the response cache keeps its *)
(* type, and an entry never has more than cache_search_ttl left.           *)
THEOREM TypeCorrect == Spec => []TypeOK
  <1>1. QED BY InitTypeOK, NextTypeOK, PTL DEF Spec

(***************************************************************************)
(* Cached answers expire                                                   *)
(*                                                                         *)
(* What a request holds was replaced no longer ago than the request has    *)
(* lasted (its settings: and SettingsAge before that).  So it is when the  *)
(* request stores its response, and from then on the time the response has *)
(* left goes down as fast as its staleness goes up: their sum is constant. *)
(***************************************************************************)

\* A version that is in use, or yet to come, was not replaced.
NotReplaced == \A c \in Corpus : c >= corpus => stale_corpus[c] = 0

Held(r) ==
    /\ pc[r] \in {"lookup", "search", "found"}
         => stale_settings[used[r]] <= SettingsAge + age[r]
    /\ pc[r] = "found"
         => /\ stale_corpus[response[r].corpus] <= age[r]
            /\ stale_settings[response[r].settings] <= SettingsAge + age[r]

Hit(r) ==
    pc[r] = "hit"
      => /\ stale_corpus[response[r].corpus] <= CorpusBound + age[r]
         /\ stale_settings[response[r].settings] <= SettingsBound + age[r]

Stored(k) ==
    ttl[k] > 0
      => /\ stale_corpus[entry[k].corpus] + ttl[k] <= CacheTTL + Latency
         /\ stale_settings[entry[k].settings] + ttl[k] <= CacheTTL + Latency + SettingsAge

Ages ==
    /\ NotReplaced
    /\ \A r \in Requests : Held(r) /\ Hit(r)
    /\ \A k \in Key : Stored(k)

LEMMA InitAges == Init => Ages
  BY CacheAssumption DEF Init, Ages, NotReplaced, Held, Hit, Stored

\* What a step that lets no time pass has to show.
OthersKept(r) ==
    /\ UNCHANGED <<stale_corpus, stale_settings>>
    /\ \A q \in Requests \ {r} :
         /\ pc'[q] = pc[q] /\ used'[q] = used[q]
         /\ response'[q] = response[q] /\ age'[q] = age[q]

LEMMA OthersAges ==
    ASSUME TypeOK, Ages, NEW r \in Requests, OthersKept(r)
    PROVE  \A q \in Requests \ {r} : Held(q)' /\ Hit(q)'
  BY DEF Ages, Held, Hit, OthersKept

\* A request that is over holds nothing.
LEMMA DoneAges ==
    ASSUME TypeOK, Ages, NEW r \in Requests, Done(r), UNCHANGED <<stale_corpus, stale_settings>>
    PROVE  \A q \in Requests : Held(q)' /\ Hit(q)'
  <1>1. OthersKept(r) /\ pc'[r] = "idle"
    BY DEF Done, OthersKept, TypeOK
  <1>2. Held(r)' /\ Hit(r)'
    BY <1>1 DEF Held, Hit
  <1>3. QED BY <1>1, <1>2, OthersAges

\* Entries stay as old as they are while no time passes.
LEMMA EntriesAges ==
    ASSUME Ages, UNCHANGED <<entry, ttl, stale_corpus, stale_settings>>
    PROVE  \A k \in Key : Stored(k)'
  BY DEF Ages, Stored

LEMMA SearchAges ==
    ASSUME TypeOK, Ages, NEW r \in Requests,
           \/ \E k \in Key, v \in Version : Search(r, k, v)
           \/ Lookup(r) \/ ServeHit(r) \/ ReadCorpus(r) \/ SearchFails(r) \/ Store(r)
    PROVE  Ages'
  <1> USE DEF world, config, cache
  <1>1. NotReplaced' /\ UNCHANGED <<stale_corpus, stale_settings>>
    BY DEF Ages, NotReplaced, Search, Lookup, ServeHit, ReadCorpus, SearchFails, Store
  <1>2. ASSUME NEW k \in Key, NEW v \in Version, Search(r, k, v)
        PROVE  /\ \A q \in Requests : Held(q)' /\ Hit(q)'
               /\ \A x \in Key : Stored(x)'
    <2>1. OthersKept(r) /\ UNCHANGED <<entry, ttl>>
      BY <1>1, <1>2 DEF Search, Goto, OthersKept, TypeOK
    <2>2. /\ pc'[r] \in {"lookup", "search"} /\ used'[r] = v /\ age'[r] = age[r]
          /\ stale_settings[v] <= SettingsAge
          /\ stale_settings[v] \in Int /\ SettingsAge \in Nat /\ age[r] \in Nat
      BY <1>2, StaleCapNat, CacheAssumption DEF Search, Goto, TypeOK
    <2>3. Held(r)' /\ Hit(r)'
      BY <1>1, <2>2 DEF Held, Hit
    <2>4. QED BY <1>1, <2>1, <2>3, OthersAges, EntriesAges
  <1>3. ASSUME Lookup(r)
        PROVE  /\ \A q \in Requests : Held(q)' /\ Hit(q)'
               /\ \A x \in Key : Stored(x)'
    <2>1. OthersKept(r) /\ UNCHANGED <<entry, ttl>>
      BY <1>1, <1>3 DEF Lookup, Goto, OthersKept, TypeOK
    <2>2. CASE pc'[r] = "search"
      <3>1. /\ pc[r] = "lookup" /\ UNCHANGED <<used, response, age>>
        BY <1>3, <2>2 DEF Lookup, Goto, TypeOK
      <3>2. Held(r)' /\ Hit(r)'
        BY <1>1, <2>2, <3>1 DEF Held, Hit, Ages
      <3>3. QED BY <1>1, <2>1, <3>2, OthersAges, EntriesAges
    <2>3. CASE pc'[r] = "hit"
      <3> DEFINE e == entry[key[r]]
      <3>1. /\ key[r] \in Key /\ ttl[key[r]] > 0
            /\ response'[r] = e /\ age'[r] = age[r]
        BY <1>3, <2>3 DEF Lookup, Goto, TypeOK
      <3>2. /\ stale_corpus[e.corpus] + ttl[key[r]] <= CacheTTL + Latency
            /\ stale_settings[e.settings] + ttl[key[r]] <= CacheTTL + Latency + SettingsAge
        BY <3>1 DEF Ages, Stored
      <3>3. /\ e.corpus \in Corpus /\ e.settings \in Version
        BY <3>1, Responses DEF TypeOK
      <3>4. /\ stale_corpus[e.corpus] \in Nat /\ stale_settings[e.settings] \in Nat
            /\ ttl[key[r]] \in Nat /\ age[r] \in Nat
            /\ CacheTTL \in Nat /\ Latency \in Nat /\ SettingsAge \in Nat
        BY <3>1, <3>3, StaleCapNat, CacheAssumption DEF TypeOK
      <3>5. /\ stale_corpus[e.corpus] <= CorpusBound + age[r]
            /\ stale_settings[e.settings] <= SettingsBound + age[r]
        BY <3>1, <3>2, <3>4 DEF CorpusBound, SettingsBound
      <3>6. Held(r)' /\ Hit(r)'
        BY <1>1, <2>3, <3>1, <3>5 DEF Held, Hit
      <3>7. QED BY <1>1, <2>1, <3>6, OthersAges, EntriesAges
    <2>4. QED BY <1>3, <2>2, <2>3 DEF Lookup, Goto, TypeOK
  <1>4. ASSUME ServeHit(r) \/ SearchFails(r)
        PROVE  /\ \A q \in Requests : Held(q)' /\ Hit(q)'
               /\ \A x \in Key : Stored(x)'
    BY <1>1, <1>4, DoneAges, EntriesAges DEF ServeHit, SearchFails
  <1>5. ASSUME ReadCorpus(r)
        PROVE  /\ \A q \in Requests : Held(q)' /\ Hit(q)'
               /\ \A x \in Key : Stored(x)'
    <2>1. OthersKept(r) /\ UNCHANGED <<entry, ttl>>
      BY <1>1, <1>5 DEF ReadCorpus, Goto, OthersKept, TypeOK
    <2>2. /\ pc[r] = "search" /\ pc'[r] = "found" /\ UNCHANGED <<used, age>>
          /\ response'[r] = [corpus |-> corpus, settings |-> used[r]]
      BY <1>5 DEF ReadCorpus, Goto, TypeOK
    <2>3. stale_corpus[corpus] = 0 /\ stale_settings[used[r]] <= SettingsAge + age[r]
      BY <2>2, CacheAssumption DEF Ages, NotReplaced, Held, TypeOK, Corpus
    <2>4. age[r] \in Nat
      BY CacheAssumption DEF TypeOK
    <2>5. Held(r)' /\ Hit(r)'
      BY <1>1, <2>2, <2>3, <2>4 DEF Held, Hit
    <2>6. QED BY <1>1, <2>1, <2>5, OthersAges, EntriesAges
  <1>6. ASSUME Store(r)
        PROVE  /\ \A q \in Requests : Held(q)' /\ Hit(q)'
               /\ \A x \in Key : Stored(x)'
    <2>1. \A q \in Requests : Held(q)' /\ Hit(q)'
      BY <1>1, <1>6, DoneAges DEF Store
    <2>2. CASE UNCHANGED cache
      BY <1>1, <2>1, <2>2, EntriesAges
    <2>3. CASE /\ entry' = [entry EXCEPT ![key[r]] = response[r]]
               /\ ttl' = [ttl EXCEPT ![key[r]] = CacheTTL]
      <3> DEFINE e == response[r]
      <3>1. /\ stale_corpus[e.corpus] <= age[r]
            /\ stale_settings[e.settings] <= SettingsAge + age[r]
        BY <1>6 DEF Store, Ages, Held
      <3>2. /\ e.corpus \in Corpus /\ e.settings \in Version
        BY Responses DEF TypeOK
      <3>3. /\ stale_corpus[e.corpus] \in Nat /\ stale_settings[e.settings] \in Nat
            /\ age[r] \in Nat /\ age[r] <= Latency
            /\ CacheTTL \in Nat /\ Latency \in Nat /\ SettingsAge \in Nat
        BY <3>2, StaleCapNat, CacheAssumption DEF TypeOK
      <3>4. /\ stale_corpus[e.corpus] + CacheTTL <= CacheTTL + Latency
            /\ stale_settings[e.settings] + CacheTTL <= CacheTTL + Latency + SettingsAge
        BY <3>1, <3>3
      <3>5. ASSUME NEW x \in Key PROVE Stored(x)'
        <4>1. CASE x = key[r]
          <5>1. entry'[x] = e /\ ttl'[x] = CacheTTL
            BY <2>3, <4>1 DEF TypeOK
          <5>2. QED BY <1>1, <3>4, <5>1 DEF Stored
        <4>2. CASE x # key[r]
          <5>1. entry'[x] = entry[x] /\ ttl'[x] = ttl[x]
            BY <2>3, <4>2 DEF TypeOK
          <5>2. QED BY <1>1, <5>1 DEF Ages, Stored
        <4>3. QED BY <4>1, <4>2
      <3>6. QED BY <2>1, <3>5
    <2>4. QED BY <1>6, <2>2, <2>3 DEF Store
  <1>7. QED BY <1>1, <1>2, <1>3, <1>4, <1>5, <1>6 DEF Ages

LEMMA NewCorpus ==
    ASSUME TypeOK, NotReplaced, ChangeCorpus, UNCHANGED stale_corpus
    PROVE  NotReplaced'
  BY CacheAssumption DEF TypeOK, NotReplaced, ChangeCorpus, Corpus

LEMMA ChangeAges ==
    ASSUME TypeOK, Ages, NEW r \in Requests,
           \/ Delete(r) \/ RequestRun(r)
           \/ \E on \in BOOLEAN : Patch(r, on)
           \/ StartScan(r) \/ EndScan(r)
           \/ \E k \in Key : DeleteKey(r, k)
    PROVE  Ages'
  <1> USE DEF world, config, cache
  <1>1. NotReplaced' /\ UNCHANGED <<stale_corpus, stale_settings>>
    <2>1. CASE Delete(r)
      BY <2>1, NewCorpus DEF Delete, Ages
    <2>2. CASE ~Delete(r)
      BY <2>2 DEF RequestRun, Patch, StartScan, EndScan, DeleteKey, Ages, NotReplaced
    <2>3. QED BY <2>1, <2>2
  <1>2. CASE EndScan(r)
    BY <1>1, <1>2, DoneAges, EntriesAges DEF EndScan, Ages
  <1>3. ASSUME ~EndScan(r)
        PROVE  OthersKept(r) /\ pc'[r] \in {"changed", "patched", "scan", "patch_scan"}
    BY <1>1, <1>3
    DEF Delete, RequestRun, Patch, StartScan, DeleteKey, Goto, OthersKept, TypeOK
  <1>4. CASE ~EndScan(r)
    <2>1. Held(r)' /\ Hit(r)'
      BY <1>3, <1>4 DEF Held, Hit
    <2>2. ASSUME NEW x \in Key PROVE Stored(x)'
      <3>1. CASE ttl'[x] > 0
        <4>1. entry'[x] = entry[x] /\ ttl'[x] = ttl[x]
          <5>1. ASSUME NEW k \in Key, DeleteKey(r, k)
                PROVE  entry'[x] = entry[x] /\ ttl'[x] = ttl[x]
            <6>1. /\ entry' = [entry EXCEPT ![k] = NoResponse]
                  /\ ttl' = [ttl EXCEPT ![k] = 0]
              BY <5>1 DEF DeleteKey
            <6>2. x # k
              BY <3>1, <6>1 DEF TypeOK
            <6>3. QED BY <6>1, <6>2 DEF TypeOK
          <5>2. QED
            BY <1>4, <5>1 DEF Delete, RequestRun, Patch, StartScan
        <4>2. QED BY <1>1, <4>1 DEF Ages, Stored
      <3>2. CASE ~(ttl'[x] > 0)
        BY <3>2 DEF Stored
      <3>3. QED BY <3>1, <3>2
    <2>3. QED BY <1>1, <1>3, <1>4, <2>1, <2>2, OthersAges DEF Ages
  <1>5. QED BY <1>2, <1>4

\* A tick makes a replaced version one tick staler, and no other.
LEMMA TickOlder ==
    ASSUME TypeOK, Tick
    PROVE  /\ \A c \in Corpus :
                /\ stale_corpus[c] \in Nat /\ stale_corpus'[c] \in Nat
                /\ stale_corpus'[c] <= stale_corpus[c] + 1
                /\ c >= corpus => stale_corpus'[c] = stale_corpus[c]
           /\ \A v \in Version :
                /\ stale_settings[v] \in Nat /\ stale_settings'[v] \in Nat
                /\ stale_settings'[v] <= stale_settings[v] + 1
  <1>1. \A c \in Corpus : stale_corpus[c] \in Nat /\ c \in Int
    BY StaleCapNat, CacheAssumption DEF TypeOK, Corpus
  <1>2. \A v \in Version : stale_settings[v] \in Nat
    BY StaleCapNat DEF TypeOK
  <1>3. corpus \in Int
    BY DEF TypeOK, Corpus
  <1>4. \A c \in Corpus :
          stale_corpus'[c] = IF c < corpus /\ stale_corpus[c] < StaleCap
                             THEN stale_corpus[c] + 1 ELSE stale_corpus[c]
    BY DEF Tick, Older
  <1>5. \A v \in Version :
          stale_settings'[v] = IF v < settings /\ stale_settings[v] < StaleCap
                               THEN stale_settings[v] + 1 ELSE stale_settings[v]
    BY DEF Tick, Older
  <1>6. QED BY <1>1, <1>2, <1>3, <1>4, <1>5

LEMMA TickAges ==
    ASSUME TypeOK, Ages, Tick
    PROVE  Ages'
  <1>1. \A c \in Corpus :
          /\ stale_corpus[c] \in Nat /\ stale_corpus'[c] \in Nat
          /\ stale_corpus'[c] <= stale_corpus[c] + 1
          /\ c >= corpus => stale_corpus'[c] = stale_corpus[c]
    BY TickOlder
  <1>2. \A v \in Version :
          /\ stale_settings[v] \in Nat /\ stale_settings'[v] \in Nat
          /\ stale_settings'[v] <= stale_settings[v] + 1
    BY TickOlder
  <1>3. NotReplaced'
    <2>1. corpus' = corpus
      BY DEF Tick
    <2>2. QED BY <1>1, <2>1 DEF Ages, NotReplaced
  <1>4. ASSUME NEW r \in Requests PROVE Held(r)' /\ Hit(r)'
    <2>1. /\ pc'[r] = pc[r] /\ used'[r] = used[r] /\ response'[r] = response[r]
          /\ pc[r] # "idle" => age'[r] = age[r] + 1
      BY <1>4 DEF Tick
    <2>2. /\ used[r] \in Version /\ response[r].corpus \in Corpus
          /\ response[r].settings \in Version /\ age[r] \in Nat
      BY <1>4, Responses, CacheAssumption DEF TypeOK
    <2>3. /\ SettingsAge \in Nat /\ CorpusBound \in Int /\ SettingsBound \in Int
      BY CacheAssumption DEF CorpusBound, SettingsBound
    <2>4. Held(r) /\ Hit(r)
      BY <1>4 DEF Ages
    <2>5. Held(r)'
      BY <2>1, <2>2, <2>3, <2>4, <1>1, <1>2 DEF Held
    <2>6. Hit(r)'
      BY <2>1, <2>2, <2>3, <2>4, <1>1, <1>2 DEF Hit
    <2>7. QED BY <2>5, <2>6
  <1>5. ASSUME NEW k \in Key PROVE Stored(k)'
    <2>1. CASE ttl'[k] > 0
      <3>1. ttl[k] \in Nat /\ ttl'[k] = ttl[k] - 1 /\ entry'[k] = entry[k]
        BY <1>5, <2>1, CacheAssumption DEF Tick, TypeOK
      <3>2. entry[k].corpus \in Corpus /\ entry[k].settings \in Version
        BY <1>5, Responses DEF TypeOK
      <3>3. Stored(k)
        BY <1>5 DEF Ages
      <3>4. CacheTTL \in Nat /\ Latency \in Nat /\ SettingsAge \in Nat
        BY CacheAssumption
      <3>5. QED BY <2>1, <3>1, <3>2, <3>3, <3>4, <1>1, <1>2 DEF Stored
    <2>2. CASE ~(ttl'[k] > 0)
      BY <2>2 DEF Stored
    <2>3. QED BY <2>1, <2>2
  <1>6. QED BY <1>3, <1>4, <1>5 DEF Ages

LEMMA NextAges == TypeOK /\ Ages /\ [Next]_vars => Ages'
  <1> SUFFICES ASSUME TypeOK, Ages, [Next]_vars PROVE Ages'
    OBVIOUS
  <1>1. ASSUME NEW r \in Requests, RequestStep(r) PROVE Ages'
    BY <1>1, SearchAges, ChangeAges DEF RequestStep
  <1>2. CASE QueueRun
    BY <1>2 DEF QueueRun, Ages, NotReplaced, Held, Hit, Stored, config, cache
  <1>3. CASE IndexingStep
    <2>1. NotReplaced'
      BY <1>3, NewCorpus DEF IndexingStep, Ages
    <2>2. QED
      BY <1>3, <2>1 DEF IndexingStep, Ages, Held, Hit, Stored, config, cache
  <1>4. CASE UNCHANGED vars
    BY <1>4 DEF vars, world, config, cache, Ages, NotReplaced, Held, Hit, Stored
  <1>5. QED BY <1>1, <1>2, <1>3, <1>4, TickAges DEF Next

(* A cached response that a search serves shows documents and settings     *)
(* that went out of use no longer ago than its time to live and the time   *)
(* the requests take (the settings: and the time they are cached for).     *)
THEOREM AnswersExpire == Spec => []HitsAreRecent
  <1>1. Ages => HitsAreRecent
    BY DEF Ages, Hit, HitsAreRecent
  <1>2. QED BY <1>1, InitTypeOK, NextTypeOK, InitAges, NextAges, PTL DEF Spec

(***************************************************************************)
(* Deletes are forgotten                                                   *)
(*                                                                         *)
(* An entry that shows an older corpus is doomed: some request is about to *)
(* scan, or has scanned and has its key on its list.                       *)
(***************************************************************************)

Doomed(k) ==
    \E r \in Requests : pc[r] = "changed" \/ (pc[r] = "scan" /\ k \in todo[r])

Covered ==
    ~exposed
      => /\ \A r \in Requests : pc[r] = "found" => response[r].corpus = corpus
         /\ \A k \in Key : ttl[k] > 0 => entry[k].corpus = corpus \/ Doomed(k)

LEMMA InitCovered == Init => Covered
  BY DEF Init, Covered

\* The steps of a search put nothing older than the corpus into the cache.
LEMMA SearchCovered ==
    ASSUME TypeOK, Covered, NEW r \in Requests,
           \/ \E k \in Key, v \in Version : Search(r, k, v)
           \/ Lookup(r) \/ ServeHit(r) \/ ReadCorpus(r) \/ SearchFails(r) \/ Store(r)
    PROVE  Covered'
  <1> USE DEF world, config, cache
  <1> SUFFICES ASSUME ~exposed'
               PROVE  /\ \A q \in Requests : pc'[q] = "found" => response'[q].corpus = corpus'
                      /\ \A k \in Key : ttl'[k] > 0 => entry'[k].corpus = corpus' \/ Doomed(k)'
    BY DEF Covered
  <1>1. /\ ~exposed /\ corpus' = corpus
        /\ pc[r] \notin {"changed", "scan"}
        /\ \A q \in Requests \ {r} :
             /\ pc'[q] = pc[q]
             /\ todo'[q] = todo[q]
             /\ response'[q] = response[q]
    BY DEF Search, Lookup, ServeHit, ReadCorpus, SearchFails, Store, Goto, Done, TypeOK
  <1>2. pc'[r] = "found" => response'[r].corpus = corpus
    BY DEF Search, Lookup, ServeHit, ReadCorpus, SearchFails, Store, Goto, Done, TypeOK
  <1>3. ASSUME NEW q \in Requests, pc'[q] = "found"
        PROVE  response'[q].corpus = corpus'
    BY <1>1, <1>2, <1>3 DEF Covered
  <1>4. ASSUME NEW k \in Key, Doomed(k) PROVE Doomed(k)'
    BY <1>1, <1>4 DEF Doomed
  <1>5. ASSUME NEW k \in Key, ttl'[k] > 0
        PROVE  entry'[k].corpus = corpus' \/ Doomed(k)'
    <2>1. CASE UNCHANGED <<entry, ttl>>
      BY <1>1, <1>4, <1>5, <2>1 DEF Covered
    <2>2. CASE /\ pc[r] = "found"
               /\ entry' = [entry EXCEPT ![key[r]] = response[r]]
               /\ ttl' = [ttl EXCEPT ![key[r]] = CacheTTL]
      <3>1. CASE k = key[r]
        BY <1>1, <2>2, <3>1 DEF Covered, TypeOK
      <3>2. CASE k # key[r]
        <4>1. entry'[k] = entry[k] /\ ttl'[k] = ttl[k]
          BY <2>2, <3>2 DEF TypeOK
        <4>2. QED BY <1>1, <1>4, <1>5, <4>1 DEF Covered
      <3>3. QED BY <3>1, <3>2
    <2>3. QED
      BY <2>1, <2>2 DEF Search, Lookup, ServeHit, ReadCorpus, SearchFails, Store
  <1>6. QED BY <1>3, <1>5

\* A delete dooms every entry; the scan puts them on its list; a key that leaves
\* a list has left the cache.
LEMMA ChangeCovered ==
    ASSUME TypeOK, Covered, NEW r \in Requests,
           \/ Delete(r) \/ RequestRun(r)
           \/ \E on \in BOOLEAN : Patch(r, on)
           \/ StartScan(r) \/ EndScan(r)
           \/ \E k \in Key : DeleteKey(r, k)
    PROVE  Covered'
  <1> USE DEF world, config, cache
  <1> SUFFICES ASSUME ~exposed'
               PROVE  /\ \A q \in Requests : pc'[q] = "found" => response'[q].corpus = corpus'
                      /\ \A k \in Key : ttl'[k] > 0 => entry'[k].corpus = corpus' \/ Doomed(k)'
    BY DEF Covered
  <1>1. /\ pc'[r] # "found"
        /\ \A q \in Requests \ {r} :
             /\ pc'[q] = pc[q]
             /\ todo'[q] = todo[q]
             /\ response'[q] = response[q]
    BY DEF Delete, RequestRun, Patch, StartScan, EndScan, DeleteKey, Goto, Done, TypeOK
  <1>2. CASE Delete(r)
    <2>1. pc'[r] = "changed" /\ \A q \in Requests : pc'[q] # "found"
      BY <1>1, <1>2 DEF Delete, Goto, TypeOK
    <2>2. QED BY <2>1 DEF Doomed
  <1>3. CASE ~Delete(r)
    <2>1. ~exposed /\ corpus' = corpus
      BY <1>3 DEF RequestRun, Patch, StartScan, EndScan, DeleteKey
    <2>2. \A q \in Requests : pc'[q] = "found" => response'[q].corpus = corpus'
      BY <1>1, <2>1 DEF Covered
    <2>3. ASSUME NEW x \in Key, ttl'[x] > 0
          PROVE  /\ ttl[x] > 0 /\ entry'[x] = entry[x]
                 /\ Doomed(x) => Doomed(x)'
      <3>1. CASE RequestRun(r) \/ \E on \in BOOLEAN : Patch(r, on)
        <4>1. pc[r] = "idle" /\ UNCHANGED <<entry, ttl>>
          BY <3>1 DEF RequestRun, Patch, Goto
        <4>2. QED BY <1>1, <2>3, <4>1 DEF Doomed
      <3>2. CASE StartScan(r)
        <4>1. UNCHANGED <<entry, ttl>> /\ x \in todo'[r]
          BY <2>3, <3>2 DEF StartScan, Scanned, Present, TypeOK
        <4>2. pc[r] = "changed" => pc'[r] = "scan"
          BY <3>2 DEF StartScan, Goto, TypeOK
        <4>3. pc[r] # "scan"
          BY <3>2 DEF StartScan, Goto
        <4>4. QED BY <1>1, <2>3, <4>1, <4>2, <4>3 DEF Doomed
      <3>3. CASE EndScan(r)
        <4>1. UNCHANGED <<entry, ttl>> /\ todo[r] = {} /\ pc[r] # "changed"
          BY <2>1, <3>3 DEF EndScan
        <4>2. QED BY <1>1, <2>3, <4>1 DEF Doomed
      <3>4. ASSUME NEW k \in Key, DeleteKey(r, k)
            PROVE  /\ ttl[x] > 0 /\ entry'[x] = entry[x]
                   /\ Doomed(x) => Doomed(x)'
        <4>1. /\ entry' = [entry EXCEPT ![k] = NoResponse]
              /\ ttl' = [ttl EXCEPT ![k] = 0]
              /\ todo' = [todo EXCEPT ![r] = @ \ {k}]
              /\ pc' = pc
          BY <3>4 DEF DeleteKey
        <4>2. x # k
          BY <2>3, <4>1 DEF TypeOK
        <4>3. ttl[x] > 0 /\ entry'[x] = entry[x]
          BY <2>3, <4>1, <4>2 DEF TypeOK
        <4>4. x \in todo[r] => x \in todo'[r]
          BY <4>1, <4>2 DEF TypeOK
        <4>5. QED BY <1>1, <4>1, <4>3, <4>4 DEF Doomed
      <3>5. QED BY <1>3, <3>1, <3>2, <3>3, <3>4
    <2>4. QED BY <2>1, <2>2, <2>3 DEF Covered
  <1>4. QED BY <1>2, <1>3

LEMMA NextCovered == TypeOK /\ Covered /\ [Next]_vars => Covered'
  <1> SUFFICES ASSUME TypeOK, Covered, [Next]_vars PROVE Covered'
    OBVIOUS
  <1>1. ASSUME NEW r \in Requests, RequestStep(r) PROVE Covered'
    BY <1>1, SearchCovered, ChangeCovered DEF RequestStep
  <1>2. CASE QueueRun
    BY <1>2 DEF QueueRun, Covered, Doomed, config, cache
  <1>3. CASE IndexingStep
    BY <1>3 DEF IndexingStep, Covered
  <1>4. CASE Tick
    <2>1. ASSUME NEW k \in Key, ttl'[k] > 0
          PROVE  ttl[k] > 0 /\ entry'[k] = entry[k]
      BY <1>4, <2>1, CacheAssumption DEF Tick, TypeOK
    <2>2. QED BY <1>4, <2>1 DEF Tick, Covered, Doomed
  <1>5. CASE UNCHANGED vars
    BY <1>5 DEF vars, world, config, cache, Covered, Doomed
  <1>6. QED BY <1>1, <1>2, <1>3, <1>4, <1>5 DEF Next

(* After a delete request, a key-by-key invalidation that overlaps with    *)
(* searches leaves no response in the cache that was found before, unless  *)
(* a search held one, a worker indexed, or Redis failed.                   *)
THEOREM DeletesForgotten == Spec => []DeletesAreForgotten
  <1>1. TypeOK /\ Covered => DeletesAreForgotten
    <2> SUFFICES ASSUME TypeOK, Covered, ~exposed, Invalidating = {},
                        NEW k \in Present
                 PROVE  entry[k].corpus = corpus
      BY DEF DeletesAreForgotten
    <2>1. ~Doomed(k)
      BY DEF Doomed, Invalidating
    <2>2. QED BY <2>1 DEF Covered, Present
  <1>2. QED BY <1>1, InitTypeOK, NextTypeOK, InitCovered, NextCovered, PTL DEF Spec

=============================================================================
