----------------------------- MODULE SearchCache -----------------------------
(***************************************************************************)
(* The cache of search responses: POST /search (backend/app/api/search.py) *)
(* with the search part of CacheService (services/cache.py), and the       *)
(* requests that are to invalidate it: changes of documents                *)
(* (api/documents.py) and of settings (api/settings.py), and the manual    *)
(* clear (api/monitoring.py).                                              *)
(*                                                                         *)
(* What a search finds is abstracted to the version of the corpus it read  *)
(* and the version of the settings it worked with.  The corpus changes     *)
(* when a delete cache_enabled and whenever a worker indexes, which              *)
(* DocumentIndexing details; a search may be given settings as old as      *)
(* SettingsCache shows get_settings can return.                            *)
(*                                                                         *)
(* A key is a hash of the text and of some of the settings, with the       *)
(* overrides of the request applied.  Requests that differ in what is not  *)
(* hashed (guardrails, system prompt, thresholds) share a key, and through *)
(* its overrides a request can have the key of any settings: so which key  *)
(* a search uses does not depend on the version of the settings.           *)
(***************************************************************************)
EXTENDS Integers

CONSTANTS
    Requests,       \* the coroutines that may be serving a request
    Key,            \* the keys of responses
    CacheTTL,       \* cache_search_ttl, in clock ticks (3600 seconds)
    SettingsAge,    \* how long settings that were overwritten stay in use
    Latency,        \* bound: ticks a request may take
    MaxChanges,     \* bound: changes of the corpus
    MaxPatches,     \* bound: PATCHes of the settings
    Faults,         \* a subset of {"redis_error"}: a Redis call fails
    NoKey           \* the key of a request that does not search

ASSUME CacheAssumption ==
    /\ CacheTTL \in Nat \ {0}
    /\ SettingsAge \in Nat
    /\ Latency \in Nat
    /\ MaxChanges \in Nat
    /\ MaxPatches \in Nat
    /\ Faults \subseteq {"redis_error"}
    /\ NoKey \notin Key

Corpus == 0..MaxChanges
Version == 0..MaxPatches

Response == [corpus : Corpus, settings : Version]

VARIABLES
    corpus,         \* the version of what can be searched
    stale_corpus,   \* ticks since each version of it was replaced
    cache_enabled,  \* the field of each version of the settings
    settings,       \* the version in the row
    stale_settings, \* ticks since each version of them was replaced
    enabled,        \* CacheService._enabled
    entry,          \* the response under each key
    ttl,            \* ticks it has left; 0 when the key is absent
    runs,           \* indexing runs that are queued or in progress
    pc,             \* the await each request is at
    key,            \* the key of what it searches for
    used,           \* the version of the settings it works with
    response,       \* what it has found
    todo,           \* the keys an invalidation has found and not yet deleted
    age,            \* ticks since the request started
    exposed         \* history: an older response may be stored, or survive

world == <<corpus, stale_corpus, runs>>
config == <<cache_enabled, settings, stale_settings, enabled>>
cache == <<entry, ttl>>
vars == <<world, config, cache, pc, key, used, response, todo, age, exposed>>

NoResponse == [corpus |-> 0, settings |-> 0]

\* The bounds of HitsAreRecent.
CorpusBound == CacheTTL - 1 + Latency
SettingsBound == CacheTTL - 1 + Latency + SettingsAge
StaleCap == SettingsBound + Latency + 1

\* Requests that are to invalidate the cache and have not finished.
Invalidating == {r \in Requests : pc[r] \in {"changed", "scan", "patched", "patch_scan"}}

Init ==
    /\ corpus = 0
    /\ stale_corpus = [c \in Corpus |-> 0]
    /\ cache_enabled = [v \in Version |-> TRUE]
    /\ settings = 0
    /\ stale_settings = [v \in Version |-> 0]
    /\ enabled = TRUE
    /\ entry = [k \in Key |-> NoResponse]
    /\ ttl = [k \in Key |-> 0]
    /\ runs = 0
    /\ pc = [r \in Requests |-> "idle"]
    /\ key = [r \in Requests |-> NoKey]
    /\ used = [r \in Requests |-> 0]
    /\ response = [r \in Requests |-> NoResponse]
    /\ todo = [r \in Requests |-> {}]
    /\ age = [r \in Requests |-> 0]
    /\ exposed = FALSE

Goto(r, from, to) ==
    /\ pc[r] = from
    /\ pc' = [pc EXCEPT ![r] = to]

\* The response is sent.
Done(r) ==
    /\ pc' = [pc EXCEPT ![r] = "idle"]
    /\ key' = [key EXCEPT ![r] = NoKey]
    /\ used' = [used EXCEPT ![r] = 0]
    /\ response' = [response EXCEPT ![r] = NoResponse]
    /\ todo' = [todo EXCEPT ![r] = {}]
    /\ age' = [age EXCEPT ![r] = 0]

-----------------------------------------------------------------------------
(***************************************************************************)
(* POST /search                                                            *)
(***************************************************************************)

\* get_settings returns, and decides whether the cache is looked at.
Search(r, k, v) ==
    /\ stale_settings[v] <= SettingsAge
    /\ v <= settings
    /\ Goto(r, "idle", IF cache_enabled[v] /\ enabled THEN "lookup" ELSE "search")
    /\ key' = [key EXCEPT ![r] = k]
    /\ used' = [used EXCEPT ![r] = v]
    /\ UNCHANGED <<world, config, cache, response, todo, age, exposed>>

\* CacheService.get_search: a hit, or a miss or an error.
Lookup(r) ==
    \/ /\ Goto(r, "lookup", "hit")
       /\ ttl[key[r]] > 0
       /\ response' = [response EXCEPT ![r] = entry[key[r]]]
       /\ UNCHANGED <<world, config, cache, key, used, todo, age, exposed>>
    \/ /\ Goto(r, "lookup", "search")
       /\ ttl[key[r]] = 0 \/ "redis_error" \in Faults
       /\ UNCHANGED <<world, config, cache, key, used, response, todo, age, exposed>>

\* Mutant: a hit is stored again, so that popular answers live for ever.
ServeHit_refresh(r) ==
    /\ pc[r] = "hit"
    /\ entry' = [entry EXCEPT ![key[r]] = response[r]]
    /\ ttl' = [ttl EXCEPT ![key[r]] = CacheTTL]
    /\ Done(r)
    /\ UNCHANGED <<world, config, exposed>>

\* The cached response is sent.
ServeHit(r) ==
    /\ pc[r] = "hit"
    /\ Done(r)
    /\ UNCHANGED <<world, config, cache, exposed>>

\* orchestrator.search reads the corpus, then takes its time.
ReadCorpus(r) ==
    /\ Goto(r, "search", "found")
    /\ response' = [response EXCEPT ![r] = [corpus |-> corpus, settings |-> used[r]]]
    /\ UNCHANGED <<world, config, cache, key, used, todo, age, exposed>>

\* A stage raises: the request ends with an error.
SearchFails(r) ==
    /\ pc[r] \in {"search", "found"}
    /\ Done(r)
    /\ UNCHANGED <<world, config, cache, exposed>>

\* CacheService.set_search, and the response is sent.
Store(r) ==
    /\ pc[r] = "found"
    /\ \/ /\ cache_enabled[used[r]] /\ enabled
          /\ entry' = [entry EXCEPT ![key[r]] = response[r]]
          /\ ttl' = [ttl EXCEPT ![key[r]] = CacheTTL]
       \/ /\ ~cache_enabled[used[r]] \/ ~enabled \/ "redis_error" \in Faults
          /\ UNCHANGED cache
    /\ Done(r)
    /\ UNCHANGED <<world, config, exposed>>

-----------------------------------------------------------------------------
(***************************************************************************)
(* Changes of documents and settings, and their invalidations              *)
(***************************************************************************)

\* The searchable chunks change.
ChangeCorpus ==
    /\ corpus < MaxChanges
    /\ corpus' = corpus + 1

\* delete_document: the row and its chunks are gone.
Delete(r) ==
    /\ Goto(r, "idle", "changed")
    /\ ChangeCorpus
    /\ exposed' = (\E q \in Requests : pc[q] = "found")
    /\ UNCHANGED <<stale_corpus, runs, config, cache, key, used, response, todo, age>>

\* upload_document and reindex_document: a run is queued, nothing has changed yet.
RequestRun(r) ==
    /\ Goto(r, "idle", "changed")
    /\ runs < MaxChanges
    /\ runs' = runs + 1
    /\ UNCHANGED <<corpus, stale_corpus, config, cache, key, used, response, todo, age, exposed>>

\* reindex-all and the directory watcher queue runs and leave the cache alone.
QueueRun ==
    /\ runs < MaxChanges
    /\ runs' = runs + 1
    /\ UNCHANGED <<corpus, stale_corpus, config, cache, pc, key, used, response, todo, age, exposed>>

\* A worker deletes old chunks or writes new ones; it knows no cache.
IndexingStep ==
    /\ runs > 0
    /\ ChangeCorpus
    /\ runs' \in {runs, runs - 1}
    /\ exposed' = TRUE
    /\ UNCHANGED <<stale_corpus, config, cache, pc, key, used, response, todo, age>>

\* update_settings commits the new settings.
Patch(r, on) ==
    /\ Goto(r, "idle", "patched")
    /\ settings < MaxPatches
    /\ settings' = settings + 1
    /\ cache_enabled' = [cache_enabled EXCEPT ![settings + 1] = on]
    /\ used' = [used EXCEPT ![r] = settings + 1]
    /\ UNCHANGED <<world, stale_settings, enabled, cache, key, response, todo, age, exposed>>

Present == {k \in Key : ttl[k] > 0}

\* Mutant: only the first page of the scan is looked at.
Scanned_page == IF Present = {} THEN {} ELSE {CHOOSE k \in Present : TRUE}

\* scan_iter returns every key that is there from beginning to end.
Scanned == Present

\* invalidate_search after a change of documents or settings, or invalidate_all.
StartScan(r) ==
    /\ \/ Goto(r, "changed", "scan")
       \/ Goto(r, "patched", "patch_scan")
       \/ Goto(r, "idle", "scan")
    /\ todo' = [todo EXCEPT ![r] = Scanned]
    /\ UNCHANGED <<world, config, cache, key, used, response, age, exposed>>

\* One key is deleted; one that was added since the scan began may be met as well.
DeleteKey(r, k) ==
    /\ pc[r] \in {"scan", "patch_scan"}
    /\ k \in todo[r] \cup Present
    /\ todo' = [todo EXCEPT ![r] = @ \ {k}]
    /\ entry' = [entry EXCEPT ![k] = NoResponse]
    /\ ttl' = [ttl EXCEPT ![k] = 0]
    /\ UNCHANGED <<world, config, pc, key, used, response, age, exposed>>

\* The scan is over, or Redis fails in the middle of it, which nobody is told.
EndScan(r) ==
    /\ pc[r] \in {"scan", "patch_scan"}
    /\ \/ todo[r] = {} /\ UNCHANGED exposed
       \/ "redis_error" \in Faults /\ exposed' = TRUE
    /\ enabled' = IF pc[r] = "patch_scan" THEN cache_enabled[used[r]] ELSE enabled
    /\ Done(r)
    /\ UNCHANGED <<world, cache_enabled, settings, stale_settings, cache>>

-----------------------------------------------------------------------------
Older(v, current, stale) ==
    [x \in v |-> IF x < current /\ stale[x] < StaleCap THEN stale[x] + 1 ELSE stale[x]]

\* One tick; no request is older than Latency.
Tick ==
    /\ \A r \in Requests : pc[r] = "idle" \/ age[r] < Latency
    /\ stale_corpus' = Older(Corpus, corpus, stale_corpus)
    /\ stale_settings' = Older(Version, settings, stale_settings)
    /\ entry' = [k \in Key |-> IF ttl[k] > 1 THEN entry[k] ELSE NoResponse]
    /\ ttl' = [k \in Key |-> IF ttl[k] > 0 THEN ttl[k] - 1 ELSE 0]
    /\ age' = [r \in Requests |-> IF pc[r] = "idle" THEN 0 ELSE age[r] + 1]
    /\ UNCHANGED <<corpus, runs, cache_enabled, settings, enabled, pc, key, used,
                   response, todo, exposed>>

RequestStep(r) ==
    \/ \E k \in Key, v \in Version : Search(r, k, v)
    \/ Lookup(r) \/ ServeHit(r) \/ ReadCorpus(r) \/ SearchFails(r) \/ Store(r)
    \/ Delete(r) \/ RequestRun(r)
    \/ \E on \in BOOLEAN : Patch(r, on)
    \/ StartScan(r) \/ EndScan(r)
    \/ \E k \in Key : DeleteKey(r, k)

Next ==
    \/ \E r \in Requests : RequestStep(r)
    \/ QueueRun
    \/ IndexingStep
    \/ Tick

Spec == Init /\ [][Next]_vars

-----------------------------------------------------------------------------
(***************************************************************************)
(* Properties                                                              *)
(***************************************************************************)

(* Every entry, request and history variable stays in its type.            *)
TypeOK ==
    /\ corpus \in Corpus
    /\ stale_corpus \in [Corpus -> 0..StaleCap]
    /\ cache_enabled \in [Version -> BOOLEAN]
    /\ settings \in Version
    /\ stale_settings \in [Version -> 0..StaleCap]
    /\ enabled \in BOOLEAN
    /\ entry \in [Key -> Response]
    /\ ttl \in [Key -> 0..CacheTTL]
    /\ runs \in 0..MaxChanges
    /\ pc \in [Requests -> {"idle", "lookup", "hit", "search", "found", "changed",
                            "scan", "patched", "patch_scan"}]
    /\ key \in [Requests -> Key \cup {NoKey}]
    /\ \A r \in Requests :
         pc[r] \in {"lookup", "hit", "search", "found"} => key[r] \in Key
    /\ used \in [Requests -> Version]
    /\ response \in [Requests -> Response]
    /\ todo \in [Requests -> SUBSET Key]
    /\ age \in [Requests -> 0..Latency]
    /\ exposed \in BOOLEAN

(* A search never serves a cached response whose documents were replaced   *)
(* longer ago than the time to live and the time a search and the serving  *)
(* request take, nor one made with settings that went out of use longer    *)
(* ago than that: also when a search that was under way stores what it     *)
(* found after the invalidation, when Redis loses the invalidation, and    *)
(* when an indexing run ends that invalidates nothing.                     *)
HitsAreRecent ==
    \A r \in Requests :
      pc[r] = "hit"
        => /\ stale_corpus[response[r].corpus] <= CorpusBound + age[r]
           /\ stale_settings[response[r].settings] <= SettingsBound + age[r]

(* A deleted document is forgotten at once: when no search was holding     *)
(* what it had found as the delete committed, no worker has indexed since, *)
(* and no Redis call of an invalidation failed, no response is left that   *)
(* was found before the delete.                                            *)
DeletesAreForgotten ==
    (~exposed /\ Invalidating = {})
      => \A k \in Present : entry[k].corpus = corpus
=============================================================================
