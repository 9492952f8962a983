---------------------------- MODULE OrderMetadata ----------------------------
(***************************************************************************)
(* The single-flight cache of market metadata                              *)
(* (_internal/actions/orders/cache.py), for one market: tasks that ask for  *)
(* the same market share one load.  A step runs from one await to the next, *)
(* as in the asynchronous cache; threads share the loads of the synchronous *)
(* one in the same way, under its lock.  The map from assets to markets is  *)
(* the same cache without expiry: an asset keeps its market, so what a      *)
(* discard forgets is found again, and the map is left out.  A value is the *)
(* version of the market the server had published when the load read it.    *)
(***************************************************************************)
EXTENDS Naturals

CONSTANTS
  Orders,     \* the tasks that place an order
  MaxVersion, \* versions of the market the server publishes
  Without,    \* versions that do not list the asset of the orders
  MaxLoads

ASSUME VersionsAssumption ==
  MaxVersion \in Nat \ {0} /\ MaxLoads \in Nat /\ Without \subseteq 1..MaxVersion

VARIABLES
  published, \* the server's version
  cached,    \* _values: the version held, 0 for none
  newest,    \* the newest version ever held (kept by the model only)
  fresh,     \* it has not expired
  flight,    \* _inflight: the load that may be joined, 0 for none
  loads,     \* each load: unused, asking, answered, done, failed
  loaded,    \* the version a load has been answered with
  joined,    \* the load each task waits for, 0 for none
  value      \* the version get() returned to it, 0 when its load failed

cacheVars == <<published, cached, newest, fresh, flight, loads, loaded, joined, value>>

Versions == 1..MaxVersion
Loads == 1..MaxLoads

CacheTypeOK ==
  /\ published \in Versions
  /\ cached \in 0..MaxVersion
  /\ newest \in 0..MaxVersion
  /\ fresh \in BOOLEAN
  /\ flight \in 0..MaxLoads
  /\ loads \in [Loads -> {"unused", "asking", "answered", "done", "failed"}]
  /\ loaded \in [Loads -> 0..MaxVersion]
  /\ joined \in [Orders -> 0..MaxLoads]
  /\ value \in [Orders -> 0..MaxVersion]

CacheInit ==
  /\ published = 1
  /\ cached = 0
  /\ newest = 0
  /\ fresh = FALSE
  /\ flight = 0
  /\ loads = [l \in Loads |-> "unused"]
  /\ loaded = [l \in Loads |-> 0]
  /\ joined = [o \in Orders |-> 0]
  /\ value = [o \in Orders |-> 0]

Publish ==
  /\ published < MaxVersion
  /\ published' = published + 1
  /\ UNCHANGED <<cached, newest, fresh, flight, loads, loaded, joined, value>>

Expire ==
  /\ fresh
  /\ fresh' = FALSE
  /\ UNCHANGED <<published, cached, newest, flight, loads, loaded, joined, value>>

\* Mutant: every caller starts a load of its own.
JoinNone(l) == loads[l] = "unused"

\* A caller joins the load under way, or starts one.
Join(l) == IF flight # 0 THEN l = flight ELSE loads[l] = "unused"

\* get() returned the version v, from the cache or from a load, or raised:
\* _resolve_market() discards a market without the asset, whatever the cache
\* holds by now.
Returned(o, v) ==
  /\ value' = [value EXCEPT ![o] = v]
  /\ cached' = IF v \in Without THEN 0 ELSE cached

\* get() up to its await; force skips a value that is still fresh.
Hit(o, force) ==
  /\ ~force /\ cached # 0 /\ fresh
  /\ Returned(o, cached)
  /\ UNCHANGED <<published, newest, fresh, flight, loads, loaded, joined>>

Miss(o, force) ==
  /\ force \/ cached = 0 \/ ~fresh
  /\ \E l \in Loads :
       /\ Join(l)
       /\ joined' = [joined EXCEPT ![o] = l]
       /\ flight' = l
       /\ loads' = [loads EXCEPT ![l] = IF @ = "unused" THEN "asking" ELSE @]
  /\ UNCHANGED <<published, cached, newest, fresh, loaded, value>>

Ask(o, force) == Hit(o, force) \/ Miss(o, force)

\* The server answers with what it has published.
LoadAnswered(l) ==
  /\ loads[l] = "asking"
  /\ loads' = [loads EXCEPT ![l] = "answered"]
  /\ loaded' = [loaded EXCEPT ![l] = published]
  /\ UNCHANGED <<published, cached, newest, fresh, flight, joined, value>>

Landed(l) == flight' = IF flight = l THEN 0 ELSE flight

LoadStores(l) ==
  /\ loads[l] = "answered"
  /\ loads' = [loads EXCEPT ![l] = "done"]
  /\ cached' = loaded[l]
  /\ newest' = IF loaded[l] > newest THEN loaded[l] ELSE newest
  /\ fresh' = TRUE
  /\ Landed(l)
  /\ UNCHANGED <<published, loaded, joined, value>>

LoadFails(l) ==
  /\ loads[l] = "asking"
  /\ loads' = [loads EXCEPT ![l] = "failed"]
  /\ Landed(l)
  /\ UNCHANGED <<published, cached, newest, fresh, loaded, joined, value>>

\* close() of the asynchronous cache: loads under way are cancelled, and a
\* caller may start another one while they end.
CacheClose ==
  /\ flight # 0
  /\ flight' = 0
  /\ loads' = [loads EXCEPT ![flight] = "failed"]
  /\ UNCHANGED <<published, cached, newest, fresh, loaded, joined, value>>

\* The load a caller awaited has ended.
Told(o) ==
  /\ joined[o] # 0
  /\ loads[joined[o]] \in {"done", "failed"}
  /\ joined' = [joined EXCEPT ![o] = 0]
  /\ Returned(o, IF loads[joined[o]] = "done" THEN loaded[joined[o]] ELSE 0)
  /\ UNCHANGED <<published, newest, fresh, flight, loads, loaded>>

CacheStep ==
  \/ Publish
  \/ Expire
  \/ CacheClose
  \/ \E l \in Loads : LoadAnswered(l) \/ LoadStores(l) \/ LoadFails(l)

=============================================================================
