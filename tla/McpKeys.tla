------------------------------ MODULE McpKeys -------------------------------
(***************************************************************************)
(* API keys of the MCP endpoints: mcp_apikeys.go, mcp_middleware.go.       *)
(*                                                                         *)
(* A key is looked up in a cache of answers; on a miss the bucket is read  *)
(* and the answer cached for cacheTTL.  Creating, deleting or disabling a  *)
(* key changes the bucket and then empties the cache.  Nothing holds the   *)
(* two together, so a lookup can read the bucket before a deletion and     *)
(* cache what it read after it.  A lookup takes at most MaxLookup ticks    *)
(* from the bucket to the cache.                                           *)
(*                                                                         *)
(* A key has been made or not, and is then live or dead: deleted,          *)
(* disabled or expired.  Static keys are accepted without any of this.     *)
(***************************************************************************)
EXTENDS Integers

CONSTANTS
  McpKeyIds,   \* keys
  Lookups,     \* handlers that validate a key
  Admins,      \* handlers that change one
  NoKey,       \* "no entry", "no key"
  CacheTTL,    \* m.cacheTTL
  MaxLookup,   \* bound on the time of a lookup
  MaxTick      \* bound on the clock

ASSUME McpKeysAssumption == CacheTTL \in Nat \ {0} /\ MaxLookup \in Nat /\ MaxTick \in Nat
ASSUME NoKeyAssumption == NoKey \notin McpKeyIds \cup Nat

VARIABLES
  tick,
  keyState,   \* the bucket: "none", "live", "dead"
  keyCache,   \* m.cache: [valid, until] or NoKey
  lookup,     \* [Lookups -> [pc, key, valid, at]]
  admin,      \* [Admins -> [pc, key, to]]
  dead,       \* history: [key -> time its deletion was answered, or NoKey]
  crossed,    \* history: keys some lookup of which was under way then
  accepted    \* history: [key -> last time it was accepted after that, or NoKey]

mcpVars == <<tick, keyState, keyCache, lookup, admin, dead, crossed, accepted>>

LookupIdle == [pc |-> "idle", key |-> NoKey, valid |-> FALSE, at |-> 0]
AdminIdle == [pc |-> "idle", key |-> NoKey, to |-> "none"]
EmptyCache == [k \in McpKeyIds |-> NoKey]

McpInit ==
  /\ tick = 0
  /\ keyState = [k \in McpKeyIds |-> "none"] /\ keyCache = EmptyCache
  /\ lookup = [l \in Lookups |-> LookupIdle] /\ admin = [a \in Admins |-> AdminIdle]
  /\ dead = [k \in McpKeyIds |-> NoKey] /\ crossed = {} /\ accepted = [k \in McpKeyIds |-> NoKey]

\* time.Now: a lookup does not take for ever.
McpTick ==
  /\ tick < MaxTick /\ tick' = tick + 1
  /\ \A l \in Lookups : lookup[l].pc # "idle" => tick < lookup[l].at + MaxLookup
  /\ UNCHANGED <<keyState, keyCache, lookup, admin, dead, crossed, accepted>>

-----------------------------------------------------------------------------
Accepts(k) ==
  accepted' = IF dead[k] = NoKey THEN accepted ELSE [accepted EXCEPT ![k] = tick]

\* validateFromStore: an answer in the cache that has not run out; a refusal changes nothing.
CacheHit(k) ==
  /\ keyCache[k] # NoKey /\ tick < keyCache[k].until /\ keyCache[k].valid
  /\ Accepts(k)
  /\ UNCHANGED <<tick, keyState, keyCache, lookup, admin, dead, crossed>>

\* Otherwise the bucket is read ...
LookupStore(l, k) ==
  /\ lookup[l].pc = "idle"
  /\ IF keyCache[k] = NoKey THEN TRUE ELSE tick >= keyCache[k].until
  /\ lookup' = [lookup EXCEPT ![l] = [pc |-> "cache", key |-> k, valid |-> keyState[k] = "live",
                                      at |-> tick]]
  /\ UNCHANGED <<tick, keyState, keyCache, admin, dead, crossed, accepted>>

\* ... and the answer is cached and given.
LookupCache(l) ==
  /\ lookup[l].pc = "cache"
  /\ LET k == lookup[l].key IN
       /\ keyCache' = [keyCache EXCEPT ![k] = [valid |-> lookup[l].valid, until |-> tick + CacheTTL]]
       /\ IF lookup[l].valid THEN Accepts(k) ELSE UNCHANGED accepted
  /\ lookup' = [lookup EXCEPT ![l] = LookupIdle]
  /\ UNCHANGED <<tick, keyState, admin, dead, crossed>>

-----------------------------------------------------------------------------
\* Mutant: the cache is emptied before the bucket is changed.
ChangeKeyLast(a, k, to) ==
  /\ \/ /\ admin[a].pc = "idle" /\ keyState[k] = "live" /\ to = "dead"
        /\ keyCache' = EmptyCache
        /\ admin' = [admin EXCEPT ![a] = [pc |-> "last", key |-> k, to |-> to]]
        /\ UNCHANGED <<keyState, dead, crossed>>
     \/ /\ admin[a].pc = "last" /\ admin[a].key = k /\ to = "dead"
        /\ keyState' = [keyState EXCEPT ![k] = "dead"]
        /\ dead' = [dead EXCEPT ![k] = tick]
        /\ crossed' = IF \E l \in Lookups : lookup[l].key = k THEN crossed \cup {k} ELSE crossed
        /\ admin' = [admin EXCEPT ![a] = AdminIdle]
        /\ UNCHANGED keyCache
     \/ /\ admin[a].pc = "idle" /\ keyState[k] = "none" /\ to = "live"
        /\ keyState' = [keyState EXCEPT ![k] = "live"]
        /\ UNCHANGED <<keyCache, admin, dead, crossed>>
  /\ UNCHANGED <<tick, lookup, accepted>>

\* Create, Delete and Disable: the transaction ...
ChangeKey(a, k, to) ==
  /\ admin[a].pc = "idle"
  /\ <<keyState[k], to>> \in {<<"none", "live">>, <<"live", "dead">>}
  /\ keyState' = [keyState EXCEPT ![k] = to]
  /\ admin' = [admin EXCEPT ![a] = [pc |-> "invalidate", key |-> k, to |-> to]]
  /\ UNCHANGED <<tick, keyCache, lookup, dead, crossed, accepted>>

\* ... then InvalidateCache and the answer.
InvalidateCache(a) ==
  /\ admin[a].pc = "invalidate"
  /\ LET k == admin[a].key IN
       IF admin[a].to = "dead"
         THEN /\ dead' = [dead EXCEPT ![k] = tick]
              /\ crossed' = IF \E l \in Lookups : lookup[l].key = k THEN crossed \cup {k} ELSE crossed
         ELSE UNCHANGED <<dead, crossed>>
  /\ keyCache' = EmptyCache
  /\ admin' = [admin EXCEPT ![a] = AdminIdle]
  /\ UNCHANGED <<tick, keyState, lookup, accepted>>

McpNext ==
  \/ McpTick
  \/ \E k \in McpKeyIds : CacheHit(k)
  \/ \E l \in Lookups : LookupCache(l) \/ \E k \in McpKeyIds : LookupStore(l, k)
  \/ \E a \in Admins : \/ InvalidateCache(a)
                       \/ \E k \in McpKeyIds, to \in {"live", "dead"} : ChangeKey(a, k, to)

McpSpec == McpInit /\ [][McpNext]_mcpVars

-----------------------------------------------------------------------------
\* MCP.md: "lookups cached for `MDDB_MCP_API_KEY_CACHE_TTL` (default 60s), auto-invalidated on
\* create/delete/disable".  A key whose deletion has been answered is refused from then on
\* (validateFromStore, InvalidateCache, handleMCPAPIKeyDelete); if a lookup of it was under way
\* at that moment, it is refused once the lookup's answer has run out, a lookup and a cacheTTL
\* later at the latest.
DeletedKeyRefused ==
  \A k \in McpKeyIds : accepted[k] # NoKey =>
    /\ k \in crossed
    /\ accepted[k] < dead[k] + MaxLookup + CacheTTL
=============================================================================
