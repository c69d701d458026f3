--------------------------- MODULE ServiceProofs ----------------------------
(***************************************************************************)
(* Proofs about the services around the document store.                    *)
(*                                                                         *)
(* Keys and who is let in: the API keys of the MCP endpoints, for any      *)
(* number of keys, lookups and administrators and any cache lifetime; the  *)
(* users, keys, permissions, groups and tenants of the auth manager, for   *)
(* any number of them and of requests in progress; and the rotation of the *)
(* encryption keys, for any documents, jobs, writes and restarts.          *)
(*                                                                         *)
(* What is told of the store: the events hub, for any number of            *)
(* connections, events and users, the audit trail, for any capacities of   *)
(* its queues, the log of automations, for any number of firings, attempts *)
(* and pages, and triggers, for any rules, documents and requests.         *)
(***************************************************************************)
EXTENDS McpKeys, Auth, KeyRotation, EventHub, Audit, Triggers, FiniteSetTheorems, FunctionTheorems,
        SequenceTheorems, TLAPS

-----------------------------------------------------------------------------
(* API keys of the MCP endpoints. *)

CacheEntry == [valid : BOOLEAN, until : Nat]
McpLookup == [pc : {"idle", "cache"}, key : McpKeyIds \cup {NoKey}, valid : BOOLEAN, at : Nat]
McpAdmin == [pc : {"idle", "invalidate"}, key : McpKeyIds \cup {NoKey}, to : {"none", "live", "dead"}]

McpTyped ==
  /\ tick \in Nat
  /\ keyState \in [McpKeyIds -> {"none", "live", "dead"}]
  /\ keyCache \in [McpKeyIds -> CacheEntry \cup {NoKey}]
  /\ lookup \in [Lookups -> McpLookup]
  /\ admin \in [Admins -> McpAdmin]
  /\ dead \in [McpKeyIds -> Nat \cup {NoKey}]
  /\ crossed \in SUBSET McpKeyIds
  /\ accepted \in [McpKeyIds -> Nat \cup {NoKey}]

\* A lookup under way began at most MaxLookup ago and has a key.
LookupsInTime ==
  \A l \in Lookups : lookup[l].pc = "cache" =>
    lookup[l].key \in McpKeyIds /\ lookup[l].at <= tick /\ tick <= lookup[l].at + MaxLookup

\* A key never comes back: while its deletion is answered, and after that, the bucket refuses it.
DeadForGood ==
  /\ \A a \in Admins : admin[a].pc = "invalidate" =>
       admin[a].key \in McpKeyIds /\ (admin[a].to = "dead" => keyState[admin[a].key] = "dead")
  /\ \A k \in McpKeyIds : dead[k] # NoKey => keyState[k] = "dead" /\ dead[k] <= tick

\* Only a lookup that was under way when the deletion was answered still says that a dead key is
\* valid, ...
LateLookups ==
  \A l \in Lookups : (lookup[l].pc = "cache" /\ lookup[l].valid) =>
    LET k == lookup[l].key IN dead[k] # NoKey => k \in crossed /\ lookup[l].at <= dead[k]

\* ... and only what such a lookup left in the cache does.
LateAnswers ==
  \A k \in McpKeyIds : (keyCache[k] # NoKey /\ dead[k] # NoKey) =>
    (keyCache[k].valid => k \in crossed /\ keyCache[k].until <= dead[k] + MaxLookup + CacheTTL)

\* A key that is not dead has not been accepted as a dead one.
AcceptedIsDead == \A k \in McpKeyIds : accepted[k] # NoKey => dead[k] # NoKey

McpInv ==
  /\ McpTyped /\ LookupsInTime /\ DeadForGood /\ LateLookups /\ LateAnswers /\ AcceptedIsDead
  /\ DeletedKeyRefused

-----------------------------------------------------------------------------
\* The invariant holds when nothing was looked up.
LEMMA McpInvInit == McpInit => McpInv
<1> SUFFICES ASSUME McpInit PROVE McpInv
  OBVIOUS
<1>1. LookupIdle \in McpLookup /\ AdminIdle \in McpAdmin /\ LookupIdle.pc = "idle"
      /\ AdminIdle.pc = "idle"
  <2>1. FALSE \in BOOLEAN
    BY Zenon
  <2>2. QED BY <2>1 DEF LookupIdle, AdminIdle, McpLookup, McpAdmin
<1>2. McpTyped
  BY <1>1 DEF McpInit, McpTyped, EmptyCache
<1>3. QED
  BY <1>1, <1>2
     DEF McpInit, McpInv, LookupsInTime, DeadForGood, LateLookups, LateAnswers, AcceptedIsDead,
         DeletedKeyRefused, EmptyCache

\* The clock waits for lookups, and every bound is about times that have passed.
LEMMA McpTickKeeps ==
  ASSUME McpInv, McpTick
  PROVE  McpInv'
<1>1. tick' = tick + 1 /\ UNCHANGED <<keyState, keyCache, lookup, admin, dead, crossed, accepted>>
      /\ \A l \in Lookups : lookup[l].pc # "idle" => tick < lookup[l].at + MaxLookup
  BY DEF McpTick
<1>2. McpTyped' /\ tick \in Nat /\ MaxLookup \in Nat
  BY <1>1, McpKeysAssumption DEF McpInv, McpTyped
<1>3. \A l \in Lookups : lookup[l].at \in Nat
  BY DEF McpInv, McpTyped, McpLookup
<1>4. LookupsInTime'
  BY <1>1, <1>2, <1>3 DEF McpInv, LookupsInTime
<1>5. \A k \in McpKeyIds : dead[k] \in Nat \cup {NoKey}
  BY DEF McpInv, McpTyped
<1>6. DeadForGood'
  BY <1>1, <1>2, <1>5 DEF McpInv, DeadForGood
<1>7. QED
  BY <1>1, <1>2, <1>4, <1>6
     DEF McpInv, LateLookups, LateAnswers, AcceptedIsDead, DeletedKeyRefused

\* An acceptance before the bound on a key that a lookup had crossed is allowed for.
LEMMA AcceptsKeeps ==
  ASSUME McpInv, NEW k \in McpKeyIds, Accepts(k), UNCHANGED <<dead, crossed>>,
         dead[k] # NoKey => k \in crossed /\ tick < dead[k] + MaxLookup + CacheTTL
  PROVE  accepted' \in [McpKeyIds -> Nat \cup {NoKey}] /\ AcceptedIsDead' /\ DeletedKeyRefused'
<1>1. CASE dead[k] = NoKey
  BY <1>1 DEF Accepts, McpInv, McpTyped, AcceptedIsDead, DeletedKeyRefused
<1>2. CASE dead[k] # NoKey
  <2>1. accepted' = [accepted EXCEPT ![k] = tick] /\ tick \in Nat
        /\ accepted \in [McpKeyIds -> Nat \cup {NoKey}]
    BY <1>2 DEF Accepts, McpInv, McpTyped
  <2>2. accepted'[k] = tick /\ \A i \in McpKeyIds : i # k => accepted'[i] = accepted[i]
    BY <2>1
  <2>3. QED
    BY <1>2, <2>1, <2>2 DEF McpInv, AcceptedIsDead, DeletedKeyRefused
<1>3. QED BY <1>1, <1>2

\* An answer from the cache comes within the life of its entry.
LEMMA CacheHitKeeps ==
  ASSUME McpInv, NEW k \in McpKeyIds, CacheHit(k)
  PROVE  McpInv'
<1>1. /\ keyCache[k] # NoKey /\ tick < keyCache[k].until /\ keyCache[k].valid /\ Accepts(k)
      /\ UNCHANGED <<tick, keyState, keyCache, lookup, admin, dead, crossed>>
  BY DEF CacheHit
<1>2. /\ tick \in Nat /\ keyCache[k].until \in Nat /\ MaxLookup \in Nat /\ CacheTTL \in Nat
      /\ dead[k] \in Nat \cup {NoKey}
  BY <1>1, McpKeysAssumption DEF McpInv, McpTyped, CacheEntry
<1>3. dead[k] # NoKey => k \in crossed /\ tick < dead[k] + MaxLookup + CacheTTL
  BY <1>1, <1>2 DEF McpInv, LateAnswers
<1>4. accepted' \in [McpKeyIds -> Nat \cup {NoKey}] /\ AcceptedIsDead' /\ DeletedKeyRefused'
  BY <1>1, <1>3, AcceptsKeeps
<1>5. McpTyped'
  BY <1>1, <1>4 DEF McpInv, McpTyped
<1>6. QED
  BY <1>1, <1>4, <1>5 DEF McpInv, LookupsInTime, DeadForGood, LateLookups, LateAnswers

\* A lookup that begins reads the bucket, which refuses dead keys.
LEMMA LookupStoreKeeps ==
  ASSUME McpInv, NEW l \in Lookups, NEW k \in McpKeyIds, LookupStore(l, k)
  PROVE  McpInv'
<1> DEFINE r == [pc |-> "cache", key |-> k, valid |-> keyState[k] = "live", at |-> tick]
<1>1. /\ lookup' = [lookup EXCEPT ![l] = r]
      /\ UNCHANGED <<tick, keyState, keyCache, admin, dead, crossed, accepted>>
  BY DEF LookupStore
<1>2. McpTyped
  BY DEF McpInv
<1>3. r \in McpLookup
  <2>1. (keyState[k] = "live") \in BOOLEAN
    BY Zenon
  <2>2. QED BY <1>2, <2>1 DEF McpTyped, McpLookup
<1>4. r.pc = "cache" /\ r.key = k /\ r.at = tick /\ (r.valid => keyState[k] = "live")
  OBVIOUS
<1> HIDE DEF r
<1>5. lookup'[l] = r /\ \A i \in Lookups : i # l => lookup'[i] = lookup[i]
  BY <1>1, <1>2 DEF McpTyped
<1>6. McpTyped'
  BY <1>1, <1>2, <1>3 DEF McpTyped
<1>7. LookupsInTime'
  <2>1. tick \in Nat /\ MaxLookup \in Nat
    BY <1>2, McpKeysAssumption DEF McpTyped
  <2>2. tick <= tick /\ tick <= tick + MaxLookup
    BY <2>1
  <2>3. QED
    BY <1>1, <1>4, <1>5, <2>2 DEF McpInv, LookupsInTime
<1>8. LateLookups'
  <2>1. r.valid => dead[k] = NoKey
    BY <1>4 DEF McpInv, DeadForGood
  <2>2. QED
    BY <1>1, <1>4, <1>5, <2>1 DEF McpInv, LateLookups
<1>9. QED
  BY <1>1, <1>6, <1>7, <1>8 DEF McpInv, DeadForGood, LateAnswers, AcceptedIsDead, DeletedKeyRefused

\* What a late lookup caches runs out a lookup and a lifetime after the deletion.
LEMMA LookupCacheKeeps ==
  ASSUME McpInv, NEW l \in Lookups, LookupCache(l)
  PROVE  McpInv'
<1> DEFINE k == lookup[l].key
           e == [valid |-> lookup[l].valid, until |-> tick + CacheTTL]
<1>1. /\ lookup[l].pc = "cache" /\ keyCache' = [keyCache EXCEPT ![k] = e]
      /\ IF lookup[l].valid THEN Accepts(k) ELSE UNCHANGED accepted
      /\ lookup' = [lookup EXCEPT ![l] = LookupIdle]
      /\ UNCHANGED <<tick, keyState, admin, dead, crossed>>
  BY DEF LookupCache
<1>2. McpTyped /\ k \in McpKeyIds /\ lookup[l] \in McpLookup
  BY <1>1 DEF McpInv, McpTyped, LookupsInTime
<1>3. /\ tick \in Nat /\ MaxLookup \in Nat /\ CacheTTL \in Nat \ {0} /\ dead[k] \in Nat \cup {NoKey}
      /\ lookup[l].at \in Nat /\ lookup[l].valid \in BOOLEAN
  BY <1>2, McpKeysAssumption DEF McpTyped, McpLookup
<1>4. e \in CacheEntry /\ e.valid = lookup[l].valid /\ e.until = tick + CacheTTL
  <2>1. tick + CacheTTL \in Nat
    BY <1>3
  <2>2. QED BY <1>3, <2>1 DEF CacheEntry
<1>5. LookupIdle \in McpLookup /\ LookupIdle.pc = "idle"
  <2>1. FALSE \in BOOLEAN
    BY Zenon
  <2>2. QED BY <2>1 DEF LookupIdle, McpLookup
<1> HIDE DEF k, e
<1>6. lookup[l].valid /\ dead[k] # NoKey =>
        k \in crossed /\ tick + CacheTTL <= dead[k] + MaxLookup + CacheTTL
        /\ tick < dead[k] + MaxLookup + CacheTTL
  <2>1. tick <= lookup[l].at + MaxLookup
    BY <1>1 DEF McpInv, LookupsInTime
  <2>2. lookup[l].valid /\ dead[k] # NoKey => k \in crossed /\ lookup[l].at <= dead[k]
    BY <1>1 DEF McpInv, LateLookups, k
  <2>3. QED BY <1>3, <2>1, <2>2
<1>7. accepted' \in [McpKeyIds -> Nat \cup {NoKey}] /\ AcceptedIsDead' /\ DeletedKeyRefused'
  <2>1. CASE lookup[l].valid
    BY <1>1, <1>2, <1>6, <2>1, AcceptsKeeps
  <2>2. CASE ~lookup[l].valid
    BY <1>1, <1>2, <2>2 DEF McpInv, McpTyped, AcceptedIsDead, DeletedKeyRefused
  <2>3. QED BY <2>1, <2>2
<1>8. /\ keyCache'[k] = e /\ \A i \in McpKeyIds : i # k => keyCache'[i] = keyCache[i]
      /\ lookup'[l] = LookupIdle /\ \A i \in Lookups : i # l => lookup'[i] = lookup[i]
  BY <1>1, <1>2 DEF McpTyped
<1>9. McpTyped'
  BY <1>1, <1>2, <1>4, <1>5, <1>7 DEF McpTyped
<1>10. LateAnswers'
  BY <1>1, <1>4, <1>6, <1>8 DEF McpInv, LateAnswers
<1>11. LookupsInTime' /\ LateLookups'
  BY <1>1, <1>5, <1>8 DEF McpInv, LookupsInTime, LateLookups
<1>12. QED
  BY <1>1, <1>7, <1>9, <1>10, <1>11 DEF McpInv, DeadForGood

\* A change of the bucket makes no dead key live.
LEMMA ChangeKeyKeeps ==
  ASSUME McpInv, NEW a \in Admins, NEW k \in McpKeyIds, NEW to \in {"live", "dead"}, ChangeKey(a, k, to)
  PROVE  McpInv'
<1> DEFINE r == [pc |-> "invalidate", key |-> k, to |-> to]
<1>1. /\ admin' = [admin EXCEPT ![a] = r] /\ keyState' = [keyState EXCEPT ![k] = to]
      /\ keyState[k] # "dead"
      /\ UNCHANGED <<tick, keyCache, lookup, dead, crossed, accepted>>
  BY DEF ChangeKey
<1>2. McpTyped /\ r \in McpAdmin /\ r.pc = "invalidate" /\ r.key = k /\ r.to = to
  BY DEF McpInv, McpAdmin
<1> HIDE DEF r
<1>3. /\ admin'[a] = r /\ \A b \in Admins : b # a => admin'[b] = admin[b]
      /\ keyState'[k] = to /\ \A i \in McpKeyIds : i # k => keyState'[i] = keyState[i]
  BY <1>1, <1>2 DEF McpTyped
<1>4. McpTyped'
  BY <1>1, <1>2 DEF McpTyped
<1>5. DeadForGood'
  <2>1. \A i \in McpKeyIds : keyState[i] = "dead" => keyState'[i] = "dead"
    BY <1>1, <1>3
  <2>2. QED
    BY <1>1, <1>2, <1>3, <2>1 DEF McpInv, DeadForGood
<1>6. QED
  BY <1>1, <1>4, <1>5
     DEF McpInv, LookupsInTime, LateLookups, LateAnswers, AcceptedIsDead, DeletedKeyRefused

\* When a deletion is answered the cache is empty, and the lookups that may still fill it are noted.
LEMMA InvalidateCacheKeeps ==
  ASSUME McpInv, NEW a \in Admins, InvalidateCache(a)
  PROVE  McpInv'
<1> DEFINE k == admin[a].key
<1>1. /\ admin[a].pc = "invalidate" /\ keyCache' = EmptyCache
      /\ admin' = [admin EXCEPT ![a] = AdminIdle]
      /\ UNCHANGED <<tick, keyState, lookup, accepted>>
      /\ \/ /\ admin[a].to = "dead" /\ dead' = [dead EXCEPT ![k] = tick]
            /\ crossed' = IF \E l \in Lookups : lookup[l].key = k THEN crossed \cup {k} ELSE crossed
         \/ UNCHANGED <<dead, crossed>>
  BY DEF InvalidateCache
<1>2. McpTyped /\ k \in McpKeyIds /\ (admin[a].to = "dead" => keyState[k] = "dead")
  BY <1>1 DEF McpInv, DeadForGood
<1>3. AdminIdle \in McpAdmin /\ AdminIdle.pc = "idle" /\ tick \in Nat
  BY <1>2 DEF AdminIdle, McpAdmin, McpTyped
<1> HIDE DEF k
<1>4. admin'[a] = AdminIdle /\ \A b \in Admins : b # a => admin'[b] = admin[b]
  BY <1>1, <1>2 DEF McpTyped
<1>5. LateAnswers' /\ \A i \in McpKeyIds : keyCache'[i] = NoKey
  BY <1>1 DEF EmptyCache, LateAnswers
<1>6. CASE UNCHANGED <<dead, crossed>>
  <2>1. McpTyped'
    BY <1>1, <1>2, <1>3, <1>5, <1>6 DEF McpTyped, EmptyCache
  <2>2. QED
    BY <1>1, <1>3, <1>4, <1>5, <1>6, <2>1
       DEF McpInv, LookupsInTime, DeadForGood, LateLookups, AcceptedIsDead, DeletedKeyRefused
<1>7. CASE /\ admin[a].to = "dead" /\ dead' = [dead EXCEPT ![k] = tick]
           /\ crossed' = IF \E l \in Lookups : lookup[l].key = k THEN crossed \cup {k} ELSE crossed
  <2>1. /\ dead'[k] = tick /\ \A i \in McpKeyIds : i # k => dead'[i] = dead[i]
        /\ dead' \in [McpKeyIds -> Nat \cup {NoKey}]
    BY <1>2, <1>3, <1>7 DEF McpTyped
  <2>2. crossed \subseteq crossed' /\ crossed' \in SUBSET McpKeyIds
        /\ \A l \in Lookups : lookup[l].key = k => k \in crossed'
    BY <1>2, <1>7 DEF McpTyped
  <2>3. McpTyped'
    BY <1>1, <1>2, <1>3, <1>5, <2>1, <2>2 DEF McpTyped, EmptyCache
  <2>4. tick # NoKey /\ tick <= tick
    BY <1>3, NoKeyAssumption
  <2>5. LookupsInTime'
    BY <1>1 DEF McpInv, LookupsInTime
  <2>6. DeadForGood'
    BY <1>1, <1>2, <1>3, <1>4, <1>7, <2>1, <2>4 DEF McpInv, DeadForGood
  <2>7. LateLookups'
    <3> SUFFICES ASSUME NEW l \in Lookups, lookup[l].pc = "cache", lookup[l].valid,
                        dead'[lookup[l].key] # NoKey
                 PROVE  lookup[l].key \in crossed' /\ lookup[l].at <= dead'[lookup[l].key]
      BY <1>1 DEF LateLookups
    <3>1. lookup[l].key \in McpKeyIds /\ lookup[l].at <= tick
      BY DEF McpInv, LookupsInTime
    <3>2. QED
      BY <2>1, <2>2, <3>1 DEF McpInv, LateLookups
  <2>8. AcceptedIsDead'
    BY <1>1, <2>1, <2>4 DEF McpInv, AcceptedIsDead
  <2>9. DeletedKeyRefused'
    <3> SUFFICES ASSUME NEW i \in McpKeyIds, accepted[i] # NoKey
                 PROVE  i \in crossed' /\ accepted[i] < dead'[i] + MaxLookup + CacheTTL
      BY <1>1 DEF DeletedKeyRefused
    <3>1. i \in crossed /\ accepted[i] < dead[i] + MaxLookup + CacheTTL /\ dead[i] # NoKey
      BY DEF McpInv, AcceptedIsDead, DeletedKeyRefused
    <3>2. /\ dead[i] \in Nat /\ dead'[i] \in Nat /\ accepted[i] \in Nat /\ MaxLookup \in Nat
          /\ CacheTTL \in Nat /\ dead[i] <= tick
      BY <1>2, <1>3, <2>1, <3>1, McpKeysAssumption DEF McpTyped, McpInv, DeadForGood
    <3>3. dead[i] <= dead'[i]
      BY <2>1, <3>2
    <3>4. accepted[i] < dead'[i] + MaxLookup + CacheTTL
      BY <3>1, <3>2, <3>3
    <3>5. QED BY <2>2, <3>1, <3>4
  <2>10. QED
    BY <1>5, <2>3, <2>5, <2>6, <2>7, <2>8, <2>9 DEF McpInv
<1>8. QED BY <1>1, <1>6, <1>7

\* Every step of the keys keeps the invariant.
LEMMA McpInvStep == McpInv /\ [McpNext]_mcpVars => McpInv'
<1> SUFFICES ASSUME McpInv, [McpNext]_mcpVars PROVE McpInv'
  OBVIOUS
<1>1. CASE McpTick
  BY <1>1, McpTickKeeps
<1>2. CASE \E k \in McpKeyIds : CacheHit(k)
  BY <1>2, CacheHitKeeps
<1>3. CASE \E l \in Lookups : LookupCache(l) \/ \E k \in McpKeyIds : LookupStore(l, k)
  BY <1>3, LookupCacheKeeps, LookupStoreKeeps
<1>4. CASE \E a \in Admins : \/ InvalidateCache(a)
                             \/ \E k \in McpKeyIds, to \in {"live", "dead"} : ChangeKey(a, k, to)
  BY <1>4, InvalidateCacheKeeps, ChangeKeyKeeps
<1>5. CASE UNCHANGED mcpVars
  BY <1>5 DEF mcpVars, McpInv, McpTyped, LookupsInTime, DeadForGood, LateLookups, LateAnswers,
              AcceptedIsDead, DeletedKeyRefused
<1>6. QED BY <1>1, <1>2, <1>3, <1>4, <1>5 DEF McpNext

\* A key whose deletion was answered is refused: at once when no lookup of it was under way, and
\* a lookup and a cache lifetime later at the latest when one was (validateFromStore,
\* InvalidateCache), however many lookups, deletions and cache entries overlap.
THEOREM DeletedKeysRefused == McpSpec => []DeletedKeyRefused
<1>1. McpInv => DeletedKeyRefused
  BY DEF McpInv
<1>2. QED
  BY <1>1, McpInvInit, McpInvStep, PTL DEF McpSpec

-----------------------------------------------------------------------------
(* Users, API keys, permissions and groups. *)

UserVal == [tenant : Tenants, disabled : BOOLEAN]

\* What a request may store under an entry: only API keys leave their bucket this way.
Legal(e, v) ==
  /\ e[1] = "user" => v \in UserVal
  /\ e[1] = "key" => v \in AuthUsers \cup {NoVal}
  /\ e[1] \in {"group", "gperm"} => v # NoVal

Pending(c, e) == authreq[c].pc \in {"put", "cache"} /\ authreq[c].entry = e

AuthTyped ==
  /\ DOMAIN db = Entries /\ db = [e \in Entries |-> db[e]]
  /\ DOMAIN mem = Entries /\ mem = [e \in Entries |-> mem[e]]
  /\ authreq = [c \in AuthClients |-> authreq[c]]
  /\ home \in [AuthUsers -> Tenants] /\ gone \subseteq AuthUsers
  /\ \A e \in Entries : (db[e] = NoVal \/ Legal(e, db[e])) /\ (mem[e] = NoVal \/ Legal(e, mem[e]))
  /\ \A c \in AuthClients :
       /\ authreq[c] = [pc |-> authreq[c].pc, entry |-> authreq[c].entry, val |-> authreq[c].val]
       /\ authreq[c].pc \in {"idle", "put", "cache", "issue"}
       /\ authreq[c].pc \in {"put", "cache", "issue"} =>
            authreq[c].entry \in Entries /\ Legal(authreq[c].entry, authreq[c].val)
       /\ authreq[c].pc = "issue" => authreq[c].entry[1] = "user"
  /\ \A cl \in tokens : cl.user \in AuthUsers /\ (cl.tenant # "" => ~cl.admin)

\* Requests under way on an entry write the same value, what they have stored is in the
\* bucket, and the map differs from it only for a request that has yet to answer.
AgreesOn(e) ==
  /\ \A c, d \in AuthClients : Pending(c, e) /\ Pending(d, e) => authreq[c].val = authreq[d].val
  /\ \A c \in AuthClients : Pending(c, e) /\ authreq[c].pc = "cache" => db[e] = authreq[c].val
  /\ \/ mem[e] = db[e]
     \/ \E c \in AuthClients : Pending(c, e) /\ authreq[c].pc = "cache"
     \/ \E c \in AuthClients : /\ Pending(c, e) /\ authreq[c].pc = "put"
                               /\ e[1] = "user" /\ authreq[c].val.disabled /\ mem[e] = authreq[c].val

Agreeing == \A e \in Entries \ strayed : AgreesOn(e)

\* A deleted user is disabled wherever the user is known.
GoneOn(u) ==
  LET e == <<"user", u>> IN
    /\ db[e] # NoVal /\ db[e].disabled /\ mem[e] # NoVal /\ mem[e].disabled
    /\ \A c \in AuthClients : Pending(c, e) => authreq[c].val.disabled

GoneForGood == \A u \in gone : <<"user", u>> \notin strayed => GoneOn(u)

\* A user who is not stored is nowhere known, ...
NotStored ==
  \A u \in AuthUsers : db[<<"user", u>>] = NoVal =>
    /\ mem[<<"user", u>>] = NoVal /\ home[u] = "" /\ \A cl \in tokens : cl.user # u
    /\ \A c \in AuthClients : authreq[c].pc \in {"cache", "issue"} => authreq[c].entry # <<"user", u>>

\* ... and the tenant of one who is stored is the same everywhere.
TenantOn(u) ==
  LET e == <<"user", u>> IN
    /\ mem[e] # NoVal => mem[e].tenant = db[e].tenant
    /\ home[u] \in {"", db[e].tenant}
    /\ \A cl \in tokens : cl.user = u => cl.tenant = db[e].tenant
    /\ \A c \in AuthClients :
         authreq[c].pc # "idle" /\ authreq[c].entry = e => authreq[c].val.tenant = db[e].tenant

OneTenant ==
  \A u \in AuthUsers : (<<"user", u>> \notin strayed /\ db[<<"user", u>>] # NoVal) => TenantOn(u)

\* A group that does not exist has no permissions and is being given none.
GroupOn(g) ==
  mem[<<"group", g>>] = NoVal =>
    /\ mem[<<"gperm", g>>] = NoVal /\ db[<<"gperm", g>>] = NoVal
    /\ \A c \in AuthClients : ~Pending(c, <<"gperm", g>>)

GroupsEmpty ==
  \A g \in AuthGroups : {<<"group", g>>, <<"gperm", g>>} \cap strayed = {} => GroupOn(g)

AuthInv == AuthTyped /\ Agreeing /\ GoneForGood /\ NotStored /\ OneTenant /\ GroupsEmpty

-----------------------------------------------------------------------------
\* Names of entries are entries, and tell the buckets apart.
LEMMA EntryShape ==
  /\ \A u \in AuthUsers : <<"user", u>> \in Entries /\ <<"perm", u>> \in Entries
  /\ \A k \in AuthKeys : <<"key", k>> \in Entries
  /\ \A g \in AuthGroups : <<"group", g>> \in Entries /\ <<"gperm", g>> \in Entries
  /\ \A e \in Entries : e[1] = "user" => e[2] \in AuthUsers /\ e = <<"user", e[2]>>
  BY DEF Entries

\* What is stored of a user has his tenant.
LEMMA UserValues ==
  /\ \A v \in UserVal : v # NoVal /\ v.tenant \in Tenants
  /\ \A t \in Tenants : [tenant |-> t, disabled |-> FALSE] \in UserVal
  /\ \A v \in UserVal : /\ [v EXCEPT !.disabled = TRUE] \in UserVal
                        /\ [v EXCEPT !.disabled = TRUE].disabled
                        /\ [v EXCEPT !.disabled = TRUE].tenant = v.tenant
<1>1. \A v \in UserVal : v # NoVal /\ v.tenant \in Tenants
  BY NoValAssumption DEF UserVal
<1>2. TRUE \in BOOLEAN /\ FALSE \in BOOLEAN
  BY Zenon
<1>3. \A t \in Tenants : [tenant |-> t, disabled |-> FALSE] \in UserVal
  BY <1>2 DEF UserVal
<1>4. \A v \in UserVal : /\ [v EXCEPT !.disabled = TRUE] \in UserVal
                         /\ [v EXCEPT !.disabled = TRUE].disabled
                         /\ [v EXCEPT !.disabled = TRUE].tenant = v.tenant
  BY <1>2 DEF UserVal
<1>5. QED BY <1>1, <1>3, <1>4

\* What is stored of the others is not the mark of absence.
LEMMA OtherValues ==
  /\ \A grant \in Grants : [ops |-> grant] # NoVal
  /\ \A members \in SUBSET AuthUsers : [members |-> members] # NoVal
<1>1. \A grant \in Grants : [ops |-> grant] \in [ops : Grants]
  OBVIOUS
<1>2. \A members \in SUBSET AuthUsers : [members |-> members] \in [members : SUBSET AuthUsers]
  OBVIOUS
<1>3. QED BY <1>1, <1>2, NoValAssumption

\* A request that is over is a record of the three fields.
LEMMA IdleReq ==
  NoReq.pc = "idle" /\ NoReq = [pc |-> NoReq.pc, entry |-> NoReq.entry, val |-> NoReq.val]
  BY DEF NoReq

\* The invariant holds of empty buckets.
LEMMA AuthInvInit == AuthInit => AuthInv
<1> SUFFICES ASSUME AuthInit PROVE AuthInv
  OBVIOUS
<1>1. /\ db = [e \in Entries |-> NoVal] /\ mem = db /\ tokens = {} /\ gone = {} /\ strayed = {}
      /\ home = [u \in AuthUsers |-> ""] /\ authreq = [c \in AuthClients |-> NoReq]
  BY DEF AuthInit
<1>2. \A c \in AuthClients : authreq[c] = NoReq /\ authreq[c].pc = "idle"
  BY <1>1, IdleReq
<1>3. AuthTyped
  BY <1>1, <1>2, IdleReq DEF AuthTyped, Tenants
<1>4. Agreeing /\ GoneForGood
  BY <1>1, <1>2 DEF Agreeing, AgreesOn, GoneForGood, Pending
<1>5. NotStored /\ OneTenant
  BY <1>1, <1>2, EntryShape DEF NotStored, OneTenant
<1>6. GroupsEmpty
  BY <1>1, <1>2, EntryShape DEF GroupsEmpty, GroupOn, Pending
<1>7. QED BY <1>3, <1>4, <1>5, <1>6 DEF AuthInv

\* A request that has passed its look: the bucket and the map are still to be written, but the map
\* of a user who is being deleted has changed already.
LEMMA BeginKeeps ==
  ASSUME AuthInv, NEW c \in AuthClients, NEW e \in Entries, NEW v, Legal(e, v), Begin(c, e, v),
         \/ /\ mem' = mem
            /\ e[1] = "user" => mem[e] = NoVal
            /\ e[1] = "gperm" => mem[<<"group", e[2]>>] # NoVal
         \/ /\ e[1] = "user" /\ mem[e] # NoVal /\ v.disabled /\ v.tenant = mem[e].tenant
            /\ mem' = [mem EXCEPT ![e] = v]
  PROVE  AuthInv'
<1>1. AuthTyped /\ Agreeing /\ GoneForGood /\ NotStored /\ OneTenant /\ GroupsEmpty
  BY DEF AuthInv
<1>2. /\ authreq[c].pc = "idle" /\ UNCHANGED <<db, tokens, home, gone>>
      /\ authreq' = [authreq EXCEPT ![c] = [pc |-> "put", entry |-> e, val |-> v]]
      /\ strayed' = IF Contested(c, e, v) THEN strayed \cup {e} ELSE strayed
  BY DEF Begin, Request, authHistory
<1>3. /\ authreq'[c] = [pc |-> "put", entry |-> e, val |-> v]
      /\ authreq'[c].pc = "put" /\ authreq'[c].entry = e /\ authreq'[c].val = v
      /\ \A d \in AuthClients : d # c => authreq'[d] = authreq[d]
      /\ authreq' = [d \in AuthClients |-> authreq'[d]]
  BY <1>1, <1>2 DEF AuthTyped
<1>4. strayed \subseteq strayed'
      /\ (e \notin strayed' =>
            \A d \in AuthClients : d # c /\ Pending(d, e) => authreq[d].val = v)
  BY <1>2 DEF Contested, Pending
<1>5. \A x \in Entries : x # e => mem'[x] = mem[x]
  BY <1>1 DEF AuthTyped
<1>6. mem'[e] = mem[e] \/ (e[1] = "user" /\ mem[e] # NoVal /\ v.disabled /\ mem'[e] = v
                           /\ v.tenant = mem[e].tenant)
  BY <1>1 DEF AuthTyped
<1>7. AuthTyped'
  <2>1. DOMAIN mem' = Entries /\ mem' = [x \in Entries |-> mem'[x]]
    BY <1>1 DEF AuthTyped
  <2>2. \A x \in Entries : mem'[x] = NoVal \/ Legal(x, mem'[x])
    BY <1>1, <1>5, <1>6 DEF AuthTyped
  <2>3. QED BY <1>1, <1>2, <1>3, <2>1, <2>2 DEF AuthTyped
<1>8. Agreeing'
  <2> SUFFICES ASSUME NEW x \in Entries, x \notin strayed' PROVE AgreesOn(x)'
    BY DEF Agreeing
  <2>1. AgreesOn(x)
    BY <1>1, <1>4 DEF Agreeing
  <2>2. CASE x # e
    BY <1>2, <1>3, <1>5, <2>1, <2>2 DEF AgreesOn, Pending
  <2>3. CASE x = e
    <3>1. \A d, f \in AuthClients : Pending(d, e)' /\ Pending(f, e)' => authreq'[d].val = authreq'[f].val
      BY <1>3, <1>4, <2>3 DEF Pending
    <3>2. \A d \in AuthClients : Pending(d, e)' /\ authreq'[d].pc = "cache" => db'[e] = authreq'[d].val
      BY <1>2, <1>3, <2>1, <2>3 DEF Pending, AgreesOn
    <3>3. CASE mem'[e] = mem[e]
      BY <1>2, <1>3, <2>1, <2>3, <3>1, <3>2, <3>3 DEF Pending, AgreesOn
    <3>4. CASE mem'[e] = v /\ e[1] = "user" /\ v.disabled
      BY <1>3, <2>3, <3>1, <3>2, <3>4 DEF Pending, AgreesOn
    <3>5. QED BY <1>6, <3>3, <3>4
  <2>4. QED BY <2>2, <2>3
<1>9. GoneForGood'
  <2> SUFFICES ASSUME NEW u \in gone, <<"user", u>> \notin strayed' PROVE GoneOn(u)'
    BY <1>2 DEF GoneForGood
  <2>1. GoneOn(u) /\ u \in AuthUsers /\ <<"user", u>> \in Entries
    BY <1>1, <1>4, EntryShape DEF GoneForGood, AuthTyped
  <2>2. CASE e # <<"user", u>>
    BY <1>2, <1>3, <1>5, <2>1, <2>2 DEF GoneOn, Pending
  <2>3. CASE e = <<"user", u>>
    <3>1. mem[e] # NoVal /\ v # NoVal
      BY <2>1, <2>3, UserValues DEF GoneOn, Legal
    <3>2. v.disabled /\ mem'[e] = v
      BY ZenonT(60), <1>1, <2>3, <3>1 DEF AuthTyped
    <3>3. QED BY <1>2, <1>3, <2>1, <2>3, <3>1, <3>2 DEF GoneOn, Pending
  <2>4. QED BY <2>2, <2>3
<1>10. NotStored'
  <2> SUFFICES ASSUME NEW u \in AuthUsers, db[<<"user", u>>] = NoVal
               PROVE  /\ mem'[<<"user", u>>] = NoVal /\ home[u] = "" /\ \A cl \in tokens : cl.user # u
                      /\ \A d \in AuthClients : authreq'[d].pc \in {"cache", "issue"} =>
                           authreq'[d].entry # <<"user", u>>
    BY <1>2 DEF NotStored
  <2>1. mem[<<"user", u>>] = NoVal /\ <<"user", u>> \in Entries
    BY <1>1, EntryShape DEF NotStored
  <2>2. mem'[<<"user", u>>] = NoVal
    BY <1>5, <1>6, <2>1
  <2>3. \A d \in AuthClients : authreq'[d].pc \in {"cache", "issue"} =>
          authreq'[d].entry # <<"user", u>>
    <3>1. \A d \in AuthClients : authreq[d].pc \in {"cache", "issue"} =>
            authreq[d].entry # <<"user", u>>
      BY <1>1 DEF NotStored
    <3>2. QED BY <1>3, <3>1
  <2>4. QED BY <1>1, <2>2, <2>3 DEF NotStored
<1>11. OneTenant'
  <2> SUFFICES ASSUME NEW u \in AuthUsers, <<"user", u>> \notin strayed', db[<<"user", u>>] # NoVal
               PROVE  TenantOn(u)'
    BY <1>2 DEF OneTenant
  <2>1. TenantOn(u) /\ <<"user", u>> \in Entries
    BY <1>1, <1>4, EntryShape DEF OneTenant
  <2>2. CASE e # <<"user", u>>
    BY <1>2, <1>3, <1>5, <2>1, <2>2 DEF TenantOn
  <2>3. CASE e = <<"user", u>>
    <3>1. v.tenant = db[e].tenant
      <4>1. CASE mem[e] # NoVal
        BY <1>1, <2>1, <2>3, <4>1 DEF TenantOn
      <4>2. CASE mem[e] = NoVal
        <5>1. \A d \in AuthClients : Pending(d, e) => authreq[d].val \in UserVal
          <6>1. \A d \in AuthClients : Pending(d, e) => Legal(e, authreq[d].val)
            BY <1>1 DEF AuthTyped, Pending
          <6>2. e[1] = "user"
            BY <2>3
          <6>3. QED BY <6>1, <6>2 DEF Legal
        <5>2. PICK d \in AuthClients : Pending(d, e) /\ authreq[d].pc = "cache"
          BY <1>1, <1>4, <2>3, <4>2, <5>1, UserValues DEF Agreeing, AgreesOn
        <5>3. authreq[d].val = v /\ db[e] = authreq[d].val
          BY <1>1, <1>2, <1>4, <2>3, <5>2 DEF Agreeing, AgreesOn
        <5>4. QED BY <5>3
      <4>3. QED BY <4>1, <4>2
    <3>2. mem'[e] # NoVal => mem'[e].tenant = db[e].tenant
      BY <1>6, <2>1, <2>3, <3>1 DEF TenantOn
    <3>3. QED BY <1>2, <1>3, <2>1, <2>3, <3>1, <3>2 DEF TenantOn
  <2>4. QED BY <2>2, <2>3
<1>12. GroupsEmpty'
  <2> SUFFICES ASSUME NEW g \in AuthGroups, {<<"group", g>>, <<"gperm", g>>} \cap strayed' = {}
               PROVE  GroupOn(g)'
    BY DEF GroupsEmpty
  <2>1. GroupOn(g) /\ <<"group", g>> \in Entries /\ <<"gperm", g>> \in Entries
    BY <1>1, <1>4, EntryShape DEF GroupsEmpty
  <2>2. mem'[<<"group", g>>] = mem[<<"group", g>>] /\ mem'[<<"gperm", g>>] = mem[<<"gperm", g>>]
    BY <1>5, <1>6, <2>1
  <2>3. e = <<"gperm", g>> => mem[<<"group", g>>] # NoVal
    BY <1>1
  <2>4. QED BY <1>2, <1>3, <2>1, <2>2, <2>3 DEF GroupOn, Pending
<1>13. QED BY <1>7, <1>8, <1>9, <1>10, <1>11, <1>12 DEF AuthInv

\* The transaction: the bucket takes the value that every request on the entry writes.
LEMMA AuthPutKeeps ==
  ASSUME AuthInv, NEW c \in AuthClients, AuthPut(c)
  PROVE  AuthInv'
<1> DEFINE e == authreq[c].entry
<1> DEFINE v == authreq[c].val
<1>1. AuthTyped /\ Agreeing /\ GoneForGood /\ NotStored /\ OneTenant /\ GroupsEmpty
  BY DEF AuthInv
<1>2. /\ authreq[c].pc = "put" /\ UNCHANGED <<mem, tokens, home, gone, strayed>>
      /\ db' = [db EXCEPT ![e] = v] /\ authreq' = [authreq EXCEPT ![c].pc = "cache"]
  BY DEF AuthPut, authHistory
<1>3. e \in Entries /\ Legal(e, v)
  BY <1>1, <1>2 DEF AuthTyped
<1>4. /\ authreq'[c] = [pc |-> "cache", entry |-> e, val |-> v]
      /\ authreq'[c].pc = "cache" /\ authreq'[c].entry = e /\ authreq'[c].val = v
      /\ \A d \in AuthClients : d # c => authreq'[d] = authreq[d]
      /\ authreq' = [d \in AuthClients |-> authreq'[d]]
  <2>1. /\ authreq'[c] = [authreq[c] EXCEPT !.pc = "cache"]
        /\ \A d \in AuthClients : d # c => authreq'[d] = authreq[d]
        /\ authreq' = [d \in AuthClients |-> authreq'[d]]
    BY <1>1, <1>2 DEF AuthTyped
  <2>2. authreq[c] = [pc |-> authreq[c].pc, entry |-> e, val |-> v]
    BY <1>1 DEF AuthTyped
  <2>3. [authreq[c] EXCEPT !.pc = "cache"] = [pc |-> "cache", entry |-> e, val |-> v]
    BY <2>2
  <2>4. QED BY <2>1, <2>3
<1>5. db'[e] = v /\ (\A x \in Entries : x # e => db'[x] = db[x])
      /\ DOMAIN db' = Entries /\ db' = [x \in Entries |-> db'[x]]
  BY <1>1, <1>2, <1>3 DEF AuthTyped
<1>6. \A d \in AuthClients : authreq'[d].entry = authreq[d].entry /\ authreq'[d].val = authreq[d].val
  BY <1>4
<1>7. \A d \in AuthClients, x \in Entries : Pending(d, x)' <=> Pending(d, x)
  BY <1>2, <1>4 DEF Pending
<1>8. Pending(c, e)
  BY <1>2 DEF Pending
<1> HIDE DEF e, v
<1>9. AuthTyped'
  <2>1. \A x \in Entries : db'[x] = NoVal \/ Legal(x, db'[x])
    BY <1>1, <1>3, <1>5 DEF AuthTyped
  <2>2. \A d \in AuthClients :
          /\ authreq'[d] = [pc |-> authreq'[d].pc, entry |-> authreq'[d].entry, val |-> authreq'[d].val]
          /\ authreq'[d].pc \in {"idle", "put", "cache", "issue"}
          /\ authreq'[d].pc \in {"put", "cache", "issue"} =>
               authreq'[d].entry \in Entries /\ Legal(authreq'[d].entry, authreq'[d].val)
          /\ authreq'[d].pc = "issue" => authreq'[d].entry[1] = "user"
    BY ZenonT(60), <1>1, <1>3, <1>4 DEF AuthTyped
  <2>3. QED BY <1>1, <1>2, <1>4, <1>5, <2>1, <2>2 DEF AuthTyped
<1>10. Agreeing'
  <2> SUFFICES ASSUME NEW x \in Entries, x \notin strayed PROVE AgreesOn(x)'
    BY <1>2 DEF Agreeing
  <2>1. AgreesOn(x)
    BY <1>1 DEF Agreeing
  <2>2. CASE x # e
    BY <1>2, <1>4, <1>5, <1>6, <2>1, <2>2 DEF AgreesOn, Pending
  <2>3. CASE x = e
    BY <1>2, <1>4, <1>5, <1>6, <1>7, <1>8, <2>1, <2>3 DEF AgreesOn, Pending
  <2>4. QED BY <2>2, <2>3
<1>11. GoneForGood'
  <2> SUFFICES ASSUME NEW u \in gone, <<"user", u>> \notin strayed PROVE GoneOn(u)'
    BY <1>2 DEF GoneForGood
  <2>1. GoneOn(u) /\ u \in AuthUsers /\ <<"user", u>> \in Entries
    BY <1>1, EntryShape DEF GoneForGood, AuthTyped
  <2>2. e = <<"user", u>> => v # NoVal /\ v.disabled
    BY <1>3, <1>8, <2>1, UserValues DEF GoneOn, Legal, v
  <2>3. QED BY <1>2, <1>5, <1>6, <1>7, <2>1, <2>2 DEF GoneOn
<1>12. NotStored'
  <2> SUFFICES ASSUME NEW u \in AuthUsers, db'[<<"user", u>>] = NoVal
               PROVE  /\ mem[<<"user", u>>] = NoVal /\ home[u] = "" /\ \A cl \in tokens : cl.user # u
                      /\ \A d \in AuthClients : authreq'[d].pc \in {"cache", "issue"} =>
                           authreq'[d].entry # <<"user", u>>
    BY <1>2 DEF NotStored
  <2>1. <<"user", u>> \in Entries /\ <<"user", u>>[1] = "user"
    BY EntryShape
  <2>2. e # <<"user", u>>
    BY <1>3, <1>5, <2>1, UserValues DEF Legal
  <2>3. db[<<"user", u>>] = NoVal
    BY <1>5, <2>1, <2>2
  <2>4. QED BY ZenonT(60), <1>1, <1>4, <2>2, <2>3 DEF NotStored
<1>13. OneTenant'
  <2> SUFFICES ASSUME NEW u \in AuthUsers, <<"user", u>> \notin strayed, db'[<<"user", u>>] # NoVal
               PROVE  TenantOn(u)'
    BY <1>2 DEF OneTenant
  <2>1. <<"user", u>> \in Entries
    BY EntryShape
  <2>2. CASE db[<<"user", u>>] # NoVal
    <3>1. TenantOn(u)
      BY <1>1, <2>2 DEF OneTenant
    <3>2. db'[<<"user", u>>].tenant = db[<<"user", u>>].tenant
      BY <1>2, <1>5, <2>1, <3>1 DEF TenantOn, e, v
    <3>3. \A d \in AuthClients : authreq'[d].pc # "idle" => authreq[d].pc # "idle"
      BY <1>2, <1>4
    <3>4. QED BY <1>2, <1>6, <3>1, <3>2, <3>3 DEF TenantOn
  <2>3. CASE db[<<"user", u>>] = NoVal
    <3>1. e = <<"user", u>> /\ db'[<<"user", u>>] = v
      BY <1>5, <2>1, <2>3
    <3>2. /\ mem[<<"user", u>>] = NoVal /\ home[u] = "" /\ \A cl \in tokens : cl.user # u
          /\ \A d \in AuthClients : authreq[d].pc \in {"cache", "issue"} =>
               authreq[d].entry # <<"user", u>>
      BY <1>1, <2>3 DEF NotStored
    <3>3. ASSUME NEW d \in AuthClients, authreq'[d].pc # "idle", authreq'[d].entry = <<"user", u>>
          PROVE  authreq'[d].val = v
      <4>1. CASE d = c
        BY <1>4, <4>1
      <4>2. CASE d # c
        <5>1. Pending(d, e)
          BY ZenonT(60), <1>1, <1>4, <3>1, <3>2, <3>3, <4>2 DEF Pending, AuthTyped
        <5>2. authreq[d].val = authreq[c].val
          BY <1>1, <1>3, <1>8, <3>1, <5>1 DEF Agreeing, AgreesOn
        <5>3. QED BY <1>6, <5>2 DEF v
      <4>3. QED BY <4>1, <4>2
    <3>4. QED BY <1>2, <3>1, <3>2, <3>3 DEF TenantOn
  <2>4. QED BY <2>2, <2>3
<1>14. GroupsEmpty'
  <2> SUFFICES ASSUME NEW g \in AuthGroups, {<<"group", g>>, <<"gperm", g>>} \cap strayed = {},
                      mem[<<"group", g>>] = NoVal
               PROVE  GroupOn(g)'
    BY <1>2 DEF GroupsEmpty, GroupOn
  <2>1. /\ mem[<<"gperm", g>>] = NoVal /\ db[<<"gperm", g>>] = NoVal
        /\ \A d \in AuthClients : ~Pending(d, <<"gperm", g>>)
    BY <1>1 DEF GroupsEmpty, GroupOn
  <2>2. <<"gperm", g>> \in Entries /\ e # <<"gperm", g>>
    BY <1>8, <2>1, EntryShape
  <2>3. QED BY <1>2, <1>5, <1>7, <2>1, <2>2 DEF GroupOn
<1>15. QED BY <1>9, <1>10, <1>11, <1>12, <1>13, <1>14 DEF AuthInv

\* The request has ended: nothing is under way for the client any more.
LEMMA EndsRequest ==
  ASSUME AuthTyped, NEW c \in AuthClients, authreq' = [authreq EXCEPT ![c] = NoReq]
  PROVE  /\ authreq' = [d \in AuthClients |-> authreq'[d]]
         /\ authreq'[c] = NoReq /\ authreq'[c].pc = "idle"
         /\ \A d \in AuthClients : d # c => authreq'[d] = authreq[d]
         /\ \A d \in AuthClients :
              /\ authreq'[d] = [pc |-> authreq'[d].pc, entry |-> authreq'[d].entry, val |-> authreq'[d].val]
              /\ authreq'[d].pc \in {"idle", "put", "cache", "issue"}
              /\ authreq'[d].pc \in {"put", "cache", "issue"} =>
                   authreq'[d].entry \in Entries /\ Legal(authreq'[d].entry, authreq'[d].val)
              /\ authreq'[d].pc = "issue" => authreq'[d].entry[1] = "user"
         /\ \A d \in AuthClients : \A x : Pending(d, x)' <=> (d # c /\ Pending(d, x))
<1>1. /\ authreq' = [d \in AuthClients |-> authreq'[d]] /\ authreq'[c] = NoReq
      /\ \A d \in AuthClients : d # c => authreq'[d] = authreq[d]
  BY DEF AuthTyped
<1>2. authreq'[c].pc = "idle"
  BY <1>1, IdleReq
<1>3. \A d \in AuthClients : \A x : Pending(d, x)' <=> (d # c /\ Pending(d, x))
  BY <1>1, <1>2 DEF Pending
<1>4. ASSUME NEW d \in AuthClients
      PROVE  /\ authreq'[d] = [pc |-> authreq'[d].pc, entry |-> authreq'[d].entry, val |-> authreq'[d].val]
             /\ authreq'[d].pc \in {"idle", "put", "cache", "issue"}
             /\ authreq'[d].pc \in {"put", "cache", "issue"} =>
                  authreq'[d].entry \in Entries /\ Legal(authreq'[d].entry, authreq'[d].val)
             /\ authreq'[d].pc = "issue" => authreq'[d].entry[1] = "user"
  <2>1. CASE d = c
    BY <1>1, <1>2, <2>1, IdleReq
  <2>2. CASE d # c
    BY <1>1, <2>2 DEF AuthTyped
  <2>3. QED BY <2>1, <2>2
<1>5. QED BY <1>1, <1>2, <1>3, <1>4

\* A failed write to the bucket ends the request.
LEMMA AuthPutFailsKeeps ==
  ASSUME AuthInv, NEW c \in AuthClients, AuthPutFails(c)
  PROVE  AuthInv'
<1>1. AuthTyped /\ Agreeing /\ GoneForGood /\ NotStored /\ OneTenant /\ GroupsEmpty
  BY DEF AuthInv
<1>2. /\ authreq[c].pc = "put" /\ UNCHANGED <<db, mem, tokens, home, gone>>
      /\ authreq' = [authreq EXCEPT ![c] = NoReq] /\ strayed \subseteq strayed'
      /\ (authreq[c].entry[1] = "user" /\ authreq[c].val.disabled) => authreq[c].entry \in strayed'
  BY DEF AuthPutFails, authHistory
<1>3. /\ authreq' = [d \in AuthClients |-> authreq'[d]]
      /\ authreq'[c].pc = "idle" /\ \A d \in AuthClients : d # c => authreq'[d] = authreq[d]
      /\ \A d \in AuthClients : \A x : Pending(d, x)' <=> (d # c /\ Pending(d, x))
  BY <1>1, <1>2, EndsRequest
<1>4. AuthTyped'
  BY <1>1, <1>2, EndsRequest DEF AuthTyped
<1>5. Agreeing'
  <2> SUFFICES ASSUME NEW x \in Entries, x \notin strayed' PROVE AgreesOn(x)'
    BY DEF Agreeing
  <2>1. AgreesOn(x) /\ (Pending(c, x) => ~(x[1] = "user" /\ authreq[c].val.disabled))
    BY <1>1, <1>2 DEF Agreeing, Pending
  <2>2. QED BY <1>2, <1>3, <2>1 DEF AgreesOn
<1>6. GoneForGood' /\ GroupsEmpty'
  BY <1>1, <1>2, <1>3 DEF GoneForGood, GoneOn, GroupsEmpty, GroupOn
<1>7. NotStored' /\ OneTenant'
  BY ZenonT(60), <1>1, <1>2, <1>3 DEF NotStored, OneTenant, TenantOn
<1>8. QED BY <1>4, <1>5, <1>6, <1>7 DEF AuthInv

\* The map takes the value, which the bucket holds, and the request is answered.
LEMMA AuthCacheKeeps ==
  ASSUME AuthInv, NEW c \in AuthClients, AuthCache(c)
  PROVE  AuthInv'
<1> DEFINE e == authreq[c].entry
<1> DEFINE v == authreq[c].val
<1>1. AuthTyped /\ Agreeing /\ GoneForGood /\ NotStored /\ OneTenant /\ GroupsEmpty
  BY DEF AuthInv
<1>2. /\ authreq[c].pc = "cache" /\ UNCHANGED <<db, tokens, strayed>>
      /\ mem' = [mem EXCEPT ![e] = v] /\ authreq' = [authreq EXCEPT ![c] = NoReq]
      /\ home' = IF e[1] = "user" THEN [home EXCEPT ![e[2]] = v.tenant] ELSE home
      /\ gone' = IF e[1] = "user" /\ v.disabled THEN gone \cup {e[2]} ELSE gone
  BY DEF AuthCache
<1>3. e \in Entries /\ Legal(e, v) /\ Pending(c, e)
  BY <1>1, <1>2 DEF AuthTyped, Pending
<1>4. /\ authreq' = [d \in AuthClients |-> authreq'[d]]
      /\ authreq'[c].pc = "idle" /\ \A d \in AuthClients : d # c => authreq'[d] = authreq[d]
      /\ \A d \in AuthClients : \A x : Pending(d, x)' <=> (d # c /\ Pending(d, x))
  BY <1>1, <1>2, EndsRequest
<1>5. mem'[e] = v /\ (\A x \in Entries : x # e => mem'[x] = mem[x])
      /\ DOMAIN mem' = Entries /\ mem' = [x \in Entries |-> mem'[x]]
  BY <1>1, <1>2, <1>3 DEF AuthTyped
<1>6. e[1] = "user" => v \in UserVal /\ e[2] \in AuthUsers /\ e = <<"user", e[2]>>
  BY <1>3, EntryShape DEF Legal
<1>7. e \notin strayed =>
        db[e] = v /\ \A d \in AuthClients : Pending(d, e) => authreq[d].val = v
  BY <1>1, <1>2, <1>3 DEF Agreeing, AgreesOn
<1>8. \A u \in AuthUsers : <<"user", u>> # e => home'[u] = home[u]
  BY <1>1, <1>2, <1>6 DEF AuthTyped
<1>9. ASSUME NEW u \in AuthUsers, <<"user", u>> = e PROVE home'[u] = v.tenant
  <2> HIDE DEF e, v
  <2>1. e[1] = "user" /\ e[2] = u
    BY <1>9
  <2>2. QED BY <1>1, <1>2, <2>1 DEF AuthTyped
<1>10. AuthTyped'
  <2>1. \A x \in Entries : mem'[x] = NoVal \/ Legal(x, mem'[x])
    BY <1>1, <1>3, <1>5 DEF AuthTyped
  <2>2. home' \in [AuthUsers -> Tenants] /\ gone' \subseteq AuthUsers
    BY <1>1, <1>2, <1>6, UserValues DEF AuthTyped
  <2> HIDE DEF e, v
  <2>3. QED BY <1>1, <1>2, <1>5, <2>1, <2>2, EndsRequest DEF AuthTyped
<1> HIDE DEF e, v
<1>11. Agreeing'
  <2> SUFFICES ASSUME NEW x \in Entries, x \notin strayed PROVE AgreesOn(x)'
    BY <1>2 DEF Agreeing
  <2>1. AgreesOn(x)
    BY <1>1 DEF Agreeing
  <2>2. CASE x # e
    <3>1. ~Pending(c, x)
      BY <2>2 DEF Pending, e
    <3>2. QED BY <1>2, <1>4, <1>5, <2>1, <2>2, <3>1 DEF AgreesOn
  <2>3. CASE x = e
    BY <1>2, <1>4, <1>5, <1>7, <2>1, <2>3 DEF AgreesOn
  <2>4. QED BY <2>2, <2>3
<1>12. GoneForGood'
  <2> SUFFICES ASSUME NEW u \in gone', <<"user", u>> \notin strayed PROVE GoneOn(u)'
    BY <1>2 DEF GoneForGood
  <2>1. u \in AuthUsers /\ <<"user", u>> \in Entries /\ <<"user", u>>[1] = "user" /\ <<"user", u>>[2] = u
    BY <1>10, EntryShape DEF AuthTyped
  <2>2. CASE e # <<"user", u>>
    <3>1. u \in gone
      BY <1>2, <1>6, <2>2
    <3>2. GoneOn(u)
      BY <1>1, <3>1 DEF GoneForGood
    <3>3. QED BY <1>2, <1>4, <1>5, <2>1, <2>2, <3>2 DEF GoneOn
  <2>3. CASE e = <<"user", u>>
    <3>1. v.disabled
      <4>1. CASE u \in gone
        <5>1. GoneOn(u)
          BY <1>1, <4>1 DEF GoneForGood
        <5>2. QED BY <1>3, <2>3, <5>1 DEF GoneOn, v
      <4>2. CASE u \notin gone
        BY <1>2, <4>2
      <4>3. QED BY <4>1, <4>2
    <3>2. v # NoVal
      BY <1>6, <2>1, <2>3, UserValues
    <3>3. QED BY <1>2, <1>4, <1>5, <1>7, <2>3, <3>1, <3>2 DEF GoneOn
  <2>4. QED BY <2>2, <2>3
<1>13. NotStored'
  <2> SUFFICES ASSUME NEW u \in AuthUsers, db[<<"user", u>>] = NoVal
               PROVE  /\ mem'[<<"user", u>>] = NoVal /\ home'[u] = "" /\ \A cl \in tokens : cl.user # u
                      /\ \A d \in AuthClients : authreq'[d].pc \in {"cache", "issue"} =>
                           authreq'[d].entry # <<"user", u>>
    BY <1>2 DEF NotStored
  <2>1. e # <<"user", u>> /\ <<"user", u>> \in Entries
    BY <1>1, <1>2, EntryShape DEF NotStored, e
  <2>2. mem'[<<"user", u>>] = NoVal /\ home'[u] = ""
    BY <1>1, <1>5, <1>8, <2>1 DEF NotStored
  <2>3. QED BY ZenonT(60), <1>1, <1>4, <2>2 DEF NotStored
<1>14. OneTenant'
  <2> SUFFICES ASSUME NEW u \in AuthUsers, <<"user", u>> \notin strayed, db[<<"user", u>>] # NoVal
               PROVE  TenantOn(u)'
    BY <1>2 DEF OneTenant
  <2>1. TenantOn(u) /\ <<"user", u>> \in Entries
    BY <1>1, EntryShape DEF OneTenant
  <2>2. CASE e # <<"user", u>>
    BY <1>2, <1>4, <1>5, <1>8, <2>1, <2>2 DEF TenantOn
  <2>3. CASE e = <<"user", u>>
    BY ZenonT(60), <1>2, <1>4, <1>5, <1>7, <1>9, <2>1, <2>3 DEF TenantOn
  <2>4. QED BY <2>2, <2>3
<1>15. GroupsEmpty'
  <2> SUFFICES ASSUME NEW g \in AuthGroups, {<<"group", g>>, <<"gperm", g>>} \cap strayed = {},
                      mem'[<<"group", g>>] = NoVal
               PROVE  GroupOn(g)'
    BY <1>2 DEF GroupsEmpty, GroupOn
  <2>1. <<"group", g>> \in Entries /\ <<"gperm", g>> \in Entries /\ <<"group", g>>[1] = "group"
    BY EntryShape
  <2>2. e # <<"group", g>>
    BY <1>3, <1>5, <2>1 DEF Legal
  <2>3. /\ mem[<<"gperm", g>>] = NoVal /\ db[<<"gperm", g>>] = NoVal
        /\ \A d \in AuthClients : ~Pending(d, <<"gperm", g>>)
    BY <1>1, <1>5, <2>1, <2>2 DEF GroupsEmpty, GroupOn
  <2>4. e # <<"gperm", g>>
    BY <1>3, <2>3
  <2>5. QED BY <1>2, <1>4, <1>5, <2>1, <2>3, <2>4 DEF GroupOn
<1>16. QED BY <1>10, <1>11, <1>12, <1>13, <1>14, <1>15 DEF AuthInv

\* UpdateGroup and DeleteGroup: the map and the bucket change in one step, or the entry is
\* one on which requests overlapped.
LEMMA GroupStepKeeps ==
  ASSUME AuthInv, NEW c \in AuthClients, authreq[c].pc = "idle", NEW g \in AuthGroups,
         NEW S \in SUBSET {<<"group", g>>, <<"gperm", g>>}, <<"group", g>> \in S,
         NEW w, w = NoVal => S = {<<"group", g>>, <<"gperm", g>>}, w # NoVal => S = {<<"group", g>>},
         UNCHANGED <<authreq, tokens, home, gone>>, strayed \subseteq strayed',
         DOMAIN mem' = Entries, mem' = [x \in Entries |-> mem'[x]],
         DOMAIN db' = Entries, db' = [x \in Entries |-> db'[x]],
         \A x \in Entries : mem'[x] = IF x \in S THEN w ELSE mem[x],
         \A x \in Entries \ S : db'[x] = db[x],
         \A x \in S : db'[x] = w \/ (x \in strayed' /\ db'[x] = db[x]),
         \A x \in S \ strayed' : ~Contested(c, x, w)
  PROVE  AuthInv'
<1>1. AuthTyped /\ Agreeing /\ GoneForGood /\ NotStored /\ OneTenant /\ GroupsEmpty
  BY DEF AuthInv
<1>2. S \subseteq Entries /\ \A x \in S : x[1] \in {"group", "gperm"} /\ x[2] = g
  <2>1. \A x \in S : x = <<"group", g>> \/ x = <<"gperm", g>>
    OBVIOUS
  <2>2. /\ <<"group", g>> \in Entries /\ <<"group", g>>[1] = "group" /\ <<"group", g>>[2] = g
        /\ <<"gperm", g>> \in Entries /\ <<"gperm", g>>[1] = "gperm" /\ <<"gperm", g>>[2] = g
    BY EntryShape
  <2>3. QED BY <2>1, <2>2
<1>3. \A u \in AuthUsers : <<"user", u>> \in Entries /\ <<"user", u>> \notin S
  BY <1>2, EntryShape
<1>4. \A u \in AuthUsers : mem'[<<"user", u>>] = mem[<<"user", u>>] /\ db'[<<"user", u>>] = db[<<"user", u>>]
  BY <1>3
<1>5. AuthTyped'
  <2>1. \A x \in S : w = NoVal \/ Legal(x, w)
    BY <1>2 DEF Legal
  <2>2. ASSUME NEW x \in Entries
        PROVE  (mem'[x] = NoVal \/ Legal(x, mem'[x])) /\ (db'[x] = NoVal \/ Legal(x, db'[x]))
    <3>1. (mem[x] = NoVal \/ Legal(x, mem[x])) /\ (db[x] = NoVal \/ Legal(x, db[x]))
      BY <1>1 DEF AuthTyped
    <3>2. (mem'[x] = mem[x] \/ (mem'[x] = w /\ x \in S)) /\ (db'[x] = db[x] \/ (db'[x] = w /\ x \in S))
      BY <2>2
    <3>3. QED BY <2>1, <3>1, <3>2
  <2>3. QED BY <1>1, <2>2 DEF AuthTyped
<1>6. \A x : \A d \in AuthClients : Pending(d, x)' <=> Pending(d, x)
  BY DEF Pending
<1>7. ASSUME NEW x \in S, x \notin strayed', NEW d \in AuthClients, Pending(d, x)
      PROVE  authreq[d].val = w
  <2>1. d # c
    BY <1>7 DEF Pending
  <2>2. QED BY <1>7, <2>1 DEF Contested, Pending
<1>8. Agreeing'
  <2> SUFFICES ASSUME NEW x \in Entries, x \notin strayed' PROVE AgreesOn(x)'
    BY DEF Agreeing
  <2>1. CASE x \in S
    <3>1. db'[x] = w /\ mem'[x] = w
      BY <2>1
    <3>2. QED BY <1>6, <1>7, <2>1, <3>1 DEF AgreesOn
  <2>2. CASE x \notin S
    <3>1. AgreesOn(x)
      BY <1>1 DEF Agreeing
    <3>2. db'[x] = db[x] /\ mem'[x] = mem[x]
      BY <2>2
    <3>3. QED BY <1>6, <3>1, <3>2 DEF AgreesOn
  <2>3. QED BY <2>1, <2>2
<1>9. GoneForGood'
  <2> SUFFICES ASSUME NEW u \in gone, <<"user", u>> \notin strayed' PROVE GoneOn(u)'
    BY DEF GoneForGood
  <2>1. GoneOn(u) /\ u \in AuthUsers
    BY <1>1 DEF GoneForGood, AuthTyped
  <2>2. QED BY <1>4, <1>6, <2>1 DEF GoneOn
<1>10. NotStored'
  BY <1>1, <1>4 DEF NotStored
<1>11. OneTenant'
  <2> SUFFICES ASSUME NEW u \in AuthUsers, <<"user", u>> \notin strayed', db[<<"user", u>>] # NoVal
               PROVE  TenantOn(u)'
    BY <1>4 DEF OneTenant
  <2>1. TenantOn(u)
    BY <1>1 DEF OneTenant
  <2>2. QED BY <1>4, <2>1 DEF TenantOn
<1>12. GroupsEmpty'
  <2> SUFFICES ASSUME NEW h \in AuthGroups, {<<"group", h>>, <<"gperm", h>>} \cap strayed' = {},
                      mem'[<<"group", h>>] = NoVal
               PROVE  GroupOn(h)'
    BY DEF GroupsEmpty, GroupOn
  <2>1. <<"group", h>> \in Entries /\ <<"gperm", h>> \in Entries
    BY EntryShape
  <2>2. CASE h = g
    <3>1. w = NoVal
      BY <2>1, <2>2
    <3>2. <<"gperm", g>> \in S
      BY <3>1
    <3>3. db'[<<"gperm", g>>] = NoVal /\ mem'[<<"gperm", g>>] = NoVal
      BY <2>1, <2>2, <3>1, <3>2
    <3>4. ASSUME NEW d \in AuthClients PROVE ~Pending(d, <<"gperm", g>>)
      <4>1. Pending(d, <<"gperm", g>>) => authreq[d].val # NoVal
        <5> SUFFICES ASSUME Pending(d, <<"gperm", g>>) PROVE authreq[d].val # NoVal
          OBVIOUS
        <5>1. authreq[d].entry = <<"gperm", g>> /\ authreq[d].pc \in {"put", "cache"}
          BY DEF Pending
        <5>2. Legal(authreq[d].entry, authreq[d].val)
          BY <1>1, <3>4, <5>1 DEF AuthTyped
        <5>3. authreq[d].entry[1] = "gperm"
          BY <5>1
        <5>4. QED BY <5>2, <5>3 DEF Legal
      <4>2. QED BY <1>7, <2>2, <3>1, <3>2, <4>1
    <3>5. QED BY <1>6, <2>2, <3>3, <3>4 DEF GroupOn
  <2>3. CASE h # g
    <3>1. <<"group", h>> \notin S /\ <<"gperm", h>> \notin S
      BY <1>2, <2>3
    <3>2. mem[<<"group", h>>] = NoVal /\ GroupOn(h)
      BY <1>1, <2>1, <3>1 DEF GroupsEmpty
    <3>3. QED BY <1>6, <2>1, <3>1, <3>2 DEF GroupOn
  <2>4. QED BY <2>2, <2>3
<1>13. QED BY <1>5, <1>8, <1>9, <1>10, <1>11, <1>12 DEF AuthInv

\* A login goes on to its token only for a user who is not disabled.
LEMMA AuthenticateKeeps ==
  ASSUME AuthInv, NEW c \in AuthClients, NEW u \in AuthUsers, Authenticate(c, u)
  PROVE  AuthInv'
<1> DEFINE e == <<"user", u>>
<1>1. AuthTyped /\ Agreeing /\ GoneForGood /\ NotStored /\ OneTenant /\ GroupsEmpty
  BY DEF AuthInv
<1>2. /\ authreq[c].pc = "idle" /\ mem[e] # NoVal /\ UNCHANGED <<db, mem, tokens, home, gone, strayed>>
      /\ authreq' = [authreq EXCEPT ![c] = [pc |-> "issue", entry |-> e, val |-> mem[e]]]
  BY DEF Authenticate, Request, Enabled, authHistory
<1>3. /\ authreq'[c] = [pc |-> "issue", entry |-> e, val |-> mem[e]]
      /\ authreq'[c].pc = "issue" /\ authreq'[c].entry = e /\ authreq'[c].val = mem[e]
      /\ \A d \in AuthClients : d # c => authreq'[d] = authreq[d]
      /\ authreq' = [d \in AuthClients |-> authreq'[d]]
  BY <1>1, <1>2 DEF AuthTyped
<1>4. \A x : \A d \in AuthClients : Pending(d, x)' <=> Pending(d, x)
  BY <1>2, <1>3 DEF Pending
<1>5. e \in Entries /\ e[1] = "user" /\ Legal(e, mem[e]) /\ db[e] # NoVal
  BY <1>1, <1>2, EntryShape DEF AuthTyped, NotStored
<1>6. AuthTyped'
  BY <1>1, <1>2, <1>3, <1>5 DEF AuthTyped
<1>7. Agreeing'
  <2> SUFFICES ASSUME NEW x \in Entries, x \notin strayed PROVE AgreesOn(x)'
    BY <1>2 DEF Agreeing
  <2>1. AgreesOn(x)
    BY <1>1 DEF Agreeing
  <2>2. \A d \in AuthClients : Pending(d, x) => authreq'[d] = authreq[d]
    BY <1>2, <1>3 DEF Pending
  <2>3. QED BY <1>2, <1>4, <2>1, <2>2 DEF AgreesOn
<1>8. GoneForGood'
  <2> SUFFICES ASSUME NEW x \in gone, <<"user", x>> \notin strayed PROVE GoneOn(x)'
    BY <1>2 DEF GoneForGood
  <2>1. GoneOn(x)
    BY <1>1 DEF GoneForGood
  <2>2. \A d \in AuthClients : Pending(d, <<"user", x>>) => authreq'[d] = authreq[d]
    BY <1>2, <1>3 DEF Pending
  <2>3. QED BY <1>2, <1>4, <2>1, <2>2 DEF GoneOn
<1>9. NotStored'
  <2> SUFFICES ASSUME NEW x \in AuthUsers, db[<<"user", x>>] = NoVal
               PROVE  \A d \in AuthClients : authreq'[d].pc \in {"cache", "issue"} =>
                        authreq'[d].entry # <<"user", x>>
    BY <1>1, <1>2 DEF NotStored
  <2>1. \A d \in AuthClients : authreq[d].pc \in {"cache", "issue"} => authreq[d].entry # <<"user", x>>
    BY <1>1 DEF NotStored
  <2>2. e # <<"user", x>>
    BY <1>5
  <2>3. QED BY <1>3, <2>1, <2>2
<1>10. OneTenant'
  <2> SUFFICES ASSUME NEW x \in AuthUsers, <<"user", x>> \notin strayed, db[<<"user", x>>] # NoVal
               PROVE  TenantOn(x)'
    BY <1>2 DEF OneTenant
  <2>1. TenantOn(x)
    BY <1>1 DEF OneTenant
  <2>2. QED BY <1>2, <1>3, <2>1 DEF TenantOn
<1>11. GroupsEmpty'
  BY <1>1, <1>2, <1>4 DEF GroupsEmpty, GroupOn
<1>12. QED BY <1>6, <1>7, <1>8, <1>9, <1>10, <1>11 DEF AuthInv

\* A token names a user who is stored, with his tenant.
LEMMA IssueTokenKeeps ==
  ASSUME AuthInv, NEW c \in AuthClients, IssueToken(c)
  PROVE  AuthInv'
<1>1. AuthTyped /\ Agreeing /\ GoneForGood /\ NotStored /\ OneTenant /\ GroupsEmpty
  BY DEF AuthInv
<1>2. /\ authreq[c].pc = "issue" /\ UNCHANGED <<db, mem, home, gone, strayed>>
      /\ authreq' = [authreq EXCEPT ![c] = NoReq]
  BY DEF IssueToken
<1>3. PICK u \in AuthUsers : authreq[c].entry = <<"user", u>>
  BY <1>1, <1>2, EntryShape DEF AuthTyped
<1>4. PICK cl : /\ tokens' = tokens \cup {cl} /\ cl.user = u /\ cl.tenant = authreq[c].val.tenant
                /\ cl.tenant # "" => ~cl.admin
  <2>1. authreq[c].entry[2] = u
    BY <1>3
  <2>2. tokens' = tokens \cup {Claims(u, authreq[c].val.tenant, IsAdmin(u))}
    BY <2>1 DEF IssueToken
  <2>3. WITNESS Claims(u, authreq[c].val.tenant, IsAdmin(u))
  <2>4. QED BY <2>2 DEF Claims
<1>5. /\ authreq' = [d \in AuthClients |-> authreq'[d]]
      /\ authreq'[c].pc = "idle" /\ \A d \in AuthClients : d # c => authreq'[d] = authreq[d]
      /\ \A d \in AuthClients : \A x : Pending(d, x)' <=> (d # c /\ Pending(d, x))
  BY <1>1, <1>2, EndsRequest
<1>6. \A x : ~Pending(c, x)
  BY <1>2 DEF Pending
<1>7. AuthTyped'
  BY <1>1, <1>2, <1>4, EndsRequest DEF AuthTyped
<1>8. Agreeing'
  <2> SUFFICES ASSUME NEW x \in Entries, x \notin strayed PROVE AgreesOn(x)'
    BY <1>2 DEF Agreeing
  <2>1. AgreesOn(x)
    BY <1>1 DEF Agreeing
  <2>2. QED BY <1>2, <1>5, <1>6, <2>1 DEF AgreesOn
<1>9. GoneForGood' /\ GroupsEmpty'
  BY <1>1, <1>2, <1>5, <1>6 DEF GoneForGood, GoneOn, GroupsEmpty, GroupOn
<1>10. NotStored'
  <2> SUFFICES ASSUME NEW x \in AuthUsers, db[<<"user", x>>] = NoVal
               PROVE  /\ \A k \in tokens' : k.user # x
                      /\ \A d \in AuthClients : authreq'[d].pc \in {"cache", "issue"} =>
                           authreq'[d].entry # <<"user", x>>
    BY <1>1, <1>2 DEF NotStored
  <2>1. authreq[c].pc \in {"cache", "issue"} => authreq[c].entry # <<"user", x>>
    BY <1>1 DEF NotStored
  <2>2. authreq[c].entry # <<"user", x>>
    BY <1>2, <2>1
  <2>3. u # x
    BY <1>3, <2>2
  <2>4. \A k \in tokens : k.user # x
    BY <1>1 DEF NotStored
  <2>5. \A k \in tokens' : k.user # x
    BY <1>4, <2>3, <2>4
  <2>6. \A d \in AuthClients : authreq[d].pc \in {"cache", "issue"} => authreq[d].entry # <<"user", x>>
    BY <1>1 DEF NotStored
  <2>7. \A d \in AuthClients : authreq'[d].pc \in {"cache", "issue"} => authreq'[d].entry # <<"user", x>>
    BY <1>5, <2>6
  <2>8. QED BY <2>5, <2>7
<1>11. OneTenant'
  <2> SUFFICES ASSUME NEW x \in AuthUsers, <<"user", x>> \notin strayed, db[<<"user", x>>] # NoVal
               PROVE  TenantOn(x)'
    BY <1>2 DEF OneTenant
  <2>1. TenantOn(x)
    BY <1>1 DEF OneTenant
  <2>2. x = u => cl.tenant = db[<<"user", x>>].tenant
    BY <1>2, <1>3, <1>4, <2>1 DEF TenantOn
  <2>3. QED BY <1>2, <1>4, <1>5, <2>1, <2>2 DEF TenantOn
<1>12. QED BY <1>7, <1>8, <1>9, <1>10, <1>11 DEF AuthInv

\* LoadAll: the maps become what is stored and the requests are gone.
LEMMA AuthRestartKeeps ==
  ASSUME AuthInv, AuthRestart
  PROVE  AuthInv'
<1>1. AuthTyped /\ Agreeing /\ GoneForGood /\ NotStored /\ OneTenant /\ GroupsEmpty
  BY DEF AuthInv
<1>2. /\ mem' = db /\ authreq' = [c \in AuthClients |-> NoReq]
      /\ UNCHANGED <<db, tokens, home, gone, strayed>>
  BY DEF AuthRestart, authHistory
<1>3. \A c \in AuthClients : authreq'[c] = NoReq /\ authreq'[c].pc = "idle"
  BY <1>2, IdleReq
<1>4. \A c \in AuthClients : \A x : ~Pending(c, x)'
  BY <1>3 DEF Pending
<1>5. AuthTyped'
  BY <1>1, <1>2, <1>3, IdleReq DEF AuthTyped
<1>6. Agreeing' /\ GoneForGood'
  BY <1>1, <1>2, <1>4 DEF Agreeing, AgreesOn, GoneForGood, GoneOn
<1>7. NotStored' /\ OneTenant'
  BY <1>1, <1>2, <1>3 DEF NotStored, OneTenant, TenantOn
<1>8. GroupsEmpty'
  <2> SUFFICES ASSUME NEW g \in AuthGroups, {<<"group", g>>, <<"gperm", g>>} \cap strayed = {},
                      db[<<"group", g>>] = NoVal
               PROVE  db[<<"gperm", g>>] = NoVal
    BY <1>2, <1>4 DEF GroupsEmpty, GroupOn
  <2> DEFINE e == <<"group", g>>
  <2>1. e \in Entries /\ e \notin strayed /\ e[1] = "group" /\ db[e] = NoVal
    BY EntryShape
  <2> HIDE DEF e
  <2>2. AgreesOn(e)
    BY <1>1, <2>1 DEF Agreeing
  <2>3. \A c \in AuthClients : Pending(c, e) => authreq[c].val # NoVal
    BY <1>1, <2>1 DEF AuthTyped, Pending, Legal
  <2>4. mem[e] = NoVal
    BY <2>1, <2>2, <2>3 DEF AgreesOn
  <2>5. QED BY <1>1, <2>4 DEF GroupsEmpty, GroupOn, e
<1>9. QED BY <1>5, <1>6, <1>7, <1>8 DEF AuthInv

\* Every step of the accounts keeps the invariant.
LEMMA AuthInvStep == AuthInv /\ [AuthNext]_authVars => AuthInv'
<1> SUFFICES ASSUME AuthInv, [AuthNext]_authVars PROVE AuthInv'
  OBVIOUS
<1>0. AuthTyped
  BY DEF AuthInv
<1>1. ASSUME NEW c \in AuthClients, NEW u \in AuthUsers, NEW t \in Tenants, CreateTenantUser(c, u, t)
      PROVE  AuthInv'
  <2> DEFINE e == <<"user", u>>
  <2> DEFINE v == [tenant |-> t, disabled |-> FALSE]
  <2>1. mem[e] = NoVal /\ mem' = mem /\ Begin(c, e, v)
    BY <1>1 DEF CreateTenantUser
  <2>2. e \in Entries /\ e[1] = "user" /\ v \in UserVal
    BY EntryShape, UserValues
  <2>3. Legal(e, v)
    BY <2>2 DEF Legal
  <2> HIDE DEF e, v
  <2>4. QED BY <1>1, <2>1, <2>2, <2>3, BeginKeeps
<1>2. ASSUME NEW c \in AuthClients, NEW u \in AuthUsers, DeleteUser(c, u)
      PROVE  AuthInv'
  <2> DEFINE e == <<"user", u>>
  <2> DEFINE v == [mem[e] EXCEPT !.disabled = TRUE]
  <2>1. mem[e] # NoVal /\ mem' = [mem EXCEPT ![e] = v] /\ Begin(c, e, v)
    BY <1>2 DEF DeleteUser
  <2>2. e \in Entries /\ e[1] = "user"
    BY EntryShape
  <2>3. mem[e] \in UserVal
    <3>1. Legal(e, mem[e])
      BY <1>0, <2>1, <2>2 DEF AuthTyped
    <3>2. QED BY <2>2, <3>1 DEF Legal
  <2>4. v \in UserVal /\ v.disabled /\ v.tenant = mem[e].tenant
    BY <2>3, UserValues
  <2>5. Legal(e, v)
    BY <2>2, <2>4 DEF Legal
  <2> HIDE DEF e, v
  <2>6. QED BY <1>2, <2>1, <2>2, <2>4, <2>5, BeginKeeps
<1>3. ASSUME NEW c \in AuthClients, NEW k \in AuthKeys,
             \/ \E u \in AuthUsers : CreateAPIKey(c, k, u)
             \/ DeleteAPIKey(c, k)
      PROVE  AuthInv'
  <2> DEFINE e == <<"key", k>>
  <2>1. PICK v \in AuthUsers \cup {NoVal} : mem' = mem /\ Begin(c, e, v)
    BY <1>3 DEF CreateAPIKey, DeleteAPIKey
  <2>2. e \in Entries /\ e[1] = "key"
    BY EntryShape
  <2>3. Legal(e, v)
    BY <2>2 DEF Legal
  <2> HIDE DEF e
  <2>4. QED BY <1>3, <2>1, <2>2, <2>3, BeginKeeps
<1>4. ASSUME NEW c \in AuthClients, NEW u \in AuthUsers, NEW grant \in Grants, SetPermission(c, u, grant)
      PROVE  AuthInv'
  <2> DEFINE e == <<"perm", u>>
  <2> DEFINE v == [ops |-> grant]
  <2>1. mem' = mem /\ Begin(c, e, v)
    BY <1>4 DEF SetPermission
  <2>2. e \in Entries /\ e[1] = "perm"
    BY EntryShape
  <2>3. Legal(e, v)
    BY <2>2 DEF Legal
  <2> HIDE DEF e, v
  <2>4. QED BY <1>4, <2>1, <2>2, <2>3, BeginKeeps
<1>5. ASSUME NEW c \in AuthClients, NEW g \in AuthGroups, NEW members \in SUBSET AuthUsers,
             CreateGroup(c, g, members)
      PROVE  AuthInv'
  <2> DEFINE e == <<"group", g>>
  <2> DEFINE v == [members |-> members]
  <2>1. mem' = mem /\ Begin(c, e, v)
    BY <1>5 DEF CreateGroup
  <2>2. e \in Entries /\ e[1] = "group" /\ v # NoVal
    BY EntryShape, OtherValues
  <2>3. Legal(e, v)
    BY <2>2 DEF Legal
  <2> HIDE DEF e, v
  <2>4. QED BY <1>5, <2>1, <2>2, <2>3, BeginKeeps
<1>6. ASSUME NEW c \in AuthClients, NEW g \in AuthGroups, NEW grant \in Grants,
             SetGroupPermission(c, g, grant)
      PROVE  AuthInv'
  <2> DEFINE e == <<"gperm", g>>
  <2> DEFINE v == [ops |-> grant]
  <2>1. mem' = mem /\ Begin(c, e, v) /\ mem[<<"group", e[2]>>] # NoVal
    BY <1>6 DEF SetGroupPermission
  <2>2. e \in Entries /\ e[1] = "gperm" /\ v # NoVal
    BY EntryShape, OtherValues
  <2>3. Legal(e, v)
    BY <2>2 DEF Legal
  <2> HIDE DEF e, v
  <2>4. QED BY <1>6, <2>1, <2>2, <2>3, BeginKeeps
<1>7. ASSUME NEW c \in AuthClients, NEW g \in AuthGroups, NEW members \in SUBSET AuthUsers,
             UpdateGroup(c, g, members)
      PROVE  AuthInv'
  <2> DEFINE e == <<"group", g>>
  <2> DEFINE S == {e}
  <2> DEFINE w == [members |-> members]
  <2>1. /\ authreq[c].pc = "idle" /\ mem' = [mem EXCEPT ![e] = w]
        /\ UNCHANGED <<authreq, tokens, home, gone>> /\ strayed \subseteq strayed'
        /\ \/ db' = [db EXCEPT ![e] = w] /\ (e \notin strayed' => ~Contested(c, e, w))
           \/ db' = db /\ e \in strayed'
    BY <1>7 DEF UpdateGroup, Request, authHistory
  <2>2. e \in Entries /\ w # NoVal
    BY EntryShape, OtherValues
  <2>3. S \in SUBSET {<<"group", g>>, <<"gperm", g>>} /\ <<"group", g>> \in S /\ S = {<<"group", g>>}
    OBVIOUS
  <2> HIDE DEF w
  <2>4. /\ DOMAIN mem' = Entries /\ mem' = [x \in Entries |-> mem'[x]]
        /\ DOMAIN db' = Entries /\ db' = [x \in Entries |-> db'[x]]
        /\ \A x \in Entries : mem'[x] = IF x \in S THEN w ELSE mem[x]
        /\ \A x \in Entries \ S : db'[x] = db[x]
        /\ \A x \in S : db'[x] = w \/ (x \in strayed' /\ db'[x] = db[x])
        /\ \A x \in S \ strayed' : ~Contested(c, x, w)
    BY ZenonT(60), <1>0, <2>1, <2>2 DEF AuthTyped
  <2> HIDE DEF S, e
  <2>5. QED BY <1>7, <2>1, <2>2, <2>3, <2>4, GroupStepKeeps
<1>8. ASSUME NEW c \in AuthClients, NEW g \in AuthGroups, DeleteGroup(c, g)
      PROVE  AuthInv'
  <2> DEFINE S == {<<"group", g>>, <<"gperm", g>>}
  <2>1. /\ authreq[c].pc = "idle" /\ UNCHANGED <<authreq, tokens, home, gone>>
        /\ mem' = [x \in Entries |-> IF x \in S THEN NoVal ELSE mem[x]]
        /\ db' = [x \in Entries |-> IF x \in S THEN NoVal ELSE db[x]]
        /\ strayed' = strayed \cup {x \in S : Contested(c, x, NoVal)}
    BY <1>8 DEF DeleteGroup, Request, authHistory
  <2>2. S \subseteq Entries /\ <<"group", g>> \in S /\ S \in SUBSET {<<"group", g>>, <<"gperm", g>>}
    BY EntryShape
  <2>3. S = {<<"group", g>>, <<"gperm", g>>}
    OBVIOUS
  <2> HIDE DEF S
  <2>4. /\ DOMAIN mem' = Entries /\ mem' = [x \in Entries |-> mem'[x]]
        /\ DOMAIN db' = Entries /\ db' = [x \in Entries |-> db'[x]]
        /\ \A x \in Entries : mem'[x] = IF x \in S THEN NoVal ELSE mem[x]
        /\ \A x \in Entries \ S : db'[x] = db[x]
        /\ \A x \in S : db'[x] = NoVal \/ (x \in strayed' /\ db'[x] = db[x])
        /\ \A x \in S \ strayed' : ~Contested(c, x, NoVal)
        /\ strayed \subseteq strayed'
    BY <2>1, <2>2
  <2>5. QED BY SMTT(30), <1>8, <2>1, <2>2, <2>3, <2>4, GroupStepKeeps
<1>9. ASSUME NEW c \in AuthClients, NEW u \in AuthUsers, Authenticate(c, u)
      PROVE  AuthInv'
  BY <1>9, AuthenticateKeeps
<1>10. ASSUME NEW c \in AuthClients, AuthPut(c) \/ AuthPutFails(c) \/ AuthCache(c) \/ IssueToken(c)
       PROVE  AuthInv'
  BY <1>10, AuthPutKeeps, AuthPutFailsKeeps, AuthCacheKeeps, IssueTokenKeeps
<1>11. CASE AuthRestart
  BY <1>11, AuthRestartKeeps
<1>12. CASE UNCHANGED authVars
  <2>1. UNCHANGED <<db, mem, authreq, tokens, home, gone, strayed>>
    BY <1>12 DEF authVars
  <2>2. \A c \in AuthClients : \A x : Pending(c, x)' <=> Pending(c, x)
    BY <2>1 DEF Pending
  <2>3. AuthTyped' /\ NotStored'
    BY <2>1 DEF AuthInv, AuthTyped, NotStored
  <2>4. Agreeing' /\ GoneForGood'
    BY <2>1, <2>2 DEF AuthInv, Agreeing, AgreesOn, GoneForGood, GoneOn
  <2>5. OneTenant' /\ GroupsEmpty'
    BY <2>1, <2>2 DEF AuthInv, OneTenant, TenantOn, GroupsEmpty, GroupOn
  <2>6. QED BY <2>3, <2>4, <2>5 DEF AuthInv
<1>13. QED
  BY <1>1, <1>2, <1>3, <1>4, <1>5, <1>6, <1>7, <1>8, <1>9, <1>10, <1>11, <1>12 DEF AuthNext

\* Whatever requests, failures and restarts overlap: with no request in progress the maps hold
\* what is stored, a deleted user is admitted by nothing and never registered again, no token and
\* no API key gets a tenant's user outside the namespace, and a deleted group leaves no
\* permission behind (HTTPMiddleware, CheckPermission, LoadAll).
THEOREM AccessIsSound == AuthSpec => []AccessSound
<1>1. AuthInv => AccessSound
  <2> SUFFICES ASSUME AuthInv PROVE AccessSound
    OBVIOUS
  <2>1. AuthCachesAgree
    BY DEF AuthInv, AuthCachesAgree, Agreeing, AgreesOn, Pending
  <2>2. \A cl \in Admitted : cl.user \in AuthUsers /\ Enabled(cl.user)
    <3>1. \A k \in AuthKeys : mem[<<"key", k>>] # NoVal => mem[<<"key", k>>] \in AuthUsers
      <4> SUFFICES ASSUME NEW k \in AuthKeys, mem[<<"key", k>>] # NoVal
                   PROVE  mem[<<"key", k>>] \in AuthUsers
        OBVIOUS
      <4>1. <<"key", k>> \in Entries /\ <<"key", k>>[1] = "key"
        BY EntryShape
      <4>2. Legal(<<"key", k>>, mem[<<"key", k>>])
        BY <4>1 DEF AuthInv, AuthTyped
      <4>3. QED BY <4>1, <4>2 DEF Legal
    <3>2. \A k \in AuthKeys : KeyClaims(k).user = mem[<<"key", k>>]
      BY DEF KeyClaims, Claims
    <3>3. QED BY ZenonT(60), <3>1, <3>2 DEF Admitted, AuthInv, AuthTyped
  <2>3. DeletedIsOut
    BY <2>2 DEF DeletedIsOut, Enabled, AuthInv, GoneForGood, GoneOn
  <2>4. TenantConfined
    <3> SUFFICES ASSUME NEW cl \in Admitted, home[cl.user] # "", <<"user", cl.user>> \notin strayed
                 PROVE  cl.tenant # "" /\ ~cl.admin
      BY DEF TenantConfined, CheckPermission
    <3> DEFINE e == <<"user", cl.user>>
    <3>1. cl.user \in AuthUsers /\ mem[e] # NoVal
      BY <2>2 DEF Enabled
    <3>2. db[e] # NoVal /\ TenantOn(cl.user)
      BY <3>1 DEF AuthInv, NotStored, OneTenant
    <3>3. db[e].tenant = home[cl.user] /\ mem[e].tenant = home[cl.user]
      BY <3>1, <3>2 DEF TenantOn
    <3>4. CASE cl \in tokens
      <4>1. cl.tenant = home[cl.user]
        BY <3>2, <3>3, <3>4 DEF TenantOn
      <4>2. QED BY <3>4, <4>1 DEF AuthInv, AuthTyped
    <3>5. CASE cl \notin tokens
      <4>1. PICK k \in AuthKeys : cl = KeyClaims(k)
        BY <3>5 DEF Admitted
      <4>2. cl.user = mem[<<"key", k>>]
        BY <4>1 DEF KeyClaims, Claims
      <4>3. cl = Claims(cl.user, mem[e].tenant, IsAdmin(cl.user))
        BY <3>1, <4>1, <4>2 DEF KeyClaims
      <4>4. Claims(cl.user, mem[e].tenant, IsAdmin(cl.user)).tenant = mem[e].tenant
        BY DEF Claims
      <4>5. ~Claims(cl.user, mem[e].tenant, IsAdmin(cl.user)).admin
        BY <3>3 DEF Claims
      <4>6. QED BY <3>3, <4>3, <4>4, <4>5
    <3>6. QED BY <3>4, <3>5
  <2>5. GroupsClean
    BY DEF GroupsClean, AuthInv, GroupsEmpty, GroupOn
  <2>6. QED BY <2>1, <2>3, <2>4, <2>5 DEF AccessSound
<1>2. QED
  BY <1>1, AuthInvInit, AuthInvStep, PTL DEF AuthSpec

-----------------------------------------------------------------------------
(* Key rotation. *)

Vals == [ver : {0, 1, 2}, key : {"new", "old"}, content : Nat]
Cells == Vals \cup {NoEntry}
Tasks == [pc : {"none", "run", "snapshot", "read", "write", "finish"}, bucket : Buckets,
          todo : SUBSET RDocs, key : RDocs \cup {NoEntry}, val : Cells]
JobRecs == [status : {"none", "queued", "running", "completed", "failed"}, errors : Nat,
            scope : SUBSET RDocs, alive : BOOLEAN]

RotTyped ==
  /\ store \in [Buckets -> [RDocs -> Cells]]
  /\ job \in [RJobs -> JobRecs]
  /\ rtask \in [RJobs -> Tasks]
  /\ cleared \in {"no", "status", "job"}
  /\ writes \in Nat

\* A value that the primary or the superseded key opens.
Openable(v) == v = NoEntry \/ v.ver = 0 \/ v.key = "new" \/ v.ver = 2
AllOpenable == \A b \in Buckets, d \in RDocs : Openable(store[b][d])

\* What a job is about to put is sealed under the primary; a job begins with the docs bucket.
PutsPrimary(t) ==
  /\ t.pc = "write" => t.key \in RDocs /\ Settled(t.val) /\ Openable(t.val)
  /\ t.pc = "run" => t.bucket = "docs"

\* A job without errors has settled what it has been through: the keys it is done with in the
\* bucket it works on, and the docs bucket when it works on rev.
Passed(st, t, r) ==
  r.errors = 0 =>
    /\ (t.pc \in {"snapshot", "read", "write"} /\ t.bucket = "rev") =>
         \A d \in r.scope : Settled(st["docs"][d])
    /\ t.pc \in {"read", "write"} =>
         \A d \in r.scope \ t.todo : Settled(st[t.bucket][d])

\* CompletedIsConverged of one job.
Converged(st, r) ==
  (r.status = "completed" /\ r.errors = 0) => \A b \in Buckets, d \in r.scope : Settled(st[b][d])

\* The operator drops the old key for a reason, and the reason stays true.
ClearedIsSettled ==
  /\ previous = {"old"} \/ (previous = {} /\ cleared # "no")
  /\ cleared # "no" => \A d \in RDocs : Settled(store["docs"][d])
  /\ cleared = "job" => \A d \in RDocs : Settled(store["rev"][d])

RotInv ==
  /\ RotTyped /\ AllOpenable /\ ClearedIsSettled
  /\ \A j \in RJobs : PutsPrimary(rtask[j]) /\ Passed(store, rtask[j], job[j]) /\ Converged(store, job[j])

-----------------------------------------------------------------------------
\* A sealed value is settled and readable whatever it holds.
LEMMA SealFacts ==
  ASSUME NEW n \in Nat
  PROVE  /\ Seal(n) \in Vals /\ Settled(Seal(n)) /\ Openable(Seal(n))
         /\ LET v == [ver |-> 0, key |-> "new", content |-> n] IN
              v \in Vals /\ Settled(v) /\ Openable(v)
BY DEF Seal, Vals, Settled, IsEncryptedWithPrimary, Openable

\* An absent value needs no key.
LEMMA NoEntrySettled == Settled(NoEntry) /\ Openable(NoEntry)
BY DEF Settled, Openable

\* Every step leaves the buckets typed and readable, and whatever is settled in them.
LEMMA StoreStep ==
  ASSUME RotInv, [RotNext]_rotVars
  PROVE  /\ store' \in [Buckets -> [RDocs -> Cells]]
         /\ AllOpenable'
         /\ \A b \in Buckets, d \in RDocs : Settled(store[b][d]) => Settled(store'[b][d])
<1> DEFINE G == /\ store' \in [Buckets -> [RDocs -> Cells]]
                /\ \A b \in Buckets, d \in RDocs : Openable(store'[b][d])
                /\ \A b \in Buckets, d \in RDocs : Settled(store[b][d]) => Settled(store'[b][d])
<1>1. CASE UNCHANGED store
  BY <1>1 DEF RotInv, RotTyped, AllOpenable
<1>2. ASSUME NEW d \in RDocs, NEW v \in Cells, Settled(v), Openable(v),
             store' = [b \in Buckets |-> [store[b] EXCEPT ![d] = v]]
      PROVE  G
  <2>1. \A b \in Buckets : store'[b] = [store[b] EXCEPT ![d] = v] /\ store[b] \in [RDocs -> Cells]
    BY <1>2 DEF RotInv, RotTyped
  <2>2. \A b \in Buckets : store'[b] \in [RDocs -> Cells]
    BY <1>2, <2>1
  <2>3. \A b \in Buckets, e \in RDocs : store'[b][e] = v \/ store'[b][e] = store[b][e]
    BY <2>1
  <2>4. store' \in [Buckets -> [RDocs -> Cells]]
    BY <1>2, <2>2
  <2>5. QED
    BY <1>2, <2>3, <2>4 DEF RotInv, AllOpenable
<1>3. ASSUME NEW d \in RDocs, WriteDoc(d) PROVE G
  <2>1. writes + 1 \in Nat
    BY DEF RotInv, RotTyped
  <2>2. PICK v \in {Seal(writes + 1), [ver |-> 0, key |-> "new", content |-> writes + 1]} :
          store' = [b \in Buckets |-> [store[b] EXCEPT ![d] = v]]
    BY <1>3 DEF WriteDoc
  <2>3. v \in Vals /\ Settled(v) /\ Openable(v)
    BY <2>1, <2>2, SealFacts
  <2>4. QED
    BY <1>2, <2>2, <2>3 DEF Cells
<1>4. ASSUME NEW d \in RDocs, DeleteDoc(d) PROVE G
  BY <1>2, <1>4, NoEntrySettled DEF DeleteDoc, Cells
<1>5. ASSUME NEW j \in RJobs, ProcessWrite(j) PROVE G
  <2> DEFINE b0 == rtask[j].bucket
             d0 == rtask[j].key
             v0 == rtask[j].val
  <2>1. b0 \in Buckets /\ d0 \in RDocs /\ v0 \in Cells /\ Settled(v0) /\ Openable(v0)
        /\ store' = [store EXCEPT ![b0][d0] = v0]
    BY <1>5 DEF RotInv, RotTyped, PutsPrimary, ProcessWrite, Tasks
  <2> HIDE DEF b0, d0, v0
  <2>2. store \in [Buckets -> [RDocs -> Cells]]
    BY DEF RotInv, RotTyped
  <2>3. \A b \in Buckets, e \in RDocs : store'[b][e] = v0 \/ store'[b][e] = store[b][e]
    BY <2>1, <2>2
  <2>4. store' \in [Buckets -> [RDocs -> Cells]]
    BY <2>1, <2>2
  <2>5. QED
    BY <2>1, <2>3, <2>4 DEF RotInv, AllOpenable
<1>6. QED
  BY <1>1, <1>3, <1>4, <1>5
     DEF RotNext, rotVars, RunNext, Start, HandlerReturns, Run, Snapshot, ProcessRead, BucketDone,
         ContextDone, Finish, Inspect, Restart, AllOpenable

\* Nothing is running and nothing cleared at the start; every value can be read.
LEMMA RotInvInit == RotInit => RotInv
<1> SUFFICES ASSUME RotInit PROVE RotInv
  OBVIOUS
<1> DEFINE V0 == {[ver |-> s[1], key |-> s[2], content |-> 0] : s \in InitSeals}
<1>1. \A v \in V0 : v \in Vals /\ Openable(v)
  BY InitSealsAssumption DEF Vals, Openable
<1>2. store \in [Buckets -> [RDocs -> V0]]
  BY DEF RotInit
<1> HIDE DEF V0
<1>3. store \in [Buckets -> [RDocs -> Cells]] /\ AllOpenable
  BY <1>1, <1>2 DEF AllOpenable, Cells
<1>4. NoTask \in Tasks /\ NoJobYet \in JobRecs /\ NoTask.pc = "none" /\ NoJobYet.status = "none"
  BY DEF NoTask, Tasks, NoJobYet, JobRecs, Buckets, Cells
<1>5. RotTyped
  BY <1>3, <1>4 DEF RotInit, RotTyped
<1>6. QED
  BY <1>3, <1>4, <1>5
     DEF RotInit, RotInv, PutsPrimary, Passed, Converged, ClearedIsSettled

-----------------------------------------------------------------------------
\* What a job has settled stays settled: a step that changes neither the job nor its task, or
\* changes them to t and r which are in order, keeps the invariant.
LEMMA JobStep ==
  ASSUME RotInv, [RotNext]_rotVars, NEW j \in RJobs, NEW t \in Tasks, NEW r \in JobRecs,
         rtask' = [rtask EXCEPT ![j] = t], job' = [job EXCEPT ![j] = r],
         UNCHANGED <<previous, cleared, writes>>,
         PutsPrimary(t), Passed(store', t, r), Converged(store', r)
  PROVE  RotInv'
<1>1. /\ store' \in [Buckets -> [RDocs -> Cells]] /\ AllOpenable'
      /\ \A b \in Buckets, d \in RDocs : Settled(store[b][d]) => Settled(store'[b][d])
  BY StoreStep
<1>2. RotTyped
  BY DEF RotInv
<1>3. /\ rtask'[j] = t /\ job'[j] = r
      /\ \A i \in RJobs : i # j => rtask'[i] = rtask[i] /\ job'[i] = job[i]
      /\ rtask' \in [RJobs -> Tasks] /\ job' \in [RJobs -> JobRecs]
  BY <1>2 DEF RotTyped
<1>4. RotTyped'
  BY <1>1, <1>2, <1>3 DEF RotTyped
<1>5. ClearedIsSettled'
  BY <1>1, <1>2 DEF RotInv, ClearedIsSettled, Buckets
<1>6. ASSUME NEW i \in RJobs PROVE PutsPrimary(rtask'[i]) /\ Passed(store', rtask'[i], job'[i]) /\ Converged(store', job'[i])
  <2>1. CASE i = j
    BY <2>1, <1>3 DEF PutsPrimary, Passed, Converged
  <2>2. CASE i # j
    <3>1. rtask'[i] = rtask[i] /\ job'[i] = job[i] /\ job[i].scope \subseteq RDocs
          /\ rtask[i].bucket \in Buckets
      BY <1>2, <1>3, <2>2 DEF RotTyped, JobRecs, Tasks
    <3>2. PutsPrimary(rtask[i]) /\ Passed(store, rtask[i], job[i]) /\ Converged(store, job[i])
      BY DEF RotInv
    <3>3. PutsPrimary(rtask'[i])
      BY <3>1, <3>2 DEF PutsPrimary
    <3>4. Passed(store', rtask'[i], job'[i])
      BY <1>1, <3>1, <3>2 DEF Passed, Buckets
    <3>5. Converged(store', job'[i])
      BY <1>1, <3>1, <3>2 DEF Converged
    <3>6. QED BY <3>3, <3>4, <3>5
  <2>3. QED BY <2>1, <2>2
<1>7. QED
  BY <1>1, <1>4, <1>5, <1>6 DEF RotInv

\* A step that leaves the jobs alone, and clears nothing without reason, keeps it too.
LEMMA OtherStep ==
  ASSUME RotInv, [RotNext]_rotVars, UNCHANGED <<rtask, job>>,
         cleared' \in {"no", "status", "job"}, writes' \in Nat, ClearedIsSettled'
  PROVE  RotInv'
<1>1. /\ store' \in [Buckets -> [RDocs -> Cells]] /\ AllOpenable'
      /\ \A b \in Buckets, d \in RDocs : Settled(store[b][d]) => Settled(store'[b][d])
  BY StoreStep
<1>2. RotTyped /\ RotTyped'
  BY <1>1 DEF RotInv, RotTyped
<1>3. ASSUME NEW i \in RJobs PROVE PutsPrimary(rtask'[i]) /\ Passed(store', rtask'[i], job'[i]) /\ Converged(store', job'[i])
  <2>1. job[i].scope \subseteq RDocs /\ rtask[i].bucket \in Buckets
    BY <1>2 DEF RotTyped, JobRecs, Tasks
  <2>2. PutsPrimary(rtask[i]) /\ Passed(store, rtask[i], job[i]) /\ Converged(store, job[i])
    BY DEF RotInv
  <2>3. QED
    BY <1>1, <2>1, <2>2 DEF PutsPrimary, Passed, Converged, Buckets
<1>4. QED
  BY <1>1, <1>2, <1>3 DEF RotInv

\* The docs bucket holds nothing under the old key when Status counts none.
LEMMA NoLegacy ==
  ASSUME WithLegacy = 0
  PROVE  \A d \in RDocs : Settled(store["docs"][d])
<1> DEFINE S == {d \in RDocs : ~Settled(store["docs"][d])}
<1>1. IsFiniteSet(S)
  BY RDocsAssumption, FS_Subset
<1>2. Cardinality(S) = 0
  BY DEF WithLegacy
<1> HIDE DEF S
<1>3. S = {}
  BY <1>1, <1>2, FS_EmptySet
<1>4. QED BY <1>3 DEF S

-----------------------------------------------------------------------------
\* Every step of a rotation's goroutine keeps the invariant.
LEMMA RunStep ==
  ASSUME RotInv, [RotNext]_rotVars, NEW j \in RJobs, RunNext(j)
  PROVE  RotInv'
<1> DEFINE t == rtask[j]
           r == job[j]
<1>1. /\ t \in Tasks /\ r \in JobRecs /\ rtask \in [RJobs -> Tasks] /\ job \in [RJobs -> JobRecs]
      /\ PutsPrimary(t) /\ Passed(store, t, r) /\ Converged(store, r)
  BY DEF RotInv, RotTyped
<1>2. /\ \A b \in Buckets, d \in RDocs : Settled(store[b][d]) => Settled(store'[b][d])
      /\ r.scope \subseteq RDocs /\ t.bucket \in Buckets /\ "docs" \in Buckets /\ "rev" \in Buckets
  BY <1>1, StoreStep DEF JobRecs, Tasks, Buckets
<1>3. UNCHANGED <<previous, cleared, writes>>
  BY DEF RunNext, Run, Snapshot, ProcessRead, ProcessWrite, BucketDone, ContextDone, Finish
<1>4. job = [job EXCEPT ![j] = r] /\ rtask = [rtask EXCEPT ![j] = t]
  BY <1>1
<1>5. CASE Run(j)
  <2> DEFINE u == [t EXCEPT !.pc = "snapshot"]
             q == [r EXCEPT !.status = "running"]
  <2>1. rtask' = [rtask EXCEPT ![j] = u] /\ job' = [job EXCEPT ![j] = q] /\ t.pc = "run"
        /\ UNCHANGED store
    BY <1>5 DEF Run
  <2>2. u \in Tasks /\ u.pc = "snapshot" /\ u.bucket = t.bucket
    BY <1>1 DEF Tasks
  <2>3. q \in JobRecs /\ q.status = "running" /\ q.errors = r.errors /\ q.scope = r.scope
    BY <1>1 DEF JobRecs
  <2> HIDE DEF t, r, u, q
  <2>4. t.bucket = "docs"
    BY <1>1, <2>1 DEF PutsPrimary
  <2>5. PutsPrimary(u) /\ Passed(store', u, q) /\ Converged(store', q)
    BY <2>2, <2>3, <2>4 DEF PutsPrimary, Passed, Converged
  <2>6. QED
    BY <1>3, <2>1, <2>2, <2>3, <2>5, JobStep
<1>6. CASE Snapshot(j)
  <2> DEFINE todo == {d \in r.scope : store[t.bucket][d] # NoEntry}
             u == [t EXCEPT !.pc = "read", !.todo = todo]
  <2>1. rtask' = [rtask EXCEPT ![j] = u] /\ job' = [job EXCEPT ![j] = r] /\ t.pc = "snapshot"
        /\ UNCHANGED store
    BY <1>4, <1>6 DEF Snapshot
  <2>2. todo \in SUBSET RDocs /\ todo \subseteq r.scope
    BY <1>2
  <2>3. \A d \in r.scope \ todo : Settled(store[t.bucket][d])
    BY NoEntrySettled
  <2> HIDE DEF todo
  <2>4. u \in Tasks /\ u.pc = "read" /\ u.bucket = t.bucket /\ u.todo = todo
    BY <1>1, <2>2 DEF Tasks
  <2> HIDE DEF t, r, u
  <2>5. PutsPrimary(u) /\ Passed(store', u, r) /\ Converged(store', r)
    BY <1>1, <2>1, <2>3, <2>4 DEF PutsPrimary, Passed, Converged
  <2>6. QED
    BY <1>1, <1>3, <2>1, <2>4, <2>5, JobStep
<1>7. CASE ProcessRead(j)
  <2>1. t.pc = "read" /\ UNCHANGED store
    BY <1>7 DEF ProcessRead
  <2>2. PICK d \in t.todo :
         LET v == store[t.bucket][d] IN
           \/ /\ Settled(v)
              /\ rtask' = [rtask EXCEPT ![j].todo = @ \ {d}]
              /\ UNCHANGED job
           \/ /\ ~Settled(v) /\ ~CanDecrypt(v)
              /\ job' = [job EXCEPT ![j].errors = @ + 1]
              /\ rtask' = [rtask EXCEPT ![j].todo = @ \ {d}]
           \/ /\ ~Settled(v) /\ CanDecrypt(v)
              /\ rtask' = [rtask EXCEPT ![j].pc = "write", ![j].key = d,
                                        ![j].val = Seal(v.content)]
              /\ UNCHANGED job
    BY <1>7 DEF ProcessRead
  <2> DEFINE v == store[t.bucket][d]
             u == [t EXCEPT !.todo = @ \ {d}]
  <2>3. d \in RDocs /\ v \in Cells
    BY <1>1, <1>2 DEF RotInv, RotTyped, Tasks
  <2>4. u \in Tasks /\ u.pc = "read" /\ u.bucket = t.bucket /\ u.todo = t.todo \ {d}
    BY <1>1, <2>1 DEF Tasks
  <2>5. CASE Settled(v) /\ rtask' = [rtask EXCEPT ![j].todo = @ \ {d}] /\ UNCHANGED job
    <3>1. rtask' = [rtask EXCEPT ![j] = u] /\ job' = [job EXCEPT ![j] = r]
      BY <1>4, <2>5
    <3> HIDE DEF t, r, u
    <3>2. PutsPrimary(u) /\ Passed(store', u, r) /\ Converged(store', r)
      BY <1>1, <2>1, <2>4, <2>5 DEF PutsPrimary, Passed, Converged
    <3>3. QED
      BY <1>1, <1>3, <2>4, <3>1, <3>2, JobStep
  <2>6. CASE job' = [job EXCEPT ![j].errors = @ + 1] /\ rtask' = [rtask EXCEPT ![j].todo = @ \ {d}]
    <3> DEFINE q == [r EXCEPT !.errors = @ + 1]
    <3>1. rtask' = [rtask EXCEPT ![j] = u] /\ job' = [job EXCEPT ![j] = q]
      BY <2>6
    <3>2. q \in JobRecs /\ q.errors = r.errors + 1 /\ r.errors \in Nat
      BY <1>1 DEF JobRecs
    <3> HIDE DEF t, r, u, q
    <3>3. q.errors # 0
      BY <3>2
    <3>4. PutsPrimary(u) /\ Passed(store', u, q) /\ Converged(store', q)
      BY <2>4, <3>3 DEF PutsPrimary, Passed, Converged
    <3>5. QED
      BY <1>1, <1>3, <2>4, <3>1, <3>2, <3>4, JobStep
  <2>7. CASE /\ ~Settled(v) /\ UNCHANGED job
             /\ rtask' = [rtask EXCEPT ![j].pc = "write", ![j].key = d, ![j].val = Seal(v.content)]
    <3> DEFINE s == Seal(v.content)
               w == [t EXCEPT !.pc = "write", !.key = d, !.val = s]
    <3>1. rtask' = [rtask EXCEPT ![j] = w] /\ job' = [job EXCEPT ![j] = r]
      BY <1>4, <2>7
    <3>2. v \in Vals
      BY <2>3, <2>7, NoEntrySettled DEF Cells
    <3>3. s \in Cells /\ Settled(s) /\ Openable(s)
      BY <3>2, SealFacts DEF Vals, Cells
    <3> HIDE DEF s
    <3>4. w \in Tasks /\ w.pc = "write" /\ w.key = d /\ w.val = s /\ w.bucket = t.bucket
          /\ w.todo = t.todo
      BY <1>1, <2>3, <3>3 DEF Tasks
    <3> HIDE DEF t, r, u, w
    <3>5. PutsPrimary(w) /\ Passed(store', w, r) /\ Converged(store', r)
      BY <1>1, <2>1, <2>3, <3>3, <3>4 DEF PutsPrimary, Passed, Converged
    <3>6. QED
      BY <1>1, <1>3, <3>1, <3>4, <3>5, JobStep
  <2>8. QED BY <2>2, <2>5, <2>6, <2>7
<1>8. CASE ProcessWrite(j)
  <2> DEFINE u == [t EXCEPT !.pc = "read", !.todo = @ \ {t.key}, !.key = NoEntry, !.val = NoEntry]
  <2>1. /\ rtask' = [rtask EXCEPT ![j] = u] /\ job' = [job EXCEPT ![j] = r] /\ t.pc = "write"
        /\ store' = [store EXCEPT ![t.bucket][t.key] = t.val]
    BY <1>4, <1>8 DEF ProcessWrite
  <2>2. t.key \in RDocs /\ Settled(t.val) /\ store \in [Buckets -> [RDocs -> Cells]]
    BY <1>1, <2>1 DEF PutsPrimary, RotInv, RotTyped
  <2>3. store'[t.bucket][t.key] = t.val
    BY <1>2, <2>1, <2>2
  <2>4. u \in Tasks /\ u.pc = "read" /\ u.bucket = t.bucket /\ u.todo = t.todo \ {t.key}
    BY <1>1, <2>2 DEF Tasks, Cells
  <2> HIDE DEF t, r, u
  <2>5. PutsPrimary(u) /\ Converged(store', r)
    BY <1>1, <1>2, <2>4 DEF PutsPrimary, Converged
  <2>6. Passed(store', u, r)
    BY <1>1, <1>2, <2>1, <2>2, <2>3, <2>4 DEF Passed
  <2>7. QED
    BY <1>1, <1>3, <2>1, <2>4, <2>5, <2>6, JobStep
<1>9. CASE BucketDone(j) /\ t.bucket = "docs"
  <2> DEFINE u == [t EXCEPT !.pc = "snapshot", !.bucket = "rev"]
  <2>1. rtask' = [rtask EXCEPT ![j] = u] /\ job' = [job EXCEPT ![j] = r] /\ t.pc = "read"
        /\ t.todo = {} /\ UNCHANGED store
    BY <1>4, <1>9 DEF BucketDone
  <2>2. u \in Tasks /\ u.pc = "snapshot" /\ u.bucket = "rev"
    BY <1>1, <1>2 DEF Tasks
  <2> HIDE DEF t, r, u
  <2>3. PutsPrimary(u) /\ Passed(store', u, r) /\ Converged(store', r)
    BY <1>1, <1>9, <2>1, <2>2 DEF PutsPrimary, Passed, Converged
  <2>4. QED
    BY <1>1, <1>3, <2>1, <2>2, <2>3, JobStep
<1>10. CASE BucketDone(j) /\ t.bucket # "docs"
  <2> DEFINE u == [NoTask EXCEPT !.pc = "finish"]
             q == [r EXCEPT !.status = "completed"]
  <2>1. rtask' = [rtask EXCEPT ![j] = u] /\ job' = [job EXCEPT ![j] = q] /\ t.pc = "read"
        /\ t.todo = {} /\ UNCHANGED store
    BY <1>10 DEF BucketDone
  <2>2. u \in Tasks /\ u.pc = "finish"
    BY DEF Tasks, NoTask, Buckets, Cells
  <2>3. q \in JobRecs /\ q.errors = r.errors /\ q.scope = r.scope
    BY <1>1 DEF JobRecs
  <2> HIDE DEF t, r, u, q
  <2>4. PutsPrimary(u) /\ Passed(store', u, q)
    BY <2>2 DEF PutsPrimary, Passed
  <2>5. t.bucket = "rev"
    BY <1>2, <1>10 DEF Buckets
  <2>6. Converged(store', q)
    BY <1>1, <2>1, <2>3, <2>5 DEF Passed, Converged, Buckets
  <2>7. QED
    BY <1>1, <1>3, <2>1, <2>2, <2>3, <2>4, <2>6, JobStep
<1>11. CASE ContextDone(j)
  <2> DEFINE u == [NoTask EXCEPT !.pc = "finish"]
             q == [r EXCEPT !.status = "failed"]
  <2>1. rtask' = [rtask EXCEPT ![j] = u] /\ job' = [job EXCEPT ![j] = q]
    BY <1>11 DEF ContextDone
  <2>2. u \in Tasks /\ u.pc = "finish"
    BY DEF Tasks, NoTask, Buckets, Cells
  <2>3. q \in JobRecs /\ q.status = "failed"
    BY <1>1 DEF JobRecs
  <2> HIDE DEF t, r, u, q
  <2>4. PutsPrimary(u) /\ Passed(store', u, q) /\ Converged(store', q)
    BY <2>2, <2>3 DEF PutsPrimary, Passed, Converged
  <2>5. QED
    BY <1>1, <1>3, <2>1, <2>2, <2>3, <2>4, JobStep
<1>12. CASE Finish(j)
  <2>1. rtask' = [rtask EXCEPT ![j] = NoTask] /\ job' = [job EXCEPT ![j] = r]
    BY <1>4, <1>12 DEF Finish
  <2>2. NoTask \in Tasks /\ NoTask.pc = "none"
    BY DEF Tasks, NoTask, Buckets, Cells
  <2> HIDE DEF t, r
  <2>3. PutsPrimary(NoTask) /\ Passed(store', NoTask, r) /\ Converged(store', r)
    BY <1>1, <1>2, <2>2 DEF PutsPrimary, Passed, Converged
  <2>4. QED
    BY <1>1, <1>3, <2>1, <2>2, <2>3, JobStep
<1>13. QED
  BY <1>5, <1>6, <1>7, <1>8, <1>9, <1>10, <1>11, <1>12 DEF RunNext

\* Every step keeps the invariant.
LEMMA RotInvStep == RotInv /\ [RotNext]_rotVars => RotInv'
<1> SUFFICES ASSUME RotInv, [RotNext]_rotVars PROVE RotInv'
  OBVIOUS
<1>1. /\ store' \in [Buckets -> [RDocs -> Cells]] /\ AllOpenable'
      /\ \A b \in Buckets, d \in RDocs : Settled(store[b][d]) => Settled(store'[b][d])
  BY StoreStep
<1>2. RotTyped /\ ClearedIsSettled /\ "docs" \in Buckets /\ "rev" \in Buckets
  BY DEF RotInv, Buckets
<1>3. NoTask \in Tasks /\ NoJobYet \in JobRecs /\ NoTask.pc = "none" /\ NoJobYet.status = "none"
  BY DEF NoTask, Tasks, NoJobYet, JobRecs, Buckets, Cells
<1>4. ASSUME NEW j \in RJobs, NEW scope \in {RDocs} \cup {{d} : d \in RDocs}, Start(j, scope)
      PROVE  RotInv'
  <2> DEFINE t == [NoTask EXCEPT !.pc = "run"]
             r == [status |-> "queued", errors |-> 0, scope |-> scope, alive |-> TRUE]
  <2>1. t \in Tasks /\ t.pc = "run" /\ t.bucket = "docs"
    BY DEF NoTask, Tasks, Buckets, Cells
  <2>2. scope \in SUBSET RDocs
    BY <1>4
  <2>3. r \in JobRecs /\ r.status = "queued"
    BY <2>2 DEF JobRecs
  <2>4. rtask' = [rtask EXCEPT ![j] = t] /\ job' = [job EXCEPT ![j] = r]
        /\ UNCHANGED <<previous, cleared, writes>>
    BY <1>4 DEF Start
  <2> HIDE DEF t, r
  <2>5. PutsPrimary(t) /\ Passed(store', t, r) /\ Converged(store', r)
    BY <2>1, <2>3 DEF PutsPrimary, Passed, Converged
  <2>6. QED BY <2>1, <2>3, <2>4, <2>5, JobStep
<1>5. ASSUME NEW j \in RJobs, HandlerReturns(j) PROVE RotInv'
  <2> DEFINE t == rtask[j]
             r == [job[j] EXCEPT !.alive = FALSE]
  <2>1. t \in Tasks /\ job[j] \in JobRecs /\ PutsPrimary(t) /\ Passed(store, t, job[j])
        /\ Converged(store, job[j])
    BY DEF RotInv, RotTyped
  <2>2. rtask' = [rtask EXCEPT ![j] = t] /\ job' = [job EXCEPT ![j] = r]
        /\ UNCHANGED <<store, previous, cleared, writes>>
    BY <1>2, <1>5 DEF HandlerReturns, RotTyped
  <2>3. r.status = job[j].status /\ r.errors = job[j].errors /\ r.scope = job[j].scope
        /\ r.alive = FALSE
    BY <2>1 DEF JobRecs
  <2>4. r \in JobRecs
    <3>1. \A x \in JobRecs : [x EXCEPT !.alive = FALSE] \in JobRecs
      BY Zenon DEF JobRecs
    <3>2. QED BY <2>1, <3>1
  <2> HIDE DEF t, r
  <2>5. Passed(store', t, r) /\ Converged(store', r)
    BY <2>1, <2>2, <2>3 DEF Passed, Converged
  <2>6. QED BY <2>1, <2>2, <2>4, <2>5, JobStep
<1>6. ASSUME NEW j \in RJobs, RunNext(j) PROVE RotInv'
  BY <1>6, RunStep
<1>7. ASSUME NEW d \in RDocs, WriteDoc(d) \/ DeleteDoc(d) PROVE RotInv'
  <2>1. UNCHANGED <<previous, job, rtask, cleared>> /\ writes' = writes + 1
    BY <1>7 DEF WriteDoc, DeleteDoc
  <2>2. writes' \in Nat /\ cleared' \in {"no", "status", "job"}
    BY <1>2, <2>1 DEF RotTyped
  <2>3. ClearedIsSettled'
    BY <1>1, <1>2, <2>1 DEF ClearedIsSettled
  <2>4. QED BY <2>1, <2>2, <2>3, OtherStep
<1>8. CASE Inspect
  <2>1. UNCHANGED <<store, previous, job, rtask, writes>> /\ cleared = "no" /\ previous = {"old"}
        /\ cleared' \in {"status", "job"}
    BY <1>2, <1>8 DEF Inspect, ClearedIsSettled
  <2>2. \A d \in RDocs : /\ Settled(store["docs"][d])
                         /\ cleared' = "job" => Settled(store["rev"][d])
    <3>1. CASE WithLegacy = 0 /\ cleared' = "status"
      BY <3>1, NoLegacy
    <3>2. CASE \E j \in RJobs : job[j].status = "completed" /\ job[j].errors = 0 /\ job[j].scope = RDocs
      <4>1. PICK j \in RJobs : job[j].status = "completed" /\ job[j].errors = 0 /\ job[j].scope = RDocs
        BY <3>2
      <4>2. Converged(store, job[j])
        BY DEF RotInv
      <4>3. QED BY <1>2, <4>1, <4>2 DEF Converged
    <3>3. QED BY <1>8, <3>1, <3>2 DEF Inspect
  <2>3. ClearedIsSettled'
    BY <2>1, <2>2 DEF ClearedIsSettled
  <2>4. writes' \in Nat /\ cleared' \in {"no", "status", "job"}
    BY <1>2, <2>1 DEF RotTyped
  <2>5. QED BY <2>1, <2>3, <2>4, OtherStep
<1>9. CASE Restart
  <2>1. /\ UNCHANGED <<store, cleared, writes>>
        /\ previous' = IF cleared = "no" THEN previous ELSE {}
        /\ job' = [j \in RJobs |-> NoJobYet] /\ rtask' = [j \in RJobs |-> NoTask]
    BY <1>9 DEF Restart
  <2>2. RotTyped'
    BY <1>1, <1>2, <1>3, <2>1 DEF RotTyped
  <2>3. ClearedIsSettled'
    BY <1>2, <2>1 DEF ClearedIsSettled
  <2>4. \A j \in RJobs : PutsPrimary(rtask'[j]) /\ Passed(store', rtask'[j], job'[j])
                         /\ Converged(store', job'[j])
    BY <1>3, <2>1 DEF PutsPrimary, Passed, Converged
  <2>5. QED BY <1>1, <2>2, <2>3, <2>4 DEF RotInv
<1>10. CASE UNCHANGED rotVars
  <2>1. UNCHANGED <<rtask, job, store, cleared, writes, previous>>
    BY <1>10 DEF rotVars
  <2>2. writes' \in Nat /\ cleared' \in {"no", "status", "job"} /\ ClearedIsSettled'
    BY <1>2, <2>1 DEF RotTyped, ClearedIsSettled
  <2>3. QED BY <2>1, <2>2, OtherStep
<1>11. QED
  BY <1>4, <1>5, <1>6, <1>7, <1>8, <1>9, <1>10 DEF RotNext

\* A job that reports success has left nothing under the old key, and dropping that key for
\* either of the reasons the documentation gives makes nothing unreadable that the reason covers,
\* for any documents, jobs, restarts and concurrent writes (processBuckets, processOne, Status).
THEOREM RotationIsSafe == RotSpec => []RotationSafe
<1>1. RotInv => RotationSafe
  <2> SUFFICES ASSUME RotInv PROVE RotationSafe
    OBVIOUS
  <2>1. CompletedIsConverged
    BY DEF RotInv, Converged, CompletedIsConverged
  <2>2. ASSUME NEW b \in Buckets, NEW d \in RDocs, store[b][d] # NoEntry,
               b = "docs" \/ cleared # "status"
        PROVE  CanDecrypt(store[b][d])
    <3> PICK v : v = store[b][d]
      OBVIOUS
    <3>1. v \in Vals /\ Openable(v)
      BY <2>2 DEF RotInv, RotTyped, AllOpenable, Cells
    <3>2. CASE previous = {"old"}
      BY <2>2, <3>1, <3>2 DEF Openable, CanDecrypt, Vals
    <3>3. CASE previous = {} /\ cleared # "no"
      <4>1. b = "docs" \/ (b = "rev" /\ cleared = "job")
        BY <2>2, <3>3 DEF RotInv, RotTyped, Buckets
      <4>2. Settled(v)
        BY <2>2, <3>3, <4>1 DEF RotInv, ClearedIsSettled
      <4>3. QED
        BY <2>2, <4>2 DEF Settled, IsEncryptedWithPrimary, CanDecrypt
    <3>4. QED BY <3>2, <3>3 DEF RotInv, ClearedIsSettled
  <2>3. QED
    BY <2>1, <2>2 DEF RotationSafe, StaysReadable
<1>2. QED
  BY <1>1, RotInvInit, RotInvStep, PTL DEF RotSpec

-----------------------------------------------------------------------------
(* The events hub. *)

Broadcast == [pc : {"new", "run", "done"}, todo : SUBSET Conns, all : SUBSET Conns]

HubTyped ==
  /\ conn \in [Conns -> {"new", "open", "closed", "refused"}]
  /\ ipCount \in [Ips -> Nat]
  /\ chn \in [Conns -> Seq(SseEvents)]
  /\ got \in [Conns -> SUBSET SseEvents]
  /\ skipped \in [Conns -> SUBSET SseEvents]
  /\ mayRead \in SUBSET Users
  /\ bcast \in [SseEvents -> Broadcast]
  /\ denied \in [Users -> SUBSET SseEvents]

From(i) == {c \in Registered : IpOf[c] = i}

\* The counters, as far as connections alone decide them.
CountsExact ==
  /\ IsFiniteSet(Registered)
  /\ \A i \in Ips : ipCount[i] = Cardinality(From(i)) /\ ipCount[i] <= MaxPerIP
  /\ Cardinality(Registered) <= MaxConns

\* Only a broadcast that holds the read lock has clients to visit, and all of them are open.
VisitsOpen ==
  \A e \in SseEvents : bcast[e].todo \subseteq Registered /\ (bcast[e].todo # {} => bcast[e].pc = "run")

\* An event whose broadcast has not begun is nowhere, and nobody may receive a denied one.
NotYetSent ==
  /\ \A e \in SseEvents : bcast[e].pc = "new" => \A c \in Conns : e \notin Queued(c) \cup got[c]
  /\ \A u \in Users : denied[u] # {} => u \notin mayRead

\* The clients a broadcast has visited have been served.
VisitedServed ==
  \A e \in SseEvents : bcast[e].pc # "new" =>
    \A c \in bcast[e].all \ bcast[e].todo : Wants(c, e) => e \in Queued(c) \cup got[c] \cup skipped[c]

HubInv == HubTyped /\ CountsExact /\ VisitsOpen /\ NotYetSent /\ VisitedServed /\ RevocationHolds

-----------------------------------------------------------------------------
\* At the start nobody is registered and nothing has been broadcast.
LEMMA HubInvInit == HubInit => HubInv
<1> SUFFICES ASSUME HubInit PROVE HubInv
  OBVIOUS
<1>1. HubTyped
  BY DEF HubInit, HubTyped, Broadcast
<1>2. Registered = {} /\ \A i \in Ips : From(i) = {}
  BY DEF HubInit, Registered, From
<1>3. CountsExact
  <2>1. 0 <= MaxConns /\ 0 <= MaxPerIP
    BY SseAssumption
  <2>2. Cardinality({}) = 0 /\ IsFiniteSet({})
    BY FS_EmptySet
  <2>3. \A i \in Ips : ipCount[i] = 0
    BY DEF HubInit
  <2>4. QED BY <1>2, <2>1, <2>2, <2>3 DEF CountsExact
<1>4. \A c \in Conns : Queued(c) = {}
  BY DEF HubInit, Queued
<1>5. VisitsOpen /\ VisitedServed
  BY DEF HubInit, VisitsOpen, VisitedServed
<1>6. NotYetSent
  BY <1>4 DEF HubInit, NotYetSent
<1>7. RevocationHolds
  BY <1>4 DEF HubInit, RevocationHolds, Users
<1>8. QED
  BY <1>1, <1>3, <1>5, <1>6, <1>7 DEF HubInv

\* addClient keeps the counters exact: both limits are looked at under the write lock.
LEMMA AddClientKeeps ==
  ASSUME HubInv, NEW c \in Conns, AddClient(c)
  PROVE  HubInv'
<1>1. /\ conn[c] = "new" /\ ~ReadLocked
      /\ UNCHANGED <<chn, got, skipped, mayRead, bcast, denied>>
  BY DEF AddClient
<1>2. HubTyped /\ CountsExact /\ VisitsOpen
  BY DEF HubInv
<1>3. c \notin Registered
  BY <1>1 DEF Registered
<1>4. VisitsOpen' /\ NotYetSent' /\ VisitedServed' /\ RevocationHolds'
  <2>1. \A e \in SseEvents : bcast[e].todo = {}
    BY <1>1, <1>2 DEF ReadLocked, VisitsOpen
  <2>2. VisitsOpen'
    BY <1>1, <2>1 DEF VisitsOpen
  <2>3. QED
    BY <1>1, <2>2 DEF HubInv, NotYetSent, VisitedServed, RevocationHolds, Queued, Wants
<1>5. CASE conn' = [conn EXCEPT ![c] = "refused"] /\ UNCHANGED ipCount
  <2>1. Registered' = Registered
    BY <1>1, <1>2, <1>5 DEF Registered, HubTyped
  <2>2. HubTyped' /\ CountsExact'
    BY <1>1, <1>2, <1>5, <2>1 DEF HubTyped, CountsExact, From
  <2>3. QED BY <1>4, <2>2 DEF HubInv
<1>6. CASE /\ ~(Cardinality(Registered) >= MaxConns)
           /\ ~(IpOf[c] # NoIp /\ ipCount[IpOf[c]] >= MaxPerIP)
           /\ conn' = [conn EXCEPT ![c] = "open"]
           /\ ipCount' = [i \in Ips |-> IF i = IpOf[c] THEN ipCount[i] + 1 ELSE ipCount[i]]
  <2>1. Registered' = Registered \cup {c}
    BY <1>2, <1>6 DEF Registered, HubTyped
  <2>2. IsFiniteSet(Registered) /\ Cardinality(Registered) \in Nat
        /\ MaxConns \in Nat /\ MaxPerIP \in Nat
    BY <1>2, FS_CardinalityType, SseAssumption DEF CountsExact
  <2>3. IsFiniteSet(Registered') /\ Cardinality(Registered') = Cardinality(Registered) + 1
    BY <1>3, <2>1, <2>2, FS_AddElement
  <2>4. Cardinality(Registered') <= MaxConns
    BY <1>6, <2>2, <2>3
  <2>5. ASSUME NEW i \in Ips
        PROVE  ipCount'[i] = Cardinality(From(i)') /\ ipCount'[i] <= MaxPerIP /\ ipCount'[i] \in Nat
    <3>1. i # NoIp /\ ipCount[i] \in Nat
      BY <1>2 DEF Ips, HubTyped
    <3>2. IsFiniteSet(From(i)) /\ ipCount[i] = Cardinality(From(i)) /\ ipCount[i] <= MaxPerIP
      BY <1>2, <2>2, FS_Subset DEF From, CountsExact
    <3>3. CASE i = IpOf[c]
      <4>1. From(i)' = From(i) \cup {c} /\ c \notin From(i)
        BY <1>3, <2>1, <3>3 DEF From
      <4>2. Cardinality(From(i)') = Cardinality(From(i)) + 1
        BY <3>2, <4>1, FS_AddElement
      <4>3. ipCount'[i] = ipCount[i] + 1 /\ ~(ipCount[i] >= MaxPerIP)
        BY <1>6, <3>1, <3>3
      <4>4. QED BY <2>2, <3>1, <3>2, <4>2, <4>3
    <3>4. CASE i # IpOf[c]
      <4>1. From(i)' = From(i)
        BY <2>1, <3>4 DEF From
      <4>2. QED BY <1>6, <3>1, <3>2, <3>4, <4>1
    <3>5. QED BY <3>3, <3>4
  <2>6. HubTyped'
    BY <1>1, <1>2, <1>6, <2>5 DEF HubTyped
  <2>7. CountsExact'
    BY <2>3, <2>4, <2>5 DEF CountsExact
  <2>8. QED BY <1>4, <2>6, <2>7 DEF HubInv
<1>7. QED BY <1>5, <1>6 DEF AddClient

\* removeClient waits for the broadcasts that range over the clients.
LEMMA RemoveClientKeeps ==
  ASSUME HubInv, NEW c \in Conns, RemoveClient(c)
  PROVE  HubInv'
<1>1. /\ conn[c] = "open" /\ ~ReadLocked /\ conn' = [conn EXCEPT ![c] = "closed"]
      /\ ipCount' = [i \in Ips |-> IF i = IpOf[c] THEN ipCount[i] - 1 ELSE ipCount[i]]
      /\ UNCHANGED <<chn, got, skipped, mayRead, bcast, denied>>
  BY DEF RemoveClient
<1>2. HubTyped /\ CountsExact /\ VisitsOpen
  BY DEF HubInv
<1>3. VisitsOpen' /\ NotYetSent' /\ VisitedServed' /\ RevocationHolds'
  <2>1. \A e \in SseEvents : bcast[e].todo = {}
    BY <1>1, <1>2 DEF ReadLocked, VisitsOpen
  <2>2. VisitsOpen'
    BY <1>1, <2>1 DEF VisitsOpen
  <2>3. QED
    BY <1>1, <2>2 DEF HubInv, NotYetSent, VisitedServed, RevocationHolds, Queued, Wants
<1>4. Registered' = Registered \ {c} /\ c \in Registered
  BY <1>1, <1>2 DEF Registered, HubTyped
<1>5. IsFiniteSet(Registered) /\ Cardinality(Registered) \in Nat
      /\ MaxConns \in Nat /\ MaxPerIP \in Nat
  BY <1>2, FS_CardinalityType, SseAssumption DEF CountsExact
<1>6. IsFiniteSet(Registered') /\ Cardinality(Registered') = Cardinality(Registered) - 1
  BY <1>4, <1>5, FS_RemoveElement
<1>7. Cardinality(Registered') <= MaxConns
  BY <1>2, <1>5, <1>6 DEF CountsExact
<1>8. ASSUME NEW i \in Ips
      PROVE  ipCount'[i] = Cardinality(From(i)') /\ ipCount'[i] <= MaxPerIP /\ ipCount'[i] \in Nat
  <2>1. ipCount[i] \in Nat /\ IsFiniteSet(From(i)) /\ ipCount[i] = Cardinality(From(i))
        /\ ipCount[i] <= MaxPerIP
    BY <1>2, <1>5, FS_Subset DEF From, CountsExact, HubTyped
  <2>2. CASE i = IpOf[c]
    <3>1. From(i)' = From(i) \ {c} /\ c \in From(i)
      BY <1>4, <2>2 DEF From
    <3>2. Cardinality(From(i)') = Cardinality(From(i)) - 1 /\ IsFiniteSet(From(i)')
      BY <2>1, <3>1, FS_RemoveElement
    <3>3. Cardinality(From(i)') \in Nat
      BY <3>2, FS_CardinalityType
    <3>4. ipCount'[i] = ipCount[i] - 1
      BY <1>1, <2>2
    <3>5. QED BY <1>5, <2>1, <3>2, <3>3, <3>4
  <2>3. CASE i # IpOf[c]
    <3>1. From(i)' = From(i)
      BY <1>4, <2>3 DEF From
    <3>2. QED BY <1>1, <2>1, <2>3, <3>1
  <2>4. QED BY <2>2, <2>3
<1>9. HubTyped'
  BY <1>1, <1>2, <1>8 DEF HubTyped
<1>10. CountsExact'
  BY <1>6, <1>7, <1>8 DEF CountsExact
<1>11. QED BY <1>3, <1>9, <1>10 DEF HubInv

\* Forbid: the connection never registers.
LEMMA ForbidKeeps ==
  ASSUME HubInv, NEW c \in Conns, Forbid(c)
  PROVE  HubInv'
<1>1. /\ conn[c] = "new" /\ conn' = [conn EXCEPT ![c] = "refused"]
      /\ UNCHANGED <<ipCount, chn, got, skipped, mayRead, bcast, denied>>
  BY DEF Forbid
<1>2. HubTyped
  BY DEF HubInv
<1>3. Registered' = Registered
  BY <1>1, <1>2 DEF Registered, HubTyped
<1>4. HubTyped'
  BY <1>1, <1>2 DEF HubTyped
<1>5. CountsExact' /\ VisitsOpen'
  BY <1>1, <1>3 DEF HubInv, CountsExact, From, VisitsOpen
<1>6. NotYetSent' /\ VisitedServed' /\ RevocationHolds'
  BY <1>1 DEF HubInv, NotYetSent, VisitedServed, RevocationHolds, Queued, Wants
<1>7. QED BY <1>4, <1>5, <1>6 DEF HubInv

\* The loop of handleSSE moves the event at the head of the channel to the client.
LEMMA WriteKeeps ==
  ASSUME HubInv, NEW c \in Conns, Write(c)
  PROVE  HubInv'
<1>1. /\ chn[c] # <<>> /\ got' = [got EXCEPT ![c] = @ \cup {Head(chn[c])}]
      /\ chn' = [chn EXCEPT ![c] = Tail(@)]
      /\ UNCHANGED <<conn, ipCount, skipped, mayRead, bcast, denied>>
  BY DEF Write
<1>2. HubTyped /\ chn[c] \in Seq(SseEvents)
  BY DEF HubInv, HubTyped
<1>3. Head(chn[c]) \in SseEvents /\ Tail(chn[c]) \in Seq(SseEvents)
  BY <1>1, <1>2
<1>4. HubTyped'
  BY <1>1, <1>2, <1>3 DEF HubTyped
<1>5. \A d \in Conns : Queued(d)' \cup got'[d] = Queued(d) \cup got[d]
  <2> SUFFICES ASSUME NEW d \in Conns PROVE Queued(d)' \cup got'[d] = Queued(d) \cup got[d]
    OBVIOUS
  <2>1. CASE d # c
    BY <1>1, <1>2, <2>1 DEF Queued, HubTyped
  <2>2. CASE d = c
    <3> PICK s \in Seq(SseEvents) : s = chn[c]
      BY <1>2
    <3>1. s # <<>> /\ chn'[c] = Tail(s) /\ got'[c] = got[c] \cup {Head(s)}
      BY <1>1, <1>2 DEF HubTyped
    <3>2. {s[i] : i \in DOMAIN s} = {Head(s)} \cup {Tail(s)[i] : i \in DOMAIN Tail(s)}
      <4>1. /\ Len(s) \in Nat /\ Len(s) >= 1 /\ DOMAIN s = 1..Len(s) /\ Head(s) = s[1]
            /\ DOMAIN Tail(s) = 1..(Len(s) - 1) /\ \A i \in 1..(Len(s) - 1) : Tail(s)[i] = s[i + 1]
        BY <3>1
      <4>2. \A i \in DOMAIN s : s[i] \in {Head(s)} \cup {Tail(s)[k] : k \in DOMAIN Tail(s)}
        <5> SUFFICES ASSUME NEW i \in 1..Len(s), i # 1
                     PROVE  \E k \in 1..(Len(s) - 1) : s[i] = Tail(s)[k]
          BY ZenonT(60), <4>1
        <5>1. i - 1 \in 1..(Len(s) - 1) /\ (i - 1) + 1 = i
          BY <4>1
        <5>2. QED BY <4>1, <5>1
      <4>3. 1 \in DOMAIN s /\ \A k \in DOMAIN Tail(s) : k + 1 \in DOMAIN s
        BY <4>1
      <4>4. QED BY <4>1, <4>2, <4>3
    <3>3. Queued(c) = {s[i] : i \in DOMAIN s}
      BY DEF Queued
    <3>4. Queued(c)' = {Tail(s)[i] : i \in DOMAIN Tail(s)}
      BY <3>1 DEF Queued
    <3>5. QED BY <2>2, <3>1, <3>2, <3>3, <3>4
  <2>3. QED BY <2>1, <2>2
<1>6. CountsExact' /\ VisitsOpen'
  BY <1>1 DEF HubInv, CountsExact, From, VisitsOpen, Registered
<1>7. NotYetSent'
  BY <1>1, <1>5 DEF HubInv, NotYetSent
<1>8. VisitedServed'
  BY <1>1, <1>2, <1>5 DEF HubInv, VisitedServed, Wants, HubTyped, Broadcast
<1>9. RevocationHolds'
  BY <1>1, <1>5 DEF HubInv, RevocationHolds
<1>10. QED BY <1>4, <1>6, <1>7, <1>8, <1>9 DEF HubInv

\* A revocation: what is denied from now on has not been sent to anyone.
LEMMA RevokeReadKeeps ==
  ASSUME HubInv, NEW u \in Users, RevokeRead(u)
  PROVE  HubInv'
<1>1. /\ mayRead' = mayRead \ {u}
      /\ denied' = [denied EXCEPT ![u] = {e \in SseEvents : bcast[e].pc = "new"}]
      /\ UNCHANGED <<conn, ipCount, chn, got, skipped, bcast>>
  BY DEF RevokeRead
<1>2. HubTyped
  BY DEF HubInv
<1>3. HubTyped'
  BY <1>1, <1>2 DEF HubTyped
<1>4. CountsExact' /\ VisitsOpen' /\ \A c \in Conns : Queued(c)' = Queued(c)
  BY <1>1 DEF HubInv, CountsExact, From, VisitsOpen, Registered, Queued
<1>5. /\ denied'[u] = {e \in SseEvents : bcast[e].pc = "new"}
      /\ \A v \in Users : v # u => denied'[v] = denied[v]
  BY <1>1, <1>2 DEF HubTyped
<1>6. NotYetSent'
  BY <1>1, <1>4, <1>5 DEF HubInv, NotYetSent
<1>7. VisitedServed'
  BY <1>1, <1>2, <1>4 DEF HubInv, VisitedServed, Wants, HubTyped, Broadcast
<1>8. RevocationHolds'
  <2> SUFFICES ASSUME NEW c \in Conns PROVE denied'[UserOf[c]] \cap (Queued(c) \cup got[c]) = {}
    BY <1>1, <1>4 DEF RevocationHolds
  <2>1. UserOf[c] \in Users
    BY DEF Users
  <2>2. CASE UserOf[c] = u
    BY <1>5, <2>2 DEF HubInv, NotYetSent
  <2>3. CASE UserOf[c] # u
    BY <1>5, <2>1, <2>3 DEF HubInv, RevocationHolds
  <2>4. QED BY <2>2, <2>3
<1>9. QED BY <1>3, <1>4, <1>6, <1>7, <1>8 DEF HubInv

\* A broadcast begins with everybody who is registered still to visit, and ends with nobody.
LEMMA BroadcastBeginKeeps ==
  ASSUME HubInv, NEW e \in SseEvents, BroadcastBegin(e)
  PROVE  HubInv'
<1> DEFINE r == [pc |-> "run", todo |-> Registered, all |-> Registered]
<1>1. bcast' = [bcast EXCEPT ![e] = r] /\ UNCHANGED <<conn, ipCount, chn, got, skipped, mayRead, denied>>
  BY DEF BroadcastBegin
<1>2. HubTyped /\ r \in Broadcast /\ r.pc = "run" /\ r.todo = Registered /\ r.all = Registered
  BY DEF HubInv, Broadcast, Registered
<1> HIDE DEF r
<1>3. bcast'[e] = r /\ \A f \in SseEvents : f # e => bcast'[f] = bcast[f]
  BY <1>1, <1>2 DEF HubTyped
<1>4. HubTyped'
  BY <1>1, <1>2 DEF HubTyped
<1>5. CountsExact' /\ Registered' = Registered /\ \A c \in Conns : Queued(c)' = Queued(c)
  BY <1>1 DEF HubInv, CountsExact, From, Registered, Queued
<1>6. VisitsOpen'
  BY <1>2, <1>3, <1>5 DEF HubInv, VisitsOpen
<1>7. NotYetSent' /\ RevocationHolds'
  BY <1>1, <1>2, <1>3, <1>5 DEF HubInv, NotYetSent, RevocationHolds
<1>8. VisitedServed'
  BY <1>1, <1>2, <1>3, <1>5 DEF HubInv, VisitedServed, Wants, HubTyped, Broadcast
<1>9. QED BY <1>4, <1>5, <1>6, <1>7, <1>8 DEF HubInv

\* BroadcastChange returns once every client it ranges over was visited.
LEMMA BroadcastEndKeeps ==
  ASSUME HubInv, NEW e \in SseEvents, BroadcastEnd(e)
  PROVE  HubInv'
<1> DEFINE r == [bcast[e] EXCEPT !.pc = "done"]
<1>1. /\ bcast[e].pc = "run" /\ bcast[e].todo = {} /\ bcast' = [bcast EXCEPT ![e] = r]
      /\ UNCHANGED <<conn, ipCount, chn, got, skipped, mayRead, denied>>
  BY DEF BroadcastEnd
<1>2. HubTyped /\ r \in Broadcast /\ r.pc = "done" /\ r.todo = bcast[e].todo /\ r.all = bcast[e].all
  BY DEF HubInv, HubTyped, Broadcast
<1> HIDE DEF r
<1>3. bcast'[e] = r /\ \A f \in SseEvents : f # e => bcast'[f] = bcast[f]
  BY <1>1, <1>2 DEF HubTyped
<1>4. HubTyped'
  BY <1>1, <1>2 DEF HubTyped
<1>5. CountsExact' /\ Registered' = Registered /\ \A c \in Conns : Queued(c)' = Queued(c)
  BY <1>1 DEF HubInv, CountsExact, From, Registered, Queued
<1>6. VisitsOpen'
  BY <1>1, <1>2, <1>3, <1>5 DEF HubInv, VisitsOpen
<1>7. NotYetSent' /\ RevocationHolds'
  BY <1>1, <1>2, <1>3, <1>5 DEF HubInv, NotYetSent, RevocationHolds
<1>8. VisitedServed'
  BY <1>1, <1>2, <1>3, <1>5 DEF HubInv, VisitedServed, Wants, HubTyped, Broadcast
<1>9. QED BY <1>4, <1>5, <1>6, <1>7, <1>8 DEF HubInv

\* One send: the client visited has the event in its channel or has missed it, or did not want it.
LEMMA BroadcastSendKeeps ==
  ASSUME HubInv, NEW e \in SseEvents, NEW c \in Conns, BroadcastSend(e, c)
  PROVE  HubInv'
<1> DEFINE r == [bcast[e] EXCEPT !.todo = @ \ {c}]
<1>1. /\ c \in bcast[e].todo /\ bcast' = [bcast EXCEPT ![e] = r]
      /\ UNCHANGED <<conn, ipCount, got, mayRead, denied>>
      /\ \/ ~Wants(c, e) /\ UNCHANGED <<chn, skipped>>
         \/ Wants(c, e) /\ chn' = [chn EXCEPT ![c] = Append(@, e)] /\ UNCHANGED skipped
         \/ Wants(c, e) /\ skipped' = [skipped EXCEPT ![c] = @ \cup {e}] /\ UNCHANGED chn
  BY DEF BroadcastSend
<1>2. HubTyped /\ bcast[e] \in Broadcast
  BY DEF HubInv, HubTyped
<1>3. r \in Broadcast /\ r.pc = bcast[e].pc /\ r.todo = bcast[e].todo \ {c} /\ r.all = bcast[e].all
  <2>1. bcast[e].todo \ {c} \in SUBSET Conns
    BY <1>2 DEF Broadcast
  <2>2. QED BY <1>2, <2>1 DEF Broadcast
<1>4. bcast[e].pc = "run"
  BY <1>1 DEF HubInv, VisitsOpen
<1> HIDE DEF r
<1>5. bcast'[e] = r /\ \A f \in SseEvents : f # e => bcast'[f] = bcast[f]
  BY <1>1, <1>2, <1>3 DEF HubTyped
<1>6. chn' \in [Conns -> Seq(SseEvents)] /\ skipped' \in [Conns -> SUBSET SseEvents]
  <2>1. Append(chn[c], e) \in Seq(SseEvents) /\ skipped[c] \cup {e} \in SUBSET SseEvents
    BY <1>2 DEF HubTyped
  <2>2. QED BY <1>1, <1>2, <2>1 DEF HubTyped
<1>7. HubTyped'
  BY <1>1, <1>2, <1>3, <1>6 DEF HubTyped
<1>8. /\ CountsExact' /\ Registered' = Registered
      /\ \A d \in Conns, f \in SseEvents : Wants(d, f)' <=> Wants(d, f)
  BY <1>1 DEF HubInv, CountsExact, From, Registered, Wants
<1>9. /\ \A d \in Conns : Queued(d) \subseteq Queued(d)' /\ skipped[d] \subseteq skipped'[d]
      /\ \A d \in Conns : d # c => Queued(d)' = Queued(d)
      /\ Queued(c)' \subseteq Queued(c) \cup {e}
      /\ ~Wants(c, e) => Queued(c)' = Queued(c)
      /\ Wants(c, e) => e \in Queued(c)' \cup skipped'[c]
  <2>1. CASE ~Wants(c, e) /\ UNCHANGED <<chn, skipped>>
    BY <2>1 DEF Queued
  <2>2. CASE Wants(c, e) /\ chn' = [chn EXCEPT ![c] = Append(@, e)] /\ UNCHANGED skipped
    <3> PICK s \in Seq(SseEvents) : s = chn[c]
      BY <1>2 DEF HubTyped
    <3>1. chn'[c] = Append(s, e) /\ \A d \in Conns : d # c => chn'[d] = chn[d]
      BY <1>2, <2>2 DEF HubTyped
    <3>2. {Append(s, e)[i] : i \in DOMAIN Append(s, e)} = {s[i] : i \in DOMAIN s} \cup {e}
      <4>1. /\ Len(s) \in Nat /\ DOMAIN s = 1..Len(s) /\ DOMAIN Append(s, e) = 1..(Len(s) + 1)
            /\ Append(s, e)[Len(s) + 1] = e /\ \A i \in 1..Len(s) : Append(s, e)[i] = s[i]
        OBVIOUS
      <4>2. 1..(Len(s) + 1) = (1..Len(s)) \cup {Len(s) + 1}
        BY <4>1
      <4>3. QED BY <4>1, <4>2
    <3>3. Queued(c)' = Queued(c) \cup {e}
      BY <3>1, <3>2 DEF Queued
    <3>4. \A d \in Conns : d # c => Queued(d)' = Queued(d)
      BY <3>1 DEF Queued
    <3>5. QED BY <2>2, <3>3, <3>4
  <2>3. CASE Wants(c, e) /\ skipped' = [skipped EXCEPT ![c] = @ \cup {e}] /\ UNCHANGED chn
    <3>1. \A d \in Conns : Queued(d)' = Queued(d)
      BY <2>3 DEF Queued
    <3>2. skipped'[c] = skipped[c] \cup {e} /\ \A d \in Conns : d # c => skipped'[d] = skipped[d]
      BY <1>2, <2>3 DEF HubTyped
    <3>3. QED BY <2>3, <3>1, <3>2
  <2>4. QED BY <1>1, <2>1, <2>2, <2>3
<1>10. VisitsOpen'
  BY <1>1, <1>3, <1>4, <1>5, <1>8 DEF HubInv, VisitsOpen
<1>11. NotYetSent'
  <2> SUFFICES ASSUME NEW f \in SseEvents, bcast'[f].pc = "new", NEW d \in Conns
               PROVE  f \notin Queued(d)' \cup got'[d]
    BY <1>1 DEF HubInv, NotYetSent
  <2>1. f # e /\ bcast[f].pc = "new"
    BY <1>3, <1>4, <1>5
  <2>2. QED
    BY <1>1, <1>9, <2>1 DEF HubInv, NotYetSent
<1>12. VisitedServed'
  <2> SUFFICES ASSUME NEW f \in SseEvents, bcast'[f].pc # "new",
                      NEW d \in bcast'[f].all \ bcast'[f].todo, Wants(d, f)
               PROVE  f \in Queued(d)' \cup got'[d] \cup skipped'[d]
    BY <1>1 DEF VisitedServed, Wants
  <2>1. d \in Conns
    BY <1>7 DEF HubTyped, Broadcast
  <2>2. CASE f = e /\ d = c
    BY <1>9, <2>2
  <2>3. CASE ~(f = e /\ d = c)
    <3>1. bcast[f].pc # "new" /\ d \in bcast[f].all \ bcast[f].todo
      BY <1>3, <1>5, <2>3
    <3>2. f \in Queued(d) \cup got[d] \cup skipped[d]
      BY <3>1 DEF HubInv, VisitedServed
    <3>3. QED BY <1>1, <1>9, <2>1, <3>2
  <2>4. QED BY <2>2, <2>3
<1>13. RevocationHolds'
  <2> SUFFICES ASSUME NEW d \in Conns PROVE denied[UserOf[d]] \cap (Queued(d)' \cup got[d]) = {}
    BY <1>1 DEF RevocationHolds
  <2>1. denied[UserOf[d]] \cap (Queued(d) \cup got[d]) = {}
    BY DEF HubInv, RevocationHolds
  <2>2. CASE d # c \/ ~Wants(c, e)
    BY <1>9, <2>1, <2>2
  <2>3. CASE d = c /\ Wants(c, e)
    <3>1. denied[UserOf[c]] = {}
      BY <2>3 DEF HubInv, NotYetSent, Wants, Users
    <3>2. QED BY <2>3, <3>1
  <2>4. QED BY <2>2, <2>3
<1>14. QED
  BY <1>7, <1>8, <1>10, <1>11, <1>12, <1>13 DEF HubInv

\* Every operation of the hub keeps the invariant.
LEMMA HubInvStep == HubInv /\ [HubNext]_hubVars => HubInv'
<1> SUFFICES ASSUME HubInv, [HubNext]_hubVars PROVE HubInv'
  OBVIOUS
<1>1. CASE \E c \in Conns : AddClient(c) \/ Forbid(c) \/ RemoveClient(c) \/ Write(c)
  BY <1>1, AddClientKeeps, ForbidKeeps, RemoveClientKeeps, WriteKeeps
<1>2. CASE \E u \in Users : RevokeRead(u)
  BY <1>2, RevokeReadKeeps
<1>3. CASE \E e \in SseEvents : BroadcastBegin(e) \/ BroadcastEnd(e)
  BY <1>3, BroadcastBeginKeeps, BroadcastEndKeeps
<1>4. CASE \E e \in SseEvents, c \in Conns : BroadcastSend(e, c)
  BY <1>4, BroadcastSendKeeps
<1>5. CASE UNCHANGED hubVars
  <2>1. UNCHANGED <<conn, ipCount, chn, got, skipped, mayRead, bcast, denied>>
    BY <1>5 DEF hubVars
  <2>2. HubTyped'
    BY <2>1 DEF HubInv, HubTyped
  <2>3. Registered' = Registered
    BY <2>1 DEF Registered
  <2>4. CountsExact' /\ VisitsOpen'
    BY <2>1, <2>3 DEF HubInv, CountsExact, From, VisitsOpen
  <2>5. NotYetSent' /\ VisitedServed' /\ RevocationHolds'
    BY <2>1 DEF HubInv, NotYetSent, VisitedServed, RevocationHolds, Queued, Wants
  <2>6. QED
    BY <2>2, <2>4, <2>5 DEF HubInv
<1>6. QED BY <1>1, <1>2, <1>3, <1>4, <1>5 DEF HubNext

\* However connections come and go while writers broadcast and permissions are revoked: no send
\* on a closed channel, exact counters within their limits, every client that wants an event and
\* may read it served or counted as slow, and no event to a user who had lost the permission
\* before it was broadcast (addClient, removeClient, BroadcastWithAuth).
THEOREM HubIsSound == HubSpec => []HubSound
<1>1. HubInv => HubSound
  <2> SUFFICES ASSUME HubInv PROVE HubSound
    OBVIOUS
  <2>1. HubSafe
    BY DEF HubInv, HubSafe, CountsExact, From, VisitsOpen
  <2>2. EveryoneServed
    <3> SUFFICES ASSUME NEW e \in SseEvents, bcast[e].pc = "done", NEW c \in bcast[e].all,
                        UserOf[c] \in mayRead, FilterOf[c] \in {AllColls, CollOf[e]}
                 PROVE  e \in Queued(c) \cup got[c] \cup skipped[c]
      BY DEF EveryoneServed
    <3>1. bcast[e].todo = {}
      BY DEF HubInv, VisitsOpen
    <3>2. QED
      BY <3>1 DEF HubInv, VisitedServed, Wants
  <2>3. QED
    BY <2>1, <2>2 DEF HubSound, HubInv
<1>2. QED
  BY <1>1, HubInvInit, HubInvStep, PTL DEF HubSpec

-----------------------------------------------------------------------------
(* The audit trail. *)

AuditTyped ==
  /\ recorded \subseteq Events
  /\ ach \in Seq(Events) /\ batch \in Seq(Events) /\ exch \in Seq(Events)
  /\ fanned \in Nat /\ cutoff \in Nat
  /\ \A r \in stored : r.ev \in Events /\ r.ts = Stamps[r.ev]

Exported == Elems(exch) \cup exdropped \cup delivered \cup undelivered

\* The events that are stored, expired or had their key taken.
Filed == Kept \cup Overwritten

\* What is handed to the exporter is stored, and who has returned queues and leaves nothing.
ShutdownOrdered ==
  /\ wpc \in {"fan", "fandrain"} => Elems(batch) \subseteq Filed
  /\ phase \in {"closing", "stopped"} => wpc = "done"
  /\ expc = "done" => exch = <<>> /\ phase \in {"closing", "stopped"}
  /\ phase = "stopped" => expc = "done"

AuditInv == AuditTyped /\ EventsAccounted /\ Exported \subseteq Filed /\ ShutdownOrdered

\* What a channel holds after a send.
LEMMA ElemsAppend ==
  ASSUME NEW S, NEW s \in Seq(S), NEW x \in S
  PROVE  Append(s, x) \in Seq(S) /\ Elems(Append(s, x)) = Elems(s) \cup {x}
<1>1. /\ Append(s, x) \in Seq(S) /\ Len(Append(s, x)) = Len(s) + 1
      /\ \A i \in 1..Len(s) : Append(s, x)[i] = s[i]
      /\ Append(s, x)[Len(s) + 1] = x
  BY AppendProperties
<1>2. DOMAIN s = 1..Len(s) /\ DOMAIN Append(s, x) = 1..(Len(s) + 1) /\ Len(s) \in Nat
  BY <1>1, LenProperties
<1>3. 1..(Len(s) + 1) = (1..Len(s)) \cup {Len(s) + 1}
  BY <1>2
<1>4. QED
  BY <1>1, <1>2, <1>3 DEF Elems

\* What a channel holds before a receive.
LEMMA ElemsHeadTail ==
  ASSUME NEW S, NEW s \in Seq(S), s # <<>>
  PROVE  Head(s) \in S /\ Tail(s) \in Seq(S) /\ Elems(s) = {Head(s)} \cup Elems(Tail(s))
<1>1. /\ Head(s) \in S /\ Tail(s) \in Seq(S) /\ Len(Tail(s)) = Len(s) - 1
      /\ \A i \in 1..Len(Tail(s)) : Tail(s)[i] = s[i + 1]
  BY HeadTailProperties
<1>2. DOMAIN s = 1..Len(s) /\ DOMAIN Tail(s) = 1..(Len(s) - 1) /\ Len(s) \in Nat \ {0} /\ Head(s) = s[1]
  BY <1>1, LenProperties, EmptySeq
<1>3. ASSUME NEW i \in 1..Len(s) PROVE s[i] \in {Head(s)} \cup Elems(Tail(s))
  <2>1. CASE i = 1
    BY <1>2, <2>1
  <2>2. CASE i # 1
    <3>1. i - 1 \in 1..(Len(s) - 1) /\ i - 1 \in 1..Len(Tail(s)) /\ (i - 1) + 1 = i
      BY <1>1, <1>2, <2>2
    <3>2. Tail(s)[i - 1] = s[i]
      BY <1>1, <3>1
    <3>3. QED BY <1>2, <3>1, <3>2 DEF Elems
  <2>3. QED BY <2>1, <2>2
<1>4. ASSUME NEW i \in 1..(Len(s) - 1) PROVE Tail(s)[i] \in Elems(s)
  <2>1. i + 1 \in 1..Len(s) /\ i \in 1..Len(Tail(s))
    BY <1>1, <1>2
  <2>2. QED BY <1>1, <1>2, <2>1 DEF Elems
<1>5. Head(s) \in Elems(s)
  BY <1>2 DEF Elems
<1>6. Elems(s) \subseteq {Head(s)} \cup Elems(Tail(s))
  BY <1>2, <1>3 DEF Elems
<1>7. Elems(Tail(s)) \subseteq Elems(s)
  BY <1>2, <1>4 DEF Elems
<1>8. QED BY <1>1, <1>5, <1>6, <1>7

\* A drained channel holds nothing.
LEMMA ElemsEmpty == Elems(<<>>) = {}
  BY DEF Elems

\* At the start nothing has been recorded.
LEMMA AuditInvInit == AuditInit => AuditInv
<1> SUFFICES ASSUME AuditInit PROVE AuditInv
  OBVIOUS
<1>1. AuditTyped
  BY DEF AuditInit, AuditTyped
<1>2. EventsAccounted /\ Exported \subseteq Filed /\ ShutdownOrdered
  BY ElemsEmpty DEF AuditInit, EventsAccounted, Exported, ShutdownOrdered
<1>3. QED BY <1>1, <1>2 DEF AuditInv

\* A flush stores the batch, each of its events over at most one of the same time.
LEMMA FlushKeeps ==
  ASSUME AuditTyped, FlushBatch
  PROVE  /\ Filed \subseteq Filed' /\ Elems(batch) \subseteq Filed'
         /\ \A r \in stored' : r.ev \in Events /\ r.ts = Stamps[r.ev]
<1> DEFINE new == Keyed(sequence + 1, batch)
<1>1. stored' = PutAll(stored, new) /\ cutoff' = cutoff
  BY DEF FlushBatch
<1>2. \A i \in DOMAIN batch : batch[i] \in Events
  BY ElementOfSeq, LenProperties DEF AuditTyped
<1>3. \A n \in new : n.ev \in Events /\ n.ts = Stamps[n.ev]
  BY <1>2 DEF Keyed
<1>4. \A r \in stored' : r.ev \in Events /\ r.ts = Stamps[r.ev]
  BY <1>1, <1>3 DEF PutAll, AuditTyped
<1> HIDE DEF new
<1>5. ASSUME NEW r \in stored PROVE \E q \in stored' : q.ts = r.ts
  <2>1. CASE \E n \in new : n.ts = r.ts /\ n.seq = r.seq
    BY <1>1, <2>1 DEF PutAll
  <2>2. CASE ~\E n \in new : n.ts = r.ts /\ n.seq = r.seq
    BY <1>1, <2>2 DEF PutAll
  <2>3. QED BY <2>1, <2>2
<1>6. ASSUME NEW ev \in Events, NEW r \in stored, r.ts = Stamps[ev] PROVE ev \in Filed'
  <2>1. PICK q \in stored' : q.ts = Stamps[ev]
    BY <1>5, <1>6
  <2>2. CASE q.ev = ev
    BY <2>1, <2>2 DEF Filed, Kept
  <2>3. CASE q.ev # ev
    BY <2>1, <2>3 DEF Filed, Overwritten
  <2>4. QED BY <2>2, <2>3
<1>7. ASSUME NEW ev \in Filed PROVE ev \in Filed'
  <2>1. CASE \E r \in stored : r.ev = ev
    <3>1. PICK r \in stored : r.ev = ev
      BY <2>1
    <3>2. ev \in Events /\ r.ts = Stamps[ev]
      BY <3>1 DEF AuditTyped
    <3>3. QED BY <1>6, <3>2
  <2>2. CASE ev \in Events /\ Stamps[ev] < cutoff
    BY <1>1, <2>2 DEF Filed, Kept
  <2>3. CASE ev \in Events /\ \E r \in stored : r.ts = Stamps[ev]
    BY <1>6, <2>3
  <2>4. QED BY <2>1, <2>2, <2>3 DEF Filed, Kept, Overwritten
<1>8. ASSUME NEW i \in DOMAIN batch PROVE batch[i] \in Filed'
  <2>1. [ts |-> Stamps[batch[i]], seq |-> sequence + 1 + i - 1, ev |-> batch[i]] \in stored'
    BY <1>1 DEF PutAll, Keyed, new
  <2>2. QED BY <2>1 DEF Filed, Kept
<1>9. Elems(batch) \subseteq Filed'
  BY <1>8 DEF Elems
<1>10. QED BY <1>4, <1>7, <1>9

\* Purging drops only what is older than the cutoff.
LEMMA PurgeKeeps ==
  ASSUME AuditTyped, NEW ev \in Events, PurgeOlderThan(Stamps[ev])
  PROVE  Filed \subseteq Filed' /\ AuditTyped'
<1>1. /\ Stamps[ev] > cutoff /\ cutoff' = Stamps[ev] /\ stored' = {r \in stored : r.ts >= Stamps[ev]}
      /\ UNCHANGED <<recorded, ach, batch, exch, fanned>>
  BY DEF PurgeOlderThan, exVars
<1>2. cutoff \in Nat /\ Stamps[ev] \in Nat /\ \A f \in Events : Stamps[f] \in Nat
  BY StampsAssumption DEF AuditTyped
<1>3. AuditTyped'
  BY <1>1, <1>2 DEF AuditTyped
<1>4. ASSUME NEW f \in Events, Stamps[f] < cutoff PROVE f \in Filed'
  <2>1. Stamps[f] < cutoff'
    BY <1>1, <1>2, <1>4
  <2>2. QED BY <2>1 DEF Filed, Kept
<1>5. ASSUME NEW f \in Events, NEW r \in stored, r.ts = Stamps[f], f \in Filed PROVE f \in Filed'
  <2>1. CASE r.ts >= Stamps[ev]
    <3>1. r \in stored'
      BY <1>1, <2>1
    <3>2. CASE r.ev = f
      BY <3>1, <3>2 DEF Filed, Kept
    <3>3. CASE r.ev # f
      BY <1>5, <3>1, <3>3 DEF Filed, Overwritten
    <3>4. QED BY <3>2, <3>3
  <2>2. CASE ~(r.ts >= Stamps[ev])
    <3>1. Stamps[f] < cutoff'
      BY <1>1, <1>2, <1>5, <2>2
    <3>2. QED BY <3>1 DEF Filed, Kept
  <2>3. QED BY <2>1, <2>2
<1>6. ASSUME NEW f \in Filed PROVE f \in Filed'
  <2>1. CASE \E r \in stored : r.ev = f
    <3>1. PICK r \in stored : r.ev = f
      BY <2>1
    <3>2. f \in Events /\ r.ts = Stamps[f]
      BY <3>1 DEF AuditTyped
    <3>3. QED BY <1>5, <3>2
  <2>2. CASE f \in Events /\ Stamps[f] < cutoff
    BY <1>4, <2>2
  <2>3. CASE f \in Events /\ \E r \in stored : r.ts = Stamps[f]
    BY <1>5, <2>3
  <2>4. QED BY <2>1, <2>2, <2>3 DEF Filed, Kept, Overwritten
<1>7. QED BY <1>3, <1>6

\* Every step of the recorder, the writer, the exporter and shutdown keeps the invariant.
LEMMA AuditInvStep == AuditInv /\ [AuditNext]_auditVars => AuditInv'
<1> SUFFICES ASSUME AuditInv, [AuditNext]_auditVars PROVE AuditInv'
  OBVIOUS
<1> USE DEF AuditInv
<1>0. AuditTyped /\ EventsAccounted /\ Exported \subseteq Filed /\ ShutdownOrdered
  OBVIOUS
<1>1. ASSUME NEW ev \in Events, RecordEvent(ev) PROVE AuditInv'
  <2>1. /\ recorded' = recorded \cup {ev}
        /\ UNCHANGED <<batch, wpc, fanned, stored, cutoff, lost, exch, exdropped, delivered,
                       undelivered, expc, phase>>
    BY <1>1 DEF RecordEvent, exVars
  <2>2. Filed' = Filed /\ Exported' = Exported
    BY <2>1 DEF Filed, Kept, Overwritten, Exported
  <2>3. /\ ach' \in Seq(Events) /\ Elems(ach) \subseteq Elems(ach') /\ dropped \subseteq dropped'
        /\ ev \in Elems(ach') \cup dropped'
    <3>1. CASE ach' = Append(ach, ev) /\ UNCHANGED dropped
      BY <1>0, <3>1, ElemsAppend DEF AuditTyped
    <3>2. CASE dropped' = dropped \cup {ev} /\ UNCHANGED ach
      BY <1>0, <3>2 DEF AuditTyped
    <3>3. QED BY <1>1, <3>1, <3>2 DEF RecordEvent
  <2>4. AuditTyped'
    BY <1>0, <2>1, <2>3 DEF AuditTyped
  <2>5. EventsAccounted'
    BY <1>0, <2>1, <2>2, <2>3 DEF EventsAccounted, Filed
  <2>6. ShutdownOrdered'
    BY <1>0, <2>1, <2>2 DEF ShutdownOrdered
  <2>7. QED BY <1>0, <2>2, <2>4, <2>5, <2>6
<1>2. ASSUME NEW ev \in Events, PurgeOlderThan(Stamps[ev]) PROVE AuditInv'
  <2>1. UNCHANGED <<recorded, ach, batch, wpc, dropped, lost, exch, exdropped, delivered,
                    undelivered, expc, phase>>
    BY <1>2 DEF PurgeOlderThan, exVars
  <2>2. Filed \subseteq Filed' /\ AuditTyped'
    BY <1>0, <1>2, PurgeKeeps
  <2>3. EventsAccounted' /\ ShutdownOrdered' /\ Exported' \subseteq Filed'
    BY <1>0, <2>1, <2>2 DEF EventsAccounted, Filed, ShutdownOrdered, Exported
  <2>4. QED BY <2>2, <2>3
<1>3. CASE WriterTake
  <2>1. /\ ach # <<>> /\ wpc \in {"loop", "drain"}
        /\ batch' = Append(batch, Head(ach)) /\ ach' = Tail(ach)
        /\ UNCHANGED <<recorded, wpc, fanned, stored, cutoff, dropped, lost, exch, exdropped,
                       delivered, undelivered, expc, phase>>
    BY <1>3 DEF WriterTake, exVars
  <2>2. /\ Head(ach) \in Events /\ Tail(ach) \in Seq(Events)
        /\ Elems(ach) = {Head(ach)} \cup Elems(Tail(ach))
    BY <1>0, <2>1, ElemsHeadTail DEF AuditTyped
  <2>3. batch' \in Seq(Events) /\ Elems(batch') = Elems(batch) \cup {Head(ach)}
    BY <1>0, <2>1, <2>2, ElemsAppend DEF AuditTyped
  <2>4. Filed' = Filed /\ Exported' = Exported
    BY <2>1 DEF Filed, Kept, Overwritten, Exported
  <2>5. AuditTyped'
    BY <1>0, <2>1, <2>2, <2>3 DEF AuditTyped
  <2>6. EventsAccounted'
    BY <1>0, <2>1, <2>2, <2>3, <2>4 DEF EventsAccounted, Filed
  <2>7. ShutdownOrdered'
    BY <1>0, <2>1 DEF ShutdownOrdered
  <2>8. QED BY <1>0, <2>4, <2>5, <2>6, <2>7
<1>4. CASE FlushBatch
  <2>1. /\ wpc \in {"loop", "drain"} /\ wpc' # "done"
        /\ UNCHANGED <<recorded, ach, batch, fanned, cutoff, dropped, lost, exch, exdropped,
                       delivered, undelivered, expc, phase>>
    BY <1>4 DEF FlushBatch, FlushReady, exVars
  <2>2. /\ Filed \subseteq Filed' /\ Elems(batch) \subseteq Filed'
        /\ \A r \in stored' : r.ev \in Events /\ r.ts = Stamps[r.ev]
    BY <1>0, <1>4, FlushKeeps
  <2>3. AuditTyped' /\ EventsAccounted' /\ Exported' \subseteq Filed' /\ ShutdownOrdered'
    BY <1>0, <2>1, <2>2 DEF AuditTyped, EventsAccounted, Filed, Exported, ShutdownOrdered
  <2>4. QED BY <2>3
<1>5. CASE FlushFails
  <2>1. /\ wpc \in {"loop", "drain"} /\ wpc' \in {"loop", "done"}
        /\ lost' = lost \cup Elems(batch) /\ batch' = <<>>
        /\ UNCHANGED <<recorded, ach, fanned, stored, cutoff, dropped, exch, exdropped,
                       delivered, undelivered, expc, phase>>
    BY <1>5 DEF FlushFails, FlushReady, exVars
  <2>2. Filed' = Filed /\ Exported' = Exported
    BY <2>1 DEF Filed, Kept, Overwritten, Exported
  <2>3. AuditTyped'
    BY <1>0, <2>1 DEF AuditTyped
  <2>4. EventsAccounted' /\ ShutdownOrdered'
    BY <1>0, <2>1, <2>2 DEF EventsAccounted, Filed, ShutdownOrdered
  <2>5. QED BY <1>0, <2>2, <2>3, <2>4
<1>6. CASE FanOut
  <2>1. /\ wpc \in {"fan", "fandrain"} /\ fanned < Len(batch) /\ fanned' = fanned + 1
        /\ UNCHANGED <<recorded, ach, batch, wpc, stored, cutoff, dropped, lost, delivered,
                       undelivered, expc, phase>>
    BY <1>6 DEF FanOut
  <2>2. fanned \in Nat /\ batch \in Seq(Events) /\ Len(batch) \in Nat
    BY <1>0, LenProperties DEF AuditTyped
  <2>3. batch[fanned + 1] \in Events /\ batch[fanned + 1] \in Elems(batch)
    <3>1. fanned + 1 \in 1..Len(batch)
      BY <2>1, <2>2
    <3>2. QED BY <2>2, <3>1, ElementOfSeq, LenProperties DEF Elems
  <2>4. batch[fanned + 1] \in Filed /\ phase \notin {"closing", "stopped"} /\ expc # "done"
    BY <1>0, <2>1, <2>3 DEF ShutdownOrdered
  <2>5. Filed' = Filed
    BY <2>1 DEF Filed, Kept, Overwritten
  <2>6. exch' \in Seq(Events) /\ Exported' \subseteq Exported \cup {batch[fanned + 1]}
    <3>1. CASE exch' = Append(exch, batch[fanned + 1]) /\ UNCHANGED exdropped
      <4>1. exch' \in Seq(Events) /\ Elems(exch') = Elems(exch) \cup {batch[fanned + 1]}
        BY <1>0, <2>3, <3>1, ElemsAppend DEF AuditTyped
      <4>2. QED BY <2>1, <3>1, <4>1 DEF Exported
    <3>2. CASE exdropped' = exdropped \cup {batch[fanned + 1]} /\ UNCHANGED exch
      BY <1>0, <2>1, <3>2 DEF Exported, AuditTyped
    <3>3. QED BY <1>6, <3>1, <3>2 DEF FanOut
  <2>7. AuditTyped'
    BY <1>0, <2>1, <2>2, <2>6 DEF AuditTyped
  <2>8. EventsAccounted' /\ ShutdownOrdered' /\ Exported' \subseteq Filed'
    BY <1>0, <2>1, <2>4, <2>5, <2>6 DEF EventsAccounted, Filed, ShutdownOrdered
  <2>9. QED BY <2>7, <2>8
<1>7. CASE FanOutDone
  <2>1. /\ wpc \in {"fan", "fandrain"} /\ wpc' \in {"loop", "done"} /\ batch' = <<>> /\ fanned' = 0
        /\ UNCHANGED <<recorded, ach, stored, cutoff, dropped, lost, exch, exdropped, delivered,
                       undelivered, expc, phase>>
    BY <1>7 DEF FanOutDone, exVars
  <2>2. Filed' = Filed /\ Exported' = Exported /\ Elems(batch) \subseteq Filed
    BY <1>0, <2>1 DEF Filed, Kept, Overwritten, Exported, ShutdownOrdered
  <2>3. AuditTyped'
    BY <1>0, <2>1 DEF AuditTyped
  <2>4. EventsAccounted' /\ ShutdownOrdered'
    BY <1>0, <2>1, <2>2 DEF EventsAccounted, Filed, ShutdownOrdered
  <2>5. QED BY <1>0, <2>2, <2>3, <2>4
<1>8. CASE Deliver
  <2>1. /\ expc = "run" /\ exch # <<>> /\ exch' = Tail(exch)
        /\ delivered' \cup undelivered' = delivered \cup undelivered \cup {Head(exch)}
        /\ UNCHANGED <<recorded, ach, batch, wpc, fanned, stored, cutoff, dropped, lost,
                       exdropped, expc, phase>>
    BY <1>8 DEF Deliver
  <2>2. Tail(exch) \in Seq(Events) /\ Elems(exch) = {Head(exch)} \cup Elems(Tail(exch))
    BY <1>0, <2>1, ElemsHeadTail DEF AuditTyped
  <2>3. Filed' = Filed /\ Exported' = Exported
    BY <2>1, <2>2 DEF Filed, Kept, Overwritten, Exported
  <2>4. AuditTyped'
    BY <1>0, <2>1, <2>2 DEF AuditTyped
  <2>5. EventsAccounted' /\ ShutdownOrdered'
    BY <1>0, <2>1, <2>3 DEF EventsAccounted, Filed, ShutdownOrdered
  <2>6. QED BY <1>0, <2>3, <2>4, <2>5
<1>9. CASE WriterStop \/ WriterDone \/ ExporterDone \/ StopAudit \/ CloseExporters \/ StopReturns
  <2>1. UNCHANGED <<recorded, ach, batch, fanned, stored, cutoff, dropped, lost, exch, exdropped,
                    delivered, undelivered>>
    BY <1>9 DEF WriterStop, WriterDone, ExporterDone, StopAudit, CloseExporters, StopReturns, exVars
  <2>2. Filed' = Filed /\ Exported' = Exported
    BY <2>1 DEF Filed, Kept, Overwritten, Exported
  <2>3. AuditTyped' /\ EventsAccounted'
    BY <1>0, <2>1, <2>2 DEF AuditTyped, EventsAccounted, Filed
  <2>4. ShutdownOrdered'
    BY <1>0, <1>9, <2>1, <2>2
       DEF ShutdownOrdered, WriterStop, WriterDone, ExporterDone, StopAudit, CloseExporters,
           StopReturns, exVars
  <2>5. QED BY <1>0, <2>2, <2>3, <2>4
<1>10. CASE UNCHANGED auditVars
  <2>1. UNCHANGED <<recorded, ach, batch, wpc, fanned, stored, cutoff, dropped, lost, exch,
                    exdropped, delivered, undelivered, expc, phase>>
    BY <1>10 DEF auditVars
  <2>2. Filed' = Filed /\ Exported' = Exported
    BY <2>1 DEF Filed, Kept, Overwritten, Exported
  <2>3. AuditTyped' /\ EventsAccounted' /\ ShutdownOrdered'
    BY <1>0, <2>1, <2>2 DEF AuditTyped, EventsAccounted, Filed, ShutdownOrdered
  <2>4. QED BY <1>0, <2>2, <2>3
<1>11. QED
  BY <1>1, <1>2, <1>3, <1>4, <1>5, <1>6, <1>7, <1>8, <1>9, <1>10 DEF AuditNext, WriterNext

\* Whatever the handlers record while the writer, the trimmer, the exporter and Stop run: every
\* event is on its way, stored, expired, counted or was logged as lost, or shares its nanosecond
\* with one that is stored; none is exported before it is stored, and Stop returns with the
\* writer gone and the exporter's queue drained (Record, flushBatch, fanOut, Stop).
THEOREM AuditTrailIsSound == AuditSpec => []AuditTrailSound
<1>1. AuditInv => AuditTrailSound
  BY DEF AuditInv, AuditTrailSound, ExportedAfterStored, Exported, ShutdownOrdered, Filed
<1>2. QED BY <1>1, AuditInvInit, AuditInvStep, PTL DEF AuditSpec

-----------------------------------------------------------------------------
(***************************************************************************)
(* The log of deliveries.                                                  *)
(***************************************************************************)
Statuses == {"", "skipped", "success", "error"}
FiringRecord == [pc : {"idle", "call", "log", "put", "done"}, attempt : Nat, status : Statuses, id : Nat]
LogEntry == [id : Nat, rule : Firings \cup {"earlier"}, status : Statuses, attempt : Nat]
ListingRecord == [pc : {"idle", "more", "done"}, filter : {"", "error"}, cursor : Nat, got : Seq(Nat)]

LogIds == {e.id : e \in alog}
Stamped(f) == firing[f].pc \in {"put", "done"}

DeliveryTyped ==
  /\ firing \in [Firings -> FiringRecord]
  /\ answered \subseteq Firings /\ sent \in [Firings -> Nat]
  /\ alog \subseteq LogEntry /\ IsFiniteSet(alog)
  /\ nextId \in Nat /\ listing \in ListingRecord /\ began \subseteq Nat

\* A firing has been called as often as it has attempts, unless a request could not be made, and
\* it stops at the answer.
CallsCounted ==
  \A f \in Firings :
    /\ firing[f].attempt <= MaxAttempts
    /\ firing[f].pc \in {"idle", "call"} =>
         f \notin answered /\ sent[f] = firing[f].attempt /\ firing[f].attempt < MaxAttempts
    /\ firing[f].pc \notin {"idle", "call"} =>
         /\ firing[f].status = "success" <=> f \in answered
         /\ firing[f].status = "success" => sent[f] = firing[f].attempt

\* The ids that were given out are those of different firings.
IdsDistinct ==
  /\ \A f \in Firings : Stamped(f) => 1 < firing[f].id /\ firing[f].id < nextId
  /\ \A f, g \in Firings : Stamped(f) /\ Stamped(g) /\ firing[f].id = firing[g].id => f = g
  /\ 1 < nextId

\* An entry says what its firing came to.
EntriesOfFirings ==
  \A e \in alog \ {Earlier} :
    /\ e.rule \in Firings /\ firing[e.rule].pc = "done"
    /\ e = [id |-> firing[e.rule].id, rule |-> e.rule, status |-> firing[e.rule].status,
            attempt |-> firing[e.rule].attempt]

\* What was there when the listing began has not come since.
BeganIsPast ==
  /\ \A i \in began : i = 1 \/ \E f \in Firings : firing[f].pc = "done" /\ firing[f].id = i
  /\ began \cap LogIds \subseteq Matching(listing.filter)

\* The pages so far: newest first, and with everything above the cursor that is still there.
PagesSoFar ==
  LET read == listing.got IN
    /\ \A i, j \in DOMAIN read : i < j => read[i] > read[j]
    /\ listing.pc = "more" =>
         /\ listing.cursor = 0 => read = <<>>
         /\ \A i \in DOMAIN read : read[i] >= listing.cursor
         /\ \A x \in began \cap LogIds : listing.cursor # 0 /\ x >= listing.cursor =>
              \E i \in DOMAIN read : read[i] = x
    /\ listing.pc = "done" => \A x \in began \cap LogIds : \E i \in DOMAIN read : read[i] = x

DeliveryInv ==
  DeliveryTyped /\ CallsCounted /\ IdsDistinct /\ EntriesOfFirings /\ BeganIsPast /\ PagesSoFar

-----------------------------------------------------------------------------
(* Pages. *)

Newer(ids, x) == {o \in ids : o > x}

\* The page that is taken from a set of ids.
PageOf(ids) ==
  [i \in 1..(IF Cardinality(ids) > PageLimit + 1 THEN PageLimit + 1 ELSE Cardinality(ids)) |->
     CHOOSE id \in ids : Cardinality(Newer(ids, id)) = i - 1]

\* The more newer ones an id of a finite set has, the smaller it is.
LEMMA RankFacts ==
  ASSUME NEW ids \in SUBSET Nat, IsFiniteSet(ids)
  PROVE  /\ \A x \in ids : Cardinality(Newer(ids, x)) \in 0..(Cardinality(ids) - 1)
         /\ \A x, y \in ids : x <= y => Cardinality(Newer(ids, y)) <= Cardinality(Newer(ids, x))
         /\ \A x, y \in ids : Cardinality(Newer(ids, y)) = Cardinality(Newer(ids, x)) => x = y
<1>1. \A x \in ids : Newer(ids, x) \in SUBSET ids
  BY DEF Newer
<1>2. \A x \in ids : IsFiniteSet(Newer(ids, x)) /\ Cardinality(Newer(ids, x)) \in Nat
  BY <1>1, FS_Subset, FS_CardinalityType
<1>3. ASSUME NEW x \in ids PROVE Cardinality(Newer(ids, x)) < Cardinality(ids)
  <2>1. x \notin Newer(ids, x)
    BY DEF Newer
  <2>2. Newer(ids, x) # ids
    BY <2>1
  <2>3. Cardinality(ids) \in Nat
    BY FS_CardinalityType
  <2>4. /\ Cardinality(Newer(ids, x)) <= Cardinality(ids)
        /\ Cardinality(ids) = Cardinality(Newer(ids, x)) => ids = Newer(ids, x)
    BY <1>1, FS_Subset
  <2>5. QED BY <1>2, <2>2, <2>3, <2>4
<1>4. ASSUME NEW x \in ids, NEW y \in ids, x < y
      PROVE  Cardinality(Newer(ids, y)) < Cardinality(Newer(ids, x))
  <2>1. Newer(ids, y) \in SUBSET Newer(ids, x) /\ y \in Newer(ids, x) /\ y \notin Newer(ids, y)
    <3>1. x \in Nat /\ y \in Nat /\ \A o \in ids : o \in Nat
      OBVIOUS
    <3>2. \A o \in ids : o > y => o > x
      BY <1>4, <3>1
    <3>3. y > x /\ ~(y > y)
      BY <1>4, <3>1
    <3>4. QED BY <3>2, <3>3 DEF Newer
  <2>2. /\ Cardinality(Newer(ids, y)) <= Cardinality(Newer(ids, x))
        /\ Cardinality(Newer(ids, x)) = Cardinality(Newer(ids, y)) => Newer(ids, x) = Newer(ids, y)
    BY <1>2, <2>1, FS_Subset
  <2>3. QED BY <1>2, <2>1, <2>2
<1>5. \A x \in ids : Cardinality(Newer(ids, x)) \in 0..(Cardinality(ids) - 1)
  BY <1>2, <1>3, FS_CardinalityType
<1>6. \A x, y \in ids : x <= y => Cardinality(Newer(ids, y)) <= Cardinality(Newer(ids, x))
  <2>1. ASSUME NEW x \in ids, NEW y \in ids, x <= y
        PROVE  Cardinality(Newer(ids, y)) <= Cardinality(Newer(ids, x))
    <3>1. CASE x = y
      BY <1>2, <3>1
    <3>2. CASE x < y
      BY <1>2, <1>4, <3>2
    <3>3. x \in Nat /\ y \in Nat
      OBVIOUS
    <3>4. QED BY <2>1, <3>1, <3>2, <3>3
  <2>2. QED BY <2>1
<1>7. \A x, y \in ids : Cardinality(Newer(ids, y)) = Cardinality(Newer(ids, x)) => x = y
  <2>1. ASSUME NEW x \in ids, NEW y \in ids, Cardinality(Newer(ids, y)) = Cardinality(Newer(ids, x)), x # y
        PROVE  FALSE
    <3>1. x \in Nat /\ y \in Nat
      OBVIOUS
    <3>2. x < y \/ y < x
      BY <2>1, <3>1
    <3>3. QED BY <1>2, <1>4, <2>1, <3>2
  <2>2. QED BY <2>1
<1>8. QED BY <1>5, <1>6, <1>7

\* Every rank below the size of a finite set is taken: a set of n ids has n different ranks below n.
LEMMA RankTaken ==
  ASSUME NEW ids \in SUBSET Nat, IsFiniteSet(ids), NEW i \in 1..Cardinality(ids)
  PROVE  \E x \in ids : Cardinality(Newer(ids, x)) = i - 1
<1> SUFFICES ASSUME \A x \in ids : Cardinality(Newer(ids, x)) # i - 1 PROVE FALSE
  OBVIOUS
<1> DEFINE n == Cardinality(ids)
           ranks == (0..(n - 1)) \ {i - 1}
           f == [x \in ids |-> Cardinality(Newer(ids, x))]
<1>1. n \in Nat /\ i \in 1..n
  BY FS_CardinalityType
<1>2. IsFiniteSet(0..(n - 1)) /\ Cardinality(0..(n - 1)) = n
  <2>1. PICK m : m = n - 1
    OBVIOUS
  <2>2. m \in Int /\ 0 \in Int /\ ~(0 > m) /\ m - 0 + 1 = n
    BY <1>1, <2>1
  <2>3. IsFiniteSet(0..m) /\ Cardinality(0..m) = n
    BY <2>2, FS_Interval
  <2>4. QED BY <2>1, <2>3
<1>3. i - 1 \in 0..(n - 1)
  BY <1>1
<1>4. PICK r : r = i - 1
  OBVIOUS
<1>5. IsFiniteSet((0..(n - 1)) \ {r}) /\ Cardinality((0..(n - 1)) \ {r}) = n - 1
  <2>1. PICK all : all = 0..(n - 1)
    OBVIOUS
  <2>2. IsFiniteSet(all) /\ Cardinality(all) = n /\ r \in all
    BY <1>2, <1>3, <1>4, <2>1
  <2>3. IsFiniteSet(all \ {r}) /\ Cardinality(all \ {r}) = n - 1
    BY <2>2, FS_RemoveElement
  <2>4. QED BY <2>1, <2>3
<1>6. f \in [ids -> (0..(n - 1)) \ {r}]
  BY <1>4, RankFacts
<1>7. Cardinality((0..(n - 1)) \ {r}) < Cardinality(ids)
  BY <1>1, <1>5
<1>8. PICK x \in ids, y \in ids : x # y /\ f[x] = f[y]
  <2> HIDE DEF f
  <2>1. PICK T : T = (0..(n - 1)) \ {r}
    OBVIOUS
  <2>2. IsFiniteSet(T) /\ Cardinality(T) < Cardinality(ids) /\ f \in [ids -> T]
    BY <1>5, <1>6, <1>7, <2>1
  <2>3. QED BY <2>2, FS_PigeonHole
<1>9. Cardinality(Newer(ids, x)) = Cardinality(Newer(ids, y))
  BY <1>8
<1>10. QED BY <1>8, <1>9, RankFacts

\* A page is the newest ids, newest first; it is all of them unless it is longer than the limit.
LEMMA PageFacts ==
  ASSUME NEW ids \in SUBSET Nat, IsFiniteSet(ids), NEW page, page = PageOf(ids)
  PROVE  /\ page \in Seq(Nat) /\ Len(page) \in Nat /\ Len(page) <= PageLimit + 1
         /\ \A k \in 1..Len(page) : page[k] \in ids
         /\ \A k, l \in 1..Len(page) : k < l => page[k] > page[l]
         /\ \A k \in 1..Len(page), x \in ids : x >= page[k] => \E l \in 1..k : page[l] = x
         /\ Len(page) <= PageLimit => \A x \in ids : \E l \in 1..Len(page) : page[l] = x
<1> DEFINE n == Cardinality(ids)
           length == IF n > PageLimit + 1 THEN PageLimit + 1 ELSE n
<1>1. n \in Nat /\ PageLimit \in Nat /\ length \in Nat /\ length <= n /\ length <= PageLimit + 1
  BY FS_CardinalityType, DeliveryAssumption
<1>2. ASSUME NEW k \in 1..length
      PROVE  page[k] \in ids /\ Cardinality(Newer(ids, page[k])) = k - 1
  <2>1. k \in 1..Cardinality(ids)
    BY <1>1
  <2>2. \E x \in ids : Cardinality(Newer(ids, x)) = k - 1
    BY <2>1, RankTaken
  <2>3. page[k] = CHOOSE id \in ids : Cardinality(Newer(ids, id)) = k - 1
    BY DEF PageOf
  <2>4. QED BY <2>2, <2>3
<1>3. page = [k \in 1..length |-> page[k]] /\ \A k \in 1..length : page[k] \in Nat
  <2>1. \A k \in 1..length : page[k] \in Nat
    BY <1>2
  <2>2. page = [k \in 1..length |-> CHOOSE id \in ids : Cardinality(Newer(ids, id)) = k - 1]
    BY DEF PageOf
  <2> HIDE DEF length
  <2>3. page = [k \in 1..length |-> page[k]]
    BY <2>2
  <2>4. QED BY <2>1, <2>3
<1>4. page \in Seq(Nat) /\ Len(page) = length
  <2> HIDE DEF length
  <2>1. page \in [1..length -> Nat] /\ length \in Nat
    BY <1>1, <1>3
  <2>2. QED BY <2>1
<1>5. ASSUME NEW k \in 1..length, NEW l \in 1..length, k < l PROVE page[k] > page[l]
  <2>1. page[k] \in Nat /\ page[l] \in Nat /\ page[k] \in ids /\ page[l] \in ids
    BY <1>2
  <2>2. ASSUME page[k] <= page[l] PROVE FALSE
    <3>1. Cardinality(Newer(ids, page[l])) <= Cardinality(Newer(ids, page[k]))
      BY <2>1, <2>2, RankFacts
    <3>2. QED BY <1>1, <1>2, <1>5, <3>1
  <2>3. QED BY <2>1, <2>2
<1>6. ASSUME NEW x \in ids, Cardinality(Newer(ids, x)) < length
      PROVE  Cardinality(Newer(ids, x)) + 1 \in 1..length /\ page[Cardinality(Newer(ids, x)) + 1] = x
  <2>1. PICK r : r = Cardinality(Newer(ids, x))
    OBVIOUS
  <2>2. r \in Nat /\ r + 1 \in 1..length
    BY <1>1, <1>6, <2>1, RankFacts
  <2>3. page[r + 1] \in ids /\ Cardinality(Newer(ids, page[r + 1])) = r
    BY <1>2, <2>2
  <2>4. page[r + 1] = x
    BY <2>1, <2>3, RankFacts
  <2>5. QED BY <2>1, <2>2, <2>4
<1>7. ASSUME NEW k \in 1..length, NEW x \in ids, x >= page[k]
      PROVE  \E l \in 1..k : page[l] = x
  <2>1. page[k] <= x /\ page[k] \in ids
    BY <1>2, <1>7
  <2>2. Cardinality(Newer(ids, x)) <= Cardinality(Newer(ids, page[k]))
    BY <2>1, RankFacts
  <2>3. Cardinality(Newer(ids, x)) \in Nat
    BY RankFacts
  <2>4. PICK r : r = Cardinality(Newer(ids, x))
    OBVIOUS
  <2>5. r \in Nat /\ r <= k - 1 /\ r < length /\ r + 1 \in 1..k
    BY <1>1, <1>2, <2>2, <2>3, <2>4
  <2>6. page[r + 1] = x
    BY <1>6, <2>4, <2>5
  <2>7. QED BY <2>5, <2>6
<1>8. ASSUME length <= PageLimit, NEW x \in ids
      PROVE  \E l \in 1..length : page[l] = x
  <2>1. length = n
    BY <1>1, <1>8
  <2>2. Cardinality(Newer(ids, x)) < length
    BY <1>1, <2>1, RankFacts
  <2>3. QED BY <1>6, <2>2
<1>9. QED
  <2> HIDE DEF length
  <2>1. \A k, l \in 1..Len(page) : k < l => page[k] > page[l]
    BY <1>4, <1>5
  <2>2. \A k \in 1..Len(page), x \in ids : x >= page[k] => \E l \in 1..k : page[l] = x
    BY <1>4, <1>7
  <2>3. Len(page) <= PageLimit => \A x \in ids : \E l \in 1..Len(page) : page[l] = x
    BY <1>4, <1>8
  <2>4. QED BY <1>1, <1>2, <1>4, <2>1, <2>2, <2>3

-----------------------------------------------------------------------------
(* Steps. *)

\* At the start the log holds the earlier entry alone.
LEMMA DeliveryInvInit == DeliveryInit => DeliveryInv
<1> SUFFICES ASSUME DeliveryInit PROVE DeliveryInv
  OBVIOUS
<1>1. MaxAttempts \in Nat \ {0} /\ "earlier" \notin Firings
  BY DeliveryAssumption
<1>2. alog = {Earlier} /\ listing = NoListing /\ began = {} /\ nextId = 2
  BY DEF DeliveryInit
<1>3. Earlier \in LogEntry /\ IsFiniteSet({Earlier})
  BY <1>1, FS_Singleton DEF Earlier, LogEntry, Statuses
<1>4. NoListing \in ListingRecord
  BY DEF NoListing, ListingRecord
<1>5. \A f \in Firings : firing[f].pc = "idle" /\ firing[f].attempt = 0 /\ sent[f] = 0
  <2>1. PICK r : r = [pc |-> "idle", attempt |-> 0, status |-> "", id |-> 0]
    OBVIOUS
  <2>2. r.pc = "idle" /\ r.attempt = 0
    BY <2>1
  <2>3. firing = [f \in Firings |-> r] /\ sent = [f \in Firings |-> 0]
    BY <2>1 DEF DeliveryInit
  <2>4. QED BY <2>2, <2>3
<1>6. DeliveryTyped
  <2>1. [pc |-> "idle", attempt |-> 0, status |-> "", id |-> 0] \in FiringRecord
    BY DEF FiringRecord, Statuses
  <2>2. firing \in [Firings -> FiringRecord]
    BY <2>1 DEF DeliveryInit
  <2>3. answered \subseteq Firings /\ sent \in [Firings -> Nat]
    BY DEF DeliveryInit
  <2>4. alog \subseteq LogEntry /\ IsFiniteSet(alog)
    BY <1>2, <1>3
  <2>5. QED BY <1>2, <1>4, <2>2, <2>3, <2>4 DEF DeliveryTyped
<1>7. CallsCounted
  <2>1. 0 < MaxAttempts /\ 0 <= MaxAttempts
    BY <1>1
  <2>2. answered = {}
    BY DEF DeliveryInit
  <2>3. QED BY <1>5, <2>1, <2>2 DEF CallsCounted
<1>8. IdsDistinct /\ EntriesOfFirings
  <2>1. \A f \in Firings : ~Stamped(f)
    BY <1>5 DEF Stamped
  <2>2. QED BY <1>2, <2>1 DEF IdsDistinct, EntriesOfFirings
<1>9. BeganIsPast /\ PagesSoFar
  <2>1. listing.pc = "idle" /\ listing.got = <<>>
    BY <1>2 DEF NoListing
  <2>2. DOMAIN listing.got = {}
    BY <2>1
  <2>3. BeganIsPast
    BY <1>2 DEF BeganIsPast
  <2>4. QED BY <2>1, <2>2, <2>3 DEF PagesSoFar
<1>10. QED BY <1>6, <1>7, <1>8, <1>9 DEF DeliveryInv

\* A firing that has no entry yet may go on: what the log and the listing say does not depend on it.
LEMMA UnloggedMoves ==
  ASSUME DeliveryInv, NEW f \in Firings,
         firing[f].pc \notin {"put", "done"}, firing'[f].pc \notin {"put", "done"},
         \A g \in Firings : g # f => firing'[g] = firing[g],
         UNCHANGED <<alog, nextId, listVars>>
  PROVE  IdsDistinct' /\ EntriesOfFirings' /\ BeganIsPast' /\ PagesSoFar'
<1>1. IdsDistinct /\ EntriesOfFirings /\ BeganIsPast /\ PagesSoFar
  BY DEF DeliveryInv
<1>2. \A g \in Firings : Stamped(g)' => g # f /\ Stamped(g) /\ firing'[g] = firing[g]
  BY DEF Stamped
<1>3. IdsDistinct'
  BY <1>1, <1>2 DEF IdsDistinct
<1>4. EntriesOfFirings'
  <2>1. \A g \in Firings : firing[g].pc = "done" => firing'[g] = firing[g]
    OBVIOUS
  <2>2. QED BY <1>1, <2>1 DEF EntriesOfFirings
<1>5. BeganIsPast'
  <2>1. \A g \in Firings : firing[g].pc = "done" => firing'[g] = firing[g]
    OBVIOUS
  <2>2. LogIds' = LogIds /\ Matching(listing.filter)' = Matching(listing.filter) /\ began' = began
    BY DEF LogIds, Matching, listVars
  <2>3. QED BY <1>1, <2>1, <2>2 DEF BeganIsPast
<1>6. PagesSoFar'
  BY <1>1 DEF PagesSoFar, LogIds, listVars
<1>7. QED BY <1>3, <1>4, <1>5, <1>6

\* A webhook that is disabled is logged as skipped, without a call.
LEMMA FireWebhookKeeps ==
  ASSUME DeliveryInv, NEW f \in Firings, NEW enabled \in BOOLEAN, FireWebhook(f, enabled)
  PROVE  DeliveryInv'
<1>1. DeliveryTyped /\ CallsCounted
  BY DEF DeliveryInv
<1>2. firing[f].pc = "idle" /\ UNCHANGED <<answered, sent, alog, nextId, listVars>>
  BY DEF FireWebhook
<1>3. /\ firing' \in [Firings -> FiringRecord] /\ \A g \in Firings : g # f => firing'[g] = firing[g]
      /\ firing'[f].pc \in {"call", "log"} /\ firing'[f].attempt = firing[f].attempt
      /\ firing'[f].pc = "log" => firing'[f].status = "skipped"
  <2>1. firing[f] \in FiringRecord
    BY <1>1 DEF DeliveryTyped
  <2>2. PICK new : new = [firing[f] EXCEPT !.pc = IF enabled THEN "call" ELSE "log",
                                           !.status = IF enabled THEN "" ELSE "skipped"]
    OBVIOUS
  <2>3. firing' = [firing EXCEPT ![f] = new]
    BY <1>1, <2>2 DEF FireWebhook, DeliveryTyped
  <2>4. /\ new \in FiringRecord /\ new.pc \in {"call", "log"} /\ new.attempt = firing[f].attempt
        /\ new.pc = "log" => new.status = "skipped"
    BY <2>1, <2>2 DEF FiringRecord, Statuses
  <2>5. QED BY <1>1, <2>3, <2>4 DEF DeliveryTyped
<1>4. DeliveryTyped'
  BY <1>1, <1>2, <1>3 DEF DeliveryTyped, listVars
<1>5. CallsCounted'
  BY <1>1, <1>2, <1>3 DEF CallsCounted
<1>6. IdsDistinct' /\ EntriesOfFirings' /\ BeganIsPast' /\ PagesSoFar'
  BY <1>2, <1>3, UnloggedMoves
<1>7. QED BY <1>4, <1>5, <1>6 DEF DeliveryInv

\* An attempt: the loop ends with an answer, a request that cannot be made, or the last backoff.
LEMMA AttemptKeeps ==
  ASSUME DeliveryInv, NEW f \in Firings, NEW answer \in {"ok", "failed", "unsent"}, Attempt(f, answer)
  PROVE  DeliveryInv'
<1>1. DeliveryTyped /\ CallsCounted
  BY DEF DeliveryInv
<1>2. firing[f].pc = "call" /\ UNCHANGED <<alog, nextId, listVars>>
  BY DEF Attempt
<1>3. PICK n : n = firing[f].attempt + 1
  OBVIOUS
<1>4. PICK new : new = [pc |-> IF answer # "failed" \/ n = MaxAttempts THEN "log" ELSE "call",
                        attempt |-> n, status |-> IF answer = "ok" THEN "success" ELSE "error", id |-> 0]
  OBVIOUS
<1>5. firing' = [firing EXCEPT ![f] = new]
  BY <1>3, <1>4 DEF Attempt
<1>6. /\ firing[f].attempt \in Nat /\ firing[f].attempt < MaxAttempts /\ sent[f] = firing[f].attempt
      /\ f \notin answered /\ MaxAttempts \in Nat
  BY <1>1, <1>2, DeliveryAssumption DEF DeliveryTyped, CallsCounted, FiringRecord
<1>7. n \in Nat /\ n <= MaxAttempts
  BY <1>3, <1>6
<1>8. new \in FiringRecord /\ new.pc \in {"call", "log"}
  BY <1>4, <1>7 DEF FiringRecord, Statuses
<1>9. /\ firing' \in [Firings -> FiringRecord] /\ firing'[f] = new
      /\ \A g \in Firings : g # f => firing'[g] = firing[g]
  BY <1>1, <1>5, <1>8 DEF DeliveryTyped
<1>10. /\ sent' \in [Firings -> Nat] /\ sent'[f] = sent[f] + (IF answer = "unsent" THEN 0 ELSE 1)
       /\ \A g \in Firings : g # f => sent'[g] = sent[g]
  BY <1>1 DEF Attempt, DeliveryTyped
<1>11. answered' = IF answer = "ok" THEN answered \cup {f} ELSE answered
  BY DEF Attempt
<1>12. DeliveryTyped'
  BY <1>1, <1>2, <1>9, <1>10, <1>11 DEF DeliveryTyped, listVars
<1>13. CallsCounted'
  <2>1. ASSUME NEW g \in Firings, g # f
        PROVE  firing'[g] = firing[g] /\ sent'[g] = sent[g] /\ (g \in answered' <=> g \in answered)
    BY <1>9, <1>10, <1>11, <2>1
  <2>2. CASE answer = "failed"
    <3>1. /\ new.attempt = n /\ new.status = "error" /\ (new.pc = "call" => n # MaxAttempts)
          /\ sent'[f] = n /\ f \notin answered'
      BY <1>3, <1>4, <1>6, <1>10, <1>11, <2>2
    <3>2. new.pc = "call" => n < MaxAttempts
      BY <1>6, <1>7, <3>1
    <3>3. QED BY <1>1, <1>7, <1>8, <1>9, <2>1, <3>1, <3>2 DEF CallsCounted
  <2>3. CASE answer # "failed"
    <3>1. /\ new.attempt = n /\ new.pc = "log" /\ (new.status = "success" <=> answer = "ok")
          /\ (answer = "ok" => sent'[f] = n) /\ (f \in answered' <=> answer = "ok")
      BY <1>3, <1>4, <1>6, <1>10, <1>11, <2>3
    <3>2. QED BY <1>1, <1>7, <1>9, <2>1, <3>1 DEF CallsCounted
  <2>4. QED BY <2>2, <2>3
<1>14. IdsDistinct' /\ EntriesOfFirings' /\ BeganIsPast' /\ PagesSoFar'
  BY <1>2, <1>8, <1>9, UnloggedMoves
<1>15. QED BY <1>12, <1>13, <1>14 DEF DeliveryInv

\* A new id is greater than all before.
LEMMA StampEntryKeeps ==
  ASSUME DeliveryInv, NEW f \in Firings, StampEntry(f)
  PROVE  DeliveryInv'
<1>1. DeliveryTyped /\ CallsCounted /\ IdsDistinct /\ EntriesOfFirings /\ BeganIsPast /\ PagesSoFar
  BY DEF DeliveryInv
<1>2. /\ firing[f].pc = "log" /\ nextId' = nextId + 1
      /\ UNCHANGED <<answered, sent, alog, listing, began, listings>>
  BY DEF StampEntry, listVars
<1>3. /\ firing' \in [Firings -> FiringRecord] /\ \A g \in Firings : g # f => firing'[g] = firing[g]
      /\ firing'[f].pc = "put" /\ firing'[f].id = nextId
      /\ firing'[f].attempt = firing[f].attempt /\ firing'[f].status = firing[f].status
  <2>1. firing[f] \in FiringRecord /\ nextId \in Nat
    BY <1>1 DEF DeliveryTyped
  <2>2. PICK new : new = [firing[f] EXCEPT !.pc = "put", !.id = nextId]
    OBVIOUS
  <2>3. firing' = [firing EXCEPT ![f] = new]
    BY <1>1, <2>2 DEF StampEntry, DeliveryTyped
  <2>4. /\ new \in FiringRecord /\ new.pc = "put" /\ new.id = nextId
        /\ new.attempt = firing[f].attempt /\ new.status = firing[f].status
    BY <2>1, <2>2 DEF FiringRecord, Statuses
  <2>5. QED BY <1>1, <2>3, <2>4 DEF DeliveryTyped
<1>4. nextId \in Nat /\ \A g \in Firings : firing[g].id \in Nat /\ firing'[g].id \in Nat
  BY <1>1, <1>3 DEF DeliveryTyped, FiringRecord
<1>5. DeliveryTyped'
  BY <1>1, <1>2, <1>3, <1>4 DEF DeliveryTyped
<1>6. CallsCounted'
  BY <1>1, <1>2, <1>3 DEF CallsCounted
<1>7. IdsDistinct'
  <2>1. \A g \in Firings : g # f => (Stamped(g)' <=> Stamped(g)) /\ firing'[g].id = firing[g].id
    BY <1>3 DEF Stamped
  <2>2. \A g \in Firings : g # f /\ Stamped(g)' => 1 < firing'[g].id /\ firing'[g].id < nextId
    BY <1>1, <2>1 DEF IdsDistinct
  <2>3. 1 < nextId /\ 1 < nextId' /\ nextId < nextId'
    BY <1>1, <1>2, <1>4 DEF IdsDistinct
  <2>4. \A g \in Firings : Stamped(g)' => 1 < firing'[g].id /\ firing'[g].id < nextId'
    BY <1>2, <1>3, <1>4, <2>2, <2>3
  <2>5. ASSUME NEW g \in Firings, NEW h \in Firings, Stamped(g)', Stamped(h)', firing'[g].id = firing'[h].id
        PROVE  g = h
    <3>1. CASE g # f /\ h # f
      BY <1>1, <2>1, <2>5, <3>1 DEF IdsDistinct
    <3>2. CASE g = f
      BY <1>3, <1>4, <2>2, <2>5, <3>2
    <3>3. CASE h = f
      BY <1>3, <1>4, <2>2, <2>5, <3>3
    <3>4. QED BY <3>1, <3>2, <3>3
  <2>6. QED BY <2>3, <2>4, <2>5 DEF IdsDistinct
<1>8. \A g \in Firings : firing[g].pc = "done" => firing'[g] = firing[g]
  BY <1>2, <1>3
<1>9. EntriesOfFirings'
  BY <1>1, <1>2, <1>8 DEF EntriesOfFirings
<1>10. BeganIsPast'
  <2>1. LogIds' = LogIds /\ Matching(listing.filter)' = Matching(listing.filter)
    BY <1>2 DEF LogIds, Matching
  <2>2. QED BY <1>1, <1>2, <1>8, <2>1 DEF BeganIsPast
<1>11. PagesSoFar'
  BY <1>1, <1>2 DEF PagesSoFar, LogIds
<1>12. QED BY <1>5, <1>6, <1>7, <1>9, <1>10, <1>11 DEF DeliveryInv

\* An entry is put under an id that no listing knew of when it began.
LEMMA PutEntryKeeps ==
  ASSUME DeliveryInv, NEW f \in Firings, PutEntry(f)
  PROVE  DeliveryInv'
<1>1. DeliveryTyped /\ CallsCounted /\ IdsDistinct /\ EntriesOfFirings /\ BeganIsPast /\ PagesSoFar
  BY DEF DeliveryInv
<1>2. /\ firing[f].pc = "put" /\ UNCHANGED <<answered, sent, nextId, listing, began, listings>>
  BY DEF PutEntry, listVars
<1>3. /\ firing' \in [Firings -> FiringRecord] /\ \A g \in Firings : g # f => firing'[g] = firing[g]
      /\ firing'[f].pc = "done" /\ firing'[f].id = firing[f].id
      /\ firing'[f].attempt = firing[f].attempt /\ firing'[f].status = firing[f].status
  <2>1. firing[f] \in FiringRecord
    BY <1>1 DEF DeliveryTyped
  <2>2. PICK new : new = [firing[f] EXCEPT !.pc = "done"]
    OBVIOUS
  <2>3. firing' = [firing EXCEPT ![f] = new]
    BY <1>1, <2>2 DEF PutEntry, DeliveryTyped
  <2>4. /\ new \in FiringRecord /\ new.pc = "done" /\ new.id = firing[f].id
        /\ new.attempt = firing[f].attempt /\ new.status = firing[f].status
    BY <2>1, <2>2 DEF FiringRecord
  <2>5. QED BY <1>1, <2>3, <2>4 DEF DeliveryTyped
<1>4. PICK entry : entry = [id |-> firing[f].id, rule |-> f, status |-> firing[f].status,
                            attempt |-> firing[f].attempt]
  OBVIOUS
<1>5. alog' = alog \cup {entry} /\ entry \in LogEntry /\ IsFiniteSet(alog')
  <2>1. alog' = alog \cup {entry}
    BY <1>4 DEF PutEntry
  <2>2. entry \in LogEntry
    BY <1>1, <1>4 DEF DeliveryTyped, FiringRecord, LogEntry
  <2>3. QED BY <1>1, <2>1, <2>2, FS_AddElement DEF DeliveryTyped
<1>6. DeliveryTyped'
  BY <1>1, <1>2, <1>3, <1>5 DEF DeliveryTyped
<1>7. CallsCounted'
  BY <1>1, <1>2, <1>3 DEF CallsCounted
<1>8. \A g \in Firings : (Stamped(g)' <=> Stamped(g)) /\ firing'[g].id = firing[g].id
  BY <1>2, <1>3 DEF Stamped
<1>9. IdsDistinct'
  BY <1>1, <1>2, <1>8 DEF IdsDistinct
<1>10. \A g \in Firings : firing[g].pc = "done" => firing'[g] = firing[g]
  BY <1>2, <1>3
<1>11. EntriesOfFirings'
  <2>1. ASSUME NEW e \in alog' \ {Earlier}
        PROVE  /\ e.rule \in Firings /\ firing'[e.rule].pc = "done"
               /\ e = [id |-> firing'[e.rule].id, rule |-> e.rule, status |-> firing'[e.rule].status,
                       attempt |-> firing'[e.rule].attempt]
    <3>1. CASE e \in alog
      BY <1>1, <1>10, <3>1 DEF EntriesOfFirings
    <3>2. CASE e = entry
      BY <1>3, <1>4, <3>2
    <3>3. QED BY <1>5, <2>1, <3>1, <3>2
  <2>2. QED BY <2>1 DEF EntriesOfFirings
<1>12. firing[f].id \notin began
  <2>1. Stamped(f) /\ firing[f].id \in Nat /\ firing[f].id # 1
    BY <1>1, <1>2 DEF Stamped, IdsDistinct, DeliveryTyped, FiringRecord
  <2>2. \A g \in Firings : firing[g].pc = "done" => Stamped(g) /\ firing[g].id # firing[f].id
    BY <1>1, <1>2, <2>1 DEF IdsDistinct, Stamped
  <2>3. QED BY <1>1, <2>1, <2>2 DEF BeganIsPast
<1>13. began \cap LogIds' = began \cap LogIds
  BY <1>4, <1>5, <1>12 DEF LogIds
<1>14. Matching(listing.filter) \subseteq Matching(listing.filter)'
  BY <1>2, <1>5 DEF Matching
<1>15. BeganIsPast'
  BY <1>1, <1>2, <1>10, <1>13, <1>14 DEF BeganIsPast
<1>16. PagesSoFar'
  BY <1>1, <1>2, <1>13 DEF PagesSoFar
<1>17. QED BY <1>6, <1>7, <1>9, <1>11, <1>15, <1>16 DEF DeliveryInv

\* The clean-up only removes.
LEMMA CleanupLogKeeps ==
  ASSUME DeliveryInv, NEW oldest \in 2..nextId, CleanupLog(oldest)
  PROVE  DeliveryInv'
<1>1. DeliveryTyped /\ CallsCounted /\ IdsDistinct /\ EntriesOfFirings /\ BeganIsPast /\ PagesSoFar
  BY DEF DeliveryInv
<1>2. /\ alog' = {e \in alog : e.id >= oldest}
      /\ UNCHANGED <<firing, answered, sent, nextId, listing, began, listings>>
  BY DEF CleanupLog, listVars
<1>3. alog' \subseteq alog /\ IsFiniteSet(alog')
  BY <1>1, <1>2, FS_Subset DEF DeliveryTyped
<1>4. DeliveryTyped'
  BY <1>1, <1>2, <1>3 DEF DeliveryTyped
<1>5. CallsCounted' /\ IdsDistinct'
  BY <1>1, <1>2 DEF CallsCounted, IdsDistinct, Stamped
<1>6. EntriesOfFirings'
  BY <1>1, <1>2, <1>3 DEF EntriesOfFirings
<1>7. LogIds' \subseteq LogIds
  BY <1>3 DEF LogIds
<1>8. BeganIsPast'
  <2>1. \A x \in LogIds' : x >= oldest
    BY <1>2 DEF LogIds
  <2>2. \A x \in Matching(listing.filter) : x >= oldest => x \in Matching(listing.filter)'
    BY <1>2 DEF Matching
  <2>3. QED BY <1>1, <1>2, <1>7, <2>1, <2>2 DEF BeganIsPast
<1>9. PagesSoFar'
  BY <1>1, <1>2, <1>7 DEF PagesSoFar
<1>10. QED BY <1>4, <1>5, <1>6, <1>8, <1>9 DEF DeliveryInv

\* The ids of the log: finitely many, and each is 1 or that of a firing that is done.
LEMMA LogIdFacts ==
  ASSUME DeliveryInv
  PROVE  /\ LogIds \subseteq Nat /\ IsFiniteSet(LogIds) /\ 0 \notin LogIds
         /\ \A i \in LogIds : i = 1 \/ \E f \in Firings : firing[f].pc = "done" /\ firing[f].id = i
<1>1. DeliveryTyped /\ IdsDistinct /\ EntriesOfFirings
  BY DEF DeliveryInv
<1>2. LogIds \subseteq Nat
  BY <1>1 DEF DeliveryTyped, LogIds, LogEntry
<1>3. IsFiniteSet(LogIds)
  <2>1. PICK f : f = [e \in alog |-> e.id]
    OBVIOUS
  <2>2. f \in Surjection(alog, LogIds)
    BY <2>1 DEF Surjection, LogIds
  <2>3. QED BY <1>1, <2>2, FS_Surjection DEF DeliveryTyped
<1>4. ASSUME NEW i \in LogIds
      PROVE  i = 1 \/ \E f \in Firings : firing[f].pc = "done" /\ firing[f].id = i
  <2>1. PICK e \in alog : e.id = i
    BY DEF LogIds
  <2>2. CASE e = Earlier
    BY <2>1, <2>2 DEF Earlier
  <2>3. CASE e # Earlier
    <3>1. e.rule \in Firings /\ firing[e.rule].pc = "done" /\ e.id = firing[e.rule].id
      BY <1>1, <2>1, <2>3 DEF EntriesOfFirings
    <3>2. QED BY <2>1, <3>1
  <2>4. QED BY <2>2, <2>3
<1>5. 0 \notin LogIds
  <2>1. ASSUME 0 \in LogIds PROVE FALSE
    <3>1. PICK f \in Firings : firing[f].pc = "done" /\ firing[f].id = 0
      BY <1>4, <2>1
    <3>2. 1 < firing[f].id
      BY <1>1, <3>1 DEF IdsDistinct, Stamped
    <3>3. QED BY <3>1, <3>2
  <2>2. QED BY <2>1
<1>6. QED BY <1>2, <1>3, <1>4, <1>5

\* No page has been read.
LEMMA EmptyList == <<>> \in Seq(Nat) /\ DOMAIN <<>> = {}
  OBVIOUS

\* A listing begins with nothing read, whatever an earlier one got.
LEMMA BeginListingKeeps ==
  ASSUME DeliveryInv, NEW filter \in {"", "error"}, BeginListing(filter)
  PROVE  DeliveryInv'
<1>1. DeliveryTyped /\ CallsCounted /\ IdsDistinct /\ EntriesOfFirings
  BY DEF DeliveryInv
<1>2. /\ listing' = [pc |-> "more", filter |-> filter, cursor |-> 0, got |-> <<>>]
      /\ began' = Matching(filter)
      /\ UNCHANGED <<firing, answered, sent, alog, nextId>>
  BY DEF BeginListing
<1>3. Matching(filter) \subseteq LogIds
  BY DEF Matching, LogIds
<1>4. listing' \in ListingRecord /\ listing'.got = <<>> /\ DOMAIN listing'.got = {}
      /\ listing'.cursor = 0 /\ listing'.pc = "more" /\ listing'.filter = filter
  <2>1. <<>> \in Seq(Nat) /\ DOMAIN <<>> = {}
    BY EmptyList
  <2>2. listing' \in ListingRecord
    BY <1>2, <2>1 DEF ListingRecord
  <2>3. listing'.got = <<>> /\ listing'.cursor = 0 /\ listing'.pc = "more" /\ listing'.filter = filter
    BY <1>2
  <2>4. DOMAIN listing'.got = {}
    BY <2>1, <2>3
  <2>5. QED BY <2>2, <2>3, <2>4
<1>5. DeliveryTyped'
  BY <1>1, <1>2, <1>3, <1>4, LogIdFacts DEF DeliveryTyped
<1>6. CallsCounted' /\ IdsDistinct' /\ EntriesOfFirings'
  BY <1>1, <1>2 DEF CallsCounted, IdsDistinct, EntriesOfFirings, Stamped
<1>7. BeganIsPast'
  <2>1. \A i \in began' : i = 1 \/ \E f \in Firings : firing'[f].pc = "done" /\ firing'[f].id = i
    BY <1>2, <1>3, LogIdFacts
  <2>2. began' = Matching(filter)'
    BY <1>2 DEF Matching
  <2>3. Matching(listing.filter)' = Matching(filter)'
    BY <1>4 DEF Matching
  <2>4. QED BY <2>1, <2>2, <2>3 DEF BeganIsPast
<1>8. PagesSoFar'
  BY <1>4 DEF PagesSoFar
<1>9. QED BY <1>5, <1>6, <1>7, <1>8 DEF DeliveryInv

\* Appending a page: what was read before is above what the page has.
Falling(seq) == \A i, j \in DOMAIN seq : i < j => seq[i] > seq[j]
AllAbove(old, page) == \A i \in DOMAIN old, k \in 1..Len(page) : old[i] > page[k]
Appended(old, page, all) ==
  /\ all \in Seq(Nat)
  /\ \A i, j \in DOMAIN all : i < j => all[i] > all[j]
  /\ \A i \in DOMAIN old : \E j \in DOMAIN all : all[j] = old[i]
  /\ \A k \in 1..Len(page) : \E j \in DOMAIN all : all[j] = page[k]
  /\ \A j \in DOMAIN all : (\E i \in DOMAIN old : all[j] = old[i])
                             \/ \E k \in 1..Len(page) : all[j] = page[k]

\* A page after the pages read so far is again newest first, and loses none of them.
LEMMA AppendPage ==
  ASSUME NEW old \in Seq(Nat), NEW page \in Seq(Nat), NEW all, all = old \o page,
         Falling(old), Falling(page), AllAbove(old, page)
  PROVE  Appended(old, page, all)
<1>0. /\ \A i, j \in DOMAIN old : i < j => old[i] > old[j]
      /\ \A k, l \in 1..Len(page) : k < l => page[k] > page[l]
      /\ \A i \in DOMAIN old, k \in 1..Len(page) : old[i] > page[k]
  BY DEF Falling, AllAbove
<1>1. PICK m \in Nat : m = Len(old)
  OBVIOUS
<1>2. PICK n \in Nat : n = Len(page)
  OBVIOUS
<1>3. all \in Seq(Nat) /\ Len(all) = m + n /\ DOMAIN all = 1..(m + n) /\ DOMAIN old = 1..m
  BY <1>1, <1>2
<1>4. \A j \in 1..m : j \in DOMAIN all /\ all[j] = old[j]
  BY <1>1, <1>2, <1>3
<1>5. \A k \in 1..n : m + k \in DOMAIN all /\ all[m + k] = page[k]
  BY <1>1, <1>2, <1>3
<1>6. ASSUME NEW j \in DOMAIN all, j \notin 1..m PROVE j - m \in 1..n /\ all[j] = page[j - m]
  <2>1. PICK k : k = j - m
    OBVIOUS
  <2>2. k \in 1..n /\ m + k = j
    BY <1>3, <1>6, <2>1
  <2>3. QED BY <1>5, <2>1, <2>2
<1>7. ASSUME NEW i \in DOMAIN all, NEW j \in DOMAIN all, i < j PROVE all[i] > all[j]
  <2>1. CASE j \in 1..m
    <3>1. i \in 1..m
      BY <1>3, <1>7, <2>1
    <3>2. QED BY <1>0, <1>3, <1>4, <1>7, <2>1, <3>1
  <2>2. CASE i \in 1..m /\ j \notin 1..m
    BY <1>0, <1>2, <1>3, <1>4, <1>6, <2>2
  <2>3. CASE i \notin 1..m /\ j \notin 1..m
    <3>1. i - m < j - m
      BY <1>3, <1>7
    <3>2. QED BY <1>0, <1>2, <1>6, <2>3, <3>1
  <2>4. QED BY <2>1, <2>2, <2>3
<1>8. \A i \in DOMAIN old : \E j \in DOMAIN all : all[j] = old[i]
  BY <1>3, <1>4
<1>9. \A k \in 1..Len(page) : \E j \in DOMAIN all : all[j] = page[k]
  BY <1>2, <1>5
<1>10. \A j \in DOMAIN all : (\E i \in DOMAIN old : all[j] = old[i])
                              \/ \E k \in 1..Len(page) : all[j] = page[k]
  BY <1>2, <1>3, <1>4, <1>6
<1>11. QED BY <1>3, <1>7, <1>8, <1>9, <1>10 DEF Appended

\* A page continues below the cursor, whether the cursor's own entry is still there or not.
LEMMA ListPageKeeps ==
  ASSUME DeliveryInv, ListPage
  PROVE  DeliveryInv'
<1>1. DeliveryTyped /\ CallsCounted /\ IdsDistinct /\ EntriesOfFirings /\ BeganIsPast /\ PagesSoFar
  BY DEF DeliveryInv
<1>2. listing.pc = "more" /\ UNCHANGED <<firing, answered, sent, alog, nextId, began>>
  BY DEF ListPage
<1>3. PICK cursor : cursor = listing.cursor
  OBVIOUS
<1>4. PICK ids : ids = SeekBefore(cursor) \cap Matching(listing.filter)
  OBVIOUS
<1>5. PICK page : page = PageOf(ids)
  OBVIOUS
<1>6. page = Page(listing.cursor, listing.filter)
  BY <1>3, <1>4, <1>5 DEF Page, PageOf, Newer
<1>7. cursor \in Nat /\ listing.got \in Seq(Nat) /\ LogIds \subseteq Nat /\ PageLimit \in Nat \ {0}
      /\ listing \in ListingRecord
  BY <1>1, <1>3, LogIdFacts, DeliveryAssumption DEF DeliveryTyped, ListingRecord
<1>8. ids \in SUBSET LogIds
  BY <1>4 DEF SeekBefore, LogIds
<1>9. ids \in SUBSET Nat /\ IsFiniteSet(ids) /\ 0 \notin ids
  BY <1>7, <1>8, LogIdFacts, FS_Subset
<1>10. \A x \in ids : cursor = 0 \/ x < cursor
  BY <1>4 DEF SeekBefore
<1>11. \A x \in began \cap LogIds : x \in ids \/ (cursor # 0 /\ x >= cursor)
  <2>1. \A x \in LogIds : cursor = 0 \/ x < cursor => x \in SeekBefore(cursor)
    BY DEF SeekBefore, LogIds
  <2>2. \A x \in LogIds : x < cursor \/ x >= cursor
    BY <1>7
  <2>3. QED BY <1>1, <1>4, <2>1, <2>2 DEF BeganIsPast
<1>12. /\ page \in Seq(Nat) /\ Len(page) \in Nat /\ Len(page) <= PageLimit + 1
       /\ \A k \in 1..Len(page) : page[k] \in ids
       /\ \A k, l \in 1..Len(page) : k < l => page[k] > page[l]
       /\ \A k \in 1..Len(page), x \in ids : x >= page[k] => \E l \in 1..k : page[l] = x
       /\ Len(page) <= PageLimit => \A x \in ids : \E l \in 1..Len(page) : page[l] = x
  BY SMTT(30), <1>5, <1>9, PageFacts
<1>13. PICK old : old = listing.got
  OBVIOUS
<1>14. /\ old \in Seq(Nat) /\ (cursor = 0 => old = <<>>)
       /\ \A i, j \in DOMAIN old : i < j => old[i] > old[j]
       /\ \A i \in DOMAIN old : old[i] >= cursor
       /\ \A x \in began \cap LogIds : cursor # 0 /\ x >= cursor => \E i \in DOMAIN old : old[i] = x
  BY <1>1, <1>2, <1>3, <1>7, <1>13 DEF PagesSoFar
<1>15. \A i \in DOMAIN old, x \in ids : old[i] > x
  <2>1. ASSUME NEW i \in DOMAIN old, NEW x \in ids PROVE old[i] > x
    <3>1. cursor # 0
      <4>1. CASE cursor = 0
        BY <1>14, <4>1
      <4>2. QED BY <4>1
    <3>2. old[i] >= cursor /\ x < cursor /\ old[i] \in Nat /\ x \in Nat
      BY <1>9, <1>10, <1>14, <3>1
    <3>3. QED BY <1>7, <3>2
  <2>2. QED BY <2>1
<1>16. LogIds' = LogIds /\ began' = began /\ \A filter : Matching(filter)' = Matching(filter)
  BY <1>2 DEF LogIds, Matching
<1>17. CallsCounted' /\ IdsDistinct' /\ EntriesOfFirings'
  BY <1>1, <1>2 DEF CallsCounted, IdsDistinct, EntriesOfFirings, Stamped
<1>18. SUFFICES listing' \in ListingRecord /\ listing'.filter = listing.filter /\ PagesSoFar'
  <2>1. ASSUME listing' \in ListingRecord PROVE DeliveryTyped'
    BY <1>1, <1>2, <2>1 DEF DeliveryTyped
  <2>2. ASSUME listing'.filter = listing.filter PROVE BeganIsPast'
    <3>1. Matching(listing.filter)' = Matching(listing.filter)
      BY <1>2, <2>2 DEF Matching
    <3>2. QED BY <1>1, <1>2, <1>16, <3>1 DEF BeganIsPast
  <2>3. QED BY <1>17, <2>1, <2>2 DEF DeliveryInv
<1>19. CASE Len(page) > PageLimit
  <2>1. PICK part : part = SubSeq(page, 1, PageLimit)
    OBVIOUS
  <2>2. PageLimit \in 1..Len(page) /\ \A k \in 1..PageLimit : k \in 1..Len(page)
    BY <1>7, <1>12, <1>19
  <2>3. part \in Seq(Nat) /\ Len(part) = PageLimit /\ \A k \in 1..PageLimit : part[k] = page[k]
    BY <1>7, <1>12, <2>1, <2>2
  <2>4. PICK all : all = old \o part
    OBVIOUS
  <2>5. PICK last : last = page[PageLimit]
    OBVIOUS
  <2>6. last \in ids /\ last \in Nat /\ last # 0
    BY <1>9, <1>12, <2>2, <2>5
  <2>7. /\ \A k, l \in 1..Len(part) : k < l => part[k] > part[l]
        /\ \A i \in DOMAIN old, k \in 1..Len(part) : old[i] > part[k]
    BY <1>12, <1>15, <2>2, <2>3
  <2>8. /\ all \in Seq(Nat)
        /\ \A i, j \in DOMAIN all : i < j => all[i] > all[j]
        /\ \A i \in DOMAIN old : \E j \in DOMAIN all : all[j] = old[i]
        /\ \A k \in 1..Len(part) : \E j \in DOMAIN all : all[j] = part[k]
        /\ \A j \in DOMAIN all : (\E i \in DOMAIN old : all[j] = old[i])
                                   \/ \E k \in 1..Len(part) : all[j] = part[k]
    <3>1. old \in Seq(Nat) /\ part \in Seq(Nat) /\ all = old \o part
      BY <1>14, <2>3, <2>4
    <3>2. Falling(old)
      BY <1>14 DEF Falling
    <3>3. DOMAIN part = 1..Len(part)
      BY <2>3
    <3>4. Falling(part) /\ AllAbove(old, part)
      BY <2>7, <3>3 DEF Falling, AllAbove
    <3>5. Appended(old, part, all)
      BY <3>1, <3>2, <3>4, AppendPage
    <3>6. QED BY <3>5 DEF Appended
  <2>9. listing' = [listing EXCEPT !.got = all, !.cursor = last]
    BY <1>6, <1>13, <1>19, <2>1, <2>4, <2>5 DEF ListPage
  <2>10. /\ listing' \in ListingRecord /\ listing'.filter = listing.filter
         /\ listing'.pc = "more" /\ listing'.got = all /\ listing'.cursor = last
    BY <1>2, <1>7, <2>6, <2>8, <2>9 DEF ListingRecord
  <2>11. \A j \in DOMAIN all : all[j] >= last
    <3>1. \A i \in DOMAIN old : old[i] >= last
      BY <1>14, <1>15, <2>6
    <3>2. ASSUME NEW k \in 1..Len(part) PROVE part[k] >= last
      <4>1. CASE k = PageLimit
        BY <2>3, <2>5, <2>6, <4>1
      <4>2. CASE k # PageLimit
        <5>1. k \in 1..Len(page) /\ k < PageLimit /\ part[k] = page[k]
          BY <1>7, <2>2, <2>3, <4>2
        <5>2. page[k] > last /\ page[k] \in Nat
          BY <1>9, <1>12, <2>2, <2>5, <5>1
        <5>3. QED BY <2>6, <5>1, <5>2
      <4>3. QED BY <4>1, <4>2
    <3>3. QED BY <2>8, <3>1, <3>2
  <2>12. ASSUME NEW x \in began \cap LogIds, x >= last PROVE \E j \in DOMAIN all : all[j] = x
    <3>1. CASE x \in ids
      <4>1. PICK l \in 1..PageLimit : page[l] = x
        BY <1>12, <2>2, <2>5, <2>12, <3>1
      <4>2. part[l] = x /\ l \in 1..Len(part)
        BY <2>3, <4>1
      <4>3. QED BY <2>8, <4>2
    <3>2. CASE x \notin ids
      <4>1. PICK i \in DOMAIN old : old[i] = x
        BY <1>11, <1>14, <3>2
      <4>2. QED BY <2>8, <4>1
    <3>3. QED BY <3>1, <3>2
  <2>13. PagesSoFar'
    BY <1>16, <2>6, <2>8, <2>10, <2>11, <2>12 DEF PagesSoFar
  <2>14. QED BY <2>10, <2>13
<1>20. CASE ~(Len(page) > PageLimit)
  <2>1. PICK all : all = old \o page
    OBVIOUS
  <2>2. /\ all \in Seq(Nat)
        /\ \A i, j \in DOMAIN all : i < j => all[i] > all[j]
        /\ \A i \in DOMAIN old : \E j \in DOMAIN all : all[j] = old[i]
        /\ \A k \in 1..Len(page) : \E j \in DOMAIN all : all[j] = page[k]
    <3>1. old \in Seq(Nat) /\ page \in Seq(Nat) /\ all = old \o page
      BY <1>12, <1>14, <2>1
    <3>2. Falling(old)
      BY <1>14 DEF Falling
    <3>3. DOMAIN page = 1..Len(page)
      BY <1>12
    <3>4. Falling(page)
      BY <1>12, <3>3 DEF Falling
    <3>5. AllAbove(old, page)
      BY <1>12, <1>15 DEF AllAbove
    <3>6. Appended(old, page, all)
      BY <3>1, <3>2, <3>4, <3>5, AppendPage
    <3>7. QED BY <3>6 DEF Appended
  <2>3. listing' = [listing EXCEPT !.got = all, !.pc = "done"]
    BY <1>6, <1>13, <1>20, <2>1 DEF ListPage
  <2>4. /\ listing' \in ListingRecord /\ listing'.filter = listing.filter
        /\ listing'.pc = "done" /\ listing'.got = all
    BY <1>7, <2>2, <2>3 DEF ListingRecord
  <2>5. ASSUME NEW x \in began \cap LogIds PROVE \E j \in DOMAIN all : all[j] = x
    <3>1. CASE x \in ids
      <4>1. Len(page) <= PageLimit
        BY <1>7, <1>12, <1>20
      <4>2. PICK l \in 1..Len(page) : page[l] = x
        BY <1>12, <3>1, <4>1
      <4>3. QED BY <2>2, <4>2
    <3>2. CASE x \notin ids
      <4>1. PICK i \in DOMAIN old : old[i] = x
        BY <1>11, <1>14, <3>2
      <4>2. QED BY <2>2, <4>1
    <3>3. QED BY <3>1, <3>2
  <2>6. PagesSoFar'
    BY <1>16, <2>2, <2>4, <2>5 DEF PagesSoFar
  <2>7. QED BY <2>4, <2>6
<1>21. QED BY <1>19, <1>20

\* Every step of a firing, of the clean-up and of a listing keeps the invariant.
LEMMA DeliveryStep ==
  ASSUME DeliveryInv, [DeliveryNext]_deliveryVars
  PROVE  DeliveryInv'
<1>1. CASE UNCHANGED deliveryVars
  BY ZenonT(60), <1>1 DEF deliveryVars, listVars, DeliveryInv, DeliveryTyped, CallsCounted, IdsDistinct, Stamped,
              EntriesOfFirings, BeganIsPast, PagesSoFar, LogIds, Matching
<1>2. ASSUME NEW f \in Firings, NEW enabled \in BOOLEAN, FireWebhook(f, enabled) PROVE DeliveryInv'
  BY <1>2, FireWebhookKeeps
<1>3. ASSUME NEW f \in Firings, NEW answer \in {"ok", "failed", "unsent"}, Attempt(f, answer)
      PROVE  DeliveryInv'
  BY <1>3, AttemptKeeps
<1>4. ASSUME NEW f \in Firings, StampEntry(f) PROVE DeliveryInv'
  BY <1>4, StampEntryKeeps
<1>5. ASSUME NEW f \in Firings, PutEntry(f) PROVE DeliveryInv'
  BY <1>5, PutEntryKeeps
<1>6. ASSUME NEW oldest \in 2..nextId, CleanupLog(oldest) PROVE DeliveryInv'
  BY <1>6, CleanupLogKeeps
<1>7. ASSUME NEW filter \in {"", "error"}, BeginListing(filter) PROVE DeliveryInv'
  BY <1>7, BeginListingKeeps
<1>8. ASSUME ListPage PROVE DeliveryInv'
  BY <1>8, ListPageKeeps
<1>9. QED BY <1>1, <1>2, <1>3, <1>4, <1>5, <1>6, <1>7, <1>8 DEF DeliveryNext

\* What the log and its pages promise follows.
LEMMA DeliveryGoals == DeliveryInv => LogTruthful /\ PagesExact
<1> SUFFICES ASSUME DeliveryInv PROVE LogTruthful /\ PagesExact
  OBVIOUS
<1>1. DeliveryTyped /\ CallsCounted /\ EntriesOfFirings /\ PagesSoFar
  BY DEF DeliveryInv
<1>2. ASSUME NEW e \in alog \ {Earlier}
      PROVE  /\ e.status = "success" <=> e.rule \in answered
             /\ e.status = "success" => sent[e.rule] = e.attempt
             /\ e.attempt <= MaxAttempts
             /\ \A o \in alog : o.rule = e.rule => o = e
  <2>1. /\ e.rule \in Firings /\ firing[e.rule].pc = "done"
        /\ e = [id |-> firing[e.rule].id, rule |-> e.rule, status |-> firing[e.rule].status,
                attempt |-> firing[e.rule].attempt]
    BY <1>1 DEF EntriesOfFirings
  <2>2. e.status = firing[e.rule].status /\ e.attempt = firing[e.rule].attempt
    BY <2>1
  <2>3. ASSUME NEW o \in alog, o.rule = e.rule PROVE o = e
    <3>1. o # Earlier
      BY <2>1, <2>3, DeliveryAssumption DEF Earlier
    <3>2. o = [id |-> firing[o.rule].id, rule |-> o.rule, status |-> firing[o.rule].status,
               attempt |-> firing[o.rule].attempt]
      BY <1>1, <3>1 DEF EntriesOfFirings
    <3>3. QED BY <2>1, <2>3, <3>2
  <2>4. QED BY <1>1, <2>1, <2>2, <2>3 DEF CallsCounted
<1>3. \A f \in answered : firing[f].pc # "call"
  BY <1>1 DEF DeliveryTyped, CallsCounted
<1>4. PagesExact
  BY <1>1 DEF PagesSoFar, PagesExact, LogIds
<1>5. QED BY <1>2, <1>3, <1>4 DEF LogTruthful

\* The automation log tells the truth and its pages miss nothing.
THEOREM DeliveriesLogged == DeliverySpec => [](LogTruthful /\ PagesExact)
<1>1. DeliverySpec => []DeliveryInv
  BY DeliveryInvInit, DeliveryStep, PTL DEF DeliverySpec
<1>2. QED BY <1>1, DeliveryGoals, PTL

-----------------------------------------------------------------------------
(***************************************************************************)
(* Triggers.                                                               *)
(***************************************************************************)
TgTextsOrNone == TgTexts \cup {NoTg}
RequestRecord == [pc : {"idle", "enqueue", "index", "unvector", "unindex", "done"}, doc : TgDocs \cup {NoTg},
                  text : TgTextsOrNone, event : {"", "insert", "update", "delete"}]
FtsLists == UNION {[D -> Nat] : D \in SUBSET TgDocs}
EvalPcs == {"none", "start", "conditions", "vectors", "matched", "unmatched", "fired", "skipped"}
EvalRecord == [pc : EvalPcs, rule : TgRules, fts : FtsLists, crowded : BOOLEAN]

TriggersTyped ==
  /\ tgRule \in [rule : TgRules, on : BOOLEAN] /\ tgHook \in BOOLEAN
  /\ tgDoc \in [TgDocs -> TgTextsOrNone] /\ tgFts \in [TgDocs -> TgTextsOrNone]
  /\ tgVec \in [VecKeys -> TgTextsOrNone] /\ tgJobs \subseteq VecKeys \X TgTexts
  /\ tgReq \in [TgRequests -> RequestRecord] /\ tgEval \in [TgRequests -> EvalRecord]
  /\ tgRaced \subseteq TgRequests /\ tgStale \subseteq TgDocs

\* Where a request is and what it holds.
RequestShape ==
  \A r \in TgRequests :
    /\ tgReq[r].pc \in {"idle", "enqueue", "index", "unvector"} => tgEval[r].pc = "none"
    /\ tgReq[r].pc \in {"enqueue", "index"} => tgReq[r].event \in {"insert", "update"}
    /\ tgReq[r].pc \in {"unvector", "unindex"} => tgReq[r].event = "delete"
    /\ tgReq[r].pc # "idle" => tgReq[r].doc \in TgDocs /\ tgReq[r].text \in TgTexts
    /\ r \in tgRaced => tgReq[r].pc # "idle"

\* Requests that meet on a document know.
MeetingsMarked ==
  \A r, q \in TgRequests :
    r # q /\ UnderWay(r) /\ UnderWay(q) /\ tgReq[r].doc = tgReq[q].doc => r \in tgRaced

Unraced(d) == \A q \in tgRaced : tgReq[q].doc # d

\* What a document nobody raced for has in the indexes.
SettledDoc(d) ==
  /\ (\A r \in TgRequests : tgReq[r].doc = d => tgReq[r].pc \in {"idle", "done"}) => tgFts[d] = tgDoc[d]
  /\ \A r \in TgRequests : tgReq[r].doc = d =>
       /\ tgReq[r].pc \in {"enqueue", "index"} => tgDoc[d] = tgReq[r].text
       /\ tgReq[r].pc \in {"unvector", "unindex"} => tgDoc[d] = NoTg /\ tgFts[d] = tgReq[r].text
  /\ (d \notin tgStale /\ \A r \in TgRequests : tgReq[r].doc = d => tgReq[r].pc # "unvector") =>
       \A c \in {"id", "chunk"} : tgVec[<<d, c>>] # NoTg => tgDoc[d] # NoTg
DocsSettled == \A d \in TgDocs : Unraced(d) => SettledDoc(d)

\* What the goroutine of a request finds in the text index, as long as nobody interferes.
SearchSees ==
  \A r \in TgRequests \ tgRaced : Searching(r) =>
    /\ tgReq[r].event # "delete" => tgFts[tgReq[r].doc] = tgReq[r].text
    /\ tgReq[r].event = "delete" /\ Unraced(tgReq[r].doc) => tgFts[tgReq[r].doc] \in {tgReq[r].text, NoTg}

\* Only a hybrid search has its vectors to look at in a step of its own.
HybridOnly == \A r \in TgRequests : tgEval[r].pc = "vectors" => tgEval[r].rule.search = "hybrid"

TriggersInv ==
  TriggersTyped /\ HybridOnly /\ RequestShape /\ MeetingsMarked /\ DocsSettled /\ SearchSees /\ FiredForWhatWasWritten

-----------------------------------------------------------------------------
(* Searches. *)

\* The results of a search are taken from what it looked at, and are as many as its limit if
\* something is left out.
LEMMA TopsFacts ==
  ASSUME NEW docs, NEW k \in Nat, NEW ahead, NEW top \in Tops(docs, k, ahead)
  PROVE  /\ top \subseteq docs
         /\ \A d \in docs \ top : IsFiniteSet(docs) => Cardinality(top) = k
<1>1. top \in SUBSET docs /\ Cardinality(top) = IF Cardinality(docs) < k THEN Cardinality(docs) ELSE k
  BY DEF Tops
<1>2. ASSUME NEW d \in docs \ top, IsFiniteSet(docs) PROVE Cardinality(top) = k
  <2>1. Cardinality(docs) = Cardinality(top) => docs = top
    BY <1>1, <1>2, FS_Subset
  <2>2. docs # top
    BY <1>2
  <2>3. QED BY <1>1, <2>1, <2>2
<1>3. QED BY <1>1, <1>2

\* A condition that holds more often makes the trigger match more often.
LEMMA MatchedMonotone ==
  ASSUME NEW rule, NEW tone, NEW found \in BOOLEAN, NEW reaches \in BOOLEAN, found => reaches,
         Matched(rule, found, tone)
  PROVE  Matched(rule, reaches, tone)
<1>1. CASE rule.search = "none"
  BY <1>1 DEF Matched
<1>2. CASE found = reaches
  BY <1>2
<1>3. CASE rule.search # "none" /\ found = FALSE /\ reaches = TRUE
  <2> DEFINE rest == IF rule.sentiment THEN {tone} ELSE {}
  <2>1. CASE rule.logic = "or"
    <3>1. TRUE \in {reaches} \cup rest
      BY <1>3
    <3>2. QED BY <1>3, <2>1, <3>1 DEF Matched
  <2>2. CASE rule.logic # "or"
    <3>1. FALSE \notin {found} \cup rest
      BY <1>3, <2>2 DEF Matched
    <3>2. QED BY <1>3, <3>1
  <2>3. QED BY <2>1, <2>2
<1>4. QED BY <1>1, <1>2, <1>3

\* The condition on the search does not matter to a trigger without one.
LEMMA MatchedWithoutSearch ==
  ASSUME NEW rule, rule.search = "none", NEW found, NEW other, NEW tone
  PROVE  Matched(rule, found, tone) <=> Matched(rule, other, tone)
BY DEF Matched

-----------------------------------------------------------------------------
(* Steps. *)

FiredFor(r) ==
  LET e == tgEval[r]
      due == Matched(e.rule, Reaches(e.rule, tgReq[r].text), tgReq[r].text.tone)
  IN e.rule.search \in {"none", "fts"} =>
       /\ e.pc \in {"matched", "fired", "skipped"} =>
            due \/ (tgReq[r].event = "delete" /\ \E q \in tgRaced : tgReq[q].doc = tgReq[r].doc)
       /\ e.pc = "unmatched" => ~due \/ e.crowded \/ tgReq[r].event = "delete"

\* The property says FiredFor of each request that did not race.
LEMMA FiredForAll == FiredForWhatWasWritten <=> \A r \in TgRequests \ tgRaced : FiredFor(r)
BY DEF FiredForWhatWasWritten, FiredFor

\* The empty result is one the full-text search may give.
LEMMA EmptyFtsList == <<>> \in FtsLists
<1>1. <<>> \in [{} -> Nat]
  OBVIOUS
<1>2. QED BY <1>1 DEF FtsLists

\* At the start nothing is requested and nothing stored.
LEMMA TriggersInvInit == TriggersInit => TriggersInv
<1> SUFFICES ASSUME TriggersInit PROVE TriggersInv
  OBVIOUS
<1>1. PICK q : q = [pc |-> "idle", doc |-> NoTg, text |-> NoTg, event |-> ""]
  OBVIOUS
<1>2. q \in RequestRecord /\ q.pc = "idle"
  BY <1>1 DEF RequestRecord, TgTextsOrNone
<1>3. tgReq = [r \in TgRequests |-> q] /\ \A r \in TgRequests : tgReq[r] = q
  BY <1>1 DEF TriggersInit
<1>4. PICK e : e = NoEval(tgRule.rule)
  OBVIOUS
<1>5. tgRule \in [rule : TgRules, on : BOOLEAN] /\ tgHook \in BOOLEAN
  BY DEF TriggersInit
<1>6. e \in EvalRecord /\ e.pc = "none"
  BY <1>4, <1>5, EmptyFtsList DEF NoEval, EvalRecord, EvalPcs
<1>7. tgEval = [r \in TgRequests |-> e] /\ \A r \in TgRequests : tgEval[r] = e
  BY <1>4 DEF TriggersInit
<1>8. tgDoc = [d \in TgDocs |-> NoTg] /\ tgFts = tgDoc /\ tgVec = [k \in VecKeys |-> NoTg]
      /\ tgJobs = {} /\ tgRaced = {} /\ tgStale = {}
  BY DEF TriggersInit
<1>9. TriggersTyped
  BY <1>2, <1>3, <1>5, <1>6, <1>7, <1>8 DEF TriggersTyped, TgTextsOrNone
<1>10. \A r \in TgRequests : tgReq[r].pc = "idle" /\ tgEval[r].pc = "none"
  BY <1>2, <1>3, <1>6, <1>7
<1>11. RequestShape /\ MeetingsMarked /\ SearchSees /\ HybridOnly
  BY <1>8, <1>10 DEF HybridOnly, RequestShape, MeetingsMarked, SearchSees, UnderWay, Searching
<1>12. DocsSettled
  BY <1>8, <1>10 DEF DocsSettled, SettledDoc, VecKeys
<1>13. FiredForWhatWasWritten
  BY <1>10, FiredForAll DEF FiredFor
<1>14. QED BY <1>9, <1>11, <1>12, <1>13 DEF TriggersInv

\* A commit marks the requests it meets; if there are none, the indexes hold what is stored.
LEMMA CommitKeeps ==
  ASSUME TriggersInv, NEW r \in TgRequests, NEW d \in TgDocs, NEW text \in TgTextsOrNone, NEW event, NEW pc,
         Commits(r, d, text, event, pc),
         \/ text \in TgTexts /\ event \in {"insert", "update"} /\ pc = "enqueue"
         \/ text = NoTg /\ tgDoc[d] # NoTg /\ event = "delete" /\ pc = "unvector"
  PROVE  TriggersInv'
<1>1. TriggersTyped /\ RequestShape /\ MeetingsMarked /\ DocsSettled /\ SearchSees
  BY DEF TriggersInv
<1>2. PICK met : met = {q \in TgRequests \ {r} : tgReq[q].doc = d /\ UnderWay(q)}
  OBVIOUS
<1>3. PICK new : new = [pc |-> pc, doc |-> d, event |-> event, text |-> IF text = NoTg THEN tgDoc[d] ELSE text]
  OBVIOUS
<1>4. /\ tgReq[r].pc = "idle" /\ tgReq' = [tgReq EXCEPT ![r] = new] /\ tgDoc' = [tgDoc EXCEPT ![d] = text]
      /\ tgRaced' = tgRaced \cup met \cup (IF met = {} THEN {} ELSE {r})
      /\ UNCHANGED <<tgFts, tgVec, tgJobs, tgEval, tgRule, tgHook, tgStale>>
  BY <1>2, <1>3 DEF Commits, tgIndexes, tgRules
<1>5. NoTg \notin TgTexts
  BY TriggersAssumption
<1>6. /\ new.pc = pc /\ new.doc = d /\ new.event = event /\ new.text \in TgTexts /\ new \in RequestRecord
      /\ text = NoTg => new.text = tgDoc[d]
      /\ text # NoTg => new.text = text
  BY <1>1, <1>3, <1>5 DEF TriggersTyped, RequestRecord, TgTextsOrNone
<1>7. /\ tgReq' \in [TgRequests -> RequestRecord] /\ tgReq'[r] = new
      /\ \A q \in TgRequests : q # r => tgReq'[q] = tgReq[q]
      /\ tgDoc' \in [TgDocs -> TgTextsOrNone] /\ tgDoc'[d] = text
      /\ \A e \in TgDocs : e # d => tgDoc'[e] = tgDoc[e]
  BY <1>1, <1>4, <1>6 DEF TriggersTyped
<1>8. tgEval[r].pc = "none" /\ r \notin tgRaced /\ ~UnderWay(r)
  BY <1>1, <1>4 DEF RequestShape, UnderWay, Searching
<1>9. \A q \in TgRequests : q # r => (UnderWay(q)' <=> UnderWay(q))
  BY <1>4, <1>7 DEF UnderWay, Searching
<1>10. \A q \in TgRequests : UnderWay(q) => tgReq[q].pc # "idle"
  BY <1>1 DEF RequestShape, UnderWay, Searching
<1>11. TriggersTyped'
  BY <1>1, <1>2, <1>4, <1>7 DEF TriggersTyped
<1>12. RequestShape'
  <2>1. ASSUME NEW q \in TgRequests, q # r, q \in tgRaced' PROVE tgReq[q].pc # "idle"
    BY <1>1, <1>2, <1>4, <1>10, <2>1 DEF RequestShape
  <2>2. QED BY <1>1, <1>4, <1>6, <1>7, <1>8, <2>1 DEF RequestShape
<1>13. MeetingsMarked'
  <2>1. ASSUME NEW p \in TgRequests, NEW q \in TgRequests, p # q, UnderWay(p)', UnderWay(q)',
               tgReq'[p].doc = tgReq'[q].doc
        PROVE  p \in tgRaced'
    <3>1. CASE p # r /\ q # r
      <4>1. p \in tgRaced
        BY <1>1, <1>7, <1>9, <2>1, <3>1 DEF MeetingsMarked
      <4>2. QED BY <1>4, <4>1
    <3>2. CASE p = r
      <4>1. q \in met
        BY <1>2, <1>6, <1>7, <1>9, <2>1, <3>2
      <4>2. QED BY <1>4, <3>2, <4>1
    <3>3. CASE q = r
      <4>1. p \in met
        BY <1>2, <1>6, <1>7, <1>9, <2>1, <3>3
      <4>2. QED BY <1>4, <4>1
    <3>4. QED BY <3>1, <3>2, <3>3
  <2>2. QED BY <2>1 DEF MeetingsMarked
<1>14. \A e : Unraced(e)' => Unraced(e)
  BY <1>1, <1>4, <1>7, <1>8 DEF Unraced, TriggersTyped
<1>15. DocsSettled'
  <2>1. ASSUME NEW e \in TgDocs, Unraced(e)', e # d PROVE SettledDoc(e)'
    <3>1. SettledDoc(e)
      BY <1>1, <1>14, <2>1 DEF DocsSettled
    <3>2. \A q \in TgRequests : tgReq'[q].doc = e => q # r
      BY <1>6, <1>7, <2>1
    <3>3. \A q \in TgRequests : q # r /\ tgReq[q].doc = e => tgReq'[q].doc = e
      BY <1>7
    <3>4. \A q \in TgRequests : tgReq'[q].doc = e => tgReq[q] = tgReq'[q]
      BY <1>7, <3>2
    <3>5. tgDoc'[e] = tgDoc[e] /\ tgFts'[e] = tgFts[e] /\ tgVec' = tgVec /\ tgStale' = tgStale
      BY <1>4, <1>7, <2>1
    <3>6. (\A q \in TgRequests : tgReq'[q].doc = e => tgReq'[q].pc \in {"idle", "done"}) =>
            \A q \in TgRequests : tgReq[q].doc = e => tgReq[q].pc \in {"idle", "done"}
      BY <1>4, <3>3, <3>4
    <3>7. (\A q \in TgRequests : tgReq'[q].doc = e => tgReq'[q].pc # "unvector") =>
            \A q \in TgRequests : tgReq[q].doc = e => tgReq[q].pc # "unvector"
      BY <1>4, <3>3, <3>4
    <3>8. QED BY <3>1, <3>4, <3>5, <3>6, <3>7 DEF SettledDoc
  <2>2. ASSUME Unraced(d)' PROVE SettledDoc(d)'
    <3>1. met = {}
      <4>1. ASSUME met # {} PROVE FALSE
        <5>1. r \in tgRaced' /\ tgReq'[r].doc = d
          BY <1>4, <1>6, <1>7, <4>1
        <5>2. QED BY <2>2, <5>1 DEF Unraced
      <4>2. QED BY <4>1
    <3>2. \A q \in TgRequests : q # r /\ tgReq[q].doc = d => tgReq[q].pc \in {"idle", "done"}
      BY <1>2, <3>1 DEF UnderWay
    <3>3. SettledDoc(d)
      BY <1>1, <1>14, <2>2 DEF DocsSettled
    <3>4. tgFts[d] = tgDoc[d]
      BY <1>4, <3>2, <3>3 DEF SettledDoc
    <3>5. tgFts'[d] = tgFts[d] /\ tgDoc'[d] = text
      BY <1>4, <1>7
    <3>6. \A q \in TgRequests : tgReq'[q].doc = d =>
            /\ tgReq'[q].pc \in {"enqueue", "index"} => tgDoc'[d] = tgReq'[q].text
            /\ tgReq'[q].pc \in {"unvector", "unindex"} => tgDoc'[d] = NoTg /\ tgFts'[d] = tgReq'[q].text
      <4>1. ASSUME NEW q \in TgRequests, q # r, tgReq'[q].doc = d PROVE tgReq'[q].pc \in {"idle", "done"}
        BY <1>7, <3>2, <4>1
      <4>2. CASE text = NoTg
        BY <1>5, <1>6, <1>7, <3>4, <3>5, <4>1, <4>2
      <4>3. CASE text # NoTg
        BY <1>6, <1>7, <3>5, <4>1, <4>3
      <4>4. QED BY <4>2, <4>3
    <3>7. tgReq'[r].doc = d /\ tgReq'[r].pc = pc
      BY <1>6, <1>7
    <3>8. text = NoTg => pc = "unvector"
      BY <1>5
    <3>9. pc \notin {"idle", "done"}
      OBVIOUS
    <3>10. QED BY <3>5, <3>6, <3>7, <3>8, <3>9 DEF SettledDoc
  <2>3. QED BY <2>1, <2>2 DEF DocsSettled
<1>16. SearchSees'
  <2>1. ASSUME NEW q \in TgRequests \ tgRaced', Searching(q)'
        PROVE  /\ q \notin tgRaced /\ q # r /\ Searching(q) /\ tgReq'[q] = tgReq[q]
               /\ tgFts'[tgReq'[q].doc] = tgFts[tgReq[q].doc]
    BY <1>4, <1>7, <1>8, <2>1 DEF Searching
  <2>2. QED BY <1>1, <1>14, <2>1 DEF SearchSees
<1>17. FiredForWhatWasWritten'
  <2>1. ASSUME NEW q \in TgRequests \ tgRaced' PROVE FiredFor(q)'
    <3>1. CASE q = r
      BY <1>4, <1>8, <3>1 DEF FiredFor
    <3>2. CASE q # r
      <4>1. FiredFor(q) /\ tgReq'[q] = tgReq[q] /\ tgEval' = tgEval
        BY <1>4, <1>7, <2>1, <3>2, FiredForAll DEF TriggersInv
      <4>2. (\E p \in tgRaced : tgReq[p].doc = tgReq[q].doc) => \E p \in tgRaced' : tgReq'[p].doc = tgReq'[q].doc
        BY <1>1, <1>4, <1>7, <1>8, <3>2 DEF TriggersTyped
      <4>3. QED BY <4>1, <4>2 DEF FiredFor
    <3>3. QED BY <3>1, <3>2
  <2>2. QED BY <2>1 DEF FiredForWhatWasWritten, FiredFor
<1>18. HybridOnly'
  BY <1>4 DEF TriggersInv, HybridOnly
<1>19. QED BY <1>11, <1>12, <1>13, <1>15, <1>16, <1>17, <1>18 DEF TriggersInv

\* Two requests that are under way on one document both raced.
LEMMA NobodyElse ==
  ASSUME TriggersInv, NEW r \in TgRequests, NEW q \in TgRequests, q # r, UnderWay(r), UnderWay(q),
         tgReq[q].doc = tgReq[r].doc
  PROVE  r \in tgRaced /\ q \in tgRaced /\ ~Unraced(tgReq[r].doc)
<1>1. r \in tgRaced /\ q \in tgRaced
  BY DEF TriggersInv, MeetingsMarked
<1>2. QED BY <1>1 DEF Unraced

\* A request goes on, and perhaps starts its goroutine.
LEMMA RequestMoves ==
  ASSUME TriggersInv, NEW r \in TgRequests, tgReq[r].pc \notin {"idle", "done"},
         NEW pc \in {"index", "unindex", "done"}, tgReq' = [tgReq EXCEPT ![r].pc = pc], tgRaced' = tgRaced,
         tgEval' = tgEval \/ (tgEval[r].pc = "none" /\ tgEval' = [tgEval EXCEPT ![r].pc = "start"])
  PROVE  /\ tgReq' \in [TgRequests -> RequestRecord] /\ tgEval' \in [TgRequests -> EvalRecord]
         /\ \A q \in TgRequests :
              /\ tgReq'[q].doc = tgReq[q].doc /\ tgReq'[q].text = tgReq[q].text
              /\ tgReq'[q].event = tgReq[q].event /\ (UnderWay(q)' => UnderWay(q))
         /\ \A q \in TgRequests : q # r => tgReq'[q] = tgReq[q] /\ tgEval'[q] = tgEval[q]
         /\ tgReq'[r].pc = pc /\ (tgEval' = tgEval \/ tgEval'[r].pc = "start")
         /\ \A d : Unraced(d)' <=> Unraced(d)
         /\ \A q \in TgRequests : Unraced(tgReq[q].doc)' => Unraced(tgReq[q].doc)
         /\ MeetingsMarked' /\ FiredForWhatWasWritten' /\ HybridOnly'
<1>1. TriggersTyped /\ MeetingsMarked /\ FiredForWhatWasWritten
  BY DEF TriggersInv
<1>2. tgReq[r] \in RequestRecord /\ tgEval[r] \in EvalRecord
  BY <1>1 DEF TriggersTyped
<1>3. PICK new : new = [tgReq[r] EXCEPT !.pc = pc]
  OBVIOUS
<1>4. /\ new \in RequestRecord /\ new.pc = pc /\ new.doc = tgReq[r].doc /\ new.text = tgReq[r].text
      /\ new.event = tgReq[r].event /\ tgReq' = [tgReq EXCEPT ![r] = new]
  BY <1>1, <1>2, <1>3 DEF RequestRecord, TriggersTyped
<1>5. PICK start : start = [tgEval[r] EXCEPT !.pc = "start"]
  OBVIOUS
<1>6. start \in EvalRecord /\ start.pc = "start"
  BY <1>2, <1>5 DEF EvalRecord, EvalPcs
<1>7. tgEval' = tgEval \/ tgEval' = [tgEval EXCEPT ![r] = start]
  BY <1>1, <1>5 DEF TriggersTyped
<1>8. /\ tgReq' \in [TgRequests -> RequestRecord] /\ tgReq'[r] = new
      /\ \A q \in TgRequests : q # r => tgReq'[q] = tgReq[q]
  BY <1>1, <1>4 DEF TriggersTyped
<1>9. /\ tgEval' \in [TgRequests -> EvalRecord] /\ (tgEval' = tgEval \/ tgEval'[r] = start)
      /\ \A q \in TgRequests : q # r => tgEval'[q] = tgEval[q]
  BY <1>1, <1>6, <1>7 DEF TriggersTyped
<1>10. \A q \in TgRequests :
         /\ tgReq'[q].doc = tgReq[q].doc /\ tgReq'[q].text = tgReq[q].text /\ tgReq'[q].event = tgReq[q].event
  BY <1>4, <1>8
<1>11. \A q \in TgRequests : UnderWay(q)' => UnderWay(q)
  BY <1>8, <1>9 DEF UnderWay, Searching
<1>12. \A d : Unraced(d)' <=> Unraced(d)
  BY <1>1, <1>10 DEF Unraced, TriggersTyped
<1>12a. \A q \in TgRequests : Unraced(tgReq[q].doc)' => Unraced(tgReq[q].doc)
  BY <1>1, <1>10 DEF Unraced, TriggersTyped
<1>13. MeetingsMarked'
  BY <1>1, <1>10, <1>11 DEF MeetingsMarked
<1>14. FiredForWhatWasWritten'
  <2>1. ASSUME NEW q \in TgRequests \ tgRaced' PROVE FiredFor(q)'
    <3>1. CASE tgEval'[q] = tgEval[q]
      <4>1. FiredFor(q)
        BY <1>1, <2>1, FiredForAll
      <4>2. (\E p \in tgRaced : tgReq[p].doc = tgReq[q].doc) => \E p \in tgRaced' : tgReq'[p].doc = tgReq'[q].doc
        BY <1>1, <1>10 DEF TriggersTyped
      <4>3. QED BY <1>10, <3>1, <4>1, <4>2 DEF FiredFor
    <3>2. CASE tgEval'[q] # tgEval[q]
      <4>1. tgEval'[q].pc = "start"
        BY <1>6, <1>9, <3>2
      <4>2. QED BY <4>1 DEF FiredFor
    <3>3. QED BY <3>1, <3>2
  <2>2. QED BY <2>1 DEF FiredForWhatWasWritten, FiredFor
<1>15. HybridOnly'
  <2>1. HybridOnly
    BY DEF TriggersInv
  <2>2. \A q \in TgRequests : tgEval'[q] = tgEval[q] \/ tgEval'[q].pc = "start"
    BY <1>6, <1>9
  <2>3. QED BY <2>1, <2>2 DEF HybridOnly
<1>16. QED BY <1>4, <1>6, <1>8, <1>9, <1>10, <1>11, <1>12, <1>12a, <1>13, <1>14, <1>15

\* An embedding is queued.
LEMMA QueueEmbeddingKeeps ==
  ASSUME TriggersInv, NEW r \in TgRequests, QueueEmbedding(r)
  PROVE  TriggersInv'
<1>1. TriggersTyped /\ RequestShape /\ DocsSettled /\ SearchSees
  BY DEF TriggersInv
<1>2. /\ tgReq[r].pc = "enqueue" /\ tgReq' = [tgReq EXCEPT ![r].pc = "index"]
      /\ tgJobs' = tgJobs \cup {<<<<tgReq[r].doc, "chunk">>, tgReq[r].text>>}
      /\ UNCHANGED <<tgDoc, tgFts, tgVec, tgEval, tgRule, tgHook, tgRaced, tgStale>>
  BY DEF QueueEmbedding, tgRules
<1>3. /\ tgReq' \in [TgRequests -> RequestRecord] /\ tgEval' \in [TgRequests -> EvalRecord]
      /\ \A q \in TgRequests :
           /\ tgReq'[q].doc = tgReq[q].doc /\ tgReq'[q].text = tgReq[q].text
           /\ tgReq'[q].event = tgReq[q].event /\ (UnderWay(q)' => UnderWay(q))
      /\ \A q \in TgRequests : q # r => tgReq'[q] = tgReq[q] /\ tgEval'[q] = tgEval[q]
      /\ tgReq'[r].pc = "index" /\ \A d : Unraced(d)' <=> Unraced(d)
      /\ \A q \in TgRequests : Unraced(tgReq[q].doc)' => Unraced(tgReq[q].doc)
      /\ MeetingsMarked' /\ FiredForWhatWasWritten' /\ HybridOnly'
  BY <1>2, RequestMoves
<1>4. TriggersTyped'
  <2>1. <<tgReq[r].doc, "chunk">> \in VecKeys /\ tgReq[r].text \in TgTexts
    BY <1>1, <1>2 DEF RequestShape, VecKeys
  <2>2. QED BY <1>1, <1>2, <1>3, <2>1 DEF TriggersTyped
<1>5. RequestShape'
  BY <1>1, <1>2, <1>3 DEF RequestShape
<1>6. DocsSettled'
  <2>1. ASSUME NEW d \in TgDocs, Unraced(d)' PROVE SettledDoc(d)'
    <3>1. SettledDoc(d)
      BY <1>1, <1>3, <2>1 DEF DocsSettled
    <3>2. \A q \in TgRequests : q = r \/ tgReq'[q] = tgReq[q]
      BY <1>3
    <3>3. QED BY <1>2, <1>3, <3>1, <3>2 DEF SettledDoc
  <2>2. QED BY <2>1 DEF DocsSettled
<1>7. SearchSees'
  BY <1>1, <1>2, <1>3 DEF SearchSees, Searching
<1>8. QED BY <1>3, <1>4, <1>5, <1>6, <1>7 DEF TriggersInv

\* The text index gets the text before the goroutine starts.
LEMMA IndexThenEvaluateKeeps ==
  ASSUME TriggersInv, NEW r \in TgRequests, IndexThenEvaluate(r)
  PROVE  TriggersInv'
<1>1. TriggersTyped /\ RequestShape /\ DocsSettled /\ SearchSees
  BY DEF TriggersInv
<1>2. /\ tgReq[r].pc = "index" /\ tgReq' = [tgReq EXCEPT ![r].pc = "done"]
      /\ tgFts' = [tgFts EXCEPT ![tgReq[r].doc] = tgReq[r].text]
      /\ tgEval' = [tgEval EXCEPT ![r].pc = "start"]
      /\ UNCHANGED <<tgDoc, tgVec, tgJobs, tgRule, tgHook, tgRaced, tgStale>>
  BY DEF IndexThenEvaluate, tgRules
<1>3. tgEval[r].pc = "none" /\ tgReq[r].doc \in TgDocs /\ tgReq[r].text \in TgTexts
      /\ tgReq[r].event # "delete" /\ UnderWay(r)
  BY <1>1, <1>2 DEF RequestShape, UnderWay
<1>4. /\ tgReq' \in [TgRequests -> RequestRecord] /\ tgEval' \in [TgRequests -> EvalRecord]
      /\ \A q \in TgRequests :
           /\ tgReq'[q].doc = tgReq[q].doc /\ tgReq'[q].text = tgReq[q].text
           /\ tgReq'[q].event = tgReq[q].event /\ (UnderWay(q)' => UnderWay(q))
      /\ \A q \in TgRequests : q # r => tgReq'[q] = tgReq[q] /\ tgEval'[q] = tgEval[q]
      /\ tgReq'[r].pc = "done" /\ \A d : Unraced(d)' <=> Unraced(d)
      /\ \A q \in TgRequests : Unraced(tgReq[q].doc)' => Unraced(tgReq[q].doc)
      /\ MeetingsMarked' /\ FiredForWhatWasWritten' /\ HybridOnly'
  BY <1>2, <1>3, RequestMoves
<1>5. /\ tgFts' \in [TgDocs -> TgTextsOrNone] /\ tgFts'[tgReq[r].doc] = tgReq[r].text
      /\ \A d \in TgDocs : d # tgReq[r].doc => tgFts'[d] = tgFts[d]
  BY <1>1, <1>2, <1>3 DEF TriggersTyped, TgTextsOrNone
<1>6. TriggersTyped'
  BY <1>1, <1>2, <1>4, <1>5 DEF TriggersTyped
<1>7. RequestShape'
  BY <1>1, <1>2, <1>4 DEF RequestShape
<1>8. DocsSettled'
  <2>1. ASSUME NEW d \in TgDocs, Unraced(d)' PROVE SettledDoc(d)'
    <3>1. SettledDoc(d) /\ Unraced(d)
      BY <1>1, <1>4, <2>1 DEF DocsSettled
    <3>2. \A q \in TgRequests : q = r \/ tgReq'[q] = tgReq[q]
      BY <1>4
    <3>3. CASE d # tgReq[r].doc
      BY <1>2, <1>4, <1>5, <3>1, <3>2, <3>3 DEF SettledDoc
    <3>4. CASE d = tgReq[r].doc
      <4>1. tgDoc[d] = tgReq[r].text
        BY <1>2, <3>1, <3>4 DEF SettledDoc
      <4>2. \A q \in TgRequests : q # r /\ tgReq[q].doc = d => tgReq[q].pc \in {"idle", "done"}
        BY <1>3, <3>1, <3>4, NobodyElse DEF UnderWay
      <4>3. \A q \in TgRequests : tgReq'[q].doc = d => tgReq'[q].pc \in {"idle", "done"}
        BY <1>4, <4>2
      <4>4. tgFts'[d] = tgDoc'[d] /\ tgDoc'[d] # NoTg
        BY <1>2, <1>3, <1>5, <3>4, <4>1, TriggersAssumption
      <4>5. QED BY <4>3, <4>4 DEF SettledDoc
    <3>5. QED BY <3>3, <3>4
  <2>2. QED BY <2>1 DEF DocsSettled
<1>9. SearchSees'
  <2>1. ASSUME NEW q \in TgRequests \ tgRaced', Searching(q)'
        PROVE  /\ tgReq'[q].event # "delete" => tgFts'[tgReq'[q].doc] = tgReq'[q].text
               /\ tgReq'[q].event = "delete" /\ Unraced(tgReq[q].doc)' =>
                    tgFts'[tgReq'[q].doc] \in {tgReq'[q].text, NoTg}
    <3>1. CASE q = r
      BY <1>3, <1>4, <1>5, <3>1
    <3>2. CASE q # r
      <4>1. Searching(q) /\ UnderWay(q) /\ q \notin tgRaced
        BY <1>2, <1>4, <2>1, <3>2 DEF Searching, UnderWay
      <4>2. tgReq[q].doc # tgReq[r].doc
        BY <1>3, <3>2, <4>1, NobodyElse
      <4>3. tgReq[q].doc \in TgDocs
        BY <1>1, <4>1 DEF RequestShape, Searching
      <4>4. tgFts'[tgReq'[q].doc] = tgFts[tgReq[q].doc]
        BY <1>4, <1>5, <4>2, <4>3
      <4>5. Unraced(tgReq[q].doc)' => Unraced(tgReq[q].doc)
        BY <1>4
      <4>6. QED BY <1>1, <1>4, <4>1, <4>4, <4>5 DEF SearchSees
    <3>3. QED BY <3>1, <3>2
  <2>2. QED BY <2>1 DEF SearchSees
<1>10. QED BY <1>4, <1>6, <1>7, <1>8, <1>9 DEF TriggersInv

\* The vectors of a deleted document go before its goroutine starts.
LEMMA RemoveVectorsKeeps ==
  ASSUME TriggersInv, NEW r \in TgRequests, RemoveVectors(r)
  PROVE  TriggersInv'
<1>1. TriggersTyped /\ RequestShape /\ DocsSettled /\ SearchSees
  BY DEF TriggersInv
<1>2. /\ tgReq[r].pc = "unvector" /\ tgReq' = [tgReq EXCEPT ![r].pc = "unindex"]
      /\ tgVec' = [k \in VecKeys |-> IF k[1] = tgReq[r].doc THEN NoTg ELSE tgVec[k]]
      /\ tgEval' = [tgEval EXCEPT ![r].pc = "start"]
      /\ UNCHANGED <<tgDoc, tgFts, tgJobs, tgRule, tgHook, tgRaced, tgStale>>
  BY DEF RemoveVectors, tgRules
<1>3. tgEval[r].pc = "none" /\ tgReq[r].doc \in TgDocs /\ tgReq[r].text \in TgTexts
      /\ tgReq[r].event = "delete" /\ UnderWay(r)
  BY <1>1, <1>2 DEF RequestShape, UnderWay
<1>4. /\ tgReq' \in [TgRequests -> RequestRecord] /\ tgEval' \in [TgRequests -> EvalRecord]
      /\ \A q \in TgRequests :
           /\ tgReq'[q].doc = tgReq[q].doc /\ tgReq'[q].text = tgReq[q].text
           /\ tgReq'[q].event = tgReq[q].event /\ (UnderWay(q)' => UnderWay(q))
      /\ \A q \in TgRequests : q # r => tgReq'[q] = tgReq[q] /\ tgEval'[q] = tgEval[q]
      /\ tgReq'[r].pc = "unindex" /\ \A d : Unraced(d)' <=> Unraced(d)
      /\ \A q \in TgRequests : Unraced(tgReq[q].doc)' => Unraced(tgReq[q].doc)
      /\ MeetingsMarked' /\ FiredForWhatWasWritten' /\ HybridOnly'
  BY <1>2, <1>3, RequestMoves
<1>5. /\ tgVec' \in [VecKeys -> TgTextsOrNone]
      /\ \A d \in TgDocs, c \in {"id", "chunk"} :
           tgVec'[<<d, c>>] = IF d = tgReq[r].doc THEN NoTg ELSE tgVec[<<d, c>>]
  <2>1. \A d \in TgDocs, c \in {"id", "chunk"} : <<d, c>> \in VecKeys /\ <<d, c>>[1] = d
    BY DEF VecKeys
  <2>2. \A k \in VecKeys : tgVec[k] \in TgTextsOrNone /\ NoTg \in TgTextsOrNone
    BY <1>1 DEF TriggersTyped, TgTextsOrNone
  <2>3. QED BY <1>2, <2>1, <2>2
<1>6. TriggersTyped'
  BY <1>1, <1>2, <1>4, <1>5 DEF TriggersTyped
<1>7. RequestShape'
  BY <1>1, <1>2, <1>3, <1>4 DEF RequestShape
<1>8. DocsSettled'
  <2>1. ASSUME NEW d \in TgDocs, Unraced(d)' PROVE SettledDoc(d)'
    <3>1. SettledDoc(d) /\ Unraced(d)
      BY <1>1, <1>4, <2>1 DEF DocsSettled
    <3>2. \A q \in TgRequests : q = r \/ tgReq'[q] = tgReq[q]
      BY <1>4
    <3>3. CASE d # tgReq[r].doc
      <4>1. \A q \in TgRequests : tgReq[q].doc = d => tgReq'[q] = tgReq[q]
        BY <3>2, <3>3
      <4>2. \A q \in TgRequests : tgReq'[q].doc = d <=> tgReq[q].doc = d
        BY <1>4
      <4>3. \A c \in {"id", "chunk"} : tgVec'[<<d, c>>] = tgVec[<<d, c>>]
        BY <1>5, <3>3
      <4>4. QED BY ZenonT(60), <1>2, <3>1, <4>1, <4>2, <4>3 DEF SettledDoc
    <3>4. CASE d = tgReq[r].doc
      <4>1. tgDoc[d] = NoTg /\ tgFts[d] = tgReq[r].text
        BY <1>2, <3>1, <3>4 DEF SettledDoc
      <4>2. \A c \in {"id", "chunk"} : tgVec'[<<d, c>>] = NoTg
        BY <1>5, <3>4
      <4>3. tgReq'[r].doc = d /\ tgReq'[r].pc \notin {"idle", "done"}
        BY <1>4, <3>4
      <4>4. \A q \in TgRequests : tgReq'[q].doc = d =>
              /\ tgReq'[q].pc \in {"enqueue", "index"} => tgDoc'[d] = tgReq'[q].text
              /\ tgReq'[q].pc \in {"unvector", "unindex"} => tgDoc'[d] = NoTg /\ tgFts'[d] = tgReq'[q].text
        BY <1>2, <1>4, <3>1, <3>2, <4>1 DEF SettledDoc
      <4>5. QED BY <4>2, <4>3, <4>4 DEF SettledDoc
    <3>5. QED BY <3>3, <3>4
  <2>2. QED BY <2>1 DEF DocsSettled
<1>9. SearchSees'
  <2>1. ASSUME NEW q \in TgRequests \ tgRaced', Searching(q)'
        PROVE  /\ tgReq'[q].event # "delete" => tgFts'[tgReq'[q].doc] = tgReq'[q].text
               /\ tgReq'[q].event = "delete" /\ Unraced(tgReq[q].doc)' =>
                    tgFts'[tgReq'[q].doc] \in {tgReq'[q].text, NoTg}
    <3>1. CASE q = r
      <4>1. Unraced(tgReq[r].doc) => tgFts[tgReq[r].doc] = tgReq[r].text
        BY <1>1, <1>2, <1>3 DEF DocsSettled, SettledDoc
      <4>2. Unraced(tgReq[q].doc)' => Unraced(tgReq[r].doc)
        BY <1>4, <3>1
      <4>3. tgReq'[q].event = "delete" /\ tgFts' = tgFts
        BY <1>2, <1>3, <1>4, <3>1
      <4>4. QED BY <1>4, <3>1, <4>1, <4>2, <4>3
    <3>2. CASE q # r
      <4>1. Searching(q) /\ q \notin tgRaced
        BY <1>2, <1>4, <2>1, <3>2 DEF Searching
      <4>2. Unraced(tgReq[q].doc)' => Unraced(tgReq[q].doc)
        BY <1>4
      <4>3. QED BY <1>1, <1>2, <1>4, <4>1, <4>2 DEF SearchSees
    <3>3. QED BY <3>1, <3>2
  <2>2. QED BY <2>1 DEF SearchSees
<1>10. QED BY <1>4, <1>6, <1>7, <1>8, <1>9 DEF TriggersInv

\* The text of a deleted document leaves the text index, perhaps under its goroutine's eyes.
LEMMA RemoveFromFtsKeeps ==
  ASSUME TriggersInv, NEW r \in TgRequests, RemoveFromFts(r)
  PROVE  TriggersInv'
<1>1. TriggersTyped /\ RequestShape /\ DocsSettled /\ SearchSees
  BY DEF TriggersInv
<1>2. /\ tgReq[r].pc = "unindex" /\ tgReq' = [tgReq EXCEPT ![r].pc = "done"]
      /\ tgFts' = [tgFts EXCEPT ![tgReq[r].doc] = NoTg]
      /\ UNCHANGED <<tgDoc, tgVec, tgJobs, tgEval, tgRule, tgHook, tgRaced, tgStale>>
  BY DEF RemoveFromFts, tgRules
<1>3. tgReq[r].doc \in TgDocs /\ tgReq[r].text \in TgTexts /\ tgReq[r].event = "delete" /\ UnderWay(r)
  BY <1>1, <1>2 DEF RequestShape, UnderWay
<1>4. /\ tgReq' \in [TgRequests -> RequestRecord] /\ tgEval' \in [TgRequests -> EvalRecord]
      /\ \A q \in TgRequests :
           /\ tgReq'[q].doc = tgReq[q].doc /\ tgReq'[q].text = tgReq[q].text
           /\ tgReq'[q].event = tgReq[q].event /\ (UnderWay(q)' => UnderWay(q))
      /\ \A q \in TgRequests : q # r => tgReq'[q] = tgReq[q] /\ tgEval'[q] = tgEval[q]
      /\ tgReq'[r].pc = "done" /\ \A d : Unraced(d)' <=> Unraced(d)
      /\ \A q \in TgRequests : Unraced(tgReq[q].doc)' => Unraced(tgReq[q].doc)
      /\ MeetingsMarked' /\ FiredForWhatWasWritten' /\ HybridOnly'
  BY <1>2, <1>3, RequestMoves
<1>5. /\ tgFts' \in [TgDocs -> TgTextsOrNone] /\ tgFts'[tgReq[r].doc] = NoTg
      /\ \A d \in TgDocs : d # tgReq[r].doc => tgFts'[d] = tgFts[d]
  BY <1>1, <1>2, <1>3 DEF TriggersTyped, TgTextsOrNone
<1>6. TriggersTyped'
  BY <1>1, <1>2, <1>4, <1>5 DEF TriggersTyped
<1>7. RequestShape'
  BY <1>1, <1>2, <1>4 DEF RequestShape
<1>8. DocsSettled'
  <2>1. ASSUME NEW d \in TgDocs, Unraced(d)' PROVE SettledDoc(d)'
    <3>1. SettledDoc(d) /\ Unraced(d)
      BY <1>1, <1>4, <2>1 DEF DocsSettled
    <3>2. \A q \in TgRequests : q = r \/ tgReq'[q] = tgReq[q]
      BY <1>4
    <3>3. CASE d # tgReq[r].doc
      <4>1. \A q \in TgRequests : tgReq[q].doc = d => tgReq'[q] = tgReq[q]
        BY <3>2, <3>3
      <4>2. \A q \in TgRequests : tgReq'[q].doc = d <=> tgReq[q].doc = d
        BY <1>4
      <4>3. QED BY <1>2, <1>5, <3>1, <3>3, <4>1, <4>2 DEF SettledDoc
    <3>4. CASE d = tgReq[r].doc
      <4>1. tgDoc[d] = NoTg
        BY <1>2, <3>1, <3>4 DEF SettledDoc
      <4>2. \A q \in TgRequests : q # r /\ tgReq[q].doc = d => tgReq[q].pc \in {"idle", "done"}
        BY <1>3, <3>1, <3>4, NobodyElse DEF UnderWay
      <4>3. \A q \in TgRequests : tgReq'[q].doc = d => tgReq'[q].pc \in {"idle", "done"}
        BY <1>4, <4>2
      <4>4. tgFts'[d] = tgDoc'[d] /\ tgDoc'[d] = tgDoc[d] /\ tgVec' = tgVec /\ tgStale' = tgStale
        BY <1>2, <1>5, <3>4, <4>1
      <4>5. \A q \in TgRequests : tgReq[q].doc = d => tgReq[q].pc # "unvector"
        BY <1>2, <4>2
      <4>6. d \notin tgStale => \A c \in {"id", "chunk"} : tgVec[<<d, c>>] # NoTg => tgDoc[d] # NoTg
        BY <3>1, <4>5 DEF SettledDoc
      <4>7. QED BY <4>3, <4>4, <4>6 DEF SettledDoc
    <3>5. QED BY <3>3, <3>4
  <2>2. QED BY <2>1 DEF DocsSettled
<1>9. SearchSees'
  <2>1. ASSUME NEW q \in TgRequests \ tgRaced', Searching(q)'
        PROVE  /\ tgReq'[q].event # "delete" => tgFts'[tgReq'[q].doc] = tgReq'[q].text
               /\ tgReq'[q].event = "delete" /\ Unraced(tgReq[q].doc)' =>
                    tgFts'[tgReq'[q].doc] \in {tgReq'[q].text, NoTg}
    <3>1. CASE q = r
      BY <1>3, <1>4, <1>5, <3>1
    <3>2. CASE q # r
      <4>1. Searching(q) /\ UnderWay(q) /\ q \notin tgRaced
        BY <1>2, <2>1 DEF Searching, UnderWay
      <4>2. tgReq[q].doc # tgReq[r].doc
        BY <1>3, <3>2, <4>1, NobodyElse
      <4>3. tgReq[q].doc \in TgDocs
        BY <1>1, <4>1 DEF RequestShape, Searching
      <4>4. tgFts'[tgReq'[q].doc] = tgFts[tgReq[q].doc]
        BY <1>4, <1>5, <4>2, <4>3
      <4>5. Unraced(tgReq[q].doc)' => Unraced(tgReq[q].doc)
        BY <1>4
      <4>6. QED BY <1>1, <1>4, <4>1, <4>4, <4>5 DEF SearchSees
    <3>3. QED BY <3>1, <3>2
  <2>2. QED BY <2>1 DEF SearchSees
<1>10. QED BY <1>4, <1>6, <1>7, <1>8, <1>9 DEF TriggersInv

\* A vector that comes late marks its document.
LEMMA PutVectorKeeps ==
  ASSUME TriggersInv, NEW put \in tgJobs, PutVector(put)
  PROVE  TriggersInv'
<1>1. TriggersTyped /\ RequestShape /\ MeetingsMarked /\ DocsSettled /\ SearchSees /\ FiredForWhatWasWritten
      /\ HybridOnly
  BY DEF TriggersInv
<1>2. PICK d0 \in TgDocs, c0 \in {"id", "chunk"}, t \in TgTexts : put = <<<<d0, c0>>, t>>
  BY <1>1 DEF TriggersTyped, VecKeys
<1>3. PICK key : key = <<d0, c0>>
  OBVIOUS
<1>4. put[1] = key /\ put[2] = t /\ key[1] = d0 /\ key \in VecKeys /\ t # NoTg
  BY <1>2, <1>3, TriggersAssumption DEF VecKeys
<1>5. /\ tgJobs' = tgJobs \ {put} /\ tgVec' = [tgVec EXCEPT ![key] = t]
      /\ tgStale' = IF tgDoc[d0] = t THEN tgStale ELSE tgStale \cup {d0}
      /\ UNCHANGED <<tgDoc, tgFts, tgReq, tgEval, tgRule, tgHook, tgRaced>>
  BY <1>4 DEF PutVector, tgRules
<1>6. tgVec' \in [VecKeys -> TgTextsOrNone]
  BY <1>1, <1>4, <1>5 DEF TriggersTyped, TgTextsOrNone
<1>7. TriggersTyped'
  BY <1>1, <1>5, <1>6 DEF TriggersTyped
<1>8. RequestShape' /\ MeetingsMarked' /\ SearchSees'
  BY <1>1, <1>5 DEF RequestShape, MeetingsMarked, SearchSees, UnderWay, Searching, Unraced
<1>9. FiredForWhatWasWritten' /\ HybridOnly'
  BY <1>1, <1>5 DEF FiredForWhatWasWritten, HybridOnly
<1>10. \A d \in TgDocs, c \in {"id", "chunk"} : <<d, c>> # key => tgVec'[<<d, c>>] = tgVec[<<d, c>>]
  BY <1>1, <1>5 DEF TriggersTyped, VecKeys
<1>11. DocsSettled'
  <2>1. ASSUME NEW d \in TgDocs, Unraced(d)' PROVE SettledDoc(d)'
    <3>1. SettledDoc(d)
      BY <1>1, <1>5, <2>1 DEF DocsSettled, Unraced
    <3>2. ASSUME d \notin tgStale', NEW c \in {"id", "chunk"}, tgVec'[<<d, c>>] # NoTg,
                 \A q \in TgRequests : tgReq[q].doc = d => tgReq[q].pc # "unvector"
          PROVE  tgDoc[d] # NoTg
      <4>1. CASE <<d, c>> = key
        <5>1. d = d0
          BY <1>3, <4>1
        <5>2. tgDoc[d] = t
          BY <1>5, <3>2, <5>1
        <5>3. QED BY <1>4, <5>2
      <4>2. CASE <<d, c>> # key
        <5>1. tgVec[<<d, c>>] # NoTg /\ d \notin tgStale
          BY <1>5, <1>10, <3>2, <4>2
        <5>2. QED BY <3>1, <3>2, <5>1 DEF SettledDoc
      <4>3. QED BY <4>1, <4>2
    <3>3. QED BY <1>5, <3>1, <3>2 DEF SettledDoc
  <2>2. QED BY <2>1 DEF DocsSettled
<1>12. QED BY <1>7, <1>8, <1>9, <1>11 DEF TriggersInv

\* The goroutine goes on: nothing it relies on changes, so what it concludes is all there is to show.
LEMMA EvalMoves ==
  ASSUME TriggersInv, NEW r \in TgRequests, NEW new \in EvalRecord, tgEval' = [tgEval EXCEPT ![r] = new],
         tgEval[r].pc # "none", new.pc \in {"start", "conditions", "vectors"} => Searching(r),
         new.pc = "vectors" => new.rule.search = "hybrid",
         UNCHANGED <<tgDoc, tgIndexes, tgReq, tgRules, tgRaced, tgStale>>,
         r \notin tgRaced => FiredFor(r)'
  PROVE  TriggersInv'
<1>1. TriggersTyped /\ RequestShape /\ MeetingsMarked /\ DocsSettled /\ SearchSees /\ FiredForWhatWasWritten
  BY DEF TriggersInv
<1>2. UNCHANGED <<tgDoc, tgFts, tgVec, tgJobs, tgReq, tgRule, tgHook, tgRaced, tgStale>>
  BY DEF tgIndexes, tgRules
<1>3. /\ tgEval' \in [TgRequests -> EvalRecord] /\ tgEval'[r] = new
      /\ \A q \in TgRequests : q # r => tgEval'[q] = tgEval[q]
  BY <1>1 DEF TriggersTyped
<1>4. TriggersTyped'
  BY <1>1, <1>2, <1>3 DEF TriggersTyped
<1>5. RequestShape'
  BY <1>1, <1>2, <1>3 DEF RequestShape
<1>6. \A q \in TgRequests : (Searching(q)' => Searching(q)) /\ (UnderWay(q)' => UnderWay(q))
  BY <1>2, <1>3 DEF Searching, UnderWay
<1>7. MeetingsMarked'
  BY <1>1, <1>2, <1>6 DEF MeetingsMarked
<1>8. DocsSettled'
  BY <1>1, <1>2 DEF DocsSettled, SettledDoc, Unraced
<1>9. SearchSees'
  BY <1>1, <1>2, <1>6 DEF SearchSees, Unraced
<1>10. FiredForWhatWasWritten'
  <2>1. ASSUME NEW q \in TgRequests \ tgRaced' PROVE FiredFor(q)'
    <3>1. CASE q = r
      BY <1>2, <2>1, <3>1
    <3>2. CASE q # r
      <4>1. FiredFor(q) /\ tgEval'[q] = tgEval[q]
        BY <1>1, <1>2, <1>3, <2>1, <3>2, FiredForAll
      <4>2. QED BY <1>2, <4>1 DEF FiredFor
    <3>3. QED BY <3>1, <3>2
  <2>2. QED BY <2>1 DEF FiredForWhatWasWritten, FiredFor
<1>11. HybridOnly'
  BY <1>3 DEF TriggersInv, HybridOnly
<1>12. QED BY <1>4, <1>5, <1>7, <1>8, <1>9, <1>10, <1>11 DEF TriggersInv

\* The goroutine takes a copy of the trigger.
LEMMA EvaluateTriggersKeeps ==
  ASSUME TriggersInv, NEW r \in TgRequests, EvaluateTriggers(r)
  PROVE  TriggersInv'
<1>1. tgEval \in [TgRequests -> EvalRecord] /\ tgEval[r] \in EvalRecord /\ tgRule.rule \in TgRules
  BY DEF TriggersInv, TriggersTyped
<1>2. PICK pc : pc = IF tgRule.on /\ tgReq[r].event \in WatchedEvents(tgRule.rule) THEN "conditions" ELSE "none"
  OBVIOUS
<1>3. PICK new : new = [tgEval[r] EXCEPT !.rule = tgRule.rule, !.pc = pc]
  OBVIOUS
<1>4. tgEval[r].pc = "start" /\ UNCHANGED <<tgDoc, tgIndexes, tgReq, tgRules, tgRaced, tgStale>>
  BY DEF EvaluateTriggers
<1>5. tgEval' = [tgEval EXCEPT ![r] = new]
  BY <1>1, <1>2, <1>3 DEF EvaluateTriggers
<1>6. new \in EvalRecord /\ new.pc \in {"conditions", "none"}
  BY <1>1, <1>2, <1>3 DEF EvalRecord, EvalPcs
<1>7. tgEval'[r] = new
  BY <1>1, <1>5
<1>8. FiredFor(r)'
  BY <1>6, <1>7 DEF FiredFor
<1>9. QED BY <1>4, <1>5, <1>6, <1>8, EvalMoves DEF Searching

\* The end of an evaluation.  It is enough that what was found is what there was to be found.
LEMMA ConcludeKeeps ==
  ASSUME TriggersInv, NEW r \in TgRequests, tgEval[r].pc \in {"conditions", "vectors"},
         NEW found \in BOOLEAN, NEW crowded \in BOOLEAN, Conclude(r, found, crowded),
         tgEval[r].rule.search = "fts" /\ r \notin tgRaced =>
           /\ found => Reaches(tgEval[r].rule, tgReq[r].text) \/
                         (tgReq[r].event = "delete" /\ \E q \in tgRaced : tgReq[q].doc = tgReq[r].doc)
           /\ ~found => ~Reaches(tgEval[r].rule, tgReq[r].text) \/ crowded \/ tgReq[r].event = "delete"
  PROVE  TriggersInv'
<1>1. tgEval \in [TgRequests -> EvalRecord] /\ tgEval[r] \in EvalRecord
  BY DEF TriggersInv, TriggersTyped
<1>2. PICK rule : rule = tgEval[r].rule
  OBVIOUS
<1>3. PICK tone : tone = tgReq[r].text.tone
  OBVIOUS
<1>4. PICK new : new = [pc |-> IF Matched(rule, found, tone) THEN "matched" ELSE "unmatched", rule |-> rule,
                        fts |-> <<>>, crowded |-> crowded]
  OBVIOUS
<1>5. UNCHANGED <<tgDoc, tgIndexes, tgReq, tgRules, tgRaced, tgStale>>
  BY DEF Conclude
<1>6. tgEval' = [tgEval EXCEPT ![r] = new]
  <2>1. PICK none : none = NoEval(rule)
    OBVIOUS
  <2>2. PICK pc : pc = IF Matched(rule, found, tone) THEN "matched" ELSE "unmatched"
    OBVIOUS
  <2>3. PICK concluded : concluded = [none EXCEPT !.pc = pc, !.crowded = crowded]
    OBVIOUS
  <2>4. tgEval' = [tgEval EXCEPT ![r] = concluded]
    BY <1>2, <1>3, <2>1, <2>2, <2>3 DEF Conclude
  <2>5. none = [pc |-> "none", rule |-> rule, fts |-> <<>>, crowded |-> FALSE]
    BY <2>1 DEF NoEval
  <2>6. concluded = [pc |-> pc, rule |-> rule, fts |-> <<>>, crowded |-> crowded]
    BY <2>3, <2>5
  <2>7. QED BY <1>4, <2>2, <2>4, <2>6
<1>7. new \in EvalRecord /\ new.rule = rule /\ new.crowded = crowded
  BY <1>1, <1>2, <1>4, EmptyFtsList DEF EvalRecord, EvalPcs
<1>8. new.pc = IF Matched(rule, found, tone) THEN "matched" ELSE "unmatched"
  BY <1>4
<1>9. tgEval'[r] = new
  BY <1>1, <1>6
<1>10. ASSUME r \notin tgRaced PROVE FiredFor(r)'
  <2>1. PICK due : due = Matched(rule, Reaches(rule, tgReq[r].text), tone)
    OBVIOUS
  <2>2. CASE rule.search = "none"
    <3>1. Matched(rule, found, tone) <=> Matched(rule, Reaches(rule, tgReq[r].text), tone)
      BY <2>2, MatchedWithoutSearch
    <3>2. QED BY <1>3, <1>5, <1>7, <1>8, <1>9, <3>1 DEF FiredFor, tgRules
  <2>3. CASE rule.search = "fts"
    <3>1. PICK reaches \in BOOLEAN : reaches = Reaches(rule, tgReq[r].text)
      BY DEF Reaches
    <3>2. /\ found => reaches \/ (tgReq[r].event = "delete" /\ \E q \in tgRaced : tgReq[q].doc = tgReq[r].doc)
          /\ ~found => ~reaches \/ crowded \/ tgReq[r].event = "delete"
      BY <1>2, <1>10, <2>3, <3>1
    <3>3. (found => reaches) /\ Matched(rule, found, tone) => Matched(rule, reaches, tone)
      BY MatchedMonotone
    <3>4. (reaches => found) /\ Matched(rule, reaches, tone) => Matched(rule, found, tone)
      BY MatchedMonotone
    <3>5. Matched(rule, found, tone) =>
            \/ Matched(rule, reaches, tone)
            \/ tgReq[r].event = "delete" /\ \E q \in tgRaced : tgReq[q].doc = tgReq[r].doc
      BY <3>2, <3>3
    <3>6. ~Matched(rule, found, tone) => ~Matched(rule, reaches, tone) \/ crowded \/ tgReq[r].event = "delete"
      BY <3>2, <3>4
    <3>7. QED BY <1>3, <1>5, <1>7, <1>8, <1>9, <3>1, <3>5, <3>6 DEF FiredFor
  <2>4. CASE rule.search \notin {"none", "fts"}
    BY <1>7, <1>9, <2>4 DEF FiredFor
  <2>5. QED BY <2>2, <2>3, <2>4
<1>11. new.pc \notin {"start", "conditions", "vectors"}
  BY <1>8
<1>12. QED BY <1>5, <1>6, <1>7, <1>10, <1>11, EvalMoves

\* A trigger without a search.
LEMMA EvalWithoutSearchKeeps ==
  ASSUME TriggersInv, NEW r \in TgRequests, EvalWithoutSearch(r)
  PROVE  TriggersInv'
<1>1. tgEval[r].pc = "conditions" /\ tgEval[r].rule.search = "none" /\ Conclude(r, FALSE, FALSE)
  BY DEF EvalWithoutSearch, Evaluates
<1>2. PICK no \in BOOLEAN : no = FALSE
  OBVIOUS
<1>3. tgEval[r].rule.search # "fts" /\ Conclude(r, no, no)
  BY <1>1, <1>2
<1>4. QED BY <1>1, <1>3, ConcludeKeeps

\* A trigger on text looks at the index as it is by then.
LEMMA EvalFTSKeeps ==
  ASSUME TriggersInv, NEW r \in TgRequests, EvalFTS(r)
  PROVE  TriggersInv'
<1>1. TriggersTyped /\ RequestShape /\ SearchSees
  BY DEF TriggersInv
<1>2. PICK d : d = tgReq[r].doc
  OBVIOUS
<1>3. PICK rule : rule = tgEval[r].rule
  OBVIOUS
<1>4. tgEval[r].pc = "conditions" /\ rule.search = "fts"
  BY <1>3 DEF EvalFTS, Evaluates
<1>5. PICK top \in FtsSearch(TgTopK) :
        Conclude(r, d \in top /\ tgFts[d].bm25 >= rule.threshold, d \notin top /\ Cardinality(top) = TgTopK)
  BY <1>2, <1>3 DEF EvalFTS
<1>6. PICK found \in BOOLEAN : found <=> (d \in top /\ tgFts[d].bm25 >= rule.threshold)
  OBVIOUS
<1>7. PICK crowded \in BOOLEAN : crowded <=> (d \notin top /\ Cardinality(top) = TgTopK)
  OBVIOUS
<1>8. Conclude(r, found, crowded)
  <2>1. (d \in top /\ tgFts[d].bm25 >= rule.threshold) \in BOOLEAN
        /\ (d \notin top /\ Cardinality(top) = TgTopK) \in BOOLEAN
    OBVIOUS
  <2>2. found = (d \in top /\ tgFts[d].bm25 >= rule.threshold)
        /\ crowded = (d \notin top /\ Cardinality(top) = TgTopK)
    BY <1>6, <1>7, <2>1
  <2>3. QED BY <1>5, <2>2
<1>9. d \in TgDocs /\ tgReq[r].text \in TgTexts /\ Searching(r)
  BY <1>1, <1>2, <1>4 DEF RequestShape, Searching
<1>10. top \subseteq FtsHits /\ (d \in FtsHits \ top => Cardinality(top) = TgTopK)
  <2>1. FtsHits \in SUBSET TgDocs /\ IsFiniteSet(TgDocs) /\ TgTopK \in Nat
    BY TriggersAssumption DEF FtsHits
  <2>2. IsFiniteSet(FtsHits)
    BY <2>1, FS_Subset
  <2>3. PICK ahead : ahead = {p \in FtsHits \X FtsHits : tgFts[p[1]].bm25 > tgFts[p[2]].bm25}
    OBVIOUS
  <2>4. top \in Tops(FtsHits, TgTopK, ahead)
    BY <2>3 DEF FtsSearch
  <2>5. QED BY <2>1, <2>2, <2>4, TopsFacts
<1>11. NoTg \notin TgTexts
  BY TriggersAssumption
<1>12. ASSUME r \notin tgRaced, found, ~Reaches(rule, tgReq[r].text)
       PROVE  tgReq[r].event = "delete" /\ \E q \in tgRaced : tgReq[q].doc = tgReq[r].doc
  <2>1. d \in FtsHits /\ tgFts[d].bm25 >= rule.threshold
    BY <1>6, <1>10, <1>12
  <2>2. tgFts[d] # NoTg /\ tgFts[d].bm25 > 0
    BY <2>1 DEF FtsHits
  <2>3. tgFts[d] # tgReq[r].text
    BY <1>12, <2>1, <2>2 DEF Reaches
  <2>4. tgReq[r].event = "delete" /\ ~Unraced(d)
    BY <1>1, <1>2, <1>9, <1>12, <2>2, <2>3 DEF SearchSees
  <2>5. QED BY <1>2, <2>4 DEF Unraced
<1>13. ASSUME r \notin tgRaced, ~found, Reaches(rule, tgReq[r].text), tgReq[r].event # "delete"
       PROVE  crowded
  <2>1. tgFts[d] = tgReq[r].text
    BY <1>1, <1>2, <1>9, <1>13 DEF SearchSees
  <2>2. d \in FtsHits /\ tgFts[d].bm25 >= rule.threshold
    BY <1>9, <1>11, <1>13, <2>1 DEF FtsHits, Reaches
  <2>3. d \notin top
    BY <1>6, <1>13, <2>2
  <2>4. QED BY <1>7, <1>10, <2>2, <2>3
<1>14. QED BY <1>3, <1>4, <1>8, <1>12, <1>13, ConcludeKeeps

\* A trigger on vectors.
LEMMA EvalVectorKeeps ==
  ASSUME TriggersInv, NEW r \in TgRequests, NEW embeds \in BOOLEAN, EvalVector(r, embeds)
  PROVE  TriggersInv'
<1>1. tgEval[r].pc = "conditions" /\ tgEval[r].rule.search = "vector"
  BY DEF EvalVector, Evaluates
<1>2. PICK top : Conclude(r, embeds /\ <<tgReq[r].doc, "id">> \in top, FALSE)
  BY DEF EvalVector
<1>3. PICK found \in BOOLEAN : found = (embeds /\ <<tgReq[r].doc, "id">> \in top)
  OBVIOUS
<1>4. PICK no \in BOOLEAN : no = FALSE
  OBVIOUS
<1>5. Conclude(r, found, no) /\ tgEval[r].rule.search # "fts"
  BY <1>1, <1>2, <1>3, <1>4
<1>6. QED BY <1>1, <1>5, ConcludeKeeps

\* The hybrid search keeps what the text index gave it.
LEMMA EvalHybridFTSKeeps ==
  ASSUME TriggersInv, NEW r \in TgRequests, EvalHybridFTS(r)
  PROVE  TriggersInv'
<1>1. TriggersTyped
  BY DEF TriggersInv
<1>2. tgEval[r].pc = "conditions" /\ tgEval[r] \in EvalRecord /\ tgEval[r].rule.search = "hybrid"
      /\ UNCHANGED <<tgDoc, tgIndexes, tgReq, tgRules, tgRaced, tgStale>>
  BY <1>1 DEF EvalHybridFTS, Evaluates, TriggersTyped
<1>3. PICK top \in FtsSearch(3 * TgTopK) :
        tgEval' = [tgEval EXCEPT ![r].pc = "vectors", ![r].fts = [d \in top |-> tgFts[d].bm25]]
  BY DEF EvalHybridFTS, TextScores
<1>4. PICK list : list = [d \in top |-> tgFts[d].bm25]
  OBVIOUS
<1>5. top \subseteq FtsHits
  <2>1. PICK k \in Nat : k = 3 * TgTopK
    BY TriggersAssumption
  <2>2. PICK ahead : ahead = {p \in FtsHits \X FtsHits : tgFts[p[1]].bm25 > tgFts[p[2]].bm25}
    OBVIOUS
  <2>3. top \in Tops(FtsHits, k, ahead)
    BY <2>1, <2>2 DEF FtsSearch
  <2>4. QED BY <2>3, TopsFacts
<1>6. list \in FtsLists
  <2>1. \A d \in top : tgFts[d] \in TgTexts /\ tgFts[d].bm25 \in Nat
    BY <1>1, <1>5, TriggersAssumption DEF FtsHits, TriggersTyped, TgTextsOrNone
  <2>2. top \in SUBSET TgDocs
    BY <1>5 DEF FtsHits
  <2>3. list \in [top -> Nat]
    BY <1>4, <2>1
  <2>4. QED BY <2>2, <2>3 DEF FtsLists
<1>7. PICK new : new = [tgEval[r] EXCEPT !.pc = "vectors", !.fts = list]
  OBVIOUS
<1>8. tgEval' = [tgEval EXCEPT ![r] = new]
  BY <1>1, <1>3, <1>4, <1>7 DEF TriggersTyped
<1>9. new \in EvalRecord /\ new.pc = "vectors" /\ new.rule = tgEval[r].rule
  BY <1>2, <1>6, <1>7 DEF EvalRecord, EvalPcs
<1>10. FiredFor(r)'
  <2>1. tgEval'[r] = new
    BY <1>1, <1>8 DEF TriggersTyped
  <2>2. QED BY <1>9, <2>1 DEF FiredFor
<1>11. QED BY <1>2, <1>8, <1>9, <1>10, EvalMoves DEF Searching

\* The hybrid search ends.
LEMMA EvalHybridKeeps ==
  ASSUME TriggersInv, NEW r \in TgRequests, NEW embeds \in BOOLEAN, EvalHybrid(r, embeds)
  PROVE  TriggersInv'
<1>1. tgEval[r].pc = "vectors" /\ tgEval[r].rule.search # "fts"
  BY DEF EvalHybrid, TriggersInv, HybridOnly
<1>2. PICK S : Conclude(r, tgReq[r].doc \in S, FALSE)
  BY DEF EvalHybrid
<1>3. PICK found \in BOOLEAN : found <=> tgReq[r].doc \in S
  OBVIOUS
<1>4. PICK no \in BOOLEAN : no = FALSE
  OBVIOUS
<1>5. Conclude(r, found, no)
  <2>1. (tgReq[r].doc \in S) \in BOOLEAN
    OBVIOUS
  <2>2. found = (tgReq[r].doc \in S)
    BY <1>3, <2>1
  <2>3. QED BY <1>2, <1>4, <2>2
<1>6. QED BY <1>1, <1>5, ConcludeKeeps

\* The webhook is looked up, and either called or not.
LEMMA ResolveWebhookKeeps ==
  ASSUME TriggersInv, NEW r \in TgRequests, ResolveWebhook(r)
  PROVE  TriggersInv'
<1>1. tgEval \in [TgRequests -> EvalRecord] /\ tgEval[r] \in EvalRecord
  BY DEF TriggersInv, TriggersTyped
<1>2. PICK pc : pc = IF tgHook THEN "fired" ELSE "skipped"
  OBVIOUS
<1>3. PICK new : new = [tgEval[r] EXCEPT !.pc = pc]
  OBVIOUS
<1>4. tgEval[r].pc = "matched" /\ UNCHANGED <<tgDoc, tgIndexes, tgReq, tgRules, tgRaced, tgStale>>
  BY DEF ResolveWebhook
<1>5. tgEval' = [tgEval EXCEPT ![r] = new]
  BY <1>1, <1>2, <1>3 DEF ResolveWebhook
<1>6. new \in EvalRecord /\ new.pc = pc /\ pc \in {"fired", "skipped"} /\ new.rule = tgEval[r].rule
  BY <1>1, <1>2, <1>3 DEF EvalRecord, EvalPcs
<1>7. tgEval'[r] = new
  BY <1>1, <1>5
<1>8. ASSUME r \notin tgRaced PROVE FiredFor(r)'
  <2>1. FiredFor(r)
    BY <1>8, FiredForAll DEF TriggersInv
  <2>2. QED BY <1>4, <1>6, <1>7, <2>1 DEF FiredFor
<1>9. QED BY <1>4, <1>5, <1>6, <1>8, EvalMoves

\* What administrators do touches neither documents nor indexes.
LEMMA EditKeeps ==
  ASSUME TriggersInv, SwitchTrigger \/ SwitchWebhook \/ \E d \in TgDocs : ReindexById(d)
  PROVE  TriggersInv'
<1>1. TriggersTyped
  BY DEF TriggersInv
<1>2. UNCHANGED <<tgDoc, tgFts, tgVec, tgReq, tgEval, tgRaced, tgStale>>
  BY DEF SwitchTrigger, SwitchWebhook, ReindexById, Edit
<1>3. tgRule' \in [rule : TgRules, on : BOOLEAN] /\ tgHook' \in BOOLEAN /\ tgJobs' \subseteq VecKeys \X TgTexts
  <2>1. CASE SwitchTrigger
    <3>1. tgRule' = [tgRule EXCEPT !.on = ~tgRule.on] /\ UNCHANGED <<tgHook, tgJobs>>
      BY <2>1 DEF SwitchTrigger
    <3>2. PICK off \in BOOLEAN : off = ~tgRule.on
      BY <1>1 DEF TriggersTyped
    <3>3. tgRule' = [tgRule EXCEPT !.on = off]
      BY <3>1, <3>2
    <3>4. QED BY <1>1, <3>1, <3>3 DEF TriggersTyped
  <2>2. CASE SwitchWebhook
    BY <1>1, <2>2 DEF SwitchWebhook, TriggersTyped
  <2>3. ASSUME NEW d \in TgDocs, ReindexById(d)
        PROVE  tgRule' \in [rule : TgRules, on : BOOLEAN] /\ tgHook' \in BOOLEAN
               /\ tgJobs' \subseteq VecKeys \X TgTexts
    <3>1. tgDoc[d] \in TgTexts /\ <<d, "id">> \in VecKeys
      BY <1>1, <2>3 DEF ReindexById, TriggersTyped, TgTextsOrNone, VecKeys
    <3>2. QED BY <1>1, <2>3, <3>1 DEF ReindexById, TriggersTyped
  <2>4. QED BY <2>1, <2>2, <2>3
<1>4. TriggersTyped'
  BY <1>1, <1>2, <1>3 DEF TriggersTyped
<1>5. HybridOnly' /\ RequestShape' /\ MeetingsMarked' /\ SearchSees'
  BY <1>2 DEF TriggersInv, HybridOnly, RequestShape, MeetingsMarked, SearchSees, UnderWay, Searching, Unraced
<1>6. DocsSettled'
  BY <1>2 DEF TriggersInv, DocsSettled, SettledDoc, Unraced
<1>7. FiredForWhatWasWritten'
  BY <1>2 DEF TriggersInv, FiredForWhatWasWritten
<1>8. QED BY <1>4, <1>5, <1>6, <1>7 DEF TriggersInv

\* Every step of a request, of the embedding worker and of an evaluation keeps the invariant.
LEMMA TriggersStep ==
  ASSUME TriggersInv, [TriggersNext]_tgVars
  PROVE  TriggersInv'
<1>1. CASE UNCHANGED tgVars
  <2>1. UNCHANGED <<tgRule, tgHook, tgDoc, tgFts, tgVec, tgJobs, tgReq, tgEval, tgRaced, tgStale>>
    BY <1>1 DEF tgVars
  <2>2. TriggersTyped' /\ HybridOnly' /\ RequestShape' /\ MeetingsMarked' /\ SearchSees'
    BY <2>1 DEF TriggersInv, TriggersTyped, HybridOnly, RequestShape, MeetingsMarked, SearchSees, UnderWay,
                Searching, Unraced
  <2>3. DocsSettled'
    BY <2>1 DEF TriggersInv, DocsSettled, SettledDoc, Unraced
  <2>4. FiredForWhatWasWritten'
    BY <2>1 DEF TriggersInv, FiredForWhatWasWritten
  <2>5. QED BY <2>2, <2>3, <2>4 DEF TriggersInv
<1>2. ASSUME NEW r \in TgRequests, NEW d \in TgDocs, CommitDelete(r, d) PROVE TriggersInv'
  <2>1. PICK none \in TgTextsOrNone : none = NoTg
    BY DEF TgTextsOrNone
  <2>2. PICK event : event = "delete"
    OBVIOUS
  <2>3. PICK pc : pc = "unvector"
    OBVIOUS
  <2>4. tgDoc[d] # NoTg /\ Commits(r, d, none, event, pc)
    BY <1>2, <2>1, <2>2, <2>3 DEF CommitDelete
  <2>5. QED BY <2>1, <2>2, <2>3, <2>4, CommitKeeps
<1>3. ASSUME NEW r \in TgRequests, NEW d \in TgDocs, NEW text \in TgTexts, CommitWrite(r, d, text)
      PROVE  TriggersInv'
  <2>1. text \in TgTextsOrNone
    BY DEF TgTextsOrNone
  <2>2. PICK event : event = IF tgDoc[d] = NoTg THEN "insert" ELSE "update"
    OBVIOUS
  <2>3. PICK pc : pc = "enqueue"
    OBVIOUS
  <2>4. Commits(r, d, text, event, pc) /\ event \in {"insert", "update"}
    BY <1>3, <2>2, <2>3 DEF CommitWrite
  <2>5. QED BY <2>1, <2>3, <2>4, CommitKeeps
<1>4. ASSUME NEW r \in TgRequests,
             \/ QueueEmbedding(r) \/ IndexThenEvaluate(r) \/ RemoveVectors(r) \/ RemoveFromFts(r)
             \/ EvaluateTriggers(r) \/ EvalWithoutSearch(r) \/ EvalFTS(r) \/ EvalHybridFTS(r) \/ ResolveWebhook(r)
      PROVE  TriggersInv'
  BY <1>4, QueueEmbeddingKeeps, IndexThenEvaluateKeeps, RemoveVectorsKeeps, RemoveFromFtsKeeps,
     EvaluateTriggersKeeps, EvalWithoutSearchKeeps, EvalFTSKeeps, EvalHybridFTSKeeps, ResolveWebhookKeeps
<1>5. ASSUME NEW r \in TgRequests, NEW embeds \in BOOLEAN, EvalVector(r, embeds) \/ EvalHybrid(r, embeds)
      PROVE  TriggersInv'
  BY <1>5, EvalVectorKeeps, EvalHybridKeeps
<1>6. ASSUME NEW put \in tgJobs, PutVector(put) PROVE TriggersInv'
  BY <1>6, PutVectorKeeps
<1>7. ASSUME SwitchTrigger \/ SwitchWebhook \/ \E d \in TgDocs : ReindexById(d) PROVE TriggersInv'
  BY <1>7, EditKeeps
<1>8. QED BY <1>1, <1>2, <1>3, <1>4, <1>5, <1>6, <1>7 DEF TriggersNext

-----------------------------------------------------------------------------
(* Dry runs. *)

\* One of the results of a hybrid search.
LEMMA OneOfHybrid ==
  ASSUME NEW tops, NEW vecs, NEW rule, NEW S,
         S \in HybridRuns(rule, tops, vecs)
  PROVE  \E top \in tops, vec \in vecs : S \in HybridMatches(rule, TextScores(top), vec)
BY DEF HybridRuns

\* A hybrid result names documents of the two lists it merges.
LEMMA HybridNames ==
  ASSUME NEW rule, NEW fts, NEW vec, NEW S \in HybridMatches(rule, fts, vec)
  PROVE  S \subseteq DOMAIN fts \cup DOMAIN vec
<1>1. TgTopK \in Nat
  BY TriggersAssumption
<1>2. PICK half : half = AlphaParts \div 2
  OBVIOUS
<1>3. PICK top \in MergeAlpha(fts, vec, half, TgTopK) : S \subseteq top
  BY <1>2 DEF HybridMatches
<1>4. PICK docs : docs = DOMAIN fts \cup DOMAIN vec
  OBVIOUS
<1>5. PICK ahead : top \in Tops(docs, TgTopK, ahead)
  BY <1>3, <1>4 DEF MergeAlpha
<1>6. top \subseteq docs
  BY <1>1, <1>5, TopsFacts
<1>7. QED BY <1>3, <1>4, <1>6

\* The vector side of a hybrid search names documents that have a vector.
LEMMA VectorNames ==
  ASSUME NEW vec \in HybridVectors(TRUE), NEW d \in DOMAIN vec
  PROVE  \E k \in VecKeys : k[1] = d /\ tgVec[k] # NoTg
<1>1. PICK k \in Nat : k = 3 * TgTopK
  BY TriggersAssumption
<1>2. PICK scores : scores = [key \in Similar(0) |-> tgVec[key].sim]
  OBVIOUS
<1>3. vec \in SearchChunks(scores, k)
  BY <1>1, <1>2 DEF HybridVectors
<1>4. PICK ahead : ahead = {p \in (DOMAIN scores) \X (DOMAIN scores) : scores[p[1]] > scores[p[2]]}
  OBVIOUS
<1>5. PICK hits \in Tops(DOMAIN scores, k, ahead) : vec = [e \in {c[1] : c \in hits} |-> BestScore(hits, scores, e)]
  BY <1>3, <1>4 DEF SearchChunks
<1>6. hits \subseteq DOMAIN scores /\ DOMAIN scores = Similar(0)
  BY <1>1, <1>2, TopsFacts
<1>7. PICK c \in hits : c[1] = d
  BY <1>5
<1>8. QED BY <1>6, <1>7 DEF Similar

\* A document that a search of the indexes names is stored, with the text the index has.
LEMMA NamedIsStored ==
  ASSUME TriggersInv, \A r \in TgRequests : ~UnderWay(r), NEW d \in TgDocs, Unraced(d)
  PROVE  /\ tgFts[d] = tgDoc[d]
         /\ d \notin tgStale => \A c \in {"id", "chunk"} : tgVec[<<d, c>>] # NoTg => tgDoc[d] # NoTg
<1>1. SettledDoc(d)
  BY DEF TriggersInv, DocsSettled
<1>2. \A r \in TgRequests : tgReq[r].pc \in {"idle", "done"}
  BY DEF UnderWay
<1>3. QED BY <1>1, <1>2 DEF SettledDoc

\* What a dry run lists while no request is under way is stored.
LEMMA DryRunSound == TriggersInv => DryRunNamesStored
<1> SUFFICES ASSUME TriggersInv, \A r \in TgRequests : ~UnderWay(r),
                    NEW matches \in RunTrigger(tgRule.rule, TRUE), NEW m \in matches,
                    DocNamed(m) \notin tgStale, \A r \in tgRaced : tgReq[r].doc # DocNamed(m)
             PROVE  /\ tgDoc[DocNamed(m)] # NoTg
                    /\ tgRule.rule.search = "fts" => Reaches(tgRule.rule, tgDoc[DocNamed(m)])
  BY DEF DryRunNamesStored
<1>1. PICK rule : rule = tgRule.rule
  OBVIOUS
<1>2. PICK d : d = DocNamed(m)
  OBVIOUS
<1>3. Unraced(d) /\ d \notin tgStale
  BY <1>2 DEF Unraced
<1>4. \A limit \in Nat : \A top \in FtsSearch(limit) : top \subseteq FtsHits
  <2>1. ASSUME NEW limit \in Nat, NEW top \in FtsSearch(limit) PROVE top \subseteq FtsHits
    <3>1. PICK ahead : top \in Tops(FtsHits, limit, ahead)
      BY DEF FtsSearch
    <3>2. QED BY <3>1, TopsFacts
  <2>2. QED BY <2>1
<1>5. FtsHits \subseteq TgDocs /\ \A e \in FtsHits : tgFts[e] # NoTg /\ tgFts[e].bm25 > 0
  BY DEF FtsHits
<1>6. \A k \in VecKeys : DocNamed(k) = k[1] /\ k[1] \in TgDocs /\ \E c \in {"id", "chunk"} : k = <<k[1], c>>
  <2>1. ASSUME NEW e \in TgDocs, NEW c \in {"id", "chunk"} PROVE DocNamed(<<e, c>>) = e
    BY TriggersAssumption DEF DocNamed
  <2>2. ASSUME NEW k \in VecKeys
        PROVE  DocNamed(k) = k[1] /\ k[1] \in TgDocs /\ \E c \in {"id", "chunk"} : k = <<k[1], c>>
    <3>1. PICK e \in TgDocs, c \in {"id", "chunk"} : k = <<e, c>>
      BY DEF VecKeys
    <3>2. k[1] = e /\ DocNamed(k) = e
      BY <2>1, <3>1
    <3>3. QED BY <3>1, <3>2
  <2>3. QED BY <2>2
<1>7. \A e \in TgDocs : DocNamed(e) = e
  BY DEF DocNamed
<1>8. TgTopK \in Nat /\ 3 * TgTopK \in Nat
  BY TriggersAssumption
<1>9. CASE rule.search = "none"
  BY <1>1, <1>9 DEF RunTrigger
<1>10. CASE rule.search = "fts"
  <2>1. PICK top \in FtsSearch(TgTopK) : matches = {e \in top : tgFts[e].bm25 >= rule.threshold}
    BY <1>1, <1>10 DEF RunTrigger
  <2>2. m \in FtsHits /\ tgFts[m].bm25 >= rule.threshold
    BY <1>4, <1>8, <2>1
  <2>3. d = m /\ m \in TgDocs
    BY <1>2, <1>5, <1>7, <2>2
  <2>4. tgFts[m] = tgDoc[m]
    BY <1>3, <2>3, NamedIsStored
  <2>5. QED BY <1>1, <1>2, <1>5, <2>2, <2>3, <2>4 DEF Reaches
<1>11. CASE rule.search = "vector"
  <2>1. matches \in VectorSearch(rule.threshold, TgTopK)
    BY <1>1, <1>11 DEF RunTrigger
  <2>2. PICK ahead : matches \in Tops(Similar(rule.threshold), TgTopK, ahead)
    BY <2>1 DEF VectorSearch
  <2>3. m \in Similar(rule.threshold)
    BY <1>8, <2>2, TopsFacts
  <2>4. m \in VecKeys /\ tgVec[m] # NoTg
    BY <2>3 DEF Similar
  <2>5. PICK c \in {"id", "chunk"} : m = <<d, c>> /\ d \in TgDocs
    BY <1>2, <1>6, <2>4
  <2>6. tgDoc[d] # NoTg
    BY <1>3, <2>4, <2>5, NamedIsStored
  <2>7. QED BY <1>1, <1>2, <1>11, <2>6
<1>12. CASE rule.search \notin {"none", "fts", "vector"}
  <2>1. PICK top \in FtsSearch(3 * TgTopK), vec \in HybridVectors(TRUE) :
          matches \in HybridMatches(rule, TextScores(top), vec)
    <3>1. matches \in HybridRuns(rule, FtsSearch(3 * TgTopK), HybridVectors(TRUE))
      BY <1>1, <1>12 DEF RunTrigger
    <3>2. QED BY <3>1, OneOfHybrid
  <2>2. PICK fts : fts = TextScores(top)
    OBVIOUS
  <2>3. m \in DOMAIN fts \cup DOMAIN vec /\ DOMAIN fts = top
    BY <2>1, <2>2, HybridNames DEF TextScores
  <2>4. CASE m \in top
    <3>1. m \in FtsHits /\ m \in TgDocs /\ d = m
      BY <1>2, <1>4, <1>5, <1>7, <1>8, <2>4
    <3>2. tgFts[m] = tgDoc[m]
      BY <1>3, <3>1, NamedIsStored
    <3>3. QED BY <1>1, <1>2, <1>5, <1>12, <3>1, <3>2
  <2>5. CASE m \in DOMAIN vec
    <3>1. PICK k \in VecKeys : k[1] = m /\ tgVec[k] # NoTg
      BY <2>5, VectorNames
    <3>2. PICK c \in {"id", "chunk"} : k = <<m, c>> /\ m \in TgDocs
      BY <1>6, <3>1
    <3>3. d = m
      BY <1>2, <1>7, <3>2
    <3>4. tgDoc[d] # NoTg
      BY <1>3, <3>1, <3>2, <3>3, NamedIsStored
    <3>5. QED BY <1>1, <1>2, <1>12, <3>4
  <2>6. QED BY <2>3, <2>4, <2>5
<1>13. QED BY <1>9, <1>10, <1>11, <1>12

\* Triggers fire for what was written, and dry runs name what is stored.
THEOREM TriggersFire == TriggersSpec => [](FiredForWhatWasWritten /\ DryRunNamesStored)
<1>1. TriggersSpec => []TriggersInv
  BY TriggersInvInit, TriggersStep, PTL DEF TriggersSpec
<1>2. TriggersInv => FiredForWhatWasWritten
  BY DEF TriggersInv
<1>3. QED BY <1>1, <1>2, DryRunSound, PTL

\* Whatever Delivery and Triggers do side by side: triggers fire for what was written, dry runs
\* name what is stored, the log tells of every firing once and truly, and its pages miss nothing.
THEOREM DeliveriesAreTold == DeliverySpec /\ TriggersSpec => []DeliveriesTold
<1>1. LogTruthful /\ PagesExact /\ FiredForWhatWasWritten /\ DryRunNamesStored => DeliveriesTold
  BY DEF DeliveriesTold
<1>2. QED BY <1>1, DeliveriesLogged, TriggersFire, PTL
=============================================================================
