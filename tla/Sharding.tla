------------------------------ MODULE Sharding ------------------------------
(***************************************************************************)
(* The shard cluster and its ring of virtual nodes: sharding.go.           *)
(*                                                                         *)
(* AddShard and RemoveShard hold sc.mu and change the ring under ch.mu;    *)
(* GetShard and GetShards ask the ring first, under ch.mu only, and look   *)
(* the shards up under sc.mu afterwards, so the two may fall on either     *)
(* side of a change.  Shards are numbered from 0.                          *)
(***************************************************************************)
EXTENDS Integers, Sequences, SequencesExt, FiniteSets

CONSTANTS
  RingSize,       \* hash values are 0 .. RingSize - 1 (2^32)
  VNodes,         \* hash: shard -> the hashes of its virtual nodes
  FirstShards, MaxShards,   \* shards at the start, bound on shards
  CopiesOf,       \* sc.replication
  MaxRingCalls    \* bound on calls of GetShard and GetShards

\* Two virtual nodes never have the same hash.
ASSUME ShardingAssumption ==
  /\ {RingSize, FirstShards, CopiesOf} \subseteq Nat \ {0} /\ MaxShards \in Nat
  /\ FirstShards <= MaxShards
  /\ VNodes \in [0..MaxShards - 1 -> SUBSET (0..RingSize - 1)]
  /\ \A s, t \in 0..MaxShards - 1 : s # t => VNodes[s] \intersect VNodes[t] = {}

Keys32 == 0..RingSize - 1

VARIABLES
  ring,        \* ch.ring: hash -> shard
  sortedKeys,  \* ch.sortedKeys
  active,      \* sc.shards, by number: Active
  changing,    \* the AddShard or RemoveShard that holds sc.mu: [op, shard], or Nobody
  seek,      \* the GetShard or GetShards under way: [step, key, want, ids, lived, none]
  ringCalls

shardVars == <<ring, sortedKeys, active, changing, seek, ringCalls>>

Nobody == [op |-> "none", shard |-> 0]
Resting == [step |-> "none", key |-> 0, want |-> 0, ids |-> <<>>, lived |-> {}, none |-> FALSE]

RingOf(shards) ==
  [h \in UNION {VNodes[s] : s \in shards} |-> CHOOSE s \in shards : h \in VNodes[s]]

\* The n-th of some numbers, from the smallest; the places in I of a list, in their order.
NthSmallest(I, n) == CHOOSE i \in I : Cardinality({j \in I : j < i}) = n - 1
TakenFrom(list, I) == [n \in 1..Cardinality(I) |-> list[NthSmallest(I, n)]]
\* sortKeys: ascending.
SortedKeys(hashes) == [n \in 1..Cardinality(hashes) |-> NthSmallest(hashes, n)]

ShardInit ==
  /\ active = [s \in 0..FirstShards - 1 |-> TRUE]
  /\ ring = RingOf(0..FirstShards - 1) /\ sortedKeys = SortedKeys(DOMAIN ring)
  /\ changing = Nobody /\ seek = Resting /\ ringCalls = 0

-----------------------------------------------------------------------------
\* The binary search for the first key that is not smaller, from 1; behind the last
\* one it starts again.
search(keys, hash) ==
  LET between[w \in (1..Len(keys) + 1) \X (0..Len(keys))] ==
        LET left == w[1]
            right == w[2]
            mid == (left + right) \div 2
        IN IF left > right THEN (IF left > Len(keys) THEN 1 ELSE left)
           ELSE IF keys[mid] = hash THEN mid
           ELSE IF keys[mid] < hash THEN between[<<mid + 1, right>>]
           ELSE between[<<left, mid - 1>>]
  IN between[<<1, Len(keys)>>]

\* Get: shard 0 when the ring is empty.
RingGet(r, keys, hash) == IF DOMAIN r = {} THEN 0 ELSE r[keys[search(keys, hash)]]

\* GetN: the shards met on the way round from the key, each once.
OnTheWay(hash) ==
  LET start == search(sortedKeys, hash)
      n == Len(sortedKeys)
      met == [i \in 1..n |-> ring[sortedKeys[((start + i - 2) % n) + 1]]]
  IN TakenFrom(met, {i \in 1..n : \A j \in 1..i - 1 : met[j] # met[i]})

-----------------------------------------------------------------------------
\* AddShard: the next number, then its virtual nodes; sc.mu is held all along.
AddShard ==
  /\ changing = Nobody /\ Cardinality(DOMAIN active) < MaxShards
  /\ LET id == Cardinality(DOMAIN active)
     IN /\ active' = [s \in DOMAIN active \union {id} |-> IF s = id THEN TRUE ELSE active[s]]
        /\ changing' = [op |-> "add", shard |-> id]
  /\ UNCHANGED <<ring, sortedKeys, seek, ringCalls>>
RemoveShard(s) ==
  /\ changing = Nobody
  /\ active' = [active EXCEPT ![s] = FALSE]
  /\ changing' = [op |-> "remove", shard |-> s]
  /\ UNCHANGED <<ring, sortedKeys, seek, ringCalls>>
\* Add and Remove wait for a GetN that goes round and round.
RingFree == seek.step # "spinning"
RouterAdd ==
  /\ changing.op = "add" /\ RingFree
  /\ LET s == changing.shard
     IN /\ ring' = [h \in DOMAIN ring \union VNodes[s] |-> IF h \in VNodes[s] THEN s ELSE ring[h]]
        /\ sortedKeys' = SortedKeys(ToSet(sortedKeys) \union VNodes[s])
  /\ changing' = Nobody
  /\ UNCHANGED <<active, seek, ringCalls>>
RouterRemove ==
  /\ changing.op = "remove" /\ RingFree
  /\ LET kept == {h \in DOMAIN ring : ring[h] # changing.shard}
     IN /\ ring' = [h \in kept |-> ring[h]]
        /\ sortedKeys' = TakenFrom(sortedKeys, {i \in DOMAIN sortedKeys : sortedKeys[i] \in kept})
  /\ changing' = Nobody
  /\ UNCHANGED <<active, seek, ringCalls>>

\* The first half of GetShard and GetShards.  GetN wants more shards than the ring
\* has, and goes on as long as it has found fewer than the ring has virtual nodes.
AskRing(hash, want) ==
  /\ seek.step = "none" /\ ringCalls < MaxRingCalls
  /\ ringCalls' = ringCalls + 1
  /\ LET found == IF DOMAIN ring = {} THEN <<>> ELSE OnTheWay(hash)
         ids == IF want = 1 THEN <<RingGet(ring, sortedKeys, hash)>>
                ELSE SubSeq(found, 1, IF Len(found) < want THEN Len(found) ELSE want)
         spins == want > 1 /\ Len(found) < want /\ Len(found) < Cardinality(DOMAIN ring)
     IN seek' = [step |-> IF spins THEN "spinning" ELSE "asked", key |-> hash, want |-> want, ids |-> ids,
                   lived |-> {s \in DOMAIN active : active[s] \/ changing = [op |-> "remove", shard |-> s]},
                   none |-> DOMAIN ring = {}]
  /\ UNCHANGED <<ring, sortedKeys, active, changing>>
\* The second half, under sc.mu.
LookUpShards ==
  /\ seek.step = "asked" /\ changing = Nobody
  /\ seek' = [seek EXCEPT !.step = "found"]
  /\ UNCHANGED <<ring, sortedKeys, active, changing, ringCalls>>
EndLookup ==
  /\ seek.step = "found"
  /\ seek' = Resting
  /\ UNCHANGED <<ring, sortedKeys, active, changing, ringCalls>>

ShardNext ==
  \/ AddShard \/ RouterAdd \/ RouterRemove \/ LookUpShards \/ EndLookup
  \/ \E s \in DOMAIN active : RemoveShard(s)
  \/ \E h \in Keys32, want \in {1, CopiesOf} : AskRing(h, want)
ShardSpec == ShardInit /\ [][ShardNext]_shardVars

-----------------------------------------------------------------------------
Alive == {s \in DOMAIN active : active[s]}

\* The ring has the virtual nodes of the active shards, once nobody changes it.
RingAgrees ==
  changing = Nobody => ring = RingOf(Alive) /\ sortedKeys = SortedKeys(DOMAIN ring)
\* A key belongs to the shard of the next virtual node clockwise.
Owner(r, h) ==
  LET d(x) == (x - h + RingSize) % RingSize
  IN r[CHOOSE x \in DOMAIN r : \A y \in DOMAIN r : d(x) <= d(y)]
RoutedClockwise ==
  DOMAIN ring # {} => \A h \in Keys32 : RingGet(ring, sortedKeys, h) = Owner(ring, h)
\* A seek ends at shards that are known, each once, and that were active when it
\* asked, unless no shard was in the ring; it goes round for ever only when the ring
\* has fewer shards than there should be copies.
LookupsSound ==
  /\ seek.step = "found" =>
       /\ ToSet(seek.ids) \subseteq DOMAIN active
       /\ Cardinality(ToSet(seek.ids)) = Len(seek.ids)
       /\ ToSet(seek.ids) \subseteq seek.lived \/ seek.none
  /\ seek.step = "spinning" => Cardinality({ring[h] : h \in DOMAIN ring}) < CopiesOf
RoutingSound == RingAgrees /\ RoutedClockwise /\ LookupsSound
=============================================================================
