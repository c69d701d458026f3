--------------------------- MODULE LockFreeCache ----------------------------
(***************************************************************************)
(* One shard of the lock-free cache of the extreme mode:                   *)
(* internal/cache/lockfree_cache.go (the shards share nothing).            *)
(*                                                                         *)
(* A writer holds the shard's mutex, builds a new map and swaps it in; the *)
(* counter of entries is changed before or after the swap, in a step that  *)
(* readers can see apart from it.  A reader loads the map without a lock,  *)
(* and looks at the clock later.                                           *)
(***************************************************************************)
EXTENDS Integers, FiniteSets

CONSTANTS
  LKeys,        \* keys of the shard
  ShardMax,     \* maxSize / 16
  LTtl,         \* lfc.ttl
  MaxLClock, MaxLWrites   \* bounds on the clock and on writes

ASSUME LockFreeAssumption == ShardMax \in Nat /\ LTtl \in Nat \ {0} /\ {MaxLClock, MaxLWrites} \subseteq Nat

VARIABLES
  lmap,      \* shard.data: [val, exp] of the keys it has
  lsize,     \* shard.size
  lwriter,   \* the writer that holds shard.mu: [step, next, add]
  lreader,   \* a Get: [step, key, found, val, exp, may]
  lclock, lwrites

lockFreeVars == <<lmap, lsize, lwriter, lreader, lclock, lwrites>>

EmptyMap == [k \in {} |-> [val |-> 0, exp |-> 0]]
NoWriter == [step |-> "none", next |-> EmptyMap, add |-> 0]
NoReader == [step |-> "none", key |-> CHOOSE k \in LKeys : TRUE, found |-> FALSE, val |-> 0, exp |-> 0, may |-> {}]

LockFreeInit ==
  /\ lmap = EmptyMap /\ lsize = 0 /\ lwriter = NoWriter /\ lreader = NoReader
  /\ lclock = 0 /\ lwrites = 0

Without(m, ks) == [k \in DOMAIN m \ ks |-> m[k]]
Values(m, k) == IF k \in DOMAIN m THEN {m[k].val} ELSE {0}

-----------------------------------------------------------------------------
LockShard(next, add) ==
  /\ lwriter = NoWriter /\ lwrites < MaxLWrites
  /\ lwrites' = lwrites + 1
  /\ lwriter' = [step |-> "swap", next |-> next, add |-> add]

\* Set: a full shard drops some other entry for a new key, and counts that at once.
Set(k) ==
  LET full == k \notin DOMAIN lmap /\ Cardinality(DOMAIN lmap) >= ShardMax /\ DOMAIN lmap # {}
      kept == IF full THEN {DOMAIN lmap \ {v} : v \in DOMAIN lmap} ELSE {DOMAIN lmap}
  IN /\ \E ks \in kept :
          LockShard([j \in ks \union {k} |-> IF j = k THEN [val |-> lwrites + 1, exp |-> lclock + LTtl] ELSE lmap[j]],
                    IF k \in DOMAIN lmap THEN 0 ELSE 1)
     /\ lsize' = lsize - (IF full THEN 1 ELSE 0)
     /\ UNCHANGED <<lmap, lreader, lclock>>
\* Delete of a key that is there.
DeleteCached(k) ==
  /\ k \in DOMAIN lmap
  /\ LockShard(Without(lmap, {k}), -1)
  /\ UNCHANGED <<lmap, lsize, lreader, lclock>>
\* evictExpired, when it finds something to remove.
EvictExpired ==
  LET old == {k \in DOMAIN lmap : lclock > lmap[k].exp}
  IN /\ old # {}
     /\ LockShard(Without(lmap, old), -Cardinality(old))
     /\ UNCHANGED <<lmap, lsize, lreader, lclock>>
\* Clear stores an empty map and zero.
ClearCached ==
  /\ LockShard(EmptyMap, -lsize)
  /\ UNCHANGED <<lmap, lsize, lreader, lclock>>

\* shard.data.Store, then shard.size.
Swap ==
  /\ lwriter.step = "swap"
  /\ lmap' = lwriter.next
  /\ lwriter' = [lwriter EXCEPT !.step = "count"]
  /\ lreader' = [lreader EXCEPT !.may = IF lreader.step = "called" THEN @ \union Values(lmap', lreader.key) ELSE @]
  /\ UNCHANGED <<lsize, lclock, lwrites>>
CountEntries ==
  /\ lwriter.step = "count"
  /\ lsize' = lsize + lwriter.add
  /\ lwriter' = NoWriter
  /\ UNCHANGED <<lmap, lreader, lclock, lwrites>>

\* Get: the call, the load, and the comparison with the clock.
CallGet(k) ==
  /\ lreader.step = "none"
  /\ lreader' = [lreader EXCEPT !.step = "called", !.key = k, !.may = Values(lmap, k)]
  /\ UNCHANGED <<lmap, lsize, lwriter, lclock, lwrites>>
LoadMap ==
  /\ lreader.step = "called"
  /\ LET k == lreader.key
         has == k \in DOMAIN lmap
     IN lreader' = [lreader EXCEPT !.step = "loaded", !.found = has,
                                   !.val = IF has THEN lmap[k].val ELSE 0, !.exp = IF has THEN lmap[k].exp ELSE 0]
  /\ UNCHANGED <<lmap, lsize, lwriter, lclock, lwrites>>
AnswerGet ==
  /\ lreader.step = "loaded"
  /\ lreader' = [lreader EXCEPT !.step = "answered", !.found = @ /\ lclock <= lreader.exp]
  /\ UNCHANGED <<lmap, lsize, lwriter, lclock, lwrites>>
EndGet ==
  /\ lreader.step = "answered"
  /\ lreader' = NoReader
  /\ UNCHANGED <<lmap, lsize, lwriter, lclock, lwrites>>

PassTime ==
  /\ lclock < MaxLClock
  /\ lclock' = lclock + 1
  /\ UNCHANGED <<lmap, lsize, lwriter, lreader, lwrites>>

LockFreeNext ==
  \/ \E k \in LKeys : Set(k) \/ DeleteCached(k) \/ CallGet(k)
  \/ EvictExpired \/ ClearCached \/ Swap \/ CountEntries \/ LoadMap \/ AnswerGet \/ EndGet \/ PassTime
LockFreeSpec == LockFreeInit /\ [][LockFreeNext]_lockFreeVars

-----------------------------------------------------------------------------
\* The counter is right whenever nobody writes, and never below zero.
EntriesCounted == lsize >= 0 /\ (lwriter = NoWriter => lsize = Cardinality(DOMAIN lmap))
\* A shard holds no more than its share, or one entry where its share is none.
ShardBounded == Cardinality(DOMAIN lmap) <= (IF ShardMax = 0 THEN 1 ELSE ShardMax)
\* What Get returns was stored for the key at some time during the call.
ReadsCurrent == lreader.step = "answered" /\ lreader.found => lreader.val \in lreader.may
LockFreeSound == EntriesCounted /\ ShardBounded /\ ReadsCurrent
=============================================================================
