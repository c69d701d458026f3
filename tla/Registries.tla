----------------------------- MODULE Registries -----------------------------
(***************************************************************************)
(* The small configuration stores and what a follower makes of them:       *)
(* internal/webhooks, internal/schema, collection_config.go, curation.go,  *)
(* the synonyms of internal/fts, VectorStore.Put, replication_applier.go.  *)
(*                                                                         *)
(* Each of them is a bucket with a copy in memory that requests are served *)
(* from.  A change is three steps: the bucket's transaction, an entry in   *)
(* the binlog, the copy.  A follower applies batches of entries to its own *)
(* bucket and then brings its copy up to date, in a way that depends on    *)
(* the bucket.  One store, kind, is looked at at a time: they share        *)
(* nothing.                                                                *)
(***************************************************************************)
EXTENDS Integers, Sequences, SequencesExt

CONSTANTS
  RegIds,       \* keys: webhook ids, collections, terms, documents of one collection
  RegVals,      \* values
  NoReg,        \* "no entry"
  RegClients,   \* request handlers
  MaxRegReqs,   \* bound on requests
  MaxRegCrashes \* bound on restarts of the leader or of the follower

ASSUME NoRegAssumption == NoReg \notin RegVals
ASSUME MaxRegReqsAssumption == MaxRegReqs \in Nat

RegKinds == {"webhooks", "schemas", "colmeta", "curation", "synonyms", "vectors"}
\* Register makes a new id; the other stores are written under a key the client chooses.
FreshIds == {"webhooks"}
\* LoadAll empties the copy first (webhooks replaces the slice) ...
Replaced == {"webhooks", "curation", "synonyms"}
\* ... and updateInMemoryState calls it for these buckets.
Reloaded == {"webhooks", "schemas", "colmeta"}
\* Where applyVector puts a vector: SplitKey cuts vec|collection|collection|key|lang at
\* every bar, and the third part is the collection again.
Collection == "collection"
Names == RegIds \cup {Collection}

VARIABLES
  kind,     \* the store that is looked at
  table,    \* its bucket: [RegIds -> value or NoReg]
  served,   \* the copy in memory: [Names -> value or NoReg]
  reglog,   \* entries of the binlog for this bucket: [id, val]
  rtable, rserved,  \* the same on the follower
  applied,  \* entries the follower has applied
  reload,   \* entries applied to rtable and not yet to rserved
  regclient,    \* [RegClients -> [pc, id, val]]
  regreqs, regcrashes

regVars == <<kind, table, served, reglog, rtable, rserved, applied, reload, regclient,
             regreqs, regcrashes>>
leaderVars == <<table, served, reglog, regclient, regreqs>>
followerVars == <<rtable, rserved, applied, reload>>

RegIdle == [pc |-> "idle", id |-> Collection, val |-> NoReg]
NoTable == [i \in RegIds |-> NoReg]
NoCopy == [n \in Names |-> NoReg]

RegInit ==
  /\ kind \in RegKinds
  /\ table = NoTable /\ served = NoCopy
  /\ reglog = <<>>
  /\ rtable = NoTable /\ rserved = NoCopy
  /\ applied = 0 /\ reload = <<>>
  /\ regclient = [c \in RegClients |-> RegIdle]
  /\ regreqs = 0 /\ regcrashes = 0

\* LoadAll: the bucket over the copy, or instead of it.
Loaded(copy, bucket) ==
  [n \in Names |-> IF n \in RegIds /\ bucket[n] # NoReg THEN bucket[n]
                   ELSE IF kind \in Replaced THEN NoReg ELSE copy[n]]

-----------------------------------------------------------------------------
Used(i) == table[i] # NoReg \/ \E n \in DOMAIN reglog : reglog[n].id = i

\* Set, Register, Put: the value goes into the bucket ...
RegSet(c, i, v) ==
  /\ regclient[c].pc = "idle" /\ regreqs < MaxRegReqs /\ regreqs' = regreqs + 1
  /\ kind \in FreshIds => ~Used(i)
  /\ table' = [table EXCEPT ![i] = v]
  /\ regclient' = [regclient EXCEPT ![c] = [pc |-> "log", id |-> i, val |-> v]]
  /\ UNCHANGED <<kind, served, reglog, followerVars, regcrashes>>

\* Delete: or leaves it; an id that Register made is known from its answer or from List.
RegDelete(c, i) ==
  /\ regclient[c].pc = "idle" /\ regreqs < MaxRegReqs /\ regreqs' = regreqs + 1
  /\ kind \in FreshIds => served[i] # NoReg
  /\ table' = [table EXCEPT ![i] = NoReg]
  /\ regclient' = [regclient EXCEPT ![c] = [pc |-> "log", id |-> i, val |-> NoReg]]
  /\ UNCHANGED <<kind, served, reglog, followerVars, regcrashes>>

\* Mutant: the copy is brought up to date before the change is logged.
RegAppendLate(c) ==
  /\ \/ /\ regclient[c].pc = "log"
        /\ served' = [served EXCEPT ![regclient[c].id] = regclient[c].val]
        /\ regclient' = [regclient EXCEPT ![c].pc = "late"]
        /\ UNCHANGED reglog
     \/ /\ regclient[c].pc = "late"
        /\ reglog' = Append(reglog, [id |-> regclient[c].id, val |-> regclient[c].val])
        /\ regclient' = [regclient EXCEPT ![c] = RegIdle]
        /\ UNCHANGED served
  /\ UNCHANGED <<kind, table, followerVars, regreqs, regcrashes>>

\* ... then binlog.Append (FlushTo) ...
RegAppend(c) ==
  /\ regclient[c].pc = "log"
  /\ reglog' = Append(reglog, [id |-> regclient[c].id, val |-> regclient[c].val])
  /\ regclient' = [regclient EXCEPT ![c].pc = "copy"]
  /\ UNCHANGED <<kind, table, served, followerVars, regreqs, regcrashes>>

\* ... then, under the manager's lock, the copy.
RegCopy(c) ==
  /\ regclient[c].pc = "copy"
  /\ served' = [served EXCEPT ![regclient[c].id] = regclient[c].val]
  /\ regclient' = [regclient EXCEPT ![c] = RegIdle]
  /\ UNCHANGED <<kind, table, reglog, followerVars, regreqs, regcrashes>>

\* The leader starts again: its handlers are gone, LoadAll (loadVectorIndex) fills the copy.
RegRestart ==
  /\ regcrashes < MaxRegCrashes /\ regcrashes' = regcrashes + 1
  /\ served' = Loaded(NoCopy, table)
  /\ regclient' = [c \in RegClients |-> RegIdle]
  /\ UNCHANGED <<kind, table, reglog, followerVars, regreqs>>

-----------------------------------------------------------------------------
\* ApplyBatch: entries of the log are applied to the bucket in one transaction ...
Apply(n) ==
  /\ reload = <<>> /\ applied + n <= Len(reglog)
  /\ LET batch == SubSeq(reglog, applied + 1, applied + n) IN
       /\ rtable' = FoldLeft(LAMBDA t, e : [t EXCEPT ![e.id] = e.val], rtable, batch)
       /\ reload' = batch
  /\ applied' = applied + n
  /\ UNCHANGED <<kind, leaderVars, rserved, regcrashes>>

\* applyVector: a put or a delete of the index entry.
ApplyVector(copy, e) == [copy EXCEPT ![Collection] = e.val]

\* ... then updateInMemoryState looks at each of them; other buckets are left alone.
UpdateInMemoryState ==
  /\ reload # <<>>
  /\ rserved' = CASE kind = "vectors"    -> FoldLeft(ApplyVector, rserved, reload)
                   [] kind \in Reloaded  -> Loaded(rserved, rtable)
                   [] OTHER              -> rserved
  /\ reload' = <<>>
  /\ UNCHANGED <<kind, leaderVars, rtable, applied, regcrashes>>

\* The follower starts again: lastApplied was in memory, so the log comes once more.
RegFollowerRestart ==
  /\ regcrashes < MaxRegCrashes /\ regcrashes' = regcrashes + 1
  /\ rserved' = Loaded(NoCopy, rtable)
  /\ applied' = 0 /\ reload' = <<>>
  /\ UNCHANGED <<kind, leaderVars, rtable>>

RegNext ==
  \/ \E c \in RegClients : \/ \E i \in RegIds, v \in RegVals : RegSet(c, i, v)
                           \/ \E i \in RegIds : RegDelete(c, i)
                           \/ RegAppend(c)
                           \/ RegCopy(c)
  \/ \E n \in 1..MaxRegReqs : Apply(n)
  \/ UpdateInMemoryState
  \/ RegRestart
  \/ RegFollowerRestart

RegSpec == RegInit /\ [][RegNext]_regVars

-----------------------------------------------------------------------------
AllAnswered == \A c \in RegClients : regclient[c].pc = "idle"

\* Once the requests are answered and the log is applied, the follower serves exactly the
\* webhooks that the leader has stored, and so does the leader (Register, Delete,
\* ApplyBatch, LoadAll): a deletion can only be asked for after the registration was
\* logged, so the two reach the log, and every copy, in that order, however requests
\* overlap and batches are cut.  A restart between the bucket and the log loses entries.
WebhooksConverge ==
  (kind = "webhooks" /\ AllAnswered /\ regcrashes = 0 /\ applied = Len(reglog) /\ reload = <<>>) =>
    \A i \in RegIds : served[i] = table[i] /\ rserved[i] = table[i]

\* REPLICATION.md, under What Gets Replicated: "in-memory index reload", "follower reloads
\* in-memory".  Between two batches a follower serves every entry of its own bucket, with
\* the stored value, after any restart, for the stores that updateInMemoryState reloads.
\* Curation and synonyms wait for a restart, and a vector is put under another key.
FollowerServesStored ==
  (kind \in Reloaded /\ reload = <<>>) => \A i \in RegIds : rtable[i] # NoReg => rserved[i] = rtable[i]

\* The copies in memory that requests are served from follow the buckets, on the leader and on
\* its follower (Register, Delete, LoadAll, updateInMemoryState).
CopiesAgree == WebhooksConverge /\ FollowerServesStored
=============================================================================
