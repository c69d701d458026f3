-------------------------------- MODULE Mvcc --------------------------------
(***************************************************************************)
(* The multi-version layer of the extreme mode: mvcc.go.                   *)
(*                                                                         *)
(* Transactions append versions to the chains of their keys; Commit and    *)
(* Rollback first take the transaction out of txnKeys and then visit its   *)
(* keys one chain lock at a time; a collector notes the time and the       *)
(* transactions under way and then goes through the chains one by one.     *)
(* Each transaction belongs to one goroutine.                              *)
(***************************************************************************)
EXTENDS Integers, Sequences, FiniteSets

CONSTANTS
  MKeys,      \* document keys
  MaxTxn,     \* bound on transactions
  MaxPuts,    \* bound on versions written
  KeepFor,    \* age at which a version may be collected (300 s)
  MaxAge      \* bound on the clock

ASSUME MvccAssumption == MaxTxn \in Nat /\ MaxPuts \in Nat /\ KeepFor \in Nat \ {0} /\ MaxAge \in Nat

Txns == 1..MaxTxn

VARIABLES
  chains,    \* m.versions: [MKeys -> Seq([txn, ts, deleted, visible])]
  txnKeys,   \* m.txnKeys: keys touched, {} for a transaction that has no entry
  txnID,     \* m.txnID
  txn,       \* [Txns -> "new", "open", "committing", "rollingback", "committed", "rolledback"]
  left,      \* keys Commit or Rollback has yet to visit
  gcLeft,    \* chains gc has yet to visit
  gcActive, gcCutoff,   \* activeTxns and cutoff of the pass
  age,       \* time.Now
  puts,      \* versions written so far
  seen       \* history: transactions whose data some Read returned

mvccVars == <<chains, txnKeys, txnID, txn, left, gcLeft, gcActive, gcCutoff, age, puts, seen>>
gcVars == <<gcLeft, gcActive, gcCutoff>>

MvccInit ==
  /\ chains = [k \in MKeys |-> <<>>]
  /\ txnKeys = [t \in Txns |-> {}] /\ txnID = 0
  /\ txn = [t \in Txns |-> "new"] /\ left = [t \in Txns |-> {}]
  /\ gcLeft = {} /\ gcActive = {} /\ gcCutoff = 0
  /\ age = 0 /\ puts = 0 /\ seen = {}

BeginTxn ==
  /\ txnID < MaxTxn /\ txnID' = txnID + 1
  /\ txn' = [txn EXCEPT ![txnID'] = "open"]
  /\ UNCHANGED <<chains, txnKeys, left, gcVars, age, puts, seen>>

\* Write and Delete, under the lock of the chain; the time was read just before it.
PutVersion(t, k, del) ==
  /\ txn[t] = "open" /\ puts < MaxPuts /\ puts' = puts + 1
  /\ chains' = [chains EXCEPT ![k] = Append(@, [txn |-> t, ts |-> age, deleted |-> del, visible |-> FALSE])]
  /\ txnKeys' = [txnKeys EXCEPT ![t] = @ \cup {k}]
  /\ UNCHANGED <<txnID, txn, left, gcVars, age, seen>>

\* Read: the last version in the chain that is visible, not of a later transaction, and not
\* a deletion.
Readable(t, k) ==
  {i \in DOMAIN chains[k] : chains[k][i].visible /\ chains[k][i].txn <= t /\ ~chains[k][i].deleted}

ReadVersion(t, k) ==
  /\ txn[t] = "open" /\ Readable(t, k) # {}
  /\ LET i == CHOOSE n \in Readable(t, k) : \A j \in Readable(t, k) : j <= n
     IN seen' = seen \cup {chains[k][i].txn}
  /\ UNCHANGED <<chains, txnKeys, txnID, txn, left, gcVars, age, puts>>

\* Commit and Rollback: LoadAndDelete of the transaction's keys ...
Settle(t, how) ==
  /\ txn[t] = "open"
  /\ txn' = [txn EXCEPT ![t] = how]
  /\ left' = [left EXCEPT ![t] = txnKeys[t]]
  /\ txnKeys' = [txnKeys EXCEPT ![t] = {}]
  /\ UNCHANGED <<chains, txnID, gcVars, age, puts, seen>>

\* ... then each key in turn: the versions of t come to sight ...
Shown(v, t) == [v EXCEPT !.visible = @ \/ v.txn = t]

CommitKey(t, k) ==
  /\ txn[t] = "committing" /\ k \in left[t]
  /\ left' = [left EXCEPT ![t] = @ \ {k}]
  /\ chains' = [chains EXCEPT ![k] = [i \in DOMAIN @ |-> Shown(@[i], t)]]
  /\ UNCHANGED <<txnKeys, txnID, txn, gcVars, age, puts, seen>>

\* The versions at the places in I, in their order.
VersionsAt(chain, I) ==
  [n \in 1..Cardinality(I) |-> chain[CHOOSE i \in I : Cardinality({j \in I : j < i}) = n - 1]]

RollbackKey(t, k) ==
  /\ txn[t] = "rollingback" /\ k \in left[t]
  /\ left' = [left EXCEPT ![t] = @ \ {k}]
  /\ chains' = [chains EXCEPT ![k] = VersionsAt(@, {i \in DOMAIN @ : @[i].txn # t})]
  /\ UNCHANGED <<txnKeys, txnID, txn, gcVars, age, puts, seen>>

\* ... until none is left.
Finished(t) ==
  /\ txn[t] \in {"committing", "rollingback"} /\ left[t] = {}
  /\ txn' = [txn EXCEPT ![t] = IF @ = "committing" THEN "committed" ELSE "rolledback"]
  /\ UNCHANGED <<chains, txnKeys, txnID, left, gcVars, age, puts, seen>>

-----------------------------------------------------------------------------
\* gc: cutoff, then the active transactions (Range over txnKeys, here at one point in time) ...
GcBegin ==
  /\ gcLeft = {}
  /\ gcLeft' = MKeys /\ gcCutoff' = age - KeepFor
  /\ gcActive' = {t \in Txns : txnKeys[t] # {}}
  /\ UNCHANGED <<chains, txnKeys, txnID, txn, left, age, puts, seen>>

GcKeeps(v) == v.ts > gcCutoff \/ (~v.visible /\ v.txn \in gcActive)

\* ... then the chains; a chain is never left empty.
GcChain(k) ==
  /\ k \in gcLeft /\ gcLeft' = gcLeft \ {k}
  /\ chains' = [chains EXCEPT ![k] =
       IF @ = <<>> THEN @
       ELSE IF \E i \in DOMAIN @ : GcKeeps(@[i]) THEN VersionsAt(@, {i \in DOMAIN @ : GcKeeps(@[i])})
       ELSE <<@[Len(@)]>>]
  /\ IF gcLeft' = {} THEN gcActive' = {} /\ gcCutoff' = 0 ELSE UNCHANGED <<gcActive, gcCutoff>>
  /\ UNCHANGED <<txnKeys, txnID, txn, left, age, puts, seen>>

GrowOlder ==
  /\ age < MaxAge /\ age' = age + 1
  /\ UNCHANGED <<chains, txnKeys, txnID, txn, left, gcVars, puts, seen>>

MvccNext ==
  \/ BeginTxn \/ GcBegin \/ GrowOlder
  \/ \E t \in Txns, k \in MKeys, del \in BOOLEAN : PutVersion(t, k, del)
  \/ \E t \in Txns, k \in MKeys : ReadVersion(t, k) \/ CommitKey(t, k) \/ RollbackKey(t, k)
  \/ \E t \in Txns : Settle(t, "committing") \/ Settle(t, "rollingback") \/ Finished(t)
  \/ \E k \in MKeys : GcChain(k)

MvccSpec == MvccInit /\ [][MvccNext]_mvccVars

-----------------------------------------------------------------------------
VersionsOf(t) == {k \in MKeys : \E i \in DOMAIN chains[k] : chains[k][i].txn = t}

\* No Read ever returns data of a transaction that has not begun to commit, and so none of one
\* that is rolled back, however reads, commits and rollbacks of other transactions interleave
\* chain by chain (Read, Commit, Rollback).
NoDirtyRead == \A t \in seen : txn[t] \in {"committing", "committed"}

\* A rolled back transaction leaves no version in any chain, whatever the collector copied
\* meanwhile (Rollback, gc).
RollbackComplete == \A t \in Txns : txn[t] = "rolledback" => VersionsOf(t) = {}

\* The collector never takes the versions of a transaction that is still open, however long it
\* has been (gc: "avoid GC'ing their uncommitted versions"), also of one that wrote after the
\* active transactions were noted: its versions are younger than the cutoff.
OpenIsKept == \A t \in Txns : txn[t] = "open" => txnKeys[t] \subseteq VersionsOf(t)

\* Transactions that are open, rolled back or committing key by key, and a collector that
\* rewrites chains beside them, never show or lose each other's versions (Read, Commit,
\* Rollback, gc).
ChainsSound == NoDirtyRead /\ RollbackComplete /\ OpenIsKept
=============================================================================
