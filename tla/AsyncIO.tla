------------------------------ MODULE AsyncIO -------------------------------
(***************************************************************************)
(* Reads and writes that a goroutine each carries out: async_io.go.        *)
(*                                                                         *)
(* An operation is in the map from before its goroutine starts until its   *)
(* own goroutine (if it has a callback) or a Wait (if it has none) takes   *)
(* it out.  pending is counted apart from the map, and goes down before    *)
(* Done is closed.                                                         *)
(***************************************************************************)
EXTENDS Naturals, FiniteSets

CONSTANTS
  MaxOps,     \* bound on operations: their ids are 1 .. MaxOps
  Waiters,    \* callers of Wait
  BatchReads  \* reads of the one BatchReadAsync

ASSUME AsyncAssumption == {MaxOps, BatchReads} \subseteq Nat

OpIds == 1..MaxOps

VARIABLES
  ops,         \* id -> [step, by, done]; by: "wait", "callback" or "batch"
  operations,  \* ids in aio.operations
  pending,     \* aio.pending
  waits,       \* waiter -> [step, id, got]: got the result
  drain,       \* a WaitAll: [step, owed]
  reads        \* BatchReadAsync: [step, left, wg, ids]

asyncVars == <<ops, operations, pending, waits, drain, reads>>

NoOp == [step |-> "none", by |-> "wait", done |-> FALSE]
Started == {i \in OpIds : ops[i].step \notin {"none", "listed"}}
NextId == Cardinality({i \in OpIds : ops[i].step # "none"}) + 1

AsyncInit ==
  /\ ops = [i \in OpIds |-> NoOp] /\ operations = {} /\ pending = 0
  /\ waits = [w \in Waiters |-> [step |-> "none", id |-> 0, got |-> FALSE]]
  /\ drain = [step |-> "none", owed |-> {}]
  /\ reads = [step |-> "none", left |-> BatchReads, wg |-> 0, ids |-> {}]

-----------------------------------------------------------------------------
\* ReadAsync and WriteAsync: the operation is listed, then counted and started.
ListOp(by) ==
  /\ NextId \in OpIds
  /\ ops' = [ops EXCEPT ![NextId] = [step |-> "listed", by |-> by, done |-> FALSE]]
  /\ operations' = operations \union {NextId}
Submitted(by) ==
  /\ ListOp(by)
  /\ UNCHANGED <<pending, waits, drain, reads>>
StartOp(i) ==
  /\ ops[i].step = "listed"
  /\ ops' = [ops EXCEPT ![i].step = "running"]
  /\ pending' = pending + 1
  /\ UNCHANGED <<operations, waits, drain, reads>>

\* executeOperation: the read or write, whose result and error are set together, and the
\* callback; then the deferred function.
Perform(i) ==
  /\ ops[i].step = "running"
  /\ ops' = [ops EXCEPT ![i].step = "performed", ![i].done = TRUE]
  /\ reads' = [reads EXCEPT !.wg = IF ops[i].by = "batch" THEN @ - 1 ELSE @]
  /\ UNCHANGED <<operations, pending, waits, drain>>
CountDown(i) ==
  /\ ops[i].step = "performed"
  /\ ops' = [ops EXCEPT ![i].step = "counted"]
  /\ pending' = pending - 1
  /\ UNCHANGED <<operations, waits, drain, reads>>
CloseOp(i) ==
  /\ ops[i].step = "counted"
  /\ ops' = [ops EXCEPT ![i].step = "closed"]
  /\ UNCHANGED <<operations, pending, waits, drain, reads>>
CleanUp(i) ==
  /\ ops[i].step = "closed" /\ ops[i].by # "wait" /\ i \in operations
  /\ operations' = operations \ {i}
  /\ UNCHANGED <<ops, pending, waits, drain, reads>>

\* Wait, for an id that ReadAsync or WriteAsync has returned.
CallWait(w, i) ==
  /\ waits[w].step = "none" /\ i \in Started
  /\ waits' = [waits EXCEPT ![w].id = i, ![w].step = IF i \in operations THEN "blocked" ELSE "not found"]
  /\ UNCHANGED <<ops, operations, pending, drain, reads>>
WaitReturns(w) ==
  /\ waits[w].step = "blocked" /\ ops[waits[w].id].step = "closed"
  /\ operations' = operations \ {waits[w].id}
  /\ waits' = [waits EXCEPT ![w].step = "returned", ![w].got = ops[waits[w].id].done]
  /\ UNCHANGED <<ops, pending, drain, reads>>

\* WaitAll looks at pending until it is zero.
CallWaitAll ==
  /\ drain.step = "none"
  /\ drain' = [step |-> "polling", owed |-> Started]
  /\ UNCHANGED <<ops, operations, pending, waits, reads>>
WaitAllReturns ==
  /\ drain.step = "polling" /\ pending = 0
  /\ drain' = [drain EXCEPT !.step = "returned"]
  /\ UNCHANGED <<ops, operations, pending, waits, reads>>

\* BatchReadAsync submits its reads one after the other; then a goroutine waits for all.
BatchSubmit ==
  /\ reads.step \in {"none", "submitting"} /\ reads.left > 0
  /\ reads.ids \subseteq Started
  /\ ListOp("batch")
  /\ reads' = [step |-> "submitting", left |-> reads.left - 1, wg |-> reads.wg + 1, ids |-> reads.ids \union {NextId}]
  /\ UNCHANGED <<pending, waits, drain>>
BatchWait ==
  /\ reads.step = "submitting" /\ reads.left = 0 /\ reads.ids \subseteq Started
  /\ reads' = [reads EXCEPT !.step = "waiting"]
  /\ UNCHANGED <<ops, operations, pending, waits, drain>>
BatchCallback ==
  /\ reads.step = "waiting" /\ reads.wg = 0
  /\ reads' = [reads EXCEPT !.step = "called"]
  /\ UNCHANGED <<ops, operations, pending, waits, drain>>

AsyncNext ==
  \/ \E by \in {"wait", "callback"} : Submitted(by)
  \/ \E i \in OpIds : StartOp(i) \/ Perform(i) \/ CountDown(i) \/ CloseOp(i) \/ CleanUp(i)
  \/ \E w \in Waiters, i \in OpIds : CallWait(w, i)
  \/ \E w \in Waiters : WaitReturns(w)
  \/ CallWaitAll \/ WaitAllReturns \/ BatchSubmit \/ BatchWait \/ BatchCallback
AsyncSpec == AsyncInit /\ [][AsyncNext]_asyncVars

-----------------------------------------------------------------------------
\* Wait returns what the operation came to, and misses an operation without a
\* callback only when another Wait has returned it.
WaitsAnswered ==
  \A w \in Waiters :
    /\ waits[w].step = "returned" => waits[w].got
    /\ waits[w].step = "not found" /\ ops[waits[w].id].by = "wait"
         => \E v \in Waiters : waits[v].id = waits[w].id /\ waits[v].step = "returned"
\* WaitAll returns after every operation that was submitted before it.
DrainCovers == drain.step = "returned" => \A i \in drain.owed : ops[i].done
\* The callback of a batch sees every result.
BatchWhole == reads.step = "called" => \A i \in reads.ids : ops[i].done
AsyncSound == WaitsAnswered /\ DrainCovers /\ BatchWhole
=============================================================================
