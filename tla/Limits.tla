------------------------------- MODULE Limits -------------------------------
(***************************************************************************)
(* The counters that windows of time reset: the rate limiter of HTTP, gRPC *)
(* and MCP requests (ratelimit.go, mcp_middleware.go) and the tracker of   *)
(* failed logins (incident_detector.go).                                   *)
(*                                                                         *)
(* Both read the clock before they take their lock, so a call can act on a *)
(* time that has passed, and calls reach the counters in another order     *)
(* than their times.  A call waits for the lock at most MaxWait ticks.     *)
(* Times are ticks of a clock; a bucket ends when the clock is past until. *)
(* The windows are fixed ones, where the comments of both types speak of a *)
(* sliding window, and a new bucket has forgotten the last report, where   *)
(* AuthFailureTracker's promises a cool-down: neither promise is stated    *)
(* here as a property, for the code does not keep it (see the README).     *)
(***************************************************************************)
EXTENDS Integers, FiniteSetsExt

CONSTANTS
  Actors,     \* keys of the maps: a client id, or actor@ip
  NoBucket,   \* the key has no entry
  Budget,     \* limit + burst
  Window,     \* rl.window and t.window
  Threshold, Cooldown,   \* of AuthFailureTracker
  MaxWait,    \* bound on the time between the clock and the lock
  MaxTime,    \* bound on the clock
  MaxCalls    \* bound on calls of allow and Record

ASSUME LimitsAssumption ==
  {Budget, Window, Threshold, Cooldown} \subseteq Nat \ {0} /\ MaxWait \in 0..Window
ASSUME MaxTimeAssumption == MaxTime \in Nat
ASSUME NoBucketAssumption ==
  NoBucket \notin [count : Nat, until : Int] \cup [count : Nat, until : Int, last : Int]

VARIABLES
  clock,
  calls,       \* calls so far
  waiting,    \* [Waits -> Nat]: calls that have read the clock and wait for the lock
  limiter,    \* rl.clients
  cleanupAt,  \* rl.cleanupAt
  failures,   \* t.counts
  granted,    \* history: requests let through, per key and time
  noted,      \* history: failures recorded, per key and time
  refused,    \* history: requests refused, per key and time
  alarms      \* history: bursts reported, per key and time

limitVars == <<clock, calls, waiting, limiter, cleanupAt, failures, granted, noted, refused, alarms>>

Waits == [what : {"allow", "record"}, key : Actors, at : 0..MaxTime]
Never == [k \in Actors |-> [t \in 0..MaxTime |-> 0]]

LimitsInit ==
  /\ clock = 0
  /\ calls = 0 /\ waiting = [w \in Waits |-> 0]
  /\ limiter = [k \in Actors |-> NoBucket]
  /\ failures = [k \in Actors |-> NoBucket]
  /\ cleanupAt = -1
  /\ granted = Never /\ noted = Never /\ refused = Never /\ alarms = Never

-----------------------------------------------------------------------------
\* time.Now: the clock moves on unless a call would wait too long.
TickClock ==
  /\ clock < MaxTime
  /\ \A w \in Waits : waiting[w] > 0 => clock < w.at + MaxWait
  /\ clock' = clock + 1
  /\ UNCHANGED <<calls, waiting, limiter, cleanupAt, failures, granted, noted, refused, alarms>>

\* now := time.Now(), then the lock.
ReadClock(what, k) ==
  /\ calls < MaxCalls /\ calls' = calls + 1
  /\ waiting' = [waiting EXCEPT ![[what |-> what, key |-> k, at |-> clock]] = @ + 1]
  /\ UNCHANGED <<clock, limiter, cleanupAt, failures, granted, noted, refused, alarms>>

\* Mutant: a bucket never ends.
EndedNever(b, t) == b = NoBucket

\* !ok || now.After(bucket.windowAt)
Ended(b, t) == IF b = NoBucket THEN TRUE ELSE t > b.until

\* allow: every second window the buckets that ended are dropped; then the caller's bucket,
\* a new one if need be, counts the request.
Allow(w) ==
  LET k == w.key
      t == w.at
      cleans == t > cleanupAt
      live == [a \in Actors |-> IF cleans /\ Ended(limiter[a], t) THEN NoBucket ELSE limiter[a]]
      b == IF Ended(live[k], t) THEN [count |-> 1, until |-> t + Window]
           ELSE [live[k] EXCEPT !.count = @ + 1]
  IN /\ w.what = "allow" /\ waiting[w] > 0
     /\ waiting' = [waiting EXCEPT ![w] = @ - 1]
     /\ cleanupAt' = IF cleans THEN t + 2 * Window ELSE cleanupAt
     /\ limiter' = [live EXCEPT ![k] = b]
     /\ IF b.count <= Budget
        THEN granted' = [granted EXCEPT ![k][clock] = @ + 1] /\ refused' = refused
        ELSE refused' = [refused EXCEPT ![k][clock] = @ + 1] /\ granted' = granted
     /\ UNCHANGED <<clock, calls, failures, noted, alarms>>

\* The bucket of AuthFailureTracker.Record after the failure; lastFireAt is the zero time in a
\* new one.
Counted(b, t) ==
  IF Ended(b, t) THEN [count |-> 1, until |-> t + Window, last |-> -Cooldown]
  ELSE [b EXCEPT !.count = @ + 1]

\* Record: the burst is reported at the threshold, and again after a cool-down.
RecordFailure(w) ==
  LET k == w.key
      t == w.at
      b == Counted(failures[k], t)
      fire == b.count >= Threshold /\ t - b.last >= Cooldown
  IN /\ w.what = "record" /\ waiting[w] > 0
     /\ waiting' = [waiting EXCEPT ![w] = @ - 1]
     /\ failures' = [failures EXCEPT ![k] = IF fire THEN [b EXCEPT !.last = t] ELSE b]
     /\ noted' = [noted EXCEPT ![k][clock] = @ + 1]
     /\ alarms' = IF fire THEN [alarms EXCEPT ![k][clock] = @ + 1] ELSE alarms
     /\ UNCHANGED <<clock, calls, limiter, cleanupAt, granted, refused>>

LimitsNext ==
  \/ TickClock
  \/ \E k \in Actors, what \in {"allow", "record"} : ReadClock(what, k)
  \/ \E w \in Waits : Allow(w) \/ RecordFailure(w)

LimitsSpec == LimitsInit /\ [][LimitsNext]_limitVars

-----------------------------------------------------------------------------
During(h, k, from, to) == MapThenSumSet(LAMBDA t : h[k][t], (from..to) \cap (0..MaxTime))

\* A refusal is justified: whoever is refused was let through a whole budget of requests within
\* one window and the wait, whatever cleanups and late callers do (allow).  So a client that was
\* quiet for so long is let in, and no other client's requests count against it.
RefusalIsReal ==
  \A k \in Actors, t \in 0..MaxTime :
    refused[k][t] > 0 => During(granted, k, t - Window - MaxWait, t) >= Budget

\* A report of a burst is justified: the threshold of failures of that actor was recorded
\* within one window and the wait (AuthFailureTracker.Record), not collected over hours.
BurstIsReal ==
  \A k \in Actors, t \in 0..MaxTime :
    alarms[k][t] > 0 => During(noted, k, t - Window - MaxWait, t) >= Threshold

\* Neither a request refused nor a burst reported has its reason in what the windows were to
\* forget (allow, Record).
LimitsHold == RefusalIsReal /\ BurstIsReal
=============================================================================
