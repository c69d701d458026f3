------------------------------ MODULE Temporal ------------------------------
(***************************************************************************)
(* Lifecycle events of documents: internal/temporal/temporal.go.           *)
(*                                                                         *)
(* RecordAsync stamps an event with the time and a sequence number and     *)
(* offers it to a channel; requests do so concurrently, so events reach    *)
(* the channel in another order than they were stamped in.  One goroutine  *)
(* gathers them and writes them in batches, an event to a key, adding up   *)
(* the accesses of a document in its hot counter; a transaction that fails *)
(* loses its batch, for run drops the error and has already let go of the  *)
(* jobs.  Nothing but the end of the process ends the goroutine: no code   *)
(* of the program calls Stop.                                              *)
(*                                                                         *)
(* Time is counted in days, day 0 being 1970-01-01, a Thursday.            *)
(***************************************************************************)
EXTENDS Integers, Sequences, FiniteSets

CONSTANTS
  TDocs,       \* documents
  Recorders,   \* requests that record an event
  TStart,      \* the day the clock starts at
  MaxDays,     \* bound on how far it goes
  TChanCap,    \* capacity of the channel (2000)
  TBatch,      \* events that make a batch (500)
  MaxEvents,   \* bound on events
  HistoFrom, HistoTo   \* days over which weeks are looked at

ASSUME TemporalAssumption ==
  {TStart, MaxDays, TChanCap, TBatch, MaxEvents, HistoFrom, HistoTo} \subseteq Nat
ASSUME RecordersAssumption == IsFiniteSet(Recorders)

VARIABLES
  day, seq,     \* time.Now, tm.seq
  recorder,     \* [Recorders -> <<>> or <<the event stamped>>]
  tchan,        \* tm.ch
  pending,      \* what run has gathered
  evts,         \* bucket temporal: the keys
  hot,          \* bucket temporal_hot: [TDocs -> [count, last]]
  tdropped,     \* history: events dropped at a full channel
  tlost,        \* history: events lost with a batch that failed
  trecorded     \* history: events stamped

temporalVars == <<day, seq, recorder, tchan, pending, evts, hot, tdropped, tlost, trecorded>>

TypesOfEvent == {"update", "access"}

TemporalInit ==
  /\ day = TStart /\ seq = 0
  /\ recorder = [r \in Recorders |-> <<>>]
  /\ tchan = <<>> /\ pending = <<>> /\ evts = {}
  /\ hot = [d \in TDocs |-> [count |-> 0, last |-> 0]]
  /\ tdropped = 0 /\ tlost = 0 /\ trecorded = 0

NextDay ==
  /\ day < TStart + MaxDays /\ day' = day + 1
  /\ UNCHANGED <<seq, recorder, tchan, pending, evts, hot, tdropped, tlost, trecorded>>

\* RecordAsync: the job is made ...
StampEvent(r, d, type) ==
  /\ recorder[r] = <<>> /\ trecorded < MaxEvents
  /\ seq' = seq + 1 /\ trecorded' = trecorded + 1
  /\ recorder' = [recorder EXCEPT ![r] = <<[doc |-> d, type |-> type, ts |-> day, seq |-> seq + 1]>>]
  /\ UNCHANGED <<day, tchan, pending, evts, hot, tdropped, tlost>>

\* ... and sent, or dropped if the channel is full.
SendEvent(r) ==
  /\ recorder[r] # <<>>
  /\ IF Len(tchan) < TChanCap THEN tchan' = tchan \o recorder[r] /\ UNCHANGED tdropped
                              ELSE UNCHANGED tchan /\ tdropped' = tdropped + 1
  /\ recorder' = [recorder EXCEPT ![r] = <<>>]
  /\ UNCHANGED <<day, seq, pending, evts, hot, tlost, trecorded>>

\* Mutant: keys without the sequence number.
EventKeyByTime(j) == [doc |-> j.doc, type |-> j.type, ts |-> j.ts, seq |-> 0]

\* evtKey.
EventKey(j) == [doc |-> j.doc, type |-> j.type, ts |-> j.ts, seq |-> j.seq]

\* The hot counter after the accesses among the jobs.
Access(h, jobs, accesses) ==
  LET times == {h.last} \cup {jobs[i].ts : i \in accesses}
  IN [count |-> h.count + Cardinality(accesses), last |-> CHOOSE t \in times : \A u \in times : t >= u]

\* flush: one transaction, which is committed as a whole or fails and loses the jobs.  A batch
\* that bolt runs again starts from the same jobs.
Flush(jobs) ==
  /\ pending' = <<>>
  /\ \/ /\ evts' = evts \cup {EventKey(jobs[i]) : i \in DOMAIN jobs}
        /\ hot' = [d \in TDocs |->
                     Access(hot[d], jobs, {i \in DOMAIN jobs : jobs[i].doc = d /\ jobs[i].type = "access"})]
        /\ UNCHANGED tlost
     \/ tlost' = tlost + Len(jobs) /\ UNCHANGED <<evts, hot>>

\* run: a job is taken, and the batch written when it is large enough.
RunTake ==
  /\ tchan # <<>>
  /\ tchan' = Tail(tchan)
  /\ LET jobs == Append(pending, Head(tchan)) IN
       IF Len(jobs) >= TBatch THEN Flush(jobs) ELSE pending' = jobs /\ UNCHANGED <<evts, hot, tlost>>
  /\ UNCHANGED <<day, seq, recorder, tdropped, trecorded>>

\* run: the ticker.
RunTick ==
  /\ pending # <<>>
  /\ Flush(pending)
  /\ UNCHANGED <<day, seq, recorder, tchan, tdropped, trecorded>>

TemporalNext ==
  \/ NextDay \/ RunTake \/ RunTick
  \/ \E r \in Recorders :
       SendEvent(r) \/ \E d \in TDocs, type \in TypesOfEvent : StampEvent(r, d, type)

TemporalSpec == TemporalInit /\ [][TemporalNext]_temporalVars

-----------------------------------------------------------------------------
(* Weeks of a histogram. *)

LeapYear(y) == y % 4 = 0 /\ (y % 100 # 0 \/ y % 400 = 0)

\* The day number of January the first.
NewYear(y) == 365 * (y - 1970) + Cardinality({l \in 1970..y - 1 : LeapYear(l)})
YearOf(d) == CHOOSE y \in 1970..1970 + d \div 365 : NewYear(y) <= d /\ d < NewYear(y + 1)

\* time.Weekday: Sunday is 0.
Weekday(d) == (d + 4) % 7

\* time.ISOWeek: the year and the week of the week's Thursday.
ISOWeek(d) ==
  LET thursday == d + 3 - ((d + 3) % 7)
      y == YearOf(thursday)
  IN [year |-> y, week |-> (thursday - NewYear(y)) \div 7 + 1]

\* isoWeekStart.
IsoWeekStart(year, week) ==
  LET jan4 == NewYear(year) + 3
      weekday == IF Weekday(jan4) = 0 THEN 7 ELSE Weekday(jan4)
  IN jan4 - (weekday - 1) + (week - 1) * 7

\* ComputeHistogram, interval "week": the bucket of a day.
WeekBucket(d) ==
  LET w == ISOWeek(d)
      monday == IsoWeekStart(w.year, w.week)
  IN [from |-> monday, to |-> monday + 7]

-----------------------------------------------------------------------------
\* Every event is stored once, under a key of its own, unless the channel was full or its batch
\* failed (RecordAsync, run, flush): events stamped at one time in one document do not overwrite
\* each other, and none is written twice or forgotten between channel and batch.  A failed
\* batch is lost whole and told of nowhere; only this model counts it.
EventsKept ==
  trecorded = Cardinality({r \in Recorders : recorder[r] # <<>>}) + Len(tchan) + Len(pending)
                + Cardinality(evts) + tdropped + tlost

\* The hot counter of a document (flush) is the number of its access events that are stored,
\* and its last access the latest of their times, in whatever order they arrived.
HotIsCounted ==
  \A d \in TDocs :
    LET mine == {e \in evts : e.doc = d /\ e.type = "access"} IN
      /\ hot[d].count = Cardinality(mine)
      /\ \A e \in mine : e.ts <= hot[d].last
      /\ hot[d].last # 0 => \E e \in mine : e.ts = hot[d].last

\* ComputeHistogram counts a day in the bucket of its own week, Monday to Sunday, across the
\* ends of years: isoWeekStart undoes ISOWeek, also in years of 53 weeks and in the days of
\* January and December that belong to another year's week.
WeekBucketExact ==
  (day = TStart + MaxDays /\ trecorded = 0) =>
    \A d \in HistoFrom..HistoTo :
      WeekBucket(d) = [from |-> d - ((d + 3) % 7), to |-> d - ((d + 3) % 7) + 7]

\* Events, counters and histogram tell the same story (RecordAsync, run, ComputeHistogram): no
\* event takes the place of another, the counters match the events that are stored, whichever
\* batches failed, and a day is in its own week.
TemporalExact == EventsKept /\ HotIsCounted /\ WeekBucketExact
=============================================================================
