------------------------------ MODULE Delivery ------------------------------
(***************************************************************************)
(* Calls of automation webhooks and their log: automation_trigger.go,      *)
(* internal/automationlog/automationlog.go.                                *)
(*                                                                         *)
(* A trigger that matches, or a cron that is due, calls its webhook in a  *)
(* goroutine, again after each backoff until an answer is 2xx, and then    *)
(* writes one log entry.  The ids of entries grow with time.  The log is   *)
(* listed newest first, a page to a request, each page continuing below    *)
(* the last id of the one before; a clean-up removes the oldest entries    *)
(* meanwhile.                                                              *)
(*                                                                         *)
(* Whether a trigger matches is an input here; Triggers says how it is     *)
(* decided.                                                                *)
(***************************************************************************)
EXTENDS Integers, Sequences, FiniteSets

CONSTANTS
  Firings,       \* firings of triggers and crons
  MaxAttempts,   \* len(backoffs): 4
  PageLimit,     \* limit of a listing
  MaxListings,   \* bound: listings
  MaxCleanups    \* bound: clean-ups

ASSUME DeliveryAssumption ==
  /\ {MaxAttempts, PageLimit, MaxListings, MaxCleanups} \subseteq Nat \ {0}
  /\ "earlier" \notin Firings

VARIABLES
  firing,    \* [Firings -> [pc, attempt, status, id]]
  answered,  \* history: firings the webhook answered with 2xx
  sent,     \* history: [Firings -> calls made]
  alog,      \* the bucket: set of [id, rule, status, attempt]
  nextId,    \* time, as ids see it
  listing,   \* [pc, filter, cursor, got]
  began,     \* history: ids that matched when the listing began
  listings, cleanups

deliveryVars == <<firing, answered, sent, alog, nextId, listing, began, listings, cleanups>>
listVars == <<listing, began, listings>>

NoListing == [pc |-> "idle", filter |-> "", cursor |-> 0, got |-> <<>>]

\* An entry that a former run of the server left.
Earlier == [id |-> 1, rule |-> "earlier", status |-> "error", attempt |-> MaxAttempts]

DeliveryInit ==
  /\ firing = [f \in Firings |-> [pc |-> "idle", attempt |-> 0, status |-> "", id |-> 0]]
  /\ answered = {} /\ sent = [f \in Firings |-> 0]
  /\ alog = {Earlier} /\ nextId = 2
  /\ listing = NoListing /\ began = {} /\ listings = 0 /\ cleanups = 0

-----------------------------------------------------------------------------
\* evaluateSingleTrigger once the conditions hold: a webhook that is missing or disabled is
\* logged as skipped, any other is called in a goroutine.
FireWebhook(f, enabled) ==
  /\ firing[f].pc = "idle"
  /\ firing' = [firing EXCEPT ![f].pc = IF enabled THEN "call" ELSE "log",
                              ![f].status = IF enabled THEN "" ELSE "skipped"]
  /\ UNCHANGED <<answered, sent, alog, nextId, listVars, cleanups>>

\* One turn of the loop of fireAutomationWebhook and fireCronWebhook.  A request that cannot
\* be made ends it; a failure or an answer other than 2xx is tried again.
Attempt(f, answer) ==
  /\ firing[f].pc = "call"
  /\ LET n == firing[f].attempt + 1 IN
       firing' = [firing EXCEPT ![f] =
                    [pc |-> IF answer # "failed" \/ n = MaxAttempts THEN "log" ELSE "call",
                     attempt |-> n, status |-> IF answer = "ok" THEN "success" ELSE "error", id |-> 0]]
  /\ sent' = [sent EXCEPT ![f] = @ + (IF answer = "unsent" THEN 0 ELSE 1)]
  /\ answered' = IF answer = "ok" THEN answered \cup {f} ELSE answered
  /\ UNCHANGED <<alog, nextId, listVars, cleanups>>

\* Store.Log: automationLogID ...
StampEntry(f) ==
  /\ firing[f].pc = "log"
  /\ firing' = [firing EXCEPT ![f].pc = "put", ![f].id = nextId]
  /\ nextId' = nextId + 1
  /\ UNCHANGED <<answered, sent, alog, listVars, cleanups>>

\* ... then the transaction, which another firing's may overtake.
PutEntry(f) ==
  /\ firing[f].pc = "put"
  /\ alog' = alog \cup {[id |-> firing[f].id, rule |-> f, status |-> firing[f].status,
                         attempt |-> firing[f].attempt]}
  /\ firing' = [firing EXCEPT ![f].pc = "done"]
  /\ UNCHANGED <<answered, sent, nextId, listVars, cleanups>>

\* cleanup: the entries that are older than the ttl, in one transaction.
CleanupLog(cutoff) ==
  /\ cleanups < MaxCleanups /\ cleanups' = cleanups + 1
  /\ alog' = {e \in alog : e.id >= cutoff}
  /\ UNCHANGED <<firing, answered, sent, nextId, listVars>>

-----------------------------------------------------------------------------
Matching(filter) == {e.id : e \in {x \in alog : filter = "" \/ x.status = filter}}

\* Mutant: where the cursor's entry is gone, the entry after it is taken.
SeekBeforeLands(cursor) ==
  {e.id : e \in {x \in alog : cursor = 0 \/ x.id < cursor \/ \A y \in alog : y.id # cursor}}

\* List's Seek: the entries before the cursor, whether its own entry is still there or not.
SeekBefore(cursor) == {e.id : e \in {x \in alog : cursor = 0 \/ x.id < cursor}}

\* The entries of a page: those below the cursor that match, at most one more than the limit,
\* newest first: the i-th has i - 1 newer ones.
Page(cursor, filter) ==
  LET ids == SeekBefore(cursor) \cap Matching(filter)
      length == IF Cardinality(ids) > PageLimit + 1 THEN PageLimit + 1 ELSE Cardinality(ids)
  IN [i \in 1..length |-> CHOOSE id \in ids : Cardinality({o \in ids : o > id}) = i - 1]

BeginListing(filter) ==
  /\ listing.pc # "more" /\ listings < MaxListings /\ listings' = listings + 1
  /\ listing' = [pc |-> "more", filter |-> filter, cursor |-> 0, got |-> <<>>]
  /\ began' = Matching(filter)
  /\ UNCHANGED <<firing, answered, sent, alog, nextId, cleanups>>

\* List, called with the cursor of the page before until no cursor comes back.
ListPage ==
  /\ listing.pc = "more"
  /\ LET page == Page(listing.cursor, listing.filter) IN
       listing' = IF Len(page) > PageLimit
                    THEN [listing EXCEPT !.got = @ \o SubSeq(page, 1, PageLimit),
                                         !.cursor = page[PageLimit]]
                    ELSE [listing EXCEPT !.got = @ \o page, !.pc = "done"]
  /\ UNCHANGED <<firing, answered, sent, alog, nextId, began, listings, cleanups>>

DeliveryNext ==
  \/ \E f \in Firings :
       \/ \E enabled \in BOOLEAN : FireWebhook(f, enabled)
       \/ \E answer \in {"ok", "failed", "unsent"} : Attempt(f, answer)
       \/ StampEntry(f) \/ PutEntry(f)
  \/ \E cutoff \in 2..nextId : CleanupLog(cutoff)
  \/ \E filter \in {"", "error"} : BeginListing(filter)
  \/ ListPage

DeliverySpec == DeliveryInit /\ [][DeliveryNext]_deliveryVars

-----------------------------------------------------------------------------
\* The log tells what happened to every firing (fireAutomationWebhook): one entry at most,
\* "success" exactly if the webhook answered with 2xx, and after that answer it is not called
\* again: a firing that was answered was called as often as its entry says.
LogTruthful ==
  /\ \A e \in alog \ {Earlier} :
       /\ e.status = "success" <=> e.rule \in answered
       /\ e.status = "success" => sent[e.rule] = e.attempt
       /\ e.attempt <= MaxAttempts
       /\ \A o \in alog : o.rule = e.rule => o = e
  /\ \A f \in answered : firing[f].pc # "call"

\* Reading the log page by page (List) gives every entry that was there from the first page to
\* the last exactly once, newest first, however many entries are added and however many are
\* cleaned up between two pages, the one under the cursor included.
PagesExact ==
  LET got == listing.got IN
    /\ \A i, j \in DOMAIN got : i < j => got[i] > got[j]
    /\ listing.pc = "done" =>
         began \cap {e.id : e \in alog} \subseteq {got[i] : i \in DOMAIN got}
=============================================================================
