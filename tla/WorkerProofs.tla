---------------------------- MODULE WorkerProofs ----------------------------
(***************************************************************************)
(* Proofs about the background workers: the cron scheduler, which follows  *)
(* the automation rules (Automations), the embedding workers, which keep a *)
(* document's chunks (Embeddings), and the worker of the bulk jobs, for    *)
(* any number of jobs, handlers and chunks (BulkIngest); and about the     *)
(* layers of the extreme mode, each with a worker of its own beside its    *)
(* callers (Mvcc, Wal, Sharding, LockFreeCache, AsyncIO).                  *)
(***************************************************************************)
EXTENDS Automations, Embeddings, MCProgress, FiniteSetTheorems, FunctionTheorems, SequenceTheorems,
        WellFoundedInduction, TLAPS

-----------------------------------------------------------------------------
(* The cron scheduler. *)

AutoTyped ==
  /\ rules = [r \in RuleIds |-> rules[r]] /\ ruleBucket = [r \in RuleIds |-> ruleBucket[r]]
  /\ made \subseteq RuleIds
  /\ aclient = [c \in AClients |-> aclient[c]]
  /\ \A c \in AClients :
       /\ aclient[c] = [pc |-> aclient[c].pc, via |-> aclient[c].via, id |-> aclient[c].id,
                        rule |-> aclient[c].rule, kinds |-> aclient[c].kinds, todo |-> aclient[c].todo]
       /\ aclient[c].pc \in {"append", "lookup", "update", "replace", "remove"} => aclient[c].id \in made
       /\ aclient[c].pc \in {"append", "update", "replace"} => aclient[c].kinds = {aclient[c].rule.kind}
       /\ aclient[c].pc = "remove" => aclient[c].rule = NoRule
       /\ aclient[c].pc = "add" => \A x \in aclient[c].todo : x.id \in RuleIds
  /\ \A x \in entryMap : x.id \in RuleIds

\* The webhook a cron calls has been in the slice: it can leave, but only a restart brings it back.
Held(rule) ==
  \/ rule = NoRule
  \/ rule.kind # "cron"
  \/ rule.hook \in RuleIds /\ Known(rule.hook)

RulesKnown ==
  /\ \A r \in RuleIds : /\ rules[r] # NoRule => Known(r)
                        /\ ruleBucket[r] # NoRule => r \in made
                        /\ Held(rules[r]) /\ Held(ruleBucket[r])
  /\ \A c \in AClients : aclient[c].pc \in {"append", "update", "replace"} => Held(aclient[c].rule)
  /\ \A u \in unsaved : u.id \in made /\ Held(u.rule)
  /\ \A c, d \in AClients :
       (aclient[c].pc = "append" /\ aclient[d].pc = "append" /\ aclient[c].id = aclient[d].id) => c = d

LockHeld == \A c \in AClients : aclient[c].pc = "add" => csmu = c

\* A cron that is scheduled or that the client in Reload is about to add.
Scheduled(x) == x \in entryMap \/ \E c \in AClients : aclient[c].pc = "add" /\ x \in aclient[c].todo

\* Unless a Reload is due, the scheduler follows the slice, but for crons changed without one.
CronsFollow ==
  (\A c \in AClients : aclient[c].pc # "reload") =>
    /\ \A x : (Scheduled(x) /\ x.id \notin missed) => x \in Listed(rules)
    /\ \A x \in Runnable(rules) : x.id \notin missed => Scheduled(x)

AutoInv == AutoTyped /\ RulesKnown /\ LockHeld /\ CronsFollow

-----------------------------------------------------------------------------
\* The record a request starts with.
LEMMA StepRecord ==
  ASSUME NEW c \in AClients, NEW pc, NEW via, NEW id, NEW rule, NEW kinds,
         AStep(c, pc, via, id, rule, kinds)
  PROVE  aclient' = [aclient EXCEPT ![c] =
                       [pc |-> pc, via |-> via, id |-> id, rule |-> rule, kinds |-> kinds, todo |-> {}]]
<1> DEFINE a == [AIdle EXCEPT !.pc = pc, !.via = via, !.id = id, !.rule = rule, !.kinds = kinds]
<1>1. a \in [pc : {pc}, via : {via}, id : {id}, rule : {rule}, kinds : {kinds}, todo : {{}}]
  BY DEF AIdle
<1>2. aclient' = [aclient EXCEPT ![c] = a]
  BY DEF AStep
<1> HIDE DEF a
<1>3. a = [pc |-> pc, via |-> via, id |-> id, rule |-> rule, kinds |-> kinds, todo |-> {}]
  BY <1>1
<1>4. QED BY <1>2, <1>3

\* A client at rest.
LEMMA IdleRecord ==
  /\ AIdle.pc = "idle"
  /\ AIdle = [pc |-> AIdle.pc, via |-> AIdle.via, id |-> AIdle.id, rule |-> AIdle.rule,
              kinds |-> AIdle.kinds, todo |-> AIdle.todo]
  BY DEF AIdle

\* A step of one client leaves the others alone.
LEMMA RuleStep ==
  ASSUME AutoTyped, NEW c \in AClients, NEW a, aclient' = [aclient EXCEPT ![c] = a]
  PROVE  /\ aclient' = [d \in AClients |-> aclient'[d]] /\ aclient'[c] = a
         /\ \A d \in AClients : d # c => aclient'[d] = aclient[d]
  BY DEF AutoTyped

\* What is known stays known while ids are only given out anew.
LEMMA KnownKept ==
  ASSUME made \subseteq made',
         \A d \in AClients : aclient'[d].pc = "append" =>
           \/ aclient[d].pc = "append" /\ aclient'[d].id = aclient[d].id
           \/ aclient'[d].id \notin made
  PROVE  \A h : Known(h) => (h \in made' /\ \A d \in AClients :
                                ~(aclient'[d].pc = "append" /\ aclient'[d].id = h))
  BY DEF Known

\* Steps that leave the slice, the scheduler and the clients in Reload as they are.
LEMMA FollowKept ==
  ASSUME CronsFollow, UNCHANGED <<rules, entryMap, missed>>,
         \A d \in AClients :
           /\ aclient'[d].pc = "reload" <=> aclient[d].pc = "reload"
           /\ aclient'[d].pc = "add" <=> aclient[d].pc = "add"
           /\ aclient[d].pc = "add" => aclient'[d].todo = aclient[d].todo
  PROVE  CronsFollow'
<1>1. \A x : Scheduled(x)' <=> Scheduled(x)
  BY DEF Scheduled
<1>2. Listed(rules)' = Listed(rules) /\ Runnable(rules)' = Runnable(rules)
  BY DEF Listed, Runnable, EnabledCrons, IsHook
<1>3. QED BY <1>1, <1>2 DEF CronsFollow

\* What is listed for the scheduler is a cron of a rule.
LEMMA ListedShape ==
  ASSUME NEW saved, NEW x
  PROVE  /\ x \in Listed(saved) <=>
              \E r \in RuleIds : /\ saved[r] # NoRule /\ saved[r].kind = "cron" /\ saved[r].enabled
                                 /\ x = [id |-> r, hook |-> saved[r].hook, parses |-> saved[r].parses]
         /\ x \in Listed(saved) =>
              /\ x.id \in RuleIds /\ saved[x.id] # NoRule /\ saved[x.id].kind = "cron"
              /\ x.hook = saved[x.id].hook
         /\ x \in Runnable(saved) <=> x \in Listed(saved) /\ IsHook(saved, x.hook) /\ x.parses
<1>1. x \in Listed(saved) <=>
        \E r \in RuleIds : /\ saved[r] # NoRule /\ saved[r].kind = "cron" /\ saved[r].enabled
                           /\ x = [id |-> r, hook |-> saved[r].hook, parses |-> saved[r].parses]
  BY DEF Listed, EnabledCrons
<1>2. x \in Runnable(saved) <=> x \in Listed(saved) /\ IsHook(saved, x.hook) /\ x.parses
  BY DEF Runnable
<1>3. QED BY <1>1, <1>2

\* The scheduler starts with the crons that are stored.
LEMMA AutoInvInit == AutoInit => AutoInv
<1> SUFFICES ASSUME AutoInit PROVE AutoInv
  OBVIOUS
<1>1. /\ rules = InitRules /\ ruleBucket = InitRules /\ entryMap = Runnable(InitRules) /\ unsaved = {}
      /\ aclient = [c \in AClients |-> AIdle]
  BY DEF AutoInit
<1>2. \A c \in AClients : aclient[c] = AIdle /\ aclient[c].pc = "idle"
  BY <1>1, IdleRecord
<1>3. \A r \in RuleIds : /\ InitRules[r] \in Rule \cup {NoRule}
                         /\ InitRules[r] # NoRule /\ InitRules[r].kind = "cron" => InitRules[r].hook # NoRule
  BY InitRulesAssumption
<1>4. \A r \in RuleIds : /\ InitRules[r] # NoRule => r \in made
                         /\ InitRules[r] # NoRule /\ InitRules[r].kind = "cron" => InitRules[r].hook \in made
  BY <1>3 DEF AutoInit
<1>5. made \subseteq RuleIds
  <2>1. \A r \in RuleIds : InitRules[r] # NoRule => InitRules[r].hook \in HookIds \cup {NoRule}
    BY <1>3 DEF Rule
  <2>2. QED BY <2>1 DEF AutoInit, RuleIds
<1>6. AutoTyped
  <2>1. InitRules = [r \in RuleIds |-> InitRules[r]]
    BY InitRulesAssumption
  <2>2. \A x \in entryMap : x.id \in RuleIds
    BY <1>1, ListedShape
  <2>3. QED BY <1>1, <1>2, <1>5, <2>1, <2>2, IdleRecord DEF AutoTyped
<1>7. RulesKnown /\ LockHeld
  <2>1. \A h \in made : Known(h)
    BY <1>2 DEF Known
  <2>2. \A r \in RuleIds : Held(InitRules[r])
    BY <1>3, <1>4, <1>5, <2>1 DEF Held
  <2>3. QED BY <1>1, <1>2, <1>4, <2>1, <2>2 DEF RulesKnown, LockHeld
<1>8. CronsFollow
  <2>1. \A x : Scheduled(x) <=> x \in Runnable(InitRules)
    BY <1>1, <1>2 DEF Scheduled
  <2>2. QED BY <1>1, <2>1, ListedShape DEF CronsFollow
<1>9. QED BY <1>6, <1>7, <1>8 DEF AutoInv

\* A rule that passes validateRule names a webhook that is in the slice.
LEMMA ValidIsHeld ==
  ASSUME RulesKnown, NEW rule, ValidRule(rule)
  PROVE  Held(rule)
  BY DEF ValidRule, IsHook, Held, RulesKnown

\* Create, Update and Delete up to the change of the slice: the request goes on with the rule it
\* has, or is refused, and the bucket holds that rule or what it held.
LEMMA RequestKeeps ==
  ASSUME AutoInv, NEW c \in AClients, NEW a, aclient' = [aclient EXCEPT ![c] = a],
         a = [pc |-> a.pc, via |-> a.via, id |-> a.id, rule |-> a.rule, kinds |-> a.kinds, todo |-> a.todo],
         aclient[c].pc \in {"idle", "lookup", "update"},
         a.pc \in {"idle", "append", "lookup", "update", "replace", "remove"},
         made \subseteq made', made' \subseteq RuleIds, a.pc # "idle" => a.id \in made',
         a.pc = "append" => a.id \notin made,
         a.pc = "remove" => a.rule = NoRule,
         a.pc \in {"append", "update", "replace"} => Held(a.rule) /\ a.kinds = {a.rule.kind},
         \/ ruleBucket' = ruleBucket
         \/ a.pc \in {"append", "replace", "remove"} /\ ruleBucket' = [ruleBucket EXCEPT ![a.id] = a.rule],
         UNCHANGED <<rules, entryMap, csmu, unsaved, missed>>
  PROVE  AutoInv'
<1>1. AutoTyped /\ RulesKnown /\ LockHeld /\ CronsFollow
  BY DEF AutoInv
<1>2. /\ aclient' = [d \in AClients |-> aclient'[d]] /\ aclient'[c] = a
      /\ \A d \in AClients : d # c => aclient'[d] = aclient[d]
  BY <1>1, RuleStep
<1>3. \A h : Known(h) => (h \in made' /\ \A d \in AClients :
                             ~(aclient'[d].pc = "append" /\ aclient'[d].id = h))
  BY <1>2, KnownKept
<1>4. AutoTyped'
  <2>1. ruleBucket' = [r \in RuleIds |-> ruleBucket'[r]]
    BY <1>1 DEF AutoTyped
  <2>2. QED BY <1>1, <1>2, <2>1 DEF AutoTyped
<1>5. RulesKnown'
  <2>1. \A r \in RuleIds : \/ ruleBucket'[r] = ruleBucket[r]
                           \/ r = a.id /\ ruleBucket'[r] = a.rule /\ a.id \in made' /\ Held(a.rule)
    BY <1>1 DEF AutoTyped, Held
  <2>2. \A r \in RuleIds : /\ rules'[r] # NoRule => Known(r)'
                           /\ ruleBucket'[r] # NoRule => r \in made'
    BY <1>1, <1>3, <2>1 DEF RulesKnown, Known
  <2>3. \A r \in RuleIds : Held(rules[r])' /\ Held(ruleBucket[r])'
    BY <1>1, <1>3, <2>1 DEF RulesKnown, Held, Known
  <2>4. \A d \in AClients : aclient'[d].pc \in {"append", "update", "replace"} => Held(aclient[d].rule)'
    BY <1>1, <1>2, <1>3 DEF RulesKnown, Held, Known
  <2>5. \A u \in unsaved' : u.id \in made' /\ Held(u.rule)'
    BY <1>1, <1>3 DEF RulesKnown, Held, Known
  <2>6. \A d, f \in AClients : (aclient'[d].pc = "append" /\ aclient'[f].pc = "append"
                                /\ aclient'[d].id = aclient'[f].id) => d = f
    BY <1>1, <1>2 DEF RulesKnown, AutoTyped
  <2>7. QED BY <2>2, <2>3, <2>4, <2>5, <2>6 DEF RulesKnown
<1>6. LockHeld'
  BY <1>1, <1>2 DEF LockHeld
<1>7. CronsFollow'
  BY <1>1, <1>2, FollowKept
<1>8. QED BY <1>4, <1>5, <1>6, <1>7 DEF AutoInv

\* A rule is created: it is stored, to be appended to the slice.
LEMMA CreateRuleKeeps ==
  ASSUME AutoInv, NEW c \in AClients, NEW via \in Transports, NEW id \in RuleIds, NEW body \in Body,
         CreateRule(c, via, id, body)
  PROVE  AutoInv'
<1>1. AutoTyped /\ RulesKnown
  BY DEF AutoInv
<1>2. PICK kind, rule :
        /\ rule = AsRule(kind, body) /\ aclient[c].pc = "idle" /\ id \notin made /\ made' = made \cup {id}
        /\ ruleBucket' = [ruleBucket EXCEPT ![id] = rule] /\ AStep(c, "append", via, id, rule, {kind})
        /\ UNCHANGED <<rules, entryMap, csmu, unsaved, missed>> /\ ValidRule(rule)
  BY DEF CreateRule, ARequest
<1> DEFINE a == [pc |-> "append", via |-> via, id |-> id, rule |-> rule, kinds |-> {kind}, todo |-> {}]
<1>3. aclient' = [aclient EXCEPT ![c] = a]
  BY <1>2, StepRecord
<1>4. Held(rule) /\ rule.kind = kind
  BY <1>1, <1>2, ValidIsHeld DEF AsRule
<1>5. /\ a.pc = "append" /\ a.id = id /\ a.rule = rule /\ a.kinds = {a.rule.kind}
      /\ a = [pc |-> a.pc, via |-> a.via, id |-> a.id, rule |-> a.rule, kinds |-> a.kinds, todo |-> a.todo]
  BY <1>4
<1>6. made \subseteq made' /\ made' \subseteq RuleIds /\ id \in made'
  BY <1>1, <1>2 DEF AutoTyped
<1> HIDE DEF a
<1>7. QED BY <1>2, <1>3, <1>4, <1>5, <1>6, RequestKeeps

\* An update finds the rule in the slice.
LEMMA UpdateRuleKeeps ==
  ASSUME AutoInv, NEW c \in AClients, NEW via \in Transports, NEW id \in RuleIds, NEW body \in Body,
         UpdateRule(c, via, id, body)
  PROVE  AutoInv'
<1> DEFINE a == [pc |-> "lookup", via |-> via, id |-> id, rule |-> body,
                 kinds |-> {rules[id].kind}, todo |-> {}]
<1>1. AutoTyped /\ RulesKnown
  BY DEF AutoInv
<1>2. /\ aclient[c].pc = "idle" /\ rules[id] # NoRule
      /\ AStep(c, "lookup", via, id, body, {rules[id].kind})
      /\ UNCHANGED <<ruleBucket, rules, made, entryMap, csmu, unsaved, missed>>
  BY DEF UpdateRule, ARequest
<1>3. aclient' = [aclient EXCEPT ![c] = a]
  BY <1>2, StepRecord
<1>4. /\ a.pc = "lookup" /\ a.id = id
      /\ a = [pc |-> a.pc, via |-> a.via, id |-> a.id, rule |-> a.rule, kinds |-> a.kinds, todo |-> a.todo]
  OBVIOUS
<1>5. made \subseteq made' /\ made' \subseteq RuleIds /\ id \in made'
  BY <1>1, <1>2 DEF AutoTyped, RulesKnown, Known
<1> HIDE DEF a
<1>6. QED BY <1>2, <1>3, <1>4, <1>5, RequestKeeps

\* It reads a type: the new rule passes the check, or the update is refused.
LEMMA UpdateCheckKeeps ==
  ASSUME AutoInv, NEW c \in AClients, UpdateCheck(c)
  PROVE  AutoInv'
<1> DEFINE b == aclient[c]
<1>1. AutoTyped /\ RulesKnown
  BY DEF AutoInv
<1>2. PICK kind \in b.kinds : aclient' = [aclient EXCEPT ![c] =
          IF ValidRule(AsRule(kind, b.rule))
            THEN [b EXCEPT !.pc = "update", !.rule = AsRule(kind, b.rule), !.kinds = {kind}] ELSE AIdle]
  BY Zenon DEF UpdateCheck
<1> DEFINE rule == AsRule(kind, b.rule)
<1>3. b.pc = "lookup" /\ UNCHANGED <<ruleBucket, rules, made, entryMap, csmu, unsaved, missed>>
  BY DEF UpdateCheck
<1>4. made' \subseteq RuleIds /\ b.id \in made' /\ made \subseteq made'
  BY <1>1, <1>3 DEF AutoTyped
<1>5. CASE ValidRule(rule)
  <2> DEFINE a == [pc |-> "update", via |-> b.via, id |-> b.id, rule |-> rule, kinds |-> {kind}, todo |-> b.todo]
  <2>1. aclient' = [aclient EXCEPT ![c] = a]
    <3> DEFINE e == [b EXCEPT !.pc = "update", !.rule = rule, !.kinds = {kind}]
    <3>1. b = [pc |-> b.pc, via |-> b.via, id |-> b.id, rule |-> b.rule, kinds |-> b.kinds, todo |-> b.todo]
      BY <1>1 DEF AutoTyped
    <3>2. e \in [pc : {"update"}, via : {b.via}, id : {b.id}, rule : {rule}, kinds : {{kind}}, todo : {b.todo}]
      BY <3>1
    <3>3. aclient' = [aclient EXCEPT ![c] = e]
      BY <1>2, <1>5
    <3> HIDE DEF e
    <3>4. e = a
      BY <3>2
    <3>5. QED BY <3>3, <3>4
  <2>2. Held(rule) /\ rule.kind = kind
    BY <1>1, <1>2, <1>5, ValidIsHeld DEF AsRule
  <2>3. /\ a.pc = "update" /\ a.id = b.id /\ a.rule = rule /\ a.kinds = {a.rule.kind}
        /\ a = [pc |-> a.pc, via |-> a.via, id |-> a.id, rule |-> a.rule, kinds |-> a.kinds, todo |-> a.todo]
    BY <2>2
  <2> HIDE DEF a
  <2>4. QED BY <1>3, <1>4, <2>1, <2>2, <2>3, RequestKeeps
<1>6. CASE ~ValidRule(rule)
  <2>1. aclient' = [aclient EXCEPT ![c] = AIdle]
    BY <1>2, <1>6
  <2>2. QED BY <1>3, <1>4, <2>1, IdleRecord, RequestKeeps
<1>7. QED BY <1>5, <1>6

\* An update stores the rule, to be replaced in the slice.
LEMMA UpdatePutKeeps ==
  ASSUME AutoInv, NEW c \in AClients, UpdatePut(c)
  PROVE  AutoInv'
<1> DEFINE b == aclient[c]
<1> DEFINE a == [pc |-> "replace", via |-> b.via, id |-> b.id, rule |-> b.rule, kinds |-> b.kinds, todo |-> b.todo]
<1>1. AutoTyped /\ RulesKnown
  BY DEF AutoInv
<1>2. /\ b.pc = "update" /\ ruleBucket' = [ruleBucket EXCEPT ![b.id] = b.rule]
      /\ aclient' = [aclient EXCEPT ![c].pc = "replace"]
      /\ UNCHANGED <<rules, made, entryMap, csmu, unsaved, missed>>
  BY DEF UpdatePut
<1>3. aclient' = [aclient EXCEPT ![c] = a]
  <2>1. aclient' = [aclient EXCEPT ![c] = [b EXCEPT !.pc = "replace"]]
    BY <1>1, <1>2 DEF AutoTyped
  <2>2. b = [pc |-> b.pc, via |-> b.via, id |-> b.id, rule |-> b.rule, kinds |-> b.kinds, todo |-> b.todo]
    BY <1>1 DEF AutoTyped
  <2>3. [b EXCEPT !.pc = "replace"] = a
    BY <2>2
  <2>4. QED BY <2>1, <2>3
<1>4. Held(b.rule) /\ b.id \in made /\ b.kinds = {b.rule.kind}
  BY <1>1, <1>2 DEF AutoTyped, RulesKnown
<1>5. /\ a.pc = "replace" /\ a.id = b.id /\ a.rule = b.rule /\ a.kinds = b.kinds
      /\ a = [pc |-> a.pc, via |-> a.via, id |-> a.id, rule |-> a.rule, kinds |-> a.kinds, todo |-> a.todo]
  OBVIOUS
<1>6. made \subseteq made' /\ made' \subseteq RuleIds /\ b.id \in made'
  BY <1>1, <1>2, <1>4 DEF AutoTyped
<1>7. Held(a.rule) /\ a.kinds = {a.rule.kind} /\ ruleBucket' = [ruleBucket EXCEPT ![a.id] = a.rule]
  BY <1>2, <1>4, <1>5
<1> HIDE DEF a
<1>8. QED BY <1>2, <1>3, <1>4, <1>5, <1>6, <1>7, RequestKeeps

\* A deletion removes the rule from the store first.
LEMMA DeleteRuleKeeps ==
  ASSUME AutoInv, NEW c \in AClients, NEW via \in Transports, NEW id \in RuleIds, DeleteRule(c, via, id)
  PROVE  AutoInv'
<1> DEFINE read == IF rules[id] = NoRule THEN {} ELSE {rules[id].kind}
<1> DEFINE a == [pc |-> "remove", via |-> via, id |-> id, rule |-> NoRule, kinds |-> read, todo |-> {}]
<1>1. AutoTyped /\ RulesKnown
  BY DEF AutoInv
<1>2. /\ aclient[c].pc = "idle" /\ Known(id)
      /\ ruleBucket' = [ruleBucket EXCEPT ![id] = NoRule] /\ AStep(c, "remove", via, id, NoRule, read)
      /\ UNCHANGED <<rules, made, entryMap, csmu, unsaved, missed>>
  BY DEF DeleteRule, ARequest
<1> HIDE DEF read
<1>3. aclient' = [aclient EXCEPT ![c] = a]
  BY <1>2, StepRecord
<1>4. /\ a.pc = "remove" /\ a.id = id /\ a.rule = NoRule
      /\ a = [pc |-> a.pc, via |-> a.via, id |-> a.id, rule |-> a.rule, kinds |-> a.kinds, todo |-> a.todo]
  OBVIOUS
<1>5. made \subseteq made' /\ made' \subseteq RuleIds /\ id \in made'
  BY <1>1, <1>2 DEF AutoTyped, Known
<1> HIDE DEF a
<1>6. QED BY <1>2, <1>3, <1>4, <1>5, RequestKeeps

\* What another client may read of a rule changes nothing else about it.
LEMMA RereadRecord ==
  ASSUME NEW d, NEW a,
         d = [pc |-> d.pc, via |-> d.via, id |-> d.id, rule |-> d.rule, kinds |-> d.kinds, todo |-> d.todo]
  PROVE  LET e == [d EXCEPT !.kinds = Reread(d, a)] IN
           /\ e = [pc |-> d.pc, via |-> d.via, id |-> d.id, rule |-> d.rule, kinds |-> e.kinds, todo |-> d.todo]
           /\ d.pc # "lookup" => e = d
<1>1. ASSUME NEW k PROVE
        LET e == [d EXCEPT !.kinds = k] IN
          /\ e = [pc |-> d.pc, via |-> d.via, id |-> d.id, rule |-> d.rule, kinds |-> k, todo |-> d.todo]
          /\ e.kinds = k /\ (k = d.kinds => e = d)
  OBVIOUS
<1>2. d.pc # "lookup" => Reread(d, a) = d.kinds
  BY DEF Reread
<1>3. QED BY <1>1, <1>2

\* The change of the slice.  A rule a cron calls is not one that is still to be appended, so that
\* without a Reload nothing becomes runnable that was not, unless the scheduler has missed it.
LEMMA ChangeSliceKeeps ==
  ASSUME AutoInv, NEW c \in AClients, ChangeSlice(c)
  PROVE  AutoInv'
<1>1. AutoTyped /\ RulesKnown /\ LockHeld /\ CronsFollow
  BY DEF AutoInv
<1>2. PICK b : b = aclient[c]
  OBVIOUS
<1>3. PICK a : a = IF Reloads(b) THEN [b EXCEPT !.pc = "reload"] ELSE AIdle
  OBVIOUS
<1>4. /\ b.pc \in {"append", "replace", "remove"}
      /\ aclient' = [d \in AClients |-> IF d # c THEN [aclient[d] EXCEPT !.kinds = Reread(aclient[d], b)] ELSE a]
      /\ rules' = IF b.pc = "replace" /\ rules[b.id] = NoRule THEN rules
                   ELSE [rules EXCEPT ![b.id] = b.rule]
      /\ missed' = missed \cup Missing(b)
      /\ UNCHANGED <<ruleBucket, made, entryMap, csmu, unsaved>>
  BY <1>2, <1>3 DEF ChangeSlice
<1>5. /\ b = [pc |-> b.pc, via |-> b.via, id |-> b.id, rule |-> b.rule, kinds |-> b.kinds, todo |-> b.todo]
      /\ b.id \in made /\ b.id \in RuleIds
      /\ b.pc = "remove" => b.rule = NoRule
      /\ b.pc # "remove" => b.kinds = {b.rule.kind}
  BY <1>1, <1>2, <1>4 DEF AutoTyped
<1>6. /\ a.pc \in {"reload", "idle"} /\ (a.pc = "reload" <=> Reloads(b))
      /\ a = [pc |-> a.pc, via |-> a.via, id |-> a.id, rule |-> a.rule, kinds |-> a.kinds, todo |-> a.todo]
  <2>1. CASE Reloads(b)
    <3>1. a = [pc |-> "reload", via |-> b.via, id |-> b.id, rule |-> b.rule, kinds |-> b.kinds, todo |-> b.todo]
      BY <1>3, <1>5, <2>1
    <3>2. QED BY <2>1, <3>1
  <2>2. CASE ~Reloads(b)
    BY <1>3, <2>2, IdleRecord
  <2>3. QED BY <2>1, <2>2
<1>7. /\ aclient' = [d \in AClients |-> aclient'[d]] /\ aclient'[c] = a
      /\ \A d \in AClients : d # c =>
           /\ aclient'[d] = [pc |-> aclient[d].pc, via |-> aclient[d].via, id |-> aclient[d].id,
                             rule |-> aclient[d].rule, kinds |-> aclient'[d].kinds, todo |-> aclient[d].todo]
           /\ aclient[d].pc # "lookup" => aclient'[d] = aclient[d]
  <2>1. ASSUME NEW d \in AClients, d # c
        PROVE  /\ aclient'[d] = [pc |-> aclient[d].pc, via |-> aclient[d].via, id |-> aclient[d].id,
                                 rule |-> aclient[d].rule, kinds |-> aclient'[d].kinds, todo |-> aclient[d].todo]
               /\ aclient[d].pc # "lookup" => aclient'[d] = aclient[d]
    <3>1. aclient'[d] = [aclient[d] EXCEPT !.kinds = Reread(aclient[d], b)]
      BY <1>4, <2>1
    <3>2. aclient[d] = [pc |-> aclient[d].pc, via |-> aclient[d].via, id |-> aclient[d].id,
                        rule |-> aclient[d].rule, kinds |-> aclient[d].kinds, todo |-> aclient[d].todo]
      BY <1>1 DEF AutoTyped
    <3>3. QED BY <3>1, <3>2, RereadRecord
  <2>2. QED BY <1>4, <2>1
<1>8. \A d \in AClients : d # c =>
        /\ aclient'[d].pc = aclient[d].pc /\ aclient'[d].id = aclient[d].id
        /\ aclient'[d].rule = aclient[d].rule /\ aclient'[d].todo = aclient[d].todo
  <2> SUFFICES ASSUME NEW d \in AClients, d # c
               PROVE  /\ aclient'[d].pc = aclient[d].pc /\ aclient'[d].id = aclient[d].id
                      /\ aclient'[d].rule = aclient[d].rule /\ aclient'[d].todo = aclient[d].todo
    OBVIOUS
  <2> DEFINE e == [pc |-> aclient[d].pc, via |-> aclient[d].via, id |-> aclient[d].id,
                   rule |-> aclient[d].rule, kinds |-> aclient'[d].kinds, todo |-> aclient[d].todo]
  <2>1. aclient'[d] = e
    BY <1>7
  <2>2. e.pc = aclient[d].pc /\ e.id = aclient[d].id /\ e.rule = aclient[d].rule /\ e.todo = aclient[d].todo
    OBVIOUS
  <2>3. QED BY <2>1, <2>2
<1>9. \A h : Known(h) => (h \in made' /\ \A d \in AClients :
                             ~(aclient'[d].pc = "append" /\ aclient'[d].id = h))
  BY <1>4, <1>6, <1>7, <1>8, KnownKept
<1>10. /\ rules' = [r \in RuleIds |-> rules'[r]]
       /\ \A r \in RuleIds : r # b.id => rules'[r] = rules[r]
       /\ rules'[b.id] = IF b.pc = "replace" /\ rules[b.id] = NoRule THEN NoRule ELSE b.rule
  BY <1>1, <1>4, <1>5 DEF AutoTyped
<1>11. b.pc = "append" =>
         /\ ~Known(b.id)
         /\ b.id \in made' /\ \A d \in AClients : ~(aclient'[d].pc = "append" /\ aclient'[d].id = b.id)
  BY <1>1, <1>2, <1>4, <1>5, <1>6, <1>7, <1>8 DEF RulesKnown, Known
<1>12. b.pc # "remove" => Held(b.rule)
  BY <1>1, <1>2, <1>4 DEF RulesKnown
<1>13. AutoTyped'
  <2>1. ASSUME NEW d \in AClients
        PROVE  /\ aclient'[d] = [pc |-> aclient'[d].pc, via |-> aclient'[d].via, id |-> aclient'[d].id,
                                 rule |-> aclient'[d].rule, kinds |-> aclient'[d].kinds, todo |-> aclient'[d].todo]
               /\ aclient'[d].pc \in {"append", "lookup", "update", "replace", "remove"} => aclient'[d].id \in made
               /\ aclient'[d].pc \in {"append", "update", "replace"} => aclient'[d].kinds = {aclient'[d].rule.kind}
               /\ aclient'[d].pc = "remove" => aclient'[d].rule = NoRule
               /\ aclient'[d].pc = "add" => \A x \in aclient'[d].todo : x.id \in RuleIds
    <3>1. CASE d = c
      BY <1>6, <1>7, <3>1
    <3>2. CASE d # c /\ aclient[d].pc # "lookup"
      BY <1>1, <1>7, <3>2 DEF AutoTyped
    <3>3. CASE d # c /\ aclient[d].pc = "lookup"
      <4>1. aclient'[d].pc = "lookup" /\ aclient'[d].id \in made
        BY <1>1, <1>8, <3>3 DEF AutoTyped
      <4>2. aclient'[d] = [pc |-> aclient'[d].pc, via |-> aclient'[d].via, id |-> aclient'[d].id,
                           rule |-> aclient'[d].rule, kinds |-> aclient'[d].kinds, todo |-> aclient'[d].todo]
        BY <1>7, <3>3
      <4>3. QED BY <4>1, <4>2
    <3>4. QED BY <3>1, <3>2, <3>3
  <2>2. QED BY <1>1, <1>4, <1>7, <1>10, <2>1 DEF AutoTyped
<1>14. RulesKnown'
  <2>1. ASSUME NEW r \in RuleIds, rules'[r] # NoRule
        PROVE  r \in made' /\ \A d \in AClients : ~(aclient'[d].pc = "append" /\ aclient'[d].id = r)
    <3>1. CASE r # b.id
      BY <1>1, <1>9, <1>10, <2>1, <3>1 DEF RulesKnown
    <3>2. CASE r = b.id /\ b.pc = "append"
      BY <1>11, <3>2
    <3>3. CASE r = b.id /\ b.pc # "append"
      <4>1. rules[b.id] # NoRule
        BY <1>4, <1>5, <1>10, <2>1, <3>3
      <4>2. QED BY <1>1, <1>5, <1>9, <3>3, <4>1 DEF RulesKnown
    <3>4. QED BY <3>1, <3>2, <3>3
  <2>2. \A r \in RuleIds : rules'[r] # NoRule => Known(r)'
    BY <2>1 DEF Known
  <2>3. \A r \in RuleIds : Held(rules[r])'
    <3>1. \A r \in RuleIds : rules'[r] = NoRule \/ rules'[r] = rules[r] \/ (rules'[r] = b.rule /\ Held(b.rule))
      BY <1>5, <1>10, <1>12
    <3>2. QED BY <1>1, <1>9, <3>1 DEF RulesKnown, Held, Known
  <2>4. \A r \in RuleIds : (ruleBucket'[r] # NoRule => r \in made') /\ Held(ruleBucket[r])'
    BY <1>1, <1>4, <1>9 DEF RulesKnown, Held, Known
  <2>5. \A d \in AClients : aclient'[d].pc \in {"append", "update", "replace"} => Held(aclient[d].rule)'
    BY <1>1, <1>6, <1>7, <1>8, <1>9 DEF RulesKnown, Held, Known
  <2>6. \A u \in unsaved' : u.id \in made' /\ Held(u.rule)'
    BY <1>1, <1>4, <1>9 DEF RulesKnown, Held, Known
  <2>7. \A d, f \in AClients : (aclient'[d].pc = "append" /\ aclient'[f].pc = "append"
                                /\ aclient'[d].id = aclient'[f].id) => d = f
    BY <1>1, <1>6, <1>7, <1>8 DEF RulesKnown
  <2>8. QED BY <2>2, <2>3, <2>4, <2>5, <2>6, <2>7 DEF RulesKnown
<1>15. LockHeld'
  BY <1>1, <1>4, <1>6, <1>7, <1>8 DEF LockHeld
<1>16. CronsFollow'
  <2> SUFFICES ASSUME \A d \in AClients : aclient'[d].pc # "reload"
               PROVE  /\ \A x : (Scheduled(x)' /\ x.id \notin missed') => x \in Listed(rules')
                      /\ \A x \in Runnable(rules') : x.id \notin missed' => Scheduled(x)'
    BY DEF CronsFollow, Listed, Runnable, EnabledCrons, IsHook
  <2>1. ~Reloads(b)
    BY <1>6, <1>7
  <2>2. \A x : Scheduled(x)' <=> Scheduled(x)
    BY <1>2, <1>4, <1>6, <1>7, <1>8 DEF Scheduled
  <2>3. /\ \A x : (Scheduled(x) /\ x.id \notin missed) => x \in Listed(rules)
        /\ \A x \in Runnable(rules) : x.id \notin missed => Scheduled(x)
    <3>1. \A d \in AClients : aclient[d].pc # "reload"
      BY <1>2, <1>4, <1>8
    <3>2. QED BY <1>1, <3>1 DEF CronsFollow
  <2>4. missed \subseteq missed'
    BY <1>4
  <2>5. CASE rules[b.id] # NoRule /\ {rules[b.id].kind} # b.kinds
    <3>1. RuleIds \subseteq missed'
      BY <1>4, <2>1, <2>5 DEF Missing
    <3>2. \A x : Scheduled(x) => x.id \in RuleIds
      BY <1>1 DEF Scheduled, AutoTyped
    <3>3. QED BY <2>2, <3>1, <3>2, ListedShape
  <2>6. CASE rules[b.id] = NoRule \/ {rules[b.id].kind} = b.kinds
    <3>1. /\ b.kinds = {"cron"} => b.id \in missed'
          /\ b.kinds # {"cron"} => /\ rules[b.id] = NoRule \/ rules[b.id].kind # "cron"
                                   /\ rules'[b.id] = NoRule \/ rules'[b.id].kind # "cron"
      <4>1. b.kinds = {"cron"} => b.id \in missed'
        BY <1>4, <2>1, <2>6 DEF Missing
      <4>2. rules'[b.id] = NoRule \/ {rules'[b.id].kind} = b.kinds
        BY <1>4, <1>5, <1>10
      <4>3. QED BY <2>6, <4>1, <4>2
    <3>2. ASSUME NEW x, x.id \notin missed' PROVE x \in Listed(rules') <=> x \in Listed(rules)
      <4>1. ASSUME NEW r \in RuleIds, x.id = r, r # b.id PROVE rules'[r] = rules[r]
        BY <1>10, <4>1
      <4>2. ASSUME NEW r \in RuleIds, x.id = r, r = b.id
            PROVE  /\ rules[r] = NoRule \/ rules[r].kind # "cron"
                   /\ rules'[r] = NoRule \/ rules'[r].kind # "cron"
        BY <3>1, <3>2, <4>2
      <4>3. QED BY <4>1, <4>2, ListedShape
    <3>3. ASSUME NEW x \in Listed(rules), IsHook(rules', x.hook) PROVE IsHook(rules, x.hook)
      <4>1. x.id \in RuleIds /\ rules[x.id] # NoRule /\ rules[x.id].kind = "cron" /\ x.hook = rules[x.id].hook
        BY <3>3, ListedShape
      <4>2. x.hook \in RuleIds /\ Known(x.hook)
        BY <1>1, <4>1 DEF RulesKnown, Held
      <4>3. CASE x.hook # b.id
        BY <1>10, <3>3, <4>2, <4>3 DEF IsHook
      <4>4. CASE x.hook = b.id
        <5>1. rules'[b.id] # NoRule /\ rules'[b.id].kind = "webhook" /\ b.pc # "append"
          BY <1>11, <3>3, <4>2, <4>4 DEF IsHook
        <5>2. rules[b.id] # NoRule /\ rules'[b.id] = b.rule /\ b.kinds = {b.rule.kind}
          BY <1>4, <1>5, <1>10, <5>1
        <5>3. QED BY <2>6, <4>2, <4>4, <5>1, <5>2 DEF IsHook
      <4>5. QED BY <4>3, <4>4
    <3>4. ASSUME NEW x \in Runnable(rules'), x.id \notin missed' PROVE Scheduled(x)
      <4>1. x \in Listed(rules') /\ IsHook(rules', x.hook) /\ x.parses
        BY <3>4, ListedShape
      <4>2. x \in Listed(rules)
        BY <3>2, <3>4, <4>1
      <4>3. x \in Runnable(rules)
        BY <3>3, <4>1, <4>2, ListedShape
      <4>4. QED BY <2>3, <2>4, <3>4, <4>3
    <3>5. QED BY <2>2, <2>3, <2>4, <3>2, <3>4
  <2>7. QED BY <2>5, <2>6
<1>17. QED BY <1>13, <1>14, <1>15, <1>16 DEF AutoInv

\* A step of the client in Reload changes no rule.
LEMMA ReloadStepKeeps ==
  ASSUME AutoInv, NEW c \in AClients, NEW a, aclient' = [aclient EXCEPT ![c] = a],
         a = [pc |-> a.pc, via |-> a.via, id |-> a.id, rule |-> a.rule, kinds |-> a.kinds, todo |-> a.todo],
         aclient[c].pc \in {"reload", "add"}, a.pc \in {"add", "idle"},
         a.pc = "add" => \A x \in a.todo : x.id \in RuleIds,
         \A x \in entryMap' : x.id \in RuleIds,
         UNCHANGED <<ruleBucket, rules, made, unsaved>>
  PROVE  AutoTyped' /\ RulesKnown'
<1>1. AutoTyped /\ RulesKnown
  BY DEF AutoInv
<1>2. /\ aclient' = [d \in AClients |-> aclient'[d]] /\ aclient'[c] = a
      /\ \A d \in AClients : d # c => aclient'[d] = aclient[d]
  BY <1>1, RuleStep
<1>3. \A h : Known(h) => (h \in made' /\ \A d \in AClients :
                             ~(aclient'[d].pc = "append" /\ aclient'[d].id = h))
  BY <1>2, KnownKept
<1>4. AutoTyped'
  BY <1>1, <1>2 DEF AutoTyped
<1>5. RulesKnown'
  <2>1. \A r \in RuleIds : /\ rules'[r] # NoRule => Known(r)'
                           /\ ruleBucket'[r] # NoRule => r \in made'
    BY <1>1, <1>3 DEF RulesKnown, Known
  <2>2. \A r \in RuleIds : Held(rules[r])' /\ Held(ruleBucket[r])'
    BY <1>1, <1>3 DEF RulesKnown, Held, Known
  <2>3. \A d \in AClients : aclient'[d].pc \in {"append", "update", "replace"} =>
                            Held(aclient[d].rule)'
    BY <1>1, <1>2, <1>3 DEF RulesKnown, Held, Known
  <2>4. \A u \in unsaved' : u.id \in made' /\ Held(u.rule)'
    BY <1>1, <1>3 DEF RulesKnown, Held, Known
  <2>5. \A d, f \in AClients : (aclient'[d].pc = "append" /\ aclient'[f].pc = "append"
                                /\ aclient'[d].id = aclient'[f].id) => d = f
    BY <1>1, <1>2 DEF RulesKnown
  <2>6. QED BY <2>1, <2>2, <2>3, <2>4, <2>5 DEF RulesKnown
<1>6. QED BY <1>4, <1>5

\* Reload starts from nothing: what it is about to add is what the slice lists.
LEMMA ReloadKeeps ==
  ASSUME AutoInv, NEW c \in AClients, Reload(c)
  PROVE  AutoInv'
<1>1. AutoTyped /\ RulesKnown /\ LockHeld
  BY DEF AutoInv
<1>2. PICK b : b = aclient[c]
  OBVIOUS
<1>3. PICK L : L = Listed(rules)
  OBVIOUS
<1>4. PICK a : a = [pc |-> "add", via |-> b.via, id |-> b.id, rule |-> b.rule, kinds |-> b.kinds, todo |-> L]
  OBVIOUS
<1>5. /\ b.pc = "reload" /\ csmu = NoRule /\ csmu' = c /\ entryMap' = {} /\ missed' = {}
      /\ aclient' = [aclient EXCEPT ![c].pc = "add", ![c].todo = L]
      /\ UNCHANGED <<ruleBucket, rules, made, unsaved>>
  BY <1>2, <1>3 DEF Reload
<1>6. /\ b = [pc |-> b.pc, via |-> b.via, id |-> b.id, rule |-> b.rule, kinds |-> b.kinds, todo |-> b.todo]
  BY <1>1, <1>2, <1>5 DEF AutoTyped
<1>7. aclient' = [aclient EXCEPT ![c] = a]
  <2> DEFINE e == [b EXCEPT !.pc = "add", !.todo = L]
  <2>1. aclient' = [aclient EXCEPT ![c] = e]
    BY <1>1, <1>2, <1>5 DEF AutoTyped
  <2>2. e \in [pc : {"add"}, via : {b.via}, id : {b.id}, rule : {b.rule}, kinds : {b.kinds}, todo : {L}]
    BY <1>6
  <2> HIDE DEF e
  <2>3. e = a
    BY <1>4, <2>2
  <2>4. QED BY <2>1, <2>3
<1>8. /\ a.pc = "add" /\ a.todo = L
      /\ a = [pc |-> a.pc, via |-> a.via, id |-> a.id, rule |-> a.rule, kinds |-> a.kinds, todo |-> a.todo]
  BY <1>4
<1>9. \A x \in L : x.id \in RuleIds
  BY <1>3, ListedShape
<1>10. AutoTyped' /\ RulesKnown'
  BY <1>2, <1>5, <1>6, <1>7, <1>8, <1>9, ReloadStepKeeps
<1>11. aclient'[c] = a /\ \A d \in AClients : d # c => aclient'[d] = aclient[d]
  BY <1>1, <1>7, RuleStep
<1>12. \A d \in AClients : aclient[d].pc # "add"
  BY <1>1, <1>5, NoRuleAssumption DEF LockHeld
<1>13. LockHeld'
  BY <1>5, <1>11, <1>12 DEF LockHeld
<1>14. \A x : Scheduled(x)' <=> x \in L
  BY <1>5, <1>8, <1>11, <1>12 DEF Scheduled
<1>15. CronsFollow'
  <2>1. Listed(rules)' = L /\ Runnable(rules)' \subseteq L
    BY <1>3, <1>5 DEF Listed, EnabledCrons, Runnable, IsHook
  <2>2. QED BY <1>14, <2>1 DEF CronsFollow
<1>16. QED BY <1>10, <1>13, <1>15 DEF AutoInv

\* Reload adds one cron after the other.
LEMMA AddEntryKeeps ==
  ASSUME AutoInv, NEW c \in AClients, AddEntry(c)
  PROVE  AutoInv'
<1>1. AutoTyped /\ RulesKnown /\ LockHeld /\ CronsFollow
  BY DEF AutoInv
<1>2. PICK b : b = aclient[c]
  OBVIOUS
<1>3. PICK cron \in b.todo :
        /\ entryMap' = IF IsHook(rules, cron.hook) /\ cron.parses THEN entryMap \cup {cron} ELSE entryMap
        /\ aclient' = [aclient EXCEPT ![c].todo = @ \ {cron}]
  BY <1>2 DEF AddEntry
<1>4. PICK a : a = [pc |-> "add", via |-> b.via, id |-> b.id, rule |-> b.rule, kinds |-> b.kinds, todo |-> b.todo \ {cron}]
  OBVIOUS
<1>5. b.pc = "add" /\ UNCHANGED <<ruleBucket, rules, made, csmu, unsaved, missed>>
  BY <1>2 DEF AddEntry
<1>6. /\ b = [pc |-> b.pc, via |-> b.via, id |-> b.id, rule |-> b.rule, kinds |-> b.kinds, todo |-> b.todo]
      /\ \A x \in b.todo : x.id \in RuleIds
  BY <1>1, <1>2, <1>5 DEF AutoTyped
<1>7. aclient' = [aclient EXCEPT ![c] = a]
  <2>1. aclient' = [aclient EXCEPT ![c] = [b EXCEPT !.todo = @ \ {cron}]]
    BY <1>1, <1>2, <1>3 DEF AutoTyped
  <2>2. [b EXCEPT !.todo = @ \ {cron}] = a
    BY <1>4, <1>5, <1>6
  <2>3. QED BY <2>1, <2>2
<1>8. /\ a.pc = "add" /\ a.todo = b.todo \ {cron}
      /\ a = [pc |-> a.pc, via |-> a.via, id |-> a.id, rule |-> a.rule, kinds |-> a.kinds, todo |-> a.todo]
  BY <1>4
<1>9. \A x \in entryMap' : x.id \in RuleIds
  BY <1>1, <1>3, <1>6 DEF AutoTyped
<1>10. AutoTyped' /\ RulesKnown'
  BY <1>2, <1>5, <1>6, <1>7, <1>8, <1>9, ReloadStepKeeps
<1>11. aclient'[c] = a /\ \A d \in AClients : d # c => aclient'[d] = aclient[d]
  BY <1>1, <1>7, RuleStep
<1>12. LockHeld'
  BY <1>1, <1>2, <1>5, <1>8, <1>11 DEF LockHeld
<1>13. \A x : Scheduled(x)' => Scheduled(x)
  BY <1>2, <1>3, <1>5, <1>8, <1>11 DEF Scheduled
<1>14. \A x : Scheduled(x) => Scheduled(x)' \/ (x = cron /\ ~(IsHook(rules, cron.hook) /\ cron.parses))
  BY <1>2, <1>3, <1>5, <1>8, <1>11 DEF Scheduled
<1>15. CronsFollow'
  <2>1. Listed(rules)' = Listed(rules) /\ Runnable(rules)' = Runnable(rules)
    BY <1>5 DEF Listed, EnabledCrons, Runnable, IsHook
  <2>2. \A d \in AClients : aclient'[d].pc = "reload" <=> aclient[d].pc = "reload"
    BY <1>2, <1>5, <1>8, <1>11
  <2>3. cron \in Runnable(rules) => IsHook(rules, cron.hook) /\ cron.parses
    BY DEF Runnable
  <2>4. QED BY <1>1, <1>5, <1>13, <1>14, <2>1, <2>2, <2>3 DEF CronsFollow
<1>16. QED BY <1>10, <1>12, <1>15 DEF AutoInv

\* A Reload that has added every cron gives the lock back.
LEMMA ReloadDoneKeeps ==
  ASSUME AutoInv, NEW c \in AClients, ReloadDone(c)
  PROVE  AutoInv'
<1>1. AutoTyped /\ RulesKnown /\ LockHeld /\ CronsFollow
  BY DEF AutoInv
<1>2. /\ aclient[c].pc = "add" /\ aclient[c].todo = {} /\ csmu' = NoRule
      /\ aclient' = [aclient EXCEPT ![c] = AIdle]
      /\ UNCHANGED <<ruleBucket, rules, made, entryMap, unsaved, missed>>
  BY DEF ReloadDone
<1>3. AIdle.pc = "idle"
  BY IdleRecord
<1>4. \A x \in entryMap' : x.id \in RuleIds
  BY <1>1, <1>2 DEF AutoTyped
<1>5. AutoTyped' /\ RulesKnown'
  BY <1>2, <1>3, <1>4, IdleRecord, ReloadStepKeeps
<1>6. aclient'[c] = AIdle /\ \A d \in AClients : d # c => aclient'[d] = aclient[d]
  BY <1>1, <1>2, RuleStep
<1>7. LockHeld'
  BY <1>1, <1>2, <1>3, <1>6 DEF LockHeld
<1>8. \A x : Scheduled(x)' <=> Scheduled(x)
  BY <1>2, <1>3, <1>6 DEF Scheduled
<1>9. CronsFollow'
  <2>1. Listed(rules)' = Listed(rules) /\ Runnable(rules)' = Runnable(rules)
    BY <1>2 DEF Listed, EnabledCrons, Runnable, IsHook
  <2>2. \A d \in AClients : aclient'[d].pc = "reload" <=> aclient[d].pc = "reload"
    BY <1>2, <1>3, <1>6
  <2>3. QED BY <1>1, <1>2, <1>8, <2>1, <2>2 DEF CronsFollow
<1>10. QED BY <1>5, <1>7, <1>9 DEF AutoInv

\* UpdateLastRun and its goroutine: the bucket gets a rule that was in the slice.
LEMMA LastRunKeeps ==
  ASSUME AutoInv, (\E cron \in entryMap : Fire(cron)) \/ Persist
  PROVE  AutoInv'
<1>1. AutoTyped /\ RulesKnown /\ LockHeld /\ CronsFollow
  BY DEF AutoInv
<1>2. UNCHANGED <<rules, made, entryMap, csmu, aclient, missed>>
  BY DEF Fire, Persist
<1>3. /\ \A u \in unsaved' : u.id \in made /\ Held(u.rule)
      /\ ruleBucket' = [r \in RuleIds |-> ruleBucket'[r]]
      /\ \A r \in RuleIds : ruleBucket'[r] # NoRule => r \in made
      /\ \A r \in RuleIds : Held(ruleBucket'[r])
  <2>1. CASE \E cron \in entryMap : Fire(cron)
    <3>1. PICK cron \in entryMap : Fire(cron)
      BY <2>1
    <3>2. cron.id \in RuleIds
      BY <1>1 DEF AutoTyped, RuleIds
    <3>3. cron.id \in made /\ Held(rules[cron.id])
      BY <1>1, <3>1, <3>2 DEF Fire, RulesKnown, Known
    <3>4. ruleBucket' = ruleBucket
          /\ unsaved' = unsaved \cup {[id |-> cron.id, rule |-> rules[cron.id]]}
      BY <3>1 DEF Fire
    <3>5. QED BY <1>1, <3>3, <3>4 DEF AutoTyped, RulesKnown
  <2>2. CASE Persist
    <3>1. PICK u \in unsaved : ruleBucket' = [ruleBucket EXCEPT ![u.id] = u.rule] /\ unsaved' = unsaved \ {u}
      BY <2>2 DEF Persist
    <3>2. u.id \in made /\ u.id \in RuleIds /\ Held(u.rule)
      BY <1>1 DEF AutoTyped, RulesKnown
    <3>3. /\ ruleBucket' = [r \in RuleIds |-> ruleBucket'[r]]
          /\ \A r \in RuleIds : ruleBucket'[r] = IF r = u.id THEN u.rule ELSE ruleBucket[r]
      BY <1>1, <3>1, <3>2 DEF AutoTyped
    <3>4. QED BY <1>1, <3>1, <3>2, <3>3 DEF RulesKnown
  <2>3. QED BY <2>1, <2>2
<1>4. AutoTyped'
  BY <1>1, <1>2, <1>3 DEF AutoTyped
<1>5. RulesKnown'
  BY <1>1, <1>2, <1>3 DEF RulesKnown, Held, Known
<1>6. LockHeld'
  BY <1>1, <1>2 DEF LockHeld, Known
<1>7. CronsFollow'
  BY <1>1, <1>2, FollowKept
<1>8. QED BY <1>4, <1>5, <1>6, <1>7 DEF AutoInv

\* A restart reads the rules from the store.
LEMMA AutoRestartKeeps ==
  ASSUME AutoInv, AutoRestart
  PROVE  AutoInv'
<1>1. AutoTyped /\ RulesKnown
  BY DEF AutoInv
<1>2. /\ rules' = ruleBucket /\ entryMap' = Runnable(ruleBucket) /\ unsaved' = {} /\ missed' = {}
      /\ aclient' = [c \in AClients |-> AIdle] /\ UNCHANGED <<ruleBucket, made>>
  BY DEF AutoRestart
<1>3. \A c \in AClients : aclient'[c] = AIdle /\ aclient'[c].pc = "idle"
  BY <1>2, IdleRecord
<1>4. \A x \in entryMap' : x.id \in RuleIds
  BY <1>2, ListedShape DEF Runnable
<1>5. AutoTyped'
  BY <1>1, <1>2, <1>3, <1>4, IdleRecord DEF AutoTyped
<1>6. RulesKnown'
  <2>1. \A r \in RuleIds : Held(ruleBucket[r])'
    BY <1>1, <1>2, <1>3 DEF RulesKnown, Held, Known
  <2>2. \A r \in RuleIds : Held(rules[r])'
    BY <1>1, <1>2, <1>3 DEF RulesKnown, Held, Known
  <2>3. QED BY <1>1, <1>2, <1>3, <2>1, <2>2 DEF RulesKnown, Known
<1>7. LockHeld'
  BY <1>3 DEF LockHeld
<1>8. CronsFollow'
  <2>1. \A x : Scheduled(x)' <=> x \in Runnable(ruleBucket)
    BY <1>2, <1>3 DEF Scheduled
  <2>2. Runnable(rules)' = Runnable(ruleBucket) /\ Runnable(ruleBucket) \subseteq Listed(rules)'
    BY <1>2 DEF Runnable, Listed, EnabledCrons, IsHook
  <2>3. QED BY <2>1, <2>2 DEF CronsFollow
<1>9. QED BY <1>5, <1>6, <1>7, <1>8 DEF AutoInv

\* Every step of the rules and the scheduler keeps the invariant.
LEMMA AutoInvStep == AutoInv /\ [AutoNext]_autoVars => AutoInv'
<1> SUFFICES ASSUME AutoInv, [AutoNext]_autoVars PROVE AutoInv'
  OBVIOUS
<1>1. CASE \E c \in AClients, via \in Transports, id \in RuleIds, body \in Body :
             CreateRule(c, via, id, body) \/ UpdateRule(c, via, id, body)
  BY <1>1, CreateRuleKeeps, UpdateRuleKeeps
<1>2. CASE \E c \in AClients, via \in Transports, id \in RuleIds : DeleteRule(c, via, id)
  BY <1>2, DeleteRuleKeeps
<1>3. CASE \E c \in AClients : UpdateCheck(c) \/ UpdatePut(c) \/ ChangeSlice(c)
  BY <1>3, UpdateCheckKeeps, UpdatePutKeeps, ChangeSliceKeeps
<1>4. CASE \E c \in AClients : Reload(c) \/ AddEntry(c) \/ ReloadDone(c)
  BY <1>4, ReloadKeeps, AddEntryKeeps, ReloadDoneKeeps
<1>5. CASE (\E cron \in entryMap : Fire(cron)) \/ Persist
  BY <1>5, LastRunKeeps
<1>6. CASE AutoRestart
  BY <1>6, AutoRestartKeeps
<1>7. CASE UNCHANGED autoVars
  <2>1. UNCHANGED <<ruleBucket, rules, made, entryMap, csmu, aclient, unsaved, missed>>
    BY <1>7 DEF autoVars
  <2>2. AutoTyped' /\ RulesKnown' /\ LockHeld'
    BY <2>1 DEF AutoInv, AutoTyped, RulesKnown, Held, Known, LockHeld
  <2>3. CronsFollow'
    BY <2>1, FollowKept DEF AutoInv
  <2>4. QED BY <2>2, <2>3 DEF AutoInv
<1>8. QED BY <1>1, <1>2, <1>3, <1>4, <1>5, <1>6, <1>7 DEF AutoNext

\* However creations, updates and deletions of crons and webhooks overlap with reloads, runs and
\* restarts: with no request in progress the scheduler holds the enabled crons of the slice, each
\* with the webhook its rule names, and every one whose webhook exists and whose schedule the
\* parser takes, but for crons changed through MCP or by an update that read another rule's type
\* (Reload, addEntry, UpdateLastRun).
THEOREM CronsAreScheduled == AutoSpec => []CronsAgree
<1>1. AutoInv => CronsAgree
  <2> SUFFICES ASSUME AutoInv, \A c \in AClients : aclient[c].pc = "idle"
               PROVE  /\ {cron \in entryMap : cron.id \notin missed} \subseteq Listed(rules)
                      /\ {cron \in Runnable(rules) : cron.id \notin missed} \subseteq entryMap
    BY DEF CronsAgree, AtRest
  <2>1. \A x : Scheduled(x) <=> x \in entryMap
    BY DEF Scheduled
  <2>2. QED BY <2>1 DEF AutoInv, CronsFollow
<1>2. QED
  BY <1>1, AutoInvInit, AutoInvStep, PTL DEF AutoSpec

-----------------------------------------------------------------------------
(* The embedding worker. *)

TaskPcs == {"idle", "enqueue", "delete", "unindex", "check", "checkone", "embed", "embedone", "add",
            "clean", "cleanold", "addone"}
TaskRec == [pc : TaskPcs, todo : Seq(Job), at : Int, force : BOOLEAN]

TasksTyped == task \in [Tasks -> TaskRec] /\ \A p \in Tasks : task[p].pc # "idle" => task[p].todo # <<>>

EmbTyped ==
  /\ edoc \in [VDocs -> VTexts \cup {NoVec}]
  /\ jobs \in Seq(Job)
  /\ vectors \in [VDocs -> [Slots -> VTexts \cup {NoVec}]]
  /\ TasksTyped

\* A task between PutChunks and the end of its clean-up put the chunks that are stored, unless they
\* were deleted or another task put its own meanwhile.
EmbedderOwns ==
  \A p \in Tasks : (Embedder(p) /\ Doc(p) \notin shared) => vectors[Doc(p)][0] \in {NoVec, Text(p)}

EmbInv == EmbTyped /\ SkipIsSound /\ EmbedderOwns

\* What every embedded text has: a first chunk, and no chunk beyond the slots.
LEMMA SlotFacts ==
  /\ 0 \in ChunkSlots /\ ChunkSlots \subseteq Slots /\ Legacy \in Slots /\ Legacy \notin ChunkSlots
  /\ \A t \in VTexts : ChunksOf[t] \in Nat /\ ChunksOf[t] >= 1 /\ 0..(ChunksOf[t] - 1) \subseteq ChunkSlots
  BY ChunksAssumption DEF ChunkSlots, Slots, Legacy

\* The job at hand of a task that is not idle is a job.
LEMMA JobFacts ==
  ASSUME TasksTyped, NEW p \in Tasks, task[p].pc # "idle"
  PROVE  Head(task[p].todo) \in Job /\ Doc(p) \in VDocs /\ Text(p) \in VTexts
  <1>1. task[p].todo \in Seq(Job) /\ task[p].todo # <<>>
    BY DEF TasksTyped, TaskRec
  <1>2. Head(task[p].todo) \in Job
    BY <1>1, HeadTailProperties
  <1>3. QED  BY <1>2 DEF Job, Doc, Text

\* The record of a task, with the fields a step sets.
LEMMA RecordStep ==
  ASSUME NEW t \in TaskRec, NEW l, NEW n
  PROVE  [t EXCEPT !.pc = l, !.at = n] = [pc |-> l, todo |-> t.todo, at |-> n, force |-> t.force]
  <1>1. t = [pc |-> t.pc, todo |-> t.todo, at |-> t.at, force |-> t.force]
    BY DEF TaskRec
  <1> DEFINE e == [t EXCEPT !.pc = l, !.at = n]
  <1>2. e \in [pc : {l}, todo : {t.todo}, at : {n}, force : {t.force}]
    BY <1>1
  <1> HIDE DEF e
  <1>3. e = [pc |-> l, todo |-> t.todo, at |-> n, force |-> t.force]
    BY <1>2
  <1>4. QED  BY <1>3 DEF e

\* Goto keeps the work of the task and everything of the others.
LEMMA GotoFacts ==
  ASSUME TasksTyped, NEW p \in Tasks, task[p].pc # "idle", NEW l \in TaskPcs, NEW n \in Int, Goto(p, l, n)
  PROVE  /\ TasksTyped'
         /\ task'[p].pc = l /\ task'[p].todo = task[p].todo
         /\ \A q \in Tasks \ {p} : task'[q] = task[q]
  <1>1. task \in [Tasks -> TaskRec] /\ task[p] \in TaskRec
    BY DEF TasksTyped
  <1>2. task' = [task EXCEPT ![p] = [@ EXCEPT !.pc = l, !.at = n]]
    BY <1>1 DEF Goto
  <1>3. [task[p] EXCEPT !.pc = l, !.at = n] = [pc |-> l, todo |-> task[p].todo, at |-> n, force |-> task[p].force]
    BY <1>1, RecordStep
  <1>4. task'[p] = [pc |-> l, todo |-> task[p].todo, at |-> n, force |-> task[p].force]
    BY <1>1, <1>2, <1>3
  <1>5. \A q \in Tasks \ {p} : task'[q] = task[q]
    BY <1>1, <1>2
  <1>6. task'[p] \in TaskRec
    BY <1>1, <1>4 DEF TaskRec
  <1>7. task' \in [Tasks -> TaskRec]
    BY <1>1, <1>2, <1>5, <1>6
  <1>8. \A q \in Tasks : task'[q].pc # "idle" => task'[q].todo # <<>>
    BY <1>4, <1>5 DEF TasksTyped
  <1>9. QED  BY <1>4, <1>5, <1>7, <1>8 DEF TasksTyped

\* NextDoc leaves the task idle or at the given step of its next document.
LEMMA NextDocFacts ==
  ASSUME TasksTyped, NEW p \in Tasks, task[p].pc # "idle", NEW l \in TaskPcs, l # "idle", NextDoc(p, l)
  PROVE  TasksTyped' /\ task'[p].pc \in {"idle", l} /\ \A q \in Tasks \ {p} : task'[q] = task[q]
  <1>t. PICK t : t = task[p]
    OBVIOUS
  <1>w. PICK w : w = Tail(t.todo)
    OBVIOUS
  <1>1. task \in [Tasks -> TaskRec] /\ t \in TaskRec /\ t.todo \in Seq(Job) /\ t.todo # <<>>
    BY <1>t DEF TasksTyped, TaskRec
  <1>3. task' = [task EXCEPT ![p] = IF Len(t.todo) = 1 THEN TIdle
                                    ELSE [pc |-> l, todo |-> w, at |-> 0, force |-> t.force]]
    BY <1>t, <1>w DEF NextDoc
  <1>4. \A q \in Tasks \ {p} : task'[q] = task[q]
    BY <1>1, <1>3
  <1>5. CASE Len(t.todo) = 1
    <2>1. task'[p] = TIdle
      BY <1>1, <1>3, <1>5
    <2>2. TIdle \in TaskRec /\ TIdle.pc = "idle"
      BY DEF TIdle, TaskRec, TaskPcs
    <2>3. task' \in [Tasks -> TaskRec]
      BY <1>1, <1>3, <1>4, <2>1, <2>2
    <2>4. QED  BY <1>4, <2>1, <2>2, <2>3 DEF TasksTyped
  <1>6. CASE Len(t.todo) # 1
    <2>1. task'[p] = [pc |-> l, todo |-> w, at |-> 0, force |-> t.force]
      BY <1>1, <1>3, <1>6
    <2>2. w \in Seq(Job) /\ Len(w) = Len(t.todo) - 1 /\ Len(t.todo) \in Nat \ {0}
      BY <1>1, <1>w, HeadTailProperties, EmptySeq, LenProperties
    <2>3. w # <<>>
      <3>1. Len(w) # 0
        BY <1>6, <2>2
      <3>2. QED  BY <3>1
    <2>4. task'[p] \in TaskRec
      BY <1>1, <2>1, <2>2 DEF TaskRec
    <2>5. task' \in [Tasks -> TaskRec]
      BY <1>1, <1>3, <1>4, <2>4
    <2>6. QED  BY <1>4, <2>1, <2>3, <2>5 DEF TasksTyped
  <1>7. QED  BY <1>5, <1>6

\* A task that is given a new record, everything of the others kept.
LEMMA SetFacts ==
  ASSUME TasksTyped, NEW p \in Tasks, NEW r \in TaskRec, r.pc # "idle" => r.todo # <<>>,
         task' = [task EXCEPT ![p] = r]
  PROVE  TasksTyped' /\ task'[p] = r /\ \A q \in Tasks \ {p} : task'[q] = task[q]
  BY DEF TasksTyped

\* What keeps the chunks as they are, and puts no task among the embedders, keeps what is said of them.
LEMMA ChunksKept ==
  ASSUME EmbInv, EmbTyped', shared' = shared,
         \A d \in VDocs, s \in ChunkSlots : vectors'[d][s] = vectors[d][s],
         \A q \in Tasks : Embedder(q)' => Embedder(q) /\ task'[q].todo = task[q].todo
  PROVE  EmbInv'
  <1>2. SkipIsSound'
    <2> SUFFICES ASSUME NEW d \in VDocs \ shared, vectors'[d][0] # NoVec,
                        NEW s \in 0..(ChunksOf[vectors'[d][0]] - 1)
                 PROVE  vectors'[d][s] = vectors'[d][0]
      BY DEF SkipIsSound
    <2>1. vectors'[d][0] = vectors[d][0] /\ vectors[d][0] \in VTexts
      BY SlotFacts DEF EmbInv, EmbTyped
    <2>2. s \in ChunkSlots
      BY <2>1, SlotFacts
    <2>3. QED  BY <2>1, <2>2 DEF EmbInv, SkipIsSound
  <1>3. EmbedderOwns'
    <2> SUFFICES ASSUME NEW q \in Tasks, Embedder(q)', Doc(q)' \notin shared
                 PROVE  vectors'[Doc(q)'][0] \in {NoVec, Text(q)'}
      BY DEF EmbedderOwns
    <2>1. Embedder(q) /\ Doc(q)' = Doc(q) /\ Text(q)' = Text(q)
      BY DEF Doc, Text
    <2>2. Doc(q) \in VDocs
      BY <2>1, JobFacts DEF EmbInv, EmbTyped, Embedder
    <2>3. vectors[Doc(q)][0] \in {NoVec, Text(q)}
      BY <2>1 DEF EmbInv, EmbedderOwns
    <2>4. QED  BY <2>1, <2>2, <2>3, SlotFacts
  <1>4. QED  BY <1>2, <1>3 DEF EmbInv

\* A step of one task that leaves the buckets alone, and the task outside the embedders or where it was.
LEMMA TaskMoves ==
  ASSUME EmbInv, EmbTyped', UNCHANGED <<vectors, shared>>, NEW p \in Tasks,
         \A q \in Tasks \ {p} : task'[q] = task[q],
         Embedder(p)' => Embedder(p) /\ task'[p].todo = task[p].todo
  PROVE  EmbInv'
  <1>1. \A q \in Tasks : Embedder(q)' => Embedder(q) /\ task'[q].todo = task[q].todo
    BY DEF Embedder
  <1>2. QED  BY <1>1, ChunksKept

\* A function on 1..n is a sequence.
LEMMA FunctionIsSeq ==
  ASSUME NEW S, NEW n \in Nat, NEW f \in [1..n -> S]
  PROVE  f \in Seq(S) /\ Len(f) = n
  OBVIOUS

\* The record of a task that begins.
LEMMA BeginRecord ==
  ASSUME NEW l, NEW w
  PROVE  [TIdle EXCEPT !.pc = l, !.todo = w] = [pc |-> l, todo |-> w, at |-> 0, force |-> FALSE]
  <1> DEFINE e == [TIdle EXCEPT !.pc = l, !.todo = w]
  <1>1. e \in [pc : {l}, todo : {w}, at : {0}, force : {FALSE}]
    BY DEF TIdle
  <1> HIDE DEF e
  <1>2. e = [pc |-> l, todo |-> w, at |-> 0, force |-> FALSE]
    BY <1>1
  <1>3. QED  BY <1>2 DEF e

\* The list a reindex request makes of the documents.
LEMMA ReindexList ==
  ASSUME EmbInv, NEW order, order = SetToSeq({d \in VDocs : edoc[d] # NoVec}), order # <<>>,
         NEW todo, todo = [i \in 1..Len(order) |-> [doc |-> order[i], text |-> edoc[order[i]]]]
  PROVE  todo \in Seq(Job) /\ todo # <<>>
  <1> DEFINE S == {d \in VDocs : edoc[d] # NoVec}
  <1>1. IsFiniteSet(S)
    BY VDocsAssumption, FS_Subset
  <1>2. PICK n : n = Cardinality(S)
    OBVIOUS
  <1>3. n \in Nat /\ ExistsBijection(1..n, S)
    BY <1>1, <1>2, FS_CardinalityType
  <1>4. \E f \in [1..n -> S] : IsInjective(f)
    BY <1>3 DEF ExistsBijection, Bijection, Injection
  <1>5. order = CHOOSE f \in [1..n -> S] : IsInjective(f)
    BY <1>2 DEF SetToSeq
  <1>6. order \in [1..n -> S]
    BY <1>4, <1>5
  <1>7. order \in Seq(S) /\ Len(order) = n
    BY <1>3, <1>6
  <1>8. n # 0
    BY <1>7, EmptySeq
  <1>9. \A i \in 1..n : [doc |-> order[i], text |-> edoc[order[i]]] \in Job
    BY <1>6 DEF EmbInv, EmbTyped, Job
  <1>10. todo \in [1..n -> Job]
    BY <1>7, <1>9
  <1>11. todo \in Seq(Job) /\ Len(todo) = n
    BY <1>3, <1>10, FunctionIsSeq
  <1>12. QED  BY <1>8, <1>11

\* The requests up to their first step on the vectors.
LEMMA BeginKeeps ==
  ASSUME EmbInv, NEW c \in EClients, NEW r \in TaskRec, r.pc \notin {"add", "clean", "cleanold"},
         r.pc # "idle" => r.todo # <<>>, task' = [task EXCEPT ![c] = r], UNCHANGED <<vectors, shared>>,
         edoc' \in [VDocs -> VTexts \cup {NoVec}], jobs' \in Seq(Job)
  PROVE  EmbInv'
  <1>1. c \in Tasks /\ TasksTyped
    BY DEF Tasks, EmbInv, EmbTyped
  <1>2. TasksTyped' /\ task'[c] = r /\ \A q \in Tasks \ {c} : task'[q] = task[q]
    BY <1>1, SetFacts
  <1>3. EmbTyped'
    BY <1>2 DEF EmbInv, EmbTyped
  <1>4. QED  BY <1>1, <1>2, <1>3, TaskMoves DEF Embedder

\* A write of a document calls for its embedding.
LEMMA EWriteKeeps ==
  ASSUME EmbInv, NEW c \in EClients, NEW d \in VDocs, NEW text \in VTexts, EWrite(c, d, text)
  PROVE  EmbInv'
  <1>1. PICK r : r = [pc |-> "enqueue", todo |-> <<[doc |-> d, text |-> text]>>, at |-> 0, force |-> FALSE]
    OBVIOUS
  <1>2. r = [TIdle EXCEPT !.pc = "enqueue", !.todo = <<[doc |-> d, text |-> text]>>] /\ task' = [task EXCEPT ![c] = r]
    BY <1>1, BeginRecord DEF EWrite
  <1>3. r \in TaskRec /\ r.pc = "enqueue" /\ r.todo # <<>>
    BY <1>1 DEF TaskRec, TaskPcs, Job
  <1>4. edoc' \in [VDocs -> VTexts \cup {NoVec}] /\ jobs' \in Seq(Job)
    BY DEF EWrite, EmbInv, EmbTyped
  <1>5. UNCHANGED <<vectors, shared>>
    BY DEF EWrite
  <1>6. QED  BY <1>2, <1>3, <1>4, <1>5, BeginKeeps

\* A deletion of a document calls for the removal of its chunks.
LEMMA EDeleteKeeps ==
  ASSUME EmbInv, NEW c \in EClients, NEW d \in VDocs, EDelete(c, d)
  PROVE  EmbInv'
  <1>1. PICK r : r = [pc |-> "delete", todo |-> <<[doc |-> d, text |-> edoc[d]]>>, at |-> 0, force |-> FALSE]
    OBVIOUS
  <1>2. r = [TIdle EXCEPT !.pc = "delete", !.todo = <<[doc |-> d, text |-> edoc[d]]>>] /\ task' = [task EXCEPT ![c] = r]
    BY <1>1, BeginRecord DEF EDelete
  <1>3. r \in TaskRec /\ r.pc = "delete" /\ r.todo # <<>>
    BY <1>1 DEF TaskRec, TaskPcs, Job, EDelete, EmbInv, EmbTyped
  <1>4. edoc' \in [VDocs -> VTexts \cup {NoVec}] /\ jobs' \in Seq(Job)
    BY DEF EDelete, EmbInv, EmbTyped
  <1>5. UNCHANGED <<vectors, shared>>
    BY DEF EDelete
  <1>6. QED  BY <1>2, <1>3, <1>4, <1>5, BeginKeeps

\* A reindexing queues documents.
LEMMA ReindexKeeps ==
  ASSUME EmbInv, NEW c \in EClients, NEW l \in {"check", "checkone"}, NEW force \in BOOLEAN,
         VectorReindex(c, l, force)
  PROVE  EmbInv'
  <1>1. PICK order : order = SetToSeq({d \in VDocs : edoc[d] # NoVec})
    OBVIOUS
  <1>2. PICK todo : todo = [i \in 1..Len(order) |-> [doc |-> order[i], text |-> edoc[order[i]]]]
    OBVIOUS
  <1>3. order # <<>>
    BY <1>1 DEF VectorReindex
  <1>4. todo \in Seq(Job) /\ todo # <<>>
    BY <1>1, <1>2, <1>3, ReindexList
  <1>5. PICK r : r = [pc |-> l, at |-> 0, force |-> force, todo |-> todo]
    OBVIOUS
  <1>6. task' = [task EXCEPT ![c] = r]
    BY <1>1, <1>2, <1>5, Zenon DEF VectorReindex
  <1>7. r \in TaskRec /\ r.pc = l /\ r.todo # <<>>
    BY <1>4, <1>5 DEF TaskRec, TaskPcs
  <1>8. edoc' \in [VDocs -> VTexts \cup {NoVec}] /\ jobs' \in Seq(Job)
    BY DEF VectorReindex, EmbInv, EmbTyped
  <1>9. UNCHANGED <<vectors, shared>>
    BY DEF VectorReindex
  <1>10. QED  BY <1>6, <1>7, <1>8, <1>9, BeginKeeps

\* A job is put into the queue, or dropped when it is full.
LEMMA EEnqueueKeeps ==
  ASSUME EmbInv, NEW c \in EClients, EEnqueue(c)
  PROVE  EmbInv'
  <1>1. c \in Tasks /\ TasksTyped /\ task[c].pc # "idle"
    BY DEF Tasks, EmbInv, EmbTyped, EEnqueue
  <1>2. PICK j : j = Head(task[c].todo)
    OBVIOUS
  <1>3. j \in Job
    BY <1>1, <1>2, JobFacts
  <1>4. jobs' = IF Len(jobs) < JobCap THEN Append(jobs, j) ELSE jobs
    BY <1>2 DEF EEnqueue
  <1>5. jobs' \in Seq(Job)
    BY <1>3, <1>4 DEF EmbInv, EmbTyped
  <1>6. task' = [task EXCEPT ![c] = TIdle] /\ UNCHANGED <<edoc, vectors, shared>>
    BY DEF EEnqueue
  <1>7. TIdle \in TaskRec /\ TIdle.pc = "idle"
    BY DEF TIdle, TaskRec, TaskPcs
  <1>8. edoc' \in [VDocs -> VTexts \cup {NoVec}]
    BY <1>6 DEF EmbInv, EmbTyped
  <1>9. QED  BY <1>5, <1>6, <1>7, <1>8, BeginKeeps

\* A worker takes a job.
LEMMA TakeJobKeeps ==
  ASSUME EmbInv, NEW w \in EWorkers, TakeJob(w)
  PROVE  EmbInv'
  <1>1. w \in Tasks /\ TasksTyped /\ jobs \in Seq(Job) /\ jobs # <<>>
    BY DEF Tasks, EmbInv, EmbTyped, TakeJob
  <1>2. PICK j : j = Head(jobs)
    OBVIOUS
  <1>3. j \in Job /\ jobs' \in Seq(Job)
    BY <1>1, <1>2, HeadTailProperties DEF TakeJob
  <1>4. PICK r : r = [pc |-> "check", todo |-> <<j>>, at |-> 0, force |-> FALSE]
    OBVIOUS
  <1>5. r = [TIdle EXCEPT !.pc = "check", !.todo = <<j>>] /\ task' = [task EXCEPT ![w] = r]
    BY <1>2, <1>4, BeginRecord DEF TakeJob
  <1>6. r \in TaskRec /\ r.pc = "check" /\ r.todo # <<>>
    BY <1>3, <1>4 DEF TaskRec, TaskPcs
  <1>7. TasksTyped' /\ task'[w] = r /\ \A q \in Tasks \ {w} : task'[q] = task[q]
    BY <1>1, <1>5, <1>6, SetFacts
  <1>8. UNCHANGED <<edoc, vectors, shared>>
    BY DEF TakeJob
  <1>9. EmbTyped'
    BY <1>3, <1>7, <1>8 DEF EmbInv, EmbTyped
  <1>10. QED  BY <1>1, <1>6, <1>7, <1>8, <1>9, TaskMoves DEF Embedder

\* VectorDelete takes the first chunk of the document, whatever else it leaves.
LEMMA VectorDeleteKeeps ==
  ASSUME EmbInv, NEW c \in EClients, VectorDelete(c)
  PROVE  EmbInv'
  <1>1. c \in Tasks /\ TasksTyped /\ task[c].pc # "idle" /\ task[c].pc = "delete"
    BY DEF Tasks, EmbInv, EmbTyped, VectorDelete
  <1>2. PICK e : e = Doc(c)
    OBVIOUS
  <1>3. e \in VDocs
    BY <1>1, <1>2, JobFacts
  <1>v. vectors \in [VDocs -> [Slots -> VTexts \cup {NoVec}]]
    BY DEF EmbInv, EmbTyped
  <1>4. /\ \E stays \in SUBSET (ChunkSlots \ {0}) :
             vectors' = [vectors EXCEPT ![e] = [s \in Slots |-> IF s \in stays THEN vectors[e][s] ELSE NoVec]]
        /\ Goto(c, "unindex", Legacy) /\ UNCHANGED <<edoc, jobs, shared>>
    BY <1>2, Zenon DEF VectorDelete
  <1>l. PICK stays \in SUBSET (ChunkSlots \ {0}) :
          vectors' = [vectors EXCEPT ![e] = [s \in Slots |-> IF s \in stays THEN vectors[e][s] ELSE NoVec]]
    BY <1>4
  <1>5. /\ TasksTyped' /\ task'[c].pc = "unindex" /\ \A q \in Tasks \ {c} : task'[q] = task[q]
    <2>1. "unindex" \in TaskPcs /\ Legacy \in Int
      BY DEF TaskPcs, Legacy
    <2>2. QED  BY <1>1, <1>4, <2>1, GotoFacts
  <1>6. EmbTyped'
    <2>1. [s \in Slots |-> IF s \in stays THEN vectors[e][s] ELSE NoVec] \in [Slots -> VTexts \cup {NoVec}]
      BY <1>v, <1>3
    <2>2. vectors' \in [VDocs -> [Slots -> VTexts \cup {NoVec}]]
      BY <1>v, <1>l, <2>1
    <2>3. QED  BY <1>4, <1>5, <2>2 DEF EmbInv, EmbTyped
  <1>7. /\ vectors'[e][0] = NoVec
        /\ \A d \in VDocs : d # e => vectors'[d] = vectors[d]
    BY <1>v, <1>3, <1>l, SlotFacts
  <1>9. SkipIsSound'
    <2> SUFFICES ASSUME NEW d \in VDocs \ shared, vectors'[d][0] # NoVec,
                        NEW s \in 0..(ChunksOf[vectors'[d][0]] - 1)
                 PROVE  vectors'[d][s] = vectors'[d][0]
      BY <1>4 DEF SkipIsSound
    <2>1. d # e
      BY <1>7, SlotFacts
    <2>2. QED  BY <1>7, <2>1 DEF EmbInv, SkipIsSound
  <1>10. EmbedderOwns'
    <2> SUFFICES ASSUME NEW q \in Tasks, Embedder(q)', Doc(q)' \notin shared
                 PROVE  vectors'[Doc(q)'][0] \in {NoVec, Text(q)'}
      BY <1>4 DEF EmbedderOwns
    <2>1. q # c
      BY <1>5 DEF Embedder
    <2>2. Embedder(q) /\ Doc(q)' = Doc(q) /\ Text(q)' = Text(q)
      BY <1>5, <2>1 DEF Embedder, Doc, Text
    <2>3. Doc(q) \in VDocs
      BY <1>1, <2>2, JobFacts DEF Embedder
    <2>4. vectors[Doc(q)][0] \in {NoVec, Text(q)}
      BY <2>2 DEF EmbInv, EmbedderOwns
    <2>5. QED  BY <1>7, <2>2, <2>3, <2>4, SlotFacts
  <1>11. QED  BY <1>6, <1>9, <1>10 DEF EmbInv

\* Unindex touches the index alone.
LEMMA UnindexKeeps ==
  ASSUME EmbInv, NEW c \in EClients, Unindex(c)
  PROVE  EmbInv'
  <1>1. c \in Tasks /\ TasksTyped /\ task[c].pc # "idle" /\ task[c].at \in Int
    BY DEF Tasks, EmbInv, EmbTyped, Unindex, TasksTyped, TaskRec
  <1>2. UNCHANGED <<edoc, jobs, vectors, shared>>
    BY DEF Unindex
  <1>3. CASE task' = [task EXCEPT ![c] = TIdle]
    <2>1. TIdle \in TaskRec /\ TIdle.pc = "idle"
      BY DEF TIdle, TaskRec, TaskPcs
    <2>2. edoc' \in [VDocs -> VTexts \cup {NoVec}] /\ jobs' \in Seq(Job)
      BY <1>2 DEF EmbInv, EmbTyped
    <2>3. QED  BY <1>2, <1>3, <2>1, <2>2, BeginKeeps
  <1>4. CASE Goto(c, "unindex", task[c].at + 1)
    <2>1. PICK n : n = task[c].at + 1
      OBVIOUS
    <2>2. n \in Int /\ Goto(c, "unindex", n) /\ "unindex" \in TaskPcs
      BY <1>1, <1>4, <2>1 DEF TaskPcs
    <2>3. TasksTyped' /\ task'[c].pc = "unindex" /\ \A q \in Tasks \ {c} : task'[q] = task[q]
      BY <1>1, <2>2, GotoFacts
    <2>4. EmbTyped'
      BY <1>2, <2>3 DEF EmbInv, EmbTyped
    <2>5. QED  BY <1>1, <1>2, <2>3, <2>4, TaskMoves DEF Embedder
  <1>5. QED  BY <1>3, <1>4 DEF Unindex

\* A step that ends in NextDoc, or goes on outside the embedders, with the chunks as they were.
LEMMA NextDocKeeps ==
  ASSUME EmbInv, NEW p \in Tasks, task[p].pc # "idle",
         vectors' \in [VDocs -> [Slots -> VTexts \cup {NoVec}]],
         \A d \in VDocs, s \in ChunkSlots : vectors'[d][s] = vectors[d][s],
         UNCHANGED <<edoc, jobs, shared>>,
         \/ NextDoc(p, "check") \/ NextDoc(p, "checkone")
         \/ Goto(p, "embed", 0) \/ Goto(p, "embedone", 0) \/ Goto(p, "addone", 0)
  PROVE  EmbInv'
  <1>1. TasksTyped
    BY DEF EmbInv, EmbTyped
  <1>2. /\ TasksTyped' /\ task'[p].pc \in {"idle", "check", "checkone", "embed", "embedone", "addone"}
        /\ \A q \in Tasks \ {p} : task'[q] = task[q]
    <2>1. {"check", "checkone", "embed", "embedone", "addone"} \subseteq TaskPcs /\ 0 \in Int
      BY DEF TaskPcs
    <2>2. CASE NextDoc(p, "check")
      BY <1>1, <2>1, <2>2, NextDocFacts
    <2>3. CASE NextDoc(p, "checkone")
      BY <1>1, <2>1, <2>3, NextDocFacts
    <2>4. CASE Goto(p, "embed", 0)
      BY <1>1, <2>1, <2>4, GotoFacts
    <2>5. CASE Goto(p, "embedone", 0)
      BY <1>1, <2>1, <2>5, GotoFacts
    <2>6. CASE Goto(p, "addone", 0)
      BY <1>1, <2>1, <2>6, GotoFacts
    <2>7. QED  BY <2>2, <2>3, <2>4, <2>5, <2>6
  <1>3. EmbTyped'
    BY <1>2 DEF EmbInv, EmbTyped
  <1>4. \A q \in Tasks : Embedder(q)' => Embedder(q) /\ task'[q].todo = task[q].todo
    BY <1>2 DEF Embedder
  <1>5. QED  BY <1>3, <1>4, ChunksKept

\* A worker compares the hash of the text it embeds.
LEMMA CheckKeeps ==
  ASSUME EmbInv, NEW p \in Tasks, Check(p)
  PROVE  EmbInv'
  <1>1. task[p].pc \in {"check", "checkone"} /\ UNCHANGED <<edoc, jobs, vectors, shared>>
    BY DEF Check
  <1>2. \/ NextDoc(p, "check") \/ NextDoc(p, "checkone") \/ Goto(p, "embed", 0) \/ Goto(p, "embedone", 0)
    <2>1. NextDoc(p, task[p].pc) \/ Goto(p, IF task[p].pc = "check" THEN "embed" ELSE "embedone", 0)
      BY DEF Check
    <2>2. CASE task[p].pc = "check"
      BY <2>1, <2>2
    <2>3. CASE task[p].pc = "checkone"
      BY <2>1, <2>3
    <2>4. QED  BY <1>1, <2>2, <2>3
  <1>3. vectors' \in [VDocs -> [Slots -> VTexts \cup {NoVec}]]
    BY <1>1 DEF EmbInv, EmbTyped
  <1>4. QED  BY <1>1, <1>2, <1>3, NextDocKeeps

\* The provider fails.
LEMMA EmbedFailsKeeps ==
  ASSUME EmbInv, NEW p \in Tasks, EmbedFails(p)
  PROVE  EmbInv'
  <1>1. task[p].pc \in {"embed", "embedone"} /\ UNCHANGED <<edoc, jobs, vectors, shared>>
    BY DEF EmbedFails
  <1>2. NextDoc(p, "check") \/ NextDoc(p, "checkone")
    <2>1. NextDoc(p, IF task[p].pc = "embed" THEN "check" ELSE "checkone")
      BY DEF EmbedFails
    <2>2. CASE task[p].pc = "embed"
      BY <2>1, <2>2
    <2>3. CASE task[p].pc = "embedone"
      BY <2>1, <2>3
    <2>4. QED  BY <1>1, <2>2, <2>3
  <1>3. vectors' \in [VDocs -> [Slots -> VTexts \cup {NoVec}]]
    BY <1>1 DEF EmbInv, EmbTyped
  <1>4. QED  BY <1>1, <1>2, <1>3, NextDocKeeps

\* The key without a chunk number is no chunk.
LEMMA PutOneKeeps ==
  ASSUME EmbInv, NEW p \in Tasks, PutOne(p) \/ CleanLegacy(p) \/ AddOne(p)
  PROVE  EmbInv'
  <1>1. TasksTyped /\ task[p].pc # "idle" /\ vectors \in [VDocs -> [Slots -> VTexts \cup {NoVec}]]
    BY DEF EmbInv, EmbTyped, PutOne, CleanLegacy, AddOne
  <1>2. PICK e, t : e = Doc(p) /\ t = Text(p)
    OBVIOUS
  <1>3. e \in VDocs /\ t \in VTexts
    BY <1>1, <1>2, JobFacts
  <1>4. PICK v \in VTexts \cup {NoVec} : vectors' = vectors \/ vectors' = [vectors EXCEPT ![e][Legacy] = v]
    <2>1. CASE PutOne(p)
      BY <1>2, <1>3, <2>1 DEF PutOne
    <2>2. CASE CleanLegacy(p)
      BY <1>2, <2>2 DEF CleanLegacy
    <2>3. CASE AddOne(p)
      BY <2>3 DEF AddOne
    <2>4. QED  BY <2>1, <2>2, <2>3
  <1>5. vectors' \in [VDocs -> [Slots -> VTexts \cup {NoVec}]]
    BY <1>1, <1>3, <1>4
  <1>6. \A d \in VDocs, s \in ChunkSlots : vectors'[d][s] = vectors[d][s]
    BY <1>1, <1>3, <1>4, SlotFacts
  <1>7. UNCHANGED <<edoc, jobs, shared>> /\ (NextDoc(p, "check") \/ NextDoc(p, "checkone") \/ Goto(p, "addone", 0))
    BY DEF PutOne, CleanLegacy, AddOne
  <1>8. QED  BY <1>1, <1>5, <1>6, <1>7, NextDocKeeps

\* AddChunk touches the index, and stays with the document.
LEMMA AddChunkKeeps ==
  ASSUME EmbInv, NEW p \in Tasks, AddChunk(p)
  PROVE  EmbInv'
  <1>1. TasksTyped /\ task[p].pc = "add" /\ task[p].at \in Int
    BY DEF EmbInv, EmbTyped, AddChunk, TasksTyped, TaskRec
  <1>2. PICK n : n = task[p].at + 1
    OBVIOUS
  <1>3. n \in Int /\ 0 \in Int /\ (Goto(p, "clean", 0) \/ Goto(p, "add", n)) /\ {"add", "clean"} \subseteq TaskPcs
    BY <1>1, <1>2 DEF AddChunk, TaskPcs
  <1>4. TasksTyped' /\ task'[p].todo = task[p].todo /\ \A q \in Tasks \ {p} : task'[q] = task[q]
    BY <1>1, <1>3, GotoFacts
  <1>5. UNCHANGED <<edoc, jobs, vectors, shared>>
    BY DEF AddChunk
  <1>6. EmbTyped'
    BY <1>4, <1>5 DEF EmbInv, EmbTyped
  <1>7. QED  BY <1>1, <1>4, <1>5, <1>6, TaskMoves DEF Embedder

\* PutChunks writes all the chunks of one text.  No other task is between its put and its clean-up
\* unless the document is shared now.
LEMMA PutChunksKeeps ==
  ASSUME EmbInv, NEW p \in Tasks, PutChunks(p)
  PROVE  EmbInv'
  <1>1. TasksTyped /\ task[p].pc = "embed" /\ vectors \in [VDocs -> [Slots -> VTexts \cup {NoVec}]]
    BY DEF EmbInv, EmbTyped, PutChunks
  <1>2. PICK e, t : e = Doc(p) /\ t = Text(p)
    OBVIOUS
  <1>3. e \in VDocs /\ t \in VTexts /\ t # NoVec
    BY <1>1, <1>2, JobFacts, NoVecAssumption
  <1>4. PICK k : k = ChunksOf[t]
    OBVIOUS
  <1>5. k \in Nat /\ k >= 1 /\ 0..(k - 1) \subseteq ChunkSlots
    BY <1>3, <1>4, SlotFacts
  <1>6. vectors' = [vectors EXCEPT ![e] = [s \in Slots |-> IF s \in 0..(k - 1) THEN t ELSE vectors[e][s]]]
    BY <1>2, <1>4 DEF PutChunks, ChunkCount
  <1>7. Goto(p, "add", 0) /\ UNCHANGED <<edoc, jobs>>
    BY DEF PutChunks
  <1>8. /\ TasksTyped' /\ task'[p].todo = task[p].todo /\ \A q \in Tasks \ {p} : task'[q] = task[q]
    <2>1. "add" \in TaskPcs /\ 0 \in Int
      BY DEF TaskPcs
    <2>2. QED  BY <1>1, <1>7, <2>1, GotoFacts
  <1>9. /\ \A s \in Slots : vectors'[e][s] = IF s \in 0..(k - 1) THEN t ELSE vectors[e][s]
        /\ \A d \in VDocs : d # e => vectors'[d] = vectors[d]
    BY <1>1, <1>3, <1>6
  <1>10. EmbTyped'
    <2>1. vectors' \in [VDocs -> [Slots -> VTexts \cup {NoVec}]]
      <3>1. [s \in Slots |-> IF s \in 0..(k - 1) THEN t ELSE vectors[e][s]] \in [Slots -> VTexts \cup {NoVec}]
        BY <1>1, <1>3
      <3>2. QED  BY <1>1, <1>3, <1>6, <3>1
    <2>2. QED  BY <1>7, <1>8, <2>1 DEF EmbInv, EmbTyped
  <1>11. /\ \A d \in VDocs : d # e => (d \in shared' <=> d \in shared)
         /\ e \notin shared' => \A q \in Tasks \ {p} : ~(Embedder(q) /\ Doc(q) = e)
    BY <1>2 DEF PutChunks
  <1>13. SkipIsSound'
    <2> SUFFICES ASSUME NEW d \in VDocs, d \notin shared', vectors'[d][0] # NoVec,
                        NEW s \in 0..(ChunksOf[vectors'[d][0]] - 1)
                 PROVE  vectors'[d][s] = vectors'[d][0]
      BY DEF SkipIsSound
    <2>1. CASE d # e
      BY <1>9, <1>11, <2>1 DEF EmbInv, SkipIsSound
    <2>2. CASE d = e
      <3>1. 0 \in Slots /\ 0 \in 0..(k - 1)
        BY <1>5, SlotFacts
      <3>2. vectors'[e][0] = t
        BY <1>9, <3>1
      <3>3. s \in 0..(k - 1) /\ s \in Slots
        BY <1>4, <1>5, <2>2, <3>2, SlotFacts
      <3>4. QED  BY <1>9, <2>2, <3>2, <3>3
    <2>3. QED  BY <2>1, <2>2
  <1>14. EmbedderOwns'
    <2> SUFFICES ASSUME NEW q \in Tasks, Embedder(q)', Doc(q)' \notin shared'
                 PROVE  vectors'[Doc(q)'][0] \in {NoVec, Text(q)'}
      BY DEF EmbedderOwns
    <2>1. 0 \in Slots /\ 0 \in 0..(k - 1)
      BY <1>5, SlotFacts
    <2>2. CASE q = p
      <3>1. Doc(q)' = e /\ Text(q)' = t
        BY <1>2, <1>8, <2>2 DEF Doc, Text
      <3>2. QED  BY <1>9, <2>1, <3>1
    <2>3. CASE q # p
      <3>1. Embedder(q) /\ Doc(q)' = Doc(q) /\ Text(q)' = Text(q)
        BY <1>8, <2>3 DEF Embedder, Doc, Text
      <3>2. Doc(q) \in VDocs
        BY <1>1, <3>1, JobFacts DEF Embedder
      <3>3. Doc(q) # e
        BY <1>11, <2>3, <3>1
      <3>4. Doc(q) \notin shared
        BY <1>11, <3>1, <3>2, <3>3
      <3>5. vectors[Doc(q)][0] \in {NoVec, Text(q)}
        BY <3>1, <3>4 DEF EmbInv, EmbedderOwns
      <3>6. QED  BY <1>9, <3>1, <3>2, <3>3, <3>5
    <2>4. QED  BY <2>2, <2>3
  <1>15. QED  BY <1>10, <1>13, <1>14 DEF EmbInv

\* CleanStaleChunks takes only chunks from the count of its own text on.  Of a document that is not
\* shared those are not chunks of the text in the first slot, for that text is its own.
LEMMA CleanKeeps ==
  ASSUME EmbInv, NEW p \in Tasks, CleanStaleChunks(p)
  PROVE  EmbInv'
  <1>1. TasksTyped /\ task[p].pc = "clean" /\ vectors \in [VDocs -> [Slots -> VTexts \cup {NoVec}]]
    BY DEF EmbInv, EmbTyped, CleanStaleChunks
  <1>2. PICK e, t : e = Doc(p) /\ t = Text(p)
    OBVIOUS
  <1>3. e \in VDocs /\ t \in VTexts /\ t # NoVec
    BY <1>1, <1>2, JobFacts, NoVecAssumption
  <1>4. PICK k : k = ChunksOf[t]
    OBVIOUS
  <1>5. k \in Nat /\ k >= 1 /\ 0..(k - 1) \subseteq ChunkSlots /\ k = ChunkCount(p)
    BY <1>2, <1>3, <1>4, SlotFacts DEF ChunkCount
  <1>6. PICK stale : stale = {s \in ChunkSlots : s >= k /\ vectors[e][s] # NoVec}
    OBVIOUS
  <1>7. PICK gone \in SUBSET stale :
          vectors' = [vectors EXCEPT ![e] = [s \in Slots |-> IF s \in gone THEN NoVec ELSE vectors[e][s]]]
    <2>1. PICK gone \in SUBSET {s \in ChunkSlots : s >= ChunkCount(p) /\ vectors[Doc(p)][s] # NoVec} :
            vectors' = [vectors EXCEPT ![Doc(p)] = [s \in Slots |-> IF s \in gone THEN NoVec ELSE vectors[Doc(p)][s]]]
      BY <1>1, <1>2, <1>3 DEF CleanStaleChunks
    <2>2. gone \in SUBSET stale
      BY <1>2, <1>5, <1>6, <2>1
    <2>3. QED BY <1>2, <2>1, <2>2
  <1>8. UNCHANGED <<edoc, jobs, shared>> /\ (Goto(p, "cleanold", 0) \/ NextDoc(p, "check"))
    BY DEF CleanStaleChunks
  <1>9. /\ TasksTyped' /\ \A q \in Tasks \ {p} : task'[q] = task[q]
        /\ Embedder(p)' => task'[p].todo = task[p].todo
    <2>1. {"check", "cleanold"} \subseteq TaskPcs /\ 0 \in Int
      BY DEF TaskPcs
    <2>2. CASE Goto(p, "cleanold", 0)
      BY <1>1, <2>1, <2>2, GotoFacts
    <2>3. CASE NextDoc(p, "check")
      <3>1. TasksTyped' /\ task'[p].pc \in {"idle", "check"} /\ \A q \in Tasks \ {p} : task'[q] = task[q]
        BY <1>1, <2>1, <2>3, NextDocFacts
      <3>2. QED  BY <3>1 DEF Embedder
    <2>4. QED  BY <1>8, <2>2, <2>3
  <1>10. /\ \A s \in ChunkSlots : ~(s >= k) => vectors'[e][s] = vectors[e][s]
         /\ \A d \in VDocs : d # e => vectors'[d] = vectors[d]
    <2>1. /\ \A s \in Slots : vectors'[e][s] = IF s \in gone THEN NoVec ELSE vectors[e][s]
          /\ \A d \in VDocs : d # e => vectors'[d] = vectors[d]
      BY <1>1, <1>3, <1>7
    <2>2. QED  BY <1>6, <2>1, SlotFacts
  <1>11. EmbTyped'
    <2>1. vectors' \in [VDocs -> [Slots -> VTexts \cup {NoVec}]]
      <3>1. [s \in Slots |-> IF s \in gone THEN NoVec ELSE vectors[e][s]] \in [Slots -> VTexts \cup {NoVec}]
        BY <1>1, <1>3
      <3>2. QED  BY <1>1, <1>3, <1>7, <3>1
    <2>2. QED  BY <1>8, <1>9, <2>1 DEF EmbInv, EmbTyped
  <1>12. 0 \in ChunkSlots /\ vectors'[e][0] = vectors[e][0]
    BY <1>5, <1>10, SlotFacts
  <1>14. SkipIsSound'
    <2> SUFFICES ASSUME NEW d \in VDocs, d \notin shared, vectors'[d][0] # NoVec,
                        NEW s \in 0..(ChunksOf[vectors'[d][0]] - 1)
                 PROVE  vectors'[d][s] = vectors'[d][0]
      BY <1>8 DEF SkipIsSound
    <2>1. CASE d # e
      BY <1>10, <2>1 DEF EmbInv, SkipIsSound
    <2>2. CASE d = e
      <3>1. vectors[e][0] = t
        <4>1. Embedder(p)
          BY <1>1 DEF Embedder
        <4>2. vectors[e][0] \in {NoVec, t}
          BY <1>2, <2>2, <4>1 DEF EmbInv, EmbedderOwns
        <4>3. QED  BY <1>12, <2>2, <4>2
      <3>2. s \in 0..(k - 1) /\ s \in ChunkSlots /\ ~(s >= k)
        <4>1. ChunksOf[vectors'[d][0]] = k
          BY <1>4, <1>12, <2>2, <3>1
        <4>2. s \in 0..(k - 1)
          BY <4>1
        <4>3. QED  BY <1>5, <4>2
      <3>3. vectors[e][s] = vectors[e][0]
        BY <1>3, <1>4, <2>2, <3>1, <3>2 DEF EmbInv, SkipIsSound
      <3>4. QED  BY <1>10, <1>12, <2>2, <3>2, <3>3
    <2>3. QED  BY <2>1, <2>2
  <1>15. EmbedderOwns'
    <2> SUFFICES ASSUME NEW q \in Tasks, Embedder(q)', Doc(q)' \notin shared
                 PROVE  vectors'[Doc(q)'][0] \in {NoVec, Text(q)'}
      BY <1>8 DEF EmbedderOwns
    <2>1. Embedder(q) /\ Doc(q)' = Doc(q) /\ Text(q)' = Text(q)
      <3>1. task'[q].todo = task[q].todo
        BY <1>9
      <3>2. Embedder(q)
        BY <1>1, <1>9 DEF Embedder
      <3>3. QED  BY <3>1, <3>2 DEF Doc, Text
    <2>2. Doc(q) \in VDocs
      BY <1>1, <2>1, JobFacts DEF Embedder
    <2>3. vectors[Doc(q)][0] \in {NoVec, Text(q)}
      BY <2>1 DEF EmbInv, EmbedderOwns
    <2>4. vectors'[Doc(q)][0] = vectors[Doc(q)][0]
      BY <1>10, <1>12, <2>2
    <2>5. QED  BY <2>1, <2>3, <2>4
  <1>16. QED  BY <1>11, <1>14, <1>15 DEF EmbInv

\* After a crash nobody is between a put and its clean-up.
LEMMA EmbCrashKeeps ==
  ASSUME EmbInv, EmbCrash
  PROVE  EmbInv'
  <1>1. TIdle \in TaskRec /\ TIdle.pc = "idle"
    BY DEF TIdle, TaskRec, TaskPcs
  <1>2. \A q \in Tasks : task'[q] = TIdle
    BY DEF EmbCrash
  <1>3. TasksTyped'
    BY <1>1, <1>2 DEF TasksTyped, EmbCrash
  <1>4. EmbTyped'
    BY <1>3 DEF EmbInv, EmbTyped, EmbCrash
  <1>5. \A q \in Tasks : ~(Embedder(q)')
    BY <1>1, <1>2 DEF Embedder
  <1>6. UNCHANGED <<vectors, shared>>
    BY DEF EmbCrash
  <1>7. QED  BY <1>4, <1>5, <1>6, ChunksKept

\* No document has chunks at the start.
LEMMA EmbInitHolds == EmbInit => EmbInv
  <1> SUFFICES ASSUME EmbInit PROVE EmbInv
    OBVIOUS
  <1>1. TIdle \in TaskRec /\ TIdle.pc = "idle"
    BY DEF TIdle, TaskRec, TaskPcs
  <1>2. TasksTyped /\ \A q \in Tasks : ~Embedder(q)
    BY <1>1 DEF EmbInit, TasksTyped, Embedder
  <1>3. vectors = [d \in VDocs |-> [s \in Slots |-> NoVec]]
    BY DEF EmbInit, NoVectors
  <1>4. EmbTyped
    BY <1>2, <1>3 DEF EmbInit, EmbTyped
  <1>5. \A d \in VDocs, s \in ChunkSlots : vectors[d][s] = NoVec
    BY <1>3, SlotFacts
  <1>7. SkipIsSound
    BY <1>5, SlotFacts DEF SkipIsSound
  <1>8. QED  BY <1>2, <1>4, <1>7 DEF EmbInv, EmbedderOwns

\* The invariant of the embedding workers.
LEMMA EmbInvariant == EmbSpec => []EmbInv
  <1>1. EmbInit => EmbInv
    BY EmbInitHolds
  <1>2. EmbInv /\ [EmbNext]_embVars => EmbInv'
    <2> SUFFICES ASSUME EmbInv, [EmbNext]_embVars PROVE EmbInv'
      OBVIOUS
    <2>1. ASSUME NEW c \in EClients, NEW d \in VDocs, NEW text \in VTexts, EWrite(c, d, text) PROVE EmbInv'
      BY <2>1, EWriteKeeps
    <2>2. ASSUME NEW c \in EClients, NEW d \in VDocs, EDelete(c, d) PROVE EmbInv'
      BY <2>2, EDeleteKeeps
    <2>3. ASSUME NEW c \in EClients, NEW l \in {"check", "checkone"}, NEW force \in BOOLEAN,
                 VectorReindex(c, l, force)
          PROVE  EmbInv'
      BY <2>3, ReindexKeeps
    <2>4. ASSUME NEW c \in EClients, Serve(c) PROVE EmbInv'
      BY <2>4, EEnqueueKeeps, VectorDeleteKeeps, UnindexKeeps DEF Serve
    <2>5. ASSUME NEW w \in EWorkers, TakeJob(w) PROVE EmbInv'
      BY <2>5, TakeJobKeeps
    <2>6. ASSUME NEW p \in Tasks, Work(p) PROVE EmbInv'
      BY <2>6, CheckKeeps, EmbedFailsKeeps, PutChunksKeeps, AddChunkKeeps, CleanKeeps, PutOneKeeps DEF Work
    <2>7. CASE EmbCrash
      BY <2>7, EmbCrashKeeps
    <2>8. CASE LoadIndex \/ UNCHANGED embVars
      <3>1. UNCHANGED <<edoc, jobs, vectors, task, shared>>
        BY <2>8 DEF LoadIndex, embVars
      <3>2. EmbTyped'
        BY <3>1 DEF EmbInv, EmbTyped, TasksTyped
      <3>3. QED  BY <3>1, <3>2, ChunksKept DEF Embedder
    <2>9. QED  BY <2>1, <2>2, <2>3, <2>4, <2>5, <2>6, <2>7, <2>8 DEF EmbNext
  <1>3. QED  BY <1>1, <1>2, PTL DEF EmbSpec

\* For any workers, handlers, documents and texts: however puts, clean-ups and deletes that leave
\* chunks behind, failures and crashes interleave, where no other task was between its put and its
\* clean-up the text processJob skips as embedded is stored whole (PutChunks, CleanStaleChunks,
\* processJob in embedding_worker.go).
THEOREM SkippedIsStored == EmbSpec => []SkipIsSound
  <1>1. EmbInv => SkipIsSound
    BY DEF EmbInv
  <1>2. QED  BY <1>1, EmbInvariant, PTL

-----------------------------------------------------------------------------
(* Bulk jobs. *)

BulkTyped ==
  /\ record \in [Jobs -> Record \cup {NoJob}]
  /\ queue \in Seq(Jobs)
  /\ landed \in [Jobs -> Nat]
  /\ client \in [Clients -> [pc : {"idle", "enqueue", "full", "fullsave", "cancel"},
                             job : Jobs \cup {NoJob}, rec : Record]]
  /\ worker \in [pc : {"idle", "get", "start", "chunk", "save"},
                 job : Jobs \cup {NoJob}, rec : Record, chunk : 0..Chunks]

Blank(r) == r.processed = 0 /\ r.failed = 0
InQueue(j) == \E i \in 1..Len(queue) : queue[i] = j

\* A job that the worker has not begun to write.
Waits(j) ==
  \/ InQueue(j)
  \/ \E c \in Clients : client[c].pc = "enqueue" /\ client[c].job = j
  \/ worker.pc \in {"get", "start"} /\ worker.job = j

\* A job is in one place: the hands of the handler that submits it, the queue, the worker.
OncePerJob ==
  /\ \A i, k \in 1..Len(queue) : queue[i] = queue[k] => i = k
  /\ \A c \in Clients : client[c].pc = "enqueue" =>
       /\ ~InQueue(client[c].job)
       /\ worker.pc # "idle" => worker.job # client[c].job
       /\ \A d \in Clients : client[d].pc = "enqueue" /\ client[d].job = client[c].job => d = c
  /\ worker.pc # "idle" => ~InQueue(worker.job)

\* A job somebody works on has a record, which does not say that the worker is through.
HasRecord ==
  /\ \A i \in 1..Len(queue) : record[queue[i]] # NoJob
  /\ \A c \in Clients : client[c].pc # "idle" => client[c].job \in Jobs /\ record[client[c].job] # NoJob
  /\ worker.pc # "idle" => /\ worker.job \in Jobs /\ record[worker.job] # NoJob
                           /\ record[worker.job].status # "completed"
  /\ \A j \in Jobs : record[j] = NoJob => landed[j] = 0

\* Nothing of a waiting job is in the database, and no copy of its record counts anything.
Untouched ==
  \A j \in Jobs : Waits(j) =>
    /\ landed[j] = 0
    /\ Blank(record[j]) /\ record[j].status # "completed"
    /\ \A c \in Clients : client[c].pc # "idle" /\ client[c].job = j => Blank(client[c].rec)

\* The worker's copy of the record counts exactly what has landed.
WorkerExact ==
  /\ worker.pc = "start" => Blank(worker.rec) /\ worker.rec.status = "processing"
  /\ worker.pc \in {"chunk", "save"} =>
       /\ worker.rec.status = "processing"
       /\ worker.rec.processed = worker.chunk * ChunkDocs
       /\ worker.rec.failed <= worker.rec.processed
       /\ landed[worker.job] = worker.rec.processed - worker.rec.failed

\* A record that a handler read earlier and will store is out of date, never ahead.
HeldIsOld ==
  \A c \in Clients : client[c].pc # "idle" =>
    /\ client[c].rec.status # "completed"
    /\ client[c].rec.processed - client[c].rec.failed <= landed[client[c].job]

\* RecordsTruthful is not inductive: any of the copies above may be stored next.
BulkInv ==
  BulkTyped /\ OncePerJob /\ HasRecord /\ Untouched /\ WorkerExact /\ HeldIsOld /\ RecordsTruthful

-----------------------------------------------------------------------------
\* Chunks up to the last stay within the job.
LEMMA ChunksFit ==
  /\ Total \in Nat /\ ChunkDocs \in Nat /\ Chunks \in Nat
  /\ \A n \in 0..Chunks : n * ChunkDocs \in Nat /\ n * ChunkDocs <= Total
  /\ \A n \in 0..Chunks : (n + 1) * ChunkDocs = n * ChunkDocs + ChunkDocs
  /\ 0 * ChunkDocs = 0 /\ Chunks * ChunkDocs = Total
<1>1. \A a, b, d \in Nat : a <= b => a * d <= b * d /\ a * d \in Nat /\ b * d \in Nat
  OBVIOUS
<1>2. \A a, d \in Nat : (a + 1) * d = a * d + d /\ 0 * d = 0
  OBVIOUS
<1>3. ChunkDocs \in Nat /\ Chunks \in Nat
  BY BulkSizesAssumption
<1> QED BY <1>1, <1>2, <1>3 DEF Total

\* The initial record, and records of it with another status.
LEMMA RecordFacts ==
  /\ Fresh \in Record /\ Blank(Fresh) /\ Fresh.status = "pending" /\ Fresh # NoJob
  /\ NoJob \notin Record
  /\ \A r \in Record, s \in Statuses :
       LET q == [r EXCEPT !.status = s] IN
         q \in Record /\ q.status = s /\ q.processed = r.processed /\ q.failed = r.failed
  /\ \A r \in Record : r.processed \in Nat /\ r.failed \in Nat
                       /\ r.processed <= Total /\ r.failed <= Total
<1>1. Fresh \in Record
  BY ChunksFit DEF Fresh, Record, Statuses
<1>2. \A r \in Record, s \in Statuses :
       LET q == [r EXCEPT !.status = s] IN
         q \in Record /\ q.status = s /\ q.processed = r.processed /\ q.failed = r.failed
  BY DEF Record
<1>3. \A r \in Record : r.processed \in Nat /\ r.failed \in Nat
                       /\ r.processed <= Total /\ r.failed <= Total
  BY ChunksFit DEF Record
<1>4. Blank(Fresh) /\ Fresh.status = "pending"
  BY DEF Fresh, Blank
<1> QED BY <1>1, <1>2, <1>3, <1>4, BulkNoJobAssumption

\* Nothing is submitted at the start.
LEMMA BulkInvInit == BulkInit => BulkInv
<1> SUFFICES ASSUME BulkInit PROVE BulkInv
  OBVIOUS
<1>1. BulkTyped
  <2>1. ClientIdle \in [pc : {"idle", "enqueue", "full", "fullsave", "cancel"},
                        job : Jobs \cup {NoJob}, rec : Record]
    BY RecordFacts DEF ClientIdle
  <2>2. WorkerIdle \in [pc : {"idle", "get", "start", "chunk", "save"},
                        job : Jobs \cup {NoJob}, rec : Record, chunk : 0..Chunks]
    BY RecordFacts, ChunksFit DEF WorkerIdle
  <2>3. QED
    BY <2>1, <2>2 DEF BulkInit, BulkTyped
<1>2. worker.pc = "idle" /\ (\A c \in Clients : client[c].pc = "idle") /\ Len(queue) = 0
      /\ \A j \in Jobs : record[j] = NoJob /\ landed[j] = 0
  BY DEF BulkInit, ClientIdle, WorkerIdle
<1>3. \A j \in Jobs : ~Waits(j)
  BY <1>2 DEF Waits, InQueue
<1>4. QED
  BY <1>1, <1>2, <1>3
     DEF BulkInv, OncePerJob, HasRecord, Untouched, WorkerExact, HeldIsOld, RecordsTruthful,
         ProgressIsReal, CompletedIsWhole, InQueue

-----------------------------------------------------------------------------
\* A step of handler c replaces its own entry of client and no other.
LEMMA ClientFrame ==
  ASSUME BulkTyped, NEW c \in Clients, NEW r, client' = [client EXCEPT ![c] = r],
         r \in [pc : {"idle", "enqueue", "full", "fullsave", "cancel"},
                job : Jobs \cup {NoJob}, rec : Record]
  PROVE  /\ client' \in [Clients -> [pc : {"idle", "enqueue", "full", "fullsave", "cancel"},
                                     job : Jobs \cup {NoJob}, rec : Record]]
         /\ client'[c] = r
         /\ \A d \in Clients : d # c => client'[d] = client[d]
BY DEF BulkTyped

\* So does a step that stores a record.
LEMMA RecordFrame ==
  ASSUME BulkTyped, NEW j \in Jobs, NEW r \in Record, SaveJob(j, r)
  PROVE  /\ record' \in [Jobs -> Record \cup {NoJob}]
         /\ record'[j] = r
         /\ \A k \in Jobs : k # j => record'[k] = record[k]
BY DEF BulkTyped, SaveJob

\* What a handler has in its hands between two requests.
LEMMA IdleFacts ==
  /\ ClientIdle \in [pc : {"idle", "enqueue", "full", "fullsave", "cancel"},
                     job : Jobs \cup {NoJob}, rec : Record]
  /\ ClientIdle.pc = "idle"
  /\ WorkerIdle \in [pc : {"idle", "get", "start", "chunk", "save"},
                     job : Jobs \cup {NoJob}, rec : Record, chunk : 0..Chunks]
  /\ WorkerIdle.pc = "idle"
BY RecordFacts, ChunksFit DEF ClientIdle, WorkerIdle

\* Submit: the job was nobody's, and its record is blank.
LEMMA SubmitKeeps ==
  ASSUME BulkInv, NEW c \in Clients, NEW j \in Jobs, Submit(c, j)
  PROVE  BulkInv'
<1> DEFINE r == [pc |-> "enqueue", job |-> j, rec |-> Fresh]
<1>0. BulkTyped /\ OncePerJob /\ HasRecord /\ Untouched /\ WorkerExact /\ HeldIsOld /\ RecordsTruthful
  BY DEF BulkInv
<1>1. /\ client[c].pc = "idle" /\ record[j] = NoJob
      /\ UNCHANGED <<queue, landed, worker>>
      /\ record' = [record EXCEPT ![j] = Fresh] /\ SaveJob(j, Fresh)
      /\ client' = [client EXCEPT ![c] = r]
  BY DEF Submit, SaveJob, ClientStep
<1>2. r \in [pc : {"idle", "enqueue", "full", "fullsave", "cancel"},
             job : Jobs \cup {NoJob}, rec : Record]
      /\ r.pc = "enqueue" /\ r.job = j /\ r.rec = Fresh
  BY RecordFacts
<1> HIDE DEF r
<1>3. /\ client'[c] = r /\ \A d \in Clients : d # c => client'[d] = client[d]
      /\ record'[j] = Fresh /\ \A k \in Jobs : k # j => record'[k] = record[k]
  <2>1. client'[c] = r /\ \A d \in Clients : d # c => client'[d] = client[d]
    BY <1>0, <1>1, <1>2, ClientFrame
  <2>2. Fresh \in Record
    BY RecordFacts
  <2>3. QED BY <1>0, <1>1, <2>1, <2>2, RecordFrame
<1>4. BulkTyped'
  BY <1>0, <1>1, <1>2, ClientFrame, RecordFrame, RecordFacts DEF BulkTyped
<1>5. /\ landed[j] = 0 /\ ~InQueue(j) /\ (worker.pc # "idle" => worker.job # j)
      /\ \A d \in Clients : client[d].pc # "idle" => client[d].job # j
  BY <1>0, <1>1 DEF HasRecord, InQueue
<1>6. \A k : InQueue(k)' <=> InQueue(k)
  BY <1>1 DEF InQueue
<1>7. OncePerJob'
  BY <1>0, <1>1, <1>2, <1>3, <1>5, <1>6 DEF OncePerJob
<1>8. HasRecord'
  BY <1>0, <1>1, <1>2, <1>3, <1>4, <1>5, RecordFacts DEF HasRecord, InQueue, BulkTyped
<1>9. Untouched'
  <2> SUFFICES ASSUME NEW k \in Jobs, Waits(k)'
               PROVE  /\ landed'[k] = 0
                      /\ Blank(record'[k]) /\ record'[k].status # "completed"
                      /\ \A d \in Clients : client'[d].pc # "idle" /\ client'[d].job = k
                           => Blank(client'[d].rec)
    BY DEF Untouched, Blank
  <2>1. CASE k = j
    BY <2>1, <1>0, <1>1, <1>2, <1>3, <1>5, RecordFacts
  <2>2. CASE k # j
    <3>1. Waits(k)
      BY <2>2, <1>1, <1>2, <1>3, <1>6 DEF Waits
    <3>2. QED
      BY <2>2, <3>1, <1>0, <1>1, <1>2, <1>3 DEF Untouched
  <2>3. QED BY <2>1, <2>2
<1>10. WorkerExact'
  BY <1>0, <1>1 DEF WorkerExact, Blank
<1>11. HeldIsOld'
  BY <1>0, <1>1, <1>2, <1>3, <1>5, RecordFacts DEF HeldIsOld, Blank
<1>12. RecordsTruthful'
  BY <1>0, <1>1, <1>3, <1>5, RecordFacts DEF RecordsTruthful, ProgressIsReal, CompletedIsWhole, Blank
<1>13. QED
  BY <1>4, <1>7, <1>8, <1>9, <1>10, <1>11, <1>12 DEF BulkInv

\* Enqueue: the job passes from the handler to the queue, or stays with the handler.
LEMMA EnqueueKeeps ==
  ASSUME BulkInv, NEW c \in Clients, Enqueue(c)
  PROVE  BulkInv'
<1>0. BulkTyped /\ OncePerJob /\ HasRecord /\ Untouched /\ WorkerExact /\ HeldIsOld /\ RecordsTruthful
  BY DEF BulkInv
<1> DEFINE j == client[c].job
<1>1. client[c].pc = "enqueue" /\ UNCHANGED <<record, landed, worker>> /\ j \in Jobs
      /\ record[j] # NoJob
  BY <1>0 DEF Enqueue, HasRecord
<1>2. /\ WorkerExact' /\ RecordsTruthful'
  BY <1>0, <1>1 DEF WorkerExact, RecordsTruthful, ProgressIsReal, CompletedIsWhole, Blank
<1>3. CASE Len(queue) < QueueCap
  <2>1. queue' = Append(queue, j) /\ client' = [client EXCEPT ![c] = ClientIdle]
    BY <1>3 DEF Enqueue, ClientDone
  <2>2. client'[c] = ClientIdle /\ \A d \in Clients : d # c => client'[d] = client[d]
    BY <1>0, <2>1, ClientFrame, IdleFacts
  <2>3. BulkTyped'
    <3>1. queue' \in Seq(Jobs)
      BY <1>0, <1>1, <2>1 DEF BulkTyped
    <3>2. QED
      BY <1>0, <1>1, <2>1, <3>1, ClientFrame, IdleFacts DEF BulkTyped
  <2>4. /\ Len(queue') = Len(queue) + 1 /\ Len(queue) \in Nat
        /\ queue'[Len(queue) + 1] = j
        /\ \A i \in 1..Len(queue) : queue'[i] = queue[i]
    BY <1>0, <1>1, <2>1 DEF BulkTyped
  <2>5. \A k : InQueue(k)' <=> (InQueue(k) \/ k = j)
    BY <2>4 DEF InQueue
  <2> HIDE DEF j
  <2>6. OncePerJob'
    <3>1. ~InQueue(j) /\ (worker.pc # "idle" => worker.job # j)
          /\ \A d \in Clients : client[d].pc = "enqueue" /\ client[d].job = j => d = c
      BY <1>0, <1>1 DEF OncePerJob, j
    <3>2. \A i, k \in 1..Len(queue') : queue'[i] = queue'[k] => i = k
      BY <1>0, <2>4, <3>1 DEF OncePerJob, InQueue
    <3>3. QED
      BY <1>0, <1>1, <2>2, <2>5, <3>1, <3>2, IdleFacts DEF OncePerJob
  <2>7. HasRecord'
    BY <1>0, <1>1, <2>2, <2>4, IdleFacts DEF HasRecord
  <2>8. \A k \in Jobs : Waits(k)' => Waits(k)
    BY <1>1, <2>2, <2>5, IdleFacts DEF Waits, j
  <2>9. Untouched'
    BY <1>0, <1>1, <2>2, <2>8, IdleFacts DEF Untouched, Blank
  <2>10. HeldIsOld'
    BY <1>0, <1>1, <2>2, IdleFacts DEF HeldIsOld
  <2>11. QED
    BY <1>2, <2>3, <2>6, <2>7, <2>9, <2>10 DEF BulkInv
<1>4. CASE ~(Len(queue) < QueueCap)
  <2> DEFINE r == [pc |-> "full", job |-> j, rec |-> Fresh]
  <2>1. queue' = queue /\ client' = [client EXCEPT ![c] = r]
    BY <1>4 DEF Enqueue, ClientStep
  <2>2. r \in [pc : {"idle", "enqueue", "full", "fullsave", "cancel"},
               job : Jobs \cup {NoJob}, rec : Record]
        /\ r.pc = "full" /\ r.job = j /\ r.rec = Fresh
    BY <1>1, RecordFacts
  <2> HIDE DEF r
  <2>3. client'[c] = r /\ \A d \in Clients : d # c => client'[d] = client[d]
    BY <1>0, <2>1, <2>2, ClientFrame
  <2>4. BulkTyped'
    BY <1>0, <1>1, <2>1, <2>2, ClientFrame DEF BulkTyped
  <2>5. \A k : InQueue(k)' <=> InQueue(k)
    BY <2>1 DEF InQueue
  <2> HIDE DEF j
  <2>6. OncePerJob'
    BY <1>0, <1>1, <2>1, <2>2, <2>3, <2>5 DEF OncePerJob
  <2>7. HasRecord'
    BY <1>0, <1>1, <2>1, <2>2, <2>3 DEF HasRecord
  <2>8. \A k \in Jobs : Waits(k)' => Waits(k)
    BY <1>1, <2>2, <2>3, <2>5 DEF Waits, j
  <2>9. Untouched'
    BY <1>0, <1>1, <2>2, <2>3, <2>8, RecordFacts DEF Untouched, Blank
  <2>10. HeldIsOld'
    <3>1. landed[j] \in Nat
      BY <1>0, <1>1 DEF BulkTyped
    <3>2. Fresh.status # "completed" /\ Fresh.processed - Fresh.failed <= landed[j]
      BY <3>1, RecordFacts DEF Blank
    <3>3. QED
      BY <1>0, <1>1, <2>2, <2>3, <3>2 DEF HeldIsOld
  <2>11. QED
    BY <1>2, <2>4, <2>6, <2>7, <2>9, <2>10 DEF BulkInv
<1>5. QED BY <1>3, <1>4

\* QueueFullGet: the record read is stale from here on; of a job that was never queued it
\* counts nothing beyond what has landed.
LEMMA QueueFullGetKeeps ==
  ASSUME BulkInv, NEW c \in Clients, QueueFullGet(c)
  PROVE  BulkInv'
<1>0. BulkTyped /\ OncePerJob /\ HasRecord /\ Untouched /\ WorkerExact /\ HeldIsOld /\ RecordsTruthful
  BY DEF BulkInv
<1> DEFINE j == client[c].job
           q == [record[j] EXCEPT !.status = "failed"]
           r == [pc |-> "fullsave", job |-> j, rec |-> q]
<1>1. client[c].pc = "full" /\ UNCHANGED <<record, queue, landed, worker>> /\ j \in Jobs
      /\ record[j] # NoJob /\ client' = [client EXCEPT ![c] = r]
  BY <1>0 DEF QueueFullGet, HasRecord, ClientStep
<1>2. record[j] \in Record
  BY <1>0, <1>1 DEF BulkTyped
<1>3. q \in Record /\ q.status = "failed" /\ q.processed = record[j].processed
      /\ q.failed = record[j].failed
  BY <1>2, RecordFacts DEF Statuses
<1> HIDE DEF q
<1>4. r \in [pc : {"idle", "enqueue", "full", "fullsave", "cancel"},
             job : Jobs \cup {NoJob}, rec : Record]
      /\ r.pc = "fullsave" /\ r.job = j /\ r.rec = q
  BY <1>1, <1>3
<1> HIDE DEF r
<1>5. client'[c] = r /\ \A d \in Clients : d # c => client'[d] = client[d]
  BY <1>0, <1>1, <1>4, ClientFrame
<1>6. BulkTyped'
  BY <1>0, <1>1, <1>4, ClientFrame DEF BulkTyped
<1>7. \A k : InQueue(k)' <=> InQueue(k)
  BY <1>1 DEF InQueue
<1> HIDE DEF j
<1>8. OncePerJob'
  BY <1>0, <1>1, <1>4, <1>5, <1>7 DEF OncePerJob
<1>9. HasRecord'
  BY <1>0, <1>1, <1>4, <1>5 DEF HasRecord
<1>10. \A k \in Jobs : Waits(k)' => Waits(k)
  BY <1>1, <1>4, <1>5, <1>7 DEF Waits
<1>11. Untouched'
  BY <1>0, <1>1, <1>3, <1>4, <1>5, <1>10 DEF Untouched, Blank
<1>12. HeldIsOld'
  BY <1>0, <1>1, <1>3, <1>4, <1>5 DEF HeldIsOld, RecordsTruthful, ProgressIsReal
<1>13. WorkerExact' /\ RecordsTruthful'
  BY <1>0, <1>1 DEF WorkerExact, RecordsTruthful, ProgressIsReal, CompletedIsWhole, Blank
<1>14. QED
  BY <1>6, <1>8, <1>9, <1>11, <1>12, <1>13 DEF BulkInv

\* CancelGet: the same for a job found pending.
LEMMA CancelGetKeeps ==
  ASSUME BulkInv, NEW c \in Clients, NEW j \in Jobs, CancelGet(c, j)
  PROVE  BulkInv'
<1>0. BulkTyped /\ OncePerJob /\ HasRecord /\ Untouched /\ WorkerExact /\ HeldIsOld /\ RecordsTruthful
  BY DEF BulkInv
<1> DEFINE q == [record[j] EXCEPT !.status = "cancelled"]
           r == [pc |-> "cancel", job |-> j, rec |-> q]
<1>1. client[c].pc = "idle" /\ UNCHANGED <<record, queue, landed, worker>>
      /\ record[j] # NoJob /\ client' = [client EXCEPT ![c] = r]
  BY DEF CancelGet, ClientStep
<1>2. record[j] \in Record
  BY <1>0, <1>1 DEF BulkTyped
<1>3. q \in Record /\ q.status = "cancelled" /\ q.processed = record[j].processed
      /\ q.failed = record[j].failed
  BY <1>2, RecordFacts DEF Statuses
<1> HIDE DEF q
<1>4. r \in [pc : {"idle", "enqueue", "full", "fullsave", "cancel"},
             job : Jobs \cup {NoJob}, rec : Record]
      /\ r.pc = "cancel" /\ r.job = j /\ r.rec = q
  BY <1>1, <1>3
<1> HIDE DEF r
<1>5. client'[c] = r /\ \A d \in Clients : d # c => client'[d] = client[d]
  BY <1>0, <1>1, <1>4, ClientFrame
<1>6. BulkTyped'
  BY <1>0, <1>1, <1>4, ClientFrame DEF BulkTyped
<1>7. \A k : InQueue(k)' <=> InQueue(k)
  BY <1>1 DEF InQueue
<1>8. OncePerJob'
  BY <1>0, <1>1, <1>4, <1>5, <1>7 DEF OncePerJob
<1>9. HasRecord'
  BY <1>0, <1>1, <1>4, <1>5 DEF HasRecord
<1>10. \A k \in Jobs : Waits(k)' => Waits(k)
  BY <1>1, <1>4, <1>5, <1>7 DEF Waits
<1>11. Untouched'
  BY <1>0, <1>1, <1>3, <1>4, <1>5, <1>10 DEF Untouched, Blank
<1>12. HeldIsOld'
  BY <1>0, <1>1, <1>3, <1>4, <1>5 DEF HeldIsOld, RecordsTruthful, ProgressIsReal
<1>13. WorkerExact' /\ RecordsTruthful'
  BY <1>0, <1>1 DEF WorkerExact, RecordsTruthful, ProgressIsReal, CompletedIsWhole, Blank
<1>14. QED
  BY <1>6, <1>8, <1>9, <1>11, <1>12, <1>13 DEF BulkInv

\* A handler stores the record it read, however old, and is done.
LEMMA HandlerSaveKeeps ==
  ASSUME BulkInv, NEW c \in Clients, client[c].pc # "idle",
         SaveJob(client[c].job, client[c].rec), ClientDone(c), UNCHANGED <<queue, landed, worker>>
  PROVE  BulkInv'
<1>0. BulkTyped /\ OncePerJob /\ HasRecord /\ Untouched /\ WorkerExact /\ HeldIsOld /\ RecordsTruthful
  BY DEF BulkInv
<1> DEFINE j == client[c].job
           q == client[c].rec
<1>1. j \in Jobs /\ record[j] # NoJob /\ q \in Record /\ client' = [client EXCEPT ![c] = ClientIdle]
  BY <1>0 DEF HasRecord, ClientDone, BulkTyped
<1>2. q.status # "completed" /\ q.processed - q.failed <= landed[j]
  BY <1>0 DEF HeldIsOld
<1>3. Waits(j) => Blank(q)
  BY <1>0, <1>1 DEF Untouched
<1>4. record' \in [Jobs -> Record \cup {NoJob}]
      /\ record'[j] = q /\ \A k \in Jobs : k # j => record'[k] = record[k]
  BY <1>0, <1>1, RecordFrame
<1>5. client'[c] = ClientIdle /\ \A d \in Clients : d # c => client'[d] = client[d]
  BY <1>0, <1>1, ClientFrame, IdleFacts
<1>6. BulkTyped'
  BY <1>0, <1>1, <1>4, ClientFrame, IdleFacts DEF BulkTyped
<1>7. \A k : InQueue(k)' <=> InQueue(k)
  BY DEF InQueue
<1>8. q # NoJob
  BY <1>1, RecordFacts
<1> HIDE DEF j, q
<1>9. OncePerJob'
  BY <1>0, <1>1, <1>5, <1>7, IdleFacts DEF OncePerJob
<1>10. HasRecord'
  <2>1. \A k \in Jobs : record[k] # NoJob => record'[k] # NoJob
    BY <1>4, <1>8
  <2>2. \A k \in Jobs : record[k].status # "completed" => record'[k].status # "completed"
    BY <1>2, <1>4
  <2>3. \A i \in 1..Len(queue) : queue[i] \in Jobs
    BY <1>0 DEF BulkTyped
  <2>4. \A k \in Jobs : record'[k] = NoJob => record[k] = NoJob
    BY <1>4, <1>8
  <2>5. QED
    BY <1>0, <1>5, <2>1, <2>2, <2>3, <2>4, IdleFacts DEF HasRecord
<1>11. \A k \in Jobs : Waits(k)' => Waits(k)
  BY <1>5, <1>7, IdleFacts DEF Waits
<1>12. Untouched'
  BY <1>0, <1>2, <1>3, <1>4, <1>5, <1>11, IdleFacts DEF Untouched, Blank
<1>13. HeldIsOld'
  BY <1>0, <1>5, IdleFacts DEF HeldIsOld
<1>14. WorkerExact'
  BY <1>0 DEF WorkerExact, Blank
<1>15. RecordsTruthful'
  BY <1>0, <1>2, <1>4 DEF RecordsTruthful, ProgressIsReal, CompletedIsWhole
<1>16. QED
  BY <1>6, <1>9, <1>10, <1>12, <1>13, <1>14, <1>15 DEF BulkInv

-----------------------------------------------------------------------------
\* Take: the job at the head of the queue passes to the worker.
LEMMA TakeKeeps ==
  ASSUME BulkInv, Take
  PROVE  BulkInv'
<1>0. BulkTyped /\ OncePerJob /\ HasRecord /\ Untouched /\ WorkerExact /\ HeldIsOld /\ RecordsTruthful
  BY DEF BulkInv
<1>1. /\ worker.pc = "idle" /\ queue # <<>> /\ queue' = Tail(queue)
      /\ UNCHANGED <<record, landed, client>>
      /\ worker' = [WorkerIdle EXCEPT !.pc = "get", !.job = Head(queue)]
  BY DEF Take
<1>2. /\ queue \in Seq(Jobs) /\ queue' \in Seq(Jobs) /\ Len(queue) \in Nat /\ Len(queue) >= 1
      /\ Head(queue) = queue[1] /\ queue[1] \in Jobs /\ Len(queue') = Len(queue) - 1
      /\ \A i \in 1..Len(queue') : queue'[i] = queue[i + 1] /\ i + 1 \in 1..Len(queue)
  BY <1>0, <1>1 DEF BulkTyped
<1> PICK h \in Jobs : h = queue[1]
  BY <1>2
<1>3. /\ worker' \in [pc : {"idle", "get", "start", "chunk", "save"},
                      job : Jobs \cup {NoJob}, rec : Record, chunk : 0..Chunks]
      /\ worker'.pc = "get" /\ worker'.job = h
  <2>1. worker' = [pc |-> "get", job |-> h, rec |-> Fresh, chunk |-> 0]
    BY <1>1, <1>2 DEF WorkerIdle
  <2>2. Fresh \in Record /\ 0 \in 0..Chunks
    BY RecordFacts, ChunksFit
  <2>3. QED BY <2>1, <2>2
<1>4. BulkTyped'
  BY <1>0, <1>1, <1>2, <1>3 DEF BulkTyped
<1>5. \A k : InQueue(k)' => InQueue(k)
  BY <1>2 DEF InQueue
<1>6. InQueue(h) /\ ~InQueue(h)'
  <2>1. InQueue(h)
    BY <1>2 DEF InQueue
  <2>2. \A i \in 1..Len(queue') : queue'[i] # h
    BY <1>0, <1>2 DEF OncePerJob
  <2>3. QED BY <2>1, <2>2 DEF InQueue
<1>7. OncePerJob'
  <2>1. \A i, k \in 1..Len(queue') : queue'[i] = queue'[k] => i = k
    BY <1>0, <1>2 DEF OncePerJob
  <2>2. \A c \in Clients : client[c].pc = "enqueue" => client[c].job # h
    BY <1>0, <1>6 DEF OncePerJob
  <2>3. QED
    BY <1>0, <1>1, <1>3, <1>5, <1>6, <2>1, <2>2 DEF OncePerJob
<1>8. \A k \in Jobs : Waits(k)' => Waits(k)
  BY <1>1, <1>3, <1>5, <1>6 DEF Waits
<1>9. HasRecord'
  <2>1. Waits(h)
    BY <1>6 DEF Waits
  <2>2. record[h] # NoJob /\ record[h].status # "completed"
    BY <1>0, <1>2, <2>1 DEF HasRecord, Untouched
  <2>3. QED
    BY <1>0, <1>1, <1>2, <1>3, <2>2 DEF HasRecord
<1>10. Untouched'
  BY <1>0, <1>1, <1>8 DEF Untouched, Blank
<1>11. WorkerExact'
  BY <1>3 DEF WorkerExact
<1>12. HeldIsOld' /\ RecordsTruthful'
  BY <1>0, <1>1 DEF HeldIsOld, RecordsTruthful, ProgressIsReal, CompletedIsWhole
<1>13. QED
  BY <1>4, <1>7, <1>9, <1>10, <1>11, <1>12 DEF BulkInv

\* A step of the worker that stores nothing and keeps its job.
LEMMA WorkerFrame ==
  ASSUME BulkTyped, NEW pc \in {"idle", "get", "start", "chunk", "save"},
         NEW r \in Record, NEW n \in 0..Chunks, WorkerStep(pc, r, n)
  PROVE  /\ worker' \in [pc : {"idle", "get", "start", "chunk", "save"},
                         job : Jobs \cup {NoJob}, rec : Record, chunk : 0..Chunks]
         /\ worker'.pc = pc /\ worker'.job = worker.job /\ worker'.rec = r /\ worker'.chunk = n
BY DEF BulkTyped, WorkerStep

\* ProcessGet: the record the worker will write from now on is the blank one it read.
LEMMA ProcessGetKeeps ==
  ASSUME BulkInv, ProcessGet
  PROVE  BulkInv'
<1>0. BulkTyped /\ OncePerJob /\ HasRecord /\ Untouched /\ WorkerExact /\ HeldIsOld /\ RecordsTruthful
  BY DEF BulkInv
<1> DEFINE j == worker.job
           q == [record[j] EXCEPT !.status = "processing"]
<1>1. /\ worker.pc = "get" /\ UNCHANGED <<record, queue, landed, client>>
      /\ worker' = WorkerIdle \/ WorkerStep("start", q, 0)
  BY DEF ProcessGet
<1>2. j \in Jobs /\ record[j] # NoJob /\ Waits(j)
  BY <1>0, <1>1 DEF HasRecord, Waits
<1>3. record[j] \in Record /\ Blank(record[j])
  BY <1>0, <1>2 DEF BulkTyped, Untouched
<1>4. q \in Record /\ q.status = "processing" /\ Blank(q)
  BY <1>3, RecordFacts DEF Statuses, Blank
<1>5. HeldIsOld' /\ RecordsTruthful'
  BY <1>0, <1>1 DEF HeldIsOld, RecordsTruthful, ProgressIsReal, CompletedIsWhole
<1>6. \A k : InQueue(k)' <=> InQueue(k)
  BY <1>1 DEF InQueue
<1>7. /\ worker' \in [pc : {"idle", "get", "start", "chunk", "save"},
                      job : Jobs \cup {NoJob}, rec : Record, chunk : 0..Chunks]
      /\ worker'.pc \in {"idle", "start"}
      /\ worker'.pc = "start" => worker'.job = j /\ worker'.rec = q
  <2> HIDE DEF q
  <2>1. CASE worker' = WorkerIdle
    BY <2>1, IdleFacts
  <2>2. CASE WorkerStep("start", q, 0)
    <3>1. 0 \in 0..Chunks
      BY ChunksFit
    <3>2. QED BY <1>0, <1>4, <2>2, <3>1, WorkerFrame
  <2>3. QED BY <1>1, <2>1, <2>2
<1> HIDE DEF j, q
<1>8. BulkTyped'
  BY <1>0, <1>1, <1>7 DEF BulkTyped
<1>9. OncePerJob'
  BY <1>0, <1>1, <1>6, <1>7 DEF OncePerJob, j
<1>10. HasRecord'
  BY <1>0, <1>1, <1>2, <1>7 DEF HasRecord, j
<1>11. \A k \in Jobs : Waits(k)' => Waits(k)
  BY <1>1, <1>6, <1>7 DEF Waits, j
<1>12. Untouched'
  BY <1>0, <1>1, <1>11 DEF Untouched, Blank
<1>13. WorkerExact'
  BY <1>4, <1>7 DEF WorkerExact, Blank
<1>14. QED
  BY <1>5, <1>8, <1>9, <1>10, <1>12, <1>13 DEF BulkInv

\* The worker stores its copy and goes on in the loop (ProcessStart, ProcessSave).
LEMMA WorkerSaveKeeps ==
  ASSUME BulkInv, worker.pc \in {"start", "save"},
         SaveJob(worker.job, worker.rec),
         WorkerStep("chunk", worker.rec, IF worker.pc = "start" THEN 0 ELSE worker.chunk),
         UNCHANGED <<queue, landed, client>>
  PROVE  BulkInv'
<1>0. BulkTyped /\ OncePerJob /\ HasRecord /\ Untouched /\ WorkerExact /\ HeldIsOld /\ RecordsTruthful
  BY DEF BulkInv
<1> DEFINE j == worker.job
           q == worker.rec
           n == IF worker.pc = "start" THEN 0 ELSE worker.chunk
<1>1. j \in Jobs /\ record[j] # NoJob /\ q \in Record /\ q # NoJob /\ n \in 0..Chunks
  BY <1>0, RecordFacts, ChunksFit DEF HasRecord, BulkTyped
<1>2. /\ q.status = "processing" /\ q.processed = n * ChunkDocs /\ q.failed <= q.processed
      /\ landed[j] = q.processed - q.failed
  <2>1. CASE worker.pc = "start"
    <3>1. Waits(j) /\ landed[j] = 0
      BY <1>0, <1>1, <2>1 DEF Waits, Untouched
    <3>2. q.processed = 0 /\ q.failed = 0 /\ q.status = "processing"
      BY <1>0, <2>1 DEF WorkerExact, Blank
    <3>3. QED BY <2>1, <3>1, <3>2, ChunksFit
  <2>2. CASE worker.pc = "save"
    BY <1>0, <2>2 DEF WorkerExact
  <2>3. QED BY <2>1, <2>2
<1>3. /\ worker' \in [pc : {"idle", "get", "start", "chunk", "save"},
                      job : Jobs \cup {NoJob}, rec : Record, chunk : 0..Chunks]
      /\ worker'.pc = "chunk" /\ worker'.job = j /\ worker'.rec = q /\ worker'.chunk = n
  <2> HIDE DEF n
  <2>1. WorkerStep("chunk", q, n)
    BY DEF n
  <2>2. QED BY <1>0, <1>1, <2>1, WorkerFrame
<1>4. record' \in [Jobs -> Record \cup {NoJob}]
      /\ record'[j] = q /\ \A k \in Jobs : k # j => record'[k] = record[k]
  BY <1>0, <1>1, RecordFrame
<1> HIDE DEF n
<1>5. BulkTyped'
  BY <1>0, <1>3, <1>4 DEF BulkTyped
<1>6. \A k : InQueue(k)' <=> InQueue(k)
  BY DEF InQueue
<1>7. ~InQueue(j) /\ \A c \in Clients : client[c].pc = "enqueue" => client[c].job # j
  BY <1>0 DEF OncePerJob
<1> HIDE DEF j, q
<1>8. OncePerJob'
  BY <1>0, <1>3, <1>6, <1>7 DEF OncePerJob
<1>9. HasRecord'
  <2>1. \A k \in Jobs : record[k] # NoJob <=> record'[k] # NoJob
    BY <1>1, <1>4
  <2>2. \A i \in 1..Len(queue) : queue[i] \in Jobs
    BY <1>0 DEF BulkTyped
  <2>3. QED
    BY <1>0, <1>1, <1>2, <1>3, <1>4, <2>1, <2>2 DEF HasRecord
<1>10. \A k \in Jobs : Waits(k)' => Waits(k) /\ k # j
  BY <1>3, <1>6, <1>7 DEF Waits
<1>11. Untouched'
  BY <1>0, <1>4, <1>10 DEF Untouched, Blank
<1>12. WorkerExact'
  BY <1>2, <1>3 DEF WorkerExact
<1>13. HeldIsOld'
  BY <1>0 DEF HeldIsOld
<1>14. RecordsTruthful'
  <2>1. landed[j] \in Nat
    BY <1>0, <1>1 DEF BulkTyped
  <2>2. q.processed - q.failed <= landed[j] /\ q.status # "completed"
    BY <1>2, <2>1
  <2>3. QED
    BY <1>0, <1>4, <2>2 DEF RecordsTruthful, ProgressIsReal, CompletedIsWhole
<1>15. QED
  BY <1>5, <1>8, <1>9, <1>11, <1>12, <1>13, <1>14 DEF BulkInv

\* ProcessChunk: what lands and what is counted grow together, in the worker's copy alone.
LEMMA ProcessChunkKeeps ==
  ASSUME BulkInv, ProcessChunk
  PROVE  BulkInv'
<1>0. BulkTyped /\ OncePerJob /\ HasRecord /\ Untouched /\ WorkerExact /\ HeldIsOld /\ RecordsTruthful
  BY DEF BulkInv
<1> DEFINE j == worker.job
           r == worker.rec
           n == worker.chunk + 1
<1>1. worker.pc = "chunk" /\ worker.chunk < Chunks /\ UNCHANGED <<record, queue, client>>
  BY DEF ProcessChunk
<1>2. PICK bad \in 0..ChunkDocs :
        /\ landed' = [landed EXCEPT ![j] = @ + ChunkDocs - bad]
        /\ WorkerStep("save", [r EXCEPT !.processed = n * ChunkDocs, !.failed = @ + bad], n)
  BY DEF ProcessChunk
<1>3. j \in Jobs /\ r \in Record /\ worker.chunk \in 0..Chunks /\ landed[j] \in Nat
  BY <1>0, <1>1 DEF BulkTyped, HasRecord
<1>4. /\ r.status = "processing" /\ r.processed = worker.chunk * ChunkDocs
      /\ r.failed <= r.processed /\ landed[j] = r.processed - r.failed
  BY <1>0, <1>1 DEF WorkerExact
<1>5. /\ n \in 0..Chunks /\ n * ChunkDocs = r.processed + ChunkDocs
      /\ n * ChunkDocs \in Nat /\ n * ChunkDocs <= Total
  BY <1>1, <1>3, <1>4, ChunksFit
<1>6. bad \in Nat /\ bad <= ChunkDocs /\ r.failed \in Nat /\ r.processed \in Nat
      /\ ChunkDocs \in Nat /\ Total \in Nat
  BY <1>3, RecordFacts, ChunksFit
<1>7. r.failed + bad \in 0..Total /\ n * ChunkDocs \in 0..Total
      /\ r.failed + bad <= n * ChunkDocs
  BY <1>4, <1>5, <1>6
<1> PICK p \in 0..Total : p = n * ChunkDocs
  BY <1>7
<1> PICK f \in 0..Total : f = r.failed + bad
  BY <1>7
<1> DEFINE q == [r EXCEPT !.processed = n * ChunkDocs, !.failed = @ + bad]
<1>9. q \in Record /\ q.status = "processing" /\ q.processed = p /\ q.failed = f
  <2> HIDE DEF r, n
  <2>1. q = [r EXCEPT !.processed = p, !.failed = f]
    OBVIOUS
  <2> HIDE DEF q
  <2>2. q \in Record
    BY <1>3, <2>1 DEF Record
  <2>3. q.status = r.status /\ q.processed = p /\ q.failed = f
    BY <1>3, <2>1 DEF Record
  <2>4. QED BY <1>4, <2>2, <2>3
<1> HIDE DEF q
<1>10. /\ worker' \in [pc : {"idle", "get", "start", "chunk", "save"},
                       job : Jobs \cup {NoJob}, rec : Record, chunk : 0..Chunks]
       /\ worker'.pc = "save" /\ worker'.job = j /\ worker'.rec = q /\ worker'.chunk = n
  <2>1. WorkerStep("save", q, n)
    BY <1>2 DEF q
  <2>2. QED BY <1>0, <1>5, <1>9, <2>1, WorkerFrame
<1>11. /\ landed' \in [Jobs -> Nat] /\ landed'[j] = p - f
       /\ landed'[j] >= landed[j]
       /\ \A k \in Jobs : k # j => landed'[k] = landed[k]
  <2>1. landed[j] + ChunkDocs - bad \in Nat /\ landed[j] + ChunkDocs - bad = p - f
        /\ landed[j] + ChunkDocs - bad >= landed[j]
    BY <1>3, <1>4, <1>5, <1>6, <1>7
  <2>2. QED
    BY <1>0, <1>2, <1>3, <2>1 DEF BulkTyped
<1>12. f <= p /\ p = n * ChunkDocs
  BY <1>7
<1>13. ~InQueue(j) /\ \A c \in Clients : client[c].pc = "enqueue" => client[c].job # j
  BY <1>0, <1>1 DEF OncePerJob
<1>14. record[j] # NoJob /\ record[j].status # "completed"
  BY <1>0, <1>1 DEF HasRecord
<1> HIDE DEF j, r, n
<1>15. BulkTyped'
  BY <1>0, <1>1, <1>10, <1>11 DEF BulkTyped
<1>16. \A k : InQueue(k)' <=> InQueue(k)
  BY <1>1 DEF InQueue
<1>17. OncePerJob'
  BY <1>0, <1>1, <1>10, <1>13, <1>16 DEF OncePerJob
<1>18. HasRecord'
  BY <1>0, <1>1, <1>3, <1>10, <1>11, <1>14 DEF HasRecord
<1>19. \A k \in Jobs : Waits(k)' => Waits(k) /\ k # j
  BY <1>1, <1>10, <1>13, <1>16 DEF Waits
<1>20. Untouched'
  BY <1>0, <1>1, <1>11, <1>19 DEF Untouched, Blank
<1>21. WorkerExact'
  BY <1>9, <1>10, <1>11, <1>12 DEF WorkerExact
<1>22. \A k \in Jobs : landed[k] \in Nat /\ landed'[k] \in Nat /\ landed'[k] >= landed[k]
  BY SMTT(30), <1>0, <1>3, <1>11 DEF BulkTyped
<1>23. \A x, y, a, b \in Nat : x - y <= a /\ b >= a => x - y <= b
  OBVIOUS
<1>24. HeldIsOld'
  <2> SUFFICES ASSUME NEW c \in Clients, client[c].pc # "idle"
               PROVE  /\ client[c].rec.status # "completed"
                      /\ client[c].rec.processed - client[c].rec.failed <= landed'[client[c].job]
    BY <1>1 DEF HeldIsOld
  <2>1. client[c].job \in Jobs /\ client[c].rec \in Record
    BY <1>0 DEF HasRecord, BulkTyped
  <2>2. client[c].rec.processed \in Nat /\ client[c].rec.failed \in Nat
    BY <2>1, RecordFacts
  <2>3. QED
    BY <1>0, <1>22, <1>23, <2>1, <2>2 DEF HeldIsOld
<1>25. ProgressIsReal'
  <2> SUFFICES ASSUME NEW k \in Jobs, record[k] # NoJob
               PROVE  record[k].processed - record[k].failed <= landed'[k]
    BY <1>1 DEF ProgressIsReal
  <2>1. record[k].processed \in Nat /\ record[k].failed \in Nat
    BY <1>0, RecordFacts DEF BulkTyped
  <2>2. QED
    BY <1>0, <1>22, <1>23, <2>1 DEF RecordsTruthful, ProgressIsReal
<1>26. CompletedIsWhole'
  BY <1>0, <1>1, <1>11, <1>14 DEF RecordsTruthful, CompletedIsWhole
<1>27. QED
  BY <1>15, <1>17, <1>18, <1>20, <1>21, <1>24, <1>25, <1>26 DEF BulkInv, RecordsTruthful

\* ProcessEnd: after the last chunk the copy that is stored counts the whole job.
LEMMA ProcessEndKeeps ==
  ASSUME BulkInv, ProcessEnd
  PROVE  BulkInv'
<1>0. BulkTyped /\ OncePerJob /\ HasRecord /\ Untouched /\ WorkerExact /\ HeldIsOld /\ RecordsTruthful
  BY DEF BulkInv
<1> DEFINE j == worker.job
           r == worker.rec
           s == IF r.failed = Total THEN "failed" ELSE "completed"
           q == [r EXCEPT !.status = s]
<1>1. /\ worker.pc = "chunk" /\ worker.chunk = Chunks /\ UNCHANGED <<queue, landed, client>>
      /\ SaveJob(j, q) /\ worker' = WorkerIdle
  BY DEF ProcessEnd
<1>2. j \in Jobs /\ r \in Record /\ landed[j] \in Nat
  BY <1>0, <1>1 DEF BulkTyped, HasRecord
<1>3. /\ r.processed = Total /\ landed[j] = Total - r.failed
  BY <1>0, <1>1, ChunksFit DEF WorkerExact
<1>4. q \in Record /\ q.processed = Total /\ q.failed = r.failed /\ q # NoJob
  <2>1. s \in Statuses
    BY DEF Statuses
  <2> HIDE DEF s
  <2>2. QED BY <1>2, <1>3, <2>1, RecordFacts
<1>5. record' \in [Jobs -> Record \cup {NoJob}]
      /\ record'[j] = q /\ \A k \in Jobs : k # j => record'[k] = record[k]
  BY <1>0, <1>1, <1>2, <1>4, RecordFrame
<1>6. ~InQueue(j) /\ \A c \in Clients : client[c].pc = "enqueue" => client[c].job # j
  BY <1>0, <1>1 DEF OncePerJob
<1> HIDE DEF j, r, q
<1>7. BulkTyped'
  BY <1>0, <1>1, <1>5, IdleFacts DEF BulkTyped
<1>8. \A k : InQueue(k)' <=> InQueue(k)
  BY <1>1 DEF InQueue
<1>9. OncePerJob'
  BY <1>0, <1>1, <1>8, IdleFacts DEF OncePerJob
<1>10. HasRecord'
  <2>1. \A k \in Jobs : /\ record[k] # NoJob => record'[k] # NoJob
                        /\ record'[k] = NoJob => record[k] = NoJob
    BY <1>4, <1>5
  <2>2. \A i \in 1..Len(queue) : queue[i] \in Jobs
    BY <1>0 DEF BulkTyped
  <2>3. QED
    BY <1>0, <1>1, <2>1, <2>2, IdleFacts DEF HasRecord
<1>11. \A k \in Jobs : Waits(k)' => Waits(k) /\ k # j
  BY <1>1, <1>6, <1>8, IdleFacts DEF Waits
<1>12. Untouched'
  BY <1>0, <1>1, <1>5, <1>11 DEF Untouched, Blank
<1>13. WorkerExact' /\ HeldIsOld'
  BY <1>0, <1>1, IdleFacts DEF WorkerExact, HeldIsOld
<1>14. RecordsTruthful'
  <2>1. q.processed - q.failed <= landed[j] /\ landed[j] = Total - q.failed
    BY <1>2, <1>3, <1>4
  <2>2. QED
    BY <1>0, <1>1, <1>4, <1>5, <2>1 DEF RecordsTruthful, ProgressIsReal, CompletedIsWhole
<1>15. QED
  BY <1>7, <1>9, <1>10, <1>12, <1>13, <1>14 DEF BulkInv

\* BulkCrash: nobody holds a job or a record any more; what is stored stays.
LEMMA BulkCrashKeeps ==
  ASSUME BulkInv, BulkCrash
  PROVE  BulkInv'
<1>1. /\ UNCHANGED <<record, landed>> /\ queue' = <<>> /\ worker' = WorkerIdle
      /\ client' = [c \in Clients |-> ClientIdle]
  BY DEF BulkCrash
<1>2. worker'.pc = "idle" /\ (\A c \in Clients : client'[c].pc = "idle") /\ Len(queue') = 0
  BY <1>1, IdleFacts
<1>3. BulkTyped'
  BY <1>1, IdleFacts DEF BulkInv, BulkTyped
<1>4. \A j \in Jobs : ~Waits(j)'
  BY <1>2 DEF Waits, InQueue
<1>5. QED
  BY <1>1, <1>2, <1>3, <1>4
     DEF BulkInv, OncePerJob, HasRecord, Untouched, WorkerExact, HeldIsOld, RecordsTruthful,
         ProgressIsReal, CompletedIsWhole, InQueue

\* recoverOrphans changes statuses alone, and to failed.
LEMMA RecoverOrphansKeeps ==
  ASSUME BulkInv, RecoverOrphans
  PROVE  BulkInv'
<1>0. BulkTyped /\ OncePerJob /\ HasRecord /\ Untouched /\ WorkerExact /\ HeldIsOld /\ RecordsTruthful
  BY DEF BulkInv
<1>1. /\ UNCHANGED <<queue, landed, client, worker>>
      /\ record' = [j \in Jobs |->
           IF record[j] # NoJob /\ record[j].status \notin Terminal
             THEN [record[j] EXCEPT !.status = "failed"] ELSE record[j]]
  BY DEF RecoverOrphans
<1>2. ASSUME NEW j \in Jobs
      PROVE  /\ record'[j] \in Record \cup {NoJob}
             /\ record'[j] = NoJob <=> record[j] = NoJob
             /\ record[j] # NoJob =>
                  /\ record'[j].processed = record[j].processed
                  /\ record'[j].failed = record[j].failed
                  /\ record'[j].status = "completed" <=> record[j].status = "completed"
  <2>1. CASE record[j] # NoJob /\ record[j].status \notin Terminal
    <3>1. record[j] \in Record /\ record'[j] = [record[j] EXCEPT !.status = "failed"]
      BY <1>0, <1>1, <2>1 DEF BulkTyped
    <3>2. /\ record'[j] \in Record /\ record'[j].processed = record[j].processed
          /\ record'[j].failed = record[j].failed /\ record'[j].status = "failed"
      <4>1. "failed" \in Statuses
        BY DEF Statuses
      <4>2. QED BY <3>1, <4>1, RecordFacts
    <3>3. record'[j] # NoJob /\ record[j].status # "completed"
      BY <2>1, <3>2, RecordFacts DEF Terminal
    <3>4. QED
      BY <2>1, <3>2, <3>3
  <2>2. CASE ~(record[j] # NoJob /\ record[j].status \notin Terminal)
    BY <1>0, <1>1, <2>2 DEF BulkTyped
  <2>3. QED BY <2>1, <2>2
<1>3. BulkTyped'
  BY <1>0, <1>1, <1>2 DEF BulkTyped
<1>4. OncePerJob' /\ WorkerExact' /\ HeldIsOld' /\ \A k : Waits(k)' <=> Waits(k)
  BY <1>0, <1>1 DEF OncePerJob, WorkerExact, HeldIsOld, Waits, InQueue, Blank
<1>5. HasRecord'
  <2>1. \A i \in 1..Len(queue) : queue[i] \in Jobs
    BY <1>0 DEF BulkTyped
  <2>2. QED
    BY <1>0, <1>1, <1>2, <2>1 DEF HasRecord
<1>6. Untouched'
  <2>1. \A k \in Jobs : Waits(k) => record[k] # NoJob
    BY <1>0 DEF Waits, HasRecord, InQueue
  <2>2. QED
    BY <1>0, <1>1, <1>2, <1>4, <2>1 DEF Untouched, Blank
<1>7. RecordsTruthful'
  BY <1>0, <1>1, <1>2 DEF RecordsTruthful, ProgressIsReal, CompletedIsWhole
<1>8. QED
  BY <1>3, <1>4, <1>5, <1>6, <1>7 DEF BulkInv

-----------------------------------------------------------------------------
\* Every step keeps the invariant.
LEMMA BulkInvStep == BulkInv /\ [BulkNext]_bulkVars => BulkInv'
<1> SUFFICES ASSUME BulkInv, [BulkNext]_bulkVars PROVE BulkInv'
  OBVIOUS
<1>1. CASE \E c \in Clients, j \in Jobs : Submit(c, j)
  BY <1>1, SubmitKeeps
<1>2. CASE \E c \in Clients, j \in Jobs : CancelGet(c, j)
  BY <1>2, CancelGetKeeps
<1>3. CASE \E c \in Clients : ClientNext(c)
  <2>1. PICK c \in Clients : ClientNext(c)
    BY <1>3
  <2>2. CASE Enqueue(c)
    BY <2>2, EnqueueKeeps
  <2>3. CASE QueueFullGet(c)
    BY <2>3, QueueFullGetKeeps
  <2>4. CASE QueueFullSave(c)
    BY <2>4, HandlerSaveKeeps DEF QueueFullSave
  <2>5. CASE CancelSave(c)
    BY <2>5, HandlerSaveKeeps DEF CancelSave
  <2>6. QED BY <2>1, <2>2, <2>3, <2>4, <2>5 DEF ClientNext
<1>4. CASE WorkerNext
  <2>1. CASE Take
    BY <2>1, TakeKeeps
  <2>2. CASE ProcessGet
    BY <2>2, ProcessGetKeeps
  <2>3. CASE ProcessStart
    BY <2>3, WorkerSaveKeeps DEF ProcessStart
  <2>4. CASE ProcessChunk
    BY <2>4, ProcessChunkKeeps
  <2>5. CASE ProcessSave
    BY <2>5, WorkerSaveKeeps DEF ProcessSave
  <2>6. CASE ProcessEnd
    BY <2>6, ProcessEndKeeps
  <2>7. QED BY <1>4, <2>1, <2>2, <2>3, <2>4, <2>5, <2>6 DEF WorkerNext
<1>5. CASE BulkCrash
  BY <1>5, BulkCrashKeeps
<1>6. CASE RecoverOrphans
  BY <1>6, RecoverOrphansKeeps
<1>7. CASE UNCHANGED bulkVars
  BY <1>7 DEF bulkVars, BulkInv, BulkTyped, OncePerJob, HasRecord, Untouched, WorkerExact, HeldIsOld,
              RecordsTruthful, ProgressIsReal, CompletedIsWhole, InQueue, Waits, Blank
<1>8. QED
  BY <1>1, <1>2, <1>3, <1>4, <1>5, <1>6, <1>7 DEF BulkNext

\* A job record read from the database is never ahead of the documents, and one that says
\* completed is whole, for any number of jobs, handlers, chunks and crashes (process, Cancel,
\* transitionStatus, recoverOrphans): every stored copy was taken before its job was complete.
THEOREM RecordsAreTruthful == BulkSpec => []RecordsTruthful
<1>1. BulkInv => RecordsTruthful
  BY DEF BulkInv
<1>2. QED
  BY <1>1, BulkInvInit, BulkInvStep, PTL DEF BulkSpec

-----------------------------------------------------------------------------
(* The layers of the extreme mode. *)

\* The members of a set below one of its members.
Under(I, x) == {j \in I : j < x}

\* Of two members of a finite set the larger has more below it.
LEMMA UnderGrows ==
  ASSUME NEW I \in SUBSET Nat, IsFiniteSet(I)
  PROVE  /\ \A x \in I : Cardinality(Under(I, x)) \in 0..(Cardinality(I) - 1)
         /\ \A x, y \in I : x < y => Cardinality(Under(I, x)) < Cardinality(Under(I, y))
         /\ \A x, y \in I : Cardinality(Under(I, x)) = Cardinality(Under(I, y)) => x = y
<1>1. \A x \in I : /\ Under(I, x) \in SUBSET I /\ x \notin Under(I, x)
                   /\ IsFiniteSet(Under(I, x)) /\ Cardinality(Under(I, x)) \in Nat
  <2>1. \A x \in I : Under(I, x) \in SUBSET I /\ x \notin Under(I, x)
    BY DEF Under
  <2>2. QED BY <2>1, FS_Subset, FS_CardinalityType
<1>2. ASSUME NEW x \in I PROVE Cardinality(Under(I, x)) < Cardinality(I)
  <2>1. /\ Cardinality(Under(I, x)) <= Cardinality(I)
        /\ Cardinality(I) = Cardinality(Under(I, x)) => I = Under(I, x)
    BY <1>1, FS_Subset
  <2>2. QED BY <1>1, <2>1, FS_CardinalityType
<1>3. ASSUME NEW x \in I, NEW y \in I, x < y
      PROVE  Cardinality(Under(I, x)) < Cardinality(Under(I, y))
  <2>1. Under(I, x) \in SUBSET Under(I, y) /\ x \in Under(I, y)
    <3>1. x \in Nat /\ y \in Nat /\ \A o \in I : o \in Nat
      OBVIOUS
    <3>2. \A o \in I : o < x => o < y
      BY <1>3, <3>1
    <3>3. QED BY <1>3, <3>2 DEF Under
  <2>2. /\ Cardinality(Under(I, x)) <= Cardinality(Under(I, y))
        /\ Cardinality(Under(I, y)) = Cardinality(Under(I, x)) => Under(I, y) = Under(I, x)
    BY <1>1, <2>1, FS_Subset
  <2>3. QED BY <1>1, <2>1, <2>2
<1>4. ASSUME NEW x \in I, NEW y \in I, Cardinality(Under(I, x)) = Cardinality(Under(I, y)), x # y
      PROVE  FALSE
  <2>1. x \in Nat /\ y \in Nat
    OBVIOUS
  <2>2. x < y \/ y < x
    BY <1>4, <2>1
  <2>3. QED BY <1>1, <1>3, <1>4, <2>2
<1>5. \A x \in I : Cardinality(Under(I, x)) \in 0..(Cardinality(I) - 1)
  BY <1>1, <1>2, FS_CardinalityType
<1>6. QED BY <1>3, <1>4, <1>5

\* The member of a finite set with n - 1 members below it.
LEMMA NthOf ==
  ASSUME NEW I \in SUBSET Nat, IsFiniteSet(I), NEW n \in 1..Cardinality(I)
  PROVE  \E x \in I : Cardinality(Under(I, x)) = n - 1
<1> SUFFICES ASSUME \A x \in I : Cardinality(Under(I, x)) # n - 1 PROVE FALSE
  OBVIOUS
<1> DEFINE c == Cardinality(I)
           f == [x \in I |-> Cardinality(Under(I, x))]
<1>1. c \in Nat /\ n \in 1..c
  BY FS_CardinalityType
<1>2. PICK r, all : r = n - 1 /\ all = 0..(c - 1)
  OBVIOUS
<1>3. IsFiniteSet(all) /\ Cardinality(all) = c
  <2>1. PICK m : m = c - 1
    OBVIOUS
  <2>2. m \in Int /\ 0 \in Int /\ ~(0 > m) /\ m - 0 + 1 = c
    BY <1>1, <2>1
  <2>3. IsFiniteSet(0..m) /\ Cardinality(0..m) = c
    BY <2>2, FS_Interval
  <2>4. QED BY <1>2, <2>1, <2>3
<1>4. r \in all
  BY <1>1, <1>2
<1>5. IsFiniteSet(all \ {r}) /\ Cardinality(all \ {r}) = c - 1
  BY <1>3, <1>4, FS_RemoveElement
<1>6. f \in [I -> all \ {r}]
  BY <1>2, UnderGrows
<1>7. Cardinality(all \ {r}) < Cardinality(I)
  BY <1>1, <1>5
<1>8. PICK x \in I, y \in I : x # y /\ f[x] = f[y]
  <2> HIDE DEF f
  <2>1. PICK T : T = all \ {r}
    OBVIOUS
  <2>2. IsFiniteSet(T) /\ Cardinality(T) < Cardinality(I) /\ f \in [I -> T]
    BY <1>5, <1>6, <1>7, <2>1
  <2>3. QED BY <2>2, FS_PigeonHole
<1>9. Cardinality(Under(I, x)) = Cardinality(Under(I, y))
  BY <1>8
<1>10. QED BY <1>8, <1>9, UnderGrows

\* The first, the second, ... member of a finite set: they are all its members, ascending.
LEMMA InTurn ==
  ASSUME NEW I \in SUBSET Nat, IsFiniteSet(I)
  PROVE  /\ \A n \in 1..Cardinality(I) : NthSmallest(I, n) \in I /\ Cardinality(Under(I, NthSmallest(I, n))) = n - 1
         /\ \A i \in I : \E n \in 1..Cardinality(I) : NthSmallest(I, n) = i
         /\ \A m, n \in 1..Cardinality(I) : m < n => NthSmallest(I, m) < NthSmallest(I, n)
<1>1. ASSUME NEW n \in 1..Cardinality(I) PROVE NthSmallest(I, n) \in I /\ Cardinality(Under(I, NthSmallest(I, n))) = n - 1
  BY NthOf DEF NthSmallest, Under
<1>2. ASSUME NEW i \in I PROVE \E n \in 1..Cardinality(I) : NthSmallest(I, n) = i
  <2>1. Cardinality(Under(I, i)) \in 0..(Cardinality(I) - 1) /\ Cardinality(I) \in Nat
    BY UnderGrows, FS_CardinalityType
  <2>2. PICK n : n = Cardinality(Under(I, i)) + 1
    OBVIOUS
  <2>3. n \in 1..Cardinality(I) /\ n - 1 = Cardinality(Under(I, i))
    BY <2>1, <2>2
  <2>4. NthSmallest(I, n) = i
    BY <1>1, <2>3, UnderGrows
  <2>5. QED BY <2>3, <2>4
<1>3. ASSUME NEW m \in 1..Cardinality(I), NEW n \in 1..Cardinality(I), m < n PROVE NthSmallest(I, m) < NthSmallest(I, n)
  <2>1. PICK x \in I, y \in I : /\ x = NthSmallest(I, m) /\ Cardinality(Under(I, x)) = m - 1
                                /\ y = NthSmallest(I, n) /\ Cardinality(Under(I, y)) = n - 1
    BY <1>1
  <2>2. Cardinality(I) \in Nat
    BY FS_CardinalityType
  <2>3. m - 1 < n - 1
    BY <1>3, <2>2
  <2>4. ~(y < x) /\ x # y
    <3>1. y < x => n - 1 < m - 1
      BY <2>1, UnderGrows
    <3>2. x = y => n - 1 = m - 1
      BY <2>1
    <3>3. QED BY <1>3, <2>2, <2>3, <3>1, <3>2
  <2>5. x \in Nat /\ y \in Nat
    OBVIOUS
  <2>6. QED BY <2>1, <2>4, <2>5
<1>4. QED BY <1>1, <1>2, <1>3

\* Every set of numbers has a least one, and one of places a last one.
LEMMA LeastNumber ==
  ASSUME NEW I \in SUBSET Nat, I # {}
  PROVE  \E m \in I : \A n \in I : m <= n
<1>1. PICK m \in I : \A n \in I : ~(<<n, m>> \in OpToRel(<, Nat))
  BY WFMin, NatLessThanWellFounded
<1>2. ASSUME NEW n \in I PROVE m <= n
  <2>1. n \in Nat /\ m \in Nat /\ ~(<<n, m>> \in OpToRel(<, Nat))
    BY <1>1
  <2>2. QED BY <2>1 DEF OpToRel
<1>3. QED BY <1>2

\* A set of places of a sequence has a last one.
LEMMA LastPlace ==
  ASSUME NEW l \in Nat, NEW I \in SUBSET (1..l), I # {}
  PROVE  \E m \in I : \A n \in I : n <= m
<1>1. \A x \in I : x \in Int /\ l - x \in Nat
  OBVIOUS
<1>2. PICK D : D = {l - x : x \in I}
  OBVIOUS
<1>3. D \in SUBSET Nat /\ D # {}
  BY <1>1, <1>2
<1>4. PICK d \in D : \A n \in D : d <= n
  BY <1>3, LeastNumber
<1>5. PICK m \in I : d = l - m
  BY <1>2
<1>6. \A x \in I : l - m <= l - x
  BY <1>2, <1>4, <1>5
<1>7. QED BY <1>1, <1>6

-----------------------------------------------------------------------------
(* The versions. *)

Version == [txn : Txns, ts : Nat, deleted : BOOLEAN, visible : BOOLEAN]

\* The versions a chain holds.
VersionsIn(chain) == {chain[i] : i \in DOMAIN chain}

\* The versions that transaction t has in the chain of k.
Wrote(t, k) == {v \in VersionsIn(chains[k]) : v.txn = t}

MvccTyped ==
  /\ chains \in [MKeys -> Seq(Version)]
  /\ txn \in [Txns -> {"new", "open", "committing", "rollingback", "committed", "rolledback"}]
  /\ txnKeys \in [Txns -> SUBSET MKeys] /\ left \in [Txns -> SUBSET MKeys]
  /\ txnID \in 0..MaxTxn /\ \A t \in Txns : t > txnID => txn[t] = "new"
  /\ age \in Nat /\ gcCutoff \in Int /\ gcLeft \subseteq MKeys /\ seen \subseteq Txns

\* Only a transaction that commits makes its versions visible.
ShownByCommit ==
  \A k \in MKeys : \A v \in VersionsIn(chains[k]) : v.visible => txn[v.txn] \in {"committing", "committed"}

\* An open transaction knows every chain it wrote to, one that rolls back the chains still to clear.
WritesTraced ==
  \A t \in Txns :
    /\ txn[t] = "new" => txnKeys[t] = {}
    /\ \A k \in MKeys :
         /\ txn[t] \in {"new", "rolledback"} => Wrote(t, k) = {}
         /\ txn[t] = "open" => (Wrote(t, k) # {} <=> k \in txnKeys[t])
         /\ txn[t] = "rollingback" /\ Wrote(t, k) # {} => k \in left[t]

\* What a pass of the collector will take is no version of an open transaction that it
\* did not note as active: that one wrote after the cutoff.
Spared(t, k) == t \in gcActive \/ \E v \in Wrote(t, k) : v.ts > gcCutoff
CollectorSpares ==
  gcLeft # {} =>
    gcCutoff < age /\ \A t \in Txns : txn[t] = "open" => \A k \in txnKeys[t] : Spared(t, k)

MvccInv == MvccTyped /\ ShownByCommit /\ WritesTraced /\ CollectorSpares /\ NoDirtyRead

\* At the start there is no version.
LEMMA MvccInitInv == MvccInit => MvccInv
<1> SUFFICES ASSUME MvccInit PROVE MvccInv
  OBVIOUS
<1>1. \A k \in MKeys : VersionsIn(chains[k]) = {}
  BY DEF MvccInit, VersionsIn
<1>2. MvccTyped
  BY MvccAssumption DEF MvccInit, MvccTyped
<1>3. ShownByCommit /\ WritesTraced
  BY <1>1 DEF MvccInit, ShownByCommit, WritesTraced, Wrote
<1>4. CollectorSpares /\ NoDirtyRead
  BY DEF MvccInit, CollectorSpares, NoDirtyRead
<1>5. QED BY <1>2, <1>3, <1>4 DEF MvccInv

\* Picking places of a chain keeps what stands there and nothing else.
LEMMA PickedVersions ==
  ASSUME NEW chain \in Seq(Version), NEW I \in SUBSET DOMAIN chain
  PROVE  VersionsAt(chain, I) \in Seq(Version) /\ VersionsIn(VersionsAt(chain, I)) = {chain[i] : i \in I}
<1>1. I \in SUBSET Nat /\ IsFiniteSet(I) /\ Cardinality(I) \in Nat
  <2>1. PICK l : l = Len(chain)
    OBVIOUS
  <2>2. l \in Int /\ 1 \in Int /\ DOMAIN chain = 1..l
    BY <2>1
  <2>3. IsFiniteSet(1..l)
    BY <2>2, FS_Interval
  <2>4. QED BY <2>2, <2>3, FS_Subset, FS_CardinalityType
<1>2. /\ \A n \in 1..Cardinality(I) : NthSmallest(I, n) \in I
      /\ \A i \in I : \E n \in 1..Cardinality(I) : NthSmallest(I, n) = i
  BY <1>1, InTurn
<1>3. VersionsAt(chain, I) = [n \in 1..Cardinality(I) |-> chain[NthSmallest(I, n)]]
  BY DEF VersionsAt, NthSmallest
<1>4. \A i \in I : chain[i] \in Version
  OBVIOUS
<1>5. VersionsAt(chain, I) \in Seq(Version)
  BY <1>1, <1>2, <1>3, <1>4
<1>6. VersionsIn(VersionsAt(chain, I)) = {chain[i] : i \in I}
  BY <1>2, <1>3 DEF VersionsIn
<1>7. QED BY <1>5, <1>6

\* The new chain of k under the actions that change one chain.
OtherChains(k) == \A j \in MKeys \ {k} : chains'[j] = chains[j]

\* Appending a version.
LEMMA PutHeld ==
  ASSUME MvccTyped, NEW t \in Txns, NEW k \in MKeys, NEW del \in BOOLEAN, PutVersion(t, k, del)
  PROVE  /\ chains' \in [MKeys -> Seq(Version)] /\ OtherChains(k)
         /\ VersionsIn(chains'[k]) = VersionsIn(chains[k]) \cup {[txn |-> t, ts |-> age, deleted |-> del, visible |-> FALSE]}
<1>1. PICK v : v = [txn |-> t, ts |-> age, deleted |-> del, visible |-> FALSE]
  OBVIOUS
<1>2. v \in Version
  BY <1>1 DEF MvccTyped, Version
<1>3. PICK c : c = chains[k]
  OBVIOUS
<1>4. c \in Seq(Version) /\ chains' = [chains EXCEPT ![k] = Append(c, v)]
  BY <1>1, <1>3 DEF MvccTyped, PutVersion
<1>5. Append(c, v) \in Seq(Version) /\ VersionsIn(Append(c, v)) = VersionsIn(c) \cup {v}
  <2>1. /\ Append(c, v) \in Seq(Version) /\ Len(c) \in Nat /\ DOMAIN c = 1..Len(c)
        /\ DOMAIN Append(c, v) = 1..Len(c) + 1 /\ Append(c, v)[Len(c) + 1] = v
        /\ \A i \in 1..Len(c) : Append(c, v)[i] = c[i]
    BY <1>2, <1>4
  <2>2. PICK d : d = Append(c, v)
    OBVIOUS
  <2>3. \A i \in DOMAIN d : d[i] = v \/ (i \in DOMAIN c /\ d[i] = c[i])
    BY <2>1, <2>2
  <2>4. (\A i \in DOMAIN c : i \in DOMAIN d /\ d[i] = c[i]) /\ \E i \in DOMAIN d : d[i] = v
    BY <2>1, <2>2
  <2>5. VersionsIn(d) = VersionsIn(c) \cup {v}
    BY <2>3, <2>4 DEF VersionsIn
  <2>6. QED BY <2>1, <2>2, <2>5
<1>6. QED BY <1>1, <1>3, <1>4, <1>5 DEF MvccTyped, OtherChains

\* The fields of a version that a commit has visited.
LEMMA ShownIs ==
  ASSUME NEW v \in Version, NEW t \in Txns
  PROVE  /\ Shown(v, t) \in Version
         /\ Shown(v, t).txn = v.txn /\ Shown(v, t).ts = v.ts
         /\ Shown(v, t).visible => v.visible \/ v.txn = t
BY DEF Shown, Version

\* Committing one chain.
LEMMA CommitHeld ==
  ASSUME MvccTyped, NEW t \in Txns, NEW k \in MKeys, CommitKey(t, k)
  PROVE  /\ chains' \in [MKeys -> Seq(Version)] /\ OtherChains(k)
         /\ VersionsIn(chains'[k]) = {Shown(v, t) : v \in VersionsIn(chains[k])}
<1>1. PICK c : c = chains[k]
  OBVIOUS
<1>2. c \in Seq(Version) /\ DOMAIN c = 1..Len(c) /\ Len(c) \in Nat /\ \A i \in DOMAIN c : c[i] \in Version
  BY <1>1 DEF MvccTyped
<1>3. PICK d : d = [i \in DOMAIN c |-> Shown(c[i], t)]
  OBVIOUS
<1>4. chains' = [chains EXCEPT ![k] = d]
  BY <1>1, <1>3 DEF CommitKey
<1>5. \A i \in DOMAIN c : Shown(c[i], t) \in Version
  BY <1>2, ShownIs
<1>6. d \in Seq(Version)
  BY <1>2, <1>3, <1>5
<1>7. VersionsIn(d) = {Shown(v, t) : v \in VersionsIn(c)}
  BY <1>3 DEF VersionsIn
<1>8. QED BY <1>1, <1>4, <1>6, <1>7 DEF MvccTyped, OtherChains

\* Rolling back one chain.
LEMMA RollbackHeld ==
  ASSUME MvccTyped, NEW t \in Txns, NEW k \in MKeys, RollbackKey(t, k)
  PROVE  /\ chains' \in [MKeys -> Seq(Version)] /\ OtherChains(k)
         /\ VersionsIn(chains'[k]) = {v \in VersionsIn(chains[k]) : v.txn # t}
<1>1. PICK c : c = chains[k]
  OBVIOUS
<1>2. c \in Seq(Version)
  BY <1>1 DEF MvccTyped
<1>3. PICK I : I = {i \in DOMAIN c : c[i].txn # t}
  OBVIOUS
<1>4. I \in SUBSET DOMAIN c /\ chains' = [chains EXCEPT ![k] = VersionsAt(c, I)]
  BY <1>1, <1>3 DEF RollbackKey
<1>5. VersionsAt(c, I) \in Seq(Version) /\ VersionsIn(VersionsAt(c, I)) = {c[i] : i \in I}
  BY <1>2, <1>4, PickedVersions
<1>6. {c[i] : i \in I} = {v \in VersionsIn(c) : v.txn # t}
  BY <1>3 DEF VersionsIn
<1>7. QED BY <1>1, <1>4, <1>5, <1>6 DEF MvccTyped, OtherChains

\* Collecting one chain: what it keeps stays, and it keeps nothing else unless it keeps nothing.
LEMMA GcHeld ==
  ASSUME MvccTyped, NEW k \in MKeys, GcChain(k)
  PROVE  /\ chains' \in [MKeys -> Seq(Version)] /\ OtherChains(k)
         /\ VersionsIn(chains'[k]) \subseteq VersionsIn(chains[k])
         /\ \A v \in VersionsIn(chains[k]) : GcKeeps(v) => v \in VersionsIn(chains'[k])
<1>1. PICK c : c = chains[k]
  OBVIOUS
<1>2. c \in Seq(Version) /\ DOMAIN c = 1..Len(c) /\ Len(c) \in Nat
  BY <1>1 DEF MvccTyped
<1>3. PICK I : I = {i \in DOMAIN c : GcKeeps(c[i])}
  OBVIOUS
<1>4. PICK d : d = IF c = <<>> THEN c ELSE IF \E i \in DOMAIN c : GcKeeps(c[i]) THEN VersionsAt(c, I) ELSE <<c[Len(c)]>>
  OBVIOUS
<1>5. chains' = [chains EXCEPT ![k] = d]
  BY <1>1, <1>3, <1>4 DEF GcChain
<1>6. d \in Seq(Version) /\ VersionsIn(d) \subseteq VersionsIn(c) /\ \A v \in VersionsIn(c) : GcKeeps(v) => v \in VersionsIn(d)
  <2>1. CASE c = <<>>
    BY <1>2, <1>4, <2>1
  <2>2. CASE c # <<>> /\ \E i \in DOMAIN c : GcKeeps(c[i])
    <3>1. d = VersionsAt(c, I) /\ I \in SUBSET DOMAIN c
      BY <1>3, <1>4, <2>2
    <3>2. d \in Seq(Version) /\ VersionsIn(d) = {c[i] : i \in I}
      BY <1>2, <3>1, PickedVersions
    <3>3. QED BY <1>3, <3>2 DEF VersionsIn
  <2>3. CASE c # <<>> /\ ~\E i \in DOMAIN c : GcKeeps(c[i])
    <3>1. d = <<c[Len(c)]>>
      BY <1>4, <2>3
    <3>2. Len(c) \in DOMAIN c /\ c[Len(c)] \in Version
      BY <1>2, <2>3
    <3>3. d \in Seq(Version) /\ DOMAIN d = {1} /\ d[1] = c[Len(c)]
      BY <3>1, <3>2
    <3>4. QED BY <2>3, <3>2, <3>3 DEF VersionsIn
  <2>4. QED BY <2>1, <2>2, <2>3
<1>7. QED BY <1>1, <1>5, <1>6 DEF MvccTyped, OtherChains

\* Every version is one.
LEMMA HeldTyped == ASSUME MvccTyped, NEW k \in MKeys PROVE VersionsIn(chains[k]) \subseteq Version
BY DEF MvccTyped, VersionsIn

\* Write and Delete.
LEMMA PutStored ==
  ASSUME MvccInv, NEW t \in Txns, NEW k \in MKeys, NEW del \in BOOLEAN, PutVersion(t, k, del)
  PROVE  MvccInv'
<1> USE DEF MvccInv
<1>1. PICK v : v = [txn |-> t, ts |-> age, deleted |-> del, visible |-> FALSE]
  OBVIOUS
<1>2. v.txn = t /\ v.ts = age /\ v.visible = FALSE
  BY <1>1
<1>3. /\ chains' \in [MKeys -> Seq(Version)] /\ OtherChains(k)
      /\ VersionsIn(chains'[k]) = VersionsIn(chains[k]) \cup {v}
  BY <1>1, PutHeld
<1>4. /\ txn[t] = "open" /\ UNCHANGED <<txnID, txn, left, gcVars, age, seen>>
      /\ txnKeys' = [txnKeys EXCEPT ![t] = @ \cup {k}]
  BY DEF PutVersion
<1>5. MvccTyped'
  BY <1>3, <1>4 DEF MvccTyped, gcVars
<1>6. ShownByCommit'
  BY <1>2, <1>3, <1>4 DEF ShownByCommit, OtherChains
<1>7. /\ \A s \in Txns, j \in MKeys : Wrote(s, j) \subseteq Wrote(s, j)'
      /\ \A s \in Txns, j \in MKeys : s # t \/ j # k => Wrote(s, j)' = Wrote(s, j)
      /\ v \in Wrote(t, k)'
  BY <1>2, <1>3 DEF Wrote, OtherChains
<1>8. \A s \in Txns : /\ txnKeys'[s] = IF s = t THEN txnKeys[s] \cup {k} ELSE txnKeys[s]
                      /\ txn'[s] = txn[s] /\ left'[s] = left[s]
  BY <1>4 DEF MvccTyped
<1>9. WritesTraced'
  BY <1>4, <1>7, <1>8 DEF WritesTraced
<1>10. CollectorSpares'
  <2>1. SUFFICES ASSUME gcLeft # {}
                 PROVE  /\ gcCutoff < age
                        /\ \A s \in Txns : txn[s] = "open" => \A j \in txnKeys'[s] : Spared(s, j)'
    BY <1>4 DEF CollectorSpares, gcVars
  <2>2. gcCutoff < age /\ \A s \in Txns : txn[s] = "open" => \A j \in txnKeys[s] : Spared(s, j)
    BY <2>1 DEF CollectorSpares
  <2>3. \A s \in Txns, j \in MKeys : Spared(s, j) => Spared(s, j)'
    BY <1>4, <1>7 DEF Spared, gcVars
  <2>4. Spared(t, k)'
    BY <1>2, <1>4, <1>7, <2>2 DEF Spared, gcVars
  <2>5. \A s \in Txns : txnKeys[s] \subseteq MKeys
    BY DEF MvccTyped
  <2>6. QED BY <1>8, <2>2, <2>3, <2>4, <2>5
<1>11. NoDirtyRead'
  BY <1>4 DEF NoDirtyRead
<1>12. QED BY <1>5, <1>6, <1>9, <1>10, <1>11

\* Commit of one chain.
LEMMA CommitStored ==
  ASSUME MvccInv, NEW t \in Txns, NEW k \in MKeys, CommitKey(t, k)
  PROVE  MvccInv'
<1> USE DEF MvccInv
<1>1. /\ chains' \in [MKeys -> Seq(Version)] /\ OtherChains(k)
      /\ VersionsIn(chains'[k]) = {Shown(v, t) : v \in VersionsIn(chains[k])}
  BY CommitHeld
<1>2. /\ txn[t] = "committing" /\ left' = [left EXCEPT ![t] = @ \ {k}]
      /\ UNCHANGED <<txnKeys, txnID, txn, gcVars, age, seen>>
  BY DEF CommitKey
<1>3. VersionsIn(chains[k]) \subseteq Version
  BY HeldTyped
<1>4. MvccTyped'
  BY <1>1, <1>2 DEF MvccTyped, gcVars
<1>5. ShownByCommit'
  <2>1. ASSUME NEW v \in VersionsIn(chains[k]), Shown(v, t).visible
        PROVE  txn[Shown(v, t).txn] \in {"committing", "committed"}
    <3>1. Shown(v, t).txn = v.txn /\ (v.visible \/ v.txn = t)
      BY <1>3, <2>1, ShownIs
    <3>2. QED BY <1>2, <3>1 DEF ShownByCommit
  <2>2. \A v \in VersionsIn(chains'[k]) : v.visible => txn[v.txn] \in {"committing", "committed"}
    BY <1>1, <2>1
  <2>3. QED BY <1>1, <1>2, <2>2 DEF ShownByCommit, OtherChains
<1>6. \A s \in Txns : /\ \A v \in Wrote(s, k) : Shown(v, t) \in Wrote(s, k)' /\ Shown(v, t).ts = v.ts
                      /\ \A w \in Wrote(s, k)' : \E v \in Wrote(s, k) : w = Shown(v, t)
  BY <1>1, <1>3, ShownIs DEF Wrote
<1>7. \A s \in Txns, j \in MKeys : j # k => Wrote(s, j)' = Wrote(s, j)
  BY <1>1 DEF Wrote, OtherChains
<1>8. \A s \in Txns, j \in MKeys : Wrote(s, j)' = {} <=> Wrote(s, j) = {}
  BY <1>6, <1>7
<1>9. \A s \in Txns : s # t => left'[s] = left[s]
  BY <1>2 DEF MvccTyped
<1>10. WritesTraced'
  BY <1>2, <1>8, <1>9 DEF WritesTraced
<1>11. \A s \in Txns, j \in MKeys : Spared(s, j) => Spared(s, j)'
  BY <1>2, <1>6, <1>7 DEF Spared, gcVars
<1>12. CollectorSpares'
  <2>1. \A s \in Txns : txnKeys[s] \subseteq MKeys
    BY DEF MvccTyped
  <2>2. QED BY <1>2, <1>11, <2>1 DEF CollectorSpares, gcVars
<1>13. NoDirtyRead'
  BY <1>2 DEF NoDirtyRead
<1>14. QED BY <1>4, <1>5, <1>10, <1>12, <1>13

\* Rollback of one chain.
LEMMA RollbackStored ==
  ASSUME MvccInv, NEW t \in Txns, NEW k \in MKeys, RollbackKey(t, k)
  PROVE  MvccInv'
<1> USE DEF MvccInv
<1>1. /\ chains' \in [MKeys -> Seq(Version)] /\ OtherChains(k)
      /\ VersionsIn(chains'[k]) = {v \in VersionsIn(chains[k]) : v.txn # t}
  BY RollbackHeld
<1>2. /\ txn[t] = "rollingback" /\ left' = [left EXCEPT ![t] = @ \ {k}]
      /\ UNCHANGED <<txnKeys, txnID, txn, gcVars, age, seen>>
  BY DEF RollbackKey
<1>3. MvccTyped'
  BY <1>1, <1>2 DEF MvccTyped, gcVars
<1>4. ShownByCommit'
  BY <1>1, <1>2 DEF ShownByCommit, OtherChains
<1>5. /\ \A s \in Txns, j \in MKeys : s # t \/ j # k => Wrote(s, j)' = Wrote(s, j)
      /\ Wrote(t, k)' = {}
  BY <1>1 DEF Wrote, OtherChains
<1>6. \A s \in Txns : /\ s # t => left'[s] = left[s]
                      /\ s = t => left'[s] = left[s] \ {k}
  BY <1>2 DEF MvccTyped
<1>7. WritesTraced'
  BY <1>2, <1>5, <1>6 DEF WritesTraced
<1>8. \A s \in Txns, j \in MKeys : txn[s] = "open" /\ Spared(s, j) => Spared(s, j)'
  BY <1>2, <1>5 DEF Spared, gcVars
<1>9. CollectorSpares'
  <2>1. \A s \in Txns : txnKeys[s] \subseteq MKeys
    BY DEF MvccTyped
  <2>2. QED BY <1>2, <1>8, <2>1 DEF CollectorSpares, gcVars
<1>10. NoDirtyRead'
  BY <1>2 DEF NoDirtyRead
<1>11. QED BY <1>3, <1>4, <1>7, <1>9, <1>10

\* The collector visits one chain.
LEMMA GcStored == ASSUME MvccInv, NEW k \in MKeys, GcChain(k) PROVE MvccInv'
<1> USE DEF MvccInv
<1>1. /\ chains' \in [MKeys -> Seq(Version)] /\ OtherChains(k)
      /\ VersionsIn(chains'[k]) \subseteq VersionsIn(chains[k])
      /\ \A v \in VersionsIn(chains[k]) : GcKeeps(v) => v \in VersionsIn(chains'[k])
  BY GcHeld
<1>2. /\ k \in gcLeft /\ gcLeft' = gcLeft \ {k}
      /\ gcLeft' # {} => UNCHANGED <<gcActive, gcCutoff>>
      /\ gcCutoff' \in {0, gcCutoff}
      /\ UNCHANGED <<txnKeys, txnID, txn, left, age, seen>>
  BY DEF GcChain
<1>3. MvccTyped'
  BY <1>1, <1>2 DEF MvccTyped
<1>4. ShownByCommit'
  BY <1>1, <1>2 DEF ShownByCommit, OtherChains
<1>5. \A s \in Txns, j \in MKeys : Wrote(s, j)' \subseteq Wrote(s, j) /\ (j # k => Wrote(s, j)' = Wrote(s, j))
  BY <1>1 DEF Wrote, OtherChains
<1>6. ASSUME NEW s \in Txns, txn[s] = "open", NEW j \in txnKeys[s]
      PROVE  /\ Wrote(s, j)' # {}
             /\ s \in gcActive \/ \E v \in Wrote(s, j)' : v.ts > gcCutoff
  <2>1. j \in MKeys /\ Wrote(s, j) # {} /\ Spared(s, j)
    BY <1>2, <1>6 DEF MvccTyped, WritesTraced, CollectorSpares
  <2>2. CASE j # k
    BY <1>5, <2>1, <2>2 DEF Spared
  <2>3. CASE j = k /\ s \in gcActive
    <3>1. PICK v \in VersionsIn(chains[k]) : v.txn = s
      BY <2>1, <2>3 DEF Wrote
    <3>2. ~v.visible
      BY <1>6, <3>1 DEF ShownByCommit
    <3>3. v \in VersionsIn(chains'[k])
      BY <1>1, <2>3, <3>1, <3>2 DEF GcKeeps
    <3>4. QED BY <2>3, <3>1, <3>3 DEF Wrote
  <2>4. CASE j = k /\ s \notin gcActive
    <3>1. PICK v \in VersionsIn(chains[k]) : v.txn = s /\ v.ts > gcCutoff
      BY <2>1, <2>4 DEF Spared, Wrote
    <3>2. v \in VersionsIn(chains'[k])
      BY <1>1, <3>1 DEF GcKeeps
    <3>3. QED BY <2>4, <3>1, <3>2 DEF Wrote
  <2>5. QED BY <2>2, <2>3, <2>4
<1>7. WritesTraced'
  BY <1>2, <1>5, <1>6 DEF WritesTraced
<1>8. CollectorSpares'
  BY <1>2, <1>6 DEF CollectorSpares, Spared
<1>9. NoDirtyRead'
  BY <1>2 DEF NoDirtyRead
<1>10. QED BY <1>3, <1>4, <1>7, <1>8, <1>9

\* The steps that leave the chains alone.
LEMMA ChainsKept ==
  ASSUME MvccInv, UNCHANGED chains,
         \/ BeginTxn \/ GcBegin \/ GrowOlder
         \/ \E t \in Txns, k \in MKeys : ReadVersion(t, k)
         \/ \E t \in Txns : Settle(t, "committing") \/ Settle(t, "rollingback") \/ Finished(t)
         \/ UNCHANGED mvccVars
  PROVE  MvccInv'
<1> USE DEF MvccInv
<1>1. \A s \in Txns, j \in MKeys : Wrote(s, j)' = Wrote(s, j)
  BY DEF Wrote
<1>0. \A s \in Txns : \A j \in txnKeys[s] : j \in MKeys
  BY DEF MvccTyped
<1>2. CASE BeginTxn
  <2>1. PICK t \in Txns : /\ t = txnID + 1 /\ txnID' = t /\ txn' = [txn EXCEPT ![t] = "open"]
                          /\ UNCHANGED <<txnKeys, left, gcVars, age, seen>>
    <3>1. txnID + 1 \in Txns
      BY <1>2, MvccAssumption DEF BeginTxn, Txns, MvccTyped
    <3>2. QED BY <1>2, <3>1 DEF BeginTxn
  <2>2. txn[t] = "new"
    BY <2>1 DEF MvccTyped, Txns
  <2>3. \A s \in Txns : txn'[s] = IF s = t THEN "open" ELSE txn[s]
    BY <2>1 DEF MvccTyped
  <2>4. MvccTyped'
    <3>1. txnID' \in 0..MaxTxn /\ \A s \in Txns : s > txnID' => s > txnID /\ s # t
      BY <2>1, MvccAssumption DEF MvccTyped, Txns
    <3>2. QED BY <2>1, <2>3, <3>1 DEF MvccTyped, gcVars
  <2>5. ShownByCommit'
    <3>1. \A k \in MKeys : \A v \in VersionsIn(chains[k]) : v.txn \in Txns
      BY HeldTyped DEF Version
    <3>2. QED BY <2>2, <2>3, <3>1 DEF ShownByCommit
  <2>6. WritesTraced'
    BY <1>1, <2>1, <2>2, <2>3 DEF WritesTraced
  <2>7. CollectorSpares'
    BY <1>0, <1>1, <2>1, <2>2, <2>3 DEF CollectorSpares, Spared, gcVars, WritesTraced
  <2>8. NoDirtyRead'
    BY <2>1, <2>2, <2>3 DEF NoDirtyRead, MvccTyped
  <2>9. QED BY <2>4, <2>5, <2>6, <2>7, <2>8
<1>3. CASE GcBegin
  <2>1. /\ gcLeft' = MKeys /\ gcCutoff' = age - KeepFor /\ gcActive' = {t \in Txns : txnKeys[t] # {}}
        /\ UNCHANGED <<txnKeys, txnID, txn, left, age, seen>>
    BY <1>3 DEF GcBegin
  <2>2. MvccTyped' /\ gcCutoff' < age
    BY <2>1, MvccAssumption DEF MvccTyped
  <2>3. CollectorSpares'
    BY <2>1, <2>2 DEF CollectorSpares, Spared
  <2>4. ShownByCommit' /\ NoDirtyRead'
    BY <2>1 DEF ShownByCommit, NoDirtyRead
  <2>5. WritesTraced'
    BY <1>1, <2>1 DEF WritesTraced
  <2>6. QED BY <2>2, <2>3, <2>4, <2>5
<1>4. CASE GrowOlder
  <2>1. age' = age + 1 /\ UNCHANGED <<txnKeys, txnID, txn, left, gcVars, seen>>
    BY <1>4 DEF GrowOlder
  <2>2. MvccTyped' /\ ShownByCommit' /\ NoDirtyRead'
    BY <2>1 DEF MvccTyped, ShownByCommit, NoDirtyRead, gcVars
  <2>3. WritesTraced'
    BY <1>1, <2>1 DEF WritesTraced
  <2>4. gcCutoff < age => gcCutoff < age + 1
    BY DEF MvccTyped
  <2>5. CollectorSpares'
    BY <1>0, <1>1, <2>1, <2>4 DEF CollectorSpares, Spared, gcVars
  <2>6. QED BY <2>2, <2>3, <2>5
<1>5. ASSUME NEW t \in Txns, NEW k \in MKeys, ReadVersion(t, k) PROVE MvccInv'
  <2>1. PICK i \in Readable(t, k) : TRUE
    BY <1>5 DEF ReadVersion
  <2>2. PICK best \in Readable(t, k) : seen' = seen \cup {chains[k][best].txn}
    <3>1. \E n \in Readable(t, k) : \A j \in Readable(t, k) : j <= n
      <4>1. PICK c : c = chains[k]
        OBVIOUS
      <4>2. c \in Seq(Version) /\ DOMAIN c = 1..Len(c) /\ Len(c) \in Nat
        BY <4>1 DEF MvccTyped
      <4>3. PICK R, l : R = Readable(t, k) /\ l = Len(c)
        OBVIOUS
      <4>4. l \in Nat /\ R \in SUBSET (1..l) /\ R # {}
        BY <2>1, <4>1, <4>2, <4>3 DEF Readable
      <4>5. \E n \in R : \A j \in R : j <= n
        BY <4>4, LastPlace
      <4>6. QED BY <4>3, <4>5
    <3>2. QED BY <1>5, <3>1 DEF ReadVersion
  <2>3. chains[k][best] \in VersionsIn(chains[k]) /\ chains[k][best].visible
    BY <2>2 DEF Readable, VersionsIn
  <2>4. chains[k][best].txn \in Txns /\ txn[chains[k][best].txn] \in {"committing", "committed"}
    BY <2>3, HeldTyped DEF ShownByCommit, Version
  <2>5. UNCHANGED <<txnKeys, txnID, txn, left, gcVars, age>>
    BY <1>5 DEF ReadVersion
  <2>6. MvccTyped' /\ ShownByCommit' /\ NoDirtyRead'
    BY <2>2, <2>4, <2>5 DEF MvccTyped, ShownByCommit, NoDirtyRead, gcVars
  <2>7. WritesTraced' /\ CollectorSpares'
    BY <1>0, <1>1, <2>5 DEF WritesTraced, CollectorSpares, Spared, gcVars
  <2>8. QED BY <2>6, <2>7
<1>6. ASSUME NEW t \in Txns, NEW how \in {"committing", "rollingback"}, Settle(t, how) PROVE MvccInv'
  <2>1. /\ txn[t] = "open" /\ txn' = [txn EXCEPT ![t] = how]
        /\ left' = [left EXCEPT ![t] = txnKeys[t]] /\ txnKeys' = [txnKeys EXCEPT ![t] = {}]
        /\ UNCHANGED <<txnID, gcVars, age, seen>>
    BY <1>6 DEF Settle
  <2>2. \A s \in Txns : /\ txn'[s] = IF s = t THEN how ELSE txn[s]
                        /\ left'[s] = IF s = t THEN txnKeys[s] ELSE left[s]
                        /\ txnKeys'[s] = IF s = t THEN {} ELSE txnKeys[s]
    BY <2>1 DEF MvccTyped
  <2>3. MvccTyped'
    <3>1. \A s \in Txns : s > txnID => s # t
      BY <2>1 DEF MvccTyped
    <3>2. /\ txn' \in [Txns -> {"new", "open", "committing", "rollingback", "committed", "rolledback"}]
          /\ left' \in [Txns -> SUBSET MKeys] /\ txnKeys' \in [Txns -> SUBSET MKeys]
      BY <1>6, <2>1 DEF MvccTyped
    <3>3. QED BY <2>1, <2>2, <3>1, <3>2 DEF MvccTyped, gcVars
  <2>4. ShownByCommit'
    <3>1. \A k \in MKeys : \A v \in VersionsIn(chains[k]) : v.txn \in Txns
      BY HeldTyped DEF Version
    <3>2. QED BY <2>1, <2>2, <3>1 DEF ShownByCommit
  <2>5. WritesTraced'
    BY <1>1, <2>1, <2>2 DEF WritesTraced
  <2>6. CollectorSpares'
    BY <1>0, <1>1, <2>1, <2>2 DEF CollectorSpares, Spared, gcVars
  <2>7. NoDirtyRead'
    BY <2>1, <2>2 DEF NoDirtyRead, MvccTyped
  <2>8. QED BY <2>3, <2>4, <2>5, <2>6, <2>7
<1>7. ASSUME NEW t \in Txns, Finished(t) PROVE MvccInv'
  <2>1. PICK end \in {"committed", "rolledback"} :
          /\ txn' = [txn EXCEPT ![t] = end]
          /\ end = "committed" => txn[t] = "committing"
          /\ end = "rolledback" => txn[t] = "rollingback"
          /\ left[t] = {} /\ UNCHANGED <<txnKeys, txnID, left, gcVars, age, seen>>
    BY <1>7 DEF Finished, MvccTyped
  <2>2. \A s \in Txns : txn'[s] = IF s = t THEN end ELSE txn[s]
    BY <2>1 DEF MvccTyped
  <2>3. MvccTyped'
    <3>1. \A s \in Txns : s > txnID => s # t
      BY <2>1 DEF MvccTyped
    <3>2. txn' \in [Txns -> {"new", "open", "committing", "rollingback", "committed", "rolledback"}]
      BY <2>1 DEF MvccTyped
    <3>3. QED BY <2>1, <2>2, <3>1, <3>2 DEF MvccTyped, gcVars
  <2>4. ShownByCommit'
    <3>1. \A k \in MKeys : \A v \in VersionsIn(chains[k]) : v.txn \in Txns
      BY HeldTyped DEF Version
    <3>2. QED BY <2>1, <2>2, <3>1 DEF ShownByCommit
  <2>5. WritesTraced'
    BY <1>1, <2>1, <2>2 DEF WritesTraced
  <2>6. CollectorSpares'
    BY <1>0, <1>1, <2>1, <2>2 DEF CollectorSpares, Spared, gcVars
  <2>7. NoDirtyRead'
    BY <2>1, <2>2 DEF NoDirtyRead, MvccTyped
  <2>8. QED BY <2>3, <2>4, <2>5, <2>6, <2>7
<1>8. CASE UNCHANGED mvccVars
  <2>1. UNCHANGED <<txnKeys, txnID, txn, left, gcVars, age, seen>>
    BY <1>8 DEF mvccVars, gcVars
  <2>2. MvccTyped' /\ ShownByCommit' /\ NoDirtyRead'
    BY <2>1 DEF MvccTyped, ShownByCommit, NoDirtyRead, gcVars
  <2>3. WritesTraced' /\ CollectorSpares'
    BY <1>0, <1>1, <2>1 DEF WritesTraced, CollectorSpares, Spared, gcVars
  <2>4. QED BY <2>2, <2>3
<1>9. QED BY <1>2, <1>3, <1>4, <1>5, <1>6, <1>7, <1>8

\* Every step of the versions keeps the invariant.
LEMMA MvccStep == MvccInv /\ [MvccNext]_mvccVars => MvccInv'
<1> SUFFICES ASSUME MvccInv, [MvccNext]_mvccVars PROVE MvccInv'
  OBVIOUS
<1>1. CASE UNCHANGED mvccVars
  <2>1. UNCHANGED chains
    BY <1>1 DEF mvccVars
  <2>2. QED BY <1>1, <2>1, ChainsKept
<1>2. CASE BeginTxn \/ GcBegin \/ GrowOlder
  <2>1. UNCHANGED chains
    BY <1>2 DEF BeginTxn, GcBegin, GrowOlder
  <2>2. QED BY <1>2, <2>1, ChainsKept
<1>3. CASE \E t \in Txns, k \in MKeys, del \in BOOLEAN : PutVersion(t, k, del)
  BY <1>3, PutStored
<1>4. CASE \E t \in Txns, k \in MKeys : ReadVersion(t, k) \/ CommitKey(t, k) \/ RollbackKey(t, k)
  <2>1. PICK t \in Txns, k \in MKeys : ReadVersion(t, k) \/ CommitKey(t, k) \/ RollbackKey(t, k)
    BY <1>4
  <2>2. CASE ReadVersion(t, k)
    <3>1. UNCHANGED chains
      BY <2>2 DEF ReadVersion
    <3>2. QED BY <2>2, <3>1, ChainsKept
  <2>3. QED BY <2>1, <2>2, CommitStored, RollbackStored
<1>5. CASE \E t \in Txns : Settle(t, "committing") \/ Settle(t, "rollingback") \/ Finished(t)
  <2>1. UNCHANGED chains
    BY <1>5 DEF Settle, Finished
  <2>2. QED BY <1>5, <2>1, ChainsKept
<1>6. CASE \E k \in MKeys : GcChain(k)
  BY <1>6, GcStored
<1>7. QED BY <1>1, <1>2, <1>3, <1>4, <1>5, <1>6 DEF MvccNext

\* The invariant gives what the versions promise.
LEMMA MvccInvSound == MvccInv => ChainsSound
<1> SUFFICES ASSUME MvccInv PROVE ChainsSound
  OBVIOUS
<1>1. \A t \in Txns : VersionsOf(t) = {k \in MKeys : Wrote(t, k) # {}}
  BY DEF VersionsOf, Wrote, VersionsIn
<1>2. RollbackComplete
  BY <1>1 DEF MvccInv, WritesTraced, RollbackComplete
<1>3. OpenIsKept
  BY <1>1 DEF MvccInv, MvccTyped, WritesTraced, OpenIsKept
<1>4. QED BY <1>2, <1>3 DEF MvccInv, ChainsSound

-----------------------------------------------------------------------------
(* The write-ahead log. *)

\* What can stand in the log, and what the log's variables are.
Entry == Nat \ {Torn}
WalTyped ==
  /\ walPolicy \in Policies /\ walFile \in Seq(Nat) /\ walBuf \in Seq(Entry) /\ walEntries \in Nat
  /\ walSignal \in BOOLEAN /\ walBroken \in BOOLEAN /\ walShut \in BOOLEAN
  /\ walNext \in Nat \ {0} /\ walFaults \in Nat /\ walCrashes \in Nat /\ walAcked \subseteq Nat
  /\ walState \in {"open", "closed", "failed", "crashed"}

InOrder(s) == \A i, j \in 1..Len(s) : i < j /\ s[i] # Torn /\ s[j] # Torn => s[i] < s[j]
Below(s, n) == \A i \in 1..Len(s) : s[i] < n
On(s) == {s[i] : i \in 1..Len(s)}

\* The entries are written in the order of their numbers, in the file and behind it.
WalOrdered == InOrder(walFile \o walBuf) /\ Below(walFile \o walBuf, walNext)
\* What was accepted is in the file or, until a crash, in the buffer.
WalAccepted ==
  /\ walPolicy = "always" => walAcked \subseteq On(walFile)
  /\ walCrashes = 0 => walAcked \subseteq On(walFile) \cup On(walBuf) /\ Torn \notin On(walFile)
\* While no call failed nothing is remembered of a failure.
WalFaultless == walFaults = 0 => ~walBroken /\ ~walShut /\ walState # "failed"
WalEnded == walState \in {"closed", "crashed"} => walBuf = <<>>
\* The buffer of a batch is no longer than its count.
WalBatched ==
  walPolicy = "batch" /\ walFaults = 0 /\ walState = "open" => Len(walBuf) <= walEntries % BatchEvery
WalInv ==
  /\ WalTyped /\ WalOrdered /\ WalAccepted /\ WalFaultless /\ WalEnded /\ WalBatched
  /\ FlushIsComing /\ ReadInOrder

\* A number is a multiple and a rest.
LEMMA RestOf ==
  ASSUME NEW n \in Nat, NEW m \in Nat \ {0}
  PROVE  n = m * (n \div m) + (n % m) /\ n % m \in Nat /\ n % m < m /\ n \div m \in Nat
<1>1. n \in Int /\ m \in Int /\ m # 0 /\ m > 0  OBVIOUS
<1> QED BY <1>1, Z3

\* The rest is the only one there is.
LEMMA OneRest ==
  ASSUME NEW m \in Nat \ {0}, NEW q \in Nat, NEW r \in Nat, NEW p \in Nat, NEW t \in Nat,
         m * q + r = m * p + t, r < m, t < m
  PROVE  r = t
<1>1. ASSUME NEW a \in Nat, NEW b \in Nat, NEW u \in Nat, NEW v \in Nat, a < b, u < m, m * a + u = m * b + v
      PROVE  FALSE
  <2>1. PICK d \in Nat : b = a + 1 + d  BY <1>1, b - a - 1 \in Nat
  <2>2. m * b = m * a + m + m * d  BY <2>1
  <2>3. m * d \in Nat /\ m * a \in Nat  OBVIOUS
  <2> QED BY <1>1, <2>2, <2>3
<1>2. ~(q < p)  BY <1>1
<1>3. ~(p < q)  BY <1>1
<1> QED BY <1>2, <1>3

\* Counting one further before the batch is full.
LEMMA CountedOn ==
  ASSUME NEW n \in Nat, NEW m \in Nat \ {0}, (n + 1) % m # 0
  PROVE  (n + 1) % m = (n % m) + 1
<1>1. PICK q \in Nat, r \in Nat : n = m * q + r /\ r < m /\ r = n % m  BY RestOf
<1>2. PICK p \in Nat, t \in Nat : n + 1 = m * p + t /\ t < m /\ t = (n + 1) % m  BY RestOf
<1>3. CASE r + 1 < m
  <2>1. m * q + (r + 1) = m * p + t  BY <1>1, <1>2
  <2>2. r + 1 = t  BY SMTT(30), <1>2, <1>3, <2>1, OneRest
  <2> QED BY <1>1, <1>2, <2>2
<1>4. CASE r + 1 = m
  <2>1. m * (q + 1) + 0 = m * p + t  BY <1>1, <1>2, <1>4
  <2>2. 0 = t  BY <1>2, <2>1, OneRest, q + 1 \in Nat
  <2> QED BY <1>2, <2>2
<1> QED BY <1>1, <1>3, <1>4

\* The least of some numbers.
LEMMA LeastOf ==
  ASSUME NEW I \in SUBSET Nat, I # {}
  PROVE  Min(I) \in I /\ \A j \in I : Min(I) <= j
<1>1. PICK m \in I : \A k \in I : ~(<<k, m>> \in OpToRel(<, Nat))  BY WFMin, NatLessThanWellFounded
<1>2. ASSUME NEW k \in I PROVE m <= k
  <2>1. k \in Nat /\ m \in Nat /\ ~(<<k, m>> \in OpToRel(<, Nat))  BY <1>1, <1>2
  <2> QED BY <2>1 DEF OpToRel
<1> QED BY <1>2 DEF Min

\* What is read is what stands before the first cut entry.
LEMMA WholeIs ==
  ASSUME NEW s \in Seq(Nat)
  PROVE  /\ \E n \in 0..Len(s) : Whole(s) = SubSeq(s, 1, n) /\ \A i \in 1..n : s[i] # Torn
         /\ Torn \notin On(s) => Whole(s) = s
<1> DEFINE I == {i \in 1..Len(s) : s[i] = Torn}
<1>1. Whole(s) = IF I # {} THEN (IF Min(I) = 0 THEN s ELSE SubSeq(s, 1, Min(I) - 1)) ELSE s
  BY DEF Whole, SelectInSeq
<1>2. CASE I = {}
  <2>1. Whole(s) = s /\ s = SubSeq(s, 1, Len(s)) /\ Len(s) \in 0..Len(s) /\ \A i \in 1..Len(s) : s[i] # Torn
    BY <1>1, <1>2
  <2> QED BY <2>1
<1>3. CASE I # {}
  <2>1. I \in SUBSET Nat  OBVIOUS
  <2>2. PICK m \in I : m = Min(I) /\ \A j \in I : m <= j
    <3> HIDE DEF I
    <3> QED BY <1>3, <2>1, LeastOf
  <2>a. m \in 1..Len(s)  OBVIOUS
  <2>b. Min(I) # 0 /\ Whole(s) = (IF Min(I) = 0 THEN s ELSE SubSeq(s, 1, Min(I) - 1))
    <3> HIDE DEF I
    <3> QED BY <1>1, <1>3, <2>2, <2>a
  <2>3. Whole(s) = SubSeq(s, 1, m - 1) /\ m - 1 \in 0..Len(s)
    <3> HIDE DEF I
    <3> QED BY <2>2, <2>a, <2>b
  <2>4. \A i \in 1..(m - 1) : s[i] # Torn
    <3> TAKE i \in 1..(m - 1)
    <3>1. i \in 1..Len(s) /\ ~(m <= i)  BY <2>2
    <3> QED BY <2>2, <3>1
  <2>5. Torn \in On(s)  BY <2>2 DEF On
  <2> QED BY <2>3, <2>4, <2>5
<1> QED BY <1>2, <1>3

\* Joining sequences.
LEMMA Joined ==
  ASSUME NEW s \in Seq(Nat), NEW t \in Seq(Nat)
  PROVE  /\ s \o t \in Seq(Nat) /\ Len(s \o t) = Len(s) + Len(t) /\ s \o <<>> = s
         /\ On(s \o t) = On(s) \cup On(t) /\ On(<<>>) = {}
         /\ \A i \in 1..Len(s) : (s \o t)[i] = s[i]
         /\ \A i \in 1..Len(t) : (s \o t)[Len(s) + i] = t[i]
<1>1. /\ s \o t \in Seq(Nat) /\ Len(s \o t) = Len(s) + Len(t) /\ s \o <<>> = s /\ On(<<>>) = {}
      /\ \A i \in 1..Len(s) : (s \o t)[i] = s[i]
      /\ \A i \in 1..Len(t) : (s \o t)[Len(s) + i] = t[i]
  BY DEF On
<1>2. ASSUME NEW x \in On(s) \cup On(t) PROVE x \in On(s \o t)
  <2>1. CASE x \in On(s)
    <3>1. PICK i \in 1..Len(s) : x = s[i]  BY <2>1 DEF On
    <3> QED BY <1>1, <3>1 DEF On
  <2>2. CASE x \in On(t)
    <3>1. PICK i \in 1..Len(t) : x = t[i]  BY <2>2 DEF On
    <3>2. Len(s) + i \in 1..Len(s \o t)  BY <1>1, <3>1
    <3> QED BY <1>1, <3>1, <3>2 DEF On
  <2> QED BY <1>2, <2>1, <2>2
<1>3. ASSUME NEW x \in On(s \o t) PROVE x \in On(s) \cup On(t)
  <2>1. PICK i \in 1..Len(s \o t) : x = (s \o t)[i]  BY <1>3 DEF On
  <2>2. CASE i <= Len(s)
    <3>1. i \in 1..Len(s)  BY <2>2
    <3> QED BY <1>1, <2>1, <3>1 DEF On
  <2>3. CASE i > Len(s)
    <3>1. i - Len(s) \in 1..Len(t) /\ Len(s) + (i - Len(s)) = i  BY <1>1, <2>1, <2>3
    <3>2. x = t[i - Len(s)]  BY <1>1, <2>1, <3>1
    <3> QED BY <3>1, <3>2 DEF On
  <2> QED BY <2>2, <2>3
<1> QED BY <1>1, <1>2, <1>3

\* A sequence that grows by its next number, or by a cut entry, or is shortened, is in order.
LEMMA OrderKept ==
  ASSUME NEW s \in Seq(Nat), NEW n \in Nat \ {0}, InOrder(s), Below(s, n)
  PROVE  /\ InOrder(Append(s, n)) /\ Below(Append(s, n), n + 1)
         /\ InOrder(s \o <<Torn>>) /\ Below(s \o <<Torn>>, n)
         /\ \A k \in 0..Len(s) : InOrder(SubSeq(s, 1, k)) /\ Below(SubSeq(s, 1, k), n)
<1>1. ASSUME NEW t \in Seq(Nat), NEW x \in Nat, t = Append(s, x)
      PROVE  Len(t) = Len(s) + 1 /\ (\A i \in 1..Len(s) : t[i] = s[i]) /\ t[Len(s) + 1] = x
  BY <1>1
<1>2. \A i \in 1..Len(s) : s[i] \in Nat  OBVIOUS
<1>3. InOrder(Append(s, n)) /\ Below(Append(s, n), n + 1)
  <2>1. PICK t \in Seq(Nat) : t = Append(s, n)  BY Append(s, n) \in Seq(Nat)
  <2>2. Len(t) = Len(s) + 1 /\ (\A i \in 1..Len(s) : t[i] = s[i]) /\ t[Len(s) + 1] = n  BY <1>1, <2>1
  <2>3. InOrder(t) /\ Below(t, n + 1)
    <3>1. \A i \in 1..Len(t) : i \in 1..Len(s) \/ i = Len(s) + 1  BY <2>2
    <3>2. \A i \in 1..Len(s) : t[i] < n  BY <2>2 DEF Below
    <3>3. ASSUME NEW i \in 1..Len(t) PROVE t[i] < n + 1
      <4>1. CASE i \in 1..Len(s)
        <5>1. t[i] \in Nat /\ t[i] < n  BY <1>2, <2>2, <3>2, <4>1
        <5> QED BY <5>1
      <4>2. CASE i = Len(s) + 1  BY <2>2, <4>2
      <4> QED BY <3>1, <4>1, <4>2
    <3>4. ASSUME NEW i \in 1..Len(t), NEW j \in 1..Len(t), i < j, t[i] # Torn, t[j] # Torn PROVE t[i] < t[j]
      <4>1. i \in 1..Len(s)  BY <2>2, <3>4
      <4>2. CASE j \in 1..Len(s)  BY <2>2, <3>4, <4>1, <4>2 DEF InOrder
      <4>3. CASE j = Len(s) + 1  BY <2>2, <3>2, <4>1, <4>3
      <4> QED BY <3>1, <4>2, <4>3
    <3> QED BY <3>3, <3>4 DEF InOrder, Below
  <2> QED BY <2>1, <2>3
<1>4. InOrder(s \o <<Torn>>) /\ Below(s \o <<Torn>>, n)
  <2>1. PICK t \in Seq(Nat) : t = Append(s, Torn)  BY Append(s, 0) \in Seq(Nat) DEF Torn
  <2>2. Len(t) = Len(s) + 1 /\ (\A i \in 1..Len(s) : t[i] = s[i]) /\ t[Len(s) + 1] = Torn
    BY <1>1, <2>1 DEF Torn
  <2>3. InOrder(t) /\ Below(t, n)
    <3>1. \A i \in 1..Len(t) : i \in 1..Len(s) \/ i = Len(s) + 1  BY <2>2
    <3>2. Torn < n  BY DEF Torn
    <3> QED BY <1>2, <2>2, <3>1, <3>2 DEF InOrder, Below
  <2>4. s \o <<Torn>> = t  BY <2>1 DEF Torn
  <2> QED BY <2>3, <2>4
<1>5. ASSUME NEW k \in 0..Len(s) PROVE InOrder(SubSeq(s, 1, k)) /\ Below(SubSeq(s, 1, k), n)
  <2>1. PICK t : t = SubSeq(s, 1, k)  OBVIOUS
  <2>2. Len(t) = k /\ \A i \in 1..k : t[i] = s[i]  BY <2>1
  <2>3. \A i \in 1..k : i \in 1..Len(s)  OBVIOUS
  <2>4. InOrder(t) /\ Below(t, n)  BY <2>2, <2>3 DEF InOrder, Below
  <2> QED BY <2>1, <2>4
<1> QED BY <1>3, <1>4, <1>5

\* The beginning of the buffer behind the file is a beginning of both.
LEMMA PrefixJoined ==
  ASSUME NEW s \in Seq(Nat), NEW t \in Seq(Nat), NEW k \in 0..Len(t)
  PROVE  s \o SubSeq(t, 1, k) = SubSeq(s \o t, 1, Len(s) + k) /\ Len(s) + k \in 0..Len(s \o t)
         /\ SubSeq(t, 1, k) \in Seq(Nat) /\ On(SubSeq(t, 1, k)) \subseteq On(t)
<1>1. PICK p : p = SubSeq(t, 1, k)  OBVIOUS
<1>2. p \in Seq(Nat) /\ Len(p) = k /\ \A i \in 1..k : p[i] = t[i]  BY <1>1
<1>3. PICK a, b : a = s \o p /\ b = s \o t  OBVIOUS
<1>4. /\ a \in Seq(Nat) /\ Len(a) = Len(s) + k /\ b \in Seq(Nat) /\ Len(b) = Len(s) + Len(t)
      /\ \A i \in 1..Len(s) : a[i] = s[i] /\ b[i] = s[i]
      /\ \A i \in 1..k : a[Len(s) + i] = p[i]
      /\ \A i \in 1..Len(t) : b[Len(s) + i] = t[i]
  BY ZenonT(60), <1>2, <1>3, Joined
<1>5. Len(s) + k \in 0..Len(b)  BY <1>4
<1>6. \A i \in 1..(Len(s) + k) : a[i] = b[i]
  <2> TAKE i \in 1..(Len(s) + k)
  <2>1. CASE i <= Len(s)  BY <1>4, <2>1
  <2>2. CASE i > Len(s)
    <3>1. PICK j \in 1..k : i = Len(s) + j  BY <2>2, i - Len(s) \in 1..k
    <3>2. j \in 1..Len(t)  OBVIOUS
    <3>3. a[i] = p[j] /\ b[i] = t[j]  BY <1>4, <3>1, <3>2
    <3> QED BY <1>2, <3>3
  <2> QED BY <2>1, <2>2
<1>7. PICK c : c = SubSeq(b, 1, Len(s) + k)  OBVIOUS
<1>8. c \in Seq(Nat) /\ Len(c) = Len(s) + k /\ \A i \in 1..(Len(s) + k) : c[i] = b[i]
  <2>1. PICK n \in 0..Len(b) : n = Len(s) + k  BY <1>5
  <2>2. c = SubSeq(b, 1, n)  BY <1>7, <2>1
  <2>3. c \in Seq(Nat) /\ Len(c) = n /\ \A i \in 1..n : c[i] = b[i]  BY <1>4, <2>2
  <2> QED BY <2>1, <2>3
<1>9. a = c  BY <1>4, <1>6, <1>8, SeqEqual
<1>10. On(p) \subseteq On(t)
  <2>1. ASSUME NEW x \in On(p) PROVE x \in On(t)
    <3>1. PICK i \in 1..k : x = p[i]  BY <1>2 DEF On
    <3>2. i \in 1..Len(t) /\ x = t[i]  BY <1>2, <3>1
    <3> QED BY <3>2 DEF On
  <2> QED BY <2>1
<1> QED BY <1>1, <1>2, <1>3, <1>5, <1>7, <1>9, <1>10

\* What a flush does, whether it fails or not.
LEMMA FlushEffect ==
  ASSUME WalTyped, NEW buf \in Seq(Entry), FlushedWal(buf) \/ FlushFailed(buf)
  PROVE  /\ walFile' \in Seq(Nat) /\ walBuf' \in Seq(Entry) /\ walBroken' \in BOOLEAN /\ walFaults' \in Nat
         /\ walFile' \o walBuf' = walFile \o buf
         /\ On(walFile) \subseteq On(walFile') /\ On(walFile) \cup On(buf) = On(walFile') \cup On(walBuf')
         /\ Torn \notin On(walFile) => Torn \notin On(walFile')
         /\ walFaults' = 0 => walFaults = 0
         /\ FlushedWal(buf) => walBuf' = <<>> /\ On(buf) \subseteq On(walFile')
         /\ walFaults' = 0 /\ ~walBroken /\ ~walShut => FlushedWal(buf) /\ ~walBroken'
<1>0. walFile \in Seq(Nat) /\ buf \in Seq(Nat) /\ Torn \notin On(buf)
  BY DEF WalTyped, Entry, On
<1>1. CASE FlushedWal(buf)
  <2>1. walFile' = walFile \o buf /\ walBuf' = <<>> /\ walBroken' = walBroken /\ walFaults' = walFaults
    BY <1>1 DEF FlushedWal
  <2>2. /\ walFile' \in Seq(Nat) /\ On(walFile') = On(walFile) \cup On(buf) /\ On(<<>>) = {}
        /\ walFile' \o <<>> = walFile'
    <3>1. walFile' \in Seq(Nat) /\ On(walFile') = On(walFile) \cup On(buf) /\ On(<<>>) = {}
      BY <1>0, <2>1, Joined
    <3> QED BY <3>1
  <2>3. On(walBuf') = {} /\ walBuf' \in Seq(Entry)  BY <2>1, <2>2
  <2> QED BY <1>0, <1>1, <2>1, <2>2, <2>3 DEF WalTyped
<1>2. CASE FlushFailed(buf)
  <2>1. walFile' = walFile /\ walBuf' = buf /\ walBroken' \in BOOLEAN /\ walFaults' \in Nat
        /\ (walFaults' = 0 => walFaults = 0) /\ (walFaults' = 0 => walBroken \/ walShut)
    BY <1>2 DEF FlushFailed, WalTyped
  <2>2. walFile' \o walBuf' = walFile \o buf /\ On(walFile') = On(walFile) /\ On(walBuf') = On(buf)
    BY <2>1
  <2>3. ~FlushedWal(buf) \/ FlushedWal(buf)  OBVIOUS
  <2> QED BY <1>0, <1>1, <2>1, <2>2, <2>3
<1> QED BY <1>1, <1>2

\* A new log is empty.
LEMMA WalInitInv == WalInit => WalInv
<1> SUFFICES ASSUME WalInit PROVE WalInv
  OBVIOUS
<1>1. WalTyped
  <2>1. <<>> \in Seq(Nat) /\ <<>> \in Seq(Entry)  OBVIOUS
  <2>2. walFile \in Seq(Nat) /\ walBuf \in Seq(Entry)  BY <2>1 DEF WalInit
  <2>3. /\ walPolicy \in Policies /\ walEntries \in Nat /\ walNext \in Nat \ {0} /\ walFaults \in Nat
        /\ walCrashes \in Nat /\ walAcked \subseteq Nat /\ walState \in {"open", "closed", "failed", "crashed"}
    BY DEF WalInit
  <2>4. walSignal \in BOOLEAN /\ walBroken \in BOOLEAN /\ walShut \in BOOLEAN  BY DEF WalInit
  <2> QED BY <2>2, <2>3, <2>4 DEF WalTyped
<1>2. WalOrdered
  <2>1. Len(walFile \o walBuf) = 0  BY DEF WalInit
  <2> QED BY <2>1 DEF WalOrdered, InOrder, Below
<1>3. WalAccepted  BY DEF WalInit, WalAccepted, On
<1>4. WalFaultless /\ WalEnded /\ FlushIsComing /\ ReadInOrder
  BY DEF WalInit, WalFaultless, WalEnded, FlushIsComing, ReadInOrder
<1>5. WalBatched
  <2>1. 0 % BatchEvery \in Nat  BY RestOf, WalAssumption
  <2> QED BY <2>1 DEF WalInit, WalBatched
<1> QED BY <1>1, <1>2, <1>3, <1>4, <1>5 DEF WalInv

\* Write.
LEMMA WalWriteKeeps == ASSUME WalInv, WalWrite PROVE WalInv'
<1>0. /\ WalTyped /\ WalOrdered /\ WalAccepted /\ WalFaultless /\ WalEnded /\ WalBatched
      /\ FlushIsComing /\ ReadInOrder
  BY DEF WalInv
<1>1. /\ walState = "open" /\ walNext' = walNext + 1
      /\ UNCHANGED <<walPolicy, walFlusher, walState, walShut, walCrashes, walRead>>
  BY DEF WalWrite
<1>2. ReadInOrder' /\ WalEnded' /\ walNext' \in Nat \ {0}
  BY <1>0, <1>1 DEF ReadInOrder, WalEnded, WalTyped
<1>3. CASE walBroken /\ UNCHANGED <<walFile, walBuf, walEntries, walSignal, walBroken, walFaults, walAcked>>
  <2>1. WalOrdered'
    <3>1. \A i \in 1..Len(walFile \o walBuf) : (walFile \o walBuf)[i] \in Nat
      <4>1. walFile \o walBuf \in Seq(Nat)  BY <1>0 DEF WalTyped, Entry
      <4> QED BY <4>1
    <3> QED BY <1>0, <1>1, <1>3, <3>1 DEF WalOrdered, Below, WalTyped
  <2> QED BY <1>0, <1>1, <1>2, <1>3, <2>1 DEF WalInv, WalTyped, WalAccepted, WalFaultless, WalBatched, FlushIsComing
<1>4. CASE ~walBroken
  <2> DEFINE buf == Append(walBuf, walNext)
  <2>1. buf \in Seq(Entry) /\ walFile \in Seq(Nat) /\ walBuf \in Seq(Nat) /\ buf \in Seq(Nat)
    BY <1>0 DEF WalTyped, Entry, Torn
  <2>2. walEntries' = walEntries + 1 /\ walSignal' = (walPolicy = "periodic" \/ walSignal)
    BY <1>4 DEF WalWrite
  <2>3. \/ SyncsNow(walEntries') /\ FlushedWal(buf) /\ walAcked' = walAcked \cup {walNext}
        \/ SyncsNow(walEntries') /\ FlushFailed(buf) /\ walAcked' = walAcked
        \/ /\ ~SyncsNow(walEntries') /\ walBuf' = buf /\ walAcked' = walAcked \cup {walNext}
           /\ UNCHANGED <<walFile, walBroken, walFaults>>
    BY <1>4 DEF WalWrite
  <2>4. /\ walFile' \in Seq(Nat) /\ walBuf' \in Seq(Entry) /\ walBroken' \in BOOLEAN /\ walFaults' \in Nat
        /\ walFile' \o walBuf' = walFile \o buf
        /\ On(walFile) \subseteq On(walFile') /\ On(walFile) \cup On(buf) = On(walFile') \cup On(walBuf')
        /\ Torn \notin On(walFile) => Torn \notin On(walFile')
        /\ walFaults' = 0 => walFaults = 0 /\ ~walBroken'
        /\ walFaults' = 0 /\ SyncsNow(walEntries') => walBuf' = <<>>
        /\ walAcked' \subseteq walAcked \cup {walNext}
        /\ SyncsNow(walEntries') => walAcked' \subseteq walAcked \/ On(buf) \subseteq On(walFile')
    <3>1. CASE SyncsNow(walEntries')
      <4>1. FlushedWal(buf) \/ FlushFailed(buf)  BY <2>3, <3>1
      <4> HIDE DEF buf
      <4>2. /\ walFile' \in Seq(Nat) /\ walBuf' \in Seq(Entry) /\ walBroken' \in BOOLEAN /\ walFaults' \in Nat
            /\ walFile' \o walBuf' = walFile \o buf
            /\ On(walFile) \subseteq On(walFile') /\ On(walFile) \cup On(buf) = On(walFile') \cup On(walBuf')
            /\ Torn \notin On(walFile) => Torn \notin On(walFile')
            /\ walFaults' = 0 => walFaults = 0
            /\ FlushedWal(buf) => walBuf' = <<>> /\ On(buf) \subseteq On(walFile')
            /\ walFaults' = 0 /\ ~walBroken /\ ~walShut => FlushedWal(buf) /\ ~walBroken'
        BY <1>0, <2>1, <4>1, FlushEffect
      <4>3. walFaults' = 0 => ~walBroken /\ ~walShut  BY <1>0, <4>2 DEF WalFaultless
      <4>4. walAcked' \subseteq walAcked \cup {walNext}  BY <2>3
      <4>5. walAcked' \subseteq walAcked \/ FlushedWal(buf)  BY <2>3, <3>1
      <4> QED BY <4>2, <4>3, <4>4, <4>5
    <3>2. CASE ~SyncsNow(walEntries')
      <4>1. walBuf' = buf /\ walAcked' = walAcked \cup {walNext} /\ UNCHANGED <<walFile, walBroken, walFaults>>
        BY <2>3, <3>2
      <4>2. walBroken \in BOOLEAN /\ walFaults \in Nat  BY <1>0 DEF WalTyped
      <4> HIDE DEF buf
      <4> QED BY <1>4, <2>1, <3>2, <4>1, <4>2
    <3> QED BY <3>1, <3>2
  <2>5. walNext \in On(buf) /\ On(walBuf) \subseteq On(buf)
    <3>1. Len(buf) = Len(walBuf) + 1 /\ buf[Len(walBuf) + 1] = walNext
          /\ \A i \in 1..Len(walBuf) : buf[i] = walBuf[i] /\ i \in 1..Len(buf)
      BY <2>1
    <3>2. Len(walBuf) + 1 \in 1..Len(buf)  BY <2>1, <3>1
    <3> HIDE DEF buf
    <3> QED BY <3>1, <3>2 DEF On
  <2>6. WalTyped'
    BY <1>0, <1>1, <1>2, <2>2, <2>4 DEF WalTyped
  <2>7. WalOrdered'
    <3>1. PICK s : s = walFile \o walBuf  OBVIOUS
    <3>2. s \in Seq(Nat) /\ walNext \in Nat \ {0} /\ InOrder(s) /\ Below(s, walNext)
      BY <1>0, <2>1, <3>1 DEF WalOrdered, WalTyped
    <3>3. walFile \o buf = Append(s, walNext)  BY <2>1, <3>1
    <3> QED BY <1>1, <2>4, <3>2, <3>3, OrderKept DEF WalOrdered
  <2>8. WalAccepted'
    <3>1. ASSUME walPolicy = "always" PROVE walAcked' \subseteq On(walFile')
      <4>1. SyncsNow(walEntries') /\ walAcked \subseteq On(walFile)  BY <1>0, <3>1 DEF WalAccepted, SyncsNow
      <4> HIDE DEF buf
      <4> QED BY <2>4, <2>5, <4>1
    <3>2. ASSUME walCrashes = 0 PROVE walAcked' \subseteq On(walFile') \cup On(walBuf') /\ Torn \notin On(walFile')
      <4>1. walAcked \subseteq On(walFile) \cup On(walBuf) /\ Torn \notin On(walFile)  BY <1>0, <3>2 DEF WalAccepted
      <4> HIDE DEF buf
      <4> QED BY <2>4, <2>5, <4>1
    <3> QED BY <1>1, <3>1, <3>2 DEF WalAccepted
  <2>9. WalFaultless'  BY <1>0, <1>1, <2>4 DEF WalFaultless
  <2>10. WalBatched'
    <3> SUFFICES ASSUME walPolicy = "batch", walFaults' = 0 PROVE Len(walBuf') <= walEntries' % BatchEvery
      BY <1>1 DEF WalBatched
    <3>1. walEntries' % BatchEvery \in Nat  BY <1>0, <2>2, RestOf, WalAssumption DEF WalTyped
    <3>2. CASE SyncsNow(walEntries')
      <4>1. walBuf' = <<>>  BY <2>4, <3>2
      <4>2. Len(walBuf') = 0  BY <4>1
      <4> QED BY <3>1, <4>2
    <3>3. CASE ~SyncsNow(walEntries')
      <4>1. walBuf' = buf /\ Len(buf) = Len(walBuf) + 1  BY <2>1, <2>3, <3>3
      <4>2. Len(walBuf) <= walEntries % BatchEvery  BY <1>0, <1>1, <2>4 DEF WalBatched
      <4>3. (walEntries + 1) % BatchEvery # 0  BY <2>2, <3>3 DEF SyncsNow
      <4>4. walEntries' % BatchEvery = (walEntries % BatchEvery) + 1
        BY <1>0, <2>2, <4>3, CountedOn, WalAssumption DEF WalTyped
      <4>5. walEntries % BatchEvery \in Nat /\ Len(walBuf) \in Nat
        BY <1>0, <2>1, RestOf, WalAssumption DEF WalTyped
      <4> QED BY <4>1, <4>2, <4>4, <4>5
    <3> QED BY <3>2, <3>3
  <2>11. FlushIsComing'  BY <1>1, <2>2 DEF FlushIsComing
  <2> QED BY <1>2, <2>6, <2>7, <2>8, <2>9, <2>10, <2>11 DEF WalInv
<1> QED BY <1>3, <1>4 DEF WalWrite

\* The buffer is flushed, by the flusher or by Close.
LEMMA WalFlushKeeps == ASSUME WalInv, FlusherFlushes \/ CloseWal PROVE WalInv'
<1>0. /\ WalTyped /\ WalOrdered /\ WalAccepted /\ WalFaultless /\ WalEnded /\ WalBatched
      /\ FlushIsComing /\ ReadInOrder
  BY DEF WalInv
<1>1. /\ walState = "open"
      /\ UNCHANGED <<walPolicy, walEntries, walSignal, walShut, walNext, walCrashes, walAcked, walRead>>
      /\ FlushedWal(walBuf) \/ FlushFailed(walBuf)
      /\ \/ walState' = "open"
         \/ walState' = "closed" /\ FlushedWal(walBuf)
         \/ walState' = "failed" /\ FlushFailed(walBuf)
  BY DEF FlusherFlushes, CloseWal
<1>2. /\ walFile' \in Seq(Nat) /\ walBuf' \in Seq(Entry) /\ walBroken' \in BOOLEAN /\ walFaults' \in Nat
      /\ walFile' \o walBuf' = walFile \o walBuf
      /\ On(walFile) \subseteq On(walFile') /\ On(walFile) \cup On(walBuf) = On(walFile') \cup On(walBuf')
      /\ Torn \notin On(walFile) => Torn \notin On(walFile')
      /\ walFaults' = 0 => walFaults = 0
      /\ FlushedWal(walBuf) => walBuf' = <<>> /\ On(walBuf) \subseteq On(walFile')
      /\ walFaults' = 0 /\ ~walBroken /\ ~walShut => FlushedWal(walBuf) /\ ~walBroken'
  <2>1. walBuf \in Seq(Entry)  BY <1>0 DEF WalTyped
  <2> QED BY <1>0, <1>1, <2>1, FlushEffect
<1>3. walFaults' = 0 => FlushedWal(walBuf) /\ ~walBroken' /\ ~walShut /\ walBuf' = <<>>
  BY <1>0, <1>2 DEF WalFaultless
<1>4. ~(FlushedWal(walBuf) /\ FlushFailed(walBuf) /\ walFaults' = 0)
  <2>1. walFaults' = 0 => ~walBroken /\ ~walShut /\ walFaults \in Nat  BY <1>0, <1>2 DEF WalFaultless, WalTyped
  <2> QED BY <2>1 DEF FlushFailed
<1>5. WalTyped'  BY <1>0, <1>1, <1>2 DEF WalTyped
<1>6. WalOrdered' /\ WalAccepted' /\ ReadInOrder'
  BY <1>0, <1>1, <1>2 DEF WalOrdered, WalAccepted, ReadInOrder
<1>7. WalFaultless' /\ WalEnded'
  BY <1>1, <1>2, <1>3, <1>4 DEF WalFaultless, WalEnded
<1>8. WalBatched'
  <2>1. walEntries % BatchEvery \in Nat  BY <1>0, RestOf, WalAssumption DEF WalTyped
  <2>2. walFaults' = 0 => Len(walBuf') = 0  BY <1>3
  <2> QED BY <1>1, <2>1, <2>2 DEF WalBatched
<1>9. FlushIsComing'  BY <1>3 DEF FlushIsComing
<1> QED BY <1>5, <1>6, <1>7, <1>8, <1>9 DEF WalInv

\* A read gives back what is in order.
LEMMA WalReadKeeps == ASSUME WalInv, ReadWal PROVE WalInv'
<1>0. /\ WalTyped /\ WalOrdered /\ WalAccepted /\ WalFaultless /\ WalEnded /\ WalBatched /\ FlushIsComing
  BY DEF WalInv
<1>1. UNCHANGED <<walPolicy, walFile, walBuf, walEntries, walSignal, walFlusher, walState, walBroken, walShut, walNext,
                  walCrashes, walFaults, walAcked>>
  BY DEF ReadWal
<1>2. PICK n \in 0..Len(walBuf) : walRead' = Whole(walFile \o SubSeq(walBuf, 1, n))  BY DEF ReadWal
<1>3. walFile \in Seq(Nat) /\ walBuf \in Seq(Nat) /\ walNext \in Nat \ {0}  BY <1>0 DEF WalTyped, Entry
<1>4. PICK s, t : s = walFile \o walBuf /\ t = walFile \o SubSeq(walBuf, 1, n)  OBVIOUS
<1>5. s \in Seq(Nat) /\ t = SubSeq(s, 1, Len(walFile) + n) /\ Len(walFile) + n \in 0..Len(s)
  BY <1>3, <1>4, Joined, PrefixJoined
<1>6. InOrder(t) /\ t \in Seq(Nat)
  <2>1. PICK k \in 0..Len(s) : k = Len(walFile) + n  BY <1>5
  <2>2. InOrder(s) /\ Below(s, walNext)  BY <1>0, <1>4 DEF WalOrdered
  <2>3. t = SubSeq(s, 1, k) /\ SubSeq(s, 1, k) \in Seq(Nat)  BY <1>5, <2>1
  <2>4. InOrder(SubSeq(s, 1, k))  BY <1>3, <1>5, <2>1, <2>2, OrderKept
  <2> QED BY <2>3, <2>4
<1>7. PICK k \in 0..Len(t) : walRead' = SubSeq(t, 1, k) /\ \A i \in 1..k : t[i] # Torn
  BY <1>2, <1>4, <1>6, WholeIs
<1>8. Len(walRead') = k /\ DOMAIN walRead' = 1..k /\ \A i \in 1..k : walRead'[i] = t[i] /\ i \in 1..Len(t)
  BY <1>6, <1>7
<1>9. ReadInOrder'
  BY <1>6, <1>7, <1>8 DEF InOrder, ReadInOrder
<1> QED BY <1>0, <1>1, <1>9 DEF WalInv, WalTyped, WalOrdered, WalAccepted, WalFaultless, WalEnded, WalBatched, FlushIsComing

\* The log is truncated: what was accepted before counts no more.
LEMMA WalTruncateKeeps == ASSUME WalInv, TruncateWal PROVE WalInv'
<1>0. /\ WalTyped /\ WalOrdered /\ WalAccepted /\ WalFaultless /\ WalEnded /\ WalBatched /\ FlushIsComing
  BY DEF WalInv
<1>1. /\ walState = "open" /\ walRead' = <<>>
      /\ UNCHANGED <<walPolicy, walSignal, walFlusher, walState, walNext, walCrashes>>
  BY DEF TruncateWal
<1>2. ReadInOrder' /\ WalEnded'  BY <1>0, <1>1 DEF ReadInOrder, WalEnded
<1>3. CASE /\ walFile' = <<>> /\ walBuf' = <<>> /\ walEntries' = 0 /\ walBroken' = FALSE /\ walAcked' = {}
           /\ UNCHANGED <<walShut, walFaults>>
  <2>a. <<>> \in Seq(Nat) /\ <<>> \in Seq(Entry)  OBVIOUS
  <2>1. WalTyped'  BY <1>0, <1>1, <1>3, <2>a DEF WalTyped
  <2>2. Len(walFile' \o walBuf') = 0 /\ Len(walBuf') = 0  BY <1>3
  <2>3. WalOrdered'  BY <2>2 DEF WalOrdered, InOrder, Below
  <2>4. WalAccepted' /\ WalFaultless' /\ FlushIsComing'
    BY <1>0, <1>1, <1>3 DEF WalAccepted, WalFaultless, FlushIsComing, On
  <2>5. 0 % BatchEvery \in Nat  BY RestOf, WalAssumption
  <2>6. WalBatched'  BY <1>3, <2>2, <2>5 DEF WalBatched
  <2> QED BY <1>2, <2>1, <2>3, <2>4, <2>6 DEF WalInv
<1>4. CASE /\ walFaults' = walFaults + 1 /\ walShut' = TRUE
           /\ UNCHANGED <<walFile, walBuf, walEntries, walBroken, walAcked>>
  <2>1. walFaults' \in Nat \ {0}  BY <1>0, <1>4 DEF WalTyped
  <2> QED BY <1>0, <1>1, <1>2, <1>4, <2>1 DEF WalInv, WalTyped, WalOrdered, WalAccepted, WalFaultless, WalBatched, FlushIsComing
<1> QED BY <1>3, <1>4 DEF TruncateWal

\* A crash leaves a beginning of the buffer, and perhaps a cut entry.
LEMMA WalCrashKeeps == ASSUME WalInv, CrashWal PROVE WalInv'
<1>0. /\ WalTyped /\ WalOrdered /\ WalAccepted /\ WalFaultless /\ ReadInOrder
  BY DEF WalInv
<1>1. /\ walCrashes' = walCrashes + 1 /\ walState' = "crashed" /\ walBuf' = <<>>
      /\ UNCHANGED <<walPolicy, walEntries, walSignal, walBroken, walShut, walNext, walFaults, walAcked, walRead>>
  BY DEF CrashWal
<1>2. PICK n \in 0..Len(walBuf), tail \in {<<>>, <<Torn>>} : walFile' = walFile \o SubSeq(walBuf, 1, n) \o tail
  BY DEF CrashWal
<1>3. walFile \in Seq(Nat) /\ walBuf \in Seq(Nat) /\ walNext \in Nat \ {0}  BY <1>0 DEF WalTyped, Entry
<1>4. PICK s, t : s = walFile \o walBuf /\ t = walFile \o SubSeq(walBuf, 1, n)  OBVIOUS
<1>5. s \in Seq(Nat) /\ t = SubSeq(s, 1, Len(walFile) + n) /\ Len(walFile) + n \in 0..Len(s)
      /\ SubSeq(walBuf, 1, n) \in Seq(Nat)
  BY <1>3, <1>4, Joined, PrefixJoined
<1>6. InOrder(t) /\ Below(t, walNext) /\ t \in Seq(Nat)
  <2>1. PICK k \in 0..Len(s) : k = Len(walFile) + n  BY <1>5
  <2>2. InOrder(s) /\ Below(s, walNext)  BY <1>0, <1>4 DEF WalOrdered
  <2>3. t = SubSeq(s, 1, k) /\ SubSeq(s, 1, k) \in Seq(Nat)  BY <1>5, <2>1
  <2>4. InOrder(SubSeq(s, 1, k)) /\ Below(SubSeq(s, 1, k), walNext)  BY <1>3, <1>5, <2>1, <2>2, OrderKept
  <2> QED BY <2>3, <2>4
<1>7. On(walFile) \subseteq On(t)
  <2>1. PICK p \in Seq(Nat) : p = SubSeq(walBuf, 1, n)  BY <1>5
  <2>2. t = walFile \o p  BY <1>4, <2>1
  <2> QED BY <1>3, <2>2, Joined
<1>8. tail \in Seq(Nat) /\ walFile' = t \o tail
  <2>1. <<>> \in Seq(Nat) /\ <<Torn>> \in Seq(Nat)  BY DEF Torn
  <2>2. walFile' = t \o tail  BY <1>2, <1>4
  <2> QED BY <2>1, <2>2
<1>9. walFile' \in Seq(Nat) /\ On(t) \subseteq On(walFile') /\ walFile' \o <<>> = walFile'
  BY <1>6, <1>8, Joined
<1>10. InOrder(walFile') /\ Below(walFile', walNext)
  <2>1. CASE tail = <<>>
    <3>1. walFile' = t  BY <1>6, <1>8, <2>1
    <3> QED BY <1>6, <3>1
  <2>2. CASE tail = <<Torn>>  BY <1>3, <1>6, <1>8, <2>2, OrderKept
  <2> QED BY <2>1, <2>2
<1>11. WalTyped'  BY <1>0, <1>1, <1>9 DEF WalTyped
<1>12. WalOrdered'  BY <1>1, <1>9, <1>10 DEF WalOrdered
<1>13. WalAccepted'
  <2>1. walCrashes' # 0  BY <1>0, <1>1 DEF WalTyped
  <2> QED BY <1>0, <1>1, <1>7, <1>9, <2>1 DEF WalAccepted
<1>14. WalFaultless' /\ WalEnded' /\ WalBatched' /\ FlushIsComing' /\ ReadInOrder'
  BY <1>0, <1>1 DEF WalFaultless, WalEnded, WalBatched, FlushIsComing, ReadInOrder
<1> QED BY <1>11, <1>12, <1>13, <1>14 DEF WalInv

\* The log is opened again after a crash or a close.
LEMMA WalOpenKeeps == ASSUME WalInv, NewWAL PROVE WalInv'
<1>0. /\ WalTyped /\ WalOrdered /\ WalAccepted /\ WalFaultless /\ WalEnded /\ ReadInOrder
  BY DEF WalInv
<1>1. /\ walState \in {"closed", "crashed"} /\ walState' = "open" /\ walEntries' = 0 /\ walSignal' = FALSE
      /\ walBroken' = FALSE /\ walShut' = FALSE
      /\ UNCHANGED <<walPolicy, walFile, walBuf, walNext, walCrashes, walFaults, walAcked, walRead>>
  BY DEF NewWAL
<1>2. walBuf = <<>> /\ Len(walBuf) = 0  BY <1>0, <1>1 DEF WalEnded
<1>3. 0 % BatchEvery \in Nat  BY RestOf, WalAssumption
<1>4. WalTyped'  BY <1>0, <1>1 DEF WalTyped
<1>5. WalOrdered' /\ WalAccepted' /\ ReadInOrder'  BY <1>0, <1>1 DEF WalOrdered, WalAccepted, ReadInOrder
<1>6. WalFaultless' /\ WalEnded'  BY <1>1 DEF WalFaultless, WalEnded
<1>7. WalBatched' /\ FlushIsComing'  BY <1>1, <1>2, <1>3 DEF WalBatched, FlushIsComing
<1> QED BY <1>4, <1>5, <1>6, <1>7 DEF WalInv

\* Every step of the log keeps the invariant.
LEMMA WalStep == WalInv /\ [WalNextStep]_walVars => WalInv'
<1> SUFFICES ASSUME WalInv, [WalNextStep]_walVars PROVE WalInv'
  OBVIOUS
<1>1. CASE WalWrite  BY <1>1, WalWriteKeeps
<1>2. CASE FlusherFlushes \/ CloseWal  BY <1>2, WalFlushKeeps
<1>3. CASE ReadWal  BY <1>3, WalReadKeeps
<1>4. CASE TruncateWal  BY <1>4, WalTruncateKeeps
<1>5. CASE CrashWal  BY <1>5, WalCrashKeeps
<1>6. CASE NewWAL  BY <1>6, WalOpenKeeps
<1>7. CASE FlusherWakes
  <2>1. /\ walSignal' \in BOOLEAN /\ walFlusher' = "woken"
        /\ UNCHANGED <<walPolicy, walFile, walBuf, walEntries, walState, walBroken, walShut, walNext, walCrashes,
                       walFaults, walAcked, walRead>>
    BY <1>7 DEF FlusherWakes
  <2> QED BY <2>1 DEF WalInv, WalTyped, WalOrdered, WalAccepted, WalFaultless, WalEnded, WalBatched, FlushIsComing,
                      ReadInOrder
<1>8. CASE UNCHANGED walVars
  BY <1>8 DEF walVars, WalInv, WalTyped, WalOrdered, WalAccepted, WalFaultless, WalEnded, WalBatched, FlushIsComing,
              ReadInOrder
<1> QED BY <1>1, <1>2, <1>3, <1>4, <1>5, <1>6, <1>7, <1>8 DEF WalNextStep

\* The invariant gives what the log promises.
LEMMA WalInvSound == WalInv => WalSound
<1> SUFFICES ASSUME WalInv PROVE WalSound
  OBVIOUS
<1>0. WalTyped /\ WalAccepted /\ WalEnded /\ WalBatched /\ FlushIsComing /\ ReadInOrder  BY DEF WalInv
<1>1. walFile \in Seq(Nat) /\ walEntries \in Nat /\ walBuf \in Seq(Nat)  BY <1>0 DEF WalTyped, Entry
<1>2. ToSet(walFile) = On(walFile)  BY <1>1 DEF ToSet, On
<1>3. Torn \notin On(walFile) => KeptEntries = On(walFile)
  BY <1>1, <1>2, WholeIs DEF KeptEntries
<1>4. AcceptedIsKept  BY <1>0, <1>2, <1>3 DEF AcceptedIsKept, CutShort, WalAccepted
<1>5. ClosedIsComplete
  <2>1. On(<<>>) = {}  BY DEF On
  <2> QED BY <1>0, <1>3, <2>1 DEF ClosedIsComplete, WalAccepted, WalEnded
<1>6. BatchLossBounded
  <2>1. walEntries % BatchEvery \in Nat /\ walEntries % BatchEvery < BatchEvery /\ BatchEvery \in Nat
    BY <1>1, RestOf, WalAssumption
  <2>2. Len(walBuf) \in Nat  BY <1>1
  <2> QED BY <1>0, <2>1, <2>2 DEF BatchLossBounded, WalBatched
<1> QED BY <1>0, <1>4, <1>5, <1>6 DEF WalSound

-----------------------------------------------------------------------------
(* The shards. *)

\* The positions between which the search still looks, and how many they are.
Windows(keys) == (1..Len(keys) + 1) \X (0..Len(keys))
Width(w) == IF w[1] > w[2] THEN 0 ELSE w[2] + 1 - w[1]

\* What the search makes of a window when f has the answers for narrower ones.
Halved(keys, hash, f, w) ==
  LET lo == w[1]
      hi == w[2]
      mid == (lo + hi) \div 2
  IN IF lo > hi THEN (IF lo > Len(keys) THEN 1 ELSE lo)
     ELSE IF keys[mid] = hash THEN mid
     ELSE IF keys[mid] < hash THEN f[<<mid + 1, hi>>]
     ELSE f[<<lo, mid - 1>>]

\* A function that gives the answer of every window, from those of narrower ones.
Answers(keys, hash, f) == f = [w \in Windows(keys) |-> Halved(keys, hash, f, w)]

\* The loop of the search, as a function of windows.
LEMMA SearchIs ==
  ASSUME NEW keys, NEW hash
  PROVE  search(keys, hash) = (CHOOSE f : Answers(keys, hash, f))[<<1, Len(keys)>>]
BY DEF search, Halved, Windows, Answers

\* A window is halved into windows that are narrower.
LEMMA Narrower ==
  ASSUME NEW keys, Len(keys) \in Nat, NEW w \in Windows(keys), w[1] <= w[2],
         NEW mid, mid = (w[1] + w[2]) \div 2
  PROVE  /\ mid \in w[1]..w[2] /\ mid \in 1..Len(keys)
         /\ <<mid + 1, w[2]>> \in Windows(keys) /\ Width(<<mid + 1, w[2]>>) < Width(w)
         /\ <<w[1], mid - 1>> \in Windows(keys) /\ Width(<<w[1], mid - 1>>) < Width(w)
<1>1. PICK l \in 1..Len(keys) + 1, r \in 0..Len(keys) : w = <<l, r>>
  BY DEF Windows
<1>2. l <= r /\ mid = (l + r) \div 2 /\ w[1] = l /\ w[2] = r
  BY <1>1
<1>3. l <= mid /\ mid <= r /\ mid \in Int
  BY <1>2
<1>4. mid + 1 \in 1..Len(keys) + 1 /\ mid - 1 \in 0..Len(keys) /\ mid \in 1..Len(keys)
  BY <1>3
<1>5. Width(w) = r + 1 - l
  BY <1>1, <1>2 DEF Width
<1>6. Width(<<mid + 1, r>>) = (IF mid + 1 > r THEN 0 ELSE r + 1 - (mid + 1))
  BY DEF Width
<1>7. Width(<<l, mid - 1>>) = (IF l > mid - 1 THEN 0 ELSE mid - 1 + 1 - l)
  BY DEF Width
<1>8. Width(<<mid + 1, r>>) < Width(w) /\ Width(<<l, mid - 1>>) < Width(w)
  BY <1>2, <1>3, <1>5, <1>6, <1>7
<1>9. QED BY <1>1, <1>2, <1>3, <1>4, <1>8 DEF Windows

\* The answer of a window depends on those of narrower windows only.
LEMMA HalvedSame ==
  ASSUME NEW keys, Len(keys) \in Nat, NEW hash, NEW w \in Windows(keys), NEW f, NEW g,
         \A v \in Windows(keys) : Width(v) < Width(w) => f[v] = g[v]
  PROVE  Halved(keys, hash, f, w) = Halved(keys, hash, g, w)
<1>1. PICK mid : mid = (w[1] + w[2]) \div 2
  OBVIOUS
<1>2. CASE w[1] > w[2]
  BY <1>2 DEF Halved
<1>3. CASE w[1] <= w[2]
  <2>1. /\ f[<<mid + 1, w[2]>>] = g[<<mid + 1, w[2]>>]
        /\ f[<<w[1], mid - 1>>] = g[<<w[1], mid - 1>>]
    BY <1>1, <1>3, Narrower
  <2>2. QED BY <1>1, <2>1 DEF Halved
<1>4. w[1] \in Nat /\ w[2] \in Nat
  BY DEF Windows
<1>5. QED BY <1>2, <1>3, <1>4

\* How wide a window can be.
LEMMA WidthIs ==
  ASSUME NEW keys, Len(keys) \in Nat, NEW w \in Windows(keys)
  PROVE  Width(w) \in 0..Len(keys)
<1>1. PICK l \in 1..Len(keys) + 1, r \in 0..Len(keys) : w = <<l, r>>
  BY DEF Windows
<1>2. Width(w) = IF l > r THEN 0 ELSE r + 1 - l
  BY <1>1 DEF Width
<1>3. QED BY <1>2

\* The search has an answer for every window.
LEMMA AnswersExist ==
  ASSUME NEW keys, Len(keys) \in Nat, NEW hash
  PROVE  \E f : Answers(keys, hash, f)
<1> DEFINE Upto(n) == {w \in Windows(keys) : Width(w) < n}
           Halves(n, f) == f = [w \in Upto(n) |-> Halved(keys, hash, f, w)]
           Bad == {n \in Nat : ~\E f : Halves(n, f)}
<1>1. Bad = {}
  <2> SUFFICES ASSUME Bad # {} PROVE FALSE
    OBVIOUS
  <2>1. PICK m \in Bad : \A n \in Bad : m <= n
    BY LeastNumber
  <2>2. m # 0
    <3>1. SUFFICES ASSUME m = 0 PROVE FALSE
      OBVIOUS
    <3>2. Upto(0) = {}
      <4>1. \A w \in Windows(keys) : Width(w) \in 0..Len(keys)
        BY WidthIs
      <4>2. QED BY <4>1
    <3>3. PICK e : e = [w \in Upto(0) |-> 0]
      OBVIOUS
    <3>4. e = [w \in Upto(0) |-> Halved(keys, hash, e, w)]
      BY <3>2, <3>3
    <3>5. QED BY <2>1, <3>1, <3>4
  <2>3. PICK k \in Nat : m = k + 1
    <3>1. m \in Nat /\ m - 1 \in Nat /\ m = (m - 1) + 1
      BY <2>2
    <3>2. QED BY <3>1
  <2>4. PICK g : Halves(k, g)
    <3>1. ~(m <= k)
      BY <2>3
    <3>2. QED BY <2>1, <3>1
  <2>5. PICK f : f = [w \in Upto(m) |-> Halved(keys, hash, g, w)]
    OBVIOUS
  <2>6. \A v \in Upto(k) : f[v] = g[v]
    <3>1. \A v \in Upto(k) : v \in Upto(m) /\ g[v] = Halved(keys, hash, g, v)
      <4>1. \A v \in Windows(keys) : Width(v) \in Nat
        BY WidthIs
      <4>2. \A v \in Upto(k) : v \in Upto(m)
        BY <2>3, <4>1
      <4> HIDE DEF Upto
      <4>3. QED BY <2>4, <4>2
    <3> HIDE DEF Upto
    <3>2. QED BY <2>5, <3>1
  <2>7. \A w \in Upto(m) : Halved(keys, hash, g, w) = Halved(keys, hash, f, w)
    <3>1. ASSUME NEW w \in Upto(m) PROVE Halved(keys, hash, g, w) = Halved(keys, hash, f, w)
      <4>1. w \in Windows(keys) /\ Width(w) < k + 1
        BY <2>3
      <4>2. ASSUME NEW v \in Windows(keys), Width(v) < Width(w) PROVE f[v] = g[v]
        <5>1. Width(v) \in Nat /\ Width(w) \in Nat
          BY <4>1, WidthIs
        <5>2. Width(v) < k
          BY <4>1, <4>2, <5>1
        <5>3. v \in Upto(k)
          BY <5>2
        <5>4. QED BY <2>6, <5>3
      <4>3. QED BY <4>1, <4>2, HalvedSame
    <3>2. QED BY <3>1
  <2>8. f = [w \in Upto(m) |-> Halved(keys, hash, f, w)]
    <3> HIDE DEF Upto
    <3>1. QED BY <2>5, <2>7
  <2>9. QED BY <2>1, <2>8
<1>2. PICK all : all = Len(keys) + 1
  OBVIOUS
<1>3. all \in Nat /\ Upto(all) = Windows(keys)
  <2>1. \A w \in Windows(keys) : Width(w) \in 0..Len(keys)
    BY WidthIs
  <2>2. QED BY <1>2, <2>1
<1>4. PICK f : Halves(all, f)
  <2> HIDE DEF Halves
  <2>1. QED BY <1>1, <1>3
<1>5. Answers(keys, hash, f)
  <2>1. f = [w \in Upto(all) |-> Halved(keys, hash, f, w)]
    BY <1>4
  <2>2. QED BY <1>3, <2>1 DEF Answers
<1>6. QED BY <1>5

\* Keys in ascending order.
Ascending(keys) == \A i, j \in 1..Len(keys) : i < j => keys[i] < keys[j]

\* A position is where hash belongs: at the first key that is no smaller, or again at the first.
Belongs(keys, hash, p) ==
  /\ p \in 1..Len(keys)
  /\ \/ keys[p] >= hash /\ \A i \in 1..Len(keys) : i < p => keys[i] < hash
     \/ p = 1 /\ \A i \in 1..Len(keys) : keys[i] < hash

\* Outside a window there is nothing to look for.
Narrowed(keys, hash, w) ==
  /\ w[1] <= w[2] + 1
  /\ \A i \in 1..Len(keys) : /\ i < w[1] => keys[i] < hash
                             /\ i > w[2] => keys[i] > hash

\* The binary search finds where a hash belongs.
LEMMA SearchFinds ==
  ASSUME NEW keys \in Seq(Nat), Ascending(keys), Len(keys) > 0, NEW hash \in Nat
  PROVE  Belongs(keys, hash, search(keys, hash))
<1>1. PICK f : f = (CHOOSE g : Answers(keys, hash, g))
  OBVIOUS
<1>2. Len(keys) \in Nat /\ \A i \in 1..Len(keys) : keys[i] \in Nat
  OBVIOUS
<1>3. Answers(keys, hash, f)
  <2>1. \E g : Answers(keys, hash, g)
    BY <1>2, AnswersExist
  <2>2. QED BY <1>1, <2>1
<1> DEFINE Fine(w) == Narrowed(keys, hash, w) => Belongs(keys, hash, f[w])
           Bad == {n \in Nat : \E w \in Windows(keys) : Width(w) = n /\ ~Fine(w)}
<1>4. ASSUME NEW w \in Windows(keys), \A v \in Windows(keys) : Width(v) < Width(w) => Fine(v),
             Narrowed(keys, hash, w)
      PROVE  Belongs(keys, hash, f[w])
  <2>1. PICK l \in 1..Len(keys) + 1, r \in 0..Len(keys) : w = <<l, r>> /\ w[1] = l /\ w[2] = r
    BY DEF Windows
  <2>2. f[w] = Halved(keys, hash, f, w)
    BY <1>3 DEF Answers
  <2>3. /\ l <= r + 1
        /\ \A i \in 1..Len(keys) : (i < l => keys[i] < hash) /\ (i > r => keys[i] > hash)
    BY <1>4, <2>1 DEF Narrowed
  <2>4. CASE l > r
    <3>1. l = r + 1
      BY <2>3, <2>4
    <3>2. CASE l > Len(keys)
      <4>1. f[w] = 1
        BY <2>1, <2>2, <2>4, <3>2 DEF Halved
      <4>2. \A i \in 1..Len(keys) : keys[i] < hash
        BY <2>3, <3>2
      <4>3. QED BY <1>2, <4>1, <4>2 DEF Belongs
    <3>3. CASE ~(l > Len(keys))
      <4>1. f[w] = l
        BY <2>1, <2>2, <2>4, <3>3 DEF Halved
      <4>2. l \in 1..Len(keys)
        BY <3>3
      <4>3. keys[l] > hash /\ \A i \in 1..Len(keys) : i < l => keys[i] < hash
        BY <2>3, <3>1, <4>2
      <4>4. keys[l] >= hash
        BY <1>2, <4>2, <4>3
      <4>5. QED BY <4>1, <4>2, <4>3, <4>4 DEF Belongs
    <3>4. QED BY <3>2, <3>3
  <2>5. CASE ~(l > r)
    <3>1. PICK mid : mid = (w[1] + w[2]) \div 2
      OBVIOUS
    <3>2. w[1] <= w[2]
      BY <2>1, <2>5
    <3>3. PICK a, b : a = <<mid + 1, w[2]>> /\ b = <<w[1], mid - 1>>
      OBVIOUS
    <3>4. /\ mid \in l..r /\ mid \in 1..Len(keys)
          /\ a \in Windows(keys) /\ Width(a) < Width(w)
          /\ b \in Windows(keys) /\ Width(b) < Width(w)
      BY <1>2, <2>1, <3>1, <3>2, <3>3, Narrower
    <3>5. f[w] = IF keys[mid] = hash THEN mid ELSE IF keys[mid] < hash THEN f[a] ELSE f[b]
      BY <2>1, <2>2, <2>5, <3>1, <3>3 DEF Halved
    <3>x. PICK y : y = keys[mid]
      OBVIOUS
    <3>6. y \in Nat /\ \A i \in 1..Len(keys) : /\ i < mid => keys[i] < y
                                               /\ i > mid => keys[i] > y
                                               /\ i = mid => keys[i] = y
      BY <1>2, <3>4, <3>x DEF Ascending
    <3>7. CASE y = hash
      <4>1. f[w] = mid /\ keys[mid] >= hash
        BY <3>5, <3>6, <3>7, <3>x
      <4>2. \A i \in 1..Len(keys) : i < mid => keys[i] < hash
        BY <3>6, <3>7
      <4>3. QED BY <3>4, <4>1, <4>2 DEF Belongs
    <3>8. CASE y < hash
      <4>1. f[w] = f[a] /\ a[1] = mid + 1 /\ a[2] = r
        BY <2>1, <3>3, <3>5, <3>6, <3>8, <3>x
      <4>2. ASSUME NEW i \in 1..Len(keys), i < mid + 1 PROVE keys[i] < hash
        <5>1. i < mid \/ i = mid
          BY <3>4, <4>2
        <5>2. keys[i] < y \/ keys[i] = y
          BY <3>6, <5>1
        <5>3. QED BY <1>2, <3>6, <3>8, <5>2
      <4>3. Narrowed(keys, hash, a)
        BY <2>3, <3>4, <4>1, <4>2 DEF Narrowed
      <4>4. QED BY <1>4, <3>4, <4>1, <4>3
    <3>9. CASE y > hash
      <4>1. f[w] = f[b] /\ b[1] = l /\ b[2] = mid - 1
        BY <2>1, <3>3, <3>5, <3>6, <3>9, <3>x
      <4>2. ASSUME NEW i \in 1..Len(keys), i > mid - 1 PROVE keys[i] > hash
        <5>1. i > mid \/ i = mid
          BY <3>4, <4>2
        <5>2. keys[i] > y \/ keys[i] = y
          BY <3>6, <5>1
        <5>3. QED BY <1>2, <3>6, <3>9, <5>2
      <4>3. Narrowed(keys, hash, b)
        BY <2>3, <3>4, <4>1, <4>2 DEF Narrowed
      <4>4. QED BY <1>4, <3>4, <4>1, <4>3
    <3>10. QED BY <3>6, <3>7, <3>8, <3>9
  <2>6. QED BY <2>4, <2>5
<1>5. Bad = {}
  <2> SUFFICES ASSUME Bad # {} PROVE FALSE
    OBVIOUS
  <2>1. PICK m \in Bad : \A n \in Bad : m <= n
    BY LeastNumber
  <2>2. PICK w \in Windows(keys) : Width(w) = m /\ ~Fine(w)
    BY <2>1
  <2>3. ASSUME NEW v \in Windows(keys), Width(v) < Width(w) PROVE Fine(v)
    <3>1. Width(v) \in Nat /\ ~(m <= Width(v))
      BY <1>2, <2>2, <2>3, WidthIs
    <3>2. QED BY <2>1, <3>1
  <2>4. QED BY <1>4, <2>2, <2>3
<1>6. PICK w : w = <<1, Len(keys)>>
  OBVIOUS
<1>7. w \in Windows(keys) /\ w[1] = 1 /\ w[2] = Len(keys)
  BY <1>2, <1>6 DEF Windows
<1>8. Fine(w)
  <2>1. Width(w) \in Nat
    BY <1>2, <1>7, WidthIs
  <2>2. QED BY <1>5, <1>7, <2>1
<1>9. Narrowed(keys, hash, w)
  BY <1>2, <1>7 DEF Narrowed
<1>10. search(keys, hash) = f[w]
  BY <1>1, <1>6, SearchIs
<1>11. QED BY <1>8, <1>9, <1>10

Ids == 0..MaxShards - 1

\* What the constants are.
LEMMA ShardConstants ==
  /\ RingSize \in Nat /\ RingSize > 0 /\ FirstShards \in Nat /\ FirstShards > 0 /\ CopiesOf \in Nat /\ CopiesOf > 0
  /\ MaxShards \in Nat /\ FirstShards <= MaxShards
  /\ \A s \in Ids : VNodes[s] \subseteq Keys32
  /\ \A s, t \in Ids : \A h \in VNodes[s] : h \in VNodes[t] => s = t
  /\ Keys32 \subseteq Nat /\ IsFiniteSet(Keys32)
<1>1. /\ RingSize \in Nat /\ RingSize > 0 /\ FirstShards \in Nat /\ FirstShards > 0 /\ CopiesOf \in Nat /\ CopiesOf > 0
      /\ MaxShards \in Nat /\ FirstShards <= MaxShards
  BY ShardingAssumption
<1>2. /\ \A s \in Ids : VNodes[s] \subseteq Keys32
      /\ \A s, t \in Ids : \A h \in VNodes[s] : h \in VNodes[t] => s = t
  BY ShardingAssumption DEF Ids, Keys32
<1>3. PICK last : last = RingSize - 1
  OBVIOUS
<1>4. last \in Int /\ 0 \in Int /\ Keys32 = 0..last
  BY <1>1, <1>3 DEF Keys32
<1>5. IsFiniteSet(Keys32) /\ Keys32 \subseteq Nat
  BY <1>4, FS_Interval
<1>6. QED BY <1>1, <1>2, <1>5

\* The ring of some shards has their virtual nodes, each under its shard.
LEMMA RingAt ==
  ASSUME NEW X \in SUBSET Ids
  PROVE  /\ \A h : h \in DOMAIN RingOf(X) <=> \E s \in X : h \in VNodes[s]
         /\ \A s \in X : \A h \in VNodes[s] : RingOf(X)[h] = s
         /\ \A h \in DOMAIN RingOf(X) : RingOf(X)[h] \in X /\ h \in VNodes[RingOf(X)[h]]
         /\ DOMAIN RingOf(X) \subseteq Keys32
<1>1. DOMAIN RingOf(X) = UNION {VNodes[s] : s \in X}
  BY DEF RingOf
<1>2. \A h : h \in DOMAIN RingOf(X) <=> \E s \in X : h \in VNodes[s]
  BY <1>1
<1>3. ASSUME NEW h \in DOMAIN RingOf(X)
      PROVE  RingOf(X)[h] \in X /\ h \in VNodes[RingOf(X)[h]]
  <2>1. \E s \in X : h \in VNodes[s]
    BY <1>2
  <2>2. RingOf(X)[h] = CHOOSE s \in X : h \in VNodes[s]
    BY <1>1 DEF RingOf
  <2>3. QED BY <2>1, <2>2
<1>4. ASSUME NEW s \in X, NEW h \in VNodes[s] PROVE RingOf(X)[h] = s
  BY <1>2, <1>3, ShardConstants
<1>5. DOMAIN RingOf(X) \subseteq Keys32
  BY <1>2, ShardConstants
<1>6. QED BY <1>2, <1>3, <1>4, <1>5

\* A ring is known by its nodes.
LEMMA RingIs ==
  ASSUME NEW X \in SUBSET Ids, NEW r, r = [h \in DOMAIN r |-> r[h]],
         \A h : h \in DOMAIN r <=> \E s \in X : h \in VNodes[s],
         \A h \in DOMAIN r : h \in VNodes[r[h]] /\ r[h] \in X
  PROVE  r = RingOf(X)
<1>1. DOMAIN r = DOMAIN RingOf(X)
  BY RingAt
<1>2. \A h \in DOMAIN r : r[h] = RingOf(X)[h]
  BY RingAt
<1>3. RingOf(X) = [h \in DOMAIN RingOf(X) |-> RingOf(X)[h]]
  BY DEF RingOf
<1>4. QED BY <1>1, <1>2, <1>3

\* A list that ascends through a set of numbers.
SortedList(keys, H) ==
  /\ keys \in Seq(Nat) /\ Len(keys) = Cardinality(H) /\ Len(keys) \in Nat /\ DOMAIN keys = 1..Len(keys)
  /\ Ascending(keys) /\ ToSet(keys) = H
  /\ \A i \in 1..Len(keys) : keys[i] \in H
  /\ \A h \in H : \E i \in 1..Len(keys) : keys[i] = h

\* Sorting some numbers.
LEMMA SortedIs ==
  ASSUME NEW H \in SUBSET Nat, IsFiniteSet(H)
  PROVE  SortedList(SortedKeys(H), H)
<1>0. PICK keys : keys = SortedKeys(H)
  OBVIOUS
<1>1. Cardinality(H) \in Nat
  BY FS_CardinalityType
<1>2. keys = [n \in 1..Cardinality(H) |-> NthSmallest(H, n)]
  BY <1>0 DEF SortedKeys
<1>3. /\ \A n \in 1..Cardinality(H) : NthSmallest(H, n) \in H
      /\ \A i \in H : \E n \in 1..Cardinality(H) : NthSmallest(H, n) = i
      /\ \A m, n \in 1..Cardinality(H) : m < n => NthSmallest(H, m) < NthSmallest(H, n)
  BY InTurn
<1>4. keys \in Seq(Nat) /\ Len(keys) = Cardinality(H) /\ DOMAIN keys = 1..Cardinality(H)
  <2>1. PICK n : n = Cardinality(H)
    OBVIOUS
  <2>2. n \in Nat /\ keys = [i \in 1..n |-> NthSmallest(H, i)] /\ \A i \in 1..n : NthSmallest(H, i) \in Nat
    BY <1>1, <1>2, <1>3, <2>1
  <2>3. keys \in Seq(Nat) /\ Len(keys) = n /\ DOMAIN keys = 1..n
    BY <2>2
  <2>4. QED BY <2>1, <2>3
<1>5. \A i \in 1..Cardinality(H) : keys[i] = NthSmallest(H, i)
  BY <1>2
<1>6. Ascending(keys)
  BY <1>3, <1>4, <1>5 DEF Ascending
<1>7. /\ \A i \in 1..Len(keys) : keys[i] \in H
      /\ \A h \in H : \E i \in 1..Len(keys) : keys[i] = h
  BY <1>3, <1>4, <1>5
<1>8. ToSet(keys) = H
  BY <1>4, <1>7 DEF ToSet
<1>9. QED BY <1>0, <1>1, <1>4, <1>6, <1>7, <1>8 DEF SortedList

\* A list that ascends through a set of numbers is the sorted list of it.
LEMMA OneSorted ==
  ASSUME NEW H \in SUBSET Nat, NEW n \in Nat, NEW s, s = [i \in 1..n |-> s[i]],
         \A i \in 1..n : s[i] \in H,
         \A h \in H : \E i \in 1..n : s[i] = h,
         \A i, j \in 1..n : i < j => s[i] < s[j]
  PROVE  s = SortedKeys(H)
<1>1. \A i \in 1..n : s[i] \in Nat
  OBVIOUS
<1>2. \A i, j \in 1..n : (s[i] = s[j] => i = j) /\ (s[i] < s[j] => i < j)
  <2>1. ASSUME NEW i \in 1..n, NEW j \in 1..n PROVE (s[i] = s[j] => i = j) /\ (s[i] < s[j] => i < j)
    <3>1. i < j \/ i = j \/ j < i
      OBVIOUS
    <3>2. s[i] < s[j] \/ i = j \/ s[j] < s[i]
      BY <3>1
    <3>3. s[i] \in Nat /\ s[j] \in Nat
      BY <1>1
    <3>4. (i < j => s[i] < s[j]) /\ (j < i => s[j] < s[i])
      OBVIOUS
    <3>5. QED BY <3>1, <3>3, <3>4
  <2>2. QED BY <2>1
<1>3. s \in Bijection(1..n, H)
  <2>1. s \in [1..n -> H]
    OBVIOUS
  <2>2. s \in Injection(1..n, H)
    BY <1>2, <2>1 DEF Injection, IsInjective
  <2>3. s \in Surjection(1..n, H)
    BY <2>1 DEF Surjection
  <2>4. QED BY <2>2, <2>3 DEF Bijection
<1>4. Cardinality(H) = n /\ IsFiniteSet(H)
  <2>1. ExistsBijection(1..n, H)
    BY <1>3 DEF ExistsBijection
  <2>2. QED BY <2>1, FS_CountingElements, FS_NatBijection
<1>5. ASSUME NEW i \in 1..n PROVE NthSmallest(H, i) = s[i]
  <2>1. PICK k : k = i - 1
    OBVIOUS
  <2>2. k \in Nat /\ k < i /\ \A j \in 1..n : j < i <=> j \in 1..k
    BY <2>1
  <2>3. PICK f : f = [j \in 1..k |-> s[j]]
    OBVIOUS
  <2>4. \A j \in 1..k : j \in 1..n /\ f[j] = s[j] /\ f[j] \in Under(H, s[i])
    BY <2>2, <2>3 DEF Under
  <2>5. f \in [1..k -> Under(H, s[i])]
    BY <2>3, <2>4
  <2>6. f \in Injection(1..k, Under(H, s[i]))
    BY <1>2, <2>4, <2>5 DEF Injection, IsInjective
  <2>7. \A h \in Under(H, s[i]) : \E j \in 1..k : f[j] = h
    <3>1. ASSUME NEW h \in Under(H, s[i]) PROVE \E j \in 1..k : f[j] = h
      <4>1. h \in H /\ h < s[i]
        BY DEF Under
      <4>2. PICK j \in 1..n : s[j] = h
        BY <4>1
      <4>3. j < i
        BY <1>2, <4>1, <4>2
      <4>4. QED BY <2>2, <2>4, <4>2, <4>3
    <3>2. QED BY <3>1
  <2>8. ExistsBijection(1..k, Under(H, s[i]))
    BY <2>5, <2>6, <2>7 DEF ExistsBijection, Bijection, Surjection
  <2>9. Cardinality(Under(H, s[i])) = k
    BY <2>2, <2>8, FS_CountingElements
  <2>10. NthSmallest(H, i) = CHOOSE x \in H : Cardinality(Under(H, x)) = i - 1
    BY DEF NthSmallest, Under
  <2>11. PICK x \in H : x = NthSmallest(H, i) /\ Cardinality(Under(H, x)) = i - 1
    BY <2>1, <2>9, <2>10
  <2>12. Cardinality(Under(H, x)) = Cardinality(Under(H, s[i]))
    BY <2>1, <2>9, <2>11
  <2>13. QED BY <1>4, <2>11, <2>12, UnderGrows
<1>6. SortedKeys(H) = [i \in 1..n |-> NthSmallest(H, i)]
  BY <1>4 DEF SortedKeys
<1>7. QED BY <1>5, <1>6

\* Taking the places in I of a list of n.
LEMMA TakenIs ==
  ASSUME NEW n \in Nat, NEW I \in SUBSET (1..n), NEW list
  PROVE  /\ Cardinality(I) \in Nat
         /\ TakenFrom(list, I) = [k \in 1..Cardinality(I) |-> list[NthSmallest(I, k)]]
         /\ \A k \in 1..Cardinality(I) : NthSmallest(I, k) \in I
         /\ \A i \in I : \E k \in 1..Cardinality(I) : NthSmallest(I, k) = i
         /\ \A k, l \in 1..Cardinality(I) : k < l => NthSmallest(I, k) < NthSmallest(I, l)
<1>1. IsFiniteSet(1..n) /\ I \in SUBSET Nat
  <2>1. PICK m \in Int : m = n
    OBVIOUS
  <2>2. 1 \in Int /\ IsFiniteSet(1..m)
    BY FS_Interval
  <2>3. QED BY <2>1, <2>2
<1>2. IsFiniteSet(I)
  BY <1>1, FS_Subset
<1>3. TakenFrom(list, I) = [k \in 1..Cardinality(I) |-> list[NthSmallest(I, k)]]
  BY DEF TakenFrom
<1>4. QED BY <1>1, <1>2, <1>3, InTurn, FS_CardinalityType

-----------------------------------------------------------------------------
\* How far a node is from a hash, clockwise.
LEMMA Clockwise ==
  ASSUME NEW x \in Keys32, NEW h \in Keys32
  PROVE  (x - h + RingSize) % RingSize = IF x >= h THEN x - h ELSE x - h + RingSize
<1>1. PICK R \in Nat : R = RingSize /\ R > 0 /\ x \in 0..R - 1 /\ h \in 0..R - 1
  BY ShardConstants DEF Keys32
<1>2. CASE x >= h
  <2>1. (x - h + R) % R = x - h
    BY <1>1, <1>2
  <2>2. QED BY <1>1, <1>2, <2>1
<1>3. CASE ~(x >= h)
  <2>1. (x - h + R) % R = x - h + R
    BY <1>1, <1>3
  <2>2. QED BY <1>1, <1>3, <2>1
<1>4. QED BY <1>2, <1>3

\* The search routes every hash to the next node clockwise.
LEMMA RoutedIs ==
  ASSUME NEW r, DOMAIN r \in SUBSET Keys32, DOMAIN r # {}, NEW h \in Keys32
  PROVE  /\ RingGet(r, SortedKeys(DOMAIN r), h) = Owner(r, h)
         /\ \E x \in DOMAIN r : RingGet(r, SortedKeys(DOMAIN r), h) = r[x]
         /\ search(SortedKeys(DOMAIN r), h) \in 1..Len(SortedKeys(DOMAIN r))
<1>1. PICK H, keys : H = DOMAIN r /\ keys = SortedKeys(H)
  OBVIOUS
<1>2. H \in SUBSET Nat /\ IsFiniteSet(H) /\ h \in Nat /\ H \in SUBSET Keys32 /\ H # {}
  <2>1. Keys32 \subseteq Nat /\ IsFiniteSet(Keys32)
    BY ShardConstants
  <2>2. QED BY <1>1, <2>1, FS_Subset
<1>3. /\ keys \in Seq(Nat) /\ Len(keys) \in Nat /\ Ascending(keys)
      /\ \A i \in 1..Len(keys) : keys[i] \in H
      /\ \A x \in H : \E i \in 1..Len(keys) : keys[i] = x
  <2>1. SortedList(keys, H)
    BY <1>1, <1>2, SortedIs
  <2>2. QED BY <2>1 DEF SortedList
<1>4. Len(keys) > 0
  <2>1. PICK x \in H, i \in 1..Len(keys) : keys[i] = x
    BY <1>2, <1>3
  <2>2. QED BY <1>3, <2>1
<1>5. PICK p \in 1..Len(keys) : p = search(keys, h) /\ Belongs(keys, h, p)
  BY <1>2, <1>3, <1>4, SearchFinds DEF Belongs
<1>6. PICK x \in H : x = keys[p]
  BY <1>3
<1> DEFINE d(y) == (y - h + RingSize) % RingSize
<1>7. \A y \in H : d(y) = IF y >= h THEN y - h ELSE y - h + RingSize
  BY <1>2, Clockwise
<1> HIDE DEF d
<1>8. \A y \in H : y \in 0..RingSize - 1
  BY <1>2 DEF Keys32
<1>9. RingSize \in Nat /\ h \in 0..RingSize - 1
  BY ShardConstants DEF Keys32
<1>10. \A y, z \in H : d(y) = d(z) => y = z
  BY SMTT(30), <1>7, <1>8, <1>9
<1>11. ASSUME NEW y \in H PROVE d(x) <= d(y)
  <2>1. PICK i \in 1..Len(keys) : y = keys[i]
    BY <1>3
  <2>2. i < p \/ i = p \/ p < i
    OBVIOUS
  <2>3. CASE x >= h /\ \A j \in 1..Len(keys) : j < p => keys[j] < h
    <3>1. i < p => y < h
      BY <2>1, <2>3
    <3>2. p < i => x < y
      BY <1>3, <1>6, <2>1 DEF Ascending
    <3>3. i = p => x = y
      BY <1>6, <2>1
    <3>4. y < h \/ x <= y
      BY <1>8, <2>2, <3>1, <3>2, <3>3
    <3>5. QED BY <1>7, <1>8, <1>9, <2>3, <3>4
  <2>4. CASE p = 1 /\ \A j \in 1..Len(keys) : keys[j] < h
    <3>1. y < h /\ x < h
      BY <1>6, <2>1, <2>4
    <3>2. p < i => x < y
      BY <1>3, <1>6, <2>1 DEF Ascending
    <3>3. i = p => x = y
      BY <1>6, <2>1
    <3>4. x <= y
      BY <1>8, <2>2, <2>4, <3>2, <3>3
    <3>5. QED BY <1>7, <1>8, <1>9, <3>1, <3>4
  <2>5. QED BY <1>5, <1>6, <2>3, <2>4 DEF Belongs
<1>12. PICK c \in H : c = CHOOSE y \in H : \A z \in H : d(y) <= d(z)
  BY <1>11
<1>13. \A z \in H : d(c) <= d(z)
  BY <1>11, <1>12
<1>14. c = x
  <2>1. d(c) \in Int /\ d(x) \in Int
    BY <1>7, <1>8, <1>9
  <2>2. d(c) <= d(x) /\ d(x) <= d(c)
    BY <1>11, <1>13
  <2>3. d(c) = d(x)
    BY <2>1, <2>2
  <2>4. QED BY <1>10, <2>3
<1>15. Owner(r, h) = r[c]
  BY <1>1, <1>12 DEF Owner, d
<1>16. RingGet(r, keys, h) = r[x]
  BY <1>1, <1>2, <1>5, <1>6 DEF RingGet
<1>17. QED BY <1>1, <1>5, <1>14, <1>15, <1>16

\* The shards in the ring.
RingShards == {ring[h] : h \in DOMAIN ring}

\* A list of some values, each once.
EachOnce(list, V) ==
  /\ Len(list) \in Nat /\ DOMAIN list = 1..Len(list) /\ list = [i \in 1..Len(list) |-> list[i]]
  /\ \A i \in 1..Len(list) : list[i] \in V
  /\ \A i, j \in 1..Len(list) : list[i] = list[j] => i = j

\* Such a list has as many values as places.
LEMMA OnceCounted ==
  ASSUME NEW list, NEW V, EachOnce(list, V)
  PROVE  /\ ToSet(list) \subseteq V /\ Cardinality(ToSet(list)) = Len(list)
         /\ IsFiniteSet(ToSet(list))
<1>1. PICK n \in Nat : n = Len(list) /\ DOMAIN list = 1..n /\ list = [i \in 1..n |-> list[i]]
  BY DEF EachOnce
<1>2. ToSet(list) = {list[i] : i \in 1..n}
  BY <1>1 DEF ToSet
<1>3. \A i, j \in 1..n : list[i] = list[j] => i = j
  BY <1>1 DEF EachOnce
<1>4. list \in Injection(1..n, ToSet(list))
  BY <1>1, <1>2, <1>3 DEF Injection, IsInjective
<1>5. list \in Surjection(1..n, ToSet(list))
  BY <1>1, <1>2 DEF Surjection
<1>6. ExistsBijection(1..n, ToSet(list))
  BY <1>4, <1>5 DEF Bijection, ExistsBijection
<1>7. Cardinality(ToSet(list)) = n /\ IsFiniteSet(ToSet(list))
  BY <1>6, FS_CountingElements, FS_NatBijection
<1>8. ToSet(list) \subseteq V
  BY <1>1, <1>2 DEF EachOnce
<1>9. QED BY <1>1, <1>7, <1>8

\* The place a walk from start is at after i steps: every place of the round is met.
LEMMA RoundTrip ==
  ASSUME NEW n \in Nat, n > 0, NEW start \in 1..n
  PROVE  /\ \A i \in 1..n : ((start + i - 2) % n) + 1 \in 1..n
         /\ \A j \in 1..n : \E i \in 1..n : ((start + i - 2) % n) + 1 = j
<1>1. ASSUME NEW i \in 1..n
      PROVE  (start + i - 2) % n = IF start + i - 2 < n THEN start + i - 2 ELSE start + i - 2 - n
  <2>1. PICK a : a = start + i - 2
    OBVIOUS
  <2>2. a \in Int /\ 0 <= a /\ a < n + n
    BY <2>1
  <2>3. CASE a < n
    <3>1. a % n = a
      BY <2>2, <2>3
    <3>2. QED BY <2>1, <2>3, <3>1
  <2>4. CASE ~(a < n)
    <3>1. a % n = a - n
      BY <2>2, <2>4
    <3>2. QED BY <2>1, <2>4, <3>1
  <2>5. QED BY <2>3, <2>4
<1>2. \A i \in 1..n : ((start + i - 2) % n) + 1 \in 1..n
  BY <1>1
<1>3. ASSUME NEW j \in 1..n PROVE \E i \in 1..n : ((start + i - 2) % n) + 1 = j
  <2>1. CASE j >= start
    <3>1. PICK i : i = j - start + 1
      OBVIOUS
    <3>2. i \in 1..n /\ start + i - 2 = j - 1
      BY <2>1, <3>1
    <3>3. ((start + i - 2) % n) + 1 = j
      BY <1>1, <3>2
    <3>4. QED BY <3>2, <3>3
  <2>2. CASE ~(j >= start)
    <3>1. PICK i : i = j - start + n + 1
      OBVIOUS
    <3>2. i \in 1..n /\ start + i - 2 = j - 1 + n
      BY <2>2, <3>1
    <3>3. ((start + i - 2) % n) + 1 = j
      BY <1>1, <3>2
    <3>4. QED BY <3>2, <3>3
  <2>3. QED BY <2>1, <2>2
<1>4. QED BY <1>2, <1>3

\* A walk round the ring meets every shard of it, and lists each once.
LEMMA WayIs ==
  ASSUME DOMAIN ring \in SUBSET Keys32, DOMAIN ring # {}, sortedKeys = SortedKeys(DOMAIN ring), NEW h \in Keys32
  PROVE  EachOnce(OnTheWay(h), RingShards) /\ RingShards \subseteq ToSet(OnTheWay(h))
<1>1. PICK start, n : start = search(sortedKeys, h) /\ n = Len(sortedKeys)
  OBVIOUS
<1>2. /\ n \in Nat /\ start \in 1..n
      /\ \A j \in 1..n : sortedKeys[j] \in DOMAIN ring
      /\ \A x \in DOMAIN ring : \E j \in 1..n : sortedKeys[j] = x
  <2>1. SortedList(sortedKeys, DOMAIN ring)
    <3>1. Keys32 \subseteq Nat /\ IsFiniteSet(Keys32)
      BY ShardConstants
    <3>2. PICK H : H = DOMAIN ring
      OBVIOUS
    <3>3. H \in SUBSET Nat /\ IsFiniteSet(H)
      BY <3>1, <3>2, FS_Subset
    <3>4. SortedList(SortedKeys(H), H)
      BY <3>3, SortedIs
    <3>5. QED BY <3>2, <3>4
  <2>2. start \in 1..n
    BY <1>1, RoutedIs
  <2>3. QED BY <1>1, <2>1, <2>2 DEF SortedList
<1>3. n > 0
  BY <1>2
<1>4. PICK met : met = [i \in 1..n |-> ring[sortedKeys[((start + i - 2) % n) + 1]]]
  OBVIOUS
<1>5. PICK I : I = {i \in 1..n : \A j \in 1..i - 1 : met[j] # met[i]}
  OBVIOUS
<1>6. PICK found : found = OnTheWay(h) /\ found = TakenFrom(met, I)
  <2> DEFINE walk == [i \in 1..Len(sortedKeys) |->
                        ring[sortedKeys[((search(sortedKeys, h) + i - 2) % Len(sortedKeys)) + 1]]]
             firsts == {i \in 1..Len(sortedKeys) : \A j \in 1..i - 1 : walk[j] # walk[i]}
  <2>1. OnTheWay(h) = TakenFrom(walk, firsts)
    BY DEF OnTheWay
  <2>2. walk = met
    BY <1>1, <1>4
  <2>3. firsts = I
    <3> HIDE DEF walk
    <3>1. QED BY <1>1, <1>5, <2>2
  <2> HIDE DEF walk, firsts
  <2>4. OnTheWay(h) = TakenFrom(met, I)
    BY <2>1, <2>2, <2>3
  <2>5. QED BY <2>4
<1>7. \A i \in 1..n : met[i] \in RingShards
  <2>1. ASSUME NEW i \in 1..n PROVE met[i] \in RingShards
    <3>1. PICK j \in 1..n : j = ((start + i - 2) % n) + 1
      BY <1>2, <1>3, RoundTrip
    <3>2. met[i] = ring[sortedKeys[j]] /\ sortedKeys[j] \in DOMAIN ring
      BY <1>2, <1>4, <3>1
    <3>3. QED BY <3>2 DEF RingShards
  <2>2. QED BY <2>1
<1>8. ASSUME NEW s \in RingShards PROVE \E i \in I : met[i] = s
  <2>1. PICK x \in DOMAIN ring : ring[x] = s
    BY DEF RingShards
  <2>2. PICK j \in 1..n : sortedKeys[j] = x
    BY <1>2
  <2>3. PICK i \in 1..n : ((start + i - 2) % n) + 1 = j
    BY <1>2, <1>3, RoundTrip
  <2>4. met[i] = s
    BY <1>4, <2>1, <2>2, <2>3
  <2>5. PICK S : S = {m \in 1..n : met[m] = s}
    OBVIOUS
  <2>6. S \in SUBSET Nat /\ S # {}
    BY <2>4, <2>5
  <2>7. PICK m \in S : \A l \in S : m <= l
    BY <2>6, LeastNumber
  <2>8. m \in 1..n /\ met[m] = s
    BY <2>5
  <2>9. ASSUME NEW l \in 1..m - 1 PROVE met[l] # met[m]
    <3>1. l \in 1..n /\ ~(m <= l)
      BY <1>2, <2>8
    <3>2. l \notin S
      BY <2>7, <3>1
    <3>3. QED BY <2>5, <2>8, <3>1, <3>2
  <2>10. m \in I
    BY <1>5, <2>8, <2>9
  <2>11. QED BY <2>8, <2>10
<1>9. PICK c : c = Cardinality(I)
  OBVIOUS
<1>10. /\ c \in Nat /\ found = [k \in 1..c |-> met[NthSmallest(I, k)]]
       /\ \A k \in 1..c : NthSmallest(I, k) \in I
       /\ \A i \in I : \E k \in 1..c : NthSmallest(I, k) = i
       /\ \A k, l \in 1..c : k < l => NthSmallest(I, k) < NthSmallest(I, l)
  <2>1. I \in SUBSET (1..n)
    BY <1>5
  <2>2. QED BY <1>2, <1>6, <1>9, <2>1, TakenIs
<1>11. Len(found) = c /\ DOMAIN found = 1..c
  BY <1>10
<1>12. \A k \in 1..c : found[k] = met[NthSmallest(I, k)] /\ found[k] \in RingShards
  BY <1>5, <1>7, <1>10
<1>13. ASSUME NEW k \in 1..c, NEW l \in 1..c, k < l PROVE found[k] # found[l]
  <2>1. PICK a \in I, b \in I : a = NthSmallest(I, k) /\ b = NthSmallest(I, l) /\ a < b
    BY <1>10, <1>13
  <2>2. a \in 1..b - 1
    BY <1>5, <2>1
  <2>3. met[a] # met[b]
    BY <1>5, <2>2
  <2>4. QED BY <1>12, <2>1, <2>3
<1>14. EachOnce(found, RingShards)
  <2>1. \A k, l \in 1..c : found[k] = found[l] => k = l
    <3>1. \A k, l \in 1..c : k < l \/ k = l \/ l < k
      BY <1>10
    <3>2. QED BY <1>13, <3>1
  <2>2. found = [k \in 1..c |-> found[k]]
    BY <1>10
  <2>3. QED BY <1>10, <1>11, <1>12, <2>1, <2>2 DEF EachOnce
<1>15. RingShards \subseteq ToSet(found)
  <2>1. ASSUME NEW s \in RingShards PROVE s \in ToSet(found)
    <3>1. PICK i \in I : met[i] = s
      BY <1>8
    <3>2. PICK k \in 1..c : NthSmallest(I, k) = i
      BY <1>10
    <3>3. found[k] = s
      BY <1>12, <3>1, <3>2
    <3>4. QED BY <1>11, <3>3 DEF ToSet
  <2>2. QED BY <2>1
<1>16. QED BY <1>6, <1>14, <1>15

\* The shards are numbered from 0; whoever changes them has one of them in hand.
ShardTyped ==
  /\ \E m \in 1..MaxShards : active \in [0..m - 1 -> BOOLEAN]
  /\ changing.op \in {"none", "add", "remove"}
  /\ changing.op = "none" => changing = Nobody
  /\ changing.op # "none" => changing.shard \in DOMAIN active /\ changing = [op |-> changing.op, shard |-> changing.shard]
  /\ changing.op = "add" => changing.shard \in Alive
  /\ changing.op = "remove" => changing.shard \notin Alive

\* The ring is that of the active shards, but for the one whose change is not yet made to it.
RingFollows ==
  /\ \E X \in SUBSET DOMAIN active :
       /\ ring = RingOf(X)
       /\ changing.op = "none" => X = Alive
       /\ changing.op = "add" => X = Alive \ {changing.shard}
       /\ changing.op = "remove" => X \ {changing.shard} = Alive
  /\ sortedKeys = SortedKeys(DOMAIN ring)

SeekKept ==
  /\ seek = [step |-> seek.step, key |-> seek.key, want |-> seek.want, ids |-> seek.ids,
             lived |-> seek.lived, none |-> seek.none]
  /\ seek.step \in {"asked", "found"} =>
       /\ ToSet(seek.ids) \subseteq DOMAIN active
       /\ Cardinality(ToSet(seek.ids)) = Len(seek.ids)
       /\ ToSet(seek.ids) \subseteq seek.lived \/ seek.none
  /\ seek.step = "spinning" => Cardinality(RingShards) < CopiesOf

ShardInv == ShardTyped /\ RingFollows /\ SeekKept

\* The shards there are have virtual nodes.
LEMMA ShardsNumbered ==
  ASSUME ShardTyped
  PROVE  /\ DOMAIN active \subseteq Ids /\ 0 \in DOMAIN active /\ Alive \subseteq DOMAIN active
         /\ \E m \in 1..MaxShards : DOMAIN active = 0..m - 1 /\ Cardinality(DOMAIN active) = m
<1>1. PICK m \in 1..MaxShards : active \in [0..m - 1 -> BOOLEAN]
  BY DEF ShardTyped
<1>2. MaxShards \in Nat
  BY ShardConstants
<1>3. PICK last : last = m - 1
  OBVIOUS
<1>4. last \in Int /\ 0 \in Int /\ ~(0 > last) /\ last - 0 + 1 = m
  BY <1>1, <1>2, <1>3
<1>5. Cardinality(0..last) = m
  BY <1>4, FS_Interval
<1>6. DOMAIN active = 0..last /\ 0 \in 0..last /\ 0..last \subseteq Ids
  BY <1>1, <1>2, <1>3, <1>4 DEF Ids
<1>7. QED BY <1>3, <1>5, <1>6 DEF Alive

\* The first shards are in the ring.
LEMMA ShardInitInv == ShardInit => ShardInv
<1> SUFFICES ASSUME ShardInit PROVE ShardInv
  OBVIOUS
<1>1. /\ active = [s \in 0..FirstShards - 1 |-> TRUE] /\ changing = Nobody /\ seek = Resting
      /\ ring = RingOf(0..FirstShards - 1) /\ sortedKeys = SortedKeys(DOMAIN ring)
  BY DEF ShardInit
<1>2. FirstShards \in 1..MaxShards
  BY ShardConstants
<1>3. ShardTyped
  BY <1>1, <1>2 DEF ShardTyped, Nobody
<1>4. Alive = DOMAIN active /\ DOMAIN active = 0..FirstShards - 1
  BY <1>1 DEF Alive
<1>5. RingFollows
  BY <1>1, <1>4 DEF RingFollows, Nobody
<1>6. SeekKept
  BY <1>1 DEF SeekKept, Resting
<1>7. QED BY <1>3, <1>5, <1>6 DEF ShardInv

\* AddShard takes the next number, which nobody has.
LEMMA ShardAdded == ASSUME ShardInv, AddShard PROVE ShardInv'
<1>1. PICK m \in 1..MaxShards : DOMAIN active = 0..m - 1 /\ Cardinality(DOMAIN active) = m
  BY ShardsNumbered DEF ShardInv
<1>2. /\ changing = Nobody /\ m < MaxShards
      /\ active' = [s \in DOMAIN active \union {m} |-> IF s = m THEN TRUE ELSE active[s]]
      /\ changing' = [op |-> "add", shard |-> m] /\ UNCHANGED <<ring, sortedKeys, seek>>
  BY <1>1 DEF AddShard
<1>3. DOMAIN active \union {m} = 0..m /\ m \notin DOMAIN active /\ m + 1 \in 1..MaxShards /\ (m + 1) - 1 = m
  BY <1>1, <1>2, ShardConstants
<1>4. PICK k : active \in [0..k - 1 -> BOOLEAN]
  BY DEF ShardInv, ShardTyped
<1>5. \A s \in DOMAIN active : active[s] \in BOOLEAN /\ s # m
  BY <1>3, <1>4
<1>6. active' \in [0..m -> BOOLEAN] /\ DOMAIN active' = 0..m
  BY <1>2, <1>3, <1>5
<1>7. Alive' = Alive \union {m}
  BY <1>2, <1>5 DEF Alive
<1>8. ShardTyped'
  <2>1. \E n \in 1..MaxShards : active' \in [0..n - 1 -> BOOLEAN]
    BY <1>3, <1>6
  <2>2. changing'.op = "add" /\ changing'.shard = m /\ m \in DOMAIN active' /\ m \in Alive'
    BY <1>2, <1>3, <1>6, <1>7
  <2>3. QED BY <1>2, <2>1, <2>2 DEF ShardTyped
<1>9. RingFollows'
  <2>1. PICK X \in SUBSET DOMAIN active : ring = RingOf(X) /\ X = Alive
    BY <1>2 DEF ShardInv, RingFollows, Nobody
  <2>2. X = Alive' \ {m} /\ X \in SUBSET DOMAIN active'
    BY <1>2, <1>5, <1>7, <2>1
  <2>3. changing'.op = "add" /\ changing'.shard = m
    BY <1>2
  <2>4. sortedKeys' = SortedKeys(DOMAIN ring') /\ ring' = RingOf(X)
    BY <1>2, <2>1 DEF ShardInv, RingFollows
  <2>5. QED BY <2>2, <2>3, <2>4 DEF RingFollows
<1>10. SeekKept'
  BY <1>2 DEF ShardInv, SeekKept, RingShards
<1>11. QED BY <1>8, <1>9, <1>10 DEF ShardInv

\* RemoveShard puts a shard out of use.
LEMMA ShardRemoved == ASSUME ShardInv, NEW s \in DOMAIN active, RemoveShard(s) PROVE ShardInv'
<1>1. /\ changing = Nobody /\ active' = [active EXCEPT ![s] = FALSE]
      /\ changing' = [op |-> "remove", shard |-> s] /\ UNCHANGED <<ring, sortedKeys, seek>>
  BY DEF RemoveShard
<1>2. PICK m \in 1..MaxShards : active \in [0..m - 1 -> BOOLEAN]
  BY DEF ShardInv, ShardTyped
<1>3. active' \in [0..m - 1 -> BOOLEAN] /\ DOMAIN active' = DOMAIN active
  BY <1>1, <1>2
<1>4. Alive' = Alive \ {s}
  BY <1>1, <1>2 DEF Alive
<1>5. changing'.op = "remove" /\ changing'.shard = s
  BY <1>1
<1>6. ShardTyped'
  BY <1>1, <1>3, <1>4, <1>5 DEF ShardTyped
<1>7. RingFollows'
  <2>1. PICK X \in SUBSET DOMAIN active : ring = RingOf(X) /\ X = Alive
    BY <1>1 DEF ShardInv, RingFollows, Nobody
  <2>2. sortedKeys' = SortedKeys(DOMAIN ring') /\ ring' = RingOf(X)
    BY <1>1, <2>1 DEF ShardInv, RingFollows
  <2>3. QED BY <1>3, <1>4, <1>5, <2>1, <2>2 DEF RingFollows
<1>8. SeekKept'
  BY <1>1, <1>3 DEF ShardInv, SeekKept, RingShards
<1>9. QED BY <1>6, <1>7, <1>8 DEF ShardInv

\* A change that has reached the ring is over.
LEMMA RingChanged ==
  ASSUME ShardInv, RingFree, changing' = Nobody, UNCHANGED <<active, seek>>,
         ring' = RingOf(Alive), sortedKeys' = SortedKeys(DOMAIN ring')
  PROVE  ShardInv'
<1>1. ShardTyped'
  BY DEF ShardInv, ShardTyped, Nobody, Alive
<1>2. Alive' = Alive /\ Alive \in SUBSET DOMAIN active'
  BY DEF Alive
<1>3. RingFollows'
  BY <1>2 DEF RingFollows, Nobody
<1>4. SeekKept'
  BY DEF ShardInv, SeekKept, RingFree
<1>5. QED BY <1>1, <1>3, <1>4 DEF ShardInv

\* The ring gets the nodes of a new shard.
LEMMA NodesAdded == ASSUME ShardInv, RouterAdd PROVE ShardInv'
<1>1. PICK s : s = changing.shard
  OBVIOUS
<1>2. /\ changing.op = "add" /\ RingFree /\ changing' = Nobody /\ UNCHANGED <<active, seek>>
      /\ ring' = [h \in DOMAIN ring \union VNodes[s] |-> IF h \in VNodes[s] THEN s ELSE ring[h]]
      /\ sortedKeys' = SortedKeys(ToSet(sortedKeys) \union VNodes[s])
  BY <1>1 DEF RouterAdd
<1>3. Alive \in SUBSET Ids /\ s \in Alive
  BY <1>1, <1>2, ShardsNumbered DEF ShardInv, ShardTyped
<1>4. PICK X \in SUBSET Ids : ring = RingOf(X) /\ X = Alive \ {s}
  BY <1>1, <1>2, <1>3 DEF ShardInv, RingFollows
<1>5. sortedKeys = SortedKeys(DOMAIN ring) /\ ToSet(sortedKeys) = DOMAIN ring
  <2>1. PICK H : H = DOMAIN ring
    OBVIOUS
  <2>2. H \in SUBSET Nat /\ IsFiniteSet(H)
    BY <1>4, <2>1, RingAt, ShardConstants, FS_Subset
  <2>3. SortedList(SortedKeys(H), H)
    BY <2>2, SortedIs
  <2>4. sortedKeys = SortedKeys(H)
    BY <2>1 DEF ShardInv, RingFollows
  <2>5. QED BY <2>1, <2>3, <2>4 DEF SortedList
<1>6. PICK r : r = ring'
  OBVIOUS
<1>7. DOMAIN r = DOMAIN ring \union VNodes[s] /\ r = [h \in DOMAIN r |-> r[h]]
  BY <1>2, <1>6
<1>8. \A h : h \in DOMAIN r <=> \E t \in Alive : h \in VNodes[t]
  BY <1>3, <1>4, <1>7, RingAt
<1>9. \A h \in DOMAIN r : h \in VNodes[r[h]] /\ r[h] \in Alive
  <2>1. ASSUME NEW h \in DOMAIN r PROVE h \in VNodes[r[h]] /\ r[h] \in Alive
    <3>1. CASE h \in VNodes[s]
      BY <1>2, <1>3, <1>6, <3>1
    <3>2. CASE h \notin VNodes[s]
      <4>1. h \in DOMAIN ring /\ r[h] = ring[h]
        BY <1>2, <1>6, <1>7, <3>2
      <4>2. QED BY <1>4, <4>1, RingAt
    <3>3. QED BY <3>1, <3>2
  <2>2. QED BY <2>1
<1>10. r = RingOf(Alive)
  BY <1>3, <1>7, <1>8, <1>9, RingIs
<1>11. sortedKeys' = SortedKeys(DOMAIN ring')
  BY <1>2, <1>5, <1>6, <1>7
<1>12. QED BY <1>2, <1>6, <1>10, <1>11, RingChanged

\* The ring loses the nodes of a removed shard, and the list of keys stays sorted.
LEMMA NodesRemoved == ASSUME ShardInv, RouterRemove PROVE ShardInv'
<1>1. PICK s : s = changing.shard
  OBVIOUS
<1>2. PICK kept : kept = {h \in DOMAIN ring : ring[h] # s}
  OBVIOUS
<1>3. PICK I : I = {i \in DOMAIN sortedKeys : sortedKeys[i] \in kept}
  OBVIOUS
<1>4. /\ changing.op = "remove" /\ RingFree /\ changing' = Nobody /\ UNCHANGED <<active, seek>>
      /\ ring' = [h \in kept |-> ring[h]] /\ sortedKeys' = TakenFrom(sortedKeys, I)
  BY <1>1, <1>2, <1>3 DEF RouterRemove
<1>5. PICK X \in SUBSET Ids : ring = RingOf(X) /\ X \ {s} = Alive
  <2>1. DOMAIN active \subseteq Ids
    BY ShardsNumbered DEF ShardInv
  <2>2. QED BY <1>1, <1>4, <2>1 DEF ShardInv, RingFollows
<1>6. Alive \in SUBSET Ids
  BY <1>5
<1>7. PICK H : H = DOMAIN ring
  OBVIOUS
<1>8. H \in SUBSET Nat /\ IsFiniteSet(H) /\ kept \in SUBSET Nat
  BY <1>2, <1>5, <1>7, RingAt, ShardConstants, FS_Subset
<1>9. PICK keys : keys = sortedKeys /\ SortedList(keys, H)
  <2>1. SortedList(SortedKeys(H), H)
    BY <1>8, SortedIs
  <2>2. sortedKeys = SortedKeys(H)
    BY <1>7 DEF ShardInv, RingFollows
  <2>3. QED BY <2>1, <2>2
<1>10. PICK n \in Nat :
         /\ n = Len(keys) /\ DOMAIN keys = 1..n
         /\ \A i \in 1..n : keys[i] \in H
         /\ \A h \in H : \E i \in 1..n : keys[i] = h
         /\ \A i, j \in 1..n : i < j => keys[i] < keys[j]
  BY <1>9 DEF SortedList, Ascending
<1>11. PICK c : c = Cardinality(I)
  OBVIOUS
<1>12. /\ c \in Nat /\ TakenFrom(keys, I) = [k \in 1..c |-> keys[NthSmallest(I, k)]]
       /\ \A k \in 1..c : NthSmallest(I, k) \in I
       /\ \A i \in I : \E k \in 1..c : NthSmallest(I, k) = i
       /\ \A k, l \in 1..c : k < l => NthSmallest(I, k) < NthSmallest(I, l)
  <2>1. I \in SUBSET (1..n)
    BY <1>3, <1>9, <1>10
  <2>2. QED BY <1>11, <2>1, TakenIs
<1>13. PICK rest : rest = TakenFrom(keys, I)
  OBVIOUS
<1>14. rest = [k \in 1..c |-> rest[k]] /\ \A k \in 1..c : rest[k] = keys[NthSmallest(I, k)]
  BY <1>12, <1>13
<1>15. \A k \in 1..c : rest[k] \in kept
  BY <1>3, <1>9, <1>12, <1>14
<1>16. ASSUME NEW h \in kept PROVE \E k \in 1..c : rest[k] = h
  <2>1. PICK i \in 1..n : keys[i] = h
    BY <1>2, <1>7, <1>10
  <2>2. i \in I
    BY <1>3, <1>9, <1>10, <2>1
  <2>3. QED BY <1>12, <1>14, <2>1, <2>2
<1>17. ASSUME NEW k \in 1..c, NEW l \in 1..c, k < l PROVE rest[k] < rest[l]
  <2>1. PICK a \in 1..n, b \in 1..n : a = NthSmallest(I, k) /\ b = NthSmallest(I, l) /\ a < b
    BY <1>3, <1>9, <1>10, <1>12, <1>17
  <2>2. keys[a] < keys[b]
    BY <1>10, <2>1
  <2>3. QED BY <1>14, <2>1, <2>2
<1>18. rest = SortedKeys(kept)
  <2>1. \A h \in kept : \E k \in 1..c : rest[k] = h
    BY <1>16
  <2>2. \A k, l \in 1..c : k < l => rest[k] < rest[l]
    BY <1>17
  <2>3. c \in Nat /\ rest = [k \in 1..c |-> rest[k]] /\ \A k \in 1..c : rest[k] \in kept
    BY <1>12, <1>14, <1>15
  <2>4. kept \in SUBSET Nat
    BY <1>8
  <2>5. QED BY SMTT(30), <2>1, <2>2, <2>3, <2>4, OneSorted
<1>19. PICK r : r = ring'
  OBVIOUS
<1>20. DOMAIN r = kept /\ r = [h \in DOMAIN r |-> r[h]] /\ \A h \in kept : r[h] = ring[h]
  BY <1>4, <1>19
<1>21. \A h \in DOMAIN r : h \in VNodes[r[h]] /\ r[h] \in Alive
  BY <1>2, <1>5, <1>20, RingAt
<1>22. \A h : h \in DOMAIN r <=> \E t \in Alive : h \in VNodes[t]
  <2>1. ASSUME NEW h, NEW t \in Alive, h \in VNodes[t] PROVE h \in DOMAIN r
    <3>1. t \in X /\ t # s
      BY <1>5
    <3>2. h \in DOMAIN ring /\ ring[h] = t
      BY <1>5, <2>1, <3>1, RingAt
    <3>3. QED BY <1>2, <1>20, <3>1, <3>2
  <2>2. QED BY <1>21, <2>1
<1>23. r = RingOf(Alive)
  BY <1>6, <1>20, <1>21, <1>22, RingIs
<1>24. sortedKeys' = SortedKeys(DOMAIN ring')
  BY <1>4, <1>9, <1>13, <1>18, <1>19, <1>20
<1>25. QED BY <1>4, <1>19, <1>23, <1>24, RingChanged

\* The ring is asked: what it answers is in it.
LEMMA RingAsked ==
  ASSUME ShardInv, NEW h \in Keys32, NEW want \in {1, CopiesOf}, AskRing(h, want)
  PROVE  ShardInv'
<1>1. PICK found : found = IF DOMAIN ring = {} THEN <<>> ELSE OnTheWay(h)
  OBVIOUS
<1>2. PICK ids : ids = IF want = 1 THEN <<RingGet(ring, sortedKeys, h)>>
                       ELSE SubSeq(found, 1, IF Len(found) < want THEN Len(found) ELSE want)
  OBVIOUS
<1>3. PICK lived : lived = {s \in DOMAIN active : active[s] \/ changing = [op |-> "remove", shard |-> s]}
  OBVIOUS
<1>4. PICK spins \in BOOLEAN : spins <=> want > 1 /\ Len(found) < want /\ Len(found) < Cardinality(DOMAIN ring)
  OBVIOUS
<1>5. PICK none \in BOOLEAN : none <=> DOMAIN ring = {}
  OBVIOUS
<1>6. /\ seek' = [step |-> IF spins THEN "spinning" ELSE "asked", key |-> h, want |-> want, ids |-> ids,
                  lived |-> lived, none |-> none]
      /\ UNCHANGED <<ring, sortedKeys, active, changing>>
  <2>1. /\ seek' = [step |-> IF want > 1 /\ Len(found) < want /\ Len(found) < Cardinality(DOMAIN ring)
                             THEN "spinning" ELSE "asked",
                    key |-> h, want |-> want, ids |-> ids, lived |-> lived, none |-> DOMAIN ring = {}]
        /\ UNCHANGED <<ring, sortedKeys, active, changing>>
    BY <1>1, <1>2, <1>3 DEF AskRing
  <2>2. (IF want > 1 /\ Len(found) < want /\ Len(found) < Cardinality(DOMAIN ring) THEN "spinning" ELSE "asked")
        = (IF spins THEN "spinning" ELSE "asked")
    BY <1>4
  <2>3. (DOMAIN ring = {}) = none
    BY <1>5
  <2>4. QED BY <2>1, <2>2, <2>3
<1>7. PICK X \in SUBSET Ids : /\ ring = RingOf(X) /\ X \subseteq DOMAIN active /\ X \subseteq lived
  <2>1. PICK X \in SUBSET DOMAIN active :
          /\ ring = RingOf(X)
          /\ changing.op = "none" => X = Alive
          /\ changing.op = "add" => X = Alive \ {changing.shard}
          /\ changing.op = "remove" => X \ {changing.shard} = Alive
    BY DEF ShardInv, RingFollows
  <2>2. \A s \in X : s \in Alive \/ changing = [op |-> "remove", shard |-> s]
    BY <2>1 DEF ShardInv, ShardTyped
  <2>3. X \subseteq lived
    BY <1>3, <2>1, <2>2 DEF Alive
  <2>4. X \in SUBSET Ids
    BY <2>1, ShardsNumbered DEF ShardInv
  <2>5. QED BY <2>1, <2>3, <2>4
<1>8. DOMAIN ring \in SUBSET Keys32 /\ RingShards \subseteq X /\ sortedKeys = SortedKeys(DOMAIN ring)
  BY <1>7, RingAt DEF RingShards, ShardInv, RingFollows
<1>9. EachOnce(found, RingShards) /\ RingShards \subseteq ToSet(found)
  <2>1. CASE DOMAIN ring = {}
    BY <1>1, <2>1 DEF EachOnce, RingShards
  <2>2. CASE DOMAIN ring # {}
    BY <1>1, <1>8, <2>2, WayIs
  <2>3. QED BY <2>1, <2>2
<1>10. EachOnce(ids, RingShards) \/ (none /\ ids = <<0>>)
  <2>1. CASE want = 1 /\ DOMAIN ring = {}
    BY <1>2, <1>5, <2>1 DEF RingGet
  <2>2. CASE want = 1 /\ DOMAIN ring # {}
    <3>1. PICK s : s = RingGet(ring, sortedKeys, h)
      OBVIOUS
    <3>2. s \in RingShards
      BY <1>8, <2>2, <3>1, RoutedIs DEF RingShards
    <3>3. ids = <<s>>
      BY <1>2, <2>2, <3>1
    <3>4. QED BY <3>2, <3>3 DEF EachOnce
  <2>3. CASE want # 1
    <3>1. want \in Nat /\ want > 0
      BY ShardConstants
    <3>2. PICK k : k = IF Len(found) < want THEN Len(found) ELSE want
      OBVIOUS
    <3>3. Len(found) \in Nat /\ k \in 0..Len(found) /\ ids = SubSeq(found, 1, k)
      BY <1>2, <1>9, <2>3, <3>1, <3>2 DEF EachOnce
    <3>4. PICK n \in Nat : n = Len(found) /\ k \in 0..n
      BY <3>3
    <3>5. ids = [i \in 1..k |-> found[i]] /\ Len(ids) = k /\ DOMAIN ids = 1..k
      <4>1. found = [i \in 1..n |-> found[i]]
        BY <1>9, <3>4 DEF EachOnce
      <4>2. found \in Seq({found[i] : i \in 1..n})
        BY <3>4, <4>1
      <4>3. QED BY <3>3, <3>4, <4>2
    <3>6. \A i \in 1..k : i \in 1..n /\ ids[i] = found[i]
      BY <3>4, <3>5
    <3>7. QED BY <1>9, <3>3, <3>4, <3>5, <3>6 DEF EachOnce
  <2>4. QED BY <2>1, <2>2, <2>3
<1>11. /\ ToSet(ids) \subseteq DOMAIN active /\ Cardinality(ToSet(ids)) = Len(ids)
       /\ ToSet(ids) \subseteq lived \/ none
  <2>1. CASE EachOnce(ids, RingShards)
    BY <1>7, <1>8, <2>1, OnceCounted
  <2>2. CASE none /\ ids = <<0>>
    <3>1. Len(ids) = 1 /\ ToSet(ids) = {0}
      BY <2>2 DEF ToSet
    <3>2. QED BY <2>2, <3>1, FS_Singleton, ShardsNumbered DEF ShardInv
  <2>3. QED BY <1>10, <2>1, <2>2
<1>12. spins => Cardinality(RingShards) < CopiesOf
  <2>1. SUFFICES ASSUME spins PROVE Cardinality(RingShards) < CopiesOf
    OBVIOUS
  <2>2. Len(found) < want /\ want > 1
    BY <1>4, <2>1
  <2>3. want = CopiesOf
    BY <2>2
  <2>4. /\ ToSet(found) = RingShards /\ Cardinality(ToSet(found)) = Len(found)
    BY <1>9, OnceCounted
  <2>5. QED BY <2>2, <2>3, <2>4
<1>13. SeekKept'
  <2>1. RingShards' = RingShards
    BY <1>6 DEF RingShards
  <2>2. /\ seek'.step = (IF spins THEN "spinning" ELSE "asked") /\ seek'.ids = ids
        /\ seek'.lived = lived /\ seek'.none = none /\ seek'.key = h /\ seek'.want = want
    BY <1>6
  <2>3. seek' = [step |-> seek'.step, key |-> seek'.key, want |-> seek'.want, ids |-> seek'.ids,
                 lived |-> seek'.lived, none |-> seek'.none]
    BY <1>6, <2>2
  <2>4. QED BY <1>6, <1>11, <1>12, <2>1, <2>2, <2>3 DEF SeekKept
<1>14. ShardTyped' /\ RingFollows'
  BY <1>6 DEF ShardInv, ShardTyped, RingFollows, Alive
<1>15. QED BY <1>13, <1>14 DEF ShardInv

\* The second half of a lookup.
LEMMA LookupSteps == ASSUME ShardInv, LookUpShards \/ EndLookup \/ UNCHANGED shardVars PROVE ShardInv'
<1>1. UNCHANGED <<ring, sortedKeys, active, changing>>
  BY DEF LookUpShards, EndLookup, shardVars
<1>2. ShardTyped' /\ RingFollows'
  BY <1>1 DEF ShardInv, ShardTyped, RingFollows, Alive
<1>3. RingShards' = RingShards
  BY <1>1 DEF RingShards
<1>4. CASE LookUpShards
  <2>1. seek.step = "asked" /\ seek' = [seek EXCEPT !.step = "found"]
    BY <1>4 DEF LookUpShards
  <2>2. seek = [step |-> seek.step, key |-> seek.key, want |-> seek.want, ids |-> seek.ids,
                lived |-> seek.lived, none |-> seek.none]
    BY DEF ShardInv, SeekKept
  <2>3. seek' = [step |-> "found", key |-> seek.key, want |-> seek.want, ids |-> seek.ids,
                 lived |-> seek.lived, none |-> seek.none]
    BY <2>1, <2>2
  <2>4. SeekKept'
    BY <1>1, <2>1, <2>3 DEF ShardInv, SeekKept
  <2>5. QED BY <1>2, <2>4 DEF ShardInv
<1>5. CASE EndLookup
  <2>1. seek' = Resting
    BY <1>5 DEF EndLookup
  <2>2. SeekKept'
    BY <2>1 DEF SeekKept, Resting
  <2>3. QED BY <1>2, <2>2 DEF ShardInv
<1>6. CASE UNCHANGED shardVars
  <2>1. seek' = seek
    BY <1>6 DEF shardVars
  <2>2. SeekKept'
    BY <1>1, <1>3, <2>1 DEF ShardInv, SeekKept
  <2>3. QED BY <1>2, <2>2 DEF ShardInv
<1>7. QED BY <1>4, <1>5, <1>6

\* Every step of the cluster keeps the invariant.
LEMMA ShardStep == ShardInv /\ [ShardNext]_shardVars => ShardInv'
<1> SUFFICES ASSUME ShardInv, [ShardNext]_shardVars PROVE ShardInv'
  OBVIOUS
<1>1. CASE AddShard
  BY <1>1, ShardAdded
<1>2. CASE RouterAdd
  BY <1>2, NodesAdded
<1>3. CASE RouterRemove
  BY <1>3, NodesRemoved
<1>4. CASE LookUpShards \/ EndLookup \/ UNCHANGED shardVars
  BY <1>4, LookupSteps
<1>5. CASE \E s \in DOMAIN active : RemoveShard(s)
  BY <1>5, ShardRemoved
<1>6. CASE \E h \in Keys32, want \in {1, CopiesOf} : AskRing(h, want)
  BY <1>6, RingAsked
<1>7. QED BY <1>1, <1>2, <1>3, <1>4, <1>5, <1>6 DEF ShardNext

\* The invariant gives what the cluster promises.
LEMMA ShardInvSound == ShardInv => RoutingSound
<1> SUFFICES ASSUME ShardInv PROVE RoutingSound
  OBVIOUS
<1>1. sortedKeys = SortedKeys(DOMAIN ring) /\ DOMAIN ring \in SUBSET Keys32
  <2>1. PICK X \in SUBSET Ids : ring = RingOf(X)
    BY ShardsNumbered DEF ShardInv, RingFollows
  <2>2. DOMAIN ring \in SUBSET Keys32
    BY <2>1, RingAt
  <2>3. QED BY <2>2 DEF ShardInv, RingFollows
<1>2. RingAgrees
  BY DEF RingAgrees, ShardInv, RingFollows, Nobody
<1>3. RoutedClockwise
  BY <1>1, RoutedIs DEF RoutedClockwise
<1>4. LookupsSound
  BY DEF LookupsSound, ShardInv, SeekKept, RingShards
<1>5. QED BY <1>2, <1>3, <1>4 DEF RoutingSound


-----------------------------------------------------------------------------
(* The lock-free cache. *)

IsMap(m) == /\ DOMAIN m \subseteq LKeys /\ IsFiniteSet(DOMAIN m)
            /\ m \in [DOMAIN m -> [val : Nat, exp : Nat]]
Size(m) == Cardinality(DOMAIN m)
ShardRoom == IF ShardMax = 0 THEN 1 ELSE ShardMax

\* What the writer has made fits the counter it will leave, and is no larger than a shard.
WriterOwes ==
  /\ lsize \in Nat /\ IsMap(lmap) /\ Size(lmap) <= ShardRoom
  /\ \/ lwriter = NoWriter /\ lsize = Size(lmap)
     \/ /\ lwriter.step = "swap" /\ IsMap(lwriter.next) /\ Size(lwriter.next) <= ShardRoom
        /\ lwriter.add \in Int /\ lsize + lwriter.add = Size(lwriter.next)
     \/ lwriter.step = "count" /\ lwriter.add \in Int /\ lsize + lwriter.add = Size(lmap)
\* A reader that is about to load the map may return what it holds, and one that has
\* loaded it what it has seen.
ReaderMay ==
  /\ lreader.step = "called" => Values(lmap, lreader.key) \subseteq lreader.may
  /\ lreader.step \in {"loaded", "answered"} /\ lreader.found => lreader.val \in lreader.may
ReaderTyped ==
  lreader \in [step : {"none", "called", "loaded", "answered"}, key : LKeys \cup {CHOOSE k \in LKeys : TRUE}, found : BOOLEAN,
               val : Nat, exp : Nat, may : SUBSET Nat]
LockInv == WriterOwes /\ ReaderTyped /\ ReaderMay /\ lclock \in Nat /\ lwrites \in Nat

\* A cache starts empty.
LEMMA EmptyIsMap == IsMap(EmptyMap) /\ Size(EmptyMap) = 0
<1>1. DOMAIN EmptyMap = {}  BY DEF EmptyMap
<1> QED BY <1>1, FS_EmptySet DEF IsMap, Size, EmptyMap

\* A shard has room for an entry.
LEMMA RoomIs == ShardRoom \in Nat \ {0} /\ (ShardMax > 0 => ShardRoom = ShardMax) /\ ShardMax \in Nat
BY LockFreeAssumption DEF ShardRoom

\* A map that has a key has a size.
LEMMA MapSize == ASSUME NEW m, IsMap(m) PROVE Size(m) \in Nat /\ (DOMAIN m # {} => Size(m) > 0)
BY FS_CardinalityType, FS_EmptySet DEF IsMap, Size

\* A new cache has counted what it holds.
LEMMA LockInitInv == LockFreeInit => LockInv
<1> SUFFICES ASSUME LockFreeInit PROVE LockInv
  OBVIOUS
<1>1. WriterOwes  BY EmptyIsMap, RoomIs DEF LockFreeInit, WriterOwes
<1>2. ReaderTyped /\ ReaderMay  BY DEF LockFreeInit, ReaderTyped, ReaderMay, NoReader
<1> QED BY <1>1, <1>2 DEF LockFreeInit, LockInv

\* A map without some of its keys.
LEMMA FewerKeys ==
  ASSUME NEW m, IsMap(m), NEW K \in SUBSET DOMAIN m
  PROVE  IsMap(Without(m, K)) /\ Size(Without(m, K)) = Size(m) - Cardinality(K)
<1>1. DOMAIN Without(m, K) = DOMAIN m \ K  BY DEF Without
<1>2. PICK D : D = DOMAIN m /\ IsFiniteSet(D)  BY DEF IsMap
<1>3. IsFiniteSet(D \ K) /\ IsFiniteSet(K) /\ (D \ K) \cup K = D /\ (D \ K) \cap K = {}
  BY <1>2, FS_Subset
<1>4. Cardinality(D) = Cardinality(D \ K) + Cardinality(K) - Cardinality({})
  BY <1>3, FS_Union
<1>5. Cardinality(D) \in Nat /\ Cardinality(K) \in Nat /\ Cardinality(D \ K) \in Nat /\ Cardinality({}) = 0
  BY <1>2, <1>3, FS_CardinalityType, FS_EmptySet
<1>6. Size(Without(m, K)) = Size(m) - Cardinality(K)
  BY <1>1, <1>2, <1>4, <1>5 DEF Size
<1>7. IsMap(Without(m, K))
  BY <1>1, <1>2, <1>3 DEF IsMap, Without
<1> QED BY <1>6, <1>7

\* The writer takes the lock with a map to put in, and the counter to add.
LEMMA LockTaken ==
  ASSUME LockInv, NEW next, NEW add \in Int, LockShard(next, add), IsMap(next), Size(next) <= ShardRoom,
         lsize' \in Nat, lsize' + add = Size(next), UNCHANGED <<lmap, lreader, lclock>>
  PROVE  LockInv'
<1>1. WriterOwes'
  BY DEF LockInv, WriterOwes, LockShard
<1>2. lwrites' \in Nat  BY DEF LockInv, LockShard
<1>3. ReaderTyped' /\ ReaderMay'  BY DEF LockInv, ReaderTyped, ReaderMay
<1> QED BY <1>1, <1>2, <1>3 DEF LockInv

\* Set.
LEMMA SetStored == ASSUME LockInv, NEW k \in LKeys, Set(k) PROVE LockInv'
<1> DEFINE D == DOMAIN lmap
           full == k \notin D /\ Cardinality(D) >= ShardMax /\ D # {}
           put(ks) == [j \in ks \cup {k} |-> IF j = k THEN [val |-> lwrites + 1, exp |-> lclock + LTtl] ELSE lmap[j]]
<1>1. PICK ks \in (IF full THEN {D \ {v} : v \in D} ELSE {D}) :
        LockShard(put(ks), IF k \in D THEN 0 ELSE 1)
  BY DEF Set
<1>2. lsize' = lsize - (IF full THEN 1 ELSE 0) /\ UNCHANGED <<lmap, lreader, lclock>>
  BY DEF Set
<1>3. IsMap(lmap) /\ lsize = Size(lmap) /\ Size(lmap) \in Nat /\ Size(lmap) <= ShardRoom
      /\ (D # {} => Size(lmap) > 0) /\ IsFiniteSet(D) /\ lclock \in Nat /\ lwrites \in Nat
      /\ (D = {} => Size(lmap) = 0)
  <2>1. lwriter = NoWriter  BY <1>1 DEF LockShard
  <2>2. NoWriter.step = "none"  BY DEF NoWriter
  <2> QED BY <2>1, <2>2, MapSize, FS_EmptySet DEF LockInv, WriterOwes, IsMap, Size
<1>4. DOMAIN put(ks) = ks \cup {k} /\ ks \subseteq D  BY <1>1
<1>5. IsMap(put(ks))
  <2>1. IsFiniteSet(ks) /\ IsFiniteSet(ks \cup {k}) /\ ks \cup {k} \subseteq LKeys
    BY <1>3, <1>4, FS_Subset, FS_AddElement DEF IsMap
  <2>2. [val |-> lwrites + 1, exp |-> lclock + LTtl] \in [val : Nat, exp : Nat]
    BY <1>3, LockFreeAssumption
  <2>3. \A j \in ks : lmap[j] \in [val : Nat, exp : Nat]  BY <1>3, <1>4 DEF IsMap
  <2> QED BY <1>4, <2>1, <2>2, <2>3 DEF IsMap
<1>6. Size(put(ks)) = Cardinality(ks \cup {k})  BY <1>4 DEF Size
<1>7. CASE full
  <2>1. PICK v \in D : ks = D \ {v}  BY <1>1, <1>7
  <2>2. Cardinality(ks) = Size(lmap) - 1 /\ IsFiniteSet(ks)
    BY <1>3, <2>1, FS_RemoveElement DEF Size
  <2>3. Cardinality(ks \cup {k}) = Size(lmap)
    <3>1. Cardinality(ks \cup {k}) = IF k \in ks THEN Cardinality(ks) ELSE Cardinality(ks) + 1
      BY <2>2, FS_AddElement
    <3>2. k \notin ks  BY <1>7, <2>1
    <3> HIDE DEF D, full, put
    <3> QED BY <1>3, <2>2, <3>1, <3>2
  <2>4. LockShard(put(ks), 1) /\ lsize' = lsize - 1 /\ Size(put(ks)) = Size(lmap) /\ Size(lmap) > 0
    BY <1>1, <1>2, <1>3, <1>6, <1>7, <2>3
  <2>5. lsize' \in Nat /\ lsize' + 1 = Size(put(ks)) /\ Size(put(ks)) <= ShardRoom
    BY <1>3, <2>4
  <2> HIDE DEF put, D, full
  <2> QED BY <1>2, <1>5, <2>4, <2>5, LockTaken
<1>8. CASE ~full
  <2>1. ks = D /\ lsize' = lsize  BY <1>1, <1>2, <1>3, <1>8
  <2>2. PICK add \in {0, 1} : add = IF k \in D THEN 0 ELSE 1  OBVIOUS
  <2>3. Cardinality(ks \cup {k}) = Size(lmap) + add
    <3>1. IsFiniteSet(ks) /\ Cardinality(ks) = Size(lmap)  BY <1>3, <2>1 DEF Size
    <3>2. Cardinality(ks \cup {k}) = IF k \in ks THEN Cardinality(ks) ELSE Cardinality(ks) + 1
      BY <3>1, FS_AddElement
    <3>3. k \in ks <=> k \in D  BY <2>1
    <3> HIDE DEF D, full, put
    <3> QED BY <1>3, <2>2, <3>1, <3>2, <3>3
  <2>4. Size(lmap) + add <= ShardRoom
    <3>1. CASE k \in D  BY <1>3, <2>2, <3>1
    <3>2. CASE D = {}  BY <1>3, <2>2, <3>2, RoomIs
    <3>3. CASE k \notin D /\ ~(Cardinality(D) >= ShardMax)
      BY <1>3, <2>2, <3>3, RoomIs DEF Size
    <3> QED BY <1>8, <3>1, <3>2, <3>3
  <2>5. LockShard(put(ks), add) /\ lsize' + add = Size(put(ks)) /\ lsize' \in Nat /\ Size(put(ks)) <= ShardRoom
    BY <1>1, <1>3, <1>6, <2>1, <2>2, <2>3, <2>4
  <2>6. add \in Int  BY <2>2
  <2> HIDE DEF put, D, full
  <2> QED BY <1>2, <1>5, <2>5, <2>6, LockTaken
<1> QED BY <1>7, <1>8

\* Keys go, by Delete, by age, or all of them.
LEMMA KeysDropped ==
  ASSUME LockInv, NEW K \in SUBSET DOMAIN lmap, LockShard(Without(lmap, K), -Cardinality(K)),
         UNCHANGED <<lmap, lsize, lreader, lclock>>
  PROVE  LockInv'
<1>1. lwriter = NoWriter /\ NoWriter.step = "none"  BY DEF LockShard, NoWriter
<1>2. IsMap(lmap) /\ lsize = Size(lmap) /\ Size(lmap) \in Nat /\ Size(lmap) <= ShardRoom
  BY <1>1, MapSize DEF LockInv, WriterOwes
<1>3. PICK next : next = Without(lmap, K)  OBVIOUS
<1>4. IsMap(next) /\ Size(next) = Size(lmap) - Cardinality(K)  BY <1>2, <1>3, FewerKeys
<1>5. IsFiniteSet(K) /\ Cardinality(K) \in Nat  BY <1>2, FS_Subset, FS_CardinalityType DEF IsMap
<1>6. PICK add \in Int : add = -Cardinality(K)  BY <1>5
<1>7. LockShard(next, add)  BY <1>3, <1>6
<1>8. Size(next) <= ShardRoom /\ lsize' \in Nat /\ lsize' + add = Size(next)
  BY <1>2, <1>4, <1>5, <1>6, RoomIs
<1> QED BY <1>4, <1>7, <1>8, LockTaken

\* A writer swaps the maps, and then counts what it put in.
LEMMA WriterSteps == ASSUME LockInv, Swap \/ CountEntries PROVE LockInv'
<1>1. CASE Swap
  <2>0. lwriter.step = "swap" /\ lmap' = lwriter.next /\ lwriter' = [lwriter EXCEPT !.step = "count"]
        /\ lreader' = [lreader EXCEPT !.may =
             IF lreader.step = "called" THEN @ \cup Values(lmap', lreader.key) ELSE @]
        /\ UNCHANGED <<lsize, lclock, lwrites>>
    BY <1>1 DEF Swap
  <2>1. /\ IsMap(lwriter.next) /\ Size(lwriter.next) <= ShardRoom /\ lsize \in Nat
        /\ lwriter.add \in Int /\ lsize + lwriter.add = Size(lwriter.next)
    BY <2>0 DEF LockInv, WriterOwes, NoWriter
  <2>2. lwriter'.step = "count" /\ lwriter'.add = lwriter.add
    BY <2>0 DEF LockShard
  <2>3. WriterOwes'  BY <2>0, <2>1, <2>2 DEF WriterOwes
  <2>4. PICK may : may = IF lreader.step = "called" THEN lreader.may \cup Values(lmap', lreader.key) ELSE lreader.may
    OBVIOUS
  <2>5. lreader' = [lreader EXCEPT !.may = may]  BY <2>0, <2>4 DEF LockInv, ReaderTyped
  <2>6. may \in SUBSET Nat
    <3>1. Values(lmap', lreader.key) \subseteq Nat
      BY <2>0, <2>1 DEF Values, IsMap
    <3> QED BY <2>4, <3>1 DEF LockInv, ReaderTyped
  <2>7. ReaderTyped'  BY <2>5, <2>6 DEF LockInv, ReaderTyped
  <2>8. lreader'.step = lreader.step /\ lreader'.key = lreader.key /\ lreader'.found = lreader.found
        /\ lreader'.val = lreader.val /\ lreader'.may = may
    BY <2>5 DEF LockInv, ReaderTyped
  <2>9. ReaderMay'
    BY <2>4, <2>8 DEF LockInv, ReaderMay
  <2> QED BY <2>0, <2>3, <2>7, <2>9 DEF LockInv
<1>2. CASE CountEntries
  <2>1. /\ lwriter.step = "count" /\ lsize' = lsize + lwriter.add /\ lwriter' = NoWriter
        /\ UNCHANGED <<lmap, lreader, lclock, lwrites>>
    BY <1>2 DEF CountEntries
  <2>2. IsMap(lmap) /\ Size(lmap) <= ShardRoom /\ lsize + lwriter.add = Size(lmap)
    BY <2>1 DEF LockInv, WriterOwes, NoWriter
  <2>3. WriterOwes'  BY <2>1, <2>2, MapSize DEF WriterOwes
  <2> QED BY <2>1, <2>3 DEF LockInv, ReaderTyped, ReaderMay
<1> QED BY <1>1, <1>2

\* A reader loads the map once, and answers from it.
LEMMA ReaderSteps ==
  ASSUME LockInv, (\E k \in LKeys : CallGet(k)) \/ LoadMap \/ AnswerGet \/ EndGet
  PROVE  LockInv'
<1>0. lreader \in [step : {"none", "called", "loaded", "answered"}, key : LKeys \cup {CHOOSE k \in LKeys : TRUE},
                   found : BOOLEAN, val : Nat, exp : Nat, may : SUBSET Nat]
      /\ IsMap(lmap) /\ lclock \in Nat
  BY DEF LockInv, ReaderTyped, WriterOwes
<1>1. UNCHANGED <<lmap, lsize, lwriter, lclock, lwrites>>
  BY DEF CallGet, LoadMap, AnswerGet, EndGet
<1>2. WriterOwes' /\ lclock' \in Nat /\ lwrites' \in Nat
  BY <1>1 DEF LockInv, WriterOwes
<1>3. ReaderTyped' /\ ReaderMay'
  <2>1. ASSUME NEW k \in LKeys, CallGet(k) PROVE ReaderTyped' /\ ReaderMay'
    <3>1. PICK may : may = Values(lmap, k)  OBVIOUS
    <3>2. lreader' = [lreader EXCEPT !.step = "called", !.key = k, !.may = may]  BY <2>1, <3>1 DEF CallGet
    <3>3. may \in SUBSET Nat  BY <1>0, <3>1 DEF Values, IsMap
    <3>4. ReaderTyped'  BY <1>0, <3>2, <3>3 DEF ReaderTyped
    <3>5. lreader'.step = "called" /\ lreader'.key = k /\ lreader'.may = may  BY <1>0, <3>2
    <3>6. Values(lmap', lreader'.key) \subseteq lreader'.may  BY <1>1, <3>1, <3>5
    <3> QED BY <3>4, <3>5, <3>6 DEF ReaderMay
  <2>2. CASE LoadMap
    <3>0. PICK k : k = lreader.key  OBVIOUS
    <3>1. PICK val, exp : /\ val = IF k \in DOMAIN lmap THEN lmap[k].val ELSE 0
                          /\ exp = IF k \in DOMAIN lmap THEN lmap[k].exp ELSE 0
      OBVIOUS
    <3>2. PICK has \in BOOLEAN : has <=> k \in DOMAIN lmap
      <4>1. CASE k \in DOMAIN lmap  BY <4>1
      <4>2. CASE k \notin DOMAIN lmap  BY <4>2
      <4> QED BY <4>1, <4>2
    <3>3. lreader.step = "called"
          /\ lreader' = [lreader EXCEPT !.step = "loaded", !.found = has, !.val = val, !.exp = exp]
      BY <2>2, <3>0, <3>1, <3>2 DEF LoadMap
    <3>4. val \in Nat /\ exp \in Nat  BY <1>0, <3>1 DEF IsMap
    <3>5. ReaderTyped'  BY <1>0, <3>3, <3>4 DEF ReaderTyped
    <3>6. lreader'.step = "loaded" /\ lreader'.found = has /\ lreader'.val = val /\ lreader'.may = lreader.may
      BY <1>0, <3>3
    <3>7. has => val \in lreader.may
      <4>1. Values(lmap, k) \subseteq lreader.may  BY <3>0, <3>3 DEF LockInv, ReaderMay
      <4> QED BY <3>1, <3>2, <4>1 DEF Values
    <3> QED BY <3>5, <3>6, <3>7 DEF ReaderMay
  <2>3. CASE AnswerGet
    <3>1. PICK found \in BOOLEAN : found = (lreader.found /\ lclock <= lreader.exp)  OBVIOUS
    <3>2. lreader.step = "loaded" /\ lreader' = [lreader EXCEPT !.step = "answered", !.found = found]
      BY <1>0, <2>3, <3>1 DEF AnswerGet
    <3>3. ReaderTyped'  BY <1>0, <3>2 DEF ReaderTyped
    <3>4. lreader'.step = "answered" /\ lreader'.found = found /\ lreader'.val = lreader.val /\ lreader'.may = lreader.may
      BY <1>0, <3>2
    <3> QED BY <3>1, <3>2, <3>3, <3>4 DEF LockInv, ReaderMay
  <2>4. CASE EndGet
    BY <2>4 DEF EndGet, ReaderTyped, ReaderMay, NoReader
  <2> QED BY <2>1, <2>2, <2>3, <2>4
<1> QED BY <1>2, <1>3 DEF LockInv

\* Every step of the cache keeps the invariant.
LEMMA LockStep == LockInv /\ [LockFreeNext]_lockFreeVars => LockInv'
<1> SUFFICES ASSUME LockInv, [LockFreeNext]_lockFreeVars PROVE LockInv'
  OBVIOUS
<1>1. ASSUME NEW k \in LKeys, Set(k) PROVE LockInv'
  BY <1>1, SetStored
<1>2. ASSUME NEW k \in LKeys, DeleteCached(k) PROVE LockInv'
  <2>1. Cardinality({k}) = 1  BY FS_Singleton
  <2>2. PICK K : K = {k}  OBVIOUS
  <2>3. K \in SUBSET DOMAIN lmap /\ LockShard(Without(lmap, K), -Cardinality(K)) /\ UNCHANGED <<lmap, lsize, lreader, lclock>>
    BY <1>2, <2>1, <2>2 DEF DeleteCached
  <2> QED BY <2>3, KeysDropped
<1>3. CASE EvictExpired
  <2>1. PICK K : K = {k \in DOMAIN lmap : lclock > lmap[k].exp}  OBVIOUS
  <2>2. K \in SUBSET DOMAIN lmap /\ LockShard(Without(lmap, K), -Cardinality(K)) /\ UNCHANGED <<lmap, lsize, lreader, lclock>>
    BY <1>3, <2>1 DEF EvictExpired
  <2> QED BY <2>2, KeysDropped
<1>4. CASE ClearCached
  <2>1. lwriter = NoWriter /\ NoWriter.step = "none"  BY <1>4 DEF ClearCached, LockShard, NoWriter
  <2>2. lsize \in Nat  BY DEF LockInv, WriterOwes
  <2>a. PICK add \in Int : add = -lsize  BY <2>2
  <2>b. PICK next : next = EmptyMap  OBVIOUS
  <2>3. next = EmptyMap /\ add = -lsize  BY <2>a, <2>b
  <2>4. LockShard(next, add) /\ UNCHANGED <<lmap, lsize, lreader, lclock>>  BY <1>4, <2>3 DEF ClearCached
  <2>5. IsMap(next) /\ Size(next) = 0  BY <2>3, EmptyIsMap
  <2>6. Size(next) <= ShardRoom /\ lsize' \in Nat /\ lsize' + add = Size(next)
    BY <2>2, <2>3, <2>4, <2>5, RoomIs
  <2> QED BY <2>4, <2>5, <2>6, LockTaken
<1>5. CASE Swap \/ CountEntries
  BY <1>5, WriterSteps
<1>6. CASE (\E k \in LKeys : CallGet(k)) \/ LoadMap \/ AnswerGet \/ EndGet
  BY <1>6, ReaderSteps
<1>7. CASE PassTime
  <2>1. UNCHANGED <<lmap, lsize, lwriter, lreader, lwrites>> /\ lclock' = lclock + 1  BY <1>7 DEF PassTime
  <2> QED BY <2>1 DEF LockInv, WriterOwes, ReaderTyped, ReaderMay
<1>8. CASE UNCHANGED lockFreeVars
  BY <1>8 DEF lockFreeVars, LockInv, WriterOwes, ReaderTyped, ReaderMay
<1> QED BY <1>1, <1>2, <1>3, <1>4, <1>5, <1>6, <1>7, <1>8 DEF LockFreeNext

\* The invariant gives what the cache promises.
LEMMA LockInvSound == LockInv => LockFreeSound
<1> SUFFICES ASSUME LockInv PROVE LockFreeSound
  OBVIOUS
<1>1. EntriesCounted
  BY DEF LockInv, WriterOwes, EntriesCounted, NoWriter, Size
<1>2. ShardBounded  BY DEF LockInv, WriterOwes, ShardBounded, ShardRoom, Size
<1>3. ReadsCurrent  BY DEF LockInv, ReaderMay, ReadsCurrent
<1> QED BY <1>1, <1>2, <1>3 DEF LockFreeSound

-----------------------------------------------------------------------------
(* The asynchronous operations. *)

\* What the variables of the operations are.
Op == [step : {"none", "listed", "running", "performed", "counted", "closed"},
       by : {"wait", "callback", "batch"}, done : BOOLEAN]
WaitRec == [step : {"none", "blocked", "not found", "returned"}, id : Nat, got : BOOLEAN]
DrainRec == [step : {"none", "polling", "returned"}, owed : SUBSET OpIds]
ReadsRec == [step : {"none", "submitting", "waiting", "called"}, left : Nat, wg : Int, ids : SUBSET OpIds]
AsyncTyped ==
  /\ ops \in [OpIds -> Op] /\ operations \in SUBSET OpIds /\ pending \in Int
  /\ waits \in [Waiters -> WaitRec]
  /\ drain \in DrainRec
  /\ reads \in ReadsRec

OpsListed == {i \in OpIds : ops[i].step # "none"}
Running == {i \in OpIds : ops[i].step \in {"running", "performed"}}
Unread == {i \in reads.ids : ~ops[i].done}

\* The ids given are the first ones; an operation is done from its read or write on.
IdsInTurn == \E n \in Nat : OpsListed = 1..n
DoneIsPerformed == \A i \in OpIds : ops[i].done <=> ops[i].step \in {"performed", "counted", "closed"}
\* Nobody waits for an operation that has not begun, and one without a callback is taken out by a Wait.
WaitsStarted == \A w \in Waiters : waits[w].step # "none" => waits[w].id \in Started
WaitsGot == \A w \in Waiters : waits[w].step = "returned" => waits[w].got
TakenByWait ==
  \A i \in OpsListed \ operations :
    ops[i].by = "wait" => \E v \in Waiters : waits[v].id = i /\ waits[v].step = "returned"
MissedGone == \A w \in Waiters : waits[w].step = "not found" => waits[w].id \notin operations
WaitsKnown == WaitsStarted /\ WaitsGot /\ TakenByWait /\ MissedGone
\* The counters are those of the operations they are about.
AsyncCounted ==
  /\ pending = Cardinality(Running)
  /\ reads.wg = Cardinality(Unread)
  /\ reads.ids \subseteq OpsListed
  /\ \A i \in OpsListed : ops[i].by = "batch" <=> i \in reads.ids
AsyncOwed ==
  /\ drain.owed \subseteq Started
  /\ drain.step = "returned" => \A i \in drain.owed : ops[i].done
  /\ reads.step = "called" => \A i \in reads.ids : ops[i].done
AsyncInv == AsyncTyped /\ IdsInTurn /\ DoneIsPerformed /\ WaitsKnown /\ AsyncCounted /\ AsyncOwed

\* The counters' sets are finite.
LEMMA AsyncFinite ==
  ASSUME NEW S \in SUBSET OpIds PROVE IsFiniteSet(S) /\ Cardinality(S) \in Nat
<1>1. IsFiniteSet(OpIds)  BY FS_Interval, AsyncAssumption DEF OpIds
<1> QED BY <1>1, FS_Subset, FS_CardinalityType

\* The id that is given next is that of no operation yet.
LEMMA NextIdIsNew ==
  ASSUME AsyncInv, NextId \in OpIds
  PROVE  ops[NextId].step = "none" /\ OpsListed \cup {NextId} = 1..NextId /\ NextId \in Nat
<1>1. PICK n \in Nat : OpsListed = 1..n  BY DEF AsyncInv, IdsInTurn
<1>2. Cardinality(OpsListed) = n  BY <1>1, FS_Interval
<1>3. NextId = n + 1  BY <1>2 DEF NextId, OpsListed
<1>4. NextId \notin OpsListed  BY <1>1, <1>3
<1> QED BY <1>1, <1>3, <1>4 DEF OpsListed

\* No operation is given at the start.
LEMMA AsyncInitInv == AsyncInit => AsyncInv
<1> SUFFICES ASSUME AsyncInit PROVE AsyncInv
  OBVIOUS
<1>1. OpsListed = {} /\ Running = {} /\ Unread = {} /\ Started = {}
  BY DEF AsyncInit, OpsListed, Running, Unread, Started, NoOp
<1>2. AsyncTyped
  BY AsyncAssumption DEF AsyncInit, AsyncTyped, Op, NoOp, WaitRec, DrainRec, ReadsRec
<1>3. 1..0 = {} /\ 0 \in Nat  OBVIOUS
<1>4. IdsInTurn  BY <1>1, <1>3 DEF IdsInTurn
<1>5. DoneIsPerformed  BY DEF AsyncInit, DoneIsPerformed, NoOp
<1>6. WaitsKnown  BY <1>1 DEF AsyncInit, WaitsKnown, WaitsStarted, WaitsGot, TakenByWait, MissedGone
<1>7. AsyncCounted  BY <1>1, FS_EmptySet DEF AsyncInit, AsyncCounted
<1>8. AsyncOwed  BY <1>1 DEF AsyncInit, AsyncOwed
<1> QED BY <1>2, <1>4, <1>5, <1>6, <1>7, <1>8 DEF AsyncInv

\* An operation is listed under a new id.
LEMMA OpListed ==
  ASSUME AsyncInv, NEW by \in {"wait", "callback", "batch"}, ListOp(by),
         UNCHANGED <<pending, waits, drain>>,
         by # "batch" => reads' = reads,
         by = "batch" =>
           /\ reads.step \in {"none", "submitting"} /\ reads.left > 0
           /\ reads' = [step |-> "submitting", left |-> reads.left - 1, wg |-> reads.wg + 1,
                        ids |-> reads.ids \union {NextId}]
  PROVE  AsyncInv'
<1>1. PICK n : n = NextId  OBVIOUS
<1>2. n \in OpIds /\ ops[n].step = "none" /\ OpsListed \cup {n} = 1..n /\ n \in Nat
  BY <1>1, NextIdIsNew DEF ListOp
<1>3. /\ ops' = [ops EXCEPT ![n] = [step |-> "listed", by |-> by, done |-> FALSE]]
      /\ operations' = operations \cup {n}
  BY <1>1 DEF ListOp
<1>4. \A i \in OpIds \ {n} : ops'[i] = ops[i]
  BY <1>3 DEF AsyncInv, AsyncTyped
<1>5. ops'[n] = [step |-> "listed", by |-> by, done |-> FALSE]
  BY <1>2, <1>3 DEF AsyncInv, AsyncTyped
<1>6. OpsListed' = OpsListed \cup {n} /\ Running' = Running /\ Started' = Started
      /\ n \notin OpsListed /\ n \notin Started
  <2>0. /\ ops'[n].step = "listed" /\ ops[n].step = "none" /\ n \in OpIds
        /\ \A i \in OpIds : i # n => ops'[i].step = ops[i].step
    <3>1. ops'[n].step = "listed"  BY <1>5
    <3>2. \A i \in OpIds : i # n => ops'[i].step = ops[i].step  BY <1>4
    <3> QED BY <1>2, <3>1, <3>2
  <2>1. OpsListed' = OpsListed \cup {n} /\ n \notin OpsListed
    <3>1. \A i \in OpIds : ops'[i].step # "none" <=> (ops[i].step # "none" \/ i = n)  BY <2>0
    <3> QED BY <2>0, <3>1 DEF OpsListed
  <2>2. Running' = Running
    <3>1. \A i \in OpIds : ops'[i].step \in {"running", "performed"} <=> ops[i].step \in {"running", "performed"}
      BY <2>0
    <3> QED BY <3>1 DEF Running
  <2>3. Started' = Started /\ n \notin Started
    <3>1. \A i \in OpIds : ops'[i].step \in {"none", "listed"} <=> ops[i].step \in {"none", "listed"}  BY <2>0
    <3> QED BY <2>0, <3>1 DEF Started
  <2> QED BY <2>1, <2>2, <2>3
<1>7. AsyncTyped'
  <2>1. ops' \in [OpIds -> Op] /\ operations' \in SUBSET OpIds
    BY <1>2, <1>3 DEF AsyncInv, AsyncTyped, Op
  <2>2. reads' \in ReadsRec
    <3>1. CASE by # "batch"  BY <3>1 DEF AsyncInv, AsyncTyped
    <3>2. CASE by = "batch"
      <4>1. reads' = [step |-> "submitting", left |-> reads.left - 1, wg |-> reads.wg + 1,
                      ids |-> reads.ids \cup {n}]
        BY <1>1, <3>2
      <4>2. reads.left - 1 \in Nat /\ reads.wg + 1 \in Int /\ reads.ids \cup {n} \in SUBSET OpIds
        BY <1>2, <3>2 DEF AsyncInv, AsyncTyped, ReadsRec
      <4> QED BY <4>1, <4>2 DEF ReadsRec
    <3> QED BY <3>1, <3>2
  <2> QED BY <2>1, <2>2 DEF AsyncInv, AsyncTyped
<1>8. IdsInTurn'
  BY <1>2, <1>6 DEF IdsInTurn
<1>9. DoneIsPerformed'
  <2>1. \A i \in OpIds \ {n} : ops'[i].done <=> ops'[i].step \in {"performed", "counted", "closed"}
    BY <1>4 DEF AsyncInv, DoneIsPerformed
  <2> QED BY <1>5, <2>1 DEF DoneIsPerformed
<1>10. WaitsKnown'
  <2>1. \A i \in OpsListed' \ operations' : i \in OpsListed \ operations /\ ops'[i] = ops[i]
    BY <1>3, <1>4, <1>6 DEF OpsListed
  <2>2. WaitsStarted' /\ WaitsGot'  BY <1>6 DEF AsyncInv, WaitsKnown, WaitsStarted, WaitsGot
  <2>3. MissedGone'
    BY <1>3, <1>6 DEF AsyncInv, WaitsKnown, WaitsStarted, MissedGone
  <2>4. TakenByWait'  BY <2>1 DEF AsyncInv, WaitsKnown, TakenByWait
  <2> QED BY <2>2, <2>3, <2>4 DEF WaitsKnown
<1>11. AsyncCounted' /\ AsyncOwed'
  <2>1. n \notin reads.ids /\ reads.ids \subseteq OpIds
    BY <1>6 DEF AsyncInv, AsyncCounted, AsyncTyped, ReadsRec
  <2>2. \A i \in reads.ids : ops'[i] = ops[i]
    BY <1>4, <2>1
  <2>3. drain.owed \subseteq OpIds \ {n}
    BY <1>6 DEF AsyncInv, AsyncOwed, AsyncTyped, DrainRec
  <2>4. \A i \in drain.owed : ops'[i] = ops[i]
    BY <1>4, <2>3
  <2>5. CASE by # "batch"
    <3>1. Unread' = Unread  BY <2>2, <2>5 DEF Unread
    <3>2. AsyncCounted'
      BY <1>4, <1>5, <1>6, <2>1, <2>5, <3>1 DEF AsyncInv, AsyncCounted, OpsListed
    <3>3. AsyncOwed'
      BY <1>6, <2>2, <2>4, <2>5 DEF AsyncInv, AsyncOwed
    <3> QED BY <3>2, <3>3
  <2>6. CASE by = "batch"
    <3>1. reads'.ids = reads.ids \cup {n} /\ reads'.wg = reads.wg + 1 /\ reads'.step = "submitting"
      BY <1>1, <2>6
    <3>2. Unread' = Unread \cup {n} /\ n \notin Unread
      BY <1>5, <2>1, <2>2, <3>1 DEF Unread
    <3>3. IsFiniteSet(Unread)  BY <2>1, AsyncFinite DEF Unread
    <3>4. Cardinality(Unread') = Cardinality(Unread) + 1
      BY <3>2, <3>3, FS_AddElement
    <3>5. AsyncCounted'
      BY <1>4, <1>5, <1>6, <2>1, <2>6, <3>1, <3>4 DEF AsyncInv, AsyncCounted, OpsListed
    <3>6. AsyncOwed'
      BY <1>6, <2>4, <3>1 DEF AsyncInv, AsyncOwed
    <3> QED BY <3>5, <3>6
  <2> QED BY <2>5, <2>6
<1> QED BY <1>7, <1>8, <1>9, <1>10, <1>11 DEF AsyncInv

\* An operation goes a step further.
LEMMA OpSteps ==
  ASSUME AsyncInv, NEW i \in OpIds, StartOp(i) \/ Perform(i) \/ CountDown(i) \/ CloseOp(i)
  PROVE  AsyncInv'
<1> DEFINE new == ops'[i]
<1>0. AsyncTyped  BY DEF AsyncInv
<1>1. /\ \A k \in OpIds \ {i} : ops'[k] = ops[k]
      /\ ops' \in [OpIds -> Op] /\ new \in Op /\ new.by = ops[i].by
      /\ \/ ops[i].step = "listed" /\ new.step = "running" /\ new.done = ops[i].done /\ pending' = pending + 1
         \/ ops[i].step = "running" /\ new.step = "performed" /\ new.done = TRUE /\ pending' = pending
         \/ ops[i].step = "performed" /\ new.step = "counted" /\ new.done = ops[i].done /\ pending' = pending - 1
         \/ ops[i].step = "counted" /\ new.step = "closed" /\ new.done = ops[i].done /\ pending' = pending
      /\ UNCHANGED <<operations, waits, drain>>
  <2>1. ops[i] \in Op /\ ops \in [OpIds -> Op]  BY <1>0 DEF AsyncTyped
  <2>2. CASE StartOp(i)
    <3>1. PICK o : o = [ops[i] EXCEPT !.step = "running"]  OBVIOUS
    <3>2. o \in Op /\ o.by = ops[i].by /\ o.done = ops[i].done /\ o.step = "running"  BY <2>1, <3>1 DEF Op
    <3>3. ops' = [ops EXCEPT ![i] = o]  BY <2>1, <2>2, <3>1 DEF StartOp
    <3> QED BY <2>1, <2>2, <3>2, <3>3 DEF StartOp
  <2>3. CASE Perform(i)
    <3>1. PICK o : o = [ops[i] EXCEPT !.step = "performed", !.done = TRUE]  OBVIOUS
    <3>2. o \in Op /\ o.by = ops[i].by /\ o.done = TRUE /\ o.step = "performed"  BY <2>1, <3>1 DEF Op
    <3>3. ops' = [ops EXCEPT ![i] = o]  BY <2>1, <2>3, <3>1 DEF Perform
    <3> QED BY <2>1, <2>3, <3>2, <3>3 DEF Perform
  <2>4. CASE CountDown(i)
    <3>1. PICK o : o = [ops[i] EXCEPT !.step = "counted"]  OBVIOUS
    <3>2. o \in Op /\ o.by = ops[i].by /\ o.done = ops[i].done /\ o.step = "counted"  BY <2>1, <3>1 DEF Op
    <3>3. ops' = [ops EXCEPT ![i] = o]  BY <2>1, <2>4, <3>1 DEF CountDown
    <3> QED BY <2>1, <2>4, <3>2, <3>3 DEF CountDown
  <2>5. CASE CloseOp(i)
    <3>1. PICK o : o = [ops[i] EXCEPT !.step = "closed"]  OBVIOUS
    <3>2. o \in Op /\ o.by = ops[i].by /\ o.done = ops[i].done /\ o.step = "closed"  BY <2>1, <3>1 DEF Op
    <3>3. ops' = [ops EXCEPT ![i] = o]  BY <2>1, <2>5, <3>1 DEF CloseOp
    <3> QED BY <2>1, <2>5, <3>2, <3>3 DEF CloseOp
  <2> QED BY <2>2, <2>3, <2>4, <2>5
<1>2. /\ reads'.step = reads.step /\ reads'.ids = reads.ids /\ reads'.left = reads.left
      /\ reads'.wg = IF ops[i].step = "running" /\ ops[i].by = "batch" THEN reads.wg - 1 ELSE reads.wg
      /\ reads' \in ReadsRec
  <2>1. CASE Perform(i)
    <3>1. PICK n \in Int : n = IF ops[i].by = "batch" THEN reads.wg - 1 ELSE reads.wg
      BY <1>0 DEF AsyncTyped, ReadsRec
    <3>2. reads' = [reads EXCEPT !.wg = n] /\ ops[i].step = "running"
      BY <1>0, <2>1, <3>1 DEF AsyncTyped, ReadsRec, Perform
    <3> QED BY <1>0, <3>1, <3>2 DEF AsyncTyped, ReadsRec
  <2>2. CASE ~Perform(i)
    <3>1. reads' = reads /\ ops[i].step # "running"  BY <2>2 DEF StartOp, CountDown, CloseOp
    <3> QED BY <1>0, <3>1 DEF AsyncTyped, ReadsRec
  <2> QED BY <2>1, <2>2
<1>3. OpsListed' = OpsListed /\ Started \subseteq Started'
  BY <1>1 DEF OpsListed, Started
<1>4. AsyncTyped'
  BY <1>0, <1>1, <1>2 DEF AsyncTyped
<1>5. IdsInTurn'
  BY <1>3 DEF AsyncInv, IdsInTurn
<1>6. DoneIsPerformed' /\ \A k \in OpIds : ops[k].done => ops'[k].done
  <2>1. \A k \in OpIds \ {i} : ops'[k].done <=> ops'[k].step \in {"performed", "counted", "closed"}
    BY <1>1 DEF AsyncInv, DoneIsPerformed
  <2>2. (new.done <=> new.step \in {"performed", "counted", "closed"}) /\ (ops[i].done => new.done)
    BY <1>1 DEF AsyncInv, DoneIsPerformed
  <2> QED BY <1>1, <2>1, <2>2 DEF DoneIsPerformed
<1>7. WaitsKnown'
  <2>1. \A k \in OpsListed : ops'[k].by = ops[k].by  BY <1>1 DEF OpsListed
  <2>2. UNCHANGED <<waits, operations>>  BY <1>1
  <2>3. WaitsStarted' /\ WaitsGot' /\ MissedGone'
    BY <1>3, <2>2 DEF AsyncInv, WaitsKnown, WaitsStarted, WaitsGot, MissedGone
  <2>4. TakenByWait'  BY <1>3, <2>1, <2>2 DEF AsyncInv, WaitsKnown, TakenByWait
  <2> QED BY <2>3, <2>4 DEF WaitsKnown
<1>8. AsyncCounted'
  <2>1. pending' = Cardinality(Running')
    <3>0. IsFiniteSet(Running) /\ Cardinality(Running) = pending
      BY AsyncFinite DEF Running, AsyncInv, AsyncCounted
    <3>1. CASE ops[i].step = "listed"
      <4>1. Running' = Running \cup {i} /\ i \notin Running  BY <1>1, <3>1 DEF Running
      <4> QED BY <1>1, <3>0, <3>1, <4>1, FS_AddElement
    <3>2. CASE ops[i].step = "performed"
      <4>1. Running' = Running \ {i} /\ i \in Running  BY <1>1, <3>2 DEF Running
      <4> QED BY <1>1, <3>0, <3>2, <4>1, FS_RemoveElement
    <3>3. CASE ops[i].step \in {"running", "counted"}
      <4>1. Running' = Running  BY <1>1, <3>3 DEF Running
      <4> QED BY <1>1, <3>0, <3>3, <4>1
    <3> QED BY <1>1, <3>1, <3>2, <3>3
  <2>2. reads'.wg = Cardinality(Unread')
    <3>a. reads.ids \subseteq OpIds  BY <1>0 DEF AsyncTyped, ReadsRec
    <3>0. IsFiniteSet(Unread) /\ Cardinality(Unread) = reads.wg /\ reads.ids \subseteq OpIds
      BY <3>a, AsyncFinite DEF Unread, AsyncInv, AsyncCounted
    <3>1. CASE ops[i].step = "running" /\ ops[i].by = "batch"
      <4>1. i \in reads.ids  BY <3>1 DEF AsyncInv, AsyncCounted, OpsListed
      <4>2. ~ops[i].done /\ new.done  BY <1>1, <3>1 DEF AsyncInv, DoneIsPerformed
      <4>3. Unread' = Unread \ {i} /\ i \in Unread  BY <1>1, <1>2, <3>0, <4>1, <4>2 DEF Unread
      <4> QED BY <1>2, <3>0, <3>1, <4>3, FS_RemoveElement
    <3>2. CASE ~(ops[i].step = "running" /\ ops[i].by = "batch")
      <4>1. i \in reads.ids => new.done = ops[i].done
        BY <1>1, <3>2 DEF AsyncInv, AsyncCounted, OpsListed
      <4>2. Unread' = Unread  BY <1>1, <1>2, <3>0, <4>1 DEF Unread
      <4> QED BY <1>2, <3>0, <3>2, <4>2
    <3> QED BY <3>1, <3>2
  <2>3. \A k \in OpsListed : ops'[k].by = ops[k].by  BY <1>1 DEF OpsListed
  <2> QED BY <1>2, <1>3, <2>1, <2>2, <2>3 DEF AsyncInv, AsyncCounted
<1>9. AsyncOwed'
  <2>1. drain.owed \subseteq OpIds /\ reads.ids \subseteq OpIds  BY <1>0 DEF AsyncTyped, DrainRec, ReadsRec
  <2> QED BY <1>1, <1>2, <1>3, <1>6, <2>1 DEF AsyncInv, AsyncOwed
<1> QED BY <1>4, <1>5, <1>6, <1>7, <1>8, <1>9 DEF AsyncInv

\* What is taken out of the map has a callback, or its Wait returns with it.
LEMMA OpTakenOut ==
  ASSUME AsyncInv, UNCHANGED <<ops, pending, drain, reads>>, NEW i \in OpIds, operations' = operations \ {i},
         \/ waits' = waits /\ ops[i].by # "wait"
         \/ \E w \in Waiters :
              /\ waits[w].step = "blocked" /\ waits[w].id = i /\ ops[i].step = "closed"
              /\ waits' = [waits EXCEPT ![w].step = "returned", ![w].got = ops[i].done]
  PROVE  AsyncInv'
<1>0. AsyncTyped  BY DEF AsyncInv
<1>1. /\ OpsListed' = OpsListed /\ Running' = Running /\ Unread' = Unread /\ Started' = Started
      /\ IdsInTurn' /\ DoneIsPerformed' /\ AsyncCounted' /\ AsyncOwed'
  <2>1. OpsListed' = OpsListed /\ Running' = Running /\ Unread' = Unread /\ Started' = Started
    BY DEF OpsListed, Running, Unread, Started
  <2> QED BY <2>1 DEF AsyncInv, IdsInTurn, DoneIsPerformed, AsyncCounted, AsyncOwed
<1>2. CASE waits' = waits /\ ops[i].by # "wait"
  <2>1. AsyncTyped'  BY <1>0, <1>2 DEF AsyncTyped
  <2>2. WaitsKnown'
    BY ZenonT(60), <1>1, <1>2 DEF AsyncInv, WaitsKnown, WaitsStarted, WaitsGot, TakenByWait, MissedGone
  <2> QED BY <1>1, <2>1, <2>2 DEF AsyncInv
<1>3. CASE \E w \in Waiters :
              /\ waits[w].step = "blocked" /\ waits[w].id = i /\ ops[i].step = "closed"
              /\ waits' = [waits EXCEPT ![w].step = "returned", ![w].got = ops[i].done]
  <2>1. PICK w \in Waiters :
              /\ waits[w].step = "blocked" /\ waits[w].id = i /\ ops[i].step = "closed"
              /\ waits' = [waits EXCEPT ![w].step = "returned", ![w].got = ops[i].done]
    BY <1>3
  <2>2. /\ \A v \in Waiters \ {w} : waits'[v] = waits[v]
        /\ waits'[w].step = "returned" /\ waits'[w].id = i /\ waits'[w].got = ops[i].done
        /\ waits' \in [Waiters -> WaitRec]
    <3>1. PICK r : r = [waits[w] EXCEPT !.step = "returned", !.got = ops[i].done]  OBVIOUS
    <3>2. waits[w] \in WaitRec /\ ops[i].done \in BOOLEAN  BY <1>0 DEF AsyncTyped, Op
    <3>3. r \in WaitRec /\ r.step = "returned" /\ r.id = i /\ r.got = ops[i].done
      BY <2>1, <3>1, <3>2 DEF WaitRec
    <3>4. waits' = [waits EXCEPT ![w] = r]  BY <1>0, <2>1, <3>1 DEF AsyncTyped
    <3> QED BY <1>0, <3>3, <3>4 DEF AsyncTyped
  <2>3. ops[i].done  BY <2>1 DEF AsyncInv, DoneIsPerformed
  <2>4. AsyncTyped'  BY <1>0, <2>2 DEF AsyncTyped
  <2>5. WaitsKnown'
    <3>1. i \in Started  BY <2>1 DEF Started
    <3>2. \A k \in OpsListed \ operations' :
            ops[k].by = "wait" => \E v \in Waiters : waits'[v].id = k /\ waits'[v].step = "returned"
      <4> TAKE k \in OpsListed \ operations'
      <4>1. CASE k = i  BY <2>2, <4>1
      <4>2. CASE k # i
        <5>1. k \in OpsListed \ operations  BY <4>2
        <5>2. \A v \in Waiters : waits[v].step = "returned" => waits'[v] = waits[v]  BY <2>1, <2>2
        <5> QED BY <5>1, <5>2 DEF AsyncInv, WaitsKnown, TakenByWait
      <4> QED BY <4>1, <4>2
    <3>3. \A v \in Waiters : waits'[v].step = "not found" => waits'[v].id \notin operations'
      BY <2>2 DEF AsyncInv, WaitsKnown, MissedGone
    <3>4. \A v \in Waiters : waits'[v].step # "none" => waits'[v].id \in Started
      BY <2>2, <3>1 DEF AsyncInv, WaitsKnown, WaitsStarted
    <3>5. \A v \in Waiters : waits'[v].step = "returned" => waits'[v].got
      BY ZenonT(60), <2>2, <2>3 DEF AsyncInv, WaitsKnown, WaitsGot
    <3> QED BY <1>1, <3>2, <3>3, <3>4, <3>5 DEF WaitsKnown, WaitsStarted, WaitsGot, TakenByWait, MissedGone
  <2> QED BY <1>1, <2>4, <2>5 DEF AsyncInv
<1> QED BY <1>2, <1>3

\* A Wait is called.
LEMMA WaitCalled ==
  ASSUME AsyncInv, NEW w \in Waiters, NEW i \in OpIds, CallWait(w, i)
  PROVE  AsyncInv'
<1>0. AsyncTyped  BY DEF AsyncInv
<1>1. /\ OpsListed' = OpsListed /\ Running' = Running /\ Unread' = Unread /\ Started' = Started
      /\ IdsInTurn' /\ DoneIsPerformed' /\ AsyncCounted' /\ AsyncOwed'
  <2>1. OpsListed' = OpsListed /\ Running' = Running /\ Unread' = Unread /\ Started' = Started
    BY DEF OpsListed, Running, Unread, Started, CallWait
  <2> QED BY <2>1 DEF AsyncInv, IdsInTurn, DoneIsPerformed, AsyncCounted, AsyncOwed, CallWait
<1>2. /\ \A v \in Waiters \ {w} : waits'[v] = waits[v]
      /\ waits'[w].id = i /\ waits'[w].step \in {"blocked", "not found"}
      /\ waits'[w].step = "not found" => i \notin operations
      /\ waits' \in [Waiters -> WaitRec]
      /\ waits[w].step = "none" /\ i \in Started /\ operations' = operations /\ ops' = ops
  <2>1. PICK r : r = [waits[w] EXCEPT !.id = i, !.step = IF i \in operations THEN "blocked" ELSE "not found"]
    OBVIOUS
  <2>2. waits[w] \in WaitRec /\ i \in Nat  BY <1>0 DEF AsyncTyped, OpIds
  <2>3. r \in WaitRec /\ r.id = i /\ r.step = IF i \in operations THEN "blocked" ELSE "not found"
    BY <2>1, <2>2 DEF WaitRec
  <2>4. waits' = [waits EXCEPT ![w] = r]  BY <1>0, <2>1 DEF AsyncTyped, CallWait
  <2> QED BY ZenonT(60), <1>0, <2>3, <2>4 DEF AsyncTyped, CallWait
<1>3. AsyncTyped'  BY <1>0, <1>2 DEF AsyncTyped, CallWait
<1>4. WaitsKnown'
  <2>1. \A v \in Waiters : waits[v].step = "returned" => waits'[v] = waits[v]  BY <1>2
  <2>2. \A k \in OpsListed \ operations :
            ops[k].by = "wait" => \E v \in Waiters : waits'[v].id = k /\ waits'[v].step = "returned"
    BY <2>1 DEF AsyncInv, WaitsKnown, TakenByWait
  <2>3. \A v \in Waiters : waits'[v].step # "none" => waits'[v].id \in Started
    BY <1>2 DEF AsyncInv, WaitsKnown, WaitsStarted
  <2>4. \A v \in Waiters : waits'[v].step = "returned" => waits'[v].got
    BY <1>2 DEF AsyncInv, WaitsKnown, WaitsGot
  <2>5. \A v \in Waiters : waits'[v].step = "not found" => waits'[v].id \notin operations
    BY <1>2 DEF AsyncInv, WaitsKnown, MissedGone
  <2> QED BY <1>1, <1>2, <2>2, <2>3, <2>4, <2>5 DEF WaitsKnown, WaitsStarted, WaitsGot, TakenByWait, MissedGone
<1> QED BY <1>1, <1>3, <1>4 DEF AsyncInv

\* WaitAll and the goroutine of a batch.
LEMMA AsyncOthers ==
  ASSUME AsyncInv, CallWaitAll \/ WaitAllReturns \/ BatchWait \/ BatchCallback
  PROVE  AsyncInv'
<1>0. AsyncTyped  BY DEF AsyncInv
<1>1. /\ UNCHANGED <<ops, operations, pending, waits>>
      /\ drain' \in DrainRec
      /\ reads' \in ReadsRec
      /\ reads'.ids = reads.ids /\ reads'.wg = reads.wg
  <2>0. drain \in DrainRec /\ reads \in ReadsRec /\ Started \in SUBSET OpIds
    BY <1>0 DEF AsyncTyped, Started
  <2>1. CASE CallWaitAll
    <3>1. drain' \in DrainRec /\ UNCHANGED <<ops, operations, pending, waits, reads>>
      BY <2>0, <2>1 DEF CallWaitAll, DrainRec
    <3> QED BY <2>0, <3>1
  <2>2. CASE WaitAllReturns
    <3>1. drain' \in DrainRec /\ UNCHANGED <<ops, operations, pending, waits, reads>>
      BY <2>0, <2>2 DEF WaitAllReturns, DrainRec
    <3> QED BY <2>0, <3>1
  <2>3. CASE BatchWait
    <3>1. /\ reads' \in ReadsRec /\ UNCHANGED <<ops, operations, pending, waits, drain>>
          /\ reads'.ids = reads.ids /\ reads'.wg = reads.wg
      BY <2>0, <2>3 DEF BatchWait, ReadsRec
    <3> QED BY <2>0, <3>1
  <2>4. CASE BatchCallback
    <3>1. /\ reads' \in ReadsRec /\ UNCHANGED <<ops, operations, pending, waits, drain>>
          /\ reads'.ids = reads.ids /\ reads'.wg = reads.wg
      BY <2>0, <2>4 DEF BatchCallback, ReadsRec
    <3> QED BY <2>0, <3>1
  <2> QED BY <2>1, <2>2, <2>3, <2>4
<1>2. OpsListed' = OpsListed /\ Running' = Running /\ Unread' = Unread /\ Started' = Started
  BY <1>1 DEF OpsListed, Running, Unread, Started
<1>3. AsyncTyped' /\ IdsInTurn' /\ DoneIsPerformed' /\ WaitsKnown' /\ AsyncCounted'
  <2>1. AsyncTyped'  BY <1>0, <1>1 DEF AsyncTyped
  <2>2. WaitsKnown'
    BY <1>1, <1>2 DEF AsyncInv, WaitsKnown, WaitsStarted, WaitsGot, TakenByWait, MissedGone
  <2> QED BY <1>1, <1>2, <2>1, <2>2 DEF AsyncInv, IdsInTurn, DoneIsPerformed, AsyncCounted
<1>4. AsyncOwed'
  <2>1. CASE CallWaitAll
    BY <1>1, <1>2, <2>1 DEF AsyncInv, AsyncOwed, CallWaitAll
  <2>2. CASE WaitAllReturns
    <3>1. Running = {}
      BY <2>2, AsyncFinite, FS_EmptySet DEF WaitAllReturns, Running, AsyncInv, AsyncCounted
    <3>2. \A i \in Started : ops[i].done
      BY <1>0, <3>1 DEF AsyncInv, DoneIsPerformed, Running, Started, AsyncTyped, Op
    <3>3. drain'.owed = drain.owed /\ reads' = reads
      BY <1>0, <2>2 DEF WaitAllReturns, AsyncTyped, DrainRec, ReadsRec
    <3> QED BY <1>1, <1>2, <3>2, <3>3 DEF AsyncInv, AsyncOwed
  <2>3. CASE BatchWait
    <3>1. reads'.step = "waiting" /\ drain' = drain  BY <1>0, <2>3 DEF BatchWait, AsyncTyped, DrainRec, ReadsRec
    <3> QED BY <1>1, <1>2, <3>1 DEF AsyncInv, AsyncOwed
  <2>4. CASE BatchCallback
    <3>1. Unread = {}
      <4>1. Unread \in SUBSET OpIds  BY <1>0 DEF Unread, AsyncTyped, ReadsRec
      <4> QED BY <2>4, <4>1, AsyncFinite, FS_EmptySet DEF BatchCallback, AsyncInv, AsyncCounted
    <3>2. drain' = drain  BY <2>4 DEF BatchCallback
    <3> QED BY <1>1, <1>2, <3>1, <3>2 DEF AsyncInv, AsyncOwed, Unread
  <2> QED BY <2>1, <2>2, <2>3, <2>4
<1> QED BY <1>3, <1>4 DEF AsyncInv

\* Every step of the operations keeps the invariant.
LEMMA AsyncStep == AsyncInv /\ [AsyncNext]_asyncVars => AsyncInv'
<1> SUFFICES ASSUME AsyncInv, [AsyncNext]_asyncVars PROVE AsyncInv'
  OBVIOUS
<1>0. AsyncTyped  BY DEF AsyncInv
<1>1. ASSUME NEW by \in {"wait", "callback"}, Submitted(by) PROVE AsyncInv'
  BY <1>1, OpListed DEF Submitted
<1>2. CASE BatchSubmit
  BY <1>2, OpListed DEF BatchSubmit
<1>3. ASSUME NEW i \in OpIds, StartOp(i) \/ Perform(i) \/ CountDown(i) \/ CloseOp(i) PROVE AsyncInv'
  BY <1>3, OpSteps
<1>4. ASSUME NEW i \in OpIds, CleanUp(i) PROVE AsyncInv'
  BY <1>4, OpTakenOut DEF CleanUp
<1>5. ASSUME NEW w \in Waiters, NEW i \in OpIds, CallWait(w, i) PROVE AsyncInv'
  BY <1>5, WaitCalled
<1>6. ASSUME NEW w \in Waiters, WaitReturns(w) PROVE AsyncInv'
  <2>1. PICK i : i = waits[w].id  OBVIOUS
  <2>2. i \in OpIds  BY <1>6, <2>1 DEF WaitReturns, AsyncInv, WaitsKnown, WaitsStarted, Started
  <2> QED BY <1>6, <2>1, <2>2, OpTakenOut DEF WaitReturns
<1>7. CASE CallWaitAll \/ WaitAllReturns \/ BatchWait \/ BatchCallback
  BY <1>7, AsyncOthers
<1>8. CASE UNCHANGED asyncVars
  <2>1. OpsListed' = OpsListed /\ Running' = Running /\ Unread' = Unread /\ Started' = Started
    BY <1>8 DEF OpsListed, Running, Unread, Started, asyncVars
  <2>2. AsyncTyped' /\ DoneIsPerformed' /\ AsyncCounted' /\ AsyncOwed' /\ IdsInTurn'
    BY <1>8, <2>1 DEF AsyncInv, AsyncTyped, IdsInTurn, DoneIsPerformed, AsyncCounted, AsyncOwed, asyncVars
  <2>3. WaitsKnown'
    BY <1>8, <2>1 DEF AsyncInv, WaitsKnown, WaitsStarted, WaitsGot, TakenByWait, MissedGone, asyncVars
  <2> QED BY <2>2, <2>3 DEF AsyncInv
<1> QED BY <1>1, <1>2, <1>3, <1>4, <1>5, <1>6, <1>7, <1>8 DEF AsyncNext

\* The invariant gives what Wait, WaitAll and a batch promise.
LEMMA AsyncInvSound == AsyncInv => AsyncSound
<1> SUFFICES ASSUME AsyncInv PROVE AsyncSound
  OBVIOUS
<1>1. WaitsAnswered
  <2>1. \A w \in Waiters : waits[w].step = "not found" => waits[w].id \in OpsListed \ operations
    BY DEF AsyncInv, WaitsKnown, WaitsStarted, MissedGone, Started, OpsListed
  <2> QED BY <2>1 DEF AsyncInv, WaitsKnown, WaitsGot, TakenByWait, WaitsAnswered
<1> QED BY <1>1 DEF AsyncInv, AsyncOwed, AsyncSound, DrainCovers, BatchWhole

-----------------------------------------------------------------------------
(* The layers together. *)

\* The invariants of the layers of the extreme mode.
ExtremeInv == MvccInv /\ WalInv /\ ShardInv /\ LockInv /\ AsyncInv

\* A step of any of the services is a step of one layer or of none.
LEMMA ExtremeStep == ExtremeInv /\ [ProgressNext]_allVars => ExtremeInv'
<1> SUFFICES ASSUME ExtremeInv, [ProgressNext]_allVars PROVE ExtremeInv'
  OBVIOUS
<1>1. /\ [MvccNext]_mvccVars /\ [WalNextStep]_walVars /\ [ShardNext]_shardVars
      /\ [LockFreeNext]_lockFreeVars /\ [AsyncNext]_asyncVars
  <2>1. CASE UNCHANGED allVars
    BY <2>1 DEF allVars
  <2>2. CASE \/ part = "bulk" /\ BulkNext /\ StayBut("bulk")
             \/ part = "audit" /\ AuditNext /\ StayBut("audit")
             \/ part = "mcpsessions" /\ SessionsNext /\ StayBut("mcpsessions")
    BY <2>2 DEF StayBut
  <2>3. CASE part = "mvcc" /\ MvccNext /\ StayBut("mvcc")
    BY <2>3 DEF StayBut
  <2>4. CASE part = "wal" /\ WalNextStep /\ StayBut("wal")
    BY <2>4 DEF StayBut
  <2>5. CASE part = "sharding" /\ ShardNext /\ StayBut("sharding")
    BY <2>5 DEF StayBut
  <2>6. CASE part = "lockfree" /\ LockFreeNext /\ StayBut("lockfree")
    BY <2>6 DEF StayBut
  <2>7. CASE part = "async" /\ AsyncNext /\ StayBut("async")
    BY <2>7 DEF StayBut
  <2>8. QED BY <2>1, <2>2, <2>3, <2>4, <2>5, <2>6, <2>7 DEF ProgressNext
<1>2. QED BY <1>1, MvccStep, WalStep, ShardStep, LockStep, AsyncStep DEF ExtremeInv

\* Whatever the layers of the extreme mode are asked for, in any number and interleaved with
\* their background work, crashes of the log included: no version is lost or seen too early, the
\* log loses no more than its policy allows, every key is routed to one active shard, the cache
\* counts and returns what it holds, and no operation is told of before its end (mvcc.go,
\* wal.go, sharding.go, lockfree_cache.go, async_io.go).
THEOREM ExtremeIsSound == ProgressSpec => []ExtremeSound
<1>1. ProgressInit => ExtremeInv
  BY MvccInitInv, WalInitInv, ShardInitInv, LockInitInv, AsyncInitInv DEF ProgressInit, ExtremeInv
<1>2. ExtremeInv /\ [ProgressNext]_allVars => ExtremeInv'
  BY ExtremeStep
<1>3. ExtremeInv => ExtremeSound
  BY MvccInvSound, WalInvSound, ShardInvSound, LockInvSound, AsyncInvSound DEF ExtremeInv, ExtremeSound
<1>4. QED BY <1>1, <1>2, <1>3, PTL DEF ProgressSpec
=============================================================================
