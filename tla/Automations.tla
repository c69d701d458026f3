---------------------------- MODULE Automations -----------------------------
(***************************************************************************)
(* Automation rules and the cron scheduler: automation.go, with the        *)
(* handlers of automation_handlers.go and mcp_direct_advanced.go, and      *)
(* automation_cron.go.                                                     *)
(*                                                                         *)
(* Rules are kept in a bucket and in a slice that requests and the         *)
(* scheduler read; a request changes the bucket and then the slice, and a  *)
(* handler that changed a cron rule has the scheduler rebuilt from the     *)
(* slice.  A cron that fires notes its last run in the slice and has a     *)
(* goroutine store the rule as it was then.                                *)
(*                                                                         *)
(* Of a rule matter its type, whether it is enabled and, for a cron, the   *)
(* webhook it calls and whether the scheduler's parser, which wants six    *)
(* fields, takes its schedule.  The binlog entry between bucket and slice  *)
(* is in Registries.                                                       *)
(***************************************************************************)
EXTENDS Integers, FiniteSets

CONSTANTS
  HookIds,      \* ids given out to webhook rules
  CronIds,      \* ids given out to cron rules
  NoRule,       \* "no rule", "no client"
  AClients,     \* request handlers
  InitRules,    \* the rules stored at the start: [RuleIds -> rule or NoRule]
  MaxARequests, \* bound on requests
  MaxFires,     \* bound on cron runs
  MaxARestarts  \* bound on restarts

ASSUME NoRuleAssumption == NoRule \notin HookIds \cup CronIds \cup AClients

Transports == {"http", "grpc", "mcp"}
RuleIds == HookIds \cup CronIds
Kinds == {"webhook", "cron"}
Rule == [kind : Kinds, enabled : BOOLEAN, hook : HookIds \cup {NoRule}, parses : BOOLEAN]
ASSUME InitRulesAssumption ==
  /\ InitRules \in [RuleIds -> Rule \cup {NoRule}]
  /\ \A r \in RuleIds : InitRules[r] # NoRule /\ InitRules[r].kind = "cron" => InitRules[r].hook # NoRule
\* What a request says of a rule, and the rule that makes it.
Body == [enabled : BOOLEAN, hook : HookIds \cup {NoRule}, parses : BOOLEAN]
AsRule(kind, body) ==
  [kind |-> kind, enabled |-> body.enabled,
   hook |-> IF kind = "cron" THEN body.hook ELSE NoRule, parses |-> kind = "cron" => body.parses]

VARIABLES
  ruleBucket, \* bucket automation: [RuleIds -> rule or NoRule]
  rules,      \* am.rules, likewise
  made,       \* ids that have been given out
  entryMap,   \* cs.entryMap: the crons that are scheduled
  csmu,       \* cs.mu: free (NoRule) or the client in Reload
  aclient,    \* [AClients -> [pc, via, id, rule, kinds, todo]]; kinds: the types it may read of
              \* the rule, then the one it goes by, or none
  unsaved,    \* goroutines of UpdateLastRun: [id, rule]
  missed,     \* history: crons changed since the last Reload without one of their own
  areqs, fires, arestarts

autoVars == <<ruleBucket, rules, made, entryMap, csmu, aclient, unsaved, missed,
              areqs, fires, arestarts>>
abounds == <<areqs, fires, arestarts>>

AIdle == [pc |-> "idle", via |-> "http", id |-> NoRule, rule |-> NoRule, kinds |-> {}, todo |-> {}]
\* GetWebhook
IsHook(saved, id) == id \in RuleIds /\ saved[id] # NoRule /\ saved[id].kind = "webhook"

\* validateRule: a cron names a webhook that exists; any schedule will do.
ValidRule(rule) == rule.kind = "cron" => IsHook(rules, rule.hook)

\* List("cron"), the enabled ones, and those of them that can be scheduled.
EnabledCrons(saved) == {r \in RuleIds : saved[r] # NoRule /\ saved[r].kind = "cron" /\ saved[r].enabled}
Listed(saved) == {[id |-> r, hook |-> saved[r].hook, parses |-> saved[r].parses] : r \in EnabledCrons(saved)}
Runnable(saved) == {cron \in Listed(saved) : IsHook(saved, cron.hook) /\ cron.parses}

\* LoadAll and a new scheduler; the ids of the rules, and of the webhooks they name, were given out.
AutoInit ==
  /\ ruleBucket = InitRules /\ rules = InitRules
  /\ made = {r \in RuleIds : InitRules[r] # NoRule}
             \cup ({rule.hook : rule \in {InitRules[r] : r \in RuleIds} \ {NoRule}} \ {NoRule})
  /\ entryMap = Runnable(InitRules) /\ csmu = NoRule
  /\ aclient = [c \in AClients |-> AIdle]
  /\ unsaved = {} /\ missed = {}
  /\ areqs = 0 /\ fires = 0 /\ arestarts = 0

ARequest(c) ==
  /\ aclient[c].pc = "idle" /\ areqs < MaxARequests /\ areqs' = areqs + 1
AStep(c, pc, via, id, rule, kinds) ==
  aclient' = [aclient EXCEPT ![c] =
    [AIdle EXCEPT !.pc = pc, !.via = via, !.id = id, !.rule = rule, !.kinds = kinds]]

-----------------------------------------------------------------------------
\* Create: the rule is stored under a new id ...
CreateRule(c, via, id, body) ==
  LET kind == IF id \in CronIds THEN "cron" ELSE "webhook"
      rule == AsRule(kind, body) IN
    /\ ARequest(c) /\ id \notin made /\ ValidRule(rule)
    /\ made' = made \cup {id}
    /\ ruleBucket' = [ruleBucket EXCEPT ![id] = rule]
    /\ AStep(c, "append", via, id, rule, {kind})
    /\ UNCHANGED <<rules, entryMap, csmu, unsaved, missed, fires, arestarts>>

\* Update: the rule is looked up under the lock ...
UpdateRule(c, via, id, body) ==
  /\ ARequest(c) /\ rules[id] # NoRule
  /\ AStep(c, "lookup", via, id, body, {rules[id].kind})
  /\ UNCHANGED <<ruleBucket, rules, made, entryMap, csmu, unsaved, missed, fires, arestarts>>

\* ... its type is read through the pointer after that, from whatever the slot holds by then,
\* and the new rule is checked ...
UpdateCheck(c) ==
  /\ aclient[c].pc = "lookup"
  /\ \E kind \in aclient[c].kinds :
       LET rule == AsRule(kind, aclient[c].rule) IN
         aclient' = [aclient EXCEPT ![c] =
           IF ValidRule(rule) THEN [aclient[c] EXCEPT !.pc = "update", !.rule = rule, !.kinds = {kind}]
           ELSE AIdle]
  /\ UNCHANGED <<ruleBucket, rules, made, entryMap, csmu, unsaved, missed, abounds>>

\* ... and stored, whether or not it is still there ...
UpdatePut(c) ==
  /\ aclient[c].pc = "update"
  /\ ruleBucket' = [ruleBucket EXCEPT ![aclient[c].id] = aclient[c].rule]
  /\ aclient' = [aclient EXCEPT ![c].pc = "replace"]
  /\ UNCHANGED <<rules, made, entryMap, csmu, unsaved, missed, abounds>>

\* An id is random: nobody has it before Create returns or List shows it.
Known(id) == id \in made /\ \A c \in AClients : ~(aclient[c].pc = "append" /\ aclient[c].id = id)

\* Delete: the rule leaves the bucket; the HTTP handler refuses an unknown id, the gRPC
\* one does not reload after it ...
DeleteRule(c, via, id) ==
  /\ ARequest(c) /\ Known(id)
  /\ via = "http" => rules[id] # NoRule
  /\ ruleBucket' = [ruleBucket EXCEPT ![id] = NoRule]
  /\ AStep(c, "remove", via, id, NoRule, IF rules[id] = NoRule THEN {} ELSE {rules[id].kind})
  /\ UNCHANGED <<rules, made, entryMap, csmu, unsaved, missed, fires, arestarts>>

\* After a change of a cron rule the HTTP and gRPC handlers reload the scheduler.
Reloads(a) == a.via \in {"http", "grpc"} /\ a.kinds = {"cron"}

\* An update that holds a pointer into the slice finds the rule replaced there, or, once a
\* deletion has moved the rules up, one of the others in its slot.
Reread(d, a) ==
  CASE d.pc = "lookup" /\ a.pc = "remove" ->
         d.kinds \cup {rules'[r].kind : r \in {q \in RuleIds : rules'[q] # NoRule}}
    [] d.pc = "lookup" /\ a.pc = "replace" /\ a.id = d.id -> d.kinds \cup a.kinds
    [] OTHER -> d.kinds

\* The crons the scheduler has not heard of when a has changed the slice: one that came by
\* MCP, and all of them if the rule had another type than the one the handler goes by.
Missing(a) ==
  IF Reloads(a) THEN {}
  ELSE IF rules[a.id] # NoRule /\ {rules[a.id].kind} # a.kinds THEN RuleIds
  ELSE IF a.kinds = {"cron"} THEN {a.id}
  ELSE {}

\* ... then the slice is changed under am.mu: appended to, replaced where the id is still
\* found, or cut; and the handler goes on to the scheduler or answers.
ChangeSlice(c) ==
  LET a == aclient[c] IN
    /\ a.pc \in {"append", "replace", "remove"}
    /\ rules' = IF a.pc = "replace" /\ rules[a.id] = NoRule THEN rules
                ELSE [rules EXCEPT ![a.id] = a.rule]
    /\ aclient' = [d \in AClients |->
         IF d # c THEN [aclient[d] EXCEPT !.kinds = Reread(aclient[d], a)]
         ELSE IF Reloads(a) THEN [a EXCEPT !.pc = "reload"]
         ELSE AIdle]
    /\ missed' = missed \cup Missing(a)
    /\ UNCHANGED <<ruleBucket, made, entryMap, csmu, unsaved, abounds>>

-----------------------------------------------------------------------------
\* Mutant: the rules are listed before the lock is taken.
ReloadUnlocked(c) ==
  /\ \/ /\ aclient[c].pc = "reload" /\ aclient[c].todo = {}
        /\ aclient' = [aclient EXCEPT ![c].pc = "wait", ![c].todo = Listed(rules)]
        /\ UNCHANGED <<entryMap, csmu, missed>>
     \/ /\ aclient[c].pc = "wait" /\ csmu = NoRule
        /\ csmu' = c /\ entryMap' = {} /\ missed' = {}
        /\ aclient' = [aclient EXCEPT ![c].pc = "add"]
  /\ UNCHANGED <<ruleBucket, rules, made, unsaved, abounds>>

\* Reload: under cs.mu, all entries are removed and the enabled crons listed ...
Reload(c) ==
  /\ aclient[c].pc = "reload" /\ csmu = NoRule
  /\ csmu' = c /\ entryMap' = {} /\ missed' = {}
  /\ aclient' = [aclient EXCEPT ![c].pc = "add", ![c].todo = Listed(rules)]
  /\ UNCHANGED <<ruleBucket, rules, made, unsaved, abounds>>

\* ... and added one by one, each if its webhook is found and AddFunc takes its schedule ...
AddEntry(c) ==
  /\ aclient[c].pc = "add"
  /\ \E cron \in aclient[c].todo :
       /\ entryMap' = IF IsHook(rules, cron.hook) /\ cron.parses THEN entryMap \cup {cron} ELSE entryMap
       /\ aclient' = [aclient EXCEPT ![c].todo = @ \ {cron}]
  /\ UNCHANGED <<ruleBucket, rules, made, csmu, unsaved, missed, abounds>>

\* ... and the lock is released.
ReloadDone(c) ==
  /\ aclient[c].pc = "add" /\ aclient[c].todo = {}
  /\ csmu' = NoRule
  /\ aclient' = [aclient EXCEPT ![c] = AIdle]
  /\ UNCHANGED <<ruleBucket, rules, made, entryMap, unsaved, missed, abounds>>

\* A cron runs: the webhook is called if it is there and enabled, and UpdateLastRun hands
\* the rule, if it is still there, to a goroutine.
Fire(cron) ==
  /\ fires < MaxFires /\ fires' = fires + 1
  /\ IsHook(rules, cron.hook) /\ rules[cron.hook].enabled
  /\ rules[cron.id] # NoRule
  /\ unsaved' = unsaved \cup {[id |-> cron.id, rule |-> rules[cron.id]]}
  /\ UNCHANGED <<ruleBucket, rules, made, entryMap, csmu, aclient, missed, areqs, arestarts>>

\* UpdateLastRun's goroutine stores that copy, over whatever the bucket holds by then.
Persist ==
  /\ \E u \in unsaved :
       /\ ruleBucket' = [ruleBucket EXCEPT ![u.id] = u.rule]
       /\ unsaved' = unsaved \ {u}
  /\ UNCHANGED <<rules, made, entryMap, csmu, aclient, missed, abounds>>

\* The server starts again: LoadAll, then a new scheduler.
AutoRestart ==
  /\ arestarts < MaxARestarts /\ arestarts' = arestarts + 1
  /\ rules' = ruleBucket /\ entryMap' = Runnable(ruleBucket)
  /\ csmu' = NoRule /\ unsaved' = {} /\ missed' = {}
  /\ aclient' = [c \in AClients |-> AIdle]
  /\ UNCHANGED <<ruleBucket, made, areqs, fires>>

AutoNext ==
  \/ \E c \in AClients :
       \/ \E via \in Transports, id \in RuleIds, body \in Body :
            CreateRule(c, via, id, body) \/ UpdateRule(c, via, id, body)
       \/ \E via \in Transports, id \in RuleIds : DeleteRule(c, via, id)
       \/ UpdateCheck(c) \/ UpdatePut(c) \/ ChangeSlice(c)
       \/ Reload(c) \/ AddEntry(c) \/ ReloadDone(c)
  \/ \E cron \in entryMap : Fire(cron)
  \/ Persist
  \/ AutoRestart

AutoSpec == AutoInit /\ [][AutoNext]_autoVars

-----------------------------------------------------------------------------
AtRest == \A c \in AClients : aclient[c].pc = "idle"

\* AUTOMATIONS.md: "Disabling a cron (`enabled: false`) removes it from the scheduler.
\* Re-enabling re-registers it.", "Deleting a cron removes it from the scheduler
\* immediately."  With no request in progress every scheduled cron is an enabled rule
\* and calls the webhook the rule names, and every enabled rule whose webhook exists and
\* whose schedule has six fields is scheduled (Reload, addEntry), however the changes, the
\* deletion of webhooks and the reloads of several requests overlapped.  A change that came
\* through MCP, which does not call Reload, is seen at the next one; so is an update that
\* took its type from the rule that a deletion moved into the slot.
CronsAgree ==
  AtRest =>
    /\ {cron \in entryMap : cron.id \notin missed} \subseteq Listed(rules)
    /\ {cron \in Runnable(rules) : cron.id \notin missed} \subseteq entryMap

\* AUTOMATIONS.md: `schedule` is a "Cron expression (e.g., `"0 9 * * *"`)".  With no request in
\* progress an enabled cron whose webhook exists is scheduled, whatever its schedule
\* (validateRule, addEntry).
EnabledAreScheduled ==
  AtRest => \A cron \in Listed(rules) :
    cron.id \notin missed /\ IsHook(rules, cron.hook) => cron \in entryMap
=============================================================================
