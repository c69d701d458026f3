----------------------------- MODULE MCServices -----------------------------
(***************************************************************************)
(* The services around the document store, side by side.  They share no    *)
(* state with each other, so a behaviour is that of one of them, part,     *)
(* while the others stay in their initial states; every service is looked  *)
(* at with all the interleavings of its own processes.                     *)
(***************************************************************************)
EXTENDS KeyRotation, FtsIndex, Embeddings, Registries, Automations, EventHub, Limits,
        Searching, Auth, McpKeys, Triggers, Temporal, Requests, GeoIndex

CONSTANTS c1, c2, d1, d2, e1, e2, i1, i2, k1, k2

VARIABLE part

MCInitSeals == {<<1, "new">>, <<2, "old">>}
Counts(a, b) == [t \in Terms |-> IF t = "a" THEN a ELSE b]
MCTexts == {[blank |-> FALSE, content |-> Counts(1, 2), meta |-> Counts(0, 1)],
            [blank |-> FALSE, content |-> Counts(0, 0), meta |-> Counts(1, 0)]}
MCChunksOf == [t \in VTexts |-> IF t = "short" THEN 1 ELSE 2]
MCIpOf == (k1 :> "a") @@ (k2 :> "a") @@ (i1 :> "none")
MCFilterOf == (k1 :> "all") @@ (k2 :> "x") @@ (i1 :> "y")
MCUserOf == (k1 :> "u") @@ (k2 :> "u") @@ (i1 :> "v")
MCCollOf == (e1 :> "x") @@ (e2 :> "y")
MCGPlaces == {<<6, 3>>}
MCGCorners == {<<0, 0>>, <<2, 0>>, <<4, 2>>, <<2, 4>>, <<0, 2>>, <<4, 4>>}
MCPostcodeAt == <<1, 1>>
MCTgTexts == {[bm25 |-> 2, sim |-> 1, tone |-> FALSE], [bm25 |-> 1, sim |-> 0, tone |-> TRUE]}
TgTrigger(search, threshold, sentiment, logic, events) ==
  [search |-> search, threshold |-> threshold, sentiment |-> sentiment, logic |-> logic, events |-> events]
MCTgRules == {TgTrigger("fts", 2, FALSE, "and", {"insert", "delete"}), TgTrigger("vector", 50, FALSE, "and", {}),
              TgTrigger("hybrid", 50, TRUE, "or", {}), TgTrigger("none", 0, TRUE, "and", {"delete"})}
MCGrants == {{}, Ops}
MCRule(k, h) == [kind |-> k, enabled |-> TRUE, hook |-> h, parses |-> TRUE]
MCInitRules ==
  [r \in RuleIds |-> IF r = i1 THEN MCRule("webhook", NoRule) ELSE IF r = k1 THEN MCRule("cron", i1) ELSE NoRule]

Parts == {"rotation", "fts", "embeddings", "registries", "automations", "events", "limits",
          "searching", "auth", "mcpkeys", "delivery", "triggers",
          "temporal", "fusion", "requests", "geo"}
allVars == <<part, rotVars, ftsVars, embVars, regVars, autoVars, hubVars,
             limitVars, searchVars, authVars, mcpVars,
             deliveryVars, tgVars, temporalVars, fusionVars, requestVars, geoVars>>

\* The services with a choice of initial states make it only when they run.
OneInit ==
  /\ part # "rotation" => \A b \in Buckets, d \in RDocs : store[b][d].ver = 1
  /\ part # "registries" => kind = "webhooks"
  /\ part # "triggers" => tgRule.rule.search = "none"
  /\ part # "requests" => global = "wr" /\ perProto = "unset"

ServicesInit ==
  /\ part \in Parts
  /\ RotInit /\ FtsInit /\ EmbInit /\ RegInit /\ AutoInit /\ HubInit
  /\ LimitsInit /\ SearchInit
  /\ AuthInit /\ McpInit /\ DeliveryInit /\ TriggersInit /\ TemporalInit /\ FusionInit /\ RequestsInit /\ GeoInit
  /\ OneInit

StayBut(p) ==
  /\ UNCHANGED part
  /\ IF p = "rotation" THEN TRUE ELSE UNCHANGED rotVars
  /\ IF p = "fts" THEN TRUE ELSE UNCHANGED ftsVars
  /\ IF p = "embeddings" THEN TRUE ELSE UNCHANGED embVars
  /\ IF p = "registries" THEN TRUE ELSE UNCHANGED regVars
  /\ IF p = "automations" THEN TRUE ELSE UNCHANGED autoVars
  /\ IF p = "events" THEN TRUE ELSE UNCHANGED hubVars
  /\ IF p = "limits" THEN TRUE ELSE UNCHANGED limitVars
  /\ IF p = "searching" THEN TRUE ELSE UNCHANGED searchVars
  /\ IF p = "auth" THEN TRUE ELSE UNCHANGED authVars
  /\ IF p = "mcpkeys" THEN TRUE ELSE UNCHANGED mcpVars
  /\ IF p = "delivery" THEN TRUE ELSE UNCHANGED deliveryVars
  /\ IF p = "triggers" THEN TRUE ELSE UNCHANGED tgVars
  /\ IF p = "temporal" THEN TRUE ELSE UNCHANGED temporalVars
  /\ IF p = "fusion" THEN TRUE ELSE UNCHANGED fusionVars
  /\ IF p = "requests" THEN TRUE ELSE UNCHANGED requestVars
  /\ IF p = "geo" THEN TRUE ELSE UNCHANGED geoVars

ServicesNext ==
  \/ part = "rotation" /\ RotNext /\ StayBut("rotation")
  \/ part = "fts" /\ FtsNext /\ StayBut("fts")
  \/ part = "embeddings" /\ EmbNext /\ StayBut("embeddings")
  \/ part = "registries" /\ RegNext /\ StayBut("registries")
  \/ part = "automations" /\ AutoNext /\ StayBut("automations")
  \/ part = "events" /\ HubNext /\ StayBut("events")
  \/ part = "limits" /\ LimitsNext /\ StayBut("limits")
  \/ part = "searching" /\ SearchNext /\ StayBut("searching")
  \/ part = "auth" /\ AuthNext /\ StayBut("auth")
  \/ part = "mcpkeys" /\ McpNext /\ StayBut("mcpkeys")
  \/ part = "delivery" /\ DeliveryNext /\ StayBut("delivery")
  \/ part = "triggers" /\ TriggersNext /\ StayBut("triggers")
  \/ part = "temporal" /\ TemporalNext /\ StayBut("temporal")
  \/ part = "fusion" /\ FusionNext /\ StayBut("fusion")
  \/ part = "requests" /\ RequestsNext /\ StayBut("requests")
  \/ part = "geo" /\ GeoNext /\ StayBut("geo")

\* For the runs that look for one service's behaviour only.
OnlyAutomations == part = "automations"
OnlyRequests == part = "requests"

ServicesSpec == ServicesInit /\ [][ServicesNext]_allVars
=============================================================================
