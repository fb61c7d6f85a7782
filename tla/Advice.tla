-------------------------------- MODULE Advice --------------------------------
(***************************************************************************)
(* The endpoints /recommend and /simulate over the services: what the      *)
(* adapters (api/service_adapters.py) make of a request before a service   *)
(* sees it, and of the answer before the client does.                      *)
(*                                                                         *)
(* A configuration, metrics, an analysis or a cost model that may be       *)
(* missing is a set of at most one.  Amounts are in cents, except the      *)
(* delta of a recommendation, in dollars, as its text rounds it.           *)
(***************************************************************************)
EXTENDS Recommendations, FiniteSetsExt, Sequences

The(set) == CHOOSE x \in set : TRUE

(* build_cost_model_request; without metrics nothing is used.              *)
BuildCostModelRequest(c, metrics) ==
  LET Daily(enabled, use) == IF enabled /\ metrics # {} THEN 30 * The(use) ELSE 0
      quarters == 4 + (IF c.semantic THEN 1 ELSE 0) + (IF c.vector THEN 1 ELSE 0)
                    + (IF c.enrichment THEN 2 ELSE 0)
  IN  [dedicated  |-> When(c.model = "dedicated",
                           Dedicated(c.sku, Larger(c.replicas, 1), Larger(c.partitions, 1))),
       serverless |-> {Serverless(IF metrics = {} THEN 0 ELSE The(metrics).monthly,
                                  quarters)},
       features   |-> Features(Daily(c.semantic, {m.semanticPerDay : m \in metrics}),
                               Daily(c.enrichment, {m.updates : m \in metrics}),
                               IF c.vector THEN c.vectorSize ELSE 0)]

CostOf(c, metrics) == CostModel(BuildCostModelRequest(c, metrics))

(* What the configuration costs a month, under the model it has.           *)
MonthlyCost(c, metrics) == CostOf(c, metrics).total[c.model]

-----------------------------------------------------------------------------
(* build_recommendation_inputs                                             *)

If(condition, facts) == IF condition THEN facts ELSE <<>>

(* One mapping laid over another: what both have, the upper one gives.     *)
Over(upper, lower) ==
  [name \in DOMAIN upper \cup DOMAIN lower |->
     IF name \in DOMAIN upper THEN upper[name] ELSE lower[name]]

(* The queries a day that use a feature, of all those of a day.            *)
Ratio(perDay, m) ==
  [queries |-> perDay * m.window, of |-> Larger(m.monthly, m.window)]

Premium(c) == c.semantic \/ c.vector \/ c.enrichment

ConfigurationFlags(c) ==
  When(c.semantic, "semantic_ranker_enabled")
    \cup When(c.vector, "vector_search_enabled")

(* Slip: the threshold of the SKU analyzer.                                *)
ServerlessCandidateToo(c, m) == m.monthly < 1000000 /\ ~ Premium(c)

ServerlessCandidate(c, m) == m.monthly < 100000 /\ ~ Premium(c)

WorkloadFlags(c, m) ==
     When(c.vector /\ Below(Ratio(m.vectorPerDay, m), 5), "vector_optimization_opportunity")
  \cup IF c.model # "dedicated" THEN {} ELSE
          When(m.replicaUse < 50 /\ c.replicas > 1, "replica_overprovisioned")
     \cup When(m.partitionUse < 65 /\ c.partitions > 1, "partition_overprovisioned")
     \cup When(ServerlessCandidate(c, m), "switch_to_serverless_candidate")

(* What the words of a finding switch on.                                  *)
TopicFlag ==
  [replica    |-> "replica_overprovisioned",
   partition  |-> "partition_overprovisioned",
   serverless |-> "switch_to_serverless_candidate",
   throttling |-> "throttled_queries_detected"]

(* And what they do only when no configuration was posted (setdefault).    *)
DefaultFlag ==
  [semantic |-> "semantic_ranker_enabled", vector |-> "vector_search_enabled"]

DefaultNumber ==
  [latency |-> "query_latency_p95_ms", storage |-> "storage_utilization_percent"]

Topics(findings) == UNION {f.topics : f \in findings}

(* Slip: a posted configuration makes the findings of no account.          *)
TopicDefaults(topics, configuration) ==
  IF configuration # {} THEN {}
  ELSE {TopicFlag[t] : t \in topics \cap DOMAIN TopicFlag}
         \cup {DefaultFlag[t] : t \in topics \cap DOMAIN DefaultFlag}

TopicFlags(topics, configuration) ==
  {TopicFlag[t] : t \in topics \cap DOMAIN TopicFlag}
    \cup IF configuration # {} THEN {}
         ELSE {DefaultFlag[t] : t \in topics \cap DOMAIN DefaultFlag}

TopicNumbers(topics) ==
  [n \in {DefaultNumber[t] : t \in topics \cap DOMAIN DefaultNumber} |-> 0]

ConfigurationNumbers(c) ==
  [replicas |-> c.replicas, partitions |-> c.partitions, indexer_count |-> c.indexers]

Suggestions(c, m) ==
  Over(If("replica_overprovisioned" \in WorkloadFlags(c, m),
          [suggested_replicas |-> Larger(c.replicas - 1, 1)]),
       If("partition_overprovisioned" \in WorkloadFlags(c, m),
          [suggested_partitions |-> Larger(c.partitions - 1, 1)]))

WorkloadNumbers(c, m) ==
  Over(Suggestions(c, m),
       [query_latency_p95_ms        |-> m.latency,
        replica_utilization_percent |-> m.replicaUse,
        storage_utilization_percent |-> m.storageUse,
        throttled_queries_per_day   |-> 0,
        avg_queries_per_second      |-> m.qps,
        avg_cpu_utilization_pct     |-> m.replicaUse])

(* _build_cost_data: the saving is the distance between the two pricing    *)
(* models, whichever of them the service is on; an analysis alone brings   *)
(* the sum of what its findings cost.                                      *)
BuildCostData(costs, impact) ==
  IF costs # {}
  THEN LET total  == The(costs).total
           saving == Distance(total.dedicated, total.serverless)
       IN [potential |-> saving, recommended |-> saving, confidence |-> "approximate"]
  ELSE [potential |-> impact, confidence |-> "limited",
        recommended |-> IF impact = 0 THEN Absent ELSE impact]

ScenarioSaving(costs, model) ==
  IF \E cost \in costs : cost.lower = model
  THEN LET total == The(costs).total IN Distance(total.dedicated, total.serverless)
  ELSE 0

CostNumbers(costs, potential) ==
  Over([estimated_monthly_savings   |-> potential,
        estimated_partition_savings |-> potential,
        serverless_monthly_savings  |-> ScenarioSaving(costs, "serverless"),
        dedicated_monthly_savings   |-> ScenarioSaving(costs, "dedicated")],
       If(costs # {},
          [estimated_semantic_monthly_cost  |-> The(costs).items.semantic,
           estimated_vector_monthly_savings |-> The(costs).items.vector]))

Impact(findings) == MapThenSumSet(LAMBDA f : f.impact, findings)

Inputs(findings, configuration, metrics, costs) ==
  LET given    == configuration # {}
      c        == The(configuration)
      m        == The(metrics)
      topics   == Topics(findings)
      costData == BuildCostData(costs, Impact(findings))
  IN [facts |->
        [flags   |-> TopicFlags(topics, configuration)
                       \cup IF given THEN ConfigurationFlags(c) \cup WorkloadFlags(c, m)
                                     ELSE {},
         numbers |-> Over(If(given, Over(ConfigurationNumbers(c), WorkloadNumbers(c, m))),
                          Over(TopicNumbers(topics), CostNumbers(costs, costData.potential))),
         hosting |-> IF given THEN c.model ELSE "dedicated",
         semanticRatio |-> IF given THEN Ratio(m.semanticPerDay, m)
                                    ELSE [queries |-> 0, of |-> 1]],
      costData |-> costData]

-----------------------------------------------------------------------------
(* POST /recommend                                                         *)

(* RecommendRequest.validate_source_payload                                *)
ValidRequest(request) ==
  /\ request.analysis # {} \/ request.configuration # {}
  /\ request.metrics = {} <=> request.configuration = {}

(* map_recommendation_report: the first so many, and a delta for every     *)
(* recommendation whose text names an amount (_extract_currency_delta).    *)
Item(r) ==
  [title |-> r.title, from |-> r.from, to |-> r.to, priority |-> Priority(r.title),
   delta |-> {- RoundDiv(saving, 100) : saving \in r.saving}]

FirstItems(report, max) ==
  [i \in 1..Smaller(max, Len(report.recommendations)) |-> Item(report.recommendations[i])]

Refused(status) == [status |-> status]

(* urgent: how many recommendations the summary calls high-priority.       *)
Answered(source, findings, inputs, max) ==
  LET report == Report(inputs.facts, inputs.costData)
  IN IF ReportFails(inputs.facts) THEN Refused(500)
     ELSE [status |-> 200, source |-> source, findings |-> findings,
           items |-> FirstItems(report, max), urgent |-> report.urgent,
           savings |-> report.savings]

(* recommend_optimizations: an analysis that comes with a configuration is *)
(* ignored, and made anew.                                                 *)
RecommendOptimizations(request) ==
  IF ~ ValidRequest(request) THEN Refused(422)
  ELSE IF request.configuration = {}
  THEN LET findings == The(request.analysis)
       IN Answered("analysis", findings, Inputs(findings, {}, {}, {}), request.max)
  ELSE LET c == The(request.configuration)
           m == The(request.metrics)
           snapshot == BuildSnapshot(c, m)
           findings == Analyze(snapshot)
       IN IF Ingested(snapshot) # "ok" THEN Refused(422)
          ELSE Answered("end_to_end", findings,
                        Inputs(findings, {c}, {m}, {CostOf(c, {m})}), request.max)

-----------------------------------------------------------------------------
(* POST /simulate                                                          *)

(* A change names an area, an attribute there, the value the client thinks *)
(* it has (or nothing) and the one it would have.                          *)
Change(target, attribute, current, proposed) ==
  [target |-> target, attribute |-> attribute, current |-> current, proposed |-> proposed]

Attributes ==
  [capacity |-> [replica_count |-> "replicas", partition_count |-> "partitions",
                 pricing_model |-> "model", sku |-> "sku",
                 zone_redundancy_enabled |-> "zones"],
   features |-> [semantic_ranker_enabled |-> "semantic", vector_search_enabled |-> "vector",
                 ai_enrichment_enabled |-> "enrichment",
                 knowledge_store_enabled |-> "knowledge"],
   index_topology |-> [indexer_count |-> "indexers", skillset_count |-> "skillsets",
                       total_index_size_gb |-> "size", vector_index_size_gb |-> "vectorSize"],
   security |-> [private_endpoint_enabled |-> "private"]]

(* A model forbids an attribute it does not have.                          *)
Places(change) ==
  change.target \in DOMAIN Attributes
    /\ change.attribute \in DOMAIN Attributes[change.target]

FieldOf(change) == Attributes[change.target][change.attribute]

(* apply_proposed_changes: one after the other, the last one counts.       *)
ApplyProposedChanges(c, changes) ==
  [field \in DOMAIN c |->
     LET hits == {i \in DOMAIN changes : FieldOf(changes[i]) = field}
     IN IF hits = {} THEN c[field] ELSE changes[Max(hits)].proposed]

(* infer_simulation_impact believes the client about the current value; no *)
(* value counts as zero.                                                   *)
LowersCapacity(change) ==
  /\ change.attribute \in {"replica_count", "partition_count"}
  /\ change.proposed < Larger(change.current, 0)

(* Slip: every change has to lower a count.                                *)
CapacityRiskOfAll(changes) == \A i \in DOMAIN changes : LowersCapacity(changes[i])

CapacityRisk(changes) == \E i \in DOMAIN changes : LowersCapacity(changes[i])

(* scenario_estimate_from_cost_model                                       *)
Estimate(cost, model) ==
  [model |-> model, total |-> cost.total[model], compute |-> cost.compute[model],
   items |-> cost.items]

(* build_simulate_response; the saving is in whole per cent.               *)
SimulateResponse(current, proposed, risk) ==
  LET delta == proposed.total - current.total
  IN [status |-> 200, current |-> current, proposed |-> proposed, delta |-> delta,
      savings |-> When(delta < 0 /\ current.total # 0,
                       RoundDiv(-100 * delta, current.total)),
      risk |-> risk]

(* simulate_cost_and_capacity with a configuration and changes.            *)
SimulateChanges(c, metrics, changes) ==
  IF changes = <<>> \/ \E i \in DOMAIN changes : ~ Places(changes[i])
  THEN Refused(422)
  ELSE LET proposed == ApplyProposedChanges(c, changes)
       IN SimulateResponse(Estimate(CostOf(c, metrics), c.model),
                           Estimate(CostOf(proposed, metrics), proposed.model),
                           CapacityRisk(changes))

(* compare_cost_model_options: with a cost model request of the client.    *)
CompareOptions(request) ==
  LET cost == CostModel(request)
      current  == IF request.dedicated # {} THEN "dedicated" ELSE "serverless"
      proposed == IF request.serverless # {} THEN "serverless" ELSE current
  IN SimulateResponse(Estimate(cost, current), Estimate(cost, proposed), FALSE)
=============================================================================
