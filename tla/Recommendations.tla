---------------------------- MODULE Recommendations ----------------------------
(***************************************************************************)
(* The recommendation service (recommendations/): facts about a workload   *)
(* in, a ranked list of recommendations out.                               *)
(*                                                                         *)
(* The facts are the keys of the mappings the service reads: the flags     *)
(* that are true, and the numbers that are there.  A missing number takes  *)
(* the default its reader gives it.  A recommendation keeps its title, the *)
(* counts in that title and the saving it names, as a set that is empty    *)
(* for none.  The texts and the commands of the alerts are left out.       *)
(***************************************************************************)
EXTENDS Analysis, FiniteSets

Number(facts, name, default) ==
  IF name \in DOMAIN facts.numbers THEN facts.numbers[name] ELSE default

Flag(facts, name) == name \in facts.flags

Known(facts, name) == name \in DOMAIN facts.numbers

(* In the order of the titles.                                             *)
Titles ==
  <<"Add CPU alert", "Add idle-service cost alert", "Add indexer failure alert",
    "Add latency alert", "Add storage alert", "Add throttling alert",
    "Add utilization alert", "Disable semantic ranker", "Downgrade SKU",
    "Enable semantic ranker", "Move to serverless", "Move to dedicated",
    "Optimize vector search", "Reduce partitions", "Reduce replicas">>

Alerts == {Titles[i] : i \in 1..7}

Priority(title) ==
  IF title \in {"Add idle-service cost alert", "Add indexer failure alert",
                "Add utilization alert", "Disable semantic ranker",
                "Downgrade SKU", "Enable semantic ranker", "Move to serverless"}
  THEN "medium" ELSE "high"

Effort(title) ==
  CASE title \in Alerts \cup {"Disable semantic ranker", "Reduce replicas"} -> "low"
    [] title = "Move to dedicated" -> "high"
    [] OTHER                       -> "medium"

Recommendation(title, from, to, saving) ==
  [title |-> title, from |-> from, to |-> to, saving |-> saving]

Plain(title, saving) == Recommendation(title, 0, 0, saving)

(* generate_rightsizing_recommendations                                    *)
Reduction(facts, title, count, default, suggestion, saving) ==
  LET current == Number(facts, count, default)
  IN Recommendation(title, current,
                    Number(facts, suggestion, Larger(current - 1, 1)),
                    {Number(facts, saving, 0)})

Rightsizing(facts) ==
     When(Flag(facts, "replica_overprovisioned"),
          Reduction(facts, "Reduce replicas", "replicas", 2,
                    "suggested_replicas", "estimated_monthly_savings"))
  \cup When(Flag(facts, "partition_overprovisioned"),
          Reduction(facts, "Reduce partitions", "partitions", 1,
                    "suggested_partitions", "estimated_partition_savings"))
  \cup When(Flag(facts, "sku_downgrade_candidate"),
          Plain("Downgrade SKU", {Number(facts, "estimated_sku_savings", 0)}))

(* generate_feature_guidance_recommendations; a ratio that is not given    *)
(* counts as zero.                                                         *)
FeatureGuidance(facts) ==
  LET semantic == Flag(facts, "semantic_ranker_enabled")
  IN When(semantic /\ Below(facts.semanticRatio, 10),
          Plain("Disable semantic ranker",
                {Number(facts, "estimated_semantic_monthly_cost", 0)}))
  \cup When(~ semantic /\ Flag(facts, "semantic_quality_gap"),
          Plain("Enable semantic ranker", {}))
  \cup When(/\ Flag(facts, "vector_search_enabled")
            /\ Flag(facts, "vector_optimization_opportunity"),
          Plain("Optimize vector search",
                {Number(facts, "estimated_vector_monthly_savings", 0)}))

(* generate_pricing_model_recommendations                                  *)
PricingAdvice(facts) ==
     When(facts.hosting = "dedicated" /\ Flag(facts, "switch_to_serverless_candidate"),
          Plain("Move to serverless", {Number(facts, "serverless_monthly_savings", 0)}))
  \cup When(facts.hosting = "serverless" /\ Flag(facts, "switch_to_dedicated_candidate"),
          Plain("Move to dedicated", {Number(facts, "dedicated_monthly_savings", 0)}))

Between(facts, name, low, high) ==
  Known(facts, name) /\ facts.numbers[name] >= low /\ facts.numbers[name] < high

Exceeds(facts, name, limit) == Known(facts, name) /\ facts.numbers[name] > limit

Throttled(facts) ==
  \/ Exceeds(facts, "throttled_queries_per_day", 0)
  \/ Flag(facts, "throttled_queries_detected")

(* generate_alerting_recommendations: alerts on the load, then on the      *)
(* operation of the service.                                               *)
LoadAlerts(facts) ==
     When(Exceeds(facts, "query_latency_p95_ms", 500), "Add latency alert")
  \cup When(Between(facts, "replica_utilization_percent", 0, 30), "Add utilization alert")
  \cup When(Exceeds(facts, "storage_utilization_percent", 80), "Add storage alert")
  \cup When(Throttled(facts), "Add throttling alert")

OperationAlerts(facts) ==
     When(/\ Number(facts, "indexer_count", 0) > 0
          /\ ~ Flag(facts, "indexer_monitoring_configured"),
          "Add indexer failure alert")
  \cup When(Between(facts, "avg_queries_per_second", 0, 1), "Add idle-service cost alert")
  \cup When(/\ Exceeds(facts, "avg_cpu_utilization_pct", 80)
            /\ Number(facts, "replicas", 0) \in 1..2,
          "Add CPU alert")

(* The text of the throttling alert formats a rate: without one the whole  *)
(* report fails.                                                           *)
ReportFails(facts) == Throttled(facts) /\ ~ Known(facts, "throttled_queries_per_day")

Recommended(facts) ==
  Rightsizing(facts) \cup FeatureGuidance(facts) \cup PricingAdvice(facts)
    \cup {Plain(title, {}) : title \in LoadAlerts(facts) \cup OperationAlerts(facts)}

(* _priority_sort_key: the priority counts before the effort, and the      *)
(* title breaks the tie.                                                   *)
Position(x, order) == CHOOSE i \in DOMAIN order : order[i] = x

(* Slip: the effort counts before the priority.                            *)
EffortKey(r) ==
    100 * Position(Effort(r.title), <<"low", "medium", "high">>)
  + 20 * Position(Priority(r.title), <<"high", "medium", "low">>)
  + Position(r.title, Titles)

SortKey(r) ==
    100 * Position(Priority(r.title), <<"high", "medium", "low">>)
  + 20 * Position(Effort(r.title), <<"low", "medium", "high">>)
  + Position(r.title, Titles)

Ranked(recommendations) ==
  [i \in 1..Cardinality(recommendations) |->
     CHOOSE r \in recommendations :
       Cardinality({x \in recommendations : SortKey(x) <= SortKey(r)}) = i]

(* _build_estimated_savings                                                *)
EstimatedSavings(costData) ==
  LET monthly == IF costData.recommended = Absent THEN costData.potential
                 ELSE costData.recommended
  IN [monthly |-> monthly, confidence |-> costData.confidence]

(* RecommendationService.recommend, with the counts of its summary.        *)
Report(facts, costData) ==
  LET items == Recommended(facts)
  IN [recommendations |-> Ranked(items),
      urgent    |-> Cardinality({r \in items : Priority(r.title) = "high"}),
      quickWins |-> Cardinality({r \in items : Effort(r.title) = "low"}),
      savings   |-> EstimatedSavings(costData)]
=============================================================================
