------------------------------- MODULE Analysis -------------------------------
(***************************************************************************)
(* The analyzers (analysis/): a snapshot in, findings out.                 *)
(*                                                                         *)
(* A finding keeps its title, severity and category, the topics its text   *)
(* mentions (the recommendation adapter greps that text for them) and the  *)
(* cost it puts on the matter, in cents, 0 for none.                       *)
(***************************************************************************)
EXTENDS Snapshots

Finding(title, severity, category, topics, impact) ==
  [title |-> title, severity |-> severity, category |-> category,
   topics |-> topics, impact |-> impact]

When(condition, item) == IF condition THEN {item} ELSE {}

(* GB per partition; unknown for the storage optimised tiers.              *)
PartitionCapacity ==
  [free |-> 2, basic |-> 2, s1 |-> 25, s2 |-> 100, s3 |-> 200, s3_hd |-> 200]

S1Storage == 25 * 12

FitsOnePartition(s, o) == s.partitions > 1 /\ o.size <= PartitionCapacity[s.sku]

OversizedPartitions(s, o) ==
  /\ s.sku \in DOMAIN PartitionCapacity
  /\ s.partitions > 0
  /\ \/ 4 * o.size < PartitionCapacity[s.sku] * s.partitions
     \/ FitsOnePartition(s, o)

(* ProvisioningAnalyzer.analyze                                            *)
ProvisioningFindings(s, o) ==
     When(s.replicas > 1 /\ o.qps < 5 * s.replicas,
          Finding("Replica count is high", "medium", "provisioning", {"replica"}, 0))
  \cup When(s.replicas > 3 /\ ~ s.zones,
          Finding("Replica count exceeds baseline", "low", "provisioning",
                  {"replica"}, 0))
  \cup When(OversizedPartitions(s, o),
          Finding("Partition allocation is oversized", "medium", "provisioning",
                  {"partition", "storage"}, 0))
  \cup When(o.qps < 1,
          Finding("Service appears idle", "high", "provisioning", {}, 0))

StoragePressure(o) == o.size > PartitionCapacity["basic"]

(* It names the storage when that is a reason.                             *)
Undersized(o) ==
  Finding("Basic may be undersized", "high", "sku", When(StoragePressure(o), "storage"), 0)

(* SkuAnalyzer.analyze                                                     *)
SkuFindings(s, o) ==
  IF s.mode # "dedicated" THEN {} ELSE
       When(s.sku \in {"s3", "s3_hd"} /\ o.size <= S1Storage /\ o.monthly <= 1000000,
            Finding("S3 fits within S1", "medium", "sku", {}, 0))
  \cup When(s.sku = "basic" /\ (StoragePressure(o) \/ o.monthly >= 1000000),
            Undersized(o))
  \cup When(o.monthly < 100000 /\ o.cpu < 15,
            Finding("Serverless candidate", "medium", "sku", {"serverless"}, 0))

RarelySemantic(s, o) == s.semantic.enabled /\ Below(o.semantic, 10)
RarelyVector(s, o)   == s.vector.enabled /\ Below(o.vector, 5)

(* FeatureAnalyzer.analyze                                                 *)
FeatureFindings(s, o) ==
     When(RarelySemantic(s, o),
          Finding("Semantic ranker lightly adopted", "medium", "feature_usage",
                  {"semantic"}, 0))
  \cup When(RarelyVector(s, o),
          Finding("Vector search rarely queried", "medium", "feature_usage",
                  {"vector"}, 0))
  \cup When(s.enrichment.enabled /\ o.enrichment = 0,
          Finding("AI enrichment inactive", "high", "feature_usage", {}, 0))

(* A heuristic that names a price (_analyze_provisioning).                 *)
HeuristicProvisioning(s, o) ==
  LET price == UnitPrice[Tier(s.sku)]
  IN IF s.mode # "dedicated" THEN {} ELSE
       When(s.replicas > 1 /\ o.cpu < 50,
            Finding("Review dedicated replica count",
                    IF o.cpu < 30 THEN "high" ELSE "medium", "provisioning",
                    {"replica", "latency"}, price * Larger(s.partitions, 1)))
  \cup When(s.partitions > 1 /\ o.storage < 50,
            Finding("Review dedicated partition count", "medium", "provisioning",
                    {"partition", "storage"}, price * Larger(s.replicas, 1)))

PremiumFeatures == {"semantic_ranker", "vector_search", "ai_enrichment"}

HeuristicSku(s, o) ==
  When(/\ s.mode = "dedicated" /\ o.monthly < 100000 /\ o.cpu < 15
       /\ s.features \cap PremiumFeatures = {},
       Finding("Evaluate serverless pricing", "medium", "sku", {"serverless"}, 0))

(* Of n queries, those in the share: int(n * percentage / 100).            *)
Portion(n, share) ==
  (n \div share.of) * share.queries + ((n % share.of) * share.queries) \div share.of

HeuristicFeatures(s, o) ==
     When(RarelySemantic(s, o),
          Finding("Review semantic ranker usage", "medium", "feature_usage",
                  {"semantic"}, RoundDiv(Portion(o.monthly, o.semantic), 10)))
  \cup When(RarelyVector(s, o),
          Finding("Review vector search footprint", "medium", "feature_usage",
                  {"vector"}, 12 * o.size))

(* AnalysisService.analyze: nothing is found in what was not measured.     *)
Analyze(snapshot) ==
  LET s == snapshot.configuration
  IN UNION {ProvisioningFindings(s, o) \cup SkuFindings(s, o)
              \cup FeatureFindings(s, o) \cup HeuristicProvisioning(s, o)
              \cup HeuristicSku(s, o) \cup HeuristicFeatures(s, o) :
            o \in snapshot.metrics}

-----------------------------------------------------------------------------
(* The answer of POST /analyze (map_analysis_result_to_response).          *)

Severities == <<"low", "medium", "high">>

Worst(findings) ==
  LET Worse(a, b) == \E i, j \in 1..3 : i > j /\ a = Severities[i] /\ b = Severities[j]
      found == {"low"} \cup {f.severity : f \in findings}
  IN CHOOSE v \in found : \A w \in found : ~ Worse(w, v)

(* _map_finding_category                                                   *)
Theme(category) ==
  CASE category = "provisioning"  -> "capacity"
    [] category = "feature_usage" -> "feature_usage"
    [] OTHER                      -> "cost"

AnalyzeResponse(findings) ==
  [status |-> 200, findings |-> findings, highest |-> Worst(findings),
   themes |-> {Theme(f.category) : f \in findings}]
=============================================================================
