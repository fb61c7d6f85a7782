------------------------------ MODULE Snapshots ------------------------------
(***************************************************************************)
(* What a workload is: the configuration and the metrics that a client     *)
(* posts (api/schemas.py), the snapshot the advisor works on (models/),    *)
(* the translation of the one into the other, and the validators that a    *)
(* snapshot has to pass.                                                   *)
(*                                                                         *)
(* Rates, sizes and percentages are whole numbers.  A share of the queries *)
(* is a pair of queries and average, since what matters is on which side   *)
(* of a threshold it lies.  Names, regions and times are left out; so are  *)
(* the details of a feature except whether there are any.                  *)
(***************************************************************************)
EXTENDS Pricing

Absent == -1    \* None, of a number

Skus == Tiers \cup {"s3_hd"}

(* The posted configuration and metrics.                                   *)
ApiConfigurations ==
  [model : {"dedicated", "serverless"}, sku : Skus, replicas : Nat,
   partitions : Nat, zones : BOOLEAN, semantic : BOOLEAN, vector : BOOLEAN,
   enrichment : BOOLEAN, knowledge : BOOLEAN, private : BOOLEAN,
   indexers : Nat, skillsets : Nat, size : Nat, vectorSize : Nat]

ApiMetrics ==
  [window : Nat \ {0}, monthly : Nat, qps : Nat, peak : Nat, latency : Nat,
   updates : Nat, replicaUse : 0..100, partitionUse : 0..100,
   storageUse : 0..100, semanticPerDay : Nat, vectorPerDay : Nat]

Enabled(flags) == {f \in DOMAIN flags : flags[f]}

FeatureList(c) ==
  Enabled([ai_enrichment      |-> c.enrichment,
           knowledge_store    |-> c.knowledge,
           semantic_ranker    |-> c.semantic,
           vector_search      |-> c.vector,
           indexers           |-> c.indexers > 0,
           private_endpoints  |-> c.private,
           availability_zones |-> c.zones])

AveragePerDay(m) == Larger(RoundDiv(m.monthly, m.window), 1)

(* The share of the queries that use a feature, of which 0 when it is off; *)
(* above 100 per cent it is cut.                                           *)
Share(enabled, perDay, average) ==
  [queries |-> IF enabled THEN Smaller(perDay, average) ELSE 0, of |-> average]

Below(share, percent) == 100 * share.queries < percent * share.of

Configured(c) ==
  LET dedicated == c.model = "dedicated"
  IN  [mode        |-> c.model,
       sku         |-> c.sku,
       replicas    |-> IF dedicated THEN c.replicas ELSE Absent,
       partitions  |-> IF dedicated THEN c.partitions ELSE Absent,
       highDensity |-> c.sku = "s3_hd",
       zones       |-> c.zones,
       private     |-> c.private,
       indexers    |-> c.indexers,
       skillsets   |-> c.skillsets,
       features    |-> FeatureList(c),
       semantic    |-> [enabled |-> c.semantic, details |-> c.semantic],
       vector      |-> [enabled |-> c.vector, algorithm |-> c.vector,
                        vectorizer |-> FALSE, integrated |-> FALSE,
                        details |-> c.vector],
       enrichment  |-> [enabled   |-> c.enrichment,
                        skillsets |-> IF c.enrichment
                                      THEN Larger(c.skillsets, 1) ELSE 0,
                        knowledge |-> c.knowledge,
                        details   |-> c.enrichment]]

(* Queries at the peak of an hour, against the average of a day.           *)
Observed(c, m) ==
  LET average == AveragePerDay(m)
  IN  [window      |-> m.window,
       monthly     |-> m.monthly,
       average     |-> average,
       peak        |-> Larger(average, 3600 * m.peak),
       qps         |-> m.qps,
       size        |-> c.size,
       semantic    |-> Share(c.semantic, m.semanticPerDay, average),
       vector      |-> Share(c.vector, m.vectorPerDay, average),
       enrichment  |-> IF c.enrichment THEN 1 ELSE 0,
       invocations |-> IF c.enrichment THEN m.updates ELSE 0,
       latency     |-> m.latency,
       cpu         |-> m.replicaUse,
       storage     |-> m.storageUse]

(* build_snapshot_payload.  Metrics are a set, empty for None.             *)
BuildSnapshot(c, m) ==
  [configuration |-> Configured(c), metrics |-> {Observed(c, m)}]

-----------------------------------------------------------------------------
(* The validators of models/configuration.py.                              *)

ValidSemantic(s) == s.details => s.enabled

ValidVector(v) ==
  IF v.enabled THEN v.algorithm /\ (v.integrated => v.vectorizer)
               ELSE TRUE \notin {v.algorithm, v.vectorizer, v.integrated, v.details}

ValidEnrichment(e) ==
  IF e.enabled THEN e.skillsets > 0
               ELSE e.skillsets = 0 /\ ~ e.knowledge /\ ~ e.details

Counts(s) == {s.replicas, s.partitions}

ListsItsFeatures(s) ==
  /\ s.semantic.enabled <=> "semantic_ranker" \in s.features
  /\ s.vector.enabled <=> "vector_search" \in s.features
  /\ s.enrichment.enabled <=> "ai_enrichment" \in s.features
  /\ s.indexers > 0 => "indexers" \in s.features
  /\ s.enrichment.knowledge => "knowledge_store" \in s.features
  /\ s.private => "private_endpoints" \in s.features
  /\ s.zones => "availability_zones" \in s.features

ValidConfiguration(s) ==
  /\ ValidSemantic(s.semantic)
  /\ ValidVector(s.vector)
  /\ ValidEnrichment(s.enrichment)
  /\ 0 \notin Counts(s)
  /\ IF s.mode = "dedicated" THEN Absent \notin Counts(s)
                             ELSE Counts(s) = {Absent}
  /\ s.highDensity => s.sku = "s3_hd"
  /\ ListsItsFeatures(s)
  /\ s.enrichment.skillsets <= s.skillsets

(* models/metrics.py.                                                      *)
ValidMetrics(o) == o.window \in 1..365 /\ o.peak >= o.average

ValidSnapshot(s) ==
  ValidConfiguration(s.configuration) /\ \A o \in s.metrics : ValidMetrics(o)

(* validate_snapshot_consistency, which assumes that there are metrics.    *)
Consistent(s) ==
  \A o \in s.metrics :
    /\ o.semantic.queries > 0 => s.configuration.semantic.enabled
    /\ o.vector.queries > 0 => s.configuration.vector.enabled
    /\ o.enrichment + o.invocations > 0 => s.configuration.enrichment.enabled

(* IngestionService.ingest_payload: valid, refused with a ValueError, or a *)
(* crash on a snapshot without metrics, which the schema allows.           *)
Ingested(s) ==
  IF ~ ValidSnapshot(s) THEN "invalid"
  ELSE IF s.metrics = {} THEN "crash"
  ELSE IF Consistent(s) THEN "ok" ELSE "invalid"
=============================================================================
