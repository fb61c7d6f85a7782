------------------------------ MODULE MCAdvisor ------------------------------
(* The workloads, requests and services of the instance: every threshold of *)
(* the analyzers and of the price list has a workload on each side of it.   *)
EXTENDS Advisor

Base ==
  [model |-> "dedicated", sku |-> "s1", replicas |-> 2, partitions |-> 2,
   zones |-> FALSE, semantic |-> FALSE, vector |-> FALSE, enrichment |-> FALSE,
   knowledge |-> FALSE, private |-> FALSE, indexers |-> 0, skillsets |-> 0,
   size |-> 20, vectorSize |-> 4]

MCConfigurations ==
       {[Base EXCEPT !.replicas = r, !.partitions = p] : r \in {1, 4}, p \in {1, 2}}
  \cup {[Base EXCEPT !.sku = "s3_hd", !.replicas = 1],
        [Base EXCEPT !.sku = "basic", !.replicas = 1, !.partitions = 1],
        [Base EXCEPT !.sku = "free", !.replicas = 1, !.partitions = 1],
        [Base EXCEPT !.model = "serverless"],
        [Base EXCEPT !.semantic = TRUE, !.vector = TRUE],
        [Base EXCEPT !.semantic = TRUE, !.enrichment = TRUE, !.indexers = 1],
        [Base EXCEPT !.vector = TRUE, !.zones = TRUE, !.partitions = 1]}

Calm ==
  [window |-> 7, monthly |-> 50000, qps |-> 0, peak |-> 1, latency |-> 100,
   updates |-> 0, replicaUse |-> 10, partitionUse |-> 60, storageUse |-> 40,
   semanticPerDay |-> 0, vectorPerDay |-> 0]

Quiet  == [Calm EXCEPT !.monthly = 600000, !.replicaUse = 25, !.semanticPerDay = 100]
Steady == [Calm EXCEPT !.monthly = 900000, !.qps = 12, !.replicaUse = 45,
                       !.semanticPerDay = 12857, !.vectorPerDay = 6000,
                       !.partitionUse = 80, !.storageUse = 60]
Loaded == [Calm EXCEPT !.monthly = 6000000, !.qps = 30, !.peak = 60, !.latency = 700,
                       !.replicaUse = 90, !.storageUse = 90, !.partitionUse = 90,
                       !.updates = 50, !.semanticPerDay = 90000]
Odd    == [Calm EXCEPT !.window = 400]

MCMetrics == {Calm, Quiet, Steady, Loaded, Odd}

Replicas(from, to) == Change("capacity", "replica_count", from, to)
Partitions(from, to) == Change("capacity", "partition_count", from, to)

MCProposals ==
  {<<>>, <<Change("capacity", "colour", 1, 2)>>,
   <<Change("features", "semantic_ranker_enabled", Absent, FALSE)>>,
   <<Change("capacity", "sku", Absent, "s2")>>,
   <<Replicas(4, 3), Partitions(2, 2)>>,
   <<Replicas(4, 4), Partitions(2, 1)>>,
   <<Replicas(4, 2), Replicas(4, 5)>>,
   <<Replicas(4, 5), Replicas(4, 2)>>}
    \cup {<<Replicas(from, 3)>> : from \in {Absent, 1, 4}}

-----------------------------------------------------------------------------
Good    == BuildSnapshot([Base EXCEPT !.vector = TRUE], Calm)
Shared  == BuildSnapshot([Base EXCEPT !.model = "serverless"], Quiet)
Invalid == BuildSnapshot(Base, Odd)
Unlike  == [Shared EXCEPT !.metrics =
              {[o EXCEPT !.vector.queries = 1] : o \in Shared.metrics}]
Bare    == [Good EXCEPT !.metrics = {}]

MCRequests ==
  {[snapshot |-> s, kind |-> kind, payload |-> p, file |-> f,
    includeCost |-> cost, asksCost |-> FALSE,
    includeRecommendations |-> FALSE, asksAdvice |-> advice] :
     s \in {{}, {Shared}, {Invalid}, {Unlike}}, kind \in {"object", "mapping"},
     p \in {{}, {Good}, {Unlike}, {Bare}}, f \in {{}, {Shared}, {Invalid}},
     cost, advice \in BOOLEAN}

MCRetries == {-1, 0, 2}

-----------------------------------------------------------------------------
Index(name, vectors, settings, vectorizer) ==
  [name |-> name, semantic |-> name = "a", vectorFields |-> vectors,
   vectorSettings |-> settings, vectorizer |-> vectorizer]

Site ==
  [reply |-> "ok", sku |-> "s1", replicas |-> 2, partitions |-> 1,
   highDensity |-> FALSE, endpoint |-> TRUE, semantic |-> FALSE, zones |-> FALSE,
   private |-> TRUE, indexes |-> {Index("a", TRUE, TRUE, TRUE), Index("b", FALSE, FALSE, FALSE)},
   indexers |-> {"nightly"}, skillsets |-> {[name |-> "ocr", knowledge |-> TRUE]}]

MCSites ==
  {Site, [Site EXCEPT !.indexes = {}, !.skillsets = {}],
   [Site EXCEPT !.semantic = TRUE, !.sku = "s3_hd", !.zones = TRUE],
   [Site EXCEPT !.endpoint = FALSE],
   [Site EXCEPT !.reply = "not_found"],
   [Site EXCEPT !.sku = "s9"],
   [Site EXCEPT !.highDensity = TRUE],
   [Site EXCEPT !.replicas = Absent],
   [Site EXCEPT !.replicas = Absent, !.partitions = Absent],
   [Site EXCEPT !.indexes = {Index("b", FALSE, FALSE, TRUE)}]}

(* At most two documents are disturbed at a time, or all of them alike.     *)
MCFaults ==
  {[d \in Documents |-> IF d = x THEN a ELSE IF d = y THEN b ELSE "ok"] :
     x, y \in Documents, a, b \in Outcomes}
  \cup {[d \in Documents |-> a] : a \in Outcomes}

Row(name, complete) == [name |-> name, complete |-> complete]

MCListings ==
  {[pages |-> <<{Row("hotel", TRUE), Row("motel", TRUE)}, {Row("hotel", complete)}>>,
    replies |-> <<first, second>>] :
     complete \in BOOLEAN, first, second \in {"ok", "denied", "management"}}
=============================================================================
