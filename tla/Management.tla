------------------------------ MODULE Management ------------------------------
(***************************************************************************)
(* The adapters of live Azure: discovery through the Resource Graph        *)
(* (azure_resource_graph.py) and the snapshot of one service through the   *)
(* management plane and the data plane (azure_search_management.py).       *)
(*                                                                         *)
(* A service of Azure is a record; each document its data plane serves has *)
(* an outcome, which Azure and the network choose: it comes ("ok"), it is  *)
(* denied (credentials), refused (an HTTP status), garbled (no JSON, no    *)
(* connection or a timeout), odd (JSON, but no object), or dropped: the    *)
(* connection breaks while it is answered or read, or it is no UTF-8, which*)
(* no handler expects, so that the snapshot is lost with it.               *)
(***************************************************************************)
EXTENDS Analysis, FiniteSets, Sequences

Collections == {"indexes", "indexers", "datasources", "skillsets"}
Documents   == Collections \cup {"servicestats", "indexstats"}
Outcomes    == {"ok", "denied", "refused", "garbled", "odd", "dropped"}

(* Slip: an HTTP status is passed over.                                    *)
NotedButRefusals == {"denied", "garbled"}

(* What _get_search_document catches and makes a note of.                  *)
Noted == {"denied", "refused", "garbled"}

(* Without indexes nobody asks for their statistics; without an endpoint   *)
(* nobody asks for anything.                                               *)
Requested(service, outcome) ==
  IF ~ service.endpoint THEN {}
  ELSE Documents \ When(outcome["indexes"] # "ok" \/ service.indexes = {}, "indexstats")

(* _list_search_collection: what was not fetched is empty.                 *)
Collected(service, outcome, document, items) ==
  IF document \in Requested(service, outcome) /\ outcome[document] = "ok"
  THEN items ELSE {}

(* _map_search_sku knows every SKU of ours by some name, and no other.     *)
SupportedSku(name) == name \in Skus

(* _detect_semantic_configuration: an index says so, or the service does.  *)
DetectSemantic(service, indexes) ==
  LET configured == \E index \in indexes : index.semantic
  IN [enabled |-> configured \/ service.semantic, details |-> configured]

(* _detect_vector_configuration: vector fields, or settings (a profile or  *)
(* an algorithm).  The vectorizer is looked for on its own, and integrated *)
(* vectorization follows it, enabled or not.                               *)
DetectVector(indexes) ==
  LET enabled == \E index \in indexes : index.vectorFields \/ index.vectorSettings
      vectorizer == \E index \in indexes : index.vectorizer
  IN [enabled |-> enabled, algorithm |-> enabled, vectorizer |-> enabled /\ vectorizer,
      integrated |-> vectorizer, details |-> enabled]

(* Slip: enrichment counts at least one skillset.                          *)
DetectSomeEnrichment(skillsets) ==
  [enabled   |-> skillsets # {},
   skillsets |-> Larger(Cardinality(skillsets), 1),
   knowledge |-> \E skillset \in skillsets : skillset.knowledge,
   details   |-> skillsets # {}]

(* _detect_enrichment: without skillsets it is off.                        *)
DetectEnrichment(skillsets) ==
  LET enabled == skillsets # {}
  IN [enabled   |-> enabled,
      skillsets |-> IF enabled THEN Cardinality(skillsets) ELSE 0,
      knowledge |-> \E skillset \in skillsets : skillset.knowledge,
      details   |-> enabled]

(* _build_configuration                                                    *)
BuildConfiguration(service, outcome) ==
  LET indexes   == Collected(service, outcome, "indexes", service.indexes)
      indexers  == Collected(service, outcome, "indexers", service.indexers)
      skillsets == Collected(service, outcome, "skillsets", service.skillsets)
      semantic   == DetectSemantic(service, indexes)
      vector     == DetectVector(indexes)
      enrichment == DetectEnrichment(skillsets)
  IN  [mode        |-> IF Absent \in {service.replicas, service.partitions}
                       THEN "serverless" ELSE "dedicated",
       sku         |-> service.sku,
       replicas    |-> service.replicas,
       partitions  |-> service.partitions,
       highDensity |-> service.highDensity \/ service.sku = "s3_hd",
       zones       |-> service.zones,
       private     |-> service.private,
       indexes     |-> Cardinality(indexes),
       indexers    |-> Cardinality(indexers),
       skillsets   |-> Cardinality(skillsets),
       features    |-> Enabled([semantic_ranker    |-> semantic.enabled,
                                vector_search      |-> vector.enabled,
                                ai_enrichment      |-> enrichment.enabled,
                                knowledge_store    |-> enrichment.knowledge,
                                indexers           |-> indexers # {},
                                private_endpoints  |-> service.private,
                                availability_zones |-> service.zones]),
       semantic    |-> semantic,
       vector      |-> vector,
       enrichment  |-> enrichment]

(* The notes: of every document that did not come, of the statistics that  *)
(* did, and of the metrics that are never there.                           *)
Notes(service, outcome) ==
  LET asked == Requested(service, outcome)
  IN {<<d, outcome[d]>> : d \in {d \in asked : outcome[d] \in Noted}}
       \cup {<<d, "fetched">> : d \in {d \in asked \ Collections : outcome[d] = "ok"}}
       \cup {<<"metrics", "missing">>}

Raised(error) == [status |-> "raised", error |-> error]

(* ingest_service: an error of the management plane, one that is not       *)
(* expected, a configuration that does not validate, or a snapshot.        *)
IngestService(service, outcome) ==
  LET s == BuildConfiguration(service, outcome)
      dropped == \E d \in Requested(service, outcome) : outcome[d] = "dropped"
  IN IF service.reply # "ok" THEN Raised(service.reply)
     ELSE IF dropped THEN Raised("unexpected")
     ELSE IF ~ SupportedSku(service.sku) THEN Raised("management")
     ELSE IF ~ ValidConfiguration(s) THEN Raised("invalid")
     ELSE [status |-> "ok", notes |-> Notes(service, outcome),
           snapshot |-> [configuration |-> s, metrics |-> {}]]

-----------------------------------------------------------------------------
(* Discovery: pages of rows, of which those without an identity are left   *)
(* out.  A page that fails fails the whole.                                *)

Matches(row, wanted) == wanted = "any" \/ row.name = wanted

Rows(page, wanted) == {row \in page : row.complete /\ Matches(row, wanted)}

DiscoverServices(pages, wanted, reply) ==
  LET failing == {i \in DOMAIN pages : reply[i] # "ok"}
      first == CHOOSE i \in failing : \A j \in failing : i <= j
  IN IF failing # {} THEN Raised(reply[first])
     ELSE [status |-> "ok", services |-> UNION {Rows(pages[i], wanted) : i \in DOMAIN pages}]
=============================================================================
