-------------------------------- MODULE Advisor --------------------------------
(***************************************************************************)
(* The advisor as its clients meet it.  A client works through the         *)
(* endpoints (Advisory), asks the orchestrator about a workload            *)
(* (Orchestration), or looks at live services (Management), where it may   *)
(* hand the snapshot it gets to the orchestrator.  No two of these share   *)
(* state, so one client, whose session is of one of the three kinds, shows *)
(* what there is to see.                                                   *)
(***************************************************************************)
EXTENDS Advisory, Orchestration, Management

CONSTANTS
  Sites,        \* the services of Azure
  Faults,       \* what may happen to their documents: Documents -> Outcomes
  Listings      \* sequences of pages of the Resource Graph, with the replies

ASSUME FaultsAssumption == Faults \subseteq [Documents -> Outcomes]
ASSUME SitesAssumption  ==
  \A s \in Sites :
    IsFiniteSet(s.indexes) /\ IsFiniteSet(s.indexers) /\ IsFiniteSet(s.skillsets)

VARIABLES
  session,
  live          \* the last result of the live endpoints, with its kind

advisorVars == <<advisoryVars, orchestrationVars, session, live>>

NothingLive == [kind |-> "none"]

(* In a session the variables of the others are of no interest.            *)
Init ==
  /\ session \in {"api", "agents", "live"}
  /\ live = NothingLive
  /\ AdvisoryInit /\ OrchestrationInit
  /\ session # "api" =>
       configuration = The(Configurations) /\ metrics = The(Metrics)
  /\ session = "api" => retryAttempts = The(Retries)

Endpoints == session = "api" /\ AdvisoryNext /\ UNCHANGED <<orchestrationVars, session, live>>

Agents ==
  /\ session = "agents" \/ (session = "live" /\ request # {})
  /\ OrchestrationNext
  /\ UNCHANGED <<advisoryVars, session, live>>

(* A look at Azure keeps nothing that a later look could depend on: one in *)
(* a session is enough.                                                    *)
Discover ==
  /\ session = "live" /\ live.kind = "none" /\ stage = "idle"
  /\ \E listing \in Listings, wanted \in {"any", "hotel"} :
       live' = [kind |-> "discovery", listing |-> listing, wanted |-> wanted,
                result |-> DiscoverServices(listing.pages, wanted, listing.replies)]
  /\ UNCHANGED <<advisoryVars, orchestrationVars, session>>

Ingest ==
  /\ session = "live" /\ live.kind = "none" /\ stage = "idle"
  /\ \E service \in Sites, outcome \in Faults :
       live' = [kind |-> "ingestion", service |-> service, outcome |-> outcome,
                result |-> IngestService(service, outcome)]
  /\ UNCHANGED <<advisoryVars, orchestrationVars, session>>

(* The snapshot is handed on as the object it is.                          *)
About(snapshot, cost, advice) ==
  [snapshot |-> {snapshot}, kind |-> "object", payload |-> {}, file |-> {},
   includeCost |-> FALSE, asksCost |-> cost,
   includeRecommendations |-> advice, asksAdvice |-> FALSE]

AskAboutLive ==
  /\ session = "live"
  /\ live.kind = "ingestion" /\ live.result.status = "ok"
  /\ \E cost, advice \in BOOLEAN : HandleRequest(About(live.result.snapshot, cost, advice))
  /\ live' = NothingLive
  /\ UNCHANGED <<advisoryVars, session>>

Next == Endpoints \/ Agents \/ Discover \/ Ingest \/ AskAboutLive

Spec == Init /\ [][Next]_advisorVars /\ OrchestrationFairness

-----------------------------------------------------------------------------
(* Configurations stay ones the API accepts, answers are of a known kind,  *)
(* and the orchestrator is at a stage it knows with an attempt it allows.  *)
TypeOK ==
  /\ configuration \in ApiConfigurations
  /\ metrics \in ApiMetrics
  /\ Cardinality(analysis) <= 1
  /\ answer.kind \in {"none", "analysis", "advice", "refusal", "simulation", "comparison"}
  /\ request = {} <=> stage = "idle"
  /\ stage \in Stages \cup {"idle", "done", "failed"}
  /\ attempt \in 1..Larger(LastAttempt, 1)
  /\ \A which \in Stages : Cardinality(results[which]) <= 1
  /\ live.kind \in {"none", "discovery", "ingestion"}

(* A live snapshot that shows less than the service has says so: there is  *)
(* a note on the document that is missing.  (The code is silent about a    *)
(* document that is JSON but no object, and about a service without an     *)
(* endpoint; they are left out here.)                                      *)
GapsAreNoted ==
  live.kind = "ingestion" /\ live.service.endpoint /\ live.result.status = "ok" =>
    LET held == [indexes   |-> live.service.indexes,
                 indexers  |-> live.service.indexers,
                 skillsets |-> live.service.skillsets]
    IN \A document \in DOMAIN held :
         /\ live.result.snapshot.configuration[document] < Cardinality(held[document])
         /\ live.outcome[document] # "odd"
         => \E note \in live.result.notes : note[1] = document

(* Every failure of the data plane that _get_search_document handles may   *)
(* hit any of the documents: no credential, an HTTP status, no connection, *)
(* a timeout, no JSON, no object.  A service that can be ingested with all *)
(* its documents can be ingested without these.  (A requested document     *)
(* whose connection drops, or whose body is no UTF-8, is left out here: no *)
(* handler expects that, and the code loses the whole snapshot.)           *)
OutageIsNotFatal ==
  /\ live.kind = "ingestion"
  /\ IngestService(live.service, [d \in Documents |-> "ok"]).status = "ok"
  /\ \A d \in Requested(live.service, live.outcome) : live.outcome[d] # "dropped"
  => live.result.status = "ok"
=============================================================================
