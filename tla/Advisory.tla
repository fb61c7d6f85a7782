------------------------------- MODULE Advisory -------------------------------
(***************************************************************************)
(* A client works on one service: it has it analyzed, asks for advice on   *)
(* the configuration and the metrics or on the analysis it got earlier,    *)
(* simulates changes, compares the pricing models, and now and then does   *)
(* what it was told.  The client and the metrics are external; the rest    *)
(* are the endpoints of the API.                                           *)
(***************************************************************************)
EXTENDS Advice

CONSTANTS
  Configurations,   \* the configurations a service starts with
  Metrics,          \* what is observed of it
  Limits,           \* values of max_recommendations
  Proposals         \* sequences of changes that are simulated

ASSUME WorkloadAssumption ==
  Configurations \subseteq ApiConfigurations /\ Metrics \subseteq ApiMetrics

(* The schema has bounds on the limit.                                     *)
ASSUME LimitsAssumption == Limits \subseteq 1..20

(* A proposal is a list of changes.  What it proposes for a count is a     *)
(* whole number; the scenario with anything else does not validate.        *)
ASSUME ProposalsAssumption ==
  \A changes \in Proposals :
    /\ changes \in Seq({changes[i] : i \in DOMAIN changes})
    /\ \A i \in DOMAIN changes :
         changes[i].attribute \in {"replica_count", "partition_count"} =>
           changes[i].proposed \in Int

VARIABLES
  configuration,    \* the configuration of the service, now
  metrics,          \* its metrics
  analysis,         \* the findings of the last analysis, a set of at most one
  answer            \* the last answer of the API, with its kind

advisoryVars == <<configuration, metrics, analysis, answer>>

NoAnswer == [kind |-> "none"]

AdvisoryInit ==
  /\ configuration \in Configurations
  /\ metrics \in Metrics
  /\ analysis = {}
  /\ answer = NoAnswer

(* The client has an answer; of a refusal only that it was one.            *)
Keeps(kind, asked, body) ==
  /\ answer' = IF body.status = 200 THEN [kind |-> kind, asked |-> asked, body |-> body]
                                    ELSE [kind |-> "refusal", body |-> body]
  /\ UNCHANGED <<configuration, metrics>>

(* POST /analyze (analyze_workload); what does not validate is refused.    *)
AnalyzeWorkload ==
  LET snapshot == BuildSnapshot(configuration, metrics)
      response == AnalyzeResponse(Analyze(snapshot))
  IN IF Ingested(snapshot) = "ok"
     THEN Keeps("analysis", snapshot, response) /\ analysis' = {response.findings}
     ELSE Keeps("analysis", snapshot, Refused(422)) /\ UNCHANGED analysis

(* POST /recommend with whatever the client has: the analysis it got       *)
(* earlier, the workload, both, or too little.                             *)
Recommend ==
  \E a \in SUBSET analysis, c \in SUBSET {configuration}, m \in SUBSET {metrics},
     max \in Limits :
    LET posted == [analysis |-> a, configuration |-> c, metrics |-> m, max |-> max]
    IN Keeps("advice", posted, RecommendOptimizations(posted)) /\ UNCHANGED analysis

(* POST /simulate with changes, with or without metrics.                   *)
Simulate ==
  \E changes \in Proposals, m \in SUBSET {metrics} :
    /\ Keeps("simulation", changes, SimulateChanges(configuration, m, changes))
    /\ UNCHANGED analysis

(* POST /simulate with a cost model request, either half of it missing.    *)
CompareModels ==
  \E missing \in SUBSET {"dedicated", "serverless"} :
    LET request == BuildCostModelRequest(configuration, {metrics})
        posted == [request EXCEPT
                     !.dedicated = IF "dedicated" \in missing THEN {} ELSE @,
                     !.serverless = IF "serverless" \in missing THEN {} ELSE @]
    IN Keeps("comparison", posted, CompareOptions(posted)) /\ UNCHANGED analysis

(* The client follows an item of the advice, if the service still is what  *)
(* the item speaks of.                                                     *)
Followed(c, item) ==
  CASE item.title = "Reduce replicas" /\ item.from = c.replicas ->
         [c EXCEPT !.replicas = item.to]
    [] item.title = "Reduce partitions" /\ item.from = c.partitions ->
         [c EXCEPT !.partitions = item.to]
    [] item.title = "Move to serverless"      -> [c EXCEPT !.model = "serverless"]
    [] item.title = "Disable semantic ranker" -> [c EXCEPT !.semantic = FALSE]
    [] OTHER                                  -> c

Adopt ==
  /\ answer.kind = "advice"
  /\ \E i \in DOMAIN answer.body.items :
       configuration' = Followed(configuration, answer.body.items[i])
  /\ configuration' # configuration
  /\ UNCHANGED <<metrics, analysis, answer>>

AdvisoryNext == AnalyzeWorkload \/ Recommend \/ Simulate \/ CompareModels \/ Adopt

-----------------------------------------------------------------------------
Advised == answer.kind = "advice"

Listed(title) == \E i \in DOMAIN answer.body.items : answer.body.items[i].title = title

(* Whoever follows the advice pays no more a month than before, by the     *)
(* advisor's own cost model: the thresholds of the analyzers, of the       *)
(* adapter and the price list agree.  (The free tier costs nothing, and is *)
(* told to move to serverless all the same; it is left out here.)          *)
FollowingAdviceNeverCostsMore ==
  [][configuration.sku # "free" =>
       MonthlyCost(configuration', {metrics}) <= MonthlyCost(configuration, {metrics})
    ]_configuration

(* What a finding mentions is acted on: the analyzers work on shares of a  *)
(* rounded daily average, the adapter recomputes them from the raw metrics *)
(* and greps the findings for words, and neither way gets lost.            *)
Acts == [replica |-> "Reduce replicas", partition |-> "Reduce partitions",
         serverless |-> "Move to serverless", semantic |-> "Disable semantic ranker",
         vector |-> "Optimize vector search"]

FindingsAreActedOn ==
  Advised /\ answer.body.source = "end_to_end"
     /\ Len(answer.body.items) < answer.asked.max =>
    \A topic \in Topics(answer.body.findings) \cap DOMAIN Acts : Listed(Acts[topic])

(* The list is cut after it is ranked: as many of the urgent items as the  *)
(* limit lets through are in it, and the summary counts the rest.          *)
UrgentAdviceSurvives ==
  Advised =>
    Cardinality({i \in DOMAIN answer.body.items : answer.body.items[i].priority = "high"})
      = Smaller(answer.asked.max, answer.body.urgent)

(* A simulation that takes capacity away says that this is a risk, when    *)
(* the client stated the current counts as they are: several changes of    *)
(* one count included, of which the last one holds.                        *)
CapacityOf(c) == [replica_count |-> c.replicas, partition_count |-> c.partitions]

Truthful(changes) ==
  \A i \in DOMAIN changes :
    changes[i].attribute \in DOMAIN CapacityOf(configuration) =>
      changes[i].current = CapacityOf(configuration)[changes[i].attribute]

CapacityCutIsFlagged ==
  answer.kind = "simulation" /\ Truthful(answer.asked) =>
    LET proposed == ApplyProposedChanges(configuration, answer.asked)
    IN \/ answer.body.risk
       \/ /\ proposed.replicas >= configuration.replicas
          /\ proposed.partitions >= configuration.partitions

(* docs/api/recommend.md and docs/api/simulate.md work the same example:   *)
(* what a recommendation promises to save is what the simulation of that   *)
(* change shows.                                                           *)
Saves(item) ==
  MonthlyCost(configuration, {metrics})
    - MonthlyCost(Followed(configuration, item), {metrics})

ReductionsSaveWhatTheyClaim ==
  Advised /\ answer.body.source = "end_to_end" =>
    \A i \in DOMAIN answer.body.items :
      LET item == answer.body.items[i]
      IN item.title = "Reduce replicas" /\ item.from = configuration.replicas =>
           item.delta = {- RoundDiv(Saves(item), 100)}
=============================================================================
