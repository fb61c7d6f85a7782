----------------------------- MODULE Orchestration -----------------------------
(***************************************************************************)
(* The orchestrator (orchestration/): a question about a workload goes to  *)
(* the ingestion, the analysis, the cost and the recommendation agent, in  *)
(* one of two modes.                                                       *)
(*                                                                         *)
(* In local mode (orchestrator.py) the tools are called one after the      *)
(* other and an error is the end: LocalAnswer.  In framework mode          *)
(* (framework.py) every call is tried again a number of times, and a       *)
(* transcript is kept: the actions below.  Of the tools only the reading   *)
(* of a file depends on more than its arguments: the file may be missing   *)
(* now and there a moment later.                                           *)
(***************************************************************************)
EXTENDS Advice

CONSTANTS
  Requests,     \* the requests that are made
  Retries       \* values of retry_attempts; the environment may set any

(* A snapshot, a payload and a file are sets of at most one.               *)
AtMostOne(set) == \A x, y \in set : x = y

WellFormed(r) ==
  /\ AtMostOne(r.snapshot) /\ AtMostOne(r.payload) /\ AtMostOne(r.file)
  /\ \A s \in r.snapshot \cup r.payload \cup r.file : AtMostOne(s.metrics)

ASSUME RequestsAssumption == \A r \in Requests : WellFormed(r)
ASSUME RetriesAssumption  == Retries \subseteq Int

VARIABLES
  request,      \* the request, a set of at most one
  retryAttempts,
  stage,        \* the tool that is called next; or "idle", "done", "failed"
  attempt,      \* the number of the next call of it
  results,      \* what the stages before have returned
  transcript,   \* the completed calls: stage and attempt
  calls         \* the calls of each tool, completed or not, up to one too many

orchestrationVars == <<request, retryAttempts, stage, attempt, results, transcript, calls>>

(* decompose_query: the flag of the caller or a word of the question.      *)
Plan(r) ==
  [cost |-> r.includeCost \/ r.asksCost,
   recommendation |-> r.includeRecommendations \/ r.asksAdvice]

-----------------------------------------------------------------------------
(* The tools.  Each returns the set of its result, empty for an exception. *)

(* validate_snapshot: an object passes as it is, a mapping has to validate *)
ValidateSnapshot(r) ==
  {s \in r.snapshot : r.kind = "object" \/ ValidSnapshot(s)}

(* ingest_config and ingest_config_file                                    *)
IngestConfig(payload) == {s \in payload : Ingested(s) = "ok"}

IngestConfigFile(file, readable) == IF readable THEN IngestConfig(file) ELSE {}

(* _resolve_snapshot of the local orchestrator.                            *)
Resolve(r, readable) ==
  IF r.snapshot # {} THEN ValidateSnapshot(r)
  ELSE IF r.payload # {} THEN IngestConfig(r.payload)
  ELSE IngestConfigFile(r.file, readable)

NothingGiven(r) == r.snapshot = {} /\ r.payload = {} /\ r.file = {}

(* estimate_cost over _coerce_cost_request, which takes the metrics for    *)
(* granted and one compute unit for every query.                           *)
CostRequest(s, o) ==
  [dedicated  |-> When(s.mode = "dedicated",
                       Dedicated(s.sku, Larger(s.replicas, 1), Larger(s.partitions, 1))),
   serverless |-> {Serverless(o.monthly, 4)},
   features   |-> Features(Portion(o.monthly, o.semantic), 30 * o.enrichment,
                           IF s.vector.enabled THEN o.size ELSE 0)]

EstimateCost(snapshot) ==
  {CostModel(CostRequest(snapshot.configuration, o)) : o \in snapshot.metrics}

(* generate_recommendations: the dumps of an analysis and of a cost model  *)
(* have none of the keys the service looks for.                            *)
NoFacts ==
  [flags |-> {}, numbers |-> <<>>, hosting |-> "dedicated",
   semanticRatio |-> [queries |-> 0, of |-> 1]]

GenerateRecommendations(analysis, cost) ==
  Report(NoFacts, [potential |-> 0, recommended |-> Absent, confidence |-> "todo"])

(* Slip: the payload goes before the snapshot.                             *)
PayloadFirst(r, readable) ==
  IF r.payload # {} THEN IngestConfig(r.payload)
  ELSE IF r.snapshot # {} THEN ValidateSnapshot(r)
  ELSE IngestConfigFile(r.file, readable)

(* _invoke_ingestion_agent of the framework, which chooses for itself.     *)
InvokeIngestionAgent(r, readable) ==
  IF r.snapshot # {} THEN ValidateSnapshot(r)
  ELSE IF r.payload # {} THEN IngestConfig(r.payload)
  ELSE IngestConfigFile(r.file, readable)

(* What the tool of a stage returns.                                       *)
Tool(which, r, got, readable) ==
  CASE which = "ingestion"      -> InvokeIngestionAgent(r, readable)
    [] which = "analysis"       -> {Analyze(The(got.ingestion))}
    [] which = "cost"           -> EstimateCost(The(got.ingestion))
    [] which = "recommendation" -> {GenerateRecommendations(got.analysis, got.cost)}

-----------------------------------------------------------------------------
Stages == {"ingestion", "analysis", "cost", "recommendation"}

Planned(r) ==
  <<"ingestion", "analysis">>
    \o (IF Plan(r).cost THEN <<"cost">> ELSE <<>>)
    \o (IF Plan(r).recommendation THEN <<"recommendation">> ELSE <<>>)

Nothing == [which \in Stages |-> {}]

(* build_summary                                                           *)
Summary(got) ==
  [findings |-> {Cardinality(f) : f \in got.analysis},
   delta |-> {c.difference : c \in got.cost},
   recommendations |-> {Len(x.recommendations) : x \in got.recommendation}]

OrchestratorResponse(got) ==
  [snapshot |-> got.ingestion, analysis |-> got.analysis, cost |-> got.cost,
   recommendations |-> got.recommendation, summary |-> Summary(got)]

(* OrchestratorAgent.handle_request: the tools in turn, up to an error.    *)
LocalResults(r, readable) ==
  LET snapshot == Resolve(r, readable)
      cost == IF Plan(r).cost THEN UNION {EstimateCost(s) : s \in snapshot} ELSE {}
      analysis == {Analyze(s) : s \in snapshot}
  IN [ingestion |-> snapshot, analysis |-> analysis, cost |-> cost,
      recommendation |-> IF Plan(r).recommendation
                         THEN {GenerateRecommendations(analysis, cost)} ELSE {}]

LocalFails(r, readable) ==
  LET got == LocalResults(r, readable)
  IN got.ingestion = {} \/ (Plan(r).cost /\ got.cost = {})

LocalAnswer(r, readable) ==
  IF NothingGiven(r) THEN OrchestratorResponse(Nothing)
  ELSE IF LocalFails(r, readable) THEN [error |-> TRUE]
  ELSE OrchestratorResponse(LocalResults(r, readable))

-----------------------------------------------------------------------------
OrchestrationInit ==
  /\ request = {} /\ retryAttempts \in Retries
  /\ stage = "idle" /\ attempt = 1
  /\ results = Nothing
  /\ transcript = <<>>
  /\ calls = [which \in Stages |-> 0]

(* AgentFrameworkOrchestrator.handle_request: without any input the plan   *)
(* is the answer.                                                          *)
HandleRequest(r) ==
  /\ stage = "idle"
  /\ request' = {r}
  /\ stage' = IF NothingGiven(r) THEN "done" ELSE "ingestion"
  /\ UNCHANGED <<retryAttempts, attempt, results, transcript, calls>>

Following(which, r) ==
  LET plan == Planned(r)
      i == CHOOSE i \in DOMAIN plan : plan[i] = which
  IN IF i = Len(plan) THEN "done" ELSE plan[i + 1]

(* The range of attempts is empty for a negative number of retries.        *)
LastAttempt == retryAttempts + 1

(* Slip: the last attempt is not made.                                     *)
ExhaustedEarly(n) == n >= retryAttempts

(* Slip: one attempt too many is made.                                     *)
ExhaustedLate(n) == n > LastAttempt

Exhausted(n) == n > retryAttempts

(* _invoke_specialist                                                      *)
NeverInvoked ==
  /\ stage \in Stages
  /\ LastAttempt < 1
  /\ stage' = "failed"
  /\ UNCHANGED <<request, retryAttempts, attempt, results, transcript, calls>>

(* Slip: the attempts of one tool count for the next.                      *)
SucceedCountingOn(r, value) ==
  /\ results' = [results EXCEPT ![stage] = {value}]
  /\ transcript' = Append(transcript, <<stage, attempt>>)
  /\ stage' = Following(stage, r)
  /\ UNCHANGED attempt

Succeed(r, value) ==
  /\ results' = [results EXCEPT ![stage] = {value}]
  /\ transcript' = Append(transcript, <<stage, attempt>>)
  /\ stage' = Following(stage, r)
  /\ attempt' = 1

(* Slip: the last failure is not raised.                                   *)
FailQuietly ==
  /\ IF Exhausted(attempt) THEN UNCHANGED <<stage, attempt>>
     ELSE attempt' = attempt + 1 /\ UNCHANGED stage
  /\ UNCHANGED <<results, transcript>>

Fail ==
  /\ IF Exhausted(attempt) THEN stage' = "failed" /\ UNCHANGED attempt
     ELSE attempt' = attempt + 1 /\ UNCHANGED stage
  /\ UNCHANGED <<results, transcript>>

InvokeSpecialist ==
  /\ stage \in Stages
  /\ LastAttempt >= 1
  /\ \E r \in request, readable \in BOOLEAN :
       LET returned == Tool(stage, r, results, readable)
       IN IF returned = {} THEN Fail ELSE \E value \in returned : Succeed(r, value)
  /\ calls' = [calls EXCEPT ![stage] = Smaller(@ + 1, LastAttempt + 1)]
  /\ UNCHANGED <<request, retryAttempts>>

OrchestrationNext ==
  (\E r \in Requests : HandleRequest(r)) \/ NeverInvoked \/ InvokeSpecialist

(* The thread of the request runs the loop to its end.                     *)
OrchestrationFairness == WF_orchestrationVars(NeverInvoked \/ InvokeSpecialist)

Response == OrchestratorResponse(results)

-----------------------------------------------------------------------------
(* The framework answers as the local orchestrator would, with the file    *)
(* there to be read: retries, the transcript and the precedence of the     *)
(* inputs change nothing.                                                  *)
AnswersAsLocal ==
  stage = "done" => \A r \in request : Response = LocalAnswer(r, TRUE)

(* _build_notes tells of every planned stage, in the order of the plan,    *)
(* and of the attempt that counted: as many as there were calls.           *)
NotesTellTheTruth ==
  stage = "done" =>
    \A r \in request :
      ~ NothingGiven(r) =>
        transcript = [i \in DOMAIN Planned(r) |-> <<Planned(r)[i], calls[Planned(r)[i]]>>]

(* A request is given up only when one tool has failed as often as it is   *)
(* allowed to; no later tool is called, and what is given up is a request  *)
(* the local orchestrator could not answer either.                         *)
GivesUpInTime ==
  stage = "failed" =>
    \A r \in request :
      LET plan   == Planned(r)
          failed == Len(transcript) + 1
      IN /\ failed \in DOMAIN plan
         /\ calls[plan[failed]] = Larger(LastAttempt, 0)
         /\ \A i \in DOMAIN plan : i > failed => calls[plan[i]] = 0
         /\ LastAttempt < 1 \/ LocalFails(r, FALSE)

(* Every request ends, answered or given up.                               *)
RequestsAreAnswered == request # {} ~> stage \in {"done", "failed"}
=============================================================================
