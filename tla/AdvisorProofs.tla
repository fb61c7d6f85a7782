----------------------------- MODULE AdvisorProofs -----------------------------
(***************************************************************************)
(* The advisor as a whole, for any collections of workloads, requests,     *)
(* proposals and faults.  Three clients, three invariants: AdvisoryInv     *)
(* (AdvisoryProofs) of the endpoints, OrchestrationInv of the              *)
(* orchestrator, and LiveInv of the live endpoints.                        *)
(*                                                                         *)
(* Of the orchestrator: every call of a specialist gives what the local    *)
(* orchestrator computes, the conversation of a request is a prefix of its *)
(* plan (Progress), and so an answer says what the local one says, the     *)
(* notes are true, and it gives up in time.  Of the live endpoints: a      *)
(* snapshot is made whatever part of the data plane is out of reach, and   *)
(* its gaps are noted.                                                     *)
(***************************************************************************)
EXTENDS Advisor, AdvisoryProofs

-----------------------------------------------------------------------------
(* The plan, as a sequence.                                                *)
LEMMA PlanFacts ==
  ASSUME NEW r, NEW plan, plan = Planned(r)
  PROVE  /\ plan \in Seq(Stages) /\ Len(plan) \in 2 .. 4
         /\ plan[1] = "ingestion" /\ plan[2] = "analysis"
         /\ \A i, j \in 1 .. Len(plan) : plan[i] = plan[j] => i = j
         /\ \A i \in 1 .. Len(plan) :
              /\ plan[i] = "cost" => i = 3 /\ Plan(r).cost
              /\ plan[i] = "recommendation" => i = Len(plan) /\ Plan(r).recommendation
         /\ Plan(r).cost => 3 <= Len(plan) /\ plan[3] = "cost"
         /\ Plan(r).recommendation => plan[Len(plan)] = "recommendation"
<1>1. PICK s, t, u : /\ plan = s \o t \o u /\ s = <<"ingestion", "analysis">>
                     /\ t = IF Plan(r).cost THEN <<"cost">> ELSE <<>>
                     /\ u = IF Plan(r).recommendation THEN <<"recommendation">> ELSE <<>>
  BY DEF Planned
<1>2. s \in Seq(Stages) /\ t \in Seq(Stages) /\ u \in Seq(Stages)
  <2>1. <<>> \in Seq(Stages) /\ <<"cost">> \in Seq(Stages) /\ <<"recommendation">> \in Seq(Stages)
    BY DEF Stages
  <2>2. s \in Seq(Stages)
    BY <1>1 DEF Stages
  <2>3. QED
    BY <1>1, <2>1, <2>2
<1>3. CASE Plan(r).cost /\ Plan(r).recommendation
  BY <1>1, <1>2, <1>3
<1>4. CASE Plan(r).cost /\ ~ Plan(r).recommendation
  BY <1>1, <1>2, <1>4
<1>5. CASE ~ Plan(r).cost /\ Plan(r).recommendation
  BY <1>1, <1>2, <1>5
<1>6. CASE ~ Plan(r).cost /\ ~ Plan(r).recommendation
  BY <1>1, <1>2, <1>6
<1>7. QED
  BY <1>3, <1>4, <1>5, <1>6

LEMMA FollowingIs ==
  ASSUME NEW r, NEW plan, plan = Planned(r), NEW i \in 1 .. Len(plan)
  PROVE  Following(plan[i], r) = IF i = Len(plan) THEN "done" ELSE plan[i + 1]
<1>1. plan \in Seq(Stages) /\ \A j, k \in 1 .. Len(plan) : plan[j] = plan[k] => j = k
  BY PlanFacts
<1>2. DOMAIN plan = 1 .. Len(plan)
  BY <1>1
<1>3. PICK k : k = CHOOSE j \in DOMAIN plan : plan[j] = plan[i]
  OBVIOUS
<1>4. k = i
  BY <1>1, <1>2, <1>3
<1>5. Following(plan[i], r) = IF k = Len(plan) THEN "done" ELSE plan[k + 1]
  BY <1>3 DEF Following
<1>6. QED
  BY <1>4, <1>5

-----------------------------------------------------------------------------
(* What the stages of a request return, if they return at all.             *)
Expected(r) == LocalResults(r, TRUE)

LEMMA ExpectedStages ==
  ASSUME NEW r
  PROVE  /\ Expected(r) = [which \in Stages |-> Expected(r)[which]]
         /\ ~ Plan(r).cost => Expected(r)["cost"] = {}
         /\ ~ Plan(r).recommendation => Expected(r)["recommendation"] = {}
<1>1. DOMAIN Expected(r) = Stages
  BY DEF Expected, LocalResults, Stages
<1>2. Expected(r) = [which \in DOMAIN Expected(r) |-> Expected(r)[which]]
  BY DEF Expected, LocalResults
<1>3. QED
  BY <1>1, <1>2 DEF Expected, LocalResults

LEMMA IngestionReturns ==
  ASSUME NEW r, WellFormed(r), ~ NothingGiven(r), NEW got, NEW readable
  PROVE  /\ \A v \in Tool("ingestion", r, got, readable) : Resolve(r, TRUE) = {v}
         /\ Tool("ingestion", r, got, readable) = {} => Resolve(r, FALSE) = {}
         /\ \A v \in Resolve(r, TRUE) : AtMostOne(v.metrics)
<1>1. CASE r.snapshot # {}
  <2>1. Tool("ingestion", r, got, readable) = ValidateSnapshot(r)
    BY <1>1 DEF Tool, InvokeIngestionAgent
  <2>2. Resolve(r, TRUE) = ValidateSnapshot(r) /\ Resolve(r, FALSE) = ValidateSnapshot(r)
    BY <1>1 DEF Resolve
  <2>3. QED
    BY <2>1, <2>2 DEF ValidateSnapshot, WellFormed, AtMostOne
<1>2. CASE r.snapshot = {} /\ r.payload # {}
  <2>1. Tool("ingestion", r, got, readable) = IngestConfig(r.payload)
    BY <1>2 DEF Tool, InvokeIngestionAgent
  <2>2. Resolve(r, TRUE) = IngestConfig(r.payload) /\ Resolve(r, FALSE) = IngestConfig(r.payload)
    BY <1>2 DEF Resolve
  <2>3. QED
    BY <2>1, <2>2 DEF IngestConfig, WellFormed, AtMostOne
<1>3. CASE r.snapshot = {} /\ r.payload = {}
  <2>1. Tool("ingestion", r, got, readable) = IngestConfigFile(r.file, readable)
    BY <1>3 DEF Tool, InvokeIngestionAgent
  <2>2. Resolve(r, TRUE) = IngestConfig(r.file) /\ Resolve(r, FALSE) = {}
    BY <1>3 DEF Resolve, IngestConfigFile
  <2>3. QED
    BY <2>1, <2>2 DEF IngestConfig, IngestConfigFile, WellFormed, AtMostOne
<1>4. QED
  BY <1>1, <1>2, <1>3

(* With the snapshot resolved, the other tools return what is expected.    *)
LEMMA ExpectedOf ==
  ASSUME NEW r, NEW v, Resolve(r, TRUE) = {v}
  PROVE  /\ Expected(r)["ingestion"] = {v}
         /\ Expected(r)["analysis"] = {Analyze(v)}
         /\ Plan(r).cost => Expected(r)["cost"] = EstimateCost(v)
         /\ Plan(r).recommendation =>
              Expected(r)["recommendation"] =
                {GenerateRecommendations(Expected(r)["analysis"], Expected(r)["cost"])}
BY DEF Expected, LocalResults

(* What a tool returns is what is expected of its stage, once the stages   *)
(* before have returned what was expected of them.                         *)
Due(which, r, got) ==
  /\ which \in Stages
  /\ which = "cost" => Plan(r).cost
  /\ which = "recommendation" => Plan(r).recommendation
  /\ which # "ingestion" =>
       got["ingestion"] = Expected(r)["ingestion"] /\ got["ingestion"] # {}
  /\ which = "recommendation" =>
       got["analysis"] = Expected(r)["analysis"] /\ got["cost"] = Expected(r)["cost"]

LEMMA ToolReturns ==
  ASSUME NEW r, WellFormed(r), ~ NothingGiven(r), NEW readable,
         NEW got, NEW which, Due(which, r, got)
  PROVE  /\ \A v \in Tool(which, r, got, readable) : Expected(r)[which] = {v}
         /\ Tool(which, r, got, readable) = {} => LocalFails(r, FALSE)
<1>0. /\ which \in Stages
      /\ which = "cost" => Plan(r).cost
      /\ which = "recommendation" => Plan(r).recommendation
      /\ which # "ingestion" =>
           got["ingestion"] = Expected(r)["ingestion"] /\ got["ingestion"] # {}
      /\ which = "recommendation" =>
           got["analysis"] = Expected(r)["analysis"] /\ got["cost"] = Expected(r)["cost"]
  BY DEF Due
<1>1. CASE which = "ingestion"
  <2>1. ASSUME NEW v \in Tool(which, r, got, readable) PROVE Expected(r)[which] = {v}
    <3>1. Resolve(r, TRUE) = {v}
      BY <1>1, IngestionReturns
    <3>2. Expected(r)["ingestion"] = {v}
      BY <3>1, ExpectedOf
    <3>3. QED
      BY <1>1, <3>2
  <2>2. ASSUME Tool(which, r, got, readable) = {} PROVE LocalFails(r, FALSE)
    <3>1. Resolve(r, FALSE) = {}
      BY <1>1, <2>2, IngestionReturns
    <3>2. LocalResults(r, FALSE).ingestion = {}
      BY <3>1 DEF LocalResults
    <3>3. QED
      BY <3>2 DEF LocalFails
  <2>3. QED
    BY <2>1, <2>2
<1>2. CASE which # "ingestion"
  <2>1. Resolve(r, TRUE) # {}
    BY <1>0, <1>2 DEF Expected, LocalResults
  <2>2. PICK v : Resolve(r, TRUE) = {v} /\ AtMostOne(v.metrics)
    <3>1. PICK v \in Resolve(r, TRUE) : TRUE
      BY <2>1
    <3>2. AtMostOne(Resolve(r, TRUE))
      BY DEF Resolve, WellFormed, AtMostOne, ValidateSnapshot, IngestConfig, IngestConfigFile
    <3>3. Resolve(r, TRUE) = {v}
      BY <3>1, <3>2 DEF AtMostOne
    <3>4. QED
      BY <3>1, <3>3, IngestionReturns
  <2>3. got["ingestion"] = {v} /\ The(got.ingestion) = v
    <3>1. Expected(r)["ingestion"] = {v}
      BY <2>2, ExpectedOf
    <3>2. got["ingestion"] = {v}
      BY <1>0, <1>2, <3>1
    <3>3. QED
      BY <3>2, TheOnly
  <2>4. CASE which = "analysis"
    <3>1. Tool(which, r, got, readable) = {Analyze(v)}
      BY <2>3, <2>4 DEF Tool
    <3>2. QED
      BY <2>2, <2>4, <3>1, ExpectedOf
  <2>5. CASE which = "cost"
    <3>1. Tool(which, r, got, readable) = EstimateCost(v)
      BY <2>3, <2>5 DEF Tool
    <3>2. AtMostOne(EstimateCost(v))
      BY <2>2 DEF AtMostOne, EstimateCost
    <3>3. \A x \in EstimateCost(v) : EstimateCost(v) = {x}
      BY <3>2 DEF AtMostOne
    <3>4. ASSUME EstimateCost(v) = {} PROVE LocalFails(r, FALSE)
      <4>1. Resolve(r, FALSE) \subseteq {v}
        BY <2>2 DEF Resolve, IngestConfigFile
      <4>2. LocalResults(r, FALSE).cost = {}
        BY <3>4, <4>1 DEF LocalResults
      <4>3. QED
        BY <1>0, <2>5, <4>2 DEF LocalFails
    <3>5. Expected(r)[which] = EstimateCost(v)
      BY <1>0, <2>2, <2>5, ExpectedOf
    <3>6. QED
      BY <3>1, <3>3, <3>4, <3>5
  <2>6. CASE which = "recommendation"
    <3>1. Tool(which, r, got, readable) =
            {GenerateRecommendations(Expected(r)["analysis"], Expected(r)["cost"])}
      BY <1>0, <2>6 DEF Tool
    <3>2. Expected(r)[which] =
            {GenerateRecommendations(Expected(r)["analysis"], Expected(r)["cost"])}
      BY <1>0, <2>2, <2>6, ExpectedOf
    <3>3. QED
      BY <3>1, <3>2, ZenonT(60)
  <2>7. QED
    BY <1>0, <1>2, <2>4, <2>5, <2>6 DEF Stages
<1>3. QED
  BY <1>1, <1>2

-----------------------------------------------------------------------------
OrchestrationTypeOK ==
  /\ retryAttempts \in Int
  /\ AtMostOne(request) /\ \A r \in request : WellFormed(r)
  /\ stage \in Stages \cup {"idle", "done", "failed"}
  /\ attempt \in Nat \ {0}
  /\ results = [which \in Stages |-> results[which]]
  /\ calls \in [Stages -> Nat]
  /\ transcript \in Seq(Stages \X Nat)

Untouched == results = Nothing /\ transcript = <<>> /\ calls = [which \in Stages |-> 0]

(* How far a request has come: n tools have returned what was expected.    *)
Completed(plan, n) == {plan[i] : i \in 1 .. n}

Returned(r, plan, n) ==
  /\ n <= Len(plan)
  /\ \A i \in 1 .. n : transcript[i] = <<plan[i], calls[plan[i]]>>
  /\ \A which \in Completed(plan, n) :
       results[which] = Expected(r)[which] /\ results[which] # {}
  /\ \A which \in Stages \ Completed(plan, n) : results[which] = {}
  /\ \A i \in n + 2 .. Len(plan) : calls[plan[i]] = 0

Where(r, plan, n) ==
  /\ stage \in Stages =>
       /\ n < Len(plan) /\ stage = plan[n + 1]
       /\ calls[stage] = attempt - 1
       /\ attempt <= Larger(LastAttempt, 1)
  /\ stage = "done" => n = Len(plan)
  /\ stage = "failed" =>
       /\ n < Len(plan)
       /\ calls[plan[n + 1]] = Larger(LastAttempt, 0)
       /\ LastAttempt < 1 \/ LocalFails(r, FALSE)

Progress(r) ==
  IF NothingGiven(r) THEN stage = "done" /\ Untouched
  ELSE /\ Returned(r, Planned(r), Len(transcript))
       /\ Where(r, Planned(r), Len(transcript))

OrchestrationInv ==
  /\ OrchestrationTypeOK
  /\ stage = "idle" <=> request = {}
  /\ stage = "idle" => Untouched /\ attempt = 1
  /\ \A r \in request : Progress(r)

LEMMA InitOrchestration == OrchestrationInit => OrchestrationInv
<1> SUFFICES ASSUME OrchestrationInit PROVE OrchestrationInv
  OBVIOUS
<1>1. OrchestrationTypeOK
  BY RetriesAssumption DEF OrchestrationInit, OrchestrationTypeOK, AtMostOne, Nothing
<1>2. QED
  BY <1>1 DEF OrchestrationInit, OrchestrationInv, Untouched

(* A request is answered at once, or begins with the ingestion.            *)
LEMMA HandleRequestKeeps ==
  ASSUME OrchestrationInv, NEW r, WellFormed(r), HandleRequest(r)
  PROVE  OrchestrationInv'
<1> DEFINE plan == Planned(r)
<1>1. /\ stage = "idle" /\ request' = {r}
      /\ stage' = IF NothingGiven(r) THEN "done" ELSE "ingestion"
      /\ UNCHANGED <<retryAttempts, attempt, results, transcript, calls>>
  BY DEF HandleRequest
<1>2. OrchestrationTypeOK'
  BY <1>1 DEF OrchestrationInv, OrchestrationTypeOK, AtMostOne, Stages, WellFormed
<1>3. Untouched /\ Untouched' /\ attempt = 1 /\ attempt' = 1
  BY <1>1 DEF OrchestrationInv, Untouched
<1>4. Progress(r)'
  <2>1. CASE NothingGiven(r)
    BY <1>1, <1>3, <2>1 DEF Progress, NothingGiven
  <2>2. CASE ~ NothingGiven(r)
    <3>1. plan \in Seq(Stages) /\ Len(plan) \in 2 .. 4 /\ plan[1] = "ingestion"
      BY PlanFacts
    <3>2. Len(transcript') = 0 /\ Completed(plan, 0) = {}
      BY <1>3 DEF Untouched, Completed
    <3>3. Returned(r, plan, 0)'
      BY <1>3, <3>1, <3>2 DEF Returned, Untouched, Nothing, Completed
    <3>4. stage' = "ingestion" /\ calls'["ingestion"] = 0
      BY <1>1, <1>3, <2>2 DEF Untouched, Stages
    <3>5. 1 <= Larger(LastAttempt, 1)'
      BY <1>1 DEF Larger, LastAttempt, OrchestrationInv, OrchestrationTypeOK
    <3>6. Where(r, plan, 0)'
      BY <1>3, <3>1, <3>4, <3>5 DEF Where
    <3>7. QED
      BY <2>2, <3>2, <3>3, <3>6 DEF Progress
  <2>3. QED
    BY <2>1, <2>2
<1>5. stage' # "idle"
  BY <1>1
<1>6. QED
  BY <1>1, <1>2, <1>4, <1>5 DEF OrchestrationInv

-----------------------------------------------------------------------------
(* Where a request that is under way stands.                               *)
LEMMA UnderWay ==
  ASSUME OrchestrationInv, stage \in Stages
  PROVE  /\ \E r : request = {r}
         /\ \A r \in request :
              /\ WellFormed(r) /\ ~ NothingGiven(r)
              /\ Returned(r, Planned(r), Len(transcript))
              /\ Where(r, Planned(r), Len(transcript))
<1>1. stage \notin {"idle", "done", "failed"}
  BY DEF Stages
<1>2. request # {} /\ AtMostOne(request) /\ \A r \in request : WellFormed(r) /\ Progress(r)
  BY <1>1 DEF OrchestrationInv, OrchestrationTypeOK
<1>3. \E r : request = {r}
  BY <1>2 DEF AtMostOne
<1>4. QED
  BY <1>1, <1>2, <1>3 DEF Progress

(* Without a single attempt the first tool fails.                          *)
LEMMA NeverInvokedKeeps == ASSUME OrchestrationInv, NeverInvoked PROVE OrchestrationInv'
<1>1. /\ stage \in Stages /\ LastAttempt < 1 /\ stage' = "failed"
      /\ UNCHANGED <<request, retryAttempts, attempt, results, transcript, calls>>
  BY DEF NeverInvoked
<1>2. OrchestrationTypeOK'
  BY <1>1 DEF OrchestrationInv, OrchestrationTypeOK
<1>3. ASSUME NEW r \in request PROVE Progress(r)'
  <2> DEFINE plan == Planned(r)
             n == Len(transcript)
  <2>1. ~ NothingGiven(r) /\ Returned(r, plan, n) /\ Where(r, plan, n)
    BY <1>1, UnderWay
  <2>2. Returned(r, plan, n)'
    BY <1>1, <2>1 DEF Returned
  <2>3. calls[stage] = 0 /\ Larger(LastAttempt, 0) = 0
    BY <1>1, <2>1 DEF Where, Larger, LastAttempt, OrchestrationInv, OrchestrationTypeOK
  <2>4. Where(r, plan, n)'
    BY <1>1, <2>1, <2>3 DEF Where, LastAttempt, Larger, Stages
  <2>5. QED
    BY <2>1, <2>2, <2>4 DEF Progress
<1>4. request # {}
  BY <1>1, UnderWay
<1>5. QED
  BY <1>1, <1>2, <1>3, <1>4 DEF OrchestrationInv

(* What the tool of the current stage returns is what is expected of it.   *)
LEMMA CurrentTool ==
  ASSUME OrchestrationInv, stage \in Stages, NEW r \in request, NEW readable
  PROVE  /\ \A v \in Tool(stage, r, results, readable) : Expected(r)[stage] = {v}
         /\ Tool(stage, r, results, readable) = {} => LocalFails(r, FALSE)
<1> DEFINE plan == Planned(r)
           n == Len(transcript)
<1>1. WellFormed(r) /\ ~ NothingGiven(r) /\ Returned(r, plan, n) /\ Where(r, plan, n)
  BY UnderWay
<1>2. n \in Nat /\ n < Len(plan) /\ stage = plan[n + 1]
  BY <1>1 DEF Where, OrchestrationInv, OrchestrationTypeOK
<1>3. /\ plan \in Seq(Stages) /\ Len(plan) \in 2 .. 4
      /\ plan[1] = "ingestion" /\ plan[2] = "analysis"
      /\ \A i, j \in 1 .. Len(plan) : plan[i] = plan[j] => i = j
      /\ \A i \in 1 .. Len(plan) :
           /\ plan[i] = "cost" => i = 3 /\ Plan(r).cost
           /\ plan[i] = "recommendation" => i = Len(plan) /\ Plan(r).recommendation
      /\ Plan(r).cost => 3 <= Len(plan) /\ plan[3] = "cost"
  BY PlanFacts
<1>4. \A i \in 1 .. n : results[plan[i]] = Expected(r)[plan[i]] /\ results[plan[i]] # {}
  BY <1>1 DEF Returned, Completed
<1>5. /\ stage = "cost" => Plan(r).cost
      /\ stage = "recommendation" => Plan(r).recommendation /\ n + 1 = Len(plan)
  <2>1. n + 1 \in 1 .. Len(plan)
    BY <1>2, <1>3
  <2>2. QED
    BY <1>2, <1>3, <2>1
<1>6. stage # "ingestion" =>
        results["ingestion"] = Expected(r)["ingestion"] /\ results["ingestion"] # {}
  <2>1. stage # "ingestion" => 1 \in 1 .. n
    BY <1>2, <1>3
  <2>2. QED
    BY <1>3, <1>4, <2>1
<1>7. ASSUME stage = "recommendation"
      PROVE  results["analysis"] = Expected(r)["analysis"] /\ results["cost"] = Expected(r)["cost"]
  <2>1. n + 1 = Len(plan) /\ plan[n + 1] = "recommendation"
    BY <1>2, <1>5, <1>7
  <2>2. 2 \in 1 .. n
    BY <1>2, <1>3, <2>1
  <2>3. results["analysis"] = Expected(r)["analysis"]
    BY <1>3, <1>4, <2>2
  <2>4. CASE Plan(r).cost
    <3>1. 3 \in 1 .. n
      BY <1>2, <1>3, <2>1, <2>4
    <3>2. QED
      BY <1>3, <1>4, <2>3, <2>4, <3>1
  <2>5. CASE ~ Plan(r).cost
    <3>1. "cost" \notin Completed(plan, n)
      BY <1>2, <1>3, <2>5 DEF Completed
    <3>2. results["cost"] = {}
      BY <1>1, <3>1 DEF Returned, Stages
    <3>3. Expected(r)["cost"] = {}
      BY <2>5, ExpectedStages
    <3>4. QED
      BY <2>3, <3>2, <3>3
  <2>6. QED
    BY <2>4, <2>5
<1>8. /\ stage = "cost" => Plan(r).cost
      /\ stage = "recommendation" => Plan(r).recommendation
      /\ stage = "recommendation" =>
           results["analysis"] = Expected(r)["analysis"] /\ results["cost"] = Expected(r)["cost"]
  BY <1>5, <1>7
<1>9. WellFormed(r) /\ ~ NothingGiven(r)
  BY <1>1
<1> HIDE DEF plan, n
<1>10. PICK which, got : which = stage /\ got = results
  OBVIOUS
<1>11. Due(which, r, got)
  BY <1>6, <1>8, <1>10 DEF Due
<1>12. /\ \A v \in Tool(which, r, got, readable) : Expected(r)[which] = {v}
       /\ Tool(which, r, got, readable) = {} => LocalFails(r, FALSE)
  BY <1>9, <1>11, ToolReturns
<1>13. QED
  BY <1>10, <1>12

(* A tool that returns takes the request a stage further.                  *)
LEMMA SucceedKeeps ==
  ASSUME OrchestrationInv, stage \in Stages, LastAttempt >= 1,
         NEW r \in request, NEW readable,
         NEW value \in Tool(stage, r, results, readable), Succeed(r, value),
         calls' = [calls EXCEPT ![stage] = Smaller(@ + 1, LastAttempt + 1)],
         UNCHANGED <<request, retryAttempts>>
  PROVE  OrchestrationInv'
<1> DEFINE plan == Planned(r)
<1> USE DEF OrchestrationInv
<1>0. PICK n : n = Len(transcript)
  OBVIOUS
<1>1. request = {r}
  BY UnderWay
<1>2. ~ NothingGiven(r) /\ Returned(r, plan, n) /\ Where(r, plan, n)
  BY <1>0, UnderWay
<1>3. /\ n \in Nat /\ n < Len(plan) /\ stage = plan[n + 1]
      /\ calls[stage] = attempt - 1 /\ attempt <= LastAttempt
      /\ attempt \in Nat \ {0} /\ LastAttempt \in Int
  BY <1>0, <1>2 DEF Where, OrchestrationTypeOK, Larger, LastAttempt
<1>4. /\ plan \in Seq(Stages) /\ Len(plan) \in 2 .. 4
      /\ \A i, j \in 1 .. Len(plan) : plan[i] = plan[j] => i = j
  BY PlanFacts
<1>5. calls' = [calls EXCEPT ![stage] = attempt]
  <2>1. Smaller(calls[stage] + 1, LastAttempt + 1) = attempt
    BY <1>3 DEF Smaller
  <2>2. QED
    BY <2>1
<1>6. /\ results' = [results EXCEPT ![stage] = {value}]
      /\ transcript' = Append(transcript, <<stage, attempt>>)
      /\ attempt' = 1
      /\ stage' = IF n + 1 = Len(plan) THEN "done" ELSE plan[n + 2]
  <2>1. Following(stage, r) = IF n + 1 = Len(plan) THEN "done" ELSE plan[n + 2]
    BY <1>3, <1>4, FollowingIs
  <2>2. QED
    BY <2>1 DEF Succeed
<1>7. stage' \in Stages \cup {"done"}
  BY <1>3, <1>4, <1>6
<1>8. OrchestrationTypeOK'
  <2>1. results' = [which \in Stages |-> results'[which]]
    BY <1>6 DEF OrchestrationTypeOK
  <2>2. calls' \in [Stages -> Nat] /\ transcript' \in Seq(Stages \X Nat)
    BY <1>3, <1>5, <1>6 DEF OrchestrationTypeOK
  <2>3. QED
    BY <1>6, <1>7, <2>1, <2>2 DEF OrchestrationTypeOK
<1>9. Len(transcript') = n + 1
  BY <1>0, <1>6 DEF OrchestrationTypeOK
<1>10. Completed(plan, n + 1) = Completed(plan, n) \cup {stage} /\ stage \notin Completed(plan, n)
  <2>1. 1 .. n + 1 = (1 .. n) \cup {n + 1} /\ n + 1 \in 1 .. Len(plan)
    BY <1>3, <1>4
  <2>2. Completed(plan, n + 1) = Completed(plan, n) \cup {stage}
    BY <1>3, <2>1 DEF Completed
  <2>3. \A i \in 1 .. n : plan[i] # stage
    BY <1>3, <1>4, <2>1
  <2>4. QED
    BY <2>2, <2>3 DEF Completed
<1>11. Returned(r, plan, n + 1)'
  <2>1. \A i \in 1 .. n + 1 : transcript'[i] = <<plan[i], calls'[plan[i]]>>
    <3>1. ASSUME NEW i \in 1 .. n
          PROVE  transcript'[i] = <<plan[i], calls'[plan[i]]>>
      <4>1. plan[i] # stage /\ transcript'[i] = transcript[i]
        <5>1. i \in 1 .. Len(plan) /\ n + 1 \in 1 .. Len(plan) /\ i # n + 1
          BY <1>3, <1>4
        <5>2. transcript'[i] = transcript[i]
          BY <1>0, <1>3, <1>6 DEF OrchestrationTypeOK
        <5>3. QED
          BY <1>3, <1>4, <5>1, <5>2
      <4>2. calls'[plan[i]] = calls[plan[i]]
        BY <1>3, <1>4, <1>5, <4>1 DEF OrchestrationTypeOK
      <4>3. QED
        BY <1>2, <4>1, <4>2 DEF Returned
    <3>2. transcript'[n + 1] = <<plan[n + 1], calls'[plan[n + 1]]>>
      <4>1. transcript'[n + 1] = <<stage, attempt>> /\ calls'[stage] = attempt
        BY <1>0, <1>5, <1>6 DEF OrchestrationTypeOK
      <4>2. QED
        BY <1>3, <4>1
    <3>3. \A i \in 1 .. n + 1 : i \in 1 .. n \/ i = n + 1
      BY <1>3
    <3>4. QED
      BY <3>1, <3>2, <3>3
  <2>2. \A which \in Completed(plan, n + 1) :
          results'[which] = Expected(r)[which] /\ results'[which] # {}
    <3>1. Expected(r)[stage] = {value}
      BY CurrentTool
    <3>2. results'[stage] = {value}
      BY <1>6 DEF OrchestrationTypeOK
    <3>3. \A which \in Completed(plan, n) : results'[which] = results[which]
      <4>1. Completed(plan, n) \subseteq Stages
        BY <1>3, <1>4 DEF Completed
      <4>2. QED
        BY <1>6, <1>10, <4>1 DEF OrchestrationTypeOK
    <3>4. QED
      BY <1>2, <1>10, <3>1, <3>2, <3>3 DEF Returned
  <2>3. \A which \in Stages \ Completed(plan, n + 1) : results'[which] = {}
    BY <1>2, <1>6, <1>10 DEF Returned, OrchestrationTypeOK
  <2>4. \A i \in n + 3 .. Len(plan) : calls'[plan[i]] = 0
    <3>1. ASSUME NEW i \in n + 3 .. Len(plan) PROVE calls'[plan[i]] = 0
      <4>1. i \in n + 2 .. Len(plan) /\ plan[i] # stage /\ plan[i] \in Stages
        BY <1>3, <1>4
      <4>2. calls'[plan[i]] = calls[plan[i]]
        BY <1>5, <4>1 DEF OrchestrationTypeOK
      <4>3. QED
        BY <1>2, <4>1, <4>2 DEF Returned
    <3>2. QED
      BY <3>1
  <2>5. n + 1 <= Len(plan) /\ n + 1 + 2 = n + 3
    BY <1>3, <1>4
  <2> HIDE DEF plan
  <2>6. QED
    BY <2>1, <2>2, <2>3, <2>4, <2>5 DEF Returned
<1>12. Where(r, plan, n + 1)'
  <2>1. ASSUME stage' \in Stages
        PROVE  /\ n + 1 < Len(plan) /\ stage' = plan[n + 2]
               /\ calls'[stage'] = 0 /\ 1 <= Larger(LastAttempt, 1)'
    <3>1. n + 1 < Len(plan) /\ stage' = plan[n + 2]
      BY <1>3, <1>4, <1>6, <2>1 DEF Stages
    <3>2. n + 2 \in n + 2 .. Len(plan) /\ stage' # stage
      BY <1>3, <1>4, <3>1
    <3>3. calls[plan[n + 2]] = 0
      BY <1>2, <3>2 DEF Returned
    <3>4. calls'[stage'] = 0
      BY <1>5, <2>1, <3>1, <3>2, <3>3 DEF OrchestrationTypeOK
    <3>5. QED
      BY <1>3, <3>1, <3>4 DEF LastAttempt, Larger
  <2>2. stage' = "done" => n + 1 = Len(plan)
    <3>1. n + 1 < Len(plan) => plan[n + 2] \in Stages
      BY <1>3, <1>4
    <3>2. QED
      BY <1>3, <1>4, <1>6, <3>1 DEF Stages
  <2>3. stage' # "failed"
    BY <1>7 DEF Stages
  <2>4. stage' \in Stages =>
          /\ n + 1 < Len(plan) /\ stage' = plan[n + 1 + 1]
          /\ calls'[stage'] = attempt' - 1
          /\ attempt' <= Larger(LastAttempt, 1)'
    <3>1. attempt' = 1 /\ n + 1 + 1 = n + 2 /\ attempt' - 1 = 0
      BY <1>3, <1>6
    <3>2. QED
      BY <2>1, <3>1
  <2> HIDE DEF plan
  <2>5. QED
    BY <2>2, <2>3, <2>4 DEF Where
<1>13. Progress(r)'
  BY <1>2, <1>9, <1>11, <1>12 DEF Progress
<1>14. stage' # "idle"
  BY <1>7 DEF Stages
<1>15. QED
  BY <1>1, <1>8, <1>13, <1>14

(* A tool that fails is called again, or was called often enough.          *)
LEMMA FailKeeps ==
  ASSUME OrchestrationInv, stage \in Stages, LastAttempt >= 1,
         NEW r \in request, NEW readable,
         Tool(stage, r, results, readable) = {}, Fail,
         calls' = [calls EXCEPT ![stage] = Smaller(@ + 1, LastAttempt + 1)],
         UNCHANGED <<request, retryAttempts>>
  PROVE  OrchestrationInv'
<1> DEFINE plan == Planned(r)
<1> USE DEF OrchestrationInv
<1>0. PICK n : n = Len(transcript)
  OBVIOUS
<1>1. request = {r}
  BY UnderWay
<1>2. ~ NothingGiven(r) /\ Returned(r, plan, n) /\ Where(r, plan, n)
  BY <1>0, UnderWay
<1>3. /\ n \in Nat /\ n < Len(plan) /\ stage = plan[n + 1]
      /\ calls[stage] = attempt - 1 /\ attempt <= LastAttempt
      /\ attempt \in Nat \ {0} /\ LastAttempt \in Int /\ retryAttempts \in Int
  BY <1>0, <1>2 DEF Where, OrchestrationTypeOK, Larger, LastAttempt
<1>4. /\ plan \in Seq(Stages) /\ Len(plan) \in 2 .. 4
      /\ \A i, j \in 1 .. Len(plan) : plan[i] = plan[j] => i = j
  BY PlanFacts
<1>5. calls' = [calls EXCEPT ![stage] = attempt]
  <2>1. Smaller(calls[stage] + 1, LastAttempt + 1) = attempt
    BY <1>3 DEF Smaller
  <2>2. QED
    BY <2>1
<1>6. results' = results /\ transcript' = transcript /\ LastAttempt' = LastAttempt
  BY DEF Fail, LastAttempt
<1>7. \/ attempt = LastAttempt /\ stage' = "failed" /\ attempt' = attempt
      \/ attempt < LastAttempt /\ stage' = stage /\ attempt' = attempt + 1
  BY <1>3 DEF Fail, Exhausted, LastAttempt
<1>8. OrchestrationTypeOK'
  <2>1. calls' \in [Stages -> Nat]
    BY <1>3, <1>5 DEF OrchestrationTypeOK
  <2>2. attempt' \in Nat \ {0} /\ stage' \in Stages \cup {"failed"}
    BY <1>3, <1>7
  <2>3. QED
    BY <1>6, <2>1, <2>2 DEF OrchestrationTypeOK
<1>9. calls'[stage] = attempt
      /\ \A i \in 1 .. Len(plan) : i # n + 1 => calls'[plan[i]] = calls[plan[i]]
  <2>1. n + 1 \in 1 .. Len(plan) /\ \A i \in 1 .. Len(plan) : plan[i] \in Stages
    BY <1>3, <1>4
  <2>2. \A i \in 1 .. Len(plan) : i # n + 1 => plan[i] # stage
    BY <1>3, <1>4, <2>1
  <2>3. QED
    BY <1>5, <2>1, <2>2 DEF OrchestrationTypeOK
<1>10. Returned(r, plan, n)'
  <2>1. \A i \in 1 .. n : transcript'[i] = <<plan[i], calls'[plan[i]]>>
    BY <1>2, <1>3, <1>4, <1>6, <1>9 DEF Returned
  <2>2. \A i \in n + 2 .. Len(plan) : calls'[plan[i]] = 0
    BY <1>2, <1>3, <1>4, <1>9 DEF Returned
  <2> HIDE DEF plan
  <2>3. QED
    BY <1>2, <1>6, <2>1, <2>2 DEF Returned
<1>11. LocalFails(r, FALSE) \/ stage' # "failed"
  BY CurrentTool
<1>12. Where(r, plan, n)'
  <2>1. CASE attempt < LastAttempt /\ stage' = stage /\ attempt' = attempt + 1
    <3>1. /\ calls'[stage'] = attempt' - 1
          /\ attempt' <= Larger(LastAttempt, 1)'
      BY <1>3, <1>6, <1>9, <2>1 DEF Larger
    <3> HIDE DEF plan
    <3>2. QED
      BY <1>3, <2>1, <3>1 DEF Where, Stages
  <2>2. CASE attempt = LastAttempt /\ stage' = "failed"
    <3>1. calls'[plan[n + 1]] = Larger(LastAttempt, 0)'
      BY <1>3, <1>6, <1>9, <2>2 DEF Larger
    <3> HIDE DEF plan
    <3>2. QED
      BY <1>3, <1>11, <2>2, <3>1 DEF Where, Stages
  <2>3. QED
    BY <1>7, <2>1, <2>2
<1>13. Progress(r)'
  BY <1>0, <1>2, <1>6, <1>10, <1>12 DEF Progress
<1>14. stage' # "idle"
  BY <1>7 DEF Stages
<1>15. QED
  BY <1>1, <1>8, <1>13, <1>14

LEMMA InvokeSpecialistKeeps == ASSUME OrchestrationInv, InvokeSpecialist PROVE OrchestrationInv'
<1>1. PICK r \in request, readable \in BOOLEAN :
        LET returned == Tool(stage, r, results, readable)
        IN IF returned = {} THEN Fail ELSE \E value \in returned : Succeed(r, value)
  BY DEF InvokeSpecialist
<1>2. /\ stage \in Stages /\ LastAttempt >= 1
      /\ calls' = [calls EXCEPT ![stage] = Smaller(@ + 1, LastAttempt + 1)]
      /\ UNCHANGED <<request, retryAttempts>>
  BY DEF InvokeSpecialist
<1>3. CASE Tool(stage, r, results, readable) = {}
  BY <1>1, <1>2, <1>3, FailKeeps
<1>4. ASSUME NEW value \in Tool(stage, r, results, readable), Succeed(r, value)
      PROVE  OrchestrationInv'
  BY <1>2, <1>4, SucceedKeeps
<1>5. QED
  BY <1>1, <1>3, <1>4

(* Every step of the orchestrator preserves the invariant.                 *)
LEMMA OrchestrationKeeps ==
  OrchestrationInv /\ OrchestrationNext => OrchestrationInv'
BY RequestsAssumption, HandleRequestKeeps, NeverInvokedKeeps, InvokeSpecialistKeeps
   DEF OrchestrationNext

LEMMA OrchestrationStutters ==
  OrchestrationInv /\ UNCHANGED orchestrationVars => OrchestrationInv'
<1> SUFFICES ASSUME OrchestrationInv, UNCHANGED orchestrationVars PROVE OrchestrationInv'
  OBVIOUS
<1>1. OrchestrationTypeOK' /\ (Untouched' <=> Untouched)
  BY DEF OrchestrationInv, OrchestrationTypeOK, Untouched, orchestrationVars
<1>2. \A r : Progress(r)' <=> Progress(r)
  BY DEF Progress, Untouched, Returned, Where, LastAttempt, orchestrationVars
<1>3. QED
  BY <1>1, <1>2 DEF OrchestrationInv, orchestrationVars

-----------------------------------------------------------------------------
(* At the end, every stage of the plan has returned what was expected.     *)
LEMMA DoneReturns ==
  ASSUME OrchestrationInv, stage = "done", NEW r \in request, ~ NothingGiven(r)
  PROVE  /\ results = Expected(r) /\ ~ LocalFails(r, TRUE)
         /\ transcript = [i \in DOMAIN Planned(r) |-> <<Planned(r)[i], calls[Planned(r)[i]]>>]
<1> DEFINE plan == Planned(r)
<1>0. PICK n : n = Len(transcript)
  OBVIOUS
<1>1. Returned(r, plan, n) /\ n = Len(plan)
  BY <1>0 DEF OrchestrationInv, Progress, Where
<1>2. /\ plan \in Seq(Stages) /\ Len(plan) \in 2 .. 4
      /\ plan[1] = "ingestion" /\ plan[2] = "analysis"
      /\ Plan(r).cost => 3 <= Len(plan) /\ plan[3] = "cost"
      /\ Plan(r).recommendation => plan[Len(plan)] = "recommendation"
  BY PlanFacts
<1>3. /\ "ingestion" \in Completed(plan, n) /\ "analysis" \in Completed(plan, n)
      /\ Plan(r).cost => "cost" \in Completed(plan, n)
      /\ Plan(r).recommendation => "recommendation" \in Completed(plan, n)
  <2>1. 1 \in 1 .. n /\ 2 \in 1 .. n /\ n \in 1 .. n /\ (3 <= n => 3 \in 1 .. n)
    BY <1>1, <1>2
  <2>2. QED
    BY <1>1, <1>2, <2>1 DEF Completed
<1>4. \A which \in Stages : results[which] = Expected(r)[which]
  <2>1. /\ "cost" \notin Completed(plan, n) => results["cost"] = {} /\ Expected(r)["cost"] = {}
        /\ "recommendation" \notin Completed(plan, n) =>
              results["recommendation"] = {} /\ Expected(r)["recommendation"] = {}
    BY <1>1, <1>3, ExpectedStages DEF Returned, Stages
  <2>2. QED
    BY <1>1, <1>3, <2>1 DEF Returned, Stages
<1>5. results = Expected(r)
  BY <1>4, ExpectedStages DEF OrchestrationInv, OrchestrationTypeOK
<1>6. ~ LocalFails(r, TRUE)
  <2>1. Expected(r)["ingestion"] # {} /\ (Plan(r).cost => Expected(r)["cost"] # {})
    BY <1>1, <1>3 DEF Returned
  <2>2. QED
    BY <2>1 DEF LocalFails, Expected
<1>7. transcript = [i \in DOMAIN plan |-> <<plan[i], calls[plan[i]]>>]
  <2>1. transcript \in Seq(Stages \X Nat) /\ Len(transcript) = Len(plan)
    BY <1>0, <1>1 DEF OrchestrationInv, OrchestrationTypeOK
  <2>2. transcript = [i \in 1 .. Len(plan) |-> transcript[i]] /\ DOMAIN plan = 1 .. Len(plan)
    BY <1>2, <2>1
  <2>3. \A i \in 1 .. Len(plan) : transcript[i] = <<plan[i], calls[plan[i]]>>
    BY <1>1 DEF Returned
  <2>4. QED
    BY <2>2, <2>3
<1>8. QED
  BY <1>5, <1>6, <1>7

LEMMA AnswersAgree == OrchestrationInv => AnswersAsLocal
<1> SUFFICES ASSUME OrchestrationInv, stage = "done", NEW r \in request
             PROVE  Response = LocalAnswer(r, TRUE)
  BY DEF AnswersAsLocal
<1>1. CASE NothingGiven(r)
  <2>1. results = Nothing
    BY <1>1 DEF OrchestrationInv, Progress, Untouched
  <2>2. QED
    BY <1>1, <2>1 DEF Response, LocalAnswer
<1>2. CASE ~ NothingGiven(r)
  BY <1>2, DoneReturns DEF Response, LocalAnswer, Expected
<1>3. QED
  BY <1>1, <1>2

LEMMA NotesAreTrue == OrchestrationInv => NotesTellTheTruth
BY DoneReturns DEF NotesTellTheTruth

LEMMA NobodyGivesUpEarly == OrchestrationInv => GivesUpInTime
<1> SUFFICES ASSUME OrchestrationInv, stage = "failed", NEW r \in request
             PROVE  LET plan   == Planned(r)
                        failed == Len(transcript) + 1
                    IN /\ failed \in DOMAIN plan
                       /\ calls[plan[failed]] = Larger(LastAttempt, 0)
                       /\ \A i \in DOMAIN plan : i > failed => calls[plan[i]] = 0
                       /\ LastAttempt < 1 \/ LocalFails(r, FALSE)
  BY DEF GivesUpInTime
<1> DEFINE plan == Planned(r)
<1>0. PICK n : n = Len(transcript)
  OBVIOUS
<1>1. ~ NothingGiven(r) /\ Returned(r, plan, n) /\ Where(r, plan, n)
  BY <1>0 DEF OrchestrationInv, Progress
<1>2. /\ n \in Nat /\ n < Len(plan) /\ calls[plan[n + 1]] = Larger(LastAttempt, 0)
      /\ LastAttempt < 1 \/ LocalFails(r, FALSE)
  <2>1. n \in Nat
    BY <1>0 DEF OrchestrationInv, OrchestrationTypeOK
  <2> HIDE DEF plan
  <2>2. QED
    BY <1>1, <2>1 DEF Where
<1>3. DOMAIN plan = 1 .. Len(plan) /\ Len(plan) \in Nat
  BY PlanFacts
<1>4. n + 1 \in DOMAIN plan
  BY <1>2, <1>3
<1>5. \A i \in DOMAIN plan : i > n + 1 => i \in n + 2 .. Len(plan)
  BY <1>2, <1>3
<1>6. \A i \in n + 2 .. Len(plan) : calls[plan[i]] = 0
  BY <1>1 DEF Returned
<1>7. QED
  BY <1>0, <1>2, <1>4, <1>5, <1>6

-----------------------------------------------------------------------------
(* A live result is that of a service and what happened to its documents.  *)
LiveInv ==
  live.kind = "ingestion" =>
    /\ live.service \in Sites /\ live.outcome \in Faults
    /\ live.result = IngestService(live.service, live.outcome)

(* A snapshot that came is valid and has no metrics.                       *)
LEMMA IngestedIs ==
  ASSUME NEW service, NEW outcome, IngestService(service, outcome).status = "ok"
  PROVE  LET result == IngestService(service, outcome)
         IN /\ result.notes = Notes(service, outcome)
            /\ result.snapshot = [configuration |-> BuildConfiguration(service, outcome),
                                  metrics |-> {}]
            /\ service.reply = "ok" /\ SupportedSku(service.sku)
            /\ \A d \in Requested(service, outcome) : outcome[d] # "dropped"
            /\ ValidConfiguration(BuildConfiguration(service, outcome))
BY DEF IngestService, Raised

(* The other way round.                                                    *)
LEMMA IngestedIf ==
  ASSUME NEW service, NEW outcome,
         service.reply = "ok", SupportedSku(service.sku),
         \A d \in Requested(service, outcome) : outcome[d] # "dropped",
         ValidConfiguration(BuildConfiguration(service, outcome))
  PROVE  IngestService(service, outcome).status = "ok"
BY DEF IngestService

LEMMA LiveKeeps == LiveInv /\ [Next]_advisorVars => LiveInv'
<1> SUFFICES ASSUME LiveInv, [Next]_advisorVars PROVE LiveInv'
  OBVIOUS
<1>1. CASE Ingest
  BY <1>1 DEF Ingest, LiveInv
<1>2. CASE Discover
  BY <1>2 DEF Discover, LiveInv
<1>3. CASE AskAboutLive
  BY <1>3 DEF AskAboutLive, LiveInv, NothingLive
<1>4. CASE UNCHANGED live
  BY <1>4 DEF LiveInv
<1>5. QED
  BY <1>1, <1>2, <1>3, <1>4 DEF Next, Endpoints, Agents, advisorVars

LEMMA AskAboutLiveKeeps ==
  ASSUME OrchestrationInv, LiveInv, AskAboutLive
  PROVE  OrchestrationInv'
<1>1. PICK cost, advice \in BOOLEAN : HandleRequest(About(live.result.snapshot, cost, advice))
  BY DEF AskAboutLive
<1>2. live.result.snapshot.metrics = {}
  <2>1. live.result = IngestService(live.service, live.outcome) /\ live.result.status = "ok"
    BY DEF AskAboutLive, LiveInv
  <2>2. live.result.snapshot =
          [configuration |-> BuildConfiguration(live.service, live.outcome), metrics |-> {}]
    BY <2>1, IngestedIs
  <2>3. QED
    BY <2>2
<1>3. WellFormed(About(live.result.snapshot, cost, advice))
  BY <1>2 DEF WellFormed, About, AtMostOne
<1>4. QED
  BY <1>1, <1>3, HandleRequestKeeps

LEMMA OrchestrationGoesOn ==
  OrchestrationInv /\ LiveInv /\ [Next]_advisorVars => OrchestrationInv'
<1> SUFFICES ASSUME OrchestrationInv, LiveInv, [Next]_advisorVars PROVE OrchestrationInv'
  OBVIOUS
<1>1. CASE Agents
  BY <1>1, OrchestrationKeeps DEF Agents
<1>2. CASE AskAboutLive
  BY <1>2, AskAboutLiveKeeps
<1>3. CASE UNCHANGED orchestrationVars
  BY <1>3, OrchestrationStutters
<1>4. QED
  BY <1>1, <1>2, <1>3 DEF Next, Endpoints, Discover, Ingest, advisorVars

LEMMA AdvisoryGoesOn == AdvisoryInv /\ [Next]_advisorVars => AdvisoryInv'
<1> SUFFICES ASSUME AdvisoryInv, [Next]_advisorVars PROVE AdvisoryInv'
  OBVIOUS
<1>1. CASE Endpoints
  BY <1>1, AdvisoryKeeps DEF Endpoints
<1>2. CASE UNCHANGED advisoryVars
  BY <1>2, AdvisoryStutters
<1>3. QED
  BY <1>1, <1>2 DEF Next, Agents, Discover, Ingest, AskAboutLive, advisorVars

LiveKinds == live.kind \in {"none", "discovery", "ingestion"}

LEMMA LiveKindsKeep == LiveKinds /\ [Next]_advisorVars => LiveKinds'
BY DEF LiveKinds, Next, Endpoints, Agents, Discover, Ingest, AskAboutLive, NothingLive, advisorVars

(* A tool leaves one result, and is not called more often than allowed.    *)
UsedSparingly ==
  /\ \A which \in Stages : AtMostOne(results[which])
  /\ attempt \in 1 .. Larger(LastAttempt, 1)

LEMMA UsedSparinglyKept ==
  OrchestrationInv /\ UsedSparingly /\ [Next]_advisorVars => UsedSparingly'
<1> SUFFICES ASSUME OrchestrationInv, UsedSparingly, [Next]_advisorVars PROVE UsedSparingly'
  OBVIOUS
<1>0. /\ retryAttempts \in Int /\ attempt \in Nat \ {0}
      /\ results = [which \in Stages |-> results[which]]
  BY DEF OrchestrationInv, OrchestrationTypeOK
<1>1. CASE UNCHANGED <<results, attempt, retryAttempts>>
  BY <1>1 DEF UsedSparingly, AtMostOne, LastAttempt
<1>2. ASSUME NEW value, NEW r, Succeed(r, value), UNCHANGED retryAttempts
      PROVE  UsedSparingly'
  <2>1. /\ attempt' = 1
        /\ \A which \in Stages : results'[which] \in {results[which], {value}}
    BY <1>0, <1>2 DEF Succeed
  <2>2. (attempt \in 1 .. Larger(LastAttempt, 1))'
    BY <1>0, <1>2, <2>1 DEF Larger, LastAttempt
  <2>3. \A which \in Stages : AtMostOne(results'[which])
    BY <2>1 DEF UsedSparingly, AtMostOne
  <2>4. QED
    BY <2>2, <2>3 DEF UsedSparingly
<1>3. ASSUME Fail, UNCHANGED retryAttempts
      PROVE  UsedSparingly'
  <2>1. (attempt \in 1 .. Larger(LastAttempt, 1))'
    BY <1>0, <1>3 DEF UsedSparingly, Fail, Exhausted, Larger, LastAttempt
  <2>2. results' = results
    BY <1>3 DEF Fail
  <2>3. QED
    BY <2>1, <2>2 DEF UsedSparingly
<1>4. CASE InvokeSpecialist
  BY <1>2, <1>3, <1>4 DEF InvokeSpecialist
<1>5. QED
  BY <1>1, <1>4 DEF Next, Endpoints, Agents, Discover, Ingest, AskAboutLive,
                    OrchestrationNext, HandleRequest, NeverInvoked,
                    advisorVars, orchestrationVars

LEMMA AdvisorInvariance ==
  Spec => [](OrchestrationInv /\ UsedSparingly /\ LiveInv /\ LiveKinds /\ AdvisoryInv)
<1>1. OrchestrationInit => UsedSparingly
  <2> SUFFICES ASSUME OrchestrationInit PROVE UsedSparingly
    OBVIOUS
  <2>1. retryAttempts \in Int /\ attempt = 1
    BY RetriesAssumption DEF OrchestrationInit
  <2>2. attempt \in 1 .. Larger(LastAttempt, 1)
    BY <2>1 DEF Larger, LastAttempt
  <2>3. QED
    BY <2>2 DEF UsedSparingly, OrchestrationInit, Nothing, AtMostOne
<1>2. Init => OrchestrationInv /\ UsedSparingly /\ LiveInv /\ LiveKinds /\ AdvisoryInv
  BY <1>1, InitOrchestration, InitAdvisory DEF Init, LiveInv, LiveKinds, NothingLive
<1>3. QED
  BY <1>2, LiveKeeps, OrchestrationGoesOn, UsedSparinglyKept, AdvisoryGoesOn, LiveKindsKeep, PTL
     DEF Spec

-----------------------------------------------------------------------------
LEMMA OneAtMost == ASSUME NEW S, \A x, y \in S : x = y PROVE Cardinality(S) <= 1
<1>1. CASE S = {}
  BY <1>1, FS_EmptySet
<1>2. CASE S # {}
  <2>1. PICK x : S = {x}
    BY <1>2
  <2>2. QED
    BY <2>1, FS_Singleton
<1>3. QED
  BY <1>1, <1>2

LEMMA TypesHold == OrchestrationInv /\ UsedSparingly /\ AdvisoryInv /\ LiveKinds => TypeOK
<1> SUFFICES ASSUME OrchestrationInv, UsedSparingly, AdvisoryInv, LiveKinds PROVE TypeOK
  OBVIOUS
<1>1. Cardinality(analysis) <= 1
  BY OneAtMost DEF AdvisoryInv, AtMostOneOf
<1>2. \A which \in Stages : Cardinality(results[which]) <= 1
  BY OneAtMost DEF UsedSparingly, AtMostOne
<1>3. attempt \in 1 .. Larger(LastAttempt, 1) /\ stage \in Stages \cup {"idle", "done", "failed"}
  BY DEF UsedSparingly, OrchestrationInv, OrchestrationTypeOK
<1>4. QED
  BY <1>1, <1>2, <1>3 DEF TypeOK, AdvisoryInv, AnswerKinds, OrchestrationInv, LiveKinds

(* Configurations stay ones the API accepts whatever advice is followed,   *)
(* and the orchestrator makes no more attempts than it is allowed.         *)
THEOREM TypeCorrect == Spec => []TypeOK
BY AdvisorInvariance, TypesHold, PTL

(* recommend.py with the analyzers, the adapter and the price list: who    *)
(* follows the advice, whichever and however often, pays no more.          *)
THEOREM AdviceNeverCostsMore == Spec => FollowingAdviceNeverCostsMore
<1>1. AdvisoryInv /\ [Next]_advisorVars =>
        [configuration.sku # "free" =>
           MonthlyCost(configuration', {metrics}) <= MonthlyCost(configuration, {metrics})
          ]_configuration
  BY NeverDearer DEF Next, Endpoints, Agents, Discover, Ingest, AskAboutLive,
                     advisorVars, advisoryVars
<1>2. QED
  BY <1>1, AdvisorInvariance, PTL DEF Spec, FollowingAdviceNeverCostsMore

(* What the analyzers find in the daily average, the adapter finds in the  *)
(* raw metrics: a list with room left acts on every topic that a finding   *)
(* mentions.                                                               *)
THEOREM FindingsAlwaysActedOn == Spec => []FindingsAreActedOn
BY AdvisorInvariance, TopicsHeld, PTL

(* map_recommendation_report cuts a list whose urgent items come first.    *)
THEOREM UrgentAdviceAlwaysSurvives == Spec => []UrgentAdviceSurvives
BY AdvisorInvariance, UrgentHeld, PTL

(* infer_simulation_impact flags every loss of capacity that the client    *)
(* stated truthfully, whatever the changes are and whichever of them hold. *)
THEOREM CapacityCutAlwaysFlagged == Spec => []CapacityCutIsFlagged
BY AdvisorInvariance, CutsHeld, PTL

-----------------------------------------------------------------------------
(* Whatever is tried how often: the answer is the one the local            *)
(* orchestrator gives.                                                     *)
THEOREM AgentsAnswerAsLocal == Spec => []AnswersAsLocal
BY AdvisorInvariance, AnswersAgree, PTL

(* The notes tell of the planned stages and of the attempts they took.     *)
THEOREM NotesAlwaysTrue == Spec => []NotesTellTheTruth
BY AdvisorInvariance, NotesAreTrue, PTL

(* A request is given up after the last attempt and not before.            *)
THEOREM GivenUpInTime == Spec => []GivesUpInTime
BY AdvisorInvariance, NobodyGivesUpEarly, PTL

-----------------------------------------------------------------------------
(* What a collection that fell short means: it was not fetched.            *)
LEMMA ShortMeansMissing ==
  ASSUME NEW service \in Sites, NEW outcome, NEW document,
         NEW items, IsFiniteSet(items),
         Cardinality(Collected(service, outcome, document, items)) < Cardinality(items)
  PROVE  ~ (document \in Requested(service, outcome) /\ outcome[document] = "ok")
<1>1. Cardinality(items) \in Nat
  BY FS_CardinalityType
<1>2. QED
  BY <1>1 DEF Collected

LEMMA Gaps ==
  ASSUME NEW service \in Sites, NEW outcome \in Faults, service.endpoint,
         IngestService(service, outcome).status = "ok",
         NEW document \in {"indexes", "indexers", "skillsets"}, outcome[document] # "odd",
         Cardinality(Collected(service, outcome, document, service[document]))
           < Cardinality(service[document])
  PROVE  <<document, outcome[document]>> \in IngestService(service, outcome).notes
<1>1. IsFiniteSet(service[document])
  BY SitesAssumption
<1>2. document \in Documents /\ document # "indexstats" /\ outcome[document] \in Outcomes
  BY FaultsAssumption DEF Documents, Collections
<1>3. document \in Requested(service, outcome)
  BY <1>2 DEF Requested, When
<1>4. outcome[document] # "ok"
  BY <1>1, <1>3, ShortMeansMissing
<1>5. outcome[document] # "dropped"
  BY <1>3, IngestedIs
<1>6. outcome[document] \in Noted
  BY <1>2, <1>4, <1>5 DEF Outcomes, Noted
<1>7. <<document, outcome[document]>> \in Notes(service, outcome)
  BY <1>3, <1>6 DEF Notes
<1>8. QED
  BY <1>7, IngestedIs

(* Whatever Azure withholds of a service with an endpoint, a snapshot says *)
(* so, but for a document that is JSON and no object.                      *)
LEMMA GapsNoted == LiveInv => GapsAreNoted
<1> SUFFICES ASSUME LiveInv, live.kind = "ingestion", live.service.endpoint,
                    live.result.status = "ok",
                    NEW held, held = [indexes   |-> live.service.indexes,
                                      indexers  |-> live.service.indexers,
                                      skillsets |-> live.service.skillsets],
                    NEW document \in DOMAIN held,
                    live.result.snapshot.configuration[document] < Cardinality(held[document]),
                    live.outcome[document] # "odd"
             PROVE  \E note \in live.result.notes : note[1] = document
  BY DEF GapsAreNoted
<1>1. PICK service, outcome : service = live.service /\ outcome = live.outcome
  OBVIOUS
<1>2. service \in Sites /\ outcome \in Faults /\ live.result = IngestService(service, outcome)
  BY <1>1 DEF LiveInv
<1>3. document \in {"indexes", "indexers", "skillsets"} /\ held[document] = service[document]
  BY <1>1
<1>4. live.result.snapshot.configuration = BuildConfiguration(service, outcome)
  <2>1. IngestService(service, outcome).status = "ok"
    BY <1>2
  <2>2. IngestService(service, outcome).snapshot =
          [configuration |-> BuildConfiguration(service, outcome), metrics |-> {}]
    BY <2>1, IngestedIs
  <2>3. QED
    BY <1>2, <2>2
<1>5. BuildConfiguration(service, outcome)[document] =
        Cardinality(Collected(service, outcome, document, service[document]))
  BY <1>3 DEF BuildConfiguration
<1>6. <<document, outcome[document]>> \in live.result.notes
  <2>1. Cardinality(Collected(service, outcome, document, service[document]))
          < Cardinality(service[document])
    BY <1>3, <1>4, <1>5
  <2>2. service.endpoint /\ outcome[document] # "odd" /\ IngestService(service, outcome).status = "ok"
    BY <1>1, <1>2
  <2>3. QED
    BY <1>2, <1>3, <2>1, <2>2, Gaps
<1>7. QED
  BY <1>6

(* What a live snapshot of a service with an endpoint lacks because it     *)
(* could not be read, its notes say, but for JSON that is no object.       *)
THEOREM GapsAlwaysNoted == Spec => []GapsAreNoted
BY AdvisorInvariance, GapsNoted, PTL

-----------------------------------------------------------------------------
AllOk == [d \in Documents |-> "ok"]

(* What is fetched is all there is or nothing.                             *)
LEMMA AllOrNothing ==
  ASSUME NEW service, NEW outcome, NEW document, NEW items
  PROVE  Collected(service, outcome, document, items) \in {items, {}}
BY DEF Collected

(* The features of a service are valid one by one when what is there of    *)
(* the vector search is; that only depends on the indexes.                 *)
LEMMA PartsValid ==
  ASSUME NEW service \in Sites, NEW indexes, NEW skillsets \in {service.skillsets, {}},
         indexes # {} => ValidVector(DetectVector(indexes))
  PROVE  /\ ValidSemantic(DetectSemantic(service, indexes))
         /\ ValidVector(DetectVector(indexes))
         /\ ValidEnrichment(DetectEnrichment(skillsets))
         /\ DetectEnrichment(skillsets).skillsets <= Cardinality(skillsets)
<1>1. ValidSemantic(DetectSemantic(service, indexes))
  BY DEF ValidSemantic, DetectSemantic
<1>2. ValidVector(DetectVector({}))
  BY DEF ValidVector, DetectVector
<1>3. IsFiniteSet(skillsets)
  BY SitesAssumption, FS_EmptySet
<1>4. Cardinality(skillsets) \in Nat /\ (Cardinality(skillsets) = 0 <=> skillsets = {})
  BY <1>3, FS_CardinalityType, FS_EmptySet
<1>5. ValidEnrichment(DetectEnrichment(skillsets))
  <2>1. CASE skillsets = {}
    BY <2>1 DEF ValidEnrichment, DetectEnrichment
  <2>2. CASE skillsets # {}
    <3>1. Cardinality(skillsets) > 0
      BY <1>4, <2>2
    <3>2. DetectEnrichment(skillsets).enabled
      BY <2>2 DEF DetectEnrichment
    <3>3. DetectEnrichment(skillsets).skillsets = Cardinality(skillsets)
      BY <2>2 DEF DetectEnrichment
    <3>4. QED
      BY <3>1, <3>2, <3>3 DEF ValidEnrichment
  <2>3. QED
    BY <2>1, <2>2
<1>6. DetectEnrichment(skillsets).skillsets <= Cardinality(skillsets)
  BY <1>4 DEF DetectEnrichment
<1>7. QED
  BY <1>1, <1>2, <1>5, <1>6

(* What BuildConfiguration lists among the features is what it detected.   *)
LEMMA FeaturesListed ==
  ASSUME NEW service \in Sites, NEW outcome
  PROVE  ListsItsFeatures(BuildConfiguration(service, outcome))
<1> DEFINE s == BuildConfiguration(service, outcome)
           indexers == Collected(service, outcome, "indexers", service.indexers)
<1>1. /\ s.semantic.enabled <=> "semantic_ranker" \in s.features
      /\ s.vector.enabled <=> "vector_search" \in s.features
      /\ s.enrichment.enabled <=> "ai_enrichment" \in s.features
  BY DEF BuildConfiguration, Enabled
<1>2. /\ s.enrichment.knowledge => "knowledge_store" \in s.features
      /\ s.private => "private_endpoints" \in s.features
      /\ s.zones => "availability_zones" \in s.features
  BY DEF BuildConfiguration, Enabled
<1>3. s.indexers > 0 => "indexers" \in s.features
  <2>1. s.indexers = Cardinality(indexers)
    BY DEF BuildConfiguration
  <2>2. indexers # {} => "indexers" \in s.features
    BY DEF BuildConfiguration, Enabled
  <2>3. Cardinality({}) = 0
    BY FS_EmptySet
  <2>4. QED
    BY <2>1, <2>2, <2>3
<1>4. QED
  BY <1>1, <1>2, <1>3 DEF ListsItsFeatures

(* A service that is valid with all its documents is valid with any part.  *)
LEMMA ValidInPart ==
  ASSUME NEW service \in Sites, NEW outcome,
         ValidConfiguration(BuildConfiguration(service, AllOk))
  PROVE  ValidConfiguration(BuildConfiguration(service, outcome))
<1> DEFINE all == BuildConfiguration(service, AllOk)
           s == BuildConfiguration(service, outcome)
           indexes == Collected(service, outcome, "indexes", service.indexes)
           skillsets == Collected(service, outcome, "skillsets", service.skillsets)
<1>1. indexes # {} => ValidVector(DetectVector(indexes))
  <2>1. SUFFICES ASSUME indexes # {} PROVE ValidVector(DetectVector(indexes))
    OBVIOUS
  <2>2. "indexes" \in Requested(service, outcome) /\ indexes = service.indexes
    BY <2>1 DEF Collected
  <2>3. service.endpoint
    BY <2>2 DEF Requested
  <2>4. "indexes" \in Requested(service, AllOk) /\ AllOk["indexes"] = "ok"
    BY <2>3 DEF Requested, When, AllOk, Documents, Collections
  <2>5. Collected(service, AllOk, "indexes", service.indexes) = service.indexes
    BY <2>4 DEF Collected
  <2>6. all.vector = DetectVector(service.indexes)
    BY <2>5 DEF BuildConfiguration
  <2>7. QED
    BY <2>2, <2>6 DEF ValidConfiguration
<1>2. /\ ValidSemantic(DetectSemantic(service, indexes))
      /\ ValidVector(DetectVector(indexes))
      /\ ValidEnrichment(DetectEnrichment(skillsets))
      /\ DetectEnrichment(skillsets).skillsets <= Cardinality(skillsets)
  <2>1. skillsets \in {service.skillsets, {}}
    BY AllOrNothing
  <2> HIDE DEF indexes, skillsets
  <2>2. QED
    BY <1>1, <2>1, PartsValid
<1>3. /\ s.semantic = DetectSemantic(service, indexes)
      /\ s.vector = DetectVector(indexes)
      /\ s.enrichment = DetectEnrichment(skillsets)
      /\ s.skillsets = Cardinality(skillsets)
  BY DEF BuildConfiguration
<1>4. /\ s.replicas = all.replicas /\ s.partitions = all.partitions /\ s.mode = all.mode
      /\ s.sku = all.sku /\ s.highDensity = all.highDensity
  BY DEF BuildConfiguration
<1>5. Counts(s) = Counts(all)
  BY <1>4 DEF Counts
<1>6. ListsItsFeatures(s)
  BY FeaturesListed
<1> HIDE DEF s, all, indexes, skillsets
<1>7. /\ 0 \notin Counts(s)
      /\ IF s.mode = "dedicated" THEN Absent \notin Counts(s) ELSE Counts(s) = {Absent}
      /\ s.highDensity => s.sku = "s3_hd"
  <2>1. ValidConfiguration(all)
    BY DEF all
  <2>2. QED
    BY <1>4, <1>5, <2>1 DEF ValidConfiguration
<1>8. ValidConfiguration(s)
  BY <1>2, <1>3, <1>6, <1>7 DEF ValidConfiguration
<1>9. QED
  BY <1>8 DEF s

LEMMA OutageSurvived == LiveInv => OutageIsNotFatal
<1> SUFFICES ASSUME LiveInv, live.kind = "ingestion",
                    IngestService(live.service, AllOk).status = "ok",
                    \A d \in Requested(live.service, live.outcome) :
                      live.outcome[d] # "dropped"
             PROVE  live.result.status = "ok"
  BY DEF OutageIsNotFatal, AllOk
<1>1. PICK service, outcome : service = live.service /\ outcome = live.outcome
  OBVIOUS
<1>2. service \in Sites /\ live.result = IngestService(service, outcome)
  BY <1>1 DEF LiveInv
<1>3. IngestService(service, AllOk).status = "ok"
  BY <1>1
<1>4. /\ service.reply = "ok" /\ SupportedSku(service.sku)
      /\ ValidConfiguration(BuildConfiguration(service, AllOk))
  BY <1>3, IngestedIs
<1>5. ValidConfiguration(BuildConfiguration(service, outcome))
  BY <1>2, <1>4, ValidInPart
<1>6. \A d \in Requested(service, outcome) : outcome[d] # "dropped"
  BY <1>1
<1>7. QED
  BY <1>2, <1>4, <1>5, <1>6, IngestedIf

(* A service that can be ingested at all still is when any of its          *)
(* documents fail in any of the ways that _get_search_document handles.    *)
(* A dropped connection, which it does not handle, is excluded: there the  *)
(* whole snapshot is lost.                                                 *)
THEOREM OutageNeverFatal == Spec => []OutageIsNotFatal
BY AdvisorInvariance, OutageSurvived, PTL
=============================================================================
