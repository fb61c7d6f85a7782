# Verification of Azure AI Search Advisor

TLA+ models of Azure AI Search Advisor, of its stateful core and of the advice it gives, checked
with TLC and, where the text says so, proved with TLAPS for every value of the constants. Paths below are relative to
`src/src/azure_ai_search_advisor/` unless they start with `docs/`, `tests/` or `ui/`.

## 1. The system

A FastAPI application. Every handler that matters is a plain `def`, so one worker process runs
requests on a pool of threads; dependencies of type `async def` run on the event loop. State that
outlives a request is in four objects of the process and two SQLite files.

| Part | State | Operations | Who shares it |
| --- | --- | --- | --- |
| Circuit breaker, `core/resilience.py` | state, failure count, opening time, half-open flag, a lock | `call`, in two critical sections around the protected function | all threads, through the `LiveIngestionService` singleton |
| Live ingestion, `ingestion/live_ingestion_service.py`, and `retry()` | per call: attempts, delay | `discover_services`, `ingest_live_service` | discover endpoints |
| Response cache, `api/cache.py` | an `OrderedDict` of entries with expiry, a lock | `get`, `set` | `/analyze`, `/simulate` |
| Rate limiter, `api/rate_limit.py` | a deque of times per client | `check` | every limited route, on the event loop |
| Tenants, `repositories/tenant_db.py`, `core/tenancy.py`, `api/routers/tenant.py` | tables tenants, team_members, service_registrations | create, add member, register, delete; context resolution | all requests, any process |
| Live endpoints, `api/routers/discover.py` | none of their own | discover, analyse a live service | read tenants, call live ingestion, write history |
| History, `repositories/history_db.py`, `history_service.py`, `api/routers/history.py` | table analysis_runs and its children, their schema version | record a run, read history and trends | background tasks of `/analyze` and `/recommend`, live analysis, `/history` |
| Authentication, `api/auth.py` | cached signing keys and metadata | validate a token | every request |
| Azure clients, `ingestion/azure_*.py` | none | list services page by page; put a live snapshot together from six documents | `LiveIngestionService` |
| Snapshots, `models/`, `ingestion/service.py`, `validators.py` | none | validate, ingest | analysis, tools of the orchestrator |
| Pure services: `analysis/`, `cost_modeling/`, `recommendations/` | none | analyse, simulate, recommend | the handlers, the orchestrator |
| Advice endpoints, `api/routers/{analyze,recommend,simulate}.py`, `api/service_adapters.py`, `api/schemas.py` | none; what a client keeps comes back in its next request | analyse, recommend, simulate, compare | clients |
| Orchestration, `orchestration/` | plan, results and transcript of one request | invoke specialists with retries | its own caller |
| Chat UI, `ui/src` | conversation in the browser | send, poll a run | one user |

Interactions: `/discover` and the live analysis resolve a tenant, read its registrations, and go
through breaker, retry loop and Azure client; the live analysis then records a run. `/analyze`
asks the cache, computes, sets the cache, answers, and records in a background task. `/recommend`
does the same without the cache. `/history` resolves a tenant and reads. The limiter runs first.

What is hard here: the breaker decides by whichever call returns, not by the one it let through;
threads read the clock before they wait for the cache's lock; a request is several transactions on
the tenant database; each request checks and migrates the history schema by itself; sleeps run
inside protected calls; the process may die between any two of these steps. `PROJECT.json`
lists these hazards at their lines. In the advice the difficulty is of another kind: facts are
computed twice (from the raw metrics and from a rounded daily average), thresholds are copied
between modules, text is searched for words, and the price list is consulted by none of them; an
answer is right only if all of these agree. And whichever documents Azure's data plane denies or
refuses, a live snapshot must still validate and must say what it lacks.

What makes each part correct, in a sentence each: the breaker never sticks and cuts traffic for
exactly the timeout; the retry loop backs off exponentially and is invisible to the breaker; the
cache is fresh, bounded and LRU; no window sees more than the limit and Retry-After is enough; a
user is in one tenant, answers are true, and tenants are changed by their admins and see their own
services; a key rotation of Entra costs no user a request, and a withdrawn key stays out once noticed;
no history query meets an old schema and nobody reads another tenant's runs; a finding leads to the
recommendation it calls for, urgent advice survives the cut of the list, following advice never
costs more, a loss of capacity is called a risk; the two modes of the orchestrator give one answer,
in time; a document of the data plane that is denied, refused, timed out or unreadable spoils no snapshot
and does not go unmentioned (a connection that drops while one is read does spoil it, see section 3).

## 2. Modules

| Module | Models | Uses |
| --- | --- | --- |
| `BreakerContract` | what a caller may rely on: flow, cut for the cooldown, one trial | |
| `CircuitBreaker` | `CircuitBreaker`, one action per critical section | |
| `CircuitBreakerProps` | properties, and the refinement of `BreakerContract` | `CircuitBreaker`, `BreakerContract` |
| `LiveIngestion` | `retry()` inside the breaker, over classes of exceptions | `CircuitBreakerProps` (each action contains the breaker's action) |
| `CircuitBreakerProofs` | proofs about both, first the breaker, then the service | `LiveIngestion` |
| `ResponseCache`, `ResponseCacheProofs` | `ResponseCache` and the handlers that use it; proofs | |
| `RateLimiter`, `RateLimiterProofs` | `SlidingWindowRateLimiter`; proofs | |
| `Auth`, `AuthProofs` | `_JwksCache` and `_decode_token`; proofs | |
| `Tenants`, `TenantsProps`, `TenantsProofs` | the tenant tables, context resolution, tenant and live endpoints; proofs | |
| `History`, `HistoryProps`, `HistoryProofs` | the history database under concurrent requests; proofs | |
| `Pricing` | `cost_modeling/`: search units, compute units, add-ons, comparison | |
| `Snapshots` | configuration, metrics, their translation from the API, every validator, `ingest_payload` | `Pricing` |
| `Analysis` | `AnalysisService` and the three analyzers, `map_analysis_result_to_response` | `Snapshots` |
| `Recommendations` | `RecommendationService` and its four generators | `Analysis` |
| `Advice` | `/recommend` and `/simulate` with the adapters between API and services | `Recommendations` |
| `Advisory`, `AdvisoryProofs` | a client that analyses, asks, simulates, compares and follows advice; proofs | `Advice` |
| `Orchestration` | the local orchestrator as a function, the framework's pipeline with retries as actions | `Advice` |
| `Management` | live discovery and the live snapshot | `Analysis` |
| `Advisor`, `AdvisorProofs` | the composition of the last three, live snapshots handed to the orchestrator; proofs about these and the orchestration | `Advisory`, `Orchestration`, `Management` |
| `MC...` | symmetry sets, workloads and services for TLC | the module after `MC` |

Conventions. Definitions keep the source's names in TLA+ spelling (`_trip_open` is `TripOpen`). A
thread's or request's program counter names what it does next; one action is one critical section,
one transaction, or one statement that commits by itself. History variables say "history" where
they are declared and no guard reads them. A definition whose comment starts with "Slip:" is a
mistake the code does **not** make; putting it in place of the definition after it must break a
property, which shows that the property notices.

### Circuit breaker
`Pass`, `Trial` and `Reject` are the outcomes of `_before_call`; `AfterSuccess` and
`AfterFailure(t, recorded)` are the second critical section, the flag being what
`record_failure(exc)` returned. The code uses the monotonic clock only in the difference from
`_opened_at`, so the model keeps that difference, saturated at the timeout; likewise the count is
saturated at the threshold. Both keep every comparison the code makes.

### Live ingestion
Exceptions fall into six classes by what `is_transient_azure_failure` and
`_should_record_failure` say of them. `Clock` advances all sleeps and the cooldown together.

### Response cache
A request is `Arrive` (reads the clock), `Get` (locked), `Compute` or `Fail`, `Set` (locked, with the
clock read in `Compute`). The `OrderedDict` is a sequence of entries; `Kept(s, I)` is what is left of it at
the places `I`, in order, of which eviction, `move_to_end` and reassignment are made. `recency` is a history of uses, against which the LRU order is judged.

### Rate limiter
`check` has no await, so it is one action. The model is of an enabled limiter.

### Authentication
`_decode_token` is a request's walk through the cache: `GetSigningKey` takes the lock and answers
from the cache or goes on to `FetchMetadata` and `FetchKeys`, which hold it; `GetIssuer` takes it
anew. `OnceMore` is the recursive call with `refresh=True`. `Publish` and `Withdraw` are Entra's. A
document may lack the URI of the keys, the issuer or the keys, which is where the code looks.

### Tenants
A request resolves its context (`ResolveContext`, `EnsureLocal`), then its handler runs; the live
endpoints release the database between reading registrations and using them. `create_tenant` is
three steps. `DatabaseFails` ends a request with a 500 wherever it touches the database, `Crash`
forgets all requests. Reading a membership and then its tenant is one step, because neither row is
ever changed or deleted.

### History
`Analyze` answers a request of `/analyze` or `/recommend` and starts its background task with the
time that will be recorded; `CreateTables`, `CreateIndex`, `ReadColumns`, `AlterTable` are the
statements of `_ensure_initialized`, which autocommit; `Insert` and `Select` are the queries.
`GiveUp` is the logged exception. A database may start absent, or old (without `tenant_id`) with or
without an index of the right name; in an old table without one, `CreateIndex` can never succeed.
`Restart` may change `AUTH_ENABLED`.

### Cost model, snapshots, analysis, recommendations
Pure code, so operators. Money is in whole cents and rounded as Python rounds (`RoundDiv`: half to
even), because the code rounds each amount to two places; a share of the queries is a pair of
numbers that is only ever compared with a threshold, so no quotient is rounded that the code does
not round. What may be `None` is a set of at most one element, or `Absent` for a count. A finding
keeps the topics its text mentions, since `build_recommendation_inputs` searches that text; a
recommendation keeps title, counts, priority, effort and the saving it names. Titles are ranked by
their place in the alphabet (`Titles`), as the last part of the sort key.

### Advice, Advisory
`Inputs` is `build_recommendation_inputs`: `ConfigurationFlags` and `WorkloadFlags` from the posted
configuration and metrics, then `TopicFlags` from the findings; `Over` is a dictionary updated with
another; `DefaultFlag` against `TopicFlag` is
`setdefault` against assignment. `ApplyProposedChanges`, `CapacityRisk` and `Estimate` are the parts of a
simulation. `Advisory` has a client work through the endpoints: the analysis it got comes back in a later
request (`analysis`), and `Adopt` does what a recommendation says, which is how advice is judged over
several steps.

### Orchestration
`LocalAnswer` is the local orchestrator. `HandleRequest`, `InvokeSpecialist` and `NeverInvoked` are the
framework's loop, one action per attempt: `Succeed` appends to the transcript and goes on, `Fail` tries
again or gives up. Only a file may be readable at one attempt and not at the next. The number of
retries comes from the environment and may be negative; then no attempt is made and the request fails.
`calls` counts what the transcript claims.

### Management, Advisor
An outcome is chosen for each document (`Outcomes`); `Notes` is what a snapshot says about them.
`Ingest` and `Discover` are a look at Azure, `AskAboutLive` hands the snapshot to the orchestrator. A
look keeps nothing a later one could depend on, so a session has one.

## 3. Runs

| Run | Checks | Bounds, and why they are enough |
| --- | --- | --- |
| `breaker` | fields agree; the half-open state has its trial; Retry-After is tight; refines `BreakerContract`; recovers once healthy | 3 threads (a trial, a late call and a newcomer); threshold 2 so that a count is neither first nor last; timeout 3 ticks of half a second, so that rounding shows |
| `live` | backoff is exponential; with its retries it is still a fair breaker | 2 threads, 2 retries, backoff 1 then 2, timeout 3: a sleep can outlast a cooldown |
| `live_outage` (violation) | a trial that ends in a transient failure closes the breaker | the same |
| `cache` | LRU order, freshness, eviction only of the dead or oldest | 2 threads, 3 keys in 2 entries, lifetime 2 of 4 ticks |
| `rate_limit` | every window, Retry-After | 2 clients, limit 2, window 3 half-second ticks in 8 |
| `tenants` | one tenant per user, true answers, only admins change, scoping | 2 requests at a time, 2 users, 2 tenants besides the local one, 2 registrations |
| `auth` | at most five fetches, good tokens accepted, withdrawal sticks | 2 requests, 2 keys: a request refreshes while another decodes, and a rotation has an old and a new key; nothing else is bounded |
| `tenant_conflict` (violation) | a refused creation leaves a tenant | as `tenants`, with 2 places |
| `history` | queries meet the schema, bounded loss in migration, own runs only | 2 requests, 2 tenants, the local tenant and a stranger, 2 runs, 2 ticks, one row per page |
| `history_upgrade` (violation) | two requests that migrate at a time | 2 requests |
| `advisor` | findings are acted on, urgent advice survives, cuts of capacity are flagged, advice never costs more; both modes of the orchestrator agree, notes are true, requests end in time; gaps are noted, no failure of the data plane that the client handles is fatal | configurations and 5 metrics on both sides of every threshold of analyzers, adapters and price list (each SKU class, both pricing models, every feature); lists cut at 1 and 20; 11 proposals, with stale, missing, repeated and compensating counts; every combination of the three inputs, valid, invalid and inconsistent; retries -1, 0 and 2; 10 services; any outcome at up to two documents, or the same at all |
| `claimed_savings` (violation) | a reduction saves what its recommendation claims | as `advisor` |

The runs with a bound on the clock, the rows or the runs (`MaxTime`, `MaxRows`, `MaxRuns`,
`MaxTenants`) stop there on purpose; in each, requests can always arrive or the clock tick, or the
bound has been reached with nothing left to ask, and the properties are safety properties that the
bound cannot make true. `breaker`, `live` and `auth` have no bound: their state is finite by itself.

### Fairness
`breaker`, `live` and `advisor` check liveness. The framework's loop (`NeverInvoked`, `InvokeSpecialist`)
is weakly fair because the thread of the request runs it and every tool returns or raises; the client
of `advisor` is under no fairness at all. `Tick`/`Clock` is weakly fair because time passes;
`Return`/`Attempt` is weakly fair because both Azure clients have connection and read timeouts and
`retry()` is bounded. That callers keep coming after the timeout is **not** assumed of the system:
it is the hypothesis of `RecoversOnceHealthy`, with the hypothesis that recorded failures stop.

### Findings
- `live_outage`: an unrecorded failure resets a half-open breaker. A bare `ConnectionError` or
  `TimeoutError` out of the trial is transient for `retry()` yet not recorded, so the breaker closes
  in the middle of an outage. (A late call does the same to another thread's trial; the property is
  about the trial itself.)
- `tenant_conflict`: the 409 of a lost race leaves a tenant without members.
- `history_upgrade`: the lock that should serialise the migration belongs to one request.
- `claimed_savings`: a recommendation to remove a replica or a partition is given the distance between
  the dedicated and the serverless total as its saving, whatever the removal saves and whichever
  of the two is cheaper (`service_adapters.py:406`); the examples of `docs/api/` differ for one change.

Other disagreements met while modelling, which the models contain and no run claims away:
- The orchestrator hands the recommendation service dumps that have none of the keys it reads
  (`orchestration/tools/recommendation_tools.py`): its answer always holds no recommendations and no saving
  (`NoFacts`), while `docs/architecture.md:101` has the agent synthesize guidance.
- A live snapshot never has metrics, so an orchestrated cost step about one fails after all retries; a
  payload without metrics, which the schema allows, crashes the consistency check. A snapshot posted as a
  mapping to the orchestrator skips that check, a payload does not.
- A service of the free tier is told to move to serverless, which costs more: the property
  `FollowingAdviceNeverCostsMore` leaves that tier out.
- A document that is JSON but no object, and a service without an endpoint, leave no note: `GapsAreNoted`
  leaves them out. A vectorizer without other vector settings, one count missing of two, and high density
  on another SKU make a snapshot invalid rather than partial, in or out of an outage.
- `_get_search_document` handles `URLError`, `TimeoutError` and JSON that does not parse
  (`ingestion/azure_search_management.py:335`). A connection that drops while a document is answered or read (a
  bare `ConnectionError`, `IncompleteRead`), or a body that is not UTF-8, passes every handler and loses
  the snapshot with all documents fetched before. `OutageIsNotFatal` leaves that outcome out (`"dropped"`
  for a requested document), and so does its theorem; `IngestService` has it.
- "Reduce partitions" may go from 1 to 1; "Reduce replicas" comes together with a CPU alert; a request
  with an analysis alone and a throttling alert among the facts ends with a 500 (`ReportFails`).
- `run_at` of a history record (`api/schemas.py:830`) is, for a cache hit, the time of the cached analysis.

## 4. Proofs

Assumptions are the named `ASSUME`s of the modules: positive limits, thresholds and windows; a bound on
time that is a number; a finite, non-empty set of slots; requests whose optional inputs are each one or none,
integer retries; services with finitely many indexes, indexers and skillsets, faults that are outcomes,
workloads the schemas accept, limits of a list from 1 to 20 (the bounds in `api/schemas.py`), and proposals
that are lists of changes with whole numbers for counts. Nothing else is assumed; no proof depends on the
bounds of a run. TLC has checked the inductive invariants on the instances of the runs.

Every safety property of a passing run, type invariants included, is a theorem.

- `CircuitBreakerProofs`, the breaker: `TypeOK /\ FieldsAgree /\ HalfOpenHasTrial` is inductive, with one
  lemma an action. `FieldsAgree` excludes the branch of `_before_call` that would admit a second call half
  open, without which neither the trial's uniqueness nor the refinement goes through. The contract
  follows by mapping every action to an action or a stutter of `BreakerContract` (safety part).
  `RetryAfterAlwaysTight` rests on `SecondsCover`: the ceiling of `_trip_open`'s remaining time is the least
  whole number of seconds that covers it, whatever fraction of a second a tick is.
- `CircuitBreakerProofs`, the service: every step of it is a step of the breaker or a stutter
  (`ServiceIsABreaker`), from which the breaker's invariant and contract carry over. `Backing` is the
  invariant of the loop: the age of a call plus what is left of its sleep is at least what it has backed
  off so far, up to the bound, and the next delay is the initial one doubled once an attempt.
- `ResponseCacheProofs`: the invariant (`IInv`) has four parts. `UsesFine` is the heart: the keys of the
  dictionary are *picked* from the keys in the order of their last use (`Picks` is a strictly increasing
  choice of places), so that whatever is dropped anywhere keeps the order, and what is used next goes to the
  end of both. `ThreadsFine` and `LifetimesFine` say what a waiting request's clock reading is worth: it
  is not in the future, and no entry expires later than its lifetime after it was stored. Then
  `LeastRecentFirst`, `HitsAreFresh` and `OnlyDeadOrOldestLeave`. That a finite set of places has an
  increasing enumeration, which `Kept` takes for granted, is proved by the least subset that has none
  (`EnumerationExists`), since induction over data is out of reach.
- `AdvisoryProofs`, in five steps.
  *Ranking.* `Recommended` has at most one item under a title (`RecommendedIs`), titles have different keys
  (`KeyTellsTitle`), and so every rank is taken exactly once (`RankExists`) and the urgent items have the
  first ones (`UrgentComeFirst`): cutting the list after n keeps the smaller of n and their number
  (`UrgentKept`).
  *Facts.* `InputsOfWorkload` and `InputsOfAnalysis` say what `build_recommendation_inputs` makes of a
  posted workload or of an analysis, and `Entry` what a rule says under its title given the facts.
  *Cost.* `CostIs` takes the cost model apart, and `FollowedNoDearer` compares part by part: fewer search
  units cost no more on any tier; serverless is proposed only below 100 000 queries a month
  (`FewQueries`), where the dearest queries (`ServerlessIsCheap`) cost less than the smallest paid service
  (`DedicatedCosts`); turning a feature off removes its part.
  *Findings.* `Founded` is what the configuration and the daily observation say when a finding mentions a
  topic. `AverageIsFair` is the arithmetic that ties it to the adapter: if the uses of a day are less than
  a share of the rounded daily average, the raw metrics of the month are below that share as well, since
  the rounding adds less than one. So each topic raises its flag (`FactsFollow`), each flag its recommendation
  (`RulesAct`), and a list short of its limit has it (`TopicsAreActedOn`).
  *The client.* `AdvisoryInv` says what a client may hold: an analysis that speaks of serverless only for few
  queries (`Sound`), an advice that is the answer to what was asked and about the present metrics, a simulation
  that was computed for the configuration as it still is. The configuration that advice was given for may
  have changed since, by other advice; so the items are shown to be fair to these metrics (`FairItem`), and
  what is compared is what following one makes of the configuration there is now.
  `CutsHeld` is about simulations: of any sequence of changes the last one of a count holds (`CountKept`).
- `AdvisorProofs`: three clients, so several invariants side by side (`AdvisorInvariance`). `Progress` says
  that a request which has not been given up has a prefix of its plan behind it, with results equal to
  those of `LocalResults` for a readable file, and one transcript entry for each stage with as many calls
  as it counts; `Where` places the stage in the plan. `AnswersAsLocal`, `NotesTellTheTruth` and
  `GivesUpInTime` follow for any requests, any configurations in them and any retries; `UsedSparingly` (one
  result a stage, no attempt too many) is what the types need besides. For live snapshots `LiveInv` ties a
  result to its service and outcomes; `OutageIsNotFatal` (no requested connection dropped) goes through a
  part-by-part argument that a configuration built from fewer documents still validates (`PartsValid`, `FeaturesListed`),
  `GapsAreNoted` through the finite collections. From `AdvisoryInv` come `AdviceNeverCostsMore`,
  `FindingsAlwaysActedOn`, `UrgentAdviceAlwaysSurvives` and `CapacityCutAlwaysFlagged`.
- `RateLimiterProofs`: the deque is a suffix of the log of admissions, everything before it left the
  window, and the log is sorted and spaced. From `Spaced` follows `WindowHolds`; that a full deque's
  head leaves the window by the promised time gives `RetryAfterSuffices`.
- `HistoryProofs`: invariants side by side. `Checked` says what each statement of the schema
  check has established and nobody undoes; `Scoped`, that runs and the requests that write or read
  them agree on the tenant; `Bounded`, that the runs lost so far and the requests still about to add
  the column are together fewer than the slots, since the request that did add it is in neither;
  `Within`, which the types need, that ids are unique, those of the runs there are, and pages within their limit.
- `AuthProofs`: the invariant `Fine` says of each request what it may still rely on: how many fetches
  it has made by the time it gets where it is, that a token whose key is still published is
  recognised as such, and that a request which has its key is not one whose key was known to be
  withdrawn when it came; of the cache, that it holds no key that a fetch has missed (`CacheFine`).
  What a step that ends a request owes it (`Owed`) gives `GoodTokensAccepted` and `WithdrawalSticks`.
- `TenantsProofs`: for any number of requests at a time and any users, services and bounds, the
  inductive invariant `IInv /\ Finite` (`Invariance`) and from it `OneTenantPerUser`,
  `AnswersAreTrue`, `OnlyAdminsChange` and `ScopedToTenant`. A request acts on a membership and on
  registrations that it read transactions ago, so the invariant has to say what of that is still
  true (`Context`): the membership whose role it took is still in the table, because nothing removes
  memberships, and the services it is about to show were registered by its tenant, now or before,
  because only a registration is ever removed. Each step is then shown to be `Faithful`: the slot's
  own answer is true and scoped, the other slots are as before, and a table changes only for a tenant
  of which the caller is an admin. `Finite` is there so that the next tenant's id is a number. `Foreign`
  gives the types: whatever row names a tenant, and whatever request is about to write for one, the tenant is in its table.

## 5. Only model-checked

Liveness (`RecoversOnceHealthy`, `RequestsAreAnswered`, the fairness part of `ImplementsBreaker`), which is
beyond the prover. That the operators of `Pricing` and `Snapshots` are total is not stated; what they return
is used where a proof needs it.

## 6. Not modelled, and why

- The browser client (`ui/src`): it polls a hosted agent whose runtime is not in the repository.
- Texts, identifiers, remediation steps, alert commands, logging, middleware, settings: wording and wiring.
- Periods of a price and `pricing_horizon_days`: multiples of the monthly amount that nothing compares.
- Authentication: signatures, audiences and expiry (a token is good or not).
  Waiting for the lock is not checked for liveness: a Python lock promises no order among waiters.
- Azure's documents are records of what the detectors look for, not JSON; the Resource Graph's paging is
  a sequence of pages.
- Deployment of the orchestrator to a hosted runtime.
- No caller: `TenantDbRepository.record_history`/`list_history`, `HistoryDatabase.fetch_latest`,
  `ingest_directory`, `ingest_many`. No reader: the request field `prioritize_for`.

## 7. Plan

1. Proofs: of `BreakerContract` itself, that its cut and its single trial bound the traffic that a
   failing service gets; that a ranked list is sorted by `SortKey` throughout, not only at its urgent end.
2. `LiveIngestion` with the outcomes of `Management` in the place of its classes of exceptions, so that one
   run takes a fault from a document to the breaker.
