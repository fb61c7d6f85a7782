---------------------------- MODULE LiveIngestion ----------------------------
(***************************************************************************)
(* LiveIngestionService: discover_services and ingest_live_service, each a *)
(* call through the one circuit breaker of a function wrapped in retry(),  *)
(* which itself calls an Azure client.  The breaker sees one call; inside  *)
(* it the retry loop makes up to MaxRetries + 1 attempts and sleeps        *)
(* between them, with the breaker's lock free and its clock running.       *)
(*                                                                         *)
(* An attempt ends in "ok" or in one of the exceptions the clients let     *)
(* out, told apart only by what retry() and the breaker ask of them.       *)
(***************************************************************************)
EXTENDS CircuitBreakerProps

CONSTANTS MaxRetries,      \* max_retries
          InitialBackoff,  \* initial_backoff_seconds, in ticks
          AgeBound         \* the history variable age counts up to here

ASSUME RetriesAssumption == MaxRetries \in Nat
ASSUME BackoffAssumption == InitialBackoff \in Nat \ {0}
ASSUME AgeAssumption     == AgeBound \in Nat

VARIABLES attempts,  \* per thread: attempts that have failed so far
          delay,     \* per thread: the next backoff
          sleep,     \* per thread: ticks of the current backoff still to run
          age        \* history: ticks since the call began, up to AgeBound

retrying == <<attempts, delay, sleep, age>>
liveVars == <<vars, retrying>>

Exceptions ==
  { "busy",          \* HTTP 429/500/502/503, wrapped in AzureLiveIngestionError
    "refused",       \* any other HTTP status, wrapped likewise
    "notFound",      \* 404, wrapped in AzureSearchServiceNotFoundError
    "noCredentials", \* wrapped in AzureCredentialsUnavailableError
    "connection",    \* a bare ConnectionError or TimeoutError
    "unmapped" }     \* whatever else the clients do not catch

IsTransient(e)  == e \in {"busy", "connection"}
ShouldRecord(e) == e \in {"busy", "refused"}

LiveInit ==
  /\ Init
  /\ attempts = [t \in Threads |-> 0]
  /\ delay    = [t \in Threads |-> InitialBackoff]
  /\ sleep    = [t \in Threads |-> 0]
  /\ age      = [t \in Threads |-> 0]

(* call() admits the thread, which enters the wrapper with fresh locals.   *)
Begin(t) ==
  /\ Pass(t) \/ Trial(t)
  /\ attempts' = [attempts EXCEPT ![t] = 0]
  /\ delay'    = [delay EXCEPT ![t] = InitialBackoff]
  /\ age'      = [age EXCEPT ![t] = 0]
  /\ UNCHANGED sleep

TurnedAway(t) == Reject(t) /\ UNCHANGED retrying

Awake(t) == pc[t] # "idle" /\ sleep[t] = 0

AttemptSucceeds(t) == Awake(t) /\ AfterSuccess(t) /\ UNCHANGED retrying

(* Slip: one retry too many.                                               *)
RetriesOnceMore(t, e) == IsTransient(e) /\ attempts[t] <= MaxRetries

Retries(t, e) == IsTransient(e) /\ attempts[t] < MaxRetries

(* Slip: neither the attempt nor its delay is counted.                     *)
BackOffForever(t) ==
  /\ sleep' = [sleep EXCEPT ![t] = delay[t]]
  /\ UNCHANGED <<vars, attempts, delay, age>>

(* Slip: the delay doubles before the sleep is over, so that it never runs. *)
BackOffWithoutSleep(t) ==
  /\ attempts' = [attempts EXCEPT ![t] = @ + 1]
  /\ delay'    = [delay EXCEPT ![t] = 2 * @]
  /\ UNCHANGED <<vars, sleep, age>>

BackOff(t) ==
  /\ sleep'    = [sleep EXCEPT ![t] = delay[t]]
  /\ attempts' = [attempts EXCEPT ![t] = @ + 1]
  /\ delay'    = [delay EXCEPT ![t] = 2 * @]
  /\ UNCHANGED <<vars, age>>

AttemptFails(t, e) ==
  /\ Awake(t)
  /\ IF Retries(t, e)
     THEN BackOff(t)
     ELSE AfterFailure(t, ShouldRecord(e)) /\ UNCHANGED retrying

Attempt(t) == (\E e \in Exceptions : AttemptFails(t, e)) \/ AttemptSucceeds(t)

(* One tick for every sleeper and for the breaker's cooldown alike.        *)
Clock ==
  /\ sinceOpened \in 0 .. RecoveryTimeout - 1 \/ \E t \in Threads : sleep[t] > 0
  /\ sinceOpened' = IF sinceOpened = NotOpened
                    THEN NotOpened
                    ELSE AtMost(sinceOpened + 1, RecoveryTimeout)
  /\ sleep' = [t \in Threads |-> AtLeast(sleep[t] - 1, 0)]
  /\ age'   = [t \in Threads |-> IF pc[t] = "idle" THEN age[t]
                                 ELSE AtMost(age[t] + 1, AgeBound)]
  /\ UNCHANGED <<state, failures, inFlight, pc, retryAfter, attempts, delay>>

LiveNext ==
  \/ \E t \in Threads : Begin(t) \/ TurnedAway(t) \/ Attempt(t)
  \/ Clock

(* Sleeps end and each single attempt comes back, by the clients' timeouts.*)
LiveSpec ==
  /\ LiveInit /\ [][LiveNext]_liveVars
  /\ WF_liveVars(Clock) /\ \A t \in Threads : WF_liveVars(Attempt(t))

-----------------------------------------------------------------------------
(* The variables of the retry loop hold values of their types.             *)
LiveTypeOK ==
  /\ attempts \in [Threads -> 0 .. MaxRetries]
  /\ delay \in [Threads -> Nat]
  /\ sleep \in [Threads -> Nat]
  /\ age \in [Threads -> 0 .. AgeBound]

(* What the breaker promises for calls that merely come back survives the  *)
(* retry loop around each of them: the service is a breaker whose protected*)
(* calls all return, however many attempts and sleeps each takes, and      *)
(* whichever other calls trip or close the breaker during those sleeps.    *)
ImplementsBreaker == FairSpec

(* Exponential backoff: before its n-th retry a call has been going for at *)
(* least (2^n - 1) initial backoffs (the sum of the sleeps, delay being    *)
(* 2^n of them), also when other calls and the clock interleave.           *)
BackoffIsExponential ==
  \A t \in Threads : Awake(t) =>
    age[t] >= AtMost(delay[t] - InitialBackoff, AgeBound)

(* The breaker guards against an unstable Azure ("protecting unstable      *)
(* integrations"), and is_transient_azure_failure names the failures of an *)
(* unstable Azure: a trial that ends in one must not close the breaker.    *)
(* (The state after such a failure is that of a success: the breaker cannot*)
(* tell them apart, which is what goes wrong.)                             *)
TransientFailureNeverCloses ==
  [][\A t \in Threads, e \in Exceptions :
       /\ pc[t] = "trial" /\ state = "HALF_OPEN"
       /\ AttemptFails(t, e) /\ IsTransient(e)
       => state' # "CLOSED"]_liveVars
=============================================================================
