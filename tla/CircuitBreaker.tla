---------------------------- MODULE CircuitBreaker ----------------------------
(***************************************************************************)
(* CircuitBreaker of core/resilience.py, one instance shared by every      *)
(* thread of the FastAPI worker pool (the LiveIngestionService singleton). *)
(*                                                                         *)
(* call() takes the lock twice: in _before_call and, after the protected   *)
(* function has run outside the lock, in _after_success or _after_failure. *)
(* Each critical section is one action here; between the two a thread is   *)
(* in flight and anything may happen to the breaker.                       *)
(*                                                                         *)
(* Time.  The code reads the monotonic clock only to subtract _opened_at   *)
(* from it and to compare the difference with the recovery timeout, so the *)
(* model keeps the difference, saturated at the timeout.  The failure      *)
(* count is likewise only compared with the threshold, and saturates there.*)
(*                                                                         *)
(* Definitions whose comment starts with "Slip:" are mistakes the code     *)
(* does not make; they show that the properties would notice them.         *)
(***************************************************************************)
EXTENDS Integers

CONSTANTS Threads,           \* threads that may be inside call()
          FailureThreshold,  \* failure_threshold
          RecoveryTimeout,   \* recovery_timeout, in ticks
          TicksPerSecond     \* ticks in the second that Retry-After counts

ASSUME ThresholdAssumption == FailureThreshold \in Nat \ {0}
ASSUME TimeoutAssumption   == RecoveryTimeout \in Nat
ASSUME TicksAssumption     == TicksPerSecond \in Nat \ {0}

VARIABLES
  state,        \* _state
  failures,     \* _consecutive_failures, up to FailureThreshold
  sinceOpened,  \* ticks since _opened_at, up to RecoveryTimeout; or NotOpened
  inFlight,     \* _half_open_in_flight
  pc,           \* per thread: outside call(), in a call, or in the trial call
  retryAfter    \* per thread: seconds its last rejection advised; 0 if none

breaker == <<state, failures, sinceOpened, inFlight>>
vars    == <<state, failures, sinceOpened, inFlight, pc, retryAfter>>

NotOpened == -1    \* _opened_at is None

AtMost(n, limit)  == IF n < limit THEN n ELSE limit
AtLeast(n, limit) == IF n > limit THEN n ELSE limit
Seconds(ticks)    == (ticks + TicksPerSecond - 1) \div TicksPerSecond  \* ceil

Init ==
  /\ state = "CLOSED" /\ failures = 0
  /\ sinceOpened = NotOpened /\ inFlight = FALSE
  /\ pc = [t \in Threads |-> "idle"]
  /\ retryAfter = [t \in Threads |-> 0]

-----------------------------------------------------------------------------
(* Helpers that run with the lock held.                                    *)

(* Slip: the count survives a reset.                                       *)
ResetKeepingFailures ==
  /\ state' = "CLOSED" /\ sinceOpened' = NotOpened /\ inFlight' = FALSE
  /\ UNCHANGED failures

Reset ==
  /\ state' = "CLOSED" /\ failures' = 0
  /\ sinceOpened' = NotOpened /\ inFlight' = FALSE

(* Slip: a second trip keeps the time stamp of the first.                  *)
TripOpenKeepingStamp ==
  /\ state' = "OPEN" /\ inFlight' = FALSE
  /\ sinceOpened' = IF sinceOpened = NotOpened THEN 0 ELSE sinceOpened

TripOpen == state' = "OPEN" /\ sinceOpened' = 0 /\ inFlight' = FALSE

(* Slip: the difference is taken the wrong way round, and nothing clamps it.*)
RetryAfterNegated == Seconds(sinceOpened - RecoveryTimeout)

(* Slip: int() where the code has ceil().                                  *)
RetryAfterTruncated ==
  AtLeast(1, (RecoveryTimeout - sinceOpened) \div TicksPerSecond)

RetryAfterSeconds ==
  IF sinceOpened = NotOpened
  THEN AtLeast(1, Seconds(RecoveryTimeout))
  ELSE AtLeast(1, Seconds(AtLeast(0, RecoveryTimeout - sinceOpened)))

-----------------------------------------------------------------------------
(* _before_call                                                            *)

(* Neither branch of _before_call applies: the call simply goes ahead.     *)
Pass(t) ==
  /\ pc[t] = "idle"
  /\ state # "OPEN"
  /\ ~(state = "HALF_OPEN" /\ inFlight = TRUE)
  /\ pc' = [pc EXCEPT ![t] = "calling"]
  /\ retryAfter' = [retryAfter EXCEPT ![t] = 0]
  /\ UNCHANGED breaker

(* Slip: the trial does not claim the half-open slot.                      *)
TrialUnclaimed(t) ==
  /\ pc[t] = "idle"
  /\ state = "OPEN" /\ sinceOpened >= RecoveryTimeout
  /\ state' = "HALF_OPEN"
  /\ pc' = [pc EXCEPT ![t] = "trial"]
  /\ retryAfter' = [retryAfter EXCEPT ![t] = 0]
  /\ UNCHANGED <<failures, sinceOpened, inFlight>>

Trial(t) ==
  /\ pc[t] = "idle"
  /\ state = "OPEN" /\ sinceOpened >= RecoveryTimeout
  /\ state' = "HALF_OPEN" /\ inFlight' = TRUE
  /\ pc' = [pc EXCEPT ![t] = "trial"]
  /\ retryAfter' = [retryAfter EXCEPT ![t] = 0]
  /\ UNCHANGED <<failures, sinceOpened>>

Reject(t) ==
  /\ pc[t] = "idle"
  /\ \/ /\ state = "OPEN" /\ sinceOpened < RecoveryTimeout
        /\ retryAfter' = [retryAfter EXCEPT ![t] = RetryAfterSeconds]
     \/ /\ state = "HALF_OPEN" /\ inFlight = TRUE
        /\ retryAfter' = [retryAfter EXCEPT ![t] = AtLeast(1, Seconds(RecoveryTimeout))]
  /\ UNCHANGED <<breaker, pc>>

-----------------------------------------------------------------------------
(* _after_success and _after_failure.  Whichever call returns decides: the *)
(* breaker knows neither which call it was nor when it was let through.    *)

Leave(t) ==
  /\ pc[t] # "idle"
  /\ pc' = [pc EXCEPT ![t] = "idle"]
  /\ UNCHANGED retryAfter

AfterSuccess(t) == Leave(t) /\ Reset

(* Slip: a failure that is not recorded leaves the breaker untouched.      *)
IgnoreUnrecorded == UNCHANGED breaker

(* The failure says nothing of Azure's health (_record_failure is false).  *)
Unrecorded ==
  \/ state = "HALF_OPEN" /\ Reset
  \/ /\ state # "HALF_OPEN"
     /\ inFlight' = FALSE
     /\ UNCHANGED <<state, failures, sinceOpened>>

Recorded ==
  \/ state = "HALF_OPEN" /\ TripOpen /\ UNCHANGED failures
  \/ /\ state # "HALF_OPEN"
     /\ failures' = AtMost(failures + 1, FailureThreshold)
     /\ IF failures + 1 >= FailureThreshold
        THEN TripOpen
        ELSE inFlight' = FALSE /\ UNCHANGED <<state, sinceOpened>>

AfterFailure(t, recorded) ==
  Leave(t) /\ IF recorded THEN Recorded ELSE Unrecorded

-----------------------------------------------------------------------------
(* The monotonic clock.                                                    *)
Tick ==
  /\ sinceOpened \in 0 .. RecoveryTimeout - 1
  /\ sinceOpened' = sinceOpened + 1
  /\ UNCHANGED <<state, failures, inFlight, pc, retryAfter>>

Return(t) == AfterSuccess(t) \/ \E recorded \in BOOLEAN : AfterFailure(t, recorded)

Next ==
  \/ \E t \in Threads : Pass(t) \/ Trial(t) \/ Reject(t) \/ Return(t)
  \/ Tick

(* The clock runs, and a protected call comes back: both Azure clients set *)
(* connection and read timeouts, and retry() gives up after four attempts. *)
Fairness == WF_vars(Tick) /\ \A t \in Threads : WF_vars(Return(t))

Spec     == Init /\ [][Next]_vars
FairSpec == Spec /\ Fairness

=============================================================================
