------------------------- MODULE CircuitBreakerProps -------------------------
(***************************************************************************)
(* What the breaker must do, checked by MCCircuitBreaker and, where         *)
(* CircuitBreakerProofs says so, proved for every value of the constants.  *)
(***************************************************************************)
EXTENDS CircuitBreaker

(* The variables hold values of their types.                               *)
TypeOK ==
  /\ state \in {"CLOSED", "OPEN", "HALF_OPEN"}
  /\ failures \in 0 .. FailureThreshold
  /\ sinceOpened \in {NotOpened} \cup 0 .. RecoveryTimeout
  /\ inFlight \in BOOLEAN
  /\ pc \in [Threads -> {"idle", "calling", "trial"}]
  /\ retryAfter \in [Threads -> Nat]

(* The four fields that the code updates one by one never disagree outside *)
(* the lock: there is a time stamp exactly while the breaker is not closed *)
(* (the assert of _before_call), the half-open flag says half open, and    *)
(* the breaker is closed exactly while the count is short of the threshold.*)
FieldsAgree ==
  /\ state = "CLOSED" <=> sinceOpened = NotOpened
  /\ state = "HALF_OPEN" <=> inFlight = TRUE
  /\ state = "CLOSED" <=> failures < FailureThreshold

(* The half-open state, in which every other caller is turned away without *)
(* any timeout, never outlives its trial: the call that claimed the slot   *)
(* has yet to return, whatever late calls have returned in the meantime.   *)
HalfOpenHasTrial == state = "HALF_OPEN" => \E t \in Threads : pc[t] = "trial"

(* Retry-After of a rejection in the open state is the least number of     *)
(* whole seconds that outlasts what is left of the recovery timeout.       *)
RetryAfterIsTight ==
  [][\A t \in Threads : Reject(t) /\ state = "OPEN" =>
       /\ retryAfter'[t] * TicksPerSecond >= RecoveryTimeout - sinceOpened
       /\ (retryAfter'[t] - 1) * TicksPerSecond < RecoveryTimeout - sinceOpened]_vars

(* The breaker keeps the promise of BreakerContract: a cut lasts the whole *)
(* recovery timeout counted from the last failure, then lets one call      *)
(* through, and the first return of any call settles a half-open breaker.  *)
Contract == INSTANCE BreakerContract WITH
  Cooldown <- RecoveryTimeout,
  mode     <- CASE state = "CLOSED"    -> "flow"
                [] state = "OPEN"      -> "cut"
                [] state = "HALF_OPEN" -> "trial",
  cooling  <- IF state = "OPEN" THEN RecoveryTimeout - sinceOpened
                                ELSE RecoveryTimeout,
  running  <- {t \in Threads : pc[t] # "idle"}

KeepsContract == Contract!Spec

(* Once Azure stops failing in the ways that count, and as long as callers *)
(* still come when the timeout has run out, the breaker closes for good.   *)
RecordedFailure  == \E t \in Threads : AfterFailure(t, TRUE)
CallersKeepComing == WF_vars(\E t \in Threads : Trial(t))

RecoversOnceHealthy ==
  CallersKeepComing /\ <>[][~RecordedFailure]_vars => <>[](state = "CLOSED")
=============================================================================
