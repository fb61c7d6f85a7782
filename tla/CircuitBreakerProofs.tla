------------------------- MODULE CircuitBreakerProofs -------------------------
(***************************************************************************)
(* For any set of threads, threshold, timeout and tick, the safety         *)
(* properties of CircuitBreakerProps and the step from the breaker to its  *)
(* contract.  FieldsAgree alone is not inductive: that the half-open flag  *)
(* is never cleared behind the state's back needs the types, and the       *)
(* contract's single trial needs FieldsAgree, which rules out the branch   *)
(* of _before_call that would let a second call pass half open.            *)
(*                                                                         *)
(* The second half is about the live service, for any retries and backoff: *)
(* it is a circuit breaker whose protected calls return, and the retry     *)
(* loop around each of them backs off exponentially.                       *)
(***************************************************************************)
EXTENDS LiveIngestion, TLAPS

IInv == TypeOK /\ FieldsAgree /\ HalfOpenHasTrial

(* Retry-After is a natural number of seconds.                             *)
LEMMA SecondsNat ==
  ASSUME NEW ticks \in Nat
  PROVE  Seconds(ticks) \in Int
BY TicksAssumption DEF Seconds

(* The whole seconds of a Retry-After are the least that cover the ticks.  *)
LEMMA SecondsCover ==
  ASSUME NEW ticks \in Nat
  PROVE  /\ Seconds(ticks) * TicksPerSecond >= ticks
         /\ (Seconds(ticks) - 1) * TicksPerSecond < ticks
<1> DEFINE a == ticks + TicksPerSecond - 1
           d == a \div TicksPerSecond
           r == a % TicksPerSecond
<1>1. TicksPerSecond \in Nat /\ TicksPerSecond > 0 /\ a \in Nat
  BY TicksAssumption
<1>2. d \in Int /\ r \in 0 .. (TicksPerSecond - 1) /\ a = TicksPerSecond * d + r
  BY <1>1
<1>3. Seconds(ticks) = d
  BY DEF Seconds
<1>4. a = ticks + TicksPerSecond - 1
  OBVIOUS
<1> HIDE DEF a, d, r
<1>5. TicksPerSecond * d \in Int /\ d * TicksPerSecond = TicksPerSecond * d
  BY <1>1, <1>2
<1>6. (d - 1) * TicksPerSecond = d * TicksPerSecond - TicksPerSecond
  BY <1>1, <1>2
<1>7. d * TicksPerSecond >= ticks
  BY <1>1, <1>2, <1>4, <1>5
<1>8. d * TicksPerSecond - TicksPerSecond < ticks
  BY <1>1, <1>2, <1>4, <1>5
<1>9. QED
  BY <1>3, <1>6, <1>7, <1>8

LEMMA RetryAfterNat ==
  ASSUME sinceOpened \in Int
  PROVE  /\ RetryAfterSeconds \in Nat
         /\ AtLeast(1, Seconds(RecoveryTimeout)) \in Nat
<1>1. Seconds(RecoveryTimeout) \in Int
  BY SecondsNat, TimeoutAssumption
<1>2. AtLeast(0, RecoveryTimeout - sinceOpened) \in Nat
  BY TimeoutAssumption DEF AtLeast
<1>3. Seconds(AtLeast(0, RecoveryTimeout - sinceOpened)) \in Int
  BY <1>2, SecondsNat
<1>4. QED
  BY <1>1, <1>3 DEF RetryAfterSeconds, AtLeast

(* The breaker starts closed, with every thread outside.                   *)
LEMMA InitIInv == Init => IInv
<1> SUFFICES ASSUME Init PROVE IInv
  OBVIOUS
<1>1. inFlight \in BOOLEAN
  BY DEF Init
<1>2. TypeOK
  BY <1>1, ThresholdAssumption DEF Init, TypeOK
<1>3. FieldsAgree /\ HalfOpenHasTrial
  BY ThresholdAssumption DEF Init, FieldsAgree, HalfOpenHasTrial
<1>4. QED
  BY <1>2, <1>3 DEF IInv

(* A call that goes ahead: only in the closed state.                       *)
LEMMA PassIInv == ASSUME IInv, NEW t \in Threads, Pass(t) PROVE IInv'
<1> USE DEF IInv
<1>1. TypeOK'
  BY DEF Pass, TypeOK, breaker
<1>2. FieldsAgree'
  BY DEF Pass, FieldsAgree, breaker
<1>3. HalfOpenHasTrial'
  BY DEF Pass, HalfOpenHasTrial, FieldsAgree, breaker
<1>4. QED
  BY <1>1, <1>2, <1>3

(* A call that claims the half-open slot becomes its trial.                *)
LEMMA TrialIInv == ASSUME IInv, NEW t \in Threads, Trial(t) PROVE IInv'
<1> USE DEF IInv
<1>1. TypeOK'
  BY DEF Trial, TypeOK
<1>2. FieldsAgree'
  BY DEF Trial, FieldsAgree
<1>3. pc'[t] = "trial"
  BY DEF Trial, TypeOK
<1>4. HalfOpenHasTrial'
  BY <1>3 DEF HalfOpenHasTrial
<1>5. QED
  BY <1>1, <1>2, <1>4

(* A rejected call only learns when to come back.                          *)
LEMMA RejectIInv == ASSUME IInv, NEW t \in Threads, Reject(t) PROVE IInv'
<1> USE DEF IInv
<1>1. sinceOpened \in Int
  BY TimeoutAssumption DEF TypeOK, NotOpened
<1>2. \E n \in Nat : retryAfter' = [retryAfter EXCEPT ![t] = n]
  BY <1>1, RetryAfterNat DEF Reject
<1>3. TypeOK'
  BY <1>2 DEF Reject, TypeOK, breaker
<1>4. FieldsAgree' /\ HalfOpenHasTrial'
  BY DEF Reject, FieldsAgree, HalfOpenHasTrial, breaker
<1>5. QED
  BY <1>3, <1>4

(* What holds of the breaker's fields once a call has returned.            *)
Settled ==
  /\ state' \in {"CLOSED", "OPEN"}
  /\ failures' \in 0 .. FailureThreshold
  /\ sinceOpened' \in {NotOpened} \cup 0 .. RecoveryTimeout
  /\ FieldsAgree'

LEMMA ResetSettles == Reset => Settled /\ inFlight' \in BOOLEAN
<1> SUFFICES ASSUME Reset PROVE Settled /\ inFlight' \in BOOLEAN
  OBVIOUS
<1>1. Settled
  BY ThresholdAssumption DEF Reset, Settled, FieldsAgree
<1>2. inFlight' \in BOOLEAN
  BY DEF Reset
<1>3. QED
  BY <1>1, <1>2

(* A trip settles a breaker whose count has reached the threshold.         *)
LEMMA TripSettles ==
  ASSUME TripOpen, failures' = FailureThreshold
  PROVE  Settled /\ inFlight' \in BOOLEAN
<1>1. Settled
  BY ThresholdAssumption, TimeoutAssumption
     DEF TripOpen, Settled, FieldsAgree, NotOpened
<1>2. inFlight' \in BOOLEAN
  BY DEF TripOpen
<1>3. QED
  BY <1>1, <1>2

LEMMA RecordedSettles == ASSUME IInv, Recorded PROVE Settled /\ inFlight' \in BOOLEAN
<1> USE ThresholdAssumption DEF IInv, TypeOK, FieldsAgree
<1>1. CASE state = "HALF_OPEN"
  <2>1. TripOpen /\ failures' = FailureThreshold
    BY <1>1 DEF Recorded
  <2>2. QED
    BY <2>1, TripSettles
<1>2. CASE state # "HALF_OPEN" /\ failures + 1 >= FailureThreshold
  <2>1. failures' = FailureThreshold
    BY <1>2 DEF Recorded, AtMost
  <2>2. TripOpen
    BY <1>2 DEF Recorded
  <2>3. QED
    BY <2>1, <2>2, TripSettles
<1>3. CASE state # "HALF_OPEN" /\ ~(failures + 1 >= FailureThreshold)
  <2>1. failures' = failures + 1 /\ UNCHANGED <<state, sinceOpened>>
    BY <1>3 DEF Recorded, AtMost
  <2>2. inFlight' = FALSE
    BY <1>3 DEF Recorded
  <2>3. Settled
    BY <1>3, <2>1, <2>2 DEF Settled
  <2>4. QED
    BY <2>2, <2>3
<1>4. QED
  BY <1>1, <1>2, <1>3

LEMMA UnrecordedSettles == ASSUME IInv, Unrecorded PROVE Settled /\ inFlight' \in BOOLEAN
<1>1. CASE state = "HALF_OPEN"
  BY <1>1, ResetSettles DEF Unrecorded
<1>2. CASE state # "HALF_OPEN"
  <2>1. inFlight' = FALSE /\ UNCHANGED <<state, failures, sinceOpened>>
    BY <1>2 DEF Unrecorded
  <2>2. Settled
    BY <1>2, <2>1 DEF Settled, IInv, TypeOK, FieldsAgree
  <2>3. QED
    BY <2>1, <2>2
<1>3. QED
  BY <1>1, <1>2

(* Whichever call returns and however it ended, nothing is half open after.*)
LEMMA ReturnSettles == ASSUME IInv, NEW t \in Threads, Return(t)
                       PROVE  Leave(t) /\ Settled /\ inFlight' \in BOOLEAN
<1>1. Leave(t) /\ (Reset \/ Recorded \/ Unrecorded)
  BY DEF Return, AfterSuccess, AfterFailure
<1>2. QED
  BY <1>1, ResetSettles, RecordedSettles, UnrecordedSettles

LEMMA ReturnIInv == ASSUME IInv, NEW t \in Threads, Return(t) PROVE IInv'
<1>1. Leave(t) /\ Settled /\ inFlight' \in BOOLEAN
  BY ReturnSettles
<1>2. TypeOK'
  BY <1>1 DEF Leave, IInv, TypeOK, Settled
<1>3. HalfOpenHasTrial'
  BY <1>1 DEF HalfOpenHasTrial, Settled
<1>4. QED
  BY <1>1, <1>2, <1>3 DEF IInv, Settled

(* The clock moves nothing but the age of the opening.                     *)
LEMMA TickIInv == ASSUME IInv, Tick PROVE IInv'
<1> USE TimeoutAssumption DEF IInv, Tick
<1>1. TypeOK'
  BY DEF TypeOK, NotOpened
<1>2. FieldsAgree' /\ HalfOpenHasTrial'
  BY DEF TypeOK, FieldsAgree, HalfOpenHasTrial, NotOpened
<1>3. QED
  BY <1>1, <1>2

(* Every step of the breaker preserves the invariant.                      *)
LEMMA NextIInv == IInv /\ [Next]_vars => IInv'
<1> SUFFICES ASSUME IInv, [Next]_vars PROVE IInv'
  OBVIOUS
<1>1. ASSUME NEW t \in Threads, Pass(t) \/ Trial(t) \/ Reject(t) \/ Return(t)
      PROVE  IInv'
  BY <1>1, PassIInv, TrialIInv, RejectIInv, ReturnIInv
<1>2. CASE Tick
  BY <1>2, TickIInv
<1>3. CASE UNCHANGED vars
  BY <1>3 DEF vars, IInv, TypeOK, FieldsAgree, HalfOpenHasTrial
<1>4. QED
  BY <1>1, <1>2, <1>3 DEF Next

(* The inductive invariant holds throughout.                               *)
THEOREM Invariance == Spec => []IInv
BY InitIInv, NextIInv, PTL DEF Spec

(* The variables of the breaker keep their types.                          *)
THEOREM TypeCorrect == Spec => []TypeOK
BY Invariance, PTL DEF IInv

(* Between critical sections the four fields of the breaker agree; the     *)
(* assert in _before_call never fails.                                     *)
THEOREM FieldsAlwaysAgree == Spec => []FieldsAgree
BY Invariance, PTL DEF IInv

(* A half-open breaker is always waiting for a call that will return.      *)
THEOREM HalfOpenAlwaysHasTrial == Spec => []HalfOpenHasTrial
BY Invariance, PTL DEF IInv

LEMMA OpenAdvice ==
  ASSUME IInv, NEW t \in Threads, Reject(t), state = "OPEN"
  PROVE  /\ retryAfter'[t] * TicksPerSecond >= RecoveryTimeout - sinceOpened
         /\ (retryAfter'[t] - 1) * TicksPerSecond < RecoveryTimeout - sinceOpened
<1> DEFINE left == RecoveryTimeout - sinceOpened
<1>1. /\ sinceOpened \in 0 .. RecoveryTimeout /\ sinceOpened < RecoveryTimeout
      /\ sinceOpened # NotOpened /\ t \in DOMAIN retryAfter
      /\ retryAfter' = [retryAfter EXCEPT ![t] = RetryAfterSeconds]
  BY TimeoutAssumption DEF IInv, TypeOK, FieldsAgree, Reject, NotOpened
<1>2. left \in Nat /\ left > 0
  BY <1>1, TimeoutAssumption
<1> HIDE DEF left
<1>3. /\ Seconds(left) * TicksPerSecond >= left
      /\ (Seconds(left) - 1) * TicksPerSecond < left
  BY <1>2, SecondsCover
<1>4. Seconds(left) \in Int
  BY <1>2, SecondsNat
<1>5. Seconds(left) >= 1
  <2>1. SUFFICES ASSUME Seconds(left) <= 0 PROVE FALSE
    BY <1>4
  <2>2. Seconds(left) * TicksPerSecond <= 0
    BY <1>4, <2>1, TicksAssumption
  <2>3. Seconds(left) * TicksPerSecond \in Int
    BY <1>4, TicksAssumption
  <2>4. QED
    BY <1>2, <1>3, <2>2, <2>3
<1>6. RetryAfterSeconds = Seconds(left)
  <2>1. AtLeast(0, left) = left /\ AtLeast(1, Seconds(left)) = Seconds(left)
    BY <1>2, <1>4, <1>5 DEF AtLeast
  <2>2. RetryAfterSeconds = AtLeast(1, Seconds(AtLeast(0, left)))
    BY <1>1 DEF RetryAfterSeconds, left
  <2>3. QED
    BY <2>1, <2>2
<1>7. QED
  BY <1>1, <1>3, <1>6 DEF left

(* A rejection while the breaker is open advises the least number of whole *)
(* seconds that outlasts the cut, whatever a tick of the clock is.         *)
THEOREM RetryAfterAlwaysTight == Spec => RetryAfterIsTight
<1>1. IInv /\ [Next]_vars =>
        [\A t \in Threads : Reject(t) /\ state = "OPEN" =>
           /\ retryAfter'[t] * TicksPerSecond >= RecoveryTimeout - sinceOpened
           /\ (retryAfter'[t] - 1) * TicksPerSecond < RecoveryTimeout - sinceOpened]_vars
  BY OpenAdvice
<1>2. QED
  BY <1>1, Invariance, PTL DEF Spec, RetryAfterIsTight

-----------------------------------------------------------------------------
(* The refinement mapping, and what it becomes in each state.              *)
Mode    == CASE state = "CLOSED"    -> "flow"
             [] state = "OPEN"      -> "cut"
             [] state = "HALF_OPEN" -> "trial"
Cooling == IF state = "OPEN" THEN RecoveryTimeout - sinceOpened
                             ELSE RecoveryTimeout
Running == {t \in Threads : pc[t] # "idle"}

LEMMA ModeOf ==
  /\ state = "CLOSED"    => Mode = "flow"
  /\ state = "OPEN"      => Mode = "cut"
  /\ state = "HALF_OPEN" => Mode = "trial"
BY DEF Mode

LEMMA ModeOfNext ==
  /\ state' = "CLOSED"    => Mode' = "flow"
  /\ state' = "OPEN"      => Mode' = "cut"
  /\ state' = "HALF_OPEN" => Mode' = "trial"
BY DEF Mode

(* Entering or leaving call() moves one thread in or out of Running.       *)
LEMMA EnterRunning ==
  ASSUME NEW t \in Threads, NEW how \in {"calling", "trial"}, TypeOK,
         pc[t] = "idle", pc' = [pc EXCEPT ![t] = how]
  PROVE  t \notin Running /\ Running' = Running \cup {t}
BY DEF TypeOK, Running

LEMMA LeaveRunning ==
  ASSUME NEW t \in Threads, TypeOK, Leave(t)
  PROVE  t \in Running /\ Running' = Running \ {t}
BY DEF TypeOK, Running, Leave

(* What the contract's steps say in terms of the mapping.                  *)
LEMMA FlowStep ==
  ASSUME NEW t \in Threads, t \notin Running, Mode = "flow",
         Running' = Running \cup {t}, Mode' = Mode, Cooling' = Cooling
  PROVE  Contract!Next
BY DEF Contract!Next, Contract!Flow, Mode, Cooling, Running

LEMMA TrialStep ==
  ASSUME NEW t \in Threads, t \notin Running, Mode = "cut", Cooling = 0,
         Running' = Running \cup {t}, Mode' = "trial", Cooling' = RecoveryTimeout
  PROVE  Contract!Next
BY DEF Contract!Next, Contract!Trial, Mode, Cooling, Running

LEMMA ReturnStep ==
  ASSUME NEW t \in Threads, t \in Running, Running' = Running \ {t},
         \/ Mode' \in {"flow", "cut"} /\ Cooling' = RecoveryTimeout
         \/ Mode # "trial" /\ Mode' = Mode /\ Cooling' = Cooling
  PROVE  Contract!Next
BY DEF Contract!Next, Contract!Return, Mode, Cooling, Running

LEMMA TickStep ==
  ASSUME Mode = "cut", Cooling > 0, Cooling' = Cooling - 1,
         Mode' = Mode, Running' = Running
  PROVE  Contract!Next
BY DEF Contract!Next, Contract!Tick, Mode, Cooling, Running

LEMMA PassKeeps == ASSUME IInv, NEW t \in Threads, Pass(t) PROVE Contract!Next
<1>1. state = "CLOSED" /\ state' = "CLOSED"
  BY DEF Pass, IInv, TypeOK, FieldsAgree, breaker
<1>2. Mode = "flow" /\ Mode' = Mode /\ Cooling' = Cooling
  BY <1>1, ModeOf, ModeOfNext DEF Cooling
<1>3. t \notin Running /\ Running' = Running \cup {t}
  BY EnterRunning DEF Pass, IInv
<1>4. QED
  BY <1>2, <1>3, FlowStep

LEMMA TrialKeeps == ASSUME IInv, NEW t \in Threads, Trial(t) PROVE Contract!Next
<1>1. state = "OPEN" /\ state' = "HALF_OPEN" /\ sinceOpened = RecoveryTimeout
  BY TimeoutAssumption DEF Trial, IInv, TypeOK, NotOpened
<1>2. Mode = "cut" /\ Mode' = "trial"
  BY <1>1, ModeOf, ModeOfNext
<1>3. Cooling = 0 /\ Cooling' = RecoveryTimeout
  BY <1>1, TimeoutAssumption DEF Cooling
<1>4. t \notin Running /\ Running' = Running \cup {t}
  BY EnterRunning DEF Trial, IInv
<1>5. QED
  BY <1>2, <1>3, <1>4, TrialStep

LEMMA ReturnKeeps == ASSUME IInv, NEW t \in Threads, Return(t) PROVE Contract!Next
<1>1. t \in Running /\ Running' = Running \ {t}
  BY ReturnSettles, LeaveRunning DEF IInv
<1>2. \/ Mode' \in {"flow", "cut"} /\ Cooling' = RecoveryTimeout
      \/ Mode # "trial" /\ Mode' = Mode /\ Cooling' = Cooling
  <2>1. Leave(t) /\ (Reset \/ Recorded \/ Unrecorded)
    BY DEF Return, AfterSuccess, AfterFailure
  <2>2. ASSUME Reset PROVE Mode' = "flow" /\ Cooling' = RecoveryTimeout
    BY <2>2, ModeOfNext DEF Reset, Cooling
  <2>3. ASSUME TripOpen PROVE Mode' = "cut" /\ Cooling' = RecoveryTimeout
    BY <2>3, ModeOfNext, TimeoutAssumption DEF TripOpen, Cooling
  <2>4. ASSUME state # "HALF_OPEN", UNCHANGED <<state, sinceOpened>>
        PROVE  Mode # "trial" /\ Mode' = Mode /\ Cooling' = Cooling
    <3>1. Mode # "trial" /\ Mode' = Mode
      BY <2>4, ModeOf, ModeOfNext DEF IInv, TypeOK
    <3>2. Cooling' = Cooling
      BY <2>4 DEF Cooling
    <3>3. QED
      BY <3>1, <3>2
  <2>5. Reset \/ TripOpen \/ (state # "HALF_OPEN" /\ UNCHANGED <<state, sinceOpened>>)
    BY <2>1 DEF Recorded, Unrecorded
  <2>6. QED
    BY <2>2, <2>3, <2>4, <2>5
<1>3. QED
  BY <1>1, <1>2, ReturnStep

LEMMA TickKeeps ==
  ASSUME IInv, Tick PROVE Contract!Next \/ UNCHANGED <<Mode, Cooling, Running>>
<1>1. UNCHANGED <<Mode, Running>>
  BY DEF Tick, Mode, Running
<1>2. CASE state = "OPEN"
  <2>1. Mode = "cut"
    BY <1>2, ModeOf
  <2>2. Cooling > 0 /\ Cooling' = Cooling - 1
    BY <1>2, TimeoutAssumption DEF Tick, Cooling
  <2>3. QED
    BY <1>1, <2>1, <2>2, TickStep
<1>3. CASE state # "OPEN"
  BY <1>1, <1>3 DEF Tick, Cooling
<1>4. QED
  BY <1>2, <1>3

(* Every step of the breaker is a step of its contract, or invisible there.*)
LEMMA StepKeeps == IInv /\ [Next]_vars => [Contract!Next]_(Contract!vars)
<1> SUFFICES ASSUME IInv, [Next]_vars
             PROVE  Contract!Next \/ UNCHANGED <<Mode, Cooling, Running>>
  BY DEF Contract!vars, Mode, Cooling, Running
<1>1. ASSUME NEW t \in Threads, Pass(t) \/ Trial(t) \/ Return(t)
      PROVE  Contract!Next
  BY <1>1, PassKeeps, TrialKeeps, ReturnKeeps
<1>2. ASSUME NEW t \in Threads, Reject(t)
      PROVE  UNCHANGED <<Mode, Cooling, Running>>
  BY <1>2 DEF Reject, breaker, Mode, Cooling, Running
<1>3. CASE UNCHANGED vars
  BY <1>3 DEF vars, Mode, Cooling, Running
<1>4. QED
  BY <1>1, <1>2, <1>3, TickKeeps DEF Next

(* The breaker implements its contract: a cut lasts the whole timeout from *)
(* the last failure, one call is let through at its end, and the first     *)
(* return of any call settles a half-open breaker.                         *)
THEOREM ContractKept == Spec => KeepsContract
<1>1. Init => Contract!Init
  <2> SUFFICES ASSUME Init PROVE Mode = "flow" /\ Cooling = RecoveryTimeout /\ Running = {}
    BY DEF Contract!Init, Mode, Cooling, Running
  <2>1. QED
    BY ModeOf DEF Init, Cooling, Running
<1>2. QED
  BY <1>1, StepKeeps, Invariance, PTL DEF Spec, KeepsContract, Contract!Spec
-----------------------------------------------------------------------------
(* The breaker sees of a call with its retries that it came back.          *)
LEMMA AttemptStep ==
  ASSUME NEW t \in Threads, Attempt(t)
  PROVE  Return(t) \/ UNCHANGED vars
<1>1. CASE AttemptSucceeds(t)
  BY <1>1 DEF AttemptSucceeds, Return
<1>2. ASSUME NEW e \in Exceptions, AttemptFails(t, e)
      PROVE  Return(t) \/ UNCHANGED vars
  <2>1. CASE Retries(t, e)
    BY <1>2, <2>1 DEF AttemptFails, BackOff
  <2>2. CASE ~ Retries(t, e)
    <3>1. AfterFailure(t, ShouldRecord(e))
      BY <1>2, <2>2 DEF AttemptFails
    <3>2. ShouldRecord(e) \in BOOLEAN
      BY DEF ShouldRecord
    <3>3. QED
      BY <3>1, <3>2 DEF Return
  <2>3. QED
    BY <2>1, <2>2
<1>3. QED
  BY <1>1, <1>2 DEF Attempt

(* A tick is the breaker's, unless its cooldown is over or has not begun.  *)
LEMMA ClockStep ==
  ASSUME TypeOK, Clock
  PROVE  Tick \/ UNCHANGED vars
<1>1. UNCHANGED <<state, failures, inFlight, pc, retryAfter>>
  BY DEF Clock
<1>2. CASE sinceOpened \in 0 .. RecoveryTimeout - 1
  <2>1. sinceOpened' = sinceOpened + 1
    BY <1>2, TimeoutAssumption DEF Clock, NotOpened, AtMost
  <2>2. QED
    BY <1>1, <1>2, <2>1 DEF Tick
<1>3. CASE sinceOpened \notin 0 .. RecoveryTimeout - 1
  <2>1. sinceOpened \in {NotOpened, RecoveryTimeout}
    BY <1>3, TimeoutAssumption DEF TypeOK
  <2>2. sinceOpened' = sinceOpened
    BY <2>1, TimeoutAssumption DEF Clock, AtMost
  <2>3. QED
    BY <1>1, <2>2 DEF vars
<1>4. QED
  BY <1>2, <1>3

LEMMA LiveStep ==
  ASSUME TypeOK, [LiveNext]_liveVars
  PROVE  [Next]_vars
<1>1. ASSUME NEW t \in Threads, Begin(t) \/ TurnedAway(t) PROVE Next
  BY <1>1 DEF Begin, TurnedAway, Next
<1>2. ASSUME NEW t \in Threads, Attempt(t) PROVE [Next]_vars
  BY <1>2, AttemptStep DEF Next
<1>3. CASE Clock
  BY <1>3, ClockStep DEF Next
<1>4. CASE UNCHANGED liveVars
  BY <1>4 DEF liveVars
<1>5. QED
  BY <1>1, <1>2, <1>3, <1>4 DEF LiveNext

(* The service is a circuit breaker, and so keeps the breaker's invariant  *)
(* and its contract, through any retries, sleeps and interleavings.        *)
THEOREM ServiceIsABreaker == LiveSpec => Spec
<1>1. LiveInit => Init
  BY DEF LiveInit
<1>2. IInv /\ [LiveNext]_liveVars => [Next]_vars
  BY LiveStep DEF IInv
<1>3. IInv /\ [LiveNext]_liveVars => IInv'
  BY <1>2, NextIInv
<1>4. QED
  BY <1>1, <1>2, <1>3, InitIInv, PTL DEF LiveSpec, Spec

(* Every call through the retry loop ends up under the breaker's contract: *)
(* a cut lasts the whole timeout from the last failure, and one call, with *)
(* all its retries, is let through at its end.                             *)
THEOREM ServiceKeepsContract == LiveSpec => KeepsContract
BY ServiceIsABreaker, ContractKept, PTL

-----------------------------------------------------------------------------
(* The sleep still ahead counts as waited: this is what a tick preserves.  *)
Waited(t) == age[t] + sleep[t] >= AtMost(delay[t] - InitialBackoff, AgeBound)

Backing == LiveTypeOK /\ \A t \in Threads : pc[t] # "idle" => Waited(t)

LEMMA InitBacking == LiveInit => Backing
<1> SUFFICES ASSUME LiveInit PROVE Backing
  OBVIOUS
<1>1. LiveTypeOK
  BY RetriesAssumption, BackoffAssumption, AgeAssumption DEF LiveInit, LiveTypeOK
<1>2. QED
  BY <1>1 DEF Backing, LiveInit, Init

(* A call that begins has waited for nothing, and need not have.           *)
LEMMA BeginBacking ==
  ASSUME TypeOK, Backing, NEW t \in Threads, Begin(t) PROVE Backing'
<1> USE DEF Backing, LiveTypeOK
<1>1. pc' = [pc EXCEPT ![t] = "calling"] \/ pc' = [pc EXCEPT ![t] = "trial"]
  BY DEF Begin, Pass, Trial
<1>2. LiveTypeOK'
  BY RetriesAssumption, BackoffAssumption, AgeAssumption DEF Begin
<1>3. ASSUME NEW u \in Threads, pc'[u] # "idle" PROVE Waited(u)'
  <2>1. CASE u = t
    BY <2>1, BackoffAssumption, AgeAssumption DEF Begin, Waited, AtMost
  <2>2. CASE u # t
    BY <1>1, <1>3, <2>2 DEF Begin, Waited, TypeOK
  <2>3. QED
    BY <2>1, <2>2
<1>4. QED
  BY <1>2, <1>3

(* A backoff doubles what has to be waited and adds as much to the sleep.  *)
LEMMA BackOffBacking ==
  ASSUME TypeOK, Backing, NEW t \in Threads, Awake(t), attempts[t] < MaxRetries, BackOff(t)
  PROVE  Backing'
<1> USE DEF Backing, LiveTypeOK
<1>1. LiveTypeOK'
  BY RetriesAssumption DEF BackOff
<1>2. ASSUME NEW u \in Threads, pc'[u] # "idle" PROVE Waited(u)'
  <2>1. pc[u] # "idle" /\ Waited(u) /\ age' = age
    BY <1>2 DEF BackOff, vars
  <2>2. CASE u = t
    <3>1. age[t] >= AtMost(delay[t] - InitialBackoff, AgeBound)
      BY <2>1, <2>2 DEF Waited, Awake
    <3>2. sleep'[t] = delay[t] /\ delay'[t] = 2 * delay[t]
      BY DEF BackOff
    <3>3. QED
      BY <2>1, <2>2, <3>1, <3>2, BackoffAssumption, AgeAssumption DEF Waited, AtMost
  <2>3. CASE u # t
    BY <2>1, <2>3 DEF BackOff, Waited
  <2>4. QED
    BY <2>2, <2>3
<1>3. QED
  BY <1>1, <1>2

(* A call that returns is no concern of the loop's any more.               *)
LEMMA ReturnBacking ==
  ASSUME TypeOK, Backing, NEW t \in Threads, Return(t), UNCHANGED retrying
  PROVE  Backing'
<1>1. pc' = [pc EXCEPT ![t] = "idle"]
  BY DEF Return, AfterSuccess, AfterFailure, Leave
<1>2. \A u \in Threads : pc'[u] # "idle" => pc[u] # "idle"
  BY <1>1 DEF TypeOK
<1>3. QED
  BY <1>2 DEF Backing, LiveTypeOK, Waited, retrying

LEMMA AttemptBacking ==
  ASSUME TypeOK, Backing, NEW t \in Threads, Attempt(t) PROVE Backing'
<1>1. CASE AttemptSucceeds(t)
  BY <1>1, ReturnBacking DEF AttemptSucceeds, Return
<1>2. ASSUME NEW e \in Exceptions, AttemptFails(t, e) PROVE Backing'
  <2>1. CASE Retries(t, e)
    BY <1>2, <2>1, BackOffBacking DEF AttemptFails, Retries
  <2>2. CASE ~ Retries(t, e)
    <3>1. AfterFailure(t, ShouldRecord(e)) /\ UNCHANGED retrying
      BY <1>2, <2>2 DEF AttemptFails
    <3>2. ShouldRecord(e) \in BOOLEAN
      BY DEF ShouldRecord
    <3>3. QED
      BY <3>1, <3>2, ReturnBacking DEF Return
  <2>3. QED
    BY <2>1, <2>2
<1>3. QED
  BY <1>1, <1>2 DEF Attempt

(* A tick takes from the sleep what it adds to the age.                    *)
LEMMA ClockBacking == ASSUME Backing, Clock PROVE Backing'
<1> USE AgeAssumption DEF Backing, LiveTypeOK
<1>1. attempts' = attempts /\ delay' = delay /\ pc' = pc
  BY DEF Clock
<1>2. ASSUME NEW u \in Threads
      PROVE  /\ sleep'[u] = AtLeast(sleep[u] - 1, 0)
             /\ age'[u] = IF pc[u] = "idle" THEN age[u] ELSE AtMost(age[u] + 1, AgeBound)
  BY DEF Clock
<1>3. sleep' \in [Threads -> Nat]
  BY DEF Clock, AtLeast
<1>4. age' \in [Threads -> 0 .. AgeBound]
  BY DEF Clock, AtMost
<1>5. ASSUME NEW u \in Threads, pc[u] # "idle" PROVE Waited(u)'
  <2>1. delay[u] \in Nat /\ sleep[u] \in Nat /\ age[u] \in 0 .. AgeBound
    OBVIOUS
  <2>2. age[u] + sleep[u] >= AtMost(delay[u] - InitialBackoff, AgeBound)
    BY <1>5 DEF Waited
  <2>3. age'[u] + sleep'[u] >= AtMost(delay[u] - InitialBackoff, AgeBound)
    BY <1>2, <1>5, <2>1, <2>2, BackoffAssumption DEF AtMost, AtLeast
  <2>4. QED
    BY <1>1, <2>3 DEF Waited
<1>6. QED
  BY <1>1, <1>3, <1>4, <1>5

LEMMA NextBacking == TypeOK /\ Backing /\ [LiveNext]_liveVars => Backing'
<1> SUFFICES ASSUME TypeOK, Backing, [LiveNext]_liveVars PROVE Backing'
  OBVIOUS
<1>1. ASSUME NEW t \in Threads, Begin(t) PROVE Backing'
  BY <1>1, BeginBacking
<1>2. ASSUME NEW t \in Threads, TurnedAway(t) PROVE Backing'
  BY <1>2 DEF TurnedAway, Reject, retrying, Backing, LiveTypeOK, Waited
<1>3. ASSUME NEW t \in Threads, Attempt(t) PROVE Backing'
  BY <1>3, AttemptBacking
<1>4. CASE Clock
  BY <1>4, ClockBacking
<1>5. CASE UNCHANGED liveVars
  BY <1>5 DEF liveVars, vars, retrying, Backing, LiveTypeOK, Waited
<1>6. QED
  BY <1>1, <1>2, <1>3, <1>4, <1>5 DEF LiveNext

LEMMA LiveInvariance == LiveSpec => []Backing
<1>1. LiveSpec => []TypeOK
  BY ServiceIsABreaker, TypeCorrect, PTL
<1>2. QED
  BY <1>1, InitBacking, NextBacking, PTL DEF LiveSpec

(* The variables of the retry loop keep their types; above all, no call    *)
(* makes more attempts than it is allowed.                                 *)
THEOREM LiveTypeCorrect == LiveSpec => []LiveTypeOK
BY LiveInvariance, PTL DEF Backing

(* Before its n-th retry a call has been going for 2^n - 1 backoffs.       *)
THEOREM BacksOffExponentially == LiveSpec => []BackoffIsExponential
<1>1. Backing => BackoffIsExponential
  BY DEF Backing, LiveTypeOK, BackoffIsExponential, Awake, Waited
<1>2. QED
  BY <1>1, LiveInvariance, PTL
=============================================================================
