----------------------------- MODULE RateLimiter -----------------------------
(***************************************************************************)
(* SlidingWindowRateLimiter of api/rate_limit.py.  check_rate_limit is a   *)
(* coroutine without an await, so on the event loop of one worker process  *)
(* every check runs to its end before the next one starts: a check is one  *)
(* action.  The model is of an enabled limiter, with a positive limit and  *)
(* window (check_rate_limit returns before it asks the limiter otherwise). *)
(***************************************************************************)
EXTENDS Integers, Sequences

CONSTANTS Clients,         \* client addresses
          Limit,           \* RATE_LIMIT_REQUESTS
          Window,          \* RATE_LIMIT_WINDOW_SECONDS, in ticks
          TicksPerSecond,  \* ticks in the second that Retry-After counts
          MaxTime          \* bound on the clock

ASSUME LimitAssumption  == Limit \in Nat \ {0}
ASSUME WindowAssumption == Window \in Nat \ {0}
ASSUME TicksAssumption  == TicksPerSecond \in Nat \ {0}
ASSUME TimeAssumption   == MaxTime \in Nat

VARIABLES now,       \* monotonic()
          requests,  \* _requests: per client, the times of admitted requests
          log,       \* history: per client, the times of all admissions
          until      \* history: per client, when the Retry-After of its last
                     \* answer runs out, or NotRejected

vars == <<now, requests, log, until>>

NotRejected == -1

Init ==
  /\ now = 0
  /\ requests = [c \in Clients |-> << >>]
  /\ log      = [c \in Clients |-> << >>]
  /\ until    = [c \in Clients |-> NotRejected]

(* Slip: a request leaves the window one tick early.                       *)
LeftWindowEarly(time) == time <= now - Window + 1

(* Slip: a request leaves the window one tick late, after the time that    *)
(* Retry-After promised.                                                   *)
LeftWindowLate(time) == time < now - Window

LeftWindow(time) == time <= now - Window

(* The while loop pops n times: n requests at the head have left the       *)
(* window, and the next one, if any, has not.                              *)
Pops(q, n) ==
  /\ \A i \in 1 .. n : LeftWindow(q[i])
  /\ n < Len(q) => ~LeftWindow(q[n + 1])

(* Slip: one request too many before the limit bites.                      *)
FullBeyondLimit(q) == Len(q) > Limit

Full(q) == Len(q) >= Limit

(* Slip: int() where the code has ceil().                                  *)
RetryAfterTruncated(q) ==
  LET left == (Window - (now - q[1])) \div TicksPerSecond
  IN  IF left > 1 THEN left ELSE 1

RetryAfter(q) ==
  LET left == (Window - (now - q[1]) + TicksPerSecond - 1) \div TicksPerSecond
  IN  IF left > 1 THEN left ELSE 1

Reject(c, kept) ==
  /\ Full(kept)
  /\ requests' = [requests EXCEPT ![c] = kept]
  /\ until'    = [until EXCEPT ![c] = now + RetryAfter(kept) * TicksPerSecond]
  /\ UNCHANGED <<now, log>>

Admit(c, kept) ==
  /\ ~Full(kept)
  /\ requests' = [requests EXCEPT ![c] = Append(kept, now)]
  /\ log'      = [log EXCEPT ![c] = Append(@, now)]
  /\ until'    = [until EXCEPT ![c] = NotRejected]
  /\ UNCHANGED now

Check(c) ==
  \E n \in 0 .. Len(requests[c]) :
    /\ Pops(requests[c], n)
    /\ LET kept == SubSeq(requests[c], n + 1, Len(requests[c]))
       IN  Reject(c, kept) \/ Admit(c, kept)

Tick == now < MaxTime /\ now' = now + 1 /\ UNCHANGED <<requests, log, until>>

Next == (\E c \in Clients : Check(c)) \/ Tick

Spec == Init /\ [][Next]_vars

-----------------------------------------------------------------------------
(* The types; the limiter remembers no more than Limit requests a client.  *)
TypeOK ==
  /\ now \in 0 .. MaxTime
  /\ requests \in [Clients -> Seq(Nat)]
  /\ \A c \in Clients : Len(requests[c]) <= Limit
  /\ log \in [Clients -> Seq(Nat)]
  /\ until \in [Clients -> Int]

(* However checks and time interleave, no window of the configured length, *)
(* wherever it starts, sees more than Limit admissions of one client: the  *)
(* admission Limit places after another comes at least Window later.       *)
WindowHolds ==
  \A c \in Clients : \A i \in 1 .. Len(log[c]) - Limit :
    log[c][i + Limit] - log[c][i] >= Window

(* A client that was turned away and stays quiet for as long as it was     *)
(* told is admitted: its window then has room.                             *)
RetryAfterSuffices ==
  \A c \in Clients :
    until[c] # NotRejected /\ now >= until[c] /\ Full(requests[c]) =>
      LeftWindow(requests[c][1])
=============================================================================
