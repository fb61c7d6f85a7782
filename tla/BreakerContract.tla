--------------------------- MODULE BreakerContract ---------------------------
(***************************************************************************)
(* What a caller of CircuitBreaker.call (core/resilience.py) may rely on,  *)
(* with no word on how the breaker counts or which flags it keeps:         *)
(*                                                                         *)
(*   - while traffic flows, every call is let through;                     *)
(*   - once traffic is cut, nothing is let through for Cooldown ticks, and *)
(*     then exactly one call, the trial;                                   *)
(*   - while the trial is being decided nothing else is let through, and   *)
(*     whatever call returns first decides it one way or the other.        *)
(***************************************************************************)
EXTENDS Integers

CONSTANTS Threads,    \* threads of the server's pool that may be in a call
          Cooldown    \* ticks for which a cut lasts

VARIABLES mode,       \* "flow", "cut" or "trial"
          cooling,    \* ticks of the cut still to run (Cooldown unless "cut")
          running     \* threads whose protected call has not returned

vars == <<mode, cooling, running>>

Init == mode = "flow" /\ cooling = Cooldown /\ running = {}

Flow(t) ==
  /\ mode = "flow"
  /\ running' = running \cup {t}
  /\ UNCHANGED <<mode, cooling>>

Trial(t) ==
  /\ mode = "cut" /\ cooling = 0
  /\ mode' = "trial" /\ cooling' = Cooldown
  /\ running' = running \cup {t}

(* A return cuts the traffic (from the full cooldown again), restores it,  *)
(* or leaves the mode alone: the last is not open to a return that finds a *)
(* trial undecided.                                                        *)
Return(t) ==
  /\ t \in running
  /\ running' = running \ {t}
  /\ \/ mode' \in {"flow", "cut"} /\ cooling' = Cooldown
     \/ mode # "trial" /\ UNCHANGED <<mode, cooling>>

Tick ==
  /\ mode = "cut" /\ cooling > 0
  /\ cooling' = cooling - 1
  /\ UNCHANGED <<mode, running>>

Next ==
  \/ \E t \in Threads : (t \notin running /\ (Flow(t) \/ Trial(t))) \/ Return(t)
  \/ Tick

Spec == Init /\ [][Next]_vars
=============================================================================
