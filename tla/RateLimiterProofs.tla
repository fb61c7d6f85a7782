-------------------------- MODULE RateLimiterProofs --------------------------
(***************************************************************************)
(* The sliding window, for every limit, window and tick, and any number of *)
(* clients.  What the properties need and do not say is how the deque and  *)
(* the history fit together: the deque is the end of the history, and what *)
(* is no longer in it left the window before now.                          *)
(***************************************************************************)
EXTENDS RateLimiter, TLAPS

(* The deque q against the history h at time t.                            *)
Fits(q, h, t) ==
  /\ Len(q) <= Len(h)
  /\ \A i \in 1 .. Len(q) : q[i] = h[Len(h) - Len(q) + i]
  /\ \A i \in 1 .. Len(h) - Len(q) : h[i] <= t - Window

InOrder(h, t) ==
  \A i, j \in 1 .. Len(h) : i <= j => h[i] <= h[j] /\ h[j] <= t

Spaced(h) == \A i \in 1 .. Len(h) - Limit : h[i + Limit] - h[i] >= Window

(* A rejection waits for the head of a full deque to leave the window.     *)
UntilCoversHead(c) ==
  until[c] # NotRejected /\ Full(requests[c]) => until[c] >= requests[c][1] + Window

ClientInv(c) ==
  /\ Fits(requests[c], log[c], now)
  /\ InOrder(log[c], now)
  /\ Spaced(log[c])
  /\ UntilCoversHead(c)

IInv == TypeOK /\ \A c \in Clients : ClientInv(c)

-----------------------------------------------------------------------------
(* Sequences and arithmetic, apart from the state.                         *)

LEMMA TimesGrows ==
  ASSUME NEW a \in Int, NEW b \in Int, NEW k \in Nat, a >= b
  PROVE  a * k \in Int /\ b * k \in Int /\ a * k >= b * k
OBVIOUS

(* Rounding up to whole seconds never cuts a wait short.                   *)
LEMMA RoundsUp ==
  ASSUME NEW left \in Int, NEW tps \in Nat \ {0}
  PROVE  /\ (left + tps - 1) \div tps \in Int
         /\ ((left + tps - 1) \div tps) * tps >= left
OBVIOUS

LEMMA RetryAfterCovers ==
  ASSUME NEW q \in Seq(Nat), Len(q) > 0, now \in Nat
  PROVE  /\ now + RetryAfter(q) * TicksPerSecond \in Int
         /\ now + RetryAfter(q) * TicksPerSecond >= q[1] + Window
<1> DEFINE rest == Window - (now - q[1])
           left == (rest + TicksPerSecond - 1) \div TicksPerSecond
<1>1. q[1] \in Nat /\ rest \in Int
  BY WindowAssumption
<1>2. left \in Int /\ left * TicksPerSecond >= rest
  BY <1>1, RoundsUp, TicksAssumption
<1>3. RetryAfter(q) \in Int /\ RetryAfter(q) >= left
  BY <1>2 DEF RetryAfter
<1> HIDE DEF left
<1>4. /\ RetryAfter(q) * TicksPerSecond \in Int
      /\ left * TicksPerSecond \in Int
      /\ RetryAfter(q) * TicksPerSecond >= left * TicksPerSecond
  BY <1>2, <1>3, TimesGrows, TicksAssumption
<1>5. RetryAfter(q) * TicksPerSecond >= rest
  BY <1>1, <1>2, <1>4
<1>6. QED
  BY <1>1, <1>4, <1>5, WindowAssumption

(* Time only makes the history older.                                      *)
LEMMA LaterFits ==
  ASSUME NEW q \in Seq(Nat), NEW h \in Seq(Nat), NEW t \in Nat,
         Fits(q, h, t), InOrder(h, t)
  PROVE  Fits(q, h, t + 1) /\ InOrder(h, t + 1)
BY WindowAssumption, SMTT(60) DEF Fits, InOrder

(* Requests at the head that have left the window may be popped.           *)
LEMMA KeptFits ==
  ASSUME NEW q \in Seq(Nat), NEW h \in Seq(Nat), NEW t \in Nat, Fits(q, h, t),
         NEW n \in 0 .. Len(q), \A i \in 1 .. n : q[i] <= t - Window,
         NEW kept, kept = SubSeq(q, n + 1, Len(q))
  PROVE  kept \in Seq(Nat) /\ Len(kept) = Len(q) - n /\ Fits(kept, h, t)
<1>1. kept \in Seq(Nat) /\ Len(kept) = Len(q) - n
  OBVIOUS
<1>2. \A i \in 1 .. Len(q) - n : kept[i] = q[n + i]
  OBVIOUS
<1>3. Len(kept) <= Len(h)
  BY <1>1 DEF Fits
<1>4. ASSUME NEW i \in 1 .. Len(q) - n
      PROVE  kept[i] = h[Len(h) - (Len(q) - n) + i]
  <2>1. n + i \in 1 .. Len(q)
    OBVIOUS
  <2>2. q[n + i] = h[Len(h) - Len(q) + (n + i)]
    BY <2>1 DEF Fits
  <2>3. Len(h) - Len(q) + (n + i) = Len(h) - (Len(q) - n) + i
    OBVIOUS
  <2>4. QED
    BY <1>2, <2>2, <2>3
<1>5. ASSUME NEW i \in 1 .. Len(h) - (Len(q) - n) PROVE h[i] <= t - Window
  <2>1. CASE i <= Len(h) - Len(q)
    BY <2>1 DEF Fits
  <2>2. CASE i > Len(h) - Len(q)
    <3>1. i - (Len(h) - Len(q)) \in 1 .. n
      BY <2>2
    <3>2. q[i - (Len(h) - Len(q))] = h[Len(h) - Len(q) + (i - (Len(h) - Len(q)))]
      BY <3>1 DEF Fits
    <3>3. Len(h) - Len(q) + (i - (Len(h) - Len(q))) = i
      OBVIOUS
    <3>4. QED
      BY <3>1, <3>2, <3>3
  <2>3. QED
    BY <2>1, <2>2
<1>6. QED
  BY <1>1, <1>3, <1>4, <1>5 DEF Fits

LEMMA Appended ==
  ASSUME NEW q \in Seq(Nat), NEW t \in Nat
  PROVE  /\ Append(q, t) \in Seq(Nat) /\ Len(Append(q, t)) = Len(q) + 1
         /\ Append(q, t)[Len(q) + 1] = t /\ Len(q) \in Nat
         /\ \A i \in 1 .. Len(q) : Append(q, t)[i] = q[i] /\ q[i] \in Nat
OBVIOUS

(* An admission appends to the deque and to the history.                   *)
LEMMA AppendFits ==
  ASSUME NEW q \in Seq(Nat), NEW h \in Seq(Nat), NEW t \in Nat,
         Fits(q, h, t), InOrder(h, t)
  PROVE  Fits(Append(q, t), Append(h, t), t) /\ InOrder(Append(h, t), t)
<1> DEFINE r == Append(q, t)
           g == Append(h, t)
<1>1. /\ r \in Seq(Nat) /\ Len(r) = Len(q) + 1 /\ r[Len(q) + 1] = t
      /\ Len(q) \in Nat /\ \A i \in 1 .. Len(q) : r[i] = q[i]
  BY Appended
<1>2. /\ g \in Seq(Nat) /\ Len(g) = Len(h) + 1 /\ g[Len(h) + 1] = t
      /\ Len(h) \in Nat /\ \A i \in 1 .. Len(h) : g[i] = h[i] /\ h[i] \in Nat
  BY Appended
<1> HIDE DEF r, g
<1>3. Len(q) <= Len(h)
  BY DEF Fits
<1>4. ASSUME NEW i \in 1 .. Len(r) PROVE r[i] = g[Len(g) - Len(r) + i]
  <2>1. CASE i = Len(q) + 1
    <3>1. Len(g) - Len(r) + i = Len(h) + 1
      BY <1>1, <1>2, <2>1
    <3>2. QED
      BY <1>1, <1>2, <2>1, <3>1
  <2>2. CASE i # Len(q) + 1
    <3>1. i \in 1 .. Len(q)
      BY <1>1, <2>2
    <3>2. /\ Len(g) - Len(r) + i = Len(h) - Len(q) + i
          /\ Len(h) - Len(q) + i \in 1 .. Len(h)
      BY <1>1, <1>2, <1>3, <3>1
    <3>3. q[i] = h[Len(h) - Len(q) + i]
      BY <3>1 DEF Fits
    <3>4. QED
      BY <1>1, <1>2, <3>1, <3>2, <3>3
  <2>3. QED
    BY <2>1, <2>2
<1>5. ASSUME NEW i \in 1 .. Len(g) - Len(r) PROVE g[i] <= t - Window
  <2>1. Len(g) - Len(r) = Len(h) - Len(q)
    BY <1>1, <1>2
  <2>2. i \in 1 .. Len(h) - Len(q)
    BY <2>1
  <2>3. i \in 1 .. Len(h)
    BY <1>1, <1>2, <2>2
  <2>4. QED
    BY <1>2, <2>2, <2>3 DEF Fits
<1>6. Fits(r, g, t)
  <2>1. Len(r) <= Len(g)
    BY <1>1, <1>2, <1>3
  <2>2. QED
    BY <1>4, <1>5, <2>1, Zenon DEF Fits
<1>7. InOrder(g, t)
  <2>1. SUFFICES ASSUME NEW i \in 1 .. Len(h) + 1, NEW j \in 1 .. Len(h) + 1, i <= j
                 PROVE  g[i] <= g[j] /\ g[j] <= t
    BY <1>2 DEF InOrder
  <2>2. CASE j = Len(h) + 1
    <3>1. g[j] = t
      BY <1>2, <2>2
    <3>2. i = Len(h) + 1 \/ i \in 1 .. Len(h)
      BY <1>2
    <3>3. \A k \in 1 .. Len(h) : h[k] <= t
      BY <1>2 DEF InOrder
    <3>4. CASE i = Len(h) + 1
      BY <1>2, <3>1, <3>4
    <3>5. CASE i \in 1 .. Len(h)
      <4>1. g[i] = h[i] /\ h[i] <= t
        BY <1>2, <3>3, <3>5
      <4>2. QED
        BY <3>1, <4>1
    <3>6. QED
      BY <3>2, <3>4, <3>5
  <2>3. CASE j # Len(h) + 1
    <3>1. i \in 1 .. Len(h) /\ j \in 1 .. Len(h)
      BY <1>2, <2>1, <2>3
    <3>2. QED
      BY <1>2, <2>1, <3>1 DEF InOrder
  <2>4. QED
    BY <2>2, <2>3
<1>8. QED
  BY <1>6, <1>7 DEF r, g

(* An admission into a window that is not full is Window later than the    *)
(* one Limit places before it.                                             *)
LEMMA AppendSpaced ==
  ASSUME NEW q \in Seq(Nat), NEW h \in Seq(Nat), NEW t \in Nat,
         Fits(q, h, t), Spaced(h), ~Full(q)
  PROVE  Spaced(Append(h, t))
<1> DEFINE g == Append(h, t)
<1>1. Len(q) < Limit /\ Len(q) \in Nat /\ Limit \in Nat /\ Limit > 0
  BY LimitAssumption DEF Full
<1>2. /\ g \in Seq(Nat) /\ Len(g) = Len(h) + 1 /\ g[Len(h) + 1] = t
      /\ Len(h) \in Nat /\ \A i \in 1 .. Len(h) : g[i] = h[i] /\ h[i] \in Nat
  BY Appended
<1> HIDE DEF g
<1>3. ASSUME NEW i \in 1 .. Len(g) - Limit
      PROVE  g[i + Limit] - g[i] >= Window
  <2>1. i \in Nat /\ i + Limit <= Len(h) + 1 /\ i \in 1 .. Len(h)
    BY <1>1, <1>2
  <2>2. g[i] = h[i] /\ h[i] \in Nat
    BY <1>2, <2>1
  <2>3. CASE i + Limit <= Len(h)
    <3>1. i \in 1 .. Len(h) - Limit /\ i + Limit \in 1 .. Len(h)
      BY <1>1, <1>2, <2>1, <2>3
    <3>2. QED
      BY <1>2, <2>1, <3>1 DEF Spaced
  <2>4. CASE i + Limit = Len(h) + 1
    <3>1. i \in 1 .. Len(h) - Len(q)
      BY <1>1, <1>2, <2>1, <2>4
    <3>2. h[i] <= t - Window
      BY <3>1 DEF Fits
    <3>3. g[i + Limit] = t
      BY <1>2, <2>4
    <3>4. QED
      BY <2>2, <3>2, <3>3, WindowAssumption
  <2>5. i + Limit <= Len(h) \/ i + Limit = Len(h) + 1
    <3>1. Len(h) \in Nat /\ i \in Nat /\ Limit \in Nat /\ i + Limit <= Len(h) + 1
      BY <1>1, <1>2, <2>1
    <3>2. QED
      BY <3>1
  <2>6. QED
    BY <2>3, <2>4, <2>5
<1>4. Spaced(g)
  BY <1>3 DEF Spaced
<1>5. QED
  BY <1>4 DEF g

-----------------------------------------------------------------------------
LEMMA InitIInv == Init => IInv
<1> SUFFICES ASSUME Init PROVE IInv
  OBVIOUS
<1>1. TypeOK
  BY LimitAssumption, TimeAssumption DEF Init, TypeOK, NotRejected
<1>2. ASSUME NEW c \in Clients PROVE ClientInv(c)
  BY LimitAssumption
  DEF Init, ClientInv, Fits, InOrder, Spaced, UntilCoversHead
<1>3. QED
  BY <1>1, <1>2 DEF IInv

LEMMA Types ==
  ASSUME TypeOK, NEW c \in Clients
  PROVE  requests[c] \in Seq(Nat) /\ log[c] \in Seq(Nat) /\ now \in Nat
BY DEF TypeOK

LEMMA TickIInv == ASSUME IInv, Tick PROVE IInv'
<1>1. TypeOK'
  BY TimeAssumption DEF IInv, TypeOK, Tick
<1>2. ASSUME NEW c \in Clients PROVE ClientInv(c)'
  <2>1. ClientInv(c) /\ now' = now + 1 /\ UNCHANGED <<requests, log, until>>
    BY DEF IInv, Tick
  <2>2. Fits(requests[c], log[c], now + 1) /\ InOrder(log[c], now + 1)
    BY <2>1, LaterFits, Types DEF ClientInv, IInv
  <2>3. UntilCoversHead(c)'
    BY <2>1 DEF ClientInv, UntilCoversHead, Full
  <2>4. QED
    BY <2>1, <2>2, <2>3 DEF ClientInv
<1>3. QED
  BY <1>1, <1>2 DEF IInv

(* What popping n requests leaves of one client's deque.                   *)
LEMMA PoppedFits ==
  ASSUME IInv, NEW c \in Clients, NEW n \in 0 .. Len(requests[c]),
         Pops(requests[c], n),
         NEW kept, kept = SubSeq(requests[c], n + 1, Len(requests[c]))
  PROVE  kept \in Seq(Nat) /\ Len(kept) <= Limit /\ Fits(kept, log[c], now)
<1>1. requests[c] \in Seq(Nat) /\ log[c] \in Seq(Nat) /\ now \in Nat
  BY Types DEF IInv
<1>2. \A i \in 1 .. n : requests[c][i] <= now - Window
  BY DEF Pops, LeftWindow
<1>3. Fits(requests[c], log[c], now)
  BY DEF IInv, ClientInv
<1>4. kept \in Seq(Nat) /\ Len(kept) = Len(requests[c]) - n /\ Fits(kept, log[c], now)
  <2> DEFINE q == requests[c]
             h == log[c]
  <2>1. q \in Seq(Nat) /\ h \in Seq(Nat) /\ now \in Nat /\ Fits(q, h, now)
    BY <1>1, <1>3
  <2>2. n \in 0 .. Len(q) /\ kept = SubSeq(q, n + 1, Len(q))
    OBVIOUS
  <2>3. \A i \in 1 .. n : q[i] <= now - Window
    BY <1>2
  <2> HIDE DEF q, h
  <2>4. kept \in Seq(Nat) /\ Len(kept) = Len(q) - n /\ Fits(kept, h, now)
    BY <2>1, <2>2, <2>3, KeptFits, ZenonT(60)
  <2>5. QED
    BY <2>4 DEF q, h
<1>5. Len(requests[c]) <= Limit
  BY DEF IInv, TypeOK
<1>6. QED
  BY <1>1, <1>4, <1>5, LimitAssumption

(* The other clients are not touched by a check.                           *)
LEMMA OthersKeepInv ==
  ASSUME IInv, NEW d \in Clients, UNCHANGED <<now, requests[d], log[d], until[d]>>
  PROVE  ClientInv(d)'
BY DEF IInv, ClientInv, UntilCoversHead, Full

LEMMA RejectIInv ==
  ASSUME IInv, NEW c \in Clients, NEW kept \in Seq(Nat), Len(kept) <= Limit,
         Fits(kept, log[c], now), Reject(c, kept)
  PROVE  IInv'
<1>1. log[c] \in Seq(Nat) /\ now \in Nat
  BY Types DEF IInv
<1> DEFINE end == now + RetryAfter(kept) * TicksPerSecond
<1>2. /\ requests' = [requests EXCEPT ![c] = kept]
      /\ until' = [until EXCEPT ![c] = end]
      /\ Full(kept) /\ log' = log /\ now' = now
  BY DEF Reject
<1>3. Len(kept) > 0
  BY <1>2, LimitAssumption DEF Full
<1>4. end \in Int /\ end >= kept[1] + Window
  BY <1>1, <1>3, RetryAfterCovers
<1> HIDE DEF end
<1>5. TypeOK'
  BY <1>2, <1>4 DEF IInv, TypeOK
<1>6. requests'[c] = kept /\ until'[c] = end
  BY <1>2 DEF IInv, TypeOK
<1>7. ClientInv(c)'
  <2>1. UntilCoversHead(c)'
    BY <1>4, <1>6 DEF UntilCoversHead
  <2>2. Fits(requests[c], log[c], now)'
    BY <1>2, <1>6
  <2>3. QED
    BY <1>2, <2>1, <2>2 DEF ClientInv, IInv
<1>8. ASSUME NEW d \in Clients, d # c PROVE ClientInv(d)'
  <2>1. UNCHANGED <<now, requests[d], log[d], until[d]>>
    BY <1>2, <1>8 DEF IInv, TypeOK
  <2>2. QED
    BY <2>1, OthersKeepInv
<1>9. QED
  BY <1>5, <1>7, <1>8 DEF IInv

LEMMA AdmitIInv ==
  ASSUME IInv, NEW c \in Clients, NEW kept \in Seq(Nat), Len(kept) <= Limit,
         Fits(kept, log[c], now), Admit(c, kept)
  PROVE  IInv'
<1>1. log[c] \in Seq(Nat) /\ now \in Nat
  BY Types DEF IInv
<1>2. /\ requests' = [requests EXCEPT ![c] = Append(kept, now)]
      /\ log' = [log EXCEPT ![c] = Append(log[c], now)]
      /\ until' = [until EXCEPT ![c] = NotRejected]
      /\ ~Full(kept) /\ now' = now
  BY DEF Admit
<1>3. /\ Append(kept, now) \in Seq(Nat) /\ Append(log[c], now) \in Seq(Nat)
      /\ Len(Append(kept, now)) <= Limit
  BY <1>1, <1>2, LimitAssumption DEF Full
<1>4. TypeOK'
  BY <1>2, <1>3 DEF IInv, TypeOK, NotRejected
<1>5. /\ requests'[c] = Append(kept, now) /\ log'[c] = Append(log[c], now)
      /\ until'[c] = NotRejected
  BY <1>2 DEF IInv, TypeOK
<1>6. InOrder(log[c], now) /\ Spaced(log[c])
  BY DEF IInv, ClientInv
<1>7. /\ Fits(Append(kept, now), Append(log[c], now), now)
      /\ InOrder(Append(log[c], now), now)
  BY <1>1, <1>6, AppendFits
<1>8. Spaced(Append(log[c], now))
  BY <1>1, <1>2, <1>6, AppendSpaced
<1>9. ClientInv(c)'
  BY <1>2, <1>5, <1>7, <1>8 DEF ClientInv, UntilCoversHead
<1>10. ASSUME NEW d \in Clients, d # c PROVE ClientInv(d)'
  <2>1. UNCHANGED <<now, requests[d], log[d], until[d]>>
    BY <1>2, <1>10 DEF IInv, TypeOK
  <2>2. QED
    BY <2>1, OthersKeepInv
<1>11. QED
  BY <1>4, <1>9, <1>10 DEF IInv

LEMMA NextIInv == IInv /\ [Next]_vars => IInv'
<1> SUFFICES ASSUME IInv, [Next]_vars PROVE IInv'
  OBVIOUS
<1>1. ASSUME NEW c \in Clients, Check(c) PROVE IInv'
  <2>1. PICK n \in 0 .. Len(requests[c]) :
          /\ Pops(requests[c], n)
          /\ \/ Reject(c, SubSeq(requests[c], n + 1, Len(requests[c])))
             \/ Admit(c, SubSeq(requests[c], n + 1, Len(requests[c])))
    BY <1>1 DEF Check
  <2> DEFINE kept == SubSeq(requests[c], n + 1, Len(requests[c]))
  <2>2. kept \in Seq(Nat) /\ Len(kept) <= Limit /\ Fits(kept, log[c], now)
    BY <2>1, PoppedFits
  <2>3. Reject(c, kept) \/ Admit(c, kept)
    BY <2>1
  <2> HIDE DEF kept
  <2>4. CASE Reject(c, kept)
    BY <2>2, <2>4, RejectIInv
  <2>5. CASE Admit(c, kept)
    BY <2>2, <2>5, AdmitIInv
  <2>6. QED
    BY <2>3, <2>4, <2>5
<1>2. CASE Tick
  BY <1>2, TickIInv
<1>3. CASE UNCHANGED vars
  BY <1>3, OthersKeepInv DEF vars, IInv, TypeOK
<1>4. QED
  BY <1>1, <1>2, <1>3 DEF Next

(* The deque and the history fit together in every reachable state.        *)
THEOREM Invariance == Spec => []IInv
BY InitIInv, NextIInv, PTL DEF Spec

(* The types, and the bound on what is remembered of a client.             *)
THEOREM TypeCorrect == Spec => []TypeOK
BY Invariance, PTL DEF IInv

(* No window of the configured length sees more than Limit admissions.     *)
THEOREM WindowAlwaysHolds == Spec => []WindowHolds
<1>1. IInv => WindowHolds
  BY DEF IInv, ClientInv, Spaced, WindowHolds
<1>2. QED
  BY <1>1, Invariance, PTL

(* Waiting as long as Retry-After says is enough.                          *)
THEOREM RetryAfterAlwaysSuffices == Spec => []RetryAfterSuffices
<1>1. IInv => RetryAfterSuffices
  <2> SUFFICES ASSUME IInv, NEW c \in Clients, until[c] # NotRejected,
                      now >= until[c], Full(requests[c])
               PROVE  LeftWindow(requests[c][1])
    BY DEF RetryAfterSuffices
  <2>1. until[c] >= requests[c][1] + Window
    BY DEF IInv, ClientInv, UntilCoversHead
  <2>2. requests[c][1] \in Nat /\ until[c] \in Int /\ now \in Nat
    BY LimitAssumption DEF IInv, TypeOK, Full
  <2>3. QED
    BY <2>1, <2>2, WindowAssumption DEF LeftWindow
<1>2. QED
  BY <1>1, Invariance, PTL
=============================================================================
