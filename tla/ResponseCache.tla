---------------------------- MODULE ResponseCache ----------------------------
(***************************************************************************)
(* ResponseCache of api/cache.py, as the /analyze and /simulate handlers   *)
(* use it from the threads of the worker pool: get, and on a miss compute  *)
(* the answer and set it.  Both operations read the clock BEFORE they take *)
(* the lock, so a thread that waits for the lock works with a stale time;  *)
(* nothing serialises the get of a request with its set.                   *)
(*                                                                         *)
(* A key stands for the SHA-256 of a request and a payload for the answer; *)
(* all that is told apart of a payload is when it was stored.              *)
(***************************************************************************)
EXTENDS Integers, Sequences, SequencesExt

CONSTANTS Threads,     \* request threads
          Keys,        \* distinct requests
          TTL,         \* _ttl_seconds, at least 1
          MaxEntries,  \* _max_entries, at least 1
          MaxTime,     \* bound on the clock
          NoKey        \* no key: not a member of Keys

ASSUME TTLAssumption     == TTL \in Nat \ {0}
ASSUME EntriesAssumption == MaxEntries \in Nat \ {0}
ASSUME TimeAssumption    == MaxTime \in Nat
ASSUME NoKeyAssumption   == NoKey \notin Keys

VARIABLES
  now,      \* monotonic()
  entries,  \* _entries, an OrderedDict: oldest use first
  pc,       \* per thread: where its request is
  key,      \* per thread: the key of its request
  clock,    \* per thread: the time it last read
  recency   \* history: every key ever used, in the order of its last use

vars == <<now, entries, pc, key, clock, recency>>

Init ==
  /\ now = 0 /\ entries = << >>
  /\ pc = [t \in Threads |-> "idle"]
  /\ key = [t \in Threads |-> NoKey]
  /\ clock = [t \in Threads |-> 0]
  /\ recency = << >>

-----------------------------------------------------------------------------
(* The operations of the OrderedDict.                                      *)

(* The elements of s at the places I, in their order.                      *)
Kept(s, I) ==
  LET n     == Cardinality(I)
      place == CHOOSE f \in [1 .. n -> I] : \A i, j \in 1 .. n : i < j => f[i] < f[j]
  IN  [i \in 1 .. n |-> s[place[i]]]

Holding(s, k) == {i \in DOMAIN s : s[i].key = k}

Without(s, k) == Kept(s, DOMAIN s \ Holding(s, k))

(* Slip: an entry lives one tick beyond its expiry.                        *)
EvictExpiredLate(s, at) == Kept(s, {i \in DOMAIN s : s[i].expires >= at})

EvictExpired(s, at) == Kept(s, {i \in DOMAIN s : s[i].expires > at})

(* Slip: a hit leaves the order alone, and eviction is first-in-first-out. *)
LeaveInPlace(s, k) == s

MoveToEnd(s, k) == Without(s, k) \o Kept(s, Holding(s, k))

(* Slip: popitem() without last=False.                                     *)
DropNewest(s) == SubSeq(s, 1, IF Len(s) > MaxEntries THEN MaxEntries ELSE Len(s))

(* Slip: the loop stops one entry late.                                    *)
DropToOneMore(s) ==
  SubSeq(s, IF Len(s) > MaxEntries + 1 THEN Len(s) - MaxEntries ELSE 1, Len(s))

DropOldest(s) ==
  SubSeq(s, IF Len(s) > MaxEntries THEN Len(s) - MaxEntries + 1 ELSE 1, Len(s))

Used(k) == recency' = Append(Kept(recency, {i \in DOMAIN recency : recency[i] # k}), k)

-----------------------------------------------------------------------------
(* The request is answered: its local variables are gone.                  *)
Done(t) ==
  /\ pc'    = [pc EXCEPT ![t] = "idle"]
  /\ key'   = [key EXCEPT ![t] = NoKey]
  /\ clock' = [clock EXCEPT ![t] = 0]

(* A request arrives; get() reads the clock.                               *)
Arrive(t, k) ==
  /\ pc[t] = "idle"
  /\ pc'    = [pc EXCEPT ![t] = "get"]
  /\ key'   = [key EXCEPT ![t] = k]
  /\ clock' = [clock EXCEPT ![t] = now]
  /\ UNCHANGED <<now, entries, recency>>

(* The critical section of get().  A hit ends the request.                 *)
Get(t) ==
  LET live  == EvictExpired(entries, clock[t])
      found == Holding(live, key[t])
  IN  /\ pc[t] = "get"
      /\ \/ /\ found = {}
            /\ entries' = live
            /\ pc' = [pc EXCEPT ![t] = "compute"]
            /\ clock' = [clock EXCEPT ![t] = 0]
            /\ UNCHANGED <<key, recency>>
         \/ \E i \in found :
              /\ entries' = MoveToEnd(live, key[t])
              /\ Used(key[t])
              /\ Done(t)
      /\ UNCHANGED now

(* The answer is computed; set() reads the clock.                          *)
Compute(t) ==
  /\ pc[t] = "compute"
  /\ pc'    = [pc EXCEPT ![t] = "set"]
  /\ clock' = [clock EXCEPT ![t] = now]
  /\ UNCHANGED <<now, entries, key, recency>>

(* The request is refused (422) or fails (500): nothing is cached.         *)
Fail(t) ==
  /\ pc[t] = "compute"
  /\ Done(t)
  /\ UNCHANGED <<now, entries, recency>>

(* The critical section of set().  `stored` is a history field: the time   *)
(* at which the entry really entered the cache.                            *)
Entry(t) == [key |-> key[t], expires |-> clock[t] + TTL, stored |-> now]

Set(t) ==
  /\ pc[t] = "set"
  /\ entries' = DropOldest(
                  Append(Without(EvictExpired(entries, clock[t]), key[t]), Entry(t)))
  /\ Used(key[t])
  /\ Done(t)
  /\ UNCHANGED now

Tick ==
  /\ now < MaxTime /\ now' = now + 1
  /\ UNCHANGED <<entries, pc, key, clock, recency>>

Next ==
  \/ \E t \in Threads : \/ \E k \in Keys : Arrive(t, k)
                        \/ Get(t) \/ Compute(t) \/ Fail(t) \/ Set(t)
  \/ Tick

Spec == Init /\ [][Next]_vars

-----------------------------------------------------------------------------
(* The types, and outside the lock no more than MaxEntries entries.        *)
TypeOK ==
  /\ now \in 0 .. MaxTime
  /\ \A e \in Range(entries) :
       e.key \in Keys /\ e.expires \in Nat /\ e.stored \in 0 .. MaxTime
  /\ Len(entries) <= MaxEntries
  /\ pc \in [Threads -> {"idle", "get", "compute", "set"}]
  /\ key \in [Threads -> Keys \cup {NoKey}]
  /\ clock \in [Threads -> 0 .. MaxTime]

(* A hit is less than TTL old at the moment the request read the clock,    *)
(* although the set that stored it may have waited for the lock with an    *)
(* even older reading, and others have evicted and overwritten meanwhile.  *)
HitsAreFresh ==
  [][\A t \in Threads : pc[t] = "get" /\ pc'[t] = "idle" =>
       \E e \in Range(entries') : e.key = key[t] /\ clock[t] - e.stored < TTL]_vars

(* The dictionary holds each key once, least recently used first, counting *)
(* both hits and sets in the order in which they took the lock.            *)
LeastRecentFirst ==
  \E where \in [DOMAIN entries -> DOMAIN recency] :
    \A i, j \in DOMAIN entries :
      /\ recency[where[i]] = entries[i].key
      /\ i < j => where[i] < where[j]

(* An entry leaves the cache only when it has expired, or to make room     *)
(* while MaxEntries more recently used ones stay, the one just set among   *)
(* them.  A slow thread's reading of the clock never makes it throw out a  *)
(* live entry as expired.                                                  *)
Held(s) == {e.key : e \in Range(s)}

OnlyDeadOrOldestLeave ==
  [][/\ \A i \in DOMAIN entries : entries[i].key \notin Held(entries') =>
          \/ entries[i].expires <= now
          \/ /\ Len(entries') = MaxEntries
             /\ \A j \in 1 .. i : entries[j].key \notin Held(entries')
     /\ \A t \in Threads : pc[t] = "set" /\ pc'[t] = "idle" =>
          key[t] \in Held(entries')]_vars
=============================================================================
