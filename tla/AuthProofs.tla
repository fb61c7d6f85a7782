------------------------------ MODULE AuthProofs ------------------------------
(***************************************************************************)
(* Auth, for any number of requests at a time and any number of keys.  What *)
(* a request has read from the cache may be out of date when it is used;   *)
(* the proofs say what of it still holds (Fine).                           *)
(***************************************************************************)
EXTENDS Auth, TLAPS

(* How many fetches a request has made by the time it gets somewhere.      *)
Spent(r) ==
  LET before == IF r.refresh THEN 2 ELSE 0
  IN  /\ r.fetches <= 5
      /\ r.pc \in {"key", "metadata"} => r.fetches <= before
      /\ r.pc = "jwks" => r.fetches <= before + 1
      /\ r.pc = "issuer" => r.fetches <= before + 2
      /\ r.pc = "issuerMetadata" => r.refresh /\ r.fetches <= 4

(* A request, against the keys that Entra publishes, those it is known to  *)
(* have withdrawn, and the cached document: one that has its key is not    *)
(* stale.                                                                  *)
Fine(r, pub, gone, document) ==
  /\ Spent(r)
  /\ r.current => r.pc # "idle" /\ r.token.kid \in pub
  /\ r.stale => r.token.kid \in gone
  /\ r.pc \in {"issuer", "issuerMetadata"} => ~r.stale
  /\ r.pc \in {"jwks", "issuer"} => document # None

AllFine == \A s \in Slots : Fine(request[s], published, dropped, metadata)

(* The cache never holds a key that it has once missed.                    *)
CacheFine == keys = None \/ keys \cap dropped = {}

IInv == TypeOK /\ AllFine /\ CacheFine

(* What a step that ends a request owes it.                                *)
Owed(s, r) ==
  /\ r.answer = "accepted" => ~request[s].stale
  /\ r.answer \in {"refused", "error"} /\ request[s].token.kind = "good"
       /\ request[s].current => r.troubled \/ metadata' = "noIssuer"

-----------------------------------------------------------------------------
(* The operators on requests.                                              *)

LEMMA AnsweringIs ==
  ASSUME NEW r \in Requests, NEW a \in {"none", "accepted", "refused", "error"}
  PROVE  /\ Answering(r, a) \in Requests
         /\ Answering(r, a).pc = "idle" /\ Answering(r, a).answer = a
         /\ Answering(r, a).fetches = r.fetches
         /\ Answering(r, a).troubled = r.troubled
         /\ ~Answering(r, a).current /\ ~Answering(r, a).stale
<1> DEFINE n == NoRequest(r.token)
<1>1. r.token \in Tokens /\ r.fetches \in Nat /\ r.troubled \in BOOLEAN
  BY DEF Requests
<1>2. n \in Requests /\ n.pc = "idle"
  BY <1>1 DEF NoRequest, Requests
<1>3. n.current = FALSE /\ n.stale = FALSE
  BY DEF NoRequest
<1>4. Answering(r, a) = [n EXCEPT !.answer = a, !.fetches = r.fetches,
                                  !.troubled = r.troubled]
  BY DEF Answering
<1> HIDE DEF n
<1>5. Answering(r, a) \in Requests
  BY <1>1, <1>2, <1>4 DEF Requests
<1>6. Answering(r, a).pc = "idle" /\ Answering(r, a).answer = a
      /\ Answering(r, a).fetches = r.fetches
  BY <1>2, <1>4 DEF Requests
<1>7. Answering(r, a).troubled = r.troubled
  BY <1>2, <1>4 DEF Requests
<1>8. Answering(r, a).current = FALSE
  BY <1>2, <1>3, <1>4 DEF Requests
<1>9. Answering(r, a).stale = FALSE
  BY <1>2, <1>3, <1>4 DEF Requests
<1>10. QED
  BY <1>5, <1>6, <1>7, <1>8, <1>9

LEMMA AnsweringFine ==
  ASSUME NEW r \in Requests, NEW a \in {"none", "accepted", "refused", "error"},
         NEW pub, NEW gone, NEW document, r.fetches <= 5
  PROVE  Fine(Answering(r, a), pub, gone, document)
<1> DEFINE n == Answering(r, a)
<1>1. n.pc = "idle" /\ n.fetches = r.fetches /\ ~n.current /\ ~n.stale
  BY AnsweringIs
<1> HIDE DEF n
<1>2. Fine(n, pub, gone, document)
  BY <1>1 DEF Fine, Spent
<1>3. QED
  BY <1>2 DEF n

LEMMA FetchedIs ==
  ASSUME NEW r \in Requests, NEW ok \in BOOLEAN
  PROVE  /\ Fetched(r, ok) \in Requests
         /\ Fetched(r, ok).fetches = r.fetches + 1
         /\ Fetched(r, ok).pc = r.pc /\ Fetched(r, ok).token = r.token
         /\ Fetched(r, ok).refresh = r.refresh
         /\ Fetched(r, ok).current = r.current /\ Fetched(r, ok).stale = r.stale
         /\ ~ok => Fetched(r, ok).troubled
<1>1. r.fetches \in Nat /\ r.troubled \in BOOLEAN /\ (r.troubled \/ ~ok) \in BOOLEAN
  BY DEF Requests
<1> DEFINE tr == r.troubled \/ ~ok
           fe == r.fetches + 1
<1>2. Fetched(r, ok) = [r EXCEPT !.fetches = fe, !.troubled = tr]
  BY DEF Fetched
<1>3. fe \in Nat /\ tr \in BOOLEAN
  BY <1>1
<1>4. ~ok => tr = TRUE
  BY <1>1
<1> HIDE DEF tr
<1>5. Fetched(r, ok).fetches = r.fetches + 1
  BY <1>2 DEF Requests
<1> HIDE DEF fe
<1>6. Fetched(r, ok) \in Requests
  BY <1>2, <1>3 DEF Requests
<1>7. /\ Fetched(r, ok).pc = r.pc /\ Fetched(r, ok).token = r.token
  BY <1>2 DEF Requests
<1>8. Fetched(r, ok).refresh = r.refresh
  BY <1>2 DEF Requests
<1>9. Fetched(r, ok).current = r.current /\ Fetched(r, ok).stale = r.stale
  BY <1>2 DEF Requests
<1>10. Fetched(r, ok).troubled = tr
  BY <1>2 DEF Requests
<1>11. QED
  BY <1>4, <1>5, <1>6, <1>7, <1>8, <1>9, <1>10

LEMMA MovedIs ==
  ASSUME NEW r \in Requests,
         NEW pc \in {"key", "metadata", "jwks", "issuer", "issuerMetadata"}
  PROVE  LET m == [r EXCEPT !.pc = pc]
         IN  /\ m \in Requests /\ m.pc = pc /\ m.fetches = r.fetches
             /\ m.token = r.token /\ m.refresh = r.refresh
             /\ m.current = r.current /\ m.stale = r.stale
<1> DEFINE m == [r EXCEPT !.pc = pc]
<1>1. m \in Requests
  BY DEF Requests
<1>2. m.pc = pc /\ m.fetches = r.fetches /\ m.token = r.token
  BY DEF Requests
<1>3. m.refresh = r.refresh
  BY DEF Requests
<1>4. m.current = r.current /\ m.stale = r.stale
  BY DEF Requests
<1>5. QED
  BY <1>1, <1>2, <1>3, <1>4

(* A second try, or the end.                                               *)
LEMMA OnceMoreFine ==
  ASSUME NEW r \in Requests, NEW pub, NEW gone, NEW document,
         r.fetches <= (IF r.refresh THEN 5 ELSE 2),
         r.current => r.token.kid \in pub, r.stale => r.token.kid \in gone
  PROVE  /\ OnceMore(r) \in Requests
         /\ Fine(OnceMore(r), pub, gone, document)
         /\ OnceMore(r).pc = "idle" => r.refresh /\ OnceMore(r) = Answering(r, "refused")
<1>1. CASE r.refresh
  <2>1. OnceMore(r) = Answering(r, "refused")
    BY <1>1 DEF OnceMore
  <2>2. r.fetches <= 5
    BY <1>1 DEF Requests
  <2>3. QED
    BY <1>1, <2>1, <2>2, AnsweringIs, AnsweringFine
<1>2. CASE ~r.refresh
  <2> DEFINE m == [r EXCEPT !.pc = "key", !.refresh = TRUE]
  <2>1. m \in Requests
    BY DEF Requests
  <2>2. m.pc = "key" /\ m.fetches = r.fetches /\ m.token = r.token
    BY DEF Requests
  <2>3. m.refresh = TRUE
    BY DEF Requests
  <2>4. m.current = r.current /\ m.stale = r.stale
    BY DEF Requests
  <2>5. r.fetches <= 2 /\ r.fetches \in Nat
    BY <1>2 DEF Requests
  <2>6. OnceMore(r) = m
    BY <1>2 DEF OnceMore
  <2> HIDE DEF m
  <2>7. Fine(m, pub, gone, document)
    BY <2>2, <2>3, <2>4, <2>5 DEF Fine, Spent
  <2>8. QED
    BY <2>1, <2>2, <2>6, <2>7
<1>3. QED
  BY <1>1, <1>2

LEMMA LookedFine ==
  ASSUME NEW r \in Requests, NEW known, NEW pub, NEW gone, NEW document,
         r.fetches <= (IF r.refresh THEN 4 ELSE 2),
         r.current => r.token.kid \in pub, r.stale => r.token.kid \in gone,
         known \cap gone = {}, document # None
  PROVE  /\ Looked(r, known) \in Requests
         /\ Fine(Looked(r, known), pub, gone, document)
         /\ Looked(r, known).pc = "idle" =>
              r.refresh /\ r.token.kid \notin known
                /\ Looked(r, known) = Answering(r, "refused")
<1>1. r.fetches \in Nat
  BY DEF Requests
<1>2. CASE r.token.kid \in known
  <2> DEFINE m == [r EXCEPT !.pc = "issuer"]
  <2>1. /\ m \in Requests /\ m.pc = "issuer" /\ m.fetches = r.fetches
        /\ m.token = r.token /\ m.refresh = r.refresh
        /\ m.current = r.current /\ m.stale = r.stale
    BY MovedIs
  <2>2. Looked(r, known) = m
    BY <1>2 DEF Looked
  <2> HIDE DEF m
  <2>3. ~r.stale
    BY <1>2
  <2>4. Fine(m, pub, gone, document)
    BY <1>1, <2>1, <2>3 DEF Fine, Spent
  <2>5. QED
    BY <2>1, <2>2, <2>4
<1>3. CASE r.token.kid \notin known
  <2>1. Looked(r, known) = OnceMore(r)
    BY <1>3 DEF Looked
  <2>2. r.fetches <= (IF r.refresh THEN 5 ELSE 2)
    BY <1>1
  <2>3. QED
    BY <1>3, <2>1, <2>2, OnceMoreFine
<1>4. QED
  BY <1>2, <1>3

(* A good token fails to decode only for want of an issuer.                *)
LEMMA DecodedFine ==
  ASSUME NEW r \in Requests, NEW document, NEW pub, NEW gone, NEW kept,
         r.fetches <= (IF r.refresh THEN 5 ELSE 2),
         r.current => r.token.kid \in pub, r.stale => r.token.kid \in gone
  PROVE  /\ Decoded(r, document) \in Requests
         /\ Fine(Decoded(r, document), pub, gone, kept)
         /\ Decoded(r, document).answer \in {"refused", "error"}
              /\ Decoded(r, document).pc = "idle" /\ r.token.kind = "good" =>
              document = "noIssuer"
<1>1. r.fetches <= 5
  BY DEF Requests
<1>2. CASE document # "noIssuer" /\ r.token.kind = "invalid"
  <2>1. Decoded(r, document) = OnceMore(r)
    BY <1>2 DEF Decoded
  <2>2. QED
    BY <1>2, <2>1, OnceMoreFine
<1>3. CASE document = "noIssuer" \/ r.token.kind = "unusable"
  <2>1. Decoded(r, document) = Answering(r, "refused")
    BY <1>3 DEF Decoded
  <2>2. QED
    BY <1>1, <1>3, <2>1, AnsweringIs, AnsweringFine
<1>4. CASE document # "noIssuer" /\ r.token.kind \notin {"invalid", "unusable"}
  <2>1. Decoded(r, document) = Answering(r, "accepted")
    BY <1>4 DEF Decoded
  <2>2. Decoded(r, document).answer = "accepted"
    BY <2>1, AnsweringIs
  <2>3. QED
    BY <1>1, <2>1, <2>2, AnsweringIs, AnsweringFine
<1>5. QED
  BY <1>2, <1>3, <1>4

-----------------------------------------------------------------------------
(* The steps.                                                              *)

Faithful(s) ==
  /\ \A x \in Slots : x # s => request'[x] = request[x]
  /\ request'[s].pc = "idle" => Owed(s, request'[s])

LEMMA FineLater ==
  ASSUME NEW r, NEW pub, NEW gone, NEW more, NEW document, NEW next,
         Fine(r, pub, gone, document), gone \subseteq more,
         document # None => next # None
  PROVE  Fine(r, pub, more, next)
BY DEF Fine

LEMMA StepGood ==
  ASSUME IInv, NEW s \in Slots, NEW r \in Requests, Become(s, r),
         UNCHANGED entra,
         metadata' \in Documents \cup {None}, metadata # None => metadata' # None,
         keys' = None \/ keys' \subseteq Kids, keys' # None => metadata' # None,
         dropped \subseteq dropped', dropped' \subseteq ever \ published,
         keys' = None \/ keys' \cap dropped' = {},
         Fine(r, published, dropped', metadata'),
         r.pc = "idle" => Owed(s, r)
  PROVE  IInv' /\ Faithful(s)
<1>1. /\ request' = [request EXCEPT ![s] = r] /\ request \in [Slots -> Requests]
      /\ published' = published /\ ever' = ever
  BY DEF Become, entra, IInv, TypeOK
<1>2. /\ request' \in [Slots -> Requests] /\ request'[s] = r
      /\ \A x \in Slots : x # s => request'[x] = request[x]
  BY <1>1
<1>3. TypeOK'
  BY <1>1, <1>2 DEF IInv, TypeOK
<1>4. ASSUME NEW x \in Slots
      PROVE  Fine(request'[x], published', dropped', metadata')
  <2>1. CASE x = s
    BY <1>1, <1>2, <2>1
  <2>2. CASE x # s
    <3>1. Fine(request[x], published, dropped, metadata)
      BY DEF IInv, AllFine
    <3>2. Fine(request[x], published, dropped', metadata')
      BY <3>1, FineLater
    <3>3. QED
      BY <1>1, <1>2, <2>2, <3>2
  <2>3. QED
    BY <2>1, <2>2
<1>5. AllFine' /\ CacheFine'
  BY <1>4 DEF AllFine, CacheFine
<1>6. QED
  BY <1>2, <1>3, <1>5 DEF IInv, Faithful

(* Most steps leave the keys alone.                                        *)
LEMMA StepKeepsKeys ==
  ASSUME IInv, NEW s \in Slots, NEW r \in Requests, Become(s, r),
         UNCHANGED <<entra, keys, dropped>>,
         metadata' \in Documents \/ UNCHANGED metadata,
         Fine(r, published, dropped, metadata'),
         r.pc = "idle" => Owed(s, r)
  PROVE  IInv' /\ Faithful(s)
<1>1. /\ keys' = keys /\ dropped' = dropped /\ UNCHANGED entra
      /\ metadata' \in Documents \cup {None}
      /\ metadata' \in Documents => metadata' # None
  BY NoneAssumption DEF Documents, IInv, TypeOK
<1>2. QED
  BY <1>1, StepGood DEF IInv, TypeOK, CacheFine

LEMMA Known ==
  ASSUME IInv, NEW s \in Slots
  PROVE  /\ request[s] \in Requests /\ request[s].fetches \in Nat
         /\ Fine(request[s], published, dropped, metadata)
BY DEF IInv, TypeOK, AllFine, Requests

(* A failed fetch owes nobody anything.                                    *)
LEMMA FetchFailsGood ==
  ASSUME IInv, NEW s \in Slots, FetchFails(s), UNCHANGED <<entra, cache, dropped>>,
         request[s].pc \in {"metadata", "jwks", "issuerMetadata"}
  PROVE  IInv' /\ Faithful(s)
<1>1. PICK a \in {"refused", "error"} :
        Become(s, Answering(Fetched(request[s], FALSE), a))
  BY DEF FetchFails
<1> DEFINE f == Fetched(request[s], FALSE)
           r == Answering(f, a)
<1>2. /\ f \in Requests /\ f.troubled /\ f.fetches = request[s].fetches + 1
  BY Known, FetchedIs
<1> HIDE DEF f
<1>3. f.fetches <= 5
  <2>1. Spent(request[s]) /\ request[s].fetches \in Nat
    BY Known DEF Fine
  <2>2. request[s].fetches <= 4
    BY <2>1 DEF Spent
  <2>3. QED
    BY <1>2, <2>1, <2>2
<1>4. /\ r \in Requests /\ r.troubled /\ r.answer = a
      /\ Fine(r, published, dropped, metadata)
  BY <1>2, <1>3, AnsweringIs, AnsweringFine
<1>5. Become(s, r)
  BY <1>1 DEF f
<1> HIDE DEF r
<1>6. Owed(s, r)
  BY <1>4 DEF Owed
<1>7. QED
  BY <1>4, <1>5, <1>6, StepKeepsKeys DEF cache

LEMMA ArriveGood ==
  ASSUME IInv, NEW s \in Slots, Arrive(s)
  PROVE  IInv' /\ \A x \in Slots : x # s => request'[x] = request[x]
<1>1. PICK t \in Tokens :
        \/ Become(s, [NoRequest(t) EXCEPT !.pc = "key", !.current = t.kid \in published,
                                          !.stale = t.kid \in dropped])
        \/ Become(s, Answering(NoRequest(t), "refused"))
  BY DEF Arrive
<1> DEFINE n == NoRequest(t)
<1>2. /\ n \in Requests /\ n.pc = "idle" /\ n.token = t /\ n.fetches = 0
      /\ n.troubled = FALSE /\ n.refresh = FALSE
  BY DEF NoRequest, Requests
<1>3. UNCHANGED <<entra, cache, dropped>> /\ request[s].pc = "idle"
  BY DEF Arrive, At
<1>4. CASE Become(s, Answering(n, "refused"))
  <2> DEFINE r == Answering(n, "refused")
  <2> HIDE DEF n
  <2>1. r \in Requests /\ Fine(r, published, dropped, metadata)
    BY <1>2, AnsweringIs, AnsweringFine
  <2>2. Become(s, r)
    BY <1>4
  <2>3. Owed(s, r)
    <3>1. ~request[s].current /\ r.answer = "refused"
      BY <1>2, <1>3, AnsweringIs, Known DEF Fine
    <3>2. QED
      BY <3>1 DEF Owed
  <2> HIDE DEF r
  <2>4. QED
    BY <1>3, <2>1, <2>2, <2>3, StepKeepsKeys DEF cache, Faithful
<1>5. CASE Become(s, [n EXCEPT !.pc = "key", !.current = t.kid \in published,
                               !.stale = t.kid \in dropped])
  <2> DEFINE cu == t.kid \in published
             st == t.kid \in dropped
             r  == [n EXCEPT !.pc = "key", !.current = cu, !.stale = st]
  <2>1. Become(s, r) /\ cu \in BOOLEAN /\ st \in BOOLEAN
    BY <1>5
  <2>2. (cu = TRUE => t.kid \in published) /\ (st = TRUE => t.kid \in dropped)
    OBVIOUS
  <2> HIDE DEF n, cu, st
  <2>3. r \in Requests
    BY <1>2, <2>1 DEF Requests
  <2>4. r.pc = "key" /\ r.token = t /\ r.fetches = 0
    BY <1>2 DEF Requests
  <2>5. r.current = cu /\ r.stale = st
    BY <1>2 DEF Requests
  <2>6. r.refresh = FALSE
    BY <1>2 DEF Requests
  <2> HIDE DEF r
  <2>7. Fine(r, published, dropped, metadata)
    BY <2>1, <2>2, <2>4, <2>5, <2>6 DEF Fine, Spent
  <2>8. QED
    BY <1>3, <2>1, <2>3, <2>4, <2>7, StepKeepsKeys DEF cache, Faithful
<1>6. QED
  BY <1>1, <1>4, <1>5

LEMMA GetSigningKeyGood ==
  ASSUME IInv, NEW s \in Slots, GetSigningKey(s) PROVE IInv' /\ Faithful(s)
<1> DEFINE q == request[s]
<1>1. /\ q \in Requests /\ q.pc = "key" /\ Fine(q, published, dropped, metadata)
      /\ q.fetches \in Nat /\ UNCHANGED <<entra, cache, dropped>>
  BY Known DEF GetSigningKey, At
<1>2. q.fetches <= (IF q.refresh THEN 2 ELSE 0)
  BY <1>1 DEF Fine, Spent
<1>3. CASE GoTo(s, "metadata")
  <2> DEFINE r == [q EXCEPT !.pc = "metadata"]
  <2>1. Become(s, r)
    BY <1>3 DEF GoTo
  <2> HIDE DEF q
  <2>2. /\ r \in Requests /\ r.pc = "metadata" /\ r.fetches = q.fetches
        /\ r.token = q.token /\ r.refresh = q.refresh
        /\ r.current = q.current /\ r.stale = q.stale
    BY <1>1, MovedIs
  <2> HIDE DEF r
  <2>3. Fine(r, published, dropped, metadata)
    BY <1>1, <1>2, <2>2 DEF Fine, Spent
  <2>4. QED
    BY <1>1, <2>1, <2>2, <2>3, StepKeepsKeys DEF cache
<1>4. CASE ~q.refresh /\ keys # None /\ Become(s, Looked(q, keys))
  <2> DEFINE r == Looked(q, keys)
  <2> HIDE DEF q
  <2>1. q.fetches <= (IF q.refresh THEN 4 ELSE 2)
    BY <1>1, <1>2
  <2>2. keys \cap dropped = {} /\ metadata # None
    BY <1>4 DEF IInv, CacheFine, TypeOK
  <2>3. /\ r \in Requests /\ Fine(r, published, dropped, metadata)
        /\ r.pc = "idle" => q.refresh
    BY <1>1, <2>1, <2>2, LookedFine DEF Fine
  <2>4. Become(s, r)
    BY <1>4
  <2> HIDE DEF r
  <2>5. QED
    BY <1>1, <1>4, <2>3, <2>4, StepKeepsKeys DEF cache
<1>5. QED
  BY <1>3, <1>4 DEF GetSigningKey

LEMMA FetchMetadataGood ==
  ASSUME IInv, NEW s \in Slots, FetchMetadata(s) PROVE IInv' /\ Faithful(s)
<1> DEFINE q == request[s]
<1>1. /\ q \in Requests /\ q.pc = "metadata" /\ Fine(q, published, dropped, metadata)
      /\ q.fetches \in Nat /\ UNCHANGED <<entra, keys, dropped>>
  BY Known DEF FetchMetadata, At
<1>2. q.fetches <= (IF q.refresh THEN 2 ELSE 0)
  BY <1>1 DEF Fine, Spent
<1>3. CASE FetchFails(s) /\ UNCHANGED metadata
  BY <1>1, <1>3, FetchFailsGood DEF cache
<1>4. ASSUME NEW document \in Documents, metadata' = document,
             Become(s, IF document = "noKeysUri"
                       THEN Answering(Fetched(q, document = "ok"), "refused")
                       ELSE [Fetched(q, document = "ok") EXCEPT !.pc = "jwks"])
      PROVE  IInv' /\ Faithful(s)
  <2> DEFINE f == Fetched(q, document = "ok")
  <2>1. /\ f \in Requests /\ f.fetches = q.fetches + 1 /\ f.token = q.token
        /\ f.refresh = q.refresh /\ f.current = q.current /\ f.stale = q.stale
        /\ document # "ok" => f.troubled
    BY <1>1, FetchedIs
  <2>2. document # None
    BY NoneAssumption DEF Documents
  <2>3. CASE document = "noKeysUri"
    <3> DEFINE r == Answering(f, "refused")
    <3>1. Become(s, r)
      BY <1>4, <2>3
    <3> HIDE DEF f
    <3>2. f.fetches <= 5
      BY <1>1, <1>2, <2>1
    <3>3. /\ r \in Requests /\ r.answer = "refused" /\ r.troubled
          /\ Fine(r, published, dropped, metadata')
      BY <2>1, <2>3, <3>2, AnsweringIs, AnsweringFine
    <3> HIDE DEF r
    <3>4. Owed(s, r)
      BY <3>3 DEF Owed
    <3>5. QED
      BY <1>1, <1>4, <3>1, <3>3, <3>4, StepKeepsKeys
  <2>4. CASE document # "noKeysUri"
    <3> DEFINE r == [f EXCEPT !.pc = "jwks"]
    <3>1. Become(s, r)
      BY <1>4, <2>4
    <3> HIDE DEF f, q
    <3>2. /\ r \in Requests /\ r.pc = "jwks" /\ r.fetches = f.fetches
          /\ r.token = f.token /\ r.refresh = f.refresh
          /\ r.current = f.current /\ r.stale = f.stale
      BY <2>1, MovedIs
    <3> HIDE DEF r
    <3>3. Fine(r, published, dropped, metadata')
      BY <1>1, <1>2, <1>4, <2>1, <2>2, <3>2 DEF Fine, Spent
    <3>4. QED
      BY <1>1, <1>4, <3>1, <3>2, <3>3, StepKeepsKeys
  <2>5. QED
    BY <2>3, <2>4
<1>5. QED
  BY <1>3, <1>4 DEF FetchMetadata, Keep

LEMMA FetchKeysGood ==
  ASSUME IInv, NEW s \in Slots, FetchKeys(s) PROVE IInv' /\ Faithful(s)
<1> DEFINE q == request[s]
<1>1. /\ q \in Requests /\ q.pc = "jwks" /\ Fine(q, published, dropped, metadata)
      /\ q.fetches \in Nat /\ UNCHANGED <<entra, metadata>>
  BY Known DEF FetchKeys, At
<1>2. /\ q.fetches <= (IF q.refresh THEN 3 ELSE 1) /\ metadata # None
      /\ q.current => q.token.kid \in published
      /\ q.stale => q.token.kid \in dropped
  BY <1>1 DEF Fine, Spent
<1>3. CASE FetchFails(s) /\ UNCHANGED <<keys, dropped>>
  BY <1>1, <1>3, FetchFailsGood DEF cache
<1>4. ASSUME NEW served \in {published, {}}, keys' = served,
             dropped' = dropped \cup (ever \ published),
             Become(s, Looked(Fetched(q, served # {}), served))
      PROVE  IInv' /\ Faithful(s)
  <2> DEFINE f == Fetched(q, served # {})
             r == Looked(f, served)
  <2>1. /\ f \in Requests /\ f.fetches = q.fetches + 1 /\ f.token = q.token
        /\ f.refresh = q.refresh /\ f.current = q.current /\ f.stale = q.stale
        /\ served = {} => f.troubled
    BY <1>1, FetchedIs
  <2>2. Become(s, r)
    BY <1>4
  <2> HIDE DEF f, q
  <2>3. /\ dropped \subseteq dropped' /\ dropped' \subseteq ever \ published
        /\ served \cap dropped' = {} /\ served \subseteq Kids
    BY <1>4 DEF IInv, TypeOK
  <2>4. f.fetches <= (IF f.refresh THEN 4 ELSE 2)
    BY <1>1, <1>2, <2>1
  <2>5. /\ r \in Requests /\ Fine(r, published, dropped', metadata)
        /\ r.pc = "idle" => f.token.kid \notin served /\ r = Answering(f, "refused")
    BY <1>2, <2>1, <2>3, <2>4, LookedFine
  <2>6. r.pc = "idle" => Owed(s, r)
    <3>1. SUFFICES ASSUME r.pc = "idle" PROVE Owed(s, r)
      OBVIOUS
    <3>2. r.answer = "refused" /\ r.troubled = f.troubled
      BY <2>1, <2>5, <3>1, AnsweringIs
    <3>3. q.current => f.troubled
      BY <1>2, <1>4, <2>1, <2>5, <3>1
    <3>4. QED
      BY <3>2, <3>3 DEF Owed, q
  <2> HIDE DEF r
  <2>7. /\ metadata' = metadata /\ keys' \subseteq Kids /\ keys' \cap dropped' = {}
        /\ UNCHANGED entra /\ metadata' \in Documents \cup {None}
    BY <1>1, <1>4, <2>3 DEF IInv, TypeOK
  <2>8. QED
    BY <1>2, <2>2, <2>3, <2>5, <2>6, <2>7, StepGood
<1>5. QED
  BY <1>3, <1>4 DEF FetchKeys, Served

(* The common end of a request that has its key and its issuer.            *)
LEMMA DecodeGood ==
  ASSUME IInv, NEW s \in Slots, NEW r \in Requests,
         request[s].pc \in {"issuer", "issuerMetadata"},
         r.token = request[s].token, r.current = request[s].current,
         r.stale = request[s].stale, r.fetches <= (IF r.refresh THEN 5 ELSE 2),
         UNCHANGED <<entra, keys, dropped>>,
         metadata' \in Documents \/ UNCHANGED metadata,
         Become(s, Decoded(r, metadata'))
  PROVE  IInv' /\ Faithful(s)
<1> DEFINE d == Decoded(r, metadata')
<1>1. /\ ~request[s].stale
      /\ r.current => r.token.kid \in published
      /\ r.stale => r.token.kid \in dropped
  BY Known DEF Fine
<1>2. /\ d \in Requests /\ Fine(d, published, dropped, metadata')
      /\ d.answer \in {"refused", "error"} /\ d.pc = "idle" /\ r.token.kind = "good" =>
           metadata' = "noIssuer"
  BY <1>1, DecodedFine
<1>3. Become(s, d)
  OBVIOUS
<1> HIDE DEF d
<1>4. d.pc = "idle" => Owed(s, d)
  BY <1>1, <1>2 DEF Owed
<1>5. QED
  BY <1>2, <1>3, <1>4, StepKeepsKeys

LEMMA GetIssuerGood ==
  ASSUME IInv, NEW s \in Slots, GetIssuer(s) PROVE IInv' /\ Faithful(s)
<1> DEFINE q == request[s]
<1>1. /\ q \in Requests /\ q.pc = "issuer" /\ Fine(q, published, dropped, metadata)
      /\ q.fetches \in Nat /\ UNCHANGED <<entra, cache, dropped>>
  BY Known DEF GetIssuer, At
<1>2. q.fetches <= (IF q.refresh THEN 4 ELSE 2) /\ metadata # None
  BY <1>1 DEF Fine, Spent
<1>3. CASE q.refresh /\ GoTo(s, "issuerMetadata")
  <2> DEFINE r == [q EXCEPT !.pc = "issuerMetadata"]
  <2>1. Become(s, r)
    BY <1>3 DEF GoTo
  <2> HIDE DEF q
  <2>2. /\ r \in Requests /\ r.pc = "issuerMetadata" /\ r.fetches = q.fetches
        /\ r.token = q.token /\ r.refresh = q.refresh
        /\ r.current = q.current /\ r.stale = q.stale
    BY <1>1, MovedIs
  <2> HIDE DEF r
  <2>3. Fine(r, published, dropped, metadata)
    BY <1>1, <1>2, <1>3, <2>2 DEF Fine, Spent
  <2>4. QED
    BY <1>1, <2>1, <2>2, <2>3, StepKeepsKeys DEF cache
<1>4. CASE Become(s, Decoded(q, metadata)) /\ ~q.refresh
  <2>1. metadata' = metadata /\ UNCHANGED <<entra, keys, dropped>>
    BY <1>1 DEF cache
  <2>2. q.fetches <= (IF q.refresh THEN 5 ELSE 2)
    BY <1>1, <1>2
  <2>3. QED
    BY <1>1, <1>4, <2>1, <2>2, DecodeGood
<1>5. QED
  BY <1>2, <1>3, <1>4 DEF GetIssuer

LEMMA FetchIssuerGood ==
  ASSUME IInv, NEW s \in Slots, FetchIssuer(s) PROVE IInv' /\ Faithful(s)
<1> DEFINE q == request[s]
<1>1. /\ q \in Requests /\ q.pc = "issuerMetadata"
      /\ Fine(q, published, dropped, metadata)
      /\ q.fetches \in Nat /\ UNCHANGED <<entra, keys, dropped>>
  BY Known DEF FetchIssuer, At
<1>2. q.refresh /\ q.fetches <= 4
  BY <1>1 DEF Fine, Spent
<1>3. CASE FetchFails(s) /\ UNCHANGED metadata
  BY <1>1, <1>3, FetchFailsGood DEF cache
<1>4. ASSUME NEW document \in Documents, metadata' = document,
             Become(s, Decoded(Fetched(q, document = "ok"), document))
      PROVE  IInv' /\ Faithful(s)
  <2> DEFINE r == Fetched(q, document = "ok")
  <2>1. /\ r \in Requests /\ r.fetches = q.fetches + 1 /\ r.token = q.token
        /\ r.refresh = q.refresh /\ r.current = q.current /\ r.stale = q.stale
    BY <1>1, FetchedIs
  <2>2. Become(s, Decoded(r, metadata'))
    BY <1>4
  <2> HIDE DEF r
  <2>3. r.fetches <= (IF r.refresh THEN 5 ELSE 2)
    BY <1>1, <1>2, <2>1
  <2>4. QED
    BY <1>1, <1>4, <2>1, <2>2, <2>3, DecodeGood
<1>5. QED
  BY <1>3, <1>4 DEF FetchIssuer, Keep

LEMMA PublishGood ==
  ASSUME IInv, NEW k \in Kids, Publish(k) PROVE IInv' /\ UNCHANGED request
<1>1. /\ k \notin ever /\ published' = published \cup {k} /\ ever' = ever \cup {k}
      /\ UNCHANGED <<keys, metadata, request, dropped>>
  BY DEF Publish, cache
<1>2. TypeOK' /\ CacheFine'
  BY <1>1 DEF IInv, TypeOK, CacheFine
<1>3. AllFine'
  BY <1>1 DEF IInv, AllFine, Fine
<1>4. QED
  BY <1>1, <1>2, <1>3 DEF IInv

LEMMA WithdrawGood ==
  ASSUME IInv, NEW k \in Kids, Withdraw(k)
  PROVE  IInv' /\ \A s \in Slots : request'[s].pc = request[s].pc
<1>1. /\ published' = published \ {k}
      /\ request' = [s \in Slots |-> [request[s] EXCEPT
                                        !.current = @ /\ request[s].token.kid # k]]
      /\ UNCHANGED <<keys, metadata, ever, dropped>>
  BY DEF Withdraw, cache
<1>2. ASSUME NEW s \in Slots
      PROVE  /\ request'[s] \in Requests /\ request'[s].pc = request[s].pc
             /\ Fine(request'[s], published', dropped', metadata')
  <2> DEFINE q == request[s]
             cu == q.current /\ q.token.kid # k
             r == [q EXCEPT !.current = cu]
  <2>1. q \in Requests /\ Fine(q, published, dropped, metadata) /\ cu \in BOOLEAN
    BY Known
  <2>2. cu = TRUE => q.current = TRUE /\ q.token.kid # k
    BY <2>1 DEF Requests
  <2>3. request'[s] = r
    BY <1>1
  <2> HIDE DEF q, cu
  <2>4. r \in Requests
    BY <2>1 DEF Requests
  <2>5. r.pc = q.pc /\ r.token = q.token /\ r.fetches = q.fetches
    BY <2>1 DEF Requests
  <2>6. r.refresh = q.refresh /\ r.stale = q.stale
    BY <2>1 DEF Requests
  <2>7. r.current = cu
    BY <2>1 DEF Requests
  <2> HIDE DEF r
  <2>8. Fine(r, published', dropped', metadata')
    BY <1>1, <2>1, <2>2, <2>5, <2>6, <2>7 DEF Fine, Spent
  <2>9. QED
    BY <2>3, <2>4, <2>5, <2>8 DEF q
<1>3. request' \in [Slots -> Requests]
  BY <1>1, <1>2
<1>4. TypeOK' /\ CacheFine'
  BY <1>1, <1>3 DEF IInv, TypeOK, CacheFine
<1>5. QED
  BY <1>2, <1>4 DEF IInv, AllFine

-----------------------------------------------------------------------------

LEMMA InitIInv == Init => IInv
<1> SUFFICES ASSUME Init PROVE IInv
  OBVIOUS
<1>1. PICK k \in Kids :
        request = [s \in Slots |-> NoRequest([kid |-> k, kind |-> "invalid"])]
  BY DEF Init
<1> DEFINE n == NoRequest([kid |-> k, kind |-> "invalid"])
<1>2. /\ n \in Requests /\ n.pc = "idle" /\ n.fetches = 0
      /\ n.current = FALSE /\ n.stale = FALSE
  BY DEF NoRequest, Requests, Tokens
<1>3. request = [s \in Slots |-> n]
  BY <1>1
<1> HIDE DEF n
<1>4. Fine(n, published, dropped, metadata)
  BY <1>2 DEF Fine, Spent
<1>5. QED
  BY <1>2, <1>3, <1>4 DEF Init, IInv, TypeOK, AllFine, CacheFine

LEMMA DecodeStepGood ==
  ASSUME IInv, NEW s \in Slots, Decode(s) PROVE IInv' /\ Faithful(s)
BY GetSigningKeyGood, FetchMetadataGood, FetchKeysGood, GetIssuerGood, FetchIssuerGood
DEF Decode

LEMMA NextIInv ==
  ASSUME IInv, [Next]_vars PROVE IInv'
<1>1. CASE Next
  BY <1>1, ArriveGood, DecodeStepGood, PublishGood, WithdrawGood DEF Next
<1>2. CASE UNCHANGED vars
  BY <1>2 DEF vars, entra, cache, IInv, TypeOK, AllFine, CacheFine
<1>3. QED
  BY <1>1, <1>2

(* The inductive invariant of the token validation.                        *)
THEOREM Invariance == Spec => []IInv
<1>1. Init => IInv
  BY InitIInv
<1>2. IInv /\ [Next]_vars => IInv'
  BY NextIInv
<1>3. QED
  BY <1>1, <1>2, PTL DEF Spec

(* The cache and the requests hold values of their types.                  *)
THEOREM TypeCorrect == Spec => []TypeOK
<1>1. IInv => TypeOK
  BY DEF IInv
<1>2. QED
  BY <1>1, Invariance, PTL

(* _decode_token fetches five times at most, whatever other requests do to *)
(* the cache meanwhile.                                                    *)
THEOREM WorkAlwaysBounded == Spec => []WorkIsBounded
<1>1. IInv => WorkIsBounded
  BY DEF IInv, AllFine, Fine, Spent, WorkIsBounded
<1>2. QED
  BY <1>1, Invariance, PTL

(* Only a step of the slot itself ends its request, and that is Owed.      *)
LEMMA AnswersOwed ==
  ASSUME IInv, Next, NEW s \in Slots, ~At(s, "idle"), At(s, "idle")'
  PROVE  Owed(s, request'[s])
<1>1. ASSUME NEW x \in Slots, Arrive(x) PROVE x # s /\ request'[s] = request[s]
  BY <1>1, ArriveGood DEF Arrive
<1>2. ASSUME NEW x \in Slots, Decode(x)
      PROVE  request'[s] = request[s] \/ (x = s /\ Owed(s, request'[s]))
  BY <1>2, DecodeStepGood DEF Faithful, At
<1>3. QED
  BY <1>1, <1>2, PublishGood, WithdrawGood DEF Next, At

(* A rotation of Entra's keys costs no user a request (_decode_token).     *)
THEOREM GoodTokensAlwaysAccepted == Spec => GoodTokensAccepted
<1>1. IInv /\ [Next]_vars =>
        [\A s \in Slots :
           Answered(s, {"refused", "error"}) /\ request[s].token.kind = "good"
             /\ request[s].current =>
               request'[s].troubled \/ metadata' = "noIssuer"]_vars
  BY AnswersOwed DEF Answered, Owed
<1>2. QED
  BY <1>1, Invariance, PTL DEF Spec, GoodTokensAccepted

(* What one fetch has found withdrawn lets nobody in again (_JwksCache).   *)
THEOREM WithdrawalAlwaysSticks == Spec => WithdrawalSticks
<1>1. IInv /\ [Next]_vars =>
        [\A s \in Slots : Answered(s, {"accepted"}) => ~request[s].stale]_vars
  BY AnswersOwed DEF Answered, Owed
<1>2. QED
  BY <1>1, Invariance, PTL DEF Spec, WithdrawalSticks
=============================================================================
