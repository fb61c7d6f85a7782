--------------------------------- MODULE Auth ---------------------------------
(***************************************************************************)
(* Bearer tokens (api/auth.py).  get_current_user runs on the threads of   *)
(* the worker pool; _decode_token asks the one _JwksCache for the signing  *)
(* key that a token names and for the issuer, and when the key is unknown  *)
(* or the token does not validate, it asks once more with a refresh.  The  *)
(* cache fetches from Microsoft Entra ID while it holds its lock, and lets *)
(* go of it between the key and the issuer.                                *)
(*                                                                         *)
(* Entra publishes and withdraws keys at any time, may fail to answer, and *)
(* may answer with a document that lacks what the code looks for.  A key   *)
(* stands for its key id and a token for the id it names and for what      *)
(* jwt.decode and get_current_user make of the rest of it.                 *)
(***************************************************************************)
EXTENDS Integers

CONSTANTS Slots,  \* requests served at a time
          Kids,   \* key ids
          None    \* nothing cached yet: neither a set of keys nor a document

ASSUME NoneAssumption ==
  /\ \A known \in SUBSET Kids : None # known
  /\ None \notin {"ok", "noIssuer", "noKeysUri"}

VARIABLES published,  \* Entra: the keys it publishes
          keys,       \* _keys
          metadata,   \* _metadata
          request,    \* per slot, the request it serves
          ever,       \* history: every key that was published
          dropped     \* history: withdrawn keys that a later fetch did not see

cache == <<keys, metadata>>
entra == <<published, ever>>
vars  == <<entra, cache, request, dropped>>

Tokens ==
  [kid  : Kids,
   kind : {"good",         \* valid until its key is withdrawn
           "invalid",      \* jwt.decode raises JWTError
           "unusable"}]    \* not RS256, or no subject: refused at once

Documents == {"ok", "noIssuer", "noKeysUri"}

NoRequest(t) ==
  [pc |-> "idle", token |-> t, refresh |-> FALSE, fetches |-> 0, current |-> FALSE,
   stale |-> FALSE, troubled |-> FALSE, answer |-> "none"]

(* Entra signs with keys it has published.                                 *)
CanExist(t) == t.kind = "good" => t.kid \in ever

Init ==
  /\ published \in SUBSET Kids /\ ever = published
  /\ keys = None /\ metadata = None /\ dropped = {}
  /\ \E k \in Kids :
       request = [s \in Slots |-> NoRequest([kid |-> k, kind |-> "invalid"])]

-----------------------------------------------------------------------------
At(s, pc) == request[s].pc = pc
Become(s, r) == request' = [request EXCEPT ![s] = r]
GoTo(s, pc) == Become(s, [request[s] EXCEPT !.pc = pc])

Answering(r, answer) ==
  [NoRequest(r.token) EXCEPT !.answer = answer, !.fetches = r.fetches,
                             !.troubled = r.troubled]

Fetched(r, ok) == [r EXCEPT !.fetches = @ + 1, !.troubled = @ \/ ~ok]

(* A network error is a 401 of _auth_error, a document that is no JSON an  *)
(* exception that nobody handles; either leaves the lock.                  *)
FetchFails(s) ==
  \E answer \in {"refused", "error"} :
    Become(s, Answering(Fetched(request[s], FALSE), answer))

LockFree == \A s \in Slots : request[s].pc \notin {"metadata", "jwks", "issuerMetadata"}

(* Slip: retries with a refresh whatever it did before.                    *)
OnceMoreAlways(r) == [r EXCEPT !.pc = "key", !.refresh = TRUE]

(* Slip: no retry.                                                         *)
OnceMoreNever(r) == Answering(r, "refused")

(* _decode_token calls itself with a refresh, once.                        *)
OnceMore(r) ==
  IF r.refresh THEN Answering(r, "refused")
               ELSE [r EXCEPT !.pc = "key", !.refresh = TRUE]

Looked(r, known) == IF r.token.kid \in known THEN [r EXCEPT !.pc = "issuer"] ELSE OnceMore(r)

Decoded(r, document) ==
  IF document = "noIssuer" \/ r.token.kind = "unusable" THEN Answering(r, "refused")
  ELSE IF r.token.kind = "invalid" THEN OnceMore(r)
  ELSE Answering(r, "accepted")

-----------------------------------------------------------------------------
(* A request comes; one without a bearer token, or whose token's header    *)
(* names no key, is refused.  `current` and `stale` are history: whether   *)
(* Entra vouches for the token's key from now on, and whether the cache    *)
(* has already noticed that it does not.                                   *)
Arrive(s) ==
  /\ At(s, "idle")
  /\ \E t \in Tokens :
       /\ CanExist(t)
       /\ \/ Become(s, [NoRequest(t) EXCEPT !.pc = "key",
                                            !.current = t.kid \in published,
                                            !.stale   = t.kid \in dropped])
          \/ t.kind # "good" /\ Become(s, Answering(NoRequest(t), "refused"))
  /\ UNCHANGED <<entra, cache, dropped>>

(* get_signing_key, as far as it needs no fetch.                           *)
GetSigningKey(s) ==
  /\ At(s, "key") /\ LockFree
  /\ IF request[s].refresh \/ keys = None
     THEN GoTo(s, "metadata")
     ELSE Become(s, Looked(request[s], keys))
  /\ UNCHANGED <<entra, cache, dropped>>

(* Slip: the document is used and not kept.                                *)
KeepNothing(document) == UNCHANGED metadata

Keep(document) == metadata' = document

FetchMetadata(s) ==
  /\ At(s, "metadata")
  /\ \/ FetchFails(s) /\ UNCHANGED metadata
     \/ \E document \in Documents :
          /\ Keep(document)
          /\ LET r == Fetched(request[s], document = "ok")
             IN  Become(s, IF document = "noKeysUri" THEN Answering(r, "refused")
                                                     ELSE [r EXCEPT !.pc = "jwks"])
  /\ UNCHANGED <<entra, keys, dropped>>

(* Slip: the new keys are added to the old ones.                           *)
ServedAddedUp == {published \cup (IF keys = None THEN {} ELSE keys)}

(* What Entra serves: its keys, or a document that holds no keys.          *)
Served == {published, {}}

FetchKeys(s) ==
  /\ At(s, "jwks")
  /\ \/ FetchFails(s) /\ UNCHANGED <<keys, dropped>>
     \/ \E served \in Served :
          /\ keys' = served
          /\ dropped' = dropped \cup (ever \ published)
          /\ Become(s, Looked(Fetched(request[s], served # {}), served))
  /\ UNCHANGED <<entra, metadata>>

(* get_issuer, which takes the lock anew.                                  *)
GetIssuer(s) ==
  /\ At(s, "issuer") /\ LockFree
  /\ IF request[s].refresh \/ metadata = None
     THEN GoTo(s, "issuerMetadata")
     ELSE Become(s, Decoded(request[s], metadata))
  /\ UNCHANGED <<entra, cache, dropped>>

FetchIssuer(s) ==
  /\ At(s, "issuerMetadata")
  /\ \/ FetchFails(s) /\ UNCHANGED metadata
     \/ \E document \in Documents :
          /\ Keep(document)
          /\ Become(s, Decoded(Fetched(request[s], document = "ok"), document))
  /\ UNCHANGED <<entra, keys, dropped>>

-----------------------------------------------------------------------------
Publish(k) ==
  /\ k \notin ever
  /\ published' = published \cup {k} /\ ever' = ever \cup {k}
  /\ UNCHANGED <<cache, request, dropped>>

Withdraw(k) ==
  /\ k \in published
  /\ published' = published \ {k}
  /\ request' = [s \in Slots |->
                   [request[s] EXCEPT !.current = @ /\ request[s].token.kid # k]]
  /\ UNCHANGED <<cache, ever, dropped>>

Decode(s) ==
  \/ GetSigningKey(s) \/ FetchMetadata(s) \/ FetchKeys(s)
  \/ GetIssuer(s) \/ FetchIssuer(s)

Next ==
  \/ \E s \in Slots : Arrive(s) \/ Decode(s)
  \/ \E k \in Kids : Publish(k) \/ Withdraw(k)

Spec == Init /\ [][Next]_vars

-----------------------------------------------------------------------------
Requests ==
  [pc : {"idle", "key", "metadata", "jwks", "issuer", "issuerMetadata"},
   token : Tokens, refresh : BOOLEAN, fetches : Nat, current : BOOLEAN,
   stale : BOOLEAN, troubled : BOOLEAN,
   answer : {"none", "accepted", "refused", "error"}]

(* The types; keys are kept only after the document that leads to them.    *)
TypeOK ==
  /\ published \subseteq ever /\ ever \subseteq Kids
  /\ dropped \subseteq ever \ published
  /\ keys = None \/ keys \subseteq Kids
  /\ metadata \in Documents \cup {None}
  /\ keys # None => metadata # None
  /\ request \in [Slots -> Requests]

(* However the cache is refreshed by others between a request's key and    *)
(* its issuer, and between its two tries, it makes at most five fetches    *)
(* (each of at most five seconds): two that fill a cold cache, and three   *)
(* of the one refresh, whose issuer is fetched anew.                       *)
WorkIsBounded == \A s \in Slots : request[s].fetches <= 5

Answered(s, answers) ==
  ~At(s, "idle") /\ At(s, "idle")' /\ request'[s].answer \in answers

(* A key rotation that other requests have not noticed yet never costs a   *)
(* user a request: a good token whose key is published from the arrival to *)
(* the answer is refused only if a fetch of this very request went wrong,  *)
(* or the cached document names no issuer.                                 *)
GoodTokensAccepted ==
  [][\A s \in Slots :
       Answered(s, {"refused", "error"}) /\ request[s].token.kind = "good"
         /\ request[s].current =>
           request'[s].troubled \/ metadata' = "noIssuer"]_vars

(* A withdrawn key may be trusted for as long as nobody refreshes; but     *)
(* once any fetch of the keys has missed it, no request that comes later   *)
(* is let in by it, although slow requests still hold older keys and go on *)
(* to fetch.                                                               *)
WithdrawalSticks ==
  [][\A s \in Slots : Answered(s, {"accepted"}) => ~request[s].stale]_vars
=============================================================================
