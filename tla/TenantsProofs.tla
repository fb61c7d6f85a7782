----------------------------- MODULE TenantsProofs -----------------------------
(***************************************************************************)
(* Tenants, for any number of requests at a time, users, services and      *)
(* rows.  A request acts on what it once read: the proofs rest on what its *)
(* context says that stays true while other requests go on (Context), and  *)
(* on the tables, of which nothing but a registration is ever deleted.     *)
(***************************************************************************)
EXTENDS TenantsProps, FiniteSetTheorems, TLAPS

(* The types that the proofs need; ids are any numbers.                    *)
AnyMember == [user : Users, tenant : Int, role : Roles]
AnyRequest ==
  [pc : {"idle", "insertTenant", "insertAdmin", "local", "handler", "azure",
         "ingest"},
   user : Users, call : Calls, tenant : Int, role : Roles,
   isMember : BOOLEAN, found : SUBSET Services, answer : Answers]

Typed ==
  /\ authEnabled \in BOOLEAN
  /\ members \subseteq AnyMember
  /\ \A x \in Registrations : x.service \in Services
  /\ request \in [Slots -> AnyRequest]

ServicesIn(t, registered) == {x.service : x \in {y \in registered : y.tenant = t}}

(* What a request knows, against the tables given: its role is that of a   *)
(* membership, or it is the caller of a server without authentication; and *)
(* the services it is about to show or analyse for a member were           *)
(* registered by the tenant.                                               *)
Context(r, auth, mem, registered) ==
  /\ r.pc \in {"handler", "azure", "ingest"} /\ r.isMember =>
       [user |-> r.user, tenant |-> r.tenant, role |-> r.role] \in mem
  /\ r.pc \in {"handler", "azure", "ingest"} /\ ~r.isMember =>
       r.tenant = Local /\ auth = FALSE
  /\ r.pc = "local" => auth = FALSE
  /\ r.pc # "idle" =>
       (r.call.op = "create" <=> r.pc \in {"insertTenant", "insertAdmin"})
  /\ r.pc \in {"azure", "ingest"} /\ r.isMember =>
       r.found \subseteq ServicesIn(r.tenant, registered)
  /\ r.pc = "azure" /\ r.isMember => r.found # {}

Contexts ==
  \A s \in Slots : Context(request[s], authEnabled, members, Registrations)

IInv == Typed /\ OneTenantPerUser /\ RunsScoped /\ Contexts

(* The next tenant's id is a number.                                       *)
Finite == IsFiniteSet(tenants)

-----------------------------------------------------------------------------

LEMMA NoRequestTyped ==
  /\ NoRequest \in AnyRequest
  /\ NoRequest.pc = "idle" /\ NoRequest.answer = "none"
  /\ \A a \in Answers, f \in SUBSET Services :
       /\ [NoRequest EXCEPT !.answer = a, !.found = f] \in AnyRequest
       /\ [NoRequest EXCEPT !.answer = a, !.found = f].pc = "idle"
       /\ [NoRequest EXCEPT !.answer = a, !.found = f].answer = a
       /\ [NoRequest EXCEPT !.answer = a, !.found = f].found = f
<1>1. NoRequest \in AnyRequest
  <2>1. [op |-> "create"] \in Calls
    BY DEF Calls
  <2>2. QED
    BY <2>1, UsersAssumption DEF NoRequest, AnyRequest, Roles, Answers, Local
<1>2. NoRequest.pc = "idle" /\ NoRequest.answer = "none"
  BY DEF NoRequest
<1>3. ASSUME NEW a \in Answers, NEW f \in SUBSET Services
      PROVE  /\ [NoRequest EXCEPT !.answer = a, !.found = f] \in AnyRequest
             /\ [NoRequest EXCEPT !.answer = a, !.found = f].pc = "idle"
             /\ [NoRequest EXCEPT !.answer = a, !.found = f].answer = a
             /\ [NoRequest EXCEPT !.answer = a, !.found = f].found = f
  BY <1>1, <1>2 DEF AnyRequest
<1>4. QED
  BY <1>1, <1>2, <1>3

LEMMA AnsweredTyped ==
  ASSUME NEW a \in Answers, NEW f \in SUBSET Services, NEW r,
         r = [NoRequest EXCEPT !.answer = a, !.found = f]
  PROVE  r \in AnyRequest /\ r.pc = "idle" /\ r.answer = a /\ r.found = f
<1>1. NoRequest \in AnyRequest /\ NoRequest.pc = "idle"
  BY NoRequestTyped
<1>2. QED
  BY <1>1 DEF AnyRequest

(* What an add_member call carries.                                        *)
LEMMA AddMemberCall ==
  ASSUME NEW c \in Calls, c.op = "add_member"
  PROVE  c.user \in Users /\ c.role \in Roles
BY RolesAssumption DEF Calls, Roles

LEMMA RegisterCall ==
  ASSUME NEW c \in Calls, c.op = "register"
  PROVE  c.service \in Services
BY DEF Calls

(* A context stays true while the tables grow.                             *)
LEMMA ContextGrows ==
  ASSUME NEW r, NEW auth, NEW mem, NEW mem2, NEW reg, NEW reg2,
         Context(r, auth, mem, reg), mem \subseteq mem2, reg \subseteq reg2
  PROVE  Context(r, auth, mem2, reg2)
BY DEF Context, ServicesIn

LEMMA IdleContext ==
  ASSUME NEW r, NEW auth, NEW mem, NEW reg, r.pc = "idle"
  PROVE  Context(r, auth, mem, reg)
BY DEF Context

LEMMA EverIsServicesIn ==
  \A t : EverRegistered(t) = ServicesIn(t, Registrations)
BY DEF EverRegistered, ServicesIn, Of

(* The frame of every step of a request.                                   *)
LEMMA Replaced ==
  ASSUME Typed, NEW s \in Slots, NEW r \in AnyRequest,
         request' = [request EXCEPT ![s] = r]
  PROVE  /\ request' \in [Slots -> AnyRequest]
         /\ request'[s] = r
         /\ \A x \in Slots : x # s => request'[x] = request[x]
BY DEF Typed

LEMMA ContextsKept ==
  ASSUME IInv, NEW s \in Slots, NEW r \in AnyRequest,
         request' = [request EXCEPT ![s] = r], authEnabled' = authEnabled,
         members \subseteq members', Registrations \subseteq Registrations',
         Context(r, authEnabled, members', Registrations')
  PROVE  Contexts'
<1>1. /\ request'[s] = r
      /\ \A x \in Slots : x # s => request'[x] = request[x]
  BY Replaced DEF IInv
<1>2. ASSUME NEW x \in Slots
      PROVE  Context(request'[x], authEnabled', members', Registrations')
  <2>1. CASE x = s
    BY <1>1, <2>1
  <2>2. CASE x # s
    <3>1. Context(request[x], authEnabled, members, Registrations)
      BY DEF IInv, Contexts
    <3>2. Context(request[x], authEnabled, members', Registrations')
      BY <3>1, ContextGrows
    <3>3. QED
      BY <1>1, <2>2, <3>2
  <2>3. QED
    BY <2>1, <2>2
<1>3. QED
  BY <1>2 DEF Contexts

(* Most steps leave the tables alone.                                      *)
LEMMA QuietIInv ==
  ASSUME IInv, NEW s \in Slots, NEW r \in AnyRequest,
         request' = [request EXCEPT ![s] = r],
         UNCHANGED <<authEnabled, members, rows, past, runs>>,
         Context(r, authEnabled, members, Registrations)
  PROVE  IInv'
<1>1. Registrations' = Registrations
  BY DEF Registrations
<1>2. Typed'
  BY <1>1, Replaced DEF IInv, Typed
<1>3. OneTenantPerUser'
  BY DEF IInv, OneTenantPerUser
<1>4. RunsScoped'
  BY <1>1 DEF IInv, RunsScoped, EverRegistered, Of
<1>5. Contexts'
  BY <1>1, ContextsKept
<1>6. QED
  BY <1>2, <1>3, <1>4, <1>5 DEF IInv

LEMMA InitIInv == Init => IInv
<1> SUFFICES ASSUME Init PROVE IInv
  OBVIOUS
<1>1. request = [s \in Slots |-> NoRequest] /\ members = {} /\ runs = {}
      /\ Registrations = {}
  BY DEF Init, Registrations
<1>2. authEnabled \in BOOLEAN
  BY DEF Init
<1>3. Typed
  BY <1>1, <1>2, NoRequestTyped DEF Typed
<1>4. OneTenantPerUser /\ RunsScoped
  BY <1>1 DEF OneTenantPerUser, RunsScoped
<1>5. Contexts
  BY <1>1, NoRequestTyped, IdleContext DEF Contexts
<1>6. QED
  BY <1>3, <1>4, <1>5 DEF IInv

-----------------------------------------------------------------------------
(* What every step of slot s does, besides keeping the invariant.          *)
Faithful(s) ==
  /\ \A x \in Slots : x # s => request'[x] = request[x]
  /\ TrueOf(s)
  /\ \A t : AnswerScoped(s, t)
  /\ \A t :
       \/ Of(t, members') = Of(t, members) /\ Of(t, rows') = Of(t, rows)
       \/ request'[s] # request[s] /\ Entitled(s, t)

(* An answer that promises nothing, from a step that leaves the tables be. *)
LEMMA AnswerQuietly ==
  ASSUME IInv, NEW s \in Slots, NEW a \in Answers, Answer(s, a),
         UNCHANGED <<authEnabled, members, rows, past, runs>>,
         a \notin {"created", "conflict"} \/ request[s].pc = "idle"
           \/ request[s].call.op \notin {"create", "add_member"}
  PROVE  IInv' /\ Faithful(s)
<1> DEFINE r == [NoRequest EXCEPT !.answer = a, !.found = {}]
<1>1. r \in AnyRequest /\ r.pc = "idle" /\ r.answer = a /\ r.found = {}
  BY NoRequestTyped
<1>2. request' = [request EXCEPT ![s] = r]
  BY DEF Answer, AnswerWith
<1> HIDE DEF r
<1>3. Context(r, authEnabled, members, Registrations)
  BY <1>1, IdleContext
<1>4. IInv'
  BY <1>1, <1>2, <1>3, QuietIInv
<1>5. request'[s] = r /\ \A x \in Slots : x # s => request'[x] = request[x]
  BY <1>1, <1>2, Replaced DEF IInv
<1>6. TrueOf(s)
  BY <1>1, <1>5 DEF TrueOf, Answered, At
<1>7. \A t : AnswerScoped(s, t)
  BY <1>1, <1>5 DEF AnswerScoped
<1>8. QED
  BY <1>4, <1>5, <1>6, <1>7 DEF Faithful

(* A step after which the request still runs, and the tables are the same. *)
LEMMA GoOnQuietly ==
  ASSUME IInv, NEW s \in Slots, NEW r \in AnyRequest, r.pc # "idle",
         request' = [request EXCEPT ![s] = r],
         UNCHANGED <<authEnabled, members, rows, past, runs>>,
         Context(r, authEnabled, members, Registrations)
  PROVE  IInv' /\ Faithful(s)
<1>1. IInv'
  BY QuietIInv
<1>2. request'[s] = r /\ \A x \in Slots : x # s => request'[x] = request[x]
  BY Replaced DEF IInv
<1>3. \A a : ~Answered(s, a)
  BY <1>2 DEF Answered, At
<1>4. QED
  BY <1>1, <1>2, <1>3 DEF Faithful, TrueOf, AnswerScoped

-----------------------------------------------------------------------------
(* Resolving the context.                                                  *)

LEMMA NewTyped ==
  ASSUME NEW u \in Users, NEW call \in Calls,
         NEW pc \in {"insertTenant", "local", "handler"}
  PROVE  /\ New(u, call, pc) \in AnyRequest
         /\ New(u, call, pc).pc = pc /\ New(u, call, pc).call = call
         /\ New(u, call, pc).user = u
BY NoRequestTyped DEF New, AnyRequest

LEMMA ResolveContextGood ==
  ASSUME IInv, NEW s \in Slots, ResolveContext(s) PROVE IInv' /\ Faithful(s)
<1>1. PICK u \in Callers, call \in {c \in Calls : c.op # "create"} :
        \/ \E m \in Memberships(u) :
             request' = [request EXCEPT
                           ![s] = [New(u, call, "handler") EXCEPT
                                     !.tenant = m.tenant, !.role = m.role,
                                     !.isMember = TRUE]]
        \/ /\ Memberships(u) = {} /\ ~authEnabled
           /\ request' = [request EXCEPT ![s] = New(u, call, "local")]
        \/ Memberships(u) = {} /\ authEnabled /\ Answer(s, "forbidden")
  BY DEF ResolveContext
<1>2. /\ u \in Users /\ call \in Calls /\ call.op # "create"
      /\ UNCHANGED <<authEnabled, members, rows, past, runs>>
      /\ request[s].pc = "idle"
  BY UsersAssumption DEF Callers, ResolveContext, db, At
<1>3. ASSUME NEW m \in Memberships(u),
             request' = [request EXCEPT
                           ![s] = [New(u, call, "handler") EXCEPT
                                     !.tenant = m.tenant, !.role = m.role,
                                     !.isMember = TRUE]]
      PROVE  IInv' /\ Faithful(s)
  <2> DEFINE r == [New(u, call, "handler") EXCEPT
                     !.tenant = m.tenant, !.role = m.role, !.isMember = TRUE]
  <2>1. m \in members /\ m \in AnyMember /\ m.user = u
    BY DEF Memberships, IInv, Typed
  <2>2. m = [user |-> u, tenant |-> m.tenant, role |-> m.role]
        /\ m.tenant \in Int /\ m.role \in Roles
    BY <2>1 DEF AnyMember
  <2>3. /\ r \in AnyRequest /\ r.pc = "handler" /\ r.isMember = TRUE
        /\ r.user = u /\ r.tenant = m.tenant /\ r.role = m.role /\ r.call = call
    <3> DEFINE n == New(u, call, "handler")
    <3>1. n \in AnyRequest /\ n.pc = "handler" /\ n.call = call /\ n.user = u
      BY <1>2, NewTyped
    <3>2. r = [n EXCEPT !.tenant = m.tenant, !.role = m.role, !.isMember = TRUE]
      OBVIOUS
    <3> HIDE DEF n, r
    <3>3. r \in AnyRequest
      BY <2>2, <3>1, <3>2 DEF AnyRequest
    <3>4. /\ r.pc = "handler" /\ r.user = u /\ r.tenant = m.tenant
          /\ r.role = m.role /\ r.call = call
      BY <3>1, <3>2 DEF AnyRequest
    <3>5. r.isMember = TRUE
      BY <3>1, <3>2 DEF AnyRequest
    <3>6. QED
      BY <3>3, <3>4, <3>5
  <2>4. request' = [request EXCEPT ![s] = r]
    BY <1>3
  <2> HIDE DEF r
  <2>5. Context(r, authEnabled, members, Registrations)
    BY <1>2, <2>1, <2>2, <2>3 DEF Context
  <2>6. QED
    BY <1>2, <2>3, <2>4, <2>5, GoOnQuietly
<1>4. CASE ~authEnabled /\ request' = [request EXCEPT ![s] = New(u, call, "local")]
  <2> DEFINE r == New(u, call, "local")
  <2>1. r \in AnyRequest /\ r.pc = "local" /\ r.call = call
    BY <1>2, NewTyped
  <2>2. authEnabled = FALSE
    BY <1>4 DEF IInv, Typed
  <2>3. request' = [request EXCEPT ![s] = r]
    BY <1>4
  <2> HIDE DEF r
  <2>4. Context(r, authEnabled, members, Registrations)
    BY <1>2, <2>1, <2>2 DEF Context
  <2>5. QED
    BY <1>2, <2>1, <2>3, <2>4, GoOnQuietly
<1>5. CASE Answer(s, "forbidden")
  BY <1>2, <1>5, AnswerQuietly DEF Answers
<1>6. QED
  BY <1>1, <1>3, <1>4, <1>5

LEMMA EnsureLocalGood ==
  ASSUME IInv, NEW s \in Slots, EnsureLocal(s) PROVE IInv' /\ Faithful(s)
<1> DEFINE r == [request[s] EXCEPT !.pc = "handler", !.tenant = Local,
                                   !.role = "admin", !.isMember = FALSE]
<1>1. /\ request[s] \in AnyRequest /\ request[s].pc = "local"
      /\ UNCHANGED <<authEnabled, members, rows, past, runs>>
  BY DEF EnsureLocal, At, IInv, Typed
<1>2. /\ r \in AnyRequest /\ r.pc = "handler" /\ r.tenant = Local /\ r.isMember = FALSE
      /\ r.call = request[s].call
  <2>1. Local \in Int /\ "admin" \in Roles
    BY DEF Local, Roles
  <2>2. r \in AnyRequest
    BY <1>1, <2>1 DEF AnyRequest
  <2>3. r.pc = "handler" /\ r.tenant = Local /\ r.call = request[s].call
    BY <1>1 DEF AnyRequest
  <2>4. r.isMember = FALSE
    BY <1>1 DEF AnyRequest
  <2>5. QED
    BY <2>2, <2>3, <2>4
<1>3. request' = [request EXCEPT ![s] = r]
  BY DEF EnsureLocal, UseLocal
<1> HIDE DEF r
<1>4. Context(request[s], authEnabled, members, Registrations)
  BY DEF IInv, Contexts
<1>5. Context(r, authEnabled, members, Registrations)
  BY <1>1, <1>2, <1>4 DEF Context
<1>6. QED
  BY <1>1, <1>2, <1>3, <1>5, GoOnQuietly

-----------------------------------------------------------------------------
(* Memberships.                                                            *)

(* An answer that ends the request, whatever it does to the tables.        *)
LEMMA AnswerEnds ==
  ASSUME IInv, NEW s \in Slots, NEW a \in Answers, Answer(s, a)
  PROVE  /\ request' \in [Slots -> AnyRequest]
         /\ request'[s].pc = "idle" /\ request'[s].answer = a /\ request'[s].found = {}
         /\ \A x \in Slots : x # s => request'[x] = request[x]
         /\ authEnabled' = authEnabled /\ members \subseteq members'
              /\ Registrations \subseteq Registrations' => Contexts'
<1> DEFINE r == [NoRequest EXCEPT !.answer = a, !.found = {}]
<1>1. r \in AnyRequest /\ r.pc = "idle" /\ r.answer = a /\ r.found = {}
  BY AnsweredTyped
<1>2. request' = [request EXCEPT ![s] = r]
  BY DEF Answer, AnswerWith
<1> HIDE DEF r
<1>3. Context(r, authEnabled, members', Registrations')
  BY <1>1, IdleContext
<1>4. QED
  BY <1>1, <1>2, <1>3, Replaced, ContextsKept DEF IInv

(* The one new row names a user who had none, by request of someone who is *)
(* entitled to it, and it is the row that the answer speaks of.            *)
LEMMA AddMemberGood ==
  ASSUME IInv, NEW s \in Slots, NEW u \in Users, NEW role \in Roles,
         AddMember(s, u, role), UNCHANGED <<authEnabled, rows, past, runs>>,
         request[s].pc # "idle", Entitled(s, request[s].tenant),
         request[s].call.op = "create" => u = request[s].user /\ role = "admin",
         request[s].call.op = "add_member" =>
           u = request[s].call.user /\ role = request[s].call.role
  PROVE  IInv' /\ Faithful(s)
<1> DEFINE m == [user |-> u, tenant |-> request[s].tenant, role |-> role]
<1>1. /\ members' = members \cup {m} /\ Answer(s, "created") /\ Memberships(u) = {}
      /\ request[s] \in AnyRequest /\ request[s].tenant \in Int
  BY DEF AddMember, Taken, IInv, Typed, AnyRequest
<1>2. /\ request' \in [Slots -> AnyRequest]
      /\ request'[s].pc = "idle" /\ request'[s].answer = "created"
      /\ request'[s].found = {}
      /\ \A x \in Slots : x # s => request'[x] = request[x]
      /\ authEnabled' = authEnabled /\ members \subseteq members'
           /\ Registrations \subseteq Registrations' => Contexts'
  BY <1>1, AnswerEnds DEF Answers
<1>3. Registrations' = Registrations
  BY DEF Registrations
<1>4. Typed'
  <2>1. m \in AnyMember
    BY <1>1 DEF AnyMember
  <2>2. members' \subseteq AnyMember
    BY <1>1, <2>1 DEF IInv, Typed
  <2>3. QED
    BY <1>2, <1>3, <2>2 DEF IInv, Typed
<1>5. OneTenantPerUser'
  <2>1. \A n \in members : n.user # u
    BY <1>1 DEF Memberships
  <2>2. m.user = u
    OBVIOUS
  <2> HIDE DEF m
  <2>3. QED
    BY <1>1, <2>1, <2>2 DEF IInv, OneTenantPerUser
<1>6. RunsScoped'
  BY <1>3 DEF IInv, RunsScoped, EverRegistered, Of
<1>7. IInv'
  BY <1>1, <1>2, <1>3, <1>4, <1>5, <1>6 DEF IInv
<1>8. TrueOf(s)
  BY <1>1, <1>2 DEF TrueOf, Answered, At
<1>9. \A t : AnswerScoped(s, t)
  BY <1>2 DEF AnswerScoped
<1>10. ASSUME NEW t
       PROVE  \/ Of(t, members') = Of(t, members) /\ Of(t, rows') = Of(t, rows)
              \/ request'[s] # request[s] /\ Entitled(s, t)
  <2>1. CASE t = request[s].tenant
    BY <1>2, <2>1
  <2>2. CASE t # request[s].tenant
    <3>1. m.tenant # t
      BY <2>2
    <3> HIDE DEF m
    <3>2. QED
      BY <1>1, <3>1 DEF Of
  <2>3. QED
    BY <2>1, <2>2
<1>11. QED
  BY <1>2, <1>7, <1>8, <1>9, <1>10 DEF Faithful

LEMMA MemberConflictGood ==
  ASSUME IInv, NEW s \in Slots, NEW u \in Users,
         MemberConflict(s, u), UNCHANGED <<authEnabled, rows, past, runs>>,
         request[s].call.op = "create" => u = request[s].user,
         request[s].call.op = "add_member" => u = request[s].call.user
  PROVE  IInv' /\ Faithful(s)
<1>1. /\ Answer(s, "conflict") /\ Memberships(u) # {}
      /\ UNCHANGED <<authEnabled, members, rows, past, runs>>
  BY DEF MemberConflict, Taken
<1> DEFINE r == [NoRequest EXCEPT !.answer = "conflict", !.found = {}]
<1>2. r \in AnyRequest /\ r.pc = "idle" /\ r.answer = "conflict" /\ r.found = {}
  BY NoRequestTyped, ZenonT(60) DEF Answers
<1>3. request' = [request EXCEPT ![s] = r]
  BY <1>1 DEF Answer, AnswerWith
<1> HIDE DEF r
<1>4. IInv'
  BY <1>1, <1>2, <1>3, IdleContext, QuietIInv
<1>5. request'[s] = r /\ \A x \in Slots : x # s => request'[x] = request[x]
  BY <1>2, <1>3, Replaced DEF IInv
<1>6. u \in {n.user : n \in members}
  BY <1>1 DEF Memberships
<1>7. TrueOf(s)
  <2>1. ~Answered(s, "created")
    BY <1>2, <1>5 DEF Answered
  <2>2. u \in {n.user : n \in members'}
    BY <1>1, <1>6
  <2>3. CASE request[s].call.op = "create"
    BY <2>1, <2>2, <2>3 DEF TrueOf
  <2>4. CASE request[s].call.op = "add_member"
    BY <2>1, <2>2, <2>4 DEF TrueOf
  <2>5. QED
    BY <2>3, <2>4 DEF TrueOf
<1>8. \A t : AnswerScoped(s, t)
  BY <1>2, <1>5 DEF AnswerScoped
<1>9. QED
  BY <1>1, <1>4, <1>5, <1>7, <1>8 DEF Faithful

LEMMA CheckMembershipGood ==
  ASSUME IInv, NEW s \in Slots, CheckMembership(s) PROVE IInv' /\ Faithful(s)
<1>1. PICK u \in Callers :
        IF Memberships(u) = {}
        THEN request' = [request EXCEPT ![s] = New(u, [op |-> "create"], "insertTenant")]
        ELSE Answer(s, "conflict")
  BY DEF CheckMembership
<1>2. /\ u \in Users /\ request[s].pc = "idle"
      /\ UNCHANGED <<authEnabled, members, rows, past, runs>>
  BY UsersAssumption DEF Callers, CheckMembership, At, db
<1>3. CASE Answer(s, "conflict")
  BY <1>2, <1>3, AnswerQuietly DEF Answers
<1>4. CASE request' = [request EXCEPT ![s] = New(u, [op |-> "create"], "insertTenant")]
  <2> DEFINE c == [op |-> "create"]
             r == New(u, c, "insertTenant")
  <2>1. c \in Calls /\ c.op = "create"
    BY DEF Calls
  <2>2. r \in AnyRequest /\ r.pc = "insertTenant" /\ r.call = c
    BY <1>2, <2>1, NewTyped
  <2>3. request' = [request EXCEPT ![s] = r]
    BY <1>4
  <2> HIDE DEF r, c
  <2>4. Context(r, authEnabled, members, Registrations)
    BY <2>1, <2>2 DEF Context
  <2>5. QED
    BY <1>2, <2>2, <2>3, <2>4, GoOnQuietly
<1>5. QED
  BY <1>1, <1>3, <1>4

LEMMA InsertTenantGood ==
  ASSUME IInv, NEW s \in Slots, InsertTenant(s), Cardinality(Created) \in Nat
  PROVE  IInv' /\ Faithful(s)
<1> DEFINE t == Cardinality(Created) + 1
           r == [request[s] EXCEPT !.pc = "insertAdmin", !.tenant = t]
<1>1. /\ request[s] \in AnyRequest /\ request[s].pc = "insertTenant"
      /\ UNCHANGED <<authEnabled, members, rows, past, runs>>
  BY DEF InsertTenant, At, IInv, Typed
<1>2. r \in AnyRequest /\ r.pc = "insertAdmin" /\ r.call = request[s].call
  <2>1. t \in Int
    OBVIOUS
  <2> HIDE DEF t
  <2>2. r \in AnyRequest
    BY <1>1, <2>1 DEF AnyRequest
  <2>3. r.pc = "insertAdmin" /\ r.call = request[s].call
    BY <1>1 DEF AnyRequest
  <2>4. QED
    BY <2>2, <2>3
<1>3. request' = [request EXCEPT ![s] = r]
  BY DEF InsertTenant
<1> HIDE DEF r
<1>4. Context(request[s], authEnabled, members, Registrations)
  BY DEF IInv, Contexts
<1>5. Context(r, authEnabled, members, Registrations)
  BY <1>1, <1>2, <1>4 DEF Context
<1>6. QED
  BY <1>1, <1>2, <1>3, <1>5, GoOnQuietly

LEMMA InsertAdminGood ==
  ASSUME IInv, NEW s \in Slots, InsertAdmin(s) PROVE IInv' /\ Faithful(s)
<1>1. /\ request[s] \in AnyRequest /\ request[s].pc = "insertAdmin"
      /\ UNCHANGED <<authEnabled, rows, past, runs>>
      /\ request[s].user \in Users /\ "admin" \in Roles
  BY DEF InsertAdmin, At, IInv, Typed, AnyRequest, Roles
<1>2. Context(request[s], authEnabled, members, Registrations)
  BY DEF IInv, Contexts
<1>3. request[s].call.op = "create"
  BY <1>1, <1>2 DEF Context
<1>4. CASE AddMember(s, request[s].user, "admin")
  <2>1. Entitled(s, request[s].tenant)
    BY <1>4 DEF Entitled, AddMember
  <2>2. QED
    BY <1>1, <1>3, <1>4, <2>1, AddMemberGood
<1>5. CASE MemberConflict(s, request[s].user)
  BY <1>1, <1>3, <1>5, MemberConflictGood
<1>6. QED
  BY <1>4, <1>5 DEF InsertAdmin

(* Who may manage members or services is an admin, then as now.            *)
LEMMA ManagerEntitled ==
  ASSUME IInv, NEW s \in Slots, request[s].pc = "handler",
         Can(s, "members:manage") \/ Can(s, "services:manage"),
         members \subseteq members'
  PROVE  Entitled(s, request[s].tenant)
<1>1. /\ Context(request[s], authEnabled, members, Registrations)
      /\ request[s] \in AnyRequest
  BY DEF IInv, Contexts, Typed
<1>2. request[s].role = "admin"
  BY <1>1 DEF Can, Permissions
<1>3. CASE request[s].isMember
  BY <1>1, <1>2, <1>3 DEF Context, Entitled
<1>4. CASE ~request[s].isMember
  BY <1>1, <1>4 DEF Context, Entitled
<1>5. QED
  BY <1>3, <1>4

LEMMA AddTenantMemberGood ==
  ASSUME IInv, NEW s \in Slots, AddTenantMember(s) PROVE IInv' /\ Faithful(s)
<1>1. /\ request[s] \in AnyRequest /\ request[s].pc = "handler"
      /\ request[s].call \in Calls /\ request[s].call.op = "add_member"
      /\ UNCHANGED <<authEnabled, rows, past, runs>>
  BY DEF AddTenantMember, Handles, At, IInv, Typed, AnyRequest
<1>2. request[s].call.user \in Users /\ request[s].call.role \in Roles
  BY <1>1, AddMemberCall
<1>3. CASE Answer(s, "forbidden") /\ UNCHANGED members
  BY <1>1, <1>3, AnswerQuietly DEF Answers
<1>4. CASE /\ Can(s, "members:manage")
           /\ AddMember(s, request[s].call.user, request[s].call.role)
  <2>1. Entitled(s, request[s].tenant)
    BY <1>1, <1>4, ManagerEntitled DEF AddMember
  <2>2. QED
    BY <1>1, <1>2, <1>4, <2>1, AddMemberGood
<1>5. CASE MemberConflict(s, request[s].call.user)
  BY <1>1, <1>2, <1>5, MemberConflictGood
<1>6. QED
  BY <1>3, <1>4, <1>5 DEF AddTenantMember

-----------------------------------------------------------------------------
(* Registrations.                                                          *)

(* An admin's change of the tenant's own registrations.                    *)
LEMMA ManageServicesGood ==
  ASSUME IInv, NEW s \in Slots, NEW a \in {"created", "deleted", "notFound"},
         Answer(s, a), request[s].pc = "handler",
         request[s].call.op \in {"register", "delete"},
         Can(s, "services:manage"), UNCHANGED <<authEnabled, members, runs>>,
         Registrations \subseteq Registrations',
         \A x \in Registrations' : x.service \in Services,
         \A t : t # request[s].tenant => Of(t, rows') = Of(t, rows)
  PROVE  IInv' /\ Faithful(s)
<1>1. /\ request' \in [Slots -> AnyRequest]
      /\ request'[s].pc = "idle" /\ request'[s].answer = a
      /\ \A x \in Slots : x # s => request'[x] = request[x]
      /\ Contexts'
  BY AnswerEnds DEF Answers
<1>2. Typed'
  BY <1>1 DEF IInv, Typed
<1>3. OneTenantPerUser'
  BY DEF IInv, OneTenantPerUser
<1>4. RunsScoped'
  <2>1. \A t : EverRegistered(t) \subseteq EverRegistered(t)'
    BY DEF EverRegistered, Of
  <2>2. QED
    BY <2>1 DEF IInv, RunsScoped
<1>5. IInv'
  BY <1>1, <1>2, <1>3, <1>4 DEF IInv
<1>6. TrueOf(s)
  BY DEF TrueOf
<1>7. \A t : AnswerScoped(s, t)
  BY <1>1 DEF AnswerScoped, Answered
<1>8. ASSUME NEW t
      PROVE  \/ Of(t, members') = Of(t, members) /\ Of(t, rows') = Of(t, rows)
             \/ request'[s] # request[s] /\ Entitled(s, t)
  <2>1. CASE t = request[s].tenant
    BY <1>1, <2>1, ManagerEntitled
  <2>2. CASE t # request[s].tenant
    BY <2>2
  <2>3. QED
    BY <2>1, <2>2
<1>9. QED
  BY <1>1, <1>5, <1>6, <1>7, <1>8 DEF Faithful

LEMMA RegisterServiceGood ==
  ASSUME IInv, NEW s \in Slots, RegisterService(s) PROVE IInv' /\ Faithful(s)
<1> DEFINE x == [id |-> Cardinality(rows \cup past) + 1, tenant |-> request[s].tenant,
                 service |-> request[s].call.service]
<1>1. /\ request[s] \in AnyRequest /\ request[s].pc = "handler"
      /\ request[s].call \in Calls /\ request[s].call.op = "register"
      /\ UNCHANGED <<authEnabled, members, past, runs>>
  BY DEF RegisterService, Handles, At, IInv, Typed, AnyRequest
<1>2. CASE Answer(s, "forbidden") /\ UNCHANGED rows
  BY <1>1, <1>2, AnswerQuietly DEF Answers
<1>3. CASE Answer(s, "conflict") /\ UNCHANGED rows
  BY <1>1, <1>3, AnswerQuietly DEF Answers
<1>4. CASE Can(s, "services:manage") /\ rows' = rows \cup {x} /\ Answer(s, "created")
  <2>1. x.service \in Services /\ x.tenant = request[s].tenant
    BY <1>1, RegisterCall
  <2> HIDE DEF x
  <2>2. Registrations' = Registrations \cup {x}
    BY <1>1, <1>4 DEF Registrations
  <2>3. \A y \in Registrations' : y.service \in Services
    BY <2>1, <2>2 DEF IInv, Typed
  <2>4. \A t : t # request[s].tenant => Of(t, rows') = Of(t, rows)
    BY <1>4, <2>1 DEF Of
  <2>5. QED
    BY <1>1, <1>4, <2>2, <2>3, <2>4, ManageServicesGood
<1>5. QED
  BY <1>2, <1>3, <1>4 DEF RegisterService

LEMMA DeleteServiceGood ==
  ASSUME IInv, NEW s \in Slots, DeleteService(s) PROVE IInv' /\ Faithful(s)
<1> DEFINE gone == {r \in Registered(request[s].tenant) : r.id = request[s].call.row}
<1>1. /\ request[s].pc = "handler" /\ request[s].call.op = "delete"
      /\ UNCHANGED <<authEnabled, members, runs>>
  BY DEF DeleteService, Handles, At
<1>2. CASE Answer(s, "forbidden") /\ UNCHANGED <<rows, past>>
  BY <1>1, <1>2, AnswerQuietly DEF Answers
<1>3. CASE /\ Can(s, "services:manage")
           /\ rows' = rows \ gone /\ past' = past \cup gone
           /\ Answer(s, IF gone = {} THEN "notFound" ELSE "deleted")
  <2>1. gone \subseteq Of(request[s].tenant, rows)
    BY DEF Registered, Of
  <2>2. PICK a \in {"created", "deleted", "notFound"} : Answer(s, a)
    BY <1>3
  <2> HIDE DEF gone
  <2>3. Registrations' = Registrations
    BY <1>3, <2>1 DEF Registrations, Of
  <2>4. \A t : t # request[s].tenant => Of(t, rows') = Of(t, rows)
    BY <1>3, <2>1 DEF Of
  <2>5. \A y \in Registrations' : y.service \in Services
    BY <2>3 DEF IInv, Typed
  <2>6. QED
    BY <1>1, <1>3, <2>2, <2>3, <2>4, <2>5, ManageServicesGood
<1>4. QED
  BY <1>2, <1>3 DEF DeleteService

-----------------------------------------------------------------------------
(* Discovering and analysing.                                              *)

LEMMA RegisteredBefore ==
  ASSUME IInv, NEW t
  PROVE  ServicesOf(t) \subseteq ServicesIn(t, Registrations) \cap Services
BY DEF ServicesOf, Registered, ServicesIn, Registrations, IInv, Typed

(* The request goes on with services of its tenant, or of no member.       *)
LEMMA FoundGood ==
  ASSUME IInv, NEW s \in Slots, request[s].pc = "handler",
         request[s].call.op # "create",
         NEW pc \in {"azure", "ingest"}, NEW f \in SUBSET Services,
         request' = [request EXCEPT ![s].pc = pc, ![s].found = f],
         UNCHANGED <<authEnabled, members, rows, past, runs>>,
         request[s].isMember =>
           f # {} /\ f \subseteq ServicesIn(request[s].tenant, Registrations)
  PROVE  IInv' /\ Faithful(s)
<1> DEFINE r == [request[s] EXCEPT !.pc = pc, !.found = f]
<1>1. request[s] \in AnyRequest
  BY DEF IInv, Typed
<1>2. r \in AnyRequest
  BY <1>1 DEF AnyRequest
<1>3. /\ r.pc = pc /\ r.found = f /\ r.call = request[s].call
      /\ r.user = request[s].user /\ r.tenant = request[s].tenant
      /\ r.role = request[s].role
  BY <1>1 DEF AnyRequest
<1>4. r.isMember = request[s].isMember
  BY <1>1 DEF AnyRequest
<1>5. request' = [request EXCEPT ![s] = r]
  OBVIOUS
<1> HIDE DEF r
<1>6. Context(request[s], authEnabled, members, Registrations)
  BY DEF IInv, Contexts
<1>7. Context(r, authEnabled, members, Registrations)
  BY <1>3, <1>4, <1>6 DEF Context
<1>8. QED
  BY <1>2, <1>3, <1>5, <1>7, GoOnQuietly

(* An "ok" that shows a member only services of its tenant.                *)
LEMMA ShowGood ==
  ASSUME IInv, NEW s \in Slots, NEW f \in SUBSET Services,
         AnswerWith(s, "ok", f), UNCHANGED <<authEnabled, members, rows, past>>,
         request[s].isMember => f \subseteq ServicesIn(request[s].tenant, Registrations),
         RunsScoped'
  PROVE  IInv' /\ Faithful(s)
<1>0. PICK a \in Answers : a = "ok"
  BY DEF Answers
<1> DEFINE r == [NoRequest EXCEPT !.answer = a, !.found = f]
<1>1. r \in AnyRequest /\ r.pc = "idle" /\ r.answer = a /\ r.found = f
  <2>1. NoRequest \in AnyRequest /\ NoRequest.pc = "idle"
    BY NoRequestTyped
  <2>2. QED
    BY <2>1 DEF AnyRequest
<1>2. request' = [request EXCEPT ![s] = r]
  BY <1>0 DEF AnswerWith
<1> HIDE DEF r
<1>3. Registrations' = Registrations
  BY DEF Registrations
<1>4. /\ request' \in [Slots -> AnyRequest] /\ request'[s] = r
      /\ \A x \in Slots : x # s => request'[x] = request[x]
  BY <1>1, <1>2, Replaced DEF IInv
<1>5. Contexts'
  BY <1>1, <1>2, <1>3, IdleContext, ContextsKept
<1>6. Typed' /\ OneTenantPerUser'
  BY <1>3, <1>4 DEF IInv, Typed, OneTenantPerUser
<1>7. TrueOf(s)
  BY <1>0, <1>1, <1>4 DEF TrueOf, Answered
<1>8. \A t : EverRegistered(t)' = ServicesIn(t, Registrations)
  BY <1>3 DEF EverRegistered, ServicesIn, Of
<1>9. \A t : AnswerScoped(s, t)
  BY <1>1, <1>4, <1>8 DEF AnswerScoped
<1>10. QED
  BY <1>4, <1>5, <1>6, <1>7, <1>9 DEF Faithful, IInv

LEMMA DiscoverRegisteredGood ==
  ASSUME IInv, NEW s \in Slots, DiscoverRegistered(s) PROVE IInv' /\ Faithful(s)
<1> DEFINE f == AtPlace(ServicesOf(request[s].tenant), request[s].call.place)
<1>1. /\ request[s].pc = "handler" /\ request[s].call.op = "discover"
      /\ UNCHANGED <<authEnabled, members, rows, past, runs>>
  BY DEF DiscoverRegistered, Handles, At, db
<1>2. f \subseteq ServicesIn(request[s].tenant, Registrations) \cap Services
  BY RegisteredBefore DEF AtPlace
<1>3. CASE Answer(s, "ok")
  BY <1>1, <1>3, AnswerQuietly DEF Answers
<1>4. CASE /\ ~(request[s].isMember /\ f = {})
           /\ request' = [request EXCEPT ![s].pc = "azure", ![s].found = f]
  <2> HIDE DEF f
  <2>1. QED
    BY <1>1, <1>2, <1>4, FoundGood
<1>5. QED
  BY <1>3, <1>4 DEF DiscoverRegistered

LEMMA AnswerDiscoveredGood ==
  ASSUME IInv, NEW s \in Slots, AnswerDiscovered(s) PROVE IInv' /\ Faithful(s)
<1>1. /\ request[s].pc = "azure" /\ UNCHANGED <<authEnabled, members, rows, past, runs>>
      /\ Context(request[s], authEnabled, members, Registrations)
      /\ request[s] \in AnyRequest
  BY DEF AnswerDiscovered, At, db, IInv, Contexts, Typed
<1>2. CASE Answer(s, "azureError")
  BY <1>1, <1>2, AnswerQuietly DEF Answers
<1>3. ASSUME NEW visible \in SUBSET AtPlace(Services, request[s].call.place),
             AnswerWith(s, "ok", IF request[s].found = {} THEN visible
                                 ELSE visible \cap request[s].found)
      PROVE  IInv' /\ Faithful(s)
  <2> DEFINE f == IF request[s].found = {} THEN visible ELSE visible \cap request[s].found
  <2>1. f \in SUBSET Services
    BY DEF AtPlace
  <2>2. request[s].isMember => f \subseteq ServicesIn(request[s].tenant, Registrations)
    BY <1>1 DEF Context
  <2>3. RunsScoped'
    BY <1>1 DEF IInv, RunsScoped, EverRegistered, Of, Registrations
  <2>4. AnswerWith(s, "ok", f)
    BY <1>3
  <2> HIDE DEF f
  <2>5. QED
    BY <1>1, <2>1, <2>2, <2>3, <2>4, ShowGood
<1>4. QED
  BY <1>2, <1>3 DEF AnswerDiscovered

LEMMA IngestingGood ==
  ASSUME IInv, NEW s \in Slots, NEW v \in Services, Ingesting(s, v),
         request[s].pc = "handler", request[s].call.op # "create",
         UNCHANGED <<authEnabled, members, rows, past, runs>>,
         request[s].isMember => v \in ServicesIn(request[s].tenant, Registrations)
  PROVE  IInv' /\ Faithful(s)
<1>1. /\ {v} \in SUBSET Services /\ {v} # {}
      /\ request[s].isMember =>
           {v} \subseteq ServicesIn(request[s].tenant, Registrations)
  OBVIOUS
<1>2. request' = [request EXCEPT ![s].pc = "ingest", ![s].found = {v}]
  BY DEF Ingesting
<1>3. QED
  BY <1>1, <1>2, FoundGood

LEMMA ResolveServiceGood ==
  ASSUME IInv, NEW s \in Slots, ResolveService(s) PROVE IInv' /\ Faithful(s)
<1> DEFINE call  == request[s].call
           named == {v \in Services : v.name = call.name}
           f     == AtPlace(ServicesOf(request[s].tenant), call.place) \cap named
<1>1. /\ request[s].pc = "handler" /\ request[s].call.op = "analyze"
      /\ UNCHANGED <<authEnabled, members, rows, past, runs>>
      /\ request[s].call \in Calls
  BY DEF ResolveService, Handles, At, db, IInv, Typed, AnyRequest
<1>2. f \subseteq ServicesIn(request[s].tenant, Registrations) \cap Services
  BY RegisteredBefore DEF AtPlace
<1>3. ASSUME NEW a \in {"forbidden", "conflict", "notFound", "azureError"}, Answer(s, a)
      PROVE  IInv' /\ Faithful(s)
  BY <1>1, <1>3, AnswerQuietly DEF Answers
<1>4. ASSUME NEW v \in f, Ingesting(s, v)
      PROVE  IInv' /\ Faithful(s)
  <2>1. v \in Services /\ v \in ServicesIn(request[s].tenant, Registrations)
    BY <1>2
  <2> HIDE DEF f, named
  <2>2. QED
    BY <1>1, <1>4, <2>1, IngestingGood
<1>5. CASE /\ ~request[s].isMember /\ call.place # Anywhere
           /\ Ingesting(s, [place |-> call.place, name |-> call.name])
  <2> DEFINE v == [place |-> call.place, name |-> call.name]
  <2>1. v \in Services
    BY <1>1, <1>5 DEF Calls, Services
  <2> HIDE DEF v
  <2>2. QED
    BY <1>1, <1>5, <2>1, IngestingGood DEF v
<1>6. ASSUME ~request[s].isMember, NEW v \in named, Ingesting(s, v)
      PROVE  IInv' /\ Faithful(s)
  BY <1>1, <1>6, IngestingGood
<1>7. QED
  BY <1>3, <1>4, <1>5, <1>6 DEF ResolveService

LEMMA AnalyzeGood ==
  ASSUME IInv, NEW s \in Slots, Analyze(s) PROVE IInv' /\ Faithful(s)
<1>1. /\ request[s].pc = "ingest" /\ UNCHANGED <<authEnabled, members, rows, past>>
      /\ Context(request[s], authEnabled, members, Registrations)
      /\ request[s].found \in SUBSET Services
  BY DEF Analyze, At, IInv, Contexts, Typed, AnyRequest
<1>2. CASE Answer(s, "azureError") /\ UNCHANGED runs
  BY <1>1, <1>2, AnswerQuietly DEF Answers
<1>3. CASE /\ \/ UNCHANGED runs
              \/ runs' = runs \cup {<<request[s].tenant, v>> : v \in request[s].found}
           /\ AnswerWith(s, "ok", request[s].found)
  <2>1. request[s].isMember =>
          request[s].found \subseteq ServicesIn(request[s].tenant, Registrations)
    BY <1>1 DEF Context
  <2>2. request[s].tenant # Local => request[s].isMember
    BY <1>1 DEF Context
  <2>3. \A t : EverRegistered(t)' = ServicesIn(t, Registrations)
    BY <1>1 DEF EverRegistered, Of, Registrations, ServicesIn
  <2>4. ASSUME NEW run \in runs', run[1] # Local
        PROVE  run[2] \in EverRegistered(run[1])'
    <3>1. CASE run \in runs
      BY <2>3, <2>4, <3>1, EverIsServicesIn DEF IInv, RunsScoped
    <3>2. CASE run \in {<<request[s].tenant, v>> : v \in request[s].found}
      BY <2>1, <2>2, <2>3, <2>4, <3>2
    <3>3. QED
      BY <1>3, <3>1, <3>2
  <2>5. RunsScoped'
    BY <2>4 DEF RunsScoped
  <2>6. QED
    BY <1>1, <1>3, <2>1, <2>5, ShowGood
<1>4. QED
  BY <1>2, <1>3 DEF Analyze

-----------------------------------------------------------------------------

LEMMA DatabaseFailsGood ==
  ASSUME IInv, NEW s \in Slots, DatabaseFails(s) PROVE IInv' /\ Faithful(s)
<1>1. UNCHANGED <<authEnabled, members, rows, past, runs>> /\ Answer(s, "serverError")
  BY DEF DatabaseFails, db
<1>2. QED
  BY <1>1, AnswerQuietly DEF Answers

LEMMA HandleGood ==
  ASSUME IInv, Finite, NEW s \in Slots, Handle(s) PROVE IInv' /\ Faithful(s)
<1>1. Cardinality(Created) \in Nat
  BY FS_Subset, FS_CardinalityType DEF Finite, Created
<1>2. QED
  BY <1>1, ResolveContextGood, EnsureLocalGood, CheckMembershipGood,
     InsertTenantGood, InsertAdminGood, AddTenantMemberGood,
     RegisterServiceGood, DeleteServiceGood, DiscoverRegisteredGood,
     AnswerDiscoveredGood, ResolveServiceGood, AnalyzeGood, DatabaseFailsGood
  DEF Handle

LEMMA CrashGood ==
  ASSUME IInv, Crash
  PROVE  /\ IInv'
         /\ \A s \in Slots : request'[s] = NoRequest
         /\ UNCHANGED <<authEnabled, members, rows, past, runs>>
<1>1. /\ request' = [s \in Slots |-> NoRequest]
      /\ UNCHANGED <<authEnabled, members, rows, past, runs>>
  BY DEF Crash, db
<1>2. Registrations' = Registrations
  BY <1>1 DEF Registrations
<1>3. Typed'
  BY <1>1, <1>2, NoRequestTyped DEF IInv, Typed
<1>4. OneTenantPerUser' /\ RunsScoped'
  BY <1>1, <1>2 DEF IInv, OneTenantPerUser, RunsScoped, EverRegistered, Of
<1>5. Contexts'
  BY <1>1, NoRequestTyped, IdleContext DEF Contexts
<1>6. QED
  BY <1>1, <1>3, <1>4, <1>5 DEF IInv

LEMMA FiniteKept ==
  ASSUME Finite, [Next]_vars PROVE Finite'
<1>1. ASSUME NEW t, tenants' = tenants \cup {t} PROVE Finite'
  BY <1>1, FS_AddElement DEF Finite
<1>2. CASE UNCHANGED tenants
  BY <1>2 DEF Finite
<1>3. ASSUME NEW s \in Slots, Handle(s) PROVE Finite'
  <2>1. CASE EnsureLocal(s)
    BY <1>1, <2>1 DEF EnsureLocal
  <2>2. CASE InsertTenant(s)
    BY <1>1, <2>2 DEF InsertTenant
  <2>3. CASE ResolveContext(s) \/ CheckMembership(s) \/ InsertAdmin(s)
    BY <1>2, <2>3 DEF ResolveContext, CheckMembership, InsertAdmin, db
  <2>4. CASE AddTenantMember(s) \/ RegisterService(s) \/ DeleteService(s)
    BY <1>2, <2>4 DEF AddTenantMember, RegisterService, DeleteService
  <2>5. CASE \/ DiscoverRegistered(s) \/ AnswerDiscovered(s) \/ ResolveService(s)
             \/ Analyze(s) \/ DatabaseFails(s)
    BY <1>2, <2>5 DEF DiscoverRegistered, AnswerDiscovered, ResolveService, Analyze,
                      DatabaseFails, db
  <2>6. QED
    BY <1>3, <2>1, <2>2, <2>3, <2>4, <2>5 DEF Handle
<1>4. CASE Crash
  BY <1>2, <1>4 DEF Crash, db
<1>5. CASE UNCHANGED vars
  BY <1>2, <1>5 DEF vars, db
<1>6. QED
  BY <1>3, <1>4, <1>5 DEF Next

LEMMA NextIInv ==
  ASSUME IInv, Finite, [Next]_vars PROVE IInv'
<1>1. CASE Next
  BY <1>1, HandleGood, CrashGood DEF Next
<1>2. CASE UNCHANGED vars
  BY <1>2 DEF vars, db, IInv, Typed, OneTenantPerUser, RunsScoped, Contexts,
              Registrations, EverRegistered, Of
<1>3. QED
  BY <1>1, <1>2

LEMMA InitFinite == Init => Finite
BY FS_EmptySet DEF Init, Finite

(* The inductive invariant of the tenant database and its requests.        *)
THEOREM Invariance == Spec => [](IInv /\ Finite)
<1>1. Init => IInv /\ Finite
  BY InitIInv, InitFinite
<1>2. IInv /\ Finite /\ [Next]_vars => (IInv /\ Finite)'
  BY NextIInv, FiniteKept
<1>3. QED
  BY <1>1, <1>2, PTL DEF Spec

-----------------------------------------------------------------------------

(* However many requests race to create tenants and to add members         *)
(* (tenant_db.create_tenant, add_team_member), no user gets two of them.   *)
THEOREM OneTenantAlways == Spec => []OneTenantPerUser
<1>1. IInv => OneTenantPerUser
  BY DEF IInv
<1>2. QED
  BY <1>1, Invariance, PTL

(* A slot that another slot's step leaves alone answers nothing.           *)
LEMMA OthersSilent ==
  ASSUME NEW x \in Slots, request'[x] = request[x] \/ request'[x] = NoRequest
  PROVE  \A a \in {"created", "conflict", "ok"} : ~Answered(x, a)
BY NoRequestTyped DEF Answered, At

LEMMA StepTrue ==
  ASSUME IInv, Finite, Next PROVE \A s \in Slots : TrueOf(s)
<1>1. ASSUME NEW x \in Slots, request'[x] = request[x] \/ request'[x] = NoRequest
      PROVE  TrueOf(x)
  BY <1>1, OthersSilent DEF TrueOf
<1>2. ASSUME NEW s \in Slots, Handle(s), NEW x \in Slots PROVE TrueOf(x)
  BY <1>1, <1>2, HandleGood DEF Faithful
<1>3. ASSUME Crash, NEW x \in Slots PROVE TrueOf(x)
  BY <1>1, <1>3, CrashGood
<1>4. QED
  BY <1>2, <1>3 DEF Next

LEMMA StepScoped ==
  ASSUME IInv, Finite, Next PROVE \A s \in Slots : \A t : AnswerScoped(s, t)
<1>1. ASSUME NEW x \in Slots, request'[x] = request[x] \/ request'[x] = NoRequest
      PROVE  \A t : AnswerScoped(x, t)
  BY <1>1, OthersSilent DEF AnswerScoped
<1>2. ASSUME NEW s \in Slots, Handle(s), NEW x \in Slots
      PROVE  \A t : AnswerScoped(x, t)
  BY <1>1, <1>2, HandleGood DEF Faithful
<1>3. ASSUME Crash, NEW x \in Slots PROVE \A t : AnswerScoped(x, t)
  BY <1>1, <1>3, CrashGood
<1>4. QED
  BY <1>2, <1>3 DEF Next

LEMMA StepByAdmin ==
  ASSUME IInv, Finite, Next PROVE \A t : ChangedByAdmin(t)
<1>1. ASSUME NEW s \in Slots, Handle(s), NEW t PROVE ChangedByAdmin(t)
  BY <1>1, HandleGood DEF Faithful, ChangedByAdmin
<1>2. CASE Crash
  BY <1>2, CrashGood DEF ChangedByAdmin
<1>3. QED
  BY <1>1, <1>2 DEF Next

(* What create_tenant and add_team_member answer is true when they do.     *)
THEOREM AnswersTrueAlways == Spec => AnswersAreTrue
<1>1. IInv /\ Finite /\ [Next]_vars => [\A s \in Slots : TrueOf(s)]_vars
  BY StepTrue
<1>2. QED
  BY <1>1, Invariance, PTL DEF Spec, AnswersAreTrue

(* Only admins change a tenant: require_permission, although the role was  *)
(* read before the change is made.                                         *)
THEOREM OnlyAdminsChangeAlways == Spec => OnlyAdminsChange
<1>1. IInv /\ Finite /\ [Next]_vars => [\A t \in tenants : ChangedByAdmin(t)]_vars
  BY StepByAdmin
<1>2. QED
  BY <1>1, Invariance, PTL DEF Spec, OnlyAdminsChange

(* What discover and analyze show and record for a member of a tenant is   *)
(* the tenant's own, although the registrations were read in a transaction *)
(* before.                                                                 *)
THEOREM ScopedAlways == Spec => ScopedToTenant
<1>1. IInv /\ Finite /\ [Next]_vars =>
        [(\A s \in Slots, t \in tenants : AnswerScoped(s, t)) /\ RunsScoped']_vars
  BY StepScoped, NextIInv DEF IInv
<1>2. QED
  BY <1>1, Invariance, PTL DEF Spec, ScopedToTenant
-----------------------------------------------------------------------------
(* The foreign keys, and the bounds.  A request that writes for a tenant   *)
(* has read it or made it, and tenants are never deleted.                  *)

Rows == [id : 1 .. MaxRows, tenant : tenants, service : Services]

TablesFine ==
  /\ tenants \subseteq 0 .. MaxTenants
  /\ \A m \in members : m.tenant \in tenants
  /\ Registrations \subseteq Rows /\ IsFiniteSet(Registrations)
  /\ runs \subseteq tenants \X Services

InTenant(r, known) ==
  /\ r.tenant \in 0 .. MaxTenants
  /\ r.pc \in {"insertAdmin", "handler", "azure", "ingest"} => r.tenant \in known

RequestsFine == \A s \in Slots : InTenant(request[s], tenants)

Foreign == TablesFine /\ RequestsFine

LEMMA ForeignInit == Init => Foreign
<1> SUFFICES ASSUME Init PROVE Foreign
  OBVIOUS
<1>1. Registrations = {} /\ IsFiniteSet({})
  BY FS_EmptySet DEF Init, Registrations
<1>2. NoRequest.tenant = 0 /\ NoRequest.pc = "idle" /\ 0 \in 0 .. MaxTenants
  BY BoundsAssumption DEF NoRequest, Local
<1>3. RequestsFine
  BY <1>2 DEF Init, RequestsFine, InTenant
<1>4. QED
  BY <1>1, <1>3 DEF Init, Foreign, TablesFine

(* The frame: one request changes, and the tenants only grow.              *)
LEMMA OneRequest ==
  ASSUME IInv, Foreign, NEW s \in Slots, NEW r \in AnyRequest,
         request' = [request EXCEPT ![s] = r],
         tenants \subseteq tenants', InTenant(r, tenants')
  PROVE  RequestsFine'
<1>1. /\ request'[s] = r
      /\ \A x \in Slots : x # s => request'[x] = request[x]
  BY Replaced DEF IInv
<1>2. \A x \in Slots : InTenant(request[x], tenants')
  BY DEF Foreign, RequestsFine, InTenant
<1>3. QED
  BY <1>1, <1>2 DEF RequestsFine

LEMMA AnsweredFine ==
  ASSUME IInv, Foreign, NEW s \in Slots, NEW a \in Answers, NEW f \in SUBSET Services,
         AnswerWith(s, a, f), tenants \subseteq tenants'
  PROVE  RequestsFine'
<1> DEFINE r == [NoRequest EXCEPT !.answer = a, !.found = f]
<1>1. r \in AnyRequest /\ r.pc = "idle"
  <2>1. NoRequest \in AnyRequest /\ NoRequest.pc = "idle"
    BY NoRequestTyped
  <2>2. QED
    BY <2>1 DEF AnyRequest
<1>2. r.tenant = 0
  BY NoRequestTyped DEF NoRequest, Local
<1>3. request' = [request EXCEPT ![s] = r]
  BY DEF AnswerWith
<1> HIDE DEF r
<1>4. InTenant(r, tenants')
  BY <1>1, <1>2, BoundsAssumption DEF InTenant
<1>5. QED
  BY <1>1, <1>3, <1>4, OneRequest

LEMMA AnswerFine ==
  ASSUME IInv, Foreign, NEW s \in Slots, NEW a \in Answers, Answer(s, a),
         tenants \subseteq tenants'
  PROVE  RequestsFine'
<1>1. AnswerWith(s, a, {}) /\ {} \in SUBSET Services
  BY DEF Answer
<1>2. QED
  BY <1>1, AnsweredFine

(* A request that goes on in its tenant.                                   *)
LEMMA SameTenantFine ==
  ASSUME IInv, Foreign, NEW s \in Slots, request[s].pc = "handler",
         NEW pc \in {"azure", "ingest"}, NEW f \in SUBSET Services,
         request' = [request EXCEPT ![s].pc = pc, ![s].found = f],
         UNCHANGED tenants
  PROVE  RequestsFine'
<1> DEFINE r == [request[s] EXCEPT !.pc = pc, !.found = f]
<1>1. request[s] \in AnyRequest /\ InTenant(request[s], tenants)
  BY DEF IInv, Typed, Foreign, RequestsFine
<1>2. r \in AnyRequest
  BY <1>1 DEF AnyRequest
<1>3. r.tenant = request[s].tenant /\ r.pc = pc
  BY <1>1 DEF AnyRequest
<1>4. request' = [request EXCEPT ![s] = r]
  OBVIOUS
<1> HIDE DEF r
<1>5. InTenant(r, tenants')
  BY <1>1, <1>3 DEF InTenant
<1>6. QED
  BY <1>2, <1>4, <1>5, OneRequest

LEMMA NewFine ==
  ASSUME IInv, Foreign, NEW s \in Slots, NEW u \in Users, NEW call \in Calls,
         NEW pc \in {"insertTenant", "local"},
         request' = [request EXCEPT ![s] = New(u, call, pc)], UNCHANGED tenants
  PROVE  RequestsFine'
<1> DEFINE r == New(u, call, pc)
<1>1. r \in AnyRequest /\ r.pc = pc
  BY NewTyped
<1>2. r.tenant = 0
  BY NoRequestTyped DEF New, NoRequest, Local
<1> HIDE DEF r
<1>3. InTenant(r, tenants')
  BY <1>1, <1>2, BoundsAssumption DEF InTenant
<1>4. QED
  BY <1>1, <1>3, OneRequest DEF r

LEMMA TablesKept ==
  ASSUME Foreign, UNCHANGED <<tenants, members, runs>>, Registrations' = Registrations
  PROVE  TablesFine'
BY DEF Foreign, TablesFine, Rows

LEMMA ResolveContextForeign ==
  ASSUME IInv, Foreign, NEW s \in Slots, ResolveContext(s) PROVE Foreign'
<1>1. UNCHANGED <<tenants, members, rows, past, runs>>
  BY DEF ResolveContext, db
<1>2. TablesFine'
  BY <1>1, TablesKept DEF Registrations
<1>3. PICK u \in Callers, call \in {c \in Calls : c.op # "create"} :
        \/ \E m \in Memberships(u) :
             request' = [request EXCEPT
                           ![s] = [New(u, call, "handler") EXCEPT
                                     !.tenant = m.tenant, !.role = m.role,
                                     !.isMember = TRUE]]
        \/ request' = [request EXCEPT ![s] = New(u, call, "local")]
        \/ Answer(s, "forbidden")
  BY DEF ResolveContext
<1>4. u \in Users /\ call \in Calls
  BY UsersAssumption DEF Callers
<1>5. ASSUME NEW m \in Memberships(u),
             request' = [request EXCEPT
                           ![s] = [New(u, call, "handler") EXCEPT
                                     !.tenant = m.tenant, !.role = m.role,
                                     !.isMember = TRUE]]
      PROVE  RequestsFine'
  <2> DEFINE n == New(u, call, "handler")
             r == [n EXCEPT !.tenant = m.tenant, !.role = m.role, !.isMember = TRUE]
  <2>1. m \in members /\ m.tenant \in tenants /\ m.tenant \in Int /\ m.role \in Roles
    BY DEF Memberships, IInv, Typed, AnyMember, Foreign, TablesFine
  <2>2. n \in AnyRequest /\ n.pc = "handler"
    BY <1>4, NewTyped
  <2>3. request' = [request EXCEPT ![s] = r]
    BY <1>5
  <2> HIDE DEF n
  <2>4. r \in AnyRequest
    BY <2>1, <2>2 DEF AnyRequest
  <2>5. r.pc = "handler" /\ r.tenant = m.tenant
    BY <2>2 DEF AnyRequest
  <2> HIDE DEF r
  <2>6. InTenant(r, tenants')
    BY <1>1, <2>1, <2>5 DEF InTenant, Foreign, TablesFine
  <2>7. QED
    BY <1>1, <2>3, <2>4, <2>6, OneRequest
<1>6. CASE request' = [request EXCEPT ![s] = New(u, call, "local")]
  BY <1>1, <1>2, <1>4, <1>6, NewFine DEF Foreign
<1>7. CASE Answer(s, "forbidden")
  BY <1>1, <1>2, <1>7, AnswerFine DEF Foreign, Answers
<1>8. QED
  BY <1>2, <1>3, <1>5, <1>6, <1>7 DEF Foreign

(* A tenant that a request makes, or makes sure of, and works in.          *)
LEMMA NewTenantForeign ==
  ASSUME IInv, Foreign, NEW s \in Slots, NEW t \in 0 .. MaxTenants, NEW r \in AnyRequest,
         r.tenant = t, request' = [request EXCEPT ![s] = r],
         tenants' = tenants \cup {t}, UNCHANGED <<members, rows, past, runs>>
  PROVE  Foreign'
<1>1. RequestsFine'
  <2>1. InTenant(r, tenants')
    BY DEF InTenant
  <2>2. QED
    BY <2>1, OneRequest
<1>2. Registrations' = Registrations
  BY DEF Registrations
<1>3. Rows \subseteq Rows'
  BY DEF Rows
<1>4. TablesFine'
  BY <1>2, <1>3 DEF Foreign, TablesFine
<1>5. QED
  BY <1>1, <1>4 DEF Foreign

LEMMA EnsureLocalForeign ==
  ASSUME IInv, Foreign, NEW s \in Slots, EnsureLocal(s) PROVE Foreign'
<1> DEFINE r == [request[s] EXCEPT !.pc = "handler", !.tenant = Local,
                                   !.role = "admin", !.isMember = FALSE]
<1>1. request[s] \in AnyRequest /\ Local \in Int /\ "admin" \in Roles /\ Local = 0
  BY DEF IInv, Typed, Local, Roles
<1>2. r \in AnyRequest
  BY <1>1 DEF AnyRequest
<1>3. r.tenant = 0
  BY <1>1 DEF AnyRequest
<1>4. request' = [request EXCEPT ![s] = r]
  BY DEF EnsureLocal, UseLocal
<1> HIDE DEF r
<1>5. tenants' = tenants \cup {0} /\ UNCHANGED <<members, rows, past, runs>>
  BY <1>1 DEF EnsureLocal
<1>6. 0 \in 0 .. MaxTenants
  BY BoundsAssumption
<1>7. QED
  BY <1>2, <1>3, <1>4, <1>5, <1>6, NewTenantForeign

LEMMA CheckMembershipForeign ==
  ASSUME IInv, Foreign, NEW s \in Slots, CheckMembership(s) PROVE Foreign'
<1>1. UNCHANGED <<tenants, members, rows, past, runs>>
  BY DEF CheckMembership, db
<1>2. TablesFine'
  BY <1>1, TablesKept DEF Registrations
<1>3. PICK u \in Callers :
        \/ request' = [request EXCEPT ![s] = New(u, [op |-> "create"], "insertTenant")]
        \/ Answer(s, "conflict")
  BY DEF CheckMembership
<1>4. u \in Users /\ [op |-> "create"] \in Calls
  BY UsersAssumption DEF Callers, Calls
<1>5. CASE request' = [request EXCEPT ![s] = New(u, [op |-> "create"], "insertTenant")]
  BY <1>1, <1>2, <1>4, <1>5, NewFine DEF Foreign
<1>6. CASE Answer(s, "conflict")
  BY <1>1, <1>2, <1>6, AnswerFine DEF Foreign, Answers
<1>7. QED
  BY <1>3, <1>5, <1>6

LEMMA InsertTenantForeign ==
  ASSUME IInv, Foreign, Finite, NEW s \in Slots, InsertTenant(s) PROVE Foreign'
<1> DEFINE t == Cardinality(Created) + 1
           r == [request[s] EXCEPT !.pc = "insertAdmin", !.tenant = t]
<1>1. Cardinality(Created) \in Nat
  BY FS_Subset, FS_CardinalityType DEF Finite, Created
<1>2. t \in 0 .. MaxTenants
  BY <1>1, BoundsAssumption DEF InsertTenant
<1>3. request[s] \in AnyRequest
  BY DEF IInv, Typed
<1>4. /\ request' = [request EXCEPT ![s] = r]
      /\ tenants' = tenants \cup {t} /\ UNCHANGED <<members, rows, past, runs>>
  BY DEF InsertTenant
<1> HIDE DEF t
<1>5. r \in AnyRequest
  <2>1. t \in Int
    BY <1>2
  <2>2. QED
    BY <1>3, <2>1 DEF AnyRequest
<1>6. r.tenant = t
  BY <1>3 DEF AnyRequest
<1> HIDE DEF r
<1>7. QED
  BY <1>2, <1>4, <1>5, <1>6, NewTenantForeign

LEMMA AddMemberForeign ==
  ASSUME IInv, Foreign, NEW s \in Slots, NEW u, NEW role,
         AddMember(s, u, role) \/ MemberConflict(s, u),
         request[s].pc \in {"insertAdmin", "handler"},
         UNCHANGED <<tenants, rows, past, runs>>
  PROVE  Foreign'
<1>1. RequestsFine'
  BY AnswerFine DEF AddMember, MemberConflict, Answers
<1>2. request[s].tenant \in tenants
  BY DEF Foreign, RequestsFine, InTenant
<1>3. \A m \in members' : m.tenant \in tenants'
  BY <1>2 DEF AddMember, MemberConflict, Foreign, TablesFine
<1>4. Registrations' = Registrations /\ Rows' = Rows
  BY DEF Registrations, Rows
<1>5. QED
  BY <1>1, <1>3, <1>4 DEF Foreign, TablesFine

LEMMA MemberStepsForeign ==
  ASSUME IInv, Foreign, NEW s \in Slots, InsertAdmin(s) \/ AddTenantMember(s)
  PROVE  Foreign'
<1>1. UNCHANGED <<tenants, rows, past, runs>>
  BY DEF InsertAdmin, AddTenantMember
<1>2. CASE InsertAdmin(s)
  BY <1>1, <1>2, AddMemberForeign DEF InsertAdmin, At
<1>3. CASE AddTenantMember(s)
  <2>1. CASE Answer(s, "forbidden") /\ UNCHANGED members
    BY <1>1, <2>1, AnswerFine, TablesKept DEF Foreign, Registrations, Answers
  <2>2. CASE \/ AddMember(s, request[s].call.user, request[s].call.role)
             \/ MemberConflict(s, request[s].call.user)
    BY <1>1, <1>3, <2>2, AddMemberForeign DEF AddTenantMember, Handles, At
  <2>3. QED
    BY <1>3, <2>1, <2>2 DEF AddTenantMember
<1>4. QED
  BY <1>2, <1>3

LEMMA RegisterForeign ==
  ASSUME IInv, Foreign, NEW s \in Slots, RegisterService(s) PROVE Foreign'
<1> DEFINE id == Cardinality(Registrations) + 1
           x == [id |-> id, tenant |-> request[s].tenant, service |-> request[s].call.service]
<1>1. /\ UNCHANGED <<tenants, members, past, runs>> /\ request[s].pc = "handler"
      /\ request[s].call \in Calls /\ request[s].call.op = "register"
  BY DEF RegisterService, Handles, At, IInv, Typed, AnyRequest
<1>2. CASE UNCHANGED rows /\ (Answer(s, "forbidden") \/ Answer(s, "conflict"))
  BY <1>1, <1>2, AnswerFine, TablesKept DEF Foreign, Registrations, Answers
<1>3. CASE id <= MaxRows /\ rows' = rows \cup {x} /\ Answer(s, "created")
  <2>1. id \in 1 .. MaxRows
    <3>1. Cardinality(Registrations) \in Nat
      BY FS_CardinalityType DEF Foreign, TablesFine
    <3>2. QED
      BY <1>3, <3>1, BoundsAssumption
  <2>2. request[s].call.service \in Services /\ request[s].tenant \in tenants
    BY <1>1, RegisterCall DEF Foreign, RequestsFine, InTenant
  <2> HIDE DEF id
  <2>3. x \in Rows
    BY <2>1, <2>2 DEF Rows
  <2>4. Registrations' = Registrations \cup {x}
    BY <1>1, <1>3 DEF Registrations
  <2> HIDE DEF x
  <2>5. IsFiniteSet(Registrations')
    BY <2>4, FS_AddElement DEF Foreign, TablesFine
  <2>6. Rows' = Rows
    BY <1>1 DEF Rows
  <2>7. TablesFine'
    BY <1>1, <2>3, <2>4, <2>5, <2>6 DEF Foreign, TablesFine
  <2>8. RequestsFine'
    BY <1>1, <1>3, AnswerFine DEF Answers
  <2>9. QED
    BY <2>7, <2>8 DEF Foreign
<1>4. QED
  BY <1>2, <1>3 DEF RegisterService, Registrations

LEMMA DeleteForeign ==
  ASSUME IInv, Foreign, NEW s \in Slots, DeleteService(s) PROVE Foreign'
<1>1. UNCHANGED <<tenants, members, runs>>
  BY DEF DeleteService
<1>2. Registrations' = Registrations
  BY DEF DeleteService, Registrations, Registered
<1>3. RequestsFine'
  BY <1>1, AnswerFine DEF DeleteService, Answers
<1>4. QED
  BY <1>1, <1>2, <1>3, TablesKept DEF Foreign

LEMMA DiscoverForeign ==
  ASSUME IInv, Foreign, NEW s \in Slots, DiscoverRegistered(s) \/ AnswerDiscovered(s)
  PROVE  Foreign'
<1>1. UNCHANGED <<tenants, members, rows, past, runs>>
  BY DEF DiscoverRegistered, AnswerDiscovered, db
<1>2. TablesFine'
  BY <1>1, TablesKept DEF Registrations
<1>3. CASE DiscoverRegistered(s)
  <2> DEFINE f == AtPlace(ServicesOf(request[s].tenant), request[s].call.place)
  <2>1. request[s].pc = "handler" /\ f \in SUBSET Services
    BY <1>3, RegisteredBefore DEF DiscoverRegistered, Handles, At, AtPlace
  <2>2. CASE Answer(s, "ok")
    BY <1>1, <1>2, <2>2, AnswerFine DEF Foreign, Answers
  <2>3. CASE request' = [request EXCEPT ![s].pc = "azure", ![s].found = f]
    <3> HIDE DEF f
    <3>1. RequestsFine'
      BY <1>1, <2>1, <2>3, SameTenantFine
    <3>2. QED
      BY <1>2, <3>1 DEF Foreign
  <2>4. QED
    BY <1>2, <1>3, <2>2, <2>3 DEF DiscoverRegistered, Foreign
<1>4. CASE AnswerDiscovered(s)
  <2>1. CASE Answer(s, "azureError")
    BY <1>1, <1>2, <2>1, AnswerFine DEF Foreign, Answers
  <2>2. ASSUME NEW visible \in SUBSET AtPlace(Services, request[s].call.place),
               AnswerWith(s, "ok", IF request[s].found = {} THEN visible
                                   ELSE visible \cap request[s].found)
        PROVE  RequestsFine'
    <3> DEFINE f == IF request[s].found = {} THEN visible ELSE visible \cap request[s].found
    <3>1. f \in SUBSET Services
      BY DEF AtPlace
    <3>2. AnswerWith(s, "ok", f)
      BY <2>2
    <3> HIDE DEF f
    <3>3. QED
      BY <1>1, <3>1, <3>2, AnsweredFine DEF Answers
  <2>3. QED
    BY <1>2, <1>4, <2>1, <2>2 DEF AnswerDiscovered, Foreign
<1>5. QED
  BY <1>3, <1>4

LEMMA ResolveServiceForeign ==
  ASSUME IInv, Foreign, NEW s \in Slots, ResolveService(s) PROVE Foreign'
<1> DEFINE call  == request[s].call
           named == {v \in Services : v.name = call.name}
           f     == AtPlace(ServicesOf(request[s].tenant), call.place) \cap named
<1>1. /\ request[s].pc = "handler" /\ request[s].call.op = "analyze"
      /\ UNCHANGED <<tenants, members, rows, past, runs>>
      /\ request[s].call \in Calls
  BY DEF ResolveService, Handles, At, db, IInv, Typed, AnyRequest
<1>2. TablesFine'
  BY <1>1, TablesKept DEF Registrations
<1>3. ASSUME NEW a \in {"forbidden", "conflict", "notFound", "azureError"}, Answer(s, a)
      PROVE  RequestsFine'
  BY <1>1, <1>3, AnswerFine DEF Answers
<1>4. ASSUME NEW v \in Services, Ingesting(s, v) PROVE RequestsFine'
  <2>1. {v} \in SUBSET Services
    OBVIOUS
  <2>2. request' = [request EXCEPT ![s].pc = "ingest", ![s].found = {v}]
    BY <1>4 DEF Ingesting
  <2>3. QED
    BY <1>1, <2>1, <2>2, SameTenantFine
<1>5. [place |-> call.place, name |-> call.name] \in Services \/ call.place = Anywhere
  BY <1>1 DEF Calls, Services
<1>6. f \subseteq Services /\ named \subseteq Services
  OBVIOUS
<1>7. RequestsFine'
  BY <1>3, <1>4, <1>5, <1>6 DEF ResolveService
<1>8. QED
  BY <1>2, <1>7 DEF Foreign

LEMMA AnalyzeForeign ==
  ASSUME IInv, Foreign, NEW s \in Slots, Analyze(s) PROVE Foreign'
<1>1. /\ UNCHANGED <<tenants, members, rows, past>> /\ request[s].pc = "ingest"
      /\ request[s].found \in SUBSET Services
  BY DEF Analyze, At, IInv, Typed, AnyRequest
<1>2. request[s].tenant \in tenants
  BY <1>1 DEF Foreign, RequestsFine, InTenant
<1>3. RequestsFine'
  BY <1>1, AnswerFine, AnsweredFine DEF Analyze, Answers
<1>4. runs' \subseteq tenants \X Services
  BY <1>1, <1>2 DEF Analyze, Foreign, TablesFine
<1>5. Registrations' = Registrations /\ Rows' = Rows
  BY <1>1 DEF Registrations, Rows
<1>6. QED
  BY <1>1, <1>3, <1>4, <1>5 DEF Foreign, TablesFine

LEMMA ForeignNext == IInv /\ Finite /\ Foreign /\ [Next]_vars => Foreign'
<1> SUFFICES ASSUME IInv, Finite, Foreign, [Next]_vars PROVE Foreign'
  OBVIOUS
<1>1. ASSUME NEW s \in Slots, DatabaseFails(s) PROVE Foreign'
  BY <1>1, AnswerFine, TablesKept DEF DatabaseFails, db, Foreign, Registrations, Answers
<1>2. ASSUME NEW s \in Slots, Handle(s) PROVE Foreign'
  BY <1>1, <1>2, ResolveContextForeign, EnsureLocalForeign, CheckMembershipForeign,
     InsertTenantForeign, MemberStepsForeign, RegisterForeign, DeleteForeign,
     DiscoverForeign, ResolveServiceForeign, AnalyzeForeign
  DEF Handle
<1>3. CASE Crash
  <2>1. /\ UNCHANGED <<tenants, members, rows, past, runs>>
        /\ request' = [s \in Slots |-> NoRequest]
    BY <1>3 DEF Crash, db
  <2>2. NoRequest.tenant = 0 /\ NoRequest.pc = "idle" /\ 0 \in 0 .. MaxTenants
    BY BoundsAssumption DEF NoRequest, Local
  <2>3. RequestsFine'
    BY <2>1, <2>2 DEF RequestsFine, InTenant
  <2>4. QED
    BY <2>1, <2>3, TablesKept DEF Foreign, Registrations
<1>4. CASE UNCHANGED vars
  <2>1. UNCHANGED <<tenants, members, rows, past, runs, request>>
    BY <1>4 DEF vars, db
  <2>2. QED
    BY <2>1, TablesKept DEF Foreign, Registrations, RequestsFine
<1>5. QED
  BY <1>2, <1>3, <1>4 DEF Next

(* The types of the tables and of what the requests know, with the foreign *)
(* keys of tenant_db.py: no membership, registration or recorded run is of *)
(* a tenant that does not exist, whatever requests race or die.            *)
THEOREM TypeCorrect == Spec => []TypeOK
<1>1. IInv /\ Foreign => TypeOK
  <2> SUFFICES ASSUME IInv, Foreign PROVE TypeOK
    OBVIOUS
  <2>1. members \subseteq [user : Users, tenant : tenants, role : Roles]
    BY DEF IInv, Typed, AnyMember, Foreign, TablesFine
  <2>2. rows \cup past \subseteq [id : 1 .. MaxRows, tenant : tenants, service : Services]
    BY DEF Foreign, TablesFine, Rows, Registrations
  <2>3. ASSUME NEW s \in Slots PROVE request[s] \in Requests
    <3>1. request[s] \in AnyRequest /\ request[s].tenant \in 0 .. MaxTenants
      BY DEF IInv, Typed, Foreign, RequestsFine, InTenant
    <3>2. QED
      BY <3>1 DEF AnyRequest, Requests
  <2>4. request \in [Slots -> Requests]
    BY <2>3 DEF IInv, Typed
  <2>5. QED
    BY <2>1, <2>2, <2>4 DEF TypeOK, IInv, Typed, Foreign, TablesFine
<1>2. Init => Foreign
  BY ForeignInit
<1>3. IInv /\ Finite /\ Foreign /\ [Next]_vars => Foreign'
  BY ForeignNext
<1>4. QED
  BY <1>1, <1>2, <1>3, Invariance, PTL DEF Spec
=============================================================================
