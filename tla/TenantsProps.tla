---------------------------- MODULE TenantsProps ----------------------------
(* What the tenant database and its requests have to get right.            *)
EXTENDS Tenants

Requests ==
  [pc : {"idle", "insertTenant", "insertAdmin", "local", "handler", "azure",
         "ingest"},
   user : Users, call : Calls, tenant : 0 .. MaxTenants, role : Roles,
   isMember : BOOLEAN, found : SUBSET Services, answer : Answers]

(* The types, with the foreign keys: a membership and a registration are   *)
(* of a tenant that exists.                                                *)
TypeOK ==
  /\ authEnabled \in BOOLEAN
  /\ tenants \subseteq 0 .. MaxTenants
  /\ members \subseteq [user : Users, tenant : tenants, role : Roles]
  /\ rows \cup past \subseteq [id : 1 .. MaxRows, tenant : tenants, service : Services]
  /\ runs \subseteq tenants \X Services
  /\ request \in [Slots -> Requests]

(* Whatever requests race, a user is in one tenant at most, with one role, *)
(* so that the context of the next request does not depend on a LIMIT 1.   *)
OneTenantPerUser == \A m, n \in members : m.user = n.user => m = n

Answered(s, answer) ==
  ~At(s, "idle") /\ At(s, "idle")' /\ request'[s].answer = answer

(* An answer is true when it is given: whoever is told that a membership   *)
(* was created has it in that tenant and role, and whoever is told of a    *)
(* conflict names a user who is in some tenant.                            *)
TrueOf(s) ==
  LET r    == request[s]
      user == IF r.call.op = "create" THEN r.user ELSE r.call.user
      role == IF r.call.op = "create" THEN "admin" ELSE r.call.role
  IN  r.call.op \in {"create", "add_member"} =>
        /\ Answered(s, "created") =>
             [user |-> user, tenant |-> r.tenant, role |-> role] \in members'
        /\ Answered(s, "conflict") => user \in {m.user : m \in members'}

AnswersAreTrue == [][\A s \in Slots : TrueOf(s)]_vars

(* A tenant's members and registrations change only by a request of one of *)
(* its admins (the first of whom is the one that creates it), or of the    *)
(* caller of a server without authentication, in the local tenant.         *)
Entitled(s, t) ==
  \/ [user |-> request[s].user, tenant |-> t, role |-> "admin"] \in members'
  \/ t = Local /\ ~authEnabled

Of(t, table) == {r \in table : r.tenant = t}

ChangedByAdmin(t) ==
  \/ Of(t, members') = Of(t, members) /\ Of(t, rows') = Of(t, rows)
  \/ \E s \in Slots : request'[s] # request[s] /\ Entitled(s, t)

OnlyAdminsChange == [][\A t \in tenants : ChangedByAdmin(t)]_vars

(* A tenant that has members sees and analyses only services it registered *)
(* itself, if only for a while: what another tenant registered, and what   *)
(* the shared credential sees besides, stays out of its answers and runs.  *)
Registrations     == rows \cup past
EverRegistered(t) == {r.service : r \in Of(t, Registrations)}

AnswerScoped(s, t) ==
  request[s].isMember /\ request[s].tenant = t /\ Answered(s, "ok") =>
    request'[s].found \subseteq EverRegistered(t)'

RunsScoped == \A run \in runs : run[1] # Local => run[2] \in EverRegistered(run[1])

ScopedToTenant ==
  [][(\A s \in Slots, t \in tenants : AnswerScoped(s, t)) /\ RunsScoped']_vars

(* "Create a new tenant and assign the caller as an admin." (tenant.py:48) *)
(* A request that is told 409, "The current user already belongs to a      *)
(* tenant.", has created none.                                             *)
ConflictCreatesNothing ==
  [][\A s \in Slots :
       request[s].call.op = "create" /\ Answered(s, "conflict") =>
         request[s].tenant \notin Created]_vars
=============================================================================
