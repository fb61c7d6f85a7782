------------------------------- MODULE Tenants -------------------------------
(***************************************************************************)
(* The tenant database (repositories/tenant_db.py) and the requests that   *)
(* work on it: the tenant endpoints (api/routers/tenant.py), the context   *)
(* every tenant-scoped request resolves first (core/tenancy.py), and the   *)
(* discover and live-analysis endpoints that read a tenant's registrations *)
(* (api/routers/discover.py).                                              *)
(*                                                                         *)
(* The handlers are plain functions, which the server runs on a pool of    *)
(* threads, and each repository call is a transaction of its own: between  *)
(* two of them any other request may run, and the process may die.  What   *)
(* is one action here touches the database in at most one transaction that *)
(* another request can tell apart: rows of tenants and team_members are    *)
(* never deleted or updated, so reading a membership and then its tenant   *)
(* is one step.                                                            *)
(***************************************************************************)
EXTENDS Integers, FiniteSets

CONSTANTS Slots,       \* requests the server works on at a time
          Users,       \* object ids of callers and members
          LocalUser,   \* the mock caller of a server without authentication
          Places,      \* (subscription, resource group) pairs
          Names,       \* service names
          MaxTenants,  \* bound on the tenants created
          MaxRows,     \* bound on the registrations ever made
          MaxRuns,     \* bound on the runs recorded
          RolesGiven   \* bound on the roles that add_member requests ask for

ASSUME UsersAssumption  == LocalUser \in Users
ASSUME BoundsAssumption == {MaxTenants, MaxRows, MaxRuns} \subseteq Nat
ASSUME RolesAssumption  == RolesGiven \subseteq {"admin", "member", "viewer"}

VARIABLES authEnabled,  \* is_auth_enabled(), for the life of the deployment
          tenants,      \* table tenants: ids
          members,      \* table team_members
          rows,         \* table service_registrations
          past,         \* history: registrations deleted since
          runs,         \* history database: (tenant, service) of recorded runs
          request       \* per slot, the request it serves

db == <<tenants, members, rows, past, runs>>
vars == <<authEnabled, db, request>>

Local    == 0                 \* LOCAL_TENANT_ID
Anywhere == "any"             \* a filter that is not given
Roles    == {"admin", "member", "viewer"}
Services == [place : Places, name : Names]

(* Slip: everyone manages services.                                        *)
PermissionsTooWide(role) ==
  {"services:view", "history:view", "services:manage"}
    \cup (IF role = "viewer" THEN {} ELSE {"services:analyze"})
    \cup (IF role = "admin" THEN {"members:manage"} ELSE {})

Permissions(role) ==
  {"services:view", "history:view"}
    \cup (IF role = "viewer" THEN {} ELSE {"services:analyze"})
    \cup (IF role = "admin" THEN {"members:manage", "services:manage"} ELSE {})

Calls ==
  [op : {"create"}]
    \cup [op : {"add_member"}, user : Users, role : RolesGiven]
    \cup [op : {"register"}, service : Services]
    \cup [op : {"delete"}, row : 1 .. MaxRows]
    \cup [op : {"discover"}, place : Places \cup {Anywhere}]
    \cup [op : {"analyze"}, place : Places \cup {Anywhere}, name : Names]

(* Every answer a client can tell apart; errors of Azure are one answer,   *)
(* and the 500 of an exception that no handler expects is one.             *)
Answers == {"none", "created", "ok", "deleted", "forbidden", "notFound",
            "conflict", "azureError", "serverError"}

NoRequest ==
  [pc |-> "idle", user |-> LocalUser, call |-> [op |-> "create"], tenant |-> Local,
   role |-> "viewer", isMember |-> FALSE, found |-> {}, answer |-> "none"]

Callers == IF authEnabled THEN Users ELSE {LocalUser}

Init ==
  /\ authEnabled \in BOOLEAN
  /\ tenants = {} /\ members = {} /\ rows = {} /\ past = {} /\ runs = {}
  /\ request = [s \in Slots |-> NoRequest]

-----------------------------------------------------------------------------
(* Steps of a request.                                                     *)

At(s, pc) == request[s].pc = pc
Handles(s, op) == At(s, "handler") /\ request[s].call.op = op

(* The answer stays to be seen until the slot serves another request.      *)
AnswerWith(s, answer, found) ==
  request' = [request EXCEPT ![s] = [NoRequest EXCEPT !.answer = answer,
                                                      !.found = found]]
Answer(s, answer) == AnswerWith(s, answer, {})

Memberships(u) == {m \in members : m.user = u}

New(u, call, pc) == [NoRequest EXCEPT !.pc = pc, !.user = u, !.call = call]

(* get_tenant: a request comes in, and its caller's membership is read, or *)
(* else the local tenant of a server without authentication is used.       *)
ResolveContext(s) ==
  /\ At(s, "idle")
  /\ \E u \in Callers, call \in {c \in Calls : c.op # "create"} :
       \/ \E m \in Memberships(u) :
            request' = [request EXCEPT
                          ![s] = [New(u, call, "handler") EXCEPT
                                    !.tenant = m.tenant, !.role = m.role,
                                    !.isMember = TRUE]]
       \/ /\ Memberships(u) = {} /\ ~authEnabled
          /\ request' = [request EXCEPT ![s] = New(u, call, "local")]
       \/ Memberships(u) = {} /\ authEnabled /\ Answer(s, "forbidden")
  /\ UNCHANGED <<authEnabled, db>>

UseLocal(s) ==
  request' = [request EXCEPT ![s].pc = "handler", ![s].tenant = Local,
                             ![s].role = "admin", ![s].isMember = FALSE]

(* Slip: the local tenant is used and not saved.                           *)
EnsureLocalUnsaved(s) ==
  /\ At(s, "local")
  /\ UseLocal(s)
  /\ UNCHANGED <<authEnabled, db>>

(* INSERT OR IGNORE: whoever comes second finds the row.                   *)
EnsureLocal(s) ==
  /\ At(s, "local")
  /\ tenants' = tenants \cup {Local}
  /\ UseLocal(s)
  /\ UNCHANGED <<authEnabled, members, rows, past, runs>>

Can(s, permission) == permission \in Permissions(request[s].role)

-----------------------------------------------------------------------------
(* create_tenant: a check and two inserts, each a transaction of its own.  *)

CheckMembership(s) ==
  /\ At(s, "idle")
  /\ \E u \in Callers :
       IF Memberships(u) = {}
       THEN request' = [request EXCEPT ![s] = New(u, [op |-> "create"], "insertTenant")]
       ELSE Answer(s, "conflict")
  /\ UNCHANGED <<authEnabled, db>>

Created == tenants \ {Local}

InsertTenant(s) ==
  /\ At(s, "insertTenant")
  /\ Cardinality(Created) < MaxTenants
  /\ LET t == Cardinality(Created) + 1
     IN  /\ tenants' = tenants \cup {t}
         /\ request' = [request EXCEPT ![s].pc = "insertAdmin", ![s].tenant = t]
  /\ UNCHANGED <<authEnabled, members, rows, past, runs>>

(* Slip: user_oid is not UNIQUE.                                           *)
TakenNever(u) == FALSE

(* UNIQUE (user_oid)                                                       *)
Taken(u) == Memberships(u) # {}

AddMember(s, u, role) ==
  /\ ~Taken(u)
  /\ members' = members \cup {[user |-> u, tenant |-> request[s].tenant, role |-> role]}
  /\ Answer(s, "created")

(* Slip: the integrity error is taken for success.                         *)
MemberConflictIgnored(s, u) == Taken(u) /\ Answer(s, "created") /\ UNCHANGED members

MemberConflict(s, u) == Taken(u) /\ Answer(s, "conflict") /\ UNCHANGED members

InsertAdmin(s) ==
  /\ At(s, "insertAdmin")
  /\ \/ AddMember(s, request[s].user, "admin")
     \/ MemberConflict(s, request[s].user)
  /\ UNCHANGED <<authEnabled, tenants, rows, past, runs>>

-----------------------------------------------------------------------------
(* The other tenant endpoints.                                             *)

AddTenantMember(s) ==
  /\ Handles(s, "add_member")
  /\ LET call == request[s].call
     IN  \/ ~Can(s, "members:manage") /\ Answer(s, "forbidden") /\ UNCHANGED members
         \/ /\ Can(s, "members:manage")
            /\ AddMember(s, call.user, call.role) \/ MemberConflict(s, call.user)
  /\ UNCHANGED <<authEnabled, tenants, rows, past, runs>>

(* Slip: the registrations of every tenant.                                *)
RegisteredAnywhere(t) == rows

Registered(t) == {r \in rows : r.tenant = t}

(* UNIQUE (tenant_id, subscription_id, resource_group, service_name)       *)
IsRegistered(t, service) == \E r \in Registered(t) : r.service = service

RegisterService(s) ==
  /\ Handles(s, "register")
  /\ LET t  == request[s].tenant
         id == Cardinality(rows \cup past) + 1
     IN  \/ ~Can(s, "services:manage") /\ Answer(s, "forbidden") /\ UNCHANGED rows
         \/ /\ Can(s, "services:manage") /\ IsRegistered(t, request[s].call.service)
            /\ Answer(s, "conflict") /\ UNCHANGED rows
         \/ /\ Can(s, "services:manage") /\ ~IsRegistered(t, request[s].call.service)
            /\ id <= MaxRows
            /\ rows' = rows \cup {[id |-> id, tenant |-> t,
                                   service |-> request[s].call.service]}
            /\ Answer(s, "created")
  /\ UNCHANGED <<authEnabled, tenants, members, past, runs>>

DeleteService(s) ==
  /\ Handles(s, "delete")
  /\ LET gone == {r \in Registered(request[s].tenant) : r.id = request[s].call.row}
     IN  \/ ~Can(s, "services:manage") /\ Answer(s, "forbidden") /\ UNCHANGED <<rows, past>>
         \/ /\ Can(s, "services:manage")
            /\ rows' = rows \ gone
            /\ past' = past \cup gone
            /\ Answer(s, IF gone = {} THEN "notFound" ELSE "deleted")
  /\ UNCHANGED <<authEnabled, tenants, members, runs>>

-----------------------------------------------------------------------------
(* The endpoints that read the registrations, and then talk to Azure.      *)

AtPlace(services, place) == {v \in services : place \in {Anywhere, v.place}}

ServicesOf(t) == {r.service : r \in Registered(t)}

DiscoverRegistered(s) ==
  /\ Handles(s, "discover")
  /\ LET found == AtPlace(ServicesOf(request[s].tenant), request[s].call.place)
     IN  IF request[s].isMember /\ found = {}
         THEN Answer(s, "ok")
         ELSE request' = [request EXCEPT ![s].pc = "azure", ![s].found = found]
  /\ UNCHANGED <<authEnabled, db>>

(* Azure reports whatever services the credential sees.                    *)
AnswerDiscovered(s) ==
  /\ At(s, "azure")
  /\ \/ Answer(s, "azureError")
     \/ \E visible \in SUBSET AtPlace(Services, request[s].call.place) :
          AnswerWith(s, "ok", IF request[s].found = {} THEN visible
                              ELSE visible \cap request[s].found)
  /\ UNCHANGED <<authEnabled, db>>

Ingesting(s, service) ==
  request' = [request EXCEPT ![s].pc = "ingest", ![s].found = {service}]

(* Which service to analyse: the one registration of that name; without a  *)
(* membership also the one the request places, or the one Azure finds.     *)
ResolveService(s) ==
  /\ Handles(s, "analyze")
  /\ LET call   == request[s].call
         named  == {v \in Services : v.name = call.name}
         found  == AtPlace(ServicesOf(request[s].tenant), call.place) \cap named
     IN  \/ ~Can(s, "services:analyze") /\ Answer(s, "forbidden")
         \/ /\ Can(s, "services:analyze") /\ Cardinality(found) > 1
            /\ Answer(s, "conflict")
         \/ /\ Can(s, "services:analyze") /\ Cardinality(found) = 1
            /\ \E v \in found : Ingesting(s, v)
         \/ /\ Can(s, "services:analyze") /\ found = {}
            /\ \/ request[s].isMember /\ Answer(s, "notFound")
               \/ /\ ~request[s].isMember /\ call.place # Anywhere
                  /\ Ingesting(s, [place |-> call.place, name |-> call.name])
               \/ /\ ~request[s].isMember /\ call.place = Anywhere
                  /\ \/ Answer(s, "azureError")
                     \/ \E visible \in SUBSET named :
                          \/ visible = {} /\ Answer(s, "notFound")
                          \/ Cardinality(visible) > 1 /\ Answer(s, "conflict")
                          \/ \E v \in visible : visible = {v} /\ Ingesting(s, v)
  /\ UNCHANGED <<authEnabled, db>>

(* The ingestion fails, or the analysis is recorded and answered; a run    *)
(* that cannot be recorded is answered all the same.                       *)
Analyze(s) ==
  /\ At(s, "ingest")
  /\ \/ Answer(s, "azureError") /\ UNCHANGED runs
     \/ /\ \/ UNCHANGED runs
           \/ /\ Cardinality(runs) < MaxRuns
              /\ runs' = runs \cup {<<request[s].tenant, v>> : v \in request[s].found}
        /\ AnswerWith(s, "ok", request[s].found)
  /\ UNCHANGED <<authEnabled, tenants, members, rows, past>>

-----------------------------------------------------------------------------
(* The database is locked for too long, or full: no handler expects that   *)
(* OperationalError, and what was committed before it stays.               *)
DatabaseFails(s) ==
  /\ request[s].pc \in {"idle", "insertTenant", "insertAdmin", "local", "handler"}
  /\ Answer(s, "serverError")
  /\ UNCHANGED <<authEnabled, db>>

(* The process dies with the requests it serves; the tables are on disk.   *)
Crash ==
  /\ request' = [s \in Slots |-> NoRequest]
  /\ UNCHANGED <<authEnabled, db>>

Handle(s) ==
  \/ ResolveContext(s) \/ EnsureLocal(s)
  \/ CheckMembership(s) \/ InsertTenant(s) \/ InsertAdmin(s)
  \/ AddTenantMember(s) \/ RegisterService(s) \/ DeleteService(s)
  \/ DiscoverRegistered(s) \/ AnswerDiscovered(s)
  \/ ResolveService(s) \/ Analyze(s) \/ DatabaseFails(s)

Next == (\E s \in Slots : Handle(s)) \/ Crash

Spec == Init /\ [][Next]_vars
=============================================================================
