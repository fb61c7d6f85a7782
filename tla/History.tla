------------------------------- MODULE History -------------------------------
(***************************************************************************)
(* The analysis history: HistoryDatabase over one SQLite file, as the      *)
(* handlers of /analyze, /recommend, the live analysis and /history use it *)
(* for one service.                                                        *)
(*                                                                         *)
(* Every request makes a HistoryService of its own, with a HistoryDatabase *)
(* of its own: the lock and the flag in it serialise nothing between two   *)
(* requests, and each of them checks the schema before its first query.    *)
(* Each statement of that check commits by itself.  A run and its child    *)
(* rows are one transaction, and one record here.  /analyze and /recommend *)
(* record in a background task, after the answer; whatever fails while a   *)
(* run is recorded or read is logged and forgotten.                        *)
(***************************************************************************)
EXTENDS Integers, FiniteSets

CONSTANTS Slots,     \* requests and background tasks that run at a time
          Tenants,   \* tenants; a caller stands for the tenant it belongs to
          Local,     \* LOCAL_TENANT_ID, and the caller when nobody signs in
          Stranger,  \* an authenticated caller without a tenant
          TTL,       \* lifetime of a cached answer
          Days,      \* the days parameter of the /history endpoints
          Limit,     \* the limit parameter of the /history endpoints
          MaxTime,   \* bound on the clock
          MaxRuns    \* bound on the runs in the database

ASSUME SlotsAssumption   == IsFiniteSet(Slots) /\ Slots # {}
ASSUME CallersAssumption == Local \notin Tenants /\ Stranger \notin Tenants \cup {Local}
ASSUME NumbersAssumption == {TTL, Days, Limit, MaxTime, MaxRuns} \subseteq Nat

VARIABLES
  authEnabled,  \* is_auth_enabled()
  now,          \* the time of day
  table,        \* analysis_runs: absent, old (without tenant_id) or current
  indexed,      \* an index idx_analysis_runs_service_time exists
  runs,         \* the rows of analysis_runs, as the current schema shows them
  cached,       \* when the answer in the response cache was generated
  lost,         \* history: runs lost because the column was there already
  request       \* per slot, the request or background task

vars == <<authEnabled, now, table, indexed, runs, cached, lost, request>>

NotCached == -1
Callers   == IF authEnabled THEN Tenants \cup {Stranger} ELSE {Local}

NoRequest == [pc |-> "idle", op |-> "record", caller |-> Local, tenant |-> Local,
              at |-> 0, arrived |-> 0, shown |-> {}]

(* A database of an earlier release holds a run from before tenants were   *)
(* known, which the migration gives to the local tenant.                   *)
OldRun == [id |-> 0, tenant |-> Local, by |-> Local, at |-> 0, arrived |-> 0]

Init ==
  /\ authEnabled \in BOOLEAN /\ now = 0 /\ cached = NotCached /\ lost = 0
  /\ \/ table = "absent" /\ indexed = FALSE /\ runs = {}
     \/ table = "old" /\ indexed \in BOOLEAN /\ runs = {OldRun}
  /\ request = [s \in Slots |-> NoRequest]

-----------------------------------------------------------------------------
(* A request arrives.                                                      *)

Idle(s)   == request[s].pc = "idle"
At(s, pc) == request[s].pc = pc

Start(s, op, caller, tenant, at) ==
  request' = [request EXCEPT ![s] =
                [pc |-> "tables", op |-> op, caller |-> caller, tenant |-> tenant,
                 at |-> at, arrived |-> now, shown |-> {}]]

(* get_tenant_context(allow_local_fallback=True)                           *)
TenantOrLocal(c) == IF c = Stranger THEN Local ELSE c

(* /analyze and /recommend answer with an analysis generated now, which    *)
(* /analyze caches, or /analyze with one from the cache, of the same       *)
(* request by whichever tenant.  What is recorded has its time.            *)
Analyze(s) ==
  /\ Idle(s)
  /\ \E c \in Callers :
       \/ /\ cached' \in {now, cached}
          /\ Start(s, "record", c, TenantOrLocal(c), now)
       \/ /\ cached # NotCached /\ now - cached < TTL
          /\ Start(s, "record", c, TenantOrLocal(c), cached)
          /\ UNCHANGED cached
  /\ UNCHANGED <<authEnabled, now, table, indexed, runs, lost>>

(* The endpoints that resolve their tenant by get_tenant refuse the        *)
(* Stranger: the live analysis, and the two of the history.                *)
AnalyzeLive(s) ==
  /\ Idle(s)
  /\ \E c \in Callers \ {Stranger} : Start(s, "record", c, c, now)
  /\ UNCHANGED <<authEnabled, now, table, indexed, runs, cached, lost>>

ReadHistory(s) ==
  /\ Idle(s)
  /\ \E c \in Callers \ {Stranger}, op \in {"history", "trends"} : Start(s, op, c, c, now)
  /\ UNCHANGED <<authEnabled, now, table, indexed, runs, cached, lost>>

-----------------------------------------------------------------------------
(* _ensure_initialized, statement by statement.                            *)

Continue(s, pc) == request' = [request EXCEPT ![s].pc = pc]

(* The exception is logged: a run is not recorded, a read shows no rows.   *)
GiveUp(s) == request' = [request EXCEPT ![s] = [NoRequest EXCEPT !.op = request[s].op]]

CreateTables(s) ==
  /\ At(s, "tables")
  /\ table' = IF table = "absent" THEN "current" ELSE table
  /\ Continue(s, "index")
  /\ UNCHANGED <<authEnabled, now, indexed, runs, cached, lost>>

(* An index on tenant_id cannot be created on an old table; one of that    *)
(* name that exists is left as it is.                                      *)
CreateIndex(s) ==
  /\ At(s, "index")
  /\ \/ table = "old" /\ ~indexed /\ GiveUp(s) /\ UNCHANGED indexed
     \/ (table = "current" \/ indexed) /\ indexed' = TRUE /\ Continue(s, "columns")
  /\ UNCHANGED <<authEnabled, now, table, runs, cached, lost>>

(* Slip: the column is added without a look at the table.                  *)
ReadColumnsNever(s) ==
  /\ At(s, "columns")
  /\ Continue(s, "alter")
  /\ UNCHANGED <<authEnabled, now, table, indexed, runs, cached, lost>>

(* Slip: the tables are taken to be current once they exist.               *)
ReadColumnsTrusting(s) ==
  /\ At(s, "columns")
  /\ Continue(s, "query")
  /\ UNCHANGED <<authEnabled, now, table, indexed, runs, cached, lost>>

ReadColumns(s) ==
  /\ At(s, "columns")
  /\ Continue(s, IF table = "old" THEN "alter" ELSE "query")
  /\ UNCHANGED <<authEnabled, now, table, indexed, runs, cached, lost>>

AlterTable(s) ==
  /\ At(s, "alter")
  /\ \/ /\ table = "old"
        /\ table' = "current" /\ Continue(s, "query") /\ UNCHANGED lost
     \/ /\ table # "old"
        /\ lost' = IF request[s].op = "record" THEN lost + 1 ELSE lost
        /\ GiveUp(s) /\ UNCHANGED table
  /\ UNCHANGED <<authEnabled, now, indexed, runs, cached>>

-----------------------------------------------------------------------------
(* The queries.                                                            *)

Insert(s) ==
  /\ At(s, "query") /\ request[s].op = "record"
  /\ Cardinality(runs) < MaxRuns
  /\ runs' = runs \cup {[id |-> Cardinality(runs) + 1, tenant |-> request[s].tenant,
                         by |-> request[s].caller, at |-> request[s].at,
                         arrived |-> request[s].arrived]}
  /\ request' = [request EXCEPT ![s] = NoRequest]
  /\ UNCHANGED <<authEnabled, now, table, indexed, cached, lost>>

(* Slip: no condition on the tenant.                                       *)
MatchingAnyTenant(tenant) == {r \in runs : r.at >= now - Days}

Matching(tenant) == {r \in runs : r.tenant = tenant /\ r.at >= now - Days}

Precedes(op, r, q) == IF op = "history" THEN r.at > q.at ELSE r.at < q.at

(* Slip: LIMIT is forgotten.                                               *)
PageUnlimited(op, rows, page) == page = rows

(* ORDER BY and LIMIT: as many rows as there are, up to the limit, and     *)
(* none left out that comes before one of them.  Rows of the same time may *)
(* come in any order.                                                      *)
Page(op, rows, page) ==
  /\ Cardinality(page) = IF Cardinality(rows) < Limit THEN Cardinality(rows) ELSE Limit
  /\ \A in \in page, out \in rows \ page : ~Precedes(op, out, in)

Select(s) ==
  /\ At(s, "query") /\ request[s].op # "record"
  /\ LET rows == Matching(request[s].tenant)
     IN  \E page \in SUBSET rows :
           /\ Page(request[s].op, rows, page)
           /\ request' = [request EXCEPT ![s].pc = "idle", ![s].shown = page]
  /\ UNCHANGED <<authEnabled, now, table, indexed, runs, cached, lost>>

-----------------------------------------------------------------------------
(* OSError and sqlite3.Error: no disk, no space, locked for too long.      *)
StorageFails(s) ==
  /\ ~Idle(s)
  /\ GiveUp(s)
  /\ UNCHANGED <<authEnabled, now, table, indexed, runs, cached, lost>>

(* The process dies, with its background tasks, and starts anew, perhaps   *)
(* with another setting of AUTH_ENABLED.                                   *)
Restart ==
  /\ authEnabled' \in BOOLEAN /\ cached' = NotCached
  /\ request' = [s \in Slots |-> NoRequest]
  /\ UNCHANGED <<now, table, indexed, runs, lost>>

Tick ==
  /\ now < MaxTime /\ now' = now + 1
  /\ UNCHANGED <<authEnabled, table, indexed, runs, cached, lost, request>>

Ensure(s) == CreateTables(s) \/ CreateIndex(s) \/ ReadColumns(s) \/ AlterTable(s)
Query(s)  == Insert(s) \/ Select(s)

Next ==
  \/ \E s \in Slots : \/ Analyze(s) \/ AnalyzeLive(s) \/ ReadHistory(s)
                      \/ Ensure(s) \/ Query(s) \/ StorageFails(s)
  \/ Restart \/ Tick

Spec == Init /\ [][Next]_vars
=============================================================================
