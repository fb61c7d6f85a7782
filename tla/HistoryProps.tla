----------------------------- MODULE HistoryProps -----------------------------
(* What the analysis history has to get right.                             *)
EXTENDS History

Rows == [id : 0 .. MaxRuns + 1, tenant : Tenants \cup {Local},
         by : Tenants \cup {Local, Stranger}, at : 0 .. MaxTime, arrived : 0 .. MaxTime]

(* The types; ids are unique, and no answer has more rows than its limit.  *)
TypeOK ==
  /\ authEnabled \in BOOLEAN /\ now \in 0 .. MaxTime
  /\ table \in {"absent", "old", "current"} /\ indexed \in BOOLEAN
  /\ runs \subseteq Rows /\ \A r, q \in runs : r.id = q.id => r = q
  /\ cached \in 0 .. MaxTime \cup {NotCached}
  /\ lost \in Nat
  /\ DOMAIN request = Slots
  /\ \A s \in Slots :
       LET r == request[s]
       IN  /\ r.pc \in {"idle", "tables", "index", "columns", "alter", "query"}
           /\ r.op \in {"record", "history", "trends"}
           /\ r.caller \in Tenants \cup {Local, Stranger}
           /\ r.tenant \in Tenants \cup {Local}
           /\ r.at \in 0 .. MaxTime /\ r.arrived \in 0 .. MaxTime
           /\ r.shown \subseteq Rows /\ Cardinality(r.shown) <= Limit

(* However requests interleave in the unserialised schema check, and       *)
(* wherever the process dies in it, no query reaches a table without the   *)
(* column it selects on.                                                   *)
QueriesMeetSchema == \A s \in Slots : At(s, "query") => table = "current" /\ indexed

(* Two requests that migrate at a time cost the second its run.  That      *)
(* happens at most once to each request that was in the schema check when  *)
(* the column was added, and never again in the life of the database: all  *)
(* slots but the one that added it.                                        *)
MigrationLosesFew == lost < Cardinality(Slots)

(* A caller is shown only runs that were made for its own tenant; those of *)
(* callers without a tenant, and those from before there were tenants, go  *)
(* to the local tenant, whatever AUTH_ENABLED was when they were made.     *)
OwnRunsOnly ==
  \A s \in Slots : \A r \in request[s].shown :
    \/ r.by = request[s].caller
    \/ r.by = Stranger /\ request[s].caller = Local

(* "/analyze records summary-only runs in the background."                 *)
(* (docs/api/history.md:119)  No run is lost because two requests check    *)
(* the schema at a time, which _schema_lock is there to prevent.           *)
RunsAreRecorded == lost = 0
=============================================================================
