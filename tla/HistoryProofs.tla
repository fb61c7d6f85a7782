----------------------------- MODULE HistoryProofs -----------------------------
(***************************************************************************)
(* The schema check and the tenants of the history, for any number of      *)
(* requests at a time, any tenants, limits and clock.                      *)
(***************************************************************************)
EXTENDS HistoryProps, FiniteSetTheorems, TLAPS

Everyone == Tenants \cup {Local, Stranger}

Runs == [id : Int, tenant : Tenants \cup {Local}, by : Everyone, at : Int, arrived : Int]

Requests ==
  [pc : {"idle", "tables", "index", "columns", "alter", "query"},
   op : {"record", "history", "trends"}, caller : Everyone,
   tenant : Tenants \cup {Local}, at : Int, arrived : Int, shown : SUBSET Runs]

Typed ==
  /\ authEnabled \in BOOLEAN /\ now \in Int /\ cached \in Int /\ lost \in Nat
  /\ table \in {"absent", "old", "current"} /\ indexed \in BOOLEAN
  /\ runs \subseteq Runs /\ IsFiniteSet(runs)
  /\ request \in [Slots -> Requests]

(* What each statement of the schema check leaves behind.  The table never *)
(* goes back, so that what a request has checked stays true.               *)
Checked ==
  \A s \in Slots :
    /\ request[s].pc \in {"index", "columns", "alter", "query"} => table # "absent"
    /\ request[s].pc \in {"columns", "alter", "query"} => indexed = TRUE
    /\ request[s].pc = "query" => table = "current"

(* Whom a run belongs to, and what a read may show.                        *)
Owned(r) == r.tenant = TenantOrLocal(r.by)

Scoped ==
  /\ \A r \in runs : Owned(r)
  /\ \A s \in Slots :
       /\ request[s].op = "record" =>
            request[s].tenant = TenantOrLocal(request[s].caller)
       /\ request[s].op # "record" =>
            request[s].tenant = request[s].caller
       /\ \A r \in request[s].shown : Owned(r) /\ r.tenant = request[s].caller

(* Only a request that still means to add the column can lose its run, and *)
(* the one that adds it is no longer among them.                           *)
Altering == {s \in Slots : request[s].pc = "alter"}

Bounded ==
  /\ table # "current" => lost = 0
  /\ table = "current" => lost + Cardinality(Altering) < Cardinality(Slots)

IInv == Typed /\ Checked /\ Scoped /\ Bounded

-----------------------------------------------------------------------------

LEMMA NoRequestTyped == NoRequest \in Requests
BY DEF NoRequest, Requests, Everyone

LEMMA SomeSlots ==
  ASSUME NEW S \in SUBSET Slots
  PROVE  /\ IsFiniteSet(S) /\ Cardinality(S) \in Nat /\ Cardinality(Slots) \in Nat
         /\ Cardinality(S) <= Cardinality(Slots)
BY SlotsAssumption, FS_Subset, FS_CardinalityType

LEMMA FewerSlots ==
  ASSUME NEW S \in SUBSET Slots, NEW T \in SUBSET S
  PROVE  Cardinality(T) <= Cardinality(S)
BY SomeSlots, FS_Subset

LEMMA InitIInv == Init => IInv
<1> SUFFICES ASSUME Init PROVE IInv
  OBVIOUS
<1>1. Typed
  <2>1. OldRun \in Runs
    BY DEF OldRun, Runs, Everyone
  <2>2. runs = {} \/ runs = {OldRun}
    BY DEF Init
  <2>3. runs \subseteq Runs
    BY <2>1, <2>2
  <2>4. IsFiniteSet(runs)
    <3>1. IsFiniteSet({}) /\ \A r : IsFiniteSet({r})
      BY FS_EmptySet, FS_Singleton
    <3>2. QED
      BY <2>2, <3>1, ZenonT(30)
  <2>5. request \in [Slots -> Requests]
    BY NoRequestTyped DEF Init
  <2>6. authEnabled \in BOOLEAN /\ indexed \in BOOLEAN
    BY Zenon DEF Init
  <2>7. /\ now \in Int /\ cached \in Int /\ lost \in Nat
        /\ table \in {"absent", "old", "current"}
    BY DEF Init, NotCached
  <2>8. QED
    BY <2>3, <2>4, <2>5, <2>6, <2>7 DEF Typed
<1>2. Checked
  BY DEF Init, Checked, NoRequest
<1>3. Scoped
  BY CallersAssumption DEF Init, Scoped, Owned, OldRun, NoRequest, TenantOrLocal
<1>4. Bounded
  BY DEF Init, Bounded
<1>5. QED
  BY <1>1, <1>2, <1>3, <1>4 DEF IInv

-----------------------------------------------------------------------------
(* Types.                                                                  *)

(* Every action of a slot replaces that slot's request by one of its type. *)
LEMMA Replaced ==
  ASSUME Typed, NEW s \in Slots, NEW r \in Requests,
         request' = [request EXCEPT ![s] = r]
  PROVE  /\ request' \in [Slots -> Requests]
         /\ request'[s] = r
         /\ \A x \in Slots : x # s => request'[x] = request[x]
BY DEF Typed

LEMMA StartReplaces ==
  ASSUME Typed, NEW s \in Slots, NEW op \in {"record", "history", "trends"},
         NEW c \in Everyone, NEW t \in Tenants \cup {Local}, NEW at \in Int,
         Start(s, op, c, t, at)
  PROVE  /\ request' \in [Slots -> Requests]
         /\ request'[s] = [pc |-> "tables", op |-> op, caller |-> c, tenant |-> t,
                           at |-> at, arrived |-> now, shown |-> {}]
         /\ \A x \in Slots : x # s => request'[x] = request[x]
<1> DEFINE r == [pc |-> "tables", op |-> op, caller |-> c, tenant |-> t,
                 at |-> at, arrived |-> now, shown |-> {}]
<1>1. r \in Requests
  BY DEF Typed, Requests
<1>2. request' = [request EXCEPT ![s] = r]
  BY DEF Start
<1>3. QED
  BY <1>1, <1>2, Replaced

LEMMA ContinueReplaces ==
  ASSUME Typed, NEW s \in Slots,
         NEW pc \in {"idle", "tables", "index", "columns", "alter", "query"},
         Continue(s, pc)
  PROVE  /\ request' \in [Slots -> Requests]
         /\ request'[s] = [request[s] EXCEPT !.pc = pc]
         /\ \A x \in Slots : x # s => request'[x] = request[x]
<1> DEFINE r == [request[s] EXCEPT !.pc = pc]
<1>1. r \in Requests
  BY DEF Typed, Requests
<1>2. request' = [request EXCEPT ![s] = r]
  BY DEF Continue
<1>3. QED
  BY <1>1, <1>2, Replaced

LEMMA GiveUpReplaces ==
  ASSUME Typed, NEW s \in Slots, GiveUp(s)
  PROVE  /\ request' \in [Slots -> Requests]
         /\ request'[s] = [NoRequest EXCEPT !.op = request[s].op]
         /\ \A x \in Slots : x # s => request'[x] = request[x]
<1> DEFINE r == [NoRequest EXCEPT !.op = request[s].op]
<1>1. r \in Requests
  BY NoRequestTyped DEF Typed, Requests
<1>2. request' = [request EXCEPT ![s] = r]
  BY DEF GiveUp
<1>3. QED
  BY <1>1, <1>2, Replaced

-----------------------------------------------------------------------------
(* The parts that most actions keep in the same way.                       *)

(* Nobody else starts to add the column, and the table stays as it is.     *)
LEMMA BoundedKept ==
  ASSUME IInv, table' = table, lost' = lost, Altering' \subseteq Altering
  PROVE  Bounded'
<1>1. Altering \in SUBSET Slots /\ Altering' \in SUBSET Slots
  BY DEF Altering
<1>2. /\ Cardinality(Altering) \in Nat /\ Cardinality(Altering') \in Nat
      /\ Cardinality(Slots) \in Nat /\ Cardinality(Altering') <= Cardinality(Altering)
  BY <1>1, SomeSlots, FewerSlots
<1>3. QED
  BY <1>2 DEF IInv, Bounded, Typed

(* Nobody's operation, caller or answer changes.                           *)
LEMMA ScopedKept ==
  ASSUME Scoped, runs' = runs, NEW s \in Slots,
         request'[s].op = request[s].op, request'[s].caller = request[s].caller,
         request'[s].tenant = request[s].tenant, request'[s].shown = request[s].shown,
         \A x \in Slots : x # s => request'[x] = request[x]
  PROVE  Scoped'
<1>1. \A r \in runs' : Owned(r)
  BY DEF Scoped
<1>2. ASSUME NEW x \in Slots
      PROVE  /\ request'[x].op = request[x].op /\ request'[x].caller = request[x].caller
             /\ request'[x].tenant = request[x].tenant
             /\ request'[x].shown = request[x].shown
  BY <1>2
<1>3. QED
  BY <1>1, <1>2 DEF Scoped, Owned

(* A request starts.                                                       *)
LEMMA StartIInv ==
  ASSUME IInv, NEW s \in Slots, NEW op \in {"record", "history", "trends"},
         NEW c \in Everyone, NEW t \in Tenants \cup {Local}, NEW at \in Int,
         request[s].pc = "idle", Start(s, op, c, t, at),
         op = "record" => t = TenantOrLocal(c),
         op # "record" => t = c,
         cached' \in Int, UNCHANGED <<authEnabled, now, table, indexed, runs, lost>>
  PROVE  IInv'
<1>1. /\ request' \in [Slots -> Requests]
      /\ request'[s] = [pc |-> "tables", op |-> op, caller |-> c, tenant |-> t,
                        at |-> at, arrived |-> now, shown |-> {}]
      /\ \A x \in Slots : x # s => request'[x] = request[x]
  BY StartReplaces DEF IInv
<1>2. Typed'
  BY <1>1 DEF IInv, Typed
<1>3. Checked'
  BY <1>1 DEF IInv, Checked
<1>4. Scoped'
  BY <1>1 DEF IInv, Scoped, Owned, TenantOrLocal
<1>5. Altering' \subseteq Altering
  BY <1>1 DEF Altering
<1>6. Bounded'
  BY <1>5, BoundedKept
<1>7. QED
  BY <1>2, <1>3, <1>4, <1>6 DEF IInv

(* A request gives up.                                                     *)
LEMMA GiveUpIInv ==
  ASSUME IInv, NEW s \in Slots, GiveUp(s),
         UNCHANGED <<authEnabled, now, table, indexed, runs, cached, lost>>
  PROVE  IInv'
<1>1. /\ request' \in [Slots -> Requests]
      /\ request'[s] = [NoRequest EXCEPT !.op = request[s].op]
      /\ \A x \in Slots : x # s => request'[x] = request[x]
  BY GiveUpReplaces DEF IInv
<1>2. Typed'
  BY <1>1 DEF IInv, Typed
<1>3. Checked'
  BY <1>1 DEF IInv, Checked, NoRequest
<1>4. Scoped'
  BY <1>1, CallersAssumption DEF IInv, Scoped, Owned, TenantOrLocal, NoRequest
<1>5. Altering' \subseteq Altering
  BY <1>1 DEF Altering, NoRequest
<1>6. Bounded'
  BY <1>5, BoundedKept
<1>7. QED
  BY <1>2, <1>3, <1>4, <1>6 DEF IInv

(* A request goes on with the schema check, and the table does not change. *)
LEMMA ContinueIInv ==
  ASSUME IInv, NEW s \in Slots, NEW pc \in {"index", "columns", "alter", "query"},
         Continue(s, pc), indexed' \in BOOLEAN, indexed = TRUE => indexed' = TRUE,
         UNCHANGED <<authEnabled, now, table, runs, cached, lost>>,
         table # "absent",
         pc # "index" => indexed' = TRUE,
         pc = "query" => table = "current",
         pc = "alter" => table = "old"
  PROVE  IInv'
<1>1. /\ request' \in [Slots -> Requests]
      /\ request'[s] = [request[s] EXCEPT !.pc = pc]
      /\ \A x \in Slots : x # s => request'[x] = request[x]
  BY ContinueReplaces DEF IInv
<1>2. /\ request[s] \in Requests
      /\ request'[s].pc = pc /\ request'[s].op = request[s].op
      /\ request'[s].caller = request[s].caller /\ request'[s].tenant = request[s].tenant
      /\ request'[s].shown = request[s].shown
  BY <1>1 DEF IInv, Typed, Requests
<1>3. Typed'
  BY <1>1 DEF IInv, Typed
<1>4. Checked'
  BY <1>1, <1>2 DEF IInv, Checked
<1>5. Scoped'
  BY <1>1, <1>2, ScopedKept DEF IInv
<1>6. Bounded'
  <2>1. CASE table = "current"
    <3>1. Altering' \subseteq Altering
      BY <1>1, <1>2, <2>1 DEF Altering
    <3>2. QED
      BY <3>1, BoundedKept
  <2>2. CASE table # "current"
    BY <2>2 DEF IInv, Bounded
  <2>3. QED
    BY <2>1, <2>2
<1>7. QED
  BY <1>3, <1>4, <1>5, <1>6 DEF IInv

LEMMA AnalyzeIInv == ASSUME IInv, NEW s \in Slots, Analyze(s) PROVE IInv'
<1>1. PICK c \in Callers :
        \/ cached' \in {now, cached} /\ Start(s, "record", c, TenantOrLocal(c), now)
        \/ /\ cached # NotCached /\ now - cached < TTL
           /\ Start(s, "record", c, TenantOrLocal(c), cached)
           /\ UNCHANGED cached
  BY DEF Analyze
<1>2. c \in Everyone /\ TenantOrLocal(c) \in Tenants \cup {Local}
  BY DEF Callers, Everyone, TenantOrLocal
<1>3. /\ request[s].pc = "idle" /\ now \in Int /\ cached \in Int
      /\ UNCHANGED <<authEnabled, now, table, indexed, runs, lost>>
  BY DEF Analyze, Idle, IInv, Typed
<1>4. cached' \in Int
  BY <1>1, <1>3
<1>5. QED
  BY <1>1, <1>2, <1>3, <1>4, StartIInv

LEMMA AnalyzeLiveIInv == ASSUME IInv, NEW s \in Slots, AnalyzeLive(s) PROVE IInv'
<1>1. PICK c \in Callers \ {Stranger} : Start(s, "record", c, c, now)
  BY DEF AnalyzeLive
<1>2. c \in Everyone /\ c \in Tenants \cup {Local} /\ c = TenantOrLocal(c)
  BY DEF Callers, Everyone, TenantOrLocal
<1>3. /\ request[s].pc = "idle" /\ now \in Int /\ cached' \in Int
      /\ UNCHANGED <<authEnabled, now, table, indexed, runs, lost>>
  BY DEF AnalyzeLive, Idle, IInv, Typed
<1>4. QED
  BY <1>1, <1>2, <1>3, StartIInv

LEMMA ReadHistoryIInv == ASSUME IInv, NEW s \in Slots, ReadHistory(s) PROVE IInv'
<1>1. PICK c \in Callers \ {Stranger}, op \in {"history", "trends"} :
        Start(s, op, c, c, now)
  BY DEF ReadHistory
<1>2. c \in Everyone /\ c \in Tenants \cup {Local}
  BY DEF Callers, Everyone
<1>3. /\ request[s].pc = "idle" /\ now \in Int /\ cached' \in Int
      /\ UNCHANGED <<authEnabled, now, table, indexed, runs, lost>>
  BY DEF ReadHistory, Idle, IInv, Typed
<1>4. QED
  BY <1>1, <1>2, <1>3, StartIInv

-----------------------------------------------------------------------------
(* The statements of the schema check.                                     *)

(* With no table there is nobody who has got beyond its creation.          *)
LEMMA CreateTablesIInv == ASSUME IInv, NEW s \in Slots, CreateTables(s) PROVE IInv'
<1>1. CASE table # "absent"
  <2>1. table' = table /\ Continue(s, "index") /\ indexed' \in BOOLEAN
    BY <1>1 DEF CreateTables, IInv, Typed
  <2>2. UNCHANGED <<authEnabled, now, table, indexed, runs, cached, lost>>
    BY <2>1 DEF CreateTables
  <2>3. QED
    BY <1>1, <2>1, <2>2, ContinueIInv
<1>2. CASE table = "absent"
  <2>1. /\ table' = "current"
        /\ Continue(s, "index")
        /\ UNCHANGED <<authEnabled, now, indexed, runs, cached, lost>>
    BY <1>2 DEF CreateTables
  <2>2. /\ request' \in [Slots -> Requests]
        /\ request'[s] = [request[s] EXCEPT !.pc = "index"]
        /\ \A x \in Slots : x # s => request'[x] = request[x]
    BY <2>1, ContinueReplaces DEF IInv
  <2>3. /\ request'[s].pc = "index" /\ request'[s].op = request[s].op
        /\ request'[s].caller = request[s].caller /\ request'[s].tenant = request[s].tenant
        /\ request'[s].shown = request[s].shown
    BY <2>2 DEF IInv, Typed, Requests
  <2>4. Typed'
    BY <2>1, <2>2 DEF IInv, Typed
  <2>5. Checked'
    BY <1>2, <2>1, <2>2, <2>3 DEF IInv, Checked
  <2>6. Scoped'
    BY <2>1, <2>2, <2>3, ScopedKept DEF IInv
  <2>7. Bounded'
    <3>1. Altering' = {}
      BY <1>2, <2>2, <2>3 DEF IInv, Checked, Altering
    <3>2. Cardinality(Slots) \in Nat /\ Cardinality(Slots) # 0
      BY SlotsAssumption, FS_CardinalityType, FS_EmptySet
    <3>3. lost' = 0
      BY <1>2, <2>1 DEF IInv, Bounded
    <3>4. QED
      BY <3>1, <3>2, <3>3, <2>1, FS_EmptySet DEF Bounded
  <2>8. QED
    BY <2>4, <2>5, <2>6, <2>7 DEF IInv
<1>3. QED
  BY <1>1, <1>2

LEMMA CreateIndexIInv == ASSUME IInv, NEW s \in Slots, CreateIndex(s) PROVE IInv'
<1>1. UNCHANGED <<authEnabled, now, table, runs, cached, lost>> /\ request[s].pc = "index"
  BY DEF CreateIndex, At
<1>2. CASE GiveUp(s) /\ UNCHANGED indexed
  BY <1>1, <1>2, GiveUpIInv
<1>3. CASE indexed' = TRUE /\ Continue(s, "columns")
  <2>1. table # "absent"
    BY <1>1 DEF IInv, Checked
  <2>2. QED
    BY <1>1, <1>3, <2>1, ContinueIInv
<1>4. QED
  BY <1>2, <1>3 DEF CreateIndex

LEMMA ReadColumnsIInv == ASSUME IInv, NEW s \in Slots, ReadColumns(s) PROVE IInv'
<1>1. /\ UNCHANGED <<authEnabled, now, table, indexed, runs, cached, lost>>
      /\ request[s].pc = "columns"
      /\ Continue(s, IF table = "old" THEN "alter" ELSE "query")
  BY DEF ReadColumns, At
<1>2. table \in {"old", "current"} /\ indexed = TRUE /\ indexed' = TRUE
  BY <1>1 DEF IInv, Checked, Typed
<1>3. CASE table = "old"
  BY <1>1, <1>2, <1>3, ContinueIInv
<1>4. CASE table = "current"
  BY <1>1, <1>2, <1>4, ContinueIInv
<1>5. QED
  BY <1>2, <1>3, <1>4

(* Whoever adds the column leaves the set of those that want to; whoever   *)
(* finds it there leaves it as well, and pays with its run.                *)
LEMMA AlterTableIInv == ASSUME IInv, NEW s \in Slots, AlterTable(s) PROVE IInv'
<1>1. /\ UNCHANGED <<authEnabled, now, indexed, runs, cached>>
      /\ request[s].pc = "alter" /\ s \in Altering
  BY DEF AlterTable, At, Altering
<1>2. /\ Altering \in SUBSET Slots /\ Cardinality(Altering) \in Nat
      /\ Cardinality(Slots) \in Nat /\ Cardinality(Altering) <= Cardinality(Slots)
      /\ Cardinality(Altering \ {s}) = Cardinality(Altering) - 1
  <2>1. Altering \in SUBSET Slots
    BY DEF Altering
  <2>2. QED
    BY <2>1, <1>1, SomeSlots, FS_RemoveElement
<1>3. CASE table = "old" /\ table' = "current" /\ Continue(s, "query") /\ UNCHANGED lost
  <2>1. /\ request' \in [Slots -> Requests]
        /\ request'[s] = [request[s] EXCEPT !.pc = "query"]
        /\ \A x \in Slots : x # s => request'[x] = request[x]
    BY <1>3, ContinueReplaces DEF IInv
  <2>2. /\ request'[s].pc = "query" /\ request'[s].op = request[s].op
        /\ request'[s].caller = request[s].caller /\ request'[s].tenant = request[s].tenant
        /\ request'[s].shown = request[s].shown
    BY <2>1 DEF IInv, Typed, Requests
  <2>3. Typed'
    BY <1>1, <1>3, <2>1 DEF IInv, Typed
  <2>4. Checked'
    BY <1>1, <1>3, <2>1, <2>2 DEF IInv, Checked
  <2>5. Scoped'
    BY <1>1, <2>1, <2>2, ScopedKept DEF IInv
  <2>6. Bounded'
    <3>1. Altering' = Altering \ {s}
      BY <2>1, <2>2 DEF Altering
    <3>2. QED
      BY <1>2, <1>3, <3>1 DEF IInv, Bounded
  <2>7. QED
    BY <2>3, <2>4, <2>5, <2>6 DEF IInv
<1>4. CASE /\ table # "old" /\ GiveUp(s) /\ UNCHANGED table
           /\ lost' = IF request[s].op = "record" THEN lost + 1 ELSE lost
  <2>1. /\ request' \in [Slots -> Requests]
        /\ request'[s] = [NoRequest EXCEPT !.op = request[s].op]
        /\ \A x \in Slots : x # s => request'[x] = request[x]
    BY <1>4, GiveUpReplaces DEF IInv
  <2>2. /\ lost' \in Nat /\ lost' <= lost + 1 /\ lost \in Nat
    BY <1>4 DEF IInv, Typed
  <2>3. Typed'
    BY <1>1, <1>4, <2>1, <2>2 DEF IInv, Typed
  <2>4. Checked'
    BY <1>1, <1>4, <2>1 DEF IInv, Checked, NoRequest
  <2>5. Scoped'
    BY <1>1, <2>1, CallersAssumption DEF IInv, Scoped, Owned, TenantOrLocal, NoRequest
  <2>6. Bounded'
    <3>1. Altering' = Altering \ {s}
      BY <2>1 DEF Altering, NoRequest
    <3>2. table = "current"
      BY <1>1, <1>4 DEF IInv, Checked, Typed
    <3>3. QED
      BY <1>2, <1>4, <2>2, <3>1, <3>2 DEF IInv, Bounded
  <2>7. QED
    BY <2>3, <2>4, <2>5, <2>6 DEF IInv
<1>5. QED
  BY <1>3, <1>4 DEF AlterTable

-----------------------------------------------------------------------------
(* The queries, the failures and the clock.                                *)

LEMMA InsertIInv == ASSUME IInv, NEW s \in Slots, Insert(s) PROVE IInv'
<1> DEFINE row == [id |-> Cardinality(runs) + 1, tenant |-> request[s].tenant,
                   by |-> request[s].caller, at |-> request[s].at,
                   arrived |-> request[s].arrived]
<1>1. /\ request[s].op = "record" /\ request[s] \in Requests
      /\ runs' = runs \cup {row} /\ request' = [request EXCEPT ![s] = NoRequest]
      /\ UNCHANGED <<authEnabled, now, table, indexed, cached, lost>>
  BY DEF Insert, IInv, Typed
<1>2. /\ request' \in [Slots -> Requests] /\ request'[s] = NoRequest
      /\ \A x \in Slots : x # s => request'[x] = request[x]
  BY <1>1, NoRequestTyped, Replaced DEF IInv
<1>3. Typed'
  <2>1. row \in Runs
    BY <1>1, FS_CardinalityType DEF IInv, Typed, Requests, Runs
  <2>2. runs' \subseteq Runs /\ IsFiniteSet(runs')
    BY <1>1, <2>1, FS_AddElement DEF IInv, Typed
  <2>3. QED
    BY <1>1, <1>2, <2>2 DEF IInv, Typed
<1>4. Checked'
  BY <1>1, <1>2 DEF IInv, Checked, NoRequest
<1>5. Scoped'
  <2>1. Owned(row)
    BY <1>1 DEF IInv, Scoped, Owned
  <2>2. \A r \in runs' : Owned(r)
    BY <1>1, <2>1 DEF IInv, Scoped
  <2>3. QED
    BY <2>2, <1>2, CallersAssumption DEF IInv, Scoped, Owned, TenantOrLocal, NoRequest
<1>6. Altering' \subseteq Altering
  BY <1>2 DEF Altering, NoRequest
<1>7. Bounded'
  BY <1>1, <1>6, BoundedKept
<1>8. QED
  BY <1>3, <1>4, <1>5, <1>7 DEF IInv

LEMMA SelectIInv == ASSUME IInv, NEW s \in Slots, Select(s) PROVE IInv'
<1>1. PICK page \in SUBSET Matching(request[s].tenant) :
        request' = [request EXCEPT ![s].pc = "idle", ![s].shown = page]
  BY DEF Select
<1>2. /\ request[s].op # "record" /\ request[s] \in Requests
      /\ UNCHANGED <<authEnabled, now, table, indexed, runs, cached, lost>>
  BY DEF Select, IInv, Typed
<1>3. page \in SUBSET Runs /\ \A r \in page : Owned(r) /\ r.tenant = request[s].tenant
  BY <1>1 DEF IInv, Typed, Scoped, Matching
<1> DEFINE new == [request[s] EXCEPT !.pc = "idle", !.shown = page]
<1>4. new \in Requests
  BY <1>2, <1>3 DEF Requests
<1>5. request' = [request EXCEPT ![s] = new]
  BY <1>1
<1>6. /\ request' \in [Slots -> Requests] /\ request'[s] = new
      /\ \A x \in Slots : x # s => request'[x] = request[x]
  BY <1>4, <1>5, Replaced DEF IInv
<1>7. /\ request'[s].pc = "idle" /\ request'[s].op = request[s].op
      /\ request'[s].caller = request[s].caller /\ request'[s].tenant = request[s].tenant
      /\ request'[s].shown = page
  BY <1>2, <1>6 DEF Requests
<1> HIDE DEF new
<1>8. Typed'
  BY <1>2, <1>6 DEF IInv, Typed
<1>9. Checked'
  BY <1>2, <1>6, <1>7 DEF IInv, Checked
<1>10. Scoped'
  BY <1>2, <1>3, <1>6, <1>7 DEF IInv, Scoped, Owned
<1>11. Altering' \subseteq Altering
  BY <1>6, <1>7 DEF Altering
<1>12. Bounded'
  BY <1>2, <1>11, BoundedKept
<1>13. QED
  BY <1>8, <1>9, <1>10, <1>12 DEF IInv

LEMMA RestartIInv == ASSUME IInv, Restart PROVE IInv'
<1>1. /\ authEnabled' \in BOOLEAN /\ cached' = -1
      /\ request' = [s \in Slots |-> NoRequest]
      /\ UNCHANGED <<now, table, indexed, runs, lost>>
  BY DEF Restart, NotCached
<1>2. Typed'
  BY <1>1, NoRequestTyped DEF IInv, Typed
<1>3. Checked'
  BY <1>1 DEF Checked, NoRequest
<1>4. Scoped'
  BY <1>1, CallersAssumption DEF IInv, Scoped, Owned, TenantOrLocal, NoRequest
<1>5. Altering' \subseteq Altering
  BY <1>1 DEF Altering, NoRequest
<1>6. Bounded'
  BY <1>1, <1>5, BoundedKept
<1>7. QED
  BY <1>2, <1>3, <1>4, <1>6 DEF IInv

LEMMA TickIInv == ASSUME IInv, Tick PROVE IInv'
BY DEF Tick, IInv, Typed, Checked, Scoped, Bounded, Owned, Altering

LEMMA NextIInv == IInv /\ [Next]_vars => IInv'
<1> SUFFICES ASSUME IInv, [Next]_vars PROVE IInv'
  OBVIOUS
<1>1. ASSUME NEW s \in Slots, Analyze(s) \/ AnalyzeLive(s) \/ ReadHistory(s) PROVE IInv'
  BY <1>1, AnalyzeIInv, AnalyzeLiveIInv, ReadHistoryIInv
<1>2. ASSUME NEW s \in Slots, Ensure(s) PROVE IInv'
  BY <1>2, CreateTablesIInv, CreateIndexIInv, ReadColumnsIInv, AlterTableIInv DEF Ensure
<1>3. ASSUME NEW s \in Slots, Query(s) PROVE IInv'
  BY <1>3, InsertIInv, SelectIInv DEF Query
<1>4. ASSUME NEW s \in Slots, StorageFails(s) PROVE IInv'
  BY <1>4, GiveUpIInv DEF StorageFails
<1>5. CASE UNCHANGED vars
  BY <1>5 DEF vars, IInv, Typed, Checked, Scoped, Bounded, Owned, Altering
<1>6. QED
  BY <1>1, <1>2, <1>3, <1>4, <1>5, RestartIInv, TickIInv DEF Next

-----------------------------------------------------------------------------
(* The inductive invariant holds in every reachable state of History.      *)
THEOREM Invariance == Spec => []IInv
BY InitIInv, NextIInv, PTL DEF Spec

(* No query of fetch_history, fetch_trends or insert_analysis_run reaches  *)
(* a table without tenant_id or without its index.                         *)
THEOREM QueriesAlwaysMeetSchema == Spec => []QueriesMeetSchema
<1>1. IInv => QueriesMeetSchema
  BY DEF IInv, Checked, QueriesMeetSchema, At
<1>2. QED
  BY <1>1, Invariance, PTL

(* get_history and get_trends show a caller the runs of its own tenant.    *)
THEOREM OwnRunsAlways == Spec => []OwnRunsOnly
<1>1. IInv => OwnRunsOnly
  BY DEF IInv, Scoped, Owned, TenantOrLocal, OwnRunsOnly
<1>2. QED
  BY <1>1, Invariance, PTL

(* The unserialised migration of _ensure_initialized costs fewer runs than *)
(* there are requests at a time, in the whole life of the database.        *)
THEOREM MigrationAlwaysLosesFew == Spec => []MigrationLosesFew
<1>1. IInv => MigrationLosesFew
  <2>1. Cardinality(Slots) \in Nat /\ Cardinality(Slots) # 0
    BY SlotsAssumption, FS_CardinalityType, FS_EmptySet
  <2>2. Altering \in SUBSET Slots
    BY DEF Altering
  <2>3. Cardinality(Altering) \in Nat
    BY <2>2, SomeSlots
  <2>4. QED
    BY <2>1, <2>3 DEF IInv, Bounded, Typed, MigrationLosesFew
<1>2. QED
  BY <1>1, Invariance, PTL
-----------------------------------------------------------------------------
(* The bounds: times are those of the clock, a run gets an id above all    *)
(* others, and no page is longer than its limit.                           *)

Fits(r) ==
  /\ r.at \in 0 .. MaxTime /\ r.arrived \in 0 .. MaxTime
  /\ r.shown \subseteq Rows /\ Cardinality(r.shown) <= Limit

RunsFit ==
  /\ runs \subseteq Rows
  /\ \A r \in runs : r.id <= Cardinality(runs)
  /\ \A r, q \in runs : r.id = q.id => r = q

Within ==
  /\ now \in 0 .. MaxTime /\ cached \in 0 .. MaxTime \cup {NotCached}
  /\ RunsFit
  /\ \A s \in Slots : Fits(request[s])

LEMMA NoRequestFits ==
  /\ Fits(NoRequest)
  /\ \A op \in {"record", "history", "trends"} : Fits([NoRequest EXCEPT !.op = op])
<1>1. /\ 0 \in 0 .. MaxTime /\ Cardinality({}) = 0 /\ 0 <= Limit
  BY NumbersAssumption, FS_EmptySet
<1>2. /\ NoRequest.at = 0 /\ NoRequest.arrived = 0 /\ NoRequest.shown = {}
  BY DEF NoRequest
<1>3. ASSUME NEW op \in {"record", "history", "trends"}
      PROVE  /\ [NoRequest EXCEPT !.op = op].at = 0
             /\ [NoRequest EXCEPT !.op = op].arrived = 0
             /\ [NoRequest EXCEPT !.op = op].shown = {}
  BY DEF NoRequest
<1>4. Fits(NoRequest)
  BY <1>1, <1>2 DEF Fits
<1>5. \A op \in {"record", "history", "trends"} : Fits([NoRequest EXCEPT !.op = op])
  BY <1>1, <1>3 DEF Fits
<1>6. QED
  BY <1>4, <1>5

LEMMA WithinInit == Init => Within
<1> SUFFICES ASSUME Init PROVE Within
  OBVIOUS
<1>1. now \in 0 .. MaxTime /\ cached = NotCached
  BY NumbersAssumption DEF Init
<1>2. CASE runs = {}
  BY <1>1, <1>2, NoRequestFits DEF Init, Within, RunsFit
<1>3. CASE runs = {OldRun}
  <2>1. Cardinality(runs) = 1
    BY <1>3, FS_Singleton
  <2>2. 0 \in 0 .. MaxTime /\ 0 \in 0 .. (MaxRuns + 1)
    BY NumbersAssumption
  <2>3. OldRun \in Rows /\ OldRun.id = 0
    BY <2>2 DEF OldRun, Rows
  <2>4. RunsFit
    BY <1>3, <2>1, <2>3 DEF RunsFit
  <2>5. QED
    BY <1>1, <2>4, NoRequestFits DEF Init, Within
<1>4. QED
  BY <1>2, <1>3 DEF Init

(* The frame of most steps: the runs stay, and one request is replaced.    *)
LEMMA OneFits ==
  ASSUME Within, NEW s \in Slots, Fits(request'[s]), runs' = runs,
         \A x \in Slots : x # s => request'[x] = request[x],
         now' = now, cached' \in 0 .. MaxTime \cup {NotCached}
  PROVE  Within'
<1>1. \A x \in Slots : Fits(request'[x])
  BY DEF Within
<1>2. RunsFit'
  BY DEF Within, RunsFit
<1>3. QED
  BY <1>1, <1>2 DEF Within

LEMMA StartFits ==
  ASSUME IInv, Within, NEW s \in Slots, NEW op \in {"record", "history", "trends"},
         NEW c \in Everyone, NEW t \in Tenants \cup {Local}, NEW at \in 0 .. MaxTime,
         Start(s, op, c, t, at), runs' = runs, now' = now,
         cached' \in 0 .. MaxTime \cup {NotCached}
  PROVE  Within'
<1>1. /\ request'[s] = [pc |-> "tables", op |-> op, caller |-> c, tenant |-> t,
                        at |-> at, arrived |-> now, shown |-> {}]
      /\ \A x \in Slots : x # s => request'[x] = request[x]
  BY StartReplaces DEF IInv
<1>2. /\ request'[s].at = at /\ request'[s].arrived = now /\ request'[s].shown = {}
  BY <1>1
<1>3. Cardinality({}) = 0 /\ 0 <= Limit
  BY NumbersAssumption, FS_EmptySet
<1>4. Fits(request'[s])
  BY <1>2, <1>3 DEF Fits, Within
<1>5. QED
  BY <1>1, <1>4, OneFits

LEMMA ContinueFits ==
  ASSUME IInv, Within, NEW s \in Slots,
         NEW pc \in {"index", "columns", "alter", "query"}, Continue(s, pc),
         UNCHANGED <<now, runs, cached>>
  PROVE  Within'
<1>1. /\ request'[s] = [request[s] EXCEPT !.pc = pc]
      /\ \A x \in Slots : x # s => request'[x] = request[x]
  BY ContinueReplaces DEF IInv
<1>2. /\ request'[s].at = request[s].at /\ request'[s].arrived = request[s].arrived
      /\ request'[s].shown = request[s].shown
  BY <1>1 DEF IInv, Typed, Requests
<1>3. Fits(request'[s])
  BY <1>2 DEF Fits, Within
<1>4. QED
  BY <1>1, <1>3, OneFits DEF Within

LEMMA GiveUpFits ==
  ASSUME IInv, Within, NEW s \in Slots, GiveUp(s), UNCHANGED <<now, runs, cached>>
  PROVE  Within'
<1>1. /\ request'[s] = [NoRequest EXCEPT !.op = request[s].op]
      /\ \A x \in Slots : x # s => request'[x] = request[x]
  BY GiveUpReplaces DEF IInv
<1>2. request[s].op \in {"record", "history", "trends"}
  BY DEF IInv, Typed, Requests
<1>3. Fits(request'[s])
  BY <1>1, <1>2, NoRequestFits
<1>4. QED
  BY <1>1, <1>3, OneFits DEF Within

LEMMA ArrivalFits ==
  ASSUME IInv, Within, NEW s \in Slots, Analyze(s) \/ AnalyzeLive(s) \/ ReadHistory(s)
  PROVE  Within'
<1>1. runs' = runs /\ now' = now
  BY DEF Analyze, AnalyzeLive, ReadHistory
<1>2. now \in 0 .. MaxTime /\ cached \in 0 .. MaxTime \cup {NotCached}
  BY DEF Within
<1>3. CASE Analyze(s)
  <2>1. PICK c \in Callers :
          \/ cached' \in {now, cached} /\ Start(s, "record", c, TenantOrLocal(c), now)
          \/ /\ cached # NotCached /\ Start(s, "record", c, TenantOrLocal(c), cached)
             /\ UNCHANGED cached
    BY <1>3 DEF Analyze
  <2>2. c \in Everyone /\ TenantOrLocal(c) \in Tenants \cup {Local}
    BY DEF Callers, Everyone, TenantOrLocal
  <2>3. cached' \in 0 .. MaxTime \cup {NotCached}
    BY <1>2, <2>1
  <2>4. QED
    BY <1>1, <1>2, <2>1, <2>2, <2>3, StartFits
<1>4. CASE AnalyzeLive(s)
  <2>1. PICK c \in Callers \ {Stranger} : Start(s, "record", c, c, now)
    BY <1>4 DEF AnalyzeLive
  <2>2. c \in Everyone /\ c \in Tenants \cup {Local} /\ cached' = cached
    BY <1>4 DEF Callers, Everyone, AnalyzeLive
  <2>3. QED
    BY <1>1, <1>2, <2>1, <2>2, StartFits
<1>5. CASE ReadHistory(s)
  <2>1. PICK c \in Callers \ {Stranger}, op \in {"history", "trends"} :
          Start(s, op, c, c, now)
    BY <1>5 DEF ReadHistory
  <2>2. c \in Everyone /\ c \in Tenants \cup {Local} /\ cached' = cached
    BY <1>5 DEF Callers, Everyone, ReadHistory
  <2>3. QED
    BY <1>1, <1>2, <2>1, <2>2, StartFits
<1>6. QED
  BY <1>3, <1>4, <1>5

LEMMA EnsureFits ==
  ASSUME IInv, Within, NEW s \in Slots, Ensure(s) PROVE Within'
<1>1. UNCHANGED <<now, runs, cached>>
  BY DEF Ensure, CreateTables, CreateIndex, ReadColumns, AlterTable
<1>2. GiveUp(s) \/ \E pc \in {"index", "columns", "alter", "query"} : Continue(s, pc)
  BY DEF Ensure, CreateTables, CreateIndex, ReadColumns, AlterTable
<1>3. QED
  BY <1>1, <1>2, GiveUpFits, ContinueFits

(* The id of the new run is above all others, also after an old run's 0.   *)
LEMMA InsertFits ==
  ASSUME IInv, Within, NEW s \in Slots, Insert(s) PROVE Within'
<1> DEFINE row == [id |-> Cardinality(runs) + 1, tenant |-> request[s].tenant,
                   by |-> request[s].caller, at |-> request[s].at,
                   arrived |-> request[s].arrived]
<1>1. /\ request[s] \in Requests /\ Fits(request[s]) /\ Cardinality(runs) < MaxRuns
      /\ runs' = runs \cup {row} /\ request' = [request EXCEPT ![s] = NoRequest]
      /\ UNCHANGED <<now, cached>>
  BY DEF Insert, IInv, Typed, Within
<1>2. Cardinality(runs) \in Nat /\ IsFiniteSet(runs) /\ MaxRuns \in Nat
  BY FS_CardinalityType, NumbersAssumption DEF IInv, Typed
<1>3. /\ request'[s] = NoRequest
      /\ \A x \in Slots : x # s => request'[x] = request[x]
  BY <1>1, NoRequestTyped, Replaced DEF IInv
<1>4. \A x \in Slots : Fits(request'[x])
  BY <1>3, NoRequestFits DEF Within
<1>5. row.id = Cardinality(runs) + 1
  OBVIOUS
<1>6. row \in Rows
  <2>1. Cardinality(runs) + 1 \in 0 .. (MaxRuns + 1)
    BY <1>1, <1>2
  <2>2. QED
    BY <1>1, <2>1 DEF Requests, Rows, Fits, Everyone
<1> HIDE DEF row
<1>7. \A r \in runs : r.id \in Int /\ r.id <= Cardinality(runs)
  <2>1. \A r \in Rows : r.id \in Int
    BY DEF Rows
  <2>2. QED
    BY <2>1 DEF Within, RunsFit
<1>8. row \notin runs
  BY <1>2, <1>5, <1>7
<1>9. Cardinality(runs') = Cardinality(runs) + 1
  BY <1>1, <1>2, <1>8, FS_AddElement
<1>10. \A r \in runs' : r.id <= Cardinality(runs')
  BY <1>1, <1>2, <1>5, <1>7, <1>9
<1>11. \A r, q \in runs' : r.id = q.id => r = q
  <2>1. \A r \in runs : r.id # row.id
    BY <1>2, <1>5, <1>7
  <2>2. QED
    BY <1>1, <2>1 DEF Within, RunsFit
<1>12. RunsFit'
  BY <1>1, <1>6, <1>10, <1>11 DEF Within, RunsFit
<1>13. QED
  BY <1>1, <1>4, <1>12 DEF Within

LEMMA SelectFits ==
  ASSUME IInv, Within, NEW s \in Slots, Select(s) PROVE Within'
<1>1. PICK page \in SUBSET Matching(request[s].tenant) :
        /\ Page(request[s].op, Matching(request[s].tenant), page)
        /\ request' = [request EXCEPT ![s].pc = "idle", ![s].shown = page]
  BY DEF Select
<1>2. request[s] \in Requests /\ UNCHANGED <<now, runs, cached>>
  BY DEF Select, IInv, Typed
<1>3. page \subseteq Rows /\ page \subseteq Runs
  BY DEF Matching, Within, RunsFit, IInv, Typed
<1>4. Cardinality(page) <= Limit
  <2>1. IsFiniteSet(Matching(request[s].tenant))
    BY FS_Subset DEF Matching, IInv, Typed
  <2>2. Cardinality(Matching(request[s].tenant)) \in Nat /\ Limit \in Nat
    BY <2>1, FS_CardinalityType, NumbersAssumption
  <2>3. QED
    BY <1>1, <2>2 DEF Page
<1> DEFINE new == [request[s] EXCEPT !.pc = "idle", !.shown = page]
<1>5. new \in Requests
  BY <1>2, <1>3 DEF Requests
<1>6. new.at = request[s].at /\ new.arrived = request[s].arrived /\ new.shown = page
  BY <1>2 DEF Requests
<1>7. request' = [request EXCEPT ![s] = new]
  BY <1>1
<1> HIDE DEF new
<1>8. request'[s] = new /\ \A x \in Slots : x # s => request'[x] = request[x]
  BY <1>5, <1>7, Replaced DEF IInv
<1>9. Fits(new)
  BY <1>3, <1>4, <1>6 DEF Fits, Within
<1>10. QED
  BY <1>2, <1>8, <1>9, OneFits DEF Within

LEMMA WithinNext == IInv /\ Within /\ [Next]_vars => Within'
<1> SUFFICES ASSUME IInv, Within, [Next]_vars PROVE Within'
  OBVIOUS
<1>1. ASSUME NEW s \in Slots, StorageFails(s) PROVE Within'
  BY <1>1, GiveUpFits DEF StorageFails
<1>2. CASE Restart
  <2>1. \A s \in Slots : Fits(request'[s])
    BY <1>2, NoRequestFits DEF Restart
  <2>2. QED
    BY <1>2, <2>1 DEF Restart, Within, RunsFit
<1>3. CASE Tick
  <2>1. now' \in 0 .. MaxTime
    BY <1>3, NumbersAssumption DEF Tick, Within
  <2>2. QED
    BY <1>3, <2>1 DEF Tick, Within, RunsFit
<1>4. CASE UNCHANGED vars
  BY <1>4 DEF vars, Within, RunsFit
<1>5. QED
  BY <1>1, <1>2, <1>3, <1>4, ArrivalFits, EnsureFits, InsertFits, SelectFits DEF Next, Query

(* Everything keeps its type: among the rest, ids stay unique across a     *)
(* migration, and no page of /history is longer than its limit.            *)
THEOREM TypeCorrect == Spec => []TypeOK
<1>1. IInv /\ Within => TypeOK
  <2> SUFFICES ASSUME IInv, Within PROVE TypeOK
    OBVIOUS
  <2>1. ASSUME NEW s \in Slots
        PROVE  /\ request[s].pc \in {"idle", "tables", "index", "columns", "alter", "query"}
               /\ request[s].op \in {"record", "history", "trends"}
               /\ request[s].caller \in Tenants \cup {Local, Stranger}
               /\ request[s].tenant \in Tenants \cup {Local}
    BY DEF IInv, Typed, Requests, Everyone
  <2>2. \A s \in Slots : Fits(request[s])
    BY DEF Within
  <2>3. DOMAIN request = Slots
    BY DEF IInv, Typed
  <2>4. QED
    BY <2>1, <2>2, <2>3 DEF TypeOK, IInv, Typed, Within, RunsFit, Fits
<1>2. Init => Within
  BY WithinInit
<1>3. IInv /\ Within /\ [Next]_vars => Within'
  BY WithinNext
<1>4. QED
  BY <1>1, <1>2, <1>3, Invariance, PTL DEF Spec
=============================================================================
