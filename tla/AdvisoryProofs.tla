----------------------------- MODULE AdvisoryProofs -----------------------------
(***************************************************************************)
(* For any configurations, metrics, limits and proposals: the list of the  *)
(* recommendations is ranked one by one, the most urgent first; what a     *)
(* finding mentions is among them; whoever follows one pays no more; and a *)
(* simulation that loses capacity says so.                                 *)
(*                                                                         *)
(* The chain: the places of a ranked list (Ranked), what a rule can put    *)
(* there (Entry), the facts that a request turns into (Inputs), the cost   *)
(* model (CostIs, FollowedNoDearer), the findings (Founded), and at last   *)
(* what a client holds at any time (AdvisoryInv), of which AdvisorProofs   *)
(* makes theorems of the whole system.                                     *)
(***************************************************************************)
EXTENDS Advisory, FiniteSetTheorems, WellFoundedInduction, TLAPS

-----------------------------------------------------------------------------
(* Ranking: numbers first.                                                  *)

(* Of a finite set that is not empty, one member has the greatest key: of  *)
(* the sets of those that a member does not exceed, the least is its.      *)
LEMMA GreatestKey ==
  ASSUME NEW S, IsFiniteSet(S), S # {}, NEW k, \A x \in S : k[x] \in Int
  PROVE  \E r \in S : \A x \in S : k[x] <= k[r]
<1> DEFINE From(x) == {y \in S : k[x] <= k[y]}
           F == {From(x) : x \in S}
<1>1. IsWellFoundedOn(StrictSubsetOrdering(S), SUBSET S)
  BY FS_FiniteSubsetsOfFinite, FS_StrictSubsetOrderingWellFounded
<1>2. F \subseteq SUBSET S /\ F # {}
  OBVIOUS
<1>3. PICK T \in F : \A U \in F : <<U, T>> \notin StrictSubsetOrdering(S)
  <2> HIDE DEF F
  <2>1. QED
    BY <1>1, <1>2, WFMin
<1>4. PICK r \in S : T = From(r)
  BY <1>3
<1>5. ASSUME NEW x \in S PROVE k[x] <= k[r]
  <2>1. SUFFICES ASSUME k[x] > k[r] PROVE FALSE
    OBVIOUS
  <2>2. From(x) \subseteq T /\ r \in T /\ r \notin From(x)
    BY <1>4, <2>1
  <2>3. From(x) \in F
    OBVIOUS
  <2> HIDE DEF From, F
  <2>4. <<From(x), T>> \in StrictSubsetOrdering(S)
    BY <1>2, <1>3, <2>2, <2>3 DEF StrictSubsetOrdering
  <2>5. QED
    BY <1>3, <2>3, <2>4
<1>6. QED
  BY <1>5

(* The greatest of a set of numbers up to n is one of them.                *)
LEMMA MaxIsMember ==
  ASSUME NEW n \in Nat, NEW S \in SUBSET (1 .. n), S # {}
  PROVE  Max(S) \in S
<1> DEFINE k == [x \in S |-> x]
<1>1. IsFiniteSet(S)
  <2>1. IsFiniteSet(1 .. n)
    BY FS_Interval
  <2>2. QED
    BY <2>1, FS_Subset
<1>2. \A x \in S : k[x] = x /\ k[x] \in Int
  OBVIOUS
<1>3. \E r \in S : \A x \in S : k[x] <= k[r]
  <2> HIDE DEF k
  <2>1. QED
    BY <1>1, <1>2, GreatestKey
<1>4. \E r \in S : \A x \in S : r >= x
  BY <1>2, <1>3
<1>5. QED
  BY <1>4 DEF Max

-----------------------------------------------------------------------------
(* Ranks: how many members of a set have a key up to that of r.            *)
UpTo(k, S, r) == {x \in S : k[x] <= k[r]}

RankTaken(k, S, i) == \E r \in S : Cardinality(UpTo(k, S, r)) = i

(* With distinct keys every rank is taken: the one with the greatest key   *)
(* has the last, and without it the others have the ranks they had.        *)
LEMMA RankExists ==
  ASSUME NEW S, IsFiniteSet(S), NEW k, \A x \in S : k[x] \in Int,
         \A x, y \in S : k[x] = k[y] => x = y
  PROVE  \A i \in 1 .. Cardinality(S) : RankTaken(k, S, i)
<1> DEFINE Bad == {T \in SUBSET S : \E i \in 1 .. Cardinality(T) : ~ RankTaken(k, T, i)}
<1>1. SUFFICES ASSUME Bad # {} PROVE FALSE
  BY <1>1
<1>2. IsWellFoundedOn(StrictSubsetOrdering(S), SUBSET S)
  BY FS_FiniteSubsetsOfFinite, FS_StrictSubsetOrderingWellFounded
<1>3. Bad \subseteq SUBSET S
  OBVIOUS
<1>4. PICK T \in Bad : \A U \in Bad : <<U, T>> \notin StrictSubsetOrdering(S)
  <2> HIDE DEF Bad
  <2>1. QED
    BY <1>1, <1>2, <1>3, WFMin
<1>5. PICK i \in 1 .. Cardinality(T) : ~ RankTaken(k, T, i)
  OBVIOUS
<1>6. T \subseteq S /\ IsFiniteSet(T) /\ Cardinality(T) \in Nat /\ T # {}
  <2>1. T \in SUBSET S
    OBVIOUS
  <2>2. IsFiniteSet(T)
    BY <2>1, FS_Subset
  <2>3. Cardinality(T) \in Nat
    BY <2>2, FS_CardinalityType
  <2>4. Cardinality({}) = 0
    BY FS_EmptySet
  <2>5. QED
    BY <1>5, <2>1, <2>2, <2>3, <2>4
<1>7. PICK last \in T : \A x \in T : k[x] <= k[last]
  BY <1>6, GreatestKey
<1>8. UpTo(k, T, last) = T
  BY <1>7 DEF UpTo
<1>9. i # Cardinality(T)
  BY <1>5, <1>8 DEF RankTaken
<1> DEFINE U == T \ {last}
<1>10. IsFiniteSet(U) /\ Cardinality(U) = Cardinality(T) - 1
  BY <1>6, FS_RemoveElement
<1>11. i \in 1 .. Cardinality(U)
  BY <1>5, <1>6, <1>9, <1>10
<1>12. U \notin Bad
  <2>1. <<U, T>> \in StrictSubsetOrdering(S)
    BY <1>6 DEF StrictSubsetOrdering
  <2>2. QED
    BY <1>4, <2>1
<1>13. RankTaken(k, U, i)
  BY <1>6, <1>11, <1>12
<1>14. PICK r \in U : Cardinality(UpTo(k, U, r)) = i
  BY <1>13 DEF RankTaken
<1>15. UpTo(k, U, r) = UpTo(k, T, r)
  <2>1. ~ (k[last] <= k[r])
    <3>1. k[r] <= k[last] /\ k[r] # k[last] /\ k[r] \in Int /\ k[last] \in Int
      BY <1>6, <1>7
    <3>2. QED
      BY <3>1
  <2>2. QED
    BY <2>1 DEF UpTo
<1>16. QED
  BY <1>5, <1>14, <1>15 DEF RankTaken

-----------------------------------------------------------------------------
Keyed(S) ==
  /\ IsFiniteSet(S)
  /\ \A r \in S : SortKey(r) \in Int
  /\ \A x, y \in S : SortKey(x) = SortKey(y) => x = y

Rank(S, r) == Cardinality({x \in S : SortKey(x) <= SortKey(r)})

(* Recommendations with distinct keys are ranked one by one: each has a    *)
(* place, and the place tells how many come up to it.                      *)
LEMMA RankedIs ==
  ASSUME NEW S, Keyed(S)
  PROVE  /\ DOMAIN Ranked(S) = 1 .. Cardinality(S)
         /\ Cardinality(S) \in Nat
         /\ \A i \in 1 .. Cardinality(S) : Ranked(S)[i] \in S /\ Rank(S, Ranked(S)[i]) = i
         /\ \A r \in S : \E i \in 1 .. Cardinality(S) : Ranked(S)[i] = r
<1> DEFINE k == [x \in S |-> SortKey(x)]
<1>1. /\ IsFiniteSet(S) /\ \A x \in S : k[x] = SortKey(x) /\ k[x] \in Int
      /\ \A x, y \in S : k[x] = k[y] => x = y
  BY DEF Keyed
<1>2. Cardinality(S) \in Nat /\ DOMAIN Ranked(S) = 1 .. Cardinality(S)
  BY <1>1, FS_CardinalityType DEF Ranked
<1>3. \A i \in 1 .. Cardinality(S) : RankTaken(k, S, i)
  <2> HIDE DEF k
  <2>1. QED
    BY <1>1, RankExists
<1>4. \A r \in S : UpTo(k, S, r) = {x \in S : SortKey(x) <= SortKey(r)}
  BY DEF UpTo
<1> HIDE DEF k
<1>5. ASSUME NEW i \in 1 .. Cardinality(S)
      PROVE  Ranked(S)[i] \in S /\ Rank(S, Ranked(S)[i]) = i
  <2>1. \E r \in S : Rank(S, r) = i
    BY <1>3, <1>4 DEF RankTaken, Rank
  <2>2. Ranked(S)[i] = CHOOSE r \in S : Rank(S, r) = i
    BY DEF Ranked, Rank
  <2>3. QED
    BY <2>1, <2>2
<1>6. ASSUME NEW r \in S
      PROVE  \E i \in 1 .. Cardinality(S) : Ranked(S)[i] = r
  <2>1. \A x \in S : UpTo(k, S, x) \in SUBSET S /\ x \in UpTo(k, S, x)
    BY <1>1 DEF UpTo
  <2>2. \A x \in S : IsFiniteSet(UpTo(k, S, x))
    <3>1. QED
      BY <1>1, <2>1, FS_Subset
  <2>3. Cardinality(UpTo(k, S, r)) \in 1 .. Cardinality(S)
    <3>1. Cardinality(UpTo(k, S, r)) <= Cardinality(S)
      BY <1>1, <2>1, FS_Subset
    <3>2. Cardinality(UpTo(k, S, r)) \in Nat
      BY <2>2, FS_CardinalityType
    <3>3. Cardinality(UpTo(k, S, r)) # 0
      BY <2>1, <2>2, FS_EmptySet
    <3>4. QED
      BY <1>2, <3>1, <3>2, <3>3
  <2>4. PICK i \in 1 .. Cardinality(S) : i = Rank(S, r)
    BY <1>4, <2>3 DEF Rank
  <2>5. PICK x \in S : x = Ranked(S)[i] /\ Rank(S, x) = i
    BY <1>5
  <2>6. Cardinality(UpTo(k, S, x)) = Cardinality(UpTo(k, S, r))
    BY <1>4, <2>4, <2>5 DEF Rank
  <2>7. UpTo(k, S, x) = UpTo(k, S, r)
    <3>1. CASE k[x] <= k[r]
      <4>1. UpTo(k, S, x) \in SUBSET UpTo(k, S, r)
        BY <1>1, <3>1 DEF UpTo
      <4>2. QED
        BY <2>2, <2>6, <4>1, FS_Subset
    <3>2. CASE k[r] <= k[x]
      <4>1. UpTo(k, S, r) \in SUBSET UpTo(k, S, x)
        BY <1>1, <3>2 DEF UpTo
      <4>2. QED
        BY <2>2, <2>6, <4>1, FS_Subset
    <3>3. QED
      BY <1>1, <3>1, <3>2
  <2>8. k[x] <= k[r] /\ k[r] <= k[x]
    BY <2>1, <2>7 DEF UpTo
  <2>9. x = r
    <3>1. k[x] = k[r]
      BY <1>1, <2>8
    <3>2. QED
      BY <1>1, <3>1
  <2>10. QED
    BY <2>5, <2>9
<1>7. QED
  BY <1>2, <1>5, <1>6

-----------------------------------------------------------------------------
(* Titles, keys and the entries of the rules.                              *)

TitleSet == {Titles[i] : i \in 1 .. 15}

(* Where something is in a sequence that it is in.                         *)
LEMMA PositionIs ==
  ASSUME NEW order, NEW i \in DOMAIN order
  PROVE  /\ Position(order[i], order) \in DOMAIN order
         /\ order[Position(order[i], order)] = order[i]
BY DEF Position

LEMMA TitlePosition ==
  ASSUME NEW t \in TitleSet
  PROVE  Position(t, Titles) \in 1 .. 15 /\ Titles[Position(t, Titles)] = t
<1>1. DOMAIN Titles = 1 .. 15
  BY DEF Titles
<1>2. PICK i \in 1 .. 15 : t = Titles[i]
  BY DEF TitleSet
<1>3. QED
  BY <1>1, <1>2, PositionIs

LEMMA PriorityPosition ==
  ASSUME NEW t
  PROVE  Position(Priority(t), <<"high", "medium", "low">>)
           = IF Priority(t) = "high" THEN 1 ELSE 2
<1> DEFINE order == <<"high", "medium", "low">>
<1>1. DOMAIN order = 1 .. 3 /\ order[1] = "high" /\ order[2] = "medium" /\ order[3] = "low"
  OBVIOUS
<1> HIDE DEF order
<1>2. Priority(t) = order[IF Priority(t) = "high" THEN 1 ELSE 2]
  BY <1>1 DEF Priority
<1>3. /\ Position(Priority(t), order) \in 1 .. 3
      /\ order[Position(Priority(t), order)] = Priority(t)
  BY <1>1, <1>2, PositionIs
<1>4. Position(Priority(t), order) = IF Priority(t) = "high" THEN 1 ELSE 2
  BY <1>1, <1>2, <1>3
<1>5. QED
  BY <1>4 DEF order

LEMMA EffortPosition ==
  ASSUME NEW t
  PROVE  Position(Effort(t), <<"low", "medium", "high">>) \in 1 .. 3
<1> DEFINE order == <<"low", "medium", "high">>
<1>1. DOMAIN order = 1 .. 3 /\ order[1] = "low" /\ order[2] = "medium" /\ order[3] = "high"
  OBVIOUS
<1> HIDE DEF order
<1>2. \E i \in 1 .. 3 : Effort(t) = order[i]
  <2>1. Effort(t) \in {"low", "medium", "high"}
    BY DEF Effort
  <2>2. QED
    BY <1>1, <2>1
<1>3. Position(Effort(t), order) \in 1 .. 3
  BY <1>1, <1>2, PositionIs
<1>4. QED
  BY <1>3 DEF order

(* The key tells the priority and the title.                               *)
LEMMA KeyIs ==
  ASSUME NEW r, r.title \in TitleSet
  PROVE  /\ SortKey(r) \in Int
         /\ Priority(r.title) = "high" => SortKey(r) < 200
         /\ Priority(r.title) # "high" => SortKey(r) > 200
<1>1. PICK p, e, t : /\ p = Position(Priority(r.title), <<"high", "medium", "low">>)
                     /\ e = Position(Effort(r.title), <<"low", "medium", "high">>)
                     /\ t = Position(r.title, Titles)
  OBVIOUS
<1>2. p = (IF Priority(r.title) = "high" THEN 1 ELSE 2)
  BY <1>1, PriorityPosition
<1>3. e \in 1 .. 3 /\ t \in 1 .. 15
  BY <1>1, EffortPosition, TitlePosition
<1>4. SortKey(r) = 100 * p + 20 * e + t
  BY <1>1 DEF SortKey
<1>5. QED
  BY <1>2, <1>3, <1>4

LEMMA KeyTellsTitle ==
  ASSUME NEW r, r.title \in TitleSet, NEW s, s.title \in TitleSet, SortKey(r) = SortKey(s)
  PROVE  r.title = s.title
<1>1. PICK p, e, t : /\ p = Position(Priority(r.title), <<"high", "medium", "low">>)
                     /\ e = Position(Effort(r.title), <<"low", "medium", "high">>)
                     /\ t = Position(r.title, Titles)
  OBVIOUS
<1>2. PICK q, f, u : /\ q = Position(Priority(s.title), <<"high", "medium", "low">>)
                     /\ f = Position(Effort(s.title), <<"low", "medium", "high">>)
                     /\ u = Position(s.title, Titles)
  OBVIOUS
<1>3. p \in 1 .. 2 /\ q \in 1 .. 2
  BY <1>1, <1>2, PriorityPosition
<1>4. e \in 1 .. 3 /\ f \in 1 .. 3 /\ t \in 1 .. 15 /\ u \in 1 .. 15
  BY <1>1, <1>2, EffortPosition, TitlePosition
<1>5. 100 * p + 20 * e + t = 100 * q + 20 * f + u
  BY <1>1, <1>2 DEF SortKey
<1>6. t = u
  BY <1>3, <1>4, <1>5
<1>7. Titles[t] = r.title /\ Titles[u] = s.title
  BY <1>1, <1>2, TitlePosition
<1>8. QED
  BY <1>6, <1>7

-----------------------------------------------------------------------------
(* What a report can say under a title, given the facts.                   *)
Entry(facts, title) ==
  CASE title = "Reduce replicas" ->
         Reduction(facts, "Reduce replicas", "replicas", 2,
                   "suggested_replicas", "estimated_monthly_savings")
    [] title = "Reduce partitions" ->
         Reduction(facts, "Reduce partitions", "partitions", 1,
                   "suggested_partitions", "estimated_partition_savings")
    [] title = "Downgrade SKU" ->
         Plain("Downgrade SKU", {Number(facts, "estimated_sku_savings", 0)})
    [] title = "Disable semantic ranker" ->
         Plain("Disable semantic ranker", {Number(facts, "estimated_semantic_monthly_cost", 0)})
    [] title = "Optimize vector search" ->
         Plain("Optimize vector search", {Number(facts, "estimated_vector_monthly_savings", 0)})
    [] title = "Move to serverless" ->
         Plain("Move to serverless", {Number(facts, "serverless_monthly_savings", 0)})
    [] title = "Move to dedicated" ->
         Plain("Move to dedicated", {Number(facts, "dedicated_monthly_savings", 0)})
    [] OTHER -> Plain(title, {})

LEMMA TitlesAre ==
  TitleSet = {"Add CPU alert", "Add idle-service cost alert", "Add indexer failure alert",
    "Add latency alert", "Add storage alert", "Add throttling alert",
    "Add utilization alert", "Disable semantic ranker", "Downgrade SKU",
    "Enable semantic ranker", "Move to serverless", "Move to dedicated",
    "Optimize vector search", "Reduce partitions", "Reduce replicas"}
<1>1. \A i \in 1 .. 15 :
        \/ i = 1 \/ i = 2 \/ i = 3 \/ i = 4 \/ i = 5 \/ i = 6 \/ i = 7 \/ i = 8
        \/ i = 9 \/ i = 10 \/ i = 11 \/ i = 12 \/ i = 13 \/ i = 14 \/ i = 15
  OBVIOUS
<1>2. TitleSet =
        {Titles[1], Titles[2], Titles[3], Titles[4], Titles[5], Titles[6], Titles[7], Titles[8],
         Titles[9], Titles[10], Titles[11], Titles[12], Titles[13], Titles[14], Titles[15]}
  BY <1>1 DEF TitleSet
<1>3. QED
  BY <1>2 DEF Titles

LEMMA AlertTitles ==
  ASSUME NEW facts, NEW title \in LoadAlerts(facts) \cup OperationAlerts(facts)
  PROVE  title \in {"Add CPU alert", "Add idle-service cost alert", "Add indexer failure alert",
           "Add latency alert", "Add storage alert", "Add throttling alert",
           "Add utilization alert"}
BY DEF LoadAlerts, OperationAlerts, When

LEMMA AlertEntries ==
  ASSUME NEW facts, NEW title \in LoadAlerts(facts) \cup OperationAlerts(facts)
  PROVE  title \in TitleSet /\ Entry(facts, title) = Plain(title, {})
<1>1. title \in {"Add CPU alert", "Add idle-service cost alert", "Add indexer failure alert",
    "Add latency alert", "Add storage alert", "Add throttling alert", "Add utilization alert"}
  BY AlertTitles
<1>2. title \in TitleSet
  BY <1>1, TitlesAre
<1>3. QED
  BY <1>1, <1>2 DEF Entry

LEMMA EntryTitle == ASSUME NEW facts, NEW title PROVE Entry(facts, title).title = title
BY DEF Entry, Reduction, Plain, Recommendation

LEMMA RightsizingEntries ==
  ASSUME NEW facts, NEW r \in Rightsizing(facts)
  PROVE  \E t \in {"Reduce replicas", "Reduce partitions", "Downgrade SKU"} :
           t \in TitleSet /\ r = Entry(facts, t)
<1>1. \/ r = Entry(facts, "Reduce replicas")
      \/ r = Entry(facts, "Reduce partitions")
      \/ r = Entry(facts, "Downgrade SKU")
  BY DEF Rightsizing, When, Entry
<1>2. QED
  BY <1>1, TitlesAre

LEMMA GuidanceEntries ==
  ASSUME NEW facts, NEW r \in FeatureGuidance(facts)
  PROVE  \E t \in {"Disable semantic ranker", "Enable semantic ranker",
                "Optimize vector search"} :
           t \in TitleSet /\ r = Entry(facts, t)
<1>1. \/ r = Entry(facts, "Disable semantic ranker")
      \/ r = Entry(facts, "Enable semantic ranker")
      \/ r = Entry(facts, "Optimize vector search")
  BY DEF FeatureGuidance, When, Entry
<1>2. QED
  BY <1>1, TitlesAre

LEMMA PricingEntries ==
  ASSUME NEW facts, NEW r \in PricingAdvice(facts)
  PROVE  \E t \in {"Move to serverless", "Move to dedicated"} :
           t \in TitleSet /\ r = Entry(facts, t)
<1>1. \/ r = Entry(facts, "Move to serverless")
      \/ r = Entry(facts, "Move to dedicated")
  BY DEF PricingAdvice, When, Entry
<1>2. QED
  BY <1>1, TitlesAre

(* A report has at most one recommendation under a title.                  *)
LEMMA RecommendedIs ==
  ASSUME NEW facts
  PROVE  \A r \in Recommended(facts) : r.title \in TitleSet /\ r = Entry(facts, r.title)
<1>1. ASSUME NEW r \in Recommended(facts)
      PROVE  \E t \in TitleSet : r = Entry(facts, t)
  <2>1. CASE r \in Rightsizing(facts)
    BY <2>1, RightsizingEntries
  <2>2. CASE r \in FeatureGuidance(facts)
    BY <2>2, GuidanceEntries
  <2>3. CASE r \in PricingAdvice(facts)
    BY <2>3, PricingEntries
  <2>4. CASE \E t \in LoadAlerts(facts) \cup OperationAlerts(facts) : r = Plain(t, {})
    BY <2>4, AlertEntries
  <2>5. QED
    BY <2>1, <2>2, <2>3, <2>4 DEF Recommended
<1>2. QED
  BY <1>1, EntryTitle

LEMMA RecommendedKeyed == ASSUME NEW facts PROVE Keyed(Recommended(facts))
<1>0. IsFiniteSet(1 .. 15)
  <2>1. \A n \in Nat : IsFiniteSet(1 .. n)
    BY FS_Interval
  <2>2. QED
    BY <2>1
<1> DEFINE S == Recommended(facts)
           place == [r \in S |-> Position(r.title, Titles)]
<1>1. \A r \in S : r.title \in TitleSet /\ r = Entry(facts, r.title)
  BY RecommendedIs
<1>2. place \in Injection(S, 1 .. 15)
  <2>1. \A r \in S : place[r] \in 1 .. 15 /\ Titles[place[r]] = r.title
    BY <1>1, TitlePosition
  <2>2. \A r, s \in S : place[r] = place[s] => r = s
    <3> HIDE DEF place, S
    <3>1. \A r, s \in S : place[r] = place[s] => r.title = s.title
      BY <2>1
    <3>2. QED
      BY <1>1, <3>1
  <2>3. place \in [S -> 1 .. 15]
    BY <2>1
  <2>4. QED
    BY <2>2, <2>3 DEF Injection, IsInjective
<1>3. IsFiniteSet(S)
  BY <1>0, <1>2, FS_Injection
<1> HIDE DEF S, place
<1>4. \A r \in S : SortKey(r) \in Int
  BY <1>1, KeyIs
<1>5. \A r, s \in S : SortKey(r) = SortKey(s) => r = s
  <2>1. \A r, s \in S : SortKey(r) = SortKey(s) => r.title = s.title
    BY <1>1, KeyTellsTitle
  <2>2. QED
    BY <1>1, <2>1
<1>6. QED
  BY <1>3, <1>4, <1>5 DEF Keyed, S

-----------------------------------------------------------------------------
(* The list a client gets.                                                 *)

Urgent(S) == {r \in S : Priority(r.title) = "high"}

(* The urgent recommendations have the first ranks: none of the others     *)
(* comes up to them.                                                       *)
LEMMA UrgentComeFirst ==
  ASSUME NEW facts, NEW S, S = Recommended(facts), NEW i \in 1 .. Cardinality(S)
  PROVE  Priority(Ranked(S)[i].title) = "high" <=> i <= Cardinality(Urgent(S))
<1>1. Keyed(S) /\ \A r \in S : r.title \in TitleSet
  BY RecommendedKeyed, RecommendedIs
<1>2. PICK r \in S : r = Ranked(S)[i] /\ Rank(S, r) = i
  BY <1>1, RankedIs
<1> DEFINE H == Urgent(S)
           Upto == {x \in S : SortKey(x) <= SortKey(r)}
<1>3. IsFiniteSet(S) /\ H \in SUBSET S /\ Upto \in SUBSET S
  BY <1>1 DEF Keyed, Urgent
<1>4. IsFiniteSet(H) /\ IsFiniteSet(Upto)
  BY <1>3, FS_Subset
<1>5. Cardinality(H) \in Nat /\ Cardinality(Upto) = i
  BY <1>2, <1>4, FS_CardinalityType DEF Rank
<1>6. \A x \in S : /\ SortKey(x) \in Int
                   /\ x \in H => SortKey(x) < 200
                   /\ x \notin H => SortKey(x) > 200
  BY <1>1, KeyIs DEF Urgent
<1>7. CASE r \in H
  <2>1. \A x \in Upto : x \in H
    <3>1. \A x \in S : SortKey(x) <= SortKey(r) => x \in H
      BY <1>6, <1>7
    <3>2. QED
      BY <3>1
  <2>2. Upto \in SUBSET H
    BY <2>1
  <2>3. Cardinality(Upto) <= Cardinality(H)
    BY <1>4, <2>2, FS_Subset
  <2>4. QED
    BY <1>2, <1>5, <1>7, <2>3 DEF Urgent
<1>8. CASE r \notin H
  <2>1. r \in Upto
    BY <1>6
  <2>2. \A x \in H : x \in Upto /\ x # r
    <3>1. \A x \in S : x \in H => SortKey(x) <= SortKey(r)
      BY <1>6, <1>8
    <3>2. QED
      BY <1>3, <1>8, <3>1
  <2>3. H \in SUBSET (Upto \ {r})
    BY <2>2
  <2>4. IsFiniteSet(Upto \ {r}) /\ Cardinality(Upto \ {r}) = i - 1
    BY <1>4, <1>5, <2>1, FS_RemoveElement
  <2>5. Cardinality(H) <= i - 1
    BY <2>3, <2>4, FS_Subset
  <2>6. QED
    BY <1>2, <1>5, <1>8, <2>5 DEF Urgent
<1>9. QED
  BY <1>7, <1>8

-----------------------------------------------------------------------------
(* What a client gets of recommendations: the first n of them.             *)
FirstOf(items, S, n) ==
  /\ DOMAIN items = 1 .. n /\ Len(items) = n
  /\ \A i \in 1 .. n :
       /\ Ranked(S)[i] \in S /\ items[i].title = Ranked(S)[i].title
       /\ items[i].from = Ranked(S)[i].from /\ items[i].to = Ranked(S)[i].to
       /\ items[i].priority = Priority(Ranked(S)[i].title)

LEMMA ItemsAre ==
  ASSUME NEW facts, NEW S, S = Recommended(facts), NEW costData, NEW max \in Nat,
         NEW items, items = FirstItems(Report(facts, costData), max),
         NEW n, n = Smaller(max, Cardinality(S))
  PROVE  Cardinality(S) \in Nat /\ n \in Nat /\ FirstOf(items, S, n)
<1>1. Keyed(S)
  BY RecommendedKeyed
<1>2. /\ Cardinality(S) \in Nat /\ DOMAIN Ranked(S) = 1 .. Cardinality(S)
      /\ \A i \in 1 .. Cardinality(S) : Ranked(S)[i] \in S
  BY <1>1, RankedIs
<1>3. Ranked(S) \in Seq(S)
  <2>1. Ranked(S) = [i \in 1 .. Cardinality(S) |-> Ranked(S)[i]]
    BY DEF Ranked
  <2>2. QED
    BY <1>2, <2>1
<1>4. Len(Ranked(S)) = Cardinality(S)
  BY <1>2, <1>3
<1>5. Report(facts, costData).recommendations = Ranked(S)
  BY DEF Report
<1>6. n \in Nat /\ n <= Cardinality(S)
  BY <1>2 DEF Smaller
<1>7. items = [i \in 1 .. n |-> Item(Ranked(S)[i])]
  BY <1>4, <1>5 DEF FirstItems
<1>8. items \in Seq({Item(r) : r \in S})
  <2>1. \A i \in 1 .. n : Item(Ranked(S)[i]) \in {Item(r) : r \in S}
    BY <1>2, <1>6
  <2>2. QED
    BY <1>6, <1>7, <2>1
<1>9. DOMAIN items = 1 .. n
  BY <1>7
<1>10. Len(items) = n
  BY <1>6, <1>8, <1>9
<1>11. ASSUME NEW i \in 1 .. n
       PROVE  /\ Ranked(S)[i] \in S /\ items[i].title = Ranked(S)[i].title
              /\ items[i].from = Ranked(S)[i].from /\ items[i].to = Ranked(S)[i].to
              /\ items[i].priority = Priority(Ranked(S)[i].title)
  <2>1. Ranked(S)[i] \in S /\ items[i] = Item(Ranked(S)[i])
    BY <1>2, <1>6, <1>7
  <2>2. QED
    BY <2>1 DEF Item
<1>12. QED
  BY <1>2, <1>6, <1>9, <1>10, <1>11 DEF FirstOf

LEMMA UrgentKept ==
  ASSUME NEW facts, NEW costData, NEW max \in Nat,
         NEW items, items = FirstItems(Report(facts, costData), max)
  PROVE  Cardinality({i \in DOMAIN items : items[i].priority = "high"})
           = Smaller(max, Report(facts, costData).urgent)
<1> SUFFICES ASSUME NEW S, S = Recommended(facts), NEW n, n = Smaller(max, Cardinality(S)),
                    NEW h, h = Cardinality(Urgent(S))
             PROVE  Cardinality({i \in DOMAIN items : items[i].priority = "high"})
                      = Smaller(max, Report(facts, costData).urgent)
  OBVIOUS
<1>1. S = Recommended(facts)
  OBVIOUS
<1>2. n = Smaller(max, Cardinality(S)) /\ h = Cardinality(Urgent(S))
  OBVIOUS
<1>3. /\ Cardinality(S) \in Nat /\ n \in Nat /\ DOMAIN items = 1 .. n
      /\ \A i \in 1 .. n : items[i].priority = Priority(Ranked(S)[i].title)
  <2>1. Cardinality(S) \in Nat /\ n \in Nat /\ FirstOf(items, S, n)
    BY ItemsAre
  <2>2. QED
    BY <2>1 DEF FirstOf
<1>4. n <= Cardinality(S)
  BY <1>2, <1>3 DEF Smaller
<1>5. h \in Nat /\ h <= Cardinality(S)
  <2>1. IsFiniteSet(S) /\ Urgent(S) \in SUBSET S
    BY <1>1, RecommendedKeyed DEF Keyed, Urgent
  <2>2. IsFiniteSet(Urgent(S)) /\ Cardinality(Urgent(S)) <= Cardinality(S)
    BY <2>1, FS_Subset
  <2>3. QED
    BY <1>2, <2>2, FS_CardinalityType
<1>6. \A i \in 1 .. n : items[i].priority = "high" <=> i <= h
  <2>1. \A i \in 1 .. n : i \in 1 .. Cardinality(S)
    BY <1>3, <1>4
  <2>2. \A i \in 1 .. n : Priority(Ranked(S)[i].title) = "high" <=> i <= h
    BY <1>1, <1>2, <2>1, UrgentComeFirst
  <2>3. QED
    BY <1>3, <2>2
<1>7. PICK m \in Nat : m = Smaller(n, h)
  BY <1>3, <1>5 DEF Smaller
<1>8. {i \in DOMAIN items : items[i].priority = "high"} = 1 .. m
  <2>1. \A i : i \in 1 .. n /\ i <= h <=> i \in 1 .. m
    BY <1>3, <1>5, <1>7 DEF Smaller
  <2>2. QED
    BY <1>3, <1>6, <2>1
<1>9. Cardinality(1 .. m) = m
  BY FS_Interval
<1>10. Report(facts, costData).urgent = h
  BY <1>1, <1>2 DEF Report, Urgent
<1>11. m = Smaller(max, h)
  BY <1>2, <1>3, <1>5, <1>7 DEF Smaller
<1>12. QED
  BY <1>8, <1>9, <1>10, <1>11 DEF FirstOf

-----------------------------------------------------------------------------
(* The facts of a workload or of an analysis.                              *)

LEMMA TheOnly == ASSUME NEW v PROVE The({v}) = v
BY DEF The

LEMMA OverIs ==
  ASSUME NEW upper, NEW lower, NEW x
  PROVE  /\ x \in DOMAIN Over(upper, lower) <=> x \in DOMAIN upper \/ x \in DOMAIN lower
         /\ x \in DOMAIN upper => Over(upper, lower)[x] = upper[x]
         /\ x \in DOMAIN lower /\ x \notin DOMAIN upper => Over(upper, lower)[x] = lower[x]
BY DEF Over

LEMMA IfIs ==
  ASSUME NEW facts
  PROVE  If(TRUE, facts) = facts /\ DOMAIN If(FALSE, facts) = {}
BY DEF If

(* The suggested counts, when there are any, are one below the counts of   *)
(* the service.                                                            *)
LEMMA SuggestionsAre ==
  ASSUME NEW c, NEW m
  PROVE  /\ DOMAIN Suggestions(c, m) \subseteq {"suggested_replicas", "suggested_partitions"}
         /\ "suggested_replicas" \in DOMAIN Suggestions(c, m) =>
              Suggestions(c, m)["suggested_replicas"] = Larger(c.replicas - 1, 1)
         /\ "suggested_partitions" \in DOMAIN Suggestions(c, m) =>
              Suggestions(c, m)["suggested_partitions"] = Larger(c.partitions - 1, 1)
<1> DEFINE r == If("replica_overprovisioned" \in WorkloadFlags(c, m),
                   [suggested_replicas |-> Larger(c.replicas - 1, 1)])
           p == If("partition_overprovisioned" \in WorkloadFlags(c, m),
                   [suggested_partitions |-> Larger(c.partitions - 1, 1)])
<1>1. /\ DOMAIN r \subseteq {"suggested_replicas"}
      /\ "suggested_replicas" \in DOMAIN r => r["suggested_replicas"] = Larger(c.replicas - 1, 1)
  BY DEF If
<1>2. /\ DOMAIN p \subseteq {"suggested_partitions"}
      /\ "suggested_partitions" \in DOMAIN p =>
           p["suggested_partitions"] = Larger(c.partitions - 1, 1)
  BY DEF If
<1> DEFINE s == Over(r, p)
<1>3. Suggestions(c, m) = s
  BY DEF Suggestions
<1> HIDE DEF r, p
<1>4. \A x : x \in DOMAIN s <=> x \in DOMAIN r \/ x \in DOMAIN p
  BY OverIs
<1>5. "suggested_replicas" \in DOMAIN r => s["suggested_replicas"] = r["suggested_replicas"]
  BY OverIs
<1>6. "suggested_partitions" \in DOMAIN p /\ "suggested_partitions" \notin DOMAIN r =>
        s["suggested_partitions"] = p["suggested_partitions"]
  BY OverIs
<1> HIDE DEF s
<1>7. DOMAIN s \subseteq {"suggested_replicas", "suggested_partitions"}
  BY <1>1, <1>2, <1>4
<1>8. "suggested_replicas" \in DOMAIN s =>
        s["suggested_replicas"] = Larger(c.replicas - 1, 1)
  BY <1>1, <1>2, <1>4, <1>5
<1>9. "suggested_partitions" \in DOMAIN s =>
        s["suggested_partitions"] = Larger(c.partitions - 1, 1)
  BY <1>1, <1>2, <1>4, <1>6
<1>10. QED
  BY <1>3, <1>7, <1>8, <1>9

(* What a mapping of numbers gives for the counts of a service.            *)
Counted(numbers, c) ==
  /\ "replicas" \in DOMAIN numbers /\ numbers["replicas"] = c.replicas
  /\ "partitions" \in DOMAIN numbers /\ numbers["partitions"] = c.partitions
  /\ "suggested_replicas" \in DOMAIN numbers =>
       numbers["suggested_replicas"] = Larger(c.replicas - 1, 1)
  /\ "suggested_partitions" \in DOMAIN numbers =>
       numbers["suggested_partitions"] = Larger(c.partitions - 1, 1)

CountNames == {"replicas", "partitions", "suggested_replicas", "suggested_partitions"}

LEMMA WorkloadCounted ==
  ASSUME NEW c, NEW m
  PROVE  Counted(Over(ConfigurationNumbers(c), WorkloadNumbers(c, m)), c)
<1> DEFINE base == [query_latency_p95_ms        |-> m.latency,
                    replica_utilization_percent |-> m.replicaUse,
                    storage_utilization_percent |-> m.storageUse,
                    throttled_queries_per_day   |-> 0,
                    avg_queries_per_second      |-> m.qps,
                    avg_cpu_utilization_pct     |-> m.replicaUse]
           w == WorkloadNumbers(c, m)
           n == ConfigurationNumbers(c)
<1>1. DOMAIN base \cap CountNames = {}
  BY DEF CountNames
<1>2. w = Over(Suggestions(c, m), base)
  BY DEF WorkloadNumbers
<1>3. /\ DOMAIN n \cap CountNames = {"replicas", "partitions"}
      /\ n["replicas"] = c.replicas /\ n["partitions"] = c.partitions
  BY DEF ConfigurationNumbers, CountNames
<1> HIDE DEF base, w, n
<1>4. \A x \in CountNames :
        x \in DOMAIN w => x \in DOMAIN Suggestions(c, m) /\ w[x] = Suggestions(c, m)[x]
  BY <1>1, <1>2, OverIs
<1>5. /\ "suggested_replicas" \in DOMAIN w =>
           w["suggested_replicas"] = Larger(c.replicas - 1, 1)
      /\ "suggested_partitions" \in DOMAIN w =>
           w["suggested_partitions"] = Larger(c.partitions - 1, 1)
  BY <1>4, SuggestionsAre DEF CountNames
<1>6. /\ "suggested_replicas" \notin DOMAIN n /\ "suggested_partitions" \notin DOMAIN n
      /\ "replicas" \in DOMAIN n /\ "partitions" \in DOMAIN n
  BY <1>3 DEF CountNames
<1>7. Counted(Over(n, w), c)
  <2>1. \A x \in DOMAIN n : x \in DOMAIN Over(n, w) /\ Over(n, w)[x] = n[x]
    BY OverIs
  <2>2. \A x : x \in DOMAIN Over(n, w) /\ x \notin DOMAIN n =>
                  x \in DOMAIN w /\ Over(n, w)[x] = w[x]
    BY OverIs
  <2>3. QED
    BY <1>3, <1>5, <1>6, <2>1, <2>2 DEF Counted
<1>8. QED
  BY <1>7 DEF n, w

LEMMA OtherNumbers ==
  ASSUME NEW topics, NEW costs, NEW potential
  PROVE  DOMAIN Over(TopicNumbers(topics), CostNumbers(costs, potential)) \cap CountNames = {}
<1>1. DOMAIN TopicNumbers(topics) \cap CountNames = {}
  BY DEF TopicNumbers, DefaultNumber, CountNames
<1>2. DOMAIN CostNumbers(costs, potential) \cap CountNames = {}
  <2> DEFINE savings == [estimated_monthly_savings   |-> potential,
                         estimated_partition_savings |-> potential,
                         serverless_monthly_savings  |-> ScenarioSaving(costs, "serverless"),
                         dedicated_monthly_savings   |-> ScenarioSaving(costs, "dedicated")]
             features == If(costs # {},
                            [estimated_semantic_monthly_cost  |-> The(costs).items.semantic,
                             estimated_vector_monthly_savings |-> The(costs).items.vector])
  <2>1. DOMAIN savings \cap CountNames = {} /\ DOMAIN features \cap CountNames = {}
    BY DEF CountNames, If
  <2>2. CostNumbers(costs, potential) = Over(savings, features)
    BY DEF CostNumbers
  <2> HIDE DEF savings, features
  <2>3. QED
    BY <2>1, <2>2, OverIs
<1>3. QED
  BY <1>1, <1>2, OverIs

-----------------------------------------------------------------------------
(* Facts about a workload, whose advice an analysis of it may replace.     *)
WorkloadFacts(facts, c, m) ==
  /\ Counted(facts.numbers, c)
  /\ facts.hosting = c.model
  /\ facts.semanticRatio = Ratio(m.semanticPerDay, m)
  /\ ConfigurationFlags(c) \cup WorkloadFlags(c, m) \subseteq facts.flags

LEMMA InputsOfWorkload ==
  ASSUME NEW findings, NEW c, NEW m, NEW costs
  PROVE  WorkloadFacts(Inputs(findings, {c}, {m}, costs).facts, c, m)
<1> DEFINE facts == Inputs(findings, {c}, {m}, costs).facts
           rest == Over(TopicNumbers(Topics(findings)),
                        CostNumbers(costs, BuildCostData(costs, Impact(findings)).potential))
           own == Over(ConfigurationNumbers(c), WorkloadNumbers(c, m))
<1>0. The({c}) = c /\ The({m}) = m /\ {c} # {}
  BY TheOnly
<1>1. facts.numbers = Over(own, rest)
  <2>1. facts.numbers = Over(If(TRUE, own), rest)
    BY <1>0 DEF Inputs
  <2>2. QED
    BY <2>1, IfIs
<1>2. Counted(own, c) /\ DOMAIN rest \cap CountNames = {}
  BY WorkloadCounted, OtherNumbers
<1>3. /\ facts.hosting = c.model
      /\ facts.semanticRatio = Ratio(m.semanticPerDay, m)
      /\ ConfigurationFlags(c) \cup WorkloadFlags(c, m) \subseteq facts.flags
  <2>1. facts.hosting = c.model /\ facts.semanticRatio = Ratio(m.semanticPerDay, m)
    BY <1>0 DEF Inputs
  <2>2. facts.flags = TopicFlags(Topics(findings), {c})
                        \cup (ConfigurationFlags(c) \cup WorkloadFlags(c, m))
    BY <1>0 DEF Inputs
  <2>3. QED
    BY <2>1, <2>2
<1> HIDE DEF own, rest
<1>4. Counted(Over(own, rest), c)
  <2>1. \A x \in DOMAIN own : x \in DOMAIN Over(own, rest) /\ Over(own, rest)[x] = own[x]
    BY OverIs
  <2>2. \A x \in CountNames : x \in DOMAIN Over(own, rest) => x \in DOMAIN own
    BY <1>2, OverIs
  <2>3. QED
    BY <1>2, <2>1, <2>2 DEF Counted, CountNames
<1> HIDE DEF facts
<1>5. WorkloadFacts(facts, c, m)
  BY <1>1, <1>3, <1>4 DEF WorkloadFacts
<1>6. QED
  BY <1>5 DEF facts

LEMMA InputsOfAnalysis ==
  ASSUME NEW findings
  PROVE  DOMAIN Inputs(findings, {}, {}, {}).facts.numbers \cap CountNames = {}
<1> DEFINE rest == Over(TopicNumbers(Topics(findings)),
                        CostNumbers({}, BuildCostData({}, Impact(findings)).potential))
           own == If(FALSE, Over(ConfigurationNumbers(The({})),
                                 WorkloadNumbers(The({}), The({}))))
<1>1. Inputs(findings, {}, {}, {}).facts.numbers = Over(own, rest)
  BY DEF Inputs
<1>2. DOMAIN own = {} /\ DOMAIN rest \cap CountNames = {}
  BY IfIs, OtherNumbers
<1> HIDE DEF own, rest
<1>3. \A x \in CountNames : x \notin DOMAIN Over(own, rest)
  BY <1>2, OverIs
<1>4. QED
  BY <1>1, <1>3

-----------------------------------------------------------------------------
(* The cost of a month.                                                    *)

(* What a service costs a month, in its two parts.                         *)
Quarters(c) ==
  4 + (IF c.semantic THEN 1 ELSE 0) + (IF c.vector THEN 1 ELSE 0)
    + (IF c.enrichment THEN 2 ELSE 0)

HostingCents(c, m) ==
  IF c.model = "dedicated"
  THEN DedicatedCents(Dedicated(c.sku, Larger(c.replicas, 1), Larger(c.partitions, 1)))
  ELSE ServerlessCents(Serverless(m.monthly, Quarters(c)))

SemanticCents(c, m) == RoundDiv(IF c.semantic THEN 30 * m.semanticPerDay ELSE 0, 10)

OtherCents(c, m) ==
  RoundDiv(3 * (IF c.enrichment THEN 30 * m.updates ELSE 0), 20)
    + 12 * (IF c.vector THEN c.vectorSize ELSE 0)

LEMMA CostOfOne == ASSUME NEW cents PROVE Cost({cents}) = cents
BY DEF Cost

LEMMA RoundDivType ==
  ASSUME NEW a \in Nat
  PROVE  RoundDiv(a, 10) \in Nat /\ RoundDiv(a, 20) \in Nat /\ RoundDiv(a, 1000) \in Nat
BY DEF RoundDiv

LEMMA RoundDivGrows ==
  ASSUME NEW a \in Nat, NEW b \in Nat, a <= b
  PROVE  RoundDiv(a, 1000) <= RoundDiv(b, 1000)
BY DEF RoundDiv

LEMMA CentsAre ==
  ASSUME NEW c \in ApiConfigurations, NEW m \in ApiMetrics
  PROVE  SemanticCents(c, m) \in Nat /\ OtherCents(c, m) \in Nat /\ Quarters(c) \in 4 .. 8
<1>1. /\ m.semanticPerDay \in Nat /\ m.updates \in Nat /\ c.vectorSize \in Nat
  BY DEF ApiConfigurations, ApiMetrics
<1>2. Quarters(c) \in 4 .. 8
  BY DEF Quarters
<1>3. PICK a, b, v \in Nat : /\ a = (IF c.semantic THEN 30 * m.semanticPerDay ELSE 0)
                             /\ b = 3 * (IF c.enrichment THEN 30 * m.updates ELSE 0)
                             /\ v = 12 * (IF c.vector THEN c.vectorSize ELSE 0)
  BY <1>1
<1>4. RoundDiv(a, 10) \in Nat /\ RoundDiv(b, 20) \in Nat
  BY RoundDivType
<1>5. SemanticCents(c, m) = RoundDiv(a, 10)
  BY <1>3 DEF SemanticCents
<1>6. OtherCents(c, m) = RoundDiv(b, 20) + v
  BY <1>3 DEF OtherCents
<1>7. QED
  BY <1>2, <1>3, <1>4, <1>5, <1>6

LEMMA RequestIs ==
  ASSUME NEW c, NEW m, NEW request, request = BuildCostModelRequest(c, {m})
  PROVE  /\ c.model = "dedicated" =>
              request.dedicated =
                {Dedicated(c.sku, Larger(c.replicas, 1), Larger(c.partitions, 1))}
         /\ request.serverless = {Serverless(m.monthly, Quarters(c))}
         /\ request.features = Features(IF c.semantic THEN 30 * m.semanticPerDay ELSE 0,
                                        IF c.enrichment THEN 30 * m.updates ELSE 0,
                                        IF c.vector THEN c.vectorSize ELSE 0)
<1>1. The({m}) = m /\ {m} # {}
  BY TheOnly
<1>2. /\ The({x.semanticPerDay : x \in {m}}) = m.semanticPerDay
      /\ The({x.updates : x \in {m}}) = m.updates
  <2>1. /\ {x.semanticPerDay : x \in {m}} = {m.semanticPerDay}
        /\ {x.updates : x \in {m}} = {m.updates}
    OBVIOUS
  <2>2. QED
    BY <2>1, TheOnly
<1>3. c.model = "dedicated" =>
        request.dedicated =
          {Dedicated(c.sku, Larger(c.replicas, 1), Larger(c.partitions, 1))}
  BY DEF BuildCostModelRequest, When
<1>4. request.serverless = {Serverless(m.monthly, Quarters(c))}
  BY <1>1 DEF BuildCostModelRequest, Quarters
<1>5. request.features = Features(IF c.semantic THEN 30 * m.semanticPerDay ELSE 0,
                                  IF c.enrichment THEN 30 * m.updates ELSE 0,
                                  IF c.vector THEN c.vectorSize ELSE 0)
  BY <1>1, <1>2 DEF BuildCostModelRequest
<1>6. QED
  BY <1>3, <1>4, <1>5

LEMMA CostIs ==
  ASSUME NEW c \in ApiConfigurations, NEW m \in ApiMetrics
  PROVE  MonthlyCost(c, {m}) = HostingCents(c, m) + (SemanticCents(c, m) + OtherCents(c, m))
<1>1. PICK request : request = BuildCostModelRequest(c, {m})
  OBVIOUS
<1>2. PICK a : a = FeatureCents(request.features)
  OBVIOUS
<1>3. a = SemanticCents(c, m) + OtherCents(c, m)
  <2>1. a = LineItems(request.features).semantic + LineItems(request.features).enrichment
              + LineItems(request.features).vector
    BY <1>2 DEF FeatureCents
  <2>2. /\ LineItems(request.features).semantic = SemanticCents(c, m)
        /\ LineItems(request.features).enrichment
             + LineItems(request.features).vector = OtherCents(c, m)
    <3>1. request.features = Features(IF c.semantic THEN 30 * m.semanticPerDay ELSE 0,
                                      IF c.enrichment THEN 30 * m.updates ELSE 0,
                                      IF c.vector THEN c.vectorSize ELSE 0)
      BY <1>1, RequestIs
    <3>2. QED
      BY <3>1 DEF LineItems, Features, SemanticCents, OtherCents
  <2>3. /\ LineItems(request.features).semantic \in Int
        /\ LineItems(request.features).enrichment \in Int
        /\ LineItems(request.features).vector \in Int
    <3>1. m.semanticPerDay \in Nat /\ m.updates \in Nat /\ c.vectorSize \in Nat
      BY DEF ApiConfigurations, ApiMetrics
    <3>2. PICK a1, b1, v1 \in Nat : /\ a1 = (IF c.semantic THEN 30 * m.semanticPerDay ELSE 0)
                                  /\ b1 = (IF c.enrichment THEN 30 * m.updates ELSE 0)
                                  /\ v1 = (IF c.vector THEN c.vectorSize ELSE 0)
      BY <3>1
    <3>3. request.features = Features(a1, b1, v1)
      BY <1>1, <3>2, RequestIs
    <3>4. RoundDiv(a1, 10) \in Nat /\ RoundDiv(3 * b1, 20) \in Nat
      BY RoundDivType
    <3>5. QED
      BY <3>3, <3>4 DEF LineItems, Features
  <2>4. QED
    BY <2>1, <2>2, <2>3
<1>4. MonthlyCost(c, {m}) = CostModel(request).total[c.model]
  BY <1>1 DEF MonthlyCost, CostOf
<1>5. CASE c.model = "dedicated"
  <2>1. {DedicatedCents(d) : d \in request.dedicated} =
          {DedicatedCents(Dedicated(c.sku, Larger(c.replicas, 1), Larger(c.partitions, 1)))}
    BY <1>1, <1>5, RequestIs
  <2>2. Cost({DedicatedCents(d) : d \in request.dedicated}) = HostingCents(c, m)
    BY <1>5, <2>1, CostOfOne DEF HostingCents
  <2>3. CostModel(request).total["dedicated"] =
          Cost({DedicatedCents(d) : d \in request.dedicated}) + FeatureCents(request.features)
    BY DEF CostModel
  <2>4. QED
    BY <1>2, <1>3, <1>4, <1>5, <2>2, <2>3
<1>6. CASE c.model = "serverless"
  <2>1. {ServerlessCents(s) : s \in request.serverless} =
          {ServerlessCents(Serverless(m.monthly, Quarters(c)))}
    BY <1>1, RequestIs
  <2>2. Cost({ServerlessCents(s) : s \in request.serverless}) = HostingCents(c, m)
    BY <1>6, <2>1, CostOfOne DEF HostingCents
  <2>3. CostModel(request).total["serverless"] =
          Cost({ServerlessCents(s) : s \in request.serverless}) + FeatureCents(request.features)
    BY DEF CostModel
  <2>4. QED
    BY <1>2, <1>3, <1>4, <1>6, <2>2, <2>3
<1>7. QED
  BY <1>5, <1>6 DEF ApiConfigurations

-----------------------------------------------------------------------------
(* What following an item does to the cost.                                *)

LEMMA ProductGrows ==
  ASSUME NEW a \in Nat, NEW b \in Nat, NEW f \in Nat, a <= b
  PROVE  a * f \in Nat /\ b * f \in Nat /\ a * f <= b * f
<1>1. PICK d \in Nat : b = a + d
  <2>1. b - a \in Nat /\ b = a + (b - a)
    OBVIOUS
  <2>2. QED
    BY <2>1
<1>2. (a + d) * f = a * f + d * f
  OBVIOUS
<1>3. a * f \in Nat /\ d * f \in Nat
  OBVIOUS
<1>4. QED
  BY <1>1, <1>2, <1>3

(* Fewer search units cost no more.                                        *)
LEMMA UnitsGrow ==
  ASSUME NEW a \in Nat, NEW b \in Nat, NEW p \in Nat, NEW u \in Nat, a <= b
  PROVE  /\ (a * p) * u \in Nat /\ (b * p) * u \in Nat /\ (a * p) * u <= (b * p) * u
         /\ (p * a) * u \in Nat /\ (p * b) * u \in Nat /\ (p * a) * u <= (p * b) * u
<1>1. a * p \in Nat /\ b * p \in Nat /\ a * p <= b * p
  BY ProductGrows
<1>2. (a * p) * u \in Nat /\ (b * p) * u \in Nat /\ (a * p) * u <= (b * p) * u
  BY <1>1, ProductGrows
<1>3. p * a = a * p /\ p * b = b * p
  OBVIOUS
<1>4. QED
  BY <1>2, <1>3

LEMMA PriceIs ==
  ASSUME NEW sku \in Skus
  PROVE  /\ UnitPrice[Tier(sku)] \in Nat
         /\ sku # "free" => UnitPrice[Tier(sku)] >= 7500
BY DEF Skus, Tiers, Tier, UnitPrice

(* What is dear enough on dedicated hardware.                              *)
LEMMA DedicatedCosts ==
  ASSUME NEW sku \in Skus, NEW r \in Nat \ {0}, NEW p \in Nat \ {0}
  PROVE  /\ DedicatedCents(Dedicated(sku, r, p)) = (r * p) * UnitPrice[Tier(sku)]
         /\ DedicatedCents(Dedicated(sku, r, p)) \in Nat
         /\ sku # "free" => DedicatedCents(Dedicated(sku, r, p)) >= 7500
<1>1. DedicatedCents(Dedicated(sku, r, p)) = (r * p) * UnitPrice[Tier(sku)]
  BY DEF DedicatedCents, Dedicated, SearchUnits
<1>2. PICK u \in Nat : u = UnitPrice[Tier(sku)] /\ (sku # "free" => u >= 7500)
  BY PriceIs
<1>3. r * p \in Nat /\ r * p >= 1
  <2>1. 1 * p <= r * p /\ r * p \in Nat
    BY ProductGrows
  <2>2. QED
    BY <2>1
<1>4. (r * p) * u \in Nat /\ 1 * u <= (r * p) * u
  BY <1>3, ProductGrows
<1>5. QED
  BY <1>1, <1>2, <1>4

(* Serverless queries cost more the more compute units one takes, and      *)
(* below a hundred thousand a month less than any paid tier.               *)
LEMMA ServerlessType ==
  ASSUME NEW n \in Nat, NEW q \in 4 .. 8
  PROVE  ServerlessCents(Serverless(n, q)) \in Nat
<1>1. ServerlessCents(Serverless(n, q)) = RoundDiv(n * q * 3, 1000)
  BY DEF ServerlessCents, Serverless
<1>2. q * n \in Nat /\ n * q = q * n
  <2>1. q <= q /\ q \in Nat
    OBVIOUS
  <2>2. QED
    BY <2>1, ProductGrows
<1>3. PICK a \in Nat : a = n * q * 3
  BY <1>2
<1>4. RoundDiv(a, 1000) \in Nat
  BY RoundDivType
<1>5. QED
  BY <1>1, <1>3, <1>4

LEMMA ServerlessGrows ==
  ASSUME NEW n \in Nat, NEW q \in 4 .. 8, NEW r \in 4 .. 8, q <= r
  PROVE  ServerlessCents(Serverless(n, q)) <= ServerlessCents(Serverless(n, r))
<1>1. /\ ServerlessCents(Serverless(n, q)) = RoundDiv(n * q * 3, 1000)
      /\ ServerlessCents(Serverless(n, r)) = RoundDiv(n * r * 3, 1000)
  BY DEF ServerlessCents, Serverless
<1>2. n * q = q * n /\ n * r = r * n
  OBVIOUS
<1>3. q * n \in Nat /\ r * n \in Nat /\ q * n <= r * n
  BY ProductGrows
<1>4. PICK a, b \in Nat : a = n * q * 3 /\ b = n * r * 3 /\ a <= b
  BY <1>2, <1>3
<1>5. RoundDiv(a, 1000) <= RoundDiv(b, 1000)
  BY <1>4, RoundDivGrows
<1>6. QED
  BY <1>1, <1>4, <1>5

LEMMA ServerlessIsCheap ==
  ASSUME NEW n \in Nat, NEW q \in 4 .. 8, n < 100000
  PROVE  ServerlessCents(Serverless(n, q)) < 7500
<1>1. ServerlessCents(Serverless(n, q)) = RoundDiv(n * q * 3, 1000)
  BY SMT DEF ServerlessCents, Serverless
<1>2. n * q = q * n
  BY SMT
<1>3. q * n \in Nat /\ q * n <= 8 * n
  BY ProductGrows, SMT
<1>4. PICK a \in Nat : a = n * q * 3 /\ a <= 24 * n
  BY <1>2, <1>3, SMT
<1>5. a <= 2400000
  BY <1>4, SMT
<1>6. RoundDiv(2400000, 1000) = 2400
  BY SMT DEF RoundDiv
<1>7. RoundDiv(a, 1000) <= RoundDiv(2400000, 1000)
  BY <1>5, RoundDivGrows, SMT
<1>8. RoundDiv(a, 1000) \in Nat
  BY RoundDivType, SMT
<1>9. QED
  BY <1>1, <1>4, <1>6, <1>7, <1>8, SMT

-----------------------------------------------------------------------------
(* The queries for which serverless is the cheaper model.                  *)
FewQueries(m) == m.monthly < 100000

(* What may be said to a client with these metrics.                        *)
FairItem(item, m) ==
  /\ item.title = "Reduce replicas" => item.to = Larger(item.from - 1, 1)
  /\ item.title = "Reduce partitions" => item.to = Larger(item.from - 1, 1)
  /\ item.title = "Move to serverless" => FewQueries(m)

NoDearer(c, d, m) ==
  /\ d \in ApiConfigurations
  /\ c.sku # "free" => MonthlyCost(d, {m}) <= MonthlyCost(c, {m})

(* It suffices to compare the parts.                                       *)
LEMMA PartsCompare ==
  ASSUME NEW c \in ApiConfigurations, NEW d \in ApiConfigurations, NEW m \in ApiMetrics,
         HostingCents(c, m) \in Nat, HostingCents(d, m) \in Nat,
         SemanticCents(d, m) <= SemanticCents(c, m), OtherCents(d, m) = OtherCents(c, m),
         c.sku # "free" => HostingCents(d, m) <= HostingCents(c, m)
  PROVE  NoDearer(c, d, m)
<1>1. /\ SemanticCents(c, m) \in Nat /\ OtherCents(c, m) \in Nat
      /\ SemanticCents(d, m) \in Nat /\ OtherCents(d, m) \in Nat
  BY CentsAre
<1>2. /\ MonthlyCost(c, {m}) = HostingCents(c, m) + (SemanticCents(c, m) + OtherCents(c, m))
      /\ MonthlyCost(d, {m}) = HostingCents(d, m) + (SemanticCents(d, m) + OtherCents(d, m))
  BY CostIs
<1>3. QED
  BY <1>1, <1>2 DEF NoDearer

LEMMA HostingType ==
  ASSUME NEW c \in ApiConfigurations, NEW m \in ApiMetrics
  PROVE  /\ HostingCents(c, m) \in Nat
         /\ c.model = "dedicated" /\ c.sku # "free" => HostingCents(c, m) >= 7500
<1>1. /\ c.sku \in Skus /\ Larger(c.replicas, 1) \in Nat \ {0}
      /\ Larger(c.partitions, 1) \in Nat \ {0} /\ m.monthly \in Nat
  BY DEF ApiConfigurations, ApiMetrics, Larger
<1>2. Quarters(c) \in 4 .. 8
  BY CentsAre
<1>3. ServerlessCents(Serverless(m.monthly, Quarters(c))) \in Nat
  <2>1. PICK n \in Nat, q \in 4 .. 8 : n = m.monthly /\ q = Quarters(c)
    BY <1>1, <1>2
  <2>2. ServerlessCents(Serverless(n, q)) \in Nat
    BY ServerlessType
  <2>3. QED
    BY <2>1, <2>2
<1>4. PICK r, p \in Nat \ {0} : r = Larger(c.replicas, 1) /\ p = Larger(c.partitions, 1)
  BY <1>1
<1>5. /\ DedicatedCents(Dedicated(c.sku, r, p)) \in Nat
      /\ c.sku # "free" => DedicatedCents(Dedicated(c.sku, r, p)) >= 7500
  <2>1. PICK sku \in Skus : sku = c.sku
    BY <1>1
  <2>2. /\ DedicatedCents(Dedicated(sku, r, p)) \in Nat
        /\ sku # "free" => DedicatedCents(Dedicated(sku, r, p)) >= 7500
    BY DedicatedCosts
  <2>3. QED
    BY <2>1, <2>2
<1>6. HostingCents(c, m) = IF c.model = "dedicated"
                           THEN DedicatedCents(Dedicated(c.sku, r, p))
                           ELSE ServerlessCents(Serverless(m.monthly, Quarters(c)))
  BY <1>4 DEF HostingCents
<1>7. QED
  BY <1>3, <1>5, <1>6

LEMMA FewerCostNoMore ==
  ASSUME NEW c \in ApiConfigurations, NEW m \in ApiMetrics, NEW to,
         NEW field \in {"replicas", "partitions"}, to = Larger(c[field] - 1, 1)
  PROVE  NoDearer(c, [c EXCEPT ![field] = to], m)
<1> DEFINE d == [c EXCEPT ![field] = to]
<1>0. c.replicas \in Nat /\ c.partitions \in Nat /\ c.sku \in Skus
  BY DEF ApiConfigurations
<1>1. to \in Nat /\ Larger(to, 1) <= Larger(c[field], 1)
  BY <1>0 DEF Larger
<1>2. d \in ApiConfigurations
  BY <1>1 DEF ApiConfigurations
<1>3. /\ d.model = c.model /\ d.sku = c.sku /\ d.semantic = c.semantic /\ d.vector = c.vector
      /\ d.enrichment = c.enrichment /\ d.vectorSize = c.vectorSize
      /\ field = "replicas" => d.replicas = to /\ d.partitions = c.partitions
      /\ field = "partitions" => d.partitions = to /\ d.replicas = c.replicas
  BY DEF ApiConfigurations
<1> HIDE DEF d
<1>4. SemanticCents(d, m) = SemanticCents(c, m) /\ OtherCents(d, m) = OtherCents(c, m)
      /\ Quarters(d) = Quarters(c)
  BY <1>3 DEF SemanticCents, OtherCents, Quarters
<1>5. HostingCents(c, m) \in Nat /\ HostingCents(d, m) \in Nat
  BY <1>2, HostingType
<1>6. HostingCents(d, m) <= HostingCents(c, m)
  <2>1. CASE c.model = "dedicated"
    <3>1. PICK u \in Nat : u = UnitPrice[Tier(c.sku)]
      BY <1>0, PriceIs
    <3>2. PICK r, p, r1, p1 \in Nat \ {0} :
               /\ r = Larger(c.replicas, 1) /\ p = Larger(c.partitions, 1)
               /\ r1 = Larger(d.replicas, 1) /\ p1 = Larger(d.partitions, 1)
      BY <1>0, <1>1, <1>3 DEF Larger
    <3>3. HostingCents(c, m) = (r * p) * u /\ HostingCents(d, m) = (r1 * p1) * u
      <4>1. /\ DedicatedCents(Dedicated(c.sku, r, p)) = (r * p) * u
            /\ DedicatedCents(Dedicated(c.sku, r1, p1)) = (r1 * p1) * u
        BY <1>0, <3>1, DedicatedCosts
      <4>2. HostingCents(c, m) = DedicatedCents(Dedicated(c.sku, r, p))
        BY <2>1, <3>2 DEF HostingCents
      <4>3. HostingCents(d, m) = DedicatedCents(Dedicated(c.sku, r1, p1))
        BY <1>3, <2>1, <3>2 DEF HostingCents
      <4>4. QED
        BY <4>1, <4>2, <4>3
    <3>4. (r1 <= r /\ p1 = p) \/ (r1 = r /\ p1 <= p)
      BY <1>1, <1>3, <3>2
    <3>5. (r1 * p1) * u <= (r * p) * u
      BY <3>4, UnitsGrow
    <3>6. QED
      BY <3>3, <3>5
  <2>2. CASE c.model # "dedicated"
    BY <1>3, <1>4, <1>5, <2>2 DEF HostingCents
  <2>3. QED
    BY <2>1, <2>2
<1>7. SemanticCents(d, m) <= SemanticCents(c, m)
  BY <1>4, CentsAre
<1>8. NoDearer(c, d, m)
  BY <1>2, <1>4, <1>5, <1>6, <1>7, PartsCompare
<1>9. QED
  BY <1>8 DEF d

LEMMA ServerlessCostsNoMore ==
  ASSUME NEW c \in ApiConfigurations, NEW m \in ApiMetrics, FewQueries(m)
  PROVE  NoDearer(c, [c EXCEPT !.model = "serverless"], m)
<1> DEFINE d == [c EXCEPT !.model = "serverless"]
<1>1. d \in ApiConfigurations
  BY DEF ApiConfigurations
<1>2. /\ d.model = "serverless" /\ d.semantic = c.semantic /\ d.vector = c.vector
      /\ d.enrichment = c.enrichment /\ d.vectorSize = c.vectorSize
      /\ c.model \in {"dedicated", "serverless"}
  BY DEF ApiConfigurations
<1> HIDE DEF d
<1>3. SemanticCents(d, m) = SemanticCents(c, m) /\ OtherCents(d, m) = OtherCents(c, m)
      /\ Quarters(d) = Quarters(c)
  BY <1>2 DEF SemanticCents, OtherCents, Quarters
<1>4. HostingCents(c, m) \in Nat /\ HostingCents(d, m) \in Nat
  BY <1>1, HostingType
<1>5. c.sku # "free" => HostingCents(d, m) <= HostingCents(c, m)
  <2>1. CASE c.model = "serverless"
    BY <1>2, <1>3, <1>4, <2>1 DEF HostingCents
  <2>2. CASE c.model = "dedicated"
    <3>1. HostingCents(d, m) = ServerlessCents(Serverless(m.monthly, Quarters(d)))
      BY <1>2 DEF HostingCents
    <3>2. m.monthly \in Nat /\ Quarters(d) \in 4 .. 8
      BY <1>1, CentsAre DEF ApiMetrics
    <3>3. ServerlessCents(Serverless(m.monthly, Quarters(d))) < 7500
      <4>1. PICK n \in Nat, q \in 4 .. 8 : n = m.monthly /\ q = Quarters(d)
        BY <3>2
      <4>2. n < 100000
        BY <4>1, SMT DEF FewQueries
      <4>3. ServerlessCents(Serverless(n, q)) < 7500
        BY <4>2, ServerlessIsCheap, SMT
      <4>4. QED
        BY <4>1, <4>3
    <3>4. c.sku # "free" => HostingCents(c, m) >= 7500
      BY <2>2, HostingType
    <3>5. QED
      BY <1>4, <3>1, <3>3, <3>4
  <2>3. QED
    BY <1>2, <2>1, <2>2
<1>6. SemanticCents(d, m) <= SemanticCents(c, m)
  BY <1>3, CentsAre
<1>7. NoDearer(c, d, m)
  BY <1>1, <1>3, <1>4, <1>5, <1>6, PartsCompare
<1>8. QED
  BY <1>7 DEF d

LEMMA NoRankerCostsNoMore ==
  ASSUME NEW c \in ApiConfigurations, NEW m \in ApiMetrics
  PROVE  NoDearer(c, [c EXCEPT !.semantic = FALSE], m)
<1> DEFINE d == [c EXCEPT !.semantic = FALSE]
<1>1. d \in ApiConfigurations
  BY DEF ApiConfigurations
<1>2. /\ ~ d.semantic /\ d.model = c.model /\ d.sku = c.sku /\ d.vector = c.vector
      /\ d.enrichment = c.enrichment /\ d.vectorSize = c.vectorSize
      /\ d.replicas = c.replicas /\ d.partitions = c.partitions
  BY DEF ApiConfigurations
<1> HIDE DEF d
<1>3. OtherCents(d, m) = OtherCents(c, m)
  BY <1>2 DEF OtherCents
<1>4. SemanticCents(d, m) <= SemanticCents(c, m)
  <2>1. RoundDiv(0, 10) = 0
    BY DEF RoundDiv
  <2>2. SemanticCents(d, m) = 0
    BY <1>2, <2>1 DEF SemanticCents
  <2>3. QED
    BY <2>2, CentsAre
<1>5. Quarters(d) <= Quarters(c)
  <2>1. Quarters(d) = 4 + (IF c.vector THEN 1 ELSE 0) + (IF c.enrichment THEN 2 ELSE 0)
    BY <1>2 DEF Quarters
  <2>2. QED
    BY <2>1 DEF Quarters
<1>6. HostingCents(c, m) \in Nat /\ HostingCents(d, m) \in Nat
  BY <1>1, HostingType
<1>7. HostingCents(d, m) <= HostingCents(c, m)
  <2>1. CASE c.model = "dedicated"
    BY <1>2, <1>6, <2>1 DEF HostingCents
  <2>2. CASE c.model # "dedicated"
    <3>1. m.monthly \in Nat /\ Quarters(c) \in 4 .. 8 /\ Quarters(d) \in 4 .. 8
      BY <1>1, CentsAre DEF ApiMetrics
    <3>2. PICK n, q, r : n = m.monthly /\ q = Quarters(d) /\ r = Quarters(c)
      OBVIOUS
    <3>3. n \in Nat /\ q \in 4 .. 8 /\ r \in 4 .. 8 /\ q <= r
      BY <1>5, <3>1, <3>2
    <3>4. ServerlessCents(Serverless(n, q)) <= ServerlessCents(Serverless(n, r))
      BY <3>3, ServerlessGrows
    <3>5. /\ HostingCents(d, m) = ServerlessCents(Serverless(n, q))
          /\ HostingCents(c, m) = ServerlessCents(Serverless(n, r))
      BY <1>2, <2>2, <3>2 DEF HostingCents
    <3>6. QED
      BY <3>4, <3>5
  <2>3. QED
    BY <2>1, <2>2
<1>8. NoDearer(c, d, m)
  BY <1>1, <1>3, <1>4, <1>6, <1>7, PartsCompare
<1>9. QED
  BY <1>8 DEF d

(* Whatever fair item is followed, the result is one the API accepts and   *)
(* costs no more.                                                          *)
LEMMA FollowedNoDearer ==
  ASSUME NEW c \in ApiConfigurations, NEW m \in ApiMetrics, NEW item, FairItem(item, m)
  PROVE  NoDearer(c, Followed(c, item), m)
<1>1. CASE item.title = "Reduce replicas" /\ item.from = c.replicas
  <2>1. item.to = Larger(item.from - 1, 1)
    BY <1>1 DEF FairItem
  <2>2. item.to = Larger(c["replicas"] - 1, 1)
    BY <1>1, <2>1
  <2>3. NoDearer(c, [c EXCEPT !["replicas"] = item.to], m)
    BY <2>2, FewerCostNoMore
  <2>4. QED
    BY <1>1, <2>3 DEF Followed
<1>2. CASE item.title = "Reduce partitions" /\ item.from = c.partitions
  <2>1. item.to = Larger(item.from - 1, 1)
    BY <1>2 DEF FairItem
  <2>2. item.to = Larger(c["partitions"] - 1, 1)
    BY <1>2, <2>1
  <2>3. NoDearer(c, [c EXCEPT !["partitions"] = item.to], m)
    BY <2>2, FewerCostNoMore
  <2>4. QED
    BY <1>2, <2>3 DEF Followed
<1>3. CASE item.title = "Move to serverless"
  <2>1. FewQueries(m)
    BY <1>3 DEF FairItem
  <2>2. NoDearer(c, [c EXCEPT !.model = "serverless"], m)
    BY <2>1, ServerlessCostsNoMore
  <2>3. QED
    BY <1>3, <2>2 DEF Followed
<1>4. CASE item.title = "Disable semantic ranker"
  BY <1>4, NoRankerCostsNoMore DEF Followed
<1>5. CASE Followed(c, item) = c
  <2>1. MonthlyCost(c, {m}) \in Int
    BY CostIs, HostingType, CentsAre
  <2>2. QED
    BY <1>5, <2>1 DEF NoDearer
<1>6. QED
  BY <1>1, <1>2, <1>3, <1>4, <1>5 DEF Followed

-----------------------------------------------------------------------------
(* What the findings mention, and what rests on it.                        *)

(* An analysis mentions serverless only to a service with few queries.     *)
Sound(findings, m) == "serverless" \in Topics(findings) => FewQueries(m)

(* What has to be so when a finding mentions a topic of the advice.        *)
Founded(f, s, o) ==
  /\ "serverless" \in f.topics => s.mode = "dedicated" /\ FewQueries(o)
  /\ "semantic" \in f.topics => RarelySemantic(s, o)
  /\ "vector" \in f.topics => RarelyVector(s, o)

LEMMA NothingFounded == \A s, o, t, v, c, i : Founded(Finding(t, v, c, {}, i), s, o)
BY DEF Founded, Finding

LEMMA ReplicaFounded == \A s, o, t, v, c, i : Founded(Finding(t, v, c, {"replica"}, i), s, o)
BY DEF Founded, Finding

LEMMA LatencyFounded ==
  \A s, o, t, v, c, i : Founded(Finding(t, v, c, {"replica", "latency"}, i), s, o)
BY DEF Founded, Finding

LEMMA PartitionFounded ==
  \A s, o, t, v, c, i : Founded(Finding(t, v, c, {"partition", "storage"}, i), s, o)
BY DEF Founded, Finding

LEMMA SemanticFounded ==
  \A s, o, t, v, c, i :
    RarelySemantic(s, o) => Founded(Finding(t, v, c, {"semantic"}, i), s, o)
BY DEF Founded, Finding

LEMMA VectorFounded ==
  \A s, o, t, v, c, i :
    RarelyVector(s, o) => Founded(Finding(t, v, c, {"vector"}, i), s, o)
BY DEF Founded, Finding

LEMMA ProvisioningFounded ==
  ASSUME NEW s, NEW o,
         NEW f \in ProvisioningFindings(s, o) \cup HeuristicProvisioning(s, o)
  PROVE  Founded(f, s, o)
<1>1. CASE f \in ProvisioningFindings(s, o)
  BY <1>1, NothingFounded, ReplicaFounded, PartitionFounded DEF ProvisioningFindings, When
<1>2. CASE f \in HeuristicProvisioning(s, o)
  BY <1>2, LatencyFounded, PartitionFounded DEF HeuristicProvisioning, When
<1>3. QED
  BY <1>1, <1>2

LEMMA UsageFounded ==
  ASSUME NEW s, NEW o, NEW f \in FeatureFindings(s, o) \cup HeuristicFeatures(s, o)
  PROVE  Founded(f, s, o)
<1>1. CASE f \in FeatureFindings(s, o)
  BY <1>1, NothingFounded, SemanticFounded, VectorFounded DEF FeatureFindings, When
<1>2. CASE f \in HeuristicFeatures(s, o)
  BY <1>2, SemanticFounded, VectorFounded DEF HeuristicFeatures, When
<1>3. QED
  BY <1>1, <1>2

(* The findings of the SKU analyzer, by name.                              *)
SmallEnough == Finding("S3 fits within S1", "medium", "sku", {}, 0)
HardlyUsed  == Finding("Serverless candidate", "medium", "sku", {"serverless"}, 0)
Evaluate    == Finding("Evaluate serverless pricing", "medium", "sku", {"serverless"}, 0)

NamedSkuFindings(s, o) ==
  IF s.mode # "dedicated" THEN {} ELSE
       When(s.sku \in {"s3", "s3_hd"} /\ o.size <= S1Storage /\ o.monthly <= 1000000,
            SmallEnough)
  \cup When(s.sku = "basic" /\ (StoragePressure(o) \/ o.monthly >= 1000000),
            Undersized(o))
  \cup When(o.monthly < 100000 /\ o.cpu < 15, HardlyUsed)

LEMMA SkuNamed == ASSUME NEW s, NEW o PROVE SkuFindings(s, o) = NamedSkuFindings(s, o)
BY SMT DEF SkuFindings, NamedSkuFindings, SmallEnough, HardlyUsed, StoragePressure

NamedHeuristicSku(s, o) ==
  When(/\ s.mode = "dedicated" /\ o.monthly < 100000 /\ o.cpu < 15
       /\ s.features \cap PremiumFeatures = {}, Evaluate)

LEMMA HeuristicSkuNamed == ASSUME NEW s, NEW o PROVE HeuristicSku(s, o) = NamedHeuristicSku(s, o)
BY SMT DEF HeuristicSku, NamedHeuristicSku, Evaluate

LEMMA SkuFounded ==
  ASSUME NEW s, NEW o, NEW f \in SkuFindings(s, o) \cup HeuristicSku(s, o)
  PROVE  Founded(f, s, o)
<1>1. Founded(SmallEnough, s, o) /\ Founded(Undersized(o), s, o)
  <2>1. \A t, v, c, i : Founded(Finding(t, v, c, {"storage"}, i), s, o)
    BY DEF Founded, Finding
  <2>2. QED
    BY <2>1, NothingFounded DEF SmallEnough, Undersized, When
<1>2. s.mode = "dedicated" /\ FewQueries(o) =>
        Founded(HardlyUsed, s, o) /\ Founded(Evaluate, s, o)
  BY DEF Founded, HardlyUsed, Evaluate, Finding
<1>3. CASE f \in SkuFindings(s, o)
  <2>1. f \in NamedSkuFindings(s, o)
    BY <1>3, SkuNamed
  <2>2. \/ f = SmallEnough \/ f = Undersized(o)
        \/ f = HardlyUsed /\ s.mode = "dedicated" /\ FewQueries(o)
    BY <2>1, SMT DEF NamedSkuFindings, When, StoragePressure, FewQueries
  <2>3. QED
    BY <1>1, <1>2, <2>2
<1>4. CASE f \in HeuristicSku(s, o)
  <2>1. f \in NamedHeuristicSku(s, o)
    BY <1>4, HeuristicSkuNamed
  <2>2. f = Evaluate /\ s.mode = "dedicated" /\ FewQueries(o)
    BY <2>1, SMT DEF NamedHeuristicSku, When, FewQueries
  <2>3. QED
    BY <1>2, <2>2
<1>5. QED
  BY <1>3, <1>4

LEMMA AnalysisIsFounded ==
  ASSUME NEW c, NEW m, NEW f \in Analyze(BuildSnapshot(c, m))
  PROVE  Founded(f, Configured(c), Observed(c, m))
<1>1. PICK s, o : s = Configured(c) /\ o = Observed(c, m)
  OBVIOUS
<1>2. Analyze(BuildSnapshot(c, m)) =
        ProvisioningFindings(s, o) \cup SkuFindings(s, o) \cup FeatureFindings(s, o)
          \cup HeuristicProvisioning(s, o) \cup HeuristicSku(s, o) \cup HeuristicFeatures(s, o)
  BY <1>1 DEF Analyze, BuildSnapshot
<1>3. Founded(f, s, o)
  <2>1. CASE f \in ProvisioningFindings(s, o) \cup HeuristicProvisioning(s, o)
    BY <2>1, ProvisioningFounded
  <2>2. CASE f \in SkuFindings(s, o) \cup HeuristicSku(s, o)
    BY <2>2, SkuFounded
  <2>3. CASE f \in FeatureFindings(s, o) \cup HeuristicFeatures(s, o)
    BY <2>3, UsageFounded
  <2>4. QED
    BY <1>2, <2>1, <2>2, <2>3
<1>4. QED
  BY <1>1, <1>3

LEMMA AnalysisIsSound ==
  ASSUME NEW c, NEW m
  PROVE  Sound(Analyze(BuildSnapshot(c, m)), m)
<1>1. SUFFICES ASSUME NEW f \in Analyze(BuildSnapshot(c, m)), "serverless" \in f.topics
               PROVE  FewQueries(m)
  BY DEF Sound, Topics
<1>2. FewQueries(Observed(c, m))
  BY <1>1, AnalysisIsFounded DEF Founded
<1>3. Observed(c, m).monthly = m.monthly
  BY DEF Observed
<1>4. QED
  BY <1>2, <1>3, SMT DEF FewQueries

-----------------------------------------------------------------------------
(* What a request for advice may hold: the workload of now, at an earlier  *)
(* time, or an analysis of such a workload.                                *)
AtMostOneOf(set) == \A x, y \in set : x = y

AskedFine(asked, m) ==
  /\ asked.max \in Limits
  /\ AtMostOneOf(asked.analysis) /\ \A f \in asked.analysis : Sound(f, m)
  /\ AtMostOneOf(asked.configuration) /\ asked.configuration \subseteq ApiConfigurations
  /\ asked.metrics \subseteq {m}

(* Where the findings and the facts of an answer come from.                *)
FromAnalysis(asked, body, findings, facts) ==
  /\ body.source = "analysis" /\ findings \in asked.analysis
  /\ facts = Inputs(findings, {}, {}, {}).facts

FromWorkload(c, m, body, findings, facts) ==
  /\ body.source = "end_to_end"
  /\ findings = Analyze(BuildSnapshot(c, m)) /\ Ingested(BuildSnapshot(c, m)) = "ok"
  /\ facts = Inputs(findings, {c}, {m}, {CostOf(c, {m})}).facts

Reports(body, findings, facts, costData, max) ==
  /\ body.findings = findings
  /\ body.items = FirstItems(Report(facts, costData), max)
  /\ body.urgent = Report(facts, costData).urgent

LEMMA AnsweredIs ==
  ASSUME NEW source, NEW findings, NEW inputs, NEW max, NEW body,
         body = Answered(source, findings, inputs, max), body.status = 200
  PROVE  /\ body.source = source
         /\ Reports(body, findings, inputs.facts, inputs.costData, max)
BY DEF Answered, Refused, Reports

LEMMA AdviceIs ==
  ASSUME NEW m, NEW asked, AskedFine(asked, m),
         NEW body, body = RecommendOptimizations(asked), body.status = 200
  PROVE  \E findings, facts, costData :
           /\ Reports(body, findings, facts, costData, asked.max)
           /\ \/ FromAnalysis(asked, body, findings, facts)
              \/ \E c \in ApiConfigurations : FromWorkload(c, m, body, findings, facts)
<1>1. ValidRequest(asked)
  BY DEF RecommendOptimizations, Refused
<1>2. CASE asked.configuration = {}
  <2>1. PICK findings, inputs : /\ findings = The(asked.analysis)
                                /\ inputs = Inputs(findings, {}, {}, {})
    OBVIOUS
  <2>2. findings \in asked.analysis
    BY <1>1, <1>2, <2>1 DEF ValidRequest, The
  <2>3. body = Answered("analysis", findings, inputs, asked.max)
    BY <1>1, <1>2, <2>1 DEF RecommendOptimizations
  <2>4. /\ body.source = "analysis"
        /\ Reports(body, findings, inputs.facts, inputs.costData, asked.max)
    BY <2>3, AnsweredIs
  <2>5. FromAnalysis(asked, body, findings, inputs.facts)
    BY <2>1, <2>2, <2>4 DEF FromAnalysis
  <2>6. QED
    BY <2>4, <2>5
<1>3. CASE asked.configuration # {}
  <2>1. PICK c \in ApiConfigurations : asked.configuration = {c} /\ The(asked.configuration) = c
    BY <1>3, TheOnly DEF AskedFine, AtMostOneOf
  <2>2. asked.metrics = {m} /\ The(asked.metrics) = m
    BY <1>1, <1>3, TheOnly DEF ValidRequest, AskedFine
  <2>3. PICK snapshot, findings, inputs :
               /\ snapshot = BuildSnapshot(c, m) /\ findings = Analyze(snapshot)
               /\ inputs = Inputs(findings, {c}, {m}, {CostOf(c, {m})})
    OBVIOUS
  <2>4. /\ Ingested(snapshot) = "ok"
        /\ body = Answered("end_to_end", findings, inputs, asked.max)
    BY <1>1, <1>3, <2>1, <2>2, <2>3 DEF RecommendOptimizations, Refused
  <2>5. /\ body.source = "end_to_end"
        /\ Reports(body, findings, inputs.facts, inputs.costData, asked.max)
    BY <2>4, AnsweredIs
  <2>6. FromWorkload(c, m, body, findings, inputs.facts)
    BY <2>3, <2>4, <2>5 DEF FromWorkload
  <2>7. QED
    BY <2>5, <2>6
<1>4. QED
  BY <1>2, <1>3

-----------------------------------------------------------------------------
(* Facts that come from either are fair.                                   *)
FairFacts(facts, m) ==
  /\ Flag(facts, "switch_to_serverless_candidate") => FewQueries(m)
  /\ \A title \in {"Reduce replicas", "Reduce partitions"} :
       Entry(facts, title).to = Larger(Entry(facts, title).from - 1, 1)

LEMMA TopicFlagsAre ==
  ASSUME NEW findings, NEW configuration_,
         "switch_to_serverless_candidate" \in TopicFlags(Topics(findings), configuration_)
  PROVE  "serverless" \in Topics(findings)
BY DEF TopicFlags, TopicFlag, DefaultFlag

LEMMA FactsOfAnalysis ==
  ASSUME NEW findings, NEW m, Sound(findings, m)
  PROVE  FairFacts(Inputs(findings, {}, {}, {}).facts, m)
<1>1. PICK facts : facts = Inputs(findings, {}, {}, {}).facts
  OBVIOUS
<1>2. DOMAIN facts.numbers \cap CountNames = {}
  BY <1>1, InputsOfAnalysis
<1>3. facts.flags = TopicFlags(Topics(findings), {})
  BY <1>1 DEF Inputs
<1>4. Flag(facts, "switch_to_serverless_candidate") => FewQueries(m)
  BY <1>3, TopicFlagsAre DEF Flag, Sound
<1>5. /\ Number(facts, "replicas", 2) = 2 /\ Number(facts, "partitions", 1) = 1
      /\ \A n : Number(facts, "suggested_replicas", n) = n
      /\ \A n : Number(facts, "suggested_partitions", n) = n
  BY <1>2 DEF Number, CountNames
<1>6. /\ Entry(facts, "Reduce replicas").from = 2
      /\ Entry(facts, "Reduce replicas").to = Larger(2 - 1, 1)
      /\ Entry(facts, "Reduce partitions").from = 1
      /\ Entry(facts, "Reduce partitions").to = Larger(1 - 1, 1)
  BY <1>5 DEF Entry, Reduction, Recommendation
<1>7. QED
  BY <1>1, <1>4, <1>6 DEF FairFacts

LEMMA FactsOfWorkload ==
  ASSUME NEW c, NEW m, NEW findings, Sound(findings, m), NEW costs
  PROVE  FairFacts(Inputs(findings, {c}, {m}, costs).facts, m)
<1>1. PICK facts : facts = Inputs(findings, {c}, {m}, costs).facts
  OBVIOUS
<1>2. Counted(facts.numbers, c)
  BY <1>1, InputsOfWorkload DEF WorkloadFacts
<1>3. facts.flags = TopicFlags(Topics(findings), {c}) \cup
                      (ConfigurationFlags(c) \cup WorkloadFlags(c, m))
  <2>1. The({c}) = c /\ The({m}) = m
    BY TheOnly
  <2>2. QED
    BY <1>1, <2>1 DEF Inputs
<1>4. "switch_to_serverless_candidate" \in WorkloadFlags(c, m) => ServerlessCandidate(c, m)
  BY DEF WorkloadFlags, When
<1>5. ServerlessCandidate(c, m) => FewQueries(m)
  BY SMT DEF ServerlessCandidate, FewQueries
<1>6. "switch_to_serverless_candidate" \notin ConfigurationFlags(c)
  BY DEF ConfigurationFlags, When
<1>7. Flag(facts, "switch_to_serverless_candidate") => FewQueries(m)
  BY <1>3, <1>4, <1>5, <1>6, TopicFlagsAre DEF Flag, Sound
<1>8. /\ Number(facts, "replicas", 2) = c.replicas /\ Number(facts, "partitions", 1) = c.partitions
      /\ Number(facts, "suggested_replicas", Larger(c.replicas - 1, 1))
           = Larger(c.replicas - 1, 1)
      /\ Number(facts, "suggested_partitions", Larger(c.partitions - 1, 1))
           = Larger(c.partitions - 1, 1)
  BY <1>2 DEF Number, Counted
<1>9. /\ Entry(facts, "Reduce replicas").from = c.replicas
      /\ Entry(facts, "Reduce replicas").to = Larger(c.replicas - 1, 1)
      /\ Entry(facts, "Reduce partitions").from = c.partitions
      /\ Entry(facts, "Reduce partitions").to = Larger(c.partitions - 1, 1)
  BY <1>8 DEF Entry, Reduction, Recommendation
<1>10. QED
  BY <1>1, <1>7, <1>9 DEF FairFacts

(* An item is on the list because a rule put it there.                     *)
LEMMA OnTheList ==
  ASSUME NEW facts, NEW costData, NEW max \in Nat,
         NEW items, items = FirstItems(Report(facts, costData), max), NEW i \in DOMAIN items
  PROVE  \E r \in Recommended(facts) :
           /\ r.title \in TitleSet /\ r = Entry(facts, r.title)
           /\ items[i].title = r.title /\ items[i].from = r.from /\ items[i].to = r.to
<1>1. PICK S, n : S = Recommended(facts) /\ n = Smaller(max, Cardinality(S))
  OBVIOUS
<1>2. FirstOf(items, S, n)
  BY <1>1, ItemsAre
<1>3. PICK r \in S : r = Ranked(S)[i]
  BY <1>2 DEF FirstOf
<1>4. items[i].title = r.title /\ items[i].from = r.from /\ items[i].to = r.to
  BY <1>2, <1>3 DEF FirstOf
<1>5. QED
  BY <1>1, <1>3, <1>4, RecommendedIs

LEMMA ServerlessAdvice ==
  ASSUME NEW facts, NEW r \in Recommended(facts), r.title = "Move to serverless"
  PROVE  /\ Flag(facts, "switch_to_serverless_candidate")
<1>0. \A t \in {"Reduce replicas", "Reduce partitions", "Downgrade SKU", "Move to dedicated",
                "Disable semantic ranker", "Enable semantic ranker", "Optimize vector search"} :
        r # Entry(facts, t)
  <2>1. \A t : Entry(facts, t).title = t
    BY EntryTitle
  <2>2. QED
    BY <2>1
<1>1. r \notin Rightsizing(facts)
  BY <1>0, RightsizingEntries
<1>2. r \notin FeatureGuidance(facts)
  BY <1>0, GuidanceEntries
<1>3. ASSUME NEW t \in LoadAlerts(facts) \cup OperationAlerts(facts) PROVE r # Plain(t, {})
  <2>1. t # "Move to serverless"
    BY <1>3, AlertTitles
  <2>2. Plain(t, {}).title = t
    BY DEF Plain, Recommendation
  <2>3. QED
    BY <2>1, <2>2
<1>4. r \in PricingAdvice(facts)
  BY <1>1, <1>2, <1>3 DEF Recommended
<1>5. r # Entry(facts, "Move to dedicated")
  BY <1>0
<1>6. Entry(facts, "Move to dedicated") =
        Plain("Move to dedicated", {Number(facts, "dedicated_monthly_savings", 0)})
  BY DEF Entry
<1>7. QED
  BY <1>4, <1>5, <1>6 DEF PricingAdvice, When

LEMMA ItemsAreFair ==
  ASSUME NEW facts, NEW m, FairFacts(facts, m), NEW costData, NEW max \in Nat,
         NEW items, items = FirstItems(Report(facts, costData), max), NEW i \in DOMAIN items
  PROVE  FairItem(items[i], m)
<1>1. PICK r \in Recommended(facts) :
           /\ r = Entry(facts, r.title)
           /\ items[i].title = r.title /\ items[i].from = r.from /\ items[i].to = r.to
  BY OnTheList
<1>2. items[i].title = "Move to serverless" => FewQueries(m)
  BY <1>1, ServerlessAdvice DEF FairFacts
<1>3. items[i].title = "Reduce replicas" => items[i].to = Larger(items[i].from - 1, 1)
  BY <1>1 DEF FairFacts
<1>4. items[i].title = "Reduce partitions" => items[i].to = Larger(items[i].from - 1, 1)
  BY <1>1 DEF FairFacts
<1>5. QED
  BY <1>2, <1>3, <1>4 DEF FairItem

-----------------------------------------------------------------------------
(* From the findings to the list.                                          *)

(* Rounding adds less than one.                                            *)
LEMMA RoundDivBelow ==
  ASSUME NEW a \in Nat, NEW b \in Nat \ {0}
  PROVE  RoundDiv(a, b) \in Nat /\ b * RoundDiv(a, b) < a + b
<1>1. PICK q \in Nat, r \in 0 .. (b - 1) : /\ q = a \div b /\ r = a % b /\ a = b * q + r
  OBVIOUS
<1>2. b * q \in Nat /\ b * (q + 1) = b * q + b
  OBVIOUS
<1>3. RoundDiv(a, b) = IF 2 * r > b \/ (2 * r = b /\ q % 2 = 1) THEN q + 1 ELSE q
  BY <1>1 DEF RoundDiv
<1>4. CASE RoundDiv(a, b) = q
  BY <1>1, <1>2, <1>4
<1>5. CASE RoundDiv(a, b) = q + 1 /\ (2 * r > b \/ 2 * r = b)
  <2>1. r > 0
    BY <1>5
  <2>2. QED
    BY <1>1, <1>2, <1>5, <2>1
<1>6. QED
  BY <1>3, <1>4, <1>5

(* What is rarely used by the rounded average of a day is rarely used by   *)
(* the raw metrics: k uses a day of fewer than the average come to less    *)
(* than all of the month.                                                  *)
LEMMA AverageIsFair ==
  ASSUME NEW m \in ApiMetrics, NEW k \in Nat, k < AveragePerDay(m)
  PROVE  k * m.window < Larger(m.monthly, m.window)
<1>1. PICK w \in Nat \ {0}, n \in Nat : w = m.window /\ n = m.monthly
  BY DEF ApiMetrics
<1>2. PICK d \in Nat : d = RoundDiv(n, w) /\ w * d < n + w
  BY RoundDivBelow
<1>3. k < Larger(d, 1)
  BY <1>1, <1>2 DEF AveragePerDay
<1>4. Larger(n, w) \in Nat /\ Larger(n, w) >= n /\ Larger(n, w) >= w
  BY <1>1 DEF Larger
<1>5. CASE k = 0
  BY <1>1, <1>4, <1>5
<1>6. CASE k # 0
  <2>1. k + 1 <= d
    BY <1>2, <1>3, <1>6 DEF Larger
  <2>2. (k + 1) * w <= d * w /\ (k + 1) * w \in Nat /\ d * w \in Nat
    <3>1. k + 1 \in Nat
      OBVIOUS
    <3>2. QED
      BY <2>1, <3>1, ProductGrows
  <2>3. (k + 1) * w = k * w + w /\ d * w = w * d /\ k * w \in Nat
    OBVIOUS
  <2>4. k * w < n
    BY <1>2, <2>2, <2>3
  <2>5. QED
    BY <1>1, <1>4, <2>3, <2>4
<1>7. QED
  BY <1>5, <1>6

LEMMA RarelyIsRare ==
  ASSUME NEW m \in ApiMetrics, NEW perDay \in Nat, NEW percent \in {5, 10},
         Below(Share(TRUE, perDay, AveragePerDay(m)), percent)
  PROVE  Below(Ratio(perDay, m), percent)
<1>1. PICK w \in Nat \ {0}, n \in Nat : w = m.window /\ n = m.monthly
  BY DEF ApiMetrics
<1>2. PICK average \in Nat : average = AveragePerDay(m) /\ average >= 1
  <2>1. RoundDiv(n, w) \in Nat
    BY RoundDivBelow
  <2>2. QED
    BY <1>1, <2>1 DEF AveragePerDay, Larger
<1>3. 100 * Smaller(perDay, average) < percent * average
  BY <1>2 DEF Below, Share
<1>4. perDay < average
  BY <1>2, <1>3 DEF Smaller
<1>5. 100 * perDay < percent * average
  BY <1>2, <1>3, <1>4 DEF Smaller
<1>6. PICK all \in Nat : all = Larger(n, w)
  BY DEF Larger
<1>7. PICK k \in Nat : /\ k = (IF percent = 5 THEN 20 ELSE 10) * perDay
                       /\ percent * k = 100 * perDay
  OBVIOUS
<1>8. k < average
  BY <1>2, <1>5, <1>7
<1>9. k * w < all
  BY <1>1, <1>2, <1>6, <1>8, AverageIsFair
<1>10. percent * (k * w) < percent * all
  BY <1>6, <1>9
<1>11. percent * (k * w) = 100 * (perDay * w)
  <2>1. percent * (k * w) = (percent * k) * w
    OBVIOUS
  <2>2. (100 * perDay) * w = 100 * (perDay * w)
    OBVIOUS
  <2>3. QED
    BY <1>7, <2>1, <2>2
<1>12. QED
  BY <1>1, <1>6, <1>10, <1>11 DEF Below, Ratio

-----------------------------------------------------------------------------
(* A list that did not reach its limit has all the recommendations.        *)
LEMMA AllListed ==
  ASSUME NEW facts, NEW costData, NEW max \in Nat,
         NEW items, items = FirstItems(Report(facts, costData), max), Len(items) < max,
         NEW r \in Recommended(facts)
  PROVE  \E i \in DOMAIN items : items[i].title = r.title
<1>1. PICK S, n : S = Recommended(facts) /\ n = Smaller(max, Cardinality(S))
  OBVIOUS
<1>2. Cardinality(S) \in Nat /\ n \in Nat /\ FirstOf(items, S, n)
  BY <1>1, ItemsAre
<1>3. n < max
  BY <1>2 DEF FirstOf
<1>4. n = Cardinality(S)
  BY <1>1, <1>2, <1>3 DEF Smaller
<1>5. PICK i \in 1 .. Cardinality(S) : Ranked(S)[i] = r
  BY <1>1, RecommendedKeyed, RankedIs
<1>6. QED
  BY <1>2, <1>4, <1>5 DEF FirstOf

(* The rules that act on the topics, by the title they give.               *)
LEMMA RulesAct ==
  ASSUME NEW facts
  PROVE  /\ Flag(facts, "replica_overprovisioned") =>
              \E r \in Recommended(facts) : r.title = "Reduce replicas"
         /\ Flag(facts, "partition_overprovisioned") =>
              \E r \in Recommended(facts) : r.title = "Reduce partitions"
         /\ facts.hosting = "dedicated" /\ Flag(facts, "switch_to_serverless_candidate") =>
              \E r \in Recommended(facts) : r.title = "Move to serverless"
         /\ Flag(facts, "semantic_ranker_enabled") /\ Below(facts.semanticRatio, 10) =>
              \E r \in Recommended(facts) : r.title = "Disable semantic ranker"
         /\ Flag(facts, "vector_search_enabled") /\ Flag(facts, "vector_optimization_opportunity")
              => \E r \in Recommended(facts) : r.title = "Optimize vector search"
<1>1. \A t : Entry(facts, t).title = t
  BY EntryTitle
<1>2. /\ Flag(facts, "replica_overprovisioned") =>
           Entry(facts, "Reduce replicas") \in Rightsizing(facts)
      /\ Flag(facts, "partition_overprovisioned") =>
           Entry(facts, "Reduce partitions") \in Rightsizing(facts)
  BY DEF Rightsizing, When, Entry
<1>3. facts.hosting = "dedicated" /\ Flag(facts, "switch_to_serverless_candidate") =>
        Entry(facts, "Move to serverless") \in PricingAdvice(facts)
  BY DEF PricingAdvice, When, Entry
<1>4. /\ Flag(facts, "semantic_ranker_enabled") /\ Below(facts.semanticRatio, 10) =>
           Entry(facts, "Disable semantic ranker") \in FeatureGuidance(facts)
      /\ Flag(facts, "vector_search_enabled") /\ Flag(facts, "vector_optimization_opportunity")
           => Entry(facts, "Optimize vector search") \in FeatureGuidance(facts)
  BY DEF FeatureGuidance, When, Entry
<1>5. QED
  BY <1>1, <1>2, <1>3, <1>4 DEF Recommended

(* The facts of a workload, topic by topic.                                *)
LEMMA FactsFollow ==
  ASSUME NEW c \in ApiConfigurations, NEW m \in ApiMetrics, NEW costs,
         NEW findings, findings = Analyze(BuildSnapshot(c, m)),
         NEW facts, facts = Inputs(findings, {c}, {m}, costs).facts
  PROVE  /\ "replica" \in Topics(findings) => Flag(facts, "replica_overprovisioned")
         /\ "partition" \in Topics(findings) => Flag(facts, "partition_overprovisioned")
         /\ "serverless" \in Topics(findings) =>
              facts.hosting = "dedicated" /\ Flag(facts, "switch_to_serverless_candidate")
         /\ "semantic" \in Topics(findings) =>
              Flag(facts, "semantic_ranker_enabled") /\ Below(facts.semanticRatio, 10)
         /\ "vector" \in Topics(findings) =>
              /\ Flag(facts, "vector_search_enabled")
              /\ Flag(facts, "vector_optimization_opportunity")
<1>1. \A topic \in Topics(findings) : \E f \in findings : topic \in f.topics
  BY DEF Topics
<1>2. \A f \in findings : Founded(f, Configured(c), Observed(c, m))
  BY AnalysisIsFounded
<1>3. /\ facts.hosting = c.model
      /\ facts.semanticRatio = Ratio(m.semanticPerDay, m)
      /\ ConfigurationFlags(c) \cup WorkloadFlags(c, m) \subseteq facts.flags
  <2>1. WorkloadFacts(Inputs(findings, {c}, {m}, costs).facts, c, m)
    BY InputsOfWorkload
  <2>2. WorkloadFacts(facts, c, m)
    BY <2>1
  <2>3. QED
    BY <2>2 DEF WorkloadFacts
<1>4. TopicFlags(Topics(findings), {c}) \subseteq facts.flags
  BY DEF Inputs
<1>5. /\ "replica" \in Topics(findings) =>
           "replica_overprovisioned" \in TopicFlags(Topics(findings), {c})
      /\ "partition" \in Topics(findings) =>
           "partition_overprovisioned" \in TopicFlags(Topics(findings), {c})
      /\ "serverless" \in Topics(findings) =>
           "switch_to_serverless_candidate" \in TopicFlags(Topics(findings), {c})
  <2>1. \A t \in DOMAIN TopicFlag \cap Topics(findings) :
          TopicFlag[t] \in TopicFlags(Topics(findings), {c})
    BY DEF TopicFlags
  <2>2. /\ {"replica", "partition", "serverless"} \subseteq DOMAIN TopicFlag
        /\ TopicFlag["replica"] = "replica_overprovisioned"
        /\ TopicFlag["partition"] = "partition_overprovisioned"
        /\ TopicFlag["serverless"] = "switch_to_serverless_candidate"
    BY DEF TopicFlag
  <2>3. QED
    BY <2>1, <2>2
<1>6. "serverless" \in Topics(findings) => facts.hosting = "dedicated"
  <2>1. Configured(c).mode = c.model
    BY DEF Configured
  <2>2. QED
    BY <1>1, <1>2, <1>3, <2>1 DEF Founded
<1>7. m.semanticPerDay \in Nat /\ m.vectorPerDay \in Nat
  BY DEF ApiMetrics
<1>8. ASSUME "semantic" \in Topics(findings)
      PROVE  Flag(facts, "semantic_ranker_enabled") /\ Below(facts.semanticRatio, 10)
  <2>1. RarelySemantic(Configured(c), Observed(c, m))
    BY <1>1, <1>2, <1>8 DEF Founded
  <2>2. c.semantic /\ Below(Share(c.semantic, m.semanticPerDay, AveragePerDay(m)), 10)
    BY <2>1 DEF RarelySemantic, Configured, Observed
  <2>3. Below(Share(TRUE, m.semanticPerDay, AveragePerDay(m)), 10)
    BY <2>2 DEF Share
  <2>4. Below(Ratio(m.semanticPerDay, m), 10)
    BY <1>7, <2>3, RarelyIsRare
  <2>5. "semantic_ranker_enabled" \in ConfigurationFlags(c)
    BY <2>2 DEF ConfigurationFlags, When
  <2>6. QED
    BY <1>3, <2>4, <2>5 DEF Flag
<1>9. ASSUME "vector" \in Topics(findings)
      PROVE  /\ Flag(facts, "vector_search_enabled")
             /\ Flag(facts, "vector_optimization_opportunity")
  <2>1. RarelyVector(Configured(c), Observed(c, m))
    BY <1>1, <1>2, <1>9 DEF Founded
  <2>2. c.vector /\ Below(Share(c.vector, m.vectorPerDay, AveragePerDay(m)), 5)
    BY <2>1 DEF RarelyVector, Configured, Observed
  <2>3. Below(Share(TRUE, m.vectorPerDay, AveragePerDay(m)), 5)
    BY <2>2 DEF Share
  <2>4. Below(Ratio(m.vectorPerDay, m), 5)
    BY <1>7, <2>3, RarelyIsRare
  <2>5. "vector_search_enabled" \in ConfigurationFlags(c)
    BY <2>2 DEF ConfigurationFlags, When
  <2>6. "vector_optimization_opportunity" \in WorkloadFlags(c, m)
    BY <2>2, <2>4 DEF WorkloadFlags, When
  <2>7. QED
    BY <1>3, <2>5, <2>6 DEF Flag
<1>10. QED
  BY <1>4, <1>5, <1>6, <1>8, <1>9 DEF Flag

(* Every topic has its recommendation, and a list that is not full has it. *)
LEMMA TopicsAreActedOn ==
  ASSUME NEW c \in ApiConfigurations, NEW m \in ApiMetrics, NEW body, NEW findings, NEW facts,
         FromWorkload(c, m, body, findings, facts),
         NEW costData, NEW max \in Nat,
         NEW items, items = FirstItems(Report(facts, costData), max), Len(items) < max,
         NEW topic \in Topics(findings) \cap DOMAIN Acts
  PROVE  \E i \in DOMAIN items : items[i].title = Acts[topic]
<1>1. topic \in {"replica", "partition", "serverless", "semantic", "vector"}
  BY DEF Acts
<1>2. /\ Acts["replica"] = "Reduce replicas" /\ Acts["partition"] = "Reduce partitions"
      /\ Acts["serverless"] = "Move to serverless"
      /\ Acts["semantic"] = "Disable semantic ranker"
      /\ Acts["vector"] = "Optimize vector search"
  BY DEF Acts
<1>3. /\ "replica" \in Topics(findings) => Flag(facts, "replica_overprovisioned")
      /\ "partition" \in Topics(findings) => Flag(facts, "partition_overprovisioned")
      /\ "serverless" \in Topics(findings) =>
           facts.hosting = "dedicated" /\ Flag(facts, "switch_to_serverless_candidate")
      /\ "semantic" \in Topics(findings) =>
           Flag(facts, "semantic_ranker_enabled") /\ Below(facts.semanticRatio, 10)
      /\ "vector" \in Topics(findings) =>
           /\ Flag(facts, "vector_search_enabled")
           /\ Flag(facts, "vector_optimization_opportunity")
  <2>1. PICK costs : costs = {CostOf(c, {m})}
    OBVIOUS
  <2>2. /\ findings = Analyze(BuildSnapshot(c, m))
        /\ facts = Inputs(findings, {c}, {m}, costs).facts
    BY <2>1 DEF FromWorkload
  <2>3. QED
    BY <2>2, FactsFollow
<1>4. \E r \in Recommended(facts) : r.title = Acts[topic]
  <2>1. topic \in Topics(findings)
    OBVIOUS
  <2>2. CASE topic = "replica"
    <3>1. \E r \in Recommended(facts) : r.title = "Reduce replicas"
      BY <1>3, <2>1, <2>2, RulesAct
    <3>2. QED
      BY <1>2, <2>2, <3>1
  <2>3. CASE topic = "partition"
    <3>1. \E r \in Recommended(facts) : r.title = "Reduce partitions"
      BY <1>3, <2>1, <2>3, RulesAct
    <3>2. QED
      BY <1>2, <2>3, <3>1
  <2>4. CASE topic = "serverless"
    <3>1. \E r \in Recommended(facts) : r.title = "Move to serverless"
      BY <1>3, <2>1, <2>4, RulesAct
    <3>2. QED
      BY <1>2, <2>4, <3>1
  <2>5. CASE topic = "semantic"
    <3>1. \E r \in Recommended(facts) : r.title = "Disable semantic ranker"
      BY <1>3, <2>1, <2>5, RulesAct
    <3>2. QED
      BY <1>2, <2>5, <3>1
  <2>6. CASE topic = "vector"
    <3>1. \E r \in Recommended(facts) : r.title = "Optimize vector search"
      BY <1>3, <2>1, <2>6, RulesAct
    <3>2. QED
      BY <1>2, <2>6, <3>1
  <2>7. QED
    BY <1>1, <2>2, <2>3, <2>4, <2>5, <2>6
<1>5. QED
  BY <1>4, AllListed

-----------------------------------------------------------------------------
(* What a client holds.                                                    *)

(* What the client has: an analysis of this workload, an answer to what it *)
(* asked, and a configuration the API knows.                               *)
AdviceHeld ==
  answer.kind = "advice" =>
    /\ AskedFine(answer.asked, metrics)
    /\ answer.body = RecommendOptimizations(answer.asked) /\ answer.body.status = 200

SimulationHeld ==
  answer.kind = "simulation" =>
    /\ answer.asked \in Proposals /\ answer.body.status = 200
    /\ \E m \in SUBSET {metrics} :
         answer.body = SimulateChanges(configuration, m, answer.asked)

AnswerKinds == {"none", "analysis", "advice", "refusal", "simulation", "comparison"}

AdvisoryInv ==
  /\ configuration \in ApiConfigurations /\ metrics \in ApiMetrics
  /\ AtMostOneOf(analysis) /\ \A f \in analysis : Sound(f, metrics)
  /\ answer.kind \in AnswerKinds
  /\ AdviceHeld /\ SimulationHeld

LEMMA InitAdvisory == AdvisoryInit => AdvisoryInv
BY WorkloadAssumption
   DEF AdvisoryInit, AdvisoryInv, NoAnswer, AdviceHeld, SimulationHeld, AtMostOneOf, AnswerKinds

(* What the client gets is of the kind it asked for, or a refusal.         *)
LEMMA KeptIs ==
  ASSUME NEW kind, NEW asked, NEW body, Keeps(kind, asked, body)
  PROVE  /\ configuration' = configuration /\ metrics' = metrics
         /\ \/ answer'.kind = "refusal"
            \/ /\ answer'.kind = kind /\ answer'.asked = asked
               /\ answer'.body = body /\ body.status = 200
BY DEF Keeps

LEMMA AnalyzeWorkloadKeeps == ASSUME AdvisoryInv, AnalyzeWorkload PROVE AdvisoryInv'
<1>1. PICK snapshot, body :
           /\ snapshot = BuildSnapshot(configuration, metrics)
           /\ Keeps("analysis", snapshot, body)
           /\ analysis' = analysis \/ analysis' = {Analyze(snapshot)}
  BY DEF AnalyzeWorkload, AnalyzeResponse
<1>2. /\ configuration' = configuration /\ metrics' = metrics
      /\ answer'.kind \in {"analysis", "refusal"}
  BY <1>1, KeptIs
<1>3. AtMostOneOf(analysis') /\ \A f \in analysis' : Sound(f, metrics)
  <2>1. CASE analysis' = analysis
    BY <2>1 DEF AdvisoryInv
  <2>2. CASE analysis' = {Analyze(snapshot)}
    BY <1>1, <2>2, AnalysisIsSound DEF AtMostOneOf
  <2>3. QED
    BY <1>1, <2>1, <2>2
<1>4. AdviceHeld' /\ SimulationHeld'
  BY <1>2 DEF AdviceHeld, SimulationHeld
<1>5. QED
  BY <1>2, <1>3, <1>4 DEF AdvisoryInv, AnswerKinds

LEMMA RecommendKeeps == ASSUME AdvisoryInv, Recommend PROVE AdvisoryInv'
<1>1. PICK posted :
        /\ \E a \in SUBSET analysis, c \in SUBSET {configuration}, m \in SUBSET {metrics},
              max \in Limits :
             posted = [analysis |-> a, configuration |-> c, metrics |-> m, max |-> max]
        /\ Keeps("advice", posted, RecommendOptimizations(posted)) /\ UNCHANGED analysis
  BY DEF Recommend
<1>2. AskedFine(posted, metrics)
  <2>0. PICK a \in SUBSET analysis, c \in SUBSET {configuration}, m \in SUBSET {metrics},
             max \in Limits :
          posted = [analysis |-> a, configuration |-> c, metrics |-> m, max |-> max]
    BY <1>1
  <2>1. AtMostOneOf(a) /\ \A f \in a : Sound(f, metrics)
    BY DEF AdvisoryInv, AtMostOneOf
  <2>2. AtMostOneOf(c) /\ c \subseteq ApiConfigurations
    BY DEF AdvisoryInv, AtMostOneOf
  <2>3. QED
    BY <2>0, <2>1, <2>2 DEF AskedFine
<1>3. /\ configuration' = configuration /\ metrics' = metrics /\ analysis' = analysis
      /\ \/ answer'.kind = "refusal"
         \/ /\ answer'.kind = "advice" /\ answer'.asked = posted
            /\ answer'.body = RecommendOptimizations(posted) /\ answer'.body.status = 200
  <2>1. PICK body : body = RecommendOptimizations(posted)
    OBVIOUS
  <2>2. QED
    BY <1>1, <2>1, KeptIs
<1>4. AdviceHeld' /\ SimulationHeld'
  BY <1>2, <1>3 DEF AdviceHeld, SimulationHeld
<1>5. QED
  BY <1>3, <1>4 DEF AdvisoryInv, AnswerKinds

LEMMA SimulateKeeps == ASSUME AdvisoryInv, Simulate PROVE AdvisoryInv'
<1>0. PICK changes \in Proposals, m \in SUBSET {metrics} :
           /\ Keeps("simulation", changes, SimulateChanges(configuration, m, changes))
           /\ UNCHANGED analysis
  BY DEF Simulate
<1>1. PICK body : /\ body = SimulateChanges(configuration, m, changes)
                  /\ Keeps("simulation", changes, body) /\ UNCHANGED analysis
  BY <1>0
<1>2. /\ configuration' = configuration /\ metrics' = metrics /\ analysis' = analysis
      /\ \/ answer'.kind = "refusal"
         \/ /\ answer'.kind = "simulation" /\ answer'.asked = changes
            /\ answer'.body = body /\ answer'.body.status = 200
  BY <1>1, KeptIs
<1>3. AdviceHeld' /\ SimulationHeld'
  BY <1>1, <1>2 DEF AdviceHeld, SimulationHeld
<1>4. QED
  BY <1>2, <1>3 DEF AdvisoryInv, AnswerKinds

LEMMA CompareModelsKeeps == ASSUME AdvisoryInv, CompareModels PROVE AdvisoryInv'
<1>1. PICK posted, body : Keeps("comparison", posted, body) /\ UNCHANGED analysis
  BY DEF CompareModels
<1>2. /\ configuration' = configuration /\ metrics' = metrics /\ analysis' = analysis
      /\ answer'.kind \in {"refusal", "comparison"}
  BY <1>1, KeptIs
<1>3. AdviceHeld' /\ SimulationHeld'
  BY <1>2 DEF AdviceHeld, SimulationHeld
<1>4. QED
  BY <1>2, <1>3 DEF AdvisoryInv, AnswerKinds

(* What the advice in the client's hands rests on.                         *)
LEMMA HeldAdviceIs ==
  ASSUME AdvisoryInv, answer.kind = "advice"
  PROVE  \E findings, facts, costData :
           /\ Reports(answer.body, findings, facts, costData, answer.asked.max)
           /\ \/ FromAnalysis(answer.asked, answer.body, findings, facts)
              \/ \E c \in ApiConfigurations :
                   FromWorkload(c, metrics, answer.body, findings, facts)
<1>1. PICK asked, body, m : asked = answer.asked /\ body = answer.body /\ m = metrics
  OBVIOUS
<1>2. AskedFine(asked, m) /\ body = RecommendOptimizations(asked) /\ body.status = 200
  BY <1>1 DEF AdvisoryInv, AdviceHeld
<1>3. \E findings, facts, costData :
        /\ Reports(body, findings, facts, costData, asked.max)
        /\ \/ FromAnalysis(asked, body, findings, facts)
           \/ \E c \in ApiConfigurations : FromWorkload(c, m, body, findings, facts)
  BY <1>2, AdviceIs
<1>4. QED
  BY <1>1, <1>3

LEMMA MaxIsNat ==
  ASSUME AdvisoryInv, answer.kind = "advice" PROVE answer.asked.max \in Nat
<1>1. answer.asked.max \in Limits
  BY DEF AdvisoryInv, AdviceHeld, AskedFine
<1>2. answer.asked.max \in 1 .. 20
  BY <1>1, LimitsAssumption
<1>3. QED
  BY <1>2

LEMMA HeldItemsAreFair ==
  ASSUME AdvisoryInv, answer.kind = "advice", NEW i \in DOMAIN answer.body.items
  PROVE  FairItem(answer.body.items[i], metrics)
<1>1. PICK findings, facts, costData :
        /\ Reports(answer.body, findings, facts, costData, answer.asked.max)
        /\ \/ FromAnalysis(answer.asked, answer.body, findings, facts)
           \/ \E c \in ApiConfigurations :
                FromWorkload(c, metrics, answer.body, findings, facts)
  BY HeldAdviceIs
<1>2. FairFacts(facts, metrics)
  <2>1. CASE FromAnalysis(answer.asked, answer.body, findings, facts)
    <3>1. Sound(findings, metrics)
      BY <2>1 DEF FromAnalysis, AdvisoryInv, AdviceHeld, AskedFine
    <3>2. QED
      BY <2>1, <3>1, FactsOfAnalysis DEF FromAnalysis
  <2>2. CASE \E c \in ApiConfigurations :
               FromWorkload(c, metrics, answer.body, findings, facts)
    <3>1. PICK c \in ApiConfigurations : FromWorkload(c, metrics, answer.body, findings, facts)
      BY <2>2
    <3>2. Sound(findings, metrics)
      BY <3>1, AnalysisIsSound DEF FromWorkload
    <3>3. FairFacts(Inputs(findings, {c}, {metrics}, {CostOf(c, {metrics})}).facts, metrics)
      BY <3>2, FactsOfWorkload
    <3>4. QED
      BY <3>1, <3>3 DEF FromWorkload
  <2>3. QED
    BY <1>1, <2>1, <2>2
<1>3. answer.asked.max \in Nat
  BY MaxIsNat
<1>4. answer.body.items = FirstItems(Report(facts, costData), answer.asked.max)
  BY <1>1 DEF Reports
<1>5. PICK items, max, m : items = answer.body.items /\ max = answer.asked.max /\ m = metrics
  OBVIOUS
<1>6. FairItem(items[i], m)
  BY <1>2, <1>3, <1>4, <1>5, ItemsAreFair
<1>7. QED
  BY <1>5, <1>6

LEMMA AdoptIsFair ==
  ASSUME AdvisoryInv, Adopt
  PROVE  NoDearer(configuration, configuration', metrics)
<1>1. PICK i \in DOMAIN answer.body.items :
           configuration' = Followed(configuration, answer.body.items[i])
  BY DEF Adopt
<1>2. FairItem(answer.body.items[i], metrics)
  BY HeldItemsAreFair DEF Adopt
<1>3. configuration \in ApiConfigurations /\ metrics \in ApiMetrics
  BY DEF AdvisoryInv
<1>4. PICK item : item = answer.body.items[i]
  OBVIOUS
<1>5. NoDearer(configuration, Followed(configuration, item), metrics)
  BY <1>2, <1>3, <1>4, FollowedNoDearer
<1>6. QED
  BY <1>1, <1>4, <1>5

LEMMA AdoptKeeps == ASSUME AdvisoryInv, Adopt PROVE AdvisoryInv'
<1>1. configuration' \in ApiConfigurations
  BY AdoptIsFair DEF NoDearer
<1>2. answer.kind = "advice" /\ UNCHANGED <<metrics, analysis, answer>>
  BY DEF Adopt
<1>3. AdviceHeld' /\ SimulationHeld'
  BY <1>2 DEF AdvisoryInv, AdviceHeld, SimulationHeld
<1>4. QED
  BY <1>1, <1>2, <1>3 DEF AdvisoryInv

LEMMA AdvisoryKeeps == ASSUME AdvisoryInv, AdvisoryNext PROVE AdvisoryInv'
BY AnalyzeWorkloadKeeps, RecommendKeeps, SimulateKeeps, CompareModelsKeeps, AdoptKeeps
   DEF AdvisoryNext

LEMMA AdvisoryStutters == ASSUME AdvisoryInv, UNCHANGED advisoryVars PROVE AdvisoryInv'
BY DEF AdvisoryInv, advisoryVars, AdviceHeld, SimulationHeld

-----------------------------------------------------------------------------
(* Only who follows advice has another configuration.                      *)
LEMMA NeverDearer ==
  ASSUME AdvisoryInv, AdvisoryNext
  PROVE  configuration' # configuration /\ configuration.sku # "free" =>
           MonthlyCost(configuration', {metrics}) <= MonthlyCost(configuration, {metrics})
<1>1. CASE Adopt
  BY <1>1, AdoptIsFair DEF NoDearer
<1>2. CASE ~ Adopt
  BY <1>2 DEF AdvisoryNext, AnalyzeWorkload, Recommend, Simulate, CompareModels, Keeps
<1>3. QED
  BY <1>1, <1>2

LEMMA TopicsHeld == AdvisoryInv => FindingsAreActedOn
<1> SUFFICES ASSUME AdvisoryInv, answer.kind = "advice", answer.body.source = "end_to_end",
                    Len(answer.body.items) < answer.asked.max,
                    NEW topic \in Topics(answer.body.findings) \cap DOMAIN Acts
             PROVE  \E i \in DOMAIN answer.body.items : answer.body.items[i].title = Acts[topic]
  BY DEF FindingsAreActedOn, Advised, Listed
<1>1. PICK findings, facts, costData :
        /\ Reports(answer.body, findings, facts, costData, answer.asked.max)
        /\ \/ FromAnalysis(answer.asked, answer.body, findings, facts)
           \/ \E c \in ApiConfigurations :
                FromWorkload(c, metrics, answer.body, findings, facts)
  BY HeldAdviceIs
<1>2. PICK c \in ApiConfigurations : FromWorkload(c, metrics, answer.body, findings, facts)
  BY <1>1 DEF FromAnalysis
<1>3. PICK body, items, max, m :
           /\ body = answer.body /\ items = body.items /\ max = answer.asked.max /\ m = metrics
  OBVIOUS
<1>4. /\ items = FirstItems(Report(facts, costData), max) /\ Len(items) < max
      /\ topic \in Topics(findings) \cap DOMAIN Acts
  BY <1>1, <1>3 DEF Reports
<1>5. FromWorkload(c, m, body, findings, facts)
  BY <1>2, <1>3
<1>6. m \in ApiMetrics /\ max \in Nat
  BY <1>3, MaxIsNat DEF AdvisoryInv
<1>7. \E i \in DOMAIN items : items[i].title = Acts[topic]
  BY <1>4, <1>5, <1>6, TopicsAreActedOn
<1>8. QED
  BY <1>3, <1>7

LEMMA UrgentHeld == AdvisoryInv => UrgentAdviceSurvives
<1> SUFFICES ASSUME AdvisoryInv, answer.kind = "advice"
             PROVE  Cardinality({i \in DOMAIN answer.body.items :
                                   answer.body.items[i].priority = "high"})
                      = Smaller(answer.asked.max, answer.body.urgent)
  BY DEF UrgentAdviceSurvives, Advised
<1>1. PICK findings, facts, costData :
        Reports(answer.body, findings, facts, costData, answer.asked.max)
  BY HeldAdviceIs
<1>2. PICK items, max, urgent :
           items = answer.body.items /\ max = answer.asked.max /\ urgent = answer.body.urgent
  OBVIOUS
<1>3. /\ items = FirstItems(Report(facts, costData), max)
      /\ urgent = Report(facts, costData).urgent
  BY <1>1, <1>2 DEF Reports
<1>4. max \in Nat
  BY <1>2, MaxIsNat
<1>5. Cardinality({i \in DOMAIN items : items[i].priority = "high"}) = Smaller(max, urgent)
  BY <1>3, <1>4, UrgentKept
<1>6. QED
  BY <1>2, <1>5

-----------------------------------------------------------------------------
(* Simulations.                                                            *)

(* Only a change of the count itself touches a count.                      *)
LEMMA CountsFields ==
  ASSUME NEW change, Places(change)
  PROVE  /\ FieldOf(change) = "replicas" => change.attribute = "replica_count"
         /\ FieldOf(change) = "partitions" => change.attribute = "partition_count"
<1>1. change.target \in {"capacity", "features", "index_topology", "security"}
  BY DEF Places, Attributes
<1>2. CASE change.target = "capacity"
  BY <1>2 DEF Places, FieldOf, Attributes
<1>3. CASE change.target = "features"
  BY <1>3 DEF Places, FieldOf, Attributes
<1>4. CASE change.target = "index_topology"
  BY <1>4 DEF Places, FieldOf, Attributes
<1>5. CASE change.target = "security"
  BY <1>5 DEF Places, FieldOf, Attributes
<1>6. QED
  BY <1>1, <1>2, <1>3, <1>4, <1>5

(* The count that a sequence of changes leaves, none of which lowers it.   *)
LEMMA CountKept ==
  ASSUME NEW c, NEW field \in DOMAIN c, c[field] \in Nat,
         NEW Changes, NEW changes \in Seq(Changes),
         \A i \in DOMAIN changes :
           FieldOf(changes[i]) = field =>
             changes[i].proposed \in Int /\ changes[i].proposed >= c[field]
  PROVE  ApplyProposedChanges(c, changes)[field] >= c[field]
<1> DEFINE hits == {i \in DOMAIN changes : FieldOf(changes[i]) = field}
<1>1. ApplyProposedChanges(c, changes)[field] =
        IF hits = {} THEN c[field] ELSE changes[Max(hits)].proposed
  BY DEF ApplyProposedChanges
<1>2. CASE hits = {}
  BY <1>1, <1>2
<1>3. CASE hits # {}
  <2>1. Len(changes) \in Nat /\ hits \in SUBSET (1 .. Len(changes))
    OBVIOUS
  <2> HIDE DEF hits
  <2>2. Max(hits) \in hits
    BY <1>3, <2>1, MaxIsMember
  <2>3. changes[Max(hits)].proposed >= c[field]
    BY <2>2 DEF hits
  <2>4. QED
    BY <1>1, <1>3, <2>3
<1>4. QED
  BY <1>2, <1>3

(* For any configuration and any sequence of changes, whatever their order *)
(* and number: if the client states the current counts as they are and     *)
(* infer_simulation_impact sees no risk, no capacity is lost.              *)
THEOREM CapacityCutIsSeen ==
  ASSUME NEW c \in ApiConfigurations, NEW Changes, NEW changes \in Seq(Changes),
         \A i \in DOMAIN changes :
           /\ Places(changes[i])
           /\ changes[i].attribute \in {"replica_count", "partition_count"} =>
                 changes[i].proposed \in Int
           /\ changes[i].attribute = "replica_count" => changes[i].current = c.replicas
           /\ changes[i].attribute = "partition_count" => changes[i].current = c.partitions,
         ~ CapacityRisk(changes)
  PROVE  /\ ApplyProposedChanges(c, changes).replicas >= c.replicas
         /\ ApplyProposedChanges(c, changes).partitions >= c.partitions
<1>1. /\ "replicas" \in DOMAIN c /\ c.replicas \in Nat
      /\ "partitions" \in DOMAIN c /\ c.partitions \in Nat
  BY DEF ApiConfigurations
<1>2. ASSUME NEW i \in DOMAIN changes, changes[i].attribute \in {"replica_count", "partition_count"}
      PROVE  changes[i].proposed >= Larger(changes[i].current, 0)
  <2>1. ~ (changes[i].proposed < Larger(changes[i].current, 0))
    BY <1>2 DEF CapacityRisk, LowersCapacity
  <2>2. changes[i].proposed \in Int /\ Larger(changes[i].current, 0) \in Int
    BY <1>1, <1>2 DEF Larger
  <2>3. QED
    BY <2>1, <2>2
<1>3. ASSUME NEW i \in DOMAIN changes, FieldOf(changes[i]) = "replicas"
      PROVE  changes[i].proposed \in Int /\ changes[i].proposed >= c.replicas
  <2>1. changes[i].attribute = "replica_count"
    BY <1>3, CountsFields
  <2>2. QED
    BY <1>1, <1>2, <2>1 DEF Larger
<1>4. ASSUME NEW i \in DOMAIN changes, FieldOf(changes[i]) = "partitions"
      PROVE  changes[i].proposed \in Int /\ changes[i].proposed >= c.partitions
  <2>1. changes[i].attribute = "partition_count"
    BY <1>4, CountsFields
  <2>2. QED
    BY <1>1, <1>2, <2>1 DEF Larger
<1>5. ApplyProposedChanges(c, changes)["replicas"] >= c["replicas"]
  BY <1>1, <1>3, CountKept
<1>6. ApplyProposedChanges(c, changes)["partitions"] >= c["partitions"]
  BY <1>1, <1>4, CountKept
<1>7. QED
  BY <1>5, <1>6

LEMMA CutsHeld == AdvisoryInv => CapacityCutIsFlagged
<1> SUFFICES ASSUME AdvisoryInv, answer.kind = "simulation", Truthful(answer.asked),
                    ~ answer.body.risk,
                    NEW c, c = configuration, NEW changes, changes = answer.asked
             PROVE  /\ ApplyProposedChanges(c, changes).replicas >= c.replicas
                    /\ ApplyProposedChanges(c, changes).partitions >= c.partitions
  BY DEF CapacityCutIsFlagged
<1>1. PICK body, m : /\ body = answer.body /\ body.status = 200
                     /\ body = SimulateChanges(c, m, changes)
  BY DEF AdvisoryInv, SimulationHeld
<1>2. /\ \A i \in DOMAIN changes : Places(changes[i])
      /\ body.risk = CapacityRisk(changes)
  BY <1>1 DEF SimulateChanges, SimulateResponse, Refused
<1>3. c \in ApiConfigurations /\ changes \in Proposals
  BY DEF AdvisoryInv, SimulationHeld
<1>4. PICK Changes : changes \in Seq(Changes)
  BY <1>3, ProposalsAssumption
<1>5. \A i \in DOMAIN changes :
        changes[i].attribute \in {"replica_count", "partition_count"} =>
          changes[i].proposed \in Int
  BY <1>3, ProposalsAssumption
<1>6. \A i \in DOMAIN changes :
        /\ changes[i].attribute = "replica_count" => changes[i].current = c.replicas
        /\ changes[i].attribute = "partition_count" => changes[i].current = c.partitions
  BY DEF Truthful, CapacityOf
<1>7. ~ CapacityRisk(changes)
  BY <1>1, <1>2
<1>8. QED
  BY <1>2, <1>3, <1>4, <1>5, <1>6, <1>7, CapacityCutIsSeen
=============================================================================
