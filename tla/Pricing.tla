------------------------------- MODULE Pricing -------------------------------
(***************************************************************************)
(* The cost model (cost_modeling/): dedicated search units, serverless     *)
(* compute units and feature add-ons, and their comparison.                *)
(*                                                                         *)
(* Money is in whole cents, as the code rounds every amount to two places; *)
(* compute units per query are in quarters, the steps the callers use.  A  *)
(* missing model is the empty set.  The cost of a period (months) is a     *)
(* multiple of the monthly one that nothing compares, and is left out with *)
(* the texts of assumptions and notes.                                     *)
(***************************************************************************)
EXTENDS Integers

(* a/b to the nearest integer, a half to the even one: Python's round.     *)
RoundDiv(a, b) ==
  LET q == a \div b
      r == 2 * (a % b)
  IN  IF r > b \/ (r = b /\ q % 2 = 1) THEN q + 1 ELSE q

Smaller(a, b) == IF a < b THEN a ELSE b
Larger(a, b)  == IF a > b THEN a ELSE b
Distance(a, b) == Larger(a, b) - Smaller(a, b)

Tiers == {"free", "basic", "s1", "s2", "s3", "l1", "l2"}

(* Cents per search unit and month (DEDICATED_TIER_PRICING).               *)
UnitPrice ==
  [free |-> 0, basic |-> 7500, s1 |-> 25000, s2 |-> 100000, s3 |-> 200000,
   l1 |-> 280000, l2 |-> 560000]

(* SKU_TO_PRICING_TIER: high-density S3 is priced as S3.                   *)
Tier(sku) == IF sku = "s3_hd" THEN "s3" ELSE sku

Dedicated(sku, replicas, partitions) ==
  [tier |-> Tier(sku), replicas |-> replicas, partitions |-> partitions]

Serverless(queries, quarters) == [queries |-> queries, quarters |-> quarters]

Features(semantic, enrichment, vector) ==
  [semantic |-> semantic, enrichment |-> enrichment, vector |-> vector]

SearchUnits(d) == d.replicas * d.partitions

DedicatedCents(d) == SearchUnits(d) * UnitPrice[d.tier]

(* $0.12 per thousand compute units.                                       *)
ServerlessCents(s) == RoundDiv(s.queries * s.quarters * 3, 1000)

(* Per month: $1 per thousand semantic queries, $1.50 per thousand         *)
(* enrichment transactions and $0.12 per GB of vectors.                    *)
LineItems(f) ==
  [semantic   |-> RoundDiv(f.semantic, 10),
   enrichment |-> RoundDiv(3 * f.enrichment, 20),
   vector     |-> 12 * f.vector]

FeatureCents(f) ==
  LET items == LineItems(f) IN items.semantic + items.enrichment + items.vector

(* A model that is missing costs nothing.                                  *)
Cost(cents) == IF cents = {} THEN 0 ELSE CHOOSE c \in cents : TRUE

(* compare_options: nothing is cheaper when a model is missing.            *)
LowerCost(request, dedicated, serverless) ==
  IF {} \in {request.dedicated, request.serverless} \/ dedicated = serverless THEN "none"
  ELSE IF dedicated < serverless THEN "dedicated" ELSE "serverless"

(* CostModelingService.simulate: the add-ons count in both totals.         *)
CostModel(request) ==
  LET addOns     == FeatureCents(request.features)
      compute    == [dedicated  |-> Cost({DedicatedCents(d) : d \in request.dedicated}),
                     serverless |-> Cost({ServerlessCents(s) : s \in request.serverless})]
      dedicated  == compute.dedicated + addOns
      serverless == compute.serverless + addOns
  IN  [request    |-> request,
       items      |-> LineItems(request.features),
       compute    |-> compute,
       total      |-> [dedicated |-> dedicated, serverless |-> serverless],
       difference |-> dedicated - serverless,
       lower      |-> LowerCost(request, dedicated, serverless)]
=============================================================================
