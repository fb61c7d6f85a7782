-------------------------- MODULE ResponseCacheProofs --------------------------
(***************************************************************************)
(* ResponseCache, for any number of threads and keys and any lifetime and  *)
(* size.  An OrderedDict loses some of its elements and keeps the order of *)
(* the rest: the proofs say with a function which places of a sequence     *)
(* another one picks (Picks), and rest on the dictionary's being picked    *)
(* out of the keys in the order of their last use (Ordered).               *)
(***************************************************************************)
EXTENDS ResponseCache, TLAPS, FiniteSetTheorems, WellFoundedInduction

-----------------------------------------------------------------------------
(* Sets of numbers in increasing order.                                    *)

Enumerates(f, I) ==
  /\ f \in [1 .. Cardinality(I) -> I]
  /\ \A i, j \in 1 .. Cardinality(I) : i < j => f[i] < f[j]

(* The greatest member of a set of numbers.                                *)
LEMMA GreatestMember ==
  ASSUME NEW n \in Nat, NEW I \in SUBSET (1 .. n), I # {}
  PROVE  \E x \in I : \A y \in I : y <= x
<1> DEFINE From(x) == {y \in I : x <= y}
           F == {From(x) : x \in I}
<1>1. IsFiniteSet(I)
  <2>1. IsFiniteSet(1 .. n)
    BY FS_Interval
  <2>2. QED
    BY <2>1, FS_Subset
<1>2. IsWellFoundedOn(StrictSubsetOrdering(I), SUBSET I)
  BY <1>1, FS_FiniteSubsetsOfFinite, FS_StrictSubsetOrderingWellFounded
<1>3. F \subseteq SUBSET I /\ F # {}
  OBVIOUS
<1>4. PICK T \in F : \A U \in F : <<U, T>> \notin StrictSubsetOrdering(I)
  <2> HIDE DEF F
  <2>1. QED
    BY <1>2, <1>3, WFMin
<1>5. PICK x \in I : T = From(x)
  BY <1>4
<1>6. ASSUME NEW y \in I PROVE y <= x
  <2>1. \A z \in I : z \in Int
    OBVIOUS
  <2>2. SUFFICES ASSUME y > x PROVE FALSE
    BY <2>1
  <2>3. From(y) \subseteq T /\ x \in T /\ x \notin From(y)
    <3>1. \A z \in I : y <= z => x <= z
      BY <2>1, <2>2
    <3>2. ~ (y <= x) /\ x <= x
      BY <2>1, <2>2
    <3>3. QED
      BY <1>5, <3>1, <3>2
  <2> HIDE DEF F
  <2>4. From(y) \in F
    BY DEF F
  <2>5. <<From(y), T>> \in StrictSubsetOrdering(I)
    BY <1>3, <1>4, <2>3, <2>4 DEF StrictSubsetOrdering
  <2>6. QED
    BY <1>4, <2>4, <2>5
<1>7. QED
  BY <1>6

(* Every set of numbers can be enumerated: of those that cannot, the least *)
(* has a greatest member, and can be enumerated with that at the end.      *)
LEMMA EnumerationExists ==
  ASSUME NEW n \in Nat, NEW I \in SUBSET (1 .. n)
  PROVE  \E f : Enumerates(f, I)
<1> DEFINE Bad == {J \in SUBSET (1 .. n) : ~ \E f : Enumerates(f, J)}
<1>1. SUFFICES ASSUME Bad # {} PROVE FALSE
  OBVIOUS
<1>2. IsFiniteSet(1 .. n)
  BY FS_Interval
<1>3. IsWellFoundedOn(StrictSubsetOrdering(1 .. n), SUBSET (1 .. n))
  BY <1>2, FS_FiniteSubsetsOfFinite, FS_StrictSubsetOrderingWellFounded
<1>4. Bad \subseteq SUBSET (1 .. n)
  OBVIOUS
<1>5. PICK J \in Bad : \A K \in Bad : <<K, J>> \notin StrictSubsetOrdering(1 .. n)
  <2> HIDE DEF Bad
  <2>1. QED
    BY <1>1, <1>3, <1>4, WFMin
<1>6. J \in SUBSET (1 .. n) /\ ~ \E f : Enumerates(f, J)
  BY <1>5
<1>7. J # {}
  <2>1. SUFFICES ASSUME J = {} PROVE FALSE
    OBVIOUS
  <2>2. Cardinality(J) = 0
    BY <2>1, FS_EmptySet
  <2>3. Enumerates([i \in 1 .. 0 |-> i], J)
    BY <2>2 DEF Enumerates
  <2>4. QED
    BY <1>6, <2>3
<1>8. PICK x \in J : \A y \in J : y <= x
  BY <1>6, <1>7, GreatestMember
<1>9. J \ {x} \notin Bad
  <2>1. <<J \ {x}, J>> \in StrictSubsetOrdering(1 .. n)
    BY <1>6, <1>8 DEF StrictSubsetOrdering
  <2> HIDE DEF Bad
  <2>2. QED
    BY <1>5, <2>1
<1>10. PICK f : Enumerates(f, J \ {x})
  BY <1>6, <1>9
<1>11. IsFiniteSet(J) /\ Cardinality(J) \in Nat
  BY <1>2, <1>6, FS_Subset, FS_CardinalityType
<1>12. Cardinality(J \ {x}) = Cardinality(J) - 1
  BY <1>8, <1>11, FS_RemoveElement
<1>13. Cardinality(J \ {x}) \in Nat
  BY <1>11, FS_RemoveElement, FS_CardinalityType
<1> DEFINE m == Cardinality(J \ {x})
           g == [i \in 1 .. (m + 1) |-> IF i = m + 1 THEN x ELSE f[i]]
<1>14. \A i \in 1 .. m : f[i] \in J /\ f[i] # x /\ f[i] \in Int /\ f[i] < x
  <2>1. \A i \in 1 .. m : f[i] \in J \ {x}
    BY <1>10 DEF Enumerates
  <2>2. \A y \in J : y \in Int /\ (y # x => y < x)
    BY <1>6, <1>8
  <2> HIDE DEF m
  <2>3. QED
    BY <2>1, <2>2
<1>15. Enumerates(g, J)
  <2>1. Cardinality(J) = m + 1 /\ m \in Nat
    BY <1>11, <1>12, <1>13
  <2>2. \A i, j \in 1 .. m : i < j => f[i] < f[j]
    BY <1>10 DEF Enumerates
  <2> HIDE DEF m
  <2>3. g \in [1 .. (m + 1) -> J]
    BY <1>8, <1>14, <2>1
  <2>4. ASSUME NEW i \in 1 .. (m + 1), NEW j \in 1 .. (m + 1), i < j PROVE g[i] < g[j]
    BY <1>14, <2>1, <2>2, <2>4
  <2>5. QED
    BY <2>1, <2>3, <2>4 DEF Enumerates
<1>16. QED
  BY <1>6, <1>15

(* Nothing is left out.                                                    *)
LEMMA EnumerationOnto ==
  ASSUME NEW I \in SUBSET Int, IsFiniteSet(I), NEW f, Enumerates(f, I)
  PROVE  \A x \in I : \E i \in 1 .. Cardinality(I) : f[i] = x
<1>1. Cardinality(I) \in Nat
  BY FS_CardinalityType
<1>2. f \in Injection(1 .. Cardinality(I), I)
  <2>1. ASSUME NEW i \in 1 .. Cardinality(I), NEW j \in 1 .. Cardinality(I), f[i] = f[j]
        PROVE  i = j
    <3>1. f[i] \in Int /\ f[j] \in Int
      <4>1. f[i] \in I /\ f[j] \in I
        BY DEF Enumerates
      <4>2. QED
        BY <4>1
    <3>2. ~ (i < j) /\ ~ (j < i)
      BY <2>1, <3>1 DEF Enumerates
    <3>3. QED
      BY <1>1, <3>2
  <2>2. QED
    BY <2>1 DEF Enumerates, Injection, IsInjective
<1>3. Cardinality(1 .. Cardinality(I)) = Cardinality(I)
  BY <1>1, FS_Interval
<1>4. f \in Surjection(1 .. Cardinality(I), I)
  BY <1>1, <1>2, <1>3, FS_Injection
<1>5. QED
  BY <1>4 DEF Surjection

-----------------------------------------------------------------------------
(* Parts of sequences, as what stays of a dictionary.                      *)

(* a is made of the elements of s at the places g, in their order.         *)
Picks(g, a, s) ==
  /\ g \in [1 .. Len(a) -> 1 .. Len(s)]
  /\ \A i, j \in 1 .. Len(a) : i < j => g[i] < g[j]
  /\ \A i \in 1 .. Len(a) : a[i] = s[g[i]]

LEMMA PickedFrom ==
  ASSUME NEW g, NEW a, NEW s, Picks(g, a, s)
  PROVE  \A i \in 1 .. Len(a) : g[i] \in 1 .. Len(s) /\ a[i] = s[g[i]]
BY DEF Picks

LEMMA KeptIs ==
  ASSUME NEW S, NEW s \in Seq(S), NEW I \in SUBSET DOMAIN s
  PROVE  /\ Kept(s, I) \in Seq(S)
         /\ Len(Kept(s, I)) = Cardinality(I)
         /\ \E g : /\ Picks(g, Kept(s, I), s)
                   /\ \A i \in DOMAIN s : i \in I <=> \E p \in 1 .. Len(Kept(s, I)) : g[p] = i
<1> DEFINE n == Cardinality(I)
           Places == {f \in [1 .. n -> I] : \A i, j \in 1 .. n : i < j => f[i] < f[j]}
<1>1. I \in SUBSET (1 .. Len(s)) /\ Len(s) \in Nat
  OBVIOUS
<1>2. PICK f : Enumerates(f, I)
  BY <1>1, EnumerationExists
<1>3. n \in Nat /\ IsFiniteSet(I)
  <2>1. IsFiniteSet(1 .. Len(s))
    BY <1>1, FS_Interval
  <2>2. IsFiniteSet(I)
    BY <1>1, <2>1, FS_Subset
  <2>3. QED
    BY <2>2, FS_CardinalityType
<1>4. PICK g \in [1 .. n -> I] : /\ Enumerates(g, I)
                                /\ Kept(s, I) = [i \in 1 .. n |-> s[g[i]]]
  <2> DEFINE g == CHOOSE g \in [1 .. n -> I] : \A i, j \in 1 .. n : i < j => g[i] < g[j]
  <2>1. g \in [1 .. n -> I] /\ \A i, j \in 1 .. n : i < j => g[i] < g[j]
    BY <1>2 DEF Enumerates
  <2>2. Kept(s, I) = [i \in 1 .. n |-> s[g[i]]]
    BY DEF Kept
  <2> HIDE DEF g
  <2>3. QED
    BY <2>1, <2>2 DEF Enumerates
<1>5. \A i \in 1 .. n : g[i] \in I /\ s[g[i]] \in S
  BY <1>1
<1>6. \A x \in I : \E i \in 1 .. n : g[i] = x
  <2>1. Enumerates(g, I)
    BY <1>4
  <2>2. I \in SUBSET Int
    BY <1>1
  <2>3. QED
    BY <1>3, <2>1, <2>2, EnumerationOnto
<1>7. \A i, j \in 1 .. n : i < j => g[i] < g[j]
  BY <1>4 DEF Enumerates
<1> HIDE DEF n
<1>8. Kept(s, I) \in Seq(S) /\ Len(Kept(s, I)) = n
  BY <1>3, <1>4, <1>5
<1>9. g \in [1 .. n -> 1 .. Len(s)]
  BY <1>1, <1>4
<1>10. Picks(g, Kept(s, I), s)
  BY <1>4, <1>7, <1>8, <1>9 DEF Picks
<1>11. \A i \in DOMAIN s : i \in I <=> \E p \in 1 .. n : g[p] = i
  BY <1>5, <1>6
<1>12. QED
  BY <1>8, <1>10, <1>11 DEF n

LEMMA Appended ==
  ASSUME NEW S, NEW a \in Seq(S), NEW x \in S
  PROVE  /\ Append(a, x) \in Seq(S) /\ Len(Append(a, x)) = Len(a) + 1 /\ Len(a) \in Nat
         /\ \A i \in 1 .. Len(a) : Append(a, x)[i] = a[i]
         /\ Append(a, x)[Len(a) + 1] = x
OBVIOUS

LEMMA PicksPick ==
  ASSUME NEW S, NEW a \in Seq(S), NEW b \in Seq(S), NEW c \in Seq(S),
         NEW g, Picks(g, a, b), NEW h, Picks(h, b, c)
  PROVE  Picks([i \in 1 .. Len(a) |-> h[g[i]]], a, c)
<1>1. \A i \in 1 .. Len(a) : g[i] \in 1 .. Len(b) /\ a[i] = b[g[i]]
  BY DEF Picks
<1>2. \A i \in 1 .. Len(b) : h[i] \in 1 .. Len(c) /\ b[i] = c[h[i]]
  BY DEF Picks
<1>3. \A i, j \in 1 .. Len(a) : i < j => h[g[i]] < h[g[j]]
  BY <1>1 DEF Picks
<1>4. QED
  BY <1>1, <1>2, <1>3 DEF Picks

(* What is made of a sequence is no longer; and shorter, if it lacks one.  *)
LEMMA PicksFewer ==
  ASSUME NEW S, NEW a \in Seq(S), NEW s \in Seq(S), NEW g, Picks(g, a, s)
  PROVE  /\ Len(a) <= Len(s)
         /\ \A i \in 1 .. Len(s) : (\A p \in 1 .. Len(a) : g[p] # i) => Len(a) < Len(s)
<1>1. /\ IsFiniteSet(1 .. Len(s)) /\ Cardinality(1 .. Len(s)) = Len(s)
      /\ Cardinality(1 .. Len(a)) = Len(a)
  <2>1. Len(s) \in Nat /\ Len(a) \in Nat /\ 1 \in Int
    OBVIOUS
  <2>2. \A m \in Nat : IsFiniteSet(1 .. m) /\ Cardinality(1 .. m) = m
    BY FS_Interval
  <2>3. QED
    BY <2>1, <2>2
<1>2. ASSUME NEW T, g \in [1 .. Len(a) -> T], IsFiniteSet(T) PROVE Len(a) <= Cardinality(T)
  <2>1. ASSUME NEW i \in 1 .. Len(a), NEW j \in 1 .. Len(a), g[i] = g[j] PROVE i = j
    <3>1. g[i] \in 1 .. Len(s) /\ g[j] \in 1 .. Len(s)
      BY DEF Picks
    <3>2. ~ (i < j) /\ ~ (j < i)
      BY <2>1, <3>1 DEF Picks
    <3>3. QED
      BY <3>2
  <2>2. g \in Injection(1 .. Len(a), T)
    BY <1>2, <2>1 DEF Injection, IsInjective
  <2>3. QED
    BY <1>1, <1>2, <2>2, FS_Injection
<1>3. Len(a) <= Len(s)
  BY <1>1, <1>2 DEF Picks
<1>4. ASSUME NEW i \in 1 .. Len(s), \A p \in 1 .. Len(a) : g[p] # i PROVE Len(a) < Len(s)
  <2>1. g \in [1 .. Len(a) -> (1 .. Len(s)) \ {i}]
    BY <1>4 DEF Picks
  <2>2. /\ IsFiniteSet((1 .. Len(s)) \ {i})
        /\ Cardinality((1 .. Len(s)) \ {i}) = Len(s) - 1
    BY <1>1, FS_RemoveElement
  <2>3. Len(a) <= Len(s) - 1
    BY <1>2, <2>1, <2>2
  <2>4. QED
    BY <2>3
<1>5. QED
  BY <1>3, <1>4

-----------------------------------------------------------------------------
(* The dictionary and the uses of its keys.                                *)

Entries == [key : Keys, expires : Nat, stored : 0 .. MaxTime]

KeysOf(s) == [i \in 1 .. Len(s) |-> s[i].key]

Distinct(r) == \A i, j \in 1 .. Len(r) : r[i] = r[j] => i = j

(* s holds its keys in the order in which r has them.                      *)
Ordered(s, r) == \E w : Picks(w, KeysOf(s), r)

LEMMA KeysAre ==
  ASSUME NEW s \in Seq(Entries)
  PROVE  KeysOf(s) \in Seq(Keys) /\ Len(KeysOf(s)) = Len(s)
<1>1. \A i \in 1 .. Len(s) : s[i].key \in Keys
  <2>1. \A i \in 1 .. Len(s) : s[i] \in Entries
    OBVIOUS
  <2>2. \A x \in Entries : x.key \in Keys
    BY DEF Entries
  <2>3. QED
    BY <2>1, <2>2
<1>2. Len(s) \in Nat
  OBVIOUS
<1>3. QED
  BY <1>1, <1>2 DEF KeysOf

(* A dictionary that is ordered by distinct uses has each key once.        *)
LEMMA KeysDiffer ==
  ASSUME NEW s \in Seq(Entries), NEW r \in Seq(Keys), Distinct(r), Ordered(s, r),
         NEW i \in 1 .. Len(s), NEW j \in 1 .. Len(s), s[i].key = s[j].key
  PROVE  i = j
<1>1. PICK w : Picks(w, KeysOf(s), r)
  BY DEF Ordered
<1>2. Len(KeysOf(s)) = Len(s) /\ KeysOf(s)[i] = KeysOf(s)[j]
  BY KeysAre DEF KeysOf
<1>3. w[i] \in 1 .. Len(r) /\ w[j] \in 1 .. Len(r) /\ r[w[i]] = r[w[j]]
  BY <1>1, <1>2 DEF Picks
<1>4. w[i] = w[j]
  BY <1>3 DEF Distinct
<1>5. ~ (i < j) /\ ~ (j < i)
  BY <1>1, <1>2, <1>3, <1>4 DEF Picks
<1>6. QED
  BY <1>5

LEMMA PartOrdered ==
  ASSUME NEW s \in Seq(Entries), NEW r \in Seq(Keys), Ordered(s, r),
         NEW y \in Seq(Entries), NEW g, Picks(g, y, s)
  PROVE  Ordered(y, r)
<1>1. PICK w : Picks(w, KeysOf(s), r)
  BY DEF Ordered
<1>2. Picks(g, KeysOf(y), KeysOf(s))
  <2>1. Len(KeysOf(y)) = Len(y) /\ Len(KeysOf(s)) = Len(s)
    BY KeysAre
  <2>2. \A i \in 1 .. Len(y) : g[i] \in 1 .. Len(s) /\ KeysOf(y)[i] = KeysOf(s)[g[i]]
    BY DEF Picks, KeysOf
  <2>3. QED
    BY <2>1, <2>2 DEF Picks
<1>3. KeysOf(y) \in Seq(Keys) /\ KeysOf(s) \in Seq(Keys)
  BY KeysAre
<1>4. QED
  BY <1>1, <1>2, <1>3, PicksPick DEF Ordered

LEMMA NewestOrdered ==
  ASSUME NEW s \in Seq(Entries), NEW r \in Seq(Keys), Ordered(s, r),
         NEW m \in 1 .. (Len(s) + 1)
  PROVE  /\ SubSeq(s, m, Len(s)) \in Seq(Entries)
         /\ Ordered(SubSeq(s, m, Len(s)), r)
<1> DEFINE y == SubSeq(s, m, Len(s))
           g == [i \in 1 .. Len(y) |-> i + m - 1]
<1>1. y \in Seq(Entries) /\ Len(y) = Len(s) - m + 1
  OBVIOUS
<1>2. \A i \in 1 .. Len(y) : y[i] = s[i + m - 1] /\ i + m - 1 \in 1 .. Len(s)
  BY <1>1
<1> HIDE DEF y
<1>3. Picks(g, y, s)
  BY <1>1, <1>2 DEF Picks
<1> HIDE DEF g
<1>4. Ordered(y, r)
  BY <1>1, <1>3, PartOrdered
<1>5. QED
  BY <1>1, <1>4 DEF y

(* A key that is used becomes the last of the uses; what else is held, with *)
(* its entry at the end, is ordered as before.                             *)
LEMMA UsedLast ==
  ASSUME NEW s \in Seq(Entries), NEW r \in Seq(Keys), Distinct(r), Ordered(s, r),
         NEW y \in Seq(Entries), NEW g, Picks(g, y, s), NEW e \in Entries, NEW k \in Keys, e.key = k,
         \A i \in 1 .. Len(y) : y[i].key # k,
         NEW q \in Seq(Keys), NEW h, Picks(h, q, r),
         \A i \in 1 .. Len(r) : r[i] # k <=> \E p \in 1 .. Len(q) : h[p] = i
  PROVE  /\ Append(q, k) \in Seq(Keys) /\ Distinct(Append(q, k))
         /\ Ordered(Append(y, e), Append(q, k))
<1> DEFINE r2 == Append(q, k)
<1>5. r2 \in Seq(Keys) /\ Len(r2) = Len(q) + 1 /\ Len(q) \in Nat
  BY Appended
<1>6. /\ \A i \in 1 .. Len(q) : r2[i] = q[i]
      /\ r2[Len(q) + 1] = k
  BY Appended
<1> HIDE DEF r2
<1>3. \A i, j \in 1 .. Len(q) : i < j => h[i] < h[j]
  BY DEF Picks
<1>7. \A i \in 1 .. Len(q) : h[i] \in 1 .. Len(r) /\ q[i] = r[h[i]] /\ q[i] # k
  <2>1. ASSUME NEW i \in 1 .. Len(q) PROVE h[i] \in 1 .. Len(r) /\ q[i] = r[h[i]]
    BY DEF Picks
  <2>2. ASSUME NEW i \in 1 .. Len(q) PROVE q[i] # k
    <3>1. r[h[i]] # k
      BY <2>1
    <3>2. QED
      BY <2>1, <3>1
  <2>3. QED
    BY <2>1, <2>2
<1>4. \A i \in 1 .. Len(q) : h[i] \in Int
  BY <1>7
<1>8. Distinct(r2)
  <2>1. ASSUME NEW i \in 1 .. Len(q), NEW j \in 1 .. Len(q), q[i] = q[j] PROVE i = j
    <3>1. h[i] = h[j]
      <4>1. r[h[i]] = r[h[j]] /\ h[i] \in 1 .. Len(r) /\ h[j] \in 1 .. Len(r)
        BY <1>7, <2>1
      <4>2. QED
        BY <4>1 DEF Distinct
    <3>4. h[i] \in Int
      BY <1>4
    <3>2. ~ (i < j) /\ ~ (j < i)
      BY <1>3, <3>1, <3>4
    <3>3. QED
      BY <3>2
  <2>2. ASSUME NEW i \in 1 .. (Len(q) + 1), NEW j \in 1 .. (Len(q) + 1), r2[i] = r2[j]
        PROVE  i = j
    <3>1. CASE i = Len(q) + 1 \/ j = Len(q) + 1
      <4>1. \A p \in 1 .. (Len(q) + 1) : r2[p] = k => p = Len(q) + 1
        <5>1. \A p \in 1 .. (Len(q) + 1) : p \in 1 .. Len(q) \/ p = Len(q) + 1
          BY <1>5
        <5>2. QED
          BY <1>6, <1>7, <5>1
      <4>2. QED
        BY <1>6, <2>2, <3>1, <4>1
    <3>2. CASE i # Len(q) + 1 /\ j # Len(q) + 1
      <4>1. i \in 1 .. Len(q) /\ j \in 1 .. Len(q)
        BY <1>5, <3>2
      <4>2. QED
        BY <1>6, <2>1, <2>2, <4>1
    <3>3. QED
      BY <3>1, <3>2
  <2>3. QED
    BY <1>5, <2>2 DEF Distinct
<1>9. PICK w : Picks(w, KeysOf(s), r)
  BY DEF Ordered
<1>10. \A i \in 1 .. Len(y) :
         /\ g[i] \in 1 .. Len(s) /\ w[g[i]] \in 1 .. Len(r)
         /\ r[w[g[i]]] = y[i].key
  <2>1. Len(KeysOf(s)) = Len(s)
    BY KeysAre
  <2>2. \A i \in 1 .. Len(s) : w[i] \in 1 .. Len(r) /\ r[w[i]] = s[i].key
    BY <1>9, <2>1 DEF Picks, KeysOf
  <2>3. \A i \in 1 .. Len(y) : g[i] \in 1 .. Len(s) /\ y[i] = s[g[i]]
    BY PickedFrom
  <2>4. ASSUME NEW i \in 1 .. Len(y)
        PROVE  w[g[i]] \in 1 .. Len(r) /\ r[w[g[i]]] = y[i].key
    BY <2>2, <2>3
  <2>5. QED
    BY <2>3, <2>4
<1>11. \A i, j \in 1 .. Len(y) : i < j => w[g[i]] < w[g[j]]
  <2>1. Len(KeysOf(s)) = Len(s)
    BY KeysAre
  <2>2. QED
    BY <1>9, <1>10, <2>1 DEF Picks
<1>12. \A i \in 1 .. Len(y) : \E p \in 1 .. Len(q) : h[p] = w[g[i]]
  <2>1. ASSUME NEW i \in 1 .. Len(y) PROVE \E p \in 1 .. Len(q) : h[p] = w[g[i]]
    <3>1. w[g[i]] \in 1 .. Len(r) /\ r[w[g[i]]] # k
      BY <1>10
    <3>2. QED
      BY <3>1
  <2>2. QED
    BY <2>1
<1> DEFINE v == [i \in 1 .. (Len(y) + 1) |->
                  IF i = Len(y) + 1 THEN Len(q) + 1
                  ELSE CHOOSE p \in 1 .. Len(q) : h[p] = w[g[i]]]
<1>13. \A i \in 1 .. Len(y) : v[i] \in 1 .. Len(q) /\ h[v[i]] = w[g[i]]
  <2>1. ASSUME NEW i \in 1 .. Len(y) PROVE v[i] \in 1 .. Len(q) /\ h[v[i]] = w[g[i]]
    <3>1. i \in 1 .. (Len(y) + 1) /\ i # Len(y) + 1
      OBVIOUS
    <3>2. v[i] = CHOOSE p \in 1 .. Len(q) : h[p] = w[g[i]]
      BY <3>1
    <3> HIDE DEF v
    <3>3. QED
      BY <1>12, <3>2
  <2>2. QED
    BY <2>1
<1>14. v[Len(y) + 1] = Len(q) + 1 /\ v \in [1 .. (Len(y) + 1) -> 1 .. Len(r2)]
  <2>1. v[Len(y) + 1] = Len(q) + 1
    OBVIOUS
  <2>2. v = [i \in 1 .. (Len(y) + 1) |-> v[i]]
    OBVIOUS
  <2> HIDE DEF v
  <2>3. \A i \in 1 .. (Len(y) + 1) : v[i] \in 1 .. Len(r2)
    <3>1. \A i \in 1 .. (Len(y) + 1) : i \in 1 .. Len(y) \/ i = Len(y) + 1
      OBVIOUS
    <3>2. \A p \in 1 .. Len(q) : p \in 1 .. Len(r2)
      BY <1>5
    <3>3. Len(q) + 1 \in 1 .. Len(r2)
      BY <1>5
    <3>4. QED
      BY <1>13, <2>1, <3>1, <3>2, <3>3
  <2>4. QED
    BY <2>1, <2>2, <2>3
<1> HIDE DEF v
<1>15. \A i, j \in 1 .. Len(y) : i < j => v[i] < v[j]
  <2>1. ASSUME NEW i \in 1 .. Len(y), NEW j \in 1 .. Len(y), i < j PROVE v[i] < v[j]
    <3>1. h[v[i]] < h[v[j]]
      BY <1>11, <1>13, <2>1
    <3>2. v[i] \in 1 .. Len(q) /\ v[j] \in 1 .. Len(q)
      BY <1>13
    <3>3. h[v[i]] \in Int /\ h[v[j]] \in Int
      BY <1>4, <3>2
    <3>6. v[i] # v[j]
      BY <3>1, <3>3
    <3>7. v[j] < v[i] => h[v[j]] < h[v[i]]
      BY <1>3, <3>2
    <3>4. ~ (v[j] < v[i]) /\ v[i] # v[j]
      BY <3>1, <3>3, <3>6, <3>7
    <3>5. QED
      BY <3>2, <3>4
  <2>2. QED
    BY <2>1
<1>16. Picks(v, KeysOf(Append(y, e)), r2)
  <2> DEFINE z == Append(y, e)
  <2>1. z \in Seq(Entries) /\ Len(z) = Len(y) + 1
    OBVIOUS
  <2>2. (\A i \in 1 .. Len(y) : z[i] = y[i]) /\ z[Len(y) + 1] = e
    OBVIOUS
  <2> HIDE DEF z
  <2>3. Len(KeysOf(z)) = Len(y) + 1
    BY <2>1, KeysAre
  <2>4. \A i \in 1 .. (Len(y) + 1) : KeysOf(z)[i] = r2[v[i]]
    <3>1. \A i \in 1 .. Len(y) : KeysOf(z)[i] = r2[v[i]]
      <4>1. ASSUME NEW i \in 1 .. Len(y) PROVE KeysOf(z)[i] = r2[v[i]]
        <5>1. i \in 1 .. Len(z) /\ z[i] = y[i]
          BY <2>1, <2>2
        <5>2. KeysOf(z)[i] = y[i].key
          BY <5>1 DEF KeysOf
        <5>3. v[i] \in 1 .. Len(q) /\ h[v[i]] = w[g[i]]
          BY <1>13
        <5>4. r2[v[i]] = r[w[g[i]]]
          BY <1>6, <1>7, <5>3
        <5>5. QED
          BY <1>10, <5>2, <5>4
      <4>2. QED
        BY <4>1
    <3>2. KeysOf(z)[Len(y) + 1] = r2[v[Len(y) + 1]]
      <4>1. Len(y) + 1 \in 1 .. Len(z) /\ z[Len(y) + 1].key = k
        BY <2>1, <2>2
      <4>2. KeysOf(z)[Len(y) + 1] = k
        BY <4>1 DEF KeysOf
      <4>3. QED
        BY <1>6, <1>14, <4>2
    <3>3. \A i \in 1 .. (Len(y) + 1) : i \in 1 .. Len(y) \/ i = Len(y) + 1
      OBVIOUS
    <3>4. QED
      BY <3>1, <3>2, <3>3
  <2>5. \A i, j \in 1 .. (Len(y) + 1) : i < j => v[i] < v[j]
    <3>1. \A i \in 1 .. (Len(y) + 1) : i \in 1 .. Len(y) \/ i = Len(y) + 1
      OBVIOUS
    <3>2. \A i \in 1 .. Len(y) : v[i] \in Int /\ v[i] < v[Len(y) + 1]
      BY <1>5, <1>13, <1>14
    <3>3. ASSUME NEW i \in 1 .. (Len(y) + 1), NEW j \in 1 .. (Len(y) + 1), i < j
          PROVE  v[i] < v[j]
      <4>1. i \in 1 .. Len(y)
        BY <3>3
      <4>2. CASE j = Len(y) + 1
        BY <3>2, <4>1, <4>2
      <4>3. CASE j \in 1 .. Len(y)
        BY <1>15, <3>3, <4>1, <4>3
      <4>4. QED
        BY <3>1, <4>2, <4>3
    <3>4. QED
      BY <3>3
  <2>6. QED
    BY <1>14, <2>3, <2>4, <2>5 DEF Picks, z
<1>17. QED
  BY <1>5, <1>8, <1>16 DEF Ordered, r2

-----------------------------------------------------------------------------
(* What the operations of the dictionary leave.                            *)

LEMMA LiveIs ==
  ASSUME NEW s \in Seq(Entries), NEW at \in Int
  PROVE  /\ EvictExpired(s, at) \in Seq(Entries)
         /\ \E g : /\ Picks(g, EvictExpired(s, at), s)
                   /\ \A i \in 1 .. Len(s) :
                        s[i].expires > at <=> \E p \in 1 .. Len(EvictExpired(s, at)) : g[p] = i
<1> DEFINE I == {i \in DOMAIN s : s[i].expires > at}
<1>1. I \in SUBSET DOMAIN s /\ DOMAIN s = 1 .. Len(s)
  OBVIOUS
<1>2. \A i \in 1 .. Len(s) : i \in I <=> s[i].expires > at
  BY <1>1
<1>3. EvictExpired(s, at) = Kept(s, I)
  BY DEF EvictExpired
<1> HIDE DEF I
<1>4. Kept(s, I) \in Seq(Entries)
  BY <1>1, KeptIs
<1>5. PICK g : /\ Picks(g, Kept(s, I), s)
               /\ \A i \in DOMAIN s : i \in I <=> \E p \in 1 .. Len(Kept(s, I)) : g[p] = i
  BY <1>1, KeptIs
<1>6. QED
  BY <1>1, <1>2, <1>3, <1>4, <1>5

LEMMA OthersIs ==
  ASSUME NEW s \in Seq(Entries), NEW k
  PROVE  /\ Without(s, k) \in Seq(Entries)
         /\ \E g : /\ Picks(g, Without(s, k), s)
                   /\ \A i \in 1 .. Len(s) :
                        s[i].key # k <=> \E p \in 1 .. Len(Without(s, k)) : g[p] = i
<1> DEFINE I == DOMAIN s \ Holding(s, k)
<1>1. I \in SUBSET DOMAIN s /\ DOMAIN s = 1 .. Len(s)
  OBVIOUS
<1>2. \A i \in 1 .. Len(s) : i \in I <=> s[i].key # k
  BY <1>1 DEF Holding
<1>3. Without(s, k) = Kept(s, I)
  BY DEF Without
<1> HIDE DEF I
<1>4. Kept(s, I) \in Seq(Entries)
  BY <1>1, KeptIs
<1>5. PICK g : /\ Picks(g, Kept(s, I), s)
               /\ \A i \in DOMAIN s : i \in I <=> \E p \in 1 .. Len(Kept(s, I)) : g[p] = i
  BY <1>1, KeptIs
<1>6. QED
  BY <1>1, <1>2, <1>3, <1>4, <1>5

(* What a set finds of the others when it has taken out its own key: the   *)
(* live ones, in their order.                                              *)
LEMMA RestIs ==
  ASSUME NEW s \in Seq(Entries), NEW at \in Int, NEW k, NEW y,
         y = Without(EvictExpired(s, at), k)
  PROVE  /\ y \in Seq(Entries)
         /\ \A p \in 1 .. Len(y) : y[p].key # k
         /\ \E g : /\ Picks(g, y, s)
                   /\ \A i \in 1 .. Len(s) :
                        s[i].expires > at /\ s[i].key # k <=> \E p \in 1 .. Len(y) : g[p] = i
<1> DEFINE live == EvictExpired(s, at)
<1>1. live \in Seq(Entries)
  BY LiveIs
<1>2. PICK g : /\ Picks(g, live, s)
               /\ \A i \in 1 .. Len(s) :
                    s[i].expires > at <=> \E p \in 1 .. Len(live) : g[p] = i
  BY LiveIs
<1> HIDE DEF live
<1>3. y \in Seq(Entries)
  BY <1>1, OthersIs DEF live
<1>4. PICK h : /\ Picks(h, y, live)
               /\ \A i \in 1 .. Len(live) :
                    live[i].key # k <=> \E p \in 1 .. Len(y) : h[p] = i
  BY <1>1, OthersIs DEF live
<1>5. \A p \in 1 .. Len(y) : h[p] \in 1 .. Len(live) /\ y[p] = live[h[p]]
  BY <1>4 DEF Picks
<1>6. \A i \in 1 .. Len(live) : g[i] \in 1 .. Len(s) /\ live[i] = s[g[i]]
  BY <1>2 DEF Picks
<1>7. \A p \in 1 .. Len(y) : y[p].key # k
  BY <1>4, <1>5
<1> DEFINE f == [p \in 1 .. Len(y) |-> g[h[p]]]
<1>8. Picks(f, y, s)
  BY <1>1, <1>2, <1>3, <1>4, PicksPick
<1>9. \A p \in 1 .. Len(y) : f[p] = g[h[p]]
  OBVIOUS
<1> HIDE DEF f
<1>10. ASSUME NEW i \in 1 .. Len(s), s[i].expires > at, s[i].key # k
       PROVE  \E p \in 1 .. Len(y) : f[p] = i
  <2>1. PICK a \in 1 .. Len(live) : g[a] = i
    BY <1>2, <1>10
  <2>2. live[a].key # k
    BY <1>6, <1>10, <2>1
  <2>3. PICK p \in 1 .. Len(y) : h[p] = a
    BY <1>4, <2>2
  <2>4. QED
    BY <1>9, <2>1, <2>3
<1>11. ASSUME NEW i \in 1 .. Len(s), NEW p \in 1 .. Len(y), f[p] = i
       PROVE  s[i].expires > at /\ s[i].key # k
  <2>1. h[p] \in 1 .. Len(live) /\ g[h[p]] = i
    BY <1>5, <1>9, <1>11
  <2>2. s[i].expires > at
    BY <1>2, <2>1
  <2>3. s[i] = y[p]
    BY <1>5, <1>6, <2>1
  <2>4. QED
    BY <1>7, <2>2, <2>3
<1>12. QED
  BY <1>3, <1>7, <1>8, <1>10, <1>11

(* The entry that a hit finds is the one that moves to the end.            *)
LEMMA MovedToEnd ==
  ASSUME NEW s \in Seq(Entries), NEW k, NEW i \in 1 .. Len(s), s[i].key = k,
         \A j \in 1 .. Len(s) : s[j].key = k => j = i
  PROVE  MoveToEnd(s, k) = Append(Without(s, k), s[i])
<1>1. PICK I : I = {i}
  OBVIOUS
<1>2. Holding(s, k) = I /\ i \in DOMAIN s
  <2>1. DOMAIN s = 1 .. Len(s) /\ Holding(s, k) \in SUBSET DOMAIN s
    BY DEF Holding
  <2>2. \A j \in 1 .. Len(s) : j \in Holding(s, k) <=> j = i
    BY <2>1 DEF Holding
  <2>3. QED
    BY <1>1, <2>1, <2>2
<1>3. I \in SUBSET DOMAIN s /\ i \in I /\ Cardinality(I) = 1
  <2>1. Cardinality(I) = 1
    BY <1>1, FS_Singleton, Zenon
  <2>2. QED
    BY <1>1, <1>2, <2>1
<1>4. Kept(s, I) \in Seq(Entries) /\ Len(Kept(s, I)) = 1
  <2>1. I \in SUBSET DOMAIN s
    BY <1>3
  <2>2. Kept(s, I) \in Seq(Entries) /\ Len(Kept(s, I)) = Cardinality(I)
    BY <2>1, KeptIs
  <2>3. QED
    BY <1>3, <2>2
<1>5. PICK g : Picks(g, Kept(s, I), s) /\ \E p \in 1 .. Len(Kept(s, I)) : g[p] = i
  <2>1. I \in SUBSET DOMAIN s
    BY <1>3
  <2>2. PICK g : /\ Picks(g, Kept(s, I), s)
                 /\ \A j \in DOMAIN s : j \in I <=> \E p \in 1 .. Len(Kept(s, I)) : g[p] = j
    BY <2>1, KeptIs
  <2>3. QED
    BY <1>2, <1>3, <2>2
<1>6. Kept(s, I)[1] = s[i]
  <2>1. \A p \in 1 .. 1 : p = 1
    OBVIOUS
  <2>2. g[1] = i
    BY <1>4, <1>5, <2>1
  <2>3. \A p \in 1 .. Len(Kept(s, I)) : Kept(s, I)[p] = s[g[p]]
    BY <1>5 DEF Picks
  <2>4. 1 \in 1 .. Len(Kept(s, I))
    <3>1. Len(Kept(s, I)) = 1
      BY <1>4
    <3>2. 1 \in 1 .. 1
      OBVIOUS
    <3>3. QED
      BY <3>1, <3>2
  <2>5. QED
    BY <2>2, <2>3, <2>4
<1>7. Without(s, k) \in Seq(Entries)
  BY OthersIs
<1> DEFINE a == Without(s, k)
           b == Kept(s, I)
<1>8. MoveToEnd(s, k) = a \o b
  BY <1>2 DEF MoveToEnd
<1> HIDE DEF a, b
<1>9. a \in Seq(Entries) /\ b \in Seq(Entries) /\ Len(b) = 1 /\ b[1] = s[i] /\ s[i] \in Entries
  BY <1>4, <1>6, <1>7 DEF a, b
<1>10. a \o b = Append(a, s[i])
  <2>1. b = <<s[i]>>
    BY <1>9
  <2>2. a \o <<s[i]>> = Append(a, s[i])
    BY <1>9
  <2>3. QED
    BY <2>1, <2>2
<1>11. QED
  BY <1>8, <1>10 DEF a

(* The uses but those of k.                                                *)
OtherUses(r, k) == Kept(r, {i \in DOMAIN r : r[i] # k})

LEMMA OtherUsesAre ==
  ASSUME NEW r \in Seq(Keys), NEW k
  PROVE  /\ OtherUses(r, k) \in Seq(Keys)
         /\ \E h : /\ Picks(h, OtherUses(r, k), r)
                   /\ \A i \in 1 .. Len(r) :
                        r[i] # k <=> \E p \in 1 .. Len(OtherUses(r, k)) : h[p] = i
<1> DEFINE I == {i \in DOMAIN r : r[i] # k}
<1>1. I \in SUBSET DOMAIN r /\ DOMAIN r = 1 .. Len(r)
  OBVIOUS
<1>2. \A i \in 1 .. Len(r) : i \in I <=> r[i] # k
  BY <1>1
<1>3. OtherUses(r, k) = Kept(r, I)
  BY DEF OtherUses
<1> HIDE DEF I
<1>4. Kept(r, I) \in Seq(Keys)
  BY <1>1, KeptIs
<1>5. PICK g : /\ Picks(g, Kept(r, I), r)
               /\ \A i \in DOMAIN r : i \in I <=> \E p \in 1 .. Len(Kept(r, I)) : g[p] = i
  BY <1>1, KeptIs
<1>6. QED
  BY <1>1, <1>2, <1>3, <1>4, <1>5

-----------------------------------------------------------------------------
(* A thread knows what it asks for, and its clock is not ahead; an entry   *)
(* lives no longer than TTL; and the dictionary is in the order of use.    *)

Typed ==
  /\ TypeOK
  /\ entries \in Seq(Entries) /\ recency \in Seq(Keys)

ThreadsFine ==
  \A t \in Threads : (pc[t] # "idle" => key[t] \in Keys) /\ clock[t] <= now

LifetimesFine ==
  \A i \in 1 .. Len(entries) : entries[i].expires <= entries[i].stored + TTL

UsesFine == Distinct(recency) /\ Ordered(entries, recency)

IInv == Typed /\ ThreadsFine /\ LifetimesFine /\ UsesFine

LEMMA EntriesTyped ==
  ASSUME NEW s \in Seq(Entries)
  PROVE  \A e \in Range(s) : e.key \in Keys /\ e.expires \in Nat /\ e.stored \in 0 .. MaxTime
<1>1. \A i \in 1 .. Len(s) : s[i] \in Entries
  OBVIOUS
<1>2. \A e \in Range(s) : e \in Entries
  BY <1>1 DEF Range
<1>3. \A e \in Entries : e.key \in Keys /\ e.expires \in Nat /\ e.stored \in 0 .. MaxTime
  BY DEF Entries
<1>4. QED
  BY <1>2, <1>3

(* A part of what lives no longer than TTL lives no longer than that.      *)
LifeIn(s) == \A i \in 1 .. Len(s) : s[i].expires <= s[i].stored + TTL

LEMMA PartLives ==
  ASSUME NEW s \in Seq(Entries), NEW y \in Seq(Entries), NEW g, Picks(g, y, s), LifeIn(s)
  PROVE  LifeIn(y)
BY DEF Picks, LifeIn

(* The steps in the lock, as what they make of the dictionary.             *)
LEMMA HitStep ==
  ASSUME IInv, NEW t \in Threads, pc[t] = "get", NEW live, live = EvictExpired(entries, clock[t]),
         NEW i \in Holding(live, key[t]),
         entries' = MoveToEnd(live, key[t]), Used(key[t])
  PROVE  \E y : /\ y = Without(live, key[t]) /\ y \in Seq(Entries)
                /\ live \in Seq(Entries) /\ i \in 1 .. Len(live) /\ live[i].key = key[t]
                /\ entries' = Append(y, live[i])
                /\ entries' \in Seq(Entries) /\ recency' \in Seq(Keys)
                /\ Len(entries') <= Len(live)
                /\ Distinct(recency') /\ Ordered(entries', recency') /\ LifeIn(entries')
<1>1. entries \in Seq(Entries) /\ recency \in Seq(Keys) /\ clock[t] \in Int /\ key[t] \in Keys
  BY DEF IInv, Typed, TypeOK, ThreadsFine
<1>2. /\ live \in Seq(Entries)
      /\ \E g : Picks(g, live, entries)
  BY <1>1, LiveIs
<1>3. PICK g : Picks(g, live, entries)
  BY <1>2
<1>4. Distinct(recency) /\ Ordered(entries, recency) /\ LifeIn(entries)
  BY DEF IInv, UsesFine, LifetimesFine, LifeIn
<1>5. Ordered(live, recency) /\ LifeIn(live)
  BY <1>1, <1>2, <1>3, <1>4, PartOrdered, PartLives
<1>6. i \in 1 .. Len(live) /\ live[i].key = key[t]
  BY <1>2 DEF Holding
<1>7. \A j \in 1 .. Len(live) : live[j].key = key[t] => j = i
  BY <1>1, <1>2, <1>4, <1>5, <1>6, KeysDiffer
<1> DEFINE y == Without(live, key[t])
<1>8. /\ y \in Seq(Entries)
      /\ \E f : /\ Picks(f, y, live)
                /\ \A j \in 1 .. Len(live) :
                     live[j].key # key[t] <=> \E p \in 1 .. Len(y) : f[p] = j
  BY <1>2, OthersIs
<1>9. entries' = Append(y, live[i])
  BY <1>2, <1>6, <1>7, MovedToEnd
<1>10. recency' = Append(OtherUses(recency, key[t]), key[t])
  BY DEF Used, OtherUses
<1> HIDE DEF y
<1>11. PICK f : /\ Picks(f, y, live)
                /\ \A j \in 1 .. Len(live) :
                     live[j].key # key[t] <=> \E p \in 1 .. Len(y) : f[p] = j
  BY <1>8
<1>12. \A p \in 1 .. Len(y) : y[p].key # key[t]
  <2>1. \A p \in 1 .. Len(y) : f[p] \in 1 .. Len(live) /\ y[p] = live[f[p]]
    BY <1>11 DEF Picks
  <2>2. \A p \in 1 .. Len(y) : live[f[p]].key # key[t]
    BY <1>11, <2>1
  <2>3. QED
    BY <2>1, <2>2
<1>13. live[i] \in Entries
  BY <1>2, <1>6
<1> DEFINE q == OtherUses(recency, key[t])
<1>14. /\ q \in Seq(Keys)
       /\ \E h : /\ Picks(h, q, recency)
                 /\ \A j \in 1 .. Len(recency) :
                      recency[j] # key[t] <=> \E p \in 1 .. Len(q) : h[p] = j
  BY <1>1, OtherUsesAre
<1>15. recency' = Append(q, key[t])
  BY <1>10
<1> HIDE DEF q
<1>16. PICK h : /\ Picks(h, q, recency)
                /\ \A j \in 1 .. Len(recency) :
                     recency[j] # key[t] <=> \E p \in 1 .. Len(q) : h[p] = j
  BY <1>14
<1>17. /\ Append(q, key[t]) \in Seq(Keys) /\ Distinct(Append(q, key[t]))
       /\ Ordered(Append(y, live[i]), Append(q, key[t]))
  BY <1>1, <1>2, <1>4, <1>5, <1>6, <1>8, <1>11, <1>12, <1>13, <1>14, <1>16, UsedLast
<1>18. Append(y, live[i]) \in Seq(Entries) /\ Len(Append(y, live[i])) = Len(y) + 1
  BY <1>8, <1>13, Appended
<1>19. Len(y) < Len(live)
  <2>1. \A p \in 1 .. Len(y) : f[p] # i
    BY <1>6, <1>11
  <2>2. Picks(f, y, live)
    BY <1>11
  <2>3. \A j \in 1 .. Len(live) : (\A p \in 1 .. Len(y) : f[p] # j) => Len(y) < Len(live)
    BY <1>2, <1>8, <2>2, PicksFewer
  <2>4. QED
    BY <1>6, <2>1, <2>3
<1>20. LifeIn(Append(y, live[i]))
  <2>1. LifeIn(y)
    BY <1>2, <1>5, <1>8, <1>11, PartLives
  <2>2. live[i].expires <= live[i].stored + TTL
    BY <1>5, <1>6 DEF LifeIn
  <2>3. \A p \in 1 .. (Len(y) + 1) : p \in 1 .. Len(y) \/ p = Len(y) + 1
    BY <1>8, Appended, <1>13
  <2>4. /\ \A p \in 1 .. Len(y) : Append(y, live[i])[p] = y[p]
        /\ Append(y, live[i])[Len(y) + 1] = live[i]
    BY <1>8, <1>13, Appended
  <2>5. QED
    BY <1>18, <2>1, <2>2, <2>3, <2>4 DEF LifeIn
<1>21. Len(y) \in Nat /\ Len(live) \in Nat
  BY <1>2, <1>8
<1>22. QED
  BY <1>2, <1>6, <1>8, <1>9, <1>15, <1>17, <1>18, <1>19, <1>20, <1>21 DEF y

(* A set: y are the others that are live, z is what there is room to drop  *)
(* from, and m the place of the first that stays.                          *)
LEMMA SetStep ==
  ASSUME IInv, NEW t \in Threads, Set(t)
  PROVE  \E y, z, m :
           /\ y = Without(EvictExpired(entries, clock[t]), key[t]) /\ y \in Seq(Entries)
           /\ \A p \in 1 .. Len(y) : y[p].key # key[t]
           /\ z = Append(y, Entry(t)) /\ z \in Seq(Entries) /\ Len(z) = Len(y) + 1
           /\ m \in 1 .. Len(z) /\ entries' = SubSeq(z, m, Len(z))
           /\ m = IF Len(z) > MaxEntries THEN Len(z) - MaxEntries + 1 ELSE 1
           /\ entries' \in Seq(Entries) /\ recency' \in Seq(Keys)
           /\ Len(entries') <= MaxEntries
           /\ Distinct(recency') /\ Ordered(entries', recency') /\ LifeIn(entries')
<1>1. /\ entries \in Seq(Entries) /\ recency \in Seq(Keys) /\ clock[t] \in 0 .. MaxTime
      /\ key[t] \in Keys /\ clock[t] <= now /\ now \in 0 .. MaxTime
  BY DEF IInv, Typed, TypeOK, ThreadsFine, Set
<1>2. Distinct(recency) /\ Ordered(entries, recency) /\ LifeIn(entries)
  BY DEF IInv, UsesFine, LifetimesFine, LifeIn
<1> DEFINE y == Without(EvictExpired(entries, clock[t]), key[t])
           e == Entry(t)
           z == Append(y, e)
           m == IF Len(z) > MaxEntries THEN Len(z) - MaxEntries + 1 ELSE 1
           q == OtherUses(recency, key[t])
<1>3. entries' = SubSeq(z, m, Len(z)) /\ recency' = Append(q, key[t])
  BY DEF Set, DropOldest, Used, OtherUses
<1>4. e \in Entries /\ e.key = key[t] /\ e.expires <= e.stored + TTL
  <2>1. clock[t] + TTL \in Nat /\ clock[t] + TTL <= now + TTL
    BY <1>1, TTLAssumption
  <2>2. QED
    BY <1>1, <2>1 DEF Entry, Entries
<1>5. /\ y \in Seq(Entries)
      /\ \A p \in 1 .. Len(y) : y[p].key # key[t]
      /\ \E g : Picks(g, y, entries)
  <2>1. clock[t] \in Int
    BY <1>1
  <2>2. QED
    BY <1>1, <2>1, RestIs
<1>6. /\ q \in Seq(Keys)
      /\ \E h : /\ Picks(h, q, recency)
                /\ \A j \in 1 .. Len(recency) :
                     recency[j] # key[t] <=> \E p \in 1 .. Len(q) : h[p] = j
  BY <1>1, OtherUsesAre
<1> HIDE DEF y, e, q
<1>7. PICK g : Picks(g, y, entries)
  BY <1>5
<1>8. PICK h : /\ Picks(h, q, recency)
               /\ \A j \in 1 .. Len(recency) :
                    recency[j] # key[t] <=> \E p \in 1 .. Len(q) : h[p] = j
  BY <1>6
<1>9. /\ Append(q, key[t]) \in Seq(Keys) /\ Distinct(Append(q, key[t]))
      /\ Ordered(z, Append(q, key[t]))
  BY <1>1, <1>2, <1>4, <1>5, <1>6, <1>7, <1>8, UsedLast
<1>10. z \in Seq(Entries) /\ Len(z) = Len(y) + 1 /\ Len(y) \in Nat
  BY <1>4, <1>5, Appended
<1>11. LifeIn(z)
  <2>1. LifeIn(y)
    BY <1>1, <1>2, <1>5, <1>7, PartLives
  <2>2. \A p \in 1 .. (Len(y) + 1) : p \in 1 .. Len(y) \/ p = Len(y) + 1
    BY <1>10
  <2>3. (\A p \in 1 .. Len(y) : z[p] = y[p]) /\ z[Len(y) + 1] = e
    BY <1>4, <1>5, Appended
  <2> HIDE DEF z
  <2>4. QED
    BY <1>4, <1>10, <2>1, <2>2, <2>3 DEF LifeIn
<1> HIDE DEF z
<1>12. m \in 1 .. Len(z) /\ Len(z) - m + 1 <= MaxEntries
  BY <1>10, EntriesAssumption
<1>13. m = IF Len(z) > MaxEntries THEN Len(z) - MaxEntries + 1 ELSE 1
  OBVIOUS
<1> HIDE DEF m
<1>14. m \in 1 .. (Len(z) + 1)
  BY <1>10, <1>12
<1>15. /\ SubSeq(z, m, Len(z)) \in Seq(Entries)
       /\ Ordered(SubSeq(z, m, Len(z)), Append(q, key[t]))
  BY <1>9, <1>10, <1>14, NewestOrdered
<1>16. /\ Len(SubSeq(z, m, Len(z))) = Len(z) - m + 1
       /\ \A p \in 1 .. Len(SubSeq(z, m, Len(z))) :
            SubSeq(z, m, Len(z))[p] = z[p + m - 1] /\ p + m - 1 \in 1 .. Len(z)
  BY <1>10, <1>12
<1>17. LifeIn(SubSeq(z, m, Len(z)))
  BY <1>11, <1>16 DEF LifeIn
<1>18. QED
  BY <1>3, <1>5, <1>9, <1>10, <1>12, <1>13, <1>15, <1>16, <1>17 DEF y, z, e

(* Nothing is lost by a miss.                                              *)
LEMMA MissStep ==
  ASSUME IInv, NEW t \in Threads, entries' = EvictExpired(entries, clock[t]), UNCHANGED recency
  PROVE  /\ entries' \in Seq(Entries) /\ Len(entries') <= Len(entries)
         /\ Ordered(entries', recency') /\ LifeIn(entries')
<1>1. entries \in Seq(Entries) /\ recency \in Seq(Keys) /\ clock[t] \in Int
  BY DEF IInv, Typed, TypeOK
<1>2. Ordered(entries, recency) /\ LifeIn(entries)
  BY DEF IInv, UsesFine, LifetimesFine, LifeIn
<1> DEFINE y == EvictExpired(entries, clock[t])
<1>3. y \in Seq(Entries) /\ \E g : Picks(g, y, entries)
  BY <1>1, LiveIs
<1> HIDE DEF y
<1>4. PICK g : Picks(g, y, entries)
  BY <1>3
<1>5. Len(y) <= Len(entries) /\ Ordered(y, recency) /\ LifeIn(y)
  BY <1>1, <1>2, <1>3, <1>4, PicksFewer, PartOrdered, PartLives
<1>6. QED
  BY <1>3, <1>5 DEF y

-----------------------------------------------------------------------------
LEMMA InitIInv == Init => IInv
<1> SUFFICES ASSUME Init PROVE IInv
  OBVIOUS
<1>1. << >> \in Seq(Entries) /\ << >> \in Seq(Keys) /\ Len(<< >>) = 0
  OBVIOUS
<1>2. Typed
  <2>1. Range(entries) = {}
    BY DEF Init, Range
  <2>2. QED
    BY <1>1, <2>1, EntriesAssumption, TimeAssumption DEF Init, Typed, TypeOK
<1>3. ThreadsFine /\ LifetimesFine
  BY TimeAssumption DEF Init, ThreadsFine, LifetimesFine
<1>4. UsesFine
  <2>1. KeysOf(<< >>) = << >>
    BY DEF KeysOf
  <2>2. Picks([i \in 1 .. 0 |-> i], << >>, << >>)
    BY DEF Picks
  <2>3. QED
    BY <2>1, <2>2 DEF Init, UsesFine, Distinct, Ordered
<1>5. QED
  BY <1>2, <1>3, <1>4 DEF IInv

LEMMA NextIInv == IInv /\ [Next]_vars => IInv'
<1> SUFFICES ASSUME IInv, [Next]_vars PROVE IInv'
  OBVIOUS
<1> USE DEF Done
<1>0. /\ now \in 0 .. MaxTime /\ Len(entries) <= MaxEntries /\ Len(entries) \in Nat
      /\ pc \in [Threads -> {"idle", "get", "compute", "set"}]
      /\ key \in [Threads -> Keys \cup {NoKey}] /\ clock \in [Threads -> 0 .. MaxTime]
      /\ entries \in Seq(Entries) /\ recency \in Seq(Keys)
      /\ \A t \in Threads : (pc[t] # "idle" => key[t] \in Keys) /\ clock[t] <= now
  BY DEF IInv, Typed, TypeOK, ThreadsFine
(* What a step does to the threads and to the dictionary, apart.           *)
<1>a. ASSUME /\ pc' \in [Threads -> {"idle", "get", "compute", "set"}]
             /\ key' \in [Threads -> Keys \cup {NoKey}]
             /\ clock' \in [Threads -> 0 .. MaxTime]
             /\ now' \in 0 .. MaxTime
             /\ ThreadsFine'
             /\ entries' \in Seq(Entries) /\ recency' \in Seq(Keys)
             /\ Len(entries') <= MaxEntries
             /\ Distinct(recency') /\ Ordered(entries', recency') /\ LifeIn(entries')
      PROVE  IInv'
  <2>1. \A e \in Range(entries') :
          e.key \in Keys /\ e.expires \in Nat /\ e.stored \in 0 .. MaxTime
    BY <1>a, EntriesTyped
  <2>2. Typed'
    BY <1>a, <2>1 DEF Typed, TypeOK
  <2>3. LifetimesFine' /\ UsesFine'
    BY <1>a DEF LifetimesFine, UsesFine, LifeIn
  <2>4. QED
    BY <1>a, <2>2, <2>3 DEF IInv
<1>b. Distinct(recency) /\ Ordered(entries, recency) /\ LifeIn(entries)
  BY DEF IInv, UsesFine, LifetimesFine, LifeIn
<1>c. ASSUME NEW t \in Threads, Done(t), UNCHANGED now
      PROVE  /\ pc' \in [Threads -> {"idle", "get", "compute", "set"}]
             /\ key' \in [Threads -> Keys \cup {NoKey}]
             /\ clock' \in [Threads -> 0 .. MaxTime]
             /\ now' \in 0 .. MaxTime
             /\ ThreadsFine'
  BY <1>0, <1>c, TimeAssumption DEF ThreadsFine
<1>1. CASE UNCHANGED vars
  BY <1>0, <1>1, <1>a, <1>b DEF vars, IInv, ThreadsFine
<1>2. CASE Tick
  <2>1. ThreadsFine' /\ now' \in 0 .. MaxTime
    BY <1>0, <1>2, TimeAssumption DEF Tick, ThreadsFine
  <2>2. QED
    BY <1>0, <1>2, <1>a, <1>b, <2>1 DEF Tick
<1>3. ASSUME NEW t \in Threads, NEW k \in Keys, Arrive(t, k) PROVE IInv'
  <2>1. ThreadsFine'
    BY <1>0, <1>3 DEF Arrive, ThreadsFine
  <2>2. QED
    BY <1>0, <1>3, <1>a, <1>b, <2>1 DEF Arrive
<1>4. ASSUME NEW t \in Threads, Compute(t) PROVE IInv'
  <2>1. ThreadsFine'
    BY <1>0, <1>4 DEF Compute, ThreadsFine
  <2>2. QED
    BY <1>0, <1>4, <1>a, <1>b, <2>1 DEF Compute
<1>5. ASSUME NEW t \in Threads, Fail(t) PROVE IInv'
  BY <1>0, <1>5, <1>a, <1>b, <1>c DEF Fail
<1>6. ASSUME NEW t \in Threads, Get(t) PROVE IInv'
  <2> DEFINE live == EvictExpired(entries, clock[t])
             found == Holding(live, key[t])
  <2>1. pc[t] = "get" /\ UNCHANGED now
    BY <1>6 DEF Get
  <2>2. CASE /\ entries' = live
             /\ pc' = [pc EXCEPT ![t] = "compute"] /\ clock' = [clock EXCEPT ![t] = 0]
             /\ UNCHANGED <<key, recency>>
    <3>1. /\ entries' \in Seq(Entries) /\ Len(entries') <= Len(entries)
          /\ Ordered(entries', recency') /\ LifeIn(entries')
      BY <2>2, MissStep
    <3> HIDE DEF live
    <3>2. ThreadsFine'
      BY <1>0, <2>1, <2>2, TimeAssumption DEF ThreadsFine
    <3>3. Len(entries') <= MaxEntries
      BY <1>0, <3>1, EntriesAssumption
    <3>4. /\ pc' \in [Threads -> {"idle", "get", "compute", "set"}]
          /\ key' \in [Threads -> Keys \cup {NoKey}]
          /\ clock' \in [Threads -> 0 .. MaxTime]
          /\ now' \in 0 .. MaxTime
      BY <1>0, <2>1, <2>2, TimeAssumption
    <3>5. recency' \in Seq(Keys) /\ Distinct(recency')
      BY <1>0, <1>b, <2>2
    <3>6. QED
      BY <1>a, <3>1, <3>2, <3>3, <3>4, <3>5
  <2>3. ASSUME NEW i \in found, entries' = MoveToEnd(live, key[t]), Used(key[t]), Done(t)
        PROVE  IInv'
    <3>1. /\ live \in Seq(Entries)
          /\ entries' \in Seq(Entries) /\ recency' \in Seq(Keys)
          /\ Len(entries') <= Len(live)
          /\ Distinct(recency') /\ Ordered(entries', recency') /\ LifeIn(entries')
      BY <2>1, <2>3, HitStep
    <3>2. Len(live) <= Len(entries)
      <4>1. clock[t] \in Int
        BY <1>0
      <4>2. PICK g : Picks(g, live, entries)
        BY <1>0, <4>1, LiveIs
      <4> HIDE DEF live
      <4>3. QED
        BY <1>0, <3>1, <4>2, PicksFewer
    <3> HIDE DEF live, found
    <3>3. Len(entries') <= MaxEntries
      <4>1. Len(entries') \in Nat /\ Len(live) \in Nat
        BY <3>1
      <4>2. QED
        BY <1>0, <3>1, <3>2, <4>1, EntriesAssumption
    <3>4. QED
      BY <1>a, <1>c, <2>1, <2>3, <3>1, <3>3
  <2>4. QED
    BY <1>6, <2>2, <2>3 DEF Get
<1>7. ASSUME NEW t \in Threads, Set(t) PROVE IInv'
  <2>1. /\ entries' \in Seq(Entries) /\ recency' \in Seq(Keys)
        /\ Len(entries') <= MaxEntries
        /\ Distinct(recency') /\ Ordered(entries', recency') /\ LifeIn(entries')
    BY <1>7, SetStep
  <2>2. Done(t) /\ UNCHANGED now
    BY <1>7 DEF Set
  <2>3. QED
    BY <1>a, <1>c, <2>1, <2>2
<1>8. QED
  BY <1>1, <1>2, <1>3, <1>4, <1>5, <1>6, <1>7 DEF Next

LEMMA Invariant == Spec => []IInv
<1>1. Init => IInv
  BY InitIInv
<1>2. IInv /\ [Next]_vars => IInv'
  BY NextIInv
<1>3. QED
  BY <1>1, <1>2, PTL DEF Spec

(* The types, and outside the lock of cache.py no more than MaxEntries     *)
(* entries, whatever the threads, the keys and the lifetime.               *)
THEOREM TypeCorrect == Spec => []TypeOK
<1>1. IInv => TypeOK
  BY DEF IInv, Typed
<1>2. QED
  BY <1>1, Invariant, PTL

(* The dictionary is in the order in which gets and sets used its keys, so *)
(* what popitem(last=False) throws out is the least recently used.         *)
THEOREM LeastRecentAlwaysFirst == Spec => []LeastRecentFirst
<1>1. IInv => LeastRecentFirst
  <2> SUFFICES ASSUME IInv PROVE LeastRecentFirst
    OBVIOUS
  <2>1. entries \in Seq(Entries) /\ recency \in Seq(Keys)
    BY DEF IInv, Typed
  <2>2. PICK w : Picks(w, KeysOf(entries), recency)
    BY DEF IInv, UsesFine, Ordered
  <2>3. Len(KeysOf(entries)) = Len(entries)
    BY <2>1, KeysAre
  <2>4. DOMAIN entries = 1 .. Len(entries) /\ DOMAIN recency = 1 .. Len(recency)
    BY <2>1
  <2>5. w \in [1 .. Len(entries) -> 1 .. Len(recency)]
    BY <2>2, <2>3 DEF Picks
  <2>6. \A i, j \in 1 .. Len(entries) :
          recency[w[i]] = entries[i].key /\ (i < j => w[i] < w[j])
    BY <2>2, <2>3 DEF Picks, KeysOf
  <2>7. w \in [DOMAIN entries -> DOMAIN recency]
    BY <2>4, <2>5
  <2>8. \A i, j \in DOMAIN entries :
          recency[w[i]] = entries[i].key /\ (i < j => w[i] < w[j])
    BY <2>4, <2>6
  <2>9. QED
    BY <2>7, <2>8 DEF LeastRecentFirst
<1>2. QED
  BY <1>1, Invariant, PTL

-----------------------------------------------------------------------------
LEMMA HeldIs ==
  ASSUME NEW s \in Seq(Entries), NEW k
  PROVE  k \in Held(s) <=> \E i \in 1 .. Len(s) : s[i].key = k
BY DEF Held, Range

(* A hit is less than TTL old by the clock that its request had read,      *)
(* whatever waited for the lock with an older reading.                     *)
THEOREM HitsAlwaysFresh == Spec => HitsAreFresh
<1>1. ASSUME IInv, [Next]_vars, NEW t \in Threads, pc[t] = "get", pc'[t] = "idle"
      PROVE  \E e \in Range(entries') : e.key = key[t] /\ clock[t] - e.stored < TTL
  <2>0. /\ pc \in [Threads -> {"idle", "get", "compute", "set"}]
        /\ entries \in Seq(Entries) /\ clock[t] \in 0 .. MaxTime
    BY <1>1 DEF IInv, Typed, TypeOK
  <2>1. Get(t)
    <3>1. ASSUME NEW u \in Threads,
                 \/ \E k \in Keys : Arrive(u, k)
                 \/ Compute(u) \/ Fail(u) \/ Set(u)
          PROVE  FALSE
      BY <1>1, <2>0, <3>1 DEF Arrive, Compute, Fail, Set, Done
    <3>2. ASSUME NEW u \in Threads, Get(u) PROVE u = t
      BY <1>1, <2>0, <3>2 DEF Get, Done
    <3>3. ~ Tick /\ ~ UNCHANGED vars
      BY <1>1 DEF Tick, vars
    <3>4. QED
      BY <1>1, <3>1, <3>2, <3>3 DEF Next
  <2> DEFINE live == EvictExpired(entries, clock[t])
  <2>2. PICK i \in Holding(live, key[t]) :
          entries' = MoveToEnd(live, key[t]) /\ Used(key[t])
    <3>1. pc' # [pc EXCEPT ![t] = "compute"]
      BY <1>1, <2>0
    <3>2. QED
      BY <2>1, <3>1 DEF Get
  <2>3. PICK y : /\ y \in Seq(Entries) /\ live \in Seq(Entries)
                 /\ i \in 1 .. Len(live) /\ live[i].key = key[t]
                 /\ entries' = Append(y, live[i]) /\ entries' \in Seq(Entries)
    BY <1>1, <2>2, HitStep
  <2>4. PICK g : /\ Picks(g, live, entries)
                 /\ \A j \in 1 .. Len(entries) :
                      entries[j].expires > clock[t] <=> \E p \in 1 .. Len(live) : g[p] = j
    <3>1. clock[t] \in Int
      BY <2>0
    <3>2. QED
      BY <2>0, <3>1, LiveIs
  <2> HIDE DEF live
  <2>5. live[i].expires > clock[t] /\ live[i].expires <= live[i].stored + TTL
    <3>1. g[i] \in 1 .. Len(entries) /\ live[i] = entries[g[i]]
      BY <2>3, <2>4 DEF Picks
    <3>2. entries[g[i]].expires > clock[t]
      BY <2>3, <2>4, <3>1
    <3>3. QED
      BY <1>1, <3>1, <3>2 DEF IInv, LifetimesFine
  <2>6. live[i] \in Entries
    BY <2>3
  <2>7. clock[t] - live[i].stored < TTL
    BY <2>0, <2>5, <2>6, TTLAssumption DEF Entries
  <2>8. live[i] \in Range(entries')
    <3>1. Len(y) + 1 \in 1 .. Len(entries') /\ entries'[Len(y) + 1] = live[i]
      BY <2>3, <2>6
    <3>2. DOMAIN entries' = 1 .. Len(entries')
      BY <2>3
    <3>3. QED
      BY <3>1, <3>2 DEF Range
  <2>9. QED
    BY <2>3, <2>7, <2>8
<1>2. IInv /\ [Next]_vars =>
        [\A t \in Threads : pc[t] = "get" /\ pc'[t] = "idle" =>
           \E e \in Range(entries') : e.key = key[t] /\ clock[t] - e.stored < TTL]_vars
  BY <1>1
<1>3. QED
  BY <1>2, Invariant, PTL DEF Spec, HitsAreFresh

-----------------------------------------------------------------------------
LEMMA Expiries ==
  ASSUME NEW s \in Seq(Entries)
  PROVE  \A i \in 1 .. Len(s) : s[i] \in Entries /\ s[i].expires \in Int
<1>1. \A i \in 1 .. Len(s) : s[i] \in Entries
  OBVIOUS
<1>2. \A e \in Entries : e.expires \in Int
  BY DEF Entries
<1>3. QED
  BY <1>1, <1>2

(* What is held of s after all before m is dropped.                        *)
LEMMA NewestHeld ==
  ASSUME NEW s \in Seq(Entries), NEW m \in 1 .. Len(s)
  PROVE  /\ Len(SubSeq(s, m, Len(s))) = Len(s) - m + 1
         /\ \A k : k \in Held(SubSeq(s, m, Len(s))) <=> \E p \in m .. Len(s) : s[p].key = k
<1> DEFINE y == SubSeq(s, m, Len(s))
<1>1. /\ y \in Seq(Entries) /\ Len(y) = Len(s) - m + 1 /\ Len(s) \in Nat /\ m \in Nat
      /\ \A a \in 1 .. Len(y) : y[a] = s[a + m - 1]
  OBVIOUS
<1> HIDE DEF y
<1>2. ASSUME NEW k, k \in Held(y) PROVE \E p \in m .. Len(s) : s[p].key = k
  <2>1. PICK a \in 1 .. Len(y) : y[a].key = k
    BY <1>1, <1>2, HeldIs
  <2>2. a + m - 1 \in m .. Len(s)
    BY <1>1
  <2>3. QED
    BY <1>1, <2>1, <2>2
<1>3. ASSUME NEW k, NEW p \in m .. Len(s), s[p].key = k PROVE k \in Held(y)
  <2>1. p - m + 1 \in 1 .. Len(y) /\ (p - m + 1) + m - 1 = p
    BY <1>1
  <2>2. y[p - m + 1].key = k
    BY <1>1, <1>3, <2>1
  <2>3. QED
    BY <1>1, <2>1, <2>2, HeldIs
<1>4. QED
  BY <1>1, <1>2, <1>3 DEF y

(* Who may leave at a set: the dead, and else only the oldest.             *)
LEMMA SetDropsOldest ==
  ASSUME IInv, NEW t \in Threads, Set(t)
  PROVE  /\ key[t] \in Held(entries')
         /\ \A i \in 1 .. Len(entries) : entries[i].key \notin Held(entries') =>
              \/ entries[i].expires <= now
              \/ /\ Len(entries') = MaxEntries
                 /\ \A j \in 1 .. i : entries[j].key \notin Held(entries')
<1>1. /\ entries \in Seq(Entries) /\ recency \in Seq(Keys) /\ clock[t] \in Int
      /\ clock[t] <= now /\ now \in Int /\ Len(entries) <= MaxEntries /\ Len(entries) \in Nat
      /\ Distinct(recency) /\ Ordered(entries, recency)
  BY DEF IInv, Typed, TypeOK, ThreadsFine, UsesFine
<1>2. PICK y, z, m :
        /\ y = Without(EvictExpired(entries, clock[t]), key[t]) /\ y \in Seq(Entries)
        /\ \A p \in 1 .. Len(y) : y[p].key # key[t]
        /\ z = Append(y, Entry(t)) /\ z \in Seq(Entries) /\ Len(z) = Len(y) + 1
        /\ m \in 1 .. Len(z) /\ entries' = SubSeq(z, m, Len(z))
        /\ m = IF Len(z) > MaxEntries THEN Len(z) - MaxEntries + 1 ELSE 1
        /\ entries' \in Seq(Entries)
  BY SetStep
<1>3. PICK g : /\ Picks(g, y, entries)
               /\ \A i \in 1 .. Len(entries) :
                    entries[i].expires > clock[t] /\ entries[i].key # key[t]
                      <=> \E p \in 1 .. Len(y) : g[p] = i
  <2>1. y = Without(EvictExpired(entries, clock[t]), key[t])
    BY <1>2
  <2>2. entries \in Seq(Entries) /\ clock[t] \in Int
    BY <1>1
  <2>3. QED
    BY <2>1, <2>2, RestIs, SMTT(30)
<1>4. Len(y) \in Nat /\ Len(z) \in Nat /\ Len(z) = Len(y) + 1 /\ m \in 1 .. Len(z)
  BY <1>2
(* Where a key that stays comes from.                                      *)
<1>5. /\ Len(entries') = Len(z) - m + 1
      /\ \A k : k \in Held(entries') <=> \E p \in m .. Len(z) : z[p].key = k
  <2>1. z \in Seq(Entries) /\ m \in 1 .. Len(z) /\ entries' = SubSeq(z, m, Len(z))
    BY <1>2
  <2>2. QED
    BY <2>1, NewestHeld
<1>6. (\A p \in 1 .. Len(y) : z[p] = y[p]) /\ z[Len(z)] = Entry(t) /\ Entry(t).key = key[t]
  <2>1. z[Len(y) + 1] = Entry(t) /\ \A p \in 1 .. Len(y) : z[p] = y[p]
    BY <1>2
  <2>2. QED
    BY <1>4, <2>1 DEF Entry
<1>7. \A k : k \in Held(entries') <=> \E p \in m .. Len(z) : z[p].key = k
  BY <1>5
<1>8. key[t] \in Held(entries')
  <2>1. Len(z) \in m .. Len(z)
    BY <1>4
  <2>2. QED
    BY <1>6, <1>7, <2>1
<1>9. \A p \in 1 .. Len(y) : g[p] \in 1 .. Len(entries) /\ y[p] = entries[g[p]]
  BY <1>3 DEF Picks
<1>10. ASSUME NEW i \in 1 .. Len(entries), entries[i].key \notin Held(entries'),
              entries[i].expires > now
       PROVE  /\ Len(entries') = MaxEntries
              /\ \A j \in 1 .. i : entries[j].key \notin Held(entries')
  <2>1. entries[i].key # key[t]
    BY <1>8, <1>10
  <2>2. entries[i].expires > clock[t]
    <3>1. entries[i].expires \in Int
      BY <1>1, Expiries
    <3>2. QED
      BY <1>1, <1>10, <3>1
  <2>3. PICK p \in 1 .. Len(y) : g[p] = i
    BY <1>3, <2>1, <2>2
  <2>4. z[p].key = entries[i].key
    BY <1>6, <1>9, <2>3
  <2>5. p < m
    <3>1. p \notin m .. Len(z)
      BY <1>7, <1>10, <2>4
    <3>2. QED
      BY <1>4, <3>1
  <2>6. Len(z) > MaxEntries /\ m = Len(z) - MaxEntries + 1
    BY <1>2, <2>5
  <2>7. Len(entries') = MaxEntries
    BY <1>4, <1>5, <2>6, EntriesAssumption
  <2>8. Len(y) = Len(entries) /\ \A j \in 1 .. Len(entries) : \E a \in 1 .. Len(y) : g[a] = j
    <3>1. Len(y) <= Len(entries)
      BY <1>1, <1>2, <1>3, PicksFewer
    <3>2. Len(y) >= Len(entries)
      BY <1>1, <1>4, <2>6, EntriesAssumption
    <3>3. Picks(g, y, entries)
      BY <1>3
    <3>4. \A j \in 1 .. Len(entries) :
            (\A a \in 1 .. Len(y) : g[a] # j) => Len(y) < Len(entries)
      BY <1>1, <1>2, <3>3, PicksFewer
    <3>5. Len(y) = Len(entries) /\ ~ (Len(y) < Len(entries))
      BY <1>1, <1>4, <3>1, <3>2
    <3>6. QED
      BY <3>4, <3>5
  <2>9. ASSUME NEW j \in 1 .. i, entries[j].key \in Held(entries') PROVE FALSE
    <3>1. j \in 1 .. Len(entries)
      BY <1>1
    <3>2. PICK a \in 1 .. Len(y) : g[a] = j
      BY <2>8, <3>1
    <3>3. PICK b \in m .. Len(z) : z[b].key = entries[j].key
      BY <1>7, <2>9
    <3>4. entries[j].key # key[t]
      BY <1>2, <1>9, <3>2
    <3>5. b \in 1 .. Len(y)
      <4>1. b # Len(z)
        BY <1>6, <3>3, <3>4
      <4>2. QED
        BY <1>4, <4>1
    <3>6. g[b] \in 1 .. Len(entries) /\ entries[g[b]].key = entries[j].key
      BY <1>6, <1>9, <3>3, <3>5
    <3>7. g[b] = j
      BY <1>1, <3>1, <3>6, KeysDiffer
    <3>8. p < b
      BY <1>4, <2>5
    <3>9. g[p] < g[b]
      BY <1>3, <3>5, <3>8 DEF Picks
    <3>10. QED
      BY <1>1, <2>3, <3>7, <3>9
  <2>10. QED
    BY <2>7, <2>9
<1>11. \A i \in 1 .. Len(entries) : entries[i].expires \in Int
  BY <1>1, Expiries
<1>12. QED
  BY <1>1, <1>8, <1>10, <1>11

(* A get drops what is dead by a clock that is not ahead, and no more.     *)
LEMMA GetDropsDead ==
  ASSUME IInv, NEW t \in Threads, Get(t)
  PROVE  \A i \in 1 .. Len(entries) :
           entries[i].key \notin Held(entries') => entries[i].expires <= now
<1>1. /\ entries \in Seq(Entries) /\ clock[t] \in Int /\ clock[t] <= now /\ now \in Int
      /\ pc[t] = "get"
  BY DEF IInv, Typed, TypeOK, ThreadsFine, Get
<1>2. \A i \in 1 .. Len(entries) : entries[i].expires \in Int
  BY <1>1, Expiries
<1> DEFINE live == EvictExpired(entries, clock[t])
<1>3. PICK g : /\ Picks(g, live, entries)
               /\ \A j \in 1 .. Len(entries) :
                    entries[j].expires > clock[t] <=> \E p \in 1 .. Len(live) : g[p] = j
  BY <1>1, LiveIs
<1>4. live \in Seq(Entries)
  BY <1>1, LiveIs
(* It suffices that what is live is still held.                            *)
<1>5. ASSUME entries' \in Seq(Entries), \A p \in 1 .. Len(live) : live[p].key \in Held(entries'),
             NEW i \in 1 .. Len(entries), entries[i].key \notin Held(entries')
      PROVE  entries[i].expires <= now
  <2> HIDE DEF live
  <2>1. ~ (entries[i].expires > clock[t])
    <3>1. SUFFICES ASSUME entries[i].expires > clock[t] PROVE FALSE
      OBVIOUS
    <3>2. PICK p \in 1 .. Len(live) : g[p] = i
      BY <1>3, <3>1
    <3>3. live[p] = entries[i]
      BY <1>3, <3>2 DEF Picks
    <3>4. QED
      BY <1>5, <3>2, <3>3
  <2>2. entries[i].expires \in Int
    BY <1>2
  <2>3. QED
    BY <1>1, <2>1, <2>2
<1>6. CASE entries' = live
  <2>1. \A p \in 1 .. Len(live) : live[p].key \in Held(entries')
    <3> HIDE DEF live
    <3>1. QED
      BY <1>4, <1>6, HeldIs
  <2>2. entries' \in Seq(Entries)
    BY <1>4, <1>6
  <2>3. QED
    BY <1>5, <2>1, <2>2
<1>7. ASSUME NEW i \in Holding(live, key[t]),
             entries' = MoveToEnd(live, key[t]), Used(key[t])
      PROVE  /\ entries' \in Seq(Entries)
             /\ \A p \in 1 .. Len(live) : live[p].key \in Held(entries')
  <2>1. PICK y : /\ y = Without(live, key[t]) /\ y \in Seq(Entries)
                 /\ i \in 1 .. Len(live) /\ live[i].key = key[t]
                 /\ entries' = Append(y, live[i]) /\ entries' \in Seq(Entries)
    BY <1>1, <1>7, HitStep
  <2> HIDE DEF live
  <2>2. PICK h : /\ Picks(h, y, live)
                 /\ \A a \in 1 .. Len(live) :
                      live[a].key # key[t] <=> \E p \in 1 .. Len(y) : h[p] = a
    BY <1>4, <2>1, OthersIs, SMTT(60)
  <2>3. live[i] \in Entries
    BY <1>4, <2>1
  <2>4. /\ Len(entries') = Len(y) + 1 /\ Len(y) \in Nat
        /\ entries'[Len(y) + 1] = live[i]
        /\ \A p \in 1 .. Len(y) : entries'[p] = y[p]
    BY <2>1, <2>3, Appended
  <2>5. ASSUME NEW a \in 1 .. Len(live) PROVE \E p \in 1 .. Len(entries') : entries'[p].key = live[a].key
    <3>1. CASE live[a].key = key[t]
      <4>1. Len(y) + 1 \in 1 .. Len(entries')
        BY <2>4
      <4>2. QED
        BY <2>1, <2>4, <3>1, <4>1
    <3>2. CASE live[a].key # key[t]
      <4>1. PICK p \in 1 .. Len(y) : h[p] = a
        BY <2>2, <3>2
      <4>2. y[p] = live[a]
        BY <2>2, <4>1 DEF Picks
      <4>3. p \in 1 .. Len(entries')
        BY <2>4
      <4>4. QED
        BY <2>4, <4>2, <4>3
    <3>3. QED
      BY <3>1, <3>2
  <2>6. \A a \in 1 .. Len(live) : live[a].key \in Held(entries')
    BY <2>1, <2>5, HeldIs
  <2>7. QED
    BY <2>1, <2>6
<1>8. CASE \E i \in Holding(live, key[t]) : entries' = MoveToEnd(live, key[t]) /\ Used(key[t])
  BY <1>5, <1>7, <1>8
<1>9. QED
  BY <1>6, <1>8 DEF Get

(* No thread throws out what is still alive by the present time, however   *)
(* old its own reading of it, except to make room for more recent entries; *)
(* and what a set puts in stays in.                                        *)
THEOREM OnlyDeadOrOldestEverLeave == Spec => OnlyDeadOrOldestLeave
<1> DEFINE Leaving ==
             \A i \in DOMAIN entries : entries[i].key \notin Held(entries') =>
               \/ entries[i].expires <= now
               \/ /\ Len(entries') = MaxEntries
                  /\ \A j \in 1 .. i : entries[j].key \notin Held(entries')
           Entering ==
             \A t \in Threads : pc[t] = "set" /\ pc'[t] = "idle" => key[t] \in Held(entries')
<1>1. ASSUME IInv, [Next]_vars PROVE Leaving /\ Entering
  <2>0. /\ pc \in [Threads -> {"idle", "get", "compute", "set"}]
        /\ entries \in Seq(Entries) /\ DOMAIN entries = 1 .. Len(entries)
    BY <1>1 DEF IInv, Typed, TypeOK
  <2>1. ASSUME UNCHANGED entries PROVE Leaving
    BY <2>0, <2>1, HeldIs
  <2>2. ASSUME NEW t \in Threads, Get(t) PROVE Leaving /\ Entering
    <3>1. Leaving
      BY <1>1, <2>0, <2>2, GetDropsDead
    <3>2. Entering
      BY <2>0, <2>2 DEF Get, Done
    <3>3. QED
      BY <3>1, <3>2
  <2>3. ASSUME NEW t \in Threads, Set(t) PROVE Leaving /\ Entering
    <3>1. Leaving
      BY <1>1, <2>0, <2>3, SetDropsOldest
    <3>2. \A u \in Threads : pc[u] = "set" /\ pc'[u] = "idle" => u = t
      BY <2>0, <2>3 DEF Set, Done
    <3>3. QED
      BY <1>1, <2>3, <3>1, <3>2, SetDropsOldest
  <2>4. ASSUME NEW t \in Threads,
               \/ \E k \in Keys : Arrive(t, k)
               \/ Compute(t) \/ Fail(t)
        PROVE  Leaving /\ Entering
    <3>1. UNCHANGED entries /\ Entering
      BY <2>0, <2>4 DEF Arrive, Compute, Fail, Done
    <3>2. QED
      BY <2>1, <3>1
  <2>5. CASE Tick \/ UNCHANGED vars
    <3>1. UNCHANGED entries /\ UNCHANGED pc
      BY <2>5 DEF Tick, vars
    <3>2. QED
      BY <2>1, <3>1
  <2>6. QED
    BY <1>1, <2>2, <2>3, <2>4, <2>5 DEF Next
<1>2. IInv /\ [Next]_vars => [Leaving /\ Entering]_vars
  BY <1>1
<1>3. QED
  BY <1>2, Invariant, PTL DEF Spec, OnlyDeadOrOldestLeave
=============================================================================
