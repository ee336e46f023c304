-------------------------- MODULE SelectionProofs --------------------------
(***************************************************************************)
(* What Filter returns, for every sequence and every set of its positions. *)
(***************************************************************************)
EXTENDS Selection, FiniteSetTheorems, TLAPS

\* Position counts through K in increasing order.
LEMMA Positions ==
  ASSUME NEW S, NEW s \in Seq(S), NEW K \in SUBSET (DOMAIN s)
  PROVE  /\ \A j \in 1..Cardinality(K) : Position(K, j) \in K
         /\ \A k \in K : \E j \in 1..Cardinality(K) : Position(K, j) = k
         /\ \A i, j \in 1..Cardinality(K) : i < j => Position(K, i) < Position(K, j)
<1> DEFINE c == Cardinality(K)
           Below(k) == {i \in K : i <= k}
           r == [k \in K |-> Cardinality(Below(k))]
           f == [j \in 1..c |-> CHOOSE k \in K : Cardinality(Below(k)) = j]
<1>1. /\ DOMAIN s = 1..Len(s) /\ Len(s) \in Nat
      /\ IsFiniteSet(K) /\ c \in Nat
  <2>1. DOMAIN s = 1..Len(s) /\ Len(s) \in Nat
    OBVIOUS
  <2>2. IsFiniteSet(1..Len(s))
    BY <2>1, FS_Interval
  <2>3. IsFiniteSet(K)
    BY <2>1, <2>2, FS_Subset
  <2> QED BY <2>1, <2>3, FS_CardinalityType
<1>2. \A k \in K : IsFiniteSet(Below(k)) /\ r[k] \in 1..c
  <2> SUFFICES ASSUME NEW k \in K PROVE IsFiniteSet(Below(k)) /\ r[k] \in 1..c
    OBVIOUS
  <2>1. Below(k) \in SUBSET K /\ k \in Below(k)
    BY <1>1
  <2> HIDE DEF Below
  <2>2. IsFiniteSet(Below(k)) /\ Cardinality(Below(k)) <= c
    BY <1>1, <2>1, FS_Subset
  <2>3. Cardinality(Below(k)) \in Nat /\ Cardinality(Below(k)) # 0
    BY <2>1, <2>2, FS_CardinalityType, FS_EmptySet
  <2> QED BY <1>1, <2>2, <2>3
<1>3. \A k, l \in K : k < l => r[k] < r[l]
  <2> SUFFICES ASSUME NEW k \in K, NEW l \in K, k < l PROVE r[k] < r[l]
    OBVIOUS
  <2>1. Below(k) \in SUBSET Below(l) /\ l \in Below(l) \ Below(k)
    BY <1>1
  <2> HIDE DEF Below
  <2>2. /\ Cardinality(Below(k)) <= Cardinality(Below(l))
        /\ Cardinality(Below(k)) # Cardinality(Below(l))
    BY <1>2, <2>1, FS_Subset
  <2> QED BY <1>1, <1>2, <2>2
<1>4. \A j \in 1..c : \E k \in K : r[k] = j
  <2>1. r \in [K -> 1..c]
    BY <1>2
  <2> HIDE DEF r, c
  <2>2. \A k, l \in K : r[k] = r[l] => k = l
    <3> SUFFICES ASSUME NEW k \in K, NEW l \in K, r[k] = r[l] PROVE k = l
      OBVIOUS
    <3>1. k \in Nat /\ l \in Nat
      BY <1>1
    <3>2. r[k] \in Nat /\ r[l] \in Nat
      BY <1>1, <2>1
    <3>3. ~(k < l) /\ ~(l < k)
      BY <1>3, <3>2
    <3> QED BY <3>1, <3>3
  <2>3. r \in Injection(K, 1..c)
    BY <2>1, <2>2 DEF Injection, IsInjective
  <2>4. IsFiniteSet(1..c) /\ Cardinality(1..c) = c
    BY <1>1, FS_Interval DEF c
  <2>5. r \in Surjection(K, 1..c)
    BY <2>3, <2>4, FS_Injection DEF c
  <2> QED BY <2>5 DEF Surjection
<1> HIDE DEF Below
<1>5. \A j \in 1..c : f[j] \in K /\ r[f[j]] = j
  BY <1>4
<1>6. f \in [1..c -> K]
  BY <1>5
<1>7. \A k \in K : \E j \in 1..c : f[j] = k
  <2> SUFFICES ASSUME NEW k \in K PROVE f[r[k]] = k
    BY <1>2
  <2> QED BY <1>1, <1>2, <1>3, <1>5
<1>8. \A i, j \in 1..c : i < j => f[i] < f[j]
  <2> HIDE DEF r, f, c
  <2> SUFFICES ASSUME NEW i \in 1..c, NEW j \in 1..c, i < j PROVE f[i] < f[j]
    OBVIOUS
  <2>1. f[i] \in Nat /\ f[j] \in Nat /\ r[f[i]] < r[f[j]]
    BY <1>1, <1>5
  <2>2. f[j] < f[i] => r[f[j]] < r[f[i]]
    BY <1>3, <1>5
  <2>3. f[i] # f[j] /\ ~(f[j] < f[i])
    BY <1>1, <1>5, <2>1, <2>2
  <2> QED BY <2>1, <2>3
<1>9. \A j \in 1..c : f[j] = Position(K, j)
  BY DEF Position, Below
<1> HIDE DEF c, f
<1>10. \A j \in 1..c : Position(K, j) \in K
  BY <1>5, <1>9
<1>11. \A k \in K : \E j \in 1..c : Position(K, j) = k
  BY <1>7, <1>9
<1>12. \A i, j \in 1..c : i < j => Position(K, i) < Position(K, j)
  BY <1>8, <1>9
<1> QED
  BY <1>10, <1>11, <1>12 DEF c

\* So Filter(s, K) lists the elements of s at the positions K, each position once
\* and in increasing order.
LEMMA FilterSelects ==
  ASSUME NEW S, NEW s \in Seq(S), NEW K \in SUBSET (DOMAIN s)
  PROVE  \E f \in [1..Cardinality(K) -> K] :
           /\ \A k \in K : \E j \in 1..Cardinality(K) : f[j] = k
           /\ \A i, j \in 1..Cardinality(K) : i < j => f[i] < f[j]
           /\ Filter(s, K) = [j \in 1..Cardinality(K) |-> s[f[j]]]
<1> DEFINE f == [j \in 1..Cardinality(K) |-> Position(K, j)]
<1>1. f \in [1..Cardinality(K) -> K]
  BY Positions
<1>2. /\ \A k \in K : \E j \in 1..Cardinality(K) : f[j] = k
      /\ \A i, j \in 1..Cardinality(K) : i < j => f[i] < f[j]
  BY Positions
<1>3. Filter(s, K) = [j \in 1..Cardinality(K) |-> s[f[j]]]
  BY DEF Filter
<1> QED
  BY <1>1, <1>2, <1>3

\* ... so it is a sequence over the same set, with the same elements.
LEMMA FilterType ==
  ASSUME NEW S, NEW s \in Seq(S), NEW K \in SUBSET (DOMAIN s)
  PROVE  /\ Filter(s, K) \in Seq(S)
         /\ \A j \in DOMAIN Filter(s, K) : \E k \in K : Filter(s, K)[j] = s[k]
         /\ \A k \in K : \E j \in DOMAIN Filter(s, K) : Filter(s, K)[j] = s[k]
         /\ (\A j, k \in DOMAIN s : s[j] = s[k] => j = k) =>
              \A j, k \in DOMAIN Filter(s, K) :
                 Filter(s, K)[j] = Filter(s, K)[k] => j = k
<1>1. Cardinality(K) \in Nat
  <2>1. DOMAIN s = 1..Len(s) /\ Len(s) \in Nat
    OBVIOUS
  <2>2. IsFiniteSet(1..Len(s))
    BY <2>1, FS_Interval
  <2> QED BY <2>1, <2>2, FS_Subset, FS_CardinalityType
<1>2. PICK f \in [1..Cardinality(K) -> K] :
        /\ \A k \in K : \E j \in 1..Cardinality(K) : f[j] = k
        /\ \A i, j \in 1..Cardinality(K) : i < j => f[i] < f[j]
        /\ Filter(s, K) = [j \in 1..Cardinality(K) |-> s[f[j]]]
  BY FilterSelects
<1>3. \A i, j \in 1..Cardinality(K) : f[i] = f[j] => i = j
  BY <1>1, <1>2
<1>4. \A k \in K : k \in DOMAIN s /\ s[k] \in S
  OBVIOUS
<1>5. Filter(s, K) \in Seq(S)
  BY <1>1, <1>2, <1>4
<1>6. DOMAIN Filter(s, K) = 1..Cardinality(K)
  BY <1>2
<1>7. \A j \in 1..Cardinality(K) : f[j] \in K /\ Filter(s, K)[j] = s[f[j]]
  BY <1>2
<1> QED BY <1>2, <1>3, <1>4, <1>5, <1>6, <1>7

\* It is as long as the set is large, so no longer than the sequence, and empty if
\* and only if the set is.
LEMMA FilterLength ==
  ASSUME NEW S, NEW s \in Seq(S), NEW K \in SUBSET (DOMAIN s)
  PROVE  /\ Len(Filter(s, K)) = Cardinality(K)
         /\ Len(Filter(s, K)) \in Nat /\ Len(Filter(s, K)) <= Len(s)
         /\ Filter(s, K) = <<>> <=> K = {}
<1>1. DOMAIN s = 1..Len(s) /\ Len(s) \in Nat
  OBVIOUS
<1>2. ASSUME NEW n \in Nat
      PROVE  IsFiniteSet(1..n) /\ Cardinality(1..n) = n
  BY FS_Interval
<1>3. IsFiniteSet(K) /\ Cardinality(K) <= Len(s) /\ Cardinality(K) \in Nat
  <2>1. IsFiniteSet(DOMAIN s) /\ Cardinality(DOMAIN s) = Len(s)
    BY <1>1, <1>2
  <2> QED
    BY <1>1, <2>1, FS_Subset, FS_CardinalityType
<1>4. Filter(s, K) \in Seq(S)
  BY FilterType
<1>5. Len(Filter(s, K)) = Cardinality(K)
  <2>1. DOMAIN Filter(s, K) = 1..Cardinality(K)
    BY DEF Filter
  <2> QED
    BY <1>3, <1>4, <2>1
<1>6. Filter(s, K) = <<>> <=> Len(Filter(s, K)) = 0
  <2> DEFINE f == Filter(s, K)
  <2>1. f \in Seq(S)
    BY <1>4
  <2> HIDE DEF f
  <2>2. f = <<>> <=> Len(f) = 0
    BY <2>1
  <2> QED
    BY <2>2 DEF f
<1>7. Cardinality(K) = 0 <=> K = {}
  BY <1>3, FS_EmptySet
<1> QED
  BY <1>3, <1>5, <1>6, <1>7
=============================================================================
