---------------------------- MODULE SequenceLemmas -------------------------
(***************************************************************************)
(* Facts on sequences that the proofs of several components rest on: what   *)
(* RemoveAt takes out, and what Chosen keeps.                               *)
(***************************************************************************)
EXTENDS Selections, SequencesExt, FiniteSetTheorems, SequenceTheorems, WellFoundedInduction, TLAPS

(* RemoveAt closes the gap: the elements behind i move up by one.           *)
LEMMA RemoveAtProperties ==
  ASSUME NEW S, NEW q \in Seq(S), NEW i \in 1..Len(q)
  PROVE  /\ RemoveAt(q, i) \in Seq(S)
         /\ Len(RemoveAt(q, i)) = Len(q) - 1
         /\ \A k \in 1..Len(q)-1 : RemoveAt(q, i)[k] = IF k < i THEN q[k] ELSE q[k+1]
<1> DEFINE a == SubSeq(q, 1, i-1)
           b == SubSeq(q, i+1, Len(q))
<1>0. Len(q) \in Nat /\ i \in 1..Len(q)
  OBVIOUS
<1>1. a \in Seq(S) /\ Len(a) = i-1 /\ \A k \in 1..i-1 : a[k] = q[k]
  OBVIOUS
<1>2. b \in Seq(S) /\ Len(b) = Len(q)-i /\ \A k \in 1..Len(q)-i : b[k] = q[i+k]
  OBVIOUS
<1>3. RemoveAt(q, i) = a \o b
  BY DEF RemoveAt
<1> HIDE DEF a, b
<1>4. /\ a \o b \in Seq(S)
      /\ Len(a \o b) = Len(a) + Len(b)
      /\ \A k \in 1..Len(a) + Len(b) :
           (a \o b)[k] = IF k <= Len(a) THEN a[k] ELSE b[k - Len(a)]
  <2>1. a \in Seq(S) /\ b \in Seq(S)
    BY <1>1, <1>2
  <2> QED BY <2>1, ConcatProperties
<1>5. \A k \in 1..Len(q)-1 : (a \o b)[k] = IF k < i THEN q[k] ELSE q[k+1]
  <2> SUFFICES ASSUME NEW k \in 1..Len(q)-1
               PROVE  (a \o b)[k] = IF k < i THEN q[k] ELSE q[k+1]
    OBVIOUS
  <2>1. CASE k < i
    BY <2>1, <1>0, <1>1, <1>2, <1>4
  <2>2. CASE k >= i
    <3>1. k - (i-1) \in 1..Len(q)-i /\ i + (k - (i-1)) = k+1
      BY <2>2, <1>0
    <3>2. b[k - (i-1)] = q[k+1]
      BY <3>1, <1>2
    <3>3. k \in 1..Len(a) + Len(b) /\ ~(k <= Len(a)) /\ k - Len(a) = k - (i-1)
      BY <2>2, <1>0, <1>1, <1>2
    <3>4. (a \o b)[k] = b[k - (i-1)]
      BY <3>3, <1>4
    <3> QED BY <3>2, <3>4, <2>2, <1>0
  <2>3. k < i \/ k >= i
    BY <1>0
  <2> QED BY <2>1, <2>2, <2>3
<1> QED BY <1>0, <1>1, <1>2, <1>3, <1>4, <1>5

---------------------------------------------------------------------------
(* Chosen, and the ranks of the elements of a set of positions              *)

(* A non-empty set of naturals has a least element.                         *)
LEMMA LeastElement ==
  ASSUME NEW T, T \subseteq Nat, T # {}
  PROVE  \E x \in T : \A y \in T : x <= y
<1>1. PICK x \in T : \A y \in T : ~(<<y, x>> \in OpToRel(<, Nat))
  BY NatLessThanWellFounded, WFMin
<1>2. \A y \in T : ~(y < x)
  BY <1>1 DEF OpToRel
<1> QED BY <1>2

(* The ranks of the elements of a set of positions are 1, 2, 3, ...         *)
LEMMA RankIsTaken ==
  ASSUME NEW n \in Nat, NEW ks \in SUBSET (1..n), NEW i \in 1..Cardinality(ks)
  PROVE  \E k \in ks : Rank(ks, k) = i
<1> DEFINE Below(m) == {j \in ks : j <= m}
           T == {m \in Nat : Cardinality(Below(m)) >= i}
<1>1. IsFiniteSet(ks) /\ Cardinality(ks) \in Nat
  <2>1. IsFiniteSet(1..n)
    BY FS_Interval
  <2> QED BY <2>1, FS_Subset, FS_CardinalityType
<1>2. \A m \in Nat : IsFiniteSet(Below(m)) /\ Cardinality(Below(m)) \in Nat
  <2> SUFFICES ASSUME NEW m \in Nat PROVE IsFiniteSet(Below(m)) /\ Cardinality(Below(m)) \in Nat
    OBVIOUS
  <2>1. Below(m) \in SUBSET ks
    OBVIOUS
  <2> QED BY <2>1, <1>1, FS_Subset, FS_CardinalityType
<1>0. \A j \in ks : j \in Nat /\ 1 <= j /\ j <= n
  OBVIOUS
<1>3. n \in T
  <2>1. Below(n) = ks
    BY <1>0
  <2> QED BY <2>1, <1>1
<1>4. PICK m \in T : \A y \in T : m <= y
  <2>1. T \subseteq Nat /\ T # {}
    BY <1>3
  <2> HIDE DEF T
  <2> QED BY <2>1, LeastElement
<1>5. m \in Nat /\ Cardinality(Below(m)) >= i
  BY <1>4
<1>6. m # 0
  <2>1. Below(0) = {}
    <3>1. \A j \in ks : ~(j <= 0)
      BY <1>0
    <3> QED BY <3>1
  <2>2. Cardinality(Below(0)) = 0
    BY <2>1, FS_EmptySet
  <2> QED BY <2>2, <1>5
<1>7. m - 1 \in Nat /\ Cardinality(Below(m-1)) < i
  <2>1. m - 1 \in Nat /\ ~(m <= m - 1)
    BY <1>5, <1>6
  <2>2. m - 1 \notin T
    <3> HIDE DEF T
    <3> QED BY <2>1, <1>4
  <2>3. ~(Cardinality(Below(m-1)) >= i)
    BY <2>1, <2>2
  <2>4. Cardinality(Below(m-1)) \in Nat
    BY <2>1, <1>2
  <2> HIDE DEF Below
  <2> QED BY <2>1, <2>3, <2>4
<1>8. m \in ks
  <2> SUFFICES ASSUME m \notin ks PROVE FALSE
    OBVIOUS
  <2>1. \A j \in ks : j <= m <=> j <= m - 1
    <3> SUFFICES ASSUME NEW j \in ks PROVE j <= m <=> j <= m - 1
      OBVIOUS
    <3>1. j \in Nat /\ j # m /\ m \in Nat
      BY <1>0, <1>5
    <3> QED BY <3>1
  <2>2. Below(m) = Below(m-1)
    BY <2>1
  <2> HIDE DEF Below
  <2> QED BY <2>2, <1>5, <1>7, <1>2
<1>9. Below(m) = Below(m-1) \cup {m} /\ m \notin Below(m-1)
  <2>1. \A j \in ks : j <= m <=> j <= m - 1 \/ j = m
    <3> SUFFICES ASSUME NEW j \in ks PROVE j <= m <=> j <= m - 1 \/ j = m
      OBVIOUS
    <3>1. j \in Nat /\ m \in Nat
      BY <1>0, <1>5
    <3> QED BY <3>1
  <2>2. ~(m <= m - 1)
    BY <1>5
  <2> QED BY <2>1, <2>2, <1>8
<1>10. Cardinality(Below(m)) = Cardinality(Below(m-1)) + 1
  <2> HIDE DEF Below
  <2> QED BY <1>9, <1>7, <1>2, FS_AddElement
<1>11. Cardinality(Below(m)) = i
  <2> DEFINE a == Cardinality(Below(m)) b == Cardinality(Below(m-1))
  <2>1. a \in Nat /\ b \in Nat /\ a = b + 1 /\ b < i /\ a >= i
    BY <1>2, <1>5, <1>7, <1>10
  <2> HIDE DEF a, b
  <2>2. a = i
    BY <2>1
  <2> QED BY <2>2 DEF a
<1> QED BY <1>8, <1>11 DEF Rank

(* What is chosen from a sequence is in it, at one of the positions.        *)
LEMMA ChosenProperties ==
  ASSUME NEW A, NEW q \in Seq(A), NEW ks \in SUBSET (DOMAIN q)
  PROVE  /\ Chosen(q, ks) \in Seq(A)
         /\ \A i \in DOMAIN Chosen(q, ks) : \E k \in ks : Chosen(q, ks)[i] = q[k]
<1> DEFINE c == Cardinality(ks)
           at(i) == CHOOSE k \in ks : Rank(ks, k) = i
<1>1. Len(q) \in Nat /\ ks \in SUBSET (1..Len(q))
  OBVIOUS
<1>2. c \in Nat
  <2>1. IsFiniteSet(1..Len(q))
    BY <1>1, FS_Interval
  <2> QED BY <2>1, <1>1, FS_Subset, FS_CardinalityType
<1>3. \A i \in 1..c : at(i) \in ks
  <2> SUFFICES ASSUME NEW i \in 1..c PROVE at(i) \in ks
    OBVIOUS
  <2>1. \E k \in ks : Rank(ks, k) = i
    BY <1>1, RankIsTaken
  <2> QED BY <2>1
<1>4. Chosen(q, ks) = [i \in 1..c |-> q[at(i)]]
  BY Zenon DEF Chosen
<1> HIDE DEF c, at
<1>5. \A i \in 1..c : q[at(i)] \in A
  BY <1>1, <1>3
<1>6. [i \in 1..c |-> q[at(i)]] \in Seq(A)
  BY <1>2, <1>5
<1> QED BY <1>3, <1>4, <1>6

(* Each of the positions is chosen once.                                    *)
LEMMA ChosenOnce ==
  ASSUME NEW A, NEW q \in Seq(A), NEW ks \in SUBSET (DOMAIN q)
  PROVE  /\ Chosen(q, ks) \in Seq(A) /\ Len(Chosen(q, ks)) <= Len(q)
         /\ \E f \in [DOMAIN Chosen(q, ks) -> ks] :
              /\ \A i \in DOMAIN Chosen(q, ks) : Chosen(q, ks)[i] = q[f[i]]
              /\ \A i, j \in DOMAIN Chosen(q, ks) : f[i] = f[j] => i = j
              /\ \A k \in ks : \E i \in DOMAIN Chosen(q, ks) : f[i] = k
<1> DEFINE c == Cardinality(ks)
           at(i) == CHOOSE k \in ks : Rank(ks, k) = i
           f == [i \in 1..c |-> at(i)]
<1>1. Len(q) \in Nat /\ ks \in SUBSET (1..Len(q))
  OBVIOUS
<1>2. /\ IsFiniteSet(ks) /\ c \in Nat /\ c <= Len(q)
      /\ IsFiniteSet(1..c) /\ Cardinality(1..c) = c
  <2>0. \A m \in Nat : IsFiniteSet(1..m) /\ Cardinality(1..m) = m
    <3> SUFFICES ASSUME NEW m \in Nat PROVE IsFiniteSet(1..m) /\ Cardinality(1..m) = m
      OBVIOUS
    <3>1. Cardinality(1..m) = IF 1 > m THEN 0 ELSE m - 1 + 1
      BY FS_Interval
    <3>2. IsFiniteSet(1..m)
      BY FS_Interval
    <3> QED BY <3>1, <3>2
  <2>1. IsFiniteSet(1..Len(q)) /\ Cardinality(1..Len(q)) = Len(q)
    BY <2>0, <1>1
  <2>2. IsFiniteSet(ks) /\ c <= Len(q) /\ c \in Nat
    BY <2>1, <1>1, FS_Subset, FS_CardinalityType
  <2> HIDE DEF c
  <2>3. IsFiniteSet(1..c) /\ Cardinality(1..c) = c
    BY <2>0, <2>2
  <2> QED BY <2>2, <2>3
<1>3. \A i \in 1..c : at(i) \in ks /\ Rank(ks, at(i)) = i
  <2> SUFFICES ASSUME NEW i \in 1..c PROVE at(i) \in ks /\ Rank(ks, at(i)) = i
    OBVIOUS
  <2>1. \E k \in ks : Rank(ks, k) = i
    BY <1>1, RankIsTaken
  <2> QED BY <2>1
<1>4. Chosen(q, ks) = [i \in 1..c |-> q[at(i)]]
  BY Zenon DEF Chosen
<1>5. c = Cardinality(ks)
  OBVIOUS
<1> HIDE DEF c, at
<1>6. f \in [1..c -> ks] /\ \A i, j \in 1..c : f[i] = f[j] => i = j
  BY <1>3
<1>7. f \in Injection(1..c, ks)
  BY <1>6, Zenon DEF Injection, IsInjective
<1>8. f \in Surjection(1..c, ks)
  BY <1>2, <1>5, <1>7, FS_Injection
<1>9. \A k \in ks : \E i \in 1..c : f[i] = k
  BY <1>8 DEF Surjection
<1>10. Chosen(q, ks) = [i \in 1..c |-> q[f[i]]] /\ DOMAIN Chosen(q, ks) = 1..c
  BY <1>4
<1>11. \A i \in 1..c : q[f[i]] \in A
  BY <1>1, <1>6
<1> HIDE DEF f
<1>12. f \in [DOMAIN Chosen(q, ks) -> ks] /\ \A i \in DOMAIN Chosen(q, ks) : Chosen(q, ks)[i] = q[f[i]]
  BY <1>6, <1>10, Zenon
<1>13. Chosen(q, ks) \in Seq(A) /\ Len(Chosen(q, ks)) = c
  BY <1>2, <1>10, <1>11
<1> QED BY <1>2, <1>6, <1>9, <1>10, <1>13, <1>12
=============================================================================
