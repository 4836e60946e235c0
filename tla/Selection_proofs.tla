-------------------------- MODULE Selection_proofs --------------------------
(***************************************************************************)
(* What Enumeration and Select yield, for the proofs about the modules     *)
(* that use them.                                                          *)
(***************************************************************************)
EXTENDS Selection, FiniteSetTheorems, FunctionTheorems, TLAPS

(***************************************************************************)
(* How many members of I are at most i, a number that grows with i, counts *)
(* I: it is a bijection between I and 1..Cardinality(I).                   *)
(***************************************************************************)
LEMMA RankIsBijection ==
  ASSUME NEW I \in SUBSET Int, IsFiniteSet(I)
  PROVE  LET r == [i \in I |-> Cardinality({j \in I : j <= i})]
         IN  /\ r \in Bijection(I, 1..Cardinality(I))
             /\ \A i, j \in I : i < j => r[i] < r[j]
<1> DEFINE B(i) == {j \in I : j <= i}
           n == Cardinality(I)
           r == [i \in I |-> Cardinality(B(i))]
<1>n. n \in Nat
  BY FS_CardinalityType
<1>t. \A i \in I : i \in Int
  OBVIOUS
<1>1. ASSUME NEW i \in I PROVE IsFiniteSet(B(i)) /\ Cardinality(B(i)) \in 1..n
  <2>1. B(i) \in SUBSET I
    OBVIOUS
  <2>2. IsFiniteSet(B(i)) /\ Cardinality(B(i)) <= n
    BY <2>1, FS_Subset
  <2>3. Cardinality(B(i)) \in Nat
    BY <2>2, FS_CardinalityType
  <2>4. i \in B(i)
    OBVIOUS
  <2>5. Cardinality(B(i)) # 0
    BY <2>2, <2>4, FS_EmptySet
  <2> HIDE DEF B
  <2> QED
    BY <1>n, <2>2, <2>3, <2>5
<1>2. r \in [I -> 1..n]
  BY <1>1
<1>3. ASSUME NEW i \in I, NEW j \in I, i < j PROVE r[i] < r[j]
  <2>1. B(i) \in SUBSET B(j)
    <3>1. \A k \in I : k <= i => k <= j
      BY <1>3, <1>t
    <3> QED
      BY <3>1
  <2>2. j \in B(j) /\ j \notin B(i)
    BY <1>3
  <2>3. IsFiniteSet(B(j)) /\ Cardinality(B(j)) \in Nat /\ Cardinality(B(i)) \in Nat
    BY <1>1, <1>n
  <2>4. Cardinality(B(i)) <= Cardinality(B(j)) /\ Cardinality(B(i)) # Cardinality(B(j))
    BY <2>1, <2>2, <2>3, FS_Subset
  <2> HIDE DEF B
  <2> QED
    BY <2>3, <2>4
<1>4. \A i, j \in I : r[i] = r[j] => i = j
  <2> SUFFICES ASSUME NEW i \in I, NEW j \in I, i # j PROVE r[i] # r[j]
    OBVIOUS
  <2>1. i < j \/ j < i
    OBVIOUS
  <2>2. r[i] \in Int /\ r[j] \in Int
    BY <1>2, <1>n
  <2> HIDE DEF r
  <2> QED
    BY <1>3, <2>1, <2>2
<1>5. r \in Injection(I, 1..n)
  <2> HIDE DEF r, n
  <2> QED
    BY <1>2, <1>4, Fun_IsInj
<1>6. IsFiniteSet(1..n) /\ Cardinality(1..n) = n
  BY <1>n, FS_Interval
<1>7. r \in Surjection(I, 1..n)
  <2> HIDE DEF r
  <2> QED
    BY <1>5, <1>6, FS_Injection
<1>8. r \in Bijection(I, 1..n)
  BY <1>5, <1>7 DEF Bijection
<1> QED
  BY <1>3, <1>8

(***************************************************************************)
(* The enumeration of a finite set of integers lists each of them once, in *)
(* increasing order.                                                       *)
(***************************************************************************)
LEMMA EnumerationFacts ==
  ASSUME NEW I \in SUBSET Int, IsFiniteSet(I)
  PROVE  /\ Cardinality(I) \in Nat
         /\ Enumeration(I) \in [1..Cardinality(I) -> I]
         /\ Increasing(Enumeration(I))
         /\ \A i \in I : \E k \in 1..Cardinality(I) : Enumeration(I)[k] = i
<1> DEFINE n == Cardinality(I)
           r == [i \in I |-> Cardinality({j \in I : j <= i})]
           p == Inverse(r, I, 1..n)
<1>n. n \in Nat
  BY FS_CardinalityType
<1>t. \A i \in I : i \in Int
  OBVIOUS
<1>1. /\ r \in Bijection(I, 1..n)
      /\ \A i, j \in I : i < j => r[i] < r[j]
  BY RankIsBijection
<1> HIDE DEF r, n
<1>2. r \in [I -> 1..n] /\ r \in Surjection(I, 1..n)
  BY <1>1, Fun_BijectionProperties
<1>3. p \in Bijection(1..n, I)
  BY <1>1, Fun_BijInverse
<1>5. \A k \in 1..n : r[p[k]] = k
  <2>1. \A k \in Range(r) : r[p[k]] = k
    BY <1>2, Fun_InverseProperties
  <2>2. Range(r) = 1..n
    BY <1>2, Fun_SurjectionProperties
  <2> HIDE DEF p
  <2> QED
    BY <2>1, <2>2
<1> HIDE DEF p
<1>4. p \in [1..n -> I]
  BY <1>3, Fun_BijectionProperties
<1>6. Increasing(p)
  <2> SUFFICES ASSUME NEW k \in 1..n, NEW l \in 1..n, k < l PROVE p[k] < p[l]
    BY <1>4 DEF Increasing
  <2>1. p[k] \in I /\ p[l] \in I /\ p[k] \in Int /\ p[l] \in Int
    BY <1>4, <1>t
  <2>2. r[p[k]] = k /\ r[p[l]] = l
    BY <1>5
  <2>3. CASE p[l] < p[k]
    <3>1. l < k
      BY <1>1, <2>1, <2>2, <2>3
    <3> QED
      BY <3>1, <1>n
  <2>4. CASE p[l] = p[k]
    BY <2>2, <2>4
  <2> QED
    BY <1>t, <2>1, <2>3, <2>4
<1>7. /\ Enumeration(I) \in [1..n -> I]
      /\ Increasing(Enumeration(I))
  BY <1>4, <1>6 DEF Enumeration, n
<1> DEFINE e == Enumeration(I)
<1> HIDE DEF e
<1>8. \A k, l \in 1..n : e[k] = e[l] => k = l
  <2> SUFFICES ASSUME NEW k \in 1..n, NEW l \in 1..n, k < l PROVE e[k] # e[l]
    BY <1>n
  <2>1. e[k] < e[l] /\ e[k] \in Int
    BY <1>7 DEF Increasing, e
  <2> QED
    BY <2>1
<1>9. e \in Injection(1..n, I)
  BY <1>7, <1>8, Fun_IsInj DEF e
<1>10. IsFiniteSet(1..n) /\ Cardinality(1..n) = n
  BY <1>n, FS_Interval
<1>11. e \in Surjection(1..n, I)
  BY <1>9, <1>10, FS_Injection DEF n
<1> HIDE DEF n
<1>12. \A i \in I : \E k \in 1..n : e[k] = i
  BY <1>11 DEF Surjection
<1> QED
  BY <1>n, <1>7, <1>12 DEF n, e

(***************************************************************************)
(* A non-empty finite set of integers has a smallest member.               *)
(***************************************************************************)
LEMMA SmallestMember ==
  ASSUME NEW I \in SUBSET Int, IsFiniteSet(I), I # {}
  PROVE  \E i \in I : \A j \in I : i <= j
<1> DEFINE n == Cardinality(I)
           e == Enumeration(I)
<1>1. /\ n \in Nat
      /\ e \in [1..n -> I]
      /\ \A k, l \in 1..n : k < l => e[k] < e[l]
      /\ \A i \in I : \E k \in 1..n : e[k] = i
  BY EnumerationFacts DEF Increasing
<1> HIDE DEF n, e
<1>t. \A i \in I : i \in Int
  OBVIOUS
<1>2. 1 \in 1..n
  <2>1. PICK i \in I : TRUE
    OBVIOUS
  <2>2. PICK k \in 1..n : e[k] = i
    BY <1>1
  <2> QED
    BY <1>1
<1>3. ASSUME NEW j \in I PROVE e[1] <= j
  <2>1. PICK k \in 1..n : e[k] = j
    BY <1>1
  <2>2. k = 1 \/ 1 < k
    OBVIOUS
  <2>3. e[1] \in Int
    BY <1>1, <1>2, <1>t
  <2> QED
    BY <1>1, <1>2, <2>1, <2>2, <2>3
<1> QED
  BY <1>1, <1>2, <1>3

(***************************************************************************)
(* Positions of a sequence: Select is a sequence of elements found there,  *)
(* has one entry for each of them, and lists them in their order.          *)
(***************************************************************************)
LEMMA SelectFacts ==
  ASSUME NEW T, NEW s \in Seq(T), NEW I \in SUBSET (1..Len(s))
  PROVE  /\ Select(s, I) \in Seq(T)
         /\ Len(Select(s, I)) = Cardinality(I)
         /\ \A k \in 1..Len(Select(s, I)) : Select(s, I)[k] = s[Enumeration(I)[k]]
         /\ \A k \in 1..Len(Select(s, I)) : \E i \in I : Select(s, I)[k] = s[i]
         /\ \A i \in I : \E k \in 1..Len(Select(s, I)) : Select(s, I)[k] = s[i]
<1>1. IsFiniteSet(1..Len(s)) /\ Len(s) \in Nat
  BY FS_Interval
<1>2. IsFiniteSet(I) /\ I \in SUBSET Int
  <2>1. IsFiniteSet(I)
    BY <1>1, FS_Subset
  <2>2. I \in SUBSET Int
    BY <1>1
  <2> QED
    BY <2>1, <2>2
<1> DEFINE n == Cardinality(I)
           e == Enumeration(I)
<1>3. /\ n \in Nat
      /\ e \in [1..n -> I]
      /\ \A i \in I : \E k \in 1..n : e[k] = i
  BY <1>2, EnumerationFacts
<1>4. Select(s, I) = [k \in 1..n |-> s[e[k]]]
  BY DEF Select
<1> HIDE DEF n, e
<1>5. \A k \in 1..n : s[e[k]] \in T
  <2>1. \A i \in I : i \in 1..Len(s)
    OBVIOUS
  <2>2. \A i \in 1..Len(s) : s[i] \in T
    OBVIOUS
  <2> QED
    BY <1>3, <2>1, <2>2
<1>6. [k \in 1..n |-> s[e[k]]] \in Seq(T) /\ Len([k \in 1..n |-> s[e[k]]]) = n
  BY <1>3, <1>5
<1>7. /\ \A k \in 1..n : e[k] \in I
      /\ \A i \in I : \E k \in 1..n : s[e[k]] = s[i]
  BY <1>3
<1>8. \A k \in 1..n : [l \in 1..n |-> s[e[l]]][k] = s[e[k]]
  OBVIOUS
<1> DEFINE x == [k \in 1..n |-> s[e[k]]]
<1>9. /\ x \in Seq(T) /\ Len(x) = n
      /\ \A k \in 1..n : x[k] = s[e[k]]
      /\ \A k \in 1..n : \E i \in I : x[k] = s[i]
      /\ \A i \in I : \E k \in 1..n : x[k] = s[i]
  BY <1>6, <1>7, <1>8
<1> HIDE DEF x
<1>10. Select(s, I) = x
  BY <1>4 DEF x
<1>11. /\ Select(s, I) \in Seq(T) /\ Len(Select(s, I)) = n
       /\ \A k \in 1..Len(Select(s, I)) : Select(s, I)[k] = s[e[k]]
  BY <1>9, <1>10
<1>12. /\ \A k \in 1..Len(Select(s, I)) : \E i \in I : Select(s, I)[k] = s[i]
       /\ \A i \in I : \E k \in 1..Len(Select(s, I)) : Select(s, I)[k] = s[i]
  BY <1>9, <1>10
<1> QED
  BY <1>11, <1>12 DEF n, e

(***************************************************************************)
(* A selection repeats no element that the sequence does not repeat at the *)
(* positions of I.                                                         *)
(***************************************************************************)
LEMMA SelectDistinct ==
  ASSUME NEW T, NEW s \in Seq(T), NEW I \in SUBSET (1..Len(s)),
         \A i, j \in I : s[i] = s[j] => i = j
  PROVE  \A k, l \in 1..Len(Select(s, I)) : Select(s, I)[k] = Select(s, I)[l] => k = l
<1> DEFINE n == Cardinality(I)
           e == Enumeration(I)
<1>1. IsFiniteSet(I) /\ I \in SUBSET Int
  <2>1. IsFiniteSet(1..Len(s))
    BY FS_Interval
  <2>2. IsFiniteSet(I)
    BY <2>1, FS_Subset
  <2>3. I \in SUBSET Int
    OBVIOUS
  <2> QED
    BY <2>2, <2>3
<1>2. n \in Nat /\ e \in [1..n -> I] /\ \A k, l \in 1..n : k < l => e[k] < e[l]
  <2>1. n \in Nat /\ e \in [1..n -> I] /\ Increasing(e)
    BY <1>1, EnumerationFacts
  <2> QED
    BY <2>1 DEF Increasing
<1>3. /\ Len(Select(s, I)) = n
      /\ \A k \in 1..Len(Select(s, I)) : Select(s, I)[k] = s[e[k]]
  BY SelectFacts
<1> HIDE DEF n, e
<1>4. \A i \in I : i \in Int
  BY <1>1
<1>5. ASSUME NEW k \in 1..n, NEW l \in 1..n, s[e[k]] = s[e[l]] PROVE k = l
  <2>1. e[k] \in I /\ e[l] \in I
    BY <1>2
  <2>2. e[k] = e[l]
    BY <1>5, <2>1
  <2>3. e[k] \in Int /\ e[l] \in Int
    BY <1>4, <2>1
  <2>4. k < l => e[k] < e[l]
    BY <1>2
  <2>5. l < k => e[l] < e[k]
    BY <1>2
  <2>6. ~(k < l) /\ ~(l < k)
    BY <2>2, <2>3, <2>4, <2>5
  <2> QED
    BY <1>2, <2>6
<1> QED
  BY <1>3, <1>5

(***************************************************************************)
(* ... and a largest one.                                                  *)
(***************************************************************************)
LEMMA LargestMember ==
  ASSUME NEW I \in SUBSET Int, IsFiniteSet(I), I # {}
  PROVE  \E i \in I : \A j \in I : i >= j
<1> DEFINE n == Cardinality(I)
           e == Enumeration(I)
<1>1. /\ n \in Nat
      /\ e \in [1..n -> I]
      /\ \A k, l \in 1..n : k < l => e[k] < e[l]
      /\ \A i \in I : \E k \in 1..n : e[k] = i
  BY EnumerationFacts DEF Increasing
<1> HIDE DEF n, e
<1>t. \A i \in I : i \in Int
  OBVIOUS
<1>2. n \in 1..n
  <2>1. PICK i \in I : TRUE
    OBVIOUS
  <2>2. PICK k \in 1..n : e[k] = i
    BY <1>1
  <2> QED
    BY <1>1
<1>3. ASSUME NEW j \in I PROVE e[n] >= j
  <2>1. PICK k \in 1..n : e[k] = j
    BY <1>1
  <2>2. k = n \/ k < n
    BY <1>1
  <2>3. e[n] \in Int
    BY <1>1, <1>2, <1>t
  <2> QED
    BY <1>1, <1>2, <1>t, <2>1, <2>2, <2>3
<1> QED
  BY <1>1, <1>2, <1>3
=============================================================================
