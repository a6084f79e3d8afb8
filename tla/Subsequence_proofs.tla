-------------------------- MODULE Subsequence_proofs --------------------------
(***************************************************************************)
(* What a filter keeps: the chosen elements, each once and in their order. *)
(* The place of a chosen index in the result is its rank among the chosen; *)
(* ranks grow with the indices, and there are as many as there are places, *)
(* so that every place is taken.                                           *)
(***************************************************************************)
EXTENDS Subsequence, FiniteSetTheorems, FunctionTheorems, SequenceTheorems, TLAPS

(* A set of indices is finite, and its size a number. *)
LEMMA IndicesFinite ==
  ASSUME NEW n \in Nat, NEW I \in SUBSET (1..n)
  PROVE  /\ IsFiniteSet(I) /\ Cardinality(I) \in Nat
         /\ \A i \in I : i \in Nat
<1>1. IsFiniteSet(1..n)
  BY FS_Interval
<1>2. \A i \in 1..n : i \in Nat
  OBVIOUS
<1> QED
  BY <1>1, <1>2, FS_Subset, FS_CardinalityType

LEMMA IndicesCount ==
  ASSUME NEW n \in Nat
  PROVE  Cardinality(1..n) = n
  BY FS_Interval

LEMMA RankGrows ==
  ASSUME NEW n \in Nat, NEW I \in SUBSET (1..n), NEW i \in I, NEW j \in I, i < j
  PROVE  RankIn(I, i) < RankIn(I, j)
<1> DEFINE A == {k \in I : k <= i}
           B == {k \in I : k <= j}
<1>0. \A k \in I : k \in Nat
  BY IndicesFinite
<1>1. A \subseteq B /\ j \in B /\ j \notin A
  <2>1. \A k \in I : k <= i => k <= j
    BY <1>0
  <2>2. j <= j /\ ~(j <= i)
    BY <1>0
  <2> QED
    BY <2>1, <2>2
<1>2. /\ IsFiniteSet(A) /\ Cardinality(A) \in Nat
      /\ IsFiniteSet(B) /\ Cardinality(B) \in Nat
  <2>1. A \in SUBSET (1..n) /\ B \in SUBSET (1..n)
    OBVIOUS
  <2> QED
    BY <2>1, IndicesFinite
<1>3. Cardinality(A) <= Cardinality(B) /\ Cardinality(A) # Cardinality(B)
  <2> HIDE DEF A, B
  <2> QED
    BY <1>1, <1>2, FS_Subset
<1> QED
  BY <1>2, <1>3 DEF RankIn

LEMMA RankInRange ==
  ASSUME NEW n \in Nat, NEW I \in SUBSET (1..n), NEW i \in I
  PROVE  RankIn(I, i) \in 1..Cardinality(I)
<1> DEFINE A == {k \in I : k <= i}
<1>1. A \subseteq I /\ i \in A
  OBVIOUS
<1>2. /\ IsFiniteSet(A) /\ Cardinality(A) \in Nat
      /\ IsFiniteSet(I) /\ Cardinality(I) \in Nat
  <2>1. A \in SUBSET (1..n)
    OBVIOUS
  <2> QED
    BY <2>1, IndicesFinite
<1>3. Cardinality(A) <= Cardinality(I) /\ Cardinality(A) # 0
  <2> HIDE DEF A
  <2> QED
    BY <1>1, <1>2, FS_Subset, FS_EmptySet
<1> QED
  BY <1>2, <1>3 DEF RankIn

LEMMA RankInjective ==
  ASSUME NEW n \in Nat, NEW I \in SUBSET (1..n), NEW i \in I, NEW j \in I,
         RankIn(I, i) = RankIn(I, j)
  PROVE  i = j
<1>1. i \in Nat /\ j \in Nat /\ Cardinality(I) \in Nat
  BY IndicesFinite
<1>2. RankIn(I, i) \in 1..Cardinality(I) /\ RankIn(I, i) = RankIn(I, j)
  BY RankInRange
<1>3. ~(i < j)
  <2> SUFFICES ASSUME i < j PROVE FALSE
    OBVIOUS
  <2>1. RankIn(I, i) < RankIn(I, j)
    BY RankGrows
  <2> QED
    BY <2>1, <1>1, <1>2
<1>4. ~(j < i)
  <2> SUFFICES ASSUME j < i PROVE FALSE
    OBVIOUS
  <2>1. RankIn(I, j) < RankIn(I, i)
    BY RankGrows
  <2> QED
    BY <2>1, <1>1, <1>2
<1> QED
  BY <1>1, <1>3, <1>4

LEMMA RankIsOnto ==
  ASSUME NEW n \in Nat, NEW I \in SUBSET (1..n), NEW m \in 1..Cardinality(I)
  PROVE  \E i \in I : RankIn(I, i) = m
<1> DEFINE N == 1..Cardinality(I)
           rank == [i \in I |-> RankIn(I, i)]
<1>1. rank \in [I -> N]
  BY RankInRange
<1>2. \A i, j \in I : rank[i] = rank[j] => i = j
  BY RankInjective
<1>3. IsFiniteSet(I) /\ Cardinality(I) \in Nat
  BY IndicesFinite
<1>4. IsFiniteSet(N) /\ Cardinality(N) = Cardinality(I)
  BY <1>3, FS_Interval
<1>5. rank \in Injection(I, N)
  <2> HIDE DEF rank, N
  <2> QED
    BY <1>1, <1>2 DEF Injection, IsInjective
<1>6. rank \in Surjection(I, N)
  <2> HIDE DEF rank, N
  <2> QED
    BY <1>4, <1>5, FS_Injection
<1>7. \E i \in I : rank[i] = m
  <2> HIDE DEF rank
  <2> QED
    BY <1>6 DEF Surjection
<1> QED
  BY <1>7

(* Some index is chosen first. *)
LEMMA LeastIndex ==
  ASSUME NEW n \in Nat, NEW I \in SUBSET (1..n), I # {}
  PROVE  \E i \in I : \A j \in I : i <= j
<1>1. Cardinality(I) \in Nat /\ Cardinality(I) # 0
  <2>1. IsFiniteSet(I) /\ Cardinality(I) \in Nat
    BY IndicesFinite
  <2> QED
    BY <2>1, FS_EmptySet
<1>2. PICK i \in I : RankIn(I, i) = 1
  BY <1>1, RankIsOnto
<1>3. ASSUME NEW j \in I, j < i
      PROVE  FALSE
  <2>1. RankIn(I, j) < 1
    BY <1>2, <1>3, RankGrows
  <2>2. RankIn(I, j) \in 1..Cardinality(I)
    BY RankInRange
  <2> QED
    BY <1>1, <2>1, <2>2
<1>4. \A j \in I : j \in Nat
  BY IndicesFinite
<1> QED
  BY <1>2, <1>3, <1>4

(* The result as a reading of the source: f gives the index from which     *)
(* every element comes.                                                    *)
IsReading(f, s, I) ==
    /\ f \in [1..Cardinality(I) -> I]
    /\ \A m \in 1..Cardinality(I) : Subsequence(s, I)[m] = s[f[m]]
    /\ \A m, l \in 1..Cardinality(I) : m < l => f[m] < f[l]
    /\ \A i \in I : \E m \in 1..Cardinality(I) : f[m] = i

THEOREM SubsequenceReads ==
  ASSUME NEW s, NEW n \in Nat, NEW I \in SUBSET (1..n)
  PROVE  /\ Cardinality(I) \in Nat
         /\ DOMAIN Subsequence(s, I) = 1..Cardinality(I)
         /\ \E f : IsReading(f, s, I)
<1> DEFINE N == 1..Cardinality(I)
           f == [m \in N |-> CHOOSE i \in I : RankIn(I, i) = m]
<1>1. Cardinality(I) \in Nat
  BY IndicesFinite
<1>2. ASSUME NEW m \in N
      PROVE  f[m] \in I /\ RankIn(I, f[m]) = m
  BY <1>2, RankIsOnto
<1>3. f \in [N -> I]
  BY <1>2
<1>4. \A m \in N : Subsequence(s, I)[m] = s[f[m]]
  BY DEF Subsequence
<1>5. ASSUME NEW m \in N, NEW l \in N, m < l
      PROVE  f[m] < f[l]
  <2>1. f[m] \in I /\ f[l] \in I /\ RankIn(I, f[m]) = m /\ RankIn(I, f[l]) = l
    BY <1>2
  <2> HIDE DEF f
  <2>2. f[m] \in Nat /\ f[l] \in Nat /\ m \in Nat /\ l \in Nat
    BY <2>1, <1>1, IndicesFinite
  <2>3. f[m] # f[l]
    BY <2>1, <1>5, <2>2
  <2>4. ~(f[l] < f[m])
    <3> SUFFICES ASSUME f[l] < f[m] PROVE FALSE
      OBVIOUS
    <3>1. RankIn(I, f[l]) < RankIn(I, f[m])
      BY <2>1, RankGrows
    <3> QED
      BY <3>1, <2>1, <2>2, <1>5
  <2> QED
    BY <2>2, <2>3, <2>4
<1>6. ASSUME NEW i \in I
      PROVE  \E m \in N : f[m] = i
  <2>1. RankIn(I, i) \in N
    BY RankInRange
  <2>2. f[RankIn(I, i)] \in I /\ RankIn(I, f[RankIn(I, i)]) = RankIn(I, i)
    BY <1>2, <2>1
  <2> HIDE DEF f
  <2>3. f[RankIn(I, i)] = i
    BY <2>2, RankInjective
  <2> QED
    BY <2>1, <2>3
<1> HIDE DEF f
<1>7. DOMAIN Subsequence(s, I) = N
  BY DEF Subsequence
<1>8. IsReading(f, s, I)
  BY <1>3, <1>4, <1>5, <1>6 DEF IsReading
<1> QED
  BY <1>1, <1>7, <1>8

(* A filter of a sequence is a sequence of the same elements, no longer    *)
(* than it was.                                                            *)
THEOREM SubsequenceType ==
  ASSUME NEW T, NEW s \in Seq(T), NEW I \in SUBSET DOMAIN s
  PROVE  /\ Subsequence(s, I) \in Seq(T)
         /\ Len(Subsequence(s, I)) = Cardinality(I)
         /\ Cardinality(I) \in Nat
<1>1. Len(s) \in Nat /\ DOMAIN s = 1..Len(s) /\ \A i \in 1..Len(s) : s[i] \in T
  OBVIOUS
<1>2. I \in SUBSET (1..Len(s))
  BY <1>1
<1>3. PICK f : IsReading(f, s, I)
  BY <1>1, <1>2, SubsequenceReads
<1>4. Cardinality(I) \in Nat /\ DOMAIN Subsequence(s, I) = 1..Cardinality(I)
  BY <1>1, <1>2, SubsequenceReads
<1>5. Subsequence(s, I) = [m \in 1..Cardinality(I) |-> Subsequence(s, I)[m]]
  BY DEF Subsequence
<1>6. \A m \in 1..Cardinality(I) : Subsequence(s, I)[m] \in T
  BY <1>1, <1>2, <1>3 DEF IsReading
<1>7. Subsequence(s, I) \in [1..Cardinality(I) -> T]
  BY <1>5, <1>6
<1> QED
  BY <1>4, <1>7

(* Every element of the result is a chosen one, and every chosen element   *)
(* is in the result.                                                       *)
THEOREM SubsequenceElements ==
  ASSUME NEW T, NEW s \in Seq(T), NEW I \in SUBSET DOMAIN s
  PROVE  /\ \A m \in DOMAIN Subsequence(s, I) : \E i \in I : Subsequence(s, I)[m] = s[i]
         /\ \A i \in I : \E m \in DOMAIN Subsequence(s, I) : Subsequence(s, I)[m] = s[i]
<1>1. I \in SUBSET (1..Len(s)) /\ Len(s) \in Nat
  OBVIOUS
<1>2. PICK f : IsReading(f, s, I)
  BY <1>1, SubsequenceReads
<1>3. DOMAIN Subsequence(s, I) = 1..Cardinality(I)
  BY <1>1, SubsequenceReads
<1> QED
  BY <1>2, <1>3 DEF IsReading

(* How often an element x occurs in the result: as often as among the      *)
(* chosen ones.                                                            *)
Places(s, I, x) == {i \in I : s[i] = x}

THEOREM SubsequenceCounts ==
  ASSUME NEW T, NEW s \in Seq(T), NEW I \in SUBSET DOMAIN s, NEW x
  PROVE  Cardinality(Places(Subsequence(s, I), DOMAIN Subsequence(s, I), x))
           = Cardinality(Places(s, I, x))
<1>1. I \in SUBSET (1..Len(s)) /\ Len(s) \in Nat
  OBVIOUS
<1> DEFINE N == 1..Cardinality(I)
           M == {m \in N : Subsequence(s, I)[m] = x}
           J == {i \in I : s[i] = x}
<1>2. PICK f : IsReading(f, s, I)
  BY <1>1, SubsequenceReads
<1>3. Cardinality(I) \in Nat /\ DOMAIN Subsequence(s, I) = N
  BY <1>1, SubsequenceReads
<1> DEFINE g == [m \in M |-> f[m]]
<1>4. g \in [M -> J]
  BY <1>2 DEF IsReading
<1>5. ASSUME NEW m \in M, NEW l \in M, g[m] = g[l]
      PROVE  m = l
  <2>1. m \in Nat /\ l \in Nat /\ f[m] = f[l] /\ f[m] \in Nat
    BY <1>1, <1>2, <1>3, <1>5 DEF IsReading
  <2>2. ~(m < l) /\ ~(l < m)
    BY <1>2, <2>1 DEF IsReading
  <2> QED
    BY <2>1, <2>2
<1>6. \A i \in J : \E m \in M : g[m] = i
  BY <1>2 DEF IsReading
<1>7. IsFiniteSet(M)
  <2>1. IsFiniteSet(N)
    BY <1>3, FS_Interval
  <2> QED
    BY <2>1, FS_Subset
<1>8. g \in Bijection(M, J)
  <2> HIDE DEF g, M, J
  <2> QED
    BY <1>4, <1>5, <1>6 DEF Bijection, Injection, Surjection, IsInjective
<1>9. ExistsBijection(M, J)
  BY <1>8 DEF ExistsBijection
<1>10. Cardinality(J) = Cardinality(M)
  <2> HIDE DEF M, J
  <2> QED
    BY <1>7, <1>9, FS_Bijection
<1> QED
  BY <1>3, <1>10 DEF Places

(* Two elements of the result stand in the order of the source.            *)
LEMMA SubsequenceOrder ==
  ASSUME NEW T, NEW s \in Seq(T), NEW I \in SUBSET DOMAIN s,
         NEW m \in DOMAIN Subsequence(s, I), NEW l \in DOMAIN Subsequence(s, I), m < l
  PROVE  \E i, j \in I : i < j /\ Subsequence(s, I)[m] = s[i] /\ Subsequence(s, I)[l] = s[j]
<1>1. I \in SUBSET (1..Len(s)) /\ Len(s) \in Nat
  OBVIOUS
<1>2. PICK f : IsReading(f, s, I)
  BY <1>1, SubsequenceReads
<1>3. DOMAIN Subsequence(s, I) = 1..Cardinality(I)
  BY <1>1, SubsequenceReads
<1> QED
  BY <1>2, <1>3 DEF IsReading

(* A filter does not lengthen. *)
LEMMA SubsequenceShorter ==
  ASSUME NEW T, NEW s \in Seq(T), NEW I \in SUBSET DOMAIN s
  PROVE  Len(Subsequence(s, I)) <= Len(s)
<1>1. I \in SUBSET (1..Len(s)) /\ Len(s) \in Nat
  OBVIOUS
<1>2. Cardinality(1..Len(s)) = Len(s)
  BY <1>1, IndicesCount
<1>3. IsFiniteSet(1..Len(s))
  BY <1>1, FS_Interval
<1>4. Cardinality(I) <= Len(s)
  BY <1>1, <1>2, <1>3, FS_Subset
<1> QED
  BY <1>4, SubsequenceType

(* A new last element is the last of the filtered, or changes nothing.     *)
LEMMA RankIs ==
  ASSUME NEW n \in Nat, NEW I \in SUBSET (1..n), NEW i \in I
  PROVE  (CHOOSE j \in I : RankIn(I, j) = RankIn(I, i)) = i
<1> DEFINE c == CHOOSE j \in I : RankIn(I, j) = RankIn(I, i)
<1>1. c \in I /\ RankIn(I, c) = RankIn(I, i)
  OBVIOUS
<1> HIDE DEF c
<1>2. c = i
  BY <1>1, RankInjective
<1> QED
  BY <1>2 DEF c

LEMMA SubsequenceGrows ==
  ASSUME NEW T, NEW s \in Seq(T), NEW e \in T, NEW I \in SUBSET DOMAIN s
  PROVE  /\ Subsequence(Append(s, e), I) = Subsequence(s, I)
         /\ Subsequence(Append(s, e), I \cup {Len(s) + 1}) = Append(Subsequence(s, I), e)
<1> DEFINE n == Len(s)
           J == I \cup {n + 1}
           N == Cardinality(I)
           t == Append(s, e)
<1>1. /\ n \in Nat /\ DOMAIN s = 1..n /\ I \in SUBSET (1..n)
      /\ \A i \in 1..n : t[i] = s[i]
      /\ t[n + 1] = e
  OBVIOUS
<1> HIDE DEF t
<1>2. /\ IsFiniteSet(I) /\ N \in Nat /\ n + 1 \notin I
      /\ Cardinality(J) = N + 1 /\ J \in SUBSET (1..n + 1)
  <2>1. IsFiniteSet(I) /\ N \in Nat
    BY <1>1, IndicesFinite
  <2>2. n + 1 \notin I
    BY <1>1
  <2>3. Cardinality(J) = N + 1
    <3> HIDE DEF n
    <3> QED
      BY <2>1, <2>2, FS_AddElement
  <2>4. J \in SUBSET (1..n + 1)
    BY <1>1
  <2> QED
    BY <2>1, <2>2, <2>3, <2>4
<1>3. \A m \in 1..N : (CHOOSE i \in I : RankIn(I, i) = m) \in I
  BY <1>1, RankIsOnto
<1>4. Subsequence(t, I) = Subsequence(s, I)
  <2>1. \A m \in 1..N : Subsequence(t, I)[m] = Subsequence(s, I)[m]
    BY <1>1, <1>3 DEF Subsequence
  <2> QED
    BY <2>1 DEF Subsequence
<1>5. ASSUME NEW i \in I
      PROVE  RankIn(J, i) = RankIn(I, i)
  <2>1. {j \in J : j <= i} = {j \in I : j <= i}
    BY <1>1, <1>2
  <2> QED
    BY <2>1 DEF RankIn
<1>6. RankIn(J, n + 1) = N + 1
  <2>1. {j \in J : j <= n + 1} = J
    BY <1>1, <1>2
  <2> QED
    BY <1>2, <2>1 DEF RankIn
<1>7. \A m \in 1..N : Subsequence(t, J)[m] = Subsequence(s, I)[m]
  <2> SUFFICES ASSUME NEW m \in 1..N
               PROVE  Subsequence(t, J)[m] = Subsequence(s, I)[m]
    OBVIOUS
  <2>1. PICK i \in I : RankIn(I, i) = m
    BY <1>1, RankIsOnto
  <2>2. (CHOOSE j \in I : RankIn(I, j) = m) = i
    BY <1>1, <2>1, RankIs
  <2>3. (CHOOSE j \in J : RankIn(J, j) = m) = i
    <3>0. RankIn(J, i) = RankIn(I, i)
      BY <1>5
    <3>1. i \in J /\ RankIn(J, i) = m /\ n + 1 \in Nat
      BY <3>0, <1>1, <2>1
    <3> HIDE DEF J
    <3> QED
      BY <1>2, <3>1, RankIs
  <2>4. m \in 1..Cardinality(J)
    BY <1>2
  <2>5. Subsequence(t, J)[m] = t[i] /\ Subsequence(s, I)[m] = s[i]
    BY <2>2, <2>3, <2>4 DEF Subsequence
  <2> QED
    BY <1>1, <2>5
<1>8. Subsequence(t, J)[N + 1] = e
  <2>1. (CHOOSE j \in J : RankIn(J, j) = N + 1) = n + 1
    <3>1. n + 1 \in J /\ n + 1 \in Nat
      BY <1>1
    <3> HIDE DEF J
    <3> QED
      BY <1>2, <1>6, <3>1, RankIs
  <2>2. N + 1 \in 1..Cardinality(J)
    BY <1>2
  <2> QED
    BY <1>1, <2>1, <2>2 DEF Subsequence
<1>9. Subsequence(t, J) = Append(Subsequence(s, I), e)
  <2> DEFINE a == Subsequence(s, I)
             b == Subsequence(t, J)
  <2>1. a \in Seq(T) /\ Len(a) = N
    BY SubsequenceType
  <2>2. b = [m \in 1..N + 1 |-> b[m]]
    BY <1>2 DEF Subsequence
  <2>3. \A m \in 1..N : b[m] = a[m]
    BY <1>7
  <2>4. b[N + 1] = e
    BY <1>8
  <2> HIDE DEF a, b, N
  <2>8. /\ Append(a, e) \in Seq(T) /\ Len(Append(a, e)) = N + 1
        /\ \A m \in 1..N : Append(a, e)[m] = a[m]
        /\ Append(a, e)[N + 1] = e
    <3> HIDE DEF n, J
    <3> QED
      BY <2>1, AppendProperties
  <2>5. /\ Append(a, e) = [m \in 1..N + 1 |-> Append(a, e)[m]]
        /\ \A m \in 1..N : Append(a, e)[m] = a[m]
        /\ Append(a, e)[N + 1] = e
    <3> DEFINE q == Append(a, e)
    <3>1. q \in Seq(T) /\ Len(q) = N + 1
      BY <2>8
    <3> HIDE DEF q
    <3>2. q = [m \in 1..N + 1 |-> q[m]]
      BY <3>1
    <3> QED
      BY <2>8, <3>2 DEF q
  <2>6. \A m \in 1..N + 1 : b[m] = Append(a, e)[m]
    BY <1>2, <2>3, <2>4, <2>5
  <2>7. b = Append(a, e)
    BY <2>2, <2>5, <2>6
  <2> QED
    BY <2>7 DEF a, b
<1> QED
  BY <1>4, <1>9 DEF t

(* A sequence without its i-th element.                                    *)
Without(s, i) == SubSeq(s, 1, i - 1) \o SubSeq(s, i + 1, Len(s))

LEMMA CutOut ==
    ASSUME NEW S, NEW s \in Seq(S), NEW i \in 1..Len(s)
    PROVE  /\ Without(s, i) \in Seq(S) /\ Len(Without(s, i)) = Len(s) - 1
           /\ \A j \in 1..(Len(s) - 1) :
                Without(s, i)[j] = IF j < i THEN s[j] ELSE s[j + 1]
<1> DEFINE a == SubSeq(s, 1, i - 1)
           b == SubSeq(s, i + 1, Len(s))
<1>0. Len(s) \in Nat /\ i \in Nat /\ i \in 1..Len(s) /\ \A j \in 1..Len(s) : s[j] \in S
  BY LenProperties, ElementOfSeq
<1>1. /\ a \in Seq(S)
      /\ Len(a) = i - 1
      /\ \A j \in 1..(i - 1) : a[j] = s[j]
  <2>1. \A j \in 1..(i - 1) : s[j] \in S
    BY <1>0
  <2> QED
    BY <1>0, <2>1, SubSeqProperties
<1>2. /\ b \in Seq(S)
      /\ Len(b) = Len(s) - i
      /\ \A j \in 1..(Len(s) - i) : b[j] = s[i + j]
  <2>1. \A j \in (i + 1)..Len(s) : s[j] \in S
    BY <1>0
  <2>2. /\ b \in Seq(S)
        /\ Len(b) = IF i + 1 <= Len(s) THEN Len(s) - (i + 1) + 1 ELSE 0
        /\ \A j \in 1..(Len(s) - (i + 1) + 1) : b[j] = s[(i + 1) + j - 1]
    BY <1>0, <2>1, SubSeqProperties
  <2> QED
    BY <1>0, <2>2
<1> HIDE DEF a, b
<1>3. /\ a \o b \in Seq(S)
      /\ Len(a \o b) = Len(a) + Len(b)
      /\ \A j \in 1..(Len(a) + Len(b)) :
           (a \o b)[j] = IF j <= Len(a) THEN a[j] ELSE b[j - Len(a)]
  BY <1>1, <1>2, ConcatProperties
<1>4. Without(s, i) = a \o b
  BY DEF Without, a, b
<1>5. PICK r : r = Without(s, i)
  OBVIOUS
<1>6. r \in Seq(S) /\ Len(r) = Len(a) + Len(b)
      /\ \A j \in 1..(Len(a) + Len(b)) : r[j] = IF j <= Len(a) THEN a[j] ELSE b[j - Len(a)]
  BY ONLY <1>3, <1>4, <1>5
<1>7. \A j \in 1..(Len(s) - 1) : r[j] = IF j < i THEN s[j] ELSE s[j + 1]
  <2>1. SUFFICES ASSUME NEW j \in 1..(Len(s) - 1)
                 PROVE  r[j] = IF j < i THEN s[j] ELSE s[j + 1]
    OBVIOUS
  <2>2. r[j] = IF j <= i - 1 THEN a[j] ELSE b[j - (i - 1)]
    BY ONLY <1>0, <1>1, <1>2, <1>6, j \in 1..(Len(s) - 1)
  <2>3. CASE j < i
    BY ONLY <1>0, <1>1, <2>2, <2>3, j \in 1..(Len(s) - 1)
  <2>4. CASE j >= i
    <3>1. j - (i - 1) \in 1..(Len(s) - i) /\ i + (j - (i - 1)) = j + 1
      BY ONLY <1>0, <2>4, j \in 1..(Len(s) - 1)
    <3> QED
      BY ONLY <1>0, <1>2, <2>2, <2>4, <3>1, j \in 1..(Len(s) - 1)
  <2> QED
    BY <1>0, <2>3, <2>4
<1>8. Len(r) = Len(s) - 1
  BY ONLY <1>0, <1>1, <1>2, <1>6
<1> QED
  BY <1>5, <1>6, <1>7, <1>8
=============================================================================
