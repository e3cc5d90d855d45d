--------------------------- MODULE JobTableProofs ---------------------------
(***************************************************************************)
(* Theorems about the job table (JobTable), for any number of processes,   *)
(* any JOBMAX and any number of processes that are stopped.                *)
(***************************************************************************)
EXTENDS JobTable, SequenceTheorems, FiniteSetTheorems,
        WellFoundedInduction, TLAPS

----------------------------------------------------------------------------
(* Lists of jobs.                                                          *)

\* A job: processes, none twice.
JobOK(j) == /\ j \in Seq(Procs) /\ j # <<>>
            /\ \A i, h \in DOMAIN j : j[i] = j[h] => i = h

\* A list of jobs: no process is in two of them.
ListOK(q) == /\ q \in Seq(Seq(Procs))
             /\ \A k \in DOMAIN q : JobOK(q[k])
             /\ \A k, l \in DOMAIN q : k # l => ToSet(q[k]) \cap ToSet(q[l]) = {}

Holds(q, p) == \E k \in DOMAIN q : p \in ToSet(q[k])

\* A job is put at the head of a list.
LEMMA PrependOK ==
    ASSUME NEW q, ListOK(q), NEW j, JobOK(j),
           \A k \in DOMAIN q : ToSet(q[k]) \cap ToSet(j) = {}
    PROVE  LET r == <<j>> \o q IN
           /\ ListOK(r) /\ Len(r) = Len(q) + 1 /\ r[1] = j
           /\ \A k \in DOMAIN q : k + 1 \in DOMAIN r /\ r[k + 1] = q[k]
           /\ \A k \in DOMAIN r : k # 1 => k - 1 \in DOMAIN q /\ r[k] = q[k - 1]
  <1> DEFINE r == <<j>> \o q
  <1>1. /\ q \in Seq(Seq(Procs)) /\ j \in Seq(Procs) /\ Len(q) \in Nat
        /\ DOMAIN q = 1 .. Len(q)
    BY DEF ListOK, JobOK
  <1>2. <<j>> \in Seq(Seq(Procs)) /\ Len(<<j>>) = 1 /\ <<j>>[1] = j
    BY <1>1
  <1>3. r \in Seq(Seq(Procs)) /\ Len(r) = Len(q) + 1 /\ DOMAIN r = 1 .. Len(q) + 1
    BY <1>1, <1>2, ConcatProperties
  <1>4. r[1] = j /\ \A k \in 1 .. Len(q) + 1 : k # 1 => r[k] = q[k - 1]
    BY <1>1, <1>2, ConcatProperties
  <1> HIDE DEF r
  <1>5. \A k \in DOMAIN q : k + 1 \in DOMAIN r /\ r[k + 1] = q[k]
    <2> TAKE k \in DOMAIN q
    <2>1. k + 1 \in 1 .. Len(q) + 1 /\ k + 1 # 1 /\ (k + 1) - 1 = k
      BY <1>1
    <2> QED
      BY <2>1, <1>3, <1>4
  <1>6. \A k \in DOMAIN r : k # 1 => k - 1 \in DOMAIN q /\ r[k] = q[k - 1]
    BY <1>1, <1>3, <1>4
  <1>7. \A k \in DOMAIN r : JobOK(r[k])
    BY <1>4, <1>6 DEF ListOK
  <1>8. \A k, l \in DOMAIN r : k # l => ToSet(r[k]) \cap ToSet(r[l]) = {}
    <2> SUFFICES ASSUME NEW k \in DOMAIN r, NEW l \in DOMAIN r, k # l
                 PROVE  ToSet(r[k]) \cap ToSet(r[l]) = {}
      OBVIOUS
    <2>1. CASE k = 1
      BY <2>1, <1>4, <1>6
    <2>2. CASE l = 1
      BY <2>2, <1>4, <1>6
    <2>3. CASE k # 1 /\ l # 1
      <3>1. k - 1 # l - 1
        BY <1>1, <1>3
      <3> QED
        BY <2>3, <1>6, <3>1 DEF ListOK
    <2> QED
      BY <2>1, <2>2, <2>3
  <1>9. ListOK(r)
    BY <1>3, <1>7, <1>8 DEF ListOK
  <1> QED
    BY <1>3, <1>4, <1>5, <1>6, <1>9 DEF r

\* A job is taken out of a list.
LEMMA RemoveJob ==
    ASSUME NEW q, ListOK(q), NEW k \in DOMAIN q
    PROVE  LET r == RemoveAt(q, k) IN
           /\ ListOK(r)
           /\ \A i \in DOMAIN r : \E l \in DOMAIN q : l # k /\ r[i] = q[l]
           /\ \A l \in DOMAIN q : l # k => \E i \in DOMAIN r : r[i] = q[l]
           /\ \A i \in DOMAIN r : ToSet(r[i]) \cap ToSet(q[k]) = {}
  <1> DEFINE r == RemoveAt(q, k)
             n == Len(q)
             a == SubSeq(q, 1, k - 1)
             b == SubSeq(q, k + 1, n)
             at == [i \in 1 .. n |-> IF i < k THEN i ELSE i + 1]
  <1>1. /\ q \in Seq(Seq(Procs)) /\ n \in Nat
        /\ DOMAIN q = 1 .. n /\ k \in 1 .. n
    BY DEF ListOK
  <1>2. /\ a \in Seq(Seq(Procs)) /\ Len(a) = k - 1
        /\ \A i \in 1 .. k - 1 : a[i] = q[i]
    BY <1>1, SubSeqProperties
  <1>3. /\ b \in Seq(Seq(Procs)) /\ Len(b) = n - k
        /\ \A i \in 1 .. n - k : b[i] = q[k + i]
    <2>1. /\ b \in Seq(Seq(Procs))
          /\ Len(b) = IF k + 1 <= n THEN n - (k + 1) + 1 ELSE 0
          /\ \A i \in 1 .. n - (k + 1) + 1 : b[i] = q[(k + 1) + i - 1]
      <3>1. k + 1 \in Int /\ n \in Int /\ \A i \in k + 1 .. n : q[i] \in Seq(Procs)
        BY <1>1
      <3> HIDE DEF n
      <3> QED
        BY <3>1, SubSeqProperties DEF b
    <2>2. n - (k + 1) + 1 = n - k /\ \A i \in Int : (k + 1) + i - 1 = k + i
      BY <1>1
    <2> HIDE DEF n, b
    <2>3. Len(b) = n - k
      BY <1>1, <2>1
    <2>4. ASSUME NEW i \in 1 .. n - k
          PROVE  b[i] = q[k + i]
      BY <2>1, <2>2, i \in Int
    <2> QED
      BY <2>1, <2>3, <2>4
  <1>4. r = a \o b
    BY DEF RemoveAt
  <1> HIDE DEF r, a, b
  <1>5. r \in Seq(Seq(Procs)) /\ Len(r) = n - 1
    <2>1. r \in Seq(Seq(Procs)) /\ Len(r) = Len(a) + Len(b)
      BY <1>2, <1>3, <1>4, ConcatProperties
    <2> HIDE DEF n
    <2> QED
      BY <2>1, <1>1, <1>2, <1>3
  <1>6. \A i \in 1 .. n - 1 : r[i] = IF i <= k - 1 THEN a[i] ELSE b[i - (k - 1)]
    <2>1. \A i \in 1 .. Len(a) + Len(b) : r[i] = IF i <= Len(a) THEN a[i] ELSE b[i - Len(a)]
      BY <1>2, <1>3, <1>4, ConcatProperties
    <2>2. Len(a) + Len(b) = n - 1
      BY <1>1, <1>2, <1>3
    <2> QED
      BY <2>1, <2>2, <1>2
  <1> HIDE DEF n, at
  <1>7. k \in Int /\ n \in Int /\ 1 <= k /\ k <= n /\ DOMAIN r = 1 .. n - 1
    BY <1>1, <1>5
  <1>8. \A i \in 1 .. n - 1 : r[i] = IF i < k THEN q[i] ELSE q[i + 1]
    <2> SUFFICES ASSUME NEW i \in 1 .. n - 1
                 PROVE  r[i] = IF i < k THEN q[i] ELSE q[i + 1]
      OBVIOUS
    <2>1. CASE i < k
      <3>1. i <= k - 1 /\ i \in 1 .. k - 1
        BY <2>1, <1>7
      <3> QED
        BY <2>1, <3>1, <1>2, <1>6
    <2>2. CASE ~ (i < k)
      <3>1. ~ (i <= k - 1)
        BY <2>2, <1>7
      <3> DEFINE h == i - (k - 1)
      <3>2. h \in 1 .. n - k /\ k + h = i + 1
        BY <2>2, <1>7
      <3>3. r[i] = b[h]
        BY <3>1, <1>6
      <3> HIDE DEF h
      <3>4. b[h] = q[i + 1]
        BY <3>2, <1>3
      <3> QED
        BY <2>2, <3>3, <3>4
    <2> QED
      BY <2>1, <2>2
  <1>9. \A i \in 1 .. n - 1 : /\ at[i] \in 1 .. n /\ at[i] # k
                              /\ at[i] = IF i < k THEN i ELSE i + 1
    <2> TAKE i \in 1 .. n - 1
    <2>1. i \in 1 .. n /\ i \in Int
      BY <1>7
    <2>2. at[i] = IF i < k THEN i ELSE i + 1
      BY <2>1 DEF at
    <2> QED
      BY <2>1, <2>2, <1>7
  <1>10. \A i \in DOMAIN r : at[i] \in DOMAIN q /\ at[i] # k /\ r[i] = q[at[i]]
    BY <1>1, <1>7, <1>8, <1>9
  <1>11. \A i, h \in DOMAIN r : i # h => at[i] # at[h]
    <2> SUFFICES ASSUME NEW i \in 1 .. n - 1, NEW h \in 1 .. n - 1, i # h
                 PROVE  at[i] # at[h]
      BY <1>7
    <2>1. i \in Int /\ h \in Int
      BY <1>7
    <2> QED
      BY <2>1, <1>7, <1>9
  <1>12. \A l \in DOMAIN q : l # k => \E i \in DOMAIN r : r[i] = q[l]
    <2> SUFFICES ASSUME NEW l \in 1 .. n, l # k
                 PROVE  \E i \in 1 .. n - 1 : r[i] = q[l]
      BY <1>1, <1>7
    <2>1. CASE l < k
      BY <2>1, <1>7, <1>8
    <2>2. CASE ~ (l < k)
      <3>1. l - 1 \in 1 .. n - 1 /\ ~ (l - 1 < k) /\ (l - 1) + 1 = l
        BY <2>2, <1>7
      <3> QED
        BY <3>1, <1>8
    <2> QED
      BY <2>1, <2>2
  <1>13. ListOK(r)
    <2>1. \A i \in DOMAIN r : JobOK(r[i])
      BY <1>10 DEF ListOK
    <2>2. \A i, h \in DOMAIN r : i # h => ToSet(r[i]) \cap ToSet(r[h]) = {}
      <3> SUFFICES ASSUME NEW i \in DOMAIN r, NEW h \in DOMAIN r, i # h
                   PROVE  ToSet(r[i]) \cap ToSet(r[h]) = {}
        OBVIOUS
      <3>1. at[i] \in DOMAIN q /\ at[h] \in DOMAIN q /\ at[i] # at[h]
        BY <1>10, <1>11
      <3>2. ToSet(q[at[i]]) \cap ToSet(q[at[h]]) = {}
        BY <3>1 DEF ListOK
      <3> QED
        BY <3>2, <1>10
    <2> QED
      BY <1>5, <2>1, <2>2 DEF ListOK
  <1> QED
    BY <1>1, <1>10, <1>12, <1>13 DEF r, ListOK

----------------------------------------------------------------------------
(* What is left of a list when jobs are dropped: the n-th of the jobs that *)
(* stay is the one that has n of them up to its place.                     *)

Rank(keep, i) == Cardinality({h \in keep : h <= i})

\* A non-empty set of naturals has a least element.
LEMMA LeastIn ==
    ASSUME NEW n \in Nat, NEW S, S \subseteq 1 .. n, S # {}
    PROVE  \E x \in S : \A y \in S : x <= y
  <1> DEFINE Below == {1 .. i : i \in S}
             R == StrictSubsetOrdering(1 .. n)
             F == FiniteSubsetsOf(1 .. n)
  <1>1. IsWellFoundedOn(R, F)
    BY FS_StrictSubsetOrderingWellFounded
  <1>2. Below \subseteq F
    <2>1. \A i \in S : 1 .. i \subseteq 1 .. n
      OBVIOUS
    <2>2. \A i \in S : IsFiniteSet(1 .. i)
      BY FS_Interval
    <2> QED
      BY <2>1, <2>2 DEF FiniteSubsetsOf
  <1>3. Below # {}
    OBVIOUS
  <1>4. \E X \in Below : \A Y \in Below : ~ (<<Y, X>> \in R)
    <2> HIDE DEF Below, R, F
    <2> QED
      BY <1>1, <1>2, <1>3, WFMin
  <1>5. PICK x \in S : \A y \in S : ~ (<<1 .. y, 1 .. x>> \in R)
    BY <1>4
  <1>6. ASSUME NEW y \in S
        PROVE  x <= y
    <2>1. SUFFICES ASSUME y < x
                   PROVE  FALSE
      OBVIOUS
    <2>2. 1 .. y \subseteq 1 .. x /\ 1 .. y # 1 .. x
      BY <2>1
    <2>3. 1 .. y \in SUBSET (1 .. n) /\ 1 .. x \in SUBSET (1 .. n)
      OBVIOUS
    <2>4. <<1 .. y, 1 .. x>> \in R
      BY <2>2, <2>3 DEF StrictSubsetOrdering
    <2> QED
      BY <2>4, <1>5
  <1> QED
    BY <1>5, <1>6

LEMMA RankType ==
    ASSUME NEW n \in Nat, NEW keep, keep \subseteq 1 .. n, NEW i
    PROVE  /\ IsFiniteSet({h \in keep : h <= i})
           /\ Rank(keep, i) \in Nat
  <1>1. IsFiniteSet(1 .. n)
    BY FS_Interval
  <1>2. IsFiniteSet({h \in keep : h <= i})
    BY <1>1, FS_Subset
  <1> QED
    BY <1>2, FS_CardinalityType DEF Rank

\* Nothing is up to the place 0, and one place more adds at most one.
LEMMA RankSteps ==
    ASSUME NEW n \in Nat, NEW keep, keep \subseteq 1 .. n
    PROVE  /\ Rank(keep, 0) = 0
           /\ Rank(keep, n) = Cardinality(keep)
           /\ \A i \in 1 .. n : Rank(keep, i) = Rank(keep, i - 1) + (IF i \in keep THEN 1 ELSE 0)
  <1>1. Rank(keep, 0) = 0
    <2>1. \A h \in keep : ~ (h <= 0)
      OBVIOUS
    <2>2. {h \in keep : h <= 0} = {}
      BY <2>1, Zenon
    <2> QED
      BY <2>2, FS_EmptySet DEF Rank
  <1>2. Rank(keep, n) = Cardinality(keep)
    <2>1. \A h \in keep : h <= n
      OBVIOUS
    <2>2. {h \in keep : h <= n} = keep
      BY <2>1, Zenon
    <2> QED
      BY <2>2 DEF Rank
  <1>3. ASSUME NEW i \in 1 .. n
        PROVE  Rank(keep, i) = Rank(keep, i - 1) + (IF i \in keep THEN 1 ELSE 0)
    <2> DEFINE A == {h \in keep : h <= i - 1}
               C == {h \in keep : h <= i}
    <2>1. IsFiniteSet(A) /\ Cardinality(A) \in Nat
      BY RankType, FS_CardinalityType
    <2>2. Rank(keep, i) = Cardinality(C) /\ Rank(keep, i - 1) = Cardinality(A)
      BY DEF Rank
    <2>3. CASE i \in keep
      <3>0. /\ \A h \in keep : h <= i <=> h <= i - 1 \/ h = i
            /\ ~ (i <= i - 1)
        BY <2>3
      <3>1. C = A \cup {i} /\ i \notin A
        BY <2>3, <3>0, Zenon
      <3> HIDE DEF A, C
      <3>2. Cardinality(C) = Cardinality(A) + 1
        BY <3>1, <2>1, FS_AddElement
      <3> QED
        BY <3>2, <2>2, <2>3
    <2>4. CASE i \notin keep
      <3>0. \A h \in keep : h <= i <=> h <= i - 1
        BY <2>4
      <3>1. C = A
        BY <3>0, Zenon
      <3> HIDE DEF A, C
      <3> QED
        BY <3>1, <2>1, <2>2, <2>4
    <2> QED
      BY <2>3, <2>4
  <1> QED
    BY <1>1, <1>2, <1>3

\* Of two jobs that stay, the later one has the higher rank.
LEMMA RankOrder ==
    ASSUME NEW n \in Nat, NEW keep, keep \subseteq 1 .. n,
           NEW i \in keep, NEW j \in keep, i < j
    PROVE  Rank(keep, i) < Rank(keep, j)
  <1> DEFINE A == {h \in keep : h <= i}
             C == {h \in keep : h <= j}
  <1>1. /\ IsFiniteSet(C) /\ IsFiniteSet(A)
        /\ Rank(keep, i) \in Nat /\ Rank(keep, j) \in Nat
    BY RankType
  <1>2. A \subseteq C /\ j \in C /\ j \notin A
    <2>1. /\ \A h \in keep : h <= i => h <= j
          /\ j <= j /\ ~ (j <= i)
      OBVIOUS
    <2> QED
      BY <2>1, Zenon
  <1>3. Rank(keep, i) = Cardinality(A) /\ Rank(keep, j) = Cardinality(C)
    BY DEF Rank
  <1> HIDE DEF A, C
  <1>4. Cardinality(A) <= Cardinality(C) /\ Cardinality(A) # Cardinality(C)
    BY <1>1, <1>2, FS_Subset
  <1> QED
    BY <1>1, <1>3, <1>4

\* Each rank up to the number of jobs that stay is that of exactly one.
LEMMA RankOnto ==
    ASSUME NEW n \in Nat, NEW keep, keep \subseteq 1 .. n, NEW m \in 1 .. Cardinality(keep)
    PROVE  \E i \in keep : Rank(keep, i) = m
  <1> DEFINE S == {i \in 1 .. n : m <= Rank(keep, i)}
  <1>1. \A i \in 0 .. n : Rank(keep, i) \in Nat
    BY RankType
  <1>2. Rank(keep, n) = Cardinality(keep) /\ Rank(keep, 0) = 0
    BY RankSteps
  <1>3. Cardinality(keep) \in Nat /\ m \in Nat /\ 1 <= m /\ m <= Cardinality(keep)
    BY <1>1, <1>2
  <1>4. n # 0
    BY <1>2, <1>3
  <1>5. n \in S
    BY <1>2, <1>3, <1>4
  <1>6. PICK i \in S : \A j \in S : i <= j
    BY <1>5, LeastIn
  <1>7. i - 1 \in 0 .. n /\ i \in 1 .. n /\ i - 1 \notin S
    BY <1>6
  <1>8. Rank(keep, i - 1) < m
    <2>1. CASE i = 1
      BY <2>1, <1>2, <1>3
    <2>2. CASE i # 1
      <3>1. i - 1 \in 1 .. n
        BY <2>2, <1>7
      <3> QED
        BY <3>1, <1>1, <1>3, <1>7
    <2> QED
      BY <2>1, <2>2
  <1>9. Rank(keep, i) = Rank(keep, i - 1) + (IF i \in keep THEN 1 ELSE 0)
    <2>1. \A j \in 1 .. n : Rank(keep, j) = Rank(keep, j - 1) + (IF j \in keep THEN 1 ELSE 0)
      BY RankSteps
    <2> QED
      BY <2>1, <1>7
  <1>10. m <= Rank(keep, i)
    BY <1>6
  <1>11. Rank(keep, i) \in Nat /\ Rank(keep, i - 1) \in Nat
    BY <1>1, <1>7
  <1> HIDE DEF S
  <1>12. i \in keep
    BY <1>3, <1>8, <1>9, <1>10, <1>11
  <1> QED
    BY <1>3, <1>8, <1>9, <1>10, <1>11, <1>12

\* The jobs that stay, each once, and the head of the list if it stays.
LEMMA RemainingOK ==
    ASSUME NEW q, ListOK(q), NEW K
    PROVE  LET r == Remaining(q, K) IN
           /\ ListOK(r)
           /\ \A i \in DOMAIN r : \E l \in DOMAIN q \ K : r[i] = q[l]
           /\ \A l \in DOMAIN q \ K : \E i \in DOMAIN r : r[i] = q[l]
           /\ 1 \in DOMAIN q \ K => 1 \in DOMAIN r /\ r[1] = q[1]
  <1> DEFINE n == Len(q)
             keep == DOMAIN q \ K
             N == Cardinality(keep)
             Nth(m) == CHOOSE i \in keep : Rank(keep, i) = m
             r == Remaining(q, K)
  <1>1. n \in Nat /\ DOMAIN q = 1 .. n /\ keep \subseteq 1 .. n
    BY DEF ListOK
  <1>2. r = [m \in 1 .. N |-> q[Nth(m)]]
    BY DEF Remaining, Rank
  <1> HIDE DEF N, keep, n, r
  <1>0. IsFiniteSet(keep)
    <2>1. IsFiniteSet(1 .. n)
      BY <1>1, FS_Interval
    <2> QED
      BY <1>1, <2>1, FS_Subset
  <1>3. N \in Nat
    BY <1>0, FS_CardinalityType DEF N
  <1>4. \A m \in 1 .. N : Nth(m) \in keep /\ Rank(keep, Nth(m)) = m
    <2> TAKE m \in 1 .. N
    <2>1. \E i \in keep : Rank(keep, i) = m
      BY <1>1, RankOnto DEF N
    <2> QED
      BY <2>1
  <1>5. \A i, j \in keep : Rank(keep, i) = Rank(keep, j) => i = j
    <2> SUFFICES ASSUME NEW i \in keep, NEW j \in keep, i # j
                 PROVE  Rank(keep, i) # Rank(keep, j)
      OBVIOUS
    <2>1. Rank(keep, i) \in Nat /\ Rank(keep, j) \in Nat
      BY <1>1, RankType
    <2>2. i < j => Rank(keep, i) < Rank(keep, j)
      BY <1>1, RankOrder
    <2>3. j < i => Rank(keep, j) < Rank(keep, i)
      BY <1>1, RankOrder
    <2>4. i \in Int /\ j \in Int
      BY <1>1
    <2> QED
      BY <2>1, <2>2, <2>3, <2>4
  <1>5a. \A i \in keep : Rank(keep, i) = Rank(keep, i - 1) + 1
    <2> TAKE i \in keep
    <2>1. \A j \in 1 .. n : Rank(keep, j) = Rank(keep, j - 1) + (IF j \in keep THEN 1 ELSE 0)
      BY <1>1, RankSteps
    <2> QED
      BY <2>1, <1>1
  <1>6. \A i \in keep : Rank(keep, i) \in 1 .. N
    <2> TAKE i \in keep
    <2>1. Rank(keep, i) = Rank(keep, i - 1) + 1
      BY <1>5a
    <2>2. Rank(keep, i) \in Nat /\ Rank(keep, i - 1) \in Nat
      BY <1>1, RankType
    <2>3. Rank(keep, i) <= N
      <3> DEFINE A == {h \in keep : h <= i}
      <3>1. IsFiniteSet(keep)
        BY <1>0
      <3>2. A \in SUBSET keep
        OBVIOUS
      <3>3. Rank(keep, i) = Cardinality(A)
        BY DEF Rank
      <3> HIDE DEF A
      <3> QED
        BY <3>1, <3>2, <3>3, FS_Subset DEF N
    <2> QED
      BY <2>1, <2>2, <2>3, <1>3
  <1>7. \A i \in keep : Nth(Rank(keep, i)) = i
    BY <1>4, <1>5, <1>6
  <1> HIDE DEF Nth
  <1>8. DOMAIN r = 1 .. N /\ \A m \in 1 .. N : r[m] = q[Nth(m)]
    BY <1>2
  <1>9. \A m \in 1 .. N : Nth(m) \in DOMAIN q
    BY <1>1, <1>4
  <1>10. r \in Seq(Seq(Procs))
    <2>1. \A m \in 1 .. N : q[Nth(m)] \in Seq(Procs)
      BY <1>9 DEF ListOK
    <2>2. r \in [1 .. N -> Seq(Procs)]
      BY <2>1, <1>2
    <2> QED
      BY <2>2, <1>3
  <1>11. \A i, j \in DOMAIN r : i # j => Nth(i) # Nth(j)
    BY <1>4, <1>8
  <1>12. ListOK(r)
    BY <1>8, <1>9, <1>10, <1>11 DEF ListOK
  <1>13. \A i \in DOMAIN r : \E l \in keep : r[i] = q[l]
    BY <1>4, <1>8
  <1>14. \A l \in keep : \E i \in DOMAIN r : r[i] = q[l]
    BY <1>6, <1>7, <1>8
  <1>15. ASSUME 1 \in keep
         PROVE  1 \in DOMAIN r /\ r[1] = q[1]
    <2>1. PICK i \in keep : i = 1
      BY <1>15
    <2>2. Rank(keep, i) = Rank(keep, i - 1) + 1
      BY <1>5a
    <2>3. Rank(keep, 0) = 0
      BY <1>1, RankSteps
    <2>4. i - 1 = 0
      BY <2>1
    <2>5. Rank(keep, 1) = 1
      BY <2>1, <2>2, <2>3, <2>4, <1>15
    <2> QED
      BY <2>5, <1>15, <1>6, <1>7, <1>8
  <1> QED
    BY <1>12, <1>13, <1>14, <1>15 DEF r, keep

----------------------------------------------------------------------------
(* Reading the table.                                                      *)

TableOK(t) == t \in Table /\ ListOK(t.pwlist)

\* What lists of processes and their heads are.
LEMMA JobIs ==
    ASSUME NEW t, TableOK(t), NEW k \in DOMAIN t.pwlist
    PROVE  /\ Members(t, k) \subseteq Procs
           /\ Top(t, k) \in Members(t, k) /\ Top(t, k) = t.pwlist[k][1]
           /\ \A p \in Members(t, k) : InTable(t, p)
           /\ Len(t.pwlist[k]) = 1 => Members(t, k) = {Top(t, k)}
  <1> DEFINE j == t.pwlist[k]
  <1>1. JobOK(j)
    BY DEF TableOK, ListOK
  <1>2. j \in Seq(Procs) /\ j # <<>>
    BY <1>1 DEF JobOK
  <1>3. Members(t, k) = {j[i] : i \in DOMAIN j}
    BY DEF Members, ToSet
  <1>4. Top(t, k) = Head(j)
    BY DEF Top
  <1> HIDE DEF j
  <1>5. Head(j) = j[1] /\ 1 \in DOMAIN j /\ DOMAIN j = 1 .. Len(j)
    BY <1>2
  <1>6. \A i \in DOMAIN j : j[i] \in Procs
    BY <1>2
  <1>7. \A p \in Members(t, k) : InTable(t, p)
    BY DEF InTable
  <1>8. Len(j) = 1 => Members(t, k) = {Top(t, k)}
    <2> SUFFICES ASSUME Len(j) = 1
                 PROVE  Members(t, k) = {Top(t, k)}
      OBVIOUS
    <2>1. DOMAIN j = {1}
      BY <1>5
    <2> QED
      BY <2>1, <1>3, <1>4, <1>5
  <1> QED
    BY <1>3, <1>4, <1>5, <1>6, <1>7, <1>8 DEF j

\* A process is in one job only.
LEMMA Where ==
    ASSUME NEW t, TableOK(t), NEW p, InTable(t, p)
    PROVE  /\ JobOf(t, p) \in DOMAIN t.pwlist
           /\ p \in Members(t, JobOf(t, p))
           /\ p \in Procs
           /\ \A k \in DOMAIN t.pwlist : p \in Members(t, k) => k = JobOf(t, p)
  <1>1. JobOf(t, p) \in DOMAIN t.pwlist /\ p \in Members(t, JobOf(t, p))
    BY DEF InTable, JobOf
  <1>2. \A k, l \in DOMAIN t.pwlist : k # l => Members(t, k) \cap Members(t, l) = {}
    BY DEF TableOK, ListOK, Members
  <1> QED
    BY <1>1, <1>2, JobIs

\* Two tables with the same list.
LEMMA SameList ==
    ASSUME NEW t, NEW u, u.pwlist = t.pwlist
    PROVE  /\ \A p : InTable(u, p) <=> InTable(t, p)
           /\ \A p : JobOf(u, p) = JobOf(t, p)
           /\ \A k : Members(u, k) = Members(t, k) /\ Top(u, k) = Top(t, k)
           /\ \A p : IsTop(u, p) <=> IsTop(t, p)
  BY DEF InTable, JobOf, Members, Top, IsTop

\* The first process that is not done is one of the job.
LEMMA FirstIs ==
    ASSUME NEW t, TableOK(t), NEW k \in DOMAIN t.pwlist, Unfinished(t, k, TRUE) # {}
    PROVE  FirstUnfinished(t, k) \in Members(t, k)
  <1> DEFINE j == t.pwlist[k]
             u == Unfinished(t, k, TRUE)
             S == {i \in DOMAIN j : j[i] \in u}
  <1>1. JobOK(j)
    BY DEF TableOK, ListOK
  <1>2. Len(j) \in Nat /\ DOMAIN j = 1 .. Len(j)
    BY <1>1 DEF JobOK
  <1>3. u \subseteq Members(t, k)
    BY JobIs DEF Unfinished
  <1>4. S # {}
    BY <1>3 DEF Members, ToSet
  <1>5. PICK i \in S : \A h \in S : i <= h
    BY <1>2, <1>4, LeastIn
  <1>6. \A h \in 1 .. i - 1 : j[h] \notin u
    <2> SUFFICES ASSUME NEW h \in 1 .. i - 1, j[h] \in u
                 PROVE  FALSE
      OBVIOUS
    <2>1. i \in 1 .. Len(j)
      BY <1>2
    <2>2. h \in 1 .. Len(j) /\ ~ (i <= h)
      BY <2>1, <1>2
    <2> QED
      BY <2>2, <1>2, <1>5
  <1>7. \E x \in DOMAIN j : j[x] \in u /\ \A h \in 1 .. x - 1 : j[h] \notin u
    BY <1>5, <1>6
  <1>8. FirstUnfinished(t, k) = j[CHOOSE x \in DOMAIN j :
                                  j[x] \in u /\ \A h \in 1 .. x - 1 : j[h] \notin u]
    BY DEF FirstUnfinished
  <1> HIDE DEF u
  <1> QED
    BY <1>7, <1>8 DEF Members, ToSet

\* A job that may be dropped: all its processes are done, none is in the
\* background or in the current job.
LEMMA DropsDone ==
    ASSUME NEW t, TableOK(t), NEW k \in DOMAIN t.pwlist, NEW n \in BOOLEAN, MayDrop(t, k, n)
    PROVE  /\ \A p \in Members(t, k) : "done" \in t.flag[p]
           /\ t.curjob \notin Members(t, k)
           /\ "bg" \notin t.flag[Top(t, k)]
  BY DEF MayDrop, Unfinished

----------------------------------------------------------------------------
(* Changing the table: what each operation makes of its fields.            *)

\* u is t with other flags and another list.
Alike(t, u) == /\ u.saved = t.saved /\ u.curjob = t.curjob /\ u.bckpid = t.bckpid
               /\ u.numbjob = t.numbjob /\ u.note = t.note /\ u.trapped = t.trapped

LEMMA OffIs ==
    ASSUME NEW t, TableOK(t), NEW P, NEW F
    PROVE  LET u == Off(t, P, F) IN
           /\ TableOK(u) /\ Alike(t, u) /\ u.pwlist = t.pwlist /\ u.curpgid = t.curpgid
           /\ \A p \in Procs : u.flag[p] = IF p \in P THEN t.flag[p] \ F ELSE t.flag[p]
  <1> DEFINE fl == [p \in Procs |-> IF p \in P THEN t.flag[p] \ F ELSE t.flag[p]]
  <1>1. t \in Table /\ ListOK(t.pwlist)
    BY DEF TableOK
  <1>2. t.flag \in [Procs -> SUBSET Flags]
    BY <1>1 DEF Table
  <1>3. fl \in [Procs -> SUBSET Flags]
    BY <1>2
  <1>4. \A p \in Procs : fl[p] = IF p \in P THEN t.flag[p] \ F ELSE t.flag[p]
    OBVIOUS
  <1>5. Off(t, P, F) = [t EXCEPT !.flag = fl]
    BY <1>1 DEF Off
  <1> HIDE DEF fl
  <1> QED
    BY <1>1, <1>3, <1>4, <1>5 DEF TableOK, Alike, Table

LEMMA OnIs ==
    ASSUME NEW t, TableOK(t), NEW P, NEW F, F \subseteq Flags
    PROVE  LET u == On(t, P, F) IN
           /\ TableOK(u) /\ Alike(t, u) /\ u.pwlist = t.pwlist /\ u.curpgid = t.curpgid
           /\ \A p \in Procs : u.flag[p] = IF p \in P THEN t.flag[p] \cup F ELSE t.flag[p]
  <1> DEFINE fl == [p \in Procs |-> IF p \in P THEN t.flag[p] \cup F ELSE t.flag[p]]
  <1>1. t \in Table /\ ListOK(t.pwlist)
    BY DEF TableOK
  <1>2. t.flag \in [Procs -> SUBSET Flags]
    BY <1>1 DEF Table
  <1>3. fl \in [Procs -> SUBSET Flags]
    BY <1>2
  <1>4. \A p \in Procs : fl[p] = IF p \in P THEN t.flag[p] \cup F ELSE t.flag[p]
    OBVIOUS
  <1>5. On(t, P, F) = [t EXCEPT !.flag = fl]
    BY <1>1 DEF On
  <1> HIDE DEF fl
  <1> QED
    BY <1>1, <1>3, <1>4, <1>5 DEF TableOK, Alike, Table

LEMMA FrontIs ==
    ASSUME NEW t, TableOK(t), NEW k \in DOMAIN t.pwlist
    PROVE  LET u == ToFront(t, k) IN
           /\ TableOK(u) /\ Alike(t, u) /\ u.flag = t.flag
           /\ u.curpgid = IF k = 1 THEN None ELSE t.curpgid
           /\ 1 \in DOMAIN u.pwlist /\ u.pwlist[1] = t.pwlist[k]
           /\ \A i \in DOMAIN u.pwlist : \E l \in DOMAIN t.pwlist : u.pwlist[i] = t.pwlist[l]
           /\ \A p : InTable(u, p) <=> InTable(t, p)
  <1> DEFINE q == t.pwlist
             s == RemoveAt(q, k)
             r == <<q[k]>> \o s
             u == ToFront(t, k)
  <1>1. t \in Table /\ ListOK(q)
    BY DEF TableOK
  <1>2. /\ ListOK(s)
        /\ \A i \in DOMAIN s : \E l \in DOMAIN q : l # k /\ s[i] = q[l]
        /\ \A l \in DOMAIN q : l # k => \E i \in DOMAIN s : s[i] = q[l]
        /\ \A i \in DOMAIN s : ToSet(s[i]) \cap ToSet(q[k]) = {}
    BY <1>1, RemoveJob
  <1>3. JobOK(q[k])
    BY <1>1 DEF ListOK
  <1> HIDE DEF s
  <1>4. /\ ListOK(r) /\ r[1] = q[k] /\ Len(r) = Len(s) + 1
        /\ \A i \in DOMAIN s : i + 1 \in DOMAIN r /\ r[i + 1] = s[i]
        /\ \A i \in DOMAIN r : i # 1 => i - 1 \in DOMAIN s /\ r[i] = s[i - 1]
    BY <1>2, <1>3, PrependOK
  <1> HIDE DEF r
  <1>5. u = [t EXCEPT !.pwlist = r, !.curpgid = IF k = 1 THEN None ELSE t.curpgid]
    BY <1>1 DEF ToFront, r, s, Table
  <1> HIDE DEF u
  <1>6. /\ u.pwlist = r /\ u.curpgid = IF k = 1 THEN None ELSE t.curpgid
        /\ Alike(t, u) /\ u.flag = t.flag /\ u \in Table
    <2>1. r \in Seq(Seq(Procs))
      BY <1>4 DEF ListOK
    <2> QED
      BY <2>1, <1>1, <1>5 DEF Alike, Table
  <1>7. 1 \in DOMAIN r
    BY <1>2, <1>4 DEF ListOK
  <1>8. \A i \in DOMAIN r : \E l \in DOMAIN q : r[i] = q[l]
    BY <1>2, <1>4
  <1>9. \A l \in DOMAIN q : \E i \in DOMAIN r : r[i] = q[l]
    BY <1>2, <1>4, <1>7
  <1>10. \A p : InTable(u, p) <=> InTable(t, p)
    BY <1>6, <1>8, <1>9 DEF InTable, Members
  <1> QED
    BY <1>4, <1>6, <1>7, <1>8, <1>10 DEF TableOK, u

Out(t, K) == UNION {Members(t, k) : k \in K}

LEMMA DropIs ==
    ASSUME NEW t, TableOK(t), NEW K, K \subseteq DOMAIN t.pwlist
    PROVE  LET u == Drop(t, K) IN
           /\ TableOK(u)
           /\ u.curjob = t.curjob /\ u.bckpid = t.bckpid /\ u.numbjob = t.numbjob
           /\ u.note = t.note /\ u.trapped = t.trapped
           /\ u.saved = t.saved \cup {p \in Out(t, K) : "exitsave" \in t.flag[p]}
           /\ u.curpgid = IF 1 \in K THEN None ELSE t.curpgid
           /\ \A p \in Procs : u.flag[p] = IF p \in Out(t, K) THEN {} ELSE t.flag[p]
           /\ \A i \in DOMAIN u.pwlist : \E l \in DOMAIN t.pwlist \ K : u.pwlist[i] = t.pwlist[l]
           /\ 1 \in DOMAIN t.pwlist \ K => 1 \in DOMAIN u.pwlist /\ u.pwlist[1] = t.pwlist[1]
           /\ \A p : InTable(u, p) <=> InTable(t, p) /\ p \notin Out(t, K)
  <1> DEFINE q == t.pwlist
             r == Remaining(q, K)
             out == Out(t, K)
             o == Off(t, out, Flags)
             sv == t.saved \cup {p \in out : "exitsave" \in t.flag[p]}
             u == Drop(t, K)
  <1>1. t \in Table /\ ListOK(q)
    BY DEF TableOK
  <1>2. /\ ListOK(r)
        /\ \A i \in DOMAIN r : \E l \in DOMAIN q \ K : r[i] = q[l]
        /\ \A l \in DOMAIN q \ K : \E i \in DOMAIN r : r[i] = q[l]
        /\ 1 \in DOMAIN q \ K => 1 \in DOMAIN r /\ r[1] = q[1]
    BY <1>1, RemainingOK
  <1>3. /\ TableOK(o) /\ Alike(t, o) /\ o.pwlist = q /\ o.curpgid = t.curpgid
        /\ \A p \in Procs : o.flag[p] = IF p \in out THEN t.flag[p] \ Flags ELSE t.flag[p]
    <2> HIDE DEF out
    <2>1. TableOK(o)
      BY OffIs
    <2>2. Alike(t, o)
      BY OffIs
    <2>3. o.pwlist = q /\ o.curpgid = t.curpgid
      BY OffIs
    <2>4. \A p \in Procs : o.flag[p] = IF p \in out THEN t.flag[p] \ Flags ELSE t.flag[p]
      BY OffIs
    <2> QED
      BY <2>1, <2>2, <2>3, <2>4
  <1>4. out \subseteq Procs
    BY JobIs DEF Out
  <1>5. \A p \in Procs : t.flag[p] \ Flags = {}
    BY <1>1 DEF Table
  <1> HIDE DEF r, o, sv
  <1>6. u = [o EXCEPT !.pwlist = r, !.saved = sv,
                      !.curpgid = IF 1 \in K THEN None ELSE t.curpgid]
    BY <1>3 DEF Drop, r, o, sv, Out, TableOK, Table, Alike
  <1>7. r \in Seq(Seq(Procs)) /\ sv \subseteq Procs
    BY <1>1, <1>2, <1>4 DEF ListOK, sv, Table
  <1> HIDE DEF u, out
  <1>8. /\ u \in Table /\ u.pwlist = r /\ u.saved = sv
        /\ u.curpgid = IF 1 \in K THEN None ELSE t.curpgid
        /\ u.flag = o.flag
        /\ u.curjob = t.curjob /\ u.bckpid = t.bckpid /\ u.numbjob = t.numbjob
        /\ u.note = t.note /\ u.trapped = t.trapped
    BY <1>1, <1>3, <1>6, <1>7 DEF TableOK, Alike, Table
  <1>9. \A p : InTable(u, p) <=> InTable(t, p) /\ p \notin out
    <2> SUFFICES ASSUME NEW p
                 PROVE  InTable(u, p) <=> InTable(t, p) /\ p \notin out
      OBVIOUS
    <2>1. ASSUME InTable(u, p)
          PROVE  InTable(t, p) /\ p \notin out
      <3>1. PICK i \in DOMAIN r : p \in ToSet(r[i])
        BY <2>1, <1>8 DEF InTable, Members
      <3>2. PICK l \in DOMAIN q \ K : r[i] = q[l]
        BY <1>2
      <3>3. p \in Members(t, l)
        BY <3>1, <3>2 DEF Members
      <3>4. InTable(t, p) /\ l = JobOf(t, p)
        BY <3>3, <3>2, Where DEF InTable
      <3>5. \A k \in K : p \notin Members(t, k)
        BY <3>4, <3>2, Where
      <3> QED
        BY <3>4, <3>5 DEF out, Out
    <2>2. ASSUME InTable(t, p), p \notin out
          PROVE  InTable(u, p)
      <3>1. PICK l \in DOMAIN q : p \in Members(t, l)
        BY <2>2 DEF InTable
      <3>2. l \notin K
        BY <2>2, <3>1 DEF out, Out
      <3>3. PICK i \in DOMAIN r : r[i] = q[l]
        BY <1>2, <3>2
      <3> QED
        BY <3>1, <3>3, <1>8 DEF InTable, Members
    <2> QED
      BY <2>1, <2>2
  <1>10. u.saved = t.saved \cup {p \in Out(t, K) : "exitsave" \in t.flag[p]}
    BY <1>8 DEF sv, out
  <1>11. \A p \in Procs : u.flag[p] = IF p \in Out(t, K) THEN {} ELSE t.flag[p]
    BY <1>3, <1>5, <1>8 DEF out
  <1> QED
    BY <1>2, <1>8, <1>9, <1>10, <1>11 DEF TableOK, out, u

\* The job that a process joins is in the table.
LEMMA JoinedIs ==
    ASSUME NEW t, TableOK(t), t.pwlist # <<>>, NEW g,
           t.curjob # None => InTable(t, t.curjob)
    PROVE  JoinedJob(t, g) \in DOMAIN t.pwlist
  <1>1. 1 \in DOMAIN t.pwlist
    BY DEF TableOK, ListOK
  <1> QED
    BY <1>1, Where DEF JoinedJob

LEMMA PostIs ==
    ASSUME NEW t, TableOK(t), NEW p \in Procs, ~ InTable(t, p), NEW join,
           t.curjob # None => InTable(t, t.curjob)
    PROVE  LET u == JobPost(t, p, join)
               new == join = None \/ t.pwlist = <<>>
               k == JoinedJob(t, join)
           IN
           /\ TableOK(u) /\ Alike(t, u) /\ u.flag = t.flag /\ u.curpgid = t.curpgid
           /\ 1 \in DOMAIN u.pwlist
           /\ u.pwlist[1] = IF new THEN <<p>> ELSE <<p>> \o t.pwlist[k]
           /\ Members(u, 1) = IF new THEN {p} ELSE {p} \cup Members(t, k)
           /\ \A i \in DOMAIN u.pwlist : i # 1 =>
                 \E l \in DOMAIN t.pwlist : u.pwlist[i] = t.pwlist[l] /\ (~ new => l # k)
           /\ \A x : InTable(u, x) <=> InTable(t, x) \/ x = p
  <1> DEFINE q == t.pwlist
             u == JobPost(t, p, join)
             new == join = None \/ t.pwlist = <<>>
             k == JoinedJob(t, join)
             j == IF new THEN <<p>> ELSE <<p>> \o q[k]
             s == IF new THEN q ELSE RemoveAt(q, k)
             r == <<j>> \o s
  <1>1. t \in Table /\ ListOK(q)
    BY DEF TableOK
  <1>2. ~ new => k \in DOMAIN q
    BY JoinedIs
  <1>3. \A l \in DOMAIN q : p \notin ToSet(q[l])
    BY DEF InTable, Members
  <1> HIDE DEF k
  <1>4. ASSUME ~ new
        PROVE  JobOK(j) /\ ToSet(j) = {p} \cup ToSet(q[k])
    <2> DEFINE c == q[k]
    <2>1. j = <<p>> \o c /\ JobOK(c) /\ p \notin ToSet(c)
      BY <1>1, <1>2, <1>3, <1>4 DEF ListOK
    <2> HIDE DEF c, j
    <2>2. c \in Seq(Procs) /\ Len(c) \in Nat /\ DOMAIN c = 1 .. Len(c)
      BY <2>1 DEF JobOK
    <2>3. <<p>> \in Seq(Procs) /\ Len(<<p>>) = 1 /\ <<p>>[1] = p
      OBVIOUS
    <2>4. /\ j \in Seq(Procs) /\ Len(j) = Len(c) + 1 /\ DOMAIN j = 1 .. Len(c) + 1
          /\ j[1] = p
          /\ \A i \in 1 .. Len(c) + 1 : i # 1 => j[i] = c[i - 1]
      BY <2>1, <2>2, <2>3, ConcatProperties
    <2>5. \A i \in DOMAIN j : i # 1 => i - 1 \in DOMAIN c /\ j[i] = c[i - 1]
      BY <2>2, <2>4
    <2>6. \A i \in DOMAIN c : i + 1 \in DOMAIN j /\ j[i + 1] = c[i]
      <3> TAKE i \in DOMAIN c
      <3>1. i + 1 \in 1 .. Len(c) + 1 /\ i + 1 # 1 /\ (i + 1) - 1 = i
        BY <2>2
      <3> QED
        BY <3>1, <2>4
    <2>7. 1 \in DOMAIN j
      BY <2>2, <2>4
    <2>8. ToSet(j) = {p} \cup ToSet(c)
      BY <2>4, <2>5, <2>6, <2>7 DEF ToSet
    <2>9. \A i, h \in DOMAIN j : j[i] = j[h] => i = h
      <3> SUFFICES ASSUME NEW i \in DOMAIN j, NEW h \in DOMAIN j, j[i] = j[h]
                   PROVE  i = h
        OBVIOUS
      <3>1. i # 1 => j[i] \in ToSet(c)
        BY <2>5 DEF ToSet
      <3>2. h # 1 => j[h] \in ToSet(c)
        BY <2>5 DEF ToSet
      <3>3. CASE i # 1 /\ h # 1
        <4>1. i - 1 = h - 1
          BY <3>3, <2>1, <2>5 DEF JobOK
        <4> QED
          BY <4>1, <2>2, <2>4
      <3> QED
        BY <3>1, <3>2, <3>3, <2>1, <2>4
    <2>10. j # <<>>
      BY <2>2, <2>4
    <2> QED
      BY <2>4, <2>8, <2>9, <2>10 DEF JobOK, c
  <1>5. ASSUME new
        PROVE  JobOK(j) /\ ToSet(j) = {p}
    BY <1>5 DEF JobOK, ToSet
  <1>6. /\ ListOK(s)
        /\ \A i \in DOMAIN s : \E l \in DOMAIN q : s[i] = q[l] /\ (~ new => l # k)
        /\ \A l \in DOMAIN q : (~ new => l # k) => \E i \in DOMAIN s : s[i] = q[l]
        /\ ~ new => \A i \in DOMAIN s : ToSet(s[i]) \cap ToSet(q[k]) = {}
    BY <1>1, <1>2, RemoveJob
  <1> HIDE DEF s, j
  <1>7. \A i \in DOMAIN s : ToSet(s[i]) \cap ToSet(j) = {}
    BY <1>3, <1>4, <1>5, <1>6
  <1>8. /\ ListOK(r) /\ r[1] = j /\ Len(r) = Len(s) + 1
        /\ \A i \in DOMAIN s : i + 1 \in DOMAIN r /\ r[i + 1] = s[i]
        /\ \A i \in DOMAIN r : i # 1 => i - 1 \in DOMAIN s /\ r[i] = s[i - 1]
    BY <1>4, <1>5, <1>6, <1>7, PrependOK
  <1>9. r \in Seq(Seq(Procs))
    BY <1>8 DEF ListOK
  <1>10. 1 \in DOMAIN r
    BY <1>6, <1>8 DEF ListOK
  <1>11. u = [t EXCEPT !.pwlist = r]
    BY <1>1 DEF JobPost, r, s, j, k, Table
  <1> HIDE DEF u, r
  <1>12. u \in Table /\ u.pwlist = r /\ Alike(t, u) /\ u.flag = t.flag /\ u.curpgid = t.curpgid
    BY <1>1, <1>9, <1>11 DEF Alike, Table
  <1>13. \A i \in DOMAIN r : i # 1 => \E l \in DOMAIN q : r[i] = q[l] /\ (~ new => l # k)
    BY <1>6, <1>8
  <1>14. Members(u, 1) = IF new THEN {p} ELSE {p} \cup Members(t, k)
    BY <1>4, <1>5, <1>8, <1>12 DEF Members
  <1>15. \A x : InTable(u, x) <=> InTable(t, x) \/ x = p
    <2> SUFFICES ASSUME NEW x
                 PROVE  InTable(u, x) <=> InTable(t, x) \/ x = p
      OBVIOUS
    <2>1. ASSUME InTable(u, x)
          PROVE  InTable(t, x) \/ x = p
      <3>1. PICK i \in DOMAIN r : x \in Members(u, i) /\ Members(u, i) = ToSet(r[i])
        BY <2>1, <1>12 DEF InTable, Members
      <3>2. CASE i = 1
        BY <3>1, <3>2, <1>2, <1>14 DEF InTable
      <3>3. CASE i # 1
        BY <3>1, <3>3, <1>13 DEF InTable, Members
      <3> QED
        BY <3>2, <3>3
    <2>2. ASSUME InTable(t, x)
          PROVE  InTable(u, x)
      <3>1. PICK l \in DOMAIN q : x \in ToSet(q[l])
        BY <2>2 DEF InTable, Members
      <3>2. CASE ~ new => l # k
        <4>1. PICK i \in DOMAIN s : s[i] = q[l]
          BY <3>2, <1>6
        <4> QED
          BY <4>1, <3>1, <1>8, <1>12 DEF InTable, Members
      <3>3. CASE ~ (~ new => l # k)
        BY <3>1, <3>3, <1>10, <1>12, <1>14 DEF InTable, Members
      <3> QED
        BY <3>2, <3>3
    <2>3. InTable(u, p)
      BY <1>10, <1>12, <1>14 DEF InTable
    <2> QED
      BY <2>1, <2>2, <2>3
  <1>16. u.pwlist[1] = IF new THEN <<p>> ELSE <<p>> \o t.pwlist[k]
    BY <1>8, <1>12 DEF j
  <1> QED
    BY <1>8, <1>10, <1>12, <1>13, <1>14, <1>15, <1>16 DEF TableOK, u, k

\* The same of the other jobs, and of those in the list before.
LEMMA PostOthers ==
    ASSUME NEW t, TableOK(t), NEW p \in Procs, ~ InTable(t, p), NEW join,
           t.curjob # None => InTable(t, t.curjob)
    PROVE  /\ JobPost(t, p, join).curpgid = t.curpgid
           /\ \A i \in DOMAIN JobPost(t, p, join).pwlist : i # 1 =>
                 \E l \in DOMAIN t.pwlist :
                    /\ JobPost(t, p, join).pwlist[i] = t.pwlist[l]
                    /\ join # None /\ t.pwlist # <<>> => l # JoinedJob(t, join)
  <1> DEFINE u == JobPost(t, p, join)
             new == join = None \/ t.pwlist = <<>>
             k == JoinedJob(t, join)
             Others == \A i \in DOMAIN u.pwlist : i # 1 =>
                          \E l \in DOMAIN t.pwlist : u.pwlist[i] = t.pwlist[l] /\ (~ new => l # k)
  <1>1. u.curpgid = t.curpgid /\ Others
    <2> HIDE DEF Others, u
    <2>1. /\ TableOK(u) /\ Alike(t, u) /\ u.flag = t.flag /\ u.curpgid = t.curpgid
          /\ 1 \in DOMAIN u.pwlist
          /\ u.pwlist[1] = IF new THEN <<p>> ELSE <<p>> \o t.pwlist[k]
          /\ Members(u, 1) = IF new THEN {p} ELSE {p} \cup Members(t, k)
          /\ Others
          /\ \A x : InTable(u, x) <=> InTable(t, x) \/ x = p
      BY PostIs DEF Others, u
    <2> QED
      BY <2>1
  <1> HIDE DEF u, k
  <1> QED
    BY <1>1 DEF u, k

----------------------------------------------------------------------------
(* No child is lost.  st and nw are what the kernel knows: the states, and *)
(* the processes that waitpid() can report.                                *)

\* Flags are those of processes in the table; one that is done is dead and has
\* been reaped; a process that can be reaped is in the table, and so is the
\* current job.
Posted(t, st, nw) ==
    /\ TableOK(t)
    /\ \A p \in Procs : t.flag[p] # {} => InTable(t, p)
    /\ \A p \in Procs : "done" \in t.flag[p] => st[p] = "dead" /\ p \notin nw
    /\ \A p \in Procs : InTable(t, p) => st[p] # "unborn"
    /\ \A p \in Procs : st[p] \in {"run", "stop"} \/ p \in nw => InTable(t, p)
    /\ t.curjob # None => InTable(t, t.curjob)

\* A table from which only processes that are done have gone.
LEMMA PostedTo ==
    ASSUME NEW t, NEW st, NEW nw, Posted(t, st, nw), NEW u, TableOK(u),
           \A p : InTable(u, p) => InTable(t, p),
           \A p \in Procs : InTable(t, p) /\ ~ InTable(u, p) =>
                               "done" \in t.flag[p] /\ u.flag[p] = {},
           \A p \in Procs : "done" \in u.flag[p] => "done" \in t.flag[p],
           \A p \in Procs : u.flag[p] # {} => InTable(t, p),
           u.curjob # None => InTable(u, u.curjob)
    PROVE  Posted(u, st, nw)
  <1>1. \A p \in Procs : st[p] \in {"run", "stop"} \/ p \in nw => "done" \notin t.flag[p]
    BY DEF Posted
  <1>2. \A p \in Procs : st[p] \in {"run", "stop"} \/ p \in nw => InTable(u, p)
    BY <1>1 DEF Posted
  <1>3. \A p \in Procs : u.flag[p] # {} => InTable(u, p)
    OBVIOUS
  <1>4. \A p \in Procs : "done" \in u.flag[p] => st[p] = "dead" /\ p \notin nw
    BY DEF Posted
  <1>5. \A p \in Procs : InTable(u, p) => st[p] # "unborn"
    BY DEF Posted
  <1> QED
    BY <1>2, <1>3, <1>4, <1>5 DEF Posted

\* Another list of the same processes, or other fields.
LEMMA PostedAlike ==
    ASSUME NEW t, NEW st, NEW nw, Posted(t, st, nw), NEW u, TableOK(u),
           \A p : InTable(u, p) <=> InTable(t, p),
           u.flag = t.flag, u.curjob = t.curjob
    PROVE  Posted(u, st, nw)
  BY DEF Posted

LEMMA PostedOff ==
    ASSUME NEW t, NEW st, NEW nw, Posted(t, st, nw), NEW P, NEW F
    PROVE  Posted(Off(t, P, F), st, nw)
  <1> DEFINE u == Off(t, P, F)
  <1>1. TableOK(t) /\ t.curjob # None => InTable(t, t.curjob)
    BY DEF Posted
  <1>2. TableOK(u) /\ Alike(t, u) /\ u.pwlist = t.pwlist
    BY OffIs DEF Posted
  <1>3. \A p \in Procs : u.flag[p] \subseteq t.flag[p]
    <2>1. \A p \in Procs : u.flag[p] = IF p \in P THEN t.flag[p] \ F ELSE t.flag[p]
      BY OffIs DEF Posted
    <2> HIDE DEF u
    <2> QED
      BY <2>1
  <1> HIDE DEF u
  <1>4. \A p : InTable(u, p) <=> InTable(t, p)
    BY <1>2, SameList
  <1>5. u.curjob # None => InTable(u, u.curjob)
    BY <1>2, <1>4 DEF Posted, Alike
  <1>6. \A p \in Procs : u.flag[p] # {} => t.flag[p] # {}
    BY <1>3
  <1>7. \A p \in Procs : u.flag[p] # {} => InTable(t, p)
    BY <1>6 DEF Posted
  <1>8. \A p \in Procs : "done" \in u.flag[p] => "done" \in t.flag[p]
    BY <1>3
  <1> QED
    BY <1>2, <1>4, <1>5, <1>7, <1>8, PostedTo DEF u

LEMMA PostedOn ==
    ASSUME NEW t, NEW st, NEW nw, Posted(t, st, nw),
           NEW P, \A p \in P : InTable(t, p), NEW F, F \subseteq Flags \ {"done"}
    PROVE  Posted(On(t, P, F), st, nw)
  <1> DEFINE u == On(t, P, F)
  <1>1. F \subseteq Flags /\ TableOK(t)
    BY DEF Posted
  <1>2. TableOK(u) /\ Alike(t, u) /\ u.pwlist = t.pwlist
    BY <1>1, OnIs
  <1>3. \A p \in Procs : u.flag[p] = IF p \in P THEN t.flag[p] \cup F ELSE t.flag[p]
    BY <1>1, OnIs
  <1> HIDE DEF u
  <1>4. \A p : InTable(u, p) <=> InTable(t, p)
    BY <1>2, SameList
  <1>5. u.curjob # None => InTable(u, u.curjob)
    BY <1>2, <1>4 DEF Posted, Alike
  <1>7. \A p \in Procs : u.flag[p] # {} => InTable(t, p)
    BY <1>3 DEF Posted
  <1>8. \A p \in Procs : "done" \in u.flag[p] => "done" \in t.flag[p]
    BY <1>3
  <1> QED
    BY <1>2, <1>4, <1>5, <1>7, <1>8, PostedTo DEF u

LEMMA PostedFront ==
    ASSUME NEW t, NEW st, NEW nw, Posted(t, st, nw), NEW k \in DOMAIN t.pwlist
    PROVE  Posted(ToFront(t, k), st, nw)
  BY FrontIs, PostedAlike DEF Posted, Alike

\* Jobs that may be dropped.
LEMMA PostedDrop ==
    ASSUME NEW t, NEW st, NEW nw, Posted(t, st, nw), NEW n \in BOOLEAN,
           NEW K, K \subseteq DOMAIN t.pwlist, \A k \in K : MayDrop(t, k, n)
    PROVE  /\ Posted(Drop(t, K), st, nw)
           /\ \A p \in Out(t, K) : "done" \in t.flag[p]
           /\ t.curjob \notin Out(t, K)
  <1> DEFINE u == Drop(t, K)
  <1>1. TableOK(t)
    BY DEF Posted
  <1>2. /\ TableOK(u) /\ u.curjob = t.curjob
        /\ \A p : InTable(u, p) <=> InTable(t, p) /\ p \notin Out(t, K)
    BY <1>1, DropIs
  <1>3. \A p \in Procs : u.flag[p] = IF p \in Out(t, K) THEN {} ELSE t.flag[p]
    BY <1>1, DropIs
  <1>4. \A k \in K : /\ \A p \in Members(t, k) : "done" \in t.flag[p]
                     /\ t.curjob \notin Members(t, k)
    BY <1>1, DropsDone
  <1>5. \A p \in Out(t, K) : "done" \in t.flag[p]
    BY <1>4 DEF Out
  <1>6. t.curjob \notin Out(t, K)
    BY <1>4 DEF Out
  <1> HIDE DEF u
  <1>7. u.curjob # None => InTable(u, u.curjob)
    BY <1>2, <1>6 DEF Posted
  <1>8. \A p \in Procs : InTable(t, p) /\ ~ InTable(u, p) =>
                            "done" \in t.flag[p] /\ u.flag[p] = {}
    BY <1>2, <1>3, <1>5
  <1>9. \A p \in Procs : u.flag[p] # {} => InTable(t, p)
    BY <1>3 DEF Posted
  <1>10. \A p \in Procs : "done" \in u.flag[p] => "done" \in t.flag[p]
    BY <1>3
  <1>11. Posted(u, st, nw)
    BY <1>2, <1>7, <1>8, <1>9, <1>10, PostedTo
  <1> QED
    BY <1>5, <1>6, <1>11 DEF u

LEMMA PostedUnpost ==
    ASSUME NEW t, NEW st, NEW nw, Posted(t, st, nw), NEW n \in BOOLEAN,
           NEW k \in DOMAIN t.pwlist
    PROVE  Posted(Unpost(t, k, n), st, nw)
  <1>1. CASE MayDrop(t, k, n)
    <2>1. Posted(Drop(t, {k}), st, nw)
      BY <1>1, PostedDrop
    <2> QED
      BY <1>1, <2>1 DEF Unpost
  <1> QED
    BY <1>1 DEF Unpost

LEMMA PostedUnpostAll ==
    ASSUME NEW t, NEW st, NEW nw, Posted(t, st, nw)
    PROVE  Posted(UnpostAll(t), st, nw)
  BY PostedDrop DEF UnpostAll

\* Statuses, counts and marks do not matter.
LEMMA PostedFields ==
    ASSUME NEW t, NEW st, NEW nw, Posted(t, st, nw),
           NEW u \in Table, u.pwlist = t.pwlist, u.flag = t.flag, u.curjob = t.curjob
    PROVE  Posted(u, st, nw)
  <1>1. \A p : InTable(u, p) <=> InTable(t, p)
    BY SameList
  <1>2. TableOK(u)
    BY DEF Posted, TableOK
  <1> QED
    BY <1>1, <1>2, PostedAlike

----------------------------------------------------------------------------
(* job_reap() and job_chldtrap().                                          *)

\* u is t with other flags, counts and marks.
Kept(t, u) == /\ u.pwlist = t.pwlist /\ u.saved = t.saved /\ u.curjob = t.curjob
              /\ u.bckpid = t.bckpid /\ u.curpgid = t.curpgid

Due(t) == {Top(t, k) : k \in {k \in DOMAIN t.pwlist :
                                 {"bg", "done"} \subseteq t.flag[Top(t, k)]}}

Trapped(t) == [Off(t, Due(t), {"bg"}) EXCEPT !.trapped = @ \cup Due(t)]

LEMMA TrappedIs ==
    ASSUME NEW t, TableOK(t)
    PROVE  /\ Due(t) \subseteq Procs
           /\ \A p \in Due(t) : InTable(t, p) /\ {"bg", "done"} \subseteq t.flag[p]
           /\ TableOK(Trapped(t)) /\ Kept(t, Trapped(t))
           /\ Trapped(t).numbjob = t.numbjob /\ Trapped(t).note = t.note
           /\ \A p \in Procs : Trapped(t).flag[p] = IF p \in Due(t) THEN t.flag[p] \ {"bg"}
                                                    ELSE t.flag[p]
  <1> DEFINE D == Due(t)
             o == Off(t, D, {"bg"})
             w == Trapped(t)
  <1>1. /\ D \subseteq Procs
        /\ \A p \in D : InTable(t, p) /\ {"bg", "done"} \subseteq t.flag[p]
    BY JobIs DEF Due
  <1> HIDE DEF D
  <1>2. TableOK(o) /\ Alike(t, o) /\ o.pwlist = t.pwlist /\ o.curpgid = t.curpgid
    BY OffIs
  <1>3. \A p \in Procs : o.flag[p] = IF p \in D THEN t.flag[p] \ {"bg"} ELSE t.flag[p]
    BY OffIs
  <1>4. w = [o EXCEPT !.trapped = @ \cup D]
    BY DEF Trapped, D
  <1> HIDE DEF o, w
  <1>5. o \in Table /\ ListOK(o.pwlist)
    BY <1>2 DEF TableOK
  <1>6. /\ w \in Table /\ w.pwlist = o.pwlist /\ w.flag = o.flag /\ w.saved = o.saved
        /\ w.curjob = o.curjob /\ w.bckpid = o.bckpid /\ w.curpgid = o.curpgid
        /\ w.numbjob = o.numbjob /\ w.note = o.note
    BY <1>1, <1>4, <1>5 DEF Table
  <1>7. TableOK(w)
    BY <1>5, <1>6 DEF TableOK
  <1>8. Kept(t, w) /\ w.numbjob = t.numbjob /\ w.note = t.note
    BY <1>2, <1>6 DEF Kept, Alike
  <1>9. \A p \in Procs : w.flag[p] = IF p \in D THEN t.flag[p] \ {"bg"} ELSE t.flag[p]
    BY <1>3, <1>6
  <1> QED
    BY <1>1, <1>7, <1>8, <1>9 DEF D, w

LEMMA ChldtrapIs ==
    ASSUME NEW t, TableOK(t)
    PROVE  /\ JobChldtrap(t, FALSE) = Trapped(t)
           /\ JobChldtrap(t, TRUE) = IF t.bckpid \in Due(t)
                 THEN Unpost(Trapped(t), JobOf(Trapped(t), t.bckpid), FALSE)
                 ELSE Trapped(t)
           /\ t.bckpid \in Due(t) => JobOf(Trapped(t), t.bckpid) \in DOMAIN Trapped(t).pwlist
  <1>1. /\ JobChldtrap(t, FALSE) = Trapped(t)
        /\ JobChldtrap(t, TRUE) = IF t.bckpid \in Due(t)
              THEN Unpost(Trapped(t), JobOf(Trapped(t), t.bckpid), FALSE)
              ELSE Trapped(t)
    BY DEF JobChldtrap, Trapped, Due
  <1>2. ASSUME t.bckpid \in Due(t)
        PROVE  JobOf(Trapped(t), t.bckpid) \in DOMAIN Trapped(t).pwlist
    <2>1. TableOK(Trapped(t)) /\ Trapped(t).pwlist = t.pwlist
      BY TrappedIs DEF Kept
    <2>2. InTable(Trapped(t), t.bckpid)
      BY <1>2, <2>1, TrappedIs, SameList
    <2> QED
      BY <2>1, <2>2, Where
  <1> QED
    BY <1>1, <1>2

\* No process is waiting for its trap.
NoneMissed(t) == \A p \in Procs : ~ ({"bg", "done"} \subseteq t.flag[p])

\* Each job has one process.
Singles(t) == \A k \in DOMAIN t.pwlist : Len(t.pwlist[k]) = 1

\* The end of a background job; where each job has one process, no trap is
\* missed.
LEMMA EndBgIs ==
    ASSUME NEW t, TableOK(t), NEW p \in Procs, NEW sig \in BOOLEAN, chldtrap \in BOOLEAN
    PROVE  LET e == EndBg(t, p, sig) IN
           /\ TableOK(e) /\ Kept(t, e)
           /\ e.numbjob = t.numbjob - 1
           /\ t.note => e.note
           /\ \A q \in Procs : /\ e.flag[q] = t.flag[q] \/ e.flag[q] = t.flag[q] \ {"bg"}
                               /\ q # p /\ e.flag[q] # t.flag[q] => "done" \in t.flag[q]
           /\ /\ Singles(t)
              /\ \A q \in Procs : t.flag[q] # {} => InTable(t, q)
              /\ t.note \/ \A q \in Procs \ {p} : ~ ({"bg", "done"} \subseteq t.flag[q])
              => e.note \/ NoneMissed(e)
  <1> DEFINE u == [t EXCEPT !.numbjob = @ - 1]
             e == EndBg(t, p, sig)
  <1>1. t \in Table /\ ListOK(t.pwlist)
    BY DEF TableOK
  <1>2. /\ u \in Table /\ Kept(t, u) /\ u.flag = t.flag /\ u.numbjob = t.numbjob - 1
        /\ u.note = t.note
    <2> DEFINE n == t.numbjob - 1
    <2>1. n \in Int
      BY <1>1 DEF Table
    <2>2. u = [t EXCEPT !.numbjob = n]
      BY <1>1 DEF Table
    <2> HIDE DEF n, u
    <2>3. u \in Table /\ u.numbjob = n
      BY <1>1, <2>1, <2>2 DEF Table
    <2>4. Kept(t, u) /\ u.flag = t.flag /\ u.note = t.note
      BY <1>1, <2>2 DEF Table, Kept
    <2> QED
      BY <2>3, <2>4 DEF n
  <1>3. TableOK(u)
    BY <1>1, <1>2 DEF TableOK, Kept
  <1>4. e = IF ~chldtrap THEN Off(u, {p}, {"bg"})
            ELSE IF sig THEN [u EXCEPT !.note = TRUE]
            ELSE JobChldtrap(u, FALSE)
    BY DEF EndBg
  <1> HIDE DEF u, e
  <1>5. CASE ~chldtrap
    <2>1. e = Off(u, {p}, {"bg"})
      BY <1>4, <1>5
    <2>2. TableOK(e) /\ Alike(u, e) /\ e.pwlist = u.pwlist /\ e.curpgid = u.curpgid
      BY <2>1, <1>3, OffIs
    <2>3. \A q \in Procs : e.flag[q] = IF q = p THEN u.flag[q] \ {"bg"} ELSE u.flag[q]
      <3> DEFINE P == {p}
                 F == {"bg"}
      <3> HIDE DEF P, F
      <3>1. e = Off(u, P, F)
        BY <2>1 DEF P, F
      <3>2. \A q \in Procs : Off(u, P, F).flag[q] = IF q \in P THEN u.flag[q] \ F ELSE u.flag[q]
        BY <1>3, OffIs
      <3>3. \A q \in Procs : e.flag[q] = IF q \in P THEN u.flag[q] \ F ELSE u.flag[q]
        BY <3>1, <3>2
      <3> QED
        BY <3>3 DEF P, F
    <2>4. Kept(t, e) /\ e.numbjob = t.numbjob - 1 /\ e.note = t.note
      BY <1>2, <2>2 DEF Kept, Alike
    <2> QED
      BY <1>2, <2>2, <2>3, <2>4 DEF e, NoneMissed
  <1>6. CASE chldtrap /\ sig
    <2>1. e = [u EXCEPT !.note = TRUE]
      BY <1>4, <1>6
    <2>2. e \in Table /\ Kept(t, e) /\ e.flag = t.flag /\ e.numbjob = t.numbjob - 1 /\ e.note
      BY <1>2, <2>1 DEF Table, Kept
    <2>3. TableOK(e)
      BY <1>1, <2>2 DEF TableOK, Kept
    <2> QED
      BY <2>2, <2>3 DEF e
  <1>7. CASE chldtrap /\ ~sig
    <2>1. e = Trapped(u)
      BY <1>3, <1>4, <1>7, ChldtrapIs
    <2>2. /\ TableOK(e) /\ Kept(u, e) /\ e.numbjob = u.numbjob /\ e.note = u.note
          /\ \A q \in Due(u) : InTable(u, q) /\ {"bg", "done"} \subseteq u.flag[q]
      BY <1>3, <2>1, TrappedIs
    <2>3. \A q \in Procs : e.flag[q] = IF q \in Due(u) THEN u.flag[q] \ {"bg"} ELSE u.flag[q]
      BY <1>3, <2>1, TrappedIs
    <2>4. Kept(t, e)
      BY <1>2, <2>2 DEF Kept
    <2>5. ASSUME Singles(t), \A q \in Procs : t.flag[q] # {} => InTable(t, q)
          PROVE  NoneMissed(e)
      <3> SUFFICES ASSUME NEW q \in Procs, {"bg", "done"} \subseteq e.flag[q]
                   PROVE  FALSE
        BY DEF NoneMissed
      <3>1. q \notin Due(u) /\ {"bg", "done"} \subseteq u.flag[q]
        BY <2>3
      <3>2. InTable(u, q)
        BY <1>2, <2>5, <3>1, SameList DEF Kept
      <3>3. PICK k \in DOMAIN u.pwlist : q \in Members(u, k)
        BY <3>2 DEF InTable
      <3>4. q = Top(u, k)
        BY <1>2, <1>3, <2>5, <3>3, JobIs DEF Singles, Kept
      <3> QED
        BY <3>1, <3>4 DEF Due
    <2> QED
      BY <1>2, <2>2, <2>3, <2>4, <2>5 DEF e
  <1> QED
    BY <1>5, <1>6, <1>7

LEMMA ExitedIs ==
    ASSUME NEW t, TableOK(t), NEW p \in Procs, NEW sig \in BOOLEAN,
           chldtrap \in BOOLEAN, InTable(t, p)
    PROVE  LET x == ReapExited(t, p, sig) IN
           /\ TableOK(x) /\ Kept(t, x)
           /\ x.numbjob = IF "bg" \in t.flag[p] THEN t.numbjob - 1 ELSE t.numbjob
           /\ t.note => x.note
           /\ "done" \in x.flag[p]
           /\ \A q \in Procs : /\ x.flag[q] \subseteq t.flag[q] \cup {"done", "notify"}
                               /\ q # p => x.flag[q] \subseteq t.flag[q]
                               /\ "exitsave" \in x.flag[q] <=> "exitsave" \in t.flag[q]
                               /\ (q # p /\ "bg" \in t.flag[q] /\ "done" \notin t.flag[q]
                                      => "bg" \in x.flag[q])
           /\ /\ Singles(t)
              /\ \A q \in Procs : t.flag[q] # {} => InTable(t, q)
              /\ t.note \/ NoneMissed(t)
              => x.note \/ NoneMissed(x)
  <1> DEFINE P == {p}
             S == {"stopped"}
             T == {"notify"}
             bg == "bg" \in t.flag[p]
             D == {"done"} \cup (IF bg THEN {"notify"} ELSE {})
             a == Off(t, P, S)
             b == On(a, P, D)
             v == IF bg THEN EndBg(b, p, sig) ELSE b
             x == ReapExited(t, p, sig)
  <1>1. x = IF monitor /\ IsTop(t, p) THEN v ELSE Off(v, P, T)
    BY DEF ReapExited
  <1>2. D \subseteq Flags
    BY DEF Flags
  <1>3. \A q : q \in P <=> q = p
    OBVIOUS
  <1> HIDE DEF P, S, T, D
  <1>4. TableOK(a) /\ Alike(t, a) /\ a.pwlist = t.pwlist /\ a.curpgid = t.curpgid
    BY OffIs
  <1>5. \A q \in Procs : a.flag[q] = IF q \in P THEN t.flag[q] \ S ELSE t.flag[q]
    BY OffIs
  <1> HIDE DEF a
  <1>6. TableOK(b) /\ Alike(a, b) /\ b.pwlist = a.pwlist /\ b.curpgid = a.curpgid
    BY <1>2, <1>4, OnIs
  <1>7. \A q \in Procs : b.flag[q] = IF q \in P THEN a.flag[q] \cup D ELSE a.flag[q]
    BY <1>2, <1>4, OnIs
  <1> HIDE DEF b
  <1>8. Kept(t, b) /\ b.numbjob = t.numbjob /\ b.note = t.note
    BY <1>4, <1>6 DEF Kept, Alike
  <1>9. /\ b.flag[p] = (t.flag[p] \ {"stopped"}) \cup D
        /\ \A q \in Procs : q # p => b.flag[q] = t.flag[q]
    BY <1>3, <1>5, <1>7 DEF S
  <1>10. /\ TableOK(v) /\ Kept(b, v)
         /\ v.numbjob = IF bg THEN b.numbjob - 1 ELSE b.numbjob
         /\ b.note => v.note
         /\ \A q \in Procs : /\ v.flag[q] = b.flag[q] \/ v.flag[q] = b.flag[q] \ {"bg"}
                             /\ q # p /\ v.flag[q] # b.flag[q] => "done" \in b.flag[q]
    <2>1. CASE bg
      <3>1. v = EndBg(b, p, sig)
        BY <2>1
      <3> HIDE DEF v, bg
      <3>2. /\ TableOK(EndBg(b, p, sig)) /\ Kept(b, EndBg(b, p, sig))
            /\ EndBg(b, p, sig).numbjob = b.numbjob - 1
            /\ b.note => EndBg(b, p, sig).note
        BY <1>6, EndBgIs
      <3>3. \A q \in Procs : /\ \/ EndBg(b, p, sig).flag[q] = b.flag[q]
                                \/ EndBg(b, p, sig).flag[q] = b.flag[q] \ {"bg"}
                             /\ (q # p /\ EndBg(b, p, sig).flag[q] # b.flag[q]
                                    => "done" \in b.flag[q])
        BY <1>6, EndBgIs
      <3> QED
        BY <2>1, <3>1, <3>2, <3>3
    <2>2. CASE ~bg
      BY <2>2, <1>6 DEF Kept
    <2> QED
      BY <2>1, <2>2
  <1>11. ASSUME Singles(t), \A q \in Procs : t.flag[q] # {} => InTable(t, q),
                t.note \/ NoneMissed(t)
         PROVE  v.note \/ NoneMissed(v)
    <2>1. Singles(b)
      BY <1>8, <1>11 DEF Singles, Kept
    <2>2. \A q : InTable(b, q) <=> InTable(t, q)
      BY <1>8, SameList DEF Kept
    <2>3. \A q \in Procs : b.flag[q] # {} => InTable(b, q)
      BY <1>9, <1>11, <2>2
    <2>4. b.note \/ \A q \in Procs \ {p} : ~ ({"bg", "done"} \subseteq b.flag[q])
      BY <1>8, <1>9, <1>11 DEF NoneMissed
    <2>5. CASE bg
      <3>1. v = EndBg(b, p, sig)
        BY <2>5
      <3> HIDE DEF v, bg
      <3>2. EndBg(b, p, sig).note \/ NoneMissed(EndBg(b, p, sig))
        BY <1>6, <2>1, <2>3, <2>4, EndBgIs
      <3> QED
        BY <3>1, <3>2
    <2>6. CASE ~bg
      <3>1. "bg" \notin b.flag[p]
        BY <2>6, <1>9 DEF D
      <3> QED
        BY <2>6, <2>4, <3>1 DEF NoneMissed
    <2> QED
      BY <2>5, <2>6
  <1> HIDE DEF v, x
  <1>12. /\ TableOK(x) /\ Kept(v, x) /\ x.numbjob = v.numbjob /\ x.note = v.note
         /\ \A q \in Procs : x.flag[q] = v.flag[q] \/ x.flag[q] = v.flag[q] \ {"notify"}
    <2>1. CASE monitor /\ IsTop(t, p)
      BY <1>1, <1>10, <2>1 DEF Kept
    <2>2. CASE ~ (monitor /\ IsTop(t, p))
      <3>1. x = Off(v, P, T)
        BY <1>1, <2>2
      <3>2. /\ TableOK(Off(v, P, T)) /\ Alike(v, Off(v, P, T))
            /\ Off(v, P, T).pwlist = v.pwlist /\ Off(v, P, T).curpgid = v.curpgid
        BY <1>10, OffIs
      <3>3. \A q \in Procs : Off(v, P, T).flag[q] = IF q \in P THEN v.flag[q] \ T ELSE v.flag[q]
        <4>1. TableOK(v)
          BY <1>10
        <4> QED
          BY <4>1, OffIs
      <3> QED
        BY <3>1, <3>2, <3>3 DEF Kept, Alike, T
    <2> QED
      BY <2>1, <2>2
  <1>13. Kept(t, x)
    BY <1>8, <1>10, <1>12 DEF Kept
  <1>14. x.numbjob = IF "bg" \in t.flag[p] THEN t.numbjob - 1 ELSE t.numbjob
    BY <1>8, <1>10, <1>12
  <1>15. t.note => x.note
    BY <1>8, <1>10, <1>12
  <1>16. "done" \in x.flag[p]
    BY <1>9, <1>10, <1>12 DEF D
  <1>17. ASSUME NEW q \in Procs
         PROVE  /\ x.flag[q] \subseteq t.flag[q] \cup {"done", "notify"}
                /\ q # p => x.flag[q] \subseteq t.flag[q]
                /\ "exitsave" \in x.flag[q] <=> "exitsave" \in t.flag[q]
                /\ (q # p /\ "bg" \in t.flag[q] /\ "done" \notin t.flag[q]
                       => "bg" \in x.flag[q])
    <2>1. CASE q = p
      BY <2>1, <1>9, <1>10, <1>12 DEF D
    <2>2. CASE q # p
      BY <2>2, <1>9, <1>10, <1>12
    <2> QED
      BY <2>1, <2>2
  <1>18. ASSUME Singles(t), \A q \in Procs : t.flag[q] # {} => InTable(t, q),
                t.note \/ NoneMissed(t)
         PROVE  x.note \/ NoneMissed(x)
    BY <1>11, <1>12, <1>18 DEF NoneMissed
  <1> QED
    BY <1>12, <1>13, <1>14, <1>15, <1>16, <1>17, <1>18 DEF x

LEMMA StoppedIs ==
    ASSUME NEW t, TableOK(t), NEW p \in Procs, InTable(t, p)
    PROVE  LET x == ReapStopped(t, p) IN
           /\ TableOK(x) /\ x.curjob = t.curjob /\ x.note = t.note
           /\ x.curpgid = t.curpgid \/ x.curpgid = None
           /\ \A q : InTable(x, q) <=> InTable(t, q)
           /\ \A q \in Procs : x.flag[q] = IF q = p THEN t.flag[q] \cup {"notify", "stopped", "bg"}
                                           ELSE t.flag[q]
           /\ Singles(t) => Singles(x)
  <1> DEFINE P == {p}
             F == {"notify", "stopped", "bg"}
             u == On(t, P, F)
             k == JobOf(t, p)
             x == ReapStopped(t, p)
  <1>1. x = ToFront(u, k)
    BY DEF ReapStopped
  <1>2. F \subseteq Flags
    BY DEF Flags
  <1> HIDE DEF P, F
  <1>3. TableOK(u) /\ Alike(t, u) /\ u.pwlist = t.pwlist /\ u.curpgid = t.curpgid
    BY <1>2, OnIs
  <1>4. \A q \in Procs : u.flag[q] = IF q \in P THEN t.flag[q] \cup F ELSE t.flag[q]
    BY <1>2, OnIs
  <1> HIDE DEF u, k, x
  <1>5. k \in DOMAIN u.pwlist
    BY <1>3, Where DEF k
  <1>6. /\ TableOK(ToFront(u, k)) /\ Alike(u, ToFront(u, k)) /\ ToFront(u, k).flag = u.flag
        /\ ToFront(u, k).curpgid = IF k = 1 THEN None ELSE u.curpgid
        /\ \A i \in DOMAIN ToFront(u, k).pwlist :
              \E l \in DOMAIN u.pwlist : ToFront(u, k).pwlist[i] = u.pwlist[l]
        /\ \A q : InTable(ToFront(u, k), q) <=> InTable(u, q)
    BY <1>3, <1>5, FrontIs
  <1>7. \A q : InTable(u, q) <=> InTable(t, q)
    BY <1>3, SameList
  <1>8. Singles(t) => Singles(x)
    BY <1>1, <1>3, <1>6 DEF Singles
  <1>9. \A q \in Procs : u.flag[q] = IF q = p THEN t.flag[q] \cup {"notify", "stopped", "bg"}
                                     ELSE t.flag[q]
    BY <1>4 DEF P, F
  <1>10. x.curjob = t.curjob /\ x.note = t.note
    BY <1>1, <1>3, <1>6 DEF Alike
  <1> QED
    BY <1>1, <1>3, <1>6, <1>7, <1>8, <1>9, <1>10 DEF x

----------------------------------------------------------------------------
(* A script: no process groups, no jobs of several processes, no missed    *)
(* trap.  Good(t, st, nw) is what every operation keeps of the table.      *)

InScript(t) == t.curpgid = None /\ Singles(t) /\ (t.note \/ NoneMissed(t))

Good(t, st, nw) == Posted(t, st, nw) /\ (~ monitor => InScript(t))

LEMMA ScriptTo ==
    ASSUME NEW t, InScript(t), NEW u, u.curpgid = None, u.note = t.note,
           \A i \in DOMAIN u.pwlist : \E l \in DOMAIN t.pwlist : u.pwlist[i] = t.pwlist[l],
           \A p \in Procs : {"bg", "done"} \subseteq u.flag[p] => {"bg", "done"} \subseteq t.flag[p]
    PROVE  InScript(u)
  BY DEF InScript, Singles, NoneMissed

LEMMA GoodOff ==
    ASSUME NEW t, NEW st, NEW nw, Good(t, st, nw), NEW P, NEW F
    PROVE  /\ Good(Off(t, P, F), st, nw)
           /\ Off(t, P, F).pwlist = t.pwlist /\ Off(t, P, F).curjob = t.curjob
           /\ \A p : InTable(Off(t, P, F), p) <=> InTable(t, p)
  <1> DEFINE u == Off(t, P, F)
  <1>0. Posted(t, st, nw) /\ TableOK(t)
    BY DEF Good, Posted
  <1>1. TableOK(t) /\ Posted(u, st, nw)
    BY <1>0, PostedOff
  <1>2. Alike(t, u) /\ u.pwlist = t.pwlist /\ u.curpgid = t.curpgid
    BY <1>1, OffIs
  <1>3. \A p \in Procs : u.flag[p] = IF p \in P THEN t.flag[p] \ F ELSE t.flag[p]
    BY <1>1, OffIs
  <1> HIDE DEF u
  <1>4. InScript(t) => InScript(u)
    BY <1>2, <1>3, ScriptTo DEF InScript, Alike
  <1> QED
    BY <1>1, <1>2, <1>4, SameList DEF Good, Alike, u

LEMMA GoodOn ==
    ASSUME NEW t, NEW st, NEW nw, Good(t, st, nw),
           NEW P, \A p \in P : InTable(t, p), NEW F, F \subseteq Flags \ {"done", "bg"}
    PROVE  /\ Good(On(t, P, F), st, nw)
           /\ On(t, P, F).pwlist = t.pwlist /\ On(t, P, F).curjob = t.curjob
           /\ \A p : InTable(On(t, P, F), p) <=> InTable(t, p)
  <1> DEFINE u == On(t, P, F)
  <1>0. Posted(t, st, nw) /\ TableOK(t) /\ F \subseteq Flags \ {"done"}
    BY DEF Good, Posted
  <1>1. TableOK(t) /\ Posted(u, st, nw) /\ F \subseteq Flags
    BY <1>0, PostedOn
  <1>2. Alike(t, u) /\ u.pwlist = t.pwlist /\ u.curpgid = t.curpgid
    BY <1>1, OnIs
  <1>3. \A p \in Procs : u.flag[p] = IF p \in P THEN t.flag[p] \cup F ELSE t.flag[p]
    BY <1>1, OnIs
  <1> HIDE DEF u
  <1>4. \A p \in Procs : {"bg", "done"} \subseteq u.flag[p] => {"bg", "done"} \subseteq t.flag[p]
    BY <1>3
  <1>5. InScript(t) => InScript(u)
    BY <1>2, <1>4, ScriptTo DEF InScript, Alike
  <1> QED
    BY <1>1, <1>2, <1>5, SameList DEF Good, Alike, u

LEMMA GoodDrop ==
    ASSUME NEW t, NEW st, NEW nw, Good(t, st, nw), NEW n \in BOOLEAN,
           NEW K, K \subseteq DOMAIN t.pwlist, \A k \in K : MayDrop(t, k, n)
    PROVE  Good(Drop(t, K), st, nw) /\ Drop(t, K).curjob = t.curjob
  <1> DEFINE u == Drop(t, K)
  <1>0. Posted(t, st, nw) /\ TableOK(t)
    BY DEF Good, Posted
  <1>1. TableOK(t) /\ Posted(u, st, nw)
    BY <1>0, PostedDrop
  <1>2. /\ u.note = t.note /\ u.curpgid = IF 1 \in K THEN None ELSE t.curpgid
        /\ u.curjob = t.curjob
        /\ \A i \in DOMAIN u.pwlist : \E l \in DOMAIN t.pwlist \ K : u.pwlist[i] = t.pwlist[l]
    BY <1>1, DropIs
  <1>3. \A p \in Procs : u.flag[p] = IF p \in Out(t, K) THEN {} ELSE t.flag[p]
    BY <1>1, DropIs
  <1> HIDE DEF u
  <1>4. \A p \in Procs : {"bg", "done"} \subseteq u.flag[p] => {"bg", "done"} \subseteq t.flag[p]
    BY <1>3
  <1>5. InScript(t) => InScript(u)
    BY <1>2, <1>4, ScriptTo DEF InScript
  <1> QED
    BY <1>1, <1>2, <1>5 DEF Good, u

LEMMA GoodUnpost ==
    ASSUME NEW t, NEW st, NEW nw, Good(t, st, nw), NEW n \in BOOLEAN,
           NEW k \in DOMAIN t.pwlist
    PROVE  Good(Unpost(t, k, n), st, nw) /\ Unpost(t, k, n).curjob = t.curjob
  <1>1. CASE MayDrop(t, k, n)
    <2>1. Good(Drop(t, {k}), st, nw) /\ Drop(t, {k}).curjob = t.curjob
      BY <1>1, GoodDrop
    <2> QED
      BY <1>1, <2>1 DEF Unpost
  <1> QED
    BY <1>1 DEF Unpost

LEMMA GoodUnpostAll ==
    ASSUME NEW t, NEW st, NEW nw, Good(t, st, nw)
    PROVE  Good(UnpostAll(t), st, nw) /\ UnpostAll(t).curjob = t.curjob
  BY GoodDrop DEF UnpostAll

\* Statuses and counts do not matter, nor does a group that is forgotten.
LEMMA GoodFields ==
    ASSUME NEW t, NEW st, NEW nw, Good(t, st, nw),
           NEW u \in Table, u.pwlist = t.pwlist, u.flag = t.flag, u.curjob = t.curjob,
           ~ monitor => u.curpgid = None /\ u.note = t.note
    PROVE  /\ Good(u, st, nw)
           /\ \A p : InTable(u, p) <=> InTable(t, p)
  <1>1. Posted(u, st, nw)
    BY PostedFields DEF Good
  <1>2. ~ monitor => InScript(u)
    BY ScriptTo DEF Good
  <1> QED
    BY <1>1, <1>2, SameList DEF Good

\* SIGCONT: a process that was stopped runs again, and can be reaped.
LEMMA GoodResume ==
    ASSUME NEW t, Good(t, state, news), NEW P, P \subseteq Procs, Resume(P),
           state \in [Procs -> {"unborn", "run", "stop", "dead"}], news \subseteq Procs
    PROVE  /\ Good(t, state', news')
           /\ state' \in [Procs -> {"unborn", "run", "stop", "dead"}]
           /\ news' \subseteq Procs
           /\ pgrp' = pgrp
  <1>1. /\ state' = [p \in Procs |-> IF p \in P /\ state[p] = "stop" THEN "run" ELSE state[p]]
        /\ news' = news \cup {p \in P : state[p] = "stop"}
        /\ pgrp' = pgrp
    BY DEF Resume
  <1>2. Posted(t, state', news')
    <2>1. \A p \in Procs : state'[p] = IF p \in P /\ state[p] = "stop" THEN "run" ELSE state[p]
      BY <1>1
    <2>2. \A p \in Procs : p \in news' <=> p \in news \/ (p \in P /\ state[p] = "stop")
      BY <1>1
    <2>3. \A p \in Procs : state'[p] \in {"run", "stop"} \/ p \in news' =>
                           state[p] \in {"run", "stop"} \/ p \in news
      BY <2>1, <2>2
    <2>4. \A p \in Procs : state[p] = "dead" /\ p \notin news => state'[p] = "dead" /\ p \notin news'
      BY <2>1, <2>2
    <2>5. \A p \in Procs : state[p] # "unborn" => state'[p] # "unborn"
      BY <2>1
    <2> QED
      BY <2>3, <2>4, <2>5 DEF Good, Posted
  <1> QED
    BY <1>1, <1>2 DEF Good

LEMMA UnstopGood ==
    ASSUME NEW t, Good(t, state, news), NEW k, Unstop(t, k),
           state \in [Procs -> {"unborn", "run", "stop", "dead"}], news \subseteq Procs
    PROVE  /\ Good(job', state', news')
           /\ state' \in [Procs -> {"unborn", "run", "stop", "dead"}]
           /\ news' \subseteq Procs
           /\ pgrp' = pgrp /\ job'.curjob = t.curjob
           /\ \A p : InTable(job', p) <=> InTable(t, p)
  <1> DEFINE S == {p \in Members(t, k) : "stopped" \in t.flag[p]}
             F == {"stopped", "notify"}
             G == IF S = {} THEN {} ELSE Group(pgrp[Top(t, k)])
  <1>1. job' = Off(t, S, F) /\ Resume(G)
    BY DEF Unstop
  <1>2. G \subseteq Procs
    BY DEF Group, Live
  <1> HIDE DEF S, F, G
  <1>3. /\ Good(Off(t, S, F), state, news) /\ Off(t, S, F).curjob = t.curjob
        /\ \A p : InTable(Off(t, S, F), p) <=> InTable(t, p)
    BY GoodOff
  <1>4. /\ Good(job', state, news) /\ job'.curjob = t.curjob
        /\ \A p : InTable(job', p) <=> InTable(t, p)
    BY <1>1, <1>3
  <1> QED
    BY <1>1, <1>2, <1>4, GoodResume

----------------------------------------------------------------------------
(* The first layer of the inductive invariant: the table is good, and the  *)
(* process that is waited for is in it.                                    *)

States == {"unborn", "run", "stop", "dead"}

Types ==
    /\ monitor \in BOOLEAN /\ chldtrap \in BOOLEAN
    /\ state \in [Procs -> States] /\ news \subseteq Procs
    /\ pgrp \in [Procs -> Procs \cup {None}]
    /\ pc \in Points /\ wpid \in Procs \cup {None}
    /\ savepgid \in Procs \cup {None}
    /\ amp \subseteq Procs /\ asked \subseteq Procs /\ stopped \subseteq Procs
    /\ moved \in BOOLEAN

\* Where a pipeline is being run, and its job is the current one.
Running == {"pipe", "forklast", "last", "end"}

Core ==
    /\ Types
    /\ Good(job, state, news)
    /\ pc \notin Running => job.curjob = None
    /\ pc \in Waits \cup {"fork", "forklast"} => wpid \in Procs /\ InTable(job, wpid)
    /\ ~ monitor => savepgid = None

\* What Core says of the table.
LEMMA CoreTable ==
    ASSUME Core
    PROVE  /\ Types /\ TableOK(job) /\ job \in Table /\ Posted(job, state, news)
           /\ \A p \in Procs : job.flag[p] \subseteq Flags
           /\ \A p \in Procs : job.flag[p] # {} => InTable(job, p)
           /\ job.curpgid \in Procs \cup {None} /\ job.curjob \in Procs \cup {None}
           /\ ~ monitor => job.curpgid = None
  <1>1. Types /\ Good(job, state, news)
    BY DEF Core
  <1>2. Posted(job, state, news) /\ (~ monitor => job.curpgid = None)
    BY <1>1 DEF Good, InScript
  <1>3. TableOK(job) /\ \A p \in Procs : job.flag[p] # {} => InTable(job, p)
    BY <1>2 DEF Posted
  <1>4. job \in Table
    BY <1>3 DEF TableOK
  <1>5. job.flag \in [Procs -> SUBSET Flags]
    BY <1>4 DEF Table
  <1>6. job.curpgid \in Procs \cup {None} /\ job.curjob \in Procs \cup {None}
    BY <1>4 DEF Table
  <1> QED
    BY <1>1, <1>2, <1>3, <1>4, <1>5, <1>6

\* A new process is put in the table.
LEMMA ForkIs ==
    ASSUME Core, NEW p \in Procs, NEW join \in Procs \cup {None},
           NEW flags, flags \subseteq Flags \ {"done"}, NEW cur \in {p, job.curjob},
           Fork(p, join, flags, cur)
    PROVE  LET g == IF join # None /\ Group(join) # {} THEN join ELSE p IN
           /\ TableOK(job') /\ job'.pwlist = JobPost(job, p, join).pwlist
           /\ job'.flag[p] = flags
           /\ \A q \in Procs : q # p => job'.flag[q] = job.flag[q]
           /\ job'.saved = job.saved /\ job'.curjob = cur /\ job'.note = job.note
           /\ job'.curpgid = IF "bg" \notin flags /\ monitor THEN g ELSE job.curpgid
           /\ job'.numbjob = IF "bg" \in flags THEN job.numbjob + 1 ELSE job.numbjob
           /\ ~ InTable(job, p) /\ job.flag[p] = {} /\ state[p] = "unborn" /\ p \notin news
           /\ \A q : InTable(job', q) <=> InTable(job, q) \/ q = p
           /\ state' = [state EXCEPT ![p] = "run"] /\ news' = news
           /\ state' \in [Procs -> States] /\ pgrp' \in [Procs -> Procs \cup {None}]
           /\ monitor' = monitor /\ chldtrap' = chldtrap
  <1> DEFINE g == IF join # None /\ Group(join) # {} THEN join ELSE p
             P == {p}
             u == JobPost(job, p, join)
             o == On(u, P, flags)
             pg == IF "bg" \notin flags /\ monitor THEN g ELSE job.curpgid
             nj == IF "bg" \in flags THEN job.numbjob + 1 ELSE job.numbjob
             bp == IF "bg" \in flags THEN p ELSE job.bckpid
  <1>1. /\ Types /\ TableOK(job) /\ job \in Table /\ Posted(job, state, news)
        /\ \A q \in Procs : job.flag[q] # {} => InTable(job, q)
    BY CoreTable
  <1>2. /\ state[p] = "unborn"
        /\ state' = [state EXCEPT ![p] = "run"]
        /\ pgrp' = [pgrp EXCEPT ![p] = IF monitor THEN g ELSE None]
        /\ monitor' = monitor /\ chldtrap' = chldtrap /\ news' = news
        /\ job' = [o EXCEPT !.curjob = cur,
                            !.curpgid = IF "bg" \notin flags /\ monitor THEN g ELSE @,
                            !.numbjob = IF "bg" \in flags THEN @ + 1 ELSE @,
                            !.bckpid = IF "bg" \in flags THEN p ELSE @]
    BY DEF Fork
  <1>3. ~ InTable(job, p) /\ job.flag[p] = {} /\ p \notin news
    BY <1>1, <1>2 DEF Posted
  <1>4. job.curjob # None => InTable(job, job.curjob)
    BY <1>1 DEF Posted
  <1>5. /\ TableOK(u) /\ Alike(job, u) /\ u.flag = job.flag /\ u.curpgid = job.curpgid
        /\ \A x : InTable(u, x) <=> InTable(job, x) \/ x = p
    <2>0. TableOK(job) /\ ~ InTable(job, p)
      BY <1>1, <1>3
    <2>1. TableOK(u) /\ Alike(job, u)
      BY <2>0, <1>4, PostIs
    <2>2. u.flag = job.flag
      BY <2>0, <1>4, PostIs
    <2>4. u.curpgid = job.curpgid
      BY <2>0, <1>4, PostOthers
    <2>3. \A x : InTable(u, x) <=> InTable(job, x) \/ x = p
      BY <2>0, <1>4, PostIs
    <2> QED
      BY <2>1, <2>2, <2>3, <2>4
  <1> HIDE DEF u, P
  <1>6. flags \subseteq Flags
    OBVIOUS
  <1>7. TableOK(o) /\ Alike(u, o) /\ o.pwlist = u.pwlist /\ o.curpgid = u.curpgid
    BY <1>5, <1>6, OnIs
  <1>8. \A q \in Procs : o.flag[q] = IF q \in P THEN u.flag[q] \cup flags ELSE u.flag[q]
    BY <1>5, <1>6, OnIs
  <1> HIDE DEF o
  <1>9. o \in Table /\ o.curpgid = job.curpgid /\ o.numbjob = job.numbjob /\ o.bckpid = job.bckpid
    BY <1>5, <1>7 DEF TableOK, Alike
  <1>10. g \in Procs
    OBVIOUS
  <1> HIDE DEF g
  <1>11. cur \in Procs \cup {None} /\ pg \in Procs \cup {None} /\ bp \in Procs \cup {None}
    BY <1>1, <1>10 DEF Table
  <1>12. nj \in Int
    <2>1. job.numbjob \in Int
      BY <1>1 DEF Table
    <2> QED
      BY <2>1
  <1>13. job' = [o EXCEPT !.curjob = cur, !.curpgid = pg, !.numbjob = nj, !.bckpid = bp]
    BY <1>2, <1>9 DEF Table
  <1> HIDE DEF pg, nj, bp
  <1>14. /\ job' \in Table /\ job'.pwlist = o.pwlist /\ job'.flag = o.flag
         /\ job'.saved = o.saved /\ job'.curjob = cur /\ job'.curpgid = pg
         /\ job'.numbjob = nj /\ job'.bckpid = bp /\ job'.note = o.note
    BY <1>9, <1>11, <1>12, <1>13 DEF Table
  <1>15. TableOK(job') /\ job'.pwlist = u.pwlist
    BY <1>7, <1>14 DEF TableOK
  <1>16. /\ job'.flag[p] = flags
         /\ \A q \in Procs : q # p => job'.flag[q] = job.flag[q]
    BY <1>3, <1>5, <1>8, <1>14 DEF P
  <1>17. job'.saved = job.saved /\ job'.note = job.note
    BY <1>5, <1>7, <1>14 DEF Alike
  <1>18. \A q : InTable(job', q) <=> InTable(job, q) \/ q = p
    BY <1>5, <1>15, SameList
  <1>19. state' \in [Procs -> States]
    BY <1>1, <1>2 DEF Types, States
  <1>20. pgrp' \in [Procs -> Procs \cup {None}]
    BY <1>1, <1>2, <1>10 DEF Types
  <1> QED
    BY <1>2, <1>3, <1>14, <1>15, <1>16, <1>17, <1>18, <1>19, <1>20 DEF u, pg, nj, g

LEMMA ForkGood ==
    ASSUME Core, NEW p \in Procs, NEW join \in Procs \cup {None},
           NEW flags, flags \subseteq Flags \ {"done"}, NEW cur \in {p, job.curjob},
           Fork(p, join, flags, cur), ~ monitor => join = None
    PROVE  Good(job', state', news')
  <1> DEFINE u == JobPost(job, p, join)
  <1>1. /\ Types /\ TableOK(job) /\ Posted(job, state, news)
        /\ ~ monitor => InScript(job)
    BY CoreTable DEF Core, Good
  <1>2. /\ TableOK(job') /\ job'.pwlist = u.pwlist
        /\ job'.flag[p] = flags
        /\ \A q \in Procs : q # p => job'.flag[q] = job.flag[q]
        /\ job'.curjob = cur /\ job'.note = job.note
        /\ monitor' = monitor
        /\ ~ monitor => job'.curpgid = job.curpgid
    BY ForkIs
  <1>3. /\ ~ InTable(job, p) /\ job.flag[p] = {} /\ p \notin news
        /\ \A q : InTable(job', q) <=> InTable(job, q) \/ q = p
        /\ state' = [state EXCEPT ![p] = "run"] /\ news' = news
    BY ForkIs
  <1>4. Posted(job', state', news')
    <2>1. state'[p] = "run" /\ \A q \in Procs : q # p => state'[q] = state[q]
      BY <1>1, <1>3 DEF Types
    <2>2. \A q \in Procs : job'.flag[q] # {} => InTable(job', q)
      BY <1>1, <1>2, <1>3 DEF Posted
    <2>3. \A q \in Procs : "done" \in job'.flag[q] => state'[q] = "dead" /\ q \notin news'
      BY <1>1, <1>2, <1>3, <2>1 DEF Posted
    <2>4. \A q \in Procs : InTable(job', q) => state'[q] # "unborn"
      BY <1>1, <1>3, <2>1 DEF Posted
    <2>5. \A q \in Procs : state'[q] \in {"run", "stop"} \/ q \in news' => InTable(job', q)
      BY <1>1, <1>3, <2>1 DEF Posted
    <2>6. job'.curjob # None => InTable(job', job'.curjob)
      BY <1>1, <1>2, <1>3 DEF Posted
    <2> QED
      BY <1>2, <2>2, <2>3, <2>4, <2>5, <2>6 DEF Posted
  <1>5. ASSUME ~ monitor
        PROVE  InScript(job')
    <2>1. InScript(job) /\ join = None
      BY <1>1, <1>5
    <2>2. job.curjob # None => InTable(job, job.curjob)
      BY <1>1 DEF Posted
    <2>3. u.pwlist[1] = <<p>>
      <3>1. TableOK(job) /\ ~ InTable(job, p) /\ InScript(job)
        BY <1>1, <1>3, <2>1
      <3>2. u.pwlist[1] = IF join = None \/ job.pwlist = <<>> THEN <<p>>
                          ELSE <<p>> \o job.pwlist[JoinedJob(job, join)]
        BY <3>1, <2>2, PostIs
      <3> QED
        BY <2>1, <3>2
    <2>7. \A i \in DOMAIN u.pwlist : i # 1 =>
             \E l \in DOMAIN job.pwlist : u.pwlist[i] = job.pwlist[l]
      <3>1. TableOK(job) /\ ~ InTable(job, p)
        BY <1>1, <1>3
      <3> QED
        BY <3>1, <2>2, PostOthers
    <2> HIDE DEF u
    <2>4. Singles(job')
      BY <1>2, <2>1, <2>3, <2>7 DEF Singles, InScript
    <2>5. job'.note \/ NoneMissed(job')
      BY <1>2, <2>1 DEF NoneMissed, InScript
    <2> QED
      BY <1>2, <1>5, <2>1, <2>4, <2>5 DEF InScript
  <1> QED
    BY <1>2, <1>4, <1>5 DEF Good

LEMMA GoodFewer ==
    ASSUME NEW t, NEW st, NEW nw, Good(t, st, nw), NEW nv, nv \subseteq nw
    PROVE  Good(t, st, nv)
  BY DEF Good, Posted

\* waitpid() returned p.
LEMMA ReapGood ==
    ASSUME Core, NEW p \in Procs, NEW sig \in BOOLEAN, Reap(p, sig)
    PROVE  /\ Good(job', state, news \ {p}) /\ job'.curjob = job.curjob
           /\ \A q : InTable(job', q) <=> InTable(job, q)
  <1> DEFINE nv == news \ {p}
             t == CASE state[p] = "stop" -> ReapStopped(job, p)
                    [] state[p] = "run"  -> ReapContinued(job, p)
                    [] state[p] = "dead" -> ReapExited(job, p, sig)
  <1>1. /\ Types /\ TableOK(job) /\ job \in Table /\ Posted(job, state, news)
        /\ Good(job, state, news)
        /\ \A q \in Procs : job.flag[q] # {} => InTable(job, q)
    BY CoreTable DEF Core
  <1>2. /\ p \in news
        /\ job' = IF Live = {p} /\ state[p] = "dead" THEN [t EXCEPT !.numbjob = 0] ELSE t
    BY DEF Reap
  <1>3. InTable(job, p) /\ state[p] \in {"stop", "run", "dead"} /\ "done" \notin job.flag[p]
    BY <1>1, <1>2 DEF Posted, Types, States
  <1>4. Good(job, state, nv)
    BY <1>1, GoodFewer
  <1>5. /\ TableOK(t) /\ Good(t, state, nv) /\ t.curjob = job.curjob
        /\ \A q : InTable(t, q) <=> InTable(job, q)
    <2>1. CASE state[p] = "stop"
      <3> DEFINE x == ReapStopped(job, p)
      <3>1. t = x
        BY <2>1
      <3> HIDE DEF t, x
      <3>2. /\ TableOK(x) /\ x.curjob = job.curjob /\ x.note = job.note
            /\ x.curpgid = job.curpgid \/ x.curpgid = None
        BY <1>1, <1>3, StoppedIs DEF x
      <3>3. \A q : InTable(x, q) <=> InTable(job, q)
        BY <1>1, <1>3, StoppedIs DEF x
      <3>4. \A q \in Procs : x.flag[q] = IF q = p THEN job.flag[q] \cup {"notify", "stopped", "bg"}
                                         ELSE job.flag[q]
        BY <1>1, <1>3, StoppedIs DEF x
      <3>5. Singles(job) => Singles(x)
        BY <1>1, <1>3, StoppedIs DEF x
      <3>6. \A q \in Procs : "done" \in x.flag[q] => "done" \in job.flag[q] /\ q # p
        <4>1. x.flag[p] = job.flag[p] \cup {"notify", "stopped", "bg"}
          BY <3>4
        <4>2. "done" \notin x.flag[p]
          BY <4>1, <1>3
        <4> QED
          BY <4>2, <3>4
      <3>7. \A q \in Procs : x.flag[q] # {} => InTable(job, q)
        BY <1>1, <1>3, <3>4
      <3>8. x.curjob # None => InTable(x, x.curjob)
        BY <1>1, <3>2, <3>3 DEF Posted
      <3>9. Posted(x, state, nv)
        <4>1. Posted(job, state, nv)
          BY <1>4 DEF Good
        <4> QED
          BY <4>1, <3>2, <3>3, <3>6, <3>7, <3>8, PostedTo
      <3>10. NoneMissed(job) => NoneMissed(x)
        BY <3>4, <3>6 DEF NoneMissed
      <3>11. ~ monitor => InScript(x)
        BY <1>4, <3>2, <3>5, <3>10 DEF Good, InScript
      <3> QED
        BY <3>1, <3>2, <3>3, <3>9, <3>11 DEF Good
    <2>2. CASE state[p] = "run"
      <3>1. t = Off(job, {p}, {"notify", "stopped"})
        BY <2>2 DEF ReapContinued
      <3> HIDE DEF t
      <3> DEFINE x == Off(job, {p}, {"notify", "stopped"})
      <3>2. /\ Good(x, state, nv)
            /\ \A q : InTable(x, q) <=> InTable(job, q)
        BY <1>4, GoodOff
      <3>3. TableOK(x) /\ Alike(job, x)
        BY <1>1, OffIs
      <3> QED
        BY <3>1, <3>2, <3>3 DEF Alike
    <2>3. CASE state[p] = "dead"
      <3> DEFINE x == ReapExited(job, p, sig)
      <3>0. t = x
        BY <2>3
      <3> HIDE DEF t, x
      <3>1. chldtrap \in BOOLEAN
        BY <1>1 DEF Types
      <3>2. TableOK(x) /\ Kept(job, x)
        BY <1>1, <1>3, <3>1, ExitedIs DEF x
      <3>3. \A q \in Procs : /\ x.flag[q] \subseteq job.flag[q] \cup {"done", "notify"}
                             /\ q # p => x.flag[q] \subseteq job.flag[q]
        BY <1>1, <1>3, <3>1, ExitedIs DEF x
      <3>4. Singles(job) /\ (job.note \/ NoneMissed(job)) => x.note \/ NoneMissed(x)
        BY <1>1, <1>3, <3>1, ExitedIs DEF x
      <3>5. \A q : InTable(x, q) <=> InTable(job, q)
        BY <3>2, SameList DEF Kept
      <3>6. \A q \in Procs : x.flag[q] # {} => InTable(x, q)
        BY <1>1, <1>3, <3>3, <3>5
      <3>7. \A q \in Procs : "done" \in x.flag[q] => state[q] = "dead" /\ q \notin nv
        BY <1>1, <2>3, <3>3 DEF Posted
      <3>8. x.curjob = job.curjob /\ x.curpgid = job.curpgid /\ x.pwlist = job.pwlist
        BY <3>2 DEF Kept
      <3>9. Posted(x, state, nv)
        BY <1>1, <3>2, <3>5, <3>6, <3>7, <3>8 DEF Posted
      <3>10. ~ monitor => InScript(x)
        BY <1>4, <3>4, <3>8 DEF Good, InScript, Singles
      <3> QED
        BY <3>0, <3>2, <3>5, <3>8, <3>9, <3>10 DEF Good
    <2> QED
      BY <1>3, <2>1, <2>2, <2>3
  <1> HIDE DEF t, nv
  <1>6. CASE job' = t
    BY <1>5, <1>6 DEF nv
  <1>7. CASE job' = [t EXCEPT !.numbjob = 0]
    <2>1. t \in Table /\ (~ monitor => t.curpgid = None)
      BY <1>5 DEF TableOK, Good, InScript
    <2>2. /\ job' \in Table /\ job'.pwlist = t.pwlist /\ job'.flag = t.flag
          /\ job'.curjob = t.curjob /\ job'.curpgid = t.curpgid /\ job'.note = t.note
      <3> DEFINE n == 0
      <3>1. n \in Int /\ job' = [t EXCEPT !.numbjob = n]
        BY <1>7
      <3> HIDE DEF n
      <3>2. job' \in Table
        BY <3>1, <2>1 DEF Table
      <3> QED
        BY <3>1, <3>2, <2>1 DEF Table
    <2>3. Good(job', state, nv) /\ \A q : InTable(job', q) <=> InTable(t, q)
      BY <1>5, <2>1, <2>2, GoodFields
    <2> QED
      BY <1>5, <2>2, <2>3 DEF nv
  <1> QED
    BY <1>2, <1>6, <1>7

LEMMA ReapCore ==
    ASSUME Core, NEW p \in Procs, NEW sig \in BOOLEAN, Reap(p, sig)
    PROVE  Core'
  <1>1. /\ Good(job', state, news \ {p}) /\ job'.curjob = job.curjob
        /\ \A q : InTable(job', q) <=> InTable(job, q)
    BY ReapGood
  <1>2. /\ news' = news \ {p} /\ state' = state
        /\ UNCHANGED <<monitor, chldtrap, state, pgrp, pc, wpid, savepgid, ghosts>>
    BY DEF Reap
  <1>3. Types' /\ monitor' = monitor /\ pc' = pc /\ wpid' = wpid /\ savepgid' = savepgid
    BY <1>2 DEF Core, Types, ghosts
  <1>4. Good(job', state', news')
    BY <1>1, <1>2
  <1>5. Good(job, state, news)'
    BY <1>3, <1>4 DEF Good, InScript, Posted
  <1> QED
    BY <1>1, <1>3, <1>5 DEF Core

\* How a step keeps Core.
LEMMA CoreTo ==
    ASSUME Types', Good(job', state', news'), monitor' = monitor,
           pc' \notin Running => job'.curjob = None,
           pc' \in Waits \cup {"fork", "forklast"} => wpid' \in Procs /\ InTable(job', wpid'),
           ~ monitor => savepgid' = None
    PROVE  Core'
  <1>1. Good(job, state, news)'
    BY DEF Good, InScript, Posted
  <1> QED
    BY <1>1 DEF Core

LEMMA KernelCore ==
    ASSUME Core, NEW p \in Procs, Exit(p) \/ Stop(p) \/ Cont(p)
    PROVE  Core'
  <1>1. /\ Types /\ Good(job, state, news) /\ Posted(job, state, news)
        /\ pc \in Waits \cup {"fork", "forklast"} => wpid \in Procs /\ InTable(job, wpid)
        /\ ~ monitor => savepgid = None
        /\ pc \notin Running => job.curjob = None
    BY CoreTable DEF Core
  <1>2. CASE Exit(p) \/ Stop(p)
    <2>1. PICK s \in {"dead", "stop"} :
             /\ state[p] = "run" /\ state' = [state EXCEPT ![p] = s]
             /\ news' = news \cup {p}
             /\ UNCHANGED <<monitor, chldtrap, pgrp, job, pc, wpid, savepgid, amp, asked, moved>>
             /\ stopped' \in SUBSET (stopped \cup {p})
      BY <1>2 DEF Exit, Stop, ghosts
    <2>2. Types'
      BY <1>1, <2>1 DEF Types, States
    <2>3. state'[p] = s /\ \A q \in Procs : q # p => state'[q] = state[q]
      BY <1>1, <2>1 DEF Types
    <2>4. InTable(job, p) /\ "done" \notin job.flag[p]
      BY <1>1, <2>1 DEF Posted
    <2>5. Posted(job, state', news')
      BY <1>1, <2>1, <2>3, <2>4 DEF Posted
    <2>6. Good(job', state', news')
      BY <1>1, <2>1, <2>5 DEF Good
    <2> QED
      BY <1>1, <2>1, <2>2, <2>6, CoreTo
  <1>3. CASE Cont(p)
    <2>1. Resume({p}) /\ UNCHANGED <<monitor, chldtrap, job, pc, wpid, savepgid, ghosts>>
      BY <1>3 DEF Cont
    <2>2. state \in [Procs -> {"unborn", "run", "stop", "dead"}] /\ news \subseteq Procs
      BY <1>1 DEF Types, States
    <2>3. /\ Good(job, state', news') /\ pgrp' = pgrp
          /\ state' \in [Procs -> {"unborn", "run", "stop", "dead"}]
          /\ news' \subseteq Procs
      BY <1>1, <2>1, <2>2, GoodResume
    <2>4. Types'
      BY <1>1, <2>1, <2>3 DEF Types, States, ghosts
    <2>5. Good(job', state', news')
      BY <2>1, <2>3
    <2> QED
      BY <1>1, <2>1, <2>4, <2>5, CoreTo
  <1> QED
    BY <1>2, <1>3

\* The actions that start a process.
LEMMA StartCore ==
    ASSUME Core, NEW p \in Procs,
           StartBg(p) \/ StartFg(p) \/ PipeElement(p) \/ PipeLast(p)
    PROVE  Core'
  <1>1. /\ Types /\ job.curpgid \in Procs \cup {None} /\ job.curjob \in Procs \cup {None}
        /\ ~ monitor => job.curpgid = None /\ savepgid = None
    BY CoreTable DEF Core
  <1>2. PICK join \in Procs \cup {None}, flags \in SUBSET (Flags \ {"done"}), cur \in {p, job.curjob} :
           Fork(p, join, flags, cur) /\ (~ monitor => join = None)
    <2>1. {"exitsave", "bg"} \subseteq Flags \ {"done"} /\ {"exitsave"} \subseteq Flags \ {"done"}
      BY DEF Flags
    <2>2. CASE StartBg(p)
      BY <2>1, <2>2 DEF StartBg
    <2>3. CASE StartFg(p)
      BY <1>1, <2>1, <2>3 DEF StartFg
    <2>4. CASE PipeElement(p)
      <3>1. Fork(p, job.curpgid, {}, IF pc = "idle" /\ monitor THEN p ELSE job.curjob)
        BY <2>4 DEF PipeElement
      <3>2. (IF pc = "idle" /\ monitor THEN p ELSE job.curjob) \in {p, job.curjob}
        OBVIOUS
      <3>3. {} \in SUBSET (Flags \ {"done"})
        OBVIOUS
      <3> QED
        BY <1>1, <3>1, <3>2, <3>3
    <2>5. CASE PipeLast(p)
      BY <1>1, <2>1, <2>5 DEF PipeLast
    <2> QED
      BY <2>2, <2>3, <2>4, <2>5
  <1>3. Good(job', state', news')
    BY <1>2, ForkGood
  <1>4. /\ state' \in [Procs -> States] /\ pgrp' \in [Procs -> Procs \cup {None}]
        /\ monitor' = monitor /\ chldtrap' = chldtrap /\ news' = news
    BY <1>2, ForkIs
  <1>5. InTable(job', p)
    BY <1>2, ForkIs
  <1>10. pc' \notin Running => job'.curjob = None
    <2>1. CASE StartBg(p)
      <3>1. Fork(p, None, {"exitsave", "bg"}, job.curjob) /\ pc = "jobmax"
        BY <2>1 DEF StartBg
      <3>2. {"exitsave", "bg"} \subseteq Flags \ {"done"}
        BY DEF Flags
      <3> QED
        BY <3>1, <3>2, ForkIs DEF Core, Running
    <2>2. CASE StartFg(p)
      <3>1. Fork(p, job.curpgid, {"exitsave"}, job.curjob) /\ pc = "idle"
        BY <2>2 DEF StartFg
      <3>2. {"exitsave"} \subseteq Flags \ {"done"}
        BY DEF Flags
      <3> QED
        BY <1>1, <3>1, <3>2, ForkIs DEF Core, Running
    <2>3. CASE PipeElement(p) \/ PipeLast(p)
      BY <2>3 DEF PipeElement, PipeLast, Running
    <2> QED
      BY <2>1, <2>2, <2>3
  <1>6. /\ wpid' \in {wpid, p} /\ savepgid' \in {savepgid, job.curpgid}
        /\ pc' \in {"idle", "fork", "pipe", "forklast"}
        /\ pc' \in {"fork", "forklast"} => wpid' = p
        /\ amp' \subseteq amp \cup {p} /\ asked' = asked /\ stopped' = stopped /\ moved' = moved
    BY DEF StartBg, StartFg, PipeElement, PipeLast, ghosts
  <1>7. Types'
    BY <1>1, <1>4, <1>6 DEF Types, Points, Waits
  <1>8. pc' \in Waits \cup {"fork", "forklast"} => wpid' \in Procs /\ InTable(job', wpid')
    BY <1>5, <1>6 DEF Waits
  <1>9. ~ monitor => savepgid' = None
    BY <1>1, <1>6
  <1> QED
    BY <1>3, <1>4, <1>7, <1>8, <1>9, <1>10, CoreTo

\* Steps that leave the table and the kernel alone, or change counts only.
LEMMA QuietCore ==
    ASSUME Core, BgBegin \/ WaitAny \/ WaitAnyEnd
    PROVE  Core'
  <1>1. /\ Types /\ Good(job, state, news) /\ job \in Table
        /\ ~ monitor => job.curpgid = None
    BY CoreTable DEF Core
  <1>0. pc \in {"idle", "waitany"} /\ job.curjob = None
    BY DEF Core, BgBegin, WaitAny, WaitAnyEnd, Running
  <1>2. /\ UNCHANGED <<monitor, chldtrap, state, news, pgrp, wpid, savepgid, ghosts>>
        /\ pc' \in {"jobmax", "waitany", "idle"}
        /\ job' = job \/ job' = [job EXCEPT !.numbjob = 0]
    BY DEF BgBegin, WaitAny, WaitAnyEnd, kernel
  <1>3. Types'
    BY <1>1, <1>2 DEF Types, ghosts, Points, Waits
  <1>4. Good(job', state, news) /\ job'.curjob = None
    <2>1. CASE job' = job
      BY <1>0, <1>1, <2>1
    <2>2. CASE job' = [job EXCEPT !.numbjob = 0]
      <3> DEFINE n == 0
      <3>1. n \in Int /\ job' = [job EXCEPT !.numbjob = n]
        BY <2>2
      <3> HIDE DEF n
      <3>2. job' \in Table
        BY <3>1, <1>1 DEF Table
      <3>3. /\ job'.pwlist = job.pwlist /\ job'.flag = job.flag
            /\ job'.curjob = job.curjob /\ job'.curpgid = job.curpgid /\ job'.note = job.note
        BY <3>1, <1>1 DEF Table
      <3> QED
        BY <1>0, <1>1, <3>2, <3>3, GoodFields
    <2> QED
      BY <1>2, <2>1, <2>2
  <1>5. Good(job', state', news')
    BY <1>2, <1>4
  <1>6. ~ monitor => savepgid' = None
    BY <1>2 DEF Core
  <1>7. pc' \notin Waits \cup {"fork", "forklast"}
    BY <1>2 DEF Waits
  <1> QED
    BY <1>2, <1>3, <1>4, <1>5, <1>6, <1>7, CoreTo

\* The CHLD traps after a command.
LEMMA ChkTrapCore ==
    ASSUME Core, ChkTrap
    PROVE  Core'
  <1> DEFINE f == FALSE
             t == [job EXCEPT !.note = f]
             w == Trapped(t)
  <1>1. /\ Types /\ Good(job, state, news) /\ Posted(job, state, news) /\ job \in Table
        /\ TableOK(job) /\ (~ monitor => InScript(job))
    BY CoreTable DEF Core, Good
  <1>2. /\ pc = "idle" /\ job' = JobChldtrap(t, TRUE)
        /\ UNCHANGED <<monitor, chldtrap, kernel, pc, wpid, savepgid, ghosts>>
    BY DEF ChkTrap
  <1>3. f \in BOOLEAN
    OBVIOUS
  <1> HIDE DEF f
  <1>4. /\ t \in Table /\ t.pwlist = job.pwlist /\ t.flag = job.flag /\ t.curjob = job.curjob
        /\ t.curpgid = job.curpgid
    BY <1>1, <1>3 DEF Table
  <1>5. Posted(t, state, news) /\ TableOK(t)
    BY <1>1, <1>4, PostedFields DEF TableOK
  <1> HIDE DEF t
  <1>6. /\ TableOK(w) /\ Kept(t, w) /\ w.note = t.note
        /\ \A q \in Due(t) : InTable(t, q) /\ {"bg", "done"} \subseteq t.flag[q]
        /\ \A q \in Procs : w.flag[q] = IF q \in Due(t) THEN t.flag[q] \ {"bg"} ELSE t.flag[q]
    BY <1>5, TrappedIs
  <1>7. \A q : InTable(w, q) <=> InTable(t, q)
    BY <1>6, SameList DEF Kept
  <1>8. Posted(w, state, news)
    <2>1. \A q \in Procs : w.flag[q] # {} => InTable(t, q)
      BY <1>5, <1>6 DEF Posted
    <2>2. w.curjob # None => InTable(w, w.curjob)
      BY <1>5, <1>6, <1>7 DEF Posted, Kept
    <2>3. \A q \in Procs : "done" \in w.flag[q] => "done" \in t.flag[q]
      BY <1>6
    <2> QED
      BY <1>5, <1>6, <1>7, <2>1, <2>2, <2>3, PostedTo
  <1>9. ASSUME ~ monitor
        PROVE  InScript(w)
    <2>1. Singles(w) /\ Singles(t)
      BY <1>1, <1>4, <1>6, <1>9 DEF InScript, Singles, Kept
    <2>2. NoneMissed(w)
      <3> SUFFICES ASSUME NEW q \in Procs, {"bg", "done"} \subseteq w.flag[q]
                   PROVE  FALSE
        BY DEF NoneMissed
      <3>1. q \notin Due(t) /\ {"bg", "done"} \subseteq t.flag[q]
        BY <1>6
      <3>2. InTable(t, q)
        BY <1>5, <3>1 DEF Posted
      <3>3. PICK k \in DOMAIN t.pwlist : q \in Members(t, k)
        BY <3>2 DEF InTable
      <3>4. q = Top(t, k)
        BY <1>5, <2>1, <3>3, JobIs DEF Singles
      <3> QED
        BY <3>1, <3>4 DEF Due
    <2> QED
      BY <1>1, <1>4, <1>6, <1>9, <2>1, <2>2 DEF InScript, Kept
  <1> HIDE DEF w
  <1>10. Good(w, state, news)
    BY <1>8, <1>9 DEF Good
  <1>11. Good(job', state, news) /\ job'.curjob = w.curjob
    <2>1. CASE t.bckpid \in Due(t)
      <3> DEFINE k == JobOf(w, t.bckpid)
      <3>1. job' = Unpost(w, k, FALSE)
        BY <1>2, <1>5, <2>1, ChldtrapIs DEF w
      <3>2. k \in DOMAIN w.pwlist
        BY <1>5, <2>1, ChldtrapIs DEF w
      <3> HIDE DEF k
      <3>3. Good(Unpost(w, k, FALSE), state, news) /\ Unpost(w, k, FALSE).curjob = w.curjob
        BY <1>10, <3>2, GoodUnpost
      <3> QED
        BY <3>1, <3>3
    <2>2. CASE t.bckpid \notin Due(t)
      BY <1>2, <1>5, <1>10, <2>2, ChldtrapIs DEF w
    <2> QED
      BY <2>1, <2>2
  <1>12. Types' /\ Good(job', state', news')
    BY <1>1, <1>2, <1>11 DEF Types, kernel, ghosts
  <1>13. pc' \notin Waits \cup {"fork", "forklast"}
    BY <1>2 DEF Waits
  <1>15. job'.curjob = None
    BY <1>2, <1>4, <1>6, <1>11 DEF Kept, Core, Running
  <1>14. ~ monitor => savepgid' = None
    BY <1>2 DEF Core
  <1> QED
    BY <1>2, <1>12, <1>13, <1>14, <1>15, CoreTo

----------------------------------------------------------------------------
(* Pipelines and waits.                                                    *)

\* Where UnpostAll() is followed by the group of before the pipeline.
LEMMA GoodRestored ==
    ASSUME NEW t, Good(t, state, news), NEW g \in Procs \cup {None}, ~ monitor => g = None,
           NEW c \in {t.curjob, None}
    PROVE  Good([t EXCEPT !.curpgid = g, !.curjob = c], state, news)
  <1> DEFINE u == [t EXCEPT !.curpgid = g, !.curjob = c]
  <1>1. /\ t \in Table /\ TableOK(t) /\ Posted(t, state, news)
        /\ ~ monitor => InScript(t)
    BY DEF Good, Posted, TableOK
  <1>2. c \in Procs \cup {None}
    BY <1>1 DEF Table
  <1>3. /\ u \in Table /\ u.pwlist = t.pwlist /\ u.flag = t.flag /\ u.note = t.note
        /\ u.curpgid = g /\ u.curjob = c
    BY <1>1, <1>2 DEF Table
  <1> HIDE DEF u
  <1>4. TableOK(u) /\ \A p : InTable(u, p) <=> InTable(t, p)
    BY <1>1, <1>3, SameList DEF TableOK
  <1>5. Posted(u, state, news)
    BY <1>1, <1>3, <1>4 DEF Posted
  <1>6. ~ monitor => InScript(u)
    BY <1>1, <1>3, ScriptTo
  <1> QED
    BY <1>5, <1>6 DEF Good, u

LEMMA PipeCore ==
    ASSUME Core, PipeBuiltin \/ PipeEnd
    PROVE  Core'
  <1>1. /\ Types /\ Good(job, state, news) /\ Posted(job, state, news) /\ TableOK(job)
        /\ job \in Table
        /\ ~ monitor => savepgid = None /\ job.curpgid = None
    BY CoreTable DEF Core
  <1>2. CASE PipeBuiltin
    <2>1. /\ job' = UnpostAll(job) /\ pc' = "end"
          /\ UNCHANGED <<monitor, chldtrap, kernel, wpid, savepgid, ghosts>>
      BY <1>2 DEF PipeBuiltin
    <2>2. Types' /\ Good(job', state', news')
      BY <1>1, <2>1, GoodUnpostAll DEF Types, kernel, ghosts, Points
    <2> QED
      BY <1>1, <2>1, <2>2, CoreTo DEF Waits, Running
  <1>3. CASE PipeEnd /\ monitor /\ job.curjob # None
    <2> DEFINE k == JobOf(job, job.curjob)
    <2>1. /\ job' = [job EXCEPT !.curjob = None]
          /\ wpid' = Top(job, k) /\ pc' = "wait0" /\ savepgid' = savepgid
          /\ UNCHANGED <<monitor, chldtrap, kernel, ghosts>>
      BY <1>3 DEF PipeEnd
    <2>2. k \in DOMAIN job.pwlist
      BY <1>1, <1>3, Where DEF Posted
    <2> HIDE DEF k
    <2>3. Top(job, k) \in Procs /\ InTable(job, Top(job, k))
      BY <1>1, <2>2, JobIs
    <2>4. /\ job' \in Table /\ job'.pwlist = job.pwlist /\ job'.flag = job.flag
          /\ job'.curjob = None /\ job'.curpgid = job.curpgid /\ job'.note = job.note
      BY <1>1, <2>1 DEF Table
    <2>5. TableOK(job') /\ \A p : InTable(job', p) <=> InTable(job, p)
      BY <1>1, <2>4, SameList DEF TableOK
    <2>6. Posted(job', state, news)
      BY <1>1, <2>4, <2>5 DEF Posted
    <2>7. Good(job', state', news')
      BY <1>3, <2>1, <2>6 DEF Good, kernel
    <2>8. Types'
      BY <1>1, <2>1, <2>3 DEF Types, kernel, ghosts, Points, Waits
    <2> QED
      BY <1>1, <2>1, <2>3, <2>4, <2>5, <2>7, <2>8, CoreTo
  <1>4. CASE PipeEnd /\ ~ (monitor /\ job.curjob # None)
    <2> DEFINE t == IF monitor THEN UnpostAll(job) ELSE job
    <2>1. /\ job' = [t EXCEPT !.curpgid = savepgid, !.curjob = None]
          /\ pc' = "idle" /\ savepgid' = None /\ wpid' = wpid
          /\ UNCHANGED <<monitor, chldtrap, kernel, ghosts>>
      BY <1>4 DEF PipeEnd
    <2>2. Good(t, state, news)
      BY <1>1, GoodUnpostAll
    <2> HIDE DEF t
    <2>3. savepgid \in Procs \cup {None}
      BY <1>1 DEF Types
    <2>4. Good([t EXCEPT !.curpgid = savepgid, !.curjob = None], state, news)
      BY <1>1, <2>2, <2>3, GoodRestored
    <2>5. Types' /\ Good(job', state', news')
      BY <1>1, <2>1, <2>4 DEF Types, kernel, ghosts, Points
    <2>6. job'.curjob = None
      <3>1. t \in Table
        BY <2>2 DEF Good, Posted, TableOK
      <3> QED
        BY <2>1, <3>1 DEF Table
    <2> QED
      BY <1>1, <2>1, <2>5, <2>6, CoreTo DEF Waits
  <1> QED
    BY <1>2, <1>3, <1>4

LEMMA WaitBeginCore ==
    ASSUME Core, WaitBegin
    PROVE  Core'
  <1> DEFINE t == Off(job, {wpid}, {"exitsave"})
  <1>1. /\ Types /\ Good(job, state, news) /\ wpid \in Procs /\ InTable(job, wpid)
        /\ ~ monitor => savepgid = None
        /\ pc \notin Running => job.curjob = None
    BY DEF Core, WaitBegin
  <1>2. /\ IF monitor THEN Unstop(t, JobOf(t, wpid)) ELSE job' = t /\ UNCHANGED kernel
        /\ pc' \in Waits /\ (pc' \notin Running => pc \notin Running)
        /\ UNCHANGED <<monitor, chldtrap, wpid, savepgid, ghosts>>
    BY DEF WaitBegin, Waits, Running
  <1>3. /\ Good(t, state, news) /\ t.curjob = job.curjob
        /\ \A p : InTable(t, p) <=> InTable(job, p)
    BY <1>1, GoodOff
  <1> HIDE DEF t
  <1>4. state \in [Procs -> {"unborn", "run", "stop", "dead"}] /\ news \subseteq Procs
    BY <1>1 DEF Types, States
  <1>5. /\ Good(job', state', news')
        /\ state' \in [Procs -> {"unborn", "run", "stop", "dead"}]
        /\ news' \subseteq Procs
        /\ pgrp' = pgrp /\ job'.curjob = t.curjob
        /\ \A p : InTable(job', p) <=> InTable(t, p)
    <2>1. CASE monitor
      BY <1>2, <1>3, <1>4, <2>1, UnstopGood
    <2>2. CASE ~ monitor
      BY <1>2, <1>3, <1>4, <2>2 DEF kernel
    <2> QED
      BY <2>1, <2>2
  <1>6. Types'
    BY <1>1, <1>2, <1>5 DEF Types, States, ghosts, Points
  <1> QED
    BY <1>1, <1>2, <1>3, <1>5, <1>6, CoreTo

\* The return from job_wait().
LEMMA ReturnCore ==
    ASSUME Core, NEW t, Good(t, state, news), t.curjob = job.curjob, Return(t), pc \in Waits,
           UNCHANGED <<monitor, chldtrap, kernel, amp, stopped, moved>>,
           asked' \subseteq Procs
    PROVE  Core'
  <1>1. Types /\ (~ monitor => savepgid = None) /\ (pc \notin Running => job.curjob = None)
    BY DEF Core
  <1>2. Good(UnpostAll(t), state, news) /\ UnpostAll(t).curjob = t.curjob
    BY GoodUnpostAll
  <1> DEFINE u == UnpostAll(t)
  <1> HIDE DEF u
  <1>3. Good(u, state, news) /\ u.curjob = job.curjob
    BY <1>2 DEF u
  <1>4. /\ job' = IF pc = "wait0" THEN [u EXCEPT !.curpgid = savepgid] ELSE u
        /\ pc' = (IF pc = "last" THEN "end" ELSE "idle") /\ wpid' = None
        /\ savepgid' \in {None, savepgid}
    BY DEF Return, u
  <1>5. savepgid \in Procs \cup {None}
    BY <1>1 DEF Types
  <1>6. Good(job', state, news) /\ job'.curjob = job.curjob
    <2>1. CASE pc # "wait0"
      BY <1>3, <1>4, <2>1
    <2>2. CASE pc = "wait0"
      <3>1. u \in Table
        BY <1>3 DEF Good, Posted, TableOK
      <3>2. Good([u EXCEPT !.curpgid = savepgid, !.curjob = u.curjob], state, news)
        BY <1>1, <1>3, <1>5, GoodRestored
      <3>3. [u EXCEPT !.curpgid = savepgid, !.curjob = u.curjob] = [u EXCEPT !.curpgid = savepgid]
        BY <3>1 DEF Table
      <3> QED
        BY <1>3, <1>4, <2>2, <3>1, <3>2, <3>3
    <2> QED
      BY <2>1, <2>2
  <1>7. Types' /\ Good(job', state', news')
    BY <1>1, <1>4, <1>5, <1>6 DEF Types, kernel, Points
  <1> QED
    BY <1>1, <1>4, <1>6, <1>7, CoreTo DEF Waits, Running

LEMMA WaitDoneCore ==
    ASSUME Core, WaitDone
    PROVE  Core'
  <1> DEFINE k == JobOf(job, wpid)
             saves == IF pc = "waitb" /\ IsTop(job, wpid) THEN {"exitsave"} ELSE {}
             t == Off(job, {wpid}, {"notify"} \cup saves)
  <1>1. /\ Types /\ Good(job, state, news) /\ wpid \in Procs /\ InTable(job, wpid)
        /\ TableOK(job)
        /\ ~ monitor => savepgid = None
        /\ pc \notin Running => job.curjob = None
    BY CoreTable DEF Core, WaitDone
  <1>2. /\ pc \in Waits /\ "done" \in job.flag[wpid]
        /\ IF pc \in {"wait0", "fg"} /\ Unfinished(t, k, TRUE) # {}
           THEN /\ wpid' = FirstUnfinished(t, k)
                /\ job' = t
                /\ UNCHANGED <<pc, savepgid>>
           ELSE Return(Unpost(t, k, TRUE))
        /\ asked' = IF IsTop(job, wpid) THEN asked \cup {wpid} ELSE asked
        /\ UNCHANGED <<monitor, chldtrap, kernel, amp, stopped, moved>>
    BY DEF WaitDone
  <1>3. /\ Good(t, state, news) /\ t.pwlist = job.pwlist /\ t.curjob = job.curjob
        /\ \A p : InTable(t, p) <=> InTable(job, p)
    BY <1>1, GoodOff
  <1>4. k \in DOMAIN t.pwlist
    BY <1>1, <1>3, Where
  <1> HIDE DEF t, k
  <1>5. asked' \subseteq Procs
    BY <1>1, <1>2 DEF Types
  <1>6. CASE pc \in {"wait0", "fg"} /\ Unfinished(t, k, TRUE) # {}
    <2>1. TableOK(t)
      BY <1>3 DEF Good, Posted
    <2>2. FirstUnfinished(t, k) \in Members(t, k)
      BY <1>4, <1>6, <2>1, FirstIs
    <2>3. wpid' \in Procs /\ InTable(t, wpid')
      BY <1>2, <1>4, <1>6, <2>1, <2>2, JobIs
    <2>4. job' = t /\ pc' = pc /\ savepgid' = savepgid
      BY <1>2, <1>6
    <2>5. Types' /\ Good(job', state', news')
      BY <1>1, <1>2, <1>3, <1>5, <2>3, <2>4 DEF Types, kernel
    <2> QED
      BY <1>1, <1>2, <1>3, <2>3, <2>4, <2>5, CoreTo
  <1>7. CASE ~ (pc \in {"wait0", "fg"} /\ Unfinished(t, k, TRUE) # {})
    <2> DEFINE w == Unpost(t, k, TRUE)
    <2>1. Good(w, state, news) /\ w.curjob = job.curjob
      BY <1>3, <1>4, GoodUnpost
    <2>2. Return(w)
      BY <1>2, <1>7
    <2> HIDE DEF w
    <2> QED
      BY <1>2, <1>5, <2>1, <2>2, ReturnCore
  <1> QED
    BY <1>6, <1>7

LEMMA WaitStoppedCore ==
    ASSUME Core, WaitStopped
    PROVE  Core'
  <1> DEFINE t == On(job, {wpid}, {"exitsave"})
             u == Off(job, {wpid}, {"notify", "stopped", "exitsave"})
  <1>1. /\ Types /\ Good(job, state, news) /\ wpid \in Procs /\ InTable(job, wpid)
        /\ ~ monitor => savepgid = None
        /\ pc \notin Running => job.curjob = None
    BY DEF Core, WaitStopped
  <1>2. /\ Good(t, state, news) /\ t.curjob = job.curjob
        /\ \A p : InTable(t, p) <=> InTable(job, p)
    <2>1. {"exitsave"} \subseteq Flags \ {"done", "bg"}
      BY DEF Flags
    <2> QED
      BY <1>1, <2>1, GoodOn
  <1>3. /\ Good(u, state, news) /\ u.curjob = job.curjob
        /\ \A p : InTable(u, p) <=> InTable(job, p)
    BY <1>1, GoodOff
  <1>4. /\ pc \in Waits
        /\ UNCHANGED <<monitor, chldtrap, ghosts>>
        /\ \/ Return(t) /\ UNCHANGED kernel
           \/ /\ Resume(Group(pgrp[wpid])) /\ job' = t
              /\ UNCHANGED <<pc, wpid, savepgid>>
           \/ job' = u /\ UNCHANGED <<kernel, pc, wpid, savepgid>>
    BY DEF WaitStopped
  <1> HIDE DEF t, u
  <1>5. CASE Return(t) /\ UNCHANGED kernel
    BY <1>1, <1>2, <1>4, <1>5, ReturnCore DEF ghosts, Types
  <1>6. CASE /\ Resume(Group(pgrp[wpid])) /\ job' = t
             /\ UNCHANGED <<pc, wpid, savepgid>>
    <2>1. Group(pgrp[wpid]) \subseteq Procs
      BY <1>1 DEF Group, Live, Types
    <2>2. state \in [Procs -> {"unborn", "run", "stop", "dead"}] /\ news \subseteq Procs
      BY <1>1 DEF Types, States
    <2>3. /\ Good(t, state', news') /\ pgrp' = pgrp
          /\ state' \in [Procs -> {"unborn", "run", "stop", "dead"}]
          /\ news' \subseteq Procs
      BY <1>2, <1>6, <2>1, <2>2, GoodResume
    <2>4. Types' /\ Good(job', state', news')
      BY <1>1, <1>4, <1>6, <2>3 DEF Types, States, ghosts
    <2> QED
      BY <1>1, <1>2, <1>4, <1>6, <2>4, CoreTo
  <1>7. CASE job' = u /\ UNCHANGED <<kernel, pc, wpid, savepgid>>
    <2>1. Types' /\ Good(job', state', news')
      BY <1>1, <1>3, <1>4, <1>7 DEF Types, kernel, ghosts
    <2> QED
      BY <1>1, <1>3, <1>4, <1>7, <2>1, CoreTo
  <1> QED
    BY <1>4, <1>5, <1>6, <1>7

LEMMA InterruptedCore ==
    ASSUME Core, WaitInterrupted
    PROVE  Core'
  <1>1. /\ Return(job) /\ pc \in Waits
        /\ UNCHANGED <<monitor, chldtrap, kernel, ghosts>>
    BY DEF WaitInterrupted, Waits
  <1>2. Good(job, state, news) /\ Types
    BY DEF Core
  <1> QED
    BY <1>1, <1>2, ReturnCore DEF ghosts, Types

----------------------------------------------------------------------------
(* Builtins and the prompt, at pc = "idle".                                *)

\* How such a step keeps Core.
LEMMA BuiltinTo ==
    ASSUME Core, pc = "idle", pc' \in {"idle", "waitb", "fg"},
           UNCHANGED <<monitor, chldtrap, savepgid, stopped>>,
           Good(job', state', news'), job'.curjob = None,
           state' \in [Procs -> States], news' \subseteq Procs, pgrp' = pgrp,
           wpid' \in Procs \cup {None}, pc' # "idle" => wpid' \in Procs /\ InTable(job', wpid'),
           amp' \subseteq Procs, asked' \subseteq Procs, moved' \in BOOLEAN
    PROVE  Core'
  <1>1. Types'
    BY DEF Core, Types, Points, Waits
  <1>2. ~ monitor => savepgid' = None
    BY DEF Core
  <1> QED
    BY <1>1, <1>2, CoreTo DEF Waits

LEMMA WaitPidCore ==
    ASSUME Core, NEW p \in Procs, WaitPid(p)
    PROVE  Core'
  <1>1. /\ Types /\ Good(job, state, news) /\ job \in Table
        /\ ~ monitor => job.curpgid = None
    BY CoreTable DEF Core
  <1>2. pc = "idle" /\ UNCHANGED <<monitor, chldtrap, savepgid, amp, stopped, moved>>
    BY DEF WaitPid
  <1>0. job.curjob = None /\ state \in [Procs -> States] /\ news \subseteq Procs
    BY <1>2 DEF Core, Types, Running
  <1>3. CASE InTable(job, p)
    <2>1. /\ IF monitor THEN Unstop(job, JobOf(job, p)) ELSE UNCHANGED <<kernel, job>>
          /\ pc' = "waitb" /\ wpid' = p /\ asked' = asked
      BY <1>3 DEF WaitPid
    <2>2. state \in [Procs -> {"unborn", "run", "stop", "dead"}]
      BY <1>0 DEF States
    <2>3. /\ Good(job', state', news') /\ job'.curjob = None
          /\ state' \in [Procs -> {"unborn", "run", "stop", "dead"}]
          /\ news' \subseteq Procs
          /\ pgrp' = pgrp
          /\ \A q : InTable(job', q) <=> InTable(job, q)
      <3>1. CASE monitor
        BY <1>0, <1>1, <2>1, <2>2, <3>1, UnstopGood
      <3>2. CASE ~ monitor
        BY <1>0, <1>1, <2>1, <2>2, <3>2 DEF kernel
      <3> QED
        BY <3>1, <3>2
    <2> QED
      BY <1>1, <1>2, <1>3, <2>1, <2>3, BuiltinTo DEF States, Types
  <1>4. CASE ~ InTable(job, p)
    <2>1. /\ job' = [job EXCEPT !.saved = @ \ {p}]
          /\ asked' = asked \cup {p}
          /\ UNCHANGED <<kernel, pc, wpid>>
      BY <1>4 DEF WaitPid
    <2>2. /\ job' \in Table /\ job'.pwlist = job.pwlist /\ job'.flag = job.flag
          /\ job'.curjob = job.curjob /\ job'.curpgid = job.curpgid /\ job'.note = job.note
      BY <1>1, <2>1 DEF Table
    <2>3. Good(job', state, news)
      BY <1>1, <2>2, GoodFields
    <2> QED
      BY <1>0, <1>1, <1>2, <2>1, <2>2, <2>3, BuiltinTo DEF Types, kernel
  <1> QED
    BY <1>3, <1>4

LEMMA FgCore ==
    ASSUME Core, NEW k \in DOMAIN job.pwlist, Fg(k)
    PROVE  Core'
  <1> DEFINE t == ToFront(job, k)
             p == FirstUnfinished(t, 1)
             F == {"bg", "exitsave"}
             o == Off(t, {p}, F)
  <1>1. /\ Types /\ Posted(job, state, news) /\ TableOK(job)
    BY CoreTable
  <1>2. /\ pc = "idle" /\ monitor /\ moved' = TRUE
        /\ UNCHANGED <<monitor, chldtrap, savepgid, amp, asked, stopped>>
        /\ IF MayDrop(t, 1, TRUE)
           THEN job' = Drop(t, {1}) /\ UNCHANGED <<kernel, pc, wpid>>
           ELSE /\ Unstop(o, 1)
                /\ pc' = "fg" /\ wpid' = p
    BY DEF Fg
  <1>0. job.curjob = None /\ state \in [Procs -> States] /\ news \subseteq Procs
    BY <1>2 DEF Core, Types, Running
  <1>3. Posted(t, state, news)
    BY <1>1, PostedFront
  <1>4. 1 \in DOMAIN t.pwlist /\ t.curjob = None /\ TableOK(t)
    BY <1>0, <1>1, FrontIs DEF Alike
  <1> HIDE DEF t, F
  <1>5. Good(t, state, news)
    BY <1>2, <1>3 DEF Good
  <1>6. CASE MayDrop(t, 1, TRUE)
    <2>1. Good(Drop(t, {1}), state, news) /\ Drop(t, {1}).curjob = None
      BY <1>4, <1>5, <1>6, GoodDrop
    <2> QED
      BY <1>0, <1>1, <1>2, <1>6, <2>1, BuiltinTo DEF Types, kernel
  <1>7. CASE ~ MayDrop(t, 1, TRUE)
    <2>1. Unfinished(t, 1, TRUE) # {}
      <3>1. None \notin Members(t, 1)
        BY <1>4, JobIs, TableAssumption
      <3> QED
        BY <1>4, <1>7, <3>1 DEF MayDrop
    <2>2. p \in Procs /\ InTable(t, p)
      BY <1>4, <2>1, FirstIs, JobIs
    <2> HIDE DEF p
    <2> DEFINE P == {p}
    <2> HIDE DEF P
    <2>3. /\ Good(o, state, news) /\ o.curjob = None
          /\ \A q : InTable(o, q) <=> InTable(t, q)
      BY <1>4, <1>5, GoodOff
    <2>4. Unstop(o, 1) /\ pc' = "fg" /\ wpid' = p
      BY <1>2, <1>7
    <2> HIDE DEF o
    <2>5. state \in [Procs -> {"unborn", "run", "stop", "dead"}]
      BY <1>0 DEF States
    <2>6. /\ Good(job', state', news') /\ job'.curjob = None
          /\ state' \in [Procs -> {"unborn", "run", "stop", "dead"}]
          /\ news' \subseteq Procs
          /\ pgrp' = pgrp
          /\ \A q : InTable(job', q) <=> InTable(o, q)
      BY <1>0, <2>3, <2>4, <2>5, UnstopGood
    <2> QED
      BY <1>1, <1>2, <2>2, <2>3, <2>4, <2>6, BuiltinTo DEF States, Types
  <1> QED
    BY <1>6, <1>7

LEMMA BgCore ==
    ASSUME Core, NEW k \in DOMAIN job.pwlist, Bg(k)
    PROVE  Core'
  <1> DEFINE b == Top(job, k)
             P == {b}
             F == {"bg"}
             o == On(job, P, F)
             t == [o EXCEPT !.bckpid = b]
  <1>1. /\ Types /\ Posted(job, state, news) /\ TableOK(job)
    BY CoreTable
  <1>2. /\ pc = "idle" /\ monitor /\ moved' = TRUE
        /\ UNCHANGED <<monitor, chldtrap, pc, wpid, savepgid, amp, asked, stopped>>
        /\ IF "stopped" \in job.flag[b] THEN Unstop(t, k) ELSE job' = t /\ UNCHANGED kernel
    BY DEF Bg
  <1>0. job.curjob = None /\ state \in [Procs -> States] /\ news \subseteq Procs
    BY <1>2 DEF Core, Types, Running
  <1>3. b \in Procs /\ InTable(job, b)
    BY <1>1, JobIs
  <1>4. F \subseteq Flags \ {"done"} /\ F \subseteq Flags
    BY DEF Flags
  <1>5. \A q \in P : InTable(job, q)
    BY <1>3
  <1> HIDE DEF b, P, F
  <1>6. Posted(o, state, news)
    BY <1>1, <1>4, <1>5, PostedOn
  <1>7. TableOK(o) /\ Alike(job, o)
    BY <1>1, <1>4, OnIs
  <1> HIDE DEF o
  <1>8. /\ t \in Table /\ t.pwlist = o.pwlist /\ t.flag = o.flag /\ t.curjob = o.curjob
    BY <1>3, <1>7 DEF TableOK, Table
  <1>9. Posted(t, state, news) /\ t.curjob = None
    BY <1>0, <1>6, <1>7, <1>8, PostedFields DEF Alike
  <1> HIDE DEF t
  <1>10. Good(t, state, news)
    BY <1>2, <1>9 DEF Good
  <1>11. CASE "stopped" \in job.flag[b]
    <2>5. state \in [Procs -> {"unborn", "run", "stop", "dead"}]
      BY <1>0 DEF States
    <2>6. /\ Good(job', state', news') /\ job'.curjob = None
          /\ state' \in [Procs -> {"unborn", "run", "stop", "dead"}]
          /\ news' \subseteq Procs
          /\ pgrp' = pgrp
      BY <1>0, <1>2, <1>9, <1>10, <1>11, <2>5, UnstopGood
    <2> QED
      BY <1>1, <1>2, <2>6, BuiltinTo DEF States, Types
  <1>12. CASE "stopped" \notin job.flag[b]
    BY <1>0, <1>1, <1>2, <1>9, <1>10, <1>12, BuiltinTo DEF Types, kernel
  <1> QED
    BY <1>11, <1>12

LEMMA KillContCore ==
    ASSUME Core, NEW k \in DOMAIN job.pwlist, KillCont(k)
    PROVE  Core'
  <1> DEFINE S == {p \in Members(job, k) : "stopped" \in job.flag[p]}
             F == {"stopped", "notify"}
             t == Off(job, S, F)
             G == Group(pgrp[Top(job, k)])
  <1>1. Types /\ Good(job, state, news)
    BY DEF Core
  <1>2. /\ pc = "idle" /\ job' = t /\ Resume(G)
        /\ UNCHANGED <<monitor, chldtrap, pc, wpid, savepgid, ghosts>>
    BY DEF KillCont
  <1>0. /\ job.curjob = None /\ news \subseteq Procs
        /\ state \in [Procs -> {"unborn", "run", "stop", "dead"}]
    BY <1>2 DEF Core, Types, Running, States
  <1>3. G \subseteq Procs
    BY <1>0 DEF Group, Live
  <1> HIDE DEF S, F, G
  <1>4. Good(t, state, news) /\ t.curjob = None
    BY <1>0, <1>1, GoodOff
  <1> HIDE DEF t
  <1>5. /\ Good(t, state', news') /\ pgrp' = pgrp
        /\ state' \in [Procs -> {"unborn", "run", "stop", "dead"}]
        /\ news' \subseteq Procs
    BY <1>0, <1>2, <1>3, <1>4, GoodResume
  <1>6. Good(job', state', news') /\ job'.curjob = None
    BY <1>2, <1>4, <1>5
  <1> QED
    BY <1>1, <1>2, <1>5, <1>6, BuiltinTo DEF States, Types, ghosts

LEMMA ListingCore ==
    ASSUME Core, Jobs \/ Prompt
    PROVE  Core'
  <1> DEFINE t(K) == Listed(job, K)
             u(K) == UnpostAll(t(K))
  <1>1. /\ Types /\ Good(job, state, news) /\ job \in Table
    BY CoreTable DEF Core
  <1>2. /\ pc = "idle"
        /\ UNCHANGED <<monitor, chldtrap, kernel, pc, wpid, savepgid, ghosts>>
    BY DEF Jobs, Prompt
  <1>0. job.curjob = None
    BY <1>2 DEF Core, Running
  <1>3. \A K : Good(t(K), state, news) /\ t(K).curjob = None
    BY <1>0, <1>1, GoodOff DEF Listed
  <1> HIDE DEF t
  <1>4. \A K : Good(u(K), state, news) /\ u(K).curjob = None
    BY <1>3, GoodUnpostAll
  <1>5. CASE Jobs
    <2>1. job' = u(DOMAIN job.pwlist)
      BY <1>5 DEF Jobs, t
    <2>2. Good(job', state, news) /\ job'.curjob = None
      BY <1>4, <2>1
    <2> QED
      BY <1>1, <1>2, <2>2, BuiltinTo DEF Types, kernel, ghosts
  <1>6. CASE Prompt
    <2> DEFINE K == {k \in DOMAIN job.pwlist : "notify" \in job.flag[Top(job, k)]}
               v == u(K)
               f == FALSE
    <2>1. job' = [v EXCEPT !.curpgid = None, !.note = f] /\ monitor
      BY <1>6 DEF Prompt, t
    <2>2. Good(v, state, news) /\ v.curjob = None
      BY <1>4
    <2>3. f \in BOOLEAN
      OBVIOUS
    <2> HIDE DEF K, v, f
    <2>4. v \in Table
      BY <2>2 DEF Good, Posted, TableOK
    <2>5. /\ job' \in Table /\ job'.pwlist = v.pwlist /\ job'.flag = v.flag
          /\ job'.curjob = v.curjob
      BY <2>1, <2>3, <2>4 DEF Table
    <2>6. Good(job', state, news)
      <3>1. Posted(v, state, news) /\ monitor
        BY <2>1, <2>2 DEF Good
      <3>2. Posted(job', state, news)
        BY <2>5, <3>1, PostedFields
      <3> QED
        BY <3>1, <3>2 DEF Good
    <2> QED
      BY <1>1, <1>2, <2>2, <2>5, <2>6, BuiltinTo DEF Types, kernel, ghosts
  <1> QED
    BY <1>5, <1>6

----------------------------------------------------------------------------
(* The first theorems.                                                     *)

LEMMA InitCore == Init => Core
  <1> SUFFICES ASSUME Init
               PROVE  Core
    OBVIOUS
  <1>1. Types
    BY DEF Init, Types, States, Points
  <1>2. /\ job.pwlist = <<>> /\ job.flag = [p \in Procs |-> {}] /\ job.saved = {}
        /\ job.curpgid = None /\ job.curjob = None
    BY DEF Init
  <1>3. job \in Table
    BY DEF Init, Table
  <1>4. ListOK(job.pwlist) /\ DOMAIN job.pwlist = {}
    BY <1>2 DEF ListOK
  <1>5. Posted(job, state, news)
    BY <1>2, <1>3, <1>4 DEF Init, Posted, TableOK, InTable
  <1>6. InScript(job)
    BY <1>2, <1>4 DEF InScript, Singles, NoneMissed
  <1> QED
    BY <1>1, <1>2, <1>5, <1>6 DEF Core, Good, Init, Waits

LEMMA StepCore ==
    ASSUME Core, [Next]_vars
    PROVE  Core'
  <1>1. CASE UNCHANGED vars
    BY <1>1 DEF vars, kernel, ghosts, Core, Types, Good, Posted, InScript
  <1>2. CASE \E p \in Procs : Exit(p) \/ Stop(p) \/ Cont(p)
    BY <1>2, KernelCore
  <1>3. CASE \E p \in Procs : HandlerReap(p) \/ WaitReap(p) \/ JobmaxReap(p)
    <2>1. PICK p \in Procs, sig \in BOOLEAN : Reap(p, sig)
      BY <1>3 DEF HandlerReap, WaitReap, JobmaxReap
    <2> QED
      BY <2>1, ReapCore
  <1>4. CASE \E p \in Procs : StartBg(p) \/ StartFg(p) \/ PipeElement(p) \/ PipeLast(p)
    BY <1>4, StartCore
  <1>5. CASE \E p \in Procs : WaitPid(p)
    BY <1>5, WaitPidCore
  <1>6. CASE \E k \in DOMAIN job.pwlist : Fg(k) \/ Bg(k) \/ KillCont(k)
    BY <1>6, FgCore, BgCore, KillContCore
  <1>7. CASE BgBegin \/ WaitAny \/ WaitAnyEnd
    BY <1>7, QuietCore
  <1>8. CASE \/ ChkTrap \/ WaitBegin \/ PipeBuiltin \/ PipeEnd
             \/ WaitDone \/ WaitStopped \/ WaitInterrupted \/ Jobs \/ Prompt
    BY <1>8, ChkTrapCore, WaitBeginCore, PipeCore, WaitDoneCore, WaitStoppedCore,
       InterruptedCore, ListingCore
  <1> QED
    BY <1>1, <1>2, <1>3, <1>4, <1>5, <1>6, <1>7, <1>8 DEF Next, Shell

\* The table is good in every state.
THEOREM CoreInvariant == Spec => []Core
  <1>1. Core /\ [Next]_vars => Core'
    BY StepCore
  <1> QED
    BY InitCore, <1>1, PTL DEF Spec

\* No child is unknown to job_reap(), and no process is in the list twice, for
\* any number of processes, however jobs are joined, moved and unposted.
THEOREM ChildrenPosted == Spec => []AlivePosted
  <1>1. Core => AlivePosted
    <2> SUFFICES ASSUME Core
                 PROVE  AlivePosted
      OBVIOUS
    <2>1. Types /\ TableOK(job) /\ job \in Table /\ Posted(job, state, news)
      BY CoreTable
    <2>2. ASSUME NEW k \in DOMAIN job.pwlist, NEW l \in DOMAIN job.pwlist,
                 NEW i \in DOMAIN job.pwlist[k], NEW j \in DOMAIN job.pwlist[l],
                 job.pwlist[k][i] = job.pwlist[l][j]
          PROVE  k = l /\ i = j
      <3>1. k = l
        BY <2>1, <2>2 DEF TableOK, ListOK, ToSet
      <3> QED
        BY <2>1, <2>2, <3>1 DEF TableOK, ListOK, JobOK
    <2>3. \A k \in DOMAIN job.pwlist : job.pwlist[k] # <<>>
      BY <2>1 DEF TableOK, ListOK, JobOK
    <2>4. TypeOK
      BY <2>1, <2>2, <2>3 DEF TypeOK, Types, States
    <2>5. \A p \in Live : InTable(job, p)
      BY <2>1 DEF Live, Posted, Types
    <2> QED
      BY <2>4, <2>5 DEF AlivePosted
  <1> QED
    BY CoreInvariant, <1>1, PTL

\* What the shell waits for, and the job of the pipeline that it runs, stay in
\* the table.
THEOREM AwaitedPosted == Spec => []WaitedPosted
  <1>1. Core => WaitedPosted
    BY CoreTable DEF WaitedPosted, Core, Posted
  <1> QED
    BY CoreInvariant, <1>1, PTL

\* In a script no completed background job is left without its CHLD trap when
\* none is noted.
THEOREM TrapsRun == Spec => []NoTrapMissedInScript
  <1>1. Core => NoTrapMissedInScript
    BY DEF NoTrapMissedInScript, NoTrapMissed, Core, Types, Good, InScript, NoneMissed
  <1> QED
    BY CoreInvariant, <1>1, PTL

=============================================================================
