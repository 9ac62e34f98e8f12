--------------------------- MODULE SequenceLemmas ---------------------------
(* Facts about the sequences of the models: what is left of one when an     *)
(* element is removed, the orders of a finite set and that any order        *)
(* relation has one of them, and the sets that sequences list.              *)
EXTENDS Naturals, Sequences, SequencesExt, SequenceTheorems, FiniteSetTheorems, TLAPS

-----------------------------------------------------------------------------
\* What RemoveAt leaves behind.
LEMMA RemoveAtProperties ==
    ASSUME NEW S, NEW s \in Seq(S), NEW k \in DOMAIN s
    PROVE  /\ RemoveAt(s, k) \in Seq(S)
           /\ Len(RemoveAt(s, k)) = Len(s) - 1
           /\ \A n \in 1..(Len(s) - 1) :
                 RemoveAt(s, k)[n] = IF n < k THEN s[n] ELSE s[n + 1]
  <1> DEFINE a == SubSeq(s, 1, k - 1)
             b == SubSeq(s, k + 1, Len(s))
  <1>0. k \in 1..Len(s) /\ Len(s) \in Nat OBVIOUS
  <1>1. a \in Seq(S) /\ Len(a) = k - 1 /\ \A n \in 1..(k - 1) : a[n] = s[n]
    <2>1. \A n \in 1..(k - 1) : s[n] \in S BY <1>0
    <2>2. /\ SubSeq(s, 1, k - 1) \in Seq(S)
          /\ Len(SubSeq(s, 1, k - 1)) = IF 1 <= k - 1 THEN (k - 1) - 1 + 1 ELSE 0
          /\ \A n \in 1..((k - 1) - 1 + 1) : SubSeq(s, 1, k - 1)[n] = s[1 + n - 1]
      BY <1>0, <2>1, SubSeqProperties
    <2> QED BY <1>0, <2>2
  <1>2. /\ b \in Seq(S) /\ Len(b) = Len(s) - k
        /\ \A n \in 1..(Len(s) - k) : b[n] = s[k + n]
    <2>1. \A n \in (k + 1)..Len(s) : s[n] \in S BY <1>0
    <2>2. /\ SubSeq(s, k + 1, Len(s)) \in Seq(S)
          /\ Len(SubSeq(s, k + 1, Len(s))) =
                IF k + 1 <= Len(s) THEN Len(s) - (k + 1) + 1 ELSE 0
          /\ \A n \in 1..(Len(s) - (k + 1) + 1) :
                SubSeq(s, k + 1, Len(s))[n] = s[(k + 1) + n - 1]
      BY <1>0, <2>1, SubSeqProperties
    <2> QED BY <1>0, <2>2
  <1>3. RemoveAt(s, k) = a \o b BY DEF RemoveAt
  <1> HIDE DEF a, b
  <1>4. /\ a \o b \in Seq(S) /\ Len(a \o b) = Len(a) + Len(b)
        /\ \A n \in 1..(Len(a) + Len(b)) :
              (a \o b)[n] = IF n <= Len(a) THEN a[n] ELSE b[n - Len(a)]
    BY <1>1, <1>2, ConcatProperties
  <1>5. Len(a) + Len(b) = Len(s) - 1 BY <1>0, <1>1, <1>2
  <1>6. ASSUME NEW n \in 1..(Len(s) - 1)
        PROVE  (a \o b)[n] = IF n < k THEN s[n] ELSE s[n + 1]
    <2>1. CASE n < k BY <1>0, <1>1, <1>4, <1>5, <2>1
    <2>2. CASE n >= k
      <3>1. n - Len(a) \in 1..(Len(s) - k) /\ k + (n - Len(a)) = n + 1 /\ ~(n <= Len(a))
        BY <1>0, <1>1, <2>2
      <3> QED BY <1>0, <1>2, <1>4, <1>5, <2>2, <3>1
    <2>3. n < k \/ n >= k BY <1>0, <1>6
    <2> QED BY <2>1, <2>2, <2>3
  <1> QED BY <1>3, <1>4, <1>5, <1>6

-----------------------------------------------------------------------------
\* There are n places from 1 to n.
LEMMA PlacesCount ==
    ASSUME NEW n \in Nat PROVE IsFiniteSet(1..n) /\ Cardinality(1..n) = n
  BY FS_Interval

\* As many places as elements, no element in two of them: each has its place.
LEMMA OntoPlaces ==
    ASSUME NEW S, IsFiniteSet(S), NEW f \in [S -> 1..Cardinality(S)],
           \A x, y \in S : f[x] = f[y] => x = y
    PROVE  \A r \in 1..Cardinality(S) : \E x \in S : f[x] = r
  <1>1. Cardinality(S) \in Nat BY FS_CardinalityType
  <1>2. /\ IsFiniteSet(1..Cardinality(S))
        /\ Cardinality(1..Cardinality(S)) = Cardinality(S)
    BY <1>1, FS_Interval
  <1>3. f \in Injection(S, 1..Cardinality(S)) BY DEF Injection, IsInjective
  <1>4. f \in Surjection(S, 1..Cardinality(S)) BY <1>2, <1>3, FS_Injection
  <1> QED BY <1>4 DEF Surjection

\* An order of a finite set has every element of it, each at one place.
LEMMA SetToSeqsProperties ==
    ASSUME NEW S, IsFiniteSet(S), NEW p \in SetToSeqs(S)
    PROVE  /\ p \in Seq(S) /\ Len(p) = Cardinality(S) /\ DOMAIN p = 1..Cardinality(S)
           /\ \A j, k \in DOMAIN p : p[j] = p[k] => j = k
           /\ ToSet(p) = S
  <1> DEFINE D == 1..Cardinality(S)
  <1>1. Cardinality(S) \in Nat BY FS_CardinalityType
  <1>2. p \in [D -> S] /\ \A j, k \in D : p[j] = p[k] => j = k BY DEF SetToSeqs
  <1>3. IsFiniteSet(D) /\ Cardinality(D) = Cardinality(S) BY <1>1, FS_Interval
  <1>4. p \in Injection(D, S) BY <1>2 DEF Injection, IsInjective
  <1>5. p \in Surjection(D, S) BY <1>3, <1>4, FS_Injection
  <1>6. \A x \in S : \E k \in D : p[k] = x BY <1>5 DEF Surjection
  <1>7. p \in Seq(S) BY <1>1, <1>2, SeqDef
  <1>8. Len(p) = Cardinality(S) BY <1>1, <1>2, <1>7
  <1>9. ToSet(p) = S BY <1>2, <1>6 DEF ToSet
  <1> QED BY <1>2, <1>7, <1>8, <1>9

\* A sequence without repetitions is as long as its set of elements is large.
LEMMA DistinctCount ==
    ASSUME NEW S, NEW s \in Seq(S), \A j, k \in DOMAIN s : s[j] = s[k] => j = k
    PROVE  IsFiniteSet(ToSet(s)) /\ Cardinality(ToSet(s)) = Len(s)
  <1>1. Len(s) \in Nat /\ DOMAIN s = 1..Len(s) /\ s \in [1..Len(s) -> ToSet(s)]
    BY DEF ToSet
  <1>2. s \in Bijection(1..Len(s), ToSet(s))
    BY <1>1 DEF Bijection, Injection, Surjection, IsInjective, ToSet
  <1>3. ExistsBijection(1..Len(s), ToSet(s)) BY <1>2 DEF ExistsBijection
  <1>4. IsFiniteSet(1..Len(s)) /\ Cardinality(1..Len(s)) = Len(s) BY <1>1, FS_Interval
  <1> QED BY <1>3, <1>4, FS_Bijection

\* The elements of a sequence are finitely many.
LEMMA ToSetFinite ==
    ASSUME NEW S, NEW s \in Seq(S)
    PROVE  IsFiniteSet(ToSet(s))
  <1>1. Len(s) \in Nat /\ DOMAIN s = 1..Len(s) /\ s \in [1..Len(s) -> ToSet(s)]
    BY DEF ToSet
  <1>2. s \in Surjection(1..Len(s), ToSet(s)) BY <1>1 DEF Surjection, ToSet
  <1>3. IsFiniteSet(1..Len(s)) BY <1>1, FS_Interval
  <1> QED BY <1>2, <1>3, FS_Surjection

\* Two sequences one after the other have the elements of both, and repeat
\* none if neither does and they share none.
LEMMA ConcatSets ==
    ASSUME NEW S, NEW s \in Seq(S), NEW t \in Seq(S)
    PROVE  /\ ToSet(s \o t) = ToSet(s) \cup ToSet(t)
           /\ /\ \A j, k \in DOMAIN s : s[j] = s[k] => j = k
              /\ \A j, k \in DOMAIN t : t[j] = t[k] => j = k
              /\ ToSet(s) \cap ToSet(t) = {}
              => \A j, k \in DOMAIN (s \o t) : (s \o t)[j] = (s \o t)[k] => j = k
  <1> DEFINE u == s \o t
  <1>1. /\ Len(s) \in Nat /\ Len(t) \in Nat /\ DOMAIN s = 1..Len(s) /\ DOMAIN t = 1..Len(t)
    OBVIOUS
  <1>2. /\ u \in Seq(S) /\ Len(u) = Len(s) + Len(t)
        /\ \A k \in 1..(Len(s) + Len(t)) : u[k] = IF k <= Len(s) THEN s[k] ELSE t[k - Len(s)]
    BY ConcatProperties
  <1> HIDE DEF u
  <1>3. DOMAIN u = 1..(Len(s) + Len(t)) BY <1>2
  <1>4. ASSUME NEW k \in DOMAIN u
        PROVE  \/ k \in DOMAIN s /\ u[k] = s[k]
               \/ k > Len(s) /\ k - Len(s) \in DOMAIN t /\ u[k] = t[k - Len(s)]
    <2>1. k \in 1..(Len(s) + Len(t)) BY <1>3
    <2>2. CASE k <= Len(s) BY <1>1, <1>2, <2>1, <2>2
    <2>3. CASE ~(k <= Len(s)) BY <1>1, <1>2, <2>1, <2>3
    <2> QED BY <2>2, <2>3
  <1>5. \A k \in DOMAIN s : k \in DOMAIN u /\ u[k] = s[k] BY <1>1, <1>2, <1>3
  <1>6. ASSUME NEW k \in DOMAIN t
        PROVE  Len(s) + k \in DOMAIN u /\ u[Len(s) + k] = t[k]
    <2>1. /\ Len(s) + k \in 1..(Len(s) + Len(t)) /\ ~(Len(s) + k <= Len(s))
          /\ (Len(s) + k) - Len(s) = k
      BY <1>1
    <2> QED BY <1>2, <1>3, <2>1
  <1>7. ToSet(u) = ToSet(s) \cup ToSet(t) BY <1>4, <1>5, <1>6 DEF ToSet
  <1>8. ASSUME \A j, k \in DOMAIN s : s[j] = s[k] => j = k,
               \A j, k \in DOMAIN t : t[j] = t[k] => j = k,
               ToSet(s) \cap ToSet(t) = {}, NEW j \in DOMAIN u, NEW k \in DOMAIN u, u[j] = u[k]
        PROVE  j = k
    <2>1. j \in Nat /\ k \in Nat BY <1>1, <1>3
    <2>2. \A m \in DOMAIN s, n \in DOMAIN t : s[m] # t[n] BY <1>8 DEF ToSet
    <2>3. CASE j \in DOMAIN s /\ u[j] = s[j]
      <3>1. k \in DOMAIN s /\ u[k] = s[k] BY <1>4, <1>8, <2>2, <2>3
      <3> QED BY <1>8, <2>3, <3>1
    <2>4. CASE j - Len(s) \in DOMAIN t /\ u[j] = t[j - Len(s)]
      <3>1. k - Len(s) \in DOMAIN t /\ u[k] = t[k - Len(s)] BY <1>4, <1>8, <2>2, <2>4
      <3>2. j - Len(s) = k - Len(s) BY <1>8, <2>4, <3>1
      <3> QED BY <1>1, <2>1, <3>2
    <2> QED BY <1>4, <2>3, <2>4
  <1> QED BY <1>7, <1>8 DEF u

-----------------------------------------------------------------------------
\* A finite set that R orders totally can be written down in that order: the
\* place of an element is the number of those that are not behind it.
LEMMA SortedOrder ==
    ASSUME NEW S, IsFiniteSet(S), NEW R,
           \A x \in S : <<x, x>> \notin R,
           \A x, y \in S : x = y \/ <<x, y>> \in R \/ <<y, x>> \in R,
           \A x, y, z \in S : <<x, y>> \in R /\ <<y, z>> \in R => <<x, z>> \in R
    PROVE  \E p \in SetToSeqs(S) : \A j, k \in DOMAIN p : j < k => <<p[j], p[k]>> \in R
  <1> DEFINE UpTo(x) == {y \in S : y = x \/ <<y, x>> \in R}
             rank == [x \in S |-> Cardinality(UpTo(x))]
             n == Cardinality(S)
             p == [r \in 1..n |-> CHOOSE x \in S : rank[x] = r]
  <1>1. n \in Nat BY FS_CardinalityType
  <1>2. ASSUME NEW x \in S
        PROVE  /\ IsFiniteSet(UpTo(x)) /\ Cardinality(UpTo(x)) \in 1..n
    <2>1. UpTo(x) \in SUBSET S OBVIOUS
    <2>2. IsFiniteSet(UpTo(x)) /\ Cardinality(UpTo(x)) <= n BY <2>1, FS_Subset
    <2>3. UpTo(x) # {} OBVIOUS
    <2>4. Cardinality(UpTo(x)) \in Nat /\ Cardinality(UpTo(x)) # 0
      BY <2>2, <2>3, FS_CardinalityType, FS_EmptySet
    <2> QED BY <1>1, <2>2, <2>4
  <1>3. ASSUME NEW x \in S, NEW y \in S, <<x, y>> \in R
        PROVE  Cardinality(UpTo(x)) < Cardinality(UpTo(y))
    <2>1. UpTo(x) \in SUBSET UpTo(y) BY <1>3
    <2>2. y \in UpTo(y) /\ y \notin UpTo(x) BY <1>3
    <2>3. /\ Cardinality(UpTo(x)) <= Cardinality(UpTo(y))
          /\ Cardinality(UpTo(x)) # Cardinality(UpTo(y))
      BY <1>2, <2>1, <2>2, FS_Subset
    <2> QED BY <1>1, <1>2, <2>3
  <1>4. rank \in [S -> 1..n] BY <1>2
  <1>5. \A x, y \in S : rank[x] = rank[y] => x = y
    <2> SUFFICES ASSUME NEW x \in S, NEW y \in S, x # y PROVE rank[x] # rank[y]
      OBVIOUS
    <2>1. \/ Cardinality(UpTo(x)) < Cardinality(UpTo(y))
          \/ Cardinality(UpTo(y)) < Cardinality(UpTo(x))
      BY <1>3
    <2>2. Cardinality(UpTo(x)) \in Nat /\ Cardinality(UpTo(y)) \in Nat BY <1>1, <1>2
    <2> HIDE DEF UpTo
    <2> QED BY <2>1, <2>2
  <1>6. \A x, y \in S : <<x, y>> \in R => rank[x] < rank[y] BY <1>3
  <1> HIDE DEF rank, n
  <1>7. \A r \in 1..n : \E x \in S : rank[x] = r
    BY <1>4, <1>5, OntoPlaces DEF n
  <1>8. \A r \in 1..n : p[r] \in S /\ rank[p[r]] = r BY <1>7
  <1>9. p \in SetToSeqs(S)
    <2>1. p \in [1..n -> S] BY <1>8
    <2>2. \A j, k \in 1..n : j # k => p[j] # p[k] BY <1>8
    <2> HIDE DEF p
    <2> QED BY <2>1, <2>2 DEF SetToSeqs, n
  <1>10. ASSUME NEW j \in DOMAIN p, NEW k \in DOMAIN p, j < k PROVE <<p[j], p[k]>> \in R
    <2>1. j \in 1..n /\ k \in 1..n OBVIOUS
    <2>2. p[j] \in S /\ p[k] \in S /\ rank[p[j]] = j /\ rank[p[k]] = k BY <1>8, <2>1
    <2> HIDE DEF p
    <2>3. p[j] # p[k] BY <1>10, <2>1, <2>2
    <2>4. <<p[k], p[j]>> \notin R
      <3>1. ~(k < j) BY <1>1, <1>10, <2>1
      <3> QED BY <1>6, <2>2, <3>1
    <2> QED BY <2>2, <2>3, <2>4
  <1> HIDE DEF p
  <1> QED BY <1>9, <1>10
=============================================================================
