------------------------- MODULE SearchServiceProofs -------------------------
(* Proofs about SearchService, for every set of ids and texts, every scoring  *)
(* of texts, and every constant of the fusion.                                *)
EXTENDS SearchService, SequenceLemmas

Answers == [id : Ids, score : Nat, text : Texts]

-----------------------------------------------------------------------------
(* The results. *)

\* The places of a finite set of numbers can be listed in ascending order.
LEMMA AscendingProperties ==
    ASSUME NEW S \in SUBSET Nat, IsFiniteSet(S)
    PROVE  /\ Ascending(S) \in Seq(S) /\ Len(Ascending(S)) = Cardinality(S)
           /\ DOMAIN Ascending(S) = 1..Cardinality(S) /\ ToSet(Ascending(S)) = S
           /\ \A j, k \in DOMAIN Ascending(S) : j < k => Ascending(S)[j] < Ascending(S)[k]
  <1> DEFINE R == {e \in S \X S : e[1] < e[2]}
             InOrder(p) == \A j, k \in DOMAIN p : j < k => p[j] < p[k]
  <1>1. \A x, y \in S : <<x, y>> \in R <=> x < y OBVIOUS
  <1>2. /\ \A x \in S : ~(x < x)
        /\ \A x, y \in S : x = y \/ x < y \/ y < x
        /\ \A x, y, z \in S : x < y /\ y < z => x < z
    OBVIOUS
  <1>3. \E p \in SetToSeqs(S) : \A j, k \in DOMAIN p : j < k => <<p[j], p[k]>> \in R
    <2> HIDE DEF R
    <2>1. /\ \A x \in S : <<x, x>> \notin R
          /\ \A x, y \in S : x = y \/ <<x, y>> \in R \/ <<y, x>> \in R
          /\ \A x, y, z \in S : <<x, y>> \in R /\ <<y, z>> \in R => <<x, z>> \in R
      BY <1>1, <1>2
    <2> QED BY <2>1, SortedOrder
  <1>4. \E p \in Orders(S) : InOrder(p) BY <1>3 DEF Orders
  <1>5. Ascending(S) \in Orders(S) /\ InOrder(Ascending(S)) BY <1>4 DEF Ascending
  <1>6. Ascending(S) \in SetToSeqs(S) BY <1>5 DEF Orders
  <1> QED BY <1>5, <1>6, SetToSeqsProperties

\* The first n of a ranking.
LEMMA FirstProperties ==
    ASSUME NEW S, NEW s \in Seq(S), NEW n \in Nat
    PROVE  /\ FirstOf(s, n) \in Seq(S)
           /\ Len(FirstOf(s, n)) = IF Len(s) < n THEN Len(s) ELSE n
           /\ DOMAIN FirstOf(s, n) \subseteq DOMAIN s
           /\ \A k \in DOMAIN FirstOf(s, n) : FirstOf(s, n)[k] = s[k]
  <1> DEFINE l == IF Len(s) < n THEN Len(s) ELSE n
  <1>1. Len(s) \in Nat /\ DOMAIN s = 1..Len(s) /\ \A k \in 1..Len(s) : s[k] \in S OBVIOUS
  <1>2. l \in Nat /\ l <= Len(s) BY <1>1
  <1> HIDE DEF l
  <1>3. /\ \A k \in 1..l : s[k] \in S /\ k \in 1..Len(s)
        /\ 1 \in Int /\ l \in Int
    <2>1. \A k \in 1..l : k \in 1..Len(s) BY <1>1, <1>2
    <2>2. l \in Int BY <1>2
    <2> QED BY <1>1, <2>1, <2>2
  <1>4. /\ SubSeq(s, 1, l) \in Seq(S)
        /\ Len(SubSeq(s, 1, l)) = IF 1 <= l THEN l - 1 + 1 ELSE 0
        /\ \A k \in 1..(l - 1 + 1) : SubSeq(s, 1, l)[k] = s[1 + k - 1]
    BY <1>3, SubSeqProperties
  <1>5. FirstOf(s, n) = SubSeq(s, 1, l) BY DEF FirstOf, l
  <1>6. Len(FirstOf(s, n)) = l BY <1>2, <1>4, <1>5
  <1>7. DOMAIN FirstOf(s, n) = 1..l BY <1>4, <1>5, <1>6
  <1>8. \A k \in 1..l : FirstOf(s, n)[k] = s[k]
    <2> SUFFICES ASSUME NEW k \in 1..l PROVE FirstOf(s, n)[k] = s[k]
      OBVIOUS
    <2>1. k \in 1..(l - 1 + 1) /\ 1 + k - 1 = k BY <1>2
    <2> QED BY <1>4, <1>5, <2>1
  <1> QED BY <1>1, <1>3, <1>4, <1>5, <1>6, <1>7, <1>8 DEF l

\* The places among the first n of the records that are cached, and of those
\* that are gone.
There(scored, n) == {k \in DOMAIN FirstOf(scored, n) : cache[FirstOf(scored, n)[k].id] # None}
Kept(scored, n)  == Ascending(There(scored, n))
Gone(S) == {i \in S : cache[i] = None}

\* What is kept of a ranking, in its order.
LEMMA AssembleProperties ==
    ASSUME TypeOK, NEW scored \in Seq(Entries), NEW n \in Nat
    PROVE  LET a    == Assemble(scored, n)
               kept == Kept(scored, n)
           IN  /\ a \in Seq(Answers) /\ Len(a) = Cardinality(There(scored, n))
               /\ DOMAIN a = DOMAIN kept /\ DOMAIN kept \subseteq Nat
               /\ ToSet(kept) = There(scored, n)
               /\ \A j, k \in DOMAIN kept : j < k => kept[j] < kept[k]
               /\ \A r \in DOMAIN a :
                     /\ kept[r] \in DOMAIN scored /\ kept[r] \in There(scored, n)
                     /\ a[r].id = scored[kept[r]].id /\ a[r].score = scored[kept[r]].score
                     /\ cache[a[r].id] # None /\ a[r].text = cache[a[r].id].text
  <1> DEFINE first == FirstOf(scored, n)
             there == There(scored, n)
             kept == Kept(scored, n)
             a == Assemble(scored, n)
  <1>1. /\ first \in Seq(Entries) /\ DOMAIN first \subseteq DOMAIN scored
        /\ \A k \in DOMAIN first : first[k] = scored[k]
    BY FirstProperties
  <1>2. Len(first) \in Nat /\ DOMAIN first = 1..Len(first) /\ \A k \in DOMAIN first : first[k] \in Entries
    <2> HIDE DEF first
    <2> QED BY <1>1
  <1>3. there \in SUBSET (1..Len(first)) /\ \A k \in there : cache[first[k].id] # None
    <2>1. there = {k \in DOMAIN first : cache[first[k].id] # None} BY DEF There
    <2> HIDE DEF there, first
    <2> QED BY <1>2, <2>1
  <1> HIDE DEF first, there
  <1>4. IsFiniteSet(there) /\ there \in SUBSET Nat
    <2>1. Len(first) \in Int /\ 1..Len(first) \subseteq Nat BY <1>2
    <2>2. IsFiniteSet(1..Len(first)) BY <2>1, FS_Interval
    <2> QED BY <1>3, <2>1, <2>2, FS_Subset
  <1>5. kept = Ascending(there) BY DEF Kept, there
  <1> HIDE DEF kept
  <1>6. /\ DOMAIN kept = 1..Cardinality(there) /\ Cardinality(there) \in Nat
        /\ ToSet(kept) = there /\ \A j, k \in DOMAIN kept : j < k => kept[j] < kept[k]
    BY <1>4, <1>5, AscendingProperties, FS_CardinalityType
  <1>7. a = [r \in DOMAIN kept |->
               [id |-> first[kept[r]].id, score |-> first[kept[r]].score,
                text |-> cache[first[kept[r]].id].text]]
    BY DEF Assemble, Kept, There, first, kept, there
  <1>8. ASSUME NEW r \in DOMAIN kept
        PROVE  /\ kept[r] \in there /\ kept[r] \in DOMAIN scored
               /\ first[kept[r]] = scored[kept[r]] /\ first[kept[r]] \in Entries
               /\ cache[first[kept[r]].id] # None
    <2>1. kept[r] \in there BY <1>6 DEF ToSet
    <2> QED BY <1>1, <1>2, <1>3, <2>1
  <1> HIDE DEF a
  <1>9. ASSUME NEW r \in DOMAIN kept
        PROVE  /\ a[r] \in Answers
               /\ a[r].id = scored[kept[r]].id /\ a[r].score = scored[kept[r]].score
               /\ cache[a[r].id] # None /\ a[r].text = cache[a[r].id].text
    <2>1. /\ a[r].id = scored[kept[r]].id /\ a[r].score = scored[kept[r]].score
          /\ cache[a[r].id] # None /\ a[r].text = cache[a[r].id].text
          /\ a[r] = [id |-> a[r].id, score |-> a[r].score, text |-> a[r].text]
      BY <1>7, <1>8
    <2>2. a[r].id \in Ids /\ a[r].score \in Nat BY <1>8, <2>1 DEF Entries
    <2>3. cache[a[r].id] \in Records BY <2>1, <2>2 DEF TypeOK
    <2>4. a[r].text \in Texts BY <2>1, <2>3 DEF Records
    <2> QED BY <2>1, <2>2, <2>4 DEF Answers
  <1>10. a \in Seq(Answers) /\ Len(a) = Cardinality(there)
    <2>1. a \in [1..Cardinality(there) -> Answers] BY <1>6, <1>7, <1>9
    <2>2. a \in Seq(Answers) BY <1>6, <2>1, SeqDef
    <2> QED BY <1>6, <2>1, <2>2
  <1>11. DOMAIN a = DOMAIN kept /\ DOMAIN kept \subseteq Nat BY <1>6, <1>7
  <1> QED BY <1>6, <1>8, <1>9, <1>10, <1>11 DEF a, kept, there

\* Nothing is made of an empty ranking.
LEMMA AssembleEmpty ==
    ASSUME TypeOK, NEW n \in Nat PROVE Assemble(<<>>, n) = <<>>
  <1>1. <<>> \in Seq(Entries) /\ DOMAIN <<>> = {} OBVIOUS
  <1>2. There(<<>>, n) = {} BY <1>1, FirstProperties DEF There
  <1>3. Cardinality(There(<<>>, n)) = 0 BY <1>2, FS_EmptySet
  <1>4. Assemble(<<>>, n) \in Seq(Answers) /\ Len(Assemble(<<>>, n)) = 0
    BY <1>1, <1>3, AssembleProperties
  <1> QED BY <1>4

\* What is gone takes its own place among the first n, and no other.
LEMMA GoneCost ==
    ASSUME TypeOK, NEW scored \in Seq(Entries), NEW n \in Nat, Distinct(IdOf(scored))
    PROVE  LET S == ToSet(IdOf(scored))
               l == Len(Assemble(scored, n)) + Cardinality(Gone(S))
           IN  l >= n \/ l >= Cardinality(S)
  <1> DEFINE first == FirstOf(scored, n)
             there == There(scored, n)
             away == {k \in DOMAIN first : cache[first[k].id] = None}
             S == ToSet(IdOf(scored))
             at == [k \in away |-> first[k].id]
  <1>1. /\ first \in Seq(Entries) /\ DOMAIN first \subseteq DOMAIN scored
        /\ \A k \in DOMAIN first : first[k] = scored[k]
        /\ Len(first) = IF Len(scored) < n THEN Len(scored) ELSE n
    BY FirstProperties
  <1>2. Len(first) \in Nat /\ DOMAIN first = 1..Len(first) /\ Len(scored) \in Nat
    <2> HIDE DEF first
    <2> QED BY <1>1
  <1>3. /\ IdOf(scored) \in Seq(Ids) /\ Len(IdOf(scored)) = Len(scored)
        /\ \A k \in DOMAIN scored : IdOf(scored)[k] = scored[k].id
    <2>1. DOMAIN scored = 1..Len(scored) /\ \A k \in DOMAIN scored : scored[k].id \in Ids
      <3>1. DOMAIN scored = 1..Len(scored) /\ \A k \in DOMAIN scored : scored[k] \in Entries
        OBVIOUS
      <3> QED BY <3>1 DEF Entries
    <2>2. IdOf(scored) \in [1..Len(scored) -> Ids] BY <2>1 DEF IdOf
    <2>3. IdOf(scored) \in Seq(Ids) BY <1>2, <2>2, SeqDef
    <2> QED BY <1>2, <2>1, <2>2, <2>3 DEF IdOf
  <1>4. IsFiniteSet(S) /\ Cardinality(S) = Len(scored)
    BY <1>3, DistinctCount DEF Distinct
  <1>5. /\ there \in SUBSET (1..Len(first)) /\ away = (1..Len(first)) \ there
        /\ away \in SUBSET (1..Len(first))
    <2>1. there = {k \in DOMAIN first : cache[first[k].id] # None} BY DEF There
    <2> HIDE DEF first, there
    <2> QED BY <1>2, <2>1
  <1>6. at \in Injection(away, Gone(S))
    <2>1. ASSUME NEW k \in away
          PROVE  k \in DOMAIN scored /\ at[k] = scored[k].id /\ at[k] \in Gone(S)
      <3>1. k \in DOMAIN first BY <1>1
      <3>2. /\ k \in DOMAIN scored /\ at[k] = scored[k].id /\ cache[at[k]] = None
        BY <1>1, <3>1
      <3>3. at[k] \in S BY <1>3, <3>2 DEF ToSet, IdOf
      <3> QED BY <3>2, <3>3 DEF Gone
    <2>2. at \in [away -> Gone(S)] BY <2>1
    <2>3. \A j, k \in away : at[j] = at[k] => j = k
      <3> HIDE DEF at, away
      <3> QED BY <1>3, <2>1 DEF Distinct, IdOf
    <2>4. DOMAIN at = away OBVIOUS
    <2> HIDE DEF at, away
    <2> QED BY <2>2, <2>3, <2>4 DEF Injection, IsInjective
  <1>7. IsFiniteSet(Gone(S)) /\ Cardinality(Gone(S)) \in Nat
    <2>1. Gone(S) \in SUBSET S BY DEF Gone
    <2> QED BY <1>4, <2>1, FS_Subset, FS_CardinalityType
  <1> HIDE DEF first, there, away, S, at
  <1>8. Cardinality(away) <= Cardinality(Gone(S)) BY <1>6, <1>7, FS_Injection
  <1>9. /\ Cardinality(away) = Len(first) - Cardinality(there)
        /\ Cardinality(there) \in Nat /\ Cardinality(away) \in Nat
    <2>0. Len(first) \in Nat BY <1>2
    <2>1. IsFiniteSet(1..Len(first)) /\ Cardinality(1..Len(first)) = Len(first)
      BY <2>0, PlacesCount
    <2>2. (1..Len(first)) \cap there = there BY <1>5
    <2>3. IsFiniteSet(there) /\ IsFiniteSet(away) BY <1>5, <2>1, FS_Subset
    <2>4. Cardinality((1..Len(first)) \ there) = Len(first) - Cardinality(there)
      <3>1. Cardinality((1..Len(first)) \ there) =
               Cardinality(1..Len(first)) - Cardinality((1..Len(first)) \cap there)
        BY <2>1, FS_Difference
      <3> QED BY <2>1, <2>2, <3>1
    <2> QED BY <1>5, <2>3, <2>4, FS_CardinalityType
  <1>10. Len(Assemble(scored, n)) = Cardinality(there) BY AssembleProperties DEF there
  <1>11. Cardinality(there) + Cardinality(Gone(S)) >= Len(first) BY <1>2, <1>7, <1>8, <1>9
  <1>12. CASE Len(scored) < n
    <2>1. Len(first) = Cardinality(S) BY <1>1, <1>4, <1>12
    <2> QED BY <1>10, <1>11, <2>1 DEF S
  <1>13. CASE ~(Len(scored) < n)
    <2>1. Len(first) = n BY <1>1, <1>13
    <2> QED BY <1>10, <1>11, <2>1 DEF S
  <1> QED BY <1>12, <1>13

-----------------------------------------------------------------------------
(* The fusion. *)

\* Products keep the order of their factors.
LEMMA ProductOrder ==
    ASSUME NEW a \in Nat, NEW b \in Nat, NEW c \in Nat, a <= b
    PROVE  a * c <= b * c
  OBVIOUS

\* What divides is found again.
LEMMA Quotient ==
    ASSUME NEW q \in Nat, NEW d \in Nat \ {0}
    PROVE  (q * d) \div d = q
  OBVIOUS

\* The share of a rank is positive, and smaller than that of any rank ahead.
LEMMA ScoreDecreases ==
    ASSUME NEW r \in 0..Limit
    PROVE  /\ RRFScore(r) \in Nat \ {0}
           /\ \A t \in 0..Limit : r < t => RRFScore(r) > RRFScore(t)
  <1>1. /\ K \in Nat \ {0} /\ Common \in Nat \ {0} /\ Limit \in Nat
        /\ \A t \in 0..Limit : \E q \in 1..Common : q * (K + t) = Common
    BY SearchAssumption
  <1>2. ASSUME NEW t \in 0..Limit
        PROVE  RRFScore(t) \in Nat \ {0} /\ RRFScore(t) * (K + t) = Common
    <2>1. PICK q \in 1..Common : q * (K + t) = Common BY <1>1
    <2>2. K + t \in Nat \ {0} /\ q \in Nat \ {0} BY <1>1
    <2>3. (q * (K + t)) \div (K + t) = q BY <2>2, Quotient
    <2>4. RRFScore(t) = q BY <2>1, <2>3 DEF RRFScore
    <2> QED BY <2>1, <2>2, <2>4
  <1>3. ASSUME NEW t \in 0..Limit, r < t PROVE RRFScore(r) > RRFScore(t)
    <2> DEFINE a == RRFScore(r)
               b == RRFScore(t)
    <2>1. a \in Nat /\ b \in Nat \ {0} /\ a * (K + r) = Common /\ b * (K + t) = Common
      BY <1>2
    <2>2. K + r \in Nat /\ K + t \in Nat /\ K + r < K + t BY <1>1, <1>3
    <2> HIDE DEF a, b
    <2>3. SUFFICES ASSUME a <= b PROVE FALSE
      BY <2>1 DEF a, b
    <2>4. a * (K + r) <= b * (K + r) BY <2>1, <2>2, <2>3, ProductOrder
    <2>5. b * (K + r) < b * (K + t)
      <3> DEFINE m == K + r
                 n == K + t
      <3>1. m \in Nat /\ n \in Nat /\ m < n BY <2>2
      <3> HIDE DEF m, n
      <3>2. b * m < b * n BY <2>1, <3>1
      <3> QED BY <3>2 DEF m, n
    <2>6. b * (K + r) \in Nat /\ b * (K + t) \in Nat /\ a * (K + r) \in Nat BY <2>1, <2>2
    <2> QED BY <2>1, <2>4, <2>5, <2>6
  <1> QED BY <1>2, <1>3

\* One more place of a ranking is at most one more hit.
LEMMA HitsProperties ==
    ASSUME NEW s, NEW x, NEW n \in Nat
    PROVE  /\ Hits(x, s, 0) = 0 /\ Hits(x, s, n) \in Nat
           /\ Hits(x, s, n + 1) = Hits(x, s, n) + (IF s[n + 1] = x THEN 1 ELSE 0)
           /\ Hits(x, s, n) > 0 <=> \E j \in 1..n : s[j] = x
  <1> DEFINE S == {j \in 1..n : s[j] = x}
  <1>1. IsFiniteSet(S) /\ Cardinality(S) \in Nat /\ n + 1 \notin S
    <2>1. IsFiniteSet(1..n) BY PlacesCount
    <2>2. S \subseteq 1..n /\ n + 1 \notin 1..n OBVIOUS
    <2> QED BY <2>1, <2>2, FS_Subset, FS_CardinalityType
  <1>2. {j \in 1..0 : s[j] = x} = {} OBVIOUS
  <1>3. {j \in 1..(n + 1) : s[j] = x} = IF s[n + 1] = x THEN S \cup {n + 1} ELSE S
    <2>1. 1..(n + 1) = (1..n) \cup {n + 1} OBVIOUS
    <2> QED BY <2>1
  <1>4. Cardinality(S) > 0 <=> \E j \in 1..n : s[j] = x
    <2>1. Cardinality(S) = 0 <=> S = {} BY <1>1, FS_EmptySet
    <2> QED BY <1>1, <2>1
  <1> HIDE DEF S
  <1>5. Cardinality(S \cup {n + 1}) = Cardinality(S) + 1 BY <1>1, FS_AddElement
  <1>6. Hits(x, s, n) = Cardinality(S) BY DEF Hits, S
  <1>7. Hits(x, s, 0) = 0 BY <1>2, FS_EmptySet DEF Hits
  <1>8. Hits(x, s, n + 1) = Hits(x, s, n) + (IF s[n + 1] = x THEN 1 ELSE 0)
    <2>1. CASE s[n + 1] = x BY <1>3, <1>5, <1>6, <2>1 DEF Hits
    <2>2. CASE s[n + 1] # x
      <3>1. Hits(x, s, n + 1) = Cardinality(S) BY <1>3, <2>2 DEF Hits
      <3> QED BY <1>1, <1>6, <2>2, <3>1
    <2> QED BY <2>1, <2>2
  <1> QED BY <1>1, <1>4, <1>6, <1>7, <1>8

\* Who is ahead has been hit at least as often, wherever one stops.
LEMMA AheadHits ==
    ASSUME NEW s \in Seq(Ids), NEW x, NEW y, Ahead(x, y, s), NEW n \in 0..Len(s)
    PROVE  Hits(x, s, n) - Hits(y, s, n) \in Nat
  <1>1. n \in Nat /\ DOMAIN s = 1..Len(s) /\ Len(s) \in Nat OBVIOUS
  <1>2. Hits(x, s, n) \in Nat /\ Hits(y, s, n) \in Nat BY <1>1, HitsProperties
  <1>3. Hits(x, s, n) >= Hits(y, s, n)
    <2>1. CASE n = 0 BY <1>1, <2>1, HitsProperties
    <2>2. CASE n # 0 BY <1>1, <2>2 DEF Ahead
    <2> QED BY <2>1, <2>2
  <1> QED BY <1>2, <1>3

\* A ranking lists what it hits.
LEMMA HitsListed ==
    ASSUME NEW s \in Seq(Ids), NEW x
    PROVE  x \in ToSet(s) <=> Hits(x, s, Len(s)) > 0
  <1>1. DOMAIN s = 1..Len(s) /\ Len(s) \in Nat OBVIOUS
  <1>2. x \in ToSet(s) <=> \E j \in 1..Len(s) : s[j] = x BY <1>1 DEF ToSet
  <1>3. Hits(x, s, Len(s)) > 0 <=> \E j \in 1..Len(s) : s[j] = x
    BY <1>1, HitsProperties
  <1> QED BY <1>2, <1>3

\* Who is ahead is listed if the other is.
LEMMA AheadListed ==
    ASSUME NEW s \in Seq(Ids), NEW x, NEW y, Ahead(x, y, s), y \in ToSet(s)
    PROVE  x \in ToSet(s)
  <1>1. Len(s) \in Nat /\ Len(s) \in 0..Len(s) OBVIOUS
  <1>2. Hits(x, s, Len(s)) - Hits(y, s, Len(s)) \in Nat BY <1>1, AheadHits
  <1>3. Hits(y, s, Len(s)) > 0 BY HitsListed
  <1>4. Hits(x, s, Len(s)) \in Nat /\ Hits(y, s, Len(s)) \in Nat BY <1>1, HitsProperties
  <1>5. Hits(x, s, Len(s)) > 0 BY <1>2, <1>3, <1>4
  <1> QED BY <1>5, HitsListed

\* What a lead is worth does not grow when the hits become cheaper, and one hit
\* more makes up for it.
LEMMA LeadKept ==
    ASSUME NEW d \in Nat, NEW p \in Nat, NEW q \in Nat, q < p
    PROVE  d * q <= d * p /\ (d + 1) * q + 1 <= (d + 1) * p
  <1>1. q * d <= p * d BY ProductOrder
  <1>2. d * q <= d * p BY <1>1
  <1>3. (d + 1) * q = d * q + q /\ (d + 1) * p = d * p + p OBVIOUS
  <1>4. d * q \in Nat /\ d * p \in Nat OBVIOUS
  <1> QED BY <1>2, <1>3, <1>4

\* A hit more of a ranking that is being added up.
LEMMA ScoredStep ==
    ASSUME TypeOK, NEW s \in {bm25, vec}, Len(s) <= Limit, rank < Len(s),
           NEW before, Scored(s, rank, before),
           scores' = [scores EXCEPT ![s[rank + 1]] = @ + RRFScore(rank)]
    PROVE  /\ scores' \in [Ids -> Nat]
           /\ \A x, y \in Ids :
                 x # y /\ Ahead(x, y, bm25) /\ Ahead(x, y, vec) =>
                    scores'[x] >= scores'[y]
                       + (Hits(x, s, rank + 1) - Hits(y, s, rank + 1)) * RRFScore(rank + 1)
                       + (IF x \in before \/ Hits(x, s, rank + 1) > 0 THEN 1 ELSE 0)
  <1>1. /\ s \in Seq(Ids) /\ rank \in Nat /\ scores \in [Ids -> Nat] /\ Limit \in Nat
        /\ Len(s) \in Nat
    BY SearchAssumption DEF TypeOK
  <1>2. /\ rank \in 0..Limit /\ rank + 1 \in 0..Limit /\ rank < rank + 1
        /\ rank + 1 \in 1..Len(s) /\ rank \in 0..Len(s) /\ rank + 1 \in 0..Len(s)
    BY <1>1
  <1>3. s[rank + 1] \in Ids BY <1>1, <1>2
  <1> DEFINE p == RRFScore(rank)
             q == RRFScore(rank + 1)
             i == s[rank + 1]
  <1>4. p \in Nat /\ q \in Nat /\ q < p BY <1>2, ScoreDecreases
  <1> HIDE DEF p, q
  <1>5. scores' \in [Ids -> Nat] /\ \A z \in Ids : scores'[z] = IF z = i THEN scores[z] + p ELSE scores[z]
    BY <1>1, <1>3, <1>4 DEF p
  <1>6. ASSUME NEW x \in Ids, NEW y \in Ids, x # y, Ahead(x, y, bm25), Ahead(x, y, vec)
        PROVE  scores'[x] >= scores'[y]
                 + (Hits(x, s, rank + 1) - Hits(y, s, rank + 1)) * q
                 + (IF x \in before \/ Hits(x, s, rank + 1) > 0 THEN 1 ELSE 0)
    <2> DEFINE hx == Hits(x, s, rank)
               hy == Hits(y, s, rank)
               mx == Hits(x, s, rank + 1)
               my == Hits(y, s, rank + 1)
               e == IF x \in before \/ hx > 0 THEN 1 ELSE 0
               f == IF x \in before \/ mx > 0 THEN 1 ELSE 0
    <2>1. Ahead(x, y, s) BY <1>6
    <2>2. /\ hx \in Nat /\ hy \in Nat /\ hx - hy \in Nat /\ mx - my \in Nat
          /\ mx = hx + (IF i = x THEN 1 ELSE 0) /\ my = hy + (IF i = y THEN 1 ELSE 0)
      BY <1>1, <1>2, <2>1, AheadHits, HitsProperties
    <2>3. scores[x] >= scores[y] + (hx - hy) * p + e BY <1>6 DEF Scored, p
    <2>4. scores[x] \in Nat /\ scores[y] \in Nat BY <1>1
    <2> DEFINE d == hx - hy
    <2>5. /\ d \in Nat /\ d * p \in Nat /\ d * q \in Nat
      BY <1>4, <2>2
    <2>6. e \in {0, 1} /\ f \in {0, 1} OBVIOUS
    <2>7. CASE i = x
      <3>1. mx - my = d + 1 BY <1>6, <2>2, <2>7
      <3>2. scores'[x] = scores[x] + p /\ scores'[y] = scores[y] BY <1>5, <1>6, <2>7
      <3>3. (d + 1) * q + 1 <= (d + 1) * p /\ (d + 1) * p = d * p + p
        BY <1>4, <2>5, LeadKept
      <3>4. (d + 1) * q \in Nat BY <1>4, <2>5
      <3> HIDE DEF d, e, f, mx, my, hx, hy
      <3>5. scores[x] >= scores[y] + d * p + e BY <2>3 DEF d
      <3>6. scores'[x] >= scores'[y] + (d + 1) * q + f
        BY <1>4, <2>4, <2>5, <2>6, <3>2, <3>3, <3>4, <3>5
      <3> QED BY <3>1, <3>6 DEF mx, my, f
    <2>8. CASE i = y
      <3>1. mx = hx /\ mx - my = d - 1 /\ d - 1 \in Nat BY <1>6, <2>2, <2>8
      <3>2. e = f BY <3>1
      <3>3. scores'[x] = scores[x] /\ scores'[y] = scores[y] + p BY <1>5, <1>6, <2>8
      <3>4. (d - 1) * q <= (d - 1) * p /\ (d - 1) * p = d * p - p
        BY <1>4, <2>5, <3>1, LeadKept
      <3>5. (d - 1) * q \in Nat BY <1>4, <3>1
      <3> HIDE DEF d, e, f, mx, my, hx, hy
      <3>6. scores[x] >= scores[y] + d * p + e BY <2>3 DEF d
      <3>7. scores'[x] >= scores'[y] + (d - 1) * q + f
        BY <1>4, <2>4, <2>5, <2>6, <3>2, <3>3, <3>4, <3>5, <3>6
      <3> QED BY <3>1, <3>7 DEF mx, my, f
    <2>9. CASE i # x /\ i # y
      <3>1. mx = hx /\ mx - my = d BY <2>2, <2>9
      <3>2. e = f BY <3>1
      <3>3. scores'[x] = scores[x] /\ scores'[y] = scores[y] BY <1>5, <1>6, <2>9
      <3>4. d * q <= d * p BY <1>4, <2>5, LeadKept
      <3> HIDE DEF d, e, f, mx, my, hx, hy
      <3>5. scores[x] >= scores[y] + d * p + e BY <2>3 DEF d
      <3>6. scores'[x] >= scores'[y] + d * q + f
        BY <2>4, <2>5, <2>6, <3>2, <3>3, <3>4, <3>5
      <3> QED BY <3>1, <3>6 DEF mx, my, f
    <2> QED BY <2>7, <2>8, <2>9
  <1> QED BY <1>5, <1>6 DEF q

\* At the end of a ranking the lead is one of scores.
LEMMA ScoredEnd ==
    ASSUME TypeOK, NEW s \in {bm25, vec}, Len(s) <= Limit, NEW before,
           Scored(s, Len(s), before),
           NEW x \in Ids, NEW y \in Ids, x # y, Ahead(x, y, bm25), Ahead(x, y, vec)
    PROVE  scores[x] >= scores[y] + (IF x \in before \cup ToSet(s) THEN 1 ELSE 0)
  <1> DEFINE n == Len(s)
             d == Hits(x, s, n) - Hits(y, s, n)
             p == RRFScore(n)
  <1>1. /\ s \in Seq(Ids) /\ scores[x] \in Nat /\ scores[y] \in Nat
        /\ n \in Nat /\ n \in 0..n /\ n \in 0..Limit /\ DOMAIN s = 1..n
    BY SearchAssumption DEF TypeOK
  <1>2. d \in Nat BY <1>1, AheadHits
  <1>3. p \in Nat BY <1>1, ScoreDecreases
  <1>4. scores[x] >= scores[y] + d * p + (IF x \in before \/ Hits(x, s, n) > 0 THEN 1 ELSE 0)
    BY DEF Scored
  <1>5. x \in ToSet(s) <=> Hits(x, s, n) > 0 BY <1>1, HitsListed
  <1> HIDE DEF d, p, n
  <1>6. d * p \in Nat BY <1>2, <1>3
  <1>7. x \in before \cup ToSet(s) <=> x \in before \/ Hits(x, s, n) > 0 BY <1>5
  <1> QED BY <1>1, <1>4, <1>6, <1>7

\* So an id that is ahead in both rankings is not merged behind the other.
LEMMA AgreedPrecedes ==
    ASSUME TypeOK, Len(vec) <= Limit, Scored(vec, Len(vec), ToSet(bm25)),
           NEW x \in Ids, NEW y \in Found, x # y, Ahead(x, y, bm25), Ahead(x, y, vec)
    PROVE  x \in Found /\ ~Precedes(y, x)
  <1>1. bm25 \in Seq(Ids) /\ vec \in Seq(Ids) BY DEF TypeOK
  <1>2. x \in Found BY <1>1, AheadListed DEF Found
  <1>3. y \in Ids BY <1>1 DEF Found, ToSet
  <1>4. x \in ToSet(bm25) \cup ToSet(vec) BY <1>2 DEF Found
  <1>5. scores[x] >= scores[y] + 1 BY <1>3, <1>4, ScoredEnd
  <1>6. scores[x] \in Nat /\ scores[y] \in Nat BY <1>3 DEF TypeOK
  <1>7. scores[x] > scores[y] BY <1>5, <1>6
  <1> QED BY <1>2, <1>6, <1>7 DEF Precedes

\* A merge has the ids of both rankings, each once, with their scores.
LEMMA MergeProperties ==
    ASSUME TypeOK, NEW f \in Orders(Found)
    PROVE  /\ f \in Seq(Ids) /\ Distinct(f) /\ ToSet(f) = Found
           /\ IsFiniteSet(Found) /\ Len(f) = Cardinality(Found)
           /\ Merge(f) \in Seq(Entries) /\ Len(Merge(f)) = Len(f)
           /\ DOMAIN Merge(f) = DOMAIN f
           /\ \A k \in DOMAIN Merge(f) : Merge(f)[k].id = f[k]
  <1>0. bm25 \in Seq(Ids) /\ vec \in Seq(Ids) /\ scores \in [Ids -> Nat] BY DEF TypeOK
  <1>1. Found \subseteq Ids BY <1>0 DEF Found, ToSet
  <1>2. IsFiniteSet(Found) BY <1>0, ToSetFinite, FS_Union DEF Found
  <1>3. f \in Seq(Found) /\ Distinct(f) /\ ToSet(f) = Found /\ Len(f) = Cardinality(Found)
    <2>1. f \in SetToSeqs(Found) BY DEF Orders
    <2> QED BY <1>2, <2>1, SetToSeqsProperties DEF Distinct
  <1>4. Len(f) \in Nat /\ DOMAIN f = 1..Len(f) /\ \A k \in 1..Len(f) : f[k] \in Ids
    BY <1>1, <1>3
  <1>5. f \in Seq(Ids) BY <1>1, <1>3, SeqMonotonic
  <1>6. Merge(f) \in [1..Len(f) -> Entries] BY <1>0, <1>4 DEF Merge, Entries
  <1>7. Merge(f) \in Seq(Entries) BY <1>4, <1>6, SeqDef
  <1>8. Len(Merge(f)) = Len(f) BY <1>4, <1>6, <1>7
  <1>9. \A k \in DOMAIN Merge(f) : Merge(f)[k].id = f[k] BY DEF Merge
  <1>10. DOMAIN Merge(f) = DOMAIN f BY DEF Merge
  <1> QED BY <1>2, <1>3, <1>5, <1>7, <1>8, <1>9, <1>10

\* The rankings of both searches.
LEMMA KeywordRankingType ==
    ASSUME IsFiniteSet(Cached), NEW n \in Nat, NEW s \in KeywordRankings(n)
    PROVE  s \in Seq(Ids) /\ Distinct(s) /\ Len(s) <= n
  <1>1. PICK S \in SUBSET Cached : Cardinality(S) <= n /\ s \in SetToSeqs(S)
    BY DEF KeywordRankings, Orders
  <1>2. IsFiniteSet(S) BY <1>1, FS_Subset
  <1>3. s \in Seq(S) /\ Len(s) = Cardinality(S) /\ Distinct(s)
    BY <1>1, <1>2, SetToSeqsProperties DEF Distinct
  <1>4. S \subseteq Ids BY <1>1 DEF Cached
  <1>5. s \in Seq(Ids) BY <1>3, <1>4, SeqMonotonic
  <1> QED BY <1>1, <1>3, <1>5

\* A vector search has its limit, and may list an id as often as it likes.
LEMMA VectorRankingType ==
    ASSUME NEW n \in Nat, NEW s \in VectorRankings(n)
    PROVE  s \in Seq(Ids) /\ Len(s) <= n
  <1>1. PICK m \in 0..n : s \in [1..m -> Ids] BY DEF VectorRankings, BoundedSeq, SeqOf
  <1>2. m \in Nat BY <1>1
  <1>3. s \in Seq(Ids) BY <1>1, <1>2, SeqDef
  <1>4. Len(s) = m BY <1>1, <1>2, <1>3
  <1> QED BY <1>1, <1>3, <1>4

-----------------------------------------------------------------------------
(* What every step keeps. *)

SearchSafe == OwnScore /\ AgreedFirst /\ GoneCostsOne

\* Nothing is promised of a query that has no answer yet.
LEMMA NotDone == ASSUME pc # "done" PROVE SearchSafe
  BY DEF SearchSafe, OwnScore, AgreedFirst, GoneCostsOne

\* The ids of a ranking that is passed on are the ranking.
LEMMA UnscoredProperties ==
    ASSUME NEW s \in Seq(Ids)
    PROVE  Unscored(s) \in Seq(Entries) /\ IdOf(Unscored(s)) = s
  <1>1. Len(s) \in Nat /\ DOMAIN s = 1..Len(s) /\ \A k \in DOMAIN s : s[k] \in Ids OBVIOUS
  <1>2. s \in [1..Len(s) -> Ids] OBVIOUS
  <1>3. Unscored(s) \in [1..Len(s) -> Entries] BY <1>1 DEF Unscored, Entries
  <1>4. Unscored(s) \in Seq(Entries) BY <1>1, <1>3, SeqDef
  <1>5. IdOf(Unscored(s)) = [k \in DOMAIN s |-> s[k]] BY DEF IdOf, Unscored
  <1> QED BY <1>2, <1>4, <1>5

\* A write beside the query changes no document that is still promised.
LEMMA WriteStep ==
    ASSUME SearchInv, NEW i \in Ids, WriteRecord(i)
    PROVE  SearchInv' /\ SearchSafe'
  <1>0. TypeOK /\ RankingsOK /\ PhaseOK /\ ReadOK BY DEF SearchInv
  <1>1. /\ pc' = pc /\ pc \notin {"done", "fuse_bm25", "fuse_vec"}
        /\ UNCHANGED <<mode, topk, bm25, vec, fused, docs, scores, rank, answer>>
        /\ touched' = IF pc = "reranking" THEN touched \cup {i} ELSE {}
    BY DEF WriteRecord, Waiting, call, fusion
  <1>2. PICK r \in Records \cup {None} : cache' = [cache EXCEPT ![i] = r]
    BY DEF WriteRecord
  <1>3. TypeOK' BY <1>0, <1>1, <1>2 DEF TypeOK
  <1>4. IsFiniteSet(Cached')
    <2>1. Cached' \subseteq Cached \cup {i} BY <1>0, <1>2 DEF Cached, TypeOK
    <2>2. IsFiniteSet(Cached \cup {i}) BY <1>0, FS_AddElement DEF RankingsOK
    <2> QED BY <2>1, <2>2, FS_Subset
  <1>5. RankingsOK' BY <1>0, <1>1, <1>4 DEF RankingsOK, Distinct, IdOf
  <1>6. PhaseOK' BY <1>0, <1>1 DEF PhaseOK, NoScores
  <1>7. FusingOK' BY <1>1 DEF FusingOK
  <1>8. ReadOK'
    <2> SUFFICES ASSUME pc = "reranking"
                 PROVE  /\ mode = "hybrid_rerank" /\ Len(docs) = Len(fused)
                        /\ \A k \in DOMAIN fused :
                              /\ fused[k].id \in Found
                              /\ fused[k].id \notin touched \cup {i} =>
                                    docs[k] = DocTexts(fused)[k]'
                        /\ Len(fused) >= topk \/ Len(fused) = Cardinality(Found)
      BY <1>1 DEF ReadOK, Found
    <2>1. ASSUME NEW k \in DOMAIN fused, fused[k].id \notin touched \cup {i}
          PROVE  docs[k] = DocTexts(fused)[k]'
      <3>1. fused[k] \in Entries BY <1>0 DEF TypeOK
      <3>2. cache'[fused[k].id] = cache[fused[k].id]
        BY <1>0, <1>2, <2>1, <3>1 DEF TypeOK, Entries
      <3>3. docs[k] = DocTexts(fused)[k] BY <1>0, <2>1 DEF ReadOK
      <3> QED BY <1>1, <3>2, <3>3 DEF DocTexts
    <2> QED BY <1>0, <2>1 DEF ReadOK
  <1> QED BY <1>1, <1>3, <1>5, <1>6, <1>7, <1>8
      DEF SearchInv, SearchSafe, OwnScore, AgreedFirst, GoneCostsOne

\* A query with no candidates has no results.
LEMMA EmptyStep ==
    ASSUME SearchInv, NEW m \in Modes, NEW n \in TopKs, QueryEmpty(m, n)
    PROVE  SearchInv' /\ SearchSafe'
  <1>0. TypeOK /\ RankingsOK /\ PhaseOK /\ ReadOK BY DEF SearchInv
  <1>1. /\ pc = "idle" /\ pc' = "done" /\ mode' = m /\ topk' = n
        /\ UNCHANGED <<cache, bm25, vec, fused, docs, scores, rank, answer, touched>>
    BY DEF QueryEmpty, fusion
  <1>2. bm25 = <<>> /\ vec = <<>> /\ fused = <<>> /\ docs = <<>> /\ answer = <<>>
    BY <1>0, <1>1 DEF PhaseOK
  <1>3. TypeOK' BY <1>0, <1>1 DEF TypeOK
  <1>4. RankingsOK'
    <2>1. Limit \in Nat BY SearchAssumption
    <2> QED BY <1>0, <1>1, <1>2, <2>1 DEF RankingsOK, Distinct, IdOf, Cached
  <1>5. PhaseOK' BY <1>0, <1>1 DEF PhaseOK, NoScores
  <1>6. FusingOK' /\ ReadOK' BY <1>1 DEF FusingOK, ReadOK
  <1>7. OwnScore' /\ AgreedFirst' BY <1>1, <1>2 DEF OwnScore, AgreedFirst
  <1>8. GoneCostsOne'
    <2>1. Found' = {} BY <1>1, <1>2 DEF Found, ToSet
    <2>2. {i \in Found : cache[i] = None}' = {} BY <2>1
    <2>3. Cardinality({}) = 0 /\ Len(answer') = 0 BY <1>1, <1>2, FS_EmptySet
    <2> QED BY <2>1, <2>2, <2>3 DEF GoneCostsOne
  <1> QED BY <1>3, <1>4, <1>5, <1>6, <1>7, <1>8 DEF SearchInv, SearchSafe

\* The candidates and the keyword ranking.
LEMMA StartStep ==
    ASSUME SearchInv, NEW m \in Modes, NEW n \in TopKs, QueryStart(m, n)
    PROVE  SearchInv' /\ SearchSafe'
  <1>0. TypeOK /\ RankingsOK /\ PhaseOK /\ ReadOK BY DEF SearchInv
  <1>n. n \in Nat /\ Limit \in Nat /\ m # None BY SearchAssumption
  <1>1. PICK s \in KeywordRankings(IF m = "bm25_only" THEN n ELSE Limit) :
          /\ bm25' = IF m = "vector_only" THEN <<>> ELSE s
          /\ answer' = IF m = "bm25_only" THEN Assemble(Unscored(s), n) ELSE <<>>
    BY DEF QueryStart
  <1>2. /\ pc = "idle" /\ mode' = m /\ topk' = n
        /\ pc' = IF m = "bm25_only" THEN "done" ELSE "embedding"
        /\ UNCHANGED <<cache, vec, fused, docs, scores, rank, touched>>
    BY DEF QueryStart, fusion
  <1>3. /\ s \in Seq(Ids) /\ Distinct(s)
        /\ Len(s) <= IF m = "bm25_only" THEN n ELSE Limit
    BY <1>0, <1>n, KeywordRankingType DEF RankingsOK
  <1>4. vec = <<>> /\ fused = <<>> /\ docs = <<>> BY <1>0, <1>2 DEF PhaseOK
  <1>5. Unscored(s) \in Seq(Entries) /\ IdOf(Unscored(s)) = s BY <1>3, UnscoredProperties
  <1>6. Assemble(Unscored(s), n) \in Seq(Answers) BY <1>0, <1>n, <1>5, AssembleProperties
  <1>7. bm25' \in Seq(Ids) /\ Distinct(bm25') BY <1>1, <1>3 DEF Distinct
  <1>8. TypeOK'
    <2>1. answer' \in Seq(Answers) BY <1>1, <1>6
    <2> QED BY <1>0, <1>2, <1>7, <2>1 DEF TypeOK, Answers
  <1>9. RankingsOK'
    <2>1. m \in {"hybrid", "hybrid_rerank"} => Len(bm25') <= Limit BY <1>1, <1>3
    <2>2. Len(vec') <= Limit BY <1>n, <1>2, <1>4
    <2> QED BY <1>0, <1>2, <1>7, <2>1, <2>2 DEF RankingsOK, Distinct, IdOf, Cached
  <1>10. PhaseOK' BY <1>0, <1>n, <1>1, <1>2, <1>4 DEF PhaseOK, NoScores
  <1>11. FusingOK' /\ ReadOK' BY <1>2 DEF FusingOK, ReadOK
  <1>12. CASE m = "bm25_only"
    <2>1. OwnScore' /\ AgreedFirst' BY <1>2, <1>12 DEF OwnScore, AgreedFirst
    <2>2. GoneCostsOne'
      <3>1. Found' = ToSet(s)
        <4>1. ToSet(<<>>) = {} BY DEF ToSet
        <4> QED BY <1>1, <1>2, <1>4, <1>12, <4>1 DEF Found
      <3>2. {i \in Found : cache[i] = None}' = Gone(ToSet(s)) BY <1>2, <3>1 DEF Gone
      <3>3. answer' = Assemble(Unscored(s), n) BY <1>1, <1>12
      <3>4. LET l == Len(Assemble(Unscored(s), n)) + Cardinality(Gone(ToSet(s)))
            IN  l >= n \/ l >= Cardinality(ToSet(s))
        BY <1>0, <1>n, <1>3, <1>5, GoneCost
      <3> QED BY <1>2, <3>1, <3>2, <3>3, <3>4 DEF GoneCostsOne
    <2> QED BY <1>8, <1>9, <1>10, <1>11, <2>1, <2>2 DEF SearchInv, SearchSafe
  <1>13. CASE m # "bm25_only"
    <2>1. pc' # "done" BY <1>2, <1>13
    <2> QED BY <1>8, <1>9, <1>10, <1>11, <2>1
        DEF SearchInv, SearchSafe, OwnScore, AgreedFirst, GoneCostsOne
  <1> QED BY <1>12, <1>13

\* The vector ranking.
LEMMA VectorStep ==
    ASSUME SearchInv, VectorSearch
    PROVE  SearchInv' /\ SearchSafe'
  <1>0. TypeOK /\ RankingsOK /\ PhaseOK /\ ReadOK BY DEF SearchInv
  <1>n. topk \in Nat /\ Limit \in Nat BY <1>0, SearchAssumption DEF TypeOK
  <1>1. PICK v \in VectorRankings(IF mode = "vector_only" THEN topk ELSE Limit) :
          /\ vec' = v
          /\ IF mode = "vector_only"
             THEN pc' = "done" /\ answer' = Assemble(Unscored(v), topk)
             ELSE pc' = "fuse_bm25" /\ UNCHANGED answer
    BY DEF VectorSearch
  <1>2. /\ pc = "embedding"
        /\ UNCHANGED <<cache, mode, topk, bm25, fused, docs, scores, rank, touched>>
    BY DEF VectorSearch, call, fusion
  <1>3. v \in Seq(Ids) /\ Len(v) <= IF mode = "vector_only" THEN topk ELSE Limit
    BY <1>n, VectorRankingType
  <1>4. /\ fused = <<>> /\ docs = <<>> /\ answer = <<>> /\ mode # "bm25_only" /\ mode # None
        /\ scores = NoScores /\ rank = 0
    BY <1>0, <1>2 DEF PhaseOK
  <1>5. Assemble(Unscored(v), topk) \in Seq(Answers)
    BY <1>0, <1>n, <1>3, UnscoredProperties, AssembleProperties
  <1>6. TypeOK'
    <2>1. answer' \in Seq(Answers) /\ pc' \in {"fuse_bm25", "done"}
      <3>1. CASE mode = "vector_only" BY <1>1, <1>5, <3>1
      <3>2. CASE mode # "vector_only"
        <4>1. answer' = <<>> /\ pc' = "fuse_bm25" BY <1>1, <1>4, <3>2
        <4> QED BY <4>1
      <3> QED BY <3>1, <3>2
    <2> QED BY <1>0, <1>1, <1>2, <1>3, <2>1 DEF TypeOK, Answers
  <1>7. RankingsOK'
    <2>1. mode \in {"hybrid", "hybrid_rerank"} => Len(v) <= Limit
      <3>1. CASE mode = "vector_only" BY <3>1
      <3>2. CASE mode # "vector_only"
        <4>1. Len(v) <= Limit BY <1>3, <3>2
        <4> QED BY <4>1
      <3> QED BY <3>1, <3>2
    <2>2. IsFiniteSet(Cached') /\ Distinct(bm25') /\ Distinct(IdOf(fused'))
      BY <1>0, <1>2 DEF RankingsOK, IdOf, Cached
    <2>3. mode \in {"hybrid", "hybrid_rerank"} => Len(bm25) <= Limit BY <1>0 DEF RankingsOK
    <2> QED BY <1>1, <1>2, <2>1, <2>2, <2>3 DEF RankingsOK
  <1>8. PhaseOK' BY <1>1, <1>2, <1>4 DEF PhaseOK, NoScores
  <1>9. ReadOK' BY <1>1 DEF ReadOK
  <1>10. CASE mode = "vector_only"
    <2>1. pc' = "done" /\ mode' = "vector_only" BY <1>1, <1>2, <1>10
    <2> QED BY <1>6, <1>7, <1>8, <1>9, <2>1
        DEF SearchInv, FusingOK, SearchSafe, OwnScore, AgreedFirst, GoneCostsOne
  <1>11. CASE mode # "vector_only"
    <2>1. pc' = "fuse_bm25" BY <1>1, <1>11
    <2>2. rank' <= Len(bm25') /\ Scored(bm25, rank, {})'
      <3>1. rank' = 0 /\ rank' <= Len(bm25')
        <4>1. Len(bm25) \in Nat BY <1>0 DEF TypeOK
        <4> QED BY <1>2, <1>4, <4>1
      <3>2. RRFScore(0) \in Nat
        <4>1. 0 \in 0..Limit BY <1>n
        <4> QED BY <4>1, ScoreDecreases
      <3>3. \A x \in Ids : Hits(x, bm25', 0) = 0 /\ scores'[x] = 0
        <4>1. 0 \in Nat OBVIOUS
        <4> QED BY <1>2, <1>4, <4>1, HitsProperties DEF NoScores
      <3>4. (0 - 0) * RRFScore(0) = 0 BY <3>2
      <3> SUFFICES ASSUME NEW x \in Ids, NEW y \in Ids
                   PROVE  scores'[x] >= scores'[y]
                             + (Hits(x, bm25', 0) - Hits(y, bm25', 0)) * RRFScore(0)
                             + (IF x \in {} \/ Hits(x, bm25', 0) > 0 THEN 1 ELSE 0)
        BY <3>1 DEF Scored, RRFScore
      <3> QED BY <3>3, <3>4
    <2> QED BY <1>6, <1>7, <1>8, <1>9, <2>1, <2>2
        DEF SearchInv, FusingOK, SearchSafe, OwnScore, AgreedFirst, GoneCostsOne
  <1> QED BY <1>10, <1>11

\* One share more.
LEMMA ShareStep ==
    ASSUME SearchInv, AddShare
    PROVE  SearchInv' /\ SearchSafe'
  <1>0. TypeOK /\ RankingsOK /\ PhaseOK /\ FusingOK BY DEF SearchInv
  <1>1. /\ pc \in {"fuse_bm25", "fuse_vec"} /\ rank < Len(Retrieved) /\ rank' = rank + 1
        /\ scores' = [scores EXCEPT ![Retrieved[rank + 1]] = @ + RRFScore(rank)]
        /\ UNCHANGED <<cache, pc, mode, topk, bm25, vec, fused, docs, answer, touched>>
    BY DEF AddShare, call
  <1>2. mode \in {"hybrid", "hybrid_rerank"} BY <1>0, <1>1 DEF PhaseOK, TypeOK, Modes
  <1>3. /\ Len(bm25) <= Limit /\ Len(vec) <= Limit /\ rank \in Nat
        /\ Len(bm25) \in Nat /\ Len(vec) \in Nat
    BY <1>0, <1>2 DEF RankingsOK, TypeOK
  <1> DEFINE Lead(s, before) ==
               \A x, y \in Ids :
                  x # y /\ Ahead(x, y, bm25) /\ Ahead(x, y, vec) =>
                     scores'[x] >= scores'[y]
                        + (Hits(x, s, rank + 1) - Hits(y, s, rank + 1)) * RRFScore(rank + 1)
                        + (IF x \in before \/ Hits(x, s, rank + 1) > 0 THEN 1 ELSE 0)
  <1>4. CASE pc = "fuse_bm25"
    <2>1. Retrieved = bm25 BY <1>4 DEF Retrieved
    <2>2. scores' \in [Ids -> Nat] /\ Lead(bm25, {})
      BY <1>0, <1>1, <1>3, <1>4, <2>1, ScoredStep DEF FusingOK
    <2>3. Scored(bm25, rank, {})' BY <1>1, <2>2 DEF Scored, Ahead, Hits, RRFScore
    <2>4. rank' <= Len(bm25') BY <1>1, <1>3, <2>1
    <2>5. FusingOK' BY <1>1, <1>4, <2>3, <2>4 DEF FusingOK
    <2> QED BY <1>0, <1>1, <1>3, <1>4, <2>2, <2>5
        DEF SearchInv, TypeOK, RankingsOK, Distinct, IdOf, Cached, PhaseOK, ReadOK,
            SearchSafe, OwnScore, AgreedFirst, GoneCostsOne
  <1>5. CASE pc = "fuse_vec"
    <2>1. Retrieved = vec BY <1>5 DEF Retrieved
    <2>2. scores' \in [Ids -> Nat] /\ Lead(vec, ToSet(bm25))
      BY <1>0, <1>1, <1>3, <1>5, <2>1, ScoredStep DEF FusingOK
    <2>3. Scored(vec, rank, ToSet(bm25))' BY <1>1, <2>2 DEF Scored, Ahead, Hits, RRFScore
    <2>4. rank' <= Len(vec') BY <1>1, <1>3, <2>1
    <2>5. FusingOK' BY <1>1, <1>5, <2>3, <2>4 DEF FusingOK
    <2> QED BY <1>0, <1>1, <1>3, <1>5, <2>2, <2>5
        DEF SearchInv, TypeOK, RankingsOK, Distinct, IdOf, Cached, PhaseOK, ReadOK,
            SearchSafe, OwnScore, AgreedFirst, GoneCostsOne
  <1> QED BY <1>1, <1>4, <1>5

\* From the keyword ranking to the vector ranking.
LEMMA NextListStep ==
    ASSUME SearchInv, NextList
    PROVE  SearchInv' /\ SearchSafe'
  <1>0. TypeOK /\ RankingsOK /\ PhaseOK /\ FusingOK BY DEF SearchInv
  <1>1. /\ pc = "fuse_bm25" /\ rank = Len(bm25) /\ pc' = "fuse_vec" /\ rank' = 0
        /\ UNCHANGED <<cache, mode, topk, bm25, vec, fused, docs, scores, answer, touched>>
    BY DEF NextList, call
  <1>2. mode \in {"hybrid", "hybrid_rerank"} BY <1>0, <1>1 DEF PhaseOK, TypeOK, Modes
  <1>3. Len(bm25) <= Limit /\ Len(vec) \in Nat /\ Limit \in Nat
    BY <1>0, <1>2, SearchAssumption DEF RankingsOK, TypeOK
  <1>4. Scored(bm25, Len(bm25), {}) BY <1>0, <1>1 DEF FusingOK
  <1>5. RRFScore(0) \in Nat
    <2>1. 0 \in 0..Limit BY <1>3
    <2> QED BY <2>1, ScoreDecreases
  <1>6. Scored(vec, rank, ToSet(bm25))'
    <2> SUFFICES ASSUME NEW x \in Ids, NEW y \in Ids, x # y,
                        Ahead(x, y, bm25), Ahead(x, y, vec)
                 PROVE  scores[x] >= scores[y]
                           + (Hits(x, vec, 0) - Hits(y, vec, 0)) * RRFScore(0)
                           + (IF x \in ToSet(bm25) \/ Hits(x, vec, 0) > 0 THEN 1 ELSE 0)
      BY <1>1 DEF Scored, Ahead, Hits, RRFScore
    <2>1. scores[x] >= scores[y] + (IF x \in {} \cup ToSet(bm25) THEN 1 ELSE 0)
      BY <1>0, <1>3, <1>4, ScoredEnd
    <2>2. Hits(x, vec, 0) = 0 /\ Hits(y, vec, 0) = 0
      <3>1. 0 \in Nat OBVIOUS
      <3> QED BY <3>1, HitsProperties
    <2>3. (0 - 0) * RRFScore(0) = 0 BY <1>5
    <2>4. scores[x] \in Nat /\ scores[y] \in Nat BY <1>0 DEF TypeOK
    <2> QED BY <2>1, <2>2, <2>3, <2>4
  <1>7. FusingOK' BY <1>1, <1>3, <1>6 DEF FusingOK
  <1> QED BY <1>0, <1>1, <1>7
      DEF SearchInv, TypeOK, RankingsOK, Distinct, IdOf, Cached, PhaseOK, ReadOK,
          SearchSafe, OwnScore, AgreedFirst, GoneCostsOne

-----------------------------------------------------------------------------
(* The fusion and what is made of it. *)

\* The ids of a ranking of entries.
LEMMA IdOfProperties ==
    ASSUME NEW s \in Seq(Entries)
    PROVE  /\ IdOf(s) \in Seq(Ids) /\ Len(IdOf(s)) = Len(s) /\ DOMAIN IdOf(s) = DOMAIN s
           /\ \A k \in DOMAIN s : IdOf(s)[k] = s[k].id
           /\ ToSet(IdOf(s)) = {s[k].id : k \in DOMAIN s}
  <1>1. Len(s) \in Nat /\ DOMAIN s = 1..Len(s) /\ \A k \in DOMAIN s : s[k] \in Entries
    OBVIOUS
  <1>2. \A k \in DOMAIN s : s[k].id \in Ids BY <1>1 DEF Entries
  <1>3. IdOf(s) \in [1..Len(s) -> Ids] BY <1>1, <1>2 DEF IdOf
  <1>4. IdOf(s) \in Seq(Ids) BY <1>1, <1>3, SeqDef
  <1>5. Len(IdOf(s)) = Len(s) BY <1>1, <1>3, <1>4
  <1> QED BY <1>1, <1>4, <1>5 DEF IdOf, ToSet

\* The documents of a ranking.
LEMMA DocTextsType ==
    ASSUME TypeOK, NEW s \in Seq(Entries)
    PROVE  DocTexts(s) \in Seq(Texts) /\ Len(DocTexts(s)) = Len(s)
  <1>1. Len(s) \in Nat /\ DOMAIN s = 1..Len(s) /\ \A k \in DOMAIN s : s[k] \in Entries
    OBVIOUS
  <1>2. ASSUME NEW k \in DOMAIN s
        PROVE  (IF cache[s[k].id] = None THEN Blank ELSE cache[s[k].id].text) \in Texts
    <2>1. s[k].id \in Ids BY <1>1 DEF Entries
    <2>2. cache[s[k].id] \in Records \cup {None} /\ Blank \in Texts
      BY <2>1, SearchAssumption DEF TypeOK
    <2>3. CASE cache[s[k].id] = None BY <2>2, <2>3
    <2>4. CASE cache[s[k].id] # None
      <3>1. cache[s[k].id].text \in Texts BY <2>2, <2>4 DEF Records
      <3> QED BY <2>4, <3>1
    <2> QED BY <2>3, <2>4
  <1>3. DocTexts(s) \in [1..Len(s) -> Texts] BY <1>1, <1>2 DEF DocTexts
  <1>4. DocTexts(s) \in Seq(Texts) BY <1>1, <1>3, SeqDef
  <1> QED BY <1>1, <1>3, <1>4

\* Of the first of a merge, the results keep what both rankings agree on.
LEMMA AgreedAnswer ==
    ASSUME TypeOK, Len(vec) <= Limit, Scored(vec, Len(vec), ToSet(bm25)),
           NEW f \in Orders(Found), IsMerge(f),
           NEW w \in Nat, NEW n \in Nat, n <= w,
           NEW k \in DOMAIN Assemble(FirstOf(Merge(f), w), n), NEW x \in Ids,
           x # Assemble(FirstOf(Merge(f), w), n)[k].id,
           Ahead(x, Assemble(FirstOf(Merge(f), w), n)[k].id, bm25),
           Ahead(x, Assemble(FirstOf(Merge(f), w), n)[k].id, vec),
           cache[x] # None
    PROVE  \E j \in 1..(k - 1) : Assemble(FirstOf(Merge(f), w), n)[j].id = x
  <1> DEFINE g == FirstOf(Merge(f), w)
             a == Assemble(g, n)
             y == a[k].id
             first == FirstOf(g, n)
             kept == Kept(g, n)
             there == There(g, n)
  <1>1. /\ f \in Seq(Ids) /\ Distinct(f) /\ ToSet(f) = Found
        /\ Merge(f) \in Seq(Entries) /\ Len(Merge(f)) = Len(f)
        /\ \A i \in DOMAIN Merge(f) : Merge(f)[i].id = f[i]
    BY MergeProperties
  <1>2. /\ g \in Seq(Entries) /\ DOMAIN g \subseteq DOMAIN Merge(f)
        /\ Len(g) = IF Len(f) < w THEN Len(f) ELSE w
        /\ \A i \in DOMAIN g : g[i] = Merge(f)[i]
    BY <1>1, FirstProperties
  <1> HIDE DEF g
  <1>3. /\ first \in Seq(Entries) /\ DOMAIN first \subseteq DOMAIN g
        /\ Len(first) = IF Len(g) < n THEN Len(g) ELSE n
        /\ \A i \in DOMAIN first : first[i] = g[i]
    BY <1>2, FirstProperties
  <1>4. /\ a \in Seq(Answers) /\ DOMAIN a = DOMAIN kept /\ DOMAIN kept \subseteq Nat
        /\ ToSet(kept) = there
        /\ \A i, j \in DOMAIN kept : i < j => kept[i] < kept[j]
        /\ \A r \in DOMAIN a : /\ kept[r] \in DOMAIN g /\ kept[r] \in there
                               /\ a[r].id = g[kept[r]].id
    BY <1>2, AssembleProperties
  <1>5. there = {i \in DOMAIN first : cache[first[i].id] # None} BY DEF There
  <1>k. k \in DOMAIN a BY DEF g
  <1> HIDE DEF a, first, kept, there
  <1>6. /\ Len(f) \in Nat /\ DOMAIN f = 1..Len(f) /\ DOMAIN Merge(f) = DOMAIN f
        /\ Len(g) \in Nat /\ DOMAIN g = 1..Len(g)
        /\ Len(first) \in Nat /\ DOMAIN first = 1..Len(first)
        /\ Len(a) \in Nat /\ DOMAIN a = 1..Len(a)
    <2>1. DOMAIN Merge(f) = DOMAIN f BY DEF Merge
    <2> QED BY <1>1, <1>2, <1>3, <1>4, <2>1
  <1>7. \A i \in DOMAIN g : g[i].id = f[i] BY <1>1, <1>2
  <1>8. /\ kept[k] \in DOMAIN first /\ kept[k] \in DOMAIN f /\ y = f[kept[k]]
    BY <1>2, <1>4, <1>5, <1>6, <1>7, <1>k
  <1>9. y \in Found BY <1>1, <1>8 DEF ToSet
  <1>10. x # y /\ x \in Found /\ ~Precedes(y, x)
    <2>1. x # y /\ Ahead(x, y, bm25) /\ Ahead(x, y, vec) BY DEF a, g
    <2> HIDE DEF y
    <2> QED BY <1>9, <2>1, AgreedPrecedes
  <1> HIDE DEF y
  <1>q. PICK q \in DOMAIN f : f[q] = x BY <1>1, <1>10 DEF ToSet
  <1>11. q < kept[k]
    <2>1. q \in Nat /\ kept[k] \in Nat BY <1>6, <1>8, <1>q
    <2>2. q # kept[k] BY <1>8, <1>10, <1>q
    <2>3. ~(kept[k] < q) BY <1>8, <1>10, <1>q DEF IsMerge
    <2> QED BY <2>1, <2>2, <2>3
  <1>12. q \in there
    <2>1. q \in DOMAIN first BY <1>6, <1>8, <1>11, <1>q
    <2>2. first[q].id = x BY <1>3, <1>7, <1>q, <2>1
    <2> QED BY <1>5, <2>1, <2>2
  <1>13. PICK j \in DOMAIN kept : kept[j] = q BY <1>4, <1>12 DEF ToSet
  <1>14. j < k
    <2>1. j \in Nat /\ k \in Nat BY <1>4, <1>k, <1>13
    <2>2. kept[k] \in Nat /\ q \in Nat BY <1>6, <1>8, <1>q
    <2>3. j # k BY <1>11, <1>13, <2>2
    <2>4. ~(k < j)
      <3>1. k < j => kept[k] < kept[j] BY <1>4, <1>k, <1>13
      <3> QED BY <1>11, <1>13, <2>2, <3>1
    <2> QED BY <2>1, <2>3, <2>4
  <1>15. a[j].id = x
    <2>1. j \in DOMAIN a BY <1>4, <1>13
    <2>2. a[j].id = g[q].id /\ q \in DOMAIN g BY <1>4, <1>13, <2>1
    <2> QED BY <1>7, <1>q, <2>2
  <1>16. j \in 1..(k - 1) BY <1>4, <1>6, <1>k, <1>13, <1>14
  <1> QED BY <1>15, <1>16 DEF a, g

\* What is gone of a fused ranking is gone of what was found, of which the
\* ranking has everything or enough.
LEMMA FoundFused ==
    ASSUME TypeOK, NEW t \in Seq(Entries), Distinct(IdOf(t)), ToSet(IdOf(t)) \subseteq Found,
           topk \in Nat, Len(t) >= topk \/ Len(t) = Cardinality(Found),
           UNCHANGED <<cache, topk, bm25, vec>>, answer' = Assemble(t, topk)
    PROVE  GoneCostsOne'
  <1> DEFINE S == ToSet(IdOf(t))
             a == Len(Assemble(t, topk))
  <1>1. Found' = Found BY DEF Found
  <1>2. {i \in Found : cache[i] = None}' = Gone(Found) BY <1>1 DEF Gone
  <1>3. IsFiniteSet(Found) BY ToSetFinite, FS_Union DEF TypeOK, Found
  <1>4. Cardinality(S) = Len(t) /\ Len(t) \in Nat
    <2>1. IdOf(t) \in Seq(Ids) /\ Len(IdOf(t)) = Len(t) BY IdOfProperties
    <2> QED BY <2>1, DistinctCount DEF Distinct
  <1>5. a + Cardinality(Gone(S)) >= topk \/ a + Cardinality(Gone(S)) >= Cardinality(S)
    BY GoneCost
  <1>6. /\ Cardinality(Gone(S)) <= Cardinality(Gone(Found))
        /\ Cardinality(Gone(S)) \in Nat /\ Cardinality(Gone(Found)) \in Nat
        /\ Cardinality(Found) \in Nat
    <2>1. Gone(S) \subseteq Gone(Found) /\ Gone(Found) \subseteq Found BY DEF Gone
    <2> HIDE DEF S
    <2> QED BY <1>3, <2>1, FS_Subset, FS_CardinalityType
  <1>7. a \in Nat
    <2>1. Assemble(t, topk) \in Seq(Answers) BY AssembleProperties
    <2> QED BY <2>1
  <1> HIDE DEF S, a
  <1>8. \/ a + Cardinality(Gone(Found)) >= topk
        \/ a + Cardinality(Gone(Found)) >= Cardinality(Found)
    BY <1>4, <1>5, <1>6, <1>7
  <1>9. Len(answer') = a /\ topk' = topk BY DEF a
  <1> QED BY <1>1, <1>2, <1>8, <1>9 DEF GoneCostsOne

\* The fusion, and its results or the documents for the reranker.
LEMMA FuseStep ==
    ASSUME SearchInv, Fuse
    PROVE  SearchInv' /\ SearchSafe'
  <1>0. TypeOK /\ RankingsOK /\ PhaseOK /\ FusingOK BY DEF SearchInv
  <1>n. topk \in Nat /\ 2 * topk \in Nat /\ topk <= 2 * topk /\ Limit \in Nat
    <2>1. topk \in Nat BY <1>0, SearchAssumption DEF TypeOK
    <2> QED BY <2>1, SearchAssumption
  <1>1. PICK f \in Orders(Found) :
          /\ IsMerge(f)
          /\ fused' = FirstOf(Merge(f), 2 * topk)
    BY DEF Fuse, Found
  <1>2. /\ pc = "fuse_vec" /\ rank = Len(vec)
        /\ scores' = NoScores /\ rank' = 0 /\ touched' = {}
        /\ UNCHANGED <<cache, mode, topk, bm25, vec>>
        /\ \/ /\ mode = "hybrid_rerank" /\ fused' # <<>>
              /\ pc' = "reranking" /\ docs' = DocTexts(fused') /\ answer' = answer
           \/ /\ ~(mode = "hybrid_rerank" /\ fused' # <<>>)
              /\ pc' = "done" /\ answer' = Assemble(fused', topk) /\ docs' = docs
    BY DEF Fuse, call
  <1>3. mode \in {"hybrid", "hybrid_rerank"} /\ docs = <<>> /\ answer = <<>>
    BY <1>0, <1>2 DEF PhaseOK, TypeOK, Modes
  <1>4. Len(vec) <= Limit /\ Len(bm25) <= Limit BY <1>0, <1>3 DEF RankingsOK
  <1>5. /\ f \in Seq(Ids) /\ Distinct(f) /\ ToSet(f) = Found
        /\ Len(f) = Cardinality(Found) /\ Len(Merge(f)) = Len(f)
        /\ Merge(f) \in Seq(Entries) /\ DOMAIN Merge(f) = DOMAIN f
        /\ \A k \in DOMAIN Merge(f) : Merge(f)[k].id = f[k]
    BY <1>0, MergeProperties
  <1>6. /\ fused' \in Seq(Entries) /\ DOMAIN fused' \subseteq DOMAIN f
        /\ Len(fused') = IF Len(f) < 2 * topk THEN Len(f) ELSE 2 * topk
        /\ \A k \in DOMAIN fused' : fused'[k].id = f[k]
    <2>1. /\ fused' \in Seq(Entries) /\ DOMAIN fused' \subseteq DOMAIN Merge(f)
          /\ Len(fused') = IF Len(Merge(f)) < 2 * topk THEN Len(Merge(f)) ELSE 2 * topk
          /\ \A k \in DOMAIN fused' : fused'[k] = Merge(f)[k]
      BY <1>n, <1>1, <1>5, FirstProperties
    <2> QED BY <1>5, <2>1
  <1>7. Distinct(IdOf(fused'))
    <2>1. DOMAIN IdOf(fused') = DOMAIN fused' BY DEF IdOf
    <2>2. \A k \in DOMAIN fused' : IdOf(fused')[k] = f[k] BY <1>6 DEF IdOf
    <2> QED BY <1>5, <1>6, <2>1, <2>2 DEF Distinct
  <1>8. /\ DocTexts(fused') \in Seq(Texts) /\ Len(DocTexts(fused')) = Len(fused')
        /\ Assemble(fused', topk) \in Seq(Answers)
    BY <1>0, <1>n, <1>6, DocTextsType, AssembleProperties
  <1>9. Len(fused') >= topk \/ Len(fused') = Cardinality(Found)
    <2>1. CASE Len(f) < 2 * topk BY <1>5, <1>6, <2>1
    <2>2. CASE ~(Len(f) < 2 * topk)
      <3>1. Len(fused') = 2 * topk BY <1>6, <2>2
      <3> QED BY <1>n, <3>1
    <2> QED BY <2>1, <2>2
  <1>10. \A k \in DOMAIN fused' : fused'[k].id \in Found BY <1>5, <1>6 DEF ToSet
  <1>11. TypeOK'
    <2>1. answer' \in Seq(Answers) /\ docs' \in Seq(Texts) /\ pc' \in {"reranking", "done"}
      <3>1. answer \in Seq(Answers) /\ docs \in Seq(Texts) BY <1>0 DEF TypeOK, Answers
      <3> QED BY <1>2, <1>8, <3>1
    <2>2. scores' \in [Ids -> Nat] BY <1>2 DEF NoScores
    <2> QED BY <1>0, <1>2, <1>6, <2>1, <2>2 DEF TypeOK, Answers
  <1>12. RankingsOK'
    <2>1. IsFiniteSet(Cached') /\ Distinct(bm25') /\ Distinct(IdOf(fused'))
      BY <1>0, <1>2, <1>7 DEF RankingsOK, Cached
    <2> QED BY <1>2, <1>4, <2>1 DEF RankingsOK
  <1>13. PhaseOK' /\ FusingOK'
    <2>1. mode # "bm25_only" /\ mode # "vector_only" /\ mode # None BY <1>0, <1>2 DEF PhaseOK
    <2>2. pc' \in {"reranking", "done"} BY <1>2
    <2> QED BY <1>2, <2>1, <2>2 DEF PhaseOK, FusingOK, NoScores
  <1>14. CASE mode = "hybrid_rerank" /\ fused' # <<>>
    <2>1. pc' = "reranking" /\ docs' = DocTexts(fused') BY <1>2, <1>14
    <2>2. ReadOK'
      <3>1. Len(docs') = Len(fused') BY <1>8, <2>1
      <3>2. \A k \in DOMAIN fused' : docs'[k] = DocTexts(fused)[k]'
        BY <1>2, <2>1 DEF DocTexts
      <3>3. Found' = Found BY <1>2 DEF Found
      <3> QED BY <1>2, <1>9, <1>10, <1>14, <3>1, <3>2, <3>3 DEF ReadOK
    <2> QED BY <1>11, <1>12, <1>13, <2>1, <2>2
        DEF SearchInv, SearchSafe, OwnScore, AgreedFirst, GoneCostsOne
  <1>15. CASE ~(mode = "hybrid_rerank" /\ fused' # <<>>)
    <2>1. pc' = "done" /\ answer' = Assemble(fused', topk) BY <1>2, <1>15
    <2>2. ReadOK' BY <2>1 DEF ReadOK
    <2>3. OwnScore'
      <3>1. CASE mode = "hybrid_rerank"
        <4>1. answer' = <<>> BY <1>0, <1>n, <1>15, <2>1, <3>1, AssembleEmpty
        <4> QED BY <4>1 DEF OwnScore
      <3>2. CASE mode # "hybrid_rerank" BY <1>2, <3>2 DEF OwnScore
      <3> QED BY <3>1, <3>2
    <2>4. AgreedFirst'
      <3> SUFFICES ASSUME NEW k \in DOMAIN answer', NEW x \in Ids, x # answer'[k].id,
                          Ahead(x, answer'[k].id, bm25), Ahead(x, answer'[k].id, vec),
                          cache[x] # None
                   PROVE  \E j \in 1..(k - 1) : answer'[j].id = x
        BY <1>2 DEF AgreedFirst, Ahead, Hits
      <3>1. answer' = Assemble(FirstOf(Merge(f), 2 * topk), topk) BY <1>1, <2>1
      <3>2. Scored(vec, Len(vec), ToSet(bm25)) BY <1>0, <1>2 DEF FusingOK
      <3> QED BY <1>0, <1>n, <1>1, <1>4, <3>1, <3>2, AgreedAnswer
    <2>5. GoneCostsOne'
      <3>1. ToSet(IdOf(fused')) \subseteq Found BY <1>6, <1>10, IdOfProperties
      <3> QED BY <1>0, <1>n, <1>2, <1>6, <1>7, <1>9, <2>1, <3>1, FoundFused
    <2> QED BY <1>11, <1>12, <1>13, <2>2, <2>3, <2>4, <2>5 DEF SearchInv, SearchSafe
  <1> QED BY <1>14, <1>15

\* What the reranker scored: the documents in the order it gives them, each
\* with the id of the record that it was read from.
LEMMA RerankProperties ==
    ASSUME TypeOK, Len(docs) = Len(fused), Distinct(IdOf(fused)), NEW p \in Orders(DOMAIN docs)
    PROVE  LET scored == [k \in DOMAIN p |->
                            [id |-> fused[p[k]].id, score |-> Relevance(docs[p[k]])]]
           IN  /\ scored \in Seq(Entries) /\ DOMAIN scored = DOMAIN p
               /\ \A k \in DOMAIN p : p[k] \in DOMAIN docs /\ p[k] \in DOMAIN fused
               /\ \A k \in DOMAIN p : /\ scored[k].id = fused[p[k]].id
                                      /\ scored[k].score = Relevance(docs[p[k]])
               /\ Distinct(IdOf(scored)) /\ ToSet(IdOf(scored)) = ToSet(IdOf(fused))
  <1> DEFINE scored == [k \in DOMAIN p |->
                          [id |-> fused[p[k]].id, score |-> Relevance(docs[p[k]])]]
  <1>1. /\ fused \in Seq(Entries) /\ docs \in Seq(Texts) /\ Len(docs) \in Nat
        /\ DOMAIN docs = 1..Len(docs) /\ DOMAIN fused = DOMAIN docs
    BY DEF TypeOK
  <1>2. IsFiniteSet(DOMAIN docs) BY <1>1, PlacesCount
  <1>3. /\ p \in Seq(DOMAIN docs) /\ ToSet(p) = DOMAIN docs
        /\ \A j, k \in DOMAIN p : p[j] = p[k] => j = k
    BY <1>2, SetToSeqsProperties DEF Orders
  <1>4. /\ Len(p) \in Nat /\ DOMAIN p = 1..Len(p)
        /\ \A k \in DOMAIN p : p[k] \in DOMAIN docs /\ p[k] \in DOMAIN fused
    BY <1>1, <1>3
  <1>5. ASSUME NEW k \in DOMAIN p
        PROVE  [id |-> fused[p[k]].id, score |-> Relevance(docs[p[k]])] \in Entries
    <2>1. fused[p[k]] \in Entries /\ docs[p[k]] \in Texts BY <1>1, <1>4
    <2>2. Relevance(docs[p[k]]) \in Nat BY <2>1, SearchAssumption
    <2> QED BY <2>1, <2>2 DEF Entries
  <1>6. scored \in [1..Len(p) -> Entries] BY <1>4, <1>5
  <1>7. scored \in Seq(Entries) BY <1>4, <1>6, SeqDef
  <1>8. /\ DOMAIN scored = DOMAIN p
        /\ \A k \in DOMAIN p : /\ scored[k].id = fused[p[k]].id
                               /\ scored[k].score = Relevance(docs[p[k]])
    OBVIOUS
  <1> HIDE DEF scored
  <1>9. /\ DOMAIN IdOf(scored) = DOMAIN p
        /\ \A k \in DOMAIN p : IdOf(scored)[k] = fused[p[k]].id
    BY <1>8 DEF IdOf
  <1>10. DOMAIN IdOf(fused) = DOMAIN fused /\ \A k \in DOMAIN fused : IdOf(fused)[k] = fused[k].id
    BY DEF IdOf
  <1>11. Distinct(IdOf(scored)) BY <1>3, <1>4, <1>9, <1>10 DEF Distinct
  <1>12. ToSet(IdOf(scored)) = ToSet(IdOf(fused))
    <2>1. \A k \in DOMAIN fused : \E j \in DOMAIN p : p[j] = k BY <1>1, <1>3 DEF ToSet
    <2>2. ToSet(IdOf(scored)) = {fused[p[k]].id : k \in DOMAIN p}
      BY <1>9 DEF ToSet
    <2>3. ToSet(IdOf(fused)) = {fused[k].id : k \in DOMAIN fused} BY <1>10 DEF ToSet
    <2> QED BY <1>4, <2>1, <2>2, <2>3
  <1> QED BY <1>4, <1>7, <1>8, <1>11, <1>12 DEF scored

\* The reranker's scores, and the results in their order.
LEMMA RerankStep ==
    ASSUME SearchInv, Rerank
    PROVE  SearchInv' /\ SearchSafe'
  <1>0. TypeOK /\ RankingsOK /\ PhaseOK /\ ReadOK BY DEF SearchInv
  <1>n. topk \in Nat BY <1>0, SearchAssumption DEF TypeOK
  <1>1. PICK p \in Orders(DOMAIN docs) :
          answer' = Assemble([k \in DOMAIN p |->
                       [id |-> fused[p[k]].id, score |-> Relevance(docs[p[k]])]], topk)
    BY DEF Rerank
  <1>2. /\ pc = "reranking" /\ pc' = "done" /\ mode' = mode /\ topk' = topk
        /\ UNCHANGED <<cache, bm25, vec, fused, docs, scores, rank, touched>>
    BY DEF Rerank, call, fusion
  <1>3. /\ mode = "hybrid_rerank" /\ Len(docs) = Len(fused)
        /\ \A k \in DOMAIN fused :
              /\ fused[k].id \in Found
              /\ fused[k].id \notin touched => docs[k] = DocTexts(fused)[k]
        /\ Len(fused) >= topk \/ Len(fused) = Cardinality(Found)
    BY <1>0, <1>2 DEF ReadOK
  <1> DEFINE scored == [k \in DOMAIN p |->
                          [id |-> fused[p[k]].id, score |-> Relevance(docs[p[k]])]]
  <1>4. /\ scored \in Seq(Entries) /\ DOMAIN scored = DOMAIN p
        /\ \A k \in DOMAIN p : p[k] \in DOMAIN docs /\ p[k] \in DOMAIN fused
        /\ \A k \in DOMAIN p : /\ scored[k].id = fused[p[k]].id
                               /\ scored[k].score = Relevance(docs[p[k]])
        /\ Distinct(IdOf(scored)) /\ ToSet(IdOf(scored)) = ToSet(IdOf(fused))
    BY <1>0, <1>3, RerankProperties DEF RankingsOK
  <1>5. answer' = Assemble(scored, topk) BY <1>1
  <1> HIDE DEF scored
  <1>6. answer' \in Seq(Answers) BY <1>0, <1>n, <1>4, <1>5, AssembleProperties
  <1>7. TypeOK' BY <1>0, <1>2, <1>6 DEF TypeOK, Answers
  <1>8. RankingsOK' BY <1>0, <1>2 DEF RankingsOK, Distinct, IdOf, Cached
  <1>9. PhaseOK' /\ FusingOK' /\ ReadOK' BY <1>0, <1>2 DEF PhaseOK, FusingOK, ReadOK, NoScores
  <1>10. OwnScore'
    <2> SUFFICES ASSUME NEW r \in DOMAIN answer', answer'[r].id \notin touched
                 PROVE  answer'[r].score = Relevance(answer'[r].text)
      BY <1>2 DEF OwnScore
    <2> DEFINE k == Kept(scored, topk)[r]
    <2>1. /\ k \in DOMAIN scored
          /\ answer'[r].id = scored[k].id /\ answer'[r].score = scored[k].score
          /\ cache[answer'[r].id] # None /\ answer'[r].text = cache[answer'[r].id].text
      BY <1>0, <1>n, <1>4, <1>5, AssembleProperties
    <2> HIDE DEF k
    <2>2. /\ p[k] \in DOMAIN fused /\ answer'[r].id = fused[p[k]].id
          /\ answer'[r].score = Relevance(docs[p[k]])
      BY <1>4, <2>1
    <2>3. docs[p[k]] = DocTexts(fused)[p[k]] BY <1>3, <2>2
    <2>4. DocTexts(fused)[p[k]] = cache[answer'[r].id].text BY <2>1, <2>2 DEF DocTexts
    <2> QED BY <2>1, <2>2, <2>3, <2>4
  <1>11. AgreedFirst' BY <1>2, <1>3 DEF AgreedFirst
  <1>12. GoneCostsOne'
    <2>1. fused \in Seq(Entries) BY <1>0 DEF TypeOK
    <2>2. ToSet(IdOf(scored)) \subseteq Found
      <3>1. ToSet(IdOf(fused)) = {fused[k].id : k \in DOMAIN fused} BY <2>1, IdOfProperties
      <3> QED BY <1>3, <1>4, <3>1
    <2>3. Len(scored) = Len(fused)
      <3>1. /\ IdOf(scored) \in Seq(Ids) /\ Len(IdOf(scored)) = Len(scored)
            /\ IdOf(fused) \in Seq(Ids) /\ Len(IdOf(fused)) = Len(fused)
        BY <1>4, <2>1, IdOfProperties
      <3>2. Distinct(IdOf(fused)) BY <1>0 DEF RankingsOK
      <3> QED BY <1>4, <3>1, <3>2, DistinctCount DEF Distinct
    <2> QED BY <1>0, <1>n, <1>2, <1>3, <1>4, <1>5, <2>2, <2>3, FoundFused
  <1> QED BY <1>7, <1>8, <1>9, <1>10, <1>11, <1>12 DEF SearchInv, SearchSafe

\* The end of a call.
LEMMA ForgetStep ==
    ASSUME SearchInv, Forget, UNCHANGED cache
    PROVE  SearchInv' /\ SearchSafe'
  <1>0. TypeOK /\ RankingsOK BY DEF SearchInv
  <1>1. /\ pc' = "idle" /\ mode' = None /\ topk' = 0
        /\ bm25' = <<>> /\ vec' = <<>> /\ fused' = <<>> /\ docs' = <<>>
        /\ scores' = NoScores /\ rank' = 0
        /\ answer' = <<>> /\ touched' = {} /\ cache' = cache
    BY DEF Forget
  <1>2. TypeOK' BY <1>0, <1>1 DEF TypeOK, NoScores
  <1>3. None \notin Modes BY SearchAssumption
  <1>4. RankingsOK' BY <1>0, <1>1, <1>3 DEF RankingsOK, Distinct, IdOf, Cached, Modes
  <1>5. PhaseOK' /\ FusingOK' /\ ReadOK' BY <1>1 DEF PhaseOK, FusingOK, ReadOK, NoScores
  <1> QED BY <1>1, <1>2, <1>4, <1>5
      DEF SearchInv, SearchSafe, OwnScore, AgreedFirst, GoneCostsOne

-----------------------------------------------------------------------------
(* The theorems. *)

\* Every step keeps the invariant and what is promised of an answer.
LEMMA SearchInvariant == Spec => [](SearchInv /\ SearchSafe)
  <1>1. Init => SearchInv /\ SearchSafe
    <2> SUFFICES ASSUME Init PROVE SearchInv /\ SearchSafe
      OBVIOUS
    <2>1. None \notin Modes BY SearchAssumption
    <2>2. TypeOK BY DEF Init, TypeOK, NoScores
    <2>3. RankingsOK
      <3>1. Cached = {} BY DEF Init, Cached
      <3>2. IsFiniteSet({}) BY FS_EmptySet
      <3>3. IsFiniteSet(Cached) BY <3>1, <3>2
      <3> QED BY <2>1, <3>3 DEF Init, RankingsOK, Distinct, IdOf, Modes
    <2>4. PhaseOK /\ FusingOK /\ ReadOK BY DEF Init, PhaseOK, FusingOK, ReadOK
    <2>5. SearchSafe BY DEF Init, SearchSafe, OwnScore, AgreedFirst, GoneCostsOne
    <2> QED BY <2>2, <2>3, <2>4, <2>5 DEF SearchInv
  <1>2. SearchInv /\ SearchSafe /\ [Next]_vars => SearchInv' /\ SearchSafe'
    <2> SUFFICES ASSUME SearchInv, SearchSafe, [Next]_vars PROVE SearchInv' /\ SearchSafe'
      OBVIOUS
    <2>1. ASSUME NEW i \in Ids, WriteRecord(i)
          PROVE  SearchInv' /\ SearchSafe'
      BY <2>1, WriteStep
    <2>2. ASSUME NEW m \in Modes, NEW n \in TopKs, QueryEmpty(m, n)
          PROVE  SearchInv' /\ SearchSafe'
      BY <2>2, EmptyStep
    <2>3. ASSUME NEW m \in Modes, NEW n \in TopKs, QueryStart(m, n)
          PROVE  SearchInv' /\ SearchSafe'
      BY <2>3, StartStep
    <2>4. CASE QueryRaises BY <2>4, ForgetStep DEF QueryRaises
    <2>5. CASE VectorSearch BY <2>5, VectorStep
    <2>6. CASE AddShare BY <2>6, ShareStep
    <2>7. CASE NextList BY <2>7, NextListStep
    <2>8. CASE Fuse BY <2>8, FuseStep
    <2>9. CASE Rerank BY <2>9, RerankStep
    <2>10. CASE Return BY <2>10, ForgetStep DEF Return
    <2>11. CASE UNCHANGED vars
      <3>1. UNCHANGED <<cache, pc, mode, topk, bm25, vec, fused, docs, scores, rank,
                        answer, touched>>
        BY <2>11 DEF vars, call, fusion
      <3>2. TypeOK' /\ RankingsOK'
        BY <3>1 DEF SearchInv, TypeOK, RankingsOK, Distinct, IdOf, Cached
      <3>3. PhaseOK' /\ ReadOK'
        BY <3>1 DEF SearchInv, PhaseOK, ReadOK, DocTexts, Found, NoScores
      <3>4. FusingOK'
        BY <3>1 DEF SearchInv, FusingOK, Scored, Ahead, Hits, RRFScore
      <3>5. OwnScore' /\ AgreedFirst'
        BY <3>1 DEF SearchSafe, OwnScore, AgreedFirst, Ahead, Hits
      <3>6. GoneCostsOne' BY <3>1 DEF SearchSafe, GoneCostsOne, Found
      <3> QED BY <3>2, <3>3, <3>4, <3>5, <3>6 DEF SearchInv, SearchSafe
    <2> QED BY <2>1, <2>2, <2>3, <2>4, <2>5, <2>6, <2>7, <2>8, <2>9, <2>10, <2>11
        DEF Next, Query
  <1> QED BY <1>1, <1>2, PTL DEF Spec

\* The variables have their types, with sequences of any length.
THEOREM SearchTypeTheorem == Spec => []TypeOK
  <1>1. SearchInv => TypeOK BY DEF SearchInv
  <1> QED BY <1>1, SearchInvariant, PTL

\* OwnScore: the index that the reranker returns leads to the record whose
\* document it scored, whatever is written beside the query.
THEOREM OwnScoreTheorem == Spec => []OwnScore
  <1>1. SearchSafe => OwnScore BY DEF SearchSafe
  <1> QED BY <1>1, SearchInvariant, PTL

\* AgreedFirst: reciprocal rank fusion never puts a result before one that is
\* ahead of it in both rankings, hit for hit, for every constant K and any
\* limit, however often the vector ranking lists an id.
THEOREM AgreedFirstTheorem == Spec => []AgreedFirst
  <1>1. SearchSafe => AgreedFirst BY DEF SearchSafe
  <1> QED BY <1>1, SearchInvariant, PTL

\* GoneCostsOne: with keywords or fusion, a found id whose record is gone costs
\* a query at most one result, however many hits it has.
THEOREM GoneCostsOneTheorem == Spec => []GoneCostsOne
  <1>1. SearchSafe => GoneCostsOne BY DEF SearchSafe
  <1> QED BY <1>1, SearchInvariant, PTL
=============================================================================
