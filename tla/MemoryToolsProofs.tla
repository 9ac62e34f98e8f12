-------------------------- MODULE MemoryToolsProofs --------------------------
(* Proofs about MemoryTools, for every set of ids, page size and bound: the   *)
(* pages of memory_list lose a record only to a write beside them, and lose   *)
(* and repeat none while nothing is written.                                  *)
EXTENDS MemoryTools, SequenceLemmas

-----------------------------------------------------------------------------
(* The rows after a write. *)

\* A record that is taken out moves the ones behind it up by one place.
LEMMA WithoutProperties ==
    ASSUME TypeOK, RowsOK, NEW i \in ToSet(rows)
    PROVE  \E p \in DOMAIN rows :
              /\ rows[p] = i
              /\ Without(i) \in Seq(Ids) /\ Len(Without(i)) = Len(rows) - 1
              /\ \A n \in 1..(Len(rows) - 1) :
                    Without(i)[n] = IF n < p THEN rows[n] ELSE rows[n + 1]
  <1> DEFINE p == CHOOSE k \in DOMAIN rows : rows[k] = i
  <1>1. p \in DOMAIN rows /\ rows[p] = i BY DEF ToSet
  <1>2. Without(i) = RemoveAt(rows, p) BY DEF Without
  <1>3. rows \in Seq(Ids) BY DEF TypeOK
  <1> HIDE DEF p
  <1> QED BY <1>1, <1>2, <1>3, RemoveAtProperties

\* What an upsert or a deletion of i does to the places of the others: none
\* goes back, and one place forward is the most.
LEMMA RowsAfter ==
    ASSUME TypeOK, RowsOK, NEW i \in Ids, NEW r,
           r = Without(i) \/ r = Append(Without(i), i)
    PROVE  /\ r \in Seq(Ids) /\ Distinct(r)
           /\ \A k \in DOMAIN rows : rows[k] # i => \E m \in DOMAIN r : m <= k /\ r[m] = rows[k]
           /\ \A k \in DOMAIN r : r[k] # i =>
                 \/ k \in DOMAIN rows /\ r[k] = rows[k]
                 \/ i \in ToSet(rows) /\ k + 1 \in DOMAIN rows /\ r[k] = rows[k + 1]
           /\ i \notin ToSet(rows) =>
                 \A k \in DOMAIN rows : k \in DOMAIN r /\ r[k] = rows[k]
  <1> DEFINE w == Without(i)
  <1>1. rows \in Seq(Ids) /\ Len(rows) \in Nat /\ DOMAIN rows = 1..Len(rows)
        /\ \A j, k \in DOMAIN rows : rows[j] = rows[k] => j = k
    BY DEF TypeOK, RowsOK
  <1>2. /\ w \in Seq(Ids) /\ Distinct(w) /\ \A k \in DOMAIN w : w[k] # i
        /\ \A k \in DOMAIN rows : rows[k] # i => \E m \in DOMAIN w : m <= k /\ w[m] = rows[k]
        /\ \A k \in DOMAIN w :
              \/ k \in DOMAIN rows /\ w[k] = rows[k]
              \/ i \in ToSet(rows) /\ k + 1 \in DOMAIN rows /\ w[k] = rows[k + 1]
        /\ i \notin ToSet(rows) => w = rows
    <2>1. CASE i \notin ToSet(rows)
      BY <1>1, <2>1 DEF Without, Distinct, ToSet
    <2>2. CASE i \in ToSet(rows)
      <3>1. PICK p \in DOMAIN rows :
              /\ rows[p] = i /\ w \in Seq(Ids) /\ Len(w) = Len(rows) - 1
              /\ \A n \in 1..(Len(rows) - 1) : w[n] = IF n < p THEN rows[n] ELSE rows[n + 1]
        BY <2>2, WithoutProperties
      <3> HIDE DEF w
      <3>2. DOMAIN w = 1..(Len(rows) - 1) BY <3>1
      <3>3. ASSUME NEW k \in DOMAIN rows, rows[k] # i
            PROVE  \E m \in DOMAIN w : m <= k /\ w[m] = rows[k]
        <4>1. CASE k < p
          <5>1. k \in DOMAIN w /\ w[k] = rows[k] BY <1>1, <3>1, <3>2, <4>1
          <5> QED BY <1>1, <5>1
        <4>2. CASE ~(k < p)
          <5>1. /\ k - 1 \in DOMAIN w /\ ~(k - 1 < p) /\ (k - 1) + 1 = k /\ k - 1 <= k
            BY <1>1, <3>1, <3>2, <3>3, <4>2
          <5>2. w[k - 1] = rows[k] BY <1>1, <3>1, <3>2, <5>1
          <5> QED BY <5>1, <5>2
        <4> QED BY <4>1, <4>2
      <3>4. \A k \in DOMAIN w : /\ k \in DOMAIN rows /\ k + 1 \in DOMAIN rows
                                /\ w[k] = IF k < p THEN rows[k] ELSE rows[k + 1]
        BY <1>1, <3>1, <3>2
      <3>5. \A k \in DOMAIN w : w[k] # i
        BY <1>1, <3>1, <3>4
      <3>6. Distinct(w)
        <4> SUFFICES ASSUME NEW j \in DOMAIN w, NEW k \in DOMAIN w, w[j] = w[k]
                     PROVE  j = k
          BY DEF Distinct
        <4>1. j \in Nat /\ k \in Nat /\ p \in Nat BY <1>1, <3>2
        <4>2. CASE j < p /\ k < p BY <1>1, <3>4, <4>2
        <4>3. CASE ~(j < p) /\ ~(k < p)
          <5>1. j + 1 = k + 1 BY <1>1, <3>4, <4>3
          <5> QED BY <4>1, <5>1
        <4>4. CASE j < p /\ ~(k < p)
          <5>1. j = k + 1 BY <1>1, <3>4, <4>4
          <5> QED BY <4>1, <4>4, <5>1
        <4>5. CASE ~(j < p) /\ k < p
          <5>1. j + 1 = k BY <1>1, <3>4, <4>5
          <5> QED BY <4>1, <4>5, <5>1
        <4> QED BY <4>2, <4>3, <4>4, <4>5
      <3> QED BY <2>2, <3>1, <3>3, <3>4, <3>5, <3>6
    <2> QED BY <2>1, <2>2
  <1> HIDE DEF w
  <1>3. CASE r = w BY <1>2, <1>3
  <1>4. CASE r = Append(w, i)
    <2>1. /\ r \in Seq(Ids) /\ DOMAIN w = 1..Len(w) /\ DOMAIN r = 1..(Len(w) + 1)
          /\ Len(w) \in Nat /\ r[Len(w) + 1] = i /\ \A k \in DOMAIN w : r[k] = w[k]
      BY <1>2, <1>4
    <2>2. \A k \in DOMAIN r : r[k] # i => k \in DOMAIN w BY <2>1
    <2>3. Distinct(r)
      <3> SUFFICES ASSUME NEW j \in DOMAIN r, NEW k \in DOMAIN r, r[j] = r[k] PROVE j = k
        BY DEF Distinct
      <3>1. CASE r[j] = i
        <4>1. j \notin DOMAIN w /\ k \notin DOMAIN w BY <1>2, <2>1, <3>1
        <4> QED BY <2>1, <4>1
      <3>2. CASE r[j] # i
        <4>1. j \in DOMAIN w /\ k \in DOMAIN w BY <2>2, <3>2
        <4> QED BY <1>2, <2>1, <4>1 DEF Distinct
      <3> QED BY <3>1, <3>2
    <2>4. \A k \in DOMAIN w : k \in DOMAIN r BY <2>1
    <2> QED BY <1>2, <2>1, <2>2, <2>3, <2>4
  <1> QED BY <1>3, <1>4 DEF w

-----------------------------------------------------------------------------
(* The pages. *)

\* The sort of a page keeps its items, each once.
LEMMA SortedItems ==
    ASSUME TypeOK
    PROVE  /\ Sorted \in Seq(Ids)
           /\ ToSet(Sorted) = {items[m].id : m \in DOMAIN items}
           /\ Distinct([m \in DOMAIN items |-> items[m].id]) => Distinct(Sorted)
  <1> DEFINE S == DOMAIN items
             R == {e \in S \X S : Before(e[1], e[2])}
             InOrder(p) == \A j, k \in DOMAIN p : j < k => Before(p[j], p[k])
             order == CHOOSE p \in SetToSeqs(S) : InOrder(p)
             Item == [id : Ids, updated_at : Nat]
  <1>n. Len(items) \in Nat /\ S = 1..Len(items) /\ \A m \in S : items[m] \in Item
    <2>1. items \in Seq(Item) BY DEF TypeOK
    <2> HIDE DEF Item
    <2> QED BY <2>1
  <1>1. \A m \in S : items[m].id \in Ids /\ items[m].updated_at \in Nat
    <2> HIDE DEF S
    <2> QED BY <1>n
  <1>2. IsFiniteSet(S) /\ Cardinality(S) = Len(items)
    <2> HIDE DEF S
    <2> QED BY <1>n, FS_Interval
  <1>3. \A x, y \in S : <<x, y>> \in R <=> Before(x, y) OBVIOUS
  <1>4. /\ \A x \in S : ~Before(x, x)
        /\ \A x, y \in S : x = y \/ Before(x, y) \/ Before(y, x)
        /\ \A x, y, z \in S : Before(x, y) /\ Before(y, z) => Before(x, z)
    <2> HIDE DEF S
    <2>1. \A m \in S : m \in Nat /\ items[m].updated_at \in Nat BY <1>n, <1>1
    <2> QED BY <2>1 DEF Before
  <1>5. \E p \in SetToSeqs(S) : \A j, k \in DOMAIN p : j < k => <<p[j], p[k]>> \in R
    <2> HIDE DEF S, R
    <2> QED BY <1>2, <1>3, <1>4, SortedOrder
  <1>6. \E p \in SetToSeqs(S) : InOrder(p) BY <1>5
  <1>7. order \in SetToSeqs(S) BY <1>6
  <1>8. Sorted = [k \in DOMAIN order |-> items[order[k]].id] BY DEF Sorted
  <1> HIDE DEF order
  <1>9. /\ DOMAIN order = 1..Len(items) /\ \A k \in DOMAIN order : order[k] \in S
        /\ \A j, k \in DOMAIN order : order[j] = order[k] => j = k
        /\ \A m \in S : \E k \in DOMAIN order : order[k] = m
    <2>2. /\ DOMAIN order = 1..Cardinality(S) /\ ToSet(order) = S
          /\ \A j, k \in DOMAIN order : order[j] = order[k] => j = k
      BY <1>2, <1>7, SetToSeqsProperties
    <2> QED BY <1>2, <2>2 DEF ToSet
  <1> HIDE DEF S
  <1>10. Sorted \in Seq(Ids)
    <2>1. Sorted \in [1..Len(items) -> Ids] BY <1>1, <1>8, <1>9
    <2> QED BY <1>n, <2>1, SeqDef
  <1>11. ToSet(Sorted) = {items[m].id : m \in S} BY <1>8, <1>9 DEF ToSet
  <1>12. Distinct([m \in S |-> items[m].id]) => Distinct(Sorted)
    BY <1>8, <1>9 DEF Distinct
  <1> QED BY <1>10, <1>11, <1>12 DEF S

\* A page is the rows from its first place to its last, or to the last row.
LEMMA PageProperties ==
    ASSUME TypeOK
    PROVE  /\ PageIds \in Seq(Ids) /\ Start \in Nat
           /\ \A k \in DOMAIN PageIds : Start + k \in DOMAIN rows /\ PageIds[k] = rows[Start + k]
           /\ \A m \in DOMAIN rows : m > Start /\ m <= Start + PageSize => m - Start \in DOMAIN PageIds
           /\ Len(PageIds) <= PageSize
           /\ Len(PageIds) < PageSize => \A m \in DOMAIN rows : m <= Start + PageSize
  <1> DEFINE end  == Start + PageSize
             last == IF end < Len(rows) THEN end ELSE Len(rows)
  <1>1. /\ DOMAIN rows = 1..Len(rows) /\ \A k \in 1..Len(rows) : rows[k] \in Ids
        /\ Len(rows) \in Nat
    BY DEF TypeOK
  <1>n. Len(rows) \in Nat /\ Start \in Nat /\ PageSize \in Nat
    BY <1>1, ToolsAssumption DEF TypeOK, Start
  <1>2. PageIds = SubSeq(rows, Start + 1, last) BY DEF PageIds, Start
  <1>3. /\ last \in Nat /\ last <= Len(rows) /\ last <= Start + PageSize
        /\ last = Len(rows) \/ last = Start + PageSize
    BY <1>n
  <1> HIDE DEF last
  <1>4. /\ \A k \in (Start + 1)..last : rows[k] \in Ids
        /\ Start + 1 \in Int /\ last \in Int
    <2>1. \A k \in (Start + 1)..last : k \in 1..Len(rows) BY <1>n, <1>3
    <2>2. Start + 1 \in Int /\ last \in Int BY <1>n, <1>3
    <2> QED BY <1>1, <2>1, <2>2
  <1>5. /\ PageIds \in Seq(Ids)
        /\ Len(PageIds) = IF Start + 1 <= last THEN last - (Start + 1) + 1 ELSE 0
        /\ \A k \in 1..(last - (Start + 1) + 1) : PageIds[k] = rows[(Start + 1) + k - 1]
    <2>1. /\ SubSeq(rows, Start + 1, last) \in Seq(Ids)
          /\ Len(SubSeq(rows, Start + 1, last)) =
                IF Start + 1 <= last THEN last - (Start + 1) + 1 ELSE 0
          /\ \A k \in 1..(last - (Start + 1) + 1) :
                SubSeq(rows, Start + 1, last)[k] = rows[(Start + 1) + k - 1]
      BY <1>4, SubSeqProperties
    <2> QED BY <1>2, <2>1
  <1>6. DOMAIN PageIds = 1..Len(PageIds) /\ Len(PageIds) \in Nat BY <1>5
  <1>7. ASSUME NEW k \in DOMAIN PageIds
        PROVE  Start + k \in DOMAIN rows /\ PageIds[k] = rows[Start + k]
    <2>1. k \in Nat /\ k >= 1 /\ k <= Len(PageIds) BY <1>6
    <2>2. Start + 1 <= last /\ k <= last - Start BY <1>n, <1>3, <1>5, <2>1
    <2>3. k \in 1..(last - (Start + 1) + 1) BY <1>n, <1>3, <2>1, <2>2
    <2>4. (Start + 1) + k - 1 = Start + k /\ Start + k \in 1..Len(rows)
      BY <1>n, <1>3, <2>1, <2>2
    <2> QED BY <1>1, <1>5, <2>3, <2>4
  <1>8. ASSUME NEW m \in DOMAIN rows, m > Start, m <= Start + PageSize
        PROVE  m - Start \in DOMAIN PageIds
    <2>0. m \in 1..Len(rows) BY <1>1
    <2>1. m \in Nat /\ m <= last BY <1>n, <1>3, <1>8, <2>0
    <2>2. Len(PageIds) = last - Start BY <1>n, <1>3, <1>5, <1>8, <2>1
    <2> QED BY <1>n, <1>3, <1>6, <1>8, <2>1, <2>2
  <1>9. Len(PageIds) <= PageSize
    <2>1. CASE Start + 1 <= last
      <3>1. Len(PageIds) = last - Start BY <1>n, <1>3, <1>5, <2>1
      <3> QED BY <1>n, <1>3, <3>1
    <2>2. CASE ~(Start + 1 <= last) BY <1>n, <1>5, <2>2
    <2> QED BY <2>1, <2>2
  <1>10. ASSUME Len(PageIds) < PageSize, NEW m \in DOMAIN rows
         PROVE  m <= Start + PageSize
    <2>1. CASE last = Len(rows) BY <1>1, <1>n, <1>3, <2>1
    <2>2. CASE last = Start + PageSize
      <3>1. Len(PageIds) = PageSize BY <1>n, <1>5, <2>2
      <3> QED BY <1>1, <1>n, <1>10, <3>1
    <2> QED BY <1>3, <2>1, <2>2
  <1> QED BY <1>n, <1>5, <1>7, <1>8, <1>9, <1>10

-----------------------------------------------------------------------------
\* Every step keeps the types.
LEMMA TypeStep == TypeOK /\ RowsOK /\ [Next]_vars => TypeOK'
  <1> SUFFICES ASSUME TypeOK, RowsOK, [Next]_vars PROVE TypeOK'
    OBVIOUS
  <1>1. ASSUME NEW i \in Ids, Upsert(i) \/ Drop(i) PROVE TypeOK'
    <2>1. rows' \in Seq(Ids) BY <1>1, RowsAfter DEF Upsert, Drop
    <2>2. moved' \in Nat BY <1>1 DEF Upsert, Drop, Moved, TypeOK
    <2>3. stamp' \in [Ids -> Nat] BY <1>1 DEF Upsert, Drop, TypeOK
    <2>4. stable' \in SUBSET Ids /\ clock' \in Nat BY <1>1 DEF Upsert, Drop, TypeOK
    <2>5. UNCHANGED call BY <1>1 DEF Upsert, Drop
    <2> QED BY <2>1, <2>2, <2>3, <2>4, <2>5 DEF call, TypeOK
  <1>2. CASE Tick BY <1>2 DEF Tick, call, TypeOK
  <1>3. CASE ListBegin
    <2>1. ToSet(rows) \in SUBSET Ids BY DEF TypeOK, ToSet
    <2> QED BY <1>3, <2>1 DEF ListBegin, TypeOK
  <1>4. CASE ListIds
    <2>1. ids' \in Seq(Ids) /\ Len(ids') <= PageSize /\ got' \in 0..Len(ids')
      BY <1>4, PageProperties DEF ListIds
    <2>2. items' \in Seq([id : Ids, updated_at : Nat]) BY <1>4 DEF ListIds
    <2> QED BY <1>4, <2>1, <2>2 DEF ListIds, TypeOK
  <1>5. CASE Get
    <2> DEFINE id == ids[got + 1]
               entry == [id |-> id, updated_at |-> stamp[id]]
               Item == [id : Ids, updated_at : Nat]
    <2>1. got + 1 \in DOMAIN ids /\ got' \in 0..Len(ids) BY <1>5 DEF Get, TypeOK
    <2>2. id \in Ids BY <2>1 DEF TypeOK
    <2>3. entry \in Item /\ items \in Seq(Item) BY <2>2 DEF TypeOK
    <2>4. items' = items \/ items' = Append(items, entry) BY <1>5 DEF Get
    <2>5. items' \in Seq(Item)
      <3> HIDE DEF Item, entry, id
      <3> QED BY <2>3, <2>4, AppendProperties
    <2> QED BY <1>5, <2>1, <2>5 DEF Get, TypeOK
  <1>6. CASE ListPage
    <2>1. listed' \in Seq(Ids)
      BY <1>6, SortedItems, ConcatProperties DEF ListPage, TypeOK
    <2>2. /\ ids' \in Seq(Ids) /\ Len(ids') <= PageSize /\ got' \in 0..Len(ids')
          /\ items' \in Seq([id : Ids, updated_at : Nat])
      BY <1>6, ToolsAssumption DEF ListPage
    <2>3. page' \in Nat \ {0} /\ pc' \in {"paging", "done"} BY <1>6 DEF ListPage, TypeOK
    <2> QED BY <1>6, <2>1, <2>2, <2>3 DEF ListPage, TypeOK
  <1>7. CASE UNCHANGED vars BY <1>7 DEF vars, call, TypeOK
  <1> QED BY <1>1, <1>2, <1>3, <1>4, <1>5, <1>6, <1>7 DEF Next

\* An id stays a key, and what is stable stays cached while it is listed.
LEMMA RowsStep == TypeOK /\ RowsOK /\ [Next]_vars => RowsOK'
  <1> SUFFICES ASSUME TypeOK, RowsOK, [Next]_vars PROVE RowsOK'
    OBVIOUS
  <1>1. ASSUME NEW i \in Ids, Upsert(i) \/ Drop(i) PROVE RowsOK'
    <2>1. /\ Distinct(rows')
          /\ \A k \in DOMAIN rows : rows[k] # i => \E m \in DOMAIN rows' : rows'[m] = rows[k]
      BY <1>1, RowsAfter DEF Upsert, Drop
    <2>2. stable' = stable \ {i} /\ pc' = pc BY <1>1 DEF Upsert, Drop, call
    <2>3. IsFiniteSet(stable') BY <2>2, FS_RemoveElement DEF RowsOK
    <2>4. Listing' => stable' \subseteq ToSet(rows') BY <2>1, <2>2 DEF RowsOK, Listing, ToSet
    <2> QED BY <2>1, <2>3, <2>4 DEF RowsOK, Distinct
  <1>2. CASE ListBegin
    <2>1. IsFiniteSet(ToSet(rows)) BY ToSetFinite DEF TypeOK
    <2> QED BY <1>2, <2>1 DEF ListBegin, RowsOK
  <1>3. CASE Tick \/ ListIds \/ Get \/ ListPage \/ UNCHANGED vars
    <2>1. rows' = rows /\ stable' = stable /\ (Listing' => Listing)
      BY <1>3 DEF Tick, ListIds, Get, ListPage, vars, call, Listing
    <2> QED BY <2>1 DEF RowsOK
  <1> QED BY <1>1, <1>2, <1>3 DEF Next
-----------------------------------------------------------------------------
\* What is stable has a summary once its place in the page is passed.
LEMMA ItemsStep ==
    TypeOK /\ RowsOK /\ SlippedOK /\ ItemsOK /\ [Next]_vars => ItemsOK'
  <1> SUFFICES ASSUME TypeOK, RowsOK, SlippedOK, ItemsOK, [Next]_vars PROVE ItemsOK'
    OBVIOUS
  <1>1. ASSUME NEW i \in Ids, Upsert(i) \/ Drop(i) PROVE ItemsOK'
    BY <1>1 DEF Upsert, Drop, call, ItemsOK
  <1>2. CASE Tick \/ UNCHANGED vars BY <1>2 DEF Tick, vars, call, ItemsOK
  <1>3. CASE ListBegin \/ ListIds \/ ListPage
    <2>1. got' = 0 BY <1>3 DEF ListBegin, ListIds, ListPage, SlippedOK, Listing
    <2> QED BY <2>1 DEF ItemsOK
  <1>4. CASE Get
    <2>1. /\ got \in Nat /\ got' = got + 1 /\ ids' = ids /\ stable' = stable
          /\ Len(items) \in Nat /\ DOMAIN items = 1..Len(items)
          /\ stable \subseteq ToSet(rows)
      BY <1>4 DEF Get, TypeOK, RowsOK, Listing
    <2> DEFINE entry == [id |-> ids[got + 1], updated_at |-> stamp[ids[got + 1]]]
    <2>2. items' = IF ids[got + 1] \in ToSet(rows) THEN Append(items, entry) ELSE items
      BY <1>4 DEF Get
    <2>3. ids[got + 1] \in ToSet(rows) =>
             /\ DOMAIN items' = 1..(Len(items) + 1) /\ items'[Len(items) + 1] = entry
             /\ \A m \in DOMAIN items : items'[m] = items[m]
      <3>1. items \in Seq([id : Ids, updated_at : Nat]) BY DEF TypeOK
      <3> HIDE DEF entry
      <3> QED BY <2>1, <2>2, <3>1
    <2> SUFFICES ASSUME NEW k \in 1..(got + 1), ids[k] \in stable
                 PROVE  \E m \in DOMAIN items' : items'[m].id = ids[k]
      BY <2>1 DEF ItemsOK
    <2>4. CASE k = got + 1
      <3>1. ids[got + 1] \in ToSet(rows) BY <2>1, <2>4
      <3>2. Len(items) + 1 \in DOMAIN items' /\ items'[Len(items) + 1].id = ids[k]
        BY <2>1, <2>3, <2>4, <3>1
      <3> QED BY <3>2
    <2>5. CASE k # got + 1
      <3>1. k \in 1..got BY <2>1, <2>5
      <3>2. PICK m \in DOMAIN items : items[m].id = ids[k] BY <3>1 DEF ItemsOK
      <3>3. m \in DOMAIN items' /\ items'[m] = items[m] BY <2>1, <2>2, <2>3
      <3> QED BY <3>2, <3>3
    <2> QED BY <2>4, <2>5
  <1> QED BY <1>1, <1>2, <1>3, <1>4 DEF Next

\* When the page is put together, all that is stable in it is among its items.
LEMMA StableListed ==
    ASSUME TypeOK, ItemsOK, ListPage
    PROVE  /\ ToSet(listed') = ToSet(listed) \cup ToSet(Sorted)
           /\ stable \cap ToSet(ids) \subseteq ToSet(listed')
  <1>1. ToSet(listed') = ToSet(listed) \cup ToSet(Sorted)
    BY SortedItems, ConcatSets DEF ListPage, TypeOK
  <1>2. got = Len(ids) /\ DOMAIN ids = 1..got BY DEF ListPage, TypeOK
  <1>3. stable \cap ToSet(ids) \subseteq ToSet(Sorted)
    BY <1>2, SortedItems DEF ItemsOK, ToSet
  <1> QED BY <1>1, <1>3

\* No write lets more than one stable record slip.
LEMMA WriteSlips ==
    ASSUME TypeOK, RowsOK, SlippedOK, NEW i \in Ids, Upsert(i) \/ Drop(i)
    PROVE  SlippedOK'
  <1>0. /\ UNCHANGED call /\ stable' = stable \ {i} /\ Moved(i)
        /\ rows' = Without(i) \/ rows' = Append(Without(i), i)
    BY DEF Upsert, Drop
  <1>1. /\ pc' = pc /\ page' = page /\ ids' = ids /\ got' = got /\ items' = items
        /\ listed' = listed /\ Asked' = Asked /\ (HasMore' <=> HasMore)
    BY <1>0 DEF call, Asked, Start, HasMore
  <1>2. Asked \in Nat BY ToolsAssumption DEF Asked, Start, TypeOK
  <1>3. /\ rows' \in Seq(Ids)
        /\ \A k \in DOMAIN rows : rows[k] # i => \E m \in DOMAIN rows' : m <= k /\ rows'[m] = rows[k]
        /\ \A k \in DOMAIN rows' : rows'[k] # i =>
              \/ k \in DOMAIN rows /\ rows'[k] = rows[k]
              \/ i \in ToSet(rows) /\ k + 1 \in DOMAIN rows /\ rows'[k] = rows[k + 1]
    BY <1>0, RowsAfter
  <1>4. DOMAIN rows \subseteq Nat /\ DOMAIN rows' \subseteq Nat BY <1>3 DEF TypeOK
  <1>f. \A k \in DOMAIN rows : k <= Asked => rows[k] \in First(Asked) BY DEF First
  <1>5. IsFiniteSet(Slipped) /\ Cardinality(Slipped) \in Nat
    <2>1. Slipped \in SUBSET stable BY DEF Slipped
    <2> QED BY <2>1, FS_Subset, FS_CardinalityType DEF RowsOK
  <1>6. ASSUME NEW j \in Slipped'
        PROVE  j \in Slipped \/ (i \in ToSet(rows) /\ j = rows[Asked + 1])
    <2>0. j \in stable' /\ j \in First(Asked)' /\ j \notin ToSet(listed') \cup ToSet(ids')
      BY DEF Slipped
    <2>1. j \in stable /\ j # i /\ j \notin ToSet(listed) \cup ToSet(ids) BY <1>0, <1>1, <2>0
    <2>2. PICK k \in DOMAIN rows' : k <= Asked /\ rows'[k] = j BY <1>1, <2>0 DEF First
    <2>3. CASE k \in DOMAIN rows /\ rows'[k] = rows[k]
      <3>1. j \in First(Asked) BY <1>f, <2>2, <2>3
      <3> QED BY <2>1, <3>1 DEF Slipped
    <2>4. CASE i \in ToSet(rows) /\ k + 1 \in DOMAIN rows /\ rows'[k] = rows[k + 1]
      <3>1. k + 1 <= Asked \/ k + 1 = Asked + 1 BY <1>2, <1>4, <2>2
      <3>2. CASE k + 1 <= Asked
        <4>1. j \in First(Asked) BY <1>f, <2>2, <2>4, <3>2
        <4> QED BY <2>1, <4>1 DEF Slipped
      <3> QED BY <2>2, <2>4, <3>1, <3>2
    <2> QED BY <1>3, <2>1, <2>2, <2>3, <2>4
  <1>7. ASSUME Listing PROVE Cardinality(Slipped') <= moved'
    <2>1. Cardinality(Slipped) <= moved /\ moved \in Nat BY <1>7 DEF SlippedOK, TypeOK
    <2>2. CASE i \in ToSet(rows)
      <3>1. Slipped' \in SUBSET (Slipped \cup {rows[Asked + 1]}) BY <1>6
      <3>2. /\ IsFiniteSet(Slipped \cup {rows[Asked + 1]})
            /\ \/ Cardinality(Slipped \cup {rows[Asked + 1]}) = Cardinality(Slipped)
               \/ Cardinality(Slipped \cup {rows[Asked + 1]}) = Cardinality(Slipped) + 1
        BY <1>5, FS_AddElement
      <3>3. /\ Cardinality(Slipped') <= Cardinality(Slipped \cup {rows[Asked + 1]})
            /\ Cardinality(Slipped') \in Nat
        BY <3>1, <3>2, FS_Subset, FS_CardinalityType
      <3>4. moved' = moved + 1 BY <1>0, <1>7, <2>2 DEF Moved
      <3> QED BY <1>5, <2>1, <3>2, <3>3, <3>4
    <2>3. CASE i \notin ToSet(rows)
      <3>1. Slipped' \in SUBSET Slipped BY <1>6, <2>3
      <3>2. /\ Cardinality(Slipped') <= Cardinality(Slipped) /\ Cardinality(Slipped') \in Nat
        BY <1>5, <3>1, FS_Subset, FS_CardinalityType
      <3>3. moved' = moved BY <1>0, <2>3 DEF Moved
      <3> QED BY <1>5, <2>1, <3>2, <3>3
    <2> QED BY <2>2, <2>3
  <1>8. ASSUME pc = "get", ~HasMore PROVE stable' \subseteq First(Asked)'
    <2> SUFFICES ASSUME NEW j \in stable, j # i PROVE j \in First(Asked)'
      BY <1>0
    <2>1. j \in First(Asked) BY <1>8 DEF SlippedOK
    <2>2. PICK k \in DOMAIN rows : k <= Asked /\ rows[k] = j BY <2>1 DEF First
    <2>3. PICK m \in DOMAIN rows' : m <= k /\ rows'[m] = j BY <1>3, <2>2
    <2>4. m <= Asked BY <1>2, <1>4, <2>2, <2>3
    <2> QED BY <1>1, <2>3, <2>4 DEF First
  <1> QED BY <1>1, <1>7, <1>8 DEF SlippedOK, Listing

\* A step that adds no stable record to the places asked for, or none that is
\* in no page, keeps the count.
LEMMA FewerSlipped ==
    ASSUME RowsOK, Cardinality(Slipped) <= moved, moved \in Nat, moved' = moved,
           Slipped' \subseteq Slipped
    PROVE  Cardinality(Slipped') <= moved'
  <1>1. Slipped \in SUBSET stable BY DEF Slipped
  <1>2. IsFiniteSet(Slipped) /\ Cardinality(Slipped) \in Nat
    BY <1>1, FS_Subset, FS_CardinalityType DEF RowsOK
  <1>3. Slipped' \in SUBSET Slipped OBVIOUS
  <1>4. Cardinality(Slipped') <= Cardinality(Slipped) /\ Cardinality(Slipped') \in Nat
    BY <1>2, <1>3, FS_Subset, FS_CardinalityType
  <1> QED BY <1>2, <1>4

\* As many records slip as move, whatever the step.
LEMMA SlippedStep ==
    TypeOK /\ RowsOK /\ SlippedOK /\ ItemsOK /\ [Next]_vars => SlippedOK'
  <1> SUFFICES ASSUME TypeOK, RowsOK, SlippedOK, ItemsOK, [Next]_vars PROVE SlippedOK'
    OBVIOUS
  <1>t. moved \in Nat /\ page \in Nat /\ PageSize \in Nat BY ToolsAssumption DEF TypeOK
  <1>1. ASSUME NEW i \in Ids, Upsert(i) \/ Drop(i) PROVE SlippedOK' BY <1>1, WriteSlips
  <1>2. CASE Tick \/ Get \/ UNCHANGED vars
    <2>1. /\ rows' = rows /\ stable' = stable /\ listed' = listed /\ ids' = ids
          /\ moved' = moved /\ pc' = pc /\ page' = page
          /\ pc # "get" => got' = got /\ items' = items
      BY <1>2 DEF Tick, Get, vars, call
    <2>2. Slipped' = Slipped /\ First(Asked)' = First(Asked)
      BY <2>1 DEF Slipped, First, Asked, Start
    <2> QED BY <2>1, <2>2 DEF SlippedOK, HasMore, Listing
  <1>3. CASE ListBegin
    <2>1. /\ pc' = "paging" /\ page' = 1 /\ moved' = 0 /\ rows' = rows
          /\ UNCHANGED <<ids, got, items>>
      BY <1>3 DEF ListBegin
    <2>2. Asked' = 0
      <3>1. Start' = 0 BY <1>t, <2>1 DEF Start
      <3> QED BY <2>1, <3>1 DEF Asked
    <2>3. First(Asked)' = {} BY <2>1, <2>2 DEF First, TypeOK
    <2>4. Slipped' = {} BY <2>3 DEF Slipped
    <2>5. Cardinality(Slipped') = 0 BY <2>4, FS_EmptySet
    <2>6. ids' = <<>> /\ got' = 0 /\ items' = <<>>
      BY <1>3, <2>1 DEF ListBegin, Listing, SlippedOK
    <2> QED BY <2>1, <2>5, <2>6 DEF SlippedOK
  <1>4. CASE ListIds
    <2>1. /\ pc = "paging" /\ pc' = "get" /\ ids' = PageIds /\ rows' = rows
          /\ stable' = stable /\ listed' = listed /\ moved' = moved /\ page' = page
      BY <1>4 DEF ListIds
    <2>2. Asked = Start /\ Asked' = Start + PageSize /\ Start \in Nat
      BY <1>t, <2>1, PageProperties DEF Asked, Start
    <2>3. ids = <<>> BY <2>1 DEF SlippedOK
    <2>4. Slipped' \subseteq Slipped
      <3> SUFFICES ASSUME NEW j \in Slipped' PROVE j \in Slipped
        OBVIOUS
      <3>1. /\ j \in stable /\ j \in First(Asked)' /\ j \notin ToSet(listed)
            /\ j \notin ToSet(PageIds)
        BY <2>1 DEF Slipped
      <3>2. PICK k \in DOMAIN rows : k <= Start + PageSize /\ rows[k] = j
        BY <2>1, <2>2, <3>1 DEF First
      <3>3. ~(k > Start)
        <4> SUFFICES ASSUME k > Start PROVE FALSE
          OBVIOUS
        <4>1. k - Start \in DOMAIN PageIds BY <3>2, PageProperties
        <4>2. PageIds[k - Start] = rows[Start + (k - Start)] BY <4>1, PageProperties
        <4>3. Start + (k - Start) = k
          <5>1. k \in Nat BY DEF TypeOK
          <5> QED BY <2>2, <5>1
        <4> QED BY <3>1, <3>2, <4>1, <4>2, <4>3 DEF ToSet
      <3>4. k <= Start
        <4>1. k \in Nat BY DEF TypeOK
        <4> QED BY <2>2, <3>3, <4>1
      <3>5. j \in First(Asked) BY <2>2, <3>2, <3>4 DEF First
      <3> QED BY <2>3, <3>1, <3>5 DEF Slipped, ToSet
    <2>5. Cardinality(Slipped') <= moved'
      <3>1. Cardinality(Slipped) <= moved BY <2>1 DEF SlippedOK, Listing
      <3> QED BY <1>t, <2>1, <2>4, <3>1, FewerSlipped
    <2>6. ASSUME ~HasMore' PROVE stable' \subseteq First(Asked)'
      <3>1. Len(PageIds) \in Nat BY PageProperties
      <3>2. Len(PageIds) < PageSize BY <1>t, <2>1, <2>6, <3>1 DEF HasMore
      <3>3. \A m \in DOMAIN rows : m <= Start + PageSize BY <3>2, PageProperties
      <3>4. stable \subseteq ToSet(rows) BY <2>1 DEF RowsOK, Listing
      <3>5. First(Asked)' = {rows[k] : k \in {j \in DOMAIN rows : j <= Start + PageSize}}
        BY <2>1, <2>2 DEF First
      <3> QED BY <2>1, <3>3, <3>4, <3>5 DEF ToSet
    <2> QED BY <2>1, <2>5, <2>6 DEF SlippedOK
  <1>5. CASE ListPage
    <2>1. /\ pc = "get" /\ rows' = rows /\ stable' = stable /\ moved' = moved
          /\ ids' = <<>> /\ got' = 0 /\ items' = <<>> /\ pc' # "get"
      BY <1>5 DEF ListPage
    <2>2. CASE HasMore
      <3>1. pc' = "paging" /\ page' = page + 1 BY <1>5, <2>2 DEF ListPage
      <3>2. Asked' = Asked
        <4>1. Start' = Start + PageSize BY <1>t, <3>1 DEF Start
        <4> QED BY <2>1, <3>1, <4>1 DEF Asked
      <3>3. Slipped' \subseteq Slipped
        <4>1. First(Asked)' = First(Asked) BY <2>1, <3>2 DEF First
        <4> QED BY <1>5, <2>1, <4>1, StableListed DEF Slipped
      <3>4. Cardinality(Slipped) <= moved BY <2>1 DEF SlippedOK, Listing
      <3> QED BY <1>t, <2>1, <3>3, <3>4, FewerSlipped DEF SlippedOK
    <2>3. CASE ~HasMore
      <3>1. pc' = "done" BY <1>5, <2>3 DEF ListPage
      <3> QED BY <2>1, <3>1 DEF SlippedOK, Listing
    <2> QED BY <2>2, <2>3
  <1> QED BY <1>1, <1>2, <1>3, <1>4, <1>5 DEF Next

\* When the last page is listed, what is stable and in no page has slipped.
LEMMA SkipStep ==
    TypeOK /\ RowsOK /\ SlippedOK /\ ItemsOK /\ SkipsAtMostMoved /\ [Next]_vars
        => SkipsAtMostMoved'
  <1> SUFFICES ASSUME TypeOK, RowsOK, SlippedOK, ItemsOK, SkipsAtMostMoved, [Next]_vars,
                      pc' = "done"
               PROVE  Cardinality(stable' \ ToSet(listed')) <= moved'
    BY DEF SkipsAtMostMoved
  <1>t. moved \in Nat BY DEF TypeOK
  <1>1. ASSUME pc = "done", moved' = moved, stable' \subseteq stable, listed' = listed
        PROVE  Cardinality(stable' \ ToSet(listed')) <= moved'
    <2>1. IsFiniteSet(stable \ ToSet(listed)) BY FS_Difference DEF RowsOK
    <2>2. stable' \ ToSet(listed') \in SUBSET (stable \ ToSet(listed)) BY <1>1
    <2>3. /\ Cardinality(stable' \ ToSet(listed')) <= Cardinality(stable \ ToSet(listed))
          /\ Cardinality(stable' \ ToSet(listed')) \in Nat
          /\ Cardinality(stable \ ToSet(listed)) \in Nat
      BY <2>1, <2>2, FS_Subset, FS_CardinalityType
    <2>4. Cardinality(stable \ ToSet(listed)) <= moved BY <1>1 DEF SkipsAtMostMoved
    <2> QED BY <1>1, <1>t, <2>3, <2>4
  <1>2. ASSUME NEW i \in Ids, Upsert(i) \/ Drop(i)
        PROVE  Cardinality(stable' \ ToSet(listed')) <= moved'
    <2>1. pc = "done" /\ listed' = listed /\ stable' \subseteq stable
      BY <1>2 DEF Upsert, Drop, call
    <2>2. moved' = moved BY <1>2, <2>1 DEF Upsert, Drop, Moved, Listing
    <2> QED BY <1>1, <2>1, <2>2
  <1>3. CASE Tick \/ UNCHANGED vars BY <1>1, <1>3 DEF Tick, vars, call
  <1>4. ~ListBegin /\ ~ListIds BY DEF ListBegin, ListIds
  <1>5. ~Get BY DEF Get
  <1>6. CASE ListPage
    <2>1. /\ pc = "get" /\ ~HasMore /\ moved' = moved /\ stable' = stable
      BY <1>6 DEF ListPage
    <2>2. stable \subseteq First(Asked) BY <2>1 DEF SlippedOK
    <2>3. stable' \ ToSet(listed') \in SUBSET Slipped
      BY <1>6, <2>1, <2>2, StableListed DEF Slipped
    <2>4. Slipped \in SUBSET stable BY DEF Slipped
    <2>5. IsFiniteSet(Slipped) /\ Cardinality(Slipped) \in Nat /\ Cardinality(Slipped) <= moved
      BY <2>1, <2>4, FS_Subset, FS_CardinalityType DEF RowsOK, SlippedOK, Listing
    <2>6. /\ Cardinality(stable' \ ToSet(listed')) <= Cardinality(Slipped)
          /\ Cardinality(stable' \ ToSet(listed')) \in Nat
      BY <2>3, <2>5, FS_Subset, FS_CardinalityType
    <2> QED BY <1>t, <2>1, <2>5, <2>6
  <1> QED BY <1>2, <1>3, <1>4, <1>5, <1>6 DEF Next

\* While nothing moves the pages are the rows, place by place.
LEMMA InPlaceStep ==
    TypeOK /\ RowsOK /\ SlippedOK /\ InPlace /\ [Next]_vars => InPlace'
  <1> SUFFICES ASSUME TypeOK, RowsOK, SlippedOK, InPlace, [Next]_vars, moved' = 0
               PROVE  /\ Distinct(listed')
                      /\ Listing' => ToSet(listed') \subseteq First(Start)'
                      /\ pc' = "get" => \A k \in DOMAIN ids' :
                            Start' + k \in DOMAIN rows' /\ ids'[k] = rows'[Start' + k]
                      /\ Distinct([m \in DOMAIN items' |-> items'[m].id])
                      /\ \A m \in DOMAIN items' : \E k \in 1..got' : items'[m].id = ids'[k]
    BY DEF InPlace, Distinct
  <1>1. ASSUME NEW i \in Ids, Upsert(i) \/ Drop(i), moved = 0, Listing => i \notin ToSet(rows)
        PROVE  InPlace'
    <2>1. UNCHANGED call /\ (rows' = Without(i) \/ rows' = Append(Without(i), i))
      BY <1>1 DEF Upsert, Drop
    <2>2. Listing => \A k \in DOMAIN rows : k \in DOMAIN rows' /\ rows'[k] = rows[k]
      BY <1>1, <2>1, RowsAfter
    <2>3. Start' = Start /\ (Listing' <=> Listing) BY <2>1 DEF call, Start, Listing
    <2>4. Listing => First(Start) \subseteq First(Start)' BY <2>2, <2>3 DEF First
    <2> QED BY <1>1, <2>1, <2>2, <2>3, <2>4 DEF InPlace, call, Distinct, Listing
  <1>2. ASSUME NEW i \in Ids, Upsert(i) \/ Drop(i) PROVE InPlace'
    <2>1. moved = 0 /\ (Listing => i \notin ToSet(rows))
      BY <1>2 DEF Upsert, Drop, Moved, TypeOK
    <2> QED BY <1>1, <1>2, <2>1
  <1>3. CASE Tick \/ UNCHANGED vars
    BY <1>3 DEF Tick, vars, call, InPlace, Distinct, First, Start, Listing
  <1>4. CASE ListBegin
    <2>1. listed' = <<>> /\ items' = <<>> /\ pc' = "paging"
      BY <1>4 DEF ListBegin, SlippedOK, Listing
    <2> QED BY <2>1 DEF Distinct, ToSet
  <1>5. CASE ListIds
    <2>1. /\ moved = 0 /\ pc = "paging" /\ listed' = listed /\ items' = <<>>
          /\ rows' = rows /\ page' = page /\ ids' = PageIds
      BY <1>5 DEF ListIds
    <2>2. First(Start)' = First(Start) /\ Start' = Start BY <2>1 DEF First, Start
    <2>3. Distinct(listed) /\ ToSet(listed) \subseteq First(Start)
      BY <2>1 DEF InPlace, Listing
    <2> QED BY <2>1, <2>2, <2>3, PageProperties DEF Distinct
  <1>6. CASE Get
    <2>1. /\ moved = 0 /\ pc = "get" /\ listed' = listed /\ rows' = rows /\ page' = page
          /\ ids' = ids /\ got' = got + 1 /\ got \in Nat /\ got + 1 \in DOMAIN ids
          /\ got < Len(ids) /\ Len(ids) \in Nat /\ DOMAIN ids = 1..Len(ids)
      BY <1>6 DEF Get, TypeOK
    <2>2. First(Start)' = First(Start) /\ Start' = Start BY <2>1 DEF First, Start
    <2>3. /\ Distinct(listed) /\ ToSet(listed) \subseteq First(Start)
          /\ \A k \in DOMAIN ids : Start + k \in DOMAIN rows /\ ids[k] = rows[Start + k]
          /\ \A j, k \in DOMAIN items : items[j].id = items[k].id => j = k
          /\ \A m \in DOMAIN items : \E k \in 1..got : items[m].id = ids[k]
      BY <2>1 DEF InPlace, Listing, Distinct
    <2>4. \A m \in DOMAIN items : items[m].id # ids[got + 1]
      <3> SUFFICES ASSUME NEW m \in DOMAIN items, NEW k \in 1..got, ids[k] = ids[got + 1]
                   PROVE  FALSE
        BY <2>3
      <3>1. k \in DOMAIN ids /\ k # got + 1 /\ k \in Nat BY <2>1
      <3>2. Start + k = Start + (got + 1) BY <2>1, <2>3, <3>1 DEF RowsOK
      <3>3. Start \in Nat BY PageProperties
      <3> QED BY <2>1, <3>1, <3>2, <3>3
    <2> DEFINE entry == [id |-> ids[got + 1], updated_at |-> stamp[ids[got + 1]]]
    <2>5. /\ items' = items \/ items' = Append(items, entry)
          /\ Len(items) \in Nat /\ DOMAIN items = 1..Len(items)
      BY <1>6 DEF Get, TypeOK
    <2>6. items' # items =>
             /\ DOMAIN items' = 1..(Len(items) + 1) /\ items'[Len(items) + 1] = entry
             /\ \A m \in DOMAIN items : items'[m] = items[m]
      <3>1. items \in Seq([id : Ids, updated_at : Nat]) BY DEF TypeOK
      <3> HIDE DEF entry
      <3> QED BY <2>5, <3>1
    <2>7. entry.id = ids[got + 1] OBVIOUS
    <2> HIDE DEF entry
    <2>8. \A m \in DOMAIN items' :
             \/ m \in DOMAIN items /\ items'[m] = items[m]
             \/ items' # items /\ m = Len(items) + 1 /\ items'[m].id = ids[got + 1]
      BY <2>5, <2>6, <2>7
    <2>9. \A j, k \in DOMAIN items' : items'[j].id = items'[k].id => j = k
      BY <2>3, <2>4, <2>8
    <2>10. \A m \in DOMAIN items' : \E k \in 1..got' : items'[m].id = ids'[k]
      <3>1. \A k \in 1..got : k \in 1..(got + 1) BY <2>1
      <3>2. got + 1 \in 1..(got + 1) BY <2>1
      <3> QED BY <2>1, <2>3, <2>8, <3>1, <3>2
    <2> QED BY <2>1, <2>2, <2>3, <2>9, <2>10 DEF Distinct
  <1>7. CASE ListPage
    <2>1. /\ moved = 0 /\ pc = "get" /\ rows' = rows /\ listed' = listed \o Sorted
          /\ items' = <<>> /\ pc' # "get" /\ got = Len(ids)
      BY <1>7 DEF ListPage
    <2>2. /\ Distinct(listed) /\ ToSet(listed) \subseteq First(Start)
          /\ \A k \in DOMAIN ids : Start + k \in DOMAIN rows /\ ids[k] = rows[Start + k]
          /\ Distinct([m \in DOMAIN items |-> items[m].id])
          /\ \A m \in DOMAIN items : \E k \in 1..got : items[m].id = ids[k]
      BY <2>1 DEF InPlace, Listing
    <2>3. Start \in Nat /\ PageSize \in Nat /\ page \in Nat
      BY PageProperties, ToolsAssumption DEF TypeOK
    <2>4. /\ Sorted \in Seq(Ids) /\ Distinct(Sorted)
          /\ ToSet(Sorted) = {items[m].id : m \in DOMAIN items}
      BY <2>2, SortedItems
    <2>5. \A x \in ToSet(Sorted) : \E k \in DOMAIN rows :
             k > Start /\ k <= Start + PageSize /\ rows[k] = x
      <3> SUFFICES ASSUME NEW m \in DOMAIN items
                   PROVE  \E k \in DOMAIN rows :
                             k > Start /\ k <= Start + PageSize /\ rows[k] = items[m].id
        BY <2>4
      <3>1. PICK k \in 1..got : items[m].id = ids[k] BY <2>2
      <3>2. Len(ids) \in Nat /\ Len(ids) <= PageSize /\ DOMAIN ids = 1..Len(ids) BY DEF TypeOK
      <3>3. k \in DOMAIN ids /\ k \in Nat /\ k >= 1 /\ k <= PageSize BY <2>1, <2>3, <3>2
      <3>4. Start + k > Start /\ Start + k <= Start + PageSize BY <2>3, <3>3
      <3> QED BY <2>2, <3>1, <3>3, <3>4
    <2>6. ToSet(listed) \cap ToSet(Sorted) = {}
      <3> SUFFICES ASSUME NEW x \in ToSet(Sorted), x \in First(Start) PROVE FALSE
        BY <2>2
      <3>1. PICK k \in DOMAIN rows : k > Start /\ rows[k] = x BY <2>5
      <3>2. PICK m \in DOMAIN rows : m <= Start /\ rows[m] = x BY DEF First
      <3>3. m = k BY <3>1, <3>2 DEF RowsOK
      <3>4. k \in Nat BY DEF TypeOK
      <3> QED BY <2>3, <3>1, <3>2, <3>3, <3>4
    <2>7. listed \in Seq(Ids) BY DEF TypeOK
    <2>8. Distinct(listed') /\ ToSet(listed') = ToSet(listed) \cup ToSet(Sorted)
      <3>1. /\ \A j, k \in DOMAIN listed : listed[j] = listed[k] => j = k
            /\ \A j, k \in DOMAIN Sorted : Sorted[j] = Sorted[k] => j = k
        BY <2>2, <2>4 DEF Distinct
      <3>2. /\ ToSet(listed \o Sorted) = ToSet(listed) \cup ToSet(Sorted)
            /\ \A j, k \in DOMAIN (listed \o Sorted) :
                  (listed \o Sorted)[j] = (listed \o Sorted)[k] => j = k
        BY <2>4, <2>6, <2>7, <3>1, ConcatSets
      <3> QED BY <2>1, <3>2 DEF Distinct
    <2>9. ASSUME Listing' PROVE ToSet(listed') \subseteq First(Start)'
      <3>1. page' = page + 1 BY <1>7, <2>9 DEF ListPage, Listing
      <3>2. Start' = Start + PageSize BY <2>3, <3>1 DEF Start
      <3>3. First(Start)' = {rows[k] : k \in {j \in DOMAIN rows : j <= Start + PageSize}}
        BY <2>1, <3>2 DEF First
      <3>4. ToSet(Sorted) \subseteq First(Start)' BY <2>5, <3>3
      <3>5. First(Start) \subseteq First(Start)'
        <4>1. \A k \in DOMAIN rows : k \in Nat BY DEF TypeOK
        <4>2. \A k \in DOMAIN rows : k <= Start => k <= Start + PageSize BY <2>3, <4>1
        <4> QED BY <3>3, <4>2 DEF First
      <3> QED BY <2>2, <2>8, <3>4, <3>5
    <2> QED BY <2>1, <2>8, <2>9 DEF Distinct
  <1>8. InPlace' \/ Tick \/ UNCHANGED vars \/ ListBegin \/ ListIds \/ Get \/ ListPage
    BY <1>2 DEF Next
  <1>9. CASE InPlace' BY <1>9 DEF InPlace
  <1> QED BY <1>3, <1>4, <1>5, <1>6, <1>7, <1>8, <1>9

-----------------------------------------------------------------------------
\* What is stable has been asked for, or slipped: the invariant of the listing.
LEMMA PagesInvariant == Spec => [](PagesInv /\ SkipsAtMostMoved)
  <1>1. Init => PagesInv /\ SkipsAtMostMoved
    <2> SUFFICES ASSUME Init PROVE PagesInv /\ SkipsAtMostMoved
      OBVIOUS
    <2>1. TypeOK BY ToolsAssumption DEF Init, TypeOK
    <2>2. RowsOK BY FS_EmptySet DEF Init, RowsOK, Listing
    <2>3. SlippedOK BY DEF Init, SlippedOK, Listing
    <2>4. ItemsOK BY DEF Init, ItemsOK
    <2>5. InPlace BY DEF Init, InPlace, Distinct, Listing
    <2>6. SkipsAtMostMoved BY DEF Init, SkipsAtMostMoved
    <2> QED BY <2>1, <2>2, <2>3, <2>4, <2>5, <2>6 DEF PagesInv
  <1>2. PagesInv /\ SkipsAtMostMoved /\ [Next]_vars => (PagesInv /\ SkipsAtMostMoved)'
    BY TypeStep, RowsStep, SlippedStep, ItemsStep, InPlaceStep, SkipStep DEF PagesInv
  <1> QED BY <1>1, <1>2, PTL DEF Spec

\* Each record that is written or deleted while the pages of memory_list are
\* asked for costs the listing at most one that is not.
THEOREM SkipsAtMostMovedTheorem == Spec => []SkipsAtMostMoved
  BY PagesInvariant, PTL

\* If none is, the pages list what was there, each record once.
THEOREM PagesPartitionTheorem == Spec => []PagesPartition
  <1>1. PagesInv /\ SkipsAtMostMoved => PagesPartition
    <2> SUFFICES ASSUME PagesInv, SkipsAtMostMoved, moved = 0 PROVE PagesPartition
      BY DEF PagesPartition
    <2>1. \A j, k \in DOMAIN listed : listed[j] = listed[k] => j = k
      BY DEF PagesInv, InPlace, Distinct
    <2>2. ASSUME pc = "done" PROVE stable \subseteq ToSet(listed)
      <3>1. IsFiniteSet(stable \ ToSet(listed)) BY FS_Difference DEF PagesInv, RowsOK
      <3>2. Cardinality(stable \ ToSet(listed)) \in Nat BY <3>1, FS_CardinalityType
      <3>3. Cardinality(stable \ ToSet(listed)) = 0 BY <2>2, <3>2 DEF SkipsAtMostMoved
      <3>4. stable \ ToSet(listed) = {} BY <3>1, <3>3, FS_EmptySet
      <3> QED BY <3>4
    <2> QED BY <2>1, <2>2 DEF PagesPartition
  <1> QED BY <1>1, PagesInvariant, PTL
=============================================================================
