------------------------- MODULE PagedListingProofs -------------------------
(* For every page size, every set of rows, and whatever is added and        *)
(* removed meanwhile: list_records answers a snapshot unless rows are       *)
(* removed, never lists a row twice, and a full sync loses little to it.    *)
EXTENDS PagedSync, SequenceLemmas

-----------------------------------------------------------------------------
(* Type correctness. *)

\* A page is a part of the table.
LEMMA PageProperties ==
    ASSUME table \in Seq(RowIds), offset \in Nat
    PROVE  /\ Page \in Seq(RowIds)
           /\ Page = SubSeq(table, offset + 1, Len(table)) \/ HasMore
           /\ Len(Page) = IF HasMore THEN PageSize
                          ELSE IF offset < Len(table) THEN Len(table) - offset ELSE 0
           /\ \A k \in DOMAIN Page : offset + k \in DOMAIN table /\ Page[k] = table[offset + k]
  <1> DEFINE last == IF HasMore THEN offset + PageSize ELSE Len(table)
  <1>0. Len(table) \in Nat /\ PageSize \in Nat \ {0} BY PagingAssumption
  <1>1. last \in Nat /\ last <= Len(table) BY <1>0 DEF HasMore
  <1>2. \A k \in (offset + 1)..last : k \in DOMAIN table /\ table[k] \in RowIds BY <1>0, <1>1
  <1>3. /\ SubSeq(table, offset + 1, last) \in Seq(RowIds)
        /\ Len(SubSeq(table, offset + 1, last)) =
              IF offset + 1 <= last THEN last - (offset + 1) + 1 ELSE 0
        /\ \A k \in 1..(last - (offset + 1) + 1) :
              SubSeq(table, offset + 1, last)[k] = table[offset + 1 + k - 1]
    <2> HIDE DEF last
    <2> QED BY <1>0, <1>1, <1>2, SubSeqProperties
  <1>4. Page = SubSeq(table, offset + 1, last) BY DEF Page
  <1>5. Len(Page) = IF HasMore THEN PageSize
                    ELSE IF offset < Len(table) THEN Len(table) - offset ELSE 0
    BY <1>0, <1>3, <1>4 DEF HasMore
  <1>6. ASSUME NEW k \in DOMAIN Page
        PROVE  offset + k \in DOMAIN table /\ Page[k] = table[offset + k]
    <2>1. k \in 1..Len(Page) BY <1>3, <1>4, <1>6
    <2>2. offset + k \in (offset + 1)..last BY <1>0, <1>1, <1>5, <2>1 DEF HasMore
    <2>3. k \in 1..(last - (offset + 1) + 1) /\ offset + 1 + k - 1 = offset + k
      BY <1>0, <1>1, <2>1, <2>2
    <2> HIDE DEF last
    <2> QED BY <1>2, <1>3, <1>4, <2>2, <2>3
  <1>7. Page = SubSeq(table, offset + 1, Len(table)) \/ HasMore BY DEF Page
  <1> QED BY <1>3, <1>4, <1>5, <1>6, <1>7

\* TypeOK is inductive.
LEMMA TypeStep ==
    ASSUME TypeOK, [Next]_vars
    PROVE  TypeOK'
  <1> USE DEF TypeOK
  <1>0. /\ Page \in Seq(RowIds)
        /\ out \o Page \in Seq(RowIds)
    BY PageProperties, ConcatProperties
  <1>1. ASSUME NEW i \in RowIds, AppendRow(i) PROVE TypeOK'
    BY <1>1, AppendProperties DEF AppendRow
  <1>2. ASSUME NEW k \in DOMAIN table, RemoveRow(k) PROVE TypeOK'
    BY <1>2, RemoveAtProperties DEF RemoveRow, Removed
  <1>3. CASE DropTable
    <2>1. removed' \in Nat BY <1>3 DEF DropTable, Removed
    <2> QED BY <1>3, <2>1, EmptySeq DEF DropTable
  <1>4. CASE Begin
    <2>1. ToSet(table) \subseteq RowIds BY DEF ToSet
    <2> QED BY <1>4, <2>1, EmptySeq DEF Begin
  <1>5. CASE FetchPage BY <1>0, <1>5, PagingAssumption DEF FetchPage
  <1>6. CASE FetchEmpty \/ FetchUnreadable \/ FetchNotFound \/ FetchFails
    BY <1>6 DEF FetchEmpty, FetchUnreadable, FetchNotFound, FetchFails
  <1>7. CASE UNCHANGED vars BY <1>7 DEF vars
  <1> QED BY <1>1, <1>2, <1>3, <1>4, <1>5, <1>6, <1>7 DEF Next, Change, Fetch

LEMMA TypeInit == ASSUME Init PROVE TypeOK
  BY EmptySeq DEF Init, TypeOK

-----------------------------------------------------------------------------
(* Nothing is removed: a snapshot. *)

GrowInv == TypeOK /\ Gone /\ Prefix

\* After a page that is not the last, the prefix is longer; after the last it
\* is the table.
LEMMA PageExtends ==
    ASSUME GrowInv, FetchPage, removed = 0
    PROVE  /\ pc' = "paging" => /\ offset' <= Len(table)
                                /\ out' = SubSeq(table, 1, offset')
           /\ pc' = "done" => out' = table
  <1>0. /\ table \in Seq(RowIds) /\ Len(table) \in Nat /\ offset \in Nat
        /\ PageSize \in Nat \ {0}
        /\ offset <= Len(table) /\ out = SubSeq(table, 1, offset)
    BY PagingAssumption DEF GrowInv, TypeOK, Prefix, FetchPage
  <1>1. ASSUME NEW n \in offset..Len(table)
        PROVE  SubSeq(table, 1, offset) \o SubSeq(table, offset + 1, n) = SubSeq(table, 1, n)
    <2>1. /\ 1 \in 1..(Len(table) + 1) /\ offset \in (1 - 1)..Len(table)
          /\ n \in offset..Len(table)
      BY <1>0, <1>1
    <2> QED BY <1>0, <2>1, ConcatAdjacentSubSeq
  <1>2. CASE HasMore
    <2>1. offset + PageSize \in offset..Len(table) BY <1>0, <1>2 DEF HasMore
    <2>2. out' = SubSeq(table, 1, offset + PageSize)
      BY <1>0, <1>1, <1>2, <2>1 DEF FetchPage, Page
    <2>3. pc' = "paging" /\ offset' = offset + PageSize BY <1>2 DEF FetchPage
    <2>4. offset + PageSize <= Len(table) BY <1>0, <2>1
    <2> QED BY <2>2, <2>3, <2>4
  <1>3. CASE ~HasMore
    <2>1. out' = table
      <3>1. Len(table) \in offset..Len(table) BY <1>0
      <3>2. out' = SubSeq(table, 1, Len(table))
        BY <1>0, <1>1, <1>3, <3>1 DEF FetchPage, Page
      <3> QED BY <1>0, <3>2, SubSeqFull
    <2>2. CASE Len(Page) = PageSize
      <3>1. offset + PageSize = Len(table)
        BY <1>0, <1>3, <2>2, PageProperties
      <3>2. pc' = "paging" /\ offset' = Len(table)
        BY <2>2, <3>1 DEF FetchPage
      <3>3. table = SubSeq(table, 1, Len(table)) BY <1>0, SubSeqFull
      <3> QED BY <1>0, <2>1, <3>2, <3>3
    <2>3. CASE Len(Page) # PageSize BY <1>3, <2>1, <2>3 DEF FetchPage
    <2> QED BY <2>2, <2>3
  <1> QED BY <1>2, <1>3

\* An empty page before the end does not exist.
LEMMA EmptyIsEnd ==
    ASSUME GrowInv, FetchEmpty, removed = 0
    PROVE  out = table
  <1>0. /\ table \in Seq(RowIds) /\ Len(table) \in Nat /\ offset \in Nat
        /\ PageSize \in Nat \ {0}
        /\ offset <= Len(table) /\ out = SubSeq(table, 1, offset)
    BY PagingAssumption DEF GrowInv, TypeOK, Prefix, FetchEmpty
  <1>1. Len(Page) = 0 BY <1>0, EmptySeq DEF FetchEmpty
  <1>2. offset = Len(table) BY <1>0, <1>1, PageProperties DEF HasMore
  <1> QED BY <1>0, <1>2, SubSeqFull

\* Prefix is inductive: a removal during a listing is counted.
LEMMA PrefixStep ==
    ASSUME GrowInv, [Next]_vars
    PROVE  Gone' /\ Prefix'
  <1>0. /\ table \in Seq(RowIds) /\ Len(table) \in Nat /\ offset \in Nat /\ removed \in Nat
    BY DEF GrowInv, TypeOK
  <1>g. Gone'
    <2>1. ASSUME NEW k \in DOMAIN table, ~exists PROVE FALSE
      BY <2>1, EmptySeq DEF GrowInv, Gone
    <2> QED BY <2>1 DEF GrowInv, Gone, Next, Change, Fetch, AppendRow, RemoveRow, DropTable,
          Begin, FetchPage, FetchEmpty, FetchUnreadable, FetchNotFound, FetchFails, vars
  <1>1. ASSUME NEW i \in RowIds, AppendRow(i) PROVE Prefix'
    <2>1. CASE pc = "paging" /\ removed = 0
      <3>1. offset <= Len(table) /\ out = SubSeq(table, 1, offset)
        BY <2>1 DEF GrowInv, Prefix
      <3>2. table' = table \o <<i>> /\ table' \in Seq(RowIds) /\ Len(table') = Len(table) + 1
        BY <1>0, <1>1, AppendIsConcat, AppendProperties DEF AppendRow
      <3>3. SubSeq(table', 1, offset) = SubSeq(table, 1, offset)
        <4>1. CASE offset = 0 BY <1>0, <3>2, <4>1, SubSeqEmpty
        <4>2. CASE offset # 0
          <5>1. 1 \in 1..Len(table) /\ offset \in 1..Len(table) /\ <<i>> \in Seq(RowIds)
            BY <1>0, <3>1, <4>2
          <5> QED BY <1>0, <3>2, <5>1, SubSeqOfConcat1
        <4> QED BY <4>1, <4>2
      <3> QED BY <1>0, <1>1, <3>1, <3>2, <3>3 DEF Prefix, AppendRow
    <2>2. CASE ~(pc = "paging" /\ removed = 0) BY <1>1, <2>2 DEF Prefix, AppendRow
    <2> QED BY <2>1, <2>2
  <1>2. ASSUME DropTable \/ \E k \in DOMAIN table : RemoveRow(k) PROVE Prefix'
    BY <1>0, <1>2 DEF Prefix, DropTable, RemoveRow, Removed
  <1>3. CASE Begin
    <2>1. SubSeq(table, 1, 0) = <<>> BY SubSeqEmpty
    <2> QED BY <1>g, <1>0, <1>3, <2>1 DEF Prefix, Begin
  <1>4. CASE FetchPage
    <2>1. table' = table /\ removed' = removed /\ pc' \in {"paging", "done"}
      BY <1>4 DEF FetchPage
    <2> QED BY <1>g, <1>4, <2>1, PageExtends DEF Prefix
  <1>5. CASE FetchEmpty \/ FetchUnreadable \/ FetchNotFound \/ FetchFails
    BY <1>g, <1>5 DEF Prefix, FetchEmpty, FetchUnreadable, FetchNotFound, FetchFails
  <1>6. CASE UNCHANGED vars BY <1>g, <1>6 DEF GrowInv, Prefix, vars
  <1> QED BY <1>g, <1>1, <1>2, <1>3, <1>4, <1>5, <1>6 DEF Next, Change, Fetch

\* list_records implements Listing: the answer of a listing during which
\* nothing is removed is the table at one moment of the call, however many
\* pages it takes.
THEOREM AnswersSnapshotTheorem == Spec => AnswersSnapshot
  <1> DEFINE answer == IF pc = "done" /\ removed = 0 /\ ~cut THEN out ELSE NoAnswer
  <1>1. Init => GrowInv
    BY TypeInit DEF Init, GrowInv, Gone, Prefix
  <1>2. GrowInv /\ [Next]_vars => GrowInv'
    BY TypeStep, PrefixStep DEF GrowInv
  <1>3. Init => Whole!Init BY DEF Init, Whole!Init
  <1>4. ASSUME GrowInv, GrowInv', [Next]_vars
        PROVE  [Whole!Next]_<<table, answer>>
    <2>0. /\ out \in Seq(RowIds) /\ out # NoAnswer /\ table' \in Seq(RowIds)
          /\ removed \in Nat
      BY <1>4, PagingAssumption DEF GrowInv, TypeOK
    <2>1. CASE Change
      <3>1. pc' = pc /\ out' = out /\ cut' = cut /\ (pc # "paging" => removed' = removed)
        BY <2>1 DEF Change, AppendRow, RemoveRow, DropTable, Removed
      <3> QED BY <2>0, <3>1 DEF Whole!Next, Whole!Change
    <2>2. CASE Begin
      <3>1. answer' = NoAnswer /\ table' = table BY <2>2 DEF Begin
      <3> QED BY <3>1 DEF Whole!Next, Whole!Ask
    <2>3. CASE Fetch
      <3>1. answer = NoAnswer /\ table' = table /\ removed' = removed
        BY <2>3 DEF Fetch, FetchPage, FetchEmpty, FetchUnreadable, FetchNotFound, FetchFails
      <3>2. CASE removed # 0 \/ pc' # "done" \/ cut'
        <4>1. answer' = NoAnswer BY <3>1, <3>2
        <4> QED BY <3>1, <4>1
      <3>3. CASE removed = 0 /\ pc' = "done" /\ ~cut'
        <4>1. out' = table
          <5>1. CASE FetchPage BY <1>4, <3>3, <5>1, PageExtends
          <5>2. CASE FetchEmpty BY <1>4, <3>3, <5>2, EmptyIsEnd DEF FetchEmpty
          <5>3. CASE FetchNotFound
            <6>1. table = <<>> /\ out = SubSeq(table, 1, offset) /\ offset <= Len(table)
              BY <1>4, <3>3, <5>3 DEF GrowInv, Gone, Prefix, FetchNotFound
            <6>2. out = table BY <1>4, <6>1, EmptySeq, SubSeqFull DEF GrowInv, TypeOK
            <6> QED BY <5>3, <6>2 DEF FetchNotFound
          <5> QED BY <2>3, <3>3, <5>1, <5>2, <5>3 DEF Fetch, FetchUnreadable, FetchFails
        <4>2. answer' = table BY <3>1, <3>3, <4>1
        <4> QED BY <3>1, <4>2 DEF Whole!Next, Whole!Answer
      <3> QED BY <3>2, <3>3
    <2>4. CASE UNCHANGED vars
      <3>1. answer' = answer /\ table' = table BY <2>4 DEF vars
      <3> QED BY <3>1
    <2> QED BY <1>4, <2>1, <2>2, <2>3, <2>4 DEF Next
  <1> QED BY <1>1, <1>2, <1>3, <1>4, PTL DEF Spec, AnswersSnapshot, Whole!Spec

-----------------------------------------------------------------------------
(* Whatever is removed: no row twice. *)

OnceInv == TypeOK /\ TableOK /\ Behind /\ NoRowTwice

\* A change of the table leaves what was listed at or before the offset.
LEMMA ChangeKeepsOnce ==
    ASSUME OnceInv, Change
    PROVE  TableOK' /\ Behind' /\ NoRowTwice'
  <1>0. /\ table \in Seq(RowIds) /\ Len(table) \in Nat /\ offset \in Nat
    BY DEF OnceInv, TypeOK
  <1>1. out' = out /\ pc' = pc /\ offset' = offset
    BY DEF Change, AppendRow, RemoveRow, DropTable
  <1>2. NoRowTwice' BY <1>1 DEF OnceInv, NoRowTwice
  <1>3. ASSUME NEW i \in RowIds, AppendRow(i) PROVE TableOK' /\ Behind'
    <2>1. /\ table' \in Seq(RowIds) /\ Len(table') = Len(table) + 1
          /\ \A k \in 1..Len(table) : table'[k] = table[k]
          /\ table'[Len(table) + 1] = i
          /\ i \notin used /\ used' = used \cup {i}
      BY <1>0, <1>3, AppendProperties DEF AppendRow
    <2>2. ASSUME NEW k \in DOMAIN table'
          PROVE  \/ k \in DOMAIN table /\ table'[k] = table[k]
                 \/ k = Len(table) + 1 /\ table'[k] = i
      BY <1>0, <2>1, <2>2
    <2>3. \A k \in DOMAIN table : table[k] \in used /\ table[k] # i
      BY <2>1 DEF OnceInv, TableOK
    <2>4. \A j \in DOMAIN out : out[j] \in used /\ out[j] # i BY <2>1 DEF OnceInv, TableOK
    <2>5. TableOK'
      <3>1. \A k \in DOMAIN table' : table'[k] \in used' BY <2>1, <2>2, <2>3
      <3>2. \A j, k \in DOMAIN table' : table'[j] = table'[k] => j = k
        BY <2>2, <2>3 DEF OnceInv, TableOK
      <3> QED BY <1>1, <2>1, <2>4, <3>1, <3>2 DEF TableOK
    <2>6. Behind' BY <1>1, <2>2, <2>4 DEF OnceInv, Behind
    <2> QED BY <2>5, <2>6
  <1>4. ASSUME NEW n \in DOMAIN table, RemoveRow(n) PROVE TableOK' /\ Behind'
    <2>1. /\ table' \in Seq(RowIds) /\ Len(table') = Len(table) - 1 /\ used' = used
          /\ \A k \in 1..(Len(table) - 1) : table'[k] = IF k < n THEN table[k] ELSE table[k + 1]
      BY <1>0, <1>4, RemoveAtProperties DEF RemoveRow
    <2> DEFINE was(k) == IF k < n THEN k ELSE k + 1
    <2>2. ASSUME NEW k \in DOMAIN table'
          PROVE  was(k) \in DOMAIN table /\ table'[k] = table[was(k)] /\ k <= was(k) /\ k \in Nat
      BY <1>0, <1>4, <2>1, <2>2
    <2>3. ASSUME NEW j \in DOMAIN table', NEW k \in DOMAIN table', was(j) = was(k)
          PROVE  j = k
      <3>1. j \in Nat /\ k \in Nat /\ n \in Nat BY <1>0, <1>4, <2>1, <2>3
      <3> QED BY <2>3, <3>1
    <2> HIDE DEF was
    <2>4. TableOK'
      <3>1. \A k \in DOMAIN table' : table'[k] \in used' BY <2>1, <2>2 DEF OnceInv, TableOK
      <3>2. \A j, k \in DOMAIN table' : table'[j] = table'[k] => j = k
        BY <2>2, <2>3 DEF OnceInv, TableOK
      <3> QED BY <1>1, <2>1, <3>1, <3>2 DEF OnceInv, TableOK
    <2>5. ASSUME NEW k \in DOMAIN table', NEW j \in DOMAIN out,
                 pc = "paging", table'[k] = out[j]
          PROVE  k <= offset
      <3>1. was(k) <= offset /\ was(k) \in Nat BY <1>0, <2>2, <2>5 DEF OnceInv, Behind
      <3> QED BY <1>0, <2>2, <3>1
    <2>6. Behind' BY <1>1, <2>5 DEF Behind
    <2> QED BY <2>4, <2>6
  <1>5. CASE DropTable
    <2>1. DOMAIN table' = {} /\ used' = used BY <1>5, EmptySeq DEF DropTable
    <2> QED BY <1>1, <1>2, <2>1 DEF OnceInv, TableOK, Behind
  <1> QED BY <1>2, <1>3, <1>4, <1>5 DEF Change

\* A page holds rows behind the offset, so none that was listed.
LEMMA PageKeepsOnce ==
    ASSUME OnceInv, FetchPage
    PROVE  TableOK' /\ Behind' /\ NoRowTwice'
  <1>0. /\ table \in Seq(RowIds) /\ Len(table) \in Nat /\ offset \in Nat
        /\ out \in Seq(RowIds) /\ Len(out) \in Nat /\ PageSize \in Nat \ {0}
        /\ table' = table /\ used' = used /\ pc = "paging"
    BY PagingAssumption DEF OnceInv, TypeOK, FetchPage
  <1>1. /\ Page \in Seq(RowIds) /\ Len(Page) \in Nat /\ Len(Page) <= PageSize
        /\ \A k \in DOMAIN Page : offset + k \in DOMAIN table /\ Page[k] = table[offset + k]
    <2>1. ~HasMore => Len(table) - offset <= PageSize BY <1>0 DEF HasMore
    <2> QED BY <1>0, <2>1, PageProperties
  <1>2. /\ out' \in Seq(RowIds) /\ Len(out') = Len(out) + Len(Page)
        /\ \A j \in 1..(Len(out) + Len(Page)) :
              out'[j] = IF j <= Len(out) THEN out[j] ELSE Page[j - Len(out)]
    BY <1>0, <1>1, ConcatProperties DEF FetchPage
  <1>3. ASSUME NEW j \in DOMAIN out'
        PROVE  \/ j \in DOMAIN out /\ out'[j] = out[j]
               \/ /\ j - Len(out) \in DOMAIN Page
                  /\ offset + (j - Len(out)) \in DOMAIN table
                  /\ out'[j] = table[offset + (j - Len(out))]
                  /\ j \in Nat /\ j > Len(out)
    <2>1. j \in 1..(Len(out) + Len(Page)) BY <1>2, <1>3
    <2>2. CASE j <= Len(out) BY <1>0, <1>1, <1>2, <2>1, <2>2
    <2>3. CASE j > Len(out)
      <3>1. j - Len(out) \in DOMAIN Page BY <1>0, <1>1, <2>1, <2>3
      <3> QED BY <1>0, <1>1, <1>2, <2>1, <2>3, <3>1
    <2>4. j <= Len(out) \/ j > Len(out) BY <1>0, <2>1
    <2> QED BY <2>2, <2>3, <2>4
  <1>4. \A j \in DOMAIN out, k \in DOMAIN Page : out[j] # table[offset + k]
    <2>1. ASSUME NEW j \in DOMAIN out, NEW k \in DOMAIN Page, out[j] = table[offset + k]
          PROVE  FALSE
      <3>1. offset + k <= offset BY <1>0, <1>1, <2>1 DEF OnceInv, Behind
      <3>2. k \in Nat /\ k >= 1 BY <1>1
      <3> QED BY <1>0, <3>1, <3>2
    <2> QED BY <2>1
  <1>5. NoRowTwice'
    <2>1. ASSUME NEW j \in DOMAIN out', NEW k \in DOMAIN out', out'[j] = out'[k]
          PROVE  j = k
      <3>1. CASE j \in DOMAIN out /\ k \in DOMAIN out /\ out'[j] = out[j] /\ out'[k] = out[k]
        BY <2>1, <3>1 DEF OnceInv, NoRowTwice
      <3>2. CASE /\ j - Len(out) \in DOMAIN Page /\ k - Len(out) \in DOMAIN Page
                 /\ out'[j] = table[offset + (j - Len(out))]
                 /\ out'[k] = table[offset + (k - Len(out))]
                 /\ j \in Nat /\ k \in Nat
        <4>1. offset + (j - Len(out)) = offset + (k - Len(out))
          BY <1>1, <2>1, <3>2 DEF OnceInv, TableOK
        <4> QED BY <1>0, <3>2, <4>1
      <3> QED BY <1>3, <1>4, <2>1, <3>1, <3>2
    <2> QED BY <2>1 DEF NoRowTwice
  <1>6. TableOK'
    <2>1. \A j \in DOMAIN out' : out'[j] \in used BY <1>3 DEF OnceInv, TableOK
    <2> QED BY <1>0, <2>1 DEF OnceInv, TableOK
  <1>7. Behind'
    <2>1. CASE pc' = "paging"
      <3>1. offset' = offset + PageSize BY <2>1 DEF FetchPage
      <3>2. ASSUME NEW k \in DOMAIN table, NEW j \in DOMAIN out', table[k] = out'[j]
            PROVE  k <= offset + PageSize
        <4>1. CASE j \in DOMAIN out /\ out'[j] = out[j]
          <5>1. k <= offset /\ k \in Nat BY <1>0, <3>2, <4>1 DEF OnceInv, Behind
          <5> QED BY <1>0, <5>1
        <4>2. CASE /\ j - Len(out) \in DOMAIN Page
                   /\ offset + (j - Len(out)) \in DOMAIN table
                   /\ out'[j] = table[offset + (j - Len(out))]
          <5>1. k = offset + (j - Len(out)) BY <3>2, <4>2 DEF OnceInv, TableOK
          <5>2. j - Len(out) \in 1..Len(Page) BY <1>1, <4>2
          <5> QED BY <1>0, <1>1, <5>1, <5>2
        <4> QED BY <1>3, <4>1, <4>2
      <3> QED BY <1>0, <3>1, <3>2 DEF Behind
    <2>2. CASE pc' # "paging" BY <2>2 DEF Behind
    <2> QED BY <2>1, <2>2
  <1> QED BY <1>5, <1>6, <1>7

LEMMA OnceStep == ASSUME OnceInv, [Next]_vars PROVE OnceInv'
  <1>1. TypeOK' BY TypeStep DEF OnceInv
  <1>2. TableOK' /\ Behind' /\ NoRowTwice'
    <2>1. CASE Begin
      <3>1. DOMAIN out' = {} BY <2>1, EmptySeq DEF Begin
      <3> QED BY <2>1, <3>1 DEF Begin, OnceInv, TableOK, Behind, NoRowTwice
    <2>2. CASE FetchEmpty \/ FetchUnreadable \/ FetchNotFound \/ FetchFails
      BY <2>2 DEF FetchEmpty, FetchUnreadable, FetchNotFound, FetchFails, OnceInv, TableOK, Behind, NoRowTwice
    <2>3. CASE UNCHANGED vars
      BY <2>3 DEF vars, OnceInv, TableOK, Behind, NoRowTwice
    <2> QED BY <2>1, <2>2, <2>3, ChangeKeepsOnce, PageKeepsOnce DEF Next, Fetch
  <1> QED BY <1>1, <1>2 DEF OnceInv

\* No row is listed twice, whatever the owner removes between two pages.
THEOREM NoRowTwiceTheorem == Spec => []NoRowTwice
  <1>1. Init => OnceInv
    <2> SUFFICES ASSUME Init PROVE OnceInv OBVIOUS
    <2>1. DOMAIN table = {} /\ DOMAIN out = {} BY EmptySeq DEF Init
    <2> QED BY <2>1, TypeInit DEF OnceInv, TableOK, Behind, NoRowTwice
  <1>2. OnceInv /\ [Next]_vars => OnceInv' BY OnceStep
  <1>3. OnceInv => NoRowTwice BY DEF OnceInv
  <1> QED BY <1>1, <1>2, <1>3, PTL DEF Spec

-----------------------------------------------------------------------------
(* Whatever is removed: no more rows are skipped than were removed. *)

SkipInv == /\ TypeOK /\ TableOK /\ Behind /\ NoRowTwice
           /\ Gone /\ FewMissed /\ SkipsAtMostRemoved

\* The table is finite, and with it what is stable.
LEMMA StableFinite ==
    ASSUME SkipInv
    PROVE  IsFiniteSet(stable)
  <1>1. table \in [1..Len(table) -> RowIds] /\ Len(table) \in Nat BY DEF SkipInv, TypeOK
  <1>2. table \in Surjection(1..Len(table), ToSet(table)) BY <1>1 DEF Surjection, ToSet
  <1>3. IsFiniteSet(1..Len(table)) BY <1>1, FS_Interval
  <1>4. IsFiniteSet(ToSet(table)) BY <1>2, <1>3, FS_Surjection
  <1>5. stable \in SUBSET ToSet(table) BY DEF SkipInv, FewMissed
  <1> QED BY <1>4, <1>5, FS_Subset

\* A bound on a set of stable rows is a bound on its parts.
LEMMA SmallerPart ==
    ASSUME SkipInv, NEW A \in SUBSET stable, NEW B \in SUBSET A, NEW n \in Nat,
           Cardinality(A) <= n
    PROVE  Cardinality(B) <= n
  <1>1. IsFiniteSet(A) BY StableFinite, FS_Subset
  <1>2. IsFiniteSet(B) /\ Cardinality(B) <= Cardinality(A) BY <1>1, FS_Subset
  <1>3. Cardinality(A) \in Nat /\ Cardinality(B) \in Nat BY <1>1, <1>2, FS_CardinalityType
  <1> QED BY <1>2, <1>3

\* A change moves at most one row to the offset, and counts if it does.
LEMMA ChangeMissesFew ==
    ASSUME SkipInv, Change
    PROVE  FewMissed'
  <1>0. /\ table \in Seq(RowIds) /\ Len(table) \in Nat /\ offset \in Nat
        /\ removed \in Nat /\ Missed \in SUBSET stable
        /\ stable \subseteq ToSet(table)
        /\ pc = "paging" => Cardinality(Missed) <= removed
    BY DEF SkipInv, TypeOK, FewMissed, Missed
  <1>1. out' = out /\ pc' = pc /\ offset' = offset
    BY DEF Change, AppendRow, RemoveRow, DropTable
  <1>2. ASSUME NEW i \in RowIds, AppendRow(i) PROVE FewMissed'
    <2>1. /\ Len(table') = Len(table) + 1 /\ stable' = stable /\ removed' = removed
          /\ \A k \in 1..Len(table) : table'[k] = table[k]
          /\ table'[Len(table) + 1] = i /\ table' \in Seq(RowIds)
          /\ i \notin used
      BY <1>0, <1>2, AppendProperties DEF AppendRow
    <2>2. ToSet(table) \subseteq ToSet(table') BY <1>0, <2>1 DEF ToSet
    <2>3. i \notin stable BY <1>0, <2>1 DEF ToSet, SkipInv, TableOK
    <2>4. Missed' \subseteq Missed
      <3>1. ASSUME NEW j \in stable, NEW k \in DOMAIN table', table'[k] = j
            PROVE  k \in DOMAIN table /\ table[k] = j
        BY <1>0, <2>1, <2>3, <3>1
      <3> QED BY <1>1, <2>1, <3>1 DEF Missed
    <2> QED BY <1>0, <1>1, <2>1, <2>2, <2>4, SmallerPart DEF FewMissed
  <1>3. ASSUME NEW n \in DOMAIN table, RemoveRow(n) PROVE FewMissed'
    <2>1. /\ table' \in Seq(RowIds) /\ Len(table') = Len(table) - 1
          /\ \A k \in 1..(Len(table) - 1) : table'[k] = IF k < n THEN table[k] ELSE table[k + 1]
          /\ stable' = stable \ {table[n]}
      BY <1>0, <1>3, RemoveAtProperties DEF RemoveRow
    <2>2. stable' \subseteq ToSet(table')
      <3>1. ASSUME NEW j \in stable' PROVE j \in ToSet(table')
        <4>1. PICK k \in DOMAIN table : table[k] = j BY <1>0, <2>1, <3>1 DEF ToSet
        <4>2. k # n BY <2>1, <3>1, <4>1
        <4>3. CASE k < n
          <5>1. k \in DOMAIN table' /\ table'[k] = j BY <1>0, <1>3, <2>1, <4>1, <4>3
          <5> QED BY <5>1 DEF ToSet
        <4>4. CASE k > n
          <5>1. k - 1 \in DOMAIN table' /\ table'[k - 1] = j
            BY <1>0, <1>3, <2>1, <4>1, <4>4
          <5> QED BY <5>1 DEF ToSet
        <4>5. k \in Nat /\ n \in Nat BY <1>0, <1>3
        <4> QED BY <4>2, <4>3, <4>4, <4>5
      <3> QED BY <3>1
    <2>3. ASSUME pc = "paging" PROVE Cardinality(Missed') <= removed'
      <3>1. removed' = removed + 1 BY <1>3, <2>3 DEF RemoveRow, Removed
      <3>2. Missed' \subseteq Missed \cup {table[offset + 1]}
        <4>1. ASSUME NEW k \in DOMAIN table', k <= offset
              PROVE  \/ k \in DOMAIN table /\ table'[k] = table[k]
                     \/ k + 1 \in DOMAIN table /\ k + 1 <= offset /\ table'[k] = table[k + 1]
                     \/ table'[k] = table[offset + 1]
          <5>1. k \in 1..(Len(table) - 1) BY <1>0, <2>1, <4>1
          <5>2. table'[k] = IF k < n THEN table[k] ELSE table[k + 1] BY <2>1, <5>1
          <5>3. k = offset \/ k + 1 <= offset BY <1>0, <4>1, <5>1
          <5> QED BY <1>0, <5>1, <5>2, <5>3
        <4> QED BY <1>0, <1>1, <2>1, <4>1 DEF Missed
      <3>3. IsFiniteSet(Missed) BY <1>0, StableFinite, FS_Subset
      <3>4. /\ IsFiniteSet(Missed \cup {table[offset + 1]})
            /\ Cardinality(Missed \cup {table[offset + 1]}) <= Cardinality(Missed) + 1
            /\ Cardinality(Missed) \in Nat
        <4>1. Cardinality(Missed) \in Nat BY <3>3, FS_CardinalityType
        <4>2. /\ IsFiniteSet(Missed \cup {table[offset + 1]})
              /\ \/ Cardinality(Missed \cup {table[offset + 1]}) = Cardinality(Missed)
                 \/ Cardinality(Missed \cup {table[offset + 1]}) = Cardinality(Missed) + 1
          BY <3>3, FS_AddElement
        <4> QED BY <4>1, <4>2
      <3>5. /\ Cardinality(Missed') <= Cardinality(Missed \cup {table[offset + 1]})
            /\ IsFiniteSet(Missed')
        BY <3>2, <3>4, FS_Subset
      <3>6. /\ Cardinality(Missed') \in Nat
            /\ Cardinality(Missed \cup {table[offset + 1]}) \in Nat
        BY <3>4, <3>5, FS_CardinalityType
      <3> QED BY <1>0, <2>3, <3>1, <3>4, <3>5, <3>6
    <2> QED BY <1>1, <2>2, <2>3 DEF FewMissed
  <1>4. CASE DropTable
    <2>1. stable' = {} /\ removed' \in Nat BY <1>0, <1>4 DEF DropTable, Removed
    <2>2. Missed' = {} BY <2>1 DEF Missed
    <2> QED BY <2>1, <2>2, FS_EmptySet DEF FewMissed
  <1> QED BY <1>2, <1>3, <1>4 DEF Change

\* After a page, what is missed at or before the new offset was missed before.
LEMMA PageMissesNone ==
    ASSUME SkipInv, FetchPage
    PROVE  /\ pc' = "paging" => Missed' \subseteq Missed
           /\ pc' = "done" => stable' \ ToSet(out') \subseteq Missed
  <1>0. /\ table \in Seq(RowIds) /\ Len(table) \in Nat /\ offset \in Nat
        /\ out \in Seq(RowIds) /\ Len(out) \in Nat /\ PageSize \in Nat \ {0}
        /\ table' = table /\ stable' = stable
        /\ stable \subseteq ToSet(table)
    BY PagingAssumption DEF SkipInv, TypeOK, FewMissed, FetchPage
  <1>1. /\ Page \in Seq(RowIds) /\ Len(Page) \in Nat
        /\ Len(Page) = IF HasMore THEN PageSize
                       ELSE IF offset < Len(table) THEN Len(table) - offset ELSE 0
        /\ \A k \in DOMAIN Page : Page[k] = table[offset + k]
    BY <1>0, PageProperties
  <1>2. /\ out' \in Seq(RowIds) /\ Len(out') = Len(out) + Len(Page)
        /\ \A j \in 1..(Len(out) + Len(Page)) :
              out'[j] = IF j <= Len(out) THEN out[j] ELSE Page[j - Len(out)]
    BY <1>0, <1>1, ConcatProperties DEF FetchPage
  <1>3. ToSet(out) \subseteq ToSet(out')
    <2>1. ASSUME NEW j \in DOMAIN out PROVE j \in DOMAIN out' /\ out'[j] = out[j]
      <3>1. j \in 1..Len(out) BY <1>0, <2>1
      <3>2. j \in 1..(Len(out) + Len(Page)) /\ j <= Len(out) BY <1>0, <1>1, <3>1
      <3>3. DOMAIN out' = 1..(Len(out) + Len(Page)) BY <1>2
      <3> QED BY <1>2, <3>2, <3>3
    <2>2. ASSUME NEW i \in ToSet(out) PROVE i \in ToSet(out')
      <3>1. PICK j \in DOMAIN out : out[j] = i BY <2>2 DEF ToSet
      <3> QED BY <2>1, <3>1 DEF ToSet
    <2> QED BY <2>2
  <1>4. ASSUME NEW k \in DOMAIN table, k > offset, HasMore => k <= offset + PageSize
        PROVE  table[k] \in ToSet(out')
    <2>1. k - offset \in 1..Len(Page) BY <1>0, <1>1, <1>4
    <2>2. Page[k - offset] = table[k] BY <1>0, <1>1, <1>4, <2>1
    <2>3. /\ Len(out) + (k - offset) \in 1..(Len(out) + Len(Page))
          /\ Len(out) + (k - offset) > Len(out)
          /\ (Len(out) + (k - offset)) - Len(out) = k - offset
      BY <1>0, <1>1, <1>4, <2>1
    <2>4. out'[Len(out) + (k - offset)] = table[k] BY <1>0, <1>2, <2>2, <2>3
    <2>5. Len(out) + (k - offset) \in DOMAIN out' BY <1>2, <2>3
    <2> QED BY <2>4, <2>5 DEF ToSet
  <1>5. ASSUME NEW i \in stable, i \notin ToSet(out'), NEW k \in DOMAIN table, table[k] = i,
               HasMore => k <= offset + PageSize
        PROVE  i \in Missed
    <2>1. k \in Nat /\ ~(k > offset) BY <1>0, <1>4, <1>5
    <2>2. k <= offset BY <1>0, <2>1
    <2> QED BY <1>3, <1>5, <2>2 DEF Missed
  <1>6. ASSUME pc' = "paging" PROVE Missed' \subseteq Missed
    <2>1. offset' = offset + PageSize BY <1>6 DEF FetchPage
    <2> QED BY <1>0, <1>5, <2>1 DEF Missed
  <1>7. ASSUME pc' = "done" PROVE stable' \ ToSet(out') \subseteq Missed
    <2>1. ~HasMore BY <1>7 DEF FetchPage
    <2>2. ASSUME NEW i \in stable PROVE \E k \in DOMAIN table : table[k] = i
      BY <1>0, <2>2 DEF ToSet
    <2> QED BY <1>0, <1>5, <2>1, <2>2
  <1> QED BY <1>6, <1>7

\* An empty page lies behind the table.
LEMMA EmptyMissesNone ==
    ASSUME SkipInv, FetchEmpty \/ FetchNotFound
    PROVE  stable' \ ToSet(out') \subseteq Missed
  <1>0. /\ table \in Seq(RowIds) /\ Len(table) \in Nat /\ offset \in Nat
        /\ PageSize \in Nat \ {0} /\ stable' = stable /\ out' = out
        /\ stable \subseteq ToSet(table)
    BY PagingAssumption DEF SkipInv, TypeOK, FewMissed, FetchEmpty, FetchNotFound
  <1>1. CASE FetchEmpty
    <2>1. Len(Page) = 0 BY <1>1, EmptySeq DEF FetchEmpty
    <2>2. offset >= Len(table) BY <1>0, <2>1, PageProperties
    <2>3. ASSUME NEW i \in stable PROVE \E k \in DOMAIN table : k <= offset /\ table[k] = i
      BY <1>0, <2>2 DEF ToSet
    <2> QED BY <1>0, <2>3 DEF Missed
  <1>2. CASE FetchNotFound
    <2>1. table = <<>> BY <1>2 DEF FetchNotFound, SkipInv, Gone
    <2>2. stable = {} BY <1>0, <2>1, EmptySeq DEF ToSet
    <2> QED BY <1>0, <2>2
  <1> QED BY <1>1, <1>2

LEMMA SkipStep == ASSUME SkipInv, [Next]_vars PROVE SkipInv'
  <1>0. /\ removed \in Nat /\ Missed \in SUBSET stable
        /\ pc = "paging" => Cardinality(Missed) <= removed
        /\ pc = "done" /\ ~cut => Cardinality(stable \ ToSet(out)) <= removed
    BY DEF SkipInv, TypeOK, FewMissed, Missed, SkipsAtMostRemoved
  <1>1. TypeOK' BY TypeStep DEF SkipInv
  <1>2. Gone'
    <2>1. ASSUME NEW k \in DOMAIN table, ~exists PROVE FALSE
      BY <2>1, EmptySeq DEF SkipInv, Gone
    <2> QED BY <2>1 DEF SkipInv, Gone, Next, Change, Fetch, AppendRow, RemoveRow, DropTable,
          Begin, FetchPage, FetchEmpty, FetchUnreadable, FetchNotFound, FetchFails, vars
  <1>2a. TableOK' /\ Behind' /\ NoRowTwice' BY OnceStep DEF SkipInv, OnceInv
  <1>3. CASE Change
    <2>1. FewMissed' BY <1>3, ChangeMissesFew
    <2>2. out' = out /\ pc' = pc /\ cut' = cut /\ stable' \subseteq stable
          /\ (pc = "done" => removed' = removed)
      BY <1>3 DEF Change, AppendRow, RemoveRow, DropTable, Removed
    <2>3. SkipsAtMostRemoved'
      <3>1. SUFFICES ASSUME pc = "done", ~cut
                     PROVE  Cardinality(stable' \ ToSet(out)) <= removed
        BY <2>2 DEF SkipsAtMostRemoved
      <3>2. stable' \ ToSet(out) \in SUBSET (stable \ ToSet(out)) BY <2>2
      <3> QED BY <1>0, <3>1, <3>2, SmallerPart
    <2> QED BY <1>1, <1>2, <2>1, <2>3, <1>2a DEF SkipInv
  <1>4. CASE Begin
    <2>1. /\ stable' = ToSet(table) /\ table' = table /\ offset' = 0 /\ removed' = 0
          /\ pc' = "paging" /\ table \in Seq(RowIds)
      BY <1>4 DEF Begin, SkipInv, TypeOK
    <2>2. Missed' = {}
      <3>1. \A k \in DOMAIN table : ~(k <= 0) BY <2>1
      <3> QED BY <2>1, <3>1 DEF Missed
    <2>3. FewMissed' BY <2>1, <2>2, FS_EmptySet DEF FewMissed
    <2>4. SkipsAtMostRemoved' BY <2>1 DEF SkipsAtMostRemoved
    <2> QED BY <1>1, <1>2, <2>3, <2>4, <1>2a DEF SkipInv
  <1>5. CASE FetchPage
    <2>1. /\ table' = table /\ stable' = stable /\ removed' = removed /\ pc = "paging"
          /\ pc' \in {"paging", "done"}
      BY <1>5 DEF FetchPage
    <2>2. FewMissed'
      BY <1>0, <1>5, <2>1, PageMissesNone, SmallerPart DEF FewMissed, SkipInv
    <2>3. SkipsAtMostRemoved'
      BY <1>0, <1>5, <2>1, PageMissesNone, SmallerPart DEF SkipsAtMostRemoved
    <2> QED BY <1>1, <1>2, <2>2, <2>3, <1>2a DEF SkipInv
  <1>6. CASE FetchEmpty \/ FetchNotFound
    <2>1. /\ table' = table /\ stable' = stable /\ removed' = removed /\ pc = "paging"
          /\ pc' = "done"
      BY <1>6 DEF FetchEmpty, FetchNotFound
    <2>2. FewMissed' BY <2>1 DEF FewMissed, SkipInv
    <2>3. SkipsAtMostRemoved'
      BY <1>0, <1>6, <2>1, EmptyMissesNone, SmallerPart DEF SkipsAtMostRemoved
    <2> QED BY <1>1, <1>2, <2>2, <2>3, <1>2a DEF SkipInv
  <1>7. CASE FetchUnreadable \/ FetchFails
    <2>1. FewMissed' /\ SkipsAtMostRemoved'
      BY <1>7 DEF FetchUnreadable, FetchFails, FewMissed, SkipsAtMostRemoved, SkipInv
    <2> QED BY <1>1, <1>2, <2>1, <1>2a DEF SkipInv
  <1>8. CASE UNCHANGED vars
    BY <1>1, <1>2, <1>8, <1>2a DEF SkipInv, vars, FewMissed, Missed, SkipsAtMostRemoved
  <1> QED BY <1>3, <1>4, <1>5, <1>6, <1>7, <1>8 DEF Next, Fetch

LEMMA SkipInit == ASSUME Init PROVE SkipInv
  <1>1. DOMAIN table = {} /\ DOMAIN out = {} BY EmptySeq DEF Init
  <1>2. TypeOK /\ stable = {} /\ pc = "idle" BY TypeInit DEF Init
  <1> QED BY <1>1, <1>2
        DEF Init, SkipInv, TableOK, Behind, NoRowTwice, Gone, FewMissed, SkipsAtMostRemoved

\* Of the rows that are there during the whole listing, list_records skips at
\* most one for each removal, for every page size and every set of rows.
THEOREM SkipsAtMostRemovedTheorem == Spec => []SkipsAtMostRemoved
  <1>1. Init => SkipInv BY SkipInit
  <1>2. SkipInv /\ [Next]_vars => SkipInv' BY SkipStep
  <1>3. SkipInv => SkipsAtMostRemoved BY DEF SkipInv
  <1> QED BY <1>1, <1>2, <1>3, PTL DEF Spec

-----------------------------------------------------------------------------
(* What a full sync loses to a listing that is no snapshot. *)

\* What a listing skips is bounded throughout, and an import has a listing.
SyncInv == SkipInv /\ (sync = "import" => pc = "done")

\* Each step of the composition is one of the listing or leaves it alone.
LEMMA StepOfListing ==
    ASSUME [NextS]_varsS
    PROVE  [Next]_vars
  BY DEF NextS, varsS, SyncStart, SyncFetch, Import, Add, Delete, OwnerChange, Next, Change

LEMMA SyncStep ==
    ASSUME SyncInv, [NextS]_varsS
    PROVE  SyncInv'
  <1>1. SkipInv' BY StepOfListing, SkipStep DEF SyncInv
  <1>2. (sync = "import" => pc = "done")'
    <2>1. CASE SyncStart BY <2>1 DEF SyncStart
    <2>2. CASE SyncFetch BY <2>2 DEF SyncFetch, After
    <2>3. CASE Import BY <2>3 DEF Import
    <2>4. ASSUME Change, UNCHANGED sync PROVE (sync = "import" => pc = "done")'
      BY <2>4 DEF SyncInv, Change, AppendRow, RemoveRow, DropTable
    <2>5. CASE UNCHANGED varsS BY <2>5 DEF varsS, vars, SyncInv
    <2>6. ASSUME NEW i \in RowIds, Add(i) PROVE Change /\ UNCHANGED sync
      BY <2>6 DEF Add, Change
    <2>7. ASSUME NEW k \in DOMAIN table, Delete(k) PROVE Change /\ UNCHANGED sync
      BY <2>7 DEF Delete, Change
    <2>8. CASE OwnerChange BY <2>4, <2>8 DEF OwnerChange
    <2> QED BY <2>1, <2>2, <2>3, <2>4, <2>5, <2>6, <2>7, <2>8 DEF NextS
  <1> QED BY <1>1, <1>2 DEF SyncInv

\* What the import takes out of the cache although Feishu has had it since the
\* listing began is what the listing skipped.
LEMMA ImportLosesFew ==
    ASSUME SyncInv, Import, ~cut
    PROVE  Cardinality((cache \ cache') \cap stable) <= removed
  <1>1. SkipInv /\ removed \in Nat /\ cache' = ToSet(out)
    BY DEF SyncInv, SkipInv, TypeOK, Import
  <1>2. Cardinality(stable \ ToSet(out)) <= removed
    BY DEF SyncInv, SkipInv, SkipsAtMostRemoved, Import
  <1>3. (cache \ cache') \cap stable \in SUBSET (stable \ ToSet(out)) BY <1>1
  <1>4. stable \ ToSet(out) \in SUBSET stable OBVIOUS
  <1> QED BY <1>1, <1>2, <1>3, <1>4, SmallerPart

\* A full sync whose answers had their rows takes at most one record that is
\* still in Feishu out of the cache for each row removed between its pages.
THEOREM LosesAtMostRemovedTheorem == SpecS => LosesAtMostRemoved
  <1>1. InitS => SyncInv BY SkipInit DEF InitS, SyncInv
  <1>2. SyncInv /\ [NextS]_varsS => SyncInv' BY SyncStep
  <1>3. SyncInv /\ [NextS]_varsS
          => [Import /\ ~cut => Cardinality((cache \ cache') \cap stable) <= removed]_varsS
    BY ImportLosesFew
  <1> QED BY <1>1, <1>2, <1>3, PTL DEF SpecS, LosesAtMostRemoved
=============================================================================
