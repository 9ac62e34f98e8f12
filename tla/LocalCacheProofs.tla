-------------------------- MODULE LocalCacheProofs --------------------------
(* For every number of processes and records: search finds every record,    *)
(* tags have owners, towards readers every call of the cache is atomic, and *)
(* an upsert that no other process disturbs repairs the tags of its record. *)
EXTENDS LocalCacheHistory, TLAPS

-----------------------------------------------------------------------------
(* Type correctness, together with CallsOK: a statement uses the locals that*)
(* its stage promises.                                                        *)

TypeInv == TypeOK /\ CallsOK

LEMMA TypeInit == ASSUME Init PROVE TypeInv
  BY DEF Init, Stages, TypeInv, TypeOK, CallsOK, CallOK

\* What the state of a call and a record are made of.
LEMMA Parts ==
    ASSUME TypeInv
    PROVE  /\ \A i \in Ids : rows[i] # None =>
                 /\ rows[i] \in Rows /\ rows[i].row \in 1..MaxRow
                 /\ rows[i].text \in Texts /\ rows[i].tags \in SUBSET Tags
           /\ \A w \in Writers : pc[w] # "idle" =>
                 /\ loc[w] \in Call /\ loc[w].id \in Ids /\ loc[w].todo \in SUBSET Tags
           /\ \A w \in Writers :
                 pc[w] \in {"meta_untag", "meta_tag", "replace", "untag", "tag"} =>
                    loc[w].rec \in Recs /\ loc[w].rec.text \in Texts
                                        /\ loc[w].rec.tags \in SUBSET Tags
  <1>1. ASSUME NEW i \in Ids, rows[i] # None
        PROVE  /\ rows[i] \in Rows /\ rows[i].row \in 1..MaxRow
               /\ rows[i].text \in Texts /\ rows[i].tags \in SUBSET Tags
    BY <1>1 DEF TypeInv, TypeOK, Rows
  <1>2. ASSUME NEW w \in Writers, pc[w] # "idle"
        PROVE  /\ loc[w] \in Call /\ loc[w].id \in Ids /\ loc[w].todo \in SUBSET Tags
               /\ loc[w].rec \in Recs \cup {None}
    BY <1>2 DEF TypeInv, TypeOK, CallsOK, CallOK, Call
  <1>3. ASSUME NEW w \in Writers,
               pc[w] \in {"meta_untag", "meta_tag", "replace", "untag", "tag"}
        PROVE  loc[w].rec \in Recs /\ loc[w].rec.text \in Texts
                                   /\ loc[w].rec.tags \in SUBSET Tags
    BY <1>2, <1>3 DEF TypeInv, CallsOK, CallOK, Recs
  <1> QED BY <1>1, <1>2, <1>3

\* A call that starts disturbs no table and sets the locals of its stage.
LEMMA TypeStart ==
    ASSUME TypeInv, NEW w \in Writers, NEW i \in Ids, NEW stage \in Stages,
           NEW rec \in Recs \cup {None}, Start(w, stage, i, rec),
           stage \in {"meta_untag", "replace"} => rec \in Recs,
           stage \in {"meta_untag", "replace", "delete", "clear"}
    PROVE  TypeInv'
  <1> DEFINE call == [id |-> i, rec |-> rec, todo |-> {}]
  <1>1. call \in Call /\ call # None /\ call.rec = rec BY CacheAssumption DEF Call
  <1>2. loc' = [loc EXCEPT ![w] = call] /\ pc' = [pc EXCEPT ![w] = stage] BY DEF Start, Goto
  <1> HIDE DEF call
  <1>3. TypeOK' BY <1>1, <1>2 DEF Start, TypeInv, TypeOK
  <1>4. CallsOK' BY <1>1, <1>2, CacheAssumption DEF TypeInv, TypeOK, CallsOK, CallOK
  <1> QED BY <1>3, <1>4 DEF TypeInv

\* A call that ends leaves the tables as the statement left them.
LEMMA TypeFinish ==
    ASSUME TypeInv, NEW w \in Writers, Finish(w), rows' \in [Ids -> Rows \cup {None}],
           tagged' \in SUBSET (Ids \X Tags), fts' \in SUBSET ((1..MaxRow) \X Texts)
    PROVE  TypeInv'
  <1>1. TypeOK' BY DEF Finish, Goto, Stages, TypeInv, TypeOK
  <1>2. CallsOK' BY DEF Finish, Goto, TypeInv, TypeOK, CallsOK, CallOK
  <1> QED BY <1>1, <1>2 DEF TypeInv

\* A statement within a call goes to a stage that needs no more of the locals.
LEMMA TypeGoto ==
    ASSUME TypeInv, NEW w \in Writers, NEW stage \in Stages, Goto(w, stage),
           pc[w] # "idle",
           stage \in {"meta_untag", "meta_tag", "replace", "untag", "tag"} =>
              pc[w] \in {"meta_untag", "meta_tag", "replace", "untag", "tag"},
           NEW todo \in SUBSET Tags,
           loc' = loc \/ loc' = [loc EXCEPT ![w].todo = todo],
           rows' \in [Ids -> Rows \cup {None}],
           tagged' \in SUBSET (Ids \X Tags), fts' \in SUBSET ((1..MaxRow) \X Texts)
    PROVE  TypeInv'
  <1>1. loc[w] \in Call BY Parts
  <1>2. CASE loc' = [loc EXCEPT ![w].todo = todo]
    <2>1. /\ [loc[w] EXCEPT !.todo = todo] \in Call
          /\ [loc[w] EXCEPT !.todo = todo].rec = loc[w].rec
      BY <1>1 DEF Call
    <2>2. loc' = [loc EXCEPT ![w] = [loc[w] EXCEPT !.todo = todo]] BY <1>2
    <2>3. loc' \in [Writers -> Call \cup {None}] /\ loc'[w] # None
          /\ loc'[w].rec = loc[w].rec /\ \A v \in Writers : v # w => loc'[v] = loc[v]
      BY <2>1, <2>2, CacheAssumption DEF TypeInv, TypeOK
    <2>4. TypeOK' BY <2>3 DEF Goto, TypeInv, TypeOK
    <2>5. CallsOK' BY <2>3 DEF Goto, TypeInv, TypeOK, CallsOK, CallOK
    <2> QED BY <2>4, <2>5 DEF TypeInv
  <1>3. CASE loc' = loc
    <2>1. TypeOK' BY <1>3 DEF Goto, TypeInv, TypeOK
    <2>2. CallsOK' BY <1>3 DEF Goto, TypeInv, TypeOK, CallsOK, CallOK
    <2> QED BY <2>1, <2>2 DEF TypeInv
  <1> QED BY <1>2, <1>3

\* The derived tables shrink with a deletion and grow by what is inserted.
LEMMA TypeDerived ==
    ASSUME TypeInv, NEW i \in Ids
    PROVE  /\ AfterDelete(i) \in SUBSET ((1..MaxRow) \X Texts)
           /\ TagsWithout(i) \in SUBSET (Ids \X Tags)
           /\ \A r \in 1..MaxRow, x \in Texts :
                 AfterInsert(i, r, x) \in SUBSET ((1..MaxRow) \X Texts)
  BY DEF TypeInv, TypeOK, AfterDelete, AfterInsert, TagsWithout

\* The row that an upsert writes.
RowFor(w, r) == [row |-> r, text |-> loc[w].rec.text, tags |-> loc[w].rec.tags]

LEMMA ReplaceWrites ==
    ASSUME TypeInv, NEW w \in Writers, Replace(w)
    PROVE  /\ loc[w].id \in Ids /\ loc[w].rec \in Recs
           /\ \E r \in 1..MaxRow :
                 /\ RowFor(w, r) \in Rows /\ RowFor(w, r).row = r
                 /\ RowFor(w, r).text = loc[w].rec.text
                 /\ RowFor(w, r).tags = loc[w].rec.tags
                 /\ NextRow(r)
                 /\ rows' = [rows EXCEPT ![loc[w].id] = RowFor(w, r)]
                 /\ fts' = AfterInsert(loc[w].id, r, loc[w].rec.text)
           /\ tagged' = TagsWithout(loc[w].id)
  <1>1. pc[w] = "replace" BY DEF Replace
  <1>2. /\ loc[w].id \in Ids /\ loc[w].rec \in Recs
        /\ loc[w].rec.text \in Texts /\ loc[w].rec.tags \in SUBSET Tags
    BY <1>1, Parts
  <1>3. PICK r \in 1..MaxRow :
           /\ NextRow(r)
           /\ rows' = [rows EXCEPT ![loc[w].id] = RowFor(w, r)]
           /\ fts' = AfterInsert(loc[w].id, r, loc[w].rec.text)
    BY DEF Replace, RowFor
  <1>4. RowFor(w, r) \in Rows /\ RowFor(w, r).row = r
        /\ RowFor(w, r).text = loc[w].rec.text /\ RowFor(w, r).tags = loc[w].rec.tags
    BY <1>2 DEF RowFor, Rows
  <1>5. tagged' = TagsWithout(loc[w].id) BY DEF Replace
  <1> QED BY <1>2, <1>3, <1>4, <1>5

\* TypeInv is inductive.
LEMMA TypeStep ==
    ASSUME TypeInv, [Next]_vars
    PROVE  TypeInv'
  <1>0. /\ rows \in [Ids -> Rows \cup {None}] /\ tagged \in SUBSET (Ids \X Tags)
        /\ fts \in SUBSET ((1..MaxRow) \X Texts)
        /\ {} \in SUBSET Tags
    BY DEF TypeInv, TypeOK
  <1>1. ASSUME NEW w \in Writers, Begin(w) PROVE TypeInv'
    <2>1. PICK i \in Ids :
             \/ \E rec \in Recs : UpsertStart(w, i, rec)
             \/ \E text \in Texts, tags \in (SUBSET Tags) \cup {None} :
                   UpdateStart(w, i, text, tags)
             \/ DeleteStart(w, i) \/ ClearStart(w, i)
      BY <1>1 DEF Begin
    <2>2. ASSUME NEW rec \in Recs, UpsertStart(w, i, rec) PROVE TypeInv'
      BY <2>2, TypeStart DEF UpsertStart, Stages
    <2>3. ASSUME NEW text \in Texts, NEW tags \in (SUBSET Tags) \cup {None},
                 UpdateStart(w, i, text, tags)
          PROVE  TypeInv'
      <3> DEFINE rec == [text |-> text, tags |-> IF tags = None THEN rows[i].tags ELSE tags]
      <3>1. rows[i].tags \in SUBSET Tags BY <2>3, Parts DEF UpdateStart
      <3>2. rec \in Recs BY <3>1 DEF Recs
      <3>3. PICK stage \in {"meta_untag", "replace"} : Start(w, stage, i, rec)
        BY <2>3 DEF UpdateStart
      <3> HIDE DEF rec
      <3> QED BY <3>2, <3>3, TypeStart DEF Stages
    <2>4. CASE DeleteStart(w, i) BY <2>4, TypeStart DEF DeleteStart, Stages
    <2>5. CASE ClearStart(w, i) BY <2>5, TypeStart DEF ClearStart, Stages
    <2> QED BY <2>1, <2>2, <2>3, <2>4, <2>5
  <1>2. ASSUME NEW w \in Writers, Upsert(w) PROVE TypeInv'
    <2>1. CASE Replace(w)
      <3>1. /\ pc[w] = "replace" /\ Goto(w, "untag") /\ loc' = loc /\ "untag" \in Stages
        BY <2>1 DEF Replace, Stages
      <3>2. PICK r \in 1..MaxRow :
               /\ loc[w].id \in Ids /\ loc[w].rec.text \in Texts /\ RowFor(w, r) \in Rows
               /\ rows' = [rows EXCEPT ![loc[w].id] = RowFor(w, r)]
               /\ fts' = AfterInsert(loc[w].id, r, loc[w].rec.text)
               /\ tagged' = TagsWithout(loc[w].id)
        BY <2>1, <3>1, ReplaceWrites, Parts
      <3>3. /\ rows' \in [Ids -> Rows \cup {None}] /\ tagged' \in SUBSET (Ids \X Tags)
            /\ fts' \in SUBSET ((1..MaxRow) \X Texts)
        BY <1>0, <3>2, TypeDerived
      <3> QED BY <1>0, <3>1, <3>3, TypeGoto
    <2>2. CASE Untag(w)
      <3>1. PICK stage \in {"tag", "meta_tag"} :
               /\ pc[w] \in {"meta_untag", "untag"} /\ Goto(w, stage) /\ stage \in Stages
        BY <2>2 DEF Untag, Stages
      <3>2. /\ loc[w].id \in Ids /\ loc[w].rec.tags \in SUBSET Tags
            /\ loc' = [loc EXCEPT ![w].todo = loc[w].rec.tags]
            /\ rows' = rows /\ fts' = fts /\ tagged' = TagsWithout(loc[w].id)
        BY <2>2, <3>1, Parts DEF Untag
      <3>3. tagged' \in SUBSET (Ids \X Tags) BY <3>2, TypeDerived
      <3> QED BY <1>0, <3>1, <3>2, <3>3, TypeGoto
    <2>3. ASSUME NEW t \in Tags, Tag(w, t) PROVE TypeInv'
      <3>1. pc[w] \in {"meta_tag", "tag"} BY <2>3 DEF Tag
      <3>2. /\ loc[w].id \in Ids /\ loc[w].todo \ {t} \in SUBSET Tags
            /\ loc' = [loc EXCEPT ![w].todo = loc[w].todo \ {t}]
            /\ rows' = rows /\ fts' = fts /\ tagged' = tagged \cup {<<loc[w].id, t>>}
            /\ Goto(w, pc[w])
            /\ pc[w] \in Stages
        BY <2>3, <3>1, Parts DEF Tag, Goto, TypeInv, TypeOK
      <3>3. tagged' \in SUBSET (Ids \X Tags) BY <1>0, <3>2
      <3> QED BY <1>0, <3>1, <3>2, <3>3, TypeGoto
    <2>4. CASE TagRaises(w) \/ UpsertDone(w)
      BY <1>0, <2>4, TypeFinish DEF TagRaises, UpsertDone
    <2>5. CASE MetaTagged(w)
      <3>1. /\ pc[w] = "meta_tag" /\ Goto(w, "replace") /\ "replace" \in Stages /\ loc' = loc
            /\ rows' = rows /\ fts' = fts /\ tagged' = tagged
        BY <2>5 DEF MetaTagged, Stages
      <3> QED BY <1>0, <3>1, TypeGoto
    <2> QED BY <1>2, <2>1, <2>2, <2>3, <2>4, <2>5 DEF Upsert
  <1>3. ASSUME NEW w \in Writers, Remove(w) PROVE TypeInv'
    <2>1. CASE DeleteRow(w)
      <3>1. /\ pc[w] = "delete" /\ Goto(w, "del_tags") /\ "del_tags" \in Stages /\ loc' = loc
            /\ loc[w].id \in Ids
        BY <2>1, Parts DEF DeleteRow, Stages
      <3>2. /\ rows' \in [Ids -> Rows \cup {None}] /\ tagged' \in SUBSET (Ids \X Tags)
            /\ fts' \in SUBSET ((1..MaxRow) \X Texts)
        BY <1>0, <2>1, <3>1, TypeDerived DEF DeleteRow
      <3> QED BY <1>0, <3>1, <3>2, TypeGoto
    <2>2. CASE DeleteTags(w)
      <3>1. loc[w].id \in Ids BY <2>2, Parts DEF DeleteTags
      <3> QED BY <1>0, <2>2, <3>1, TypeDerived, TypeFinish DEF DeleteTags
    <2>3. CASE ClearRows(w)
      <3>1. /\ pc[w] = "clear" /\ Goto(w, "clear_tags") /\ "clear_tags" \in Stages /\ loc' = loc
            /\ rows' \in [Ids -> Rows \cup {None}] /\ tagged' \in SUBSET (Ids \X Tags)
            /\ fts' \in SUBSET ((1..MaxRow) \X Texts)
        BY <1>0, <2>3 DEF ClearRows, Stages
      <3> QED BY <1>0, <3>1, TypeGoto
    <2>4. CASE ClearTags(w) BY <1>0, <2>4, TypeFinish DEF ClearTags
    <2> QED BY <1>3, <2>1, <2>2, <2>3, <2>4 DEF Remove
  <1>4. ASSUME NEW w \in Writers, Crash(w) PROVE TypeInv'
    BY <1>0, <1>4, TypeFinish DEF Crash
  <1>5. CASE UNCHANGED vars
    BY <1>5 DEF vars, TypeInv, TypeOK, CallsOK, CallOK
  <1> QED BY <1>1, <1>2, <1>3, <1>4, <1>5 DEF Next

\* Whatever the processes do and where they die, the tables and the calls in
\* progress have the types of TypeOK and the locals that CallsOK states.
THEOREM TypeSafety == Spec => []TypeInv
  BY TypeInit, TypeStep, PTL DEF Spec

-----------------------------------------------------------------------------
(* The full-text index. *)

FindInv == TypeInv /\ RowsUnique /\ Findable

\* These statements alone write records and its index.
LEMMA RowsStep ==
    ASSUME [Next]_vars
    PROVE  \/ UNCHANGED <<rows, fts>>
           \/ \E w \in Writers : Replace(w) \/ DeleteRow(w) \/ ClearRows(w)
  BY DEF vars, Next, Begin, UpsertStart, UpdateStart, DeleteStart, ClearStart, Start,
         Upsert, Remove, Untag, Tag, TagRaises, UpsertDone, MetaTagged, DeleteTags,
         ClearTags, Crash

LEMMA FindStep ==
    ASSUME FindInv, [Next]_vars
    PROVE  (RowsUnique /\ Findable)'
  <1>0. /\ TypeInv
        /\ \A i \in Present : i \in Ids /\ rows[i] # None /\ <<rows[i].row, rows[i].text>> \in fts
        /\ \A i, j \in Present : rows[i].row = rows[j].row => i = j
    BY DEF FindInv, RowsUnique, Findable, Search, Present
  <1>1. ASSUME NEW w \in Writers, Replace(w) PROVE (RowsUnique /\ Findable)'
    <2> DEFINE i == loc[w].id
    <2>1. PICK r \in 1..MaxRow :
             /\ i \in Ids
             /\ RowFor(w, r) \in Rows /\ RowFor(w, r).row = r
             /\ RowFor(w, r).text = loc[w].rec.text
             /\ NextRow(r)
             /\ rows' = [rows EXCEPT ![i] = RowFor(w, r)]
             /\ fts' = AfterInsert(i, r, loc[w].rec.text)
      BY <1>0, <1>1, ReplaceWrites
    <2> HIDE DEF i
    <2>2. /\ rows'[i] = RowFor(w, r) /\ \A j \in Ids : j # i => rows'[j] = rows[j]
          /\ rows'[i] # None
      BY <1>0, <2>1, CacheAssumption DEF TypeInv, TypeOK
    <2>3. /\ Present' = Present \cup {i}
          /\ \A j \in Present : j # i => rows'[j] = rows[j]
      BY <2>1, <2>2 DEF Present
    <2>4. fts' = fts \cup {<<r, loc[w].rec.text>>} BY <2>1 DEF AfterInsert
    <2>5. \A j \in Present' : <<rows'[j].row, rows'[j].text>> \in fts'
      BY <1>0, <2>1, <2>2, <2>3, <2>4
    <2>6. \A j \in Present' : j # i => rows'[j].row < r /\ rows'[j].row \in 1..MaxRow
      BY <1>0, <2>1, <2>3, Parts DEF NextRow
    <2>7. RowsUnique'
      <3>1. ASSUME NEW j \in Present', NEW k \in Present', rows'[j].row = rows'[k].row
            PROVE  j = k
        <4>1. CASE j # i /\ k # i BY <1>0, <2>3, <3>1, <4>1
        <4>2. CASE j = i /\ k # i BY <2>1, <2>2, <2>6, <3>1, <4>2
        <4>3. CASE j # i /\ k = i BY <2>1, <2>2, <2>6, <3>1, <4>3
        <4> QED BY <4>1, <4>2, <4>3
      <3> QED BY <3>1 DEF RowsUnique
    <2> QED BY <2>5, <2>7 DEF Findable, Search
  <1>2. ASSUME NEW w \in Writers, DeleteRow(w) PROVE (RowsUnique /\ Findable)'
    <2> DEFINE i == loc[w].id
    <2>1. i \in Ids /\ rows' = [rows EXCEPT ![i] = None] /\ fts' = AfterDelete(i)
      BY <1>0, <1>2, Parts DEF DeleteRow
    <2> HIDE DEF i
    <2>2. \A j \in Present' : j \in Present /\ j # i /\ rows'[j] = rows[j]
      BY <1>0, <2>1 DEF Present, TypeInv, TypeOK
    <2>3. \A j \in Present' : <<rows[j].row, rows[j].text>> \in fts'
      BY <1>0, <2>1, <2>2 DEF AfterDelete, Present
    <2>4. RowsUnique' BY <1>0, <2>2 DEF RowsUnique
    <2> QED BY <2>2, <2>3, <2>4 DEF Findable, Search
  <1>3. ASSUME NEW w \in Writers, ClearRows(w) PROVE (RowsUnique /\ Findable)'
    BY <1>3 DEF ClearRows, Present, RowsUnique, Findable, Search
  <1>4. CASE UNCHANGED <<rows, fts>>
    BY <1>0, <1>4 DEF Present, RowsUnique, Findable, Search
  <1> QED BY <1>1, <1>2, <1>3, <1>4, RowsStep

\* Every record is found by its text, although REPLACE leaves postings of old
\* rowids behind and rowids are used again: no two records share a rowid, and
\* a new rowid is above all of them.
THEOREM FindableTheorem == Spec => []Findable
  <1>1. Init => FindInv
    BY TypeInit DEF Init, FindInv, RowsUnique, Findable, Search, Present
  <1>2. FindInv /\ [Next]_vars => FindInv'
    BY TypeStep, FindStep DEF FindInv
  <1>3. FindInv => Findable BY DEF FindInv
  <1> QED BY <1>1, <1>2, <1>3, PTL DEF Spec

-----------------------------------------------------------------------------
(* The tags. *)

LEMMA TagsStep ==
    ASSUME TypeInv, TagsOwned, [Next]_vars
    PROVE  TagsOwned'
  <1>0. \A p \in tagged : p[1] \in Ids /\ rows[p[1]] # None BY DEF TagsOwned, Present
  <1>1. ASSUME NEW w \in Writers, Replace(w) PROVE TagsOwned'
    <2>1. PICK r \in 1..MaxRow :
             /\ loc[w].id \in Ids /\ RowFor(w, r) \in Rows
             /\ rows' = [rows EXCEPT ![loc[w].id] = RowFor(w, r)]
             /\ tagged' = TagsWithout(loc[w].id)
      BY <1>1, ReplaceWrites
    <2> QED BY <1>0, <2>1 DEF TagsWithout, TagsOwned, Present, TypeInv, TypeOK
  <1>2. ASSUME NEW w \in Writers, NEW t \in Tags, Tag(w, t) PROVE TagsOwned'
    <2>1. loc[w].id \in Ids BY <1>2, Parts DEF Tag
    <2>2. /\ tagged' = tagged \cup {<<loc[w].id, t>>}
          /\ rows' = rows /\ rows[loc[w].id] # None
      BY <1>2 DEF Tag, ForeignKeyOK
    <2> QED BY <1>0, <2>1, <2>2 DEF TagsOwned, Present
  <1>3. ASSUME NEW w \in Writers, DeleteRow(w) PROVE TagsOwned'
    <2>1. /\ loc[w].id \in Ids /\ rows' = [rows EXCEPT ![loc[w].id] = None]
          /\ tagged' = TagsWithout(loc[w].id)
      BY <1>3, Parts DEF DeleteRow
    <2> QED BY <1>0, <2>1 DEF TagsWithout, TagsOwned, Present, TypeInv, TypeOK
  <1>4. ASSUME NEW w \in Writers, ClearRows(w) PROVE TagsOwned'
    BY <1>4 DEF ClearRows, TagsOwned
  <1>5. CASE tagged' \subseteq tagged /\ rows' = rows
    BY <1>0, <1>5 DEF TagsOwned, Present
  <1>6. \/ tagged' \subseteq tagged /\ rows' = rows
        \/ \E w \in Writers : \/ Replace(w) \/ DeleteRow(w) \/ ClearRows(w)
                              \/ \E t \in Tags : Tag(w, t)
    BY DEF vars, Next, Begin, UpsertStart, UpdateStart, DeleteStart, ClearStart, Start,
           Upsert, Remove, Untag, TagsWithout, TagRaises, UpsertDone, MetaTagged, DeleteTags,
           ClearTags, Crash
  <1> QED BY <1>1, <1>2, <1>3, <1>4, <1>5, <1>6

\* A tag always has its record, whichever process deletes the record between
\* two statements of an upsert in another: the cascade removes what is there
\* and the foreign key refuses what comes later.
THEOREM TagsOwnedTheorem == Spec => []TagsOwned
  <1> DEFINE Inv == TypeInv /\ TagsOwned
  <1>1. Init => Inv BY TypeInit DEF Init, TagsOwned
  <1>2. Inv /\ [Next]_vars => Inv' BY TypeStep, TagsStep
  <1> QED BY <1>1, <1>2, PTL DEF Spec

-----------------------------------------------------------------------------
(* LocalCache implements RecordStore. *)

Ops == [w \in Writers |-> Request(w)]

\* Another process's request does not change with a step of w.
LEMMA OpsStep ==
    ASSUME TypeInv, NEW w \in Writers,
           \A v \in Writers : v # w => pc'[v] = pc[v] /\ loc'[v] = loc[v]
    PROVE  Ops' = [Ops EXCEPT ![w] = Request(w)']
  <1>1. \A v \in Writers : v # w => Request(v)' = Request(v) BY DEF Request
  <1>2. Ops' = [v \in Writers |-> Request(v)'] BY DEF Ops
  <1>3. \A v \in Writers : [Ops EXCEPT ![w] = Request(w)'][v] = Request(v)'
    BY <1>1 DEF Ops
  <1> QED BY <1>1, <1>2, <1>3 DEF Ops

\* Which request a stage stands for.
LEMMA RequestOf ==
    ASSUME NEW w \in Writers
    PROVE  /\ pc[w] \in {"meta_untag", "meta_tag", "replace"} =>
                 Request(w) = [kind |-> "put", id |-> loc[w].id, rec |-> loc[w].rec]
           /\ pc[w] = "delete" => Request(w) = [kind |-> "remove", id |-> loc[w].id]
           /\ pc[w] = "clear" => Request(w) = [kind |-> "clear"]
           /\ pc[w] \in {"idle", "untag", "tag", "del_tags", "clear_tags"} => Request(w) = None
  BY DEF Request

\* A call that begins makes its request.
LEMMA StartBegins ==
    ASSUME TypeInv, NEW w \in Writers, NEW i \in Ids, NEW rec \in Recs \cup {None},
           NEW stage \in {"meta_untag", "replace", "delete", "clear"},
           Start(w, stage, i, rec),
           stage \in {"meta_untag", "replace"} => rec \in Recs
    PROVE  Store!Next
  <1> DEFINE call == [id |-> i, rec |-> rec, todo |-> {}]
  <1>1. /\ loc' = [loc EXCEPT ![w] = call] /\ pc' = [pc EXCEPT ![w] = stage]
        /\ pc[w] = "idle" /\ rows' = rows
    BY DEF Start, Goto
  <1>2. call.id = i /\ call.rec = rec OBVIOUS
  <1> HIDE DEF call
  <1>3. pc'[w] = stage /\ loc'[w].id = i /\ loc'[w].rec = rec
    BY <1>1, <1>2 DEF TypeInv, TypeOK
  <1>4. Request(w)' \in Store!Requests
    BY <1>3 DEF Request, Store!Requests
  <1>5. Ops' = [Ops EXCEPT ![w] = Request(w)']
    BY <1>1, OpsStep DEF TypeInv, TypeOK
  <1>6. Ops[w] = None BY <1>1, RequestOf DEF Ops
  <1>7. Stored' = Stored BY <1>1 DEF Stored
  <1> QED BY <1>4, <1>5, <1>6, <1>7 DEF Store!Next, Store!Begin, Ops

\* A call that ends without effect abandons its request, if it still has one.
LEMMA FinishAbandons ==
    ASSUME TypeInv, NEW w \in Writers, Finish(w), rows' = rows
    PROVE  Store!Next
  <1>1. pc' = [pc EXCEPT ![w] = "idle"] /\ loc' = [loc EXCEPT ![w] = None]
    BY DEF Finish, Goto
  <1>2. Request(w)' = None BY <1>1 DEF Request, TypeInv, TypeOK
  <1>3. Ops' = [Ops EXCEPT ![w] = Request(w)']
    BY <1>1, OpsStep DEF TypeInv, TypeOK
  <1>4. Stored' = Stored BY DEF Stored
  <1> QED BY <1>2, <1>3, <1>4 DEF Store!Next, Store!Abandon, Ops

\* A statement before or after the effect leaves the request as it is.
LEMMA Stutters ==
    ASSUME TypeInv, NEW w \in Writers, rows' = rows, Request(w)' = Request(w),
           \A v \in Writers : v # w => pc'[v] = pc[v] /\ loc'[v] = loc[v]
    PROVE  UNCHANGED <<Stored, Ops>>
  <1>1. Ops' = Ops BY OpsStep DEF Ops
  <1>2. Stored' = Stored BY DEF Stored
  <1> QED BY <1>1, <1>2

LEMMA ReplaceApplies ==
    ASSUME TypeInv, NEW w \in Writers, Replace(w)
    PROVE  Store!Next
  <1>1. /\ pc[w] = "replace" /\ pc' = [pc EXCEPT ![w] = "untag"] /\ loc' = loc
    BY DEF Replace, Goto
  <1>2. PICK r \in 1..MaxRow :
           /\ loc[w].id \in Ids /\ loc[w].rec \in Recs
           /\ RowFor(w, r) \in Rows
           /\ RowFor(w, r).text = loc[w].rec.text /\ RowFor(w, r).tags = loc[w].rec.tags
           /\ rows' = [rows EXCEPT ![loc[w].id] = RowFor(w, r)]
    BY ReplaceWrites
  <1> DEFINE i == loc[w].id
             rec == loc[w].rec
             q == [kind |-> "put", id |-> i, rec |-> rec]
  <1>3. q \in Store!Requests /\ q.kind = "put" /\ q.id = i /\ q.rec = rec
    BY <1>2 DEF Store!Requests
  <1>4. Ops[w] = q BY <1>1, RequestOf DEF Ops
  <1>5. Ops' = [Ops EXCEPT ![w] = None]
    <2>1. Request(w)' = None BY <1>1 DEF Request, TypeInv, TypeOK
    <2> QED BY <1>1, <2>1, OpsStep DEF TypeInv, TypeOK
  <1>6. rec = [text |-> rec.text, tags |-> rec.tags] BY <1>2 DEF Recs
  <1>7. Stored' = [Stored EXCEPT ![i] = rec]
    <2>1. \A j \in Ids : Stored'[j] = [Stored EXCEPT ![i] = rec][j]
      BY <1>2, <1>6, CacheAssumption DEF Stored, TypeInv, TypeOK
    <2>2. Stored' = [j \in Ids |-> Stored'[j]]
          /\ [Stored EXCEPT ![i] = rec] = [j \in Ids |-> [Stored EXCEPT ![i] = rec][j]]
      BY DEF Stored
    <2> QED BY <2>1, <2>2
  <1> HIDE DEF i, rec, q
  <1>8. Store!Effect(q) = [Stored EXCEPT ![i] = rec] BY <1>3 DEF Store!Effect
  <1> QED BY <1>3, <1>4, <1>5, <1>7, <1>8 DEF Store!Next, Store!Apply, Ops

LEMMA DeleteApplies ==
    ASSUME TypeInv, NEW w \in Writers, DeleteRow(w)
    PROVE  Store!Next
  <1> DEFINE i == loc[w].id
             q == [kind |-> "remove", id |-> i]
  <1>1. /\ pc[w] = "delete" /\ pc' = [pc EXCEPT ![w] = "del_tags"] /\ loc' = loc
        /\ rows' = [rows EXCEPT ![i] = None] /\ i \in Ids
    BY Parts DEF DeleteRow, Goto
  <1>2. q \in Store!Requests /\ q.kind = "remove" /\ q.id = i
    BY <1>1 DEF Store!Requests
  <1>3. Ops[w] = q BY <1>1, RequestOf DEF Ops
  <1>4. Ops' = [Ops EXCEPT ![w] = None]
    <2>1. Request(w)' = None BY <1>1 DEF Request, TypeInv, TypeOK
    <2> QED BY <1>1, <2>1, OpsStep DEF TypeInv, TypeOK
  <1>5. Stored' = [Stored EXCEPT ![i] = None]
    <2>1. \A j \in Ids : Stored'[j] = [Stored EXCEPT ![i] = None][j]
      BY <1>1 DEF Stored, TypeInv, TypeOK
    <2>2. Stored' = [j \in Ids |-> Stored'[j]]
          /\ [Stored EXCEPT ![i] = None] = [j \in Ids |-> [Stored EXCEPT ![i] = None][j]]
      BY DEF Stored
    <2> QED BY <2>1, <2>2
  <1> HIDE DEF i, q
  <1>6. Store!Effect(q) = [Stored EXCEPT ![i] = None] BY <1>2 DEF Store!Effect
  <1> QED BY <1>2, <1>3, <1>4, <1>5, <1>6 DEF Store!Next, Store!Apply, Ops

LEMMA ClearApplies ==
    ASSUME TypeInv, NEW w \in Writers, ClearRows(w)
    PROVE  Store!Next
  <1> DEFINE q == [kind |-> "clear"]
  <1>1. /\ pc[w] = "clear" /\ pc' = [pc EXCEPT ![w] = "clear_tags"] /\ loc' = loc
        /\ rows' = [i \in Ids |-> None]
    BY DEF ClearRows, Goto
  <1>2. q \in Store!Requests /\ q.kind = "clear" BY DEF Store!Requests
  <1>3. Ops[w] = q BY <1>1, RequestOf DEF Ops
  <1>4. Ops' = [Ops EXCEPT ![w] = None]
    <2>1. Request(w)' = None BY <1>1 DEF Request, TypeInv, TypeOK
    <2> QED BY <1>1, <2>1, OpsStep DEF TypeInv, TypeOK
  <1>5. Stored' = [i \in Ids |-> None] BY <1>1 DEF Stored
  <1> HIDE DEF q
  <1>6. Store!Effect(q) = [i \in Ids |-> None] BY <1>2 DEF Store!Effect
  <1> QED BY <1>2, <1>3, <1>4, <1>5, <1>6 DEF Store!Next, Store!Apply, Ops

LEMMA AtomicStep ==
    ASSUME TypeInv, [Next]_vars
    PROVE  [Store!Next]_<<Stored, Ops>>
  <1>1. ASSUME NEW w \in Writers, Begin(w) PROVE Store!Next
    <2>1. PICK i \in Ids :
             \/ \E rec \in Recs : UpsertStart(w, i, rec)
             \/ \E text \in Texts, tags \in (SUBSET Tags) \cup {None} :
                   UpdateStart(w, i, text, tags)
             \/ DeleteStart(w, i) \/ ClearStart(w, i)
      BY <1>1 DEF Begin
    <2>2. ASSUME NEW rec \in Recs, UpsertStart(w, i, rec) PROVE Store!Next
      BY <2>2, StartBegins DEF UpsertStart
    <2>3. ASSUME NEW text \in Texts, NEW tags \in (SUBSET Tags) \cup {None},
                 UpdateStart(w, i, text, tags)
          PROVE  Store!Next
      <3> DEFINE rec == [text |-> text, tags |-> IF tags = None THEN rows[i].tags ELSE tags]
      <3>1. rows[i].tags \in SUBSET Tags BY <2>3, Parts DEF UpdateStart
      <3>2. rec \in Recs BY <3>1 DEF Recs
      <3>3. PICK stage \in {"meta_untag", "replace"} : Start(w, stage, i, rec)
        BY <2>3 DEF UpdateStart
      <3> HIDE DEF rec
      <3> QED BY <3>2, <3>3, StartBegins
    <2>4. CASE DeleteStart(w, i) BY <2>4, StartBegins DEF DeleteStart
    <2>5. CASE ClearStart(w, i) BY <2>5, StartBegins DEF ClearStart
    <2> QED BY <2>1, <2>2, <2>3, <2>4, <2>5
  <1>2. ASSUME NEW w \in Writers, Replace(w) \/ DeleteRow(w) \/ ClearRows(w) PROVE Store!Next
    BY <1>2, ReplaceApplies, DeleteApplies, ClearApplies
  <1>3. ASSUME NEW w \in Writers,
               \/ TagRaises(w) \/ UpsertDone(w) \/ DeleteTags(w) \/ ClearTags(w) \/ Crash(w)
        PROVE  Store!Next
    BY <1>3, FinishAbandons DEF TagRaises, UpsertDone, DeleteTags, ClearTags, Crash
  <1>4. ASSUME NEW w \in Writers, Untag(w) \/ MetaTagged(w) \/ \E t \in Tags : Tag(w, t)
        PROVE  UNCHANGED <<Stored, Ops>>
    <2>1. /\ rows' = rows
          /\ pc[w] \in {"meta_untag", "meta_tag", "untag", "tag"}
          /\ pc[w] \in {"meta_untag", "meta_tag"} => pc'[w] \in {"meta_tag", "replace"}
          /\ pc[w] \in {"untag", "tag"} => pc'[w] = "tag"
          /\ \A v \in Writers : v # w => pc'[v] = pc[v]
      BY <1>4 DEF Untag, MetaTagged, Tag, Goto, TypeInv, TypeOK
    <2>2. loc' = loc \/ \E todo : loc' = [loc EXCEPT ![w].todo = todo]
      BY <1>4 DEF Untag, MetaTagged, Tag
    <2>3. /\ loc'[w].id = loc[w].id /\ loc'[w].rec = loc[w].rec
          /\ \A v \in Writers : v # w => loc'[v] = loc[v]
      <3>1. loc[w] \in Call BY <2>1, Parts
      <3>2. ASSUME NEW todo, loc' = [loc EXCEPT ![w].todo = todo]
            PROVE  /\ loc'[w].id = loc[w].id /\ loc'[w].rec = loc[w].rec
                   /\ \A v \in Writers : v # w => loc'[v] = loc[v]
        <4>1. loc' = [loc EXCEPT ![w] = [loc[w] EXCEPT !.todo = todo]] BY <3>2
        <4>2. /\ [loc[w] EXCEPT !.todo = todo].id = loc[w].id
              /\ [loc[w] EXCEPT !.todo = todo].rec = loc[w].rec
          BY <3>1 DEF Call
        <4> QED BY <4>1, <4>2 DEF TypeInv, TypeOK
      <3> QED BY <2>2, <3>2
    <2>4. Request(w)' = Request(w)
      <3>1. CASE pc[w] \in {"meta_untag", "meta_tag"} BY <2>1, <2>3, <3>1 DEF Request
      <3>2. CASE pc[w] \in {"untag", "tag"} BY <2>1, <3>2 DEF Request
      <3> QED BY <2>1, <3>1, <3>2
    <2> QED BY <2>1, <2>3, <2>4, Stutters
  <1>5. CASE UNCHANGED vars BY <1>5 DEF vars, Stored, Ops, Request
  <1> QED BY <1>1, <1>2, <1>3, <1>4, <1>5 DEF Next, Upsert, Remove

\* Towards readers of the records, every call of LocalCache is one atomic
\* step, whichever statements a crash or a raised error prevents.
THEOREM AtomicCallsTheorem == Spec => AtomicCalls
  <1>1. Init => Store!Init
    BY DEF Init, Store!Init, Stored, Request
  <1>2. TypeInv /\ [Next]_vars => [Store!Next]_<<Stored, Ops>>
    BY AtomicStep
  <1>3. Ops = [w \in Writers |-> Request(w)] BY DEF Ops
  <1> QED BY <1>1, <1>2, <1>3, TypeSafety, PTL DEF Spec, AtomicCalls, Store!Spec, Ops

-----------------------------------------------------------------------------
(* An upsert that is left alone repairs the tags of its record. *)

HInv == TypeInv /\ OwnTagsOK

\* A step of one writer leaves the position and the locals of the others.
LEMMA OthersStay ==
    ASSUME TypeInv, NEW w \in Writers, NEW v \in Writers, v # w,
           Begin(w) \/ Upsert(w) \/ Remove(w) \/ Crash(w)
    PROVE  pc'[v] = pc[v] /\ loc'[v] = loc[v]
  BY DEF TypeInv, TypeOK, Begin, UpsertStart, UpdateStart, DeleteStart, ClearStart, Start,
         Upsert, Replace, Untag, Tag, TagRaises, UpsertDone, MetaTagged, Remove, DeleteRow,
         DeleteTags, ClearRows, ClearTags, Crash, Goto, Finish

\* What a step of writer w leaves the others: a writer that is not disturbed
\* finds its record and its tags as they were.
LEMMA OthersOwnTags ==
    ASSUME HInv, NEW w \in Writers, NEW v \in Writers, v # w,
           Begin(w) \/ Upsert(w) \/ Remove(w) \/ Crash(w),
           disturbed'[v] = (pc[v] # "idle" /\ (disturbed[v] \/ Touched(loc[v].id)))
    PROVE  OwnTags(v)'
  <1>1. pc'[v] = pc[v] /\ loc'[v] = loc[v] BY OthersStay DEF HInv
  <1>2. SUFFICES ASSUME pc[v] \in {"untag", "tag"}, ~disturbed'[v]
                 PROVE  OwnTags(v)'
    BY <1>1 DEF OwnTags
  <1>3. ~disturbed[v] /\ ~Touched(loc[v].id) BY <1>2
  <1>4. /\ rows'[loc[v].id] = rows[loc[v].id]
        /\ TagsIn(tagged', loc[v].id) = TagsIn(tagged, loc[v].id)
    BY <1>3 DEF Touched
  <1>5. TagsOf(loc[v].id)' = TagsOf(loc[v].id) BY <1>1, <1>4 DEF TagsIn, TagsOf
  <1>6. OwnTags(v) BY DEF HInv, OwnTagsOK
  <1> QED BY <1>1, <1>2, <1>3, <1>4, <1>5, <1>6 DEF OwnTags

\* A writer's own statements: the REPLACE writes the tags into the row and the
\* cascade empties record_tags, then each INSERT adds one of them.
LEMMA SelfOwnTags ==
    ASSUME HInv, NEW w \in Writers,
           Begin(w) \/ Upsert(w) \/ Remove(w) \/ Crash(w),
           disturbed'[w] = (pc'[w] # "idle" /\ disturbed[w])
    PROVE  OwnTags(w)'
  <1>0. TypeInv /\ OwnTags(w) BY DEF HInv, OwnTagsOK
  <1>1. CASE Begin(w)
    <2>1. pc'[w] \in {"meta_untag", "replace", "delete", "clear"}
      BY <1>0, <1>1 DEF TypeInv, TypeOK, Begin, UpsertStart, UpdateStart, DeleteStart,
                        ClearStart, Start, Goto
    <2> QED BY <2>1 DEF OwnTags
  <1>2. CASE Replace(w)
    <2>1. PICK r \in 1..MaxRow : /\ RowFor(w, r) \in Rows
                                 /\ RowFor(w, r).tags = loc[w].rec.tags
                                 /\ rows' = [rows EXCEPT ![loc[w].id] = RowFor(w, r)]
      BY <1>0, <1>2, ReplaceWrites
    <2>2. loc[w].id \in Ids BY <1>0, <1>2, ReplaceWrites
    <2>3. rows'[loc[w].id] = RowFor(w, r) /\ RowFor(w, r) # None
      BY <1>0, <2>1, <2>2, CacheAssumption DEF TypeInv, TypeOK
    <2>4. pc'[w] = "untag" /\ loc' = loc
      BY <1>0, <1>2 DEF Replace, Goto, TypeInv, TypeOK
    <2> QED BY <2>1, <2>3, <2>4 DEF OwnTags
  <1>3. CASE Untag(w)
    <2>1. loc[w] \in Call BY <1>0, <1>3, Parts DEF Untag
    <2>2. /\ loc'[w].id = loc[w].id /\ loc'[w].rec = loc[w].rec
          /\ loc'[w].todo = loc[w].rec.tags /\ rows' = rows
      BY <1>0, <1>3, <2>1 DEF Untag, Call, TypeInv, TypeOK
    <2>3. TagsOf(loc[w].id)' = {} BY <1>3, <2>2 DEF Untag, TagsWithout, TagsOf
    <2>4. pc'[w] = IF pc[w] = "untag" THEN "tag" ELSE "meta_tag"
      BY <1>0, <1>3 DEF Untag, Goto, TypeInv, TypeOK
    <2>5. TagsOf(loc[w].id)' = loc'[w].rec.tags \ loc'[w].todo BY <2>2, <2>3
    <2> QED BY <1>0, <1>3, <2>2, <2>4, <2>5 DEF OwnTags, Untag
  <1>4. ASSUME NEW t \in Tags, Tag(w, t) PROVE OwnTags(w)'
    <2>1. loc[w] \in Call /\ loc[w].todo \in SUBSET Tags BY <1>0, <1>4, Parts DEF Tag
    <2>2. /\ loc'[w].id = loc[w].id /\ loc'[w].rec = loc[w].rec
          /\ loc'[w].todo = loc[w].todo \ {t} /\ rows' = rows /\ pc' = pc
      BY <1>0, <1>4, <2>1 DEF Tag, Call, TypeInv, TypeOK
    <2>3. SUFFICES ASSUME pc[w] = "tag", ~disturbed[w] PROVE OwnTags(w)'
      BY <1>4, <2>2 DEF OwnTags, Tag
    <2>4. /\ loc[w].todo \subseteq loc[w].rec.tags
          /\ TagsOf(loc[w].id) = loc[w].rec.tags \ loc[w].todo
      BY <1>0, <2>3 DEF OwnTags
    <2>5. TagsOf(loc[w].id)' = TagsOf(loc[w].id) \cup {t}
      BY <1>4, <2>2 DEF Tag, TagsOf
    <2>6. t \in loc[w].todo BY <1>4 DEF Tag
    <2>7. TagsOf(loc[w].id)' = loc[w].rec.tags \ (loc[w].todo \ {t}) BY <2>4, <2>5, <2>6
    <2> QED BY <1>0, <2>2, <2>3, <2>4, <2>7 DEF OwnTags
  <1>5. CASE Finish(w)
    BY <1>0, <1>5 DEF Finish, Goto, TypeInv, TypeOK, OwnTags
  <1>6. CASE MetaTagged(w)
    BY <1>0, <1>6 DEF MetaTagged, Goto, TypeInv, TypeOK, OwnTags
  <1>7. CASE DeleteRow(w) \/ ClearRows(w)
    BY <1>0, <1>7 DEF DeleteRow, ClearRows, Goto, TypeInv, TypeOK, OwnTags
  <1> QED BY <1>1, <1>2, <1>3, <1>4, <1>5, <1>6, <1>7
          DEF Upsert, Remove, TagRaises, UpsertDone, DeleteTags, ClearTags, Crash

LEMMA HStep == ASSUME HInv, [NextH]_varsH PROVE HInv'
  <1>1. CASE UNCHANGED varsH
    <2>1. TypeInv' BY <1>1, TypeStep DEF varsH, HInv
    <2>2. OwnTagsOK' BY <1>1 DEF HInv, varsH, vars, OwnTagsOK, OwnTags, TagsOf
    <2> QED BY <2>1, <2>2 DEF HInv
  <1>2. CASE NextH
    <2>1. TypeInv' BY <1>2, TypeStep DEF NextH, Next, HInv
    <2>2. PICK w \in Writers :
             /\ Begin(w) \/ Upsert(w) \/ Remove(w) \/ Crash(w)
             /\ disturbed' = [v \in Writers |->
                   IF v = w THEN pc'[w] # "idle" /\ disturbed[w]
                   ELSE pc[v] # "idle" /\ (disturbed[v] \/ Touched(loc[v].id))]
      BY <1>2 DEF NextH
    <2>3. ASSUME NEW v \in Writers, v # w PROVE OwnTags(v)'
      <3>1. disturbed'[v] = (pc[v] # "idle" /\ (disturbed[v] \/ Touched(loc[v].id)))
        BY <2>2, <2>3
      <3> QED BY <2>2, <2>3, <3>1, OthersOwnTags
    <2>4. OwnTags(w)'
      <3>1. disturbed'[w] = (pc'[w] # "idle" /\ disturbed[w]) BY <2>2
      <3> QED BY <2>2, <3>1, SelfOwnTags
    <2> QED BY <2>1, <2>3, <2>4 DEF HInv, OwnTagsOK
  <1> QED BY <1>1, <1>2

\* Whatever crashed calls left in record_tags, and however many processes write
\* the file, a completed upsert whose record no other process touched meanwhile
\* leaves the tags that the record lists.
THEOREM UpsertRepairsTheorem == SpecH => UpsertRepairs
  <1>1. InitH => HInv BY TypeInit DEF InitH, Init, HInv, OwnTagsOK, OwnTags
  <1>2. HInv /\ [NextH]_varsH => HInv' BY HStep
  <1>3. HInv /\ [NextH]_varsH =>
          [\A w \in Writers : UpsertDone(w) /\ ~disturbed[w] =>
              TagsOf(loc[w].id) = rows[loc[w].id].tags]_varsH
    BY DEF HInv, OwnTagsOK, OwnTags, UpsertDone
  <1> QED BY <1>1, <1>2, <1>3, PTL DEF SpecH, UpsertRepairs
=============================================================================
