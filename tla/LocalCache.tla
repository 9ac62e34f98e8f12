----------------------------- MODULE LocalCache -----------------------------
(* LocalCache: the SQLite file of one scope, statement by statement.  The     *)
(* connection is in autocommit mode (isolation_level=None), so each statement *)
(* with its triggers and foreign-key actions is a transaction of its own, and *)
(* another process, or a crash, can come between any two of them.             *)
EXTENDS Naturals

CONSTANTS
    Ids,        \* record ids
    Texts,      \* what the indexed columns (text, title, preview) hold
    Tags,
    Writers,    \* processes with the file open
    None,
    MaxRow      \* bound on rowids

Recs == [text : Texts, tags : SUBSET Tags]
Rows == [row : 1..MaxRow, text : Texts, tags : SUBSET Tags]

Call == [id : Ids, rec : Recs \cup {None}, todo : SUBSET Tags]

ASSUME CacheAssumption == None \notin Rows \cup Recs \cup Call /\ MaxRow \in Nat

VARIABLES
    rows,     \* table records: [Ids -> row or None]; `row` is the rowid
    tagged,   \* table record_tags: pairs of id and tag
    fts,      \* the postings of records_fts: pairs of rowid and text
    pc, loc   \* where each writer is, and its call

vars == <<rows, tagged, fts, pc, loc>>

Stages == {"idle", "meta_untag", "meta_tag", "replace", "untag", "tag",
           "delete", "del_tags", "clear", "clear_tags"}

Init == /\ rows = [i \in Ids |-> None] /\ tagged = {} /\ fts = {}
        /\ pc = [w \in Writers |-> "idle"]
        /\ loc = [w \in Writers |-> None]

-----------------------------------------------------------------------------
(* What SQLite does in one statement. *)

Present == {i \in Ids : rows[i] # None}

\* A rowid is one more than the largest in the table.
NextRow(r) == /\ \A i \in Present : rows[i].row < r
              /\ r = 1 \/ \E i \in Present : rows[i].row = r - 1

\* Wrong variant: the foreign key is not enforced.
OwnerlessOK(i) == i \in Ids
\* foreign_keys=ON: a tag belongs to a record.
ForeignKeyOK(i) == rows[i] # None

\* ON DELETE CASCADE, which a REPLACE triggers as well.
TagsWithout(i) == {p \in tagged : p[1] # i}

\* Wrong variant: an insert is not indexed when the record was there.
AfterInsertNew(i, r, x) == IF rows[i] = None THEN fts \cup {<<r, x>>} ELSE fts

\* The triggers records_ai and records_ad.  A REPLACE fires only records_ai
\* (recursive_triggers is off): the postings of the old rowid stay.
AfterInsert(i, r, x) == fts \cup {<<r, x>>}
AfterDelete(i) ==
    IF rows[i] = None THEN fts ELSE fts \ {<<rows[i].row, rows[i].text>>}

-----------------------------------------------------------------------------
(* upsert *)

Goto(w, stage) == pc' = [pc EXCEPT ![w] = stage]
Start(w, stage, i, rec) ==
    /\ pc[w] = "idle"
    /\ Goto(w, stage)
    /\ loc' = [loc EXCEPT ![w] = [id |-> i, rec |-> rec, todo |-> {}]]
    /\ UNCHANGED <<rows, tagged, fts>>
Finish(w) == /\ Goto(w, "idle")
             /\ loc' = [loc EXCEPT ![w] = None]

UpsertStart(w, i, rec) == Start(w, "replace", i, rec)

\* Wrong variant: the row is deleted and inserted by two statements.
ReplaceInTwo(w) ==
    LET i == loc[w].id IN
    /\ pc[w] = "replace"
    /\ \/ /\ rows[i] # None
          /\ rows' = [rows EXCEPT ![i] = None]
          /\ fts' = AfterDelete(i)
          /\ UNCHANGED pc
       \/ /\ rows[i] = None
          /\ \E r \in 1..MaxRow :
                /\ NextRow(r)
                /\ rows' = [rows EXCEPT ![i] =
                      [row |-> r, text |-> loc[w].rec.text, tags |-> loc[w].rec.tags]]
                /\ fts' = AfterInsert(i, r, loc[w].rec.text)
          /\ Goto(w, "untag")
    /\ tagged' = TagsWithout(i)
    /\ UNCHANGED loc

\* INSERT OR REPLACE INTO records
Replace(w) ==
    LET i == loc[w].id
        rec == loc[w].rec IN
    /\ pc[w] = "replace"
    /\ \E r \in 1..MaxRow :
          /\ NextRow(r)
          /\ rows' = [rows EXCEPT ![i] = [row |-> r, text |-> rec.text, tags |-> rec.tags]]
          /\ fts' = AfterInsert(i, r, rec.text)
    /\ tagged' = TagsWithout(i)
    /\ Goto(w, "untag")
    /\ UNCHANGED loc

\* DELETE FROM record_tags WHERE record_id = id
Untag(w) ==
    /\ pc[w] \in {"meta_untag", "untag"}
    /\ tagged' = TagsWithout(loc[w].id)
    /\ loc' = [loc EXCEPT ![w].todo = loc[w].rec.tags]
    /\ Goto(w, IF pc[w] = "untag" THEN "tag" ELSE "meta_tag")
    /\ UNCHANGED <<rows, fts>>

\* INSERT OR IGNORE INTO record_tags
Tag(w, t) ==
    /\ pc[w] \in {"meta_tag", "tag"}
    /\ t \in loc[w].todo
    /\ ForeignKeyOK(loc[w].id)
    /\ tagged' = tagged \cup {<<loc[w].id, t>>}
    /\ loc' = [loc EXCEPT ![w].todo = loc[w].todo \ {t}]
    /\ UNCHANGED <<rows, fts, pc>>

\* The record went meanwhile: FOREIGN KEY constraint failed.
TagRaises(w) ==
    /\ pc[w] \in {"meta_tag", "tag"}
    /\ loc[w].todo # {}
    /\ ~ForeignKeyOK(loc[w].id)
    /\ Finish(w)
    /\ UNCHANGED <<rows, tagged, fts>>

\* Wrong variant: the loop over the tags ends early.
UpsertDoneEarly(w) ==
    /\ pc[w] = "tag"
    /\ Finish(w)
    /\ UNCHANGED <<rows, tagged, fts>>

UpsertDone(w) ==
    /\ pc[w] = "tag"
    /\ loc[w].todo = {}
    /\ Finish(w)
    /\ UNCHANGED <<rows, tagged, fts>>

-----------------------------------------------------------------------------
(* update_metadata: read, write the tags, then upsert what was read. *)

\* A new title (with the text the indexed text), new tags, or both.
UpdateStart(w, i, text, tags) ==
    /\ rows[i] # None
    /\ Start(w, IF tags = None THEN "replace" ELSE "meta_untag", i,
             [text |-> text, tags |-> IF tags = None THEN rows[i].tags ELSE tags])

MetaTagged(w) ==
    /\ pc[w] = "meta_tag"
    /\ loc[w].todo = {}
    /\ Goto(w, "replace")
    /\ UNCHANGED <<rows, tagged, fts, loc>>

-----------------------------------------------------------------------------
(* delete and clear_all_records *)

DeleteStart(w, i) == Start(w, "delete", i, None)

DeleteRow(w) ==
    LET i == loc[w].id IN
    /\ pc[w] = "delete"
    /\ rows' = [rows EXCEPT ![i] = None]
    /\ fts' = AfterDelete(i)
    /\ tagged' = TagsWithout(i)
    /\ Goto(w, "del_tags")
    /\ UNCHANGED loc

DeleteTags(w) ==
    /\ pc[w] = "del_tags"
    /\ tagged' = TagsWithout(loc[w].id)
    /\ Finish(w)
    /\ UNCHANGED <<rows, fts>>

ClearStart(w, i) == Start(w, "clear", i, None)

ClearRows(w) ==
    /\ pc[w] = "clear"
    /\ rows' = [i \in Ids |-> None]
    /\ fts' = fts \ {<<rows[i].row, rows[i].text>> : i \in Present}
    /\ tagged' = {}
    /\ Goto(w, "clear_tags")
    /\ UNCHANGED loc

ClearTags(w) ==
    /\ pc[w] = "clear_tags"
    /\ tagged' = {}
    /\ Finish(w)
    /\ UNCHANGED <<rows, fts>>

-----------------------------------------------------------------------------
\* A process dies between two statements.
Crash(w) ==
    /\ pc[w] # "idle"
    /\ Finish(w)
    /\ UNCHANGED <<rows, tagged, fts>>

Upsert(w) == Replace(w) \/ Untag(w) \/ (\E t \in Tags : Tag(w, t)) \/ TagRaises(w)
             \/ UpsertDone(w) \/ MetaTagged(w)
Remove(w) == DeleteRow(w) \/ DeleteTags(w) \/ ClearRows(w) \/ ClearTags(w)

Begin(w) == \E i \in Ids :
    \/ \E rec \in Recs : UpsertStart(w, i, rec)
    \/ \E text \in Texts, tags \in (SUBSET Tags) \cup {None} : UpdateStart(w, i, text, tags)
    \/ DeleteStart(w, i) \/ ClearStart(w, i)

Next == \E w \in Writers : Begin(w) \/ Upsert(w) \/ Remove(w) \/ Crash(w)

Spec == Init /\ [][Next]_vars

-----------------------------------------------------------------------------
TypeOK ==
    /\ rows   \in [Ids -> Rows \cup {None}]
    /\ tagged \in SUBSET (Ids \X Tags)
    /\ fts    \in SUBSET ((1..MaxRow) \X Texts)
    /\ pc     \in [Writers -> Stages]
    /\ loc    \in [Writers -> Call \cup {None}]

\* search_fts: the records whose rowid has a posting of the text.
Search(x) == {i \in Present : <<rows[i].row, x>> \in fts}

\* list_by_filter with tags_any: the ids that record_tags has for a tag.
TagsOf(i) == {t \in Tags : <<i, t>> \in tagged}

\* Every record is found by its text: although REPLACE moves records to new
\* rowids and leaves postings behind, no deletion takes the postings of
\* another record away.
Findable == \A i \in Present : i \in Search(rows[i].text)

\* A filter on tags yields records: no tag is left of a deleted record, even
\* one that another process deletes between two statements of an upsert.
TagsOwned == \A p \in tagged : p[1] \in Present

\* Towards readers of the records every call is one atomic step, whichever of
\* its statements a crash prevents: LocalCache implements RecordStore.
Stored == [i \in Ids |-> IF rows[i] = None THEN None
                         ELSE [text |-> rows[i].text, tags |-> rows[i].tags]]
Request(w) ==
    CASE pc[w] \in {"meta_untag", "meta_tag", "replace"} ->
              [kind |-> "put", id |-> loc[w].id, rec |-> loc[w].rec]
      [] pc[w] = "delete" -> [kind |-> "remove", id |-> loc[w].id]
      [] pc[w] = "clear"  -> [kind |-> "clear"]
      [] OTHER            -> None
Store == INSTANCE RecordStore WITH store <- Stored, op <- [w \in Writers |-> Request(w)]
AtomicCalls == Store!Spec

\* architecture.md: the triggers maintain the index, no reindex is needed; a
\* search yields only records that hold the text.
SearchIsExact == \A x \in Texts : \A i \in Search(x) : rows[i].text = x

-----------------------------------------------------------------------------
(* The strengthening that makes the safety properties inductive. *)

RowsUnique == \A i, j \in Present : rows[i].row = rows[j].row => i = j

\* A call in progress has its locals; the tags still to be written are the
\* record's.
CallOK(w) ==
    /\ pc[w] # "idle" => loc[w] # None
    /\ pc[w] \in {"meta_untag", "meta_tag", "replace", "untag", "tag"} => loc[w].rec # None
CallsOK == \A w \in Writers : CallOK(w)
=============================================================================
