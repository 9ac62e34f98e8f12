---------------------------- MODULE PagedListing ----------------------------
(* BitableClient.list_records: one page after the other, by offset, each by a *)
(* lark-cli call of its own, while the owner and other machines change the    *)
(* table between the calls.                                                   *)
EXTENDS Naturals, Sequences, FiniteSets, SequencesExt

CONSTANTS
    RowIds,     \* the ids of rows, each handed out once
    PageSize,   \* the page size (200)
    NoAnswer

ASSUME PagingAssumption ==
    /\ PageSize \in Nat \ {0}
    /\ NoAnswer \notin Seq(RowIds)

VARIABLES
    table,     \* the ids of the rows, in the order in which Feishu lists them
    exists,    \* whether Feishu has the table
    used,      \* the ids handed out so far (history)
    stable,    \* the rows that are there since the listing began (history)
    removed,   \* how often rows, or the table, were removed during it (history)
    cut,       \* whether it ended at an answer without rows to read (history)
    pc,        \* "idle", "paging", or "done" when `out` was returned
    offset,
    out

vars == <<table, exists, used, stable, removed, cut, pc, offset, out>>

Init == /\ table = <<>> /\ exists = TRUE /\ used = {} /\ stable = {}
        /\ removed = 0 /\ cut = FALSE
        /\ pc = "idle" /\ offset = 0 /\ out = <<>>

-----------------------------------------------------------------------------
(* The table changes. *)

AppendRow(i) ==
    /\ exists
    /\ i \in RowIds \ used
    /\ table' = Append(table, i)
    /\ used' = used \cup {i}
    /\ UNCHANGED <<exists, stable, removed, cut, pc, offset, out>>

\* A removal shifts the rows behind it.
Removed == removed' = IF pc = "paging" THEN removed + 1 ELSE removed

RemoveRow(k) ==
    /\ table' = RemoveAt(table, k)
    /\ stable' = stable \ {table[k]}
    /\ Removed
    /\ UNCHANGED <<exists, used, cut, pc, offset, out>>

DropTable ==
    /\ exists
    /\ exists' = FALSE
    /\ table' = <<>>
    /\ stable' = {}
    /\ Removed
    /\ UNCHANGED <<used, cut, pc, offset, out>>

-----------------------------------------------------------------------------
(* list_records *)

Begin ==
    /\ pc # "paging"
    /\ pc' = "paging"
    /\ offset' = 0
    /\ out' = <<>>
    /\ stable' = ToSet(table)
    /\ removed' = 0
    /\ cut' = FALSE
    /\ UNCHANGED <<table, exists, used>>

\* +record-list --limit PageSize --offset offset, and its `has_more`.
HasMore == offset + PageSize < Len(table)
Page    == SubSeq(table, offset + 1, IF HasMore THEN offset + PageSize ELSE Len(table))

\* Wrong variant: the offset moves by a row too few.
FetchPageOverlapping ==
    /\ pc = "paging" /\ exists
    /\ Page # <<>>
    /\ out' = out \o Page
    /\ IF HasMore \/ Len(Page) = PageSize
       THEN pc' = pc     /\ offset' = offset + PageSize - 1
       ELSE pc' = "done" /\ UNCHANGED offset
    /\ UNCHANGED <<table, exists, used, stable, removed, cut>>

\* Wrong variant: the last page is not added.
FetchPageUnextended ==
    /\ pc = "paging" /\ exists
    /\ Page # <<>>
    /\ IF HasMore \/ Len(Page) = PageSize
       THEN pc' = pc     /\ offset' = offset + PageSize /\ out' = out \o Page
       ELSE pc' = "done" /\ UNCHANGED <<offset, out>>
    /\ UNCHANGED <<table, exists, used, stable, removed, cut>>

\* A page: the next one is asked for unless this one is short and the last.
FetchPage ==
    /\ pc = "paging" /\ exists
    /\ Page # <<>>
    /\ out' = out \o Page
    /\ IF HasMore \/ Len(Page) = PageSize
       THEN pc' = pc     /\ offset' = offset + PageSize
       ELSE pc' = "done" /\ UNCHANGED offset
    /\ UNCHANGED <<table, exists, used, stable, removed, cut>>

\* An empty page ends the listing.
FetchEmpty ==
    /\ pc = "paging" /\ exists
    /\ Page = <<>>
    /\ pc' = "done"
    /\ UNCHANGED <<table, exists, used, stable, removed, cut, offset, out>>

\* An answer from which no rows can be read, although lark-cli exits with 0 (no
\* output, a text, another shape), ends it as well.
FetchUnreadable ==
    /\ pc = "paging"
    /\ pc' = "done"
    /\ cut' = TRUE
    /\ UNCHANGED <<table, exists, used, stable, removed, offset, out>>

\* An error that says not_found: the pages so far are the answer.
FetchNotFound ==
    /\ pc = "paging" /\ ~exists
    /\ pc' = "done"
    /\ UNCHANGED <<table, exists, used, stable, removed, cut, offset, out>>

\* Any other error is raised to the caller.
FetchFails ==
    /\ pc = "paging"
    /\ pc' = "idle"
    /\ UNCHANGED <<table, exists, used, stable, removed, cut, offset, out>>

Change == \/ \E i \in RowIds : AppendRow(i)
          \/ \E k \in DOMAIN table : RemoveRow(k)
          \/ DropTable
Fetch  == FetchPage \/ FetchEmpty \/ FetchUnreadable \/ FetchNotFound \/ FetchFails

Next == Change \/ Begin \/ Fetch

Spec == Init /\ [][Next]_vars

-----------------------------------------------------------------------------
TypeOK ==
    /\ table  \in Seq(RowIds)
    /\ exists \in BOOLEAN
    /\ used   \in SUBSET RowIds
    /\ stable \in SUBSET RowIds
    /\ removed \in Nat
    /\ cut    \in BOOLEAN
    /\ pc     \in {"idle", "paging", "done"}
    /\ offset \in Nat
    /\ out    \in Seq(RowIds)

\* No row is listed twice, whatever is removed between two pages: the sync
\* pairs records and embeddings by position and counts on distinct ids.
NoRowTwice == \A j, k \in DOMAIN out : out[j] = out[k] => j = k

\* A listing during which nothing is removed and every answer has its rows is
\* the table as it was when its last page was read, though rows are added:
\* list_records implements Listing.
Whole == INSTANCE Listing WITH
            answer <- IF pc = "done" /\ removed = 0 /\ ~cut THEN out ELSE NoAnswer
AnswersSnapshot == Whole!Spec

\* list_records says that it returns all rows.  Of those that are there during
\* the whole listing it skips at most one for each removal: a removal shifts
\* at most one of them behind the offset.
SkipsAtMostRemoved == pc = "done" /\ ~cut => Cardinality(stable \ ToSet(out)) <= removed

-----------------------------------------------------------------------------
(* The strengthenings that make these inductive. *)

\* Every row of the table is used, none is there twice, and what was listed
\* is gone or lies before the offset.
TableOK == /\ \A k \in DOMAIN table : table[k] \in used
           /\ \A j, k \in DOMAIN table : table[j] = table[k] => j = k
           /\ \A k \in DOMAIN out : out[k] \in used
Behind  == \A k \in DOMAIN table, j \in DOMAIN out :
              pc = "paging" /\ table[k] = out[j] => k <= offset

\* A table that was dropped has no rows.
Gone == ~exists => table = <<>>

\* Until a row is removed, `out` is the table up to the offset.
Prefix == pc = "paging" /\ removed = 0 => offset <= Len(table) /\ out = SubSeq(table, 1, offset)

\* The rows that a removal moved to or before the offset unlisted are no more
\* than were removed.
Missed == {i \in stable \ ToSet(out) : \E k \in DOMAIN table : k <= offset /\ table[k] = i}
FewMissed == /\ stable \subseteq ToSet(table)
             /\ pc = "paging" => Cardinality(Missed) <= removed
=============================================================================
