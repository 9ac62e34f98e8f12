----------------------------- MODULE MemoryTools -----------------------------
(* The MCP tool memory_list as an agent sees it: pages asked for one after    *)
(* the other while the rest of the server writes the cache, and another       *)
(* process (a sync by cron) between any two reads of one page.                *)
EXTENDS Naturals, Sequences, FiniteSets, SequencesExt

CONSTANTS
    Ids,
    PageSize,
    MaxTime,    \* bound on the clock
    MaxMoves    \* bound on `moved`

ASSUME ToolsAssumption == PageSize \in Nat \ {0} /\ MaxTime \in Nat /\ MaxMoves \in Nat

VARIABLES
    rows,       \* the ids as list_by_filter({}) scans them: by rowid
    stamp,      \* updated_at, in seconds
    clock,
    pc,         \* "idle", "paging", "get", or "done" when has_more was false
    page,
    ids,        \* `ids` of the page, for which records are got
    got,        \* how many of them
    items,      \* the summaries of the page so far: id and updated_at
    listed,     \* the items of the pages so far
    stable,     \* cached and unchanged since the listing began (history)
    moved       \* how often a cached record was written or deleted since (history)

call == <<pc, page, ids, got, items, listed>>
vars == <<rows, stamp, clock, call, stable, moved>>

Init == /\ rows = <<>> /\ stamp = [i \in Ids |-> 0] /\ clock = 0
        /\ pc = "idle" /\ page = 1 /\ ids = <<>> /\ got = 0 /\ items = <<>>
        /\ listed = <<>> /\ stable = {} /\ moved = 0

-----------------------------------------------------------------------------
(* The cache: an upsert gives a record a new rowid, the largest.              *)

Without(i) ==
    IF i \in ToSet(rows) THEN RemoveAt(rows, CHOOSE k \in DOMAIN rows : rows[k] = i) ELSE rows

Listing == pc \in {"paging", "get"}
Moved(i) == moved' = IF Listing /\ i \in ToSet(rows) THEN moved + 1 ELSE moved

Upsert(i) ==
    /\ Listing /\ i \in ToSet(rows) => moved < MaxMoves
    /\ rows' = Append(Without(i), i)
    /\ stamp' = [stamp EXCEPT ![i] = clock]
    /\ stable' = stable \ {i}
    /\ Moved(i)
    /\ UNCHANGED <<clock, call>>

Drop(i) ==
    /\ Listing /\ i \in ToSet(rows) => moved < MaxMoves
    /\ rows' = Without(i)
    /\ stable' = stable \ {i}
    /\ Moved(i)
    /\ UNCHANGED <<stamp, clock, call>>

Tick == /\ clock < MaxTime
        /\ clock' = clock + 1
        /\ UNCHANGED <<rows, stamp, call, stable, moved>>

-----------------------------------------------------------------------------
(* memory_list *)

ListBegin ==
    /\ ~Listing
    /\ pc' = "paging" /\ page' = 1 /\ listed' = <<>>
    /\ stable' = ToSet(rows) /\ moved' = 0
    /\ UNCHANGED <<rows, stamp, clock, ids, got, items>>

\* Wrong variant: the next page starts after a row too many.
PageIdsSkipping ==
    LET start == (page - 1) * (PageSize + 1)
        end   == start + PageSize
    IN  SubSeq(rows, start + 1, IF end < Len(rows) THEN end ELSE Len(rows))

\* MemoryService.list: ids[start:end]
PageIds ==
    LET start == (page - 1) * PageSize
        end   == start + PageSize
    IN  SubSeq(rows, start + 1, IF end < Len(rows) THEN end ELSE Len(rows))

ListIds ==
    /\ pc = "paging"
    /\ pc' = "get" /\ ids' = PageIds /\ got' = 0 /\ items' = <<>>
    /\ UNCHANGED <<rows, stamp, clock, page, listed, stable, moved>>

\* A record that is no longer there has no summary.
Get ==
    /\ pc = "get" /\ got < Len(ids)
    /\ LET id == ids[got + 1] IN
       items' = IF id \in ToSet(rows) THEN Append(items, [id |-> id, updated_at |-> stamp[id]])
                                      ELSE items
    /\ got' = got + 1
    /\ UNCHANGED <<rows, stamp, clock, pc, page, ids, listed, stable, moved>>

\* _sort_summaries by updated_at, descending: within the page, and stable.
Before(j, k) ==
    \/ items[j].updated_at > items[k].updated_at
    \/ items[j].updated_at = items[k].updated_at /\ j < k
Sorted ==
    LET order == CHOOSE p \in SetToSeqs(DOMAIN items) :
                    \A j, k \in DOMAIN p : j < k => Before(p[j], p[k])
    IN  [k \in DOMAIN order |-> items[order[k]].id]

\* Wrong variant: a page with fewer items than asked for is taken for the last.
HasMoreByItems == Len(items) >= PageSize

HasMore == Len(ids) >= PageSize

ListPage ==
    /\ pc = "get" /\ got = Len(ids)
    /\ listed' = listed \o Sorted
    /\ IF HasMore
       THEN pc' = "paging" /\ page' = page + 1
       ELSE pc' = "done" /\ UNCHANGED page
    /\ ids' = <<>> /\ got' = 0 /\ items' = <<>>
    /\ UNCHANGED <<rows, stamp, clock, stable, moved>>

Next == \/ \E i \in Ids : Upsert(i) \/ Drop(i)
        \/ Tick \/ ListBegin \/ ListIds \/ Get \/ ListPage

Spec == Init /\ [][Next]_vars

-----------------------------------------------------------------------------
\* If no cached record is written while they are asked for, the pages list
\* every record that was there when the listing began, and none twice: a page
\* is short only when it is the last, and records that are added come behind
\* all that were there, although each page is sorted by itself.
PagesPartition ==
    moved = 0 =>
        /\ \A j, k \in DOMAIN listed : listed[j] = listed[k] => j = k
        /\ pc = "done" => stable \subseteq ToSet(listed)

\* Each record that is written or deleted meanwhile, between two pages or while
\* one is put together, costs the listing at most one that is not
\* (tool-reference.md pages through "all" entries).
SkipsAtMostMoved ==
    pc = "done" => Cardinality(stable \ ToSet(listed)) <= moved

-----------------------------------------------------------------------------
(* The strengthening that makes them inductive. *)

TypeOK ==
    /\ rows \in Seq(Ids) /\ stamp \in [Ids -> Nat] /\ clock \in Nat
    /\ pc \in {"idle", "paging", "get", "done"} /\ page \in Nat \ {0}
    /\ ids \in Seq(Ids) /\ Len(ids) <= PageSize /\ got \in 0..Len(ids)
    /\ items \in Seq([id : Ids, updated_at : Nat]) /\ listed \in Seq(Ids)
    /\ stable \in SUBSET Ids /\ moved \in Nat

\* The id is the primary key of the cache; what is stable is still in it.
RowsOK == /\ \A j, k \in DOMAIN rows : rows[j] = rows[k] => j = k
          /\ IsFiniteSet(stable)
          /\ Listing => stable \subseteq ToSet(rows)

\* The rows asked for so far are those of the first places, the ones of the
\* page in hand included.
Start   == (page - 1) * PageSize
Asked   == IF pc = "get" THEN Start + PageSize ELSE Start
First(n) == {rows[k] : k \in {j \in DOMAIN rows : j <= n}}

\* A stable record in those places that is in no page slipped into its place
\* from a later one when a record before it was written or deleted.
Slipped == (stable \cap First(Asked)) \ (ToSet(listed) \cup ToSet(ids))
SlippedOK ==
    /\ Listing => Cardinality(Slipped) <= moved
    /\ pc = "get" /\ ~HasMore => stable \subseteq First(Asked)
    /\ pc # "get" => ids = <<>> /\ got = 0 /\ items = <<>>

\* What is stable is there when its summary is made.
ItemsOK == \A k \in 1..got : ids[k] \in stable => \E m \in DOMAIN items : items[m].id = ids[k]

\* While nothing moves the pages are the rows, place by place.
Distinct(s) == \A j, k \in DOMAIN s : s[j] = s[k] => j = k
InPlace ==
    moved = 0 =>
        /\ Distinct(listed)
        /\ Listing => ToSet(listed) \subseteq First(Start)
        /\ pc = "get" => \A k \in DOMAIN ids : Start + k \in DOMAIN rows /\ ids[k] = rows[Start + k]
        /\ Distinct([m \in DOMAIN items |-> items[m].id])
        /\ \A m \in DOMAIN items : \E k \in 1..got : items[m].id = ids[k]

PagesInv == TypeOK /\ RowsOK /\ SlippedOK /\ ItemsOK /\ InPlace
=============================================================================
