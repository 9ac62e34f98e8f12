------------------------------ MODULE PagedSync ------------------------------
(* SyncService.full over BitableClient.list_records as it is: what the cache   *)
(* gets from a listing that is no snapshot.  The tools of the server add and   *)
(* delete records, in Bitable and in the cache, while the sync of another      *)
(* process goes from page to page.  The import of a listing is one step here   *)
(* (SyncService has its steps).                                                *)
EXTENDS PagedListing

VARIABLES
    cache,    \* the ids of the records in the local cache
    sync      \* where the sync is: "idle", "list" or "import"

varsS == <<vars, cache, sync>>

InitS == Init /\ cache = {} /\ sync = "idle"

SyncStart == sync = "idle" /\ Begin /\ sync' = "list" /\ UNCHANGED cache

\* An error ends the sync; an answer, whatever is in it, is imported.
After == IF pc' = "paging" THEN "list" ELSE IF pc' = "done" THEN "import" ELSE "idle"
SyncFetch == sync = "list" /\ Fetch /\ sync' = After /\ UNCHANGED cache

\* Wrong variant: the sync adds what is listed and removes nothing.
ImportAdds ==
    /\ sync = "import"
    /\ cache' = cache \cup ToSet(out)
    /\ sync' = "idle"
    /\ UNCHANGED vars

\* Upsert what was listed, and delete what was not: local_ids - remote_ids.
Import ==
    /\ sync = "import"
    /\ cache' = ToSet(out)
    /\ sync' = "idle"
    /\ UNCHANGED vars

\* MemoryService.add and delete, when Bitable carries them out: the row and the
\* cached record in one step (MemoryService has them apart).  The owner's changes reach the table alone.
Add(i)    == AppendRow(i) /\ cache' = cache \cup {i} /\ UNCHANGED sync
Delete(k) == RemoveRow(k) /\ cache' = cache \ {table[k]} /\ UNCHANGED sync
OwnerChange == Change /\ UNCHANGED <<cache, sync>>

NextS == \/ SyncStart \/ SyncFetch \/ Import
         \/ (\E i \in RowIds : Add(i)) \/ (\E k \in DOMAIN table : Delete(k))
         \/ OwnerChange

SpecS == InitS /\ [][NextS]_varsS

\* Syncs are started again and again and end; no page fails for ever.
Fairness ==
    /\ WF_varsS(SyncStart) /\ WF_varsS(SyncFetch) /\ WF_varsS(Import)
    /\ \A n \in 0..(Cardinality(RowIds) \div PageSize) :
          SF_varsS(/\ sync = "list" /\ offset = n * PageSize
                   /\ FetchPage \/ FetchEmpty \/ FetchNotFound
                   /\ sync' = After /\ UNCHANGED cache)

FairSpecS == SpecS /\ Fairness

-----------------------------------------------------------------------------
\* What a listing that is no snapshot costs: a full sync whose answers had
\* their rows takes at most as many records out of the cache that Feishu has
\* all the time as rows were removed between its pages.
LosesAtMostRemoved ==
    [][Import /\ ~cut => Cardinality((cache \ cache') \cap stable) <= removed]_varsS

\* The loss is repaired: when the table is left alone (rows run out) and no
\* answer is unreadable any more, the cache in the end has exactly its rows.
EventuallyWhole == <>[]~cut => <>[](cache = ToSet(table))
=============================================================================
