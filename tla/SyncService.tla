----------------------------- MODULE SyncService -----------------------------
(* SyncService: incremental, full and rebuild.  A sync lists the Bitable,    *)
(* upserts every listed row into the cache (each upsert a commit of its      *)
(* own), gives up the event loop while the texts are embedded, writes the    *)
(* chunks, and in modes full and rebuild removes what the listing lacks.     *)
(*                                                                           *)
(* incremental passes last_sync_at to list_records, which ignores it: both   *)
(* modes list every row, so sync_state has no influence and no variable.     *)
(* A listing is one page here; PagedListing models the paging.               *)
EXTENDS Stores

CONSTANTS
    Modes,          \* the modes in use, a subset of the three
    VectorFaults    \* whether LanceDB may fail

ASSUME SyncAssumption == /\ Modes \subseteq {"incremental", "full", "rebuild"}
                         /\ VectorFaults \in BOOLEAN

-----------------------------------------------------------------------------
SyncStart(s, mode) ==
    /\ pc[s] = "idle" /\ LoopFree(s)
    /\ mode \in Modes
    /\ loc' = [loc EXCEPT ![s] = [@ EXCEPT !.mode = mode]]
    /\ Goto(s, IF mode = "rebuild" THEN "clear" ELSE "list")
    /\ UNCHANGED <<stores, churn>>

\* rebuild: clear_all_records.  The vectors stay.
ClearAllRecords(s) ==
    /\ pc[s] = "clear"
    /\ cache' = [i \in Ids |-> None]
    /\ Goto(s, "list")
    /\ UNCHANGED <<remote, used, vectors, late, opened, acked, loc, churn>>

ListRecords(s) ==
    /\ pc[s] = "list"
    /\ loc' = [loc EXCEPT ![s] = [@ EXCEPT !.snap = remote, !.known = used]]
    /\ Goto(s, "upsert")
    /\ UNCHANGED <<stores, churn>>

\* list_records raises: the error is reported and the sync is over.
ListFails(s) ==
    /\ pc[s] = "list"
    /\ Finish(s)
    /\ UNCHANGED <<stores, churn>>

-----------------------------------------------------------------------------
(* _upsert_and_embed *)

Listed(s)   == {i \in FeishuIds : loc[s].snap[i] # None}

Upserted(s) == {loc[s].done[k] : k \in DOMAIN loc[s].done}
Pending(s)  == Listed(s) \ Upserted(s)

\* Wrong variants: null titles are let through; the texts are collected from
\* the other end.
UpsertAnyRow(s, i) ==
    /\ pc[s] = "upsert"
    /\ i \in Pending(s)
    /\ cache' = [cache EXCEPT ![i] = FromBitable(loc[s].snap[i])]
    /\ loc' = [loc EXCEPT ![s] = [@ EXCEPT !.done = Append(@, i)]]
    /\ UNCHANGED <<remote, used, vectors, late, opened, acked, pc, churn>>
UpsertRowBackwards(s, i) ==
    LET rec == FromBitable(loc[s].snap[i]) IN
    /\ pc[s] = "upsert"
    /\ i \in Pending(s)
    /\ loc[s].snap[i].title # None
    /\ cache' = [cache EXCEPT ![i] = rec]
    /\ loc' = [loc EXCEPT ![s] = [@ EXCEPT
                 !.done  = Append(loc[s].done, i),
                 !.batch = IF Embeddable(loc[s].snap[i]) THEN <<rec.text>> \o loc[s].batch
                           ELSE loc[s].batch]]
    /\ UNCHANGED <<remote, used, vectors, late, opened, acked, pc, churn>>

\* The next row of the listing, whatever its order, goes to the cache.
UpsertRow(s, i) ==
    LET rec == FromBitable(loc[s].snap[i]) IN
    /\ pc[s] = "upsert"
    /\ i \in Pending(s)
    /\ loc[s].snap[i].title # None
    /\ cache' = [cache EXCEPT ![i] = rec]
    /\ loc' = [loc EXCEPT ![s] = [@ EXCEPT
                 !.done  = Append(loc[s].done, i),
                 !.batch = IF Embeddable(loc[s].snap[i]) THEN Append(loc[s].batch, rec.text)
                           ELSE loc[s].batch]]
    /\ UNCHANGED <<remote, used, vectors, late, opened, acked, pc, churn>>

\* A null title breaks NOT NULL: the IntegrityError leaves the sync, with the
\* rows before it committed and the rows after it untouched.
UpsertRaises(s, i) ==
    /\ pc[s] = "upsert"
    /\ i \in Pending(s)
    /\ loc[s].snap[i].title = None
    /\ Finish(s)
    /\ UNCHANGED <<stores, churn>>

\* Wrong variant: full and rebuild skip their diff.
ReturnWithoutDiff(s) == Finish(s)

\* What follows _upsert_and_embed: the diff, except in incremental.
Return(s) == IF loc[s].mode = "incremental"
             THEN Finish(s)
             ELSE Goto(s, "diff") /\ UNCHANGED loc

\* Wrong variant: the texts are embedded before the last row is upserted.
SubmitEarly(s) ==
    /\ pc[s] = "upsert"
    /\ IF loc[s].batch = <<>> THEN Return(s) ELSE Goto(s, "embedding") /\ UNCHANGED loc
    /\ UNCHANGED <<stores, churn>>

\* All rows are upserted: the texts go to the embedding pool, if there are any.
Submit(s) ==
    /\ pc[s] = "upsert"
    /\ Pending(s) = {}
    /\ IF loc[s].batch = <<>> THEN Return(s) ELSE Goto(s, "embedding") /\ UNCHANGED loc
    /\ UNCHANGED <<stores, churn>>

\* zip(local_records, embeddings): the k-th record of the listing is given the
\* k-th embedding, although only embeddable records have one; the records past
\* the last embedding are dropped.
Chunks(s) ==
    LET done == loc[s].done
        Rc(k) == FromBitable(loc[s].snap[done[k]])
        Zipped == {k \in DOMAIN done :
                     k <= Len(loc[s].batch) /\ Embeddable(loc[s].snap[done[k]])}
    IN  [i \in {done[k] : k \in Zipped} |->
           LET k == CHOOSE n \in Zipped : done[n] = i
           IN  [text |-> Rc(k).text, emb |-> loc[s].batch[k]]]

\* The embeddings are there and the event loop resumes the sync.
Embedded(s) ==
    /\ pc[s] = "embedding" /\ LoopFree(s)
    /\ loc' = [loc EXCEPT ![s] = [@ EXCEPT !.wipe = DOMAIN Chunks(s)]]
    /\ Goto(s, "vector")
    /\ UNCHANGED <<stores, churn>>

\* embed raises: no chunk is written, the sync goes on.
EmbedFails(s) ==
    /\ pc[s] = "embedding" /\ LoopFree(s)
    /\ Return(s)
    /\ UNCHANGED <<stores, churn>>

(* LanceVectorIndex.upsert: opens the table, deletes the chunk of every       *)
(* record, one commit each, and adds all the new chunks in one more.          *)

\* Wrong variant: the old chunk is left to the new one.
VectorKeep(s, i) ==
    /\ pc[s] = "vector"
    /\ i \in loc[s].wipe
    /\ opened' = opened \cup {ProcOf[s]}
    /\ loc' = [loc EXCEPT ![s] = [@ EXCEPT !.wipe = loc[s].wipe \ {i}]]
    /\ UNCHANGED <<remote, used, cache, vectors, late, acked, pc, churn>>

VectorDelete(s, i) ==
    /\ pc[s] = "vector"
    /\ i \in loc[s].wipe
    /\ vectors' = [vectors EXCEPT ![i] = <<>>]
    /\ opened' = opened \cup {ProcOf[s]}
    /\ loc' = [loc EXCEPT ![s] = [@ EXCEPT !.wipe = loc[s].wipe \ {i}]]
    /\ UNCHANGED <<remote, used, cache, late, acked, pc, churn>>

\* A delete that raises is skipped: the old chunk stays beside the new one.
VectorDeleteFails(s, i) ==
    /\ VectorFaults
    /\ pc[s] = "vector"
    /\ i \in loc[s].wipe
    /\ Spend
    /\ opened' = opened \cup {ProcOf[s]}
    /\ loc' = [loc EXCEPT ![s] = [@ EXCEPT !.wipe = loc[s].wipe \ {i}]]
    /\ UNCHANGED <<remote, used, cache, vectors, late, acked, pc>>

VectorAdd(s) ==
    /\ pc[s] = "vector"
    /\ loc[s].wipe = {}
    /\ vectors' = [i \in Ids |-> IF i \in DOMAIN Chunks(s) THEN Append(vectors[i], Chunks(s)[i])
                                ELSE vectors[i]]
    /\ Return(s)
    /\ UNCHANGED <<remote, used, cache, late, opened, acked, churn>>

\* The table cannot be opened, or the add after the deletes raises and leaves
\* the records without a chunk; the error is reported and the sync goes on.
VectorFails(s) ==
    /\ VectorFaults
    /\ pc[s] = "vector"
    /\ loc[s].wipe \in {{}, DOMAIN Chunks(s)}
    /\ Return(s)
    /\ UNCHANGED <<stores, churn>>

-----------------------------------------------------------------------------
(* The diff of full and rebuild. *)

Diff(s) ==
    /\ pc[s] = "diff"
    /\ loc' = [loc EXCEPT ![s] = [@ EXCEPT !.drop = Visible \ Upserted(s)]]
    /\ Goto(s, "drop")
    /\ UNCHANGED <<stores, churn>>

DropRecord(s, i) ==
    /\ pc[s] = "drop"
    /\ i \in loc[s].drop
    /\ cache' = [cache EXCEPT ![i] = None]
    /\ loc' = [loc EXCEPT ![s] = [@ EXCEPT !.id = i, !.drop = loc[s].drop \ {i}]]
    /\ Goto(s, "drop_vector")
    /\ UNCHANGED <<remote, used, vectors, late, opened, acked, churn>>

\* delete_by_record does nothing before this process has opened its table.
DropVector(s) ==
    /\ pc[s] = "drop_vector"
    /\ vectors' = IF ProcOf[s] \in opened THEN [vectors EXCEPT ![loc[s].id] = <<>>] ELSE vectors
    /\ Goto(s, "drop")
    /\ UNCHANGED <<remote, used, cache, late, opened, acked, loc, churn>>

SyncEnd(s) ==
    /\ pc[s] = "drop"
    /\ loc[s].drop = {}
    /\ Finish(s)
    /\ UNCHANGED <<stores, churn>>

-----------------------------------------------------------------------------
Resume(s) == Embedded(s) \/ EmbedFails(s)

SyncStep(s) ==
    \/ ClearAllRecords(s) \/ ListRecords(s) \/ ListFails(s)
    \/ \E i \in FeishuIds : UpsertRow(s, i) \/ UpsertRaises(s, i)
    \/ Submit(s) \/ Resume(s) \/ VectorAdd(s) \/ VectorFails(s)
    \/ \E i \in Ids : VectorDelete(s, i) \/ VectorDeleteFails(s, i)
    \/ Diff(s) \/ \E i \in Ids : DropRecord(s, i)
    \/ DropVector(s) \/ SyncEnd(s)
=============================================================================
