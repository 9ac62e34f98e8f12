---------------------------- MODULE FeishuMemory ----------------------------
(* One scope of the system: clients of MemoryService, syncs, the owner and   *)
(* crashes over the shared stores, and what must hold of them.               *)
EXTENDS MemoryService, SyncService, FiniteSets

Init == StoresInit

Next ==
    \/ \E c \in Clients : ClientStart(c) \/ ClientStep(c)
    \/ \E s \in Syncs : SyncStep(s) \/ \E mode \in Modes : SyncStart(s, mode)
    \/ Owner \/ Land
    \/ \E p \in Procs : Crash(p)

Spec == Init /\ [][Next]_vars

\* The loop runs what it has begun; asyncio resumes ready coroutines in FIFO
\* order, so one that waits for the loop gets it although others start (strong
\* fairness of Resume).  Nothing makes a client call, an edit or a crash happen.
LoopFairness ==
    /\ \A c \in Clients : WF_vars(ClientStep(c))
    /\ \A s \in Syncs : WF_vars(SyncStep(s)) /\ SF_vars(Resume(s))

\* Syncs of every mode in use are started again and again (cron, memory_sync,
\* startup), and neither Feishu nor the embedding model fails a mode for ever.
SyncFairness ==
    \A mode \in Modes :
        /\ SF_vars(\E s \in Syncs : SyncStart(s, mode))
        /\ \A s \in Syncs : /\ SF_vars(loc[s].mode = mode /\ ListRecords(s))
                            /\ SF_vars(loc[s].mode = mode /\ Embedded(s))

FairSpec == Spec /\ LoopFairness /\ SyncFairness

-----------------------------------------------------------------------------
TypeOK ==
    /\ remote  \in [FeishuIds -> Row \cup {None}]
    /\ used    \in SUBSET Ids
    /\ cache   \in [Ids -> Rec \cup {None}]
    /\ vectors \in [Ids -> Seq(Chunk)]
    /\ late    \in SUBSET Request
    /\ opened  \in SUBSET Procs
    /\ acked   \in SUBSET Ids
    /\ pc      \in [Tasks -> PcValues]
    /\ loc     \in [Tasks -> Local]
    /\ churn   \in 0..MaxChurn

-----------------------------------------------------------------------------
(* Safety. *)

\* A record whose deletion was acknowledged is gone for good: no sync that
\* listed it before, no late write of an add or an update brings it back to
\* the cache, and Feishu no longer has it (MemoryService.delete; memory_delete
\* is documented as permanent).
NoResurrection == \A i \in acked : cache[i] = None /\ (i \in FeishuIds => remote[i] = None)

\* A sync takes a record that Feishu has out of the cache only to import it
\* anew (rebuild) or when the row is younger than the sync's listing: the diff
\* of SyncService.full never removes a record that was listed.
SyncDropsOnlyTheGone ==
    [][\A i \in FeishuIds :
          cache[i] # None /\ cache'[i] = None /\ remote[i] # None =>
             \E s \in Syncs : \/ pc[s] = "clear"
                              \/ pc[s] = "drop" /\ i \notin loc[s].known]_vars

\* Every vector of a record was computed from the text stored beside it: the
\* zip in _upsert_and_embed pairs every record with its own embedding.
EmbeddingMatchesText ==
    \A i \in Ids : \A k \in DOMAIN vectors[i] : vectors[i][k].emb = vectors[i][k].text

\* Syncs that delete and add the chunk of one record at the same time may leave
\* several, which a search then counts as several hits: never more than one of
\* each process that syncs, and one for each delete that LanceDB refused.
ChunksBounded ==
    \A i \in Ids : Len(vectors[i]) <=
        Cardinality(Procs) + (IF VectorFaults THEN churn ELSE 0)

-----------------------------------------------------------------------------
(* Liveness. *)

\* A sync has deleted the chunk of a record and is about to add the new one:
\* for so long a search does not find the record by its vector.
Replaces(s, i) == pc[s] = "vector" /\ i \in DOMAIN Chunks(s) \ loc[s].wipe
Replacing(i)   == \E s \in Syncs : Replaces(s, i)

\* The cache mirrors the Bitable: every row is cached as it is, with exactly
\* its vector, and no visible record is left that Feishu does not have.
Mirrors ==
    /\ \A i \in FeishuIds : remote[i] # None =>
          LET rec   == FromBitable(remote[i])
              chunk == [text |-> rec.text, emb |-> rec.text]
          IN  /\ cache[i] = rec
              /\ Embeddable(remote[i]) =>
                    (vectors[i] = <<chunk>> \/ (vectors[i] = <<>> /\ Replacing(i)))
    /\ \A i \in Visible : i \in FeishuIds /\ remote[i] # None

\* Syncs of different processes are at work at the same time.
Overlap == \E s, t \in Syncs : ProcOf[s] # ProcOf[t] /\ pc[s] # "idle" /\ pc[t] # "idle"

\* Once clients, the owner, crashes and late requests leave the stores alone,
\* and the syncs of different processes no longer run into each other, they
\* make the cache a mirror of Feishu and keep it one, and the duplicates of the
\* time before are gone (the local cache is disposable).
EventuallyMirrors == <>[]~Overlap => <>[]Mirrors

-----------------------------------------------------------------------------
(* The strengthening that makes the safety properties inductive. *)

\* A task in the middle of a call knows its record and its id; what it has
\* upserted (`local_records`) are listed rows with a title.
LocalOK(at, l) ==
    /\ at = "idle" => l = NoLocal
    /\ at \in {"clear", "list"} => l.done = <<>>
    /\ at \in {"add_bitable", "add_cache", "upd_write", "upd_remote"} => l.rec # None
    /\ at \in {"add_bitable", "add_cache", "upd_write", "upd_remote",
               "del_remote", "del_cache", "drop_vector"} => l.id # None
    /\ \A k \in DOMAIN l.done :
          l.snap[l.done[k]] # None /\ l.snap[l.done[k]].title # None

LocalsOK == \A t \in Tasks : LocalOK(pc[t], loc[t])

\* No id is in Feishu or in a listing before it is handed out ...
UsedOK == /\ \A i \in FeishuIds : remote[i] # None => i \in used
          /\ \A t \in Tasks : loc[t].known \subseteq used

\* ... and a row that is gone does not come back: Feishu reuses no id.
NoReturn == /\ used \subseteq used'
            /\ \A i \in FeishuIds \cap used : remote[i] = None => remote'[i] = None

\* Between the two halves of a delete Bitable no longer has the row.
HalfDeleted == \A t \in Tasks : pc[t] = "del_cache" =>
    loc[t].id \in FeishuIds /\ loc[t].id \in used /\ remote[loc[t].id] = None

\* A listing has every row that is older than it and still there; past the
\* loop all of it is upserted; the diff spares what was upserted.
Importing == {"upsert", "embedding", "vector", "diff", "drop", "drop_vector"}
ListingOf(s) ==
    /\ pc[s] \in Importing =>
          \A i \in FeishuIds : i \in loc[s].known /\ remote[i] # None => loc[s].snap[i] # None
    /\ pc[s] \in Importing \ {"upsert"} => Listed(s) \subseteq Upserted(s)
    /\ pc[s] \in {"drop", "drop_vector"} => loc[s].drop \cap Upserted(s) = {}
ListingOK == \A s \in Syncs : ListingOf(s)

\* The loop of a process runs one task.
OneHolder == \A t, u \in Tasks :
    t # u /\ ProcOf[t] = ProcOf[u] => ~(Holding(t) /\ Holding(u))

\* What a task is about to write to the cache was not deleted.
NoLateWrite == \A t \in Tasks :
    /\ pc[t] \in {"add_bitable", "add_cache", "upd_write"} => loc[t].id \notin acked
    /\ pc[t] = "add_bitable" => loc[t].id \in LocalIds
    /\ pc[t] = "upsert" => Listed(t) \cap acked = {}

\* Only rows of Feishu can be deleted through MemoryService.
AckedOK == acked \subseteq FeishuIds /\ acked \subseteq used

\* A process is about to add a chunk of a record, which it has deleted or failed
\* to delete: with what it will add the chunks are still no more than
\* ChunksBounded says.
Adders(i) == {p \in Procs : \E s \in Syncs : ProcOf[s] = p /\ Replaces(s, i)}
CountOf(i) == Len(vectors[i]) + Cardinality(Adders(i)) <=
                  Cardinality(Procs) + (IF VectorFaults THEN churn ELSE 0)
ChunksCounted == \A i \in Ids : CountOf(i)

\* Feishu has no row without a text and none whose `text_empty` is ticked:
\* `text_chunks` then has one entry for every entry of `local_records`.
NoBlankRow == \A i \in FeishuIds :
    remote[i] # None /\ remote[i].title # None => Embeddable(remote[i])

\* The texts a sync has collected are those of its records, one by one.
BatchOf(s) ==
    /\ \A i \in FeishuIds : loc[s].snap[i] # None /\ loc[s].snap[i].title # None =>
                               Embeddable(loc[s].snap[i])
    /\ Len(loc[s].batch) = Len(loc[s].done)
    /\ \A k \in DOMAIN loc[s].done :
          loc[s].batch[k] = FromBitable(loc[s].snap[loc[s].done[k]]).text
BatchOK == \A s \in Syncs : BatchOf(s)

-----------------------------------------------------------------------------
(* What the documentation says and the code does not do. *)

\* operations.md on full: it preserves local data and removes only the diff; a
\* record that Feishu has is in no diff.
FullPreservesLocal ==
    [][\A i \in FeishuIds : cache[i] # None /\ remote[i] # None => cache'[i] # None]_vars
=============================================================================
