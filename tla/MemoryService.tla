---------------------------- MODULE MemoryService ----------------------------
(* MemoryService: add, delete and update as the steps between which another  *)
(* process, the owner or a crash can act.  Inside one process a call is not  *)
(* interrupted: its clients block the event loop.                            *)
EXTENDS Stores

CONSTANTS
    AddTexts,    \* the texts clients add; validation refuses the empty one
    Titles       \* the titles clients give

ASSUME ClientAssumption == AddTexts \subseteq Texts \ {Empty} /\ Titles \subseteq Texts

-----------------------------------------------------------------------------
\* The runner stops waiting for a call that Feishu may yet carry out.
GiveUp(c) == late' = late \cup {RequestOf(c)}

-----------------------------------------------------------------------------
(* add *)

\* A uuid is drawn up front; the docx is created first, best effort: ok is
\* whether it yields a token.
AddStart(c, u, text, title, ok) ==
    /\ pc[c] = "idle" /\ LoopFree(c)
    /\ Spend
    /\ u \in LocalIds \ used
    /\ used' = used \cup {u}
    /\ loc' = [loc EXCEPT ![c] = [@ EXCEPT
                 !.id = u, !.rec = [title |-> title, text |-> text, ref |-> ok]]]
    /\ Goto(c, "add_bitable")
    /\ UNCHANGED <<remote, cache, vectors, late, opened, acked>>

\* Bitable creates the row and the answer carries its id.
CreateRecord(c, i) ==
    /\ pc[c] = "add_bitable"
    /\ i \in FeishuIds \ used
    /\ remote' = [remote EXCEPT ![i] = ToRow(loc[c].rec)]
    /\ used' = used \cup {i}
    /\ loc' = [loc EXCEPT ![c] = [@ EXCEPT !.id = i]]
    /\ Goto(c, "add_cache")
    /\ UNCHANGED <<cache, vectors, late, opened, acked, churn>>

\* create_record raises, and nothing was created: the record keeps its uuid.
CreateFails(c) ==
    /\ pc[c] = "add_bitable"
    /\ Goto(c, "add_cache")
    /\ UNCHANGED <<stores, loc, churn>>

\* The answer does not come in time, or no id can be read from it: the record
\* keeps its uuid, and the row, if it is created, is nobody's.
CreateTimesOut(c) ==
    /\ pc[c] = "add_bitable"
    /\ GiveUp(c)
    /\ Goto(c, "add_cache")
    /\ UNCHANGED <<remote, used, cache, vectors, opened, acked, loc, churn>>

AddCache(c) ==
    /\ pc[c] = "add_cache"
    /\ cache' = [cache EXCEPT ![loc[c].id] = loc[c].rec]
    /\ Finish(c)
    /\ UNCHANGED <<remote, used, vectors, late, opened, acked, churn>>

-----------------------------------------------------------------------------
(* delete: Bitable first, then the cache; a failure leaves the cache alone. *)

DeleteStart(c, i) ==
    /\ pc[c] = "idle" /\ LoopFree(c)
    /\ cache[i] # None
    /\ Spend
    /\ loc' = [loc EXCEPT ![c] = [@ EXCEPT !.id = i]]
    /\ Goto(c, "del_remote")
    /\ UNCHANGED stores

DeleteRemote(c) ==
    /\ pc[c] = "del_remote"
    /\ loc[c].id \in FeishuIds /\ remote[loc[c].id] # None
    /\ remote' = [remote EXCEPT ![loc[c].id] = None]
    /\ Goto(c, "del_cache")
    /\ UNCHANGED <<used, cache, vectors, late, opened, acked, loc, churn>>

\* delete_record returns False: refused, unreachable, or no such row.
DeleteFails(c) ==
    /\ pc[c] = "del_remote"
    /\ Finish(c)
    /\ UNCHANGED <<stores, churn>>

\* The answer does not come in time: delete returns False all the same.
DeleteTimesOut(c) ==
    /\ pc[c] = "del_remote"
    /\ GiveUp(c)
    /\ Finish(c)
    /\ UNCHANGED <<remote, used, cache, vectors, opened, acked, churn>>

DeleteCache(c) ==
    /\ pc[c] = "del_cache"
    /\ cache' = [cache EXCEPT ![loc[c].id] = None]
    /\ acked' = acked \cup {loc[c].id}
    /\ Finish(c)
    /\ UNCHANGED <<remote, used, vectors, late, opened, churn>>

-----------------------------------------------------------------------------
(* update of the title: the cache first, then Bitable, best effort. *)

\* update_metadata reads the record ...
UpdateStart(c, i, title) ==
    /\ pc[c] = "idle" /\ LoopFree(c)
    /\ cache[i] # None
    /\ Spend
    /\ loc' = [loc EXCEPT ![c] = [@ EXCEPT
                 !.id = i, !.rec = [cache[i] EXCEPT !.title = title]]]
    /\ Goto(c, "upd_write")
    /\ UNCHANGED stores

\* ... and upserts what it read with the new title.
UpdateWrite(c) ==
    /\ pc[c] = "upd_write"
    /\ cache' = [cache EXCEPT ![loc[c].id] = loc[c].rec]
    /\ Goto(c, "upd_remote")
    /\ UNCHANGED <<remote, used, vectors, late, opened, acked, loc, churn>>

UpdateRemote(c) ==
    /\ pc[c] = "upd_remote"
    /\ loc[c].id \in FeishuIds /\ remote[loc[c].id] # None
    /\ remote' = [remote EXCEPT ![loc[c].id].title = loc[c].rec.title]
    /\ Finish(c)
    /\ UNCHANGED <<used, cache, vectors, late, opened, acked, churn>>

\* batch_update raises; the error is logged and the call succeeds.
UpdateFails(c) ==
    /\ pc[c] = "upd_remote"
    /\ Finish(c)
    /\ UNCHANGED <<stores, churn>>

\* The answer does not come in time: the call succeeds too.
UpdateTimesOut(c) ==
    /\ pc[c] = "upd_remote"
    /\ GiveUp(c)
    /\ Finish(c)
    /\ UNCHANGED <<remote, used, cache, vectors, opened, acked, churn>>

-----------------------------------------------------------------------------
ClientStart(c) ==
    \/ \E u \in LocalIds, text \in AddTexts, title \in Titles, ok \in BOOLEAN :
          AddStart(c, u, text, title, ok)
    \/ \E i \in Ids : DeleteStart(c, i)
    \/ \E i \in Ids, title \in Titles : UpdateStart(c, i, title)

ClientStep(c) ==
    \/ \E i \in FeishuIds : CreateRecord(c, i)
    \/ CreateFails(c) \/ CreateTimesOut(c) \/ AddCache(c)
    \/ DeleteRemote(c) \/ DeleteFails(c) \/ DeleteTimesOut(c) \/ DeleteCache(c)
    \/ UpdateWrite(c) \/ UpdateRemote(c) \/ UpdateFails(c) \/ UpdateTimesOut(c)
=============================================================================
