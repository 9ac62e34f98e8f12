----------------------------- MODULE SyncHistory -----------------------------
(* FeishuMemory with a history variable: which syncs have been left alone     *)
(* since they listed the Bitable, without a failure of their own and with     *)
(* nobody else writing to a store.  Of such a sync one can say what it is for. *)
EXTENDS FeishuMemory

VARIABLE alone    \* a set of syncs under way

varsH == <<vars, alone>>

InitH == Init /\ alone = {}

\* What a sync does after its listing when nothing fails.
Proceeds(s) ==
    \/ \E i \in FeishuIds : UpsertRow(s, i)
    \/ Submit(s) \/ Embedded(s) \/ \E i \in Ids : VectorDelete(s, i)
    \/ VectorAdd(s) \/ Diff(s) \/ \E i \in Ids : DropRecord(s, i)
    \/ DropVector(s) \/ SyncEnd(s)

\* Another task takes a step, and leaves what a sync reads and writes.
Waits(s) == UNCHANGED <<remote, cache, vectors, pc[s], loc[s]>>

GoesOn(s) == s \in alone /\ pc'[s] # "idle" /\ (Proceeds(s) \/ Waits(s))

NextH == Next /\ alone' = {s \in Syncs : ListRecords(s) \/ GoesOn(s)}

SpecH == InitH /\ [][NextH]_varsH

FairSpecH == SpecH /\ LoopFairness /\ SyncFairness

-----------------------------------------------------------------------------
\* Every row of the Bitable is cached as it is, with exactly its vector.
RowsMirrored ==
    \A i \in FeishuIds : remote[i] # None =>
        LET rec   == FromBitable(remote[i])
            chunk == [text |-> rec.text, emb |-> rec.text]
        IN  cache[i] = rec /\ (Embeddable(remote[i]) => vectors[i] = <<chunk>>)

\* No visible record is left that Feishu does not have.
NothingElse == \A i \in Visible : i \in FeishuIds /\ remote[i] # None

Ends(s) == Proceeds(s) /\ pc'[s] = "idle"

\* A sync that nobody disturbs and nothing fails does what its mode promises,
\* whatever the cache and the vectors were before: at its end every row is
\* cached with its vector, and after full and rebuild nothing else is.
SyncMirrors ==
    [][\A s \in alone : Ends(s) =>
          RowsMirrored' /\ (loc[s].mode # "incremental" => NothingElse')]_varsH

-----------------------------------------------------------------------------
(* The strengthening that makes it inductive. *)

\* The listing of a sync that acts alone is still true; what it has upserted is
\* cached as listed; what it is to embed has no chunk once that is deleted, and
\* the right one once it is added; what is neither in the listing nor about to
\* be dropped is not visible.
AsListed(s) == \A i \in Upserted(s) : cache[i] = FromBitable(loc[s].snap[i])
Embeds(s, i) == i \in Upserted(s) /\ Embeddable(loc[s].snap[i])
ChunkOf(s, i) == LET text == FromBitable(loc[s].snap[i]).text IN [text |-> text, emb |-> text]

AloneOf(s) ==
    /\ pc[s] \in Importing
    /\ loc[s].snap = remote
    /\ AsListed(s)
    /\ pc[s] \in Importing \ {"upsert"} => Listed(s) \subseteq Upserted(s)
    /\ pc[s] = "vector" =>
          \A i \in Ids : Embeds(s, i) /\ i \notin loc[s].wipe => vectors[i] = <<>>
    /\ pc[s] \in {"diff", "drop", "drop_vector"} =>
          \A i \in Ids : Embeds(s, i) => vectors[i] = <<ChunkOf(s, i)>>
    /\ pc[s] \in {"drop", "drop_vector"} =>
          Visible \subseteq Upserted(s) \cup loc[s].drop /\ loc[s].drop \cap Upserted(s) = {}
    /\ pc[s] = "drop_vector" => loc[s].id \notin Upserted(s)

AloneOK == \A s \in alone : s \in Syncs /\ AloneOf(s)
=============================================================================
