------------------------------- MODULE Stores -------------------------------
(* The stores that every service of feishu-memory works on, the tasks that   *)
(* work on them, and what may happen to the stores from outside.             *)
(*                                                                           *)
(*   remote   the Feishu Bitable of one scope (external, the truth)          *)
(*   cache    the SQLite table `records` of that scope, one entry per id     *)
(*   vectors  the LanceDB table of that scope, the chunks of each record     *)
(*   late     the requests to the Bitable that nobody waits for any more     *)
(*                                                                           *)
(* A task is one coroutine that runs a service method to its end.  The tasks *)
(* of a process share an asyncio event loop: every client call blocks the    *)
(* loop (LarkCliRunner.run is subprocess.run), so a task gives the loop up   *)
(* only while the embedding pool computes.  Tasks of different processes (a  *)
(* server and a cron `feishu-memory sync` on one data_dir) interleave at     *)
(* every step, and so does the owner who edits the Bitable in Feishu.        *)
EXTENDS Naturals, Sequences

CONSTANTS
    FeishuIds,   \* record ids that Feishu hands out, never twice
    LocalIds,    \* uuid4 ids that MemoryService.add makes up
    Texts,       \* texts, previews and titles
    Empty,       \* the empty text
    White,       \* a text of white space only, for which add ticks text_empty
    Preview,     \* Preview[t] is t[:200]
    None,        \* no row, no record, no chunk; a null title cell
    OwnerRows,   \* the rows the owner may type into the Bitable
    Clients,     \* tasks that call MemoryService
    Syncs,       \* tasks that call SyncService
    Procs,       \* operating-system processes
    ProcOf,      \* the process of a task
    MaxChurn     \* bound on client calls, owner edits and crashes

Ids   == FeishuIds \cup LocalIds
Tasks == Clients \cup Syncs

\* A Bitable row: the cells `title` and `preview`, the checkbox `text_empty`,
\* and whether the row carries a content_ref_token (a docx that holds the full
\* text).
Row == [title : Texts \cup {None}, preview : Texts, text_empty : BOOLEAN, ref : BOOLEAN]

\* A row of the table `records`.  `title` is NOT NULL; its column `text_empty`
\* only says whether the text is empty.
Rec == [title : Texts, text : Texts, ref : BOOLEAN]

\* A row of the LanceDB table: its `text`, and the text its vector was
\* computed from.
Chunk == [text : Texts, emb : Texts]

\* A write to the Bitable: where the task is that asks for it, the id and the
\* record it is about.
Calling == {"add_bitable", "del_remote", "upd_remote"}
Request == {r \in [at : Calling, id : Ids, rec : Rec \cup {None}] :
              r.at # "del_remote" => r.rec # None}

ASSUME StoresAssumption ==
    /\ FeishuIds \cap LocalIds = {}
    /\ Empty \in Texts /\ White \in Texts /\ Empty # White
    /\ Preview \in [Texts -> Texts]
    /\ None \notin Row /\ None \notin Rec
    /\ None \notin Texts /\ None \notin Ids
    /\ OwnerRows \subseteq Row
    /\ Clients \cap Syncs = {}
    /\ ProcOf \in [Tasks -> Procs]
    /\ MaxChurn \in Nat

VARIABLES
    remote,    \* [FeishuIds -> row or None]
    used,      \* the ids handed out so far (history)
    cache,     \* [Ids -> record or None]
    vectors,   \* [Ids -> sequence of chunks]
    late,      \* requests that Feishu has yet to carry out, or never will
    opened,    \* the processes whose LanceVectorIndex has its table open
    acked,     \* the ids for which MemoryService.delete returned True (history)
    pc,        \* where each task is
    loc,       \* the local variables of each task
    churn      \* how much of MaxChurn is spent

stores == <<remote, used, cache, vectors, late, opened, acked>>
vars   == <<remote, used, cache, vectors, late, opened, acked, pc, loc, churn>>

-----------------------------------------------------------------------------
(* Local variables of a task. *)

Local == [ mode  : {"none", "incremental", "full", "rebuild"},
           id    : Ids \cup {None},
           rec   : Rec \cup {None},
           snap  : [FeishuIds -> Row \cup {None}],  \* `records` of a listing
           known : SUBSET Ids,                      \* `used` at the listing
           done  : Seq(FeishuIds),                  \* ids of `local_records`
           batch : Seq(Texts),                      \* `text_chunks`
           wipe  : SUBSET Ids,                      \* chunks left to delete
           drop  : SUBSET Ids ]                     \* `local_ids - remote_ids`

NoLocal == [ mode |-> "none", id |-> None, rec |-> None,
             snap |-> [i \in FeishuIds |-> None], known |-> {},
             done |-> <<>>, batch |-> <<>>, wipe |-> {}, drop |-> {} ]

PcValues == { "idle",
              "add_bitable", "add_cache", "del_remote", "del_cache",
              "upd_write", "upd_remote",
              "clear", "list", "upsert", "embedding", "vector", "diff",
              "drop", "drop_vector" }

\* A task has the event loop of its process unless it has nothing to do or
\* awaits the embedding pool.
Holding(t)  == pc[t] \notin {"idle", "embedding"}

\* Wrong variant: client calls that do not block the loop.
LoopShared(t) == t \in Tasks

LoopFree(t) == \A u \in Tasks \ {t} : ProcOf[u] = ProcOf[t] => ~Holding(u)

Goto(t, where) == pc' = [pc EXCEPT ![t] = where]

\* The method returns: its locals are gone.
Finish(t) == /\ pc'  = [pc EXCEPT ![t] = "idle"]
             /\ loc' = [loc EXCEPT ![t] = NoLocal]

Spend == /\ churn < MaxChurn
         /\ churn' = churn + 1

-----------------------------------------------------------------------------
(* Conversions. *)

\* The row MemoryService.add sends for a record.
ToRow(rec) == [ title |-> rec.title, preview |-> Preview[rec.text],
                text_empty |-> rec.text = White, ref |-> rec.ref ]

\* _record_from_bitable: the text of the record is the preview cell, or the
\* title when that is empty.  Only applied to rows whose title is not null.
FromBitable(row) ==
    [ title |-> row.title,
      text  |-> IF row.preview = Empty THEN row.title ELSE row.preview,
      ref   |-> row.ref ]

\* `local.text and not local.text_empty`: the record of the row has a text, and
\* the row's own checkbox does not say otherwise.
Embeddable(row) == FromBitable(row).text # Empty /\ ~row.text_empty

\* LocalCache.list_by_filter({}): the ids of the records with a text.
Visible == {i \in Ids : cache[i] # None /\ cache[i].text # Empty}

-----------------------------------------------------------------------------
(* The owner edits the Bitable in Feishu. *)

OwnerCreate(i, row) ==
    /\ i \notin used
    /\ remote' = [remote EXCEPT ![i] = row]
    /\ used' = used \cup {i}

OwnerEdit(i, row) ==
    /\ remote[i] # None
    /\ remote' = [remote EXCEPT ![i] = row]
    /\ UNCHANGED used

OwnerDelete(i) ==
    /\ remote[i] # None
    /\ remote' = [remote EXCEPT ![i] = None]
    /\ UNCHANGED used

Owner ==
    /\ Spend
    /\ \E i \in FeishuIds :
          \/ \E row \in OwnerRows : OwnerCreate(i, row) \/ OwnerEdit(i, row)
          \/ OwnerDelete(i)
    /\ UNCHANGED <<cache, vectors, late, opened, acked, pc, loc>>

-----------------------------------------------------------------------------
(* Requests that outlive the call.  LarkCliRunner.run gives up after 30 s and *)
(* kills lark-cli, and lark-cli outlives a process that dies: either way      *)
(* Feishu may carry the request out afterwards, at any time or never.         *)

RequestOf(t) == [at |-> pc[t], id |-> loc[t].id, rec |-> loc[t].rec]

\* A created row gets an id of its own.
LandCreate(r, i) ==
    /\ r.at = "add_bitable"
    /\ i \notin used
    /\ remote' = [remote EXCEPT ![i] = ToRow(r.rec)]
    /\ used' = used \cup {i}

LandDelete(r) ==
    /\ r.at = "del_remote"
    /\ r.id \in FeishuIds
    /\ remote' = [remote EXCEPT ![r.id] = None]
    /\ UNCHANGED used

LandUpdate(r) ==
    /\ r.at = "upd_remote"
    /\ r.id \in FeishuIds /\ remote[r.id] # None
    /\ remote' = [remote EXCEPT ![r.id].title = r.rec.title]
    /\ UNCHANGED used

Land ==
    /\ \E r \in late :
          /\ late' = late \ {r}
          /\ LandDelete(r) \/ LandUpdate(r) \/ \E i \in FeishuIds : LandCreate(r, i)
    /\ UNCHANGED <<cache, vectors, opened, acked, pc, loc, churn>>

\* A process dies (or is restarted) between any two steps: its tasks and the
\* handle on its vector table are gone, everything committed stays, and what
\* it was asking of Feishu may have been sent.
Crash(p) ==
    /\ Spend
    /\ opened' = opened \ {p}
    /\ pc'  = [t \in Tasks |-> IF ProcOf[t] = p THEN "idle" ELSE pc[t]]
    /\ loc' = [t \in Tasks |-> IF ProcOf[t] = p THEN NoLocal ELSE loc[t]]
    /\ \/ UNCHANGED late
       \/ late' = late \cup
             {RequestOf(t) : t \in {u \in Clients : ProcOf[u] = p /\ pc[u] \in Calling}}
    /\ UNCHANGED <<remote, used, cache, vectors, acked>>

StoresInit ==
    /\ remote  = [i \in FeishuIds |-> None]
    /\ used    = {}
    /\ cache   = [i \in Ids |-> None]
    /\ vectors = [i \in Ids |-> <<>>]
    /\ late    = {}
    /\ opened  = {}
    /\ acked   = {}
    /\ pc      = [t \in Tasks |-> "idle"]
    /\ loc     = [t \in Tasks |-> NoLocal]
    /\ churn   = 0
=============================================================================
