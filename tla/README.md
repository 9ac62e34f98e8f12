# Verification of feishu-memory-mcp

TLA+ models of `src/mcp_memory`, TLC configurations that check them on small
instances, and TLAPS proofs for every value of the constants. Source paths
below are relative to `src/mcp_memory/` unless they start with `docs/`.

## 1. The system and its parts

feishu-memory-mcp keeps the memories of LLM agents in a Feishu Bitable and
mirrors them into a local SQLite file (`records`, `record_tags`, FTS5) and a
LanceDB table, one set per *scope* (memory, knowledge). An MCP server offers
nine tools; a CLI runs syncs, possibly from cron beside the server on the same
`data_dir`. All Feishu calls are subprocesses (`lark-cli`).

| Part | State | Operations | Calls / is called by | What is hard | What makes it correct |
|---|---|---|---|---|---|
| `services/memory_service.py` | none of its own | add, update, delete, get, list, count | LocalCache, BitableClient, DocxClient; called by the server | refused and lost answers, a crash between Bitable and cache, syncs in other processes | a deletion that is acknowledged is final; records written locally are not lost |
| `services/sync_service.py` | `sync_state` times | incremental, full, rebuild | BitableClient, LocalCache, EmbeddingEngine, VectorIndex; called by server, CLI, bootstrap | the listing is stale after the `await` on the embedding; positional zip; rows that raise | the diff removes nothing that Feishu listed and has; vectors belong to their texts; repeated syncs converge |
| `storage/local_cache.py`, `schema.sql` | tables, FTS postings, rowids | upsert, update_metadata, delete, clear, filters, search_fts | SQLite; called by all services | autocommit statement by statement, REPLACE and triggers, two processes, crashes | calls atomic for readers, records findable, tags owned |
| `index/vector_index.py` | LanceDB table, open handle | upsert, delete_by_record, search | LanceDB; called by sync and search | delete-then-add, `delete_by_record` before the table is open | see sync and search |
| `index/embedding_engine.py`, `reranker.py` | model, thread pool | embed, rerank | called by sync and search | the only points where the event loop is free | see sync and search |
| `index/rrf_merger.py`, `services/search_service.py` | none | query in four modes | LocalCache, VectorIndex, pools | cache and vectors change during the awaits; indices into stale documents | scores belong to results; fusion agrees with what both rankings say |
| `feishu/bitable.py` | none | list (paged), create, update, delete | LarkCliRunner | rows come and go between pages; answers are lost or cannot be read; requests land late | a listing is a snapshot, no row twice, what is lost by a removal is bounded and comes back |
| `feishu/runner.py` | none | run | subprocess | timeouts after the effect, two shapes of errors, output without content, a `KeyError` nobody expects | its callers report what failed |
| `services/upload_service.py`, `feishu/drive.py` | none | upload, upload_file | LarkCliRunner; called by the tool `file_upload` | files change while they are uploaded, one of several uploads fails, a copy arrives although the call failed | one result per path, tokens of the named files, no copy kept quiet about |
| `feishu/docx.py`, `wiki.py` | none | single calls | LarkCliRunner | - | - |
| `setup.py`, `cli.py` (`init`) | none | ensure_bitable_schema for both libraries, probes, npm | LarkCliRunner | check-then-create on several machines, failing fields, one library's setup ends in an exception | a clean report means a complete schema; no library keeps the next from its setup |
| `server.py` | services by scope | nine tools | services | missing awaits, paging while records move | pages list every record once |
| `services/bootstrap_service.py`, `cli.py` (other commands), `config.py`, `paths.py`, `models/record.py`, `index/text_chunker.py` | none | start-up sync, commands, settings, conversion | services | - | - |

The hazards, each with its line and the properties that are aimed at it, are
listed in `PROJECT.json`.

## 2. Modules

| Module | Models | How it corresponds to the code |
|---|---|---|
| `Stores` | Bitable, cache and vectors of a scope, tasks, event loop, owner, crashes, late requests | `remote`, `cache`, `vectors` are functions from ids (`vectors[i]` is the sequence of chunks of a record); a *task* is one coroutine; `pc` and `loc` are its position and local variables. A row is what decides something: title cell, preview cell, the checkbox `text_empty`, whether there is a docx. `late` holds the requests that lark-cli or the runner gave up and Feishu may still carry out (`Land`). |
| `MemoryService` | add, delete, update | one action per step between which another process, the owner or a crash may act, e.g. `DeleteRemote`, then `DeleteCache`; a failed and a lost answer are actions of their own, and a call that is given up leaves its request in `late` |
| `SyncService` | incremental, full, rebuild | `ListRecords`, one `UpsertRow` per row in any order Feishu lists them, `Submit`, `Embedded`/`EmbedFails`, `LanceVectorIndex.upsert` commit by commit (`VectorDelete` or `VectorDeleteFails` per record, then `VectorAdd`, or `VectorFails`), `Diff`, `DropRecord`/`DropVector` |
| `FeishuMemory` | their composition | Next, fairness, properties, inductive invariants |
| `SyncHistory` | | `FeishuMemory` with the history variable that `SyncMirrors` speaks of: which syncs went on without a failure of their own since their listing, and with nobody else writing to the Bitable, the cache or the vectors |
| `Listing`, `PagedListing` | `BitableClient.list_records` | the abstract promise (a snapshot of the table) and the loop over pages by offset, with its five ways to end |
| `PagedSync` | `SyncService.full` over `PagedListing` | what the cache gets from a listing that is no snapshot; the import of a listing is one step, and so are Bitable and cache in an add or a delete (`MemoryService` has the steps of both) |
| `RecordStore`, `LocalCache` | the SQLite file | the abstract promise (atomic calls on records) and the statements with triggers, cascade, foreign key and rowids |
| `LocalCacheHistory` | | `LocalCache` with the history variable that `UpsertRepairs` speaks of: whether another process touched the record of a call |
| `SearchService` | `query`, RRF, rerank, assembly | a query is atomic between its awaits, and the rest of the server writes records at them; `rrf_merge` is a loop with one step per hit (`AddShare`); the vector ranking is any sequence of ids, one for each chunk hit |
| `LarkCli` | `LarkCliRunner.run` | a function from the way the process ends (`Exit`, `NoExit`) to a value or an exception |
| `Uploads` | tool `file_upload`, `UploadService`, `DriveClient.upload_file` | one turn per path: `Missing` or `Found`, then the call, which stores a copy or not, fails, or is given up and lands later |
| `SchemaSetup` | `ensure_bitable_schema` under `init` | for each library: list, then one turn per expected field; exceptions that the loop does not catch end the library's setup (`Skipped`) |
| `MemoryTools` | tool `memory_list` | `ListIds`, one `Get` per id, `ListPage`: pages as slices of the rowid order, each sorted by itself, while the cache is written |
| `MC*` | | model values, small sets and symmetry for TLC |
| `*Proofs` | | the proofs about the module, or modules, of that name: `FeishuMemoryProofs`, `PagedListingProofs` (with `PagedSync`), `LocalCacheProofs` (with `LocalCacheHistory`), `SearchServiceProofs`, `MemoryToolsProofs`, `SchemaSetupProofs`, `UploadsProofs` |
| `SequenceLemmas` | | lemmas about sequences that several of them cite: removing an element, the orders of a finite set, that any order relation on it has one that respects it |

Definitions named "Wrong variant" in a comment are faulty forms of the
definition below them; each is a plausible bug that the named property detects.
They are used in no specification.

### What the models assume of the code

- *One event loop per process.* `LarkCliRunner.run` is `subprocess.run` and
  blocks; no client method awaits anything that suspends. A task therefore
  gives the loop up only at `run_in_executor` (`embedding_engine.py:34`,
  `reranker.py:51`), and `LoopFree` keeps all others of the process out while
  one runs. Tasks of different processes interleave at every step.
- *A listing in the core is one step.* This is what `PagedListing` justifies:
  a listing during which nothing is removed, and whose answers can be read, is a
  snapshot (`AnswersSnapshot`, proved). Otherwise the guarantees of the core do
  not extend to the sync that used it: `PagedSync` says what a full sync then
  costs (`LosesAtMostRemoved`, proved) and that the loss is repaired
  (`EventuallyWhole`).
- *A listing may end at an answer without rows to read* (`FetchUnreadable`):
  exit 0 with no output, a text or another shape makes `_parse_record_list` find
  nothing, which `list_records` takes for the end of the table. A full sync then
  removes whatever was not listed yet, so `LosesAtMostRemoved` excepts these.
- *Requests outlive their calls.* `run` gives up after 30 s and kills lark-cli,
  and a process that dies leaves its lark-cli behind: the request may be carried
  out at any time afterwards, or never.
- *LanceDB*: a delete sees all chunks that are there, and each delete and each
  add is a commit of its own. Versions behind a stale handle are not modelled.
- *Feishu never hands an id out twice*, honours the page size (200), lists in a
  fixed order and appends new rows at the end.
- *The core's client calls MemoryService*, as tests do. In the server of this
  commit `memory_update` and `memory_delete` do not await it (section 3).
- `LocalCache` statements are atomic with their triggers and foreign-key
  actions, `recursive_triggers` is off, and a rowid is one more than the
  largest. A locked file makes a statement raise, which for the file is the
  same as `Crash`: the rest of the call does not happen.
- In `SearchService` which chunks the vector table holds is open, and so is how
  they rank: a search lists a record as often as it hits chunks of it, also one
  that is gone (`vector_index.py:180`; the core bounds the chunks of a record by
  `ChunksBounded`, not by one). Scores are exact multiples of
  `1 / (60 + rank)`.
- In `SchemaSetup` exit 0 of `+field-create` means that the column was created,
  and Feishu takes a column name once. In `Uploads` Drive hands out a token
  once and copies are not deleted; what lark-cli sends is what the file holds
  when it is read.
- The cell `tags`, the extra fields, times and formats are left out of the
  core: no property of it depends on them. `LocalCache` has tags.

## 3. Runs

All runs but the violations pass. Bounds: `MaxChurn` is the number of client
calls, owner edits and crashes together; syncs are unbounded.

| Run | Question | Bounds and why they are enough |
|---|---|---|
| `Core` | In one process, is an acknowledged deletion final, do vectors belong to their texts, does the diff spare what was listed, and do chunks not pile up although LanceDB refuses deletes? | two Feishu ids and a uuid, a client and *two* syncs (one can wait for the pool while the other and the client run), 3 units of churn: add, delete and a crash or an edit; late requests and vector faults are included. Rows are blank-free because of the finding `BlankRow`. |
| `Mirror` | Do cache and vectors converge to the Bitable, is there one chunk per process at most, and does the diff spare what was listed, even if every step of server and sync interleaves? Does a sync that nobody disturbs leave a mirror, whatever it found? | a client and a sync in the server, a sync in a cron process, both in mode full (which contains incremental), one Feishu id and a uuid, churn 2: an add whose request lands late beside an edit or a crash. The owner types one row, which differs in title and text from what an add sends, so an edit changes both. Two syncs of different processes can delete and add the chunk of the one row in every order. Rows have a title, since one without keeps the rows behind it out (below). |
| `Paging` | Is a listing a snapshot; is no row listed twice; what does a full sync lose, and does it come back? | four rows, pages of two: a full last page, a short one and an empty one occur; any number of removals |
| `Cache` | Are records findable, tags owned, calls atomic (`RecordStore`); does an upsert that nobody disturbs repair what crashes left? | two processes, two ids, a tag, rowids to 3 (a rowid is reused) |
| `Search` | Scores belong to results, fusion agrees with the rankings, a found record that is gone costs one place | three records, rankings of up to three, in which the vector search may hit a record two or three times; one or two results asked for. That a record first in both rankings is overtaken by one with two chunks behind it occurs; `AgreedFirst` allows it, for the second chunk has no hit before it. |
| `Schema` | Does a clean report mean a complete schema, and does the second library get its schema whatever happens to the first? | two machines, two libraries, two expected columns: one may be there, created elsewhere or removed while the other is dealt with |
| `Pages` | Do the pages list every record once, and how many can they skip? | four records, pages of two, two records moved meanwhile, also within a page |
| `Uploads` | One result per path, tokens of the named files, no copy kept quiet about? | calls with up to two of three paths (one empty, the same twice included), two contents and two tokens; call after call, so that late uploads of an earlier one land in a later one |

Runs that exhibit a disagreement between the code and what its documentation,
comments or tests say (the quotations are in `PROJECT.json`):

| Run | What happens |
|---|---|
| `FullPreserves` | a record added while a full sync embeds is deleted from the cache |
| `BlankRow` | after a blank row each record gets the next one's embedding |
| `CronDelete` | with a sync in a second process an acknowledged deletion is undone |
| `SearchExact` | postings of replaced rows make FTS find records that lack the word |

Met while reading, and visible without an interleaving, so that no run is spent
on them:

- incremental deletes nothing (`sync_service.py:194`; `docs/operations.md:18`);
- a record that Bitable refused keeps a uuid and is dropped by the next full
  sync, nothing is tagged pending (`memory_service.py:107`;
  `docs/architecture.md:151`);
- a title that Bitable refused is reverted by the next sync
  (`memory_service.py:176`);
- a sync cuts the cached text to its preview (`sync_service.py:62`);
- a row whose title is null ends every sync before the rows behind it
  (`sync_service.py:109`, `schema.sql`);
- vector search never reads the filter (`vector_index.py:170`;
  `docs/tool-reference.md:133`);
- `init` reads the columns from `items`, `_cmd_schema` from `data.fields`
  (`setup.py:136`, `cli.py:544`), so it may create what exists;
- `memory_list` sorts each page by itself (`server.py:310`), so the pages
  together are not newest first; and although `_sort_summaries` says that a
  missing time comes last, reversing `(value is None, value)` puts it first
  (`server.py:110`);
- `add` never sends `file_ref` to the Bitable, so the next sync drops it
  (`memory_service.py:84`);
- a failed upload is reported as `no_file_token_returned`, although
  `docs/tool-reference.md:646` names the error message: `upload_file` turns the
  exception into an empty answer (`drive.py:44`);
- a sync whose result has errors, a migration included, exits with 0;
- an error envelope without a message raises `KeyError` in the runner
  (`runner.py:140`), which the clients that expect `LarkCliError` let through;
- `memory_delete` and `memory_update` do not await the service
  (`server.py:257`, `server.py:276`).

Every property of a passing run was also checked with a wrong variant of a
definition, which violates it (`PROJECT.json`, `mutants`).

### Fairness

Nothing makes a client call, an owner edit, a crash, or the arrival of a late
request happen. Three runs assume fairness, each what its property needs:

- `Mirror`. `LoopFairness`: a task that has begun goes on (weak fairness of its
  steps), and one that waits for the pool gets the loop back although others
  take it again and again (strong fairness of `Resume`), because asyncio resumes
  ready coroutines in FIFO order and the pools finish what they are given.
  `SyncFairness`: syncs of each mode are started for ever (cron, `memory_sync`,
  start-up), and neither the listing nor the embedding of a mode fails for ever.
  LanceDB is taken not to fail. The premise `<>[]~Overlap` of
  `EventuallyMirrors` is needed: syncs of two processes that overlap for ever
  may duplicate a chunk, or keep an older text, for ever.
- `Paging`. Syncs are started again and end, and no page fails, or is
  unreadable, for ever. The table comes to rest because rows run out, and
  `EventuallyWhole` has the premise that unreadable answers stop.
- `Schema`. On one machine (`Reliable`) `init` is run again and again, and
  there no call for the *last* library fails for ever or ends for ever in an
  error without a message. Of the libraries before it, and of other machines,
  nothing is assumed. The premise `Quiet`: from some time on the owner removes
  no column of the last library and nobody interrupts `init`.

## 4. Proofs

`tlapm` checks all of them; nothing is assumed beyond the named ASSUMEs of the
modules and the conditions below.

- **`FeishuMemoryProofs`**, any ids, texts, tasks, processes and bounds.
  - `TypeSafety`: TypeOK needs `LocalsOK` beside it - a task in the middle of a
    call has its id and record, and what a sync has upserted are listed rows
    with a title.
  - `SyncDropsOnlyTheGoneTheorem`, any number of processes: the diff looks at
    the cache much later than at Feishu, so the invariant (`ListingOK`,
    `UsedOK`) carries the listing along: a row older than the listing and still
    there was listed, past the upsert loop all that was listed is upserted, and
    the diff spares what was upserted. It stays true since Feishu reuses no id
    (`NoReturn`), also when late requests land.
  - `NoResurrectionTheorem`, under `OneLoop` (all tasks in one process): an
    acknowledged id is in no listing that is still being imported
    (`NoLateWrite`), because only one task holds the loop (`OneHolder`) and the
    import of a listing never gives it up; a late request can neither bring the
    row back nor change the cache. The run `CronDelete` shows that `OneLoop` is
    needed.
  - `EmbeddingMatchesTextTheorem`, as long as Feishu has no row without a text
    and none whose `text_empty` is ticked (`NoBlankRow`), any processes: the texts a sync collected are those of its
    records, one by one (`BatchOK`), so the zip pairs each with its own. The run
    `BlankRow` shows that the condition is needed.
  - `ChunksBoundedTheorem`, for finitely many processes: the number of chunks is
    not inductive, since a step that adds one says nothing of how many there
    were. The invariant (`ChunksCounted`) counts beside the chunks of a record
    the processes that are about to add one (`Adders`). A delete empties the
    record and makes its process an adder, a refused delete pays for its adder
    with a unit of churn, and an add turns an adder into a chunk. It needs that
    syncs of one process are never both about to add (`OneHolder`: no task gives
    up the loop between its deletes and its add).
  - `SyncMirrorsTheorem`, under `NoBlankRow`, any processes: a sync that
    goes on without a failure from its listing to its end, while no other task
    writes to a store, leaves every row cached with exactly its vector, and after
    full and rebuild no other record, whatever it found: what a rebuild that
    died, failed vector writes, late requests or overlapping syncs had left.
    `AloneOK` follows such a sync: its listing is still true, what it upserted is
    cached as listed, what it is to embed has no chunk once that is deleted and
    the right one once it is added, and what is neither listed nor about to be
    dropped is not visible. It is the safety half of `EventuallyMirrors`; `Mirror`
    checks it for full, the theorem says it of all modes.
- **`PagedListingProofs`**, any page size and number of rows.
  - `AnswersSnapshotTheorem`: `PagedListing` implements `Listing`, whose answer
    is that of a listing during which nothing was removed or unreadable. The
    invariant is `Prefix`: until then what was fetched is the table up to the
    offset.
  - `NoRowTwiceTheorem`, also with removals: what was fetched is gone or lies
    before the offset (`Behind`), since removals move rows only forward.
  - `SkipsAtMostRemovedTheorem`: the rows that lie before the offset and were
    not listed (`Missed`) are at most as many as were removed, since a removal
    moves at most one row across the offset, and a page has all behind it.
  - `LosesAtMostRemovedTheorem` carries the last theorem over to the cache that
    a full sync imports the listing into (`PagedSync`).
- **`LocalCacheProofs`**, any ids, tags, texts and processes.
  - `FindableTheorem`: needs `RowsUnique`, for a deletion to take no other
    record's posting, although stale postings of old rowids are everywhere.
  - `TagsOwnedTheorem`: from the foreign key and the cascade.
  - `AtomicCallsTheorem`: `LocalCache` implements `RecordStore`; a call takes
    effect in its `Replace`, `DeleteRow` or `ClearRows`, and all other
    statements, crashes and failures are stuttering or give the call up.
  - `UpsertRepairsTheorem`, in `LocalCacheHistory`: while nobody else touches its
    record a writer finds what it has written so far (`OwnTagsOK`).
- **`SearchServiceProofs`**, any records, texts, relevance, K, limit and top_k.
  The invariant (`SearchInv`) says that the keyword and the fused ranking list no
  id twice, which local variables are still empty, what is true in the middle of
  the fusion (`FusingOK`), and of the documents handed to the reranker that each
  is the text of its record unless that was written since (`ReadOK`).
  - `SearchTypeTheorem`, `OwnScoreTheorem`: a result has its score from the
    document at the index that the reranker answered, and by `ReadOK` that is
    the text it shows.
  - `AgreedFirstTheorem`: a record is *ahead* in a ranking if it has, up to each
    place, at least as many hits as the other. That its sum of shares is the
    larger one is not inductive over the hits, since the other may be about to
    get its share. The invariant (`Scored`) therefore weighs what it has hit more
    often so far by the share of the next rank, which no later hit exceeds
    (`ScoredStep`); that shares shrink with the rank is arithmetic about
    quotients (`ScoreDecreases`). After both
    rankings the lead is strict (`AgreedPrecedes`), and the sort, the cut to the first places and
    the assembly keep the order (`AgreedAnswer`). A record of one chunk may still be overtaken by
    one that is behind it with two: the second hit has none before it.
  - `GoneCostsOneTheorem`: the places among the first top_k that give no result
    map one to one to found ids without a record, because the fusion merges the
    hits of an id into one place (`GoneCost`). `vector_only` has no fusion: there a record is
    a result once for each chunk, a record that is gone takes a place for each,
    and the theorem says nothing of it.
- **`MemoryToolsProofs`**, any ids, page size and bounds.
  - `SkipsAtMostMovedTheorem`: of the unchanged records in the places that were
    asked for, those in no page slipped there from a later place (`Slipped`);
    they are at most as many as records were moved, since a write moves at most
    one record across the end of the page. An unchanged record of the page in
    hand has a summary once it was got (`ItemsOK`).
  - `PagesPartitionTheorem`: while nothing is moved the ids of the page are the
    rows of its places, and what was listed lies before them (`InPlace`). That
    sorting a page loses and repeats nothing follows from `SortedOrder`.
- **`SchemaSetupProofs`**, any machines, libraries and columns: a report without
  errors means that all expected columns are there but for those the owner
  removed since. The invariant (`Accounted`) says of each expected column that
  the loop has passed, and of those that were listed: it is there or removed,
  or an error is noted.
- **`UploadsProofs`**, any paths, contents, tokens and batches:
  `OneResultEachTheorem`, `TokenNamesFileTheorem`, `CopiesAccountedTheorem`. The
  invariant adds to them what is true in the middle of a call: the files'
  present contents are among those of the call (`Underway`), nothing is in
  Drive, or on its way, for a path without a result (`Answered`), and what is
  on its way was reported as failed and has no copy yet (`LateReported`).

Two conditions are not proved but stated: `OneLoop` and `NoBlankRow` above; each
is refuted by a run when dropped. What a theorem says of a sequence that the
code sorts or filters (`Assemble`, `Sorted`) rests on the order being an element
of `SetToSeqs`: the models choose the order instead of computing it by recursion,
over which the prover has no induction.

Only model-checked: `EventuallyMirrors`, `EventuallyWhole` and
`EventuallyComplete`, as liveness is beyond the prover. Every invariant and every
safety property of the passing runs is also a theorem.

## 5. State of the work

Built in this order: the stores and the two services that share them (the
behaviour that matters most and that no test of the repository exercises
together), the two abstractions that the core rests on (listing, cache), search,
setup and tools; then the faults of the stores (late requests, refused and
interleaved commits of the vector table), the paged sync, the runner with the
uploads, and the setup of both libraries.

What could still be added: stale handles on the LanceDB table (whether two
processes see each other's versions depends on the library).

### Not modelled

- `BootstrapService`, `sync` and `migrate` of the CLI: loops without a state of
  their own over the libraries, around calls that `SyncService` models. A
  failure of one library is caught in the first and in `sync` before the next
  begins; `memory_sync` with scope `both` raises, because no service has that
  name. `migrate` is only a rebuild of the local cache, although
  `docs/operations.md:197` describes changes to the Bitable schema.
- `schema --verify`: a read. `init` finds columns only in a top-level `items`
  (`setup.py:136`), `schema --verify` only below `data` (`cli.py:544`), so no
  shape of the answer suits both; `FieldLists` has all of them.
- `TextChunker` and `WikiClient` (called by nothing), `delete_docx` (does
  nothing), `get_file_info` (a read), `config.py` and `paths.py` (settings),
  `doctor`, `status`, `install-deps` (process probes without state), `serve` (in
  this commit it prints a note and exits, `cli.py:300`).
- `memory_update` and `memory_delete` of the server: unawaited coroutines, so
  neither changes anything and the former raises. The core has the calls of the
  service that are awaited.
- Model loading in the thread pools, and sync state times, on which no decision
  depends because `list_records` ignores `updated_after_ms`.
