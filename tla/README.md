# iPDb in TLA+

iPDb is a fork of DuckDB in which model inference is a relational operation: `PREDICT` and `LLM ... PROMPT ...`
may stand as a table source, in a projection, in a filter, in a join condition and under an aggregate. This
directory holds TLA+ models of the parts iPDb adds, the TLC configurations that check them, and proofs checked by
TLAPS. Paths below are relative to the repository root.

    LlmBatching.tla            how a list of prompts is cut into batches and waves (operators)
    LlmPredictChunk.tla        the LLM predictor at work on the chunks of a query
    SemanticPredict.tla        what a semantic projection promises, implemented by LlmPredictChunk
    LimitFilter.tla            filters on predictions under a LIMIT, on several threads
    WalCheckpoint.tla          log, checkpoint, crash and recovery of the catalog of models and embeddings
    DurableLog.tla             what clients of a database file rely on, implemented by WalCheckpoint
    EmbeddingCatalog.tla       CREATE and DROP EMBEDDING among other transactions on the table
    MC_*.tla, *.cfg            values for TLC
    *_proofs.tla               theorems and proofs
    PROJECT.json               components, runs, mutants, source map, findings, hazards, theorems

## Inventory

| Component | Source | State | Operations | Modelled |
|---|---|---|---|---|
| LLM API predictor | `third_party/predictors/llm_api/llm_{predict,batching,dedup,grammar,api}.cpp` | options, prompt cache, per chunk: unprocessed list, tuple id map, futures, failed batches, call counts | `Config`, `Load`, `PredictChunk`, `PredictBatch`, `PredictOne`, `PropagateSingleResult` | `LlmPredictChunk` |
| Other entry points of the predictor | same files | as above | `PredictJoin`, `PredictString`, `PredictAgg`, `ScanChunk`, `PredictEmbedBatch`, clustering (compiled out) | no |
| Reply extraction | `third_party/predictors/common/common.hpp` | none | `extract_array_data` (3 forms), `extract_row_data`, `populate_row_data`, `fill_null` | in `LlmPredictChunk` |
| Endpoint client | `llm_api/include/openai.hpp`, `llm_api/https_client.cpp` | connection settings | `post` | as nondeterminism |
| `PhysicalPredict`, expression executor | `src/execution/operator/projection/physical_predict.cpp`, `src/execution/expression_executor/execute_predict.cpp` | one predictor per operator or expression state, i.e. per thread | create, execute a chunk, finalize | first in `LlmPredictChunk`; second as one step of `LimitFilter` |
| Filter under a LIMIT | `src/execution/operator/filter/physical_filter.cpp`, `helper/physical_limit.cpp`, `helper/physical_streaming_limit.cpp`, `src/optimizer/limit_to_predict_filter_propagation.cpp` | shared flag, per-thread prefix and batch size, sink states | propagate limit, filter a chunk, sink, stream, combine, emit | `LimitFilter` |
| `CREATE EMBEDDING`, `DROP EMBEDDING` | `src/execution/operator/schema/physical_{create_embedding,drop}.cpp` | scanned texts, vectors, table version and storage, catalog entry | scan, ask the model, alter the table, create or drop the entry | `EmbeddingCatalog` |
| Catalog versions, storages, transactions (DuckDB, as embeddings use them) | `src/catalog/catalog_set.cpp`, `catalog_entry/duck_{table,schema}_entry.cpp`, `src/storage/{data_table,local_storage}.cpp`, `src/transaction/` | version chains, main flag, row counts, version info, timestamps | begin, alter, append, update, stage, commit, roll back | `EmbeddingCatalog` |
| Log and checkpoint of the catalog | `src/storage/{write_ahead_log,wal_replay,checkpoint_manager,storage_manager}.cpp`, `src/transaction/duck_transaction_manager.cpp` | log files, snapshots, header | write, flush, revert, checkpoint, crash, recover | `WalCheckpoint` |
| Aggregates | `src/function/aggregate/distributive/llm_agg.cpp` | inputs per group | scatter, combine, finalize | no |
| Optimizer passes | `split_predict_join_to_extract_predicate.cpp`, `predict_pullup.cpp`, `pullup/pullup_predict.cpp` | a plan | rewrite | no |
| Model selection | `third_party/predictors/model_selection/optimal_selector.hpp` | metrics table | score, choose | no |
| Binding and parsing | `src/planner/binder/...`, `src/parser/transform/...` | none that outlives a statement | bind | no: one pass over a syntax tree |
| Local backends | `third_party/predictors/{onnx,llama_cpp,torchscript}` | loaded model | infer a chunk | no: numerical libraries called once per chunk |
| DuckDB itself | rest of `src/` | | | only what the modules above run on |

How they interact: the planner turns a prediction into a `PhysicalPredict` operator or an expression; each
operator state (one per thread of a pipeline) owns a predictor; for each chunk the predictor launches
`std::async` requests that read the predictor and the chunk's list of prompts by reference and return results
through futures; the thread collects them in launch order and writes the output chunk. Threads of one pipeline
share the filter's `limit_reached` flag and the counter of a streaming limit, and meet in the sink's `Combine`.
`CREATE EMBEDDING` runs in one transaction: it scans the table, calls the model, alters the table with a callback that
fills the new column, and creates a catalog entry. Transactions meet in the version chains of catalog entries, in the
storages behind table versions, in the WAL lock, and in the log files that a checkpoint moves.

What is hard here: requests answered in any order; a wave of which some requests fail; retries of a part of a batch; a
reply that is shorter, longer or other than asked for; rows that share one answer; a cache read when the list is made
and written when results come; an exception with requests in flight; a flag that ends other threads' work; offsets,
ceilings and doubling at boundaries; a slow call between the scan of a table and its alteration; two catalog sets that
must change together; a failed commit whose rows another statement has already copied; a crash between any two steps of
a checkpoint or of the recovery from one. PROJECT.json lists each such hazard with its line and the properties that
cover it.

What makes the components correct:

* predictor: every row gets an answer to its own prompt or NULL, once; equal prompts share an answer and are paid
  for once; calls are counted once; nothing outlives what it refers to; chunks end;
* limit: as many rows as there are up to LIMIT, after OFFSET, the first ones when insertion order is preserved; the
  work is linear; the query ends;
* embeddings: a row's vector is of that row, in the snapshot of the statement; column and entry exist together or
  not at all; nobody's committed rows are lost to an ALTER, nobody's uncommitted ones gained;
* catalog: what a committed transaction created is there after a crash, once, in commit order;
* aggregates, joins (not modelled): each input row contributes once, in a defined order; a failed request is not a FALSE;
* optimizer (not modelled): a rewritten plan returns what the original returns.

## LlmPredictChunk

One query's predictor and its operator: `pc` says where the thread is, and its actions are the code's steps.

| Action | Code |
|---|---|
| `StartQuery`, `EndQuery` | `PhysicalPredict::GetOperatorState`, `PredictState::Finalize` |
| `BeginChunk` | `PredictChunk` up to the first wave: cache hits answered, `unprocessed` listed (`ToAsk`) |
| `LaunchWave` | inner loop that starts up to `n_threads` batches (`LlmBatching` has the arithmetic) |
| `CollectFailedBatch`, `CollectBatch`, `CollectRows`, `EndWave` | the loop over the futures |
| `Crash` | undefined behaviour: outputs, or the tuple id map, read past their end |
| `BeginRetries`, `LaunchRetries`, `CollectRetry`, `EndRetryWave` | the second loop, row by row |
| `FinishChunk` | statistics and return |
| `Rethrow`, `CollectThrows`, `Unwind` | an exception of a request, or of a conversion, leaves `PredictChunk`; the destructors of the futures wait |
| `BatchAnswered`, `BatchGarbled`, `BatchRefused`, `RowAnswered`, `RowWithoutContent`, `OneAnswered`, `OneWithoutContent`, `Throw` | an asynchronous task and the endpoint that answers it |

A prompt is a number, because `std::map` orders the prompts and nothing else about their text matters. An answer
records the prompt it answers and the request that obtained it, so that a misplaced or repeated answer can be told.
A reply is an array of elements; `Blank` stands for any element no value can be read from (it becomes NULL),
`Unstorable` for one whose conversion throws (`std::stoi` out of range), `Stray` for one nobody asked for. `Lax` says
how far the endpoint strays from the requested schema: too short, too long, garbled, no content, overflowing
numbers. With `Lax = {}` it may still answer in any order, answer blanks, refuse batches and fail. Undefined
behaviour is a choice between the outcomes: garbage that parses to nothing, or a crash.

The cache keeps texts, and a hit reads its text again. What a single call brings goes to row and cache as one text, read
the same way both times. A batch is parsed as a whole: the row gets the parsed element, the cache what `dump()` makes
of it (`common.hpp:142`), and a hit passes that to `extract_json`, which counts braces without regard to strings. For an
element such as `{"a":"} else {"}` the hit finds the end too early and reads nothing. `Dumped` says so: which elements
are cut short depends on their text, and any may be. A prompt's later rows can therefore be NULL where its first rows
have the answer, also with an endpoint that keeps to the schema, and against `docs/reference/config.md:13`.
`CacheAgrees` is worded for this (`ShowsEntry`): a hit shows the answer the prompt had, or with `use_batch` NULL, and
never another answer.

`SemanticPredict` is the promise to the operator above: rows are settled once, with an answer to their own prompt or
NULL, and a chunk is handed on when none is open. `LlmPredictChunk` is shown to implement it for endpoints that keep
to the schema (`ImplementsPromise`), with `output` as the cells and the phases mapped from `pc`.

Properties that speak of rows are restricted by `Aligned`: either the endpoint keeps to the schema, or rows are
batched without the cache. In the other settings the code itself does not keep positions and rows together; the
violation runs show how.

### Runs

| Run | Shows |
|---|---|
| `predict_strict` | schema-keeping endpoint, 2 chunks of up to 3 rows, all settings: types, one answer per prompt within a chunk, a hit that shows the prompt's answer or loses it, no prompt paid for twice, call counts, refinement, termination, `OnceInv` |
| `predict_lax` | any endpoint, one chunk of up to 4 rows: own answers, unwritten rows only after two failures, settled once, no dangling references, `IInv` |
| `predict_fallback` | violated: a batch that does not parse is nulled, not retried row by row |
| `predict_groups` | violated: rows of one group differ after a reply that does not parse |
| `predict_rows` | violated: without batching, a call without content shifts later answers |

Bounds. Two prompts make three or four rows repeat one, so that groups, cache hits within a chunk and across chunks,
and equal prompts in different batches occur. One and two threads with a batch size of two give several waves, an
uneven last batch, and the resized batch size; two chunks are the fewest with which the cache matters. `MaxRows` and
`MaxChunks` bound the inputs only; all counters are bounded through them.

Fairness. `WF(Thread)`: the thread that runs the chunk is not suspended for ever. `WF(Endpoint)`: some running
request comes back, which the HTTP client's timeout makes sure of (a timeout is a connection error, `Throw`). No
fairness is assumed of `StartQuery`, `EndQuery` and `BeginChunk`.

### Proofs

`LlmBatching_proofs`: for every row count, thread count and batch size, batches keep to the batch size, hold at least
one row, and each position of the list is in exactly one (`EveryPositionInOneBatch`); the closed form of the wave's
size is the loop's (`WaveIsInnerLoop`).

`LlmPredictChunk_proofs`: `Spec => []IInv`, and from it `TypeOK`, `OwnAnswers` and `InputOutlivesRequests`, for any
number of prompts, rows and threads, any settings and any endpoint. `OwnAnswers` is not inductive by itself: what a
collected result writes depends on what the request holds (`RequestInv`: every element within the batch answers the
prompt at its position), on positions being rows when nothing is grouped (`ListInv`), on what the cache holds
(`CacheInv`), and on nothing being left over when a list is made (`AtRest`). The assumptions are those of the module:
prompts are a finite set of numbers, settings have positive `n_threads` and `batch_size` (the code does not check
this: with zero it divides by zero or loops), and the marks differ from answers. The proof has a lemma per conjunct
(`TypeStep`, `RequestsStep`, `AtRestStep`, `ListStep`, `OwnStep`), each with a case per action.

`LlmPredictOnce_proofs`: `Spec => []OnceInv`, given `IInv`, and from both `AskedOnce`, `CacheAgrees`, `SharedAnswers`,
`OpenRowsFailedTwice` and `SettledOnce` for any endpoint (each property restricts itself to `Aligned`),
`CallsCountedOnce`, and, for `Lax = {}`, the refinement `ImplementsPromise`. The question behind all of them is where a
position of the list is still to be settled, over two loops of waves with a list of failures between them. `Open` says
where: in a request not collected yet, in the rest of the list no batch has reached, or in the list of failures.
`OrderInv` keeps these three in order and apart; `OpenInv` says that nothing is known of an open position, `ShownInv`
that with the cache rows show what it holds, or have an answer that a hit would lose, and that rows of one prompt are
alike, `UnsetInv` that an unwritten row is one of an open position or its own call has failed, `ReplyInv` what a reply
in the requested format has. `CallsInv` is about the counters: until a request throws, the calls made are those counted
for earlier chunks, those counted for this one, and those of requests not collected yet. The last are a set of pairs of
a request and a call (`Uncounted`), so that collecting a request (`CountsCollected`) and making a call (`OneCallMore`)
are steps on one finite set and need no induction over the requests. The main lemmas say what a step does to `Open`:
launching closes and opens nothing (`OpenLaunch`, by `EveryPositionInOneBatch`; `OpenRetries`), a failed batch moves its
positions to the list of failures (`OpenFailed`), collecting closes exactly the positions of the collected request
(`OpenCollect`), and the waves and loops end with nothing left over (`OpenEnd`). `CollectOnce` then follows what a
collected result writes. The refinement has a case per action (`PromiseStep`): collecting settles rows that were unset,
`FinishChunk` hands on a chunk in which no position is open (`NothingOpen`), every other step stutters. Other endpoints
are not covered by the refinement, because there rows are left unwritten or shifted, as the violation runs show.

## LimitFilter

Several threads of one pipeline scan a table batch by batch (row group by row group), filter chunks by a prediction,
and feed a limit operator.

| Action or operator | Code |
|---|---|
| `Pushed` | `LimitToPredictFilterPropagation`: a constant limit below 2048 is handed to the filter |
| `BatchedLimit`, `Sequential` | `CreatePlan(LogicalLimit)`: `PhysicalLimit`, or `PhysicalStreamingLimit` with one or many workers |
| `Fetch`, `Exhausted` | `PipelineExecutor::Execute` |
| `Skip` | `limit_reached` is up: FINISHED, the chunk is dropped |
| `FilterAll` | a chunk evaluated at once |
| `BeginBatches`, `FilterBatch`, `EndBatches` | the loop over growing prefixes, and the store to the flag |
| `Throw` | an evaluation throws, the query fails |
| `NothingFound`, `Sink`, `Stream` | the chunk reaches `PhysicalLimit::Sink` or `PhysicalStreamingLimit::Execute` |
| `Combine`, `Answer` | `PhysicalLimit::Combine`, `GetDataInternal` with `HandleOffset` |

The check of the flag, each turn of the loop, the store and the sink are separate steps, so that threads interleave
between them. The prediction's verdicts are a set of matching rows fixed at the start: a model that answers the same
question differently would only make other rows match, since the loop uses a row's first verdict. Rows are numbers in
insertion order. A chunk of which rows pass on at the limit is answered with HAVE_MORE_OUTPUT
(`physical_streaming_limit.cpp:58`); the executor runs what was kept of it a second time, which finds nothing more and
adds to the shared counter again (`Counted`). Left out: limits given by expressions or percentages, and the small-chunk
cache of filters without a limit, which regroups rows and keeps their order.

| Run | Shows |
|---|---|
| `limit_rows` | two threads, two row groups, all sets of matching rows, limits and offsets above and below both thresholds: enough rows without OFFSET, the right rows with one worker or without pushdown, soundness of the flag, linear work, termination, `IInv` and `RowsInv` |
| `limit_offset` | violated: LIMIT n OFFSET m returns too few rows |
| `limit_order` | violated: the rows returned are not the first ones although insertion order is preserved |

Bounds. The table has chunks of 3, 1 and 2 rows in two row groups: larger than, equal to and smaller than the limits,
so that a thread takes both paths of the filter; a second table of one chunk of 13 rows lets batches double
three times. The thresholds 2048 and 10000 are scaled to 3 and 4, and limits from 1 to 4 with offsets 0 and 1 fall on
both sides of them. These runs stop when the query is answered or has failed, hence `CHECK_DEADLOCK FALSE`.

Fairness. Each thread that has a task runs on (`WF` of its steps), and the result is fetched (`WF(Answer)`).

Proofs (`LimitFilter_proofs`): `Spec => []IInv`, and from it `TypeOK`, `FlagMeansEnough` and `LinearWork`, for any
threads, tables, limits and verdicts. `FlagMeansEnough` is inductive with the types: rows with the limit operator
stay there, and a holder's rows stay in its chunk until it hands them over. `LinearWork` needs `WorkInv`: as long as
the batch size is at least the offset, a doubling batch at most doubles what was evaluated; the one batch that may
not double ends the chunk.

Proofs (`LimitRows_proofs`): `Spec => []RowsInv`, given `IInv`, and from both `EnoughRows` and `RightRows`, again for
any threads, tables, limits and verdicts. Both speak of the answer only, and say nothing of how it comes about.
`RowsInv` follows each row on its way. A chunk is `Ahead` until something of it has reached the limit operator, and so
are its matching rows.

* `SourceInv`: two threads never go through one batch, so a chunk is ahead for one reason only;
* `OutInv`: what a thread has found are the matches of a first part of its chunk, of all of it unless the limit was
  reached;
* `KeptInv`: what a thread has handed over comes from the chunks it is past, in order, and no row ahead is among it;
* `WorkersInv`: a thread stops because the limit is reached, because it has enough rows, or because none are left;
* `CountInv`: the streaming limit has counted the rows that arrived, exactly until LIMIT and OFFSET are reached, and
  kept those after the offset;
* `DroppedInv`: the batched limit lacks a row that arrived only if some thread has as many before it as are asked for;
* `AloneInv`: a thread that works alone has passed on what the query returns of the rows behind it.

Whether rows arrived or are still ahead is a partition of the matching rows, so each handing over (`HandedOver`) moves
one set from one side to the other, and counts are cardinalities of these sets. At the end nothing is ahead
(`WhyDone`), or the flag is up and one thread has the rows (`FlagCount`). For the batched limit, of which each thread
cuts its own rows, `MissingAfter` then says that every row missing comes after enough others, `EmittedInOrder` that the
rows emitted are the first of those merged, and `FirstEnough` that the first rows, if they are enough, are the ones
asked for. Positions in an order without positions are ranks: how many matching rows are no greater (`RankBijection`,
`RankedCount`). The one place that would need induction, that what holds from a chunk to the next holds over any
distance (`Ascending`), uses that a set of numbers has a least element, which comes from the well-foundedness of
strict inclusion of finite sets. `RightRows` is proved for the two plans in which it holds; for the pushed-down limit
with several workers or an offset the violation runs show that it does not.

## WalCheckpoint

A database file, its write-ahead log and the second log that commits go to while a checkpoint writes a snapshot. A
transaction is a name and one attempt to commit; those in `Embeddings` run `CREATE EMBEDDING`, whose vectors reach
the column through a callback that the log does not carry.

| Action | Code |
|---|---|
| `WriteToWAL`, `FlushCommit`, `RevertCommit` | `DuckTransaction::WriteToWAL`, `Commit` with `FlushCommit`, and its failure |
| `CommitSkippingWAL` | `CommitTransaction` of a change so large that it is checkpointed instead of logged |
| `WALStartCheckpoint`, `SwitchWAL` | `StorageManager::WALStartCheckpoint`: the marker, then the checkpoint log |
| `WriteHeader` | `SingleFileCheckpointWriter::CreateCheckpoint` up to the header |
| `WALFinishCheckpoint` | the log files after the header, under the WAL lock |
| `Crash` | the process ends, between any two steps; a write that was not synced is on disk, in part, or not |
| `RemoveWAL`, `TakeCheckpointWAL`, `MergeIntoRecoveryWAL`, `RemoveCheckpointWAL`, `ReplayLog`, `Refuse` | the branches of `WriteAheadLogReplayer::Replay`, `ReplayLog` and `MergeIntoRecoveryWAL` |

A log file is the iteration of its version entry, its flushed transactions, its checkpoint markers and whether it
goes on past its last flush. Abstracted: a marker and its flush are one write, which a crash may tear; the image is
written at the time of the header, into blocks the current one does not use; the recovery file does not appear, since
only its rename counts; a checkpoint that fails invalidates the database, which is a `Crash`; an orderly close is a
checkpoint and a `Crash` at rest. A log that creates what is there already may be refused (`Repeated`). Embeddings
commit under a share of the checkpoint lock, as catalog changes do.

`DurableLog` is the contract: what a restart brings back is a sequence that grows at its end by one transaction that
was committing, and an open database shows it. `WalCheckpoint` implements it (`KeepsContract`) with
`log <- Recovered`, what the files hold for a recovery that starts or goes on now.

| Run | Shows |
|---|---|
| `wal_recovery` | three transactions, one of them `CREATE EMBEDDING`, up to three crashes anywhere, in recoveries too: until a checkpoint log is merged twice, acknowledged transactions survive, memory shows only what a crash leaves, the contract is kept and the database opens again; snapshots keep their vectors and checkpoints end in any case |
| `wal_embedding` | violated: after a crash the embedding's column is there and its vectors are NULL |

Bounds. Two blocks let a checkpoint reuse the block of an abandoned marker. Three transactions fill the main log, the
checkpoint log and a commit that skips both. Three crashes are one in a checkpoint, one in a second checkpoint, and one
in the recovery between or after, which is what a second merge takes. `MaxIteration` 3 allows two checkpoints to reach
their header, and any number that do not.

Fairness. A commit that wrote to the log flushes or reverts, a checkpoint that a commit waits for starts, a running
checkpoint goes on, and a closed database is opened again (also after an attempt that failed). Nobody must commit, so
the system may rest: `CHECK_DEADLOCK FALSE`. The finish of a checkpoint waits for the WAL lock; weak fairness is
enough in the instance because each transaction commits once.

Proofs (`WalCheckpoint_proofs`): `IInv`, and from it `TypeOK`, `AckedSurvive` and `MemoryRecoverable`, the refinement
`KeepsContract`, and `CheckpointedVectorsKept`, for any transactions, blocks, number of crashes and of checkpoints, with
no assumption on where crashes fall. The invariant has four parts. `OrderInv`: the markers of a log stand in the order
they were written in. `FilesInv`: which files a step may find, above all that a marker names the current root only when
its checkpoint has written the header (`MarkInv`), so that an abandoned marker is never taken for a finished one, and
that a checkpoint log left over from a merge is not counted again (`Live`). `ContentInv`: snapshot and logs together are
memory, in order. `AckInv`: who has been told what. The last three hold until a checkpoint log has been merged twice.

The exception, `MergedTwice`. A recovery that merges the checkpoint log into the main log renames the merged file
(`wal_replay.cpp:394`) and then removes the checkpoint log (402); the code has a debug hook to crash in between (396),
and the crash is a step of the model like any other. `merges` remembers it: after a crash there the checkpoint log is a
leftover whose content the main log has already (`Leftover`). Alone it does no harm: a recovery that meets a log without
a marker replays that log, and the next checkpoint removes the leftover. But a recovery that meets a marker beside a
leftover merges it a second time: it cuts the main log at the marker and appends the checkpoint log again. There are
two ways to a marker. An older one may have stayed in the merged log: a commit, a checkpoint that crashes before its
header, a second commit, a second checkpoint, a third commit, a crash, and a crash between rename and removal; the next
recovery cuts before the second commit, which was acknowledged and is lost. Or a new one is flushed
(`storage_manager.cpp:233`) and the process ends before the leftover is removed (243): the next recovery replays
transactions twice. Either takes three crashes. `AckedSurvive`, `MemoryRecoverable`,
`KeepsContract` and `Reopens` promise nothing from the second merge on, and say so; without the exception TLC finds
`AckedSurvive` and `KeepsContract` violated in this instance, and `MemoryRecoverable` with a fourth crash. What is
proved of durability is therefore: the storage manager keeps what it has acknowledged through every sequence of commits,
checkpoints, crashes and recoveries in which no checkpoint log is merged twice.

Known and outside what is claimed:

* the loss after a second merge, above;
* a torn first write leaves a log of size 0; a commit that skips the log then checkpoints without touching it, and
  every later open meets the old version entry (`LeftBehind`, the exception in `Reopens`);
* a merged log that still holds an older marker is refused once, at `wal_replay.cpp:456`, and opens at the next
  attempt (`Refuse`).

Not modelled: a forced checkpoint of an empty log, with a commit beside it (`storage_manager.cpp:691`); a version
entry that a torn write splits; read-only recovery; encryption.

## EmbeddingCatalog

An embedding is a vector column of a table and an entry of the catalog. `CREATE EMBEDDING` adds the one and then the
other, after a call to the model that takes as long as it takes; `DROP EMBEDDING` removes them in the same order.
Other transactions insert into the table, update it, and alter it in ways that keep the storage.

| Action | Code |
|---|---|
| `Begin` | `StartTransaction`, and the statement |
| `ScanSource`, `Ask`, `AddColumn`, `InstallVersion`, `CreateEntry` | `PhysicalCreateEmbedding::GetDataInternal`: scan, call, `DuckTableEntry::AddColumn` with the fill callback, `CatalogSet::AlterEntry`, `AddEntryInternal` |
| `LookupEntry`, `RemoveColumn`, `InstallVersion`, `DropEntry` | `PhysicalDrop::GetDataInternal`, `DuckTableEntry::RemoveColumn`, `CatalogSet::DropEntryInternal` |
| `ShareStorage` | an ALTER that keeps the storage (RENAME COLUMN, COMMENT ON, SET DEFAULT) |
| `InsertRows`, `UpdateText` | `DataTable::InitializeLocalAppend` and `LocalAppend`, `DataTable::Update` |
| `Stage` | `CommitTransaction` to `WriteToWAL`: the WAL lock, and `LocalStorage::Flush` |
| `CommitEntries` | `CommitState::CommitEntry` of all entries, under the transaction lock |
| `Rollback`, `GiveUp` | rollback after a failed statement or commit, or because the client asks |

`versions` and `entries` are the version chains of the table and of each embedding; `SeenBy`, `Conflict` and `Seen`
are `UseTimestamp`, `HasConflict` and `GetEntryForTransaction`. A storage is named for the transaction that copied it,
a text for the transaction that wrote it, a vector for its text. Storages share the version info of their row groups
(`rows`), which is overwritten and never cut; each has its own `count`. `main` is the set of storages that are the main
table.

Abstracted: one table, a transaction runs one statement, a statement that fails before it changed anything is over at
once. The scan of a snapshot is one step. A transaction without changes takes the WAL lock as well, which only makes
others wait. Left out: DROP and RENAME TABLE (the entry stays behind), several statements in one transaction, deletes,
an append to an empty table or of whole row groups (`MergeStorage`), databases without a log, the details of replies.

| Run | Shows |
|---|---|
| `embedding_catalog` | three transactions: one creates or drops the embedding, one creates it, alters the table or inserts, one inserts or updates. Column and entry agree, committed rows stay and reverted ones do not, vectors are those of the creator's snapshot, the table stays writable, snapshots do not move, every transaction ends; `IInv` and `StorageInv` |
| `embedding_revert` | violated, with a fourth transaction that inserts: an ALTER commits although the storage it copied was made main again, and rows committed in between are lost |

Two states are exceptions, and named in the properties they concern. `RivalCommitted`: two statements have copied one
storage and one of them has committed. From then on `InsertedRowsKept`, `OnlyCommittedRows` and `RowsStable` promise
nothing: the violation run shows committed rows lost, and with four and five transactions the other two fail as well.
`VectorsOfSnapshot` needs no exception: rows may be lost then, but none that has a vector. `LostCopy`, in
`TableWritable`: a statement that copied the storage lost its conflict to an ALTER that kept it; nothing makes the
storage main again, and the table takes no changes until it is altered again or the database is reopened. A text updated
during the call to the model keeps the old vector: `VectorsOfSnapshot` says of which snapshot the vectors are, and the
code says no more.

Bounds. Three transactions are two that contend and one whose rows are at stake; the fourth in the violation run is
the one whose rows are lost. The table has two rows, of which the first has no text, so that positions and vectors
differ; inserts bring one and two rows, so that a reverted append can be shorter or longer than what overwrites it. One
name is enough: entries of different names do not meet, and the columns they add meet in the table's chain, as here.

Fairness. `WF(Step(t))`: a statement that has begun goes on, which for `Ask` is the HTTP client's timeout, and a
transaction that is ready commits or is rolled back. Nobody must begin or give up, and all transactions may be over:
`CHECK_DEADLOCK FALSE`. `TransactionsEnd` needs that the WAL lock comes free, since `Stage` waits for it.

Proofs (`EmbeddingCatalog_proofs`): `IInv`, and from it `TypeOK`, `EntryMatchesColumn` and `CatalogStable`, for any
number of transactions, embeddings, rows and any program. `EntryMatchesColumn` speaks of the newest committed
versions only and is far from inductive: a statement decides by what its snapshot shows, and commits later. `HistoryInv`
therefore says it of every time a transaction may have begun: the version seen of the table has the column exactly if
the version seen of the entry is alive. An uncommitted version is the last of its chain (`ChainInv`) and the change its
transaction makes to what it began with (`VersionInv`, `EntryInv`); when the statement is over it has changed both or
none (`BothInv`), and first-writer-wins keeps the version below it the one it began with. The steps of others are
handled once (`OthersUndisturbed`), each action of the actor in `ActorStep`, the commit in `HistoryAfterCommit`.

Proofs (`EmbeddingRows_proofs`): `Spec => []StorageInv`, given `IInv`, and from both `InsertedRowsKept`,
`OnlyCommittedRows`, `VectorsOfSnapshot`, `TableWritable` and `RowsStable`, again for every instance. The properties
speak of the current storage, but rows are lost earlier, when a storage is copied and the original takes rows again.
`StorageInv` therefore says:

* `LineageInv`, where the storages of the chain come from: a version has a storage of its own or the one below it, and
  the storage of a committed version is the current one or was copied by a committed transaction;
* `CopyInv`, what a copy is worth: while its maker is at work it copies the current storage, and until the original
  is main again both have the same rows, or a rival copies it too; a committed copy has left an original that is not
  main. `Refused` at commit, the check on the old storage, carries this over the commit, and `RestoredMain` is the
  step that makes the check necessary;
* `AppendInv`, `OriginInv` and `LockInv`, whose rows are where: the rows of an INSERT at work are the last of the
  current storage, under the WAL lock, and every row was written by the loader, by an INSERT at its place, or by one
  that was reverted and not yet overwritten;
* `WritableInv`: the current storage is main, or is being replaced, or is a `LostCopy`;
* `VectorInv`, whose vectors a storage has (`Carries`): those of the embeddings in the current version, also in each
  storage that is about to replace it, and those of a `CREATE EMBEDDING` that has filled in its column. They fit that
  storage (`Fits`): rows that the creator sees have the vector of the text it sees, all others none, and no vector lies
  beyond the last row. That they fit the current storage too is what makes them stay right when rows in the copy are
  overwritten;
* until `RivalCommitted`: `ContentInv` and `SnapshotInv`, that committed rows are in the current storage and nothing else
  but the INSERT at work, and that each running transaction finds the rows it sees in the storage it began with and in
  its copy.

Two statements may copy the same storage and both roll back, or one may lose its conflict, and nothing is wrong until
one commits: the exception starts there. It never ends (`RivalStays`), so the last part is carried only until then, and
`CommittedRowsKept`, `CommittedRowsOnly` and `SnapshotsOfRows` are theorems about the time before; `VectorsOfTexts` and
`TableTakesChanges` are not limited by it.
`StepActs` sorts the actions into ten kinds of change to rows, storages and versions (`Acts`); `RowsNow`, `StoragesNow`
and `VersionsNow` say what each leaves, then each part has its own step lemma, for the actor (`OwnCopy`, `OwnSnapshot`)
and for the others (`OthersCopy`, `OthersSnapshot`), gathered in `StorageActs`.

## Only model-checked

Liveness (`ChunkEnds`, `QueryEnds`, `Reopens`, `CheckpointEnds`, `TransactionsEnd`), which the prover cannot treat. The
safety invariants and action properties of all passing runs are theorems.

## Findings

Each is a violation run with the quoted text in PROJECT.json: no fallback for unparsed batches
(`UnparsedFallsBack`), nulling by position under the cache (`GroupsShareOneAnswer`), shifted answers without batching
(`RowsHoldOwnAnswers`), OFFSET ignored by the filter (`OffsetKept`), insertion order lost to the flag (`OrderKept`),
vectors lost to a crash (`EmbeddingsSurvive`), a reverted storage altered all the same (`RevertedAlterFails`).

## Not modelled

* `PredictJoin`, `PredictString`, `ScanChunk`, `PredictEmbedBatch` and the aggregates: other loops over the same waves
  and replies, without the cache and the retries of `PredictChunk`. Their hazards are listed in PROJECT.json.
* The predictors that each thread's expression state owns: `LimitFilter` has an evaluation as one step.
* The optimizer's rewrites and model selection: functions without state, of plan trees and of floating point tables.
* Binding and parsing, local backends, HTTP: one pass over a tree, numerical libraries, I/O.
* DuckDB: iPDb is a fork whose sources are DuckDB's almost entirely. Of these only what embeddings, models and limits
  run on is modelled, so the map covers a small part of the repository's lines by design.

## Plan

Done: everything above, in this order: `LlmBatching`, `SemanticPredict`, `LlmPredictChunk`, `LimitFilter`,
`DurableLog`, `WalCheckpoint`, `EmbeddingCatalog`, each with its proofs. Left, in this order:

1. `PredictJoin` and `LlmAgg`: pairs in batches with errors turned to FALSE; aggregate states of several threads
   combined and one request per group. Properties: each pair or row is considered once, a failed batch is visible.
2. `DROP TABLE`, `RENAME TABLE` and transactions of several statements in `EmbeddingCatalog`.
3. Thread-local predictors in filters, composing the cache of `LlmPredictChunk` with the threads of `LimitFilter`.
4. Plan rewrites and model selection as operators over small plans and tables, checked against a reference definition.

## Running

    tlc -config PredictStrict.cfg MC_PredictChunk.tla
    tlc -config LimitRows.cfg MC_LimitFilter.tla
    tlc -config WalRecovery.cfg MC_WalCheckpoint.tla
    tlc -config EmbeddingCatalog.cfg MC_EmbeddingCatalog.tla
    tlapm LlmPredictOnce_proofs.tla
    tlapm LimitRows_proofs.tla
    tlapm EmbeddingCatalog_proofs.tla
    tlapm EmbeddingRows_proofs.tla
