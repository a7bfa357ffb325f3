-------------------------- MODULE LlmPredictChunk --------------------------
(***************************************************************************)
(* LlmApiPredictor::PredictChunk: one query's predictor turns each chunk   *)
(* of rows into a column of model answers. Rows found in the cache are     *)
(* answered at once; the prompts of the others form the unprocessed list,  *)
(* which is cut into batches. Waves of at most n_threads asynchronous      *)
(* requests are answered by the endpoint in any order and collected in     *)
(* launch order. Batches that brought nothing are retried row by row in a  *)
(* second loop of waves. An exception of any request unwinds the chunk.    *)
(*                                                                         *)
(* Rows and positions are 1-based. A row's prompt is a number: std::map    *)
(* orders the prompts, and nothing else about their text matters. The      *)
(* build is the shipped one: LLM_USE_THREADS 1, LLM_USE_CLUSTER 0, task    *)
(* PREDICT_LLM_TASK.                                                       *)
(***************************************************************************)
EXTENDS Naturals, Sequences, FiniteSets, LlmBatching

CONSTANTS
    Prompts,    \* the prompts embed_prompt can make of a row
    MaxRows,    \* bound: rows of a chunk (STANDARD_VECTOR_SIZE in the code)
    MaxChunks,  \* bound: chunks of a query
    Configs,    \* the settings a query may run with
    Lax,        \* how far the replies stray from the requested format
    Null,       \* SQL NULL in an output cell
    Unset,      \* an output cell nothing has been written to
    None,       \* a prompt with no cache entry
    Blank,      \* a reply no column value can be read from: it yields NULL
    Unstorable, \* a reply whose conversion to the column's type throws
    Stray       \* an array element no prompt asked for

LaxKinds == {"short", "long", "garbled", "nocontent", "overflow"}

\* An answer of the model, with the request position that obtained it.
Answers == [prompt : Prompts, chunk : Nat, pos : Nat]
Storable == Answers \cup {Blank, Stray}
Elems == Storable \cup {Unstorable}
Cells == Answers \cup {Stray, Null, Unset}

ASSUME PromptsAssumption == Prompts \subseteq Nat /\ IsFiniteSet(Prompts)
ASSUME BoundsAssumption == MaxRows \in Nat \ {0} /\ MaxChunks \in Nat
ASSUME ConfigsAssumption ==
    /\ Configs # {}
    /\ Configs \subseteq [n_threads : Nat \ {0}, batch_size : Nat \ {0},
                          use_cache : BOOLEAN, use_batch : BOOLEAN]
ASSUME LaxAssumption == Lax \subseteq LaxKinds
ASSUME MarksAssumption ==
    /\ {Null, Unset, None, Blank, Unstorable, Stray} \cap Answers = {}
    /\ Null # Unset /\ Null # Stray /\ Unset # Stray
    /\ None \notin {Blank, Unstorable, Stray} /\ Unset # Blank
    /\ Unstorable \notin {Null, Unset, Blank, Stray} /\ Blank # Stray

VARIABLES
    conf,         \* the predictor's settings: n_threads, batch_size, use_cache, use_batch
    pc,           \* where the query's thread is
    chunks,       \* chunks started in this query
    input,        \* the prompt of each row of the chunk
    output,       \* the cell of each row, as far as it is written
    cache,        \* Predictor::cache, None where a prompt has no entry
    unprocessed,  \* the prompts to send
    next,         \* loop variable of the two loops of waves: batch, then frow
    futures,      \* the wave in flight, one task per std::async
    run,          \* how many of the futures have been collected
    batch_fails,  \* positions to retry one by one
    total_calls,  \* calls of this chunk, as the thread adds them up
    llm_calls,    \* PredictStats::llm_calls
    posts         \* history: requests the endpoint answered in this query

chunkVars == <<input, unprocessed>>
waveVars == <<next, futures, run, batch_fails, total_calls>>
queryVars == <<conf, chunks, llm_calls>>
vars == <<conf, pc, chunks, input, output, cache, unprocessed, next, futures, run,
          batch_fails, total_calls, llm_calls, posts>>

Contents == [json : BOOLEAN, elems : Seq(Elems)]
Tasks == [call : {"PredictBatch", "PredictOne"}, frow : Nat, n_rows : Nat, n_calls : Nat,
          outputs : Seq(Contents), status : {"running", "ready", "thrown"}]

Working == {"launch", "collect", "relaunch", "recollect"}

Imp == ImpBatchSize(Len(unprocessed), conf.n_threads, conf.batch_size)
AllRounds == Rounds(Len(unprocessed), conf.n_threads, conf.batch_size)
-----------------------------------------------------------------------------
(* The output chunk and the cache. *)

\* populate_row_data and extract_row_data: the cell a reply element ends up as.
Cell(e) == IF e = Blank THEN Null ELSE e

\* A slip kept for comparison: only the first row of a group is remembered.
FirstTupleId(p) == {r \in DOMAIN input : input[r] = p /\ \A s \in 1..(r - 1) : input[s] # p}

\* tuple_id_map: the rows that share a prompt.
TupleIds(p) == {r \in DOMAIN input : input[r] = p}

\* The rows answered through position pos of the unprocessed list.
RowsAt(pos) == IF conf.use_cache THEN TupleIds(unprocessed[pos]) ELSE {pos}

\* Elements es stored from the position after frow on: into the rows of each position,
Written(frow, es) ==
    [r \in DOMAIN output |->
        IF \E j \in DOMAIN es : r \in RowsAt(frow + j)
        THEN Cell(es[CHOOSE j \in DOMAIN es : r \in RowsAt(frow + j)])
        ELSE output[r]]

\* A slip kept for comparison: a batch's last element ends up under its first prompt.
CachedUnderFirst(frow, es) ==
    IF conf.use_cache /\ es # <<>>
    THEN [cache EXCEPT ![unprocessed[frow + 1]] = es[Len(es)]]
    ELSE cache

\* and texts es kept, with use_cache, under each position's prompt. A text stands for the
\* element extract_row_data reads from it.
Cached(frow, es) ==
    IF conf.use_cache
    THEN [p \in Prompts |->
            IF \E j \in DOMAIN es : unprocessed[frow + j] = p
            THEN es[CHOOSE j \in DOMAIN es : unprocessed[frow + j] = p]
            ELSE cache[p]]
    ELSE cache

\* The texts dump() makes of the elements of an array. A hit cuts its text with
\* extract_json, which counts the braces inside strings too: for the elements in cut no
\* end is found, or one inside a string, and what is left does not parse.
Dumped(es, cut) == [j \in DOMAIN es |-> IF j \in cut THEN Blank ELSE es[j]]

\* fill_null over a set of rows of cells.
Nulled(cells, rows) == [r \in DOMAIN cells |-> IF r \in rows THEN Null ELSE cells[r]]

\* std::map's keys in order: the ways to list set S increasingly (there is one).
SortedKeys(S) ==
    {s \in [1..Cardinality(S) -> S] :
        /\ \A i, j \in DOMAIN s : i < j => s[i] < s[j]
        /\ \A p \in S : \E i \in DOMAIN s : s[i] = p}
-----------------------------------------------------------------------------
Init ==
    /\ conf \in Configs
    /\ pc = "none"
    /\ chunks = 0
    /\ input = <<>>
    /\ output = <<>>
    /\ cache = [p \in Prompts |-> None]
    /\ unprocessed = <<>>
    /\ next = 0
    /\ futures = <<>>
    /\ run = 0
    /\ batch_fails = <<>>
    /\ total_calls = 0
    /\ llm_calls = 0
    /\ posts = 0

\* GetOperatorState: a predictor with its settings and an empty cache.
StartQuery ==
    /\ pc \in {"none", "aborted", "crashed"}
    /\ pc' = "idle"
    /\ conf' \in Configs
    /\ cache' = [p \in Prompts |-> None]
    /\ input' = <<>>
    /\ output' = <<>>
    /\ chunks' = 0
    /\ llm_calls' = 0
    /\ posts' = 0
    /\ UNCHANGED <<unprocessed, waveVars>>

\* The pipeline is exhausted; the operator state and its cache are destroyed.
EndQuery ==
    /\ pc = "idle"
    /\ pc' = "none"
    /\ UNCHANGED <<queryVars, chunkVars, output, cache, waveVars, posts>>

\* A slip kept for comparison: the cache is not consulted.
ToAskUncached(in) ==
    IF conf.use_cache THEN SortedKeys({in[r] : r \in DOMAIN in}) ELSE {in}

\* The prompts still to be asked for a chunk, as PredictChunk's first loop lists them:
\* with use_cache the distinct prompts without a cache entry, else every row's.
ToAsk(in) ==
    IF conf.use_cache
    THEN SortedKeys({in[r] : r \in {s \in DOMAIN in : cache[in[s]] = None}})
    ELSE {in}

\* PredictChunk up to the first wave.
BeginChunk ==
    /\ pc = "idle"
    /\ chunks < MaxChunks
    /\ \E n \in 1..MaxRows : \E in \in [1..n -> Prompts] :
          /\ input' = in
          /\ output' = [r \in 1..n |->
                          IF conf.use_cache /\ cache[in[r]] # None
                          THEN Cell(cache[in[r]]) ELSE Unset]
          /\ unprocessed' \in ToAsk(in)
    /\ chunks' = chunks + 1
    /\ pc' = "launch"
    /\ UNCHANGED <<conf, cache, waveVars, llm_calls, posts>>
-----------------------------------------------------------------------------
(* The first loop: waves of batches. *)

Task(call, frow, n) ==
    [call |-> call, frow |-> frow, n_rows |-> n, n_calls |-> 0, outputs |-> <<>>,
     status |-> "running"]

BatchTask(b) ==
    LET frow == FirstRow(b, Imp)
    IN  Task("PredictBatch", frow, LastRow(b, Imp, Len(unprocessed)) - frow)

LaunchWave ==
    /\ pc = "launch"
    /\ next < AllRounds
    /\ futures' = [k \in 1..WaveSize(next, AllRounds, conf.n_threads) |->
                     BatchTask(next + k - 1)]
    /\ run' = 0
    /\ pc' = "collect"
    /\ UNCHANGED <<queryVars, chunkVars, output, cache, next, batch_fails, total_calls, posts>>

\* The futures of a wave are gone through in launch order; get() waits for the next.
Current == futures[run + 1]
Getting(at, status) ==
    /\ pc = at
    /\ run < Len(futures)
    /\ Current.status = status

Success(t) == t.n_calls = Len(t.outputs)

\* extract_longest_integer's std::stoi throws std::out_of_range, which none of the
\* handlers around it catches.
ConversionThrows(t) ==
    \E i \in DOMAIN t.outputs : \E j \in DOMAIN t.outputs[i].elems :
        t.outputs[i].elems[j] = Unstorable

\* A slip kept for comparison: a result counts for one call, however many it took.
CountedAsOne ==
    /\ run' = run + 1
    /\ total_calls' = total_calls + 1

\* What every collected result changes besides the cells and the cache.
Counted ==
    /\ run' = run + 1
    /\ total_calls' = total_calls + Current.n_calls

\* A slip kept for comparison: positions shifted by one.
PositionsShifted(t) == [j \in 1..t.n_rows |-> t.frow + j + 1]

Positions(t) == [j \in 1..t.n_rows |-> t.frow + j]

\* A batch that brought no content: its rows go to the second loop.
CollectFailedBatch ==
    /\ Getting("collect", "ready")
    /\ conf.use_batch
    /\ ~ Success(Current)
    /\ batch_fails' = batch_fails \o Positions(Current)
    /\ Counted
    /\ UNCHANGED <<queryVars, pc, chunkVars, output, cache, next, futures, posts>>

\* Slips kept for comparison: the batch's rows counted from the start of the chunk,
ExtractFromZero(t, content) ==
    LET m == IF content.json THEN Min2(Len(content.elems), t.n_rows) ELSE 0
    IN  /\ output' = Nulled(Written(0, SubSeq(content.elems, 1, m)), (m + 1)..t.n_rows)
        /\ UNCHANGED cache

\* the first missing row forgotten,
ExtractForgetsOne(t, content) ==
    LET m == IF content.json THEN Min2(Len(content.elems), t.n_rows) ELSE 0
    IN  /\ output' = Nulled(Written(t.frow, SubSeq(content.elems, 1, m)),
                            (t.frow + m + 2)..(t.frow + t.n_rows))
        /\ UNCHANGED cache

\* and no check of the number of elements.
ExtractUnbounded(t, content) ==
    LET m == IF content.json THEN Len(content.elems) ELSE 0
    IN  /\ output' = Nulled(Written(t.frow, content.elems),
                            (t.frow + m + 1)..(t.frow + t.n_rows))
        /\ UNCHANGED cache

\* extract_array_data over orig_rows: elements beyond n_rows are ignored, rows beyond
\* the elements are nulled, all of them when the content is no array.
ExtractRows(t, content) ==
    LET m == IF content.json THEN Min2(Len(content.elems), t.n_rows) ELSE 0
    IN  /\ output' = Nulled(Written(t.frow, SubSeq(content.elems, 1, m)),
                            (t.frow + m + 1)..(t.frow + t.n_rows))
        /\ UNCHANGED cache

\* extract_array_data over tuple_id_map: every element is stored, whatever n_rows says,
\* the rows from the element itself and the cache from its text;
\* fewer than n_rows - 1 of them, or no array, null the rows numbered like the
\* positions left over.
ExtractMap(t, content) ==
    LET known == Len(unprocessed) - t.frow
        m     == IF content.json THEN Min2(Len(content.elems), known) ELSE 0
        es    == SubSeq(content.elems, 1, m)
    IN  /\ \E cut \in SUBSET DOMAIN es : cache' = Cached(t.frow, Dumped(es, cut))
        /\ output' = IF content.json /\ m + 1 >= t.n_rows
                     THEN Written(t.frow, es)
                     ELSE Nulled(Written(t.frow, es), (t.frow + m + 1)..(t.frow + t.n_rows))

CollectBatch ==
    /\ Getting("collect", "ready")
    /\ conf.use_batch
    /\ Success(Current)
    /\ ~ ConversionThrows(Current)
    /\ IF conf.use_cache THEN ExtractMap(Current, Current.outputs[1])
                         ELSE ExtractRows(Current, Current.outputs[1])
    /\ Counted
    /\ UNCHANGED <<queryVars, pc, chunkVars, next, futures, batch_fails, posts>>

\* Without use_batch the task holds one output per row that brought content, and the
\* thread reads n_rows of them. Reading past the last one is undefined: garbage that
\* parses to nothing, or the crash below.
RowElems(t) ==
    [j \in 1..t.n_rows |->
        IF j <= Len(t.outputs) THEN t.outputs[j].elems[1] ELSE Blank]

CollectRows ==
    /\ Getting("collect", "ready")
    /\ ~ conf.use_batch
    /\ ~ ConversionThrows(Current)
    /\ output' = Written(Current.frow, RowElems(Current))
    /\ cache' = Cached(Current.frow, RowElems(Current))
    /\ Counted
    /\ UNCHANGED <<queryVars, pc, chunkVars, next, futures, batch_fails, posts>>

\* The thread reads outputs past their end, or dereferences the end of tuple_id_map for
\* an array element beyond the last unprocessed prompt. In ExtractMap the same element
\* is dropped: the other outcome of that undefined behaviour.
Overruns(t) ==
    IF conf.use_batch
    THEN /\ conf.use_cache
         /\ Success(t)
         /\ t.outputs[1].json
         /\ t.frow + Len(t.outputs[1].elems) > Len(unprocessed)
    ELSE ~ Success(t)

Crash ==
    /\ Getting("collect", "ready")
    /\ Overruns(Current)
    /\ pc' = "crashed"
    /\ unprocessed' = <<>>
    /\ futures' = <<>>
    /\ next' = 0
    /\ run' = 0
    /\ batch_fails' = <<>>
    /\ total_calls' = 0
    /\ UNCHANGED <<queryVars, input, output, cache, posts>>

EndWave ==
    /\ pc = "collect"
    /\ run = Len(futures)
    /\ futures' = <<>>
    /\ run' = 0
    /\ next' = next + conf.n_threads
    /\ pc' = "launch"
    /\ UNCHANGED <<queryVars, chunkVars, output, cache, batch_fails, total_calls, posts>>

BeginRetries ==
    /\ pc = "launch"
    /\ next >= AllRounds
    /\ next' = 0
    /\ pc' = "relaunch"
    /\ UNCHANGED <<queryVars, chunkVars, output, cache, futures, run, batch_fails,
                   total_calls, posts>>
-----------------------------------------------------------------------------
(* The second loop: the rows of failed batches, one request each. *)

RetryTask(k) == Task("PredictOne", batch_fails[k] - 1, 1)

LaunchRetries ==
    /\ pc = "relaunch"
    /\ next < Len(batch_fails)
    /\ futures' = [k \in 1..WaveSize(next, Len(batch_fails), conf.n_threads) |->
                     RetryTask(next + k)]
    /\ run' = 0
    /\ pc' = "recollect"
    /\ UNCHANGED <<queryVars, chunkVars, output, cache, next, batch_fails, total_calls, posts>>

\* PropagateSingleResult; a call without content leaves its rows as they are.
CollectRetry ==
    /\ Getting("recollect", "ready")
    /\ ~ ConversionThrows(Current)
    /\ IF Success(Current)
       THEN LET es == <<Current.outputs[1].elems[1]>>
            IN  /\ output' = Written(Current.frow, es)
                /\ cache' = Cached(Current.frow, es)
       ELSE UNCHANGED <<output, cache>>
    /\ Counted
    /\ UNCHANGED <<queryVars, pc, chunkVars, next, futures, batch_fails, posts>>

EndRetryWave ==
    /\ pc = "recollect"
    /\ run = Len(futures)
    /\ futures' = <<>>
    /\ run' = 0
    /\ next' = next + conf.n_threads
    /\ pc' = "relaunch"
    /\ UNCHANGED <<queryVars, chunkVars, output, cache, batch_fails, total_calls, posts>>

FinishChunk ==
    /\ pc = "relaunch"
    /\ next >= Len(batch_fails)
    /\ llm_calls' = llm_calls + total_calls
    /\ pc' = "idle"
    /\ unprocessed' = <<>>
    /\ next' = 0
    /\ batch_fails' = <<>>
    /\ total_calls' = 0
    /\ UNCHANGED <<conf, chunks, input, output, cache, futures, run, posts>>
-----------------------------------------------------------------------------
(* An exception leaves PredictChunk. *)

\* get() rethrows what the request threw.
Rethrow ==
    /\ Getting("collect", "thrown") \/ Getting("recollect", "thrown")
    /\ pc' = "unwind"
    /\ UNCHANGED <<queryVars, chunkVars, output, cache, waveVars, posts>>

\* A result that cannot be stored throws from the collecting loop itself; the cells it
\* wrote before do not matter, as the chunk is dropped.
CollectThrows ==
    /\ Getting("collect", "ready") \/ Getting("recollect", "ready")
    /\ ConversionThrows(Current)
    /\ pc' = "unwind"
    /\ UNCHANGED <<queryVars, chunkVars, output, cache, waveVars, posts>>

\* Slips kept for comparison: leaving without waiting for the other requests,
UnwindDetached ==
    /\ pc = "unwind"
    /\ pc' = "aborted"
    /\ unprocessed' = <<>>
    /\ next' = 0
    /\ run' = 0
    /\ batch_fails' = <<>>
    /\ total_calls' = 0
    /\ UNCHANGED <<queryVars, input, output, cache, futures, posts>>

\* and waiting for all of them to succeed.
UnwindStuck ==
    /\ pc = "unwind"
    /\ \A k \in DOMAIN futures : futures[k].status = "ready"
    /\ pc' = "aborted"
    /\ unprocessed' = <<>>
    /\ futures' = <<>>
    /\ next' = 0
    /\ run' = 0
    /\ batch_fails' = <<>>
    /\ total_calls' = 0
    /\ UNCHANGED <<queryVars, input, output, cache, posts>>

\* The futures are destroyed before the lists the requests refer to, and the destructor
\* of a std::async future waits for its task.
Unwind ==
    /\ pc = "unwind"
    /\ \A k \in DOMAIN futures : futures[k].status # "running"
    /\ pc' = "aborted"
    /\ unprocessed' = <<>>
    /\ futures' = <<>>
    /\ next' = 0
    /\ run' = 0
    /\ batch_fails' = <<>>
    /\ total_calls' = 0
    /\ UNCHANGED <<queryVars, input, output, cache, posts>>
-----------------------------------------------------------------------------
(* The asynchronous requests and the endpoint that answers them. *)

\* The model's answer to the j-th prompt of a request: the request is built from the
\* shared unprocessed list when the task runs.
AnswerTo(t, j) ==
    [prompt |-> unprocessed[t.frow + j], chunk |-> chunks, pos |-> t.frow + j]

Running(k, call) ==
    /\ k \in DOMAIN futures
    /\ futures[k].status = "running"
    /\ futures[k].call = call

\* What a task's step leaves alone: everything but its own result.
Answered ==
    /\ posts' = posts + 1
    /\ UNCHANGED <<queryVars, pc, chunkVars, output, cache, next, run, batch_fails, total_calls>>

Finish(k, outputs) ==
    futures' = [futures EXCEPT ![k].outputs = outputs, ![k].n_calls = 1, ![k].status = "ready"]

\* What it may reply to that prompt, as the element its text parses to. For a single
\* call "{}" stands in after an HTTP error that CheckApiError lets pass.
Replies(t, j) ==
    {AnswerTo(t, j), Blank} \cup (IF "overflow" \in Lax THEN {Unstorable} ELSE {})

\* The lengths the endpoint may give an array that was asked to hold n elements.
Lengths(n) ==
    {n} \cup (IF "short" \in Lax THEN 0..(n - 1) ELSE {})
        \cup (IF "long" \in Lax THEN {n + 1} ELSE {})

\* The arrays of length m: a reply to each prompt in order, then what nobody asked for.
Arrays(t, m) ==
    {es \in [1..m -> {Stray} \cup UNION {Replies(t, j) : j \in 1..t.n_rows}] :
        \A j \in 1..m : es[j] \in IF j <= t.n_rows THEN Replies(t, j) ELSE {Stray}}

\* PredictBatch with use_batch: one request for all rows of the batch.
BatchAnswered(k) ==
    /\ Running(k, "PredictBatch")
    /\ conf.use_batch
    /\ LET t == futures[k]
       IN  \E m \in Lengths(t.n_rows) :
           \E es \in Arrays(t, m) : Finish(k, <<[json |-> TRUE, elems |-> es]>>)
    /\ Answered

\* Content no array can be read from: prose, a refusal, JSON cut off, or an array whose
\* text extract_json cuts short at a brace inside a string.
BatchGarbled(k) ==
    /\ Running(k, "PredictBatch")
    /\ conf.use_batch
    /\ "garbled" \in Lax
    /\ Finish(k, <<[json |-> FALSE, elems |-> <<>>]>>)
    /\ Answered

\* An HTTP error that CheckApiError lets pass, a body that is not JSON, a message
\* without content.
BatchRefused(k) ==
    /\ Running(k, "PredictBatch")
    /\ conf.use_batch
    /\ Finish(k, <<>>)
    /\ Answered

\* PredictBatch without use_batch: PredictOne for each row of the batch in turn.
RowReplied(k, outputs) ==
    futures' = [futures EXCEPT
                  ![k].outputs = outputs,
                  ![k].n_calls = @ + 1,
                  ![k].status = IF futures[k].n_calls + 1 = futures[k].n_rows
                                THEN "ready" ELSE "running"]

RowAnswered(k) ==
    /\ Running(k, "PredictBatch")
    /\ ~ conf.use_batch
    /\ \E e \in Replies(futures[k], futures[k].n_calls + 1) :
          RowReplied(k, Append(futures[k].outputs, [json |-> TRUE, elems |-> <<e>>]))
    /\ Answered

RowWithoutContent(k) ==
    /\ Running(k, "PredictBatch")
    /\ ~ conf.use_batch
    /\ "nocontent" \in Lax
    /\ RowReplied(k, futures[k].outputs)
    /\ Answered

\* PredictOne for a row of the second loop.
OneAnswered(k) ==
    /\ Running(k, "PredictOne")
    /\ \E e \in Replies(futures[k], 1) :
          Finish(k, <<[json |-> TRUE, elems |-> <<e>>]>>)
    /\ Answered

OneWithoutContent(k) ==
    /\ Running(k, "PredictOne")
    /\ "nocontent" \in Lax
    /\ Finish(k, <<>>)
    /\ Answered

\* 401, 404, a connection error, a body without any JSON or without usage figures.
Throw(k) ==
    /\ Running(k, "PredictBatch") \/ Running(k, "PredictOne")
    /\ futures' = [futures EXCEPT ![k].status = "thrown"]
    /\ Answered

Request(k) ==
    \/ BatchAnswered(k)
    \/ BatchGarbled(k)
    \/ BatchRefused(k)
    \/ RowAnswered(k)
    \/ RowWithoutContent(k)
    \/ OneAnswered(k)
    \/ OneWithoutContent(k)
    \/ Throw(k)
-----------------------------------------------------------------------------
\* The thread's steps inside a chunk.
Thread ==
    \/ LaunchWave
    \/ CollectFailedBatch
    \/ CollectBatch
    \/ CollectRows
    \/ Crash
    \/ EndWave
    \/ BeginRetries
    \/ LaunchRetries
    \/ CollectRetry
    \/ EndRetryWave
    \/ FinishChunk
    \/ Rethrow
    \/ CollectThrows
    \/ Unwind

Endpoint == \E k \in DOMAIN futures : Request(k)

Next ==
    \/ StartQuery
    \/ EndQuery
    \/ BeginChunk
    \/ Thread
    \/ Endpoint

\* The thread runs on and every request comes back (the HTTP client's timeout turns a
\* silent endpoint into a connection error); the query need not ask for more chunks.
Fairness == WF_vars(Thread) /\ WF_vars(Endpoint)

Spec == Init /\ [][Next]_vars
FairSpec == Spec /\ Fairness
-----------------------------------------------------------------------------
(* Properties. *)

TypeOK ==
    /\ conf \in Configs
    /\ pc \in Working \cup {"none", "idle", "unwind", "aborted", "crashed"}
    /\ chunks \in Nat
    /\ input \in Seq(Prompts)
    /\ output \in [DOMAIN input -> Cells]
    /\ cache \in [Prompts -> Storable \cup {None}]
    /\ unprocessed \in Seq(Prompts)
    /\ next \in Nat
    /\ futures \in Seq(Tasks)
    /\ run \in 0..Len(futures)
    /\ batch_fails \in Seq(1..Len(unprocessed))
    /\ total_calls \in Nat
    /\ llm_calls \in Nat
    /\ posts \in Nat

\* Where positions and rows correspond whatever the endpoint replies: the batched path
\* without the cache. The other paths rely on replies in the requested format.
Aligned == Lax = {} \/ (conf.use_batch /\ ~ conf.use_cache)

\* A cell holds NULL or what the model answered to the row's own prompt: no reordering
\* of answers, short reply, retry or shared prompt moves an answer to another row.
RowsHoldOwnAnswers ==
    \A r \in DOMAIN output :
        output[r] \in {Unset, Null} \/ (output[r] \in Answers /\ output[r].prompt = input[r])

OwnAnswers == Aligned => RowsHoldOwnAnswers

\* When a chunk is about to be handed on, a row still unwritten can only be one whose
\* batch failed and whose own call then brought no content: every position was in
\* exactly one batch, and every batch was collected, nulled or retried.
OpenRowsFailedTwice ==
    (Aligned /\ pc = "relaunch" /\ next >= Len(batch_fails)) =>
        \A r \in DOMAIN output :
            output[r] = Unset =>
                /\ "nocontent" \in Lax
                /\ \E i \in DOMAIN batch_fails : batch_fails[i] = r

\* The rows of a group of equal prompts share one answer.
GroupsShareOneAnswer ==
    (conf.use_cache /\ pc \in {"idle", "none"}) =>
        \A r, s \in DOMAIN output : input[r] = input[s] => output[r] = output[s]

SharedAnswers == Aligned => GroupsShareOneAnswer

\* A cell beside the text kept under its row's prompt: the cell is what a hit makes of
\* the text. In the batched path, where the row had the parsed element and the cache its
\* text, a hit may make NULL of it instead.
ShowsEntry(cell, text) ==
    \/ cell = Cell(text)
    \/ conf.use_batch /\ cell # Unset /\ Cell(text) = Null

\* What the cache would answer from now on is what the chunk's own rows were given, or
\* with use_batch NULL: a hit in a later chunk never shows a row another answer than the
\* one its prompt had, though it may lose the answer (extract_json on a dumped element).
CacheAgrees ==
    (Aligned /\ conf.use_cache) =>
        \A r \in DOMAIN output :
            cache[input[r]] # None => ShowsEntry(output[r], cache[input[r]])

\* Requests in flight never overlap, and with the cache no prompt is paid for that has
\* an entry.
AskedOnce ==
    Aligned =>
        \A k, l \in DOMAIN futures : \A i \in 1..futures[k].n_rows : \A j \in 1..futures[l].n_rows :
            LET p == futures[k].frow + i
                q == futures[l].frow + j
            IN  futures[k].status = "running" =>
                   /\ p = q => k = l
                   /\ conf.use_cache =>
                        /\ cache[unprocessed[p]] = None
                        /\ unprocessed[p] = unprocessed[q] => k = l

\* No request outlives the lists it refers to, not even when another one of its wave
\* has thrown and the chunk is being left.
InputOutlivesRequests ==
    \A k \in DOMAIN futures :
        futures[k].status = "running" => futures[k].frow + futures[k].n_rows <= Len(unprocessed)

\* When a chunk is handed on, the statistics hold every request the endpoint answered,
\* batched, single or repeated, exactly once.
CallsCountedOnce == pc \in {"idle", "none"} => llm_calls = posts

\* An answer, once in its row, is not overwritten while the chunk is worked on.
SettledOnce ==
    [][Aligned /\ pc \in Working =>
         \A r \in DOMAIN output : output[r] # Unset => output'[r] = output[r]]_vars

\* Every chunk comes to an end, with or without an exception.
ChunkEnds == pc \in Working \cup {"unwind"} ~> pc \in {"idle", "aborted", "crashed"}

\* The chunk operator implements the promise to the operator above it.
AbstractPhase ==
    IF pc \in {"none", "idle"} THEN "ready" ELSE IF pc \in Working THEN "busy" ELSE "failed"

Promise == INSTANCE SemanticPredict WITH phase <- AbstractPhase, rows <- input, cells <- output
ImplementsPromise == Promise!Spec

\* The rest strengthens TypeOK and OwnAnswers to an inductive invariant.

\* An element that is no answer, or the answer to prompt p.
Answering(e, p) == e \in {Blank, Unstorable} \/ (e \in Answers /\ e.prompt = p)

\* A request that stands for one row at a time: PredictOne, or PredictBatch without
\* use_batch.
Single(t) == t.call = "PredictOne" \/ ~ conf.use_batch

\* What a request may hold, from its launch until it is collected.
RequestInv(t) ==
    /\ t.n_rows > 0
    /\ t.frow + t.n_rows <= Len(unprocessed)
    /\ t.call = "PredictOne" => t.n_rows = 1
    /\ t.call = (IF pc = "recollect" THEN "PredictOne" ELSE "PredictBatch") \/ pc = "unwind"
    /\ t.n_calls <= t.n_rows
    /\ t.status = "running" => t.n_calls < (IF Single(t) THEN t.n_rows ELSE 1)
    /\ t.status = "ready" => t.n_calls = (IF Single(t) THEN t.n_rows ELSE 1)
    /\ Len(t.outputs) <= t.n_calls
    /\ Lax = {} /\ Single(t) => Len(t.outputs) = t.n_calls
    /\ \A i \in DOMAIN t.outputs :
          LET elems == t.outputs[i].elems
          IN  IF Single(t)
              THEN /\ Len(elems) = 1
                   /\ Lax = {} \/ t.n_rows = 1 => Answering(elems[1], unprocessed[t.frow + i])
              ELSE /\ \A j \in DOMAIN elems :
                         j <= t.n_rows => Answering(elems[j], unprocessed[t.frow + j])
                   /\ Lax = {} => Len(elems) <= t.n_rows

\* Outside the two loops nothing is in flight or to be retried, and between chunks
\* nothing is left to be asked.
AtRest ==
    /\ pc \notin {"collect", "recollect", "unwind"} => futures = <<>> /\ run = 0
    /\ pc \notin Working \cup {"unwind"} =>
          unprocessed = <<>> /\ batch_fails = <<>> /\ next = 0

\* Positions are rows as long as equal prompts are not grouped.
ListInv == pc \in Working \cup {"unwind"} /\ ~ conf.use_cache => unprocessed = input

\* The cache holds nothing under a prompt but what the model answered to it.
CacheInv ==
    Aligned => \A p \in Prompts : cache[p] = None \/ Answering(cache[p], p)

IInv ==
    /\ TypeOK
    /\ \A k \in DOMAIN futures : RequestInv(futures[k])
    /\ AtRest
    /\ ListInv
    /\ CacheInv
    /\ OwnAnswers

\* A second invariant follows from the first: every position of the list is asked and
\* settled in one place. A position is open while its request is not collected, or, in
\* either loop, not launched yet.
Span(t) == (t.frow + 1)..(t.frow + t.n_rows)
Failed(p) == \E i \in DOMAIN batch_fails : batch_fails[i] = p
Front == FirstRow(next + Len(futures), Imp)
Open(p) ==
    \/ \E k \in DOMAIN futures : k > run /\ p \in Span(futures[k])
    \/ pc \in {"launch", "collect"} /\ (p > Front \/ Failed(p))
    \/ /\ pc \in {"relaunch", "recollect"}
       /\ \E i \in DOMAIN batch_fails : i > next + Len(futures) /\ batch_fails[i] = p

\* Requests, failed positions and the rest of the list are in order, without overlaps.
OrderInv ==
    /\ \A k, l \in DOMAIN futures : k < l => futures[k].frow + futures[k].n_rows <= futures[l].frow
    /\ \A i, j \in DOMAIN batch_fails : i < j => batch_fails[i] < batch_fails[j]
    /\ \A k \in DOMAIN futures : futures[k].status = "running" => k > run
    /\ conf.use_cache => \A p, q \in DOMAIN unprocessed : unprocessed[p] = unprocessed[q] => p = q
    /\ pc \in {"launch", "collect"} =>
          /\ \A k \in DOMAIN futures : futures[k].frow + futures[k].n_rows <= Front
          /\ \A i \in DOMAIN batch_fails : batch_fails[i] <= Front
          /\ \A i \in DOMAIN batch_fails, k \in DOMAIN futures :
                k > run => batch_fails[i] <= futures[k].frow
    /\ pc = "collect" => Len(futures) = WaveSize(next, AllRounds, conf.n_threads)
    /\ pc = "recollect" =>
          /\ Len(futures) = WaveSize(next, Len(batch_fails), conf.n_threads)
          /\ \A k \in DOMAIN futures : futures[k].frow + 1 = batch_fails[next + k]

\* A reply in the requested format is complete; a call counts as failed without content.
ReplyInv(t) ==
    /\ (Lax = {} /\ ~ Single(t)) =>
          \A i \in DOMAIN t.outputs : t.outputs[i].json /\ Len(t.outputs[i].elems) = t.n_rows
    /\ (Single(t) /\ "nocontent" \notin Lax) => Len(t.outputs) = t.n_calls

\* Nothing is known of an open position.
OpenInv ==
    Aligned => \A p \in DOMAIN unprocessed : Open(p) =>
        IF conf.use_cache THEN cache[unprocessed[p]] = None ELSE output[p] = Unset

\* With the cache, a row shows what it holds, and rows of one prompt show the same.
ShownInv ==
    (Aligned /\ conf.use_cache) =>
        /\ \A r \in DOMAIN output :
              IF cache[input[r]] = None THEN output[r] = Unset
              ELSE ShowsEntry(output[r], cache[input[r]])
        /\ \A r, s \in DOMAIN output : input[r] = input[s] => output[r] = output[s]

\* An unwritten row is one of an open position, or its own call has failed.
UnsetInv ==
    (Aligned /\ pc \in Working) => \A r \in DOMAIN output : output[r] = Unset =>
        \E p \in DOMAIN unprocessed :
            r \in RowsAt(p) /\ (Open(p) \/ ("nocontent" \in Lax /\ Failed(p)))

\* The calls of the requests that are not collected yet.
Uncounted == UNION {{<<k, i>> : i \in 1..futures[k].n_calls} : k \in (run + 1)..Len(futures)}

\* A call made is counted already or among those; once a request has thrown, whose call
\* nobody counts, the chunk is not handed on.
CallsInv ==
    /\ IsFiniteSet(Uncounted)
    /\ pc \notin Working \cup {"unwind"} => total_calls = 0
    /\ pc \in Working \cup {"idle", "none"} =>
          \/ posts = llm_calls + total_calls + Cardinality(Uncounted)
          \/ \E k \in (run + 1)..Len(futures) : futures[k].status = "thrown"

OnceInv ==
    /\ OrderInv
    /\ \A k \in DOMAIN futures : ReplyInv(futures[k])
    /\ OpenInv
    /\ ShownInv
    /\ UnsetInv
    /\ CallsInv

\* As the documentation has it, rows whose batched result could not be parsed fall back
\* to calls of their own.
UnparsedFallsBack ==
    [][ (/\ Getting("collect", "ready")
         /\ conf.use_batch
         /\ Success(Current)
         /\ ~ Current.outputs[1].json
         /\ run' = run + 1)
        => \A j \in 1..Current.n_rows :
              \E i \in DOMAIN batch_fails' : batch_fails'[i] = Current.frow + j ]_vars
=============================================================================
