----------------------- MODULE LlmPredictChunk_proofs -----------------------
(***************************************************************************)
(* Invariants of LlmPredictChunk for any prompts, chunk sizes, settings    *)
(* and endpoint. IInv is inductive: what a request holds (RequestInv), the *)
(* correspondence of positions and rows (ListInv), and what the cache      *)
(* holds (CacheInv) are needed to know what a collected result writes, and *)
(* AtRest that nothing is left over when a new list is made.               *)
(***************************************************************************)
EXTENDS LlmPredictChunk, LlmBatching_proofs, FiniteSetTheorems, TLAPS

Requests == \A k \in DOMAIN futures : RequestInv(futures[k])

\* Beyond its first part, a list is what was appended to it.
LEMMA AppendedAt ==
  ASSUME NEW S, NEW s \in Seq(S), NEW t \in Seq(S), NEW i \in Nat,
         i > Len(s), i - Len(s) \in 1..Len(t)
  PROVE  (s \o t)[i] = t[i - Len(s)]
<1>1. i \in 1..(Len(s) + Len(t))
  OBVIOUS
<1>2. QED BY <1>1

\* The positions of a request that lies within a set of numbers are a list over that set.
LEMMA PositionsType ==
  ASSUME NEW S, NEW t, t.n_rows \in Nat, \A j \in 1..t.n_rows : t.frow + j \in S
  PROVE  Positions(t) \in Seq(S)
  BY DEF Positions

LEMMA ConfType ==
  ASSUME conf \in Configs
  PROVE  /\ conf.n_threads \in Nat \ {0}
         /\ conf.batch_size \in Nat \ {0}
         /\ conf.use_cache \in BOOLEAN
         /\ conf.use_batch \in BOOLEAN
  BY ConfigsAssumption

LEMMA CellType ==
  ASSUME NEW e \in Storable
  PROVE  /\ Cell(e) \in Cells
         /\ Cell(e) # Unset
  BY MarksAssumption DEF Storable, Cells, Cell

LEMMA WrittenType ==
  ASSUME output \in [DOMAIN input -> Cells], NEW frow \in Nat, NEW es \in Seq(Storable)
  PROVE  Written(frow, es) \in [DOMAIN input -> Cells]
<1>1. ASSUME NEW r \in DOMAIN output
      PROVE  (IF \E j \in DOMAIN es : r \in RowsAt(frow + j)
              THEN Cell(es[CHOOSE j \in DOMAIN es : r \in RowsAt(frow + j)])
              ELSE output[r]) \in Cells
  <2>1. CASE \E j \in DOMAIN es : r \in RowsAt(frow + j)
    <3>1. PICK j \in DOMAIN es : j = CHOOSE i \in DOMAIN es : r \in RowsAt(frow + i)
      BY <2>1
    <3>2. Cell(es[j]) \in Cells
      BY CellType
    <3>3. QED BY <2>1, <3>1, <3>2
  <2>2. CASE ~ \E j \in DOMAIN es : r \in RowsAt(frow + j)
    BY <2>2
  <2>3. QED BY <2>1, <2>2
<1>2. QED BY <1>1 DEF Written

LEMMA NulledType ==
  ASSUME NEW cells \in [DOMAIN input -> Cells], NEW rows
  PROVE  Nulled(cells, rows) \in [DOMAIN input -> Cells]
  BY DEF Nulled, Cells

\* The texts kept of an array stand for elements a row can hold.
LEMMA DumpedType ==
  ASSUME NEW es \in Seq(Storable), NEW cut
  PROVE  /\ Dumped(es, cut) \in Seq(Storable)
         /\ DOMAIN Dumped(es, cut) = DOMAIN es
         /\ \A j \in DOMAIN es : Dumped(es, cut)[j] \in {es[j], Blank}
<1>1. /\ Len(es) \in Nat /\ DOMAIN es = 1..Len(es)
      /\ \A j \in DOMAIN es : es[j] \in Storable
  OBVIOUS
<1>2. Blank \in Storable
  BY DEF Storable
<1>3. Dumped(es, cut) \in [1..Len(es) -> Storable]
  BY <1>1, <1>2 DEF Dumped
<1>4. Dumped(es, cut) \in Seq(Storable)
  BY <1>1, <1>3
<1>5. QED BY <1>4 DEF Dumped

LEMMA CachedType ==
  ASSUME cache \in [Prompts -> Storable \cup {None}], NEW frow \in Nat, NEW es \in Seq(Storable)
  PROVE  Cached(frow, es) \in [Prompts -> Storable \cup {None}]
<1>1. ASSUME NEW p \in Prompts
      PROVE  (IF \E j \in DOMAIN es : unprocessed[frow + j] = p
              THEN es[CHOOSE j \in DOMAIN es : unprocessed[frow + j] = p]
              ELSE cache[p]) \in Storable \cup {None}
  <2>1. CASE \E j \in DOMAIN es : unprocessed[frow + j] = p
    <3>1. PICK j \in DOMAIN es : j = CHOOSE i \in DOMAIN es : unprocessed[frow + i] = p
      BY <2>1
    <3>2. QED BY <2>1, <3>1
  <2>2. CASE ~ \E j \in DOMAIN es : unprocessed[frow + j] = p
    BY <2>2
  <2>3. QED BY <2>1, <2>2
<1>2. QED BY <1>1 DEF Cached
-----------------------------------------------------------------------------
(* What the thread finds in the request it collects. *)

LEMMA CurrentRequest ==
  ASSUME TypeOK, Requests, run < Len(futures)
  PROVE  /\ run + 1 \in DOMAIN futures
         /\ Current \in Tasks
         /\ RequestInv(Current)
<1>1. run \in Nat /\ Len(futures) \in Nat
  BY DEF TypeOK
<1>2. run + 1 \in DOMAIN futures /\ futures \in Seq(Tasks)
  BY <1>1 DEF TypeOK
<1>3. QED BY <1>2 DEF Current, Requests

\* The elements of a request's outputs, if they can be stored.
LEMMA StorableElems ==
  ASSUME NEW t \in Tasks, ~ ConversionThrows(t), NEW i \in DOMAIN t.outputs
  PROVE  t.outputs[i].elems \in Seq(Storable)
<1>1. t.outputs[i].elems \in Seq(Elems)
  <2>1. t.outputs \in Seq(Contents)
    BY DEF Tasks
  <2>2. t.outputs[i] \in Contents
    BY <2>1
  <2>3. QED BY <2>2 DEF Contents
<1>2. \A j \in DOMAIN t.outputs[i].elems : t.outputs[i].elems[j] \in Storable
  BY <1>1 DEF ConversionThrows, Elems
<1>3. QED BY <1>1, <1>2

\* The prefix of the elements that a batch stores.
LEMMA Prefix ==
  ASSUME NEW es \in Seq(Storable), NEW m \in 0..Len(es)
  PROVE  /\ SubSeq(es, 1, m) \in Seq(Storable)
         /\ Len(SubSeq(es, 1, m)) = m
         /\ \A j \in 1..m : SubSeq(es, 1, m)[j] = es[j]
  OBVIOUS

\* A batch that is neither failed nor unstorable: one content.
LEMMA BatchContent ==
  ASSUME TypeOK, Requests, Getting("collect", "ready"), conf.use_batch, Success(Current),
         ~ ConversionThrows(Current)
  PROVE  /\ Current \in Tasks
         /\ RequestInv(Current)
         /\ ~ Single(Current)
         /\ 1 \in DOMAIN Current.outputs
         /\ Current.outputs[1].elems \in Seq(Storable)
<1>1. Current \in Tasks /\ RequestInv(Current)
  BY CurrentRequest DEF Getting
<1>2. ~ Single(Current)
  BY <1>1 DEF RequestInv, Getting, Single
<1>3. Len(Current.outputs) = 1
  BY <1>1, <1>2 DEF RequestInv, Getting, Success
<1>4. 1 \in DOMAIN Current.outputs
  BY <1>1, <1>3 DEF Tasks
<1>5. QED BY <1>1, <1>2, <1>4, StorableElems

\* The rows' elements of a request without use_batch.
LEMMA RowElemsType ==
  ASSUME TypeOK, Requests, Getting("collect", "ready"), ~ conf.use_batch,
         ~ ConversionThrows(Current)
  PROVE  /\ Current \in Tasks
         /\ RequestInv(Current)
         /\ RowElems(Current) \in Seq(Storable)
         /\ Len(RowElems(Current)) = Current.n_rows
<1>1. Current \in Tasks /\ RequestInv(Current)
  BY CurrentRequest DEF Getting
<1>2. Current.n_rows \in Nat /\ Current.outputs \in Seq(Contents)
  BY <1>1 DEF Tasks
<1>3. ASSUME NEW j \in 1..Current.n_rows
      PROVE  (IF j <= Len(Current.outputs) THEN Current.outputs[j].elems[1] ELSE Blank)
                \in Storable
  <2>1. CASE j <= Len(Current.outputs)
    <3>1. j \in DOMAIN Current.outputs
      BY <1>2, <2>1
    <3>2. Len(Current.outputs[j].elems) = 1
      BY <1>1, <3>1 DEF RequestInv, Single
    <3>3. Current.outputs[j].elems \in Seq(Storable)
      BY <1>1, <3>1, StorableElems
    <3>4. QED BY <2>1, <3>2, <3>3
  <2>2. CASE ~ (j <= Len(Current.outputs))
    BY <2>2 DEF Storable
  <2>3. QED BY <2>1, <2>2
<1>4. QED BY <1>1, <1>2, <1>3 DEF RowElems

\* The answer to a row's own request.
LEMMA RetryElem ==
  ASSUME TypeOK, Requests, Getting("recollect", "ready"), Success(Current),
         ~ ConversionThrows(Current)
  PROVE  /\ Current \in Tasks
         /\ RequestInv(Current)
         /\ Current.call = "PredictOne"
         /\ 1 \in DOMAIN Current.outputs
         /\ Current.outputs[1].elems[1] \in Storable
<1>1. Current \in Tasks /\ RequestInv(Current)
  BY CurrentRequest DEF Getting
<1>2. Current.call = "PredictOne" /\ Current.n_rows = 1
  BY <1>1 DEF RequestInv, Getting
<1>3. Len(Current.outputs) = 1
  BY <1>1, <1>2 DEF RequestInv, Getting, Single, Success
<1>4. 1 \in DOMAIN Current.outputs
  BY <1>1, <1>3 DEF Tasks
<1>5. Len(Current.outputs[1].elems) = 1 /\ Current.outputs[1].elems \in Seq(Storable)
  BY <1>1, <1>2, <1>4, StorableElems DEF RequestInv, Single
<1>6. QED BY <1>1, <1>2, <1>4, <1>5
-----------------------------------------------------------------------------
(* Type correctness of each step. *)

\* A chunk's prompts to ask are a list of prompts.
LEMMA ToAskType ==
  ASSUME NEW n \in Nat, NEW in \in [1..n -> Prompts], NEW list \in ToAsk(in)
  PROVE  list \in Seq(Prompts)
<1>1. CASE conf.use_cache
  <2> DEFINE S == {in[r] : r \in {s \in DOMAIN in : cache[in[s]] = None}}
  <2>1. S \subseteq Prompts
    OBVIOUS
  <2>2. list \in SortedKeys(S)
    BY <1>1 DEF ToAsk
  <2> HIDE DEF S
  <2>3. IsFiniteSet(S)
    BY <2>1, PromptsAssumption, FS_Subset
  <2>4. Cardinality(S) \in Nat
    BY <2>3, FS_CardinalityType
  <2>5. list \in [1..Cardinality(S) -> S]
    BY <2>2 DEF SortedKeys
  <2>6. QED BY <2>1, <2>4, <2>5
<1>2. CASE ~ conf.use_cache
  BY <1>2 DEF ToAsk
<1>3. QED BY <1>1, <1>2

LEMMA BeginChunkType ==
  ASSUME TypeOK, AtRest, BeginChunk
  PROVE  TypeOK'
<1> DEFINE Chunk(n, in) ==
              /\ input' = in
              /\ output' = [r \in 1..n |->
                              IF conf.use_cache /\ cache[in[r]] # None
                              THEN Cell(cache[in[r]]) ELSE Unset]
              /\ unprocessed' \in ToAsk(in)
<1>0. PICK n \in 1..MaxRows : \E in \in [1..n -> Prompts] : Chunk(n, in)
  BY DEF BeginChunk
<1>1. PICK in \in [1..n -> Prompts] : Chunk(n, in)
  BY <1>0
<1>2. n \in Nat
  BY BoundsAssumption
<1>3. input' \in Seq(Prompts) /\ DOMAIN input' = 1..n
  BY <1>1, <1>2
<1>4. unprocessed' \in Seq(Prompts)
  BY <1>1, <1>2, ToAskType
<1>5. output' \in [DOMAIN input' -> Cells]
  <2>1. ASSUME NEW r \in 1..n, cache[in[r]] # None
        PROVE  Cell(cache[in[r]]) \in Cells
    <3>1. cache[in[r]] \in Storable
      BY <2>1 DEF TypeOK
    <3>2. QED BY <3>1, CellType
  <2>2. Unset \in Cells
    BY DEF Cells
  <2>3. QED BY <1>1, <1>3, <2>1, <2>2
<1>6. /\ UNCHANGED <<conf, cache, waveVars, llm_calls, posts>>
      /\ chunks' = chunks + 1
      /\ pc = "idle" /\ pc' = "launch"
  BY DEF BeginChunk
<1>7. batch_fails' = <<>> /\ futures' = <<>> /\ run' = 0 /\ next' = 0
  BY <1>6 DEF AtRest, Working, waveVars
<1>8. batch_fails' \in Seq(1..Len(unprocessed')) /\ futures' \in Seq(Tasks) /\ run' \in 0..Len(futures')
  BY <1>7
<1>9. QED BY <1>3, <1>4, <1>5, <1>6, <1>7, <1>8 DEF TypeOK, Working, waveVars

LEMMA QueryType ==
  ASSUME TypeOK, AtRest, StartQuery \/ EndQuery
  PROVE  TypeOK'
<1>1. CASE StartQuery
  <2>1. <<>> \in Seq(Prompts) /\ <<>> \in [DOMAIN <<>> -> Cells]
    OBVIOUS
  <2>2. input' = <<>> /\ output' = <<>> /\ conf' \in Configs
        /\ cache' = [p \in Prompts |-> None] /\ UNCHANGED <<unprocessed, waveVars>>
        /\ pc' = "idle" /\ chunks' = 0 /\ llm_calls' = 0 /\ posts' = 0
    BY <1>1 DEF StartQuery
  <2>3. output' \in [DOMAIN input' -> Cells]
    BY <2>1, <2>2
  <2>4. cache' \in [Prompts -> Storable \cup {None}]
    BY <2>2
  <2>5. QED BY <2>1, <2>2, <2>3, <2>4 DEF TypeOK, waveVars
<1>2. CASE EndQuery
  BY <1>2 DEF EndQuery, TypeOK, queryVars, chunkVars, waveVars
<1>3. QED BY <1>1, <1>2

\* A freshly launched request.
Fresh(t, call) ==
    /\ t \in Tasks
    /\ t.call = call
    /\ t.status = "running"
    /\ t.n_calls = 0
    /\ t.outputs = <<>>
    /\ t.n_rows > 0
    /\ t.frow + t.n_rows <= Len(unprocessed)

LEMMA TaskIsFresh ==
  ASSUME NEW call \in {"PredictBatch", "PredictOne"}, NEW frow \in Nat, NEW n \in Nat \ {0},
         frow + n <= Len(unprocessed)
  PROVE  Fresh(Task(call, frow, n), call)
  BY DEF Fresh, Task, Tasks

\* LaunchWave launches batches inside the list (BatchesHoldRows).
LEMMA LaunchWaveFresh ==
  ASSUME TypeOK, LaunchWave
  PROVE  /\ futures' \in Seq(Tasks)
         /\ \A k \in DOMAIN futures' : Fresh(futures'[k], "PredictBatch")
<1> DEFINE u == Len(unprocessed)
           n == WaveSize(next, AllRounds, conf.n_threads)
<1>1. /\ u \in Nat
      /\ next \in Nat
      /\ conf.n_threads \in Nat \ {0}
      /\ conf.batch_size \in Nat \ {0}
  BY ConfType DEF TypeOK
<1>2. Imp \in Nat \ {0}
  BY <1>1, ImpPositive DEF Imp
<1>3. AllRounds \in Nat
  BY <1>1, <1>2, CeilDivBounds DEF AllRounds, Rounds, Imp
<1>4. n \in Nat /\ n <= AllRounds - next
  BY <1>1, <1>3 DEF LaunchWave, WaveSize, Min2
<1>5. ASSUME NEW k \in 1..n
      PROVE  Fresh(BatchTask(next + k - 1), "PredictBatch")
  <2> DEFINE b == next + k - 1
  <2>1. b \in Nat /\ b < AllRounds
    BY <1>1, <1>3, <1>4
  <2> HIDE DEF b
  <2>2. /\ FirstRow(b, Imp) \in Nat
        /\ FirstRow(b, Imp) < LastRow(b, Imp, u)
        /\ LastRow(b, Imp, u) \in 1..u
    BY <1>1, <2>1, BatchesHoldRows DEF AllRounds, Imp
  <2>3. /\ LastRow(b, Imp, u) - FirstRow(b, Imp) \in Nat \ {0}
        /\ FirstRow(b, Imp) + (LastRow(b, Imp, u) - FirstRow(b, Imp)) <= u
    BY <1>1, <2>2
  <2>4. Fresh(BatchTask(b), "PredictBatch")
    BY <2>2, <2>3, TaskIsFresh DEF BatchTask
  <2>5. QED BY <2>4 DEF b
<1> HIDE DEF n
<1>6. futures' = [k \in 1..n |-> BatchTask(next + k - 1)]
  BY DEF LaunchWave, n
<1>7. \A k \in 1..n : BatchTask(next + k - 1) \in Tasks
  BY <1>5 DEF Fresh
<1>8. futures' \in Seq(Tasks) /\ DOMAIN futures' = 1..n
  BY <1>4, <1>6, <1>7
<1>9. QED BY <1>5, <1>6, <1>8

\* LaunchRetries launches a request for each of the next failed positions.
LEMMA LaunchRetriesFresh ==
  ASSUME TypeOK, LaunchRetries
  PROVE  /\ futures' \in Seq(Tasks)
         /\ \A k \in DOMAIN futures' :
               Fresh(futures'[k], "PredictOne") /\ futures'[k].n_rows = 1
<1> DEFINE u == Len(unprocessed)
           n == WaveSize(next, Len(batch_fails), conf.n_threads)
<1>1. /\ u \in Nat
      /\ next \in Nat
      /\ conf.n_threads \in Nat \ {0}
      /\ batch_fails \in Seq(1..u)
      /\ Len(batch_fails) \in Nat
  BY ConfType DEF TypeOK
<1>2. n \in Nat /\ n <= Len(batch_fails) - next
  BY <1>1 DEF LaunchRetries, WaveSize, Min2
<1>3. ASSUME NEW k \in 1..n
      PROVE  Fresh(RetryTask(next + k), "PredictOne") /\ RetryTask(next + k).n_rows = 1
  <2>1. next + k \in 1..Len(batch_fails)
    BY <1>1, <1>2
  <2>2. batch_fails[next + k] \in 1..u
    BY <1>1, <2>1
  <2>3. batch_fails[next + k] - 1 \in Nat /\ batch_fails[next + k] - 1 + 1 <= u
    BY <1>1, <2>2
  <2>4. QED BY <2>3, TaskIsFresh DEF RetryTask, Task
<1> HIDE DEF n
<1>4. futures' = [k \in 1..n |-> RetryTask(next + k)]
  BY DEF LaunchRetries, n
<1>5. \A k \in 1..n : RetryTask(next + k) \in Tasks
  BY <1>3 DEF Fresh
<1>6. futures' \in Seq(Tasks) /\ DOMAIN futures' = 1..n
  BY <1>2, <1>4, <1>5
<1>7. QED BY <1>3, <1>4, <1>6

\* What a collected batch stores is of the right type.
LEMMA ExtractType ==
  ASSUME TypeOK, NEW t \in Tasks, RequestInv(t), 1 \in DOMAIN t.outputs,
         t.outputs[1].elems \in Seq(Storable),
         ExtractMap(t, t.outputs[1]) \/ ExtractRows(t, t.outputs[1])
  PROVE  /\ output' \in [DOMAIN input -> Cells]
         /\ cache' \in [Prompts -> Storable \cup {None}]
<1> DEFINE content == t.outputs[1]
           elems == content.elems
           known == Len(unprocessed) - t.frow
           m == IF content.json THEN Min2(Len(elems), known) ELSE 0
           es == SubSeq(elems, 1, m)
           mr == IF content.json THEN Min2(Len(elems), t.n_rows) ELSE 0
           esr == SubSeq(elems, 1, mr)
<1>1. t.frow \in Nat /\ t.n_rows \in Nat /\ Len(unprocessed) \in Nat /\ Len(elems) \in Nat
  BY DEF Tasks, TypeOK
<1>2. m \in 0..Len(elems) /\ mr \in 0..Len(elems)
  BY <1>1 DEF RequestInv, Min2
<1>3. es \in Seq(Storable) /\ esr \in Seq(Storable)
  BY <1>2, Prefix
<1>4. output \in [DOMAIN input -> Cells] /\ cache \in [Prompts -> Storable \cup {None}]
  BY DEF TypeOK
<1>5. /\ Written(t.frow, es) \in [DOMAIN input -> Cells]
      /\ Written(t.frow, esr) \in [DOMAIN input -> Cells]
      /\ \A cut : Cached(t.frow, Dumped(es, cut)) \in [Prompts -> Storable \cup {None}]
  <2> HIDE DEF es, esr, m, mr
  <2>1. \A cut : Dumped(es, cut) \in Seq(Storable)
    BY <1>3, DumpedType
  <2>2. QED BY <1>1, <1>3, <1>4, <2>1, WrittenType, CachedType
<1>6. CASE ExtractMap(t, content)
  <2> HIDE DEF m, es, known
  <2>1. \E cut : cache' = Cached(t.frow, Dumped(es, cut))
    BY <1>6 DEF ExtractMap, es, m, known
  <2>2. output' = Written(t.frow, es)
        \/ output' = Nulled(Written(t.frow, es), (t.frow + m + 1)..(t.frow + t.n_rows))
    BY <1>6 DEF ExtractMap, es, m, known
  <2>3. QED BY <1>5, <2>1, <2>2, NulledType
<1>7. CASE ExtractRows(t, content)
  <2> HIDE DEF mr, esr
  <2>1. UNCHANGED cache
    BY <1>7 DEF ExtractRows
  <2>2. output' = Nulled(Written(t.frow, esr), (t.frow + mr + 1)..(t.frow + t.n_rows))
    BY <1>7 DEF ExtractRows, esr, mr
  <2>3. QED BY <1>4, <1>5, <2>1, <2>2, NulledType
<1>8. QED BY <1>6, <1>7

\* The steps that collect a result.
LEMMA CollectType ==
  ASSUME TypeOK, Requests, CollectFailedBatch \/ CollectBatch \/ CollectRows \/ CollectRetry
  PROVE  TypeOK'
<1> USE DEF queryVars, chunkVars
<1>1. /\ Current \in Tasks
      /\ RequestInv(Current)
      /\ run + 1 \in 0..Len(futures)
      /\ total_calls + Current.n_calls \in Nat
  <2>1. run < Len(futures) /\ run \in Nat /\ Len(futures) \in Nat
    BY DEF CollectFailedBatch, CollectBatch, CollectRows, CollectRetry, Getting, TypeOK
  <2>2. Current \in Tasks /\ RequestInv(Current)
    BY <2>1, CurrentRequest
  <2>3. total_calls \in Nat /\ Current.n_calls \in Nat
    BY <2>2 DEF TypeOK, Tasks
  <2>4. QED BY <2>1, <2>2, <2>3
<1>2. Current.frow \in Nat /\ Current.n_rows \in Nat
  BY <1>1 DEF Tasks
<1>3. CASE CollectFailedBatch
  <2>1. batch_fails \in Seq(1..Len(unprocessed)) /\ Len(unprocessed) \in Nat
    BY DEF TypeOK
  <2>2. Positions(Current) \in Seq(1..Len(unprocessed))
    <3>1. \A j \in 1..Current.n_rows : Current.frow + j \in 1..Len(unprocessed)
      <4>1. Current.frow + Current.n_rows <= Len(unprocessed)
        BY <1>1 DEF RequestInv
      <4>2. QED BY <1>2, <2>1, <4>1
    <3>2. QED BY <1>2, <3>1, PositionsType
  <2>3. batch_fails' \in Seq(1..Len(unprocessed))
    BY <1>3, <2>1, <2>2 DEF CollectFailedBatch
  <2>4. QED BY <1>1, <1>3, <2>3 DEF CollectFailedBatch, Counted, TypeOK
<1>4. CASE CollectBatch
  <2>1. /\ 1 \in DOMAIN Current.outputs
        /\ Current.outputs[1].elems \in Seq(Storable)
    BY <1>4, BatchContent DEF CollectBatch
  <2>2. ExtractMap(Current, Current.outputs[1]) \/ ExtractRows(Current, Current.outputs[1])
    BY <1>4 DEF CollectBatch
  <2>3. output' \in [DOMAIN input -> Cells] /\ cache' \in [Prompts -> Storable \cup {None}]
    BY <1>1, <2>1, <2>2, ExtractType
  <2>4. QED BY <1>1, <1>4, <2>3 DEF CollectBatch, Counted, TypeOK
<1>5. CASE CollectRows
  <2>1. RowElems(Current) \in Seq(Storable)
    BY <1>5, RowElemsType DEF CollectRows
  <2>2. output' \in [DOMAIN input -> Cells]
    BY <1>2, <1>5, <2>1, WrittenType DEF CollectRows, TypeOK
  <2>3. cache' \in [Prompts -> Storable \cup {None}]
    BY <1>2, <1>5, <2>1, CachedType DEF CollectRows, TypeOK
  <2>4. QED BY <1>1, <1>5, <2>2, <2>3 DEF CollectRows, Counted, TypeOK
<1>6. CASE CollectRetry
  <2> DEFINE es == <<Current.outputs[1].elems[1]>>
  <2>1. CASE Success(Current)
    <3>1. es \in Seq(Storable)
      BY <1>6, <2>1, RetryElem DEF CollectRetry
    <3>2. output' = Written(Current.frow, es) /\ cache' = Cached(Current.frow, es)
      BY <1>6, <2>1 DEF CollectRetry
    <3> HIDE DEF es
    <3>3. output' \in [DOMAIN input -> Cells]
      BY <1>2, <3>1, <3>2, WrittenType DEF TypeOK
    <3>4. cache' \in [Prompts -> Storable \cup {None}]
      BY <1>2, <3>1, <3>2, CachedType DEF TypeOK
    <3>5. QED BY <1>1, <1>6, <3>3, <3>4 DEF CollectRetry, Counted, TypeOK
  <2>2. CASE ~ Success(Current)
    BY <1>1, <1>6, <2>2 DEF CollectRetry, Counted, TypeOK
  <2>3. QED BY <2>1, <2>2
<1>7. QED BY <1>3, <1>4, <1>5, <1>6
-----------------------------------------------------------------------------
(* What a step of a request makes of it. *)

LEMMA ReplyOwn ==
  ASSUME TypeOK, NEW t \in Tasks, RequestInv(t), NEW j \in 1..t.n_rows, NEW e \in Replies(t, j)
  PROVE  e \in Elems /\ Answering(e, unprocessed[t.frow + j])
<1>1. t.frow \in Nat /\ t.n_rows \in Nat /\ unprocessed \in Seq(Prompts) /\ chunks \in Nat
      /\ Len(unprocessed) \in Nat
  BY DEF Tasks, TypeOK
<1>2. t.frow + j \in 1..Len(unprocessed)
  BY <1>1 DEF RequestInv
<1>3. unprocessed[t.frow + j] \in Prompts
  BY <1>1, <1>2
<1>4. AnswerTo(t, j) \in Answers /\ AnswerTo(t, j).prompt = unprocessed[t.frow + j]
  BY <1>1, <1>2, <1>3 DEF AnswerTo, Answers
<1>5. CASE e = AnswerTo(t, j)
  BY <1>4, <1>5 DEF Elems, Storable, Answering
<1>6. CASE e \in {Blank, Unstorable}
  BY <1>6 DEF Elems, Storable, Answering
<1>7. QED BY <1>5, <1>6 DEF Replies

\* Request r with its result.
Result(r, outputs, n, status) ==
    [r EXCEPT !.outputs = outputs, !.n_calls = n, !.status = status]

\* A whole-batch request that comes back with at most one content, whose elements are
\* the replies to its rows in order.
LEMMA FinishedBatch ==
  ASSUME TypeOK, Requests, NEW k \in DOMAIN futures, Running(k, "PredictBatch"), conf.use_batch,
         NEW outputs \in Seq(Contents), Len(outputs) <= 1,
         \A i \in DOMAIN outputs :
            /\ \A j \in DOMAIN outputs[i].elems :
                  j <= futures[k].n_rows =>
                     Answering(outputs[i].elems[j], unprocessed[futures[k].frow + j])
            /\ Lax = {} => Len(outputs[i].elems) <= futures[k].n_rows,
         Finish(k, outputs)
  PROVE  \E t \in Tasks : futures' = [futures EXCEPT ![k] = t] /\ RequestInv(t)
<1>1. futures \in Seq(Tasks) /\ futures[k] \in Tasks /\ RequestInv(futures[k])
  BY DEF TypeOK, Requests
<1> DEFINE t == Result(futures[k], outputs, 1, "ready")
<1>2. /\ t \in Tasks
      /\ t.call = "PredictBatch"
      /\ t.frow = futures[k].frow
      /\ t.n_rows = futures[k].n_rows
      /\ t.n_calls = 1
      /\ t.outputs = outputs
      /\ t.status = "ready"
  BY <1>1 DEF Result, Tasks, Running
<1>3. futures' = [futures EXCEPT ![k] = t]
  BY <1>1 DEF Finish, Result
<1> HIDE DEF t
<1>4. ~ Single(t) /\ ~ Single(futures[k])
  BY <1>2 DEF Single, Running
<1>5. RequestInv(t)
  <2>1. Len(t.outputs) \in Nat /\ t.n_rows \in Nat
    BY <1>2 DEF Tasks
  <2>2. \A i \in DOMAIN t.outputs :
            /\ \A j \in DOMAIN t.outputs[i].elems :
                  j <= t.n_rows => Answering(t.outputs[i].elems[j], unprocessed[t.frow + j])
            /\ Lax = {} => Len(t.outputs[i].elems) <= t.n_rows
    BY <1>2
  <2>3. QED BY <1>1, <1>2, <1>4, <2>1, <2>2 DEF RequestInv, Running
<1>6. QED BY <1>2, <1>3, <1>5

\* A request of single rows that gets its next row's reply, or none.
LEMMA NextRow ==
  ASSUME TypeOK, Requests, NEW k \in DOMAIN futures, futures[k].status = "running",
         Single(futures[k]),
         NEW new \in Seq(Contents),
         Len(new) <= 1,
         Lax = {} => Len(new) = 1,
         \A i \in DOMAIN new :
            /\ Len(new[i].elems) = 1
            /\ Answering(new[i].elems[1], unprocessed[futures[k].frow + futures[k].n_calls + 1])
  PROVE  LET r == futures[k]
             status == IF r.n_calls + 1 = r.n_rows THEN "ready" ELSE "running"
             t == Result(r, r.outputs \o new, r.n_calls + 1, status)
         IN  t \in Tasks /\ RequestInv(t)
<1> DEFINE r == futures[k]
           status == IF r.n_calls + 1 = r.n_rows THEN "ready" ELSE "running"
           outs == r.outputs \o new
           n == r.n_calls + 1
           t == Result(r, outs, n, status)
<1>1. r \in Tasks /\ RequestInv(r) /\ status \in {"ready", "running"}
  BY DEF TypeOK, Requests
<1>2. /\ r.outputs \in Seq(Contents) /\ outs \in Seq(Contents) /\ n \in Nat
      /\ r.n_calls \in Nat /\ r.n_rows \in Nat /\ r.frow \in Nat
  BY <1>1 DEF Tasks
<1>3. /\ t \in Tasks
      /\ t.call = r.call
      /\ t.frow = r.frow
      /\ t.n_rows = r.n_rows
      /\ t.n_calls = n
      /\ t.outputs = outs
      /\ t.status = status
  <2> HIDE DEF r, status, outs, n
  <2>1. QED BY <1>1, <1>2 DEF Result, Tasks
<1>4. /\ Single(t)
      /\ r.n_calls < r.n_rows
      /\ Len(r.outputs) <= r.n_calls
      /\ Lax = {} => Len(r.outputs) = r.n_calls
  BY <1>1, <1>3 DEF RequestInv, Single
<1>5. Len(outs) = Len(r.outputs) + Len(new) /\ Len(r.outputs) \in Nat /\ Len(new) \in Nat
  BY <1>2
<1> HIDE DEF t
<1>6. ASSUME NEW i \in DOMAIN t.outputs
      PROVE  /\ Len(t.outputs[i].elems) = 1
             /\ Lax = {} \/ t.n_rows = 1 =>
                   Answering(t.outputs[i].elems[1], unprocessed[t.frow + i])
  <2>1. i \in 1..(Len(r.outputs) + Len(new))
    BY <1>2, <1>3, <1>5
  <2>2. CASE i <= Len(r.outputs)
    <3>1. i \in DOMAIN r.outputs /\ t.outputs[i] = r.outputs[i]
      BY <1>2, <1>3, <1>5, <2>1, <2>2
    <3>2. QED BY <1>1, <1>3, <3>1 DEF RequestInv
  <2>3. CASE i > Len(r.outputs)
    <3>1. i = Len(r.outputs) + 1 /\ 1 \in DOMAIN new /\ t.outputs[i] = new[1]
      <4>1. i = Len(r.outputs) + 1 /\ i \in Nat /\ i - Len(r.outputs) \in 1..Len(new)
        BY <1>5, <2>1, <2>3
      <4>2. outs[i] = new[i - Len(r.outputs)]
        BY <1>2, <1>5, <2>3, <4>1, AppendedAt
      <4>3. QED BY <1>3, <1>5, <4>1, <4>2
    <3>2. Lax = {} \/ r.n_rows = 1 => t.frow + i = r.frow + r.n_calls + 1
      BY <1>2, <1>3, <1>4, <1>5, <3>1
    <3>3. QED BY <1>3, <3>1, <3>2
  <2>4. QED BY <1>5, <2>1, <2>2, <2>3
<1>7. RequestInv(t)
  <2>1. /\ t.n_rows > 0
        /\ t.frow + t.n_rows <= Len(unprocessed)
        /\ t.call = "PredictOne" => t.n_rows = 1
        /\ t.call = (IF pc = "recollect" THEN "PredictOne" ELSE "PredictBatch") \/ pc = "unwind"
    BY <1>1, <1>3 DEF RequestInv
  <2>2. /\ t.n_calls <= t.n_rows
        /\ t.status = "running" => t.n_calls < t.n_rows
        /\ t.status = "ready" => t.n_calls = t.n_rows
    BY <1>2, <1>3, <1>4
  <2>3. /\ Len(t.outputs) <= t.n_calls
        /\ Lax = {} => Len(t.outputs) = t.n_calls
    <3> HIDE DEF r, outs
    <3>1. Len(t.outputs) = Len(r.outputs) + Len(new) /\ t.n_calls = r.n_calls + 1
      BY <1>3, <1>5
    <3>2. Len(t.outputs) <= t.n_calls
      BY <1>2, <1>4, <1>5, <3>1
    <3>3. ASSUME Lax = {}
          PROVE  Len(t.outputs) = t.n_calls
      BY <1>4, <3>1, <3>3
    <3>4. QED BY <3>2, <3>3
  <2>4. QED BY <1>4, <1>6, <2>1, <2>2, <2>3 DEF RequestInv
<1>8. QED BY <1>3, <1>7 DEF t

\* Every step of a request replaces it by one that may hold what it holds.
LEMMA RequestStep ==
  ASSUME TypeOK, Requests, NEW k \in DOMAIN futures, Request(k)
  PROVE  /\ \E t \in Tasks : futures' = [futures EXCEPT ![k] = t] /\ RequestInv(t)
         /\ Answered
<1> DEFINE r == futures[k]
           Replaced == \E t \in Tasks : futures' = [futures EXCEPT ![k] = t] /\ RequestInv(t)
<1>1. futures \in Seq(Tasks) /\ r \in Tasks /\ RequestInv(r)
  BY DEF TypeOK, Requests
<1>2. /\ r.n_calls \in Nat /\ r.n_rows \in Nat /\ r.outputs \in Seq(Contents)
      /\ Len(r.outputs) <= r.n_calls
  BY <1>1 DEF Tasks, RequestInv
<1>3. CASE BatchAnswered(k)
  <2>1. PICK m \in Lengths(r.n_rows) : \E es \in Arrays(r, m) : Finish(k, <<[json |-> TRUE, elems |-> es]>>)
    BY <1>3 DEF BatchAnswered
  <2>2. PICK es \in Arrays(r, m) : Finish(k, <<[json |-> TRUE, elems |-> es]>>)
    BY <2>1
  <2>3. m \in Nat /\ (Lax = {} => m = r.n_rows)
    BY <1>2 DEF Lengths
  <2>4. /\ DOMAIN es = 1..m
        /\ es \in [1..m -> {Stray} \cup UNION {Replies(r, j) : j \in 1..r.n_rows}]
        /\ \A j \in 1..m : es[j] \in IF j <= r.n_rows THEN Replies(r, j) ELSE {Stray}
    BY <2>2 DEF Arrays
  <2>5. \A j \in 1..m : /\ es[j] \in Elems
                        /\ j <= r.n_rows => Answering(es[j], unprocessed[r.frow + j])
    <3>1. ASSUME NEW j \in 1..m, j <= r.n_rows
          PROVE  es[j] \in Elems /\ Answering(es[j], unprocessed[r.frow + j])
      <4>1. j \in 1..r.n_rows /\ es[j] \in Replies(r, j)
        BY <1>2, <2>3, <2>4, <3>1
      <4>2. QED BY <1>1, <4>1, ReplyOwn
    <3>2. ASSUME NEW j \in 1..m, ~ (j <= r.n_rows)
          PROVE  es[j] \in Elems
      BY <2>4, <3>2 DEF Elems, Storable
    <3>3. QED BY <3>1, <3>2
  <2>6. es \in Seq(Elems) /\ Len(es) = m
    BY <2>3, <2>4, <2>5
  <2> DEFINE content == [json |-> TRUE, elems |-> es]
  <2>7. content \in Contents /\ content.elems = es
    BY <2>6 DEF Contents
  <2> HIDE DEF content
  <2>8. <<content>> \in Seq(Contents) /\ Len(<<content>>) <= 1
    BY <2>7
  <2>9. \A i \in DOMAIN <<content>> :
           /\ \A j \in DOMAIN (<<content>>[i].elems) :
                 j <= r.n_rows => Answering(<<content>>[i].elems[j], unprocessed[r.frow + j])
           /\ Lax = {} => Len(<<content>>[i].elems) <= r.n_rows
    <3>1. \A i \in DOMAIN <<content>> : <<content>>[i] = content
      OBVIOUS
    <3>2. Lax = {} => Len(es) <= r.n_rows
      BY <1>2, <2>3, <2>6
    <3>3. \A j \in DOMAIN es : j <= r.n_rows => Answering(es[j], unprocessed[r.frow + j])
      BY <2>4, <2>5
    <3>4. QED BY <2>7, <3>1, <3>2, <3>3
  <2>10. Finish(k, <<content>>) /\ Running(k, "PredictBatch") /\ conf.use_batch
    BY <1>3, <2>2 DEF BatchAnswered, content
  <2>11. Replaced
    BY <2>8, <2>9, <2>10, FinishedBatch
  <2>12. QED BY <1>3, <2>11 DEF BatchAnswered
<1>4. CASE BatchGarbled(k)
  <2> DEFINE content == [json |-> FALSE, elems |-> <<>>]
  <2>1. content \in Contents /\ content.elems = <<>>
    BY DEF Contents
  <2> HIDE DEF content
  <2>2. <<content>> \in Seq(Contents) /\ Len(<<content>>) <= 1
    BY <2>1
  <2>3. \A i \in DOMAIN <<content>> :
           /\ \A j \in DOMAIN (<<content>>[i].elems) :
                 j <= r.n_rows => Answering(<<content>>[i].elems[j], unprocessed[r.frow + j])
           /\ Lax = {} => Len(<<content>>[i].elems) <= r.n_rows
    <3>1. \A i \in DOMAIN <<content>> : <<content>>[i].elems = <<>>
      BY <2>1
    <3>2. Len(<<>>) <= r.n_rows /\ DOMAIN <<>> = {}
      BY <1>2
    <3>3. QED BY <3>1, <3>2
  <2>4. Finish(k, <<content>>) /\ Running(k, "PredictBatch") /\ conf.use_batch
    BY <1>4 DEF BatchGarbled, content
  <2>5. Replaced
    BY <2>2, <2>3, <2>4, FinishedBatch
  <2>6. QED BY <1>4, <2>5 DEF BatchGarbled
<1>5. CASE BatchRefused(k)
  <2>1. <<>> \in Seq(Contents) /\ Len(<<>>) <= 1 /\ DOMAIN <<>> = {}
    OBVIOUS
  <2>2. Finish(k, <<>>) /\ Running(k, "PredictBatch") /\ conf.use_batch
    BY <1>5 DEF BatchRefused
  <2>3. Replaced
    BY <2>1, <2>2, FinishedBatch
  <2>4. QED BY <1>5, <2>3 DEF BatchRefused
<1> DEFINE status == IF r.n_calls + 1 = r.n_rows THEN "ready" ELSE "running"
           Next1(outs) == futures' = [futures EXCEPT ![k] = Result(r, outs, r.n_calls + 1, status)]
           Content(e) == [json |-> TRUE, elems |-> <<e>>]
<1>6. ASSUME NEW outs, RowReplied(k, outs)
      PROVE  Next1(outs)
  BY <1>1, <1>6 DEF RowReplied, Result
<1>7. ASSUME Running(k, "PredictOne"), NEW outs, Finish(k, outs)
      PROVE  /\ Next1(outs)
             /\ r.outputs = <<>>
             /\ r.n_calls = 0
  <2>1. r.n_rows = 1 /\ r.n_calls < 1
    BY <1>1, <1>7 DEF RequestInv, Running, Single
  <2>2. r.n_calls = 0 /\ status = "ready" /\ r.outputs = <<>>
    BY <1>2, <2>1
  <2>3. futures' = [futures EXCEPT ![k] = [r EXCEPT !.outputs = outs, !.n_calls = 1,
                                                    !.status = "ready"]]
    BY <1>1, <1>7 DEF Finish
  <2>4. Result(r, outs, r.n_calls + 1, status) = [r EXCEPT !.outputs = outs, !.n_calls = 1,
                                                           !.status = "ready"]
    <3>1. r.n_calls + 1 = 1
      BY <2>2
    <3> HIDE DEF status
    <3>2. QED BY <2>2, <3>1, Zenon DEF Result
  <2>5. QED BY <2>2, <2>3, <2>4
<1>8. \A j \in 1..r.n_rows : \A e \in Replies(r, j) :
         /\ <<Content(e)>> \in Seq(Contents)
         /\ Len(Content(e).elems) = 1
         /\ Answering(Content(e).elems[1], unprocessed[r.frow + j])
  <2>1. SUFFICES ASSUME NEW j \in 1..r.n_rows, NEW e \in Replies(r, j)
                 PROVE  /\ <<Content(e)>> \in Seq(Contents)
                        /\ Len(Content(e).elems) = 1
                        /\ Answering(Content(e).elems[1], unprocessed[r.frow + j])
    OBVIOUS
  <2>2. e \in Elems /\ Answering(e, unprocessed[r.frow + j])
    BY <1>1, ReplyOwn
  <2>3. Content(e) \in Contents
    BY <2>2 DEF Contents
  <2>4. QED BY <2>2, <2>3
<1> HIDE DEF Content, Next1
<1>9. ASSUME NEW e \in Replies(r, r.n_calls + 1), Single(r), r.status = "running",
             r.n_calls + 1 \in 1..r.n_rows,
             Next1(r.outputs \o <<Content(e)>>)
      PROVE  Replaced
  <2>1. /\ <<Content(e)>> \in Seq(Contents)
        /\ Len(Content(e).elems) = 1
        /\ Answering(Content(e).elems[1], unprocessed[r.frow + (r.n_calls + 1)])
    BY <1>8, <1>9
  <2>2. r.frow + (r.n_calls + 1) = r.frow + r.n_calls + 1
    BY <1>1 DEF Tasks
  <2>3. /\ Len(<<Content(e)>>) = 1
        /\ \A i \in DOMAIN <<Content(e)>> : <<Content(e)>>[i] = Content(e)
    OBVIOUS
  <2>4. /\ Len(<<Content(e)>>) <= 1
        /\ Lax = {} => Len(<<Content(e)>>) = 1
        /\ \A i \in DOMAIN <<Content(e)>> :
              /\ Len(<<Content(e)>>[i].elems) = 1
              /\ Answering(<<Content(e)>>[i].elems[1], unprocessed[r.frow + r.n_calls + 1])
    BY <2>1, <2>2, <2>3
  <2>5. LET t == Result(r, r.outputs \o <<Content(e)>>, r.n_calls + 1, status)
        IN  t \in Tasks /\ RequestInv(t)
    BY <1>9, <2>1, <2>4, NextRow, Zenon
  <2>6. QED BY <1>9, <2>5 DEF Next1
<1>10. ASSUME Single(r), r.status = "running", "nocontent" \in Lax, Next1(r.outputs)
       PROVE  Replaced
  <2>1. /\ <<>> \in Seq(Contents)
        /\ Len(<<>>) <= 1
        /\ Lax = {} => Len(<<>>) = 1
        /\ \A i \in DOMAIN <<>> :
              /\ Len(<<>>[i].elems) = 1
              /\ Answering(<<>>[i].elems[1], unprocessed[r.frow + r.n_calls + 1])
    BY <1>10
  <2>2. r.outputs \o <<>> = r.outputs
    BY <1>2
  <2>3. LET t == Result(r, r.outputs \o <<>>, r.n_calls + 1, status)
        IN  t \in Tasks /\ RequestInv(t)
    BY <1>10, <2>1, NextRow, Zenon
  <2>4. QED BY <1>10, <2>2, <2>3 DEF Next1
<1>11. ASSUME Single(r), r.status = "running"
       PROVE  r.n_calls + 1 \in 1..r.n_rows
  BY <1>1, <1>2, <1>11 DEF RequestInv
<1>12. \A e : Append(r.outputs, Content(e)) = r.outputs \o <<Content(e)>>
  BY <1>2
<1>13. CASE RowAnswered(k)
  <2>1. PICK e \in Replies(r, r.n_calls + 1) : RowReplied(k, Append(r.outputs, Content(e)))
    BY <1>13 DEF RowAnswered, Content
  <2>2. Single(r) /\ r.status = "running"
    BY <1>13 DEF RowAnswered, Single, Running
  <2>3. Next1(r.outputs \o <<Content(e)>>)
    BY <1>6, <1>12, <2>1
  <2>4. Replaced
    BY <1>9, <1>11, <2>2, <2>3
  <2>5. QED BY <1>13, <2>4 DEF RowAnswered
<1>14. CASE RowWithoutContent(k)
  <2>1. Single(r) /\ r.status = "running" /\ "nocontent" \in Lax /\ RowReplied(k, r.outputs)
    BY <1>14 DEF RowWithoutContent, Single, Running
  <2>2. Next1(r.outputs)
    BY <1>6, <2>1
  <2>3. Replaced
    BY <1>10, <2>1, <2>2
  <2>4. QED BY <1>14, <2>3 DEF RowWithoutContent
<1>15. CASE OneAnswered(k)
  <2>1. PICK e \in Replies(r, 1) : Finish(k, <<Content(e)>>)
    BY <1>15 DEF OneAnswered, Content
  <2>2. Running(k, "PredictOne") /\ Single(r) /\ r.status = "running"
    BY <1>15 DEF OneAnswered, Single, Running
  <2>3. Next1(<<Content(e)>>) /\ r.outputs = <<>> /\ r.n_calls = 0
    BY <1>7, <2>1, <2>2
  <2>4. r.outputs \o <<Content(e)>> = <<Content(e)>> /\ r.n_calls + 1 = 1
    BY <2>3
  <2>5. Replaced
    BY <1>9, <1>11, <2>2, <2>3, <2>4
  <2>6. QED BY <1>15, <2>5 DEF OneAnswered
<1>16. CASE OneWithoutContent(k)
  <2>1. Running(k, "PredictOne") /\ Single(r) /\ r.status = "running" /\ "nocontent" \in Lax
        /\ Finish(k, <<>>)
    BY <1>16 DEF OneWithoutContent, Single, Running
  <2>2. Next1(<<>>) /\ r.outputs = <<>>
    BY <1>7, <2>1
  <2>3. Replaced
    BY <1>10, <2>1, <2>2
  <2>4. QED BY <1>16, <2>3 DEF OneWithoutContent
<1>17. CASE Throw(k)
  <2> DEFINE t == Result(r, r.outputs, r.n_calls, "thrown")
  <2>1. /\ t \in Tasks
        /\ t.call = r.call
        /\ t.frow = r.frow
        /\ t.n_rows = r.n_rows
        /\ t.n_calls = r.n_calls
        /\ t.outputs = r.outputs
        /\ t.status = "thrown"
    BY <1>1, <1>2 DEF Result, Tasks
  <2>2. futures' = [futures EXCEPT ![k] = t]
    <3>1. futures' = [futures EXCEPT ![k] = [r EXCEPT !.status = "thrown"]]
      BY <1>1, <1>17 DEF Throw
    <3>2. t = [r EXCEPT !.status = "thrown"]
      BY <1>1 DEF Result, Tasks
    <3>3. QED BY <3>1, <3>2
  <2> HIDE DEF t
  <2>3. Single(t) <=> Single(r)
    BY <2>1 DEF Single
  <2>4. RequestInv(t)
    BY <1>1, <2>1, <2>3 DEF RequestInv
  <2>5. QED BY <1>17, <2>1, <2>2, <2>4 DEF Throw
<1>18. QED BY <1>3, <1>4, <1>5, <1>13, <1>14, <1>15, <1>16, <1>17 DEF Request
-----------------------------------------------------------------------------
(* The invariant is preserved: one lemma per conjunct, one step per action. *)

LEMMA TypeStep ==
  ASSUME TypeOK, Requests, AtRest, [Next]_vars
  PROVE  TypeOK'
<1> USE DEF queryVars, chunkVars, waveVars
<1> DEFINE Reset == /\ unprocessed' = <<>> /\ futures' = <<>> /\ next' = 0 /\ run' = 0
                    /\ batch_fails' = <<>> /\ total_calls' = 0
                    /\ UNCHANGED <<conf, chunks, llm_calls, input, output, cache, posts>>
<1>1. <<>> \in Seq(Prompts) /\ <<>> \in Seq(Tasks) /\ 0 \in 0..Len(<<>>)
      /\ <<>> \in Seq(1..Len(<<>>))
  OBVIOUS
<1>2. ASSUME Reset, pc' \in {"aborted", "crashed"}
      PROVE  TypeOK'
  BY <1>1, <1>2 DEF TypeOK
<1>3. CASE StartQuery
  BY <1>3, QueryType
<1>4. CASE EndQuery
  BY <1>4, QueryType
<1>5. CASE BeginChunk
  BY <1>5, BeginChunkType
<1>6. CASE LaunchWave
  <2>1. futures' \in Seq(Tasks) /\ run' \in 0..Len(futures')
    <3>1. futures' \in Seq(Tasks) /\ run' = 0
      BY <1>6, LaunchWaveFresh DEF LaunchWave
    <3>2. QED BY <3>1
  <2>2. QED BY <1>6, <2>1 DEF LaunchWave, TypeOK, Working
<1>7. CASE CollectFailedBatch
  BY <1>7, CollectType
<1>8. CASE CollectBatch
  BY <1>8, CollectType
<1>9. CASE CollectRows
  BY <1>9, CollectType
<1>10. CASE Crash
  <2>1. Reset /\ pc' = "crashed"
    BY <1>10 DEF Crash
  <2>2. QED BY <1>2, <2>1
<1>11. CASE EndWave
  <2>1. next + conf.n_threads \in Nat
    BY ConfType DEF TypeOK
  <2>2. QED BY <1>1, <1>11, <2>1 DEF EndWave, TypeOK, Working
<1>12. CASE BeginRetries
  BY <1>12 DEF BeginRetries, TypeOK, Working
<1>13. CASE LaunchRetries
  <2>1. futures' \in Seq(Tasks) /\ run' \in 0..Len(futures')
    <3>1. futures' \in Seq(Tasks) /\ run' = 0
      BY <1>13, LaunchRetriesFresh DEF LaunchRetries
    <3>2. QED BY <3>1
  <2>2. QED BY <1>13, <2>1 DEF LaunchRetries, TypeOK, Working
<1>14. CASE CollectRetry
  BY <1>14, CollectType
<1>15. CASE EndRetryWave
  <2>1. next + conf.n_threads \in Nat
    BY ConfType DEF TypeOK
  <2>2. QED BY <1>1, <1>15, <2>1 DEF EndRetryWave, TypeOK, Working
<1>16. CASE FinishChunk
  <2>1. llm_calls + total_calls \in Nat
    BY DEF TypeOK
  <2>2. QED BY <1>1, <1>16, <2>1 DEF FinishChunk, TypeOK
<1>17. CASE Rethrow
  BY <1>17 DEF Rethrow, TypeOK
<1>18. CASE CollectThrows
  BY <1>18 DEF CollectThrows, TypeOK
<1>19. CASE Unwind
  <2>1. Reset /\ pc' = "aborted"
    BY <1>19 DEF Unwind
  <2>2. QED BY <1>2, <2>1
<1>20. CASE Endpoint
  <2>1. PICK k \in DOMAIN futures : Request(k)
    BY <1>20 DEF Endpoint
  <2>2. PICK t \in Tasks : futures' = [futures EXCEPT ![k] = t]
    BY <2>1, RequestStep
  <2>3. Answered
    BY <2>1, RequestStep
  <2>4. futures' \in Seq(Tasks) /\ Len(futures') = Len(futures)
    BY <2>2 DEF TypeOK
  <2>5. QED BY <2>3, <2>4 DEF Answered, TypeOK
<1>21. CASE UNCHANGED vars
  BY <1>21 DEF vars, TypeOK
<1>22. QED
  BY <1>3, <1>4, <1>5, <1>6, <1>7, <1>8, <1>9, <1>10, <1>11, <1>12, <1>13, <1>14, <1>15,
     <1>16, <1>17, <1>18, <1>19, <1>20, <1>21 DEF Next, Thread

LEMMA RequestsStep ==
  ASSUME TypeOK, Requests, AtRest, [Next]_vars
  PROVE  Requests'
<1> USE DEF queryVars, chunkVars, waveVars
<1>1. ASSUME futures' = <<>>
      PROVE  Requests'
  BY <1>1 DEF Requests
<1>2. ASSUME UNCHANGED <<futures, conf, unprocessed>>, UNCHANGED pc \/ pc' = "unwind"
      PROVE  Requests'
  <2>1. ASSUME NEW k \in DOMAIN futures
        PROVE  RequestInv(futures[k])'
    <3>1. RequestInv(futures[k])
      BY DEF Requests
    <3>2. QED BY <1>2, <3>1 DEF RequestInv, Single
  <2>2. QED BY <1>2, <2>1 DEF Requests
<1>3. CASE StartQuery \/ EndQuery \/ BeginChunk
  <2>1. futures' = <<>>
    BY <1>3 DEF StartQuery, EndQuery, BeginChunk, AtRest
  <2>2. QED BY <1>1, <2>1
<1>4. CASE LaunchWave
  <2>1. /\ pc' = "collect"
        /\ UNCHANGED unprocessed
        /\ \A k \in DOMAIN futures' : Fresh(futures'[k], "PredictBatch")
    BY <1>4, LaunchWaveFresh DEF LaunchWave
  <2>2. ASSUME NEW k \in DOMAIN futures'
        PROVE  RequestInv(futures[k])'
    <3>1. Fresh(futures'[k], "PredictBatch")
      BY <2>1, <2>2
    <3>2. QED BY <2>1, <3>1 DEF Fresh, RequestInv, Tasks
  <2>3. QED BY <2>2 DEF Requests
<1>5. CASE LaunchRetries
  <2>1. /\ pc' = "recollect"
        /\ UNCHANGED unprocessed
        /\ \A k \in DOMAIN futures' :
              Fresh(futures'[k], "PredictOne") /\ futures'[k].n_rows = 1
    BY <1>5, LaunchRetriesFresh DEF LaunchRetries
  <2>2. ASSUME NEW k \in DOMAIN futures'
        PROVE  RequestInv(futures[k])'
    <3>1. Fresh(futures'[k], "PredictOne") /\ futures'[k].n_rows = 1
      BY <2>1, <2>2
    <3>2. QED BY <2>1, <3>1 DEF Fresh, RequestInv, Tasks
  <2>3. QED BY <2>2 DEF Requests
<1>6. CASE CollectFailedBatch \/ CollectBatch \/ CollectRows \/ CollectRetry
  <2>1. UNCHANGED <<futures, conf, unprocessed, pc>>
    BY <1>6 DEF CollectFailedBatch, CollectBatch, CollectRows, CollectRetry
  <2>2. QED BY <1>2, <2>1
<1>7. CASE Rethrow \/ CollectThrows
  <2>1. UNCHANGED <<futures, conf, unprocessed>> /\ pc' = "unwind"
    BY <1>7 DEF Rethrow, CollectThrows
  <2>2. QED BY <1>2, <2>1
<1>8. CASE BeginRetries \/ FinishChunk
  <2>1. futures' = <<>>
    BY <1>8 DEF BeginRetries, FinishChunk, AtRest
  <2>2. QED BY <1>1, <2>1
<1>9. CASE Crash \/ EndWave \/ EndRetryWave \/ Unwind
  <2>1. futures' = <<>>
    BY <1>9 DEF Crash, EndWave, EndRetryWave, Unwind
  <2>2. QED BY <1>1, <2>1
<1>10. CASE Endpoint
  <2>1. PICK k \in DOMAIN futures : Request(k)
    BY <1>10 DEF Endpoint
  <2>2. PICK t \in Tasks : futures' = [futures EXCEPT ![k] = t] /\ RequestInv(t)
    BY <2>1, RequestStep
  <2>3. UNCHANGED <<conf, unprocessed, pc>>
    BY <2>1, RequestStep DEF Answered
  <2>4. ASSUME NEW l \in DOMAIN futures'
        PROVE  RequestInv(futures[l])'
    <3>1. RequestInv(futures'[l])
      BY <2>2 DEF Requests, TypeOK
    <3>2. QED BY <2>3, <3>1 DEF RequestInv, Single
  <2>5. QED BY <2>4 DEF Requests
<1>11. CASE UNCHANGED vars
  <2>1. UNCHANGED <<futures, conf, unprocessed, pc>>
    BY <1>11 DEF vars
  <2>2. QED BY <1>2, <2>1
<1>12. QED
  BY <1>3, <1>4, <1>5, <1>6, <1>7, <1>8, <1>9, <1>10, <1>11 DEF Next, Thread

LEMMA AtRestStep ==
  ASSUME TypeOK, Requests, AtRest, [Next]_vars
  PROVE  AtRest'
<1> USE DEF queryVars, chunkVars, waveVars, AtRest, Working
<1>1. CASE StartQuery \/ EndQuery \/ BeginChunk
  BY <1>1 DEF StartQuery, EndQuery, BeginChunk
<1>2. CASE LaunchWave \/ EndWave \/ BeginRetries \/ LaunchRetries \/ EndRetryWave
  BY <1>2 DEF LaunchWave, EndWave, BeginRetries, LaunchRetries, EndRetryWave
<1>3. CASE CollectFailedBatch \/ CollectBatch \/ CollectRows \/ CollectRetry
  <2>1. UNCHANGED pc /\ pc \in {"collect", "recollect"}
    BY <1>3 DEF CollectFailedBatch, CollectBatch, CollectRows, CollectRetry, Getting
  <2>2. QED BY <2>1
<1>4. CASE Crash \/ FinishChunk \/ Unwind
  BY <1>4 DEF Crash, FinishChunk, Unwind
<1>5. CASE Rethrow \/ CollectThrows
  <2>1. pc' = "unwind"
    BY <1>5 DEF Rethrow, CollectThrows
  <2>2. QED BY <2>1
<1>6. CASE Endpoint
  <2>1. PICK k \in DOMAIN futures : Request(k)
    BY <1>6 DEF Endpoint
  <2>2. futures # <<>>
    BY <2>1
  <2>3. pc \in {"collect", "recollect", "unwind"} /\ UNCHANGED pc
    BY <2>1, <2>2, RequestStep DEF Answered
  <2>4. QED BY <2>3
<1>7. CASE UNCHANGED vars
  BY <1>7 DEF vars
<1>8. QED BY <1>1, <1>2, <1>3, <1>4, <1>5, <1>6, <1>7 DEF Next, Thread

LEMMA ListStep ==
  ASSUME TypeOK, Requests, AtRest, ListInv, [Next]_vars
  PROVE  ListInv'
<1> USE DEF queryVars, chunkVars, waveVars, ListInv, Working
<1>1. CASE StartQuery \/ EndQuery \/ Crash \/ FinishChunk \/ Unwind
  BY <1>1 DEF StartQuery, EndQuery, Crash, FinishChunk, Unwind
<1>2. CASE BeginChunk
  <2>1. PICK n \in 1..MaxRows : \E in \in [1..n -> Prompts] : input' = in /\ unprocessed' \in ToAsk(in)
    BY <1>2 DEF BeginChunk
  <2>2. ~ conf.use_cache => unprocessed' = input'
    BY <2>1 DEF ToAsk
  <2>3. QED BY <1>2, <2>2 DEF BeginChunk
<1>3. CASE \/ LaunchWave \/ CollectFailedBatch \/ CollectBatch \/ CollectRows \/ EndWave
           \/ BeginRetries \/ LaunchRetries \/ CollectRetry \/ EndRetryWave \/ Rethrow
           \/ CollectThrows
  <2>1. UNCHANGED <<conf, input, unprocessed>>
    BY <1>3 DEF LaunchWave, CollectFailedBatch, CollectBatch, CollectRows, EndWave, BeginRetries,
                LaunchRetries, CollectRetry, EndRetryWave, Rethrow, CollectThrows
  <2>2. pc \in Working
    BY <1>3 DEF LaunchWave, CollectFailedBatch, CollectBatch, CollectRows, EndWave, BeginRetries,
                LaunchRetries, CollectRetry, EndRetryWave, Rethrow, CollectThrows, Getting
  <2>3. QED BY <2>1, <2>2
<1>4. CASE Endpoint
  <2>1. PICK k \in DOMAIN futures : Request(k)
    BY <1>4 DEF Endpoint
  <2>2. QED BY <2>1, RequestStep DEF Answered
<1>5. CASE UNCHANGED vars
  BY <1>5 DEF vars
<1>6. QED BY <1>1, <1>2, <1>3, <1>4, <1>5 DEF Next, Thread

\* NULL, nothing yet, or an answer to prompt p.
OwnCell(c, p) == c \in {Unset, Null} \/ (c \in Answers /\ c.prompt = p)

LEMMA CellOwn ==
  ASSUME NEW p, NEW e \in Storable, Answering(e, p)
  PROVE  OwnCell(Cell(e), p)
<1>1. e # Unstorable
  BY MarksAssumption DEF Storable
<1>2. CASE e = Blank
  BY <1>2 DEF Cell, OwnCell
<1>3. CASE e \in Answers /\ e.prompt = p
  <2>1. Cell(e) = e
    BY <1>3, MarksAssumption DEF Cell
  <2>2. QED BY <1>3, <2>1 DEF OwnCell
<1>4. QED BY <1>1, <1>2, <1>3 DEF Answering

\* Elements that answer the prompts after frow end up in rows with those prompts,
LEMMA WrittenOwn ==
  ASSUME TypeOK, ListInv, RowsHoldOwnAnswers, pc \in Working,
         NEW frow \in Nat, NEW es \in Seq(Storable),
         \A j \in DOMAIN es : Answering(es[j], unprocessed[frow + j])
  PROVE  \A r \in DOMAIN output : OwnCell(Written(frow, es)[r], input[r])
<1>1. SUFFICES ASSUME NEW r \in DOMAIN output
               PROVE  OwnCell(Written(frow, es)[r], input[r])
  OBVIOUS
<1>2. CASE \E j \in DOMAIN es : r \in RowsAt(frow + j)
  <2>1. PICK j \in DOMAIN es : j = CHOOSE i \in DOMAIN es : r \in RowsAt(frow + i)
    BY <1>2
  <2>2. r \in RowsAt(frow + j)
    BY <1>2, <2>1
  <2>3. input[r] = unprocessed[frow + j]
    <3>1. CASE conf.use_cache
      BY <2>2, <3>1 DEF RowsAt, TupleIds
    <3>2. CASE ~ conf.use_cache
      BY <2>2, <3>2 DEF RowsAt, ListInv
    <3>3. QED BY <3>1, <3>2
  <2>4. Written(frow, es)[r] = Cell(es[j])
    BY <1>2, <2>1 DEF Written
  <2>5. es[j] \in Storable /\ Answering(es[j], input[r])
    BY <2>3
  <2>6. QED BY <2>4, <2>5, CellOwn
<1>3. CASE ~ \E j \in DOMAIN es : r \in RowsAt(frow + j)
  <2>1. Written(frow, es)[r] = output[r]
    BY <1>3 DEF Written
  <2>2. QED BY <2>1 DEF RowsHoldOwnAnswers, OwnCell
<1>4. QED BY <1>2, <1>3

\* and under those prompts in the cache.
LEMMA CachedOwn ==
  ASSUME TypeOK, \A p \in Prompts : cache[p] = None \/ Answering(cache[p], p),
         NEW frow \in Nat, NEW es \in Seq(Storable),
         \A j \in DOMAIN es : Answering(es[j], unprocessed[frow + j])
  PROVE  \A p \in Prompts : Cached(frow, es)[p] = None \/ Answering(Cached(frow, es)[p], p)
<1>1. SUFFICES ASSUME NEW p \in Prompts
               PROVE  Cached(frow, es)[p] = None \/ Answering(Cached(frow, es)[p], p)
  OBVIOUS
<1>2. CASE conf.use_cache /\ \E j \in DOMAIN es : unprocessed[frow + j] = p
  <2>1. PICK j \in DOMAIN es : j = CHOOSE i \in DOMAIN es : unprocessed[frow + i] = p
    BY <1>2
  <2>2. unprocessed[frow + j] = p
    BY <1>2, <2>1
  <2>3. Cached(frow, es)[p] = es[j]
    BY <1>2, <2>1 DEF Cached
  <2>4. QED BY <2>2, <2>3
<1>3. CASE ~ (conf.use_cache /\ \E j \in DOMAIN es : unprocessed[frow + j] = p)
  <2>1. Cached(frow, es)[p] = cache[p]
    BY <1>3 DEF Cached
  <2>2. QED BY <2>1
<1>4. QED BY <1>2, <1>3

\* The elements a step collects answer the prompts of the rows it stores them in.
LEMMA CollectOwn ==
  ASSUME IInv, Aligned, CollectBatch \/ CollectRows \/ CollectRetry
  PROVE  /\ \A r \in DOMAIN output' : OwnCell(output'[r], input[r])
         /\ \A p \in Prompts : cache'[p] = None \/ Answering(cache'[p], p)
<1> DEFINE Own(out) == \A r \in DOMAIN out : OwnCell(out[r], input[r])
           CacheOwn(c) == \A p \in Prompts : c[p] = None \/ Answering(c[p], p)
<1>1. /\ TypeOK /\ Requests /\ ListInv /\ RowsHoldOwnAnswers
      /\ CacheOwn(cache) /\ Own(output)
  BY DEF IInv, Requests, CacheInv, OwnAnswers, RowsHoldOwnAnswers, OwnCell
<1>2. ASSUME NEW frow \in Nat, NEW es \in Seq(Storable), pc \in Working,
             \A j \in DOMAIN es : Answering(es[j], unprocessed[frow + j])
      PROVE  Own(Written(frow, es)) /\ CacheOwn(Cached(frow, es))
  <2>1. DOMAIN Written(frow, es) = DOMAIN output
    BY DEF Written
  <2>2. QED BY <1>1, <1>2, <2>1, WrittenOwn, CachedOwn
<1>3. ASSUME NEW out, Own(out), NEW rows
      PROVE  Own(Nulled(out, rows))
  BY <1>3 DEF Nulled, OwnCell
<1>4. CASE CollectBatch
  <2> DEFINE t == Current
             content == t.outputs[1]
             elems == content.elems
             known == Len(unprocessed) - t.frow
             m == IF content.json THEN Min2(Len(elems), known) ELSE 0
             es == SubSeq(elems, 1, m)
             mr == IF content.json THEN Min2(Len(elems), t.n_rows) ELSE 0
             esr == SubSeq(elems, 1, mr)
  <2>1. /\ t \in Tasks /\ RequestInv(t) /\ ~ Single(t)
        /\ 1 \in DOMAIN t.outputs
        /\ elems \in Seq(Storable)
        /\ pc \in Working
    BY <1>1, <1>4, BatchContent DEF CollectBatch, Getting, Working
  <2>2. /\ \A j \in DOMAIN elems : j <= t.n_rows => Answering(elems[j], unprocessed[t.frow + j])
        /\ Lax = {} => Len(elems) <= t.n_rows
    BY <2>1 DEF RequestInv
  <2>3. t.frow \in Nat /\ t.n_rows \in Nat /\ Len(unprocessed) \in Nat /\ Len(elems) \in Nat
        /\ DOMAIN elems = 1..Len(elems) /\ t.frow + t.n_rows <= Len(unprocessed)
    BY <1>1, <2>1 DEF Tasks, TypeOK, RequestInv
  <2> HIDE DEF t, content, elems
  <2>4. CASE conf.use_cache
    <3>1. Lax = {}
      BY <2>4 DEF Aligned
    <3>2. m \in 0..Len(elems) /\ m <= t.n_rows
      BY <2>2, <2>3, <3>1 DEF Min2
    <3>3. es \in Seq(Storable) /\ DOMAIN es = 1..m /\ \A j \in 1..m : es[j] = elems[j]
      BY <2>1, <3>2, Prefix
    <3>4. \A j \in DOMAIN es : Answering(es[j], unprocessed[t.frow + j])
      BY <2>2, <2>3, <3>2, <3>3
    <3>5. Own(Written(t.frow, es))
          /\ \A cut : CacheOwn(Cached(t.frow, Dumped(es, cut)))
      <4> HIDE DEF es, m, Own, CacheOwn
      <4>1. Own(Written(t.frow, es))
        BY <1>2, <2>1, <2>3, <3>3, <3>4
      <4>2. ASSUME NEW cut
            PROVE  CacheOwn(Cached(t.frow, Dumped(es, cut)))
        <5>1. /\ Dumped(es, cut) \in Seq(Storable)
              /\ DOMAIN Dumped(es, cut) = DOMAIN es
              /\ \A j \in DOMAIN es : Dumped(es, cut)[j] \in {es[j], Blank}
          BY <3>3, DumpedType
        <5>2. \A j \in DOMAIN es : Answering(Dumped(es, cut)[j], unprocessed[t.frow + j])
          BY <3>4, <5>1 DEF Answering
        <5>3. QED BY <1>2, <2>1, <2>3, <5>1, <5>2
      <4>3. QED BY <4>1, <4>2
    <3>6. ExtractMap(t, content)
      BY <1>4, <2>4 DEF CollectBatch, t, content
    <3>7. PICK cut \in SUBSET DOMAIN es : cache' = Cached(t.frow, Dumped(es, cut))
      BY <3>6 DEF ExtractMap, elems
    <3>8. output' = Written(t.frow, es)
          \/ output' = Nulled(Written(t.frow, es), (t.frow + m + 1)..(t.frow + t.n_rows))
      BY <3>6 DEF ExtractMap, elems
    <3> HIDE DEF es, m, Own, CacheOwn
    <3>9. Own(output') /\ CacheOwn(cache')
      BY <1>3, <3>5, <3>7, <3>8
    <3>10. QED BY <3>9 DEF Own, CacheOwn
  <2>5. CASE ~ conf.use_cache
    <3>1. mr \in 0..Len(elems) /\ mr <= t.n_rows
      BY <2>3 DEF Min2
    <3>2. esr \in Seq(Storable) /\ DOMAIN esr = 1..mr /\ \A j \in 1..mr : esr[j] = elems[j]
      BY <2>1, <3>1, Prefix
    <3>3. \A j \in DOMAIN esr : Answering(esr[j], unprocessed[t.frow + j])
      BY <2>2, <2>3, <3>1, <3>2
    <3>4. Own(Written(t.frow, esr))
      BY <1>2, <2>1, <2>3, <3>2, <3>3
    <3>5. ExtractRows(t, content)
      BY <1>4, <2>5 DEF CollectBatch, t, content
    <3>6. UNCHANGED cache
      BY <3>5 DEF ExtractRows
    <3>7. output' = Nulled(Written(t.frow, esr), (t.frow + mr + 1)..(t.frow + t.n_rows))
      BY <3>5 DEF ExtractRows, elems
    <3> HIDE DEF esr, mr, Own, CacheOwn
    <3>8. Own(output') /\ CacheOwn(cache')
      BY <1>1, <1>3, <3>4, <3>6, <3>7
    <3>9. QED BY <3>8 DEF Own, CacheOwn
  <2>6. QED BY <2>4, <2>5
<1>5. CASE CollectRows
  <2> DEFINE t == Current
             es == RowElems(t)
  <2>1. /\ t \in Tasks /\ RequestInv(t) /\ Single(t) /\ t.status = "ready"
        /\ es \in Seq(Storable)
        /\ Len(es) = t.n_rows
        /\ pc \in Working
    BY <1>1, <1>5, RowElemsType DEF CollectRows, Getting, Working, Single
  <2>2. Lax = {}
    BY <1>5 DEF Aligned, CollectRows
  <2>3. t.frow \in Nat /\ t.n_rows \in Nat /\ t.outputs \in Seq(Contents)
    BY <2>1 DEF Tasks
  <2>4. Len(t.outputs) = t.n_rows
    BY <2>1, <2>2 DEF RequestInv
  <2>5. \A j \in DOMAIN es : Answering(es[j], unprocessed[t.frow + j])
    <3>1. SUFFICES ASSUME NEW j \in 1..t.n_rows
                   PROVE  Answering(es[j], unprocessed[t.frow + j])
      BY <2>1, <2>3
    <3>2. j \in DOMAIN t.outputs /\ j <= Len(t.outputs)
      BY <2>3, <2>4
    <3>3. Answering(t.outputs[j].elems[1], unprocessed[t.frow + j])
      BY <2>1, <2>2, <3>2 DEF RequestInv
    <3>4. es[j] = t.outputs[j].elems[1]
      BY <3>2 DEF RowElems
    <3>5. QED BY <3>3, <3>4
  <2> HIDE DEF es
  <2>6. Own(Written(t.frow, es)) /\ CacheOwn(Cached(t.frow, es))
    BY <1>2, <2>1, <2>3, <2>5
  <2>7. output' = Written(t.frow, es) /\ cache' = Cached(t.frow, es)
    BY <1>5 DEF CollectRows, es
  <2>8. QED BY <2>6, <2>7
<1>6. CASE CollectRetry
  <2> DEFINE t == Current
             es == <<t.outputs[1].elems[1]>>
  <2>1. CASE Success(t)
    <3>1. /\ t \in Tasks /\ RequestInv(t) /\ t.call = "PredictOne"
          /\ 1 \in DOMAIN t.outputs
          /\ t.outputs[1].elems[1] \in Storable
          /\ pc \in Working
      BY <1>1, <1>6, <2>1, RetryElem DEF CollectRetry, Getting, Working
    <3>2. t.n_rows = 1 /\ Single(t)
      BY <3>1 DEF RequestInv, Single
    <3>3. Answering(t.outputs[1].elems[1], unprocessed[t.frow + 1])
      BY <3>1, <3>2 DEF RequestInv
    <3>4. t.frow \in Nat
      BY <3>1 DEF Tasks
    <3>5. /\ es \in Seq(Storable) 
          /\ \A j \in DOMAIN es : Answering(es[j], unprocessed[t.frow + j])
      BY <3>1, <3>3
    <3> HIDE DEF es
    <3>6. Own(Written(t.frow, es)) /\ CacheOwn(Cached(t.frow, es))
      BY <1>2, <3>1, <3>4, <3>5
    <3>7. output' = Written(t.frow, es) /\ cache' = Cached(t.frow, es)
      BY <1>6, <2>1 DEF CollectRetry, es
    <3>8. QED BY <3>6, <3>7
  <2>2. CASE ~ Success(t)
    <3>1. UNCHANGED <<output, cache>>
      BY <1>6, <2>2 DEF CollectRetry
    <3>2. QED BY <1>1, <3>1
  <2>3. QED BY <2>1, <2>2
<1>7. QED BY <1>4, <1>5, <1>6

LEMMA OwnStep ==
  ASSUME IInv, [Next]_vars
  PROVE  CacheInv' /\ OwnAnswers'
<1> USE DEF queryVars, chunkVars, waveVars
<1>1. /\ TypeOK
      /\ Aligned => \A r \in DOMAIN output : OwnCell(output[r], input[r])
      /\ Aligned => \A p \in Prompts : cache[p] = None \/ Answering(cache[p], p)
  BY DEF IInv, OwnAnswers, RowsHoldOwnAnswers, OwnCell, CacheInv
<1>2. ASSUME UNCHANGED conf,
             Aligned => \A r \in DOMAIN output' : OwnCell(output'[r], input'[r]),
             Aligned => \A p \in Prompts : cache'[p] = None \/ Answering(cache'[p], p)
      PROVE  CacheInv' /\ OwnAnswers'
  <2>1. Aligned' <=> Aligned
    BY <1>2 DEF Aligned
  <2>2. QED BY <1>2, <2>1 DEF OwnAnswers, RowsHoldOwnAnswers, OwnCell, CacheInv, Answering
<1>3. ASSUME UNCHANGED <<conf, input, output, cache>>
      PROVE  CacheInv' /\ OwnAnswers'
  BY <1>1, <1>2, <1>3
<1>4. CASE StartQuery
  <2>1. DOMAIN output' = {} /\ \A p \in Prompts : cache'[p] = None
    BY <1>4 DEF StartQuery
  <2>2. QED BY <2>1 DEF OwnAnswers, RowsHoldOwnAnswers, CacheInv
<1>5. CASE BeginChunk
  <2> DEFINE Chunk(n, in) ==
                /\ input' = in
                /\ output' = [r \in 1..n |->
                                IF conf.use_cache /\ cache[in[r]] # None
                                THEN Cell(cache[in[r]]) ELSE Unset]
  <2>1. PICK n \in 1..MaxRows : \E in \in [1..n -> Prompts] : Chunk(n, in)
    BY <1>5 DEF BeginChunk
  <2>2. PICK in \in [1..n -> Prompts] : Chunk(n, in)
    BY <2>1
  <2>3. ASSUME Aligned, NEW r \in 1..n
        PROVE  OwnCell(output'[r], input'[r])
    <3>1. in[r] \in Prompts
      OBVIOUS
    <3>2. CASE cache[in[r]] # None
      <4>1. cache[in[r]] \in Storable
        BY <1>1, <3>1, <3>2 DEF TypeOK
      <4>2. Answering(cache[in[r]], in[r])
        BY <1>1, <2>3, <3>1, <3>2
      <4>3. OwnCell(Cell(cache[in[r]]), in[r])
        BY <4>1, <4>2, CellOwn
      <4>4. QED BY <2>2, <4>3 DEF OwnCell
    <3>3. CASE cache[in[r]] = None
      BY <2>2, <3>3 DEF OwnCell
    <3>4. QED BY <3>2, <3>3
  <2>4. DOMAIN output' = 1..n /\ UNCHANGED <<conf, cache>>
    BY <1>5, <2>2 DEF BeginChunk
  <2>5. QED BY <1>1, <1>2, <2>3, <2>4
<1>6. CASE CollectBatch \/ CollectRows \/ CollectRetry
  <2>1. UNCHANGED <<conf, input>>
    BY <1>6 DEF CollectBatch, CollectRows, CollectRetry
  <2>2. QED BY <1>2, <1>6, <2>1, CollectOwn
<1>7. CASE \/ EndQuery \/ LaunchWave \/ CollectFailedBatch \/ Crash \/ EndWave
           \/ BeginRetries \/ LaunchRetries \/ EndRetryWave \/ FinishChunk \/ Rethrow
           \/ CollectThrows \/ Unwind
  <2>1. UNCHANGED <<conf, input, output, cache>>
    BY <1>7 DEF EndQuery, LaunchWave, CollectFailedBatch, Crash, EndWave, BeginRetries,
                LaunchRetries, EndRetryWave, FinishChunk, Rethrow, CollectThrows, Unwind
  <2>2. QED BY <1>3, <2>1
<1>8. CASE Endpoint
  <2>1. PICK k \in DOMAIN futures : Request(k)
    BY <1>8 DEF Endpoint
  <2>2. UNCHANGED <<conf, input, output, cache>>
    BY <2>1, RequestStep DEF Answered, IInv, Requests
  <2>3. QED BY <1>3, <2>2
<1>9. CASE UNCHANGED vars
  BY <1>3, <1>9 DEF vars
<1>10. QED BY <1>4, <1>5, <1>6, <1>7, <1>8, <1>9 DEF Next, Thread
-----------------------------------------------------------------------------
LEMMA InitIInv == Init => IInv
<1>1. SUFFICES ASSUME Init
               PROVE  IInv
  OBVIOUS
<1>2. TypeOK
  <2>1. /\ input \in Seq(Prompts)
        /\ unprocessed \in Seq(Prompts)
        /\ futures \in Seq(Tasks)
        /\ run \in 0..Len(futures)
        /\ batch_fails \in Seq(1..Len(unprocessed))
        /\ output \in [DOMAIN input -> Cells]
        /\ cache \in [Prompts -> Storable \cup {None}]
    BY <1>1 DEF Init
  <2>2. QED BY <1>1, <2>1 DEF Init, TypeOK
<1>3. \A k \in DOMAIN futures : RequestInv(futures[k])
  BY <1>1 DEF Init
<1>4. AtRest /\ ListInv
  BY <1>1 DEF Init, AtRest, ListInv, Working
<1>5. CacheInv
  BY <1>1 DEF Init, CacheInv
<1>6. OwnAnswers
  BY <1>1 DEF Init, OwnAnswers, RowsHoldOwnAnswers
<1>7. QED BY <1>2, <1>3, <1>4, <1>5, <1>6 DEF IInv

LEMMA NextIInv == IInv /\ [Next]_vars => IInv'
<1>1. SUFFICES ASSUME IInv, [Next]_vars
               PROVE  IInv'
  OBVIOUS
<1>2. TypeOK /\ Requests /\ AtRest /\ ListInv
  BY <1>1 DEF IInv, Requests
<1>3. TypeOK' /\ Requests' /\ AtRest' /\ ListInv'
  BY <1>1, <1>2, TypeStep, RequestsStep, AtRestStep, ListStep
<1>4. CacheInv' /\ OwnAnswers'
  BY <1>1, OwnStep
<1>5. QED BY <1>3, <1>4 DEF IInv, Requests

\* The strengthened invariant, from which the theorems below follow: it holds of every
\* list of prompts, setting and endpoint.
THEOREM Invariant == Spec => []IInv
<1>1. Init => IInv
  BY InitIInv
<1>2. IInv /\ [Next]_vars => IInv'
  BY NextIInv
<1>3. QED BY <1>1, <1>2, PTL DEF Spec

\* Every variable keeps its type; in particular every request's rows and every position
\* to retry exist, whatever the endpoint answers.
THEOREM TypeCorrect == Spec => []TypeOK
<1>1. IInv => TypeOK
  BY DEF IInv
<1>2. QED BY <1>1, Invariant, PTL

\* No answer lands on another row: the batches, the waves collected in launch order, the
\* retries by position and the cache keep every answer with the prompt it was given to,
\* for short, long, garbled and missing replies without the cache, and for replies in
\* the requested format with it.
THEOREM RowsOwnTheirAnswers == Spec => []OwnAnswers
<1>1. IInv => OwnAnswers
  BY DEF IInv
<1>2. QED BY <1>1, Invariant, PTL

\* No request outlives the list it reads its prompts from, whichever of its wave threw.
THEOREM ListOutlivesRequests == Spec => []InputOutlivesRequests
<1>1. IInv => InputOutlivesRequests
  BY DEF IInv, RequestInv, InputOutlivesRequests
<1>2. QED BY <1>1, Invariant, PTL
=============================================================================
