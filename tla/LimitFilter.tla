---------------------------- MODULE LimitFilter ----------------------------
(***************************************************************************)
(* SELECT ... WHERE <prediction> LIMIT n OFFSET m: the threads of one      *)
(* pipeline scan a table, PhysicalFilter evaluates the prediction on their *)
(* chunks, and the limit operator above keeps the rows asked for. The      *)
(* optimizer hands the filter the LIMIT, so that it can evaluate a chunk   *)
(* in growing batches and tell the other threads, by a shared flag, that   *)
(* no more rows are needed.                                                *)
(*                                                                         *)
(* Rows are numbered in insertion order, from 1. The prediction's verdict  *)
(* on a row is a fixed set of matching rows; what it costs is counted.     *)
(* A filter without a limit may also hold back small chunks and pass them  *)
(* on together; that regroups rows without reordering them and is left out.*)
(***************************************************************************)
EXTENDS Integers, Sequences, FiniteSets

CONSTANTS
    Threads,    \* threads of the scheduler
    Tables,     \* tables that may be scanned, with the rows that may match
    Plans,      \* queries: LIMIT, OFFSET, preserve_insertion_order
    PushBound,  \* limits below it are handed to the filter (2048 in the code)
    BatchLimit  \* BATCH_LIMIT_THRESHOLD (10000 in the code)

\* A table's chunks: where each ends, and the batch (row group) each belongs to.
ASSUME ThreadsAssumption == IsFiniteSet(Threads) /\ Threads # {}
ASSUME TablesAssumption ==
    \A tab \in Tables :
        /\ tab.ends \in Seq(Nat \ {0})
        /\ Len(tab.ends) > 0
        /\ tab.batches \in [DOMAIN tab.ends -> Nat \ {0}]
        /\ \A c \in 2..Len(tab.ends) :
              /\ tab.ends[c - 1] < tab.ends[c]
              /\ tab.batches[c] \in {tab.batches[c - 1], tab.batches[c - 1] + 1}
        /\ tab.verdicts \subseteq SUBSET (1..tab.ends[Len(tab.ends)])
ASSUME PlansAssumption == Plans \subseteq [limit : Nat, offset : Nat, preserve : BOOLEAN]
ASSUME BoundsAssumption == PushBound \in Nat /\ BatchLimit \in Nat

VARIABLES
    table,         \* the table scanned
    matching,      \* the rows the prediction accepts
    plan,          \* the query
    pc,            \* where each thread is
    at,            \* the chunk each thread holds, 0 for none
    taken,         \* batches the source has handed out
    limit_reached, \* FilterGlobalState::limit_reached
    offset,        \* rows of its chunk a thread's filter is through with
    batch_size,    \* BATCH_SIZE
    out,           \* the filter's output chunk
    local,         \* rows in the thread's sink state
    passed,        \* StreamingLimitGlobalState::current_offset
    merged,        \* rows in the global sink state
    answer,        \* the rows returned, once all threads are done
    asked          \* history: rows evaluated for a thread's chunk, repetitions included

scanVars == <<at, taken>>
filterVars == <<limit_reached, offset, batch_size, out, asked>>
sinkVars == <<local, passed, merged>>
queryVars == <<table, matching, plan>>
vars == <<table, matching, plan, pc, at, taken, limit_reached, offset, batch_size, out, local,
          passed, merged, answer, asked>>

Unanswered == {0}   \* no row is numbered 0

Min2(a, b) == IF a <= b THEN a ELSE b
Chunks == DOMAIN table.ends
Start(c) == IF c = 1 THEN 0 ELSE table.ends[c - 1]
Size(c) == table.ends[c] - Start(c)
Rows(c) == (Start(c) + 1)..table.ends[c]

\* The selection a filter makes of a set of rows: an increasing sequence (there is one).
Selections(S) ==
    {s \in [1..Cardinality(S) -> S] : \A i, j \in DOMAIN s : i < j => s[i] < s[j]}
-----------------------------------------------------------------------------
(* The plan. *)

\* LimitToPredictFilterPropagation: a small constant limit goes to the filter; a
\* constant offset does not keep it from doing so, nor is it added.
Pushed == plan.limit < PushBound

\* CreatePlan(LogicalLimit): which limit operator stands above the filter.
BatchedLimit ==
    /\ plan.preserve
    /\ Cardinality(Threads) > 1
    /\ plan.limit + plan.offset <= BatchLimit
Sequential == plan.preserve /\ ~ BatchedLimit

\* A slip kept for comparison: a thread keeps no rows for the offset to skip.
MaxElementUnskipped == plan.limit

\* max_element of ComputeOffset.
MaxElement == plan.limit + plan.offset

Init ==
    /\ table \in Tables
    /\ matching \in table.verdicts
    /\ plan \in Plans
    /\ IF Sequential
       THEN \E w \in Threads : pc = [t \in Threads |-> IF t = w THEN "fetch" ELSE "done"]
       ELSE pc = [t \in Threads |-> "fetch"]
    /\ at = [t \in Threads |-> 0]
    /\ taken = 0
    /\ limit_reached = FALSE
    /\ offset = [t \in Threads |-> 0]
    /\ batch_size = [t \in Threads |-> 0]
    /\ out = [t \in Threads |-> <<>>]
    /\ local = [t \in Threads |-> <<>>]
    /\ passed = 0
    /\ merged = {}
    /\ answer = Unanswered
    /\ asked = [t \in Threads |-> 0]

Goto(t, where) == pc' = [pc EXCEPT ![t] = where]
-----------------------------------------------------------------------------
(* The source: a thread goes through a batch chunk by chunk, then takes the next. *)

NextInBatch(t) ==
    IF at[t] = 0 THEN {}
    ELSE {c \in Chunks : c = at[t] + 1 /\ table.batches[c] = table.batches[at[t]]}

\* A slip kept for comparison: the batch handed out last is handed out again.
SameBatchAgain ==
    {c \in Chunks : table.batches[c] >= taken /\ \A d \in Chunks : d < c => table.batches[d] < taken}

FirstOfNextBatch ==
    {c \in Chunks : table.batches[c] > taken /\ \A d \in Chunks : d < c => table.batches[d] <= taken}

Fetch(t) ==
    /\ pc[t] = "fetch"
    /\ \E c \in IF NextInBatch(t) # {} THEN NextInBatch(t) ELSE FirstOfNextBatch :
          /\ at' = [at EXCEPT ![t] = c]
          /\ taken' = IF table.batches[c] > taken THEN table.batches[c] ELSE taken
    /\ Goto(t, "filter")
    /\ UNCHANGED <<queryVars, filterVars, sinkVars, answer>>

Exhausted(t) ==
    /\ pc[t] = "fetch"
    /\ NextInBatch(t) = {}
    /\ FirstOfNextBatch = {}
    /\ Goto(t, "combine")
    /\ UNCHANGED <<queryVars, scanVars, filterVars, sinkVars, answer>>
-----------------------------------------------------------------------------
(* PhysicalFilter::ExecuteInternal. *)

\* The flag is up: FINISHED, and the thread's chunk is dropped.
Skip(t) ==
    /\ pc[t] = "filter"
    /\ Pushed
    /\ limit_reached
    /\ Goto(t, "combine")
    /\ UNCHANGED <<queryVars, scanVars, filterVars, sinkVars, answer>>

\* A chunk no larger than the limit, or a filter without one, is evaluated at once.
FilterAll(t) ==
    /\ pc[t] = "filter"
    /\ Pushed => ~ limit_reached /\ Size(at[t]) <= plan.limit
    /\ \E selected \in Selections(Rows(at[t]) \cap matching) : out' = [out EXCEPT ![t] = selected]
    /\ asked' = [asked EXCEPT ![t] = Size(at[t])]
    /\ Goto(t, "sink")
    /\ UNCHANGED <<queryVars, scanVars, limit_reached, offset, batch_size, sinkVars, answer>>

BeginBatches(t) ==
    /\ pc[t] = "filter"
    /\ Pushed
    /\ ~ limit_reached
    /\ plan.limit < Size(at[t])
    /\ offset' = [offset EXCEPT ![t] = 0]
    /\ batch_size' = [batch_size EXCEPT ![t] = plan.limit * 2]
    /\ out' = [out EXCEPT ![t] = <<>>]
    /\ asked' = [asked EXCEPT ![t] = 0]
    /\ Goto(t, "batches")
    /\ UNCHANGED <<queryVars, scanVars, limit_reached, sinkVars, answer>>

\* A slip kept for comparison: a batch may reach beyond the chunk.
BatchCountUnclamped(t) == batch_size[t]

\* count: the rows a batch adds to the prefix that is evaluated.
BatchCount(t) == Min2(batch_size[t], Size(at[t]) - offset[t])

\* A slip kept for comparison: the whole prefix is selected again.
NewMatchesOfPrefix(t) ==
    {r \in matching : r > Start(at[t]) /\ r <= Start(at[t]) + offset[t] + BatchCount(t)}

\* batch_sel: the matches among the rows the batch added.
NewMatches(t) ==
    {r \in matching : /\ r > Start(at[t]) + offset[t]
                      /\ r <= Start(at[t]) + offset[t] + BatchCount(t)}

NextOffset(t) == offset[t] + BatchCount(t)

\* A slip kept for comparison: batches of one size.
SameBatchSize(t) == batch_size[t]

\* The batch size doubles while a batch leaves more of the chunk than it holds.
NextBatchSize(t) ==
    IF batch_size[t] < Size(at[t]) - NextOffset(t) THEN batch_size[t] * 2 ELSE batch_size[t]

MoreBatches(t) == offset[t] < Size(at[t]) /\ Len(out[t]) < plan.limit

\* One turn of the loop. The expression is evaluated on the chunk's whole prefix.
FilterBatch(t) ==
    /\ pc[t] = "batches"
    /\ MoreBatches(t)
    /\ \E selected \in Selections(NewMatches(t)) : out' = [out EXCEPT ![t] = @ \o selected]
    /\ asked' = [asked EXCEPT ![t] = @ + offset[t] + BatchCount(t)]
    /\ offset' = [offset EXCEPT ![t] = NextOffset(t)]
    /\ batch_size' = [batch_size EXCEPT ![t] = NextBatchSize(t)]
    /\ UNCHANGED <<queryVars, scanVars, limit_reached, pc, sinkVars, answer>>

\* A slip kept for comparison: any row found ends the query.
AnyRowFound(t) == out[t] # <<>>

ReachesLimit(t) == Len(out[t]) >= plan.limit

EndBatches(t) ==
    /\ pc[t] = "batches"
    /\ ~ MoreBatches(t)
    /\ limit_reached' = (limit_reached \/ ReachesLimit(t))
    /\ Goto(t, "sink")
    /\ UNCHANGED <<queryVars, scanVars, offset, batch_size, out, asked, sinkVars, answer>>

\* An evaluation throws (see LlmPredictChunk): the query fails, whatever the other
\* threads still do.
Throw(t) ==
    /\ pc[t] \in {"filter", "batches"}
    /\ Goto(t, "dead")
    /\ UNCHANGED <<queryVars, scanVars, filterVars, sinkVars, answer>>
-----------------------------------------------------------------------------
(* The limit operator. An empty chunk does not reach it. *)

NothingFound(t) ==
    /\ pc[t] = "sink"
    /\ out[t] = <<>>
    /\ Goto(t, "fetch")
    /\ UNCHANGED <<queryVars, scanVars, filterVars, sinkVars, answer>>

\* PhysicalLimit::Sink: each thread keeps the first max_element rows it sees.
Sink(t) ==
    LET kept == local[t] \o SubSeq(out[t], 1, Min2(Len(out[t]), MaxElement - Len(local[t])))
    IN  /\ pc[t] = "sink"
        /\ out[t] # <<>>
        /\ BatchedLimit
        /\ IF plan.limit = 0 \/ Len(local[t]) >= MaxElement
           THEN Goto(t, "combine") /\ UNCHANGED local
           ELSE /\ local' = [local EXCEPT ![t] = kept]
                /\ Goto(t, IF Len(kept) = MaxElement THEN "combine" ELSE "fetch")
        /\ UNCHANGED <<queryVars, scanVars, filterVars, passed, merged, answer>>

\* The counter after a chunk: a chunk of which rows pass on at max_element is answered with
\* HAVE_MORE_OUTPUT, and the executor runs what was kept of it a second time, which adds to
\* the counter again and finishes.
Counted(t, kept) ==
    LET once == passed + Len(out[t])
    IN  IF once >= MaxElement THEN once + Len(kept) ELSE once

\* PhysicalStreamingLimit::Execute: a shared counter numbers the rows that arrive, and
\* those numbered from offset to max_element pass on to the result.
Stream(t) ==
    LET first == IF passed < plan.offset THEN plan.offset - passed + 1 ELSE 1
        last  == Min2(Len(out[t]), MaxElement - passed)
        kept  == SubSeq(out[t], first, last)
    IN  /\ pc[t] = "sink"
        /\ out[t] # <<>>
        /\ ~ BatchedLimit
        /\ passed' = Counted(t, kept)
        /\ local' = [local EXCEPT ![t] = @ \o kept]
        /\ Goto(t, IF passed' >= MaxElement THEN "combine" ELSE "fetch")
        /\ UNCHANGED <<queryVars, scanVars, filterVars, merged, answer>>

\* Combine, under the global lock.
Combine(t) ==
    /\ pc[t] = "combine"
    /\ merged' = merged \cup {local[t][i] : i \in DOMAIN local[t]}
    /\ Goto(t, "done")
    /\ UNCHANGED <<queryVars, scanVars, filterVars, local, passed, answer>>

\* GetDataInternal and HandleOffset: the batches are scanned in order, the rows before
\* the offset skipped and those from max_element on left.
Emitted ==
    {r \in merged : LET rank == Cardinality({q \in merged : q <= r})
                    IN  plan.offset < rank /\ rank <= MaxElement}

Answer ==
    /\ \A t \in Threads : pc[t] = "done"
    /\ answer = Unanswered
    /\ answer' = IF BatchedLimit THEN Emitted ELSE merged
    /\ UNCHANGED <<queryVars, pc, scanVars, filterVars, sinkVars>>
-----------------------------------------------------------------------------
Step(t) ==
    \/ Fetch(t)
    \/ Exhausted(t)
    \/ Skip(t)
    \/ FilterAll(t)
    \/ BeginBatches(t)
    \/ FilterBatch(t)
    \/ EndBatches(t)
    \/ Throw(t)
    \/ NothingFound(t)
    \/ Sink(t)
    \/ Stream(t)
    \/ Combine(t)

Next == (\E t \in Threads : Step(t)) \/ Answer

\* Threads run on, and so does the pipeline that reads the limit's result.
Fairness == (\A t \in Threads : WF_vars(Step(t))) /\ WF_vars(Answer)

Spec == Init /\ [][Next]_vars
FairSpec == Spec /\ Fairness
-----------------------------------------------------------------------------
(* Properties. *)

Answered == answer # Unanswered

TypeOK ==
    /\ table \in Tables
    /\ matching \in table.verdicts
    /\ plan \in Plans
    /\ pc \in [Threads -> {"fetch", "filter", "batches", "sink", "combine", "done", "dead"}]
    /\ at \in [Threads -> {0} \cup Chunks]
    /\ \A t \in Threads : pc[t] \in {"filter", "batches", "sink"} => at[t] # 0
    /\ taken \in Nat
    /\ limit_reached \in BOOLEAN
    /\ offset \in [Threads -> Nat]
    /\ \A t \in Threads : pc[t] = "batches" => offset[t] <= Size(at[t])
    /\ batch_size \in [Threads -> Nat]
    /\ out \in [Threads -> Seq(matching)]
    /\ local \in [Threads -> Seq(matching)]
    /\ passed \in Nat
    /\ merged \subseteq matching
    /\ answer = Unanswered \/ answer \subseteq matching
    /\ asked \in [Threads -> Nat]

\* The rows matching, less those the offset skips, up to the limit.
Wanted == Min2(plan.limit, IF Cardinality(matching) > plan.offset
                           THEN Cardinality(matching) - plan.offset ELSE 0)

\* The rows the query returns when insertion order is preserved.
InOrder ==
    {r \in matching : LET rank == Cardinality({q \in matching : q <= r})
                      IN  plan.offset < rank /\ rank <= plan.offset + plan.limit}

\* The query returns as many rows as there are, up to the limit. No row is counted
\* twice for it though prefixes are evaluated again and again, and no thread gives up
\* its chunk before enough rows of other threads are on their way to the limit operator.
OffsetKept == Answered => Cardinality(answer) = Wanted
EnoughRows == (~ Pushed \/ plan.offset = 0) => OffsetKept

\* With preserve_insertion_order the rows returned are the first ones.
OrderKept == (Answered /\ plan.preserve) => answer = InOrder
RightRows == (~ Pushed \/ (Sequential /\ plan.offset = 0)) => OrderKept

\* The flag goes up only when one thread alone has the rows for the limit, either still
\* in its chunk or already with the limit operator.
Holding(t) ==
    \/ pc[t] = "sink" /\ Len(out[t]) >= plan.limit
    \/ BatchedLimit /\ Len(local[t]) >= plan.limit
FlagMeansEnough ==
    limit_reached => (\E t \in Threads : Holding(t)) \/ (~ BatchedLimit /\ passed >= plan.limit)

\* Doubling keeps the repeated evaluation of prefixes linear in the chunk.
LinearWork == \A t \in Threads : pc[t] \in {"batches", "sink"} => asked[t] <= 3 * Size(at[t])

\* Every query returns or fails.
QueryEnds == <>(Answered \/ \E t \in Threads : pc[t] = "dead")

\* The rest strengthens LinearWork to an inductive invariant: the rows evaluated are at
\* most twice those the filter is through with, as long as the batches grow along; once
\* they do not, one more batch ends the chunk.
WorkInv(t) ==
    /\ pc[t] = "batches" /\ offset[t] < Size(at[t]) =>
          /\ asked[t] <= 2 * offset[t]
          /\ batch_size[t] >= offset[t] \/ offset[t] + batch_size[t] >= Size(at[t])
    /\ pc[t] \in {"batches", "sink"} => asked[t] <= 3 * Size(at[t])

IInv ==
    /\ TypeOK
    /\ FlagMeansEnough
    /\ \A t \in Threads : WorkInv(t)

\* A second invariant follows from the first: no row is handed out twice, and every
\* matching row is on its way, in the result, or not needed.

\* The rows with the limit operator, thread by thread and over all.
Held(t) == {local[t][i] : i \in DOMAIN local[t]}
Got == merged \cup UNION {Held(t) : t \in Threads}

Increasing(s) == \A i, j \in DOMAIN s : i < j => s[i] < s[j]

\* A chunk nothing of which has reached the limit operator, with its rows: its batch is
\* not handed out, or the thread that goes through it is not past it. A chunk whose
\* evaluation threw stays where it is.
Busy == {"filter", "batches", "sink", "dead"}
Ahead(c) ==
    \/ table.batches[c] > taken
    \/ \E t \in Threads : /\ at[t] # 0
                          /\ table.batches[c] = table.batches[at[t]]
                          /\ c > at[t] \/ (c = at[t] /\ pc[t] \in Busy)
RowsAhead == {r \in matching : \E c \in Chunks : r \in Rows(c) /\ Ahead(c)}
RowsBehind == matching \ RowsAhead

\* No two threads go through one batch.
SourceInv ==
    /\ \A t \in Threads : at[t] # 0 => table.batches[at[t]] <= taken
    /\ \A t, u \in Threads :
          t # u /\ at[t] # 0 /\ at[u] # 0 => table.batches[at[t]] # table.batches[at[u]]
    /\ limit_reached => Pushed

\* A thread's output is the matches of a part of its chunk, in order: all of it, unless the
\* limit was reached before.
Matches(t, e) == {r \in matching : Start(at[t]) < r /\ r <= e}
OutRows(t) == {out[t][i] : i \in DOMAIN out[t]}
OutInv(t) ==
    /\ pc[t] \in {"batches", "sink"} => Increasing(out[t])
    /\ pc[t] = "batches" => Pushed /\ OutRows(t) = Matches(t, Start(at[t]) + offset[t])
    /\ pc[t] = "sink" =>
          \E e \in Start(at[t])..table.ends[at[t]] :
             /\ OutRows(t) = Matches(t, e)
             /\ e = table.ends[at[t]] \/ (limit_reached /\ Len(out[t]) >= plan.limit)

\* What a thread hands over comes from the chunks it is past.
KeptInv ==
    /\ \A t \in Threads : Increasing(local[t])
    /\ \A t \in Threads : \A r \in Held(t) :
          at[t] # 0 /\ r <= (IF pc[t] \in Busy THEN Start(at[t]) ELSE table.ends[at[t]])
    /\ Got \cap RowsAhead = {}
    /\ \A t \in Threads : pc[t] = "done" => Held(t) \subseteq merged

\* Why a thread stops: no more rows are needed, or there are none. Where one thread works
\* alone, the others never began.
Enough(t) ==
    IF BatchedLimit THEN plan.limit = 0 \/ Len(local[t]) >= MaxElement ELSE passed >= MaxElement
StopInv(t) ==
    pc[t] \in {"combine", "done"} =>
        \/ limit_reached
        \/ Enough(t)
        \/ NextInBatch(t) = {} /\ \A c \in Chunks : table.batches[c] <= taken
Idle(t) == pc[t] = "done" /\ at[t] = 0
WorkersInv ==
    IF Sequential
    THEN \E w \in Threads : StopInv(w) /\ \A t \in Threads \ {w} : Idle(t)
    ELSE \A t \in Threads : StopInv(t)

\* Up to max_element, where it is added to once more, the streaming limit's counter has
\* numbered the rows that arrived, and let them through but for those it skips.
Unskipped(n) == IF n > plan.offset THEN n - plan.offset ELSE 0
CountInv ==
    ~ BatchedLimit =>
        /\ limit_reached \/ Min2(passed, MaxElement) = Min2(Cardinality(RowsBehind), MaxElement)
        /\ Cardinality(Got) = Unskipped(Min2(passed, MaxElement))

\* The batched limit has every row that arrived, or as many before it as are asked for.
DroppedInv ==
    BatchedLimit =>
        \A r \in RowsBehind \ Got :
            \/ limit_reached
            \/ plan.limit = 0
            \/ \E t \in Threads : Len(local[t]) >= MaxElement /\ \A q \in Held(t) : q < r

\* A thread alone goes through the chunks in order, and what it has passed on is what the
\* query returns of them.
AloneInv ==
    Sequential =>
        /\ \A c, d \in Chunks : c < d /\ Ahead(c) => Ahead(d)
        /\ ~ Pushed \/ plan.offset = 0 =>
              \/ passed = Cardinality(RowsBehind) /\ Got = InOrder \cap RowsBehind
              \/ passed >= MaxElement /\ Got = InOrder

RowsInv ==
    /\ SourceInv
    /\ \A t \in Threads : OutInv(t)
    /\ KeptInv
    /\ WorkersInv
    /\ CountInv
    /\ DroppedInv
    /\ AloneInv
=============================================================================
