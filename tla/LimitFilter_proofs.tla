------------------------- MODULE LimitFilter_proofs -------------------------
(***************************************************************************)
(* Invariants of LimitFilter for any number of threads, any table, limit,  *)
(* offset and verdicts: types, what the shared flag means, and that the    *)
(* doubling of the batches keeps the repeated evaluation of prefixes       *)
(* linear. IInv is inductive.                                              *)
(***************************************************************************)
EXTENDS LimitFilter, FiniteSetTheorems, SequenceTheorems, TLAPS

LEMMA ChunkBounds ==
  ASSUME table \in Tables, NEW c \in Chunks
  PROVE  /\ c \in Nat \ {0}
         /\ table.ends[c] \in Nat \ {0}
         /\ table.batches[c] \in Nat \ {0}
         /\ Start(c) \in Nat
         /\ Size(c) \in Nat \ {0}
<1>1. /\ table.ends \in Seq(Nat \ {0})
      /\ table.batches \in [DOMAIN table.ends -> Nat \ {0}]
      /\ \A d \in 2..Len(table.ends) : table.ends[d - 1] < table.ends[d]
  BY TablesAssumption
<1>2. c \in 1..Len(table.ends)
  BY <1>1 DEF Chunks
<1>3. CASE c = 1
  BY <1>1, <1>2, <1>3 DEF Chunks, Start, Size
<1>4. CASE c # 1
  <2>1. c \in 2..Len(table.ends) /\ c - 1 \in 1..Len(table.ends)
    BY <1>1, <1>2, <1>4
  <2>2. table.ends[c - 1] \in Nat \ {0} /\ table.ends[c - 1] < table.ends[c]
    BY <1>1, <2>1
  <2>3. table.ends[c] \in Nat /\ Size(c) = table.ends[c] - table.ends[c - 1]
    BY <1>1, <1>2, <1>4 DEF Start, Size
  <2>4. Size(c) \in Nat \ {0} /\ table.ends[c] \in Nat
    BY <2>2, <2>3
  <2>5. QED BY <1>1, <1>2, <1>4, <2>2, <2>3, <2>4 DEF Start
<1>5. QED BY <1>3, <1>4

LEMMA MatchingFinite ==
  ASSUME table \in Tables, matching \in table.verdicts
  PROVE  IsFiniteSet(matching) /\ matching \subseteq Nat
<1>1. PICK n : n = table.ends[Len(table.ends)]
  OBVIOUS
<1>2. n \in Nat
  <2>1. table.ends \in Seq(Nat \ {0}) /\ Len(table.ends) > 0
    BY TablesAssumption
  <2>2. QED BY <1>1, <2>1
<1>3. matching \subseteq 1..n
  <2>1. table.verdicts \subseteq SUBSET (1..n)
    BY <1>1, TablesAssumption
  <2>2. QED BY <2>1
<1>4. IsFiniteSet(1..n)
  BY <1>2, FS_Interval
<1>5. IsFiniteSet(matching)
  BY <1>3, <1>4, FS_Subset
<1>6. QED BY <1>2, <1>3, <1>5

LEMMA SelectionType ==
  ASSUME table \in Tables, matching \in table.verdicts, NEW S \in SUBSET matching,
         NEW s \in Selections(S)
  PROVE  s \in Seq(matching)
<1>1. IsFiniteSet(S)
  BY MatchingFinite, FS_Subset
<1>2. Cardinality(S) \in Nat
  BY <1>1, FS_CardinalityType
<1>3. s \in [1..Cardinality(S) -> S]
  BY DEF Selections
<1>4. s \in [1..Cardinality(S) -> matching]
  BY <1>3
<1>5. QED BY <1>2, <1>4

LEMMA PlanType ==
  ASSUME plan \in Plans
  PROVE  /\ plan.limit \in Nat
         /\ plan.offset \in Nat
         /\ MaxElement \in Nat
         /\ MaxElement = plan.limit + plan.offset
  BY PlansAssumption DEF MaxElement

\* What a thread in the filter or the sink knows of its chunk.
LEMMA HeldChunk ==
  ASSUME TypeOK, NEW t \in Threads, pc[t] \in {"filter", "batches", "sink"}
  PROVE  /\ at[t] \in Chunks
         /\ Size(at[t]) \in Nat \ {0}
         /\ Start(at[t]) \in Nat
<1>1. at[t] \in Chunks
  BY DEF TypeOK
<1>2. QED BY <1>1, ChunkBounds DEF TypeOK

\* A batch of the loop stays within the chunk and is not empty.
LEMMA BatchWithinChunk ==
  ASSUME TypeOK, NEW t \in Threads, pc[t] = "batches", MoreBatches(t)
  PROVE  /\ BatchCount(t) \in Nat
         /\ BatchCount(t) <= batch_size[t]
         /\ BatchCount(t) = batch_size[t] \/ NextOffset(t) = Size(at[t])
         /\ NextOffset(t) \in Nat
         /\ NextOffset(t) <= Size(at[t])
         /\ NextBatchSize(t) \in Nat
<1>1. Size(at[t]) \in Nat
  BY HeldChunk
<1>2. offset[t] \in Nat /\ batch_size[t] \in Nat /\ offset[t] < Size(at[t])
  BY DEF TypeOK, MoreBatches
<1>3. QED BY <1>1, <1>2 DEF BatchCount, NextOffset, NextBatchSize, Min2
-----------------------------------------------------------------------------
(* Types. *)

LEMMA TypeInit == Init => TypeOK
<1> SUFFICES ASSUME Init PROVE TypeOK
  OBVIOUS
<1>1. pc \in [Threads -> {"fetch", "done"}]
  BY DEF Init
<1>2. <<>> \in Seq(matching)
  OBVIOUS
<1>3. \A t \in Threads : pc[t] \notin {"filter", "batches", "sink"}
  BY <1>1
<1>4. out \in [Threads -> Seq(matching)] /\ local \in [Threads -> Seq(matching)]
  BY <1>2 DEF Init
<1>5. QED BY <1>1, <1>3, <1>4 DEF Init, TypeOK

LEMMA TypeSource ==
  ASSUME TypeOK, NEW t \in Threads, Fetch(t) \/ Exhausted(t)
  PROVE  TypeOK'
<1>1. CASE Fetch(t)
  <2>1. PICK c \in Chunks :
          /\ at' = [at EXCEPT ![t] = c]
          /\ taken' = IF table.batches[c] > taken THEN table.batches[c] ELSE taken
    BY <1>1 DEF Fetch, NextInBatch, FirstOfNextBatch
  <2>2. c # 0 /\ table.batches[c] \in Nat
    BY ChunkBounds DEF TypeOK
  <2>3. QED
    BY <1>1, <2>1, <2>2 DEF Fetch, TypeOK, Goto, queryVars, filterVars, sinkVars, Chunks, Size, Start
<1>2. CASE Exhausted(t)
  BY <1>2 DEF Exhausted, TypeOK, Goto, queryVars, scanVars, filterVars, sinkVars, Chunks, Size, Start
<1>3. QED BY <1>1, <1>2

LEMMA TypeFilter ==
  ASSUME TypeOK, NEW t \in Threads,
         Skip(t) \/ FilterAll(t) \/ BeginBatches(t) \/ FilterBatch(t) \/ EndBatches(t) \/ Throw(t)
  PROVE  TypeOK'
<1> USE DEF Goto, queryVars, scanVars, filterVars, sinkVars, Chunks, Size, Start
<1>1. CASE Skip(t)
  BY <1>1 DEF Skip, TypeOK
<1>2. CASE FilterAll(t)
  <2>1. PICK s \in Selections(Rows(at[t]) \cap matching) : out' = [out EXCEPT ![t] = s]
    BY <1>2 DEF FilterAll
  <2>2. s \in Seq(matching)
    BY <2>1, SelectionType DEF TypeOK
  <2>3. Size(at[t]) \in Nat
    BY <1>2, HeldChunk DEF FilterAll
  <2>4. QED BY <1>2, <2>1, <2>2, <2>3 DEF FilterAll, TypeOK
<1>3. CASE BeginBatches(t)
  <2>1. Size(at[t]) \in Nat
    BY <1>3, HeldChunk DEF BeginBatches
  <2>2. plan.limit * 2 \in Nat
    BY PlanType DEF TypeOK
  <2>3. QED BY SMTT(20), <1>3, <2>1, <2>2 DEF BeginBatches, TypeOK
<1>4. CASE FilterBatch(t)
  <2>1. PICK s \in Selections(NewMatches(t)) : out' = [out EXCEPT ![t] = @ \o s]
    BY <1>4 DEF FilterBatch
  <2>2. s \in Seq(matching)
    BY <2>1, SelectionType DEF TypeOK, NewMatches
  <2>3. out[t] \o s \in Seq(matching)
    BY <2>2, ConcatProperties DEF TypeOK
  <2>4. /\ BatchCount(t) \in Nat
        /\ NextOffset(t) \in Nat
        /\ NextOffset(t) <= Size(at[t])
        /\ NextBatchSize(t) \in Nat
    BY <1>4, BatchWithinChunk DEF FilterBatch
  <2>5. asked[t] + offset[t] + BatchCount(t) \in Nat
    BY <2>4 DEF TypeOK
  <2>6. QED
    BY <1>4, <2>1, <2>3, <2>4, <2>5 DEF FilterBatch, TypeOK
<1>5. CASE EndBatches(t)
  BY <1>5 DEF EndBatches, TypeOK, ReachesLimit
<1>6. CASE Throw(t)
  BY <1>6 DEF Throw, TypeOK
<1>7. QED BY <1>1, <1>2, <1>3, <1>4, <1>5, <1>6

\* The part of a thread's output that PhysicalLimit::Sink keeps.
LEMMA KeptLength ==
  ASSUME TypeOK, NEW t \in Threads, Len(local[t]) < MaxElement
  PROVE  LET n    == Min2(Len(out[t]), MaxElement - Len(local[t]))
             kept == local[t] \o SubSeq(out[t], 1, n)
         IN  /\ kept \in Seq(matching)
             /\ Len(kept) = Len(local[t]) + n
             /\ n \in Nat
<1> DEFINE n == Min2(Len(out[t]), MaxElement - Len(local[t]))
<1>1. /\ out[t] \in Seq(matching) /\ local[t] \in Seq(matching)
      /\ Len(out[t]) \in Nat /\ Len(local[t]) \in Nat
  BY DEF TypeOK
<1>2. MaxElement \in Nat
  BY PlanType DEF TypeOK
<1>3. n \in Nat /\ n <= Len(out[t])
  <2>1. MaxElement - Len(local[t]) \in Nat
    BY <1>1, <1>2
  <2>2. \A a, b \in Nat : Min2(a, b) \in Nat /\ Min2(a, b) <= a
    BY DEF Min2
  <2>3. QED BY <1>1, <2>1, <2>2
<1> HIDE DEF n
<1>4. SubSeq(out[t], 1, n) \in Seq(matching) /\ Len(SubSeq(out[t], 1, n)) = n
  BY <1>1, <1>3
<1>5. /\ local[t] \o SubSeq(out[t], 1, n) \in Seq(matching)
      /\ Len(local[t] \o SubSeq(out[t], 1, n)) = Len(local[t]) + n
  BY <1>1, <1>4, ConcatProperties
<1>6. QED BY <1>3, <1>5 DEF n

\* The streaming limit's counter: the rows that arrive, and once more those kept of the
\* chunk that brings it to max_element.
LEMMA CounterNumber ==
  ASSUME NEW p \in Nat, NEW n \in Nat, NEW k \in Nat, NEW m \in Nat, NEW q,
         q = IF p + n >= m THEN p + n + k ELSE p + n
  PROVE  /\ q \in Nat
         /\ p + n <= q
         /\ q >= m <=> p + n >= m
         /\ q < m => q = p + n
OBVIOUS

LEMMA CounterStep ==
  ASSUME TypeOK, NEW t \in Threads, Stream(t)
  PROVE  /\ passed' \in Nat
         /\ passed + Len(out[t]) <= passed'
         /\ passed' >= MaxElement <=> passed + Len(out[t]) >= MaxElement
         /\ passed' < MaxElement => passed' = passed + Len(out[t])
<1> DEFINE first == IF passed < plan.offset THEN plan.offset - passed + 1 ELSE 1
           last  == Min2(Len(out[t]), MaxElement - passed)
           kept  == SubSeq(out[t], first, last)
<1>1. /\ out[t] \in Seq(matching) /\ Len(out[t]) \in Nat /\ passed \in Nat
      /\ plan.offset \in Nat /\ MaxElement \in Nat
  BY PlanType DEF TypeOK
<1>2. first \in Nat \ {0} /\ last \in Int /\ last <= Len(out[t])
  BY <1>1 DEF Min2
<1>3. passed' = Counted(t, kept)
  BY DEF Stream
<1> HIDE DEF first, last
<1>4. kept \in Seq(matching)
  <2>1. \A i \in first..last : i \in 1..Len(out[t])
    BY <1>1, <1>2
  <2>2. QED BY <1>1, <1>2, <2>1, SubSeqProperties
<1>5. Len(kept) \in Nat
  BY <1>4
<1> HIDE DEF kept
<1>6. passed' = IF passed + Len(out[t]) >= MaxElement
                THEN passed + Len(out[t]) + Len(kept) ELSE passed + Len(out[t])
  BY <1>3 DEF Counted
<1>7. QED BY <1>1, <1>5, <1>6, CounterNumber

LEMMA TypeLimit ==
  ASSUME TypeOK, NEW t \in Threads, NothingFound(t) \/ Sink(t) \/ Stream(t) \/ Combine(t)
  PROVE  TypeOK'
<1> USE DEF Goto, queryVars, scanVars, filterVars, Chunks, Size, Start
<1>1. CASE NothingFound(t)
  BY <1>1 DEF NothingFound, TypeOK, sinkVars
<1>2. CASE Sink(t)
  <2> DEFINE kept == local[t] \o SubSeq(out[t], 1, Min2(Len(out[t]), MaxElement - Len(local[t])))
  <2>1. CASE plan.limit = 0 \/ Len(local[t]) >= MaxElement
    BY <1>2, <2>1 DEF Sink, TypeOK
  <2>2. CASE ~ (plan.limit = 0 \/ Len(local[t]) >= MaxElement)
    <3>1. Len(local[t]) \in Nat /\ MaxElement \in Nat
      BY PlanType DEF TypeOK
    <3>2. kept \in Seq(matching)
      BY <2>2, <3>1, KeptLength
    <3>3. local' = [local EXCEPT ![t] = kept]
      BY <1>2, <2>2 DEF Sink
    <3>4. pc' = [pc EXCEPT ![t] = IF Len(kept) = MaxElement THEN "combine" ELSE "fetch"]
      BY <1>2, <2>2 DEF Sink
    <3> HIDE DEF kept
    <3>5. QED BY <1>2, <3>2, <3>3, <3>4 DEF Sink, TypeOK
  <2>3. QED BY <2>1, <2>2
<1>3. CASE Stream(t)
  <2> DEFINE first == IF passed < plan.offset THEN plan.offset - passed + 1 ELSE 1
             last  == Min2(Len(out[t]), MaxElement - passed)
  <2>1. /\ out[t] \in Seq(matching) /\ local[t] \in Seq(matching)
        /\ Len(out[t]) \in Nat /\ passed \in Nat
        /\ plan.offset \in Nat /\ MaxElement \in Nat
    BY PlanType DEF TypeOK
  <2>2. first \in Nat \ {0} /\ last \in Int /\ last <= Len(out[t])
    BY <2>1 DEF Min2
  <2>3. local' = [local EXCEPT ![t] = @ \o SubSeq(out[t], first, last)]
    BY <1>3 DEF Stream
  <2>4. pc' = [pc EXCEPT ![t] = IF passed' >= MaxElement THEN "combine" ELSE "fetch"]
    BY <1>3 DEF Stream
  <2> HIDE DEF first, last
  <2>5. SubSeq(out[t], first, last) \in Seq(matching)
    <3>1. \A i \in first..last : i \in 1..Len(out[t])
      BY <2>1, <2>2
    <3>2. QED BY <2>1, <2>2, <3>1, SubSeqProperties
  <2>6. local[t] \o SubSeq(out[t], first, last) \in Seq(matching)
    BY <2>1, <2>5, ConcatProperties
  <2>7. passed' \in Nat
    BY <1>3, CounterStep
  <2>8. local' \in [Threads -> Seq(matching)]
    BY <2>3, <2>6 DEF TypeOK
  <2>9. /\ pc' \in [Threads -> {"fetch", "filter", "batches", "sink", "combine", "done", "dead"}]
        /\ \A u \in Threads : pc'[u] \in {"filter", "batches", "sink"} => pc'[u] = pc[u]
    BY <2>4 DEF TypeOK
  <2>10. UNCHANGED <<queryVars, scanVars, filterVars, merged, answer>>
    BY <1>3 DEF Stream
  <2>11. QED BY <2>7, <2>8, <2>9, <2>10 DEF TypeOK
<1>4. CASE Combine(t)
  <2>1. \A i \in DOMAIN local[t] : local[t][i] \in matching
    BY DEF TypeOK
  <2>2. QED BY <1>4, <2>1 DEF Combine, TypeOK
<1>5. QED BY <1>1, <1>2, <1>3, <1>4

LEMMA TypeStep == TypeOK /\ [Next]_vars => TypeOK'
<1> SUFFICES ASSUME TypeOK, [Next]_vars PROVE TypeOK'
  OBVIOUS
<1>1. CASE \E t \in Threads : Step(t)
  BY <1>1, TypeSource, TypeFilter, TypeLimit DEF Step
<1>2. CASE Answer
  BY <1>2 DEF Answer, Emitted, TypeOK, queryVars, scanVars, filterVars, sinkVars, Chunks, Size, Start
<1>3. CASE UNCHANGED vars
  BY <1>3 DEF vars, TypeOK, Chunks, Size, Start
<1>4. QED BY <1>1, <1>2, <1>3 DEF Next
-----------------------------------------------------------------------------
(* The flag. *)

Shared == \/ \E t \in Threads : Holding(t)
          \/ ~ BatchedLimit /\ passed >= plan.limit

\* What is kept of a chunk with enough rows is enough: the chunk, or what was missing.
LEMMA KeptEnough ==
  ASSUME NEW l \in Nat, NEW o \in Nat, NEW m, m = l + o, NEW k \in Nat, NEW r \in Nat, r >= l,
         NEW n, n = Min2(r, m - k)
  PROVE  k + n >= l
<1>1. n = r \/ n = m - k
  BY DEF Min2
<1>2. QED BY <1>1

\* Rows that reached the limit operator stay there, and rows in a thread's chunk stay
\* until that thread hands them over.
LEMMA HoldingKept ==
  ASSUME TypeOK, NEW u \in Threads, Holding(u), NEW t \in Threads, Step(t)
  PROVE  Shared'
<1> USE DEF Goto, queryVars, scanVars, filterVars, sinkVars
<1>1. /\ out[u] \in Seq(matching) /\ local[u] \in Seq(matching)
      /\ Len(out[u]) \in Nat /\ Len(local[u]) \in Nat
      /\ plan.limit \in Nat /\ plan.offset \in Nat /\ passed \in Nat
      /\ MaxElement \in Nat /\ MaxElement = plan.limit + plan.offset
  BY PlanType DEF TypeOK
<1>2. plan' = plan /\ (BatchedLimit' <=> BatchedLimit)
  BY DEF Step, Fetch, Exhausted, Skip, FilterAll, BeginBatches, FilterBatch, EndBatches, Throw,
         NothingFound, Sink, Stream, Combine, BatchedLimit
<1>3. CASE BatchedLimit /\ Len(local[u]) >= plan.limit
  <2>1. CASE local' = local
    BY <1>2, <1>3, <2>1 DEF Shared, Holding
  <2>2. CASE local' # local
    <3>1. Sink(t) /\ ~ (plan.limit = 0 \/ Len(local[t]) >= MaxElement)
      BY <1>3, <2>2 DEF Step, Fetch, Exhausted, Skip, FilterAll, BeginBatches, FilterBatch,
         EndBatches, Throw, NothingFound, Sink, Stream, Combine
    <3>2. PICK kept : /\ local' = [local EXCEPT ![t] = kept]
                      /\ kept = local[t] \o SubSeq(out[t], 1, Min2(Len(out[t]), MaxElement - Len(local[t])))
      BY <3>1 DEF Sink
    <3>3. Len(local[t]) \in Nat /\ MaxElement \in Nat
      BY <1>1 DEF TypeOK
    <3>4. Len(kept) >= Len(local[t])
      BY <3>1, <3>2, <3>3, KeptLength
    <3>5. Len(local'[u]) >= plan.limit
      <4>1. CASE u = t
        <5>1. local'[u] = kept
          BY <3>2, <4>1 DEF TypeOK
        <5>2. Len(kept) \in Nat
          BY <3>1, <3>2, <3>3, KeptLength
        <5>3. QED BY <1>1, <1>3, <3>4, <4>1, <5>1, <5>2
      <4>2. CASE u # t
        BY <1>3, <3>2, <4>2 DEF TypeOK
      <4>3. QED BY <4>1, <4>2
    <3>6. QED BY <1>2, <1>3, <3>5 DEF Shared, Holding
  <2>3. QED BY <2>1, <2>2
<1>4. CASE pc[u] = "sink" /\ Len(out[u]) >= plan.limit
  <2>1. CASE u # t
    <3>1. pc'[u] = pc[u]
      BY <2>1, SMTT(20) DEF TypeOK, Step, Fetch, Exhausted, Skip, FilterAll, BeginBatches, FilterBatch,
         EndBatches, Throw, NothingFound, Sink, Stream, Combine
    <3>2. out'[u] = out[u]
      BY <2>1, SMTT(20) DEF TypeOK, Step, Fetch, Exhausted, Skip, FilterAll, BeginBatches, FilterBatch,
         EndBatches, Throw, NothingFound, Sink, Stream, Combine
    <3>3. QED BY <1>2, <1>4, <3>1, <3>2 DEF Shared, Holding
  <2>2. CASE u = t
    <3>1. NothingFound(t) \/ Sink(t) \/ Stream(t)
      BY <1>4, <2>2 DEF Step, Fetch, Exhausted, Skip, FilterAll, BeginBatches, FilterBatch,
         EndBatches, Throw, NothingFound, Sink, Stream, Combine
    <3>2. CASE NothingFound(t)
      <4>1. plan.limit = 0 /\ local' = local /\ passed' = passed
        BY <1>1, <1>4, <2>2, <3>2 DEF NothingFound
      <4>2. QED BY <1>1, <1>2, <4>1 DEF Shared, Holding
    <3>3. CASE Sink(t)
      <4>1. CASE plan.limit = 0 \/ Len(local[t]) >= MaxElement
        <5>1. local' = local /\ Len(local[u]) >= plan.limit /\ BatchedLimit
          BY <1>1, <2>2, <3>3, <4>1 DEF Sink
        <5>2. QED BY <1>2, <5>1 DEF Shared, Holding
      <4>2. CASE ~ (plan.limit = 0 \/ Len(local[t]) >= MaxElement)
        <5>1. PICK kept : /\ local' = [local EXCEPT ![t] = kept]
                          /\ kept = local[t] \o SubSeq(out[t], 1, Min2(Len(out[t]), MaxElement - Len(local[t])))
          BY <3>3, <4>2 DEF Sink
        <5>2. PICK n : /\ n = Min2(Len(out[t]), MaxElement - Len(local[t]))
                       /\ n \in Nat
                       /\ Len(kept) = Len(local[t]) + n
          BY <1>1, <2>2, <4>2, <5>1, KeptLength
        <5>3. Len(kept) >= plan.limit
          <6>1. Len(out[t]) >= plan.limit
            BY <1>4, <2>2
          <6>2. Len(local[t]) + n >= plan.limit
            BY <1>1, <2>2, <5>2, <6>1, KeptEnough
          <6>3. QED BY <5>2, <6>2
        <5>4. local'[u] = kept /\ BatchedLimit
          BY <2>2, <3>3, <5>1 DEF TypeOK, Sink
        <5>5. QED BY <1>2, <5>3, <5>4 DEF Shared, Holding
      <4>3. QED BY <4>1, <4>2
    <3>4. CASE Stream(t)
      <4>1. passed' >= plan.limit /\ ~ BatchedLimit
        <5>1. passed + Len(out[t]) <= passed' /\ passed' \in Nat /\ ~ BatchedLimit
          BY <3>4, CounterStep DEF Stream
        <5>2. QED BY <1>1, <1>4, <2>2, <5>1
      <4>2. QED BY <1>2, <4>1 DEF Shared
    <3>5. QED BY <3>1, <3>2, <3>3, <3>4
  <2>3. QED BY <2>1, <2>2
<1>5. QED BY <1>3, <1>4 DEF Holding

LEMMA FlagStep == TypeOK /\ FlagMeansEnough /\ [Next]_vars => FlagMeansEnough'
<1> SUFFICES ASSUME TypeOK, FlagMeansEnough, [Next]_vars, limit_reached' PROVE Shared'
  BY DEF FlagMeansEnough, Shared
<1> USE DEF Goto, queryVars, scanVars, filterVars, sinkVars
<1>1. CASE ~ limit_reached
  <2>1. PICK t \in Threads : EndBatches(t) /\ ReachesLimit(t)
    BY <1>1 DEF TypeOK, Next, vars, Answer, Step, Fetch, Exhausted, Skip, FilterAll, BeginBatches,
       FilterBatch, EndBatches, Throw, NothingFound, Sink, Stream, Combine
  <2>2. pc'[t] = "sink" /\ out' = out /\ plan' = plan
    BY <2>1 DEF EndBatches, TypeOK
  <2>3. QED BY <2>1, <2>2 DEF Shared, Holding, ReachesLimit
<1>2. CASE limit_reached /\ \E t \in Threads : Step(t)
  <2>1. PICK t \in Threads : Step(t)
    BY <1>2
  <2>2. CASE \E u \in Threads : Holding(u)
    BY <2>1, <2>2, HoldingKept
  <2>3. CASE ~ BatchedLimit /\ passed >= plan.limit
    <3>1. plan' = plan /\ (BatchedLimit' <=> BatchedLimit)
      BY <2>1 DEF Step, Fetch, Exhausted, Skip, FilterAll, BeginBatches, FilterBatch, EndBatches,
         Throw, NothingFound, Sink, Stream, Combine, BatchedLimit
    <3>2. passed' = passed \/ (passed' \in Nat /\ passed + Len(out[t]) <= passed')
      <4>1. passed' = passed \/ Stream(t)
        BY <2>1 DEF Step, Fetch, Exhausted, Skip, FilterAll, BeginBatches, FilterBatch, EndBatches,
           Throw, NothingFound, Sink, Combine
      <4>2. QED BY <4>1, CounterStep
    <3>3. Len(out[t]) \in Nat /\ passed \in Nat /\ plan.limit \in Nat
      BY PlanType DEF TypeOK
    <3>4. passed' >= plan.limit
      BY <2>3, <3>2, <3>3
    <3>5. QED BY <2>3, <3>1, <3>4 DEF Shared
  <2>4. QED BY <1>2, <2>2, <2>3 DEF FlagMeansEnough
<1>3. CASE limit_reached /\ (Answer \/ UNCHANGED vars)
  BY <1>3 DEF FlagMeansEnough, Shared, Holding, BatchedLimit, Answer, vars
<1>4. QED BY <1>1, <1>2, <1>3 DEF Next, TypeOK
-----------------------------------------------------------------------------
(* The work. *)

LEMMA WorkOfOthers ==
  ASSUME TypeOK, NEW u \in Threads, WorkInv(u), UNCHANGED table,
         pc'[u] = pc[u] \/ pc'[u] \notin {"batches", "sink"},
         at'[u] = at[u], offset'[u] = offset[u], batch_size'[u] = batch_size[u],
         asked'[u] = asked[u]
  PROVE  WorkInv(u)'
BY DEF WorkInv, Size, Start

LEMMA WorkOfBatch ==
  ASSUME TypeOK, NEW t \in Threads, WorkInv(t), FilterBatch(t)
  PROVE  WorkInv(t)'
<1>1. /\ Size(at[t]) \in Nat /\ offset[t] \in Nat /\ batch_size[t] \in Nat /\ asked[t] \in Nat
      /\ offset[t] < Size(at[t]) /\ pc[t] = "batches"
  BY HeldChunk DEF TypeOK, FilterBatch, MoreBatches
<1>2. /\ asked[t] <= 2 * offset[t]
      /\ batch_size[t] >= offset[t] \/ offset[t] + batch_size[t] >= Size(at[t])
  BY <1>1 DEF WorkInv
<1>3. /\ asked'[t] = asked[t] + offset[t] + BatchCount(t)
      /\ offset'[t] = NextOffset(t)
      /\ batch_size'[t] = NextBatchSize(t)
      /\ pc'[t] = "batches" /\ Size(at[t])' = Size(at[t])
  BY <1>1 DEF FilterBatch, TypeOK, queryVars, scanVars, Size, Start
<1>4. CASE offset[t] + batch_size[t] >= Size(at[t])
  <2>1. offset'[t] = Size(at[t]) /\ asked'[t] <= 3 * Size(at[t])
    BY <1>1, <1>2, <1>3, <1>4 DEF BatchCount, NextOffset, Min2
  <2>2. QED BY <1>1, <1>3, <2>1 DEF WorkInv
<1>5. CASE offset[t] + batch_size[t] < Size(at[t])
  <2>1. BatchCount(t) = batch_size[t] /\ NextOffset(t) = offset[t] + batch_size[t]
    BY <1>1, <1>5 DEF BatchCount, NextOffset, Min2
  <2>2. asked'[t] <= 2 * offset'[t]
    BY <1>1, <1>2, <1>3, <1>5, <2>1
  <2>3. batch_size'[t] >= offset'[t] \/ offset'[t] + batch_size'[t] >= Size(at[t])
    BY <1>1, <1>2, <1>3, <1>5, <2>1 DEF NextBatchSize
  <2>4. asked'[t] <= 3 * Size(at[t])
    BY <1>1, <1>3, <1>5, <2>1, <2>2
  <2>5. QED BY <1>3, <2>2, <2>3, <2>4 DEF WorkInv
<1>6. QED BY <1>1, <1>4, <1>5

LEMMA WorkStep == TypeOK /\ (\A u \in Threads : WorkInv(u)) /\ [Next]_vars
                    => (\A u \in Threads : WorkInv(u)')
<1> SUFFICES ASSUME TypeOK, \A u \in Threads : WorkInv(u), [Next]_vars, NEW u \in Threads
             PROVE  WorkInv(u)'
  OBVIOUS
<1> USE DEF Goto, queryVars, scanVars, filterVars, sinkVars
<1>1. CASE Answer \/ UNCHANGED vars
  BY <1>1, WorkOfOthers DEF Answer, vars
<1>2. ASSUME NEW t \in Threads, Step(t), u # t PROVE WorkInv(u)'
  <2>1. /\ pc'[u] = pc[u] /\ at'[u] = at[u] /\ offset'[u] = offset[u]
        /\ batch_size'[u] = batch_size[u] /\ asked'[u] = asked[u] /\ table' = table
    BY <1>2 DEF TypeOK, Step, Fetch, Exhausted, Skip, FilterAll, BeginBatches, FilterBatch,
       EndBatches, Throw, NothingFound, Sink, Stream, Combine
  <2>2. QED BY <2>1, WorkOfOthers
<1>3. CASE Fetch(u) \/ Exhausted(u) \/ Skip(u) \/ Throw(u) \/ NothingFound(u) \/ Sink(u) \/ Stream(u)
           \/ Combine(u)
  <2>1. pc'[u] \notin {"batches", "sink"}
    BY <1>3 DEF TypeOK, Fetch, Exhausted, Skip, Throw, NothingFound, Sink, Stream, Combine
  <2>2. QED BY <2>1 DEF WorkInv
<1>4. CASE FilterAll(u)
  <2>1. pc'[u] = "sink" /\ asked'[u] = Size(at[u]) /\ Size(at[u])' = Size(at[u])
    BY <1>4 DEF FilterAll, TypeOK, Size, Start
  <2>2. Size(at[u]) \in Nat
    BY <1>4, HeldChunk DEF FilterAll
  <2>3. QED BY <2>1, <2>2 DEF WorkInv
<1>5. CASE BeginBatches(u)
  <2>1. /\ asked'[u] = 0 /\ offset'[u] = 0 /\ batch_size'[u] = plan.limit * 2
        /\ Size(at[u])' = Size(at[u])
    BY <1>5 DEF BeginBatches, TypeOK, Size, Start
  <2>2. Size(at[u]) \in Nat /\ plan.limit \in Nat
    BY <1>5, HeldChunk, PlanType DEF BeginBatches, TypeOK
  <2>3. QED BY <2>1, <2>2 DEF WorkInv
<1>6. CASE FilterBatch(u)
  BY <1>6, WorkOfBatch
<1>7. CASE EndBatches(u)
  <2>1. asked' = asked /\ Size(at[u])' = Size(at[u]) /\ pc[u] = "batches" /\ pc'[u] = "sink"
    BY <1>7 DEF EndBatches, TypeOK, Size, Start
  <2>2. QED BY <2>1 DEF WorkInv
<1>8. QED BY <1>1, <1>2, <1>3, <1>4, <1>5, <1>6, <1>7 DEF Next, Step
-----------------------------------------------------------------------------
(* The theorems. *)

\* Every reachable state satisfies the inductive invariant: types of the shared flag, the
\* threads' chunks and the sink states, the meaning of limit_reached, the work done.
THEOREM Invariant == Spec => []IInv
<1>1. Init => IInv
  <2> SUFFICES ASSUME Init PROVE IInv
    OBVIOUS
  <2>1. TypeOK
    BY TypeInit
  <2>2. ~ limit_reached /\ \A t \in Threads : pc[t] \notin {"batches", "sink"}
    BY DEF Init
  <2>3. QED BY <2>1, <2>2 DEF IInv, FlagMeansEnough, WorkInv
<1>2. IInv /\ [Next]_vars => IInv'
  BY TypeStep, FlagStep, WorkStep DEF IInv
<1>3. QED BY <1>1, <1>2, PTL DEF Spec

\* Types are kept in every thread's handler of PhysicalFilter and of the limit operators.
THEOREM TypeCorrect == Spec => []TypeOK
<1>1. IInv => TypeOK
  BY DEF IInv
<1>2. QED BY <1>1, Invariant, PTL

\* limit_reached stops the other threads only once a single thread has all the rows the
\* LIMIT asks for, however many threads race for it.
THEOREM FlagIsSound == Spec => []FlagMeansEnough
<1>1. IInv => FlagMeansEnough
  BY DEF IInv
<1>2. QED BY <1>1, Invariant, PTL

\* ExecuteInternal's loop evaluates a chunk's growing prefixes, in total at most three
\* times the chunk.
THEOREM WorkIsLinear == Spec => []LinearWork
<1>1. IInv => LinearWork
  BY DEF IInv, WorkInv, LinearWork
<1>2. QED BY <1>1, Invariant, PTL
=============================================================================
