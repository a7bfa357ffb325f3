------------------------ MODULE LlmPredictOnce_proofs ------------------------
(***************************************************************************)
(* OnceInv of LlmPredictChunk is inductive, given IInv: every position of  *)
(* the list of prompts is asked and settled in one place, for any prompts, *)
(* chunk sizes, settings and endpoint. What follows from it is that no     *)
(* prompt is paid for twice at a time, that answers stay once they are in  *)
(* their row, that a row left open has failed twice, and that the chunk    *)
(* operator implements SemanticPredict.                                    *)
(***************************************************************************)
EXTENDS LlmPredictChunk_proofs

ReplyInvs == \A k \in DOMAIN futures : ReplyInv(futures[k])

\* A step inside a chunk.
Kept == UNCHANGED <<conf, unprocessed, input>>

LEMMA ImpFacts ==
  ASSUME TypeOK
  PROVE  /\ Imp \in Nat \ {0}
         /\ AllRounds \in Nat
         /\ Len(unprocessed) \in Nat
         /\ conf.n_threads \in Nat \ {0}
         /\ next \in Nat
         /\ Len(futures) \in Nat
         /\ Len(batch_fails) \in Nat
         /\ run \in Nat
<1>1. /\ Len(unprocessed) \in Nat /\ next \in Nat
      /\ Len(futures) \in Nat /\ Len(batch_fails) \in Nat /\ run \in Nat
  BY DEF TypeOK
<1>2. conf.n_threads \in Nat \ {0} /\ conf.batch_size \in Nat \ {0}
  BY ConfType DEF TypeOK
<1>3. Imp \in Nat \ {0}
  BY <1>1, <1>2, ImpPositive DEF Imp
<1>4. AllRounds \in Nat
  BY <1>1, <1>3, CeilDivBounds DEF AllRounds, Rounds, Imp
<1>5. QED BY <1>1, <1>2, <1>3, <1>4

\* The batches start one after the other, and the last one reaches the end of the list.
LEMMA FrontOrder ==
  ASSUME TypeOK
  PROVE  /\ \A a \in Nat : FirstRow(a, Imp) \in Nat
         /\ \A a, b \in Nat : a <= b => FirstRow(a, Imp) <= FirstRow(b, Imp)
         /\ \A a \in Nat : FirstRow(a + 1, Imp) = FirstRow(a, Imp) + Imp
         /\ \A a \in Nat : a >= AllRounds => Len(unprocessed) <= FirstRow(a, Imp)
         /\ FirstRow(0, Imp) = 0
<1>1. Imp \in Nat \ {0} /\ AllRounds \in Nat /\ Len(unprocessed) \in Nat
  BY ImpFacts
<1>2. \A a \in Nat : FirstRow(a, Imp) \in Nat
  BY <1>1 DEF FirstRow
<1>3. \A a, b \in Nat : a <= b => FirstRow(a, Imp) <= FirstRow(b, Imp)
  BY <1>1, ProductMonotone DEF FirstRow
<1>4. \A a \in Nat : FirstRow(a + 1, Imp) = FirstRow(a, Imp) + Imp
  <2>1. \A a \in Nat : (a + 1) * Imp = a * Imp + 1 * Imp
    BY <1>1, Distributes
  <2>2. 1 * Imp = Imp
    BY <1>1
  <2>3. QED BY <2>1, <2>2 DEF FirstRow
<1>5. Len(unprocessed) <= FirstRow(AllRounds, Imp)
  BY <1>1, CeilDivBounds DEF AllRounds, Rounds, Imp, FirstRow
<1>6. \A a \in Nat : a >= AllRounds => Len(unprocessed) <= FirstRow(a, Imp)
  <2>1. SUFFICES ASSUME NEW a \in Nat, a >= AllRounds
                 PROVE  Len(unprocessed) <= FirstRow(a, Imp)
    OBVIOUS
  <2>2. FirstRow(AllRounds, Imp) <= FirstRow(a, Imp)
        /\ FirstRow(AllRounds, Imp) \in Nat /\ FirstRow(a, Imp) \in Nat
    BY <1>1, <1>2, <1>3, <2>1
  <2>3. QED BY <1>1, <1>5, <2>2
<1>7. FirstRow(0, Imp) = 0
  BY <1>1 DEF FirstRow
<1>8. QED BY <1>2, <1>3, <1>4, <1>6, <1>7

\* What LaunchWave launches: the next batches, in order.
LEMMA WaveShape ==
  ASSUME TypeOK, LaunchWave
  PROVE  /\ Len(futures') = WaveSize(next, AllRounds, conf.n_threads)
         /\ Len(futures') \in Nat \ {0}
         /\ Len(futures') <= conf.n_threads
         /\ next + Len(futures') <= AllRounds
         /\ futures' \in Seq(Tasks)
         /\ \A k \in DOMAIN futures' :
               /\ Fresh(futures'[k], "PredictBatch")
               /\ next + k - 1 \in Nat
               /\ futures'[k].frow = FirstRow(next + k - 1, Imp)
               /\ futures'[k].frow + futures'[k].n_rows
                     = LastRow(next + k - 1, Imp, Len(unprocessed))
               /\ futures'[k].frow + futures'[k].n_rows <= FirstRow(next + k, Imp)
<1> DEFINE n == WaveSize(next, AllRounds, conf.n_threads)
<1>1. /\ Imp \in Nat \ {0} /\ AllRounds \in Nat /\ next \in Nat /\ Len(unprocessed) \in Nat
      /\ conf.n_threads \in Nat \ {0} /\ next < AllRounds
  BY ImpFacts DEF LaunchWave
<1>2. n \in Nat \ {0} /\ n <= conf.n_threads /\ next + n <= AllRounds
  BY <1>1 DEF WaveSize, Min2
<1>3. futures' = [k \in 1..n |-> BatchTask(next + k - 1)]
  BY DEF LaunchWave
<1> HIDE DEF n
<1>4. futures' \in Seq(Tasks) /\ \A k \in DOMAIN futures' : Fresh(futures'[k], "PredictBatch")
  BY LaunchWaveFresh
<1>5. DOMAIN futures' = 1..n /\ Len(futures') = n
  BY <1>2, <1>3
<1>6. ASSUME NEW k \in DOMAIN futures'
      PROVE  /\ next + k - 1 \in Nat
             /\ futures'[k].frow = FirstRow(next + k - 1, Imp)
             /\ futures'[k].frow + futures'[k].n_rows
                   = LastRow(next + k - 1, Imp, Len(unprocessed))
             /\ futures'[k].frow + futures'[k].n_rows <= FirstRow(next + k, Imp)
  <2> DEFINE b == next + k - 1
  <2>1. b \in Nat /\ b + 1 = next + k
    BY <1>1, <1>2, <1>5, <1>6
  <2>2. futures'[k] = BatchTask(b)
    BY <1>3, <1>5
  <2> HIDE DEF b
  <2>3. /\ FirstRow(b, Imp) \in Nat
        /\ FirstRow(b + 1, Imp) = FirstRow(b, Imp) + Imp
    BY <2>1, FrontOrder
  <2>4. LastRow(b, Imp, Len(unprocessed)) \in Nat
        /\ LastRow(b, Imp, Len(unprocessed)) <= FirstRow(b + 1, Imp)
    BY <1>1, <2>3 DEF LastRow, Min2
  <2>5. futures'[k].frow = FirstRow(b, Imp)
        /\ futures'[k].n_rows = LastRow(b, Imp, Len(unprocessed)) - FirstRow(b, Imp)
    BY <2>2 DEF BatchTask, Task
  <2>6. futures'[k].frow + futures'[k].n_rows = LastRow(b, Imp, Len(unprocessed))
    BY <2>3, <2>4, <2>5
  <2>7. QED BY <2>1, <2>4, <2>5, <2>6 DEF b
<1>7. QED BY <1>2, <1>4, <1>5, <1>6 DEF n

\* What LaunchRetries launches: a request for each of the next failed positions.
LEMMA RetryShape ==
  ASSUME TypeOK, LaunchRetries
  PROVE  /\ Len(futures') = WaveSize(next, Len(batch_fails), conf.n_threads)
         /\ Len(futures') \in Nat \ {0}
         /\ next + Len(futures') <= Len(batch_fails)
         /\ futures' \in Seq(Tasks)
         /\ \A k \in DOMAIN futures' :
               /\ Fresh(futures'[k], "PredictOne")
               /\ futures'[k].n_rows = 1
               /\ next + k \in DOMAIN batch_fails
               /\ futures'[k].frow + 1 = batch_fails[next + k]
<1> DEFINE n == WaveSize(next, Len(batch_fails), conf.n_threads)
<1>1. /\ next \in Nat /\ Len(batch_fails) \in Nat /\ conf.n_threads \in Nat \ {0}
      /\ next < Len(batch_fails)
      /\ batch_fails \in Seq(1..Len(unprocessed)) /\ Len(unprocessed) \in Nat
  BY ImpFacts DEF LaunchRetries, TypeOK
<1>2. n \in Nat \ {0} /\ next + n <= Len(batch_fails)
  BY <1>1 DEF WaveSize, Min2
<1>3. futures' = [k \in 1..n |-> RetryTask(next + k)]
  BY DEF LaunchRetries
<1> HIDE DEF n
<1>4. futures' \in Seq(Tasks)
      /\ \A k \in DOMAIN futures' : Fresh(futures'[k], "PredictOne") /\ futures'[k].n_rows = 1
  BY LaunchRetriesFresh
<1>5. DOMAIN futures' = 1..n /\ Len(futures') = n
  BY <1>2, <1>3
<1>6. ASSUME NEW k \in DOMAIN futures'
      PROVE  next + k \in DOMAIN batch_fails /\ futures'[k].frow + 1 = batch_fails[next + k]
  <2>1. next + k \in DOMAIN batch_fails
    BY <1>1, <1>2, <1>5
  <2>2. batch_fails[next + k] \in 1..Len(unprocessed)
    BY <1>1, <2>1
  <2>3. futures'[k].frow = batch_fails[next + k] - 1
    BY <1>3, <1>5 DEF RetryTask, Task
  <2>4. QED BY <2>1, <2>2, <2>3
<1>7. QED BY <1>2, <1>4, <1>5, <1>6 DEF n
-----------------------------------------------------------------------------
(* What a request's step makes of it, besides RequestInv (RequestStep). *)

\* Request t replaces the k-th one: same rows, another result.
Replies1(k, t) ==
    /\ futures' = [futures EXCEPT ![k] = t]
    /\ t.call = futures[k].call
    /\ t.frow = futures[k].frow
    /\ t.n_rows = futures[k].n_rows
    /\ ReplyInv(t)

LEMMA EndpointReply ==
  ASSUME TypeOK, Requests, ReplyInvs, NEW k \in DOMAIN futures, Request(k)
  PROVE  futures[k].status = "running" /\ \E t \in Tasks : Replies1(k, t)
<1> DEFINE r == futures[k]
<1>1. futures \in Seq(Tasks) /\ r \in Tasks /\ RequestInv(r) /\ ReplyInv(r)
  BY DEF TypeOK, Requests, ReplyInvs
<1>2. /\ r.n_calls \in Nat /\ r.n_rows \in Nat /\ r.outputs \in Seq(Contents)
      /\ Len(r.outputs) \in Nat
  BY <1>1 DEF Tasks
<1>3. PICK t \in Tasks : futures' = [futures EXCEPT ![k] = t]
  BY RequestStep
<1>4. futures'[k] = t
  BY <1>1, <1>3
<1>5. r.status = "running"
  BY DEF Request, BatchAnswered, BatchGarbled, BatchRefused, RowAnswered, RowWithoutContent,
         OneAnswered, OneWithoutContent, Throw, Running
<1>6. ASSUME NEW outs, Finish(k, outs)
      PROVE  /\ t.call = r.call /\ t.frow = r.frow /\ t.n_rows = r.n_rows
             /\ t.outputs = outs /\ t.n_calls = 1
  BY <1>1, <1>4, <1>6 DEF Finish, Tasks
<1>7. ASSUME NEW outs, RowReplied(k, outs)
      PROVE  /\ t.call = r.call /\ t.frow = r.frow /\ t.n_rows = r.n_rows
             /\ t.outputs = outs /\ t.n_calls = r.n_calls + 1
  BY <1>1, <1>4, <1>7 DEF RowReplied, Tasks
<1>8. /\ t.call = r.call
      /\ t.frow = r.frow
      /\ t.n_rows = r.n_rows
  <2>1. \/ \E outs : Finish(k, outs)
        \/ \E outs : RowReplied(k, outs)
        \/ Throw(k)
    BY DEF Request, BatchAnswered, BatchGarbled, BatchRefused, RowAnswered,
           RowWithoutContent, OneAnswered, OneWithoutContent
  <2>2. CASE Throw(k)
    BY <1>1, <1>4, <2>2 DEF Throw, Tasks
  <2>3. QED BY <1>6, <1>7, <2>1, <2>2
<1>9. Single(t) <=> Single(r)
  BY <1>8 DEF Single
<1>10. ReplyInv(t)
  <2>1. CASE BatchAnswered(k)
    <3>1. PICK m \in Lengths(r.n_rows) : \E es \in Arrays(r, m) : Finish(k, <<[json |-> TRUE, elems |-> es]>>)
      BY <2>1 DEF BatchAnswered
    <3>2. PICK es \in Arrays(r, m) : Finish(k, <<[json |-> TRUE, elems |-> es]>>)
      BY <3>1
    <3>3. Lax = {} => m = r.n_rows
      BY DEF Lengths
    <3>4. m \in Nat
      BY <1>2 DEF Lengths
    <3>5. Len(es) = m
      BY <3>2, <3>4 DEF Arrays
    <3>6. ~ Single(t)
      BY <1>9, <2>1 DEF Single, BatchAnswered, Running
    <3>7. t.outputs = <<[json |-> TRUE, elems |-> es]>>
      BY <1>6, <3>2
    <3> DEFINE content == [json |-> TRUE, elems |-> es]
    <3>8. content.json /\ content.elems = es
      OBVIOUS
    <3> HIDE DEF content
    <3>9. \A i \in DOMAIN <<content>> : <<content>>[i] = content
      OBVIOUS
    <3>10. \A i \in DOMAIN t.outputs : t.outputs[i] = content
      BY <3>7, <3>9 DEF content
    <3>11. QED BY <1>8, <3>3, <3>5, <3>6, <3>8, <3>10 DEF ReplyInv
  <2>2. CASE BatchGarbled(k)
    <3>1. ~ Single(t) /\ Lax # {}
      BY <1>9, <2>2 DEF Single, BatchGarbled, Running
    <3>2. QED BY <3>1 DEF ReplyInv
  <2>3. CASE BatchRefused(k)
    <3>1. ~ Single(t) /\ t.outputs = <<>>
      BY <1>9, <1>6, <2>3 DEF Single, BatchRefused, Running
    <3>2. QED BY <3>1 DEF ReplyInv
  <2>4. CASE RowAnswered(k)
    <3>1. PICK e : RowReplied(k, Append(r.outputs, [json |-> TRUE, elems |-> <<e>>]))
      BY <2>4 DEF RowAnswered
    <3>2. Single(t) /\ Single(r)
      BY <1>9, <2>4 DEF RowAnswered, Single
    <3>3. \A c : Len(Append(r.outputs, c)) = Len(r.outputs) + 1
      BY <1>2
    <3>4. Len(t.outputs) = Len(r.outputs) + 1 /\ t.n_calls = r.n_calls + 1
      BY <1>7, <3>1, <3>3
    <3>5. QED BY <1>1, <3>2, <3>4 DEF ReplyInv
  <2>5. CASE RowWithoutContent(k) \/ OneWithoutContent(k)
    <3>1. Single(t) /\ "nocontent" \in Lax
      BY <1>9, <2>5 DEF RowWithoutContent, OneWithoutContent, Single, Running
    <3>2. QED BY <3>1 DEF ReplyInv
  <2>6. CASE OneAnswered(k)
    <3>1. PICK e : Finish(k, <<[json |-> TRUE, elems |-> <<e>>]>>)
      BY <2>6 DEF OneAnswered
    <3>2. Single(t)
      BY <1>9, <2>6 DEF OneAnswered, Single, Running
    <3>3. Len(t.outputs) = 1 /\ t.n_calls = 1
      BY <1>6, <3>1
    <3>4. QED BY <3>2, <3>3 DEF ReplyInv
  <2>7. CASE Throw(k)
    <3>1. t.outputs = r.outputs /\ t.n_calls = r.n_calls
      BY <1>1, <1>4, <2>7 DEF Throw, Tasks
    <3>2. QED BY <1>1, <1>8, <1>9, <3>1 DEF ReplyInv
  <2>8. QED BY <2>1, <2>2, <2>3, <2>4, <2>5, <2>6, <2>7 DEF Request
<1>11. QED BY <1>3, <1>5, <1>8, <1>10 DEF Replies1

\* The wave as a whole after such a step.
LEMMA EndpointStep ==
  ASSUME TypeOK, Requests, ReplyInvs, Endpoint
  PROVE  /\ Answered
         /\ Len(futures') = Len(futures)
         /\ DOMAIN futures' = DOMAIN futures
         /\ \A k \in DOMAIN futures :
               /\ futures'[k].frow = futures[k].frow
               /\ futures'[k].n_rows = futures[k].n_rows
               /\ futures'[k].status = "running" => futures[k].status = "running"
               /\ ReplyInv(futures'[k])
<1>1. PICK l \in DOMAIN futures : Request(l)
  BY DEF Endpoint
<1>2. futures[l].status = "running"
  BY <1>1, EndpointReply
<1>3. PICK t \in Tasks : Replies1(l, t)
  BY <1>1, EndpointReply
<1>4. futures \in Seq(Tasks) /\ futures' = [futures EXCEPT ![l] = t]
  BY <1>3 DEF TypeOK, Replies1
<1>5. Len(futures') = Len(futures) /\ DOMAIN futures' = DOMAIN futures
  BY <1>4
<1>6. Answered
  BY <1>1, RequestStep
<1>7. ASSUME NEW k \in DOMAIN futures
      PROVE  /\ futures'[k].frow = futures[k].frow
             /\ futures'[k].n_rows = futures[k].n_rows
             /\ futures'[k].status = "running" => futures[k].status = "running"
             /\ ReplyInv(futures'[k])
  <2>1. CASE k = l
    BY <1>2, <1>3, <1>4, <2>1 DEF Replies1
  <2>2. CASE k # l
    <3>1. futures'[k] = futures[k]
      BY <1>4, <2>2
    <3>2. QED BY <3>1 DEF ReplyInvs
  <2>3. QED BY <2>1, <2>2
<1>8. QED BY <1>5, <1>6, <1>7
-----------------------------------------------------------------------------
(* Requests, failed positions and the rest of the list stay in order. *)

\* Inside a chunk the batches do not change.
LEMMA KeptImp ==
  ASSUME Kept
  PROVE  Imp' = Imp /\ AllRounds' = AllRounds
  BY DEF Kept, Imp, AllRounds

\* std::map lists every prompt once.
LEMMA ToAskOnce ==
  ASSUME NEW n \in Nat, NEW in \in [1..n -> Prompts], NEW list \in ToAsk(in), conf.use_cache
  PROVE  /\ \A p, q \in DOMAIN list : list[p] = list[q] => p = q
         /\ \A p \in DOMAIN list : cache[list[p]] = None
         /\ \A r \in 1..n : cache[in[r]] = None => \E p \in DOMAIN list : list[p] = in[r]
<1> DEFINE S == {in[r] : r \in {s \in DOMAIN in : cache[in[s]] = None}}
<1>1. S \subseteq Prompts /\ \A p \in S : cache[p] = None
  OBVIOUS
<1>2. \A r \in 1..n : cache[in[r]] = None => in[r] \in S
  OBVIOUS
<1>3. list \in SortedKeys(S)
  BY DEF ToAsk
<1> HIDE DEF S
<1>4. /\ list \in [1..Cardinality(S) -> S]
      /\ \A i, j \in DOMAIN list : i < j => list[i] < list[j]
      /\ \A p \in S : \E i \in DOMAIN list : list[i] = p
  BY <1>3 DEF SortedKeys
<1>5. Cardinality(S) \in Nat
  BY <1>1, PromptsAssumption, FS_Subset, FS_CardinalityType
<1>6. ASSUME NEW p \in DOMAIN list, NEW q \in DOMAIN list, list[p] = list[q]
      PROVE  p = q
  <2>1. p \in Nat /\ q \in Nat /\ list[p] \in Nat
    <3>1. DOMAIN list = 1..Cardinality(S) /\ list[p] \in S
      BY <1>4
    <3>2. S \subseteq Nat
      BY <1>1, PromptsAssumption
    <3>3. p \in Nat /\ q \in Nat
      BY <1>5, <3>1
    <3>4. QED BY <3>1, <3>2, <3>3
  <2>2. p < q => list[p] < list[q]
    BY <1>4
  <2>3. q < p => list[q] < list[p]
    BY <1>4
  <2>4. QED BY <1>6, <2>1, <2>2, <2>3
<1>7. QED BY <1>1, <1>2, <1>4, <1>6

\* With nothing in flight and nothing failed, the order is that of the list alone.
LEMMA OrderAtRest ==
  ASSUME futures' = <<>>, batch_fails' = <<>>, pc' \notin {"collect", "recollect"},
         conf'.use_cache => \A p, q \in DOMAIN unprocessed' :
                              unprocessed'[p] = unprocessed'[q] => p = q
  PROVE  OrderInv'
  BY DEF OrderInv

LEMMA OrderBegin ==
  ASSUME IInv, BeginChunk
  PROVE  OrderInv'
<1> USE DEF waveVars
<1>1. PICK n \in 1..MaxRows : \E in \in [1..n -> Prompts] : unprocessed' \in ToAsk(in)
  BY DEF BeginChunk
<1>2. PICK in \in [1..n -> Prompts] : unprocessed' \in ToAsk(in)
  BY <1>1
<1>3. n \in Nat
  BY BoundsAssumption
<1>4. conf.use_cache => \A p, q \in DOMAIN unprocessed' :
                          unprocessed'[p] = unprocessed'[q] => p = q
  BY <1>2, <1>3, ToAskOnce
<1>5. futures' = <<>> /\ batch_fails' = <<>> /\ pc' = "launch" /\ UNCHANGED conf
  BY DEF BeginChunk, IInv, AtRest, Working
<1>6. QED BY <1>4, <1>5, OrderAtRest

LEMMA OrderLaunch ==
  ASSUME IInv, OrderInv, LaunchWave
  PROVE  OrderInv'
<1>1. TypeOK /\ AtRest
  BY DEF IInv
<1>2. /\ Kept /\ UNCHANGED <<next, batch_fails>> /\ run' = 0
      /\ pc = "launch" /\ pc' = "collect"
  BY DEF LaunchWave, Kept, queryVars, chunkVars
<1>3. Imp' = Imp /\ AllRounds' = AllRounds
  BY <1>2, KeptImp
<1>4. futures = <<>>
  BY <1>1, <1>2 DEF AtRest
<1>5. Front = FirstRow(next, Imp) /\ Front' = FirstRow(next + Len(futures'), Imp)
  BY <1>1, <1>2, <1>3, <1>4, ImpFacts DEF Front
<1>6. /\ next \in Nat /\ Len(futures') \in Nat
      /\ DOMAIN futures' = 1..Len(futures')
      /\ \A k \in DOMAIN futures' :
            /\ futures'[k].frow \in Nat /\ futures'[k].n_rows \in Nat
            /\ futures'[k].status = "running"
  BY <1>1, WaveShape, ImpFacts DEF Fresh, Tasks
<1> DEFINE F(a) == FirstRow(a, Imp)
<1>7. \A a \in Nat : F(a) \in Nat
  BY <1>1, FrontOrder
<1>8. \A a, b \in Nat : a <= b => F(a) <= F(b)
  BY <1>1, FrontOrder
<1>9. \A k \in DOMAIN futures' :
         /\ futures'[k].frow = F(next + k - 1)
         /\ futures'[k].frow + futures'[k].n_rows <= F(next + k)
  BY <1>1, WaveShape
<1>10. Front = F(next) /\ Front' = F(next + Len(futures'))
  BY <1>5
<1> HIDE DEF F
<1>11. ASSUME NEW k \in DOMAIN futures', NEW l \in DOMAIN futures', k < l
       PROVE  futures'[k].frow + futures'[k].n_rows <= futures'[l].frow
  <2>1. next + k \in Nat /\ next + l - 1 \in Nat /\ next + k <= next + l - 1
    BY <1>6, <1>11
  <2>2. F(next + k) <= F(next + l - 1) /\ F(next + k) \in Nat /\ F(next + l - 1) \in Nat
    BY <1>7, <1>8, <2>1
  <2>3. /\ futures'[k].frow + futures'[k].n_rows <= F(next + k)
        /\ futures'[l].frow = F(next + l - 1)
    BY <1>9
  <2>4. futures'[k].frow + futures'[k].n_rows \in Nat
    BY <1>6
  <2>5. QED BY <2>2, <2>3, <2>4
<1>12. ASSUME NEW k \in DOMAIN futures'
       PROVE  futures'[k].frow + futures'[k].n_rows <= Front' /\ Front <= futures'[k].frow
  <2>1. next + k \in Nat /\ next + k - 1 \in Nat /\ next + k <= next + Len(futures')
        /\ next <= next + k - 1 /\ next + Len(futures') \in Nat
    BY <1>6
  <2>2. F(next + k) <= F(next + Len(futures')) /\ F(next) <= F(next + k - 1)
        /\ F(next + k) \in Nat /\ F(next + k - 1) \in Nat /\ F(next) \in Nat
        /\ F(next + Len(futures')) \in Nat
    BY <1>6, <1>7, <1>8, <2>1
  <2>3. QED BY <1>6, <1>9, <1>10, <2>2
<1>13. Front \in Nat /\ Front' \in Nat /\ Front <= Front'
  <2>1. next + Len(futures') \in Nat /\ next <= next + Len(futures')
    BY <1>6
  <2>2. QED BY <1>6, <1>7, <1>8, <1>10, <2>1
<1>14. \A i \in DOMAIN batch_fails : batch_fails[i] <= Front /\ batch_fails[i] \in Nat
  BY <1>1, <1>2 DEF OrderInv, TypeOK
<1>15. /\ \A i \in DOMAIN batch_fails' : batch_fails'[i] <= Front'
       /\ \A i \in DOMAIN batch_fails', k \in DOMAIN futures' :
             batch_fails'[i] <= futures'[k].frow
  BY <1>2, <1>6, <1>12, <1>13, <1>14
<1>16. \A k \in DOMAIN futures' : k > run'
  BY <1>2, <1>6
<1>17. Len(futures') = WaveSize(next, AllRounds, conf.n_threads)
  BY <1>1, WaveShape
<1>18. /\ \A i, j \in DOMAIN batch_fails : i < j => batch_fails[i] < batch_fails[j]
       /\ conf.use_cache => \A p, q \in DOMAIN unprocessed : unprocessed[p] = unprocessed[q] => p = q
  BY DEF OrderInv
<1>19. QED
  BY <1>2, <1>3, <1>11, <1>12, <1>15, <1>16, <1>17, <1>18 DEF OrderInv, Kept

LEMMA OrderRetries ==
  ASSUME IInv, OrderInv, LaunchRetries
  PROVE  OrderInv'
<1>1. TypeOK
  BY DEF IInv
<1>2. /\ Kept /\ UNCHANGED <<next, batch_fails>> /\ run' = 0
      /\ pc = "relaunch" /\ pc' = "recollect"
  BY DEF LaunchRetries, Kept, queryVars, chunkVars
<1>3. /\ next \in Nat /\ Len(futures') \in Nat
      /\ DOMAIN futures' = 1..Len(futures')
      /\ Len(futures') = WaveSize(next, Len(batch_fails), conf.n_threads)
      /\ \A k \in DOMAIN futures' :
            /\ futures'[k].frow \in Nat
            /\ futures'[k].n_rows = 1
            /\ next + k \in DOMAIN batch_fails
            /\ futures'[k].frow + 1 = batch_fails[next + k]
  BY <1>1, RetryShape, ImpFacts DEF Fresh, Tasks
<1>4. \A i, j \in DOMAIN batch_fails : i < j => batch_fails[i] < batch_fails[j]
  BY DEF OrderInv
<1>5. ASSUME NEW k \in DOMAIN futures', NEW l \in DOMAIN futures', k < l
      PROVE  futures'[k].frow + futures'[k].n_rows <= futures'[l].frow
  <2>1. next + k \in DOMAIN batch_fails /\ next + l \in DOMAIN batch_fails
    BY <1>3
  <2>2. next + k < next + l
    BY <1>3, <1>5
  <2>3. batch_fails[next + k] < batch_fails[next + l]
    BY <1>4, <2>1, <2>2
  <2>4. /\ futures'[k].frow \in Nat /\ futures'[k].n_rows = 1
        /\ futures'[l].frow \in Nat
        /\ futures'[k].frow + 1 = batch_fails[next + k]
        /\ futures'[l].frow + 1 = batch_fails[next + l]
    BY <1>3
  <2>5. QED BY <2>3, <2>4
<1>6. \A k \in DOMAIN futures' : k > run'
  BY <1>2, <1>3
<1>7. conf.use_cache => \A p, q \in DOMAIN unprocessed : unprocessed[p] = unprocessed[q] => p = q
  BY DEF OrderInv
<1>8. QED BY <1>2, <1>3, <1>4, <1>5, <1>6, <1>7 DEF OrderInv, Kept

\* A result is collected: its request is no longer running.
LEMMA OrderCollect ==
  ASSUME IInv, OrderInv, CollectBatch \/ CollectRows \/ CollectRetry
  PROVE  OrderInv'
<1>1. /\ Kept /\ UNCHANGED <<pc, next, futures, batch_fails>> /\ run' = run + 1
      /\ Current.status = "ready"
  BY DEF CollectBatch, CollectRows, CollectRetry, Counted, Getting, Kept, queryVars, chunkVars
<1>2. Imp' = Imp /\ AllRounds' = AllRounds /\ Front' = Front
  BY <1>1, KeptImp DEF Front
<1>3. run \in Nat /\ DOMAIN futures = 1..Len(futures) /\ Len(futures) \in Nat
  BY DEF IInv, TypeOK
<1>4. \A k \in DOMAIN futures : futures[k].status = "running" => k > run + 1
  BY <1>1, <1>3 DEF OrderInv, Current
<1>5. \A k \in DOMAIN futures : k > run + 1 => k > run
  BY <1>3
<1>6. QED BY <1>1, <1>2, <1>4, <1>5 DEF OrderInv, Kept

\* The positions of a failed batch follow those that failed before.
LEMMA OrderFailed ==
  ASSUME IInv, OrderInv, CollectFailedBatch
  PROVE  OrderInv'
<1> DEFINE t == Current
           b == batch_fails
           n == Len(batch_fails)
<1>1. /\ Kept /\ UNCHANGED <<pc, next, futures>> /\ run' = run + 1
      /\ t.status = "ready" /\ pc = "collect" /\ run < Len(futures)
      /\ batch_fails' = b \o Positions(t)
  BY DEF CollectFailedBatch, Counted, Getting, Kept, queryVars, chunkVars
<1>2. Imp' = Imp /\ AllRounds' = AllRounds /\ Front' = Front
  BY <1>1, KeptImp DEF Front
<1>3. TypeOK /\ Requests
  BY DEF IInv, Requests
<1>4. /\ run \in Nat /\ DOMAIN futures = 1..Len(futures) /\ Len(futures) \in Nat
      /\ run + 1 \in DOMAIN futures /\ t = futures[run + 1]
  BY <1>1, <1>3 DEF TypeOK, Current
<1>5. t.frow \in Nat /\ t.n_rows \in Nat
  BY <1>1, <1>3, CurrentRequest DEF Tasks
<1>6. Front \in Nat
  <2>1. next + Len(futures) \in Nat
    BY <1>3, <1>4, ImpFacts
  <2>2. QED BY <1>3, <2>1, FrontOrder DEF Front
<1>7. \A k \in DOMAIN futures : k > run + 1 => k > run
  BY <1>4
<1>8. \A k \in DOMAIN futures : futures[k].frow \in Nat
  <2>1. \A k \in DOMAIN futures : futures[k] \in Tasks
    BY <1>3 DEF TypeOK
  <2>2. QED BY <2>1 DEF Tasks
<1>9. /\ t.frow + t.n_rows <= Front
      /\ \A i \in DOMAIN b : b[i] <= t.frow
      /\ \A k \in DOMAIN futures : k > run + 1 => t.frow + t.n_rows <= futures[k].frow
  <2>1. run + 1 > run
    BY <1>4
  <2>2. QED BY <1>1, <1>4, <2>1 DEF OrderInv
<1>10. n \in Nat /\ DOMAIN b = 1..n /\ \A i \in DOMAIN b : b[i] \in Nat
  BY <1>3 DEF TypeOK
<1> HIDE DEF t, n
<1>11. /\ DOMAIN batch_fails' = 1..(n + t.n_rows)
       /\ \A i \in 1..n : batch_fails'[i] = b[i]
       /\ \A i \in (n + 1)..(n + t.n_rows) : batch_fails'[i] = t.frow + (i - n)
  <2>1. /\ Len(Positions(t)) = t.n_rows
        /\ Positions(t) \in Seq(Nat)
        /\ \A j \in 1..t.n_rows : Positions(t)[j] = t.frow + j
    BY <1>5 DEF Positions
  <2>2. b \in Seq(Nat) /\ Len(b) = n
    BY <1>3 DEF TypeOK, n
  <2>3. DOMAIN batch_fails' = 1..(n + t.n_rows) /\ \A i \in 1..n : batch_fails'[i] = b[i]
    BY <1>1, <1>5, <2>1, <2>2
  <2>4. ASSUME NEW i \in (n + 1)..(n + t.n_rows)
        PROVE  batch_fails'[i] = t.frow + (i - n)
    <3>1. i - n \in 1..t.n_rows /\ i \in Nat /\ i > n
      BY <1>5, <1>10
    <3>2. batch_fails'[i] = Positions(t)[i - n]
      <4> DEFINE P == Positions(t)
      <4> HIDE DEF P
      <4>1. P \in Seq(Nat) /\ Len(P) = t.n_rows
        BY <2>1 DEF P
      <4>2. (b \o P)[i] = P[i - n]
        BY <2>2, <3>1, <4>1, AppendedAt
      <4>3. QED BY <1>1, <4>2 DEF P
    <3>3. QED BY <2>1, <3>1, <3>2
  <2>5. QED BY <2>3, <2>4
<1>12. \A i \in DOMAIN batch_fails' : (i \in 1..n \/ i \in (n + 1)..(n + t.n_rows)) /\ i \in Nat
  BY <1>5, <1>10, <1>11
<1>13. \A i \in DOMAIN batch_fails' : batch_fails'[i] <= t.frow + t.n_rows /\ batch_fails'[i] \in Nat
  <2>1. SUFFICES ASSUME NEW i \in DOMAIN batch_fails'
                 PROVE  batch_fails'[i] <= t.frow + t.n_rows /\ batch_fails'[i] \in Nat
    OBVIOUS
  <2>2. CASE i \in 1..n
    <3>1. batch_fails'[i] = b[i] /\ b[i] <= t.frow /\ b[i] \in Nat
      BY <1>9, <1>10, <1>11, <2>2
    <3>2. QED BY <1>5, <3>1
  <2>3. CASE i \in (n + 1)..(n + t.n_rows)
    <3>1. batch_fails'[i] = t.frow + (i - n)
      BY <1>11, <2>3
    <3>2. QED BY <1>5, <1>10, <2>3, <3>1
  <2>4. QED BY <1>12, <2>2, <2>3
<1>14. ASSUME NEW i \in DOMAIN batch_fails', NEW j \in DOMAIN batch_fails', i < j
       PROVE  batch_fails'[i] < batch_fails'[j]
  <2>1. CASE j \in 1..n
    <3>1. i \in 1..n
      BY <1>10, <1>12, <1>14, <2>1
    <3>2. b[i] < b[j]
      BY <1>10, <1>14, <2>1, <3>1 DEF OrderInv
    <3>3. QED BY <1>11, <2>1, <3>1, <3>2
  <2>2. CASE j \in (n + 1)..(n + t.n_rows) /\ i \in 1..n
    <3>1. batch_fails'[i] = b[i] /\ b[i] <= t.frow /\ b[i] \in Nat
      BY <1>9, <1>10, <1>11, <2>2
    <3>2. batch_fails'[j] = t.frow + (j - n)
      BY <1>11, <2>2
    <3>3. QED BY <1>5, <1>10, <2>2, <3>1, <3>2
  <2>3. CASE j \in (n + 1)..(n + t.n_rows) /\ i \in (n + 1)..(n + t.n_rows)
    <3>1. batch_fails'[i] = t.frow + (i - n) /\ batch_fails'[j] = t.frow + (j - n)
      BY <1>11, <2>3
    <3>2. QED BY <1>5, <1>10, <1>14, <2>3, <3>1
  <2>4. QED BY <1>12, <2>1, <2>2, <2>3
<1>15. \A i \in DOMAIN batch_fails' : batch_fails'[i] <= Front
  BY <1>5, <1>6, <1>9, <1>13
<1>16. \A i \in DOMAIN batch_fails', k \in DOMAIN futures :
          k > run + 1 => batch_fails'[i] <= futures[k].frow
  <2>1. SUFFICES ASSUME NEW i \in DOMAIN batch_fails', NEW k \in DOMAIN futures, k > run + 1
                 PROVE  batch_fails'[i] <= futures[k].frow
    OBVIOUS
  <2>2. t.frow + t.n_rows <= futures[k].frow /\ futures[k].frow \in Nat
    BY <1>8, <1>9, <2>1
  <2>3. batch_fails'[i] <= t.frow + t.n_rows /\ batch_fails'[i] \in Nat
    BY <1>13
  <2>4. QED BY <1>5, <2>2, <2>3
<1>17. \A k \in DOMAIN futures : futures[k].status = "running" => k > run + 1
  BY <1>1, <1>4 DEF OrderInv
<1>18. /\ \A k, l \in DOMAIN futures : k < l => futures[k].frow + futures[k].n_rows <= futures[l].frow
       /\ \A k \in DOMAIN futures : futures[k].frow + futures[k].n_rows <= Front
       /\ conf.use_cache => \A p, q \in DOMAIN unprocessed : unprocessed[p] = unprocessed[q] => p = q
       /\ Len(futures) = WaveSize(next, AllRounds, conf.n_threads)
  BY <1>1 DEF OrderInv
<1>19. QED
  BY <1>1, <1>2, <1>14, <1>15, <1>16, <1>17, <1>18 DEF OrderInv, Kept

\* A wave, or the first loop, is over.
LEMMA OrderEnd ==
  ASSUME IInv, OrderInv, EndWave \/ BeginRetries \/ EndRetryWave
  PROVE  OrderInv'
<1>1. TypeOK /\ AtRest
  BY DEF IInv
<1>2. Kept /\ UNCHANGED batch_fails /\ futures' = <<>>
  BY <1>1 DEF EndWave, BeginRetries, EndRetryWave, Kept, queryVars, chunkVars, AtRest
<1>3. /\ \A i, j \in DOMAIN batch_fails : i < j => batch_fails[i] < batch_fails[j]
      /\ conf.use_cache => \A p, q \in DOMAIN unprocessed : unprocessed[p] = unprocessed[q] => p = q
  BY DEF OrderInv
<1>4. CASE EndWave
  <2>1. /\ pc = "collect" /\ pc' = "launch" /\ next' = next + conf.n_threads
    BY <1>4 DEF EndWave
  <2>2. Len(futures) = WaveSize(next, AllRounds, conf.n_threads)
        /\ \A i \in DOMAIN batch_fails : batch_fails[i] <= Front
    BY <2>1 DEF OrderInv
  <2>3. next + Len(futures) \in Nat /\ next' \in Nat /\ next + Len(futures) <= next'
        /\ Len(futures') = 0 /\ next' + 0 = next'
    <3>1. next \in Nat /\ AllRounds \in Nat /\ conf.n_threads \in Nat \ {0} /\ Len(futures) \in Nat
      BY <1>1, ImpFacts
    <3>2. Len(futures) <= conf.n_threads
      BY <2>2, <3>1 DEF WaveSize, Min2
    <3>3. Len(futures') = 0
      BY <1>2
    <3>4. QED BY <2>1, <3>1, <3>2, <3>3
  <2>4. Front = FirstRow(next + Len(futures), Imp) /\ Front' = FirstRow(next', Imp)
    BY <1>2, <2>3, KeptImp DEF Front
  <2>5. Front \in Nat /\ Front' \in Nat /\ Front <= Front'
    BY <1>1, <2>3, <2>4, FrontOrder
  <2>6. \A i \in DOMAIN batch_fails : batch_fails[i] \in Nat
    BY <1>1 DEF TypeOK
  <2>7. \A i \in DOMAIN batch_fails' : batch_fails'[i] <= Front'
    BY <1>2, <2>2, <2>5, <2>6
  <2>8. QED BY <1>2, <1>3, <2>1, <2>7 DEF OrderInv, Kept
<1>5. CASE BeginRetries \/ EndRetryWave
  <2>1. pc' = "relaunch"
    BY <1>5 DEF BeginRetries, EndRetryWave
  <2>2. QED BY <1>2, <1>3, <2>1 DEF OrderInv, Kept
<1>6. QED BY <1>4, <1>5

LEMMA OrderEndpoint ==
  ASSUME IInv, OrderInv, ReplyInvs, Endpoint
  PROVE  OrderInv'
<1>1. TypeOK /\ Requests
  BY DEF IInv, Requests
<1>2. /\ Len(futures') = Len(futures)
      /\ DOMAIN futures' = DOMAIN futures
      /\ \A k \in DOMAIN futures :
            /\ futures'[k].frow = futures[k].frow
            /\ futures'[k].n_rows = futures[k].n_rows
            /\ futures'[k].status = "running" => futures[k].status = "running"
  BY <1>1, EndpointStep
<1>3. Kept /\ UNCHANGED <<pc, next, run, batch_fails>>
  BY <1>1, EndpointStep DEF Answered, Kept, queryVars, chunkVars
<1>4. Imp' = Imp /\ AllRounds' = AllRounds /\ Front' = Front
  BY <1>2, <1>3, KeptImp DEF Front
<1>5. QED BY <1>2, <1>3, <1>4 DEF OrderInv, Kept

LEMMA OrderStep ==
  ASSUME IInv, OrderInv, ReplyInvs, [Next]_vars
  PROVE  OrderInv'
<1> USE DEF queryVars, chunkVars, waveVars
<1>1. CASE StartQuery \/ EndQuery
  <2>1. pc' \in {"idle", "none"} /\ unprocessed' = <<>> /\ futures' = <<>> /\ batch_fails' = <<>>
    BY <1>1 DEF StartQuery, EndQuery, IInv, AtRest, Working
  <2>2. QED BY <2>1, OrderAtRest
<1>2. CASE Crash \/ Unwind \/ FinishChunk
  <2>1. pc' \in {"idle", "aborted", "crashed"} /\ unprocessed' = <<>> /\ batch_fails' = <<>>
        /\ futures' = <<>>
    BY <1>2 DEF Crash, Unwind, FinishChunk, IInv, AtRest
  <2>2. QED BY <2>1, OrderAtRest
<1>3. CASE Rethrow \/ CollectThrows
  <2>1. Kept /\ UNCHANGED <<futures, run, batch_fails>> /\ pc' = "unwind"
    BY <1>3 DEF Rethrow, CollectThrows, Kept
  <2>2. QED BY <2>1 DEF OrderInv, Kept
<1>4. CASE UNCHANGED vars
  <2>1. Kept /\ UNCHANGED <<futures, run, batch_fails, pc, next>>
    BY <1>4 DEF vars, Kept
  <2>2. Imp' = Imp /\ AllRounds' = AllRounds /\ Front' = Front
    BY <2>1, KeptImp DEF Front
  <2>3. QED BY <2>1, <2>2 DEF OrderInv, Kept
<1>5. QED
  BY <1>1, <1>2, <1>3, <1>4, OrderBegin, OrderLaunch, OrderRetries, OrderCollect, OrderFailed,
     OrderEnd, OrderEndpoint DEF Next, Thread
-----------------------------------------------------------------------------
(* Only collecting a result closes positions, those of its request. *)

LEMMA OpenLaunch ==
  ASSUME IInv, OrderInv, LaunchWave, NEW p \in DOMAIN unprocessed
  PROVE  Open(p)' <=> Open(p)
<1>1. TypeOK /\ AtRest
  BY DEF IInv
<1>2. /\ Kept /\ UNCHANGED <<next, batch_fails>> /\ run' = 0
      /\ pc = "launch" /\ pc' = "collect"
  BY DEF LaunchWave, Kept, queryVars, chunkVars
<1>3. futures = <<>> /\ run = 0
  BY <1>1, <1>2 DEF AtRest
<1> DEFINE F(a) == FirstRow(a, Imp)
           n == Len(futures')
           u == Len(unprocessed)
<1>4. /\ \A a \in Nat : F(a) \in Nat
      /\ \A a, b \in Nat : a <= b => F(a) <= F(b)
      /\ \A a \in Nat : F(a + 1) = F(a) + Imp
  BY <1>1, FrontOrder
<1>5. /\ next \in Nat /\ n \in Nat /\ u \in Nat /\ Imp \in Nat \ {0}
      /\ conf.n_threads \in Nat \ {0} /\ conf.batch_size \in Nat \ {0}
      /\ DOMAIN futures' = 1..n
      /\ next + n <= AllRounds /\ AllRounds \in Nat
      /\ p \in 1..u
  <2>1. next \in Nat /\ conf \in Configs /\ u \in Nat /\ p \in 1..u
    BY <1>1 DEF TypeOK
  <2>2. conf.n_threads \in Nat \ {0} /\ conf.batch_size \in Nat \ {0}
    BY <2>1, ConfType
  <2>3. Imp \in Nat \ {0}
    BY <1>1, ImpFacts
  <2>4. n \in Nat /\ DOMAIN futures' = 1..n /\ next + n <= AllRounds /\ AllRounds \in Nat
    <3>1. n \in Nat \ {0} /\ next + n <= AllRounds /\ futures' \in Seq(Tasks)
      BY <1>1, WaveShape
    <3>2. DOMAIN futures' = 1..n
      BY <3>1
    <3>3. AllRounds \in Nat
      BY <1>1, ImpFacts
    <3>4. QED BY <3>1, <3>2, <3>3
  <2>5. QED BY <2>1, <2>2, <2>3, <2>4
<1>6. Front = F(next) /\ Front' = F(next + n)
  <2>1. next + Len(futures) = next
    BY <1>3, <1>5
  <2>2. QED BY <1>2, <2>1, KeptImp DEF Front
<1>7. \A k \in DOMAIN futures' :
         /\ futures'[k].frow = F(next + k - 1)
         /\ futures'[k].frow + futures'[k].n_rows = LastRow(next + k - 1, Imp, u)
  BY <1>1, WaveShape
<1> HIDE DEF n, u, F
<1>8. ASSUME NEW k \in DOMAIN futures', p \in Span(futures'[k])
      PROVE  p > Front
  <2>1. next + k - 1 \in Nat /\ next <= next + k - 1
    BY <1>5
  <2>2. F(next) <= F(next + k - 1) /\ F(next) \in Nat /\ F(next + k - 1) \in Nat
    BY <1>4, <1>5, <2>1
  <2>3. futures'[k].frow = F(next + k - 1)
    BY <1>7
  <2>4. p > futures'[k].frow
    BY <1>5, <1>8, <2>2, <2>3 DEF Span
  <2>5. QED BY <1>5, <1>6, <2>2, <2>3, <2>4
<1>9. ASSUME p > Front, ~ (p > Front')
      PROVE  \E k \in DOMAIN futures' : p \in Span(futures'[k])
  <2>1. PICK b \in 0..(AllRounds - 1) : F(b) < p /\ p <= LastRow(b, Imp, u)
    BY <1>5, EveryPositionInOneBatch DEF AllRounds, Imp, u, F
  <2>2. b \in Nat /\ F(b) \in Nat /\ F(b + 1) \in Nat /\ F(b + 1) = F(b) + Imp
    <3>1. b \in Nat /\ b + 1 \in Nat
      BY <1>5
    <3>2. QED BY <1>4, <3>1
  <2>3. LastRow(b, Imp, u) <= F(b + 1) /\ LastRow(b, Imp, u) \in Nat
    BY <1>5, <2>2 DEF LastRow, Min2, F
  <2>4. next <= b
    <3>1. SUFFICES ASSUME b + 1 <= next
                   PROVE  FALSE
      BY <1>5, <2>2
    <3>2. F(b + 1) <= F(next) /\ F(next) \in Nat
      <4>1. b + 1 \in Nat
        BY <2>2
      <4>2. QED BY <1>4, <1>5, <3>1, <4>1
    <3>3. QED BY <1>5, <1>6, <1>9, <2>1, <2>2, <2>3, <3>2
  <2>5. b < next + n
    <3>1. SUFFICES ASSUME next + n <= b
                   PROVE  FALSE
      BY <1>5, <2>2
    <3>2. next + n \in Nat
      BY <1>5
    <3>3. F(next + n) <= F(b) /\ F(next + n) \in Nat
      BY <1>4, <2>2, <3>1, <3>2
    <3>4. QED BY <1>5, <1>6, <1>9, <2>1, <2>2, <3>3
  <2> DEFINE k == b - next + 1
  <2>6. k \in 1..n /\ next + k - 1 = b
    BY <1>5, <2>2, <2>4, <2>5
  <2> HIDE DEF k
  <2>7. k \in DOMAIN futures' /\ futures'[k].frow = F(b)
        /\ futures'[k].frow + futures'[k].n_rows = LastRow(b, Imp, u)
    BY <1>5, <1>7, <2>6
  <2>8. p \in Span(futures'[k])
    BY <1>5, <2>1, <2>2, <2>3, <2>7 DEF Span
  <2>9. QED BY <2>7, <2>8
<1>10. p > Front' => p > Front
  <2>1. F(next) <= F(next + n) /\ F(next) \in Nat /\ F(next + n) \in Nat
    <3>1. next + n \in Nat /\ next <= next + n
      BY <1>5
    <3>2. QED BY <1>4, <1>5, <3>1
  <2>2. QED BY <1>5, <1>6, <2>1
<1>11. Failed(p)' <=> Failed(p)
  BY <1>2 DEF Failed
<1>12. \A k \in DOMAIN futures' : k > run'
  BY <1>2, <1>5
<1>13. Open(p) <=> p > Front \/ Failed(p)
  BY <1>2, <1>3 DEF Open
<1>14. Open(p)' <=> (\E k \in DOMAIN futures' : p \in Span(futures'[k])) \/ p > Front' \/ Failed(p)'
  BY <1>2, <1>12 DEF Open
<1>15. QED BY <1>8, <1>9, <1>10, <1>11, <1>13, <1>14

LEMMA OpenRetries ==
  ASSUME IInv, OrderInv, LaunchRetries, NEW p \in DOMAIN unprocessed
  PROVE  Open(p)' <=> Open(p)
<1>1. TypeOK /\ AtRest
  BY DEF IInv
<1>2. /\ Kept /\ UNCHANGED <<next, batch_fails>> /\ run' = 0
      /\ pc = "relaunch" /\ pc' = "recollect"
  BY DEF LaunchRetries, Kept, queryVars, chunkVars
<1>3. futures = <<>> /\ run = 0
  BY <1>1, <1>2 DEF AtRest
<1> DEFINE n == Len(futures')
<1>4. /\ next \in Nat /\ n \in Nat /\ p \in Nat
      /\ DOMAIN futures' = 1..n
      /\ DOMAIN batch_fails \subseteq Nat
      /\ \A k \in DOMAIN futures' :
            /\ futures'[k].frow \in Nat
            /\ futures'[k].n_rows = 1
            /\ next + k \in DOMAIN batch_fails
            /\ futures'[k].frow + 1 = batch_fails[next + k]
  <2>1. next \in Nat /\ n \in Nat /\ p \in Nat /\ DOMAIN batch_fails \subseteq Nat
    <3>1. /\ unprocessed \in Seq(Prompts) /\ batch_fails \in Seq(1..Len(unprocessed))
          /\ next \in Nat
      BY <1>1 DEF TypeOK
    <3>2. n \in Nat
      BY <1>1, RetryShape
    <3>3. p \in Nat /\ DOMAIN batch_fails \subseteq Nat
      BY <3>1
    <3>4. QED BY <3>1, <3>2, <3>3
  <2>2. DOMAIN futures' = 1..n /\ \A k \in DOMAIN futures' :
            /\ futures'[k] \in Tasks
            /\ futures'[k].n_rows = 1
            /\ next + k \in DOMAIN batch_fails
            /\ futures'[k].frow + 1 = batch_fails[next + k]
    BY <1>1, RetryShape DEF Fresh
  <2>3. QED BY <2>1, <2>2 DEF Tasks
<1> HIDE DEF n
<1>5. \A k \in DOMAIN futures' : k > run' /\ (p \in Span(futures'[k]) <=> p = batch_fails[next + k])
  BY <1>2, <1>4 DEF Span
<1>6. Open(p) <=> \E i \in DOMAIN batch_fails : i > next /\ batch_fails[i] = p
  <2>1. next + Len(futures) = next
    BY <1>3, <1>4
  <2>2. QED BY <1>2, <1>3, <2>1 DEF Open
<1>7. Open(p)' <=> \/ \E k \in DOMAIN futures' : p = batch_fails[next + k]
                   \/ \E i \in DOMAIN batch_fails : i > next + n /\ batch_fails[i] = p
  BY <1>2, <1>5 DEF Open, n
<1>8. Open(p)' => Open(p)
  <2>1. ASSUME NEW k \in DOMAIN futures', p = batch_fails[next + k]
        PROVE  Open(p)
    <3>1. next + k \in DOMAIN batch_fails /\ next + k > next
      BY <1>4
    <3>2. QED BY <1>6, <2>1, <3>1
  <2>2. ASSUME NEW i \in DOMAIN batch_fails, i > next + n, batch_fails[i] = p
        PROVE  Open(p)
    <3>1. i > next
      BY <1>4, <2>2
    <3>2. QED BY <1>6, <2>2, <3>1
  <2>3. QED BY <1>7, <2>1, <2>2
<1>9. ASSUME NEW i \in DOMAIN batch_fails, i > next, batch_fails[i] = p
      PROVE  Open(p)'
  <2>1. CASE i <= next + n
    <3>1. i - next \in DOMAIN futures' /\ next + (i - next) = i
      BY <1>4, <1>9, <2>1
    <3>2. QED BY <1>7, <1>9, <3>1
  <2>2. CASE i > next + n
    BY <1>7, <1>9, <2>2
  <2>3. QED BY <1>4, <2>1, <2>2
<1>10. QED BY <1>6, <1>8, <1>9

\* A failed batch stays open: its positions are now among the failed ones.
LEMMA OpenFailed ==
  ASSUME IInv, OrderInv, CollectFailedBatch, NEW p \in DOMAIN unprocessed
  PROVE  Open(p)' <=> Open(p)
<1> DEFINE t == Current
<1>1. /\ Kept /\ UNCHANGED <<pc, next, futures>> /\ run' = run + 1
      /\ pc = "collect" /\ run < Len(futures)
      /\ batch_fails' = batch_fails \o Positions(t)
  BY DEF CollectFailedBatch, Counted, Getting, Kept, queryVars, chunkVars
<1>2. Front' = Front
  BY <1>1, KeptImp DEF Front
<1>3. TypeOK /\ Requests
  BY DEF IInv, Requests
<1>4. /\ run \in Nat /\ DOMAIN futures \subseteq Nat /\ p \in Nat
      /\ run + 1 \in DOMAIN futures /\ t = futures[run + 1]
  BY <1>1, <1>3 DEF TypeOK, Current
<1>5. t.frow \in Nat /\ t.n_rows \in Nat
  BY <1>1, <1>3, CurrentRequest DEF Tasks
<1> HIDE DEF t
<1>6. Failed(p)' <=> Failed(p) \/ p \in Span(t)
  <2> DEFINE b == batch_fails
             P == Positions(t)
  <2>1. P \in Seq(Nat) /\ DOMAIN P = 1..t.n_rows /\ \A j \in 1..t.n_rows : P[j] = t.frow + j
    BY <1>5 DEF Positions
  <2>2. b \in Seq(Nat)
    BY <1>3 DEF TypeOK
  <2>3. p \in Span(t) <=> \E j \in DOMAIN P : P[j] = p
    <3>1. ASSUME p \in Span(t)
          PROVE  \E j \in DOMAIN P : P[j] = p
      <4>1. p - t.frow \in 1..t.n_rows /\ t.frow + (p - t.frow) = p
        BY <1>4, <1>5, <3>1 DEF Span
      <4> HIDE DEF P
      <4>2. QED BY <2>1, <4>1
    <3>2. ASSUME NEW j \in DOMAIN P, P[j] = p
          PROVE  p \in Span(t)
      BY <1>5, <2>1, <3>2 DEF Span
    <3>3. QED BY <3>1, <3>2
  <2> HIDE DEF b, P
  <2>4. (\E i \in DOMAIN (b \o P) : (b \o P)[i] = p)
          <=> (\E i \in DOMAIN b : b[i] = p) \/ (\E j \in DOMAIN P : P[j] = p)
    <3>1. /\ Len(b) \in Nat /\ Len(P) \in Nat /\ DOMAIN b = 1..Len(b) /\ DOMAIN P = 1..Len(P)
          /\ DOMAIN (b \o P) = 1..(Len(b) + Len(P))
          /\ \A i \in 1..Len(b) : (b \o P)[i] = b[i]
      BY <2>1, <2>2
    <3>2. ASSUME NEW j \in 1..Len(P)
          PROVE  Len(b) + j \in DOMAIN (b \o P) /\ (b \o P)[Len(b) + j] = P[j]
      BY <2>1, <2>2, <3>1
    <3>3. ASSUME NEW i \in 1..(Len(b) + Len(P)), ~ (i <= Len(b))
          PROVE  i - Len(b) \in 1..Len(P) /\ (b \o P)[i] = P[i - Len(b)]
      BY <2>1, <2>2, <3>1, <3>3
    <3>4. ASSUME NEW i \in DOMAIN b
          PROVE  i \in DOMAIN (b \o P) /\ (b \o P)[i] = b[i]
      BY <3>1
    <3>5. ASSUME NEW i \in DOMAIN (b \o P)
          PROVE  (i \in DOMAIN b /\ (b \o P)[i] = b[i]) \/ \E j \in DOMAIN P : (b \o P)[i] = P[j]
      <4>1. CASE i <= Len(b)
        BY <3>1, <4>1
      <4>2. CASE ~ (i <= Len(b))
        BY <3>1, <3>3, <4>2
      <4>3. QED BY <4>1, <4>2
    <3>6. QED BY <3>1, <3>2, <3>4, <3>5
  <2>5. QED BY <1>1, <2>3, <2>4 DEF Failed, b, P
<1>7. \A k \in DOMAIN futures : k > run <=> k = run + 1 \/ k > run + 1
  BY <1>4
<1>8. (\E k \in DOMAIN futures : k > run /\ p \in Span(futures[k]))
         <=> p \in Span(t) \/ \E k \in DOMAIN futures : k > run + 1 /\ p \in Span(futures[k])
  BY <1>4, <1>7
<1>9. Open(p) <=> (\E k \in DOMAIN futures : k > run /\ p \in Span(futures[k]))
                  \/ p > Front \/ Failed(p)
  BY <1>1 DEF Open
<1>10. Open(p)' <=> (\E k \in DOMAIN futures : k > run + 1 /\ p \in Span(futures[k]))
                    \/ p > Front \/ Failed(p)'
  <2>1. pc' = "collect" /\ futures' = futures /\ run' = run + 1
    BY <1>1
  <2>2. \A k : Span(futures[k])' = Span(futures[k])
    BY <2>1 DEF Span
  <2>3. QED BY <1>2, <2>1, <2>2 DEF Open
<1>11. QED BY <1>6, <1>8, <1>9, <1>10

\* Collecting a result closes the positions of its request and no other: the other
\* requests, the failed positions and the rest of the list lie apart from it.
LEMMA OpenCollect ==
  ASSUME IInv, OrderInv, CollectBatch \/ CollectRows \/ CollectRetry, NEW p \in DOMAIN unprocessed
  PROVE  /\ Open(p)' <=> Open(p) /\ p \notin Span(Current)
         /\ p \in Span(Current) => Open(p)
<1> DEFINE t == Current
<1>1. /\ Kept /\ UNCHANGED <<pc, next, futures, batch_fails>> /\ run' = run + 1
      /\ pc \in {"collect", "recollect"} /\ run < Len(futures)
  BY DEF CollectBatch, CollectRows, CollectRetry, Counted, Getting, Kept, queryVars, chunkVars
<1>2. Front' = Front
  BY <1>1, KeptImp DEF Front
<1>3. TypeOK /\ Requests
  BY DEF IInv, Requests
<1>4. /\ run \in Nat /\ DOMAIN futures = 1..Len(futures) /\ Len(futures) \in Nat
      /\ p \in Nat /\ next \in Nat
      /\ run + 1 \in DOMAIN futures /\ t = futures[run + 1]
  BY <1>1, <1>3 DEF TypeOK, Current
<1>5. /\ t.frow \in Nat /\ t.n_rows \in Nat
      /\ pc = "recollect" => t.n_rows = 1
  BY <1>1, <1>3, CurrentRequest DEF Tasks, RequestInv
<1> HIDE DEF t
<1>6. ASSUME p \in Span(t)
      PROVE  p > t.frow /\ p <= t.frow + t.n_rows
  BY <1>4, <1>5, <1>6 DEF Span
<1>7. p \in Span(t) => Open(p)
  BY <1>4 DEF Open
<1>8. ASSUME p \in Span(t), NEW k \in DOMAIN futures, k > run + 1
      PROVE  p \notin Span(futures[k])
  <2>1. t.frow + t.n_rows <= futures[k].frow
    BY <1>4, <1>8 DEF OrderInv
  <2>2. futures[k] \in Tasks
    BY <1>3 DEF TypeOK
  <2>3. futures[k].frow \in Nat
    BY <2>2 DEF Tasks
  <2>4. QED BY <1>4, <1>5, <1>6, <1>8, <2>1, <2>2, <2>3 DEF Span, Tasks
<1>9. ASSUME p \in Span(t), pc = "collect"
      PROVE  ~ (p > Front) /\ ~ Failed(p)
  <2>1. t.frow + t.n_rows <= Front
    BY <1>4, <1>9 DEF OrderInv
  <2>2. Front \in Nat
    <3>1. next + Len(futures) \in Nat
      BY <1>4
    <3>2. QED BY <1>3, <3>1, FrontOrder DEF Front
  <2>3. \A i \in DOMAIN batch_fails : batch_fails[i] <= t.frow /\ batch_fails[i] \in Nat
    <3>1. run + 1 > run
      BY <1>4
    <3>2. \A i \in DOMAIN batch_fails : batch_fails[i] <= t.frow
      BY <1>4, <1>9, <3>1 DEF OrderInv
    <3>3. \A i \in DOMAIN batch_fails : batch_fails[i] \in Nat
      BY <1>3 DEF TypeOK
    <3>4. QED BY <3>2, <3>3
  <2>4. QED BY <1>4, <1>5, <1>6, <1>9, <2>1, <2>2, <2>3 DEF Failed
<1>10. ASSUME p \in Span(t), pc = "recollect",
              NEW i \in DOMAIN batch_fails, i > next + Len(futures)
       PROVE  batch_fails[i] # p
  <2>1. p = batch_fails[next + (run + 1)]
    <3>1. t.frow + 1 = batch_fails[next + (run + 1)]
      BY <1>4, <1>10 DEF OrderInv
    <3>2. p = t.frow + 1
      BY <1>4, <1>5, <1>6, <1>10
    <3>3. QED BY <3>1, <3>2
  <2>2. batch_fails \in Seq(Nat)
    BY <1>3 DEF TypeOK
  <2>3. i \in Nat /\ next + (run + 1) \in DOMAIN batch_fails /\ next + (run + 1) < i
    BY <1>1, <1>4, <1>10, <2>2
  <2>4. batch_fails[next + (run + 1)] < batch_fails[i]
    BY <2>3 DEF OrderInv
  <2>5. QED BY <1>4, <2>1, <2>2, <2>4
<1>11. \A k \in DOMAIN futures : k > run <=> k = run + 1 \/ k > run + 1
  BY <1>4
<1> DEFINE Rest == \/ \E k \in DOMAIN futures : k > run + 1 /\ p \in Span(futures[k])
                   \/ pc = "collect" /\ (p > Front \/ Failed(p))
                   \/ /\ pc = "recollect"
                      /\ \E i \in DOMAIN batch_fails : i > next + Len(futures) /\ batch_fails[i] = p
<1>12. Open(p)' <=> Rest
  <2>1. Failed(p)' <=> Failed(p)
    BY <1>1 DEF Failed
  <2>2. \A k : Span(futures[k])' = Span(futures[k])
    BY <1>1 DEF Span
  <2>3. QED BY <1>1, <1>2, <2>1, <2>2 DEF Open
<1>13. Open(p) <=> p \in Span(t) \/ Rest
  BY <1>1, <1>4, <1>11 DEF Open
<1>14. p \in Span(t) => ~ Rest
  BY <1>8, <1>9, <1>10
<1> HIDE DEF Rest
<1>15. QED BY <1>7, <1>12, <1>13, <1>14 DEF t

\* A wave is as large as the number of threads, or the last one, and within its loop.
LEMMA WaveEnds ==
  \A a, rounds, threads, n \in Nat :
     n = WaveSize(a, rounds, threads) =>
        /\ a + n = a + threads \/ a + n >= rounds
        /\ a + n <= a + threads
        /\ a + n <= rounds
  BY DEF WaveSize, Min2

\* Ending a wave, or the first loop, closes nothing: the next wave starts where this one
\* ended, unless nothing is left.
LEMMA OpenEnd ==
  ASSUME IInv, OrderInv, EndWave \/ BeginRetries \/ EndRetryWave, NEW p \in DOMAIN unprocessed
  PROVE  Open(p)' <=> Open(p)
<1>1. TypeOK /\ AtRest
  BY DEF IInv
<1>2. Kept /\ UNCHANGED batch_fails /\ futures' = <<>>
  BY <1>1 DEF EndWave, BeginRetries, EndRetryWave, Kept, queryVars, chunkVars, AtRest
<1>3. /\ next \in Nat /\ run \in Nat /\ Len(futures) \in Nat /\ AllRounds \in Nat
      /\ conf.n_threads \in Nat \ {0} /\ Len(batch_fails) \in Nat
      /\ DOMAIN batch_fails = 1..Len(batch_fails) /\ DOMAIN futures = 1..Len(futures)
      /\ p \in 1..Len(unprocessed) /\ Len(unprocessed) \in Nat
      /\ Len(futures') = 0 /\ DOMAIN futures' = {}
  BY <1>1, <1>2, ImpFacts DEF TypeOK
<1>4. Failed(p)' <=> Failed(p)
  BY <1>2 DEF Failed
<1>5. CASE EndWave
  <2>1. /\ pc = "collect" /\ pc' = "launch" /\ next' = next + conf.n_threads
        /\ run = Len(futures)
        /\ Len(futures) = WaveSize(next, AllRounds, conf.n_threads)
    BY <1>5 DEF EndWave, OrderInv
  <2>2. Front = FirstRow(next + Len(futures), Imp) /\ Front' = FirstRow(next', Imp)
    <3>1. next' + Len(futures') = next'
      BY <1>3, <2>1
    <3>2. QED BY <1>2, <3>1, KeptImp DEF Front
  <2>3. /\ next + Len(futures) = next' \/ next + Len(futures) >= AllRounds
        /\ next + Len(futures) <= next'
    BY <1>3, <2>1, WaveEnds
  <2>4. p > Front <=> p > Front'
    <3>1. CASE next + Len(futures) = next'
      BY <2>2, <3>1
    <3>2. CASE next + Len(futures) >= AllRounds
      <4>1. next + Len(futures) \in Nat /\ next' \in Nat /\ next + Len(futures) <= next'
        BY <1>3, <2>1, <2>3
      <4>2. /\ Front \in Nat /\ Front' \in Nat /\ Front <= Front'
            /\ Len(unprocessed) <= Front
        BY <1>1, <2>2, <3>2, <4>1, FrontOrder
      <4>3. QED BY <1>3, <4>2
    <3>3. QED BY <2>3, <3>1, <3>2
  <2>5. \A k \in DOMAIN futures : ~ (k > run)
    BY <1>3, <2>1
  <2>6. QED BY <1>3, <1>4, <2>1, <2>4, <2>5 DEF Open
<1>6. CASE BeginRetries
  <2>1. /\ pc = "launch" /\ pc' = "relaunch" /\ next' = 0 /\ next >= AllRounds
        /\ futures = <<>>
    BY <1>1, <1>6 DEF BeginRetries, AtRest
  <2>2. ~ (p > Front)
    <3>1. next + Len(futures) = next
      BY <1>3, <2>1
    <3>2. Front \in Nat /\ Len(unprocessed) <= Front
      BY <1>1, <1>3, <2>1, <3>1, FrontOrder DEF Front
    <3>3. QED BY <1>3, <3>2
  <2>3. Open(p) <=> Failed(p)
    BY <2>1, <2>2 DEF Open
  <2>4. Open(p)' <=> \E i \in DOMAIN batch_fails : i > 0 /\ batch_fails[i] = p
    <3>1. next' + Len(futures') = 0
      BY <1>3, <2>1
    <3>2. QED BY <1>2, <1>3, <2>1, <3>1 DEF Open
  <2>5. \A i \in DOMAIN batch_fails : i > 0
    BY <1>3
  <2>6. QED BY <2>3, <2>4, <2>5 DEF Failed
<1>7. CASE EndRetryWave
  <2>1. /\ pc = "recollect" /\ pc' = "relaunch" /\ next' = next + conf.n_threads
        /\ run = Len(futures)
        /\ Len(futures) = WaveSize(next, Len(batch_fails), conf.n_threads)
    BY <1>7 DEF EndRetryWave, OrderInv
  <2>2. /\ next + Len(futures) = next' \/ next + Len(futures) >= Len(batch_fails)
        /\ next + Len(futures) <= next'
    BY <1>3, <2>1, WaveEnds
  <2>3. next' \in Nat /\ next + Len(futures) \in Nat /\ next' + Len(futures') = next'
    BY <1>3, <2>1
  <2>4. \A i \in DOMAIN batch_fails : i > next + Len(futures) <=> i > next'
    <3>1. \A i \in DOMAIN batch_fails : i \in Nat /\ i <= Len(batch_fails)
      BY <1>3
    <3>2. QED BY <1>3, <2>2, <2>3, <3>1
  <2>5. \A k \in DOMAIN futures : ~ (k > run)
    BY <1>3, <2>1
  <2>6. Open(p) <=> \E i \in DOMAIN batch_fails : i > next + Len(futures) /\ batch_fails[i] = p
    BY <2>1, <2>5 DEF Open
  <2>7. Open(p)' <=> \E i \in DOMAIN batch_fails : i > next' /\ batch_fails[i] = p
    BY <1>2, <1>3, <2>1, <2>3 DEF Open
  <2>8. QED BY <2>4, <2>6, <2>7
<1>8. QED BY <1>5, <1>6, <1>7

LEMMA OpenEndpoint ==
  ASSUME IInv, ReplyInvs, Endpoint, NEW p \in DOMAIN unprocessed
  PROVE  Open(p)' <=> Open(p)
<1>1. TypeOK /\ Requests
  BY DEF IInv, Requests
<1>2. /\ Len(futures') = Len(futures)
      /\ DOMAIN futures' = DOMAIN futures
      /\ \A k \in DOMAIN futures :
            /\ futures'[k].frow = futures[k].frow
            /\ futures'[k].n_rows = futures[k].n_rows
  BY <1>1, EndpointStep
<1>3. Kept /\ UNCHANGED <<pc, next, run, batch_fails>>
  BY <1>1, EndpointStep DEF Answered, Kept, queryVars, chunkVars
<1>4. Front' = Front
  BY <1>2, <1>3, KeptImp DEF Front
<1>5. \A k \in DOMAIN futures : Span(futures'[k]) = Span(futures[k])
  BY <1>2 DEF Span
<1>6. QED BY <1>2, <1>3, <1>4, <1>5 DEF Open, Failed

LEMMA OpenUnwind ==
  ASSUME Rethrow \/ CollectThrows, NEW p
  PROVE  Open(p)' => Open(p)
<1>1. UNCHANGED <<futures, run>> /\ pc' = "unwind"
  BY DEF Rethrow, CollectThrows, waveVars
<1>2. QED BY <1>1 DEF Open, Span
-----------------------------------------------------------------------------
(* What collecting a result writes. *)

\* What the cache keeps of elements es: each one's text, or with use_batch a text that
\* a hit cannot read.
Kepts(es, ts) ==
    /\ ts \in Seq(Storable)
    /\ DOMAIN ts = DOMAIN es
    /\ \A j \in DOMAIN es : ts[j] = es[j] \/ (conf.use_batch /\ ts[j] = Blank)

\* Elements es go to the first rows of request t, and NULL to its other ones. With the
\* cache there are no others.
Stores(t, es) ==
    /\ Len(es) <= t.n_rows
    /\ conf.use_cache => Len(es) = t.n_rows
    /\ \E ts : Kepts(es, ts) /\ cache' = Cached(t.frow, ts)
    /\ output' = Nulled(Written(t.frow, es), (t.frow + Len(es) + 1)..(t.frow + t.n_rows))

LEMMA NulledNone ==
  ASSUME NEW frow \in Nat, NEW es, NEW a \in Nat, NEW b \in Nat, b < a
  PROVE  Nulled(Written(frow, es), a..b) = Written(frow, es)
<1> DEFINE w == Written(frow, es)
<1>1. w = [r \in DOMAIN w |-> w[r]]
  BY DEF Written
<1>2. a..b = {}
  OBVIOUS
<1> HIDE DEF w
<1>3. Nulled(w, {}) = w
  BY <1>1 DEF Nulled
<1>4. QED BY <1>2, <1>3 DEF w

LEMMA Collected ==
  ASSUME IInv, ReplyInvs, Aligned, CollectBatch \/ CollectRows \/ CollectRetry
  PROVE  \/ \E es \in Seq(Storable) : Stores(Current, es)
         \/ /\ UNCHANGED <<output, cache>>
            /\ "nocontent" \in Lax
            /\ pc = "recollect"
<1> DEFINE t == Current
<1>1. TypeOK /\ Requests
  BY DEF IInv, Requests
<1>2. /\ run + 1 \in DOMAIN futures /\ t = futures[run + 1]
      /\ t \in Tasks /\ RequestInv(t)
  <2>1. run < Len(futures)
    BY DEF CollectBatch, CollectRows, CollectRetry, Getting
  <2>2. QED BY <1>1, <2>1, CurrentRequest DEF Current
<1>3. ReplyInv(t)
  BY <1>2 DEF ReplyInvs
<1>4. /\ t.frow \in Nat /\ t.n_rows \in Nat /\ t.outputs \in Seq(Contents)
      /\ Len(unprocessed) \in Nat /\ t.frow + t.n_rows <= Len(unprocessed)
  BY <1>1, <1>2 DEF Tasks, TypeOK, RequestInv
<1>5. t.status = "ready"
  BY DEF CollectBatch, CollectRows, CollectRetry, Getting
<1>6. ASSUME NEW es \in Seq(Storable), Len(es) = t.n_rows,
             \E ts : Kepts(es, ts) /\ cache' = Cached(t.frow, ts),
             output' = Written(t.frow, es)
      PROVE  Stores(t, es)
  <2>1. t.frow + Len(es) + 1 \in Nat /\ t.frow + t.n_rows \in Nat
        /\ t.frow + t.n_rows < t.frow + Len(es) + 1
    BY <1>4, <1>6
  <2> HIDE DEF t
  <2>2. Nulled(Written(t.frow, es), (t.frow + Len(es) + 1)..(t.frow + t.n_rows))
          = Written(t.frow, es)
    BY <1>4, <2>1, NulledNone
  <2>3. QED BY <1>4, <1>6, <2>2 DEF Stores
<1> DEFINE Keeps(es) == \E ts : Kepts(es, ts) /\ cache' = Cached(t.frow, ts)
<1>12. ASSUME NEW es \in Seq(Storable), cache' = Cached(t.frow, es)
       PROVE  Keeps(es)
  BY <1>12 DEF Kepts
<1>7. CASE CollectBatch
  <2> DEFINE content == t.outputs[1]
             elems == content.elems
             known == Len(unprocessed) - t.frow
             m == IF content.json THEN Min2(Len(elems), known) ELSE 0
             es == SubSeq(elems, 1, m)
             mr == IF content.json THEN Min2(Len(elems), t.n_rows) ELSE 0
             esr == SubSeq(elems, 1, mr)
  <2>1. /\ ~ Single(t)
        /\ 1 \in DOMAIN t.outputs
        /\ elems \in Seq(Storable)
    BY <1>1, <1>7, BatchContent DEF CollectBatch
  <2>2. Len(elems) \in Nat
    BY <2>1
  <2>3. Lax = {} => content.json /\ Len(elems) = t.n_rows
    BY <1>3, <2>1 DEF ReplyInv
  <2> HIDE DEF t, content, elems
  <2>4. CASE conf.use_cache
    <3>1. content.json /\ Len(elems) = t.n_rows
      BY <2>3, <2>4 DEF Aligned
    <3>2. m = t.n_rows /\ m \in 0..Len(elems)
      BY <1>4, <2>2, <3>1 DEF Min2
    <3>3. es \in Seq(Storable) /\ Len(es) = t.n_rows
      BY <2>1, <3>2, Prefix
    <3>4. ExtractMap(t, content)
      BY <1>7, <2>4 DEF CollectBatch, t, content
    <3>5. Keeps(es)
      <4>1. PICK cut \in SUBSET DOMAIN es : cache' = Cached(t.frow, Dumped(es, cut))
        BY <3>4 DEF ExtractMap, elems
      <4> DEFINE ts == Dumped(es, cut)
      <4>2. /\ ts \in Seq(Storable) /\ DOMAIN ts = DOMAIN es
            /\ \A j \in DOMAIN es : ts[j] \in {es[j], Blank}
        BY <3>3, DumpedType
      <4>3. conf.use_batch
        BY <1>7 DEF CollectBatch
      <4>4. cache' = Cached(t.frow, ts)
        BY <4>1
      <4> HIDE DEF ts, es
      <4>5. Kepts(es, ts)
        BY <4>2, <4>3 DEF Kepts
      <4>6. QED BY <4>4, <4>5
    <3>6. content.json /\ m + 1 >= t.n_rows
      BY <1>4, <3>1, <3>2
    <3>7. output' = Written(t.frow, es)
      BY <3>4, <3>6 DEF ExtractMap, elems
    <3> HIDE DEF es
    <3>8. Stores(t, es)
      BY <1>6, <3>3, <3>5, <3>7
    <3>9. QED BY <3>3, <3>8 DEF t
  <2>5. CASE ~ conf.use_cache
    <3>1. mr \in 0..Len(elems) /\ mr <= t.n_rows
      BY <1>4, <2>2 DEF Min2
    <3>2. esr \in Seq(Storable) /\ Len(esr) = mr
      BY <2>1, <3>1, Prefix
    <3>3. ExtractRows(t, content)
      BY <1>7, <2>5 DEF CollectBatch, t, content
    <3>4. UNCHANGED cache
      BY <3>3 DEF ExtractRows
    <3>5. output' = Nulled(Written(t.frow, esr), (t.frow + mr + 1)..(t.frow + t.n_rows))
      BY <3>3 DEF ExtractRows, elems
    <3> HIDE DEF esr, mr
    <3>6. cache' = Cached(t.frow, esr)
      BY <2>5, <3>4 DEF Cached
    <3>7. Stores(t, esr)
      BY <1>12, <2>5, <3>1, <3>2, <3>5, <3>6 DEF Stores
    <3>8. QED BY <3>2, <3>7 DEF t
  <2>6. QED BY <2>4, <2>5
<1>8. CASE CollectRows
  <2> DEFINE es == RowElems(t)
  <2>1. es \in Seq(Storable) /\ Len(es) = t.n_rows
    BY <1>1, <1>8, RowElemsType DEF CollectRows
  <2>2. cache' = Cached(t.frow, es) /\ output' = Written(t.frow, es)
    BY <1>8 DEF CollectRows
  <2> HIDE DEF es, t
  <2>3. Stores(t, es)
    BY <1>6, <1>12, <2>1, <2>2
  <2>4. QED BY <2>1, <2>3 DEF t
<1>9. CASE CollectRetry /\ Success(t)
  <2> DEFINE es == <<t.outputs[1].elems[1]>>
  <2>1. t.call = "PredictOne" /\ t.outputs[1].elems[1] \in Storable
    BY <1>1, <1>9, RetryElem DEF CollectRetry
  <2>2. t.n_rows = 1
    BY <1>2, <2>1 DEF RequestInv
  <2>3. es \in Seq(Storable) /\ Len(es) = t.n_rows
    BY <2>1, <2>2
  <2>4. cache' = Cached(t.frow, es) /\ output' = Written(t.frow, es)
    BY <1>9 DEF CollectRetry
  <2> HIDE DEF es, t
  <2>5. Stores(t, es)
    BY <1>6, <1>12, <2>3, <2>4
  <2>6. QED BY <2>3, <2>5 DEF t
<1>10. CASE CollectRetry /\ ~ Success(t)
  <2>1. UNCHANGED <<output, cache>> /\ pc = "recollect"
    BY <1>10 DEF CollectRetry, Getting
  <2>2. Single(t)
    BY <1>2, <2>1 DEF RequestInv, Single
  <2>3. "nocontent" \in Lax
    BY <1>3, <1>10, <2>2 DEF ReplyInv, Success
  <2>4. QED BY <2>1, <2>3
<1>11. QED BY <1>7, <1>8, <1>9, <1>10

\* A row of one of the request's positions is written, every other row is left alone.
LEMMA StoredCells ==
  ASSUME IInv, NEW t \in Tasks,
         NEW es \in Seq(Storable), Stores(t, es), NEW r \in DOMAIN output
  PROVE  /\ DOMAIN output' = DOMAIN output
         /\ (\E p \in Span(t) : r \in RowsAt(p)) => output'[r] # Unset
         /\ ~ (\E p \in Span(t) : r \in RowsAt(p)) => output'[r] = output[r]
<1> DEFINE m == Len(es)
           w == Written(t.frow, es)
           rest == (t.frow + m + 1)..(t.frow + t.n_rows)
<1>1. /\ t.frow \in Nat /\ t.n_rows \in Nat /\ m \in Nat /\ DOMAIN es = 1..m /\ m <= t.n_rows
      /\ TypeOK
  BY DEF Tasks, Stores, IInv
<1>2. output' = Nulled(w, rest) /\ DOMAIN w = DOMAIN output
  BY DEF Stores, Written
<1>3. DOMAIN output' = DOMAIN output /\ output'[r] = IF r \in rest THEN Null ELSE w[r]
  <2> HIDE DEF w, rest
  <2>1. QED BY <1>2 DEF Nulled
<1>4. Null # Unset
  BY MarksAssumption
<1>5. (\E j \in DOMAIN es : r \in RowsAt(t.frow + j)) => w[r] # Unset
  <2>1. SUFFICES ASSUME \E j \in DOMAIN es : r \in RowsAt(t.frow + j)
                 PROVE  w[r] # Unset
    OBVIOUS
  <2>2. PICK j \in DOMAIN es : j = CHOOSE i \in DOMAIN es : r \in RowsAt(t.frow + i)
    BY <2>1
  <2>3. w[r] = Cell(es[j])
    BY <2>1, <2>2 DEF Written
  <2>4. es[j] \in Storable
    OBVIOUS
  <2>5. QED BY <2>3, <2>4, CellType
<1>6. ~ (\E j \in DOMAIN es : r \in RowsAt(t.frow + j)) => w[r] = output[r]
  BY DEF Written
<1>7. \A j \in 1..m : t.frow + j \in Span(t)
  BY <1>1 DEF Span
<1> HIDE DEF w
<1>8. ASSUME NEW p \in Span(t), r \in RowsAt(p)
      PROVE  output'[r] # Unset
  <2> DEFINE j == p - t.frow
  <2>1. j \in 1..t.n_rows /\ t.frow + j = p
    BY <1>1 DEF Span
  <2> HIDE DEF j
  <2>2. CASE j <= m
    <3>1. j \in DOMAIN es /\ r \in RowsAt(t.frow + j)
      BY <1>1, <1>8, <2>1, <2>2
    <3>2. w[r] # Unset
      BY <1>5, <3>1
    <3>3. QED BY <1>3, <1>4, <3>2
  <2>3. CASE ~ (j <= m)
    <3>1. ~ conf.use_cache
      BY <1>1, <2>1, <2>3 DEF Stores
    <3>2. r = p
      BY <1>8, <3>1 DEF RowsAt
    <3>3. r \in rest
      BY <1>1, <2>1, <2>3, <3>2
    <3>4. QED BY <1>3, <1>4, <3>3
  <2>4. QED BY <2>2, <2>3
<1>9. ASSUME \A p \in Span(t) : r \notin RowsAt(p)
      PROVE  output'[r] = output[r]
  <2>1. w[r] = output[r]
    <3>1. ~ \E j \in DOMAIN es : r \in RowsAt(t.frow + j)
      BY <1>1, <1>7, <1>9
    <3>2. QED BY <1>6, <3>1
  <2>2. r \notin rest
    <3>1. CASE conf.use_cache
      <4>1. m = t.n_rows
        BY <3>1 DEF Stores
      <4>2. rest = {}
        BY <1>1, <4>1
      <4>3. QED BY <4>2
    <3>2. CASE ~ conf.use_cache
      <4>1. SUFFICES ASSUME r \in rest
                     PROVE  FALSE
        OBVIOUS
      <4>2. r \in Span(t) /\ RowsAt(r) = {r}
        BY <1>1, <3>2, <4>1 DEF Span, RowsAt
      <4>3. QED BY <1>9, <4>2
    <3>3. QED BY <3>1, <3>2
  <2>3. QED BY <1>3, <2>1, <2>2
<1>10. QED BY <1>3, <1>8, <1>9

\* With the cache, an entry changes where a row does, and rows of one prompt change alike.
LEMMA StoredCache ==
  ASSUME IInv, OrderInv, conf.use_cache, NEW t \in Tasks, t.frow + t.n_rows <= Len(unprocessed),
         NEW es \in Seq(Storable), Stores(t, es)
  PROVE  /\ \A p \in Prompts : (\A q \in Span(t) : unprocessed[q] # p) => cache'[p] = cache[p]
         /\ \A r \in DOMAIN output :
               \/ \E e, x \in Storable : /\ cache'[input[r]] = x /\ output'[r] = Cell(e)
                                         /\ x = e \/ (conf.use_batch /\ x = Blank)
               \/ cache'[input[r]] = cache[input[r]] /\ output'[r] = output[r]
         /\ \A r, s \in DOMAIN output : input[r] = input[s] =>
               \/ output'[r] = output'[s]
               \/ output'[r] = output[r] /\ output'[s] = output[s]
<1>1. /\ t.frow \in Nat /\ t.n_rows \in Nat /\ Len(unprocessed) \in Nat
      /\ Len(es) = t.n_rows /\ DOMAIN es = 1..t.n_rows
      /\ DOMAIN unprocessed = 1..Len(unprocessed)
      /\ \A r \in DOMAIN output : r \in DOMAIN input /\ input[r] \in Prompts
  BY DEF Tasks, Stores, IInv, TypeOK
<1>2. PICK ts : Kepts(es, ts) /\ cache' = Cached(t.frow, ts)
  BY DEF Stores
<1>20. /\ DOMAIN ts = DOMAIN es
       /\ \A j \in DOMAIN es : /\ ts[j] \in Storable
                               /\ ts[j] = es[j] \/ (conf.use_batch /\ ts[j] = Blank)
  BY <1>2 DEF Kepts
<1>3. output' = Written(t.frow, es)
  <2>1. t.frow + Len(es) + 1 \in Nat /\ t.frow + t.n_rows \in Nat
        /\ t.frow + t.n_rows < t.frow + Len(es) + 1
    BY <1>1
  <2>2. QED BY <1>1, <2>1, NulledNone DEF Stores
<1>4. \A j \in DOMAIN es : t.frow + j \in Span(t) /\ t.frow + j \in DOMAIN unprocessed
  BY <1>1 DEF Span
<1>5. \A p, q \in DOMAIN unprocessed : unprocessed[p] = unprocessed[q] => p = q
  BY DEF OrderInv
<1>6. ASSUME NEW p \in Prompts, \A q \in Span(t) : unprocessed[q] # p
      PROVE  cache'[p] = cache[p]
  <2>1. ~ \E j \in DOMAIN ts : unprocessed[t.frow + j] = p
    BY <1>4, <1>6, <1>20
  <2>2. QED BY <1>2, <2>1 DEF Cached
<1>7. ASSUME NEW r \in DOMAIN output
      PROVE  /\ \A j \in DOMAIN es : unprocessed[t.frow + j] = input[r] =>
                   cache'[input[r]] = ts[j] /\ output'[r] = Cell(es[j])
             /\ ~ (\E j \in DOMAIN es : unprocessed[t.frow + j] = input[r]) =>
                   cache'[input[r]] = cache[input[r]] /\ output'[r] = output[r]
  <2>1. input[r] \in Prompts /\ \A q : r \in RowsAt(q) <=> unprocessed[q] = input[r]
    BY <1>1 DEF RowsAt, TupleIds
  <2>2. ASSUME NEW j \in DOMAIN es, unprocessed[t.frow + j] = input[r]
        PROVE  cache'[input[r]] = ts[j] /\ output'[r] = Cell(es[j])
    <3>1. PICK i \in DOMAIN ts : i = CHOOSE k \in DOMAIN ts : unprocessed[t.frow + k] = input[r]
      BY <1>20, <2>2
    <3>2. unprocessed[t.frow + i] = input[r]
      BY <1>20, <2>2, <3>1
    <3>3. cache'[input[r]] = ts[i]
      BY <1>2, <1>20, <2>1, <2>2, <3>1 DEF Cached
    <3>4. \E k \in DOMAIN es : r \in RowsAt(t.frow + k)
      BY <2>1, <2>2
    <3>5. PICK k \in DOMAIN es : k = CHOOSE n \in DOMAIN es : r \in RowsAt(t.frow + n)
      BY <3>4
    <3>6. r \in RowsAt(t.frow + k)
      BY <3>4, <3>5
    <3>7. t.frow + k = t.frow + j /\ t.frow + i = t.frow + j
      BY <1>4, <1>5, <1>20, <2>1, <2>2, <3>2, <3>6
    <3>8. k = j /\ i = j
      <4>1. k \in Nat /\ j \in Nat /\ i \in Nat /\ t.frow \in Nat
        BY <1>1, <1>20
      <4>2. QED BY <3>7, <4>1
    <3>9. output'[r] = Cell(es[j])
      BY <1>3, <3>4, <3>5, <3>8 DEF Written
    <3>10. QED BY <3>3, <3>8, <3>9
  <2>3. ASSUME ~ \E j \in DOMAIN es : unprocessed[t.frow + j] = input[r]
        PROVE  cache'[input[r]] = cache[input[r]] /\ output'[r] = output[r]
    <3>1. cache'[input[r]] = cache[input[r]]
      BY <1>2, <1>20, <2>1, <2>3 DEF Cached
    <3>2. ~ \E j \in DOMAIN es : r \in RowsAt(t.frow + j)
      BY <2>1, <2>3
    <3>3. output'[r] = output[r]
      BY <1>3, <3>2 DEF Written
    <3>4. QED BY <3>1, <3>3
  <2>4. QED BY <2>2, <2>3
<1>8. ASSUME NEW r \in DOMAIN output
      PROVE  \/ \E e, x \in Storable : /\ cache'[input[r]] = x /\ output'[r] = Cell(e)
                                       /\ x = e \/ (conf.use_batch /\ x = Blank)
             \/ cache'[input[r]] = cache[input[r]] /\ output'[r] = output[r]
  <2>1. CASE \E j \in DOMAIN es : unprocessed[t.frow + j] = input[r]
    <3>1. PICK j \in DOMAIN es : unprocessed[t.frow + j] = input[r]
      BY <2>1
    <3>2. es[j] \in Storable
      OBVIOUS
    <3>3. QED BY <1>7, <1>20, <3>1, <3>2
  <2>2. QED BY <1>7, <2>1
<1>9. ASSUME NEW r \in DOMAIN output, NEW s \in DOMAIN output, input[r] = input[s]
      PROVE  \/ output'[r] = output'[s]
             \/ output'[r] = output[r] /\ output'[s] = output[s]
  <2>1. CASE \E j \in DOMAIN es : unprocessed[t.frow + j] = input[r]
    <3>1. PICK j \in DOMAIN es : unprocessed[t.frow + j] = input[r]
      BY <2>1
    <3>2. QED BY <1>7, <1>9, <3>1
  <2>2. QED BY <1>7, <1>9, <2>1
<1>10. QED BY <1>6, <1>8, <1>9

\* A row of an open position is unwritten.
LEMMA OpenRows ==
  ASSUME IInv, OpenInv, ShownInv, Aligned, NEW p \in DOMAIN unprocessed, Open(p),
         NEW r \in DOMAIN output, r \in RowsAt(p)
  PROVE  output[r] = Unset
<1>1. CASE conf.use_cache
  <2>1. input[r] = unprocessed[p]
    BY <1>1 DEF RowsAt, TupleIds
  <2>2. cache[input[r]] = None
    BY <1>1, <2>1 DEF OpenInv
  <2>3. QED BY <1>1, <2>2 DEF ShownInv
<1>2. CASE ~ conf.use_cache
  <2>1. r = p
    BY <1>2 DEF RowsAt
  <2>2. QED BY <1>2, <2>1 DEF OpenInv
<1>3. QED BY <1>1, <1>2

\* What ShownInv says of a row's cell and its prompt's entry.
Shown(cell, text) == IF text = None THEN cell = Unset ELSE ShowsEntry(cell, text)

\* Nothing is written twice, and what is collected closes what it writes.
LEMMA CollectOnce ==
  ASSUME IInv, OnceInv, Aligned, CollectBatch \/ CollectRows \/ CollectRetry
  PROVE  /\ OpenInv' /\ ShownInv' /\ UnsetInv'
         /\ \A r \in DOMAIN output : output[r] # Unset => output'[r] = output[r]
<1> DEFINE t == Current
<1>1. /\ Kept /\ UNCHANGED <<pc, next, futures, batch_fails>> /\ pc \in Working
      /\ run < Len(futures)
  BY DEF CollectBatch, CollectRows, CollectRetry, Counted, Getting, Kept, queryVars, chunkVars,
         Working
<1>2. TypeOK /\ Requests /\ OrderInv /\ ReplyInvs /\ OpenInv /\ ShownInv /\ UnsetInv
  BY DEF IInv, Requests, OnceInv, ReplyInvs
<1>3. /\ t \in Tasks /\ RequestInv(t)
      /\ t.frow + t.n_rows <= Len(unprocessed)
  BY <1>1, <1>2, CurrentRequest DEF RequestInv
<1>4. t.frow \in Nat /\ t.n_rows \in Nat /\ Len(unprocessed) \in Nat
      /\ DOMAIN unprocessed = 1..Len(unprocessed)
  BY <1>2, <1>3 DEF Tasks, TypeOK
<1>5. Span(t) \subseteq DOMAIN unprocessed
  BY <1>3, <1>4 DEF Span
<1>6. \A p \in DOMAIN unprocessed : /\ Open(p)' <=> Open(p) /\ p \notin Span(t)
                                    /\ p \in Span(t) => Open(p)
  BY <1>2, OpenCollect
<1>7. /\ Aligned' /\ \A p : RowsAt(p)' = RowsAt(p)
      /\ \A p : Failed(p)' = Failed(p)
  BY <1>1 DEF Kept, Aligned, RowsAt, TupleIds, Failed
<1> HIDE DEF t
<1>8. CASE \E es \in Seq(Storable) : Stores(t, es)
  <2>1. PICK es \in Seq(Storable) : Stores(t, es)
    BY <1>8
  <2>2. /\ DOMAIN output' = DOMAIN output
        /\ \A r \in DOMAIN output :
              /\ (\E p \in Span(t) : r \in RowsAt(p)) => output'[r] # Unset
              /\ ~ (\E p \in Span(t) : r \in RowsAt(p)) => output'[r] = output[r]
    <3>1. DOMAIN output' = DOMAIN output
      BY <2>1 DEF Stores, Written, Nulled
    <3>2. QED BY <1>3, <2>1, <3>1, StoredCells
  <2>3. ASSUME NEW r \in DOMAIN output, output[r] # Unset
        PROVE  output'[r] = output[r]
    <3>1. SUFFICES ASSUME NEW p \in Span(t), r \in RowsAt(p)
                   PROVE  FALSE
      BY <2>2
    <3>2. p \in DOMAIN unprocessed /\ Open(p)
      BY <1>5, <1>6
    <3>3. output[r] = Unset
      BY <1>2, <3>1, <3>2, OpenRows
    <3>4. QED BY <2>3, <3>3
  <2>4. ASSUME NEW p \in DOMAIN unprocessed, Open(p), p \notin Span(t)
        PROVE  IF conf.use_cache THEN cache'[unprocessed[p]] = None ELSE output'[p] = Unset
    <3>1. CASE conf.use_cache
      <4>1. cache[unprocessed[p]] = None /\ unprocessed[p] \in Prompts
        BY <1>2, <2>4, <3>1 DEF OpenInv, TypeOK
      <4>2. \A q \in Span(t) : unprocessed[q] # unprocessed[p]
        BY <1>2, <1>5, <2>4, <3>1 DEF OrderInv
      <4>3. cache'[unprocessed[p]] = cache[unprocessed[p]]
        BY <1>2, <1>3, <2>1, <3>1, <4>1, <4>2, StoredCache
      <4>4. QED BY <3>1, <4>1, <4>3
    <3>2. CASE ~ conf.use_cache
      <4>1. unprocessed = input /\ DOMAIN output = DOMAIN input
        BY <1>1, <1>2, <3>2 DEF IInv, ListInv, TypeOK
      <4>2. p \in DOMAIN output /\ output[p] = Unset
        BY <1>2, <2>4, <3>2, <4>1 DEF OpenInv
      <4>3. \A q \in Span(t) : p \notin RowsAt(q)
        BY <2>4, <3>2 DEF RowsAt
      <4>4. QED BY <2>2, <3>2, <4>2, <4>3
    <3>3. QED BY <3>1, <3>2
  <2>5. OpenInv'
    BY <1>1, <1>6, <2>4 DEF OpenInv, Kept
  <2>6. ShownInv'
    <3>1. SUFFICES ASSUME conf.use_cache
                   PROVE  /\ \A r \in DOMAIN output : Shown(output'[r], cache'[input[r]])
                          /\ \A r, s \in DOMAIN output : input[r] = input[s] => output'[r] = output'[s]
      BY <1>1, <2>2 DEF ShownInv, Shown, ShowsEntry, Kept
    <3>2. /\ \A r \in DOMAIN output : Shown(output[r], cache[input[r]])
          /\ \A r, s \in DOMAIN output : input[r] = input[s] => output[r] = output[s]
      BY <1>2, <3>1 DEF ShownInv, Shown
    <3>3. ASSUME NEW r \in DOMAIN output
          PROVE  Shown(output'[r], cache'[input[r]])
      <4>1. CASE \E e, x \in Storable : /\ cache'[input[r]] = x /\ output'[r] = Cell(e)
                                        /\ x = e \/ (conf.use_batch /\ x = Blank)
        <5>1. PICK e, x \in Storable : /\ cache'[input[r]] = x /\ output'[r] = Cell(e)
                                       /\ x = e \/ (conf.use_batch /\ x = Blank)
          BY <4>1
        <5>2. x # None /\ Cell(e) # Unset
          BY MarksAssumption, CellType DEF Storable
        <5>3. Cell(Blank) = Null
          BY DEF Cell
        <5>4. QED BY <5>1, <5>2, <5>3 DEF Shown, ShowsEntry
      <4>2. CASE cache'[input[r]] = cache[input[r]] /\ output'[r] = output[r]
        BY <3>2, <4>2 DEF Shown
      <4>3. QED BY <1>2, <1>3, <2>1, <3>1, <4>1, <4>2, StoredCache
    <3>4. ASSUME NEW r \in DOMAIN output, NEW s \in DOMAIN output, input[r] = input[s]
          PROVE  output'[r] = output'[s]
      BY <1>2, <1>3, <2>1, <3>1, <3>2, <3>4, StoredCache
    <3>5. QED BY <3>3, <3>4
  <2>7. UnsetInv'
    <3>1. SUFFICES ASSUME NEW r \in DOMAIN output, output'[r] = Unset
                   PROVE  \E p \in DOMAIN unprocessed :
                             r \in RowsAt(p) /\ (Open(p)' \/ ("nocontent" \in Lax /\ Failed(p)))
      BY <1>1, <1>7, <2>2 DEF UnsetInv, Kept
    <3>2. output[r] = Unset
      BY <2>3, <3>1
    <3>3. PICK p \in DOMAIN unprocessed :
             r \in RowsAt(p) /\ (Open(p) \/ ("nocontent" \in Lax /\ Failed(p)))
      BY <1>1, <1>2, <3>2 DEF UnsetInv
    <3>4. p \notin Span(t)
      BY <2>2, <3>1, <3>3
    <3>5. QED BY <1>6, <3>3, <3>4
  <2>8. QED BY <2>3, <2>5, <2>6, <2>7
<1>9. CASE UNCHANGED <<output, cache>> /\ "nocontent" \in Lax /\ pc = "recollect"
  <2>1. OpenInv'
    BY <1>1, <1>2, <1>6, <1>7, <1>9 DEF OpenInv, Kept
  <2>2. ShownInv'
    BY <1>1, <1>2, <1>7, <1>9 DEF ShownInv, ShowsEntry, Kept
  <2>3. \A p \in Span(t) : Failed(p)
    <3>1. run + 1 \in DOMAIN futures /\ t = futures[run + 1] /\ run + 1 \in Nat /\ next \in Nat
          /\ run + 1 \in 1..Len(futures) /\ Len(futures) \in Nat /\ Len(batch_fails) \in Nat
          /\ DOMAIN batch_fails = 1..Len(batch_fails) /\ conf.n_threads \in Nat
      BY <1>1, <1>2, ImpFacts DEF TypeOK, t, Current
    <3>2. t.n_rows = 1
      BY <1>3, <1>9 DEF RequestInv
    <3>3. t.frow + 1 = batch_fails[next + (run + 1)]
          /\ Len(futures) = WaveSize(next, Len(batch_fails), conf.n_threads)
      BY <1>2, <1>9, <3>1 DEF OrderInv
    <3>4. next + (run + 1) \in DOMAIN batch_fails
      <4>1. next + Len(futures) <= Len(batch_fails)
        BY <3>1, <3>3, WaveEnds
      <4>2. QED BY <3>1, <4>1
    <3>5. Span(t) = {t.frow + 1}
      BY <1>4, <3>2 DEF Span
    <3>6. QED BY <3>3, <3>4, <3>5 DEF Failed
  <2>4. UnsetInv'
    <3>1. SUFFICES ASSUME NEW r \in DOMAIN output, output[r] = Unset
                   PROVE  \E p \in DOMAIN unprocessed :
                             r \in RowsAt(p) /\ (Open(p)' \/ ("nocontent" \in Lax /\ Failed(p)))
      BY <1>1, <1>7, <1>9 DEF UnsetInv, Kept
    <3>2. PICK p \in DOMAIN unprocessed :
             r \in RowsAt(p) /\ (Open(p) \/ ("nocontent" \in Lax /\ Failed(p)))
      BY <1>1, <1>2, <3>1 DEF UnsetInv
    <3>3. QED BY <1>6, <1>9, <2>3, <3>2
  <2>5. QED BY <1>9, <2>1, <2>2, <2>4
<1>10. (\E es \in Seq(Storable) : Stores(t, es))
       \/ (UNCHANGED <<output, cache>> /\ "nocontent" \in Lax /\ pc = "recollect")
  BY <1>2, Collected DEF t
<1>11. QED BY <1>8, <1>9, <1>10
-----------------------------------------------------------------------------
(* OnceInv is preserved. *)

\* A new chunk: everything that is asked is open, and everything that is open is asked.
LEMMA BeginOnce ==
  ASSUME IInv, BeginChunk
  PROVE  OpenInv' /\ ShownInv' /\ UnsetInv'
<1> USE DEF waveVars
<1> DEFINE Chunk(n, in) ==
              /\ input' = in
              /\ output' = [r \in 1..n |->
                              IF conf.use_cache /\ cache[in[r]] # None
                              THEN Cell(cache[in[r]]) ELSE Unset]
              /\ unprocessed' \in ToAsk(in)
<1>1. PICK n \in 1..MaxRows : \E in \in [1..n -> Prompts] : Chunk(n, in)
  BY DEF BeginChunk
<1>2. PICK in \in [1..n -> Prompts] : Chunk(n, in)
  BY <1>1
<1>3. n \in Nat
  BY BoundsAssumption
<1>4. /\ UNCHANGED <<conf, cache>> /\ pc' = "launch"
      /\ futures' = <<>> /\ batch_fails' = <<>> /\ next' = 0
      /\ TypeOK
  BY DEF BeginChunk, IInv, AtRest, Working
<1>5. /\ DOMAIN output' = 1..n /\ DOMAIN input' = 1..n
      /\ \A r \in 1..n : /\ input'[r] = in[r] /\ in[r] \in Prompts
                         /\ output'[r] = IF conf.use_cache /\ cache[in[r]] # None
                                         THEN Cell(cache[in[r]]) ELSE Unset
  BY <1>2
<1>6. conf.use_cache =>
         /\ \A p \in DOMAIN unprocessed' : cache[unprocessed'[p]] = None
         /\ \A r \in 1..n : cache[in[r]] = None => \E p \in DOMAIN unprocessed' : unprocessed'[p] = in[r]
  BY <1>2, <1>3, ToAskOnce
<1>7. ~ conf.use_cache => unprocessed' = in
  BY <1>2 DEF ToAsk
<1>8. unprocessed' \in Seq(Prompts)
  BY <1>2, <1>3, <1>4, ToAskType
<1>9. Front' = 0
  <2>1. Len(unprocessed') \in Nat /\ conf.n_threads \in Nat \ {0} /\ conf.batch_size \in Nat \ {0}
    BY <1>4, <1>8, ConfType DEF TypeOK
  <2>2. Imp' \in Nat
    BY <1>4, <2>1, ImpPositive DEF Imp
  <2>3. next' + Len(futures') = 0
    BY <1>4
  <2>4. Front' = 0 * Imp'
    BY <2>3 DEF Front, FirstRow
  <2>5. \A i \in Nat : 0 * i = 0
    OBVIOUS
  <2>6. QED BY <2>2, <2>4, <2>5
<1>10. \A p \in DOMAIN unprocessed' : Open(p)'
  BY <1>4, <1>8, <1>9 DEF Open
<1>11. OpenInv'
  BY <1>4, <1>5, <1>6, <1>7 DEF OpenInv
<1>12. ShownInv'
  <2>1. ASSUME NEW r \in 1..n, conf.use_cache
        PROVE  IF cache[in[r]] = None THEN output'[r] = Unset
               ELSE output'[r] = Cell(cache[in[r]])
    BY <1>5, <2>1
  <2>2. ASSUME NEW r \in 1..n, NEW s \in 1..n, in[r] = in[s]
        PROVE  output'[r] = output'[s]
    BY <1>5, <2>2
  <2>3. QED BY <1>4, <1>5, <2>1, <2>2 DEF ShownInv, ShowsEntry
<1>13. UnsetInv'
  <2>1. SUFFICES ASSUME NEW r \in 1..n, output'[r] = Unset
                 PROVE  \E p \in DOMAIN unprocessed' : r \in RowsAt(p)'
    BY <1>5, <1>10 DEF UnsetInv
  <2>2. CASE conf.use_cache
    <3>1. cache[in[r]] = None
      <4>1. SUFFICES ASSUME cache[in[r]] # None
                     PROVE  FALSE
        OBVIOUS
      <4>2. cache[in[r]] \in Storable
        BY <1>4, <1>5, <4>1 DEF TypeOK
      <4>3. output'[r] = Cell(cache[in[r]])
        BY <1>5, <2>2, <4>1
      <4>4. QED BY <2>1, <4>2, <4>3, CellType
    <3>2. PICK p \in DOMAIN unprocessed' : unprocessed'[p] = in[r]
      BY <1>6, <2>2, <3>1
    <3>3. QED BY <1>4, <1>5, <2>2, <3>2 DEF RowsAt, TupleIds
  <2>3. CASE ~ conf.use_cache
    BY <1>4, <1>7, <2>3 DEF RowsAt
  <2>4. QED BY <2>2, <2>3
<1>14. QED BY <1>11, <1>12, <1>13

\* Steps that leave the cells, the cache and what is open alone.
LEMMA SameOnce ==
  ASSUME OpenInv, ShownInv, UnsetInv, Kept, UNCHANGED <<output, cache>>,
         pc \in Working /\ pc' \in Working,
         \A p \in DOMAIN unprocessed : Open(p)' <=> Open(p),
         \A p : Failed(p) => Failed(p)'
  PROVE  OpenInv' /\ ShownInv' /\ UnsetInv'
<1>1. /\ Aligned' <=> Aligned
      /\ \A p : RowsAt(p)' = RowsAt(p)
  BY DEF Kept, Aligned, RowsAt, TupleIds
<1>2. OpenInv' /\ ShownInv'
  BY <1>1 DEF OpenInv, ShownInv, ShowsEntry, Kept
<1>3. UnsetInv'
  BY <1>1 DEF UnsetInv, Kept
<1>4. QED BY <1>2, <1>3

\* The chunk is over or being left: nothing is open any more.
LEMMA LeftOnce ==
  ASSUME OpenInv, ShownInv, UNCHANGED <<conf, input, output, cache>>, pc' \notin Working,
         \A p \in DOMAIN unprocessed' :
            p \in DOMAIN unprocessed /\ unprocessed'[p] = unprocessed[p] /\ (Open(p)' => Open(p))
  PROVE  OpenInv' /\ ShownInv' /\ UnsetInv'
<1>1. Aligned' <=> Aligned
  BY DEF Aligned
<1>2. OpenInv' /\ ShownInv'
  BY <1>1 DEF OpenInv, ShownInv, ShowsEntry
<1>3. UnsetInv'
  BY DEF UnsetInv
<1>4. QED BY <1>2, <1>3

LEMMA FailedGrows ==
  ASSUME TypeOK, Requests, CollectFailedBatch, NEW p, Failed(p)
  PROVE  Failed(p)'
<1>1. PICK i \in DOMAIN batch_fails : batch_fails[i] = p
  BY DEF Failed
<1>2. Current \in Tasks
  BY CurrentRequest DEF CollectFailedBatch, Getting
<1>3. Current.frow \in Nat /\ Current.n_rows \in Nat
  BY <1>2 DEF Tasks
<1> DEFINE P == Positions(Current)
<1>4. P \in Seq(Nat) /\ batch_fails \in Seq(Nat)
  <2>1. P \in Seq(Nat)
    BY <1>3 DEF Positions
  <2>2. batch_fails \in Seq(Nat)
    BY DEF TypeOK
  <2>3. QED BY <2>1, <2>2
<1>5. batch_fails' = batch_fails \o P
  BY DEF CollectFailedBatch
<1> HIDE DEF P
<1>6. i \in DOMAIN (batch_fails \o P) /\ (batch_fails \o P)[i] = batch_fails[i]
  BY <1>4
<1>7. QED BY <1>1, <1>5, <1>6 DEF Failed

LEMMA StateStep ==
  ASSUME IInv, OnceInv, [Next]_vars
  PROVE  OpenInv' /\ ShownInv' /\ UnsetInv'
<1> USE DEF queryVars, chunkVars, waveVars, Working
<1>1. TypeOK /\ Requests /\ AtRest /\ OrderInv /\ ReplyInvs /\ OpenInv /\ ShownInv /\ UnsetInv
  BY DEF IInv, Requests, OnceInv, ReplyInvs
<1>2. CASE StartQuery
  <2>1. unprocessed' = <<>> /\ output' = <<>> /\ pc' = "idle"
    BY <1>1, <1>2 DEF StartQuery, AtRest
  <2>2. QED BY <2>1 DEF OpenInv, ShownInv, UnsetInv
<1>3. CASE EndQuery \/ Crash \/ Unwind \/ FinishChunk
  <2>1. /\ UNCHANGED <<conf, input, output, cache>> /\ unprocessed' = <<>>
        /\ pc' \in {"none", "idle", "aborted", "crashed"}
    BY <1>1, <1>3 DEF EndQuery, Crash, Unwind, FinishChunk, AtRest
  <2>2. QED BY <1>1, <2>1, LeftOnce
<1>4. CASE Rethrow \/ CollectThrows
  <2>1. UNCHANGED <<conf, input, output, cache, unprocessed>> /\ pc' = "unwind"
    BY <1>4 DEF Rethrow, CollectThrows
  <2>2. \A p : Open(p)' => Open(p)
    BY <1>4, OpenUnwind
  <2>3. QED BY <1>1, <2>1, <2>2, LeftOnce
<1>5. CASE CollectFailedBatch
  <2>1. Kept /\ UNCHANGED <<output, cache, pc>> /\ pc = "collect"
    BY <1>5 DEF CollectFailedBatch, Getting, Kept
  <2>2. \A p \in DOMAIN unprocessed : Open(p)' <=> Open(p)
    BY <1>1, <1>5, OpenFailed
  <2>3. \A p : Failed(p) => Failed(p)'
    BY <1>1, <1>5, FailedGrows
  <2>4. QED BY <1>1, <2>1, <2>2, <2>3, SameOnce
<1>6. CASE LaunchWave \/ LaunchRetries \/ EndWave \/ BeginRetries \/ EndRetryWave
  <2>1. /\ Kept /\ UNCHANGED <<output, cache, batch_fails>>
        /\ pc \in {"launch", "collect", "relaunch", "recollect"}
        /\ pc' \in {"launch", "collect", "relaunch", "recollect"}
    BY <1>6 DEF LaunchWave, LaunchRetries, EndWave, BeginRetries, EndRetryWave, Kept
  <2>2. \A p \in DOMAIN unprocessed : Open(p)' <=> Open(p)
    BY <1>1, <1>6, OpenLaunch, OpenRetries, OpenEnd
  <2>3. \A p : Failed(p) => Failed(p)'
    BY <2>1 DEF Failed
  <2>4. QED BY <1>1, <2>1, <2>2, <2>3, SameOnce
<1>7. CASE Endpoint \/ UNCHANGED vars
  <2>1. Kept /\ UNCHANGED <<output, cache, pc, batch_fails>>
    BY <1>1, <1>7, EndpointStep DEF Answered, Kept, vars
  <2>2. \A p \in DOMAIN unprocessed : Open(p)' <=> Open(p)
    <3>1. CASE Endpoint
      BY <1>1, <3>1, OpenEndpoint
    <3>2. CASE UNCHANGED vars
      <4>1. Front' = Front /\ UNCHANGED <<pc, futures, run, next, batch_fails>>
        BY <2>1, <3>2, KeptImp DEF Front, vars
      <4>2. QED BY <4>1 DEF Open, Failed, Span
    <3>3. QED BY <1>7, <3>1, <3>2
  <2>3. /\ Aligned' <=> Aligned
        /\ \A p : RowsAt(p)' = RowsAt(p)
        /\ \A p : Failed(p)' <=> Failed(p)
    BY <2>1 DEF Kept, Aligned, RowsAt, TupleIds, Failed
  <2>4. QED BY <1>1, <2>1, <2>2, <2>3 DEF OpenInv, ShownInv, ShowsEntry, UnsetInv, Kept
<1>8. CASE CollectBatch \/ CollectRows \/ CollectRetry
  <2>1. CASE Aligned
    BY <1>8, <2>1, CollectOnce
  <2>2. CASE ~ Aligned
    <3>1. ~ Aligned'
      BY <1>8, <2>2 DEF CollectBatch, CollectRows, CollectRetry, Aligned
    <3>2. QED BY <3>1 DEF OpenInv, ShownInv, UnsetInv
  <2>3. QED BY <2>1, <2>2
<1>9. QED
  BY <1>2, <1>3, <1>4, <1>5, <1>6, <1>7, <1>8, BeginOnce DEF Next, Thread

\* What a launched request holds, a collected one keeps.
LEMMA ReplyStep ==
  ASSUME IInv, ReplyInvs, [Next]_vars
  PROVE  ReplyInvs'
<1> USE DEF queryVars, chunkVars, waveVars
<1>1. TypeOK /\ Requests /\ AtRest
  BY DEF IInv, Requests
<1>2. CASE futures' = <<>>
  BY <1>2 DEF ReplyInvs
<1>3. CASE UNCHANGED <<conf, futures>>
  BY <1>3 DEF ReplyInvs, ReplyInv, Single
<1>4. CASE LaunchWave \/ LaunchRetries
  <2>1. \A k \in DOMAIN futures' : futures'[k].outputs = <<>> /\ futures'[k].n_calls = 0
    BY <1>1, <1>4, WaveShape, RetryShape DEF Fresh
  <2>2. DOMAIN <<>> = {} /\ Len(<<>>) = 0
    OBVIOUS
  <2>3. QED BY <2>1, <2>2 DEF ReplyInvs, ReplyInv
<1>5. CASE Endpoint
  <2>1. DOMAIN futures' = DOMAIN futures /\ \A k \in DOMAIN futures : ReplyInv(futures'[k])
    BY <1>1, <1>5, EndpointStep
  <2>2. UNCHANGED conf
    BY <1>1, <1>5, EndpointStep DEF Answered
  <2>3. QED BY <2>1, <2>2 DEF ReplyInvs, ReplyInv, Single
<1>6. CASE \/ StartQuery \/ EndQuery \/ BeginChunk \/ Crash \/ EndWave \/ EndRetryWave
           \/ BeginRetries \/ FinishChunk \/ Unwind
  <2>1. futures' = <<>>
    BY <1>1, <1>6 DEF StartQuery, EndQuery, BeginChunk, Crash, EndWave, EndRetryWave,
                      BeginRetries, FinishChunk, Unwind, AtRest
  <2>2. QED BY <1>2, <2>1
<1>7. CASE \/ CollectFailedBatch \/ CollectBatch \/ CollectRows \/ CollectRetry \/ Rethrow
           \/ CollectThrows \/ UNCHANGED vars
  <2>1. UNCHANGED <<conf, futures>>
    BY <1>7 DEF CollectFailedBatch, CollectBatch, CollectRows, CollectRetry, Rethrow,
                CollectThrows, vars
  <2>2. QED BY <1>3, <2>1
<1>8. QED BY <1>4, <1>5, <1>6, <1>7 DEF Next, Thread

-----------------------------------------------------------------------------
(* Every call is counted once. *)

\* The calls of request k.
Calls(k) == {<<k, i>> : i \in 1..futures[k].n_calls}

LEMMA CallsOfOne ==
  ASSUME NEW k, NEW n \in Nat
  PROVE  /\ IsFiniteSet({<<k, i>> : i \in 1..n})
         /\ Cardinality({<<k, i>> : i \in 1..n}) = n
<1> DEFINE S == {<<k, i>> : i \in 1..n}
           f == [i \in 1..n |-> <<k, i>>]
<1>1. f \in Bijection(1..n, S)
  <2>1. f \in [1..n -> S]
    OBVIOUS
  <2>2. \A i, j \in 1..n : f[i] = f[j] => i = j
    OBVIOUS
  <2>3. \A x \in S : \E i \in 1..n : f[i] = x
    OBVIOUS
  <2> HIDE DEF f, S
  <2>4. f \in Injection(1..n, S)
    BY <2>1, <2>2 DEF Injection, IsInjective
  <2>5. f \in Surjection(1..n, S)
    BY <2>1, <2>3 DEF Surjection
  <2>6. QED BY <2>4, <2>5 DEF Bijection
<1> HIDE DEF f, S
<1>2. ExistsBijection(1..n, S)
  BY <1>1 DEF ExistsBijection
<1>3. IsFiniteSet(S)
  BY <1>2, FS_NatBijection
<1>4. Cardinality(S) = n
  BY <1>2, FS_CountingElements
<1>5. QED BY <1>3, <1>4 DEF S

LEMMA SumMoves ==
  ASSUME NEW a \in Nat, NEW b \in Nat, NEW c \in Nat, NEW d \in Nat, NEW p \in Nat, NEW q \in Nat,
         p = q + a + c, b + d = a + c
  PROVE  p = q + b + d
OBVIOUS

\* What is uncounted depends on the requests not collected only.
LEMMA UncountedIs ==
  Uncounted = UNION {Calls(k) : k \in (run + 1)..Len(futures)}
BY DEF Uncounted, Calls

\* Collecting a result counts its calls.
LEMMA CountsCollected ==
  ASSUME TypeOK, Requests, IsFiniteSet(Uncounted), run < Len(futures),
         Counted, UNCHANGED futures
  PROVE  /\ IsFiniteSet(Uncounted')
         /\ total_calls' + Cardinality(Uncounted') = total_calls + Cardinality(Uncounted)
         /\ total_calls' \in Nat
<1>1. /\ run \in Nat /\ Len(futures) \in Nat /\ total_calls \in Nat
      /\ Current \in Tasks
  BY CurrentRequest DEF TypeOK
<1>2. Current.n_calls \in Nat
  BY <1>1 DEF Tasks
<1>3. run' = run + 1 /\ total_calls' = total_calls + Current.n_calls /\ futures' = futures
  BY DEF Counted
<1> DEFINE B == {<<run + 1, i>> : i \in 1..Current.n_calls}
<1>4. B = Calls(run + 1)
  BY DEF Calls, Current
<1>5. Uncounted' = UNION {Calls(k) : k \in (run + 2)..Len(futures)}
  <2>1. Uncounted' = UNION {Calls(k)' : k \in (run' + 1)..Len(futures')}
    BY DEF Uncounted, Calls
  <2>2. \A k : Calls(k)' = Calls(k)
    BY <1>3 DEF Calls
  <2>3. (run' + 1)..Len(futures') = (run + 2)..Len(futures)
    BY <1>1, <1>3
  <2>4. QED BY <2>1, <2>2, <2>3
<1>6. Uncounted = Calls(run + 1) \cup Uncounted'
  <2>1. (run + 1)..Len(futures) = {run + 1} \cup (run + 2)..Len(futures)
    BY <1>1
  <2>2. QED BY <1>5, <2>1, UncountedIs
<1>7. Calls(run + 1) \cap Uncounted' = {}
  <2>1. \A k \in (run + 2)..Len(futures) : k # run + 1
    BY <1>1
  <2>2. \A k \in (run + 2)..Len(futures) : Calls(run + 1) \cap Calls(k) = {}
    BY <2>1 DEF Calls
  <2>3. QED BY <1>5, <2>2
<1>8. IsFiniteSet(B) /\ Cardinality(B) = Current.n_calls
  BY <1>2, CallsOfOne
<1>9. IsFiniteSet(Uncounted')
  BY <1>6, FS_Subset
<1>10. Cardinality(Uncounted) = Cardinality(B) + Cardinality(Uncounted') - Cardinality({})
  BY <1>4, <1>6, <1>7, <1>8, <1>9, FS_Union
<1>11. Cardinality(Uncounted') \in Nat /\ Cardinality({}) = 0
  BY <1>9, FS_CardinalityType, FS_EmptySet
<1> HIDE DEF B
<1>12. Cardinality(Uncounted) = Current.n_calls + Cardinality(Uncounted')
  BY <1>2, <1>8, <1>10, <1>11
<1>13. /\ total_calls + Current.n_calls \in Nat
       /\ (total_calls + Current.n_calls) + Cardinality(Uncounted')
             = total_calls + (Current.n_calls + Cardinality(Uncounted'))
  BY <1>1, <1>2, <1>11
<1>14. QED BY <1>3, <1>9, <1>12, <1>13

\* A request's step makes one call, or throws.
LEMMA OneCallMore ==
  ASSUME TypeOK, Requests, ReplyInvs, NEW l \in DOMAIN futures, Request(l)
  PROVE  /\ futures[l].status = "running" /\ futures[l].n_calls \in Nat
         /\ \/ futures'[l].status = "thrown" /\ futures'[l].n_calls = futures[l].n_calls
            \/ futures'[l].n_calls = futures[l].n_calls + 1
         /\ \A k \in DOMAIN futures : k # l => futures'[k] = futures[k]
         /\ DOMAIN futures' = DOMAIN futures /\ Len(futures') = Len(futures)
         /\ Answered
<1> DEFINE r == futures[l]
<1>1. futures \in Seq(Tasks) /\ r \in Tasks /\ RequestInv(r)
  BY DEF TypeOK, Requests
<1>2. r.n_calls \in Nat
  BY <1>1 DEF Tasks
<1>3. r.status = "running" /\ Answered
  BY EndpointReply, RequestStep
<1>4. PICK t \in Tasks : futures' = [futures EXCEPT ![l] = t]
  BY RequestStep
<1>5. futures'[l] = t
  BY <1>1, <1>4
<1>6. /\ (\A k \in DOMAIN futures : k # l => futures'[k] = futures[k])
      /\ DOMAIN futures' = DOMAIN futures /\ Len(futures') = Len(futures)
  BY <1>1, <1>4
<1>7. ASSUME NEW outs, RowReplied(l, outs)
       PROVE  t.n_calls = r.n_calls + 1
  BY <1>1, <1>5, <1>7 DEF RowReplied, Tasks
<1>8. ASSUME NEW outs, Finish(l, outs)
       PROVE  t.n_calls = 1
  BY <1>1, <1>5, <1>8 DEF Finish, Tasks
<1>9. CASE \E outs : Finish(l, outs)
  <2>1. ~ (RowAnswered(l) \/ RowWithoutContent(l) \/ Throw(l))
        => ~ Single(r) \/ r.call = "PredictOne"
    BY <1>1 DEF Request, BatchAnswered, BatchGarbled, BatchRefused, OneAnswered,
                OneWithoutContent, Running, Single
  <2>2. RowAnswered(l) \/ RowWithoutContent(l) => t.n_calls = r.n_calls + 1
    BY <1>7 DEF RowAnswered, RowWithoutContent
  <2>3. Throw(l) => t.n_calls = r.n_calls /\ t.status = "thrown"
    BY <1>1, <1>5 DEF Throw, Tasks
  <2>4. t.n_calls = 1
    BY <1>8, <1>9
  <2>5. ~ Single(r) \/ r.call = "PredictOne" => r.n_calls = 0
    BY <1>1, <1>2, <1>3 DEF RequestInv
  <2>6. t.n_calls = r.n_calls + 1 \/ (t.n_calls = r.n_calls /\ t.status = "thrown")
    BY <1>2, <2>1, <2>2, <2>3, <2>4, <2>5
  <2>7. QED BY <1>2, <1>3, <1>5, <1>6, <2>6
<1>10. CASE \E outs : RowReplied(l, outs)
  <2>1. t.n_calls = r.n_calls + 1
    BY <1>7, <1>10
  <2>2. QED BY <1>2, <1>3, <1>5, <1>6, <2>1
<1>11. CASE Throw(l)
  <2>1. t.status = "thrown" /\ t.n_calls = r.n_calls
    BY <1>1, <1>5, <1>11 DEF Throw, Tasks
  <2>2. QED BY <1>2, <1>3, <1>5, <1>6, <2>1
<1>12. QED
  BY <1>9, <1>10, <1>11 DEF Request, BatchAnswered, BatchGarbled, BatchRefused, RowAnswered,
     RowWithoutContent, OneAnswered, OneWithoutContent

\* A wave just launched has made no calls yet, and a wave that is over has none left.
LEMMA NoneUncounted ==
  ASSUME \/ futures' = <<>> /\ run' = 0
         \/ LaunchWave /\ TypeOK
         \/ LaunchRetries /\ TypeOK
  PROVE  Uncounted' = {} /\ IsFiniteSet(Uncounted') /\ Cardinality(Uncounted') = 0
<1>1. Uncounted' = {}
  <2>1. CASE futures' = <<>> /\ run' = 0
    <3>1. (run' + 1)..Len(futures') = {}
      BY <2>1
    <3>2. QED BY <3>1 DEF Uncounted
  <2>2. CASE (LaunchWave \/ LaunchRetries) /\ TypeOK
    <3>1. \A k \in DOMAIN futures' : futures'[k].n_calls = 0
      BY <2>2, WaveShape, RetryShape DEF Fresh
    <3>2. futures' \in Seq(Tasks) /\ run' = 0
      BY <2>2, WaveShape, RetryShape DEF LaunchWave, LaunchRetries
    <3>3. (run' + 1)..Len(futures') = DOMAIN futures'
      BY <3>2
    <3>4. \A k \in DOMAIN futures' : {<<k, i>> : i \in 1..futures'[k].n_calls} = {}
      BY <3>1
    <3>5. QED BY <3>3, <3>4 DEF Uncounted
  <2>3. QED BY <2>1, <2>2
<1>2. QED BY <1>1, FS_EmptySet

\* An answered request adds the call it made, unless it throws.
LEMMA EndpointCounts ==
  ASSUME TypeOK, Requests, ReplyInvs, OrderInv, IsFiniteSet(Uncounted), Endpoint
  PROVE  /\ IsFiniteSet(Uncounted') /\ posts' = posts + 1
         /\ UNCHANGED <<pc, llm_calls, total_calls, run>>
         /\ \/ Cardinality(Uncounted') = Cardinality(Uncounted) + 1
            \/ \E k \in (run' + 1)..Len(futures') : futures'[k].status = "thrown"
         /\ \A k \in (run + 1)..Len(futures) :
               futures[k].status = "thrown" => futures'[k].status = "thrown"
         /\ Len(futures') = Len(futures)
<1>1. PICK l \in DOMAIN futures : Request(l)
  BY DEF Endpoint
<1>2. /\ futures[l].status = "running" /\ futures[l].n_calls \in Nat
      /\ \/ futures'[l].status = "thrown" /\ futures'[l].n_calls = futures[l].n_calls
         \/ futures'[l].n_calls = futures[l].n_calls + 1
      /\ \A k \in DOMAIN futures : k # l => futures'[k] = futures[k]
      /\ DOMAIN futures' = DOMAIN futures /\ Len(futures') = Len(futures)
      /\ Answered
  BY <1>1, OneCallMore
<1>3. /\ run \in Nat /\ Len(futures) \in Nat /\ DOMAIN futures = 1..Len(futures)
      /\ run' = run /\ posts' = posts + 1 /\ UNCHANGED <<pc, llm_calls, total_calls>>
  BY <1>2 DEF TypeOK, Answered, queryVars
<1>4. l \in (run + 1)..Len(futures)
  BY <1>2, <1>3 DEF OrderInv
<1>5. \A k \in (run + 1)..Len(futures) : k \in DOMAIN futures
  BY <1>3
<1>6. Uncounted' = UNION {{<<k, i>> : i \in 1..futures'[k].n_calls} : k \in (run + 1)..Len(futures)}
  BY <1>2, <1>3 DEF Uncounted
<1>7. \A k \in (run + 1)..Len(futures) :
         futures[k].status = "thrown" => futures'[k].status = "thrown"
  BY <1>2, <1>5
<1>8. CASE futures'[l].n_calls = futures[l].n_calls
  <2>1. \A k \in (run + 1)..Len(futures) : futures'[k].n_calls = futures[k].n_calls
    BY <1>2, <1>5, <1>8
  <2>2. Uncounted' = Uncounted
    BY <1>6, <2>1 DEF Uncounted
  <2>3. futures'[l].status = "thrown"
    BY <1>2, <1>8
  <2>4. QED BY <1>2, <1>3, <1>4, <1>7, <2>2, <2>3
<1>9. CASE futures'[l].n_calls = futures[l].n_calls + 1
  <2> DEFINE c == <<l, futures[l].n_calls + 1>>
  <2>1. 1..futures'[l].n_calls = (1..futures[l].n_calls) \cup {futures[l].n_calls + 1}
    BY <1>2, <1>9
  <2>2. Uncounted' = Uncounted \cup {c}
    <3>1. Uncounted' \subseteq Uncounted \cup {c}
      <4>1. SUFFICES ASSUME NEW k \in (run + 1)..Len(futures), NEW i \in 1..futures'[k].n_calls
                     PROVE  <<k, i>> \in Uncounted \cup {c}
        BY <1>6
      <4>2. CASE k = l
        BY <1>4, <2>1, <4>1, <4>2 DEF Uncounted
      <4>3. CASE k # l
        <5>1. i \in 1..futures[k].n_calls
          BY <1>2, <1>5, <4>1, <4>3
        <5>2. QED BY <4>1, <5>1 DEF Uncounted
      <4>4. QED BY <4>2, <4>3
    <3>2. c \in Uncounted'
      BY <1>4, <1>6, <2>1
    <3>3. Uncounted \subseteq Uncounted'
      <4>1. SUFFICES ASSUME NEW k \in (run + 1)..Len(futures), NEW i \in 1..futures[k].n_calls
                     PROVE  <<k, i>> \in Uncounted'
        BY DEF Uncounted
      <4>2. i \in 1..futures'[k].n_calls
        BY <1>2, <1>5, <2>1, <4>1
      <4>3. QED BY <1>6, <4>1, <4>2
    <3>4. QED BY <3>1, <3>2, <3>3
  <2>3. c \notin Uncounted
    <3>1. SUFFICES ASSUME NEW k \in (run + 1)..Len(futures), NEW i \in 1..futures[k].n_calls,
                          <<k, i>> = c
                   PROVE  FALSE
      BY DEF Uncounted
    <3>2. k = l /\ i = futures[l].n_calls + 1
      BY <3>1
    <3>3. QED BY <1>2, <3>1, <3>2
  <2> HIDE DEF c
  <2>4. IsFiniteSet(Uncounted') /\ Cardinality(Uncounted') = Cardinality(Uncounted) + 1
    BY <2>2, <2>3, FS_AddElement
  <2>5. QED BY <1>2, <1>3, <1>7, <2>4
<1>10. QED BY <1>2, <1>8, <1>9

LEMMA CallsStep ==
  ASSUME IInv, OnceInv, [Next]_vars
  PROVE  CallsInv'
<1> USE DEF queryVars, chunkVars, waveVars, Working
<1>1. TypeOK /\ Requests /\ AtRest /\ OrderInv /\ ReplyInvs /\ CallsInv
  BY DEF IInv, Requests, OnceInv, ReplyInvs
<1>2. /\ IsFiniteSet(Uncounted) /\ Cardinality(Uncounted) \in Nat
      /\ posts \in Nat /\ llm_calls \in Nat /\ total_calls \in Nat
      /\ run \in Nat /\ Len(futures) \in Nat
  BY <1>1, FS_CardinalityType DEF CallsInv, TypeOK
<1> DEFINE Thrown == \E k \in (run + 1)..Len(futures) : futures[k].status = "thrown"
<1>3. futures = <<>> => Uncounted = {} /\ Cardinality(Uncounted) = 0 /\ ~ Thrown
  <2>1. futures = <<>> => (run + 1)..Len(futures) = {}
    BY <1>2
  <2>2. QED BY <2>1, FS_EmptySet DEF Uncounted
<1>4. run = Len(futures) => Uncounted = {} /\ Cardinality(Uncounted) = 0 /\ ~ Thrown
  <2>1. run = Len(futures) => (run + 1)..Len(futures) = {}
    BY <1>2
  <2>2. QED BY <2>1, FS_EmptySet DEF Uncounted
<1>5. CASE StartQuery
  <2>1. futures' = <<>> /\ run' = 0 /\ pc' = "idle" /\ total_calls' = 0
        /\ posts' = 0 /\ llm_calls' = 0
    BY <1>1, <1>5 DEF StartQuery, AtRest, CallsInv
  <2>2. IsFiniteSet(Uncounted') /\ Cardinality(Uncounted') = 0
    BY <2>1, NoneUncounted
  <2>3. QED BY <2>1, <2>2 DEF CallsInv
<1>6. CASE Crash \/ Unwind
  <2>1. futures' = <<>> /\ run' = 0 /\ pc' \in {"aborted", "crashed"} /\ total_calls' = 0
    BY <1>6 DEF Crash, Unwind
  <2>2. IsFiniteSet(Uncounted')
    BY <2>1, NoneUncounted
  <2>3. QED BY <2>1, <2>2 DEF CallsInv
<1>7. CASE EndQuery \/ BeginChunk \/ BeginRetries \/ Rethrow \/ CollectThrows \/ UNCHANGED vars
  <2>1. UNCHANGED <<futures, run, total_calls, llm_calls, posts>>
    BY <1>7 DEF EndQuery, BeginChunk, BeginRetries, Rethrow, CollectThrows, vars
  <2>2. Uncounted' = Uncounted
    BY <2>1 DEF Uncounted
  <2>3. pc' \in {"collect", "launch", "relaunch", "recollect", "idle", "none"} =>
           pc \in {"collect", "launch", "relaunch", "recollect", "idle", "none"}
    BY <1>7 DEF EndQuery, BeginChunk, BeginRetries, Rethrow, CollectThrows, vars
  <2>4. pc' \notin {"collect", "launch", "relaunch", "recollect", "unwind"} =>
           pc \notin {"collect", "launch", "relaunch", "recollect", "unwind"}
    BY <1>7 DEF EndQuery, BeginChunk, BeginRetries, Rethrow, CollectThrows, vars
  <2>5. QED BY <1>1, <2>1, <2>2, <2>3, <2>4 DEF CallsInv
<1>8. CASE FinishChunk
  <2>1. futures = <<>> /\ futures' = <<>> /\ run' = 0
    BY <1>1, <1>8 DEF FinishChunk, AtRest
  <2>2. IsFiniteSet(Uncounted') /\ Cardinality(Uncounted') = 0
    BY <2>1, NoneUncounted
  <2>3. /\ pc' = "idle" /\ total_calls' = 0 /\ posts' = posts
        /\ llm_calls' = llm_calls + total_calls /\ pc = "relaunch"
    BY <1>8 DEF FinishChunk
  <2>4. posts = llm_calls + total_calls
    BY <1>1, <1>2, <1>3, <2>1, <2>3 DEF CallsInv
  <2>5. QED BY <1>2, <2>2, <2>3, <2>4 DEF CallsInv
<1>9. CASE LaunchWave \/ LaunchRetries
  <2>1. IsFiniteSet(Uncounted') /\ Cardinality(Uncounted') = 0
    BY <1>1, <1>9, NoneUncounted
  <2>2. /\ futures = <<>> /\ pc \in {"launch", "relaunch"} /\ pc' \in {"collect", "recollect"}
        /\ UNCHANGED <<posts, llm_calls, total_calls>>
    BY <1>1, <1>9 DEF LaunchWave, LaunchRetries, AtRest
  <2>3. posts = llm_calls + total_calls
    BY <1>1, <1>2, <1>3, <2>2 DEF CallsInv
  <2>4. QED BY <1>2, <2>1, <2>2, <2>3 DEF CallsInv
<1>10. CASE EndWave \/ EndRetryWave
  <2>1. /\ run = Len(futures) /\ futures' = <<>> /\ run' = 0
        /\ pc \in {"collect", "recollect"} /\ pc' \in {"launch", "relaunch"}
        /\ UNCHANGED <<posts, llm_calls, total_calls>>
    BY <1>10 DEF EndWave, EndRetryWave
  <2>2. IsFiniteSet(Uncounted') /\ Cardinality(Uncounted') = 0
    BY <2>1, NoneUncounted
  <2>3. posts = llm_calls + total_calls
    BY <1>1, <1>2, <1>4, <2>1 DEF CallsInv
  <2>4. QED BY <1>2, <2>1, <2>2, <2>3 DEF CallsInv
<1>11. CASE CollectFailedBatch \/ CollectBatch \/ CollectRows \/ CollectRetry
  <2>1. /\ Counted /\ UNCHANGED <<futures, pc, llm_calls, posts>> /\ run < Len(futures)
        /\ Current.status = "ready" /\ pc \in {"collect", "recollect"}
    BY <1>11 DEF CollectFailedBatch, CollectBatch, CollectRows, CollectRetry, Getting
  <2>2. /\ IsFiniteSet(Uncounted') /\ total_calls' \in Nat
        /\ total_calls' + Cardinality(Uncounted') = total_calls + Cardinality(Uncounted)
    BY <1>1, <1>2, <2>1, CountsCollected
  <2>3. Cardinality(Uncounted') \in Nat
    BY <2>2, FS_CardinalityType
  <2>4. CASE posts = llm_calls + total_calls + Cardinality(Uncounted)
    <3>1. posts' = posts /\ llm_calls' = llm_calls
      BY <2>1
    <3>2. posts = llm_calls + total_calls' + Cardinality(Uncounted')
      BY SMTT(20), <1>2, <2>2, <2>3, <2>4, SumMoves
    <3>3. QED BY <2>1, <2>2, <3>1, <3>2 DEF CallsInv
  <2>5. CASE Thrown
    <3>1. PICK k \in (run + 1)..Len(futures) : futures[k].status = "thrown"
      BY <2>5
    <3>2. k # run + 1
      BY <2>1, <3>1 DEF Current
    <3>3. run' = run + 1
      BY <2>1 DEF Counted
    <3>4. k \in (run' + 1)..Len(futures') /\ futures'[k].status = "thrown"
      BY <1>2, <2>1, <3>1, <3>2, <3>3
    <3>5. QED BY <2>1, <2>2, <3>4 DEF CallsInv
  <2>6. QED BY <1>1, <2>1, <2>4, <2>5 DEF CallsInv
<1>12. CASE Endpoint
  <2>1. /\ IsFiniteSet(Uncounted') /\ posts' = posts + 1
        /\ UNCHANGED <<pc, llm_calls, total_calls, run>>
        /\ \/ Cardinality(Uncounted') = Cardinality(Uncounted) + 1
           \/ \E k \in (run' + 1)..Len(futures') : futures'[k].status = "thrown"
        /\ \A k \in (run + 1)..Len(futures) :
              futures[k].status = "thrown" => futures'[k].status = "thrown"
        /\ Len(futures') = Len(futures)
    BY <1>1, <1>2, <1>12, EndpointCounts
  <2>2. Thrown => \E k \in (run' + 1)..Len(futures') : futures'[k].status = "thrown"
    BY <2>1
  <2>3. posts = llm_calls + total_calls + Cardinality(Uncounted) =>
           \/ posts' = llm_calls' + total_calls' + Cardinality(Uncounted')
           \/ \E k \in (run' + 1)..Len(futures') : futures'[k].status = "thrown"
    BY <1>2, <2>1
  <2>4. QED BY <1>1, <2>1, <2>2, <2>3 DEF CallsInv
<1>13. QED
  BY <1>5, <1>6, <1>7, <1>8, <1>9, <1>10, <1>11, <1>12 DEF Next, Thread

-----------------------------------------------------------------------------
LEMMA InitOnce == Init => OnceInv
<1>1. SUFFICES ASSUME Init
               PROVE  OnceInv
  OBVIOUS
<1>2. unprocessed = <<>> /\ output = <<>> /\ futures = <<>> /\ batch_fails = <<>> /\ pc = "none"
  BY <1>1 DEF Init
<1>3. OrderInv
  BY <1>2 DEF OrderInv
<1>4. OpenInv /\ ShownInv /\ UnsetInv /\ \A k \in DOMAIN futures : ReplyInv(futures[k])
  BY <1>2 DEF OpenInv, ShownInv, UnsetInv, Working
<1>5. CallsInv
  <2>1. run = 0 /\ total_calls = 0 /\ llm_calls = 0 /\ posts = 0
    BY <1>1 DEF Init
  <2>2. (run + 1)..Len(futures) = {}
    BY <1>2, <2>1
  <2>3. Uncounted = {} /\ IsFiniteSet(Uncounted) /\ Cardinality(Uncounted) = 0
    BY <2>2, FS_EmptySet DEF Uncounted
  <2>4. QED BY <2>1, <2>3 DEF CallsInv
<1>6. QED BY <1>3, <1>4, <1>5 DEF OnceInv

LEMMA NextOnce == IInv /\ OnceInv /\ [Next]_vars => OnceInv'
<1>1. SUFFICES ASSUME IInv, OnceInv, [Next]_vars
               PROVE  OnceInv'
  OBVIOUS
<1>2. OrderInv /\ ReplyInvs
  BY <1>1 DEF OnceInv, ReplyInvs
<1>3. OrderInv' /\ ReplyInvs'
  BY <1>1, <1>2, OrderStep, ReplyStep
<1>4. OpenInv' /\ ShownInv' /\ UnsetInv'
  BY <1>1, StateStep
<1>5. CallsInv'
  BY <1>1, CallsStep
<1>6. QED BY <1>3, <1>4, <1>5 DEF OnceInv, ReplyInvs

\* The second invariant, which rests on the first: every position of the list is asked
\* and settled in one place, whatever the endpoint replies.
THEOREM OnceInvariant == Spec => [](IInv /\ OnceInv)
<1>1. Init => IInv /\ OnceInv
  BY InitIInv, InitOnce
<1>2. IInv /\ OnceInv /\ [Next]_vars => (IInv /\ OnceInv)'
  BY NextIInv, NextOnce
<1>3. QED BY <1>1, <1>2, PTL DEF Spec
-----------------------------------------------------------------------------
(* What follows from it. *)

\* A position in flight is open.
LEMMA InFlight ==
  ASSUME IInv, NEW k \in DOMAIN futures, NEW i \in 1..futures[k].n_rows
  PROVE  /\ futures[k].frow + i \in DOMAIN unprocessed
         /\ futures[k].frow + i \in Span(futures[k])
         /\ futures[k].frow \in Nat /\ futures[k].n_rows \in Nat
         /\ k > run => Open(futures[k].frow + i)
<1>1. /\ futures[k] \in Tasks /\ RequestInv(futures[k]) /\ unprocessed \in Seq(Prompts)
  BY DEF IInv, TypeOK
<1>2. futures[k].frow \in Nat /\ futures[k].n_rows \in Nat
  BY <1>1 DEF Tasks
<1>3. futures[k].frow + futures[k].n_rows <= Len(unprocessed) /\ Len(unprocessed) \in Nat
      /\ DOMAIN unprocessed = 1..Len(unprocessed)
  BY <1>1 DEF RequestInv
<1>4. futures[k].frow + i \in DOMAIN unprocessed /\ futures[k].frow + i \in Span(futures[k])
  BY <1>2, <1>3 DEF Span
<1>5. QED BY <1>2, <1>4 DEF Open

\* Two requests in flight never ask about the same position, and with the cache no
\* prompt is asked for that has an entry or is being asked for: nothing is paid twice.
THEOREM NothingAskedTwice == Spec => []AskedOnce
<1>1. IInv /\ OnceInv => AskedOnce
  <2>1. SUFFICES ASSUME IInv, OnceInv, Aligned,
                        NEW k \in DOMAIN futures, NEW l \in DOMAIN futures,
                        NEW i \in 1..futures[k].n_rows, NEW j \in 1..futures[l].n_rows,
                        futures[k].status = "running"
                 PROVE  LET p == futures[k].frow + i
                            q == futures[l].frow + j
                        IN  /\ p = q => k = l
                            /\ conf.use_cache =>
                                 /\ cache[unprocessed[p]] = None
                                 /\ unprocessed[p] = unprocessed[q] => k = l
    BY DEF AskedOnce
  <2> DEFINE p == futures[k].frow + i
             q == futures[l].frow + j
  <2>2. OrderInv /\ OpenInv
    BY <2>1 DEF OnceInv
  <2>3. k > run
    BY <2>1, <2>2 DEF OrderInv
  <2>4. /\ p \in DOMAIN unprocessed /\ Open(p)
        /\ futures[k].frow \in Nat /\ futures[k].n_rows \in Nat
    BY <2>1, <2>3, InFlight
  <2>5. /\ q \in DOMAIN unprocessed
        /\ futures[l].frow \in Nat /\ futures[l].n_rows \in Nat
    BY <2>1, InFlight
  <2>6. ASSUME p = q
        PROVE  k = l
    <3>1. ~ (k < l)
      <4>1. k < l => futures[k].frow + futures[k].n_rows <= futures[l].frow
        BY <2>2 DEF OrderInv
      <4>2. QED BY <2>4, <2>5, <2>6, <4>1
    <3>2. ~ (l < k)
      <4>1. l < k => futures[l].frow + futures[l].n_rows <= futures[k].frow
        BY <2>2 DEF OrderInv
      <4>2. QED BY <2>4, <2>5, <2>6, <4>1
    <3>3. k \in Nat /\ l \in Nat
      BY <2>1 DEF IInv, TypeOK
    <3>4. QED BY <3>1, <3>2, <3>3
  <2>7. ASSUME conf.use_cache
        PROVE  /\ cache[unprocessed[p]] = None
               /\ unprocessed[p] = unprocessed[q] => p = q
    BY <2>1, <2>2, <2>4, <2>5, <2>7 DEF OrderInv, OpenInv
  <2> HIDE DEF p, q
  <2>8. QED BY <2>6, <2>7 DEF p, q
<1>2. QED BY <1>1, OnceInvariant, PTL

\* What the cache would answer is what the rows were given, or with use_batch NULL, where
\* a hit cannot cut the text the batch left: a prompt never has two answers in a query,
\* and without use_batch a hit never loses the one it has.
THEOREM CacheIsShown == Spec => []CacheAgrees
<1>1. OnceInv => CacheAgrees
  BY DEF OnceInv, ShownInv, CacheAgrees
<1>2. QED BY <1>1, OnceInvariant, PTL

\* The rows of a group of equal prompts share one answer.
THEOREM GroupsAgree == Spec => []SharedAnswers
<1>1. OnceInv => SharedAnswers
  BY DEF OnceInv, ShownInv, SharedAnswers, GroupsShareOneAnswer
<1>2. QED BY <1>1, OnceInvariant, PTL

\* After the second loop nothing is open.
LEMMA NothingOpen ==
  ASSUME IInv, pc = "relaunch", next >= Len(batch_fails), NEW p
  PROVE  ~ Open(p)
<1>1. futures = <<>> /\ TypeOK
  BY DEF IInv, AtRest
<1>2. next \in Nat /\ Len(batch_fails) \in Nat /\ DOMAIN batch_fails = 1..Len(batch_fails)
      /\ next + Len(futures) = next
  BY <1>1 DEF TypeOK
<1>3. \A i \in DOMAIN batch_fails : ~ (i > next + Len(futures))
  BY <1>2
<1>4. QED BY <1>1, <1>3 DEF Open

\* A row that is still unwritten when the chunk is handed on has failed twice: its batch
\* and its own call brought nothing. No row is forgotten by the batches or the waves.
THEOREM OpenRowsWereTried == Spec => []OpenRowsFailedTwice
<1>1. IInv /\ OnceInv => OpenRowsFailedTwice
  <2>1. SUFFICES ASSUME IInv, OnceInv, Aligned, pc = "relaunch", next >= Len(batch_fails),
                        NEW r \in DOMAIN output, output[r] = Unset
                 PROVE  "nocontent" \in Lax /\ Failed(r)
    BY DEF OpenRowsFailedTwice, Failed
  <2>2. PICK p \in DOMAIN unprocessed :
           r \in RowsAt(p) /\ (Open(p) \/ ("nocontent" \in Lax /\ Failed(p)))
    BY <2>1 DEF OnceInv, UnsetInv, Working
  <2>3. "nocontent" \in Lax /\ Failed(p)
    BY <2>1, <2>2, NothingOpen
  <2>4. ~ conf.use_cache
    BY <2>1, <2>3 DEF Aligned
  <2>5. r = p
    BY <2>2, <2>4 DEF RowsAt
  <2>6. QED BY <2>3, <2>5
<1>2. QED BY <1>1, OnceInvariant, PTL

\* The steps of a chunk that write no cell.
LEMMA CellsKept ==
  ASSUME IInv, pc \in Working, [Next]_vars, ~ (CollectBatch \/ CollectRows \/ CollectRetry)
  PROVE  UNCHANGED <<input, output>>
<1> USE DEF queryVars, chunkVars, waveVars, Working
<1>1. CASE Endpoint
  <2>1. PICK k \in DOMAIN futures : Request(k)
    BY <1>1 DEF Endpoint
  <2>2. QED BY <2>1, RequestStep DEF Answered, IInv, Requests
<1>2. CASE UNCHANGED vars
  BY <1>2 DEF vars
<1>3. CASE \/ LaunchWave \/ CollectFailedBatch \/ Crash \/ EndWave \/ BeginRetries
           \/ LaunchRetries \/ EndRetryWave \/ FinishChunk \/ Rethrow \/ CollectThrows \/ Unwind
  BY <1>3 DEF LaunchWave, CollectFailedBatch, Crash, EndWave, BeginRetries, LaunchRetries,
              EndRetryWave, FinishChunk, Rethrow, CollectThrows, Unwind
<1>4. CASE StartQuery \/ EndQuery \/ BeginChunk
  BY <1>4 DEF StartQuery, EndQuery, BeginChunk
<1>5. QED BY <1>1, <1>2, <1>3, <1>4 DEF Next, Thread

\* An answer stays once it is in its row: not a retry, not a late batch, not a shared
\* prompt overwrites it.
THEOREM AnswersStay == Spec => SettledOnce
<1>1. IInv /\ OnceInv /\ [Next]_vars =>
        [Aligned /\ pc \in Working =>
            \A r \in DOMAIN output : output[r] # Unset => output'[r] = output[r]]_vars
  <2>1. SUFFICES ASSUME IInv, OnceInv, [Next]_vars, Aligned, pc \in Working
                 PROVE  \A r \in DOMAIN output : output[r] # Unset => output'[r] = output[r]
    OBVIOUS
  <2>2. CASE CollectBatch \/ CollectRows \/ CollectRetry
    BY <2>1, <2>2, CollectOnce
  <2>3. CASE ~ (CollectBatch \/ CollectRows \/ CollectRetry)
    BY <2>1, <2>3, CellsKept
  <2>4. QED BY <2>2, <2>3
<1>2. QED BY <1>1, OnceInvariant, PTL DEF Spec, SettledOnce

\* When a chunk is handed on, every request the endpoint answered is in the statistics
\* once: a batch, a row of its own, a retry, whatever came back for it.
THEOREM CallsAreCounted == Spec => []CallsCountedOnce
<1>1. IInv /\ OnceInv => CallsCountedOnce
  <2>1. SUFFICES ASSUME IInv, OnceInv, pc \in {"idle", "none"}
                 PROVE  llm_calls = posts
    BY DEF CallsCountedOnce
  <2>2. TypeOK /\ CallsInv /\ futures = <<>> /\ run = 0
    BY <2>1 DEF IInv, OnceInv, AtRest
  <2>3. (run + 1)..Len(futures) = {}
    BY <2>2
  <2>4. Uncounted = {} /\ Cardinality(Uncounted) = 0
    BY <2>3, FS_EmptySet DEF Uncounted
  <2>5. total_calls = 0 /\ posts = llm_calls + total_calls + Cardinality(Uncounted)
    BY <2>1, <2>2, <2>3 DEF CallsInv, Working
  <2>6. llm_calls \in Nat
    BY <2>2 DEF TypeOK
  <2>7. QED BY <2>4, <2>5, <2>6
<1>2. QED BY <1>1, OnceInvariant, PTL
-----------------------------------------------------------------------------
(* The chunk operator implements SemanticPredict for replies in the format. *)

\* The rows' own answers, as the promise names them.
LEMMA OwnSettled ==
  ASSUME NEW c, NEW r, OwnCell(c, input[r])
  PROVE  c \in {Unset} \cup Promise!Settled(r)
<1>1. CASE c \in {Unset, Null}
  BY <1>1 DEF Promise!Settled
<1>2. CASE c \in Answers /\ c.prompt = input[r]
  BY <1>2 DEF Answers, Promise!Settled
<1>3. QED BY <1>1, <1>2 DEF OwnCell

LEMMA PromiseInit == Init => Promise!Init
  BY DEF Init, Promise!Init, AbstractPhase

LEMMA AcceptStep ==
  ASSUME IInv, IInv', Lax = {}, BeginChunk
  PROVE  Promise!Accept
<1>1. PICK n \in 1..MaxRows : \E in \in [1..n -> Prompts] : input' = in
  BY DEF BeginChunk
<1>2. n \in Nat
  BY BoundsAssumption
<1>3. Len(input') \in 1..MaxRows
  BY <1>1, <1>2
<1>4. AbstractPhase = "ready" /\ AbstractPhase' = "busy"
  BY DEF BeginChunk, AbstractPhase, Working
<1>5. DOMAIN output' = DOMAIN input'
  BY DEF IInv, TypeOK
<1>6. ASSUME NEW r \in DOMAIN input'
      PROVE  output'[r] \in {Unset} \cup Promise!Settled(r)'
  <2>1. output'[r] \in {Unset, Null}
        \/ (output'[r] \in Answers /\ output'[r].prompt = input'[r])
    BY <1>5 DEF IInv, OwnAnswers, Aligned, RowsHoldOwnAnswers
  <2>2. QED BY <2>1 DEF Answers, Promise!Settled
<1>7. QED BY <1>3, <1>4, <1>5, <1>6 DEF Promise!Accept

LEMMA SettleStep ==
  ASSUME IInv, IInv', OnceInv, Lax = {}, CollectBatch \/ CollectRows \/ CollectRetry
  PROVE  Promise!Settle
<1>1. UNCHANGED <<pc, input>> /\ pc \in {"collect", "recollect"}
  BY DEF CollectBatch, CollectRows, CollectRetry, chunkVars, Getting
<1>2. AbstractPhase = "busy" /\ AbstractPhase' = "busy"
  BY <1>1 DEF AbstractPhase, Working
<1>3. DOMAIN output' = DOMAIN output
  BY <1>1 DEF IInv, TypeOK
<1>4. \A r \in DOMAIN output : output[r] # Unset => output'[r] = output[r]
  BY CollectOnce DEF Aligned
<1>5. ASSUME NEW r \in DOMAIN output, output'[r] # output[r]
      PROVE  output[r] = Unset /\ output'[r] \in Promise!Settled(r)
  <2>1. output'[r] \in {Unset, Null}
        \/ (output'[r] \in Answers /\ output'[r].prompt = input'[r])
    BY <1>3 DEF IInv, OwnAnswers, Aligned, RowsHoldOwnAnswers
  <2>2. OwnCell(output'[r], input[r])
    BY <1>1, <2>1 DEF OwnCell
  <2>3. QED BY <1>4, <1>5, <2>2, OwnSettled
<1>6. QED BY <1>1, <1>2, <1>3, <1>5 DEF Promise!Settle

LEMMA DeliverStep ==
  ASSUME IInv, OnceInv, Lax = {}, FinishChunk
  PROVE  Promise!Deliver
<1>1. pc = "relaunch" /\ next >= Len(batch_fails) /\ pc' = "idle" /\ UNCHANGED <<input, output>>
  BY DEF FinishChunk
<1>2. AbstractPhase = "busy" /\ AbstractPhase' = "ready"
  BY <1>1 DEF AbstractPhase, Working
<1>3. ASSUME NEW r \in DOMAIN output, output[r] = Unset
      PROVE  FALSE
  <2>1. PICK p \in DOMAIN unprocessed : Open(p) \/ "nocontent" \in Lax
    BY <1>1, <1>3 DEF OnceInv, UnsetInv, Working, Aligned
  <2>2. QED BY <1>1, <2>1, NothingOpen
<1>4. QED BY <1>1, <1>2, <1>3 DEF Promise!Deliver

\* Every step of the chunk operator is one of the promise's, or changes nothing the
\* operator above sees.
LEMMA PromiseStep ==
  ASSUME IInv, IInv', OnceInv, Lax = {}, [Next]_vars
  PROVE  [Promise!Next]_(Promise!vars)
<1> USE DEF queryVars, chunkVars, waveVars
<1>1. CASE StartQuery
  <2>1. AbstractPhase \in {"ready", "failed"} /\ AbstractPhase' = "ready"
        /\ input' = <<>> /\ output' = <<>>
    BY <1>1 DEF StartQuery, AbstractPhase, Working
  <2>2. QED BY <2>1 DEF Promise!Next, Promise!NewQuery
<1>2. CASE BeginChunk
  BY <1>2, AcceptStep DEF Promise!Next
<1>3. CASE CollectBatch \/ CollectRows \/ CollectRetry
  BY <1>3, SettleStep DEF Promise!Next
<1>4. CASE FinishChunk
  BY <1>4, DeliverStep DEF Promise!Next
<1>5. CASE Crash \/ Rethrow \/ CollectThrows
  <2>1. pc \in {"collect", "recollect"} /\ pc' \in {"crashed", "unwind"}
        /\ UNCHANGED <<input, output>>
    BY <1>5 DEF Crash, Rethrow, CollectThrows, Getting
  <2>2. AbstractPhase = "busy" /\ AbstractPhase' = "failed"
    BY <2>1 DEF AbstractPhase, Working
  <2>3. QED BY <2>1, <2>2 DEF Promise!Next, Promise!Fail
<1>6. CASE \/ EndQuery \/ LaunchWave \/ CollectFailedBatch \/ EndWave \/ BeginRetries
           \/ LaunchRetries \/ EndRetryWave \/ Unwind
  <2>1. UNCHANGED <<input, output>>
    BY <1>6 DEF EndQuery, LaunchWave, CollectFailedBatch, EndWave, BeginRetries, LaunchRetries,
                EndRetryWave, Unwind
  <2>2. AbstractPhase' = AbstractPhase
    BY <1>6 DEF EndQuery, LaunchWave, CollectFailedBatch, EndWave, BeginRetries, LaunchRetries,
                EndRetryWave, Unwind, Getting, AbstractPhase, Working
  <2>3. QED BY <2>1, <2>2 DEF Promise!vars
<1>7. CASE Endpoint
  <2>1. PICK k \in DOMAIN futures : Request(k)
    BY <1>7 DEF Endpoint
  <2>2. UNCHANGED <<pc, input, output>>
    BY <2>1, RequestStep DEF Answered, IInv, Requests
  <2>3. QED BY <2>2 DEF Promise!vars, AbstractPhase
<1>8. CASE UNCHANGED vars
  BY <1>8 DEF vars, Promise!vars, AbstractPhase
<1>9. QED BY <1>1, <1>2, <1>3, <1>4, <1>5, <1>6, <1>7, <1>8 DEF Next, Thread

\* With an endpoint that keeps to the format, the chunk operator keeps the promise of
\* SemanticPredict: every row is settled once, with its own answer or NULL, and the chunk
\* is handed on complete, or the query fails.
THEOREM KeepsPromise == ASSUME Lax = {} PROVE Spec => ImplementsPromise
<1>1. Init => Promise!Init
  BY PromiseInit
<1>2. IInv /\ IInv' /\ OnceInv /\ [Next]_vars => [Promise!Next]_(Promise!vars)
  BY PromiseStep
<1>3. QED BY <1>1, <1>2, OnceInvariant, PTL DEF Spec, ImplementsPromise, Promise!Spec
=============================================================================
