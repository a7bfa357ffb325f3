------------------------- MODULE LlmBatching_proofs -------------------------
(***************************************************************************)
(* The batch arithmetic of PredictChunk for every number of rows, threads  *)
(* and every batch size: batches stay within the configured size and cover *)
(* every unprocessed row exactly once.                                     *)
(***************************************************************************)
EXTENDS LlmBatching, TLAPS

\* Products of naturals are bounded by those of larger factors; the solver, which treats
\* products of variables as opaque, is given the distributive law as a fact.
LEMMA Distributes == \A a, b, c \in Nat : (a + b) * c = a * c + b * c
  OBVIOUS

LEMMA ProductMonotone ==
  ASSUME NEW a \in Nat, NEW b \in Nat, NEW c \in Nat, a <= b
  PROVE  a * c <= b * c
<1>1. PICK d \in Nat : b = a + d
  <2>1. b - a \in Nat /\ b = a + (b - a)
    OBVIOUS
  <2>2. QED BY <2>1
<1>2. b * c = a * c + d * c
  BY <1>1, Distributes
<1>3. a * c \in Nat /\ d * c \in Nat
  OBVIOUS
<1>4. QED BY <1>2, <1>3

\* Quotient and remainder.
LEMMA Division ==
  ASSUME NEW n \in Nat, NEW d \in Nat \ {0}
  PROVE  /\ n \div d \in Nat
         /\ n % d \in 0..(d - 1)
         /\ n = (n \div d) * d + (n % d)
  OBVIOUS

\* The rounded-up quotient is the least multiplier of d that reaches n.
LEMMA CeilDivBounds ==
  ASSUME NEW n \in Nat, NEW d \in Nat \ {0}
  PROVE  /\ CeilDiv(n, d) \in Nat
         /\ n <= CeilDiv(n, d) * d
         /\ \A b \in Nat : b < CeilDiv(n, d) => b * d < n
<1> DEFINE q == n \div d
           r == n % d
<1>1. q \in Nat /\ r \in 0..(d - 1) /\ n = q * d + r /\ q * d \in Nat
  <2>1. q \in Nat /\ r \in 0..(d - 1) /\ n = q * d + r
    BY Division, Zenon
  <2> HIDE DEF q, r
  <2>2. q * d \in Nat
    BY <2>1
  <2>3. QED BY <2>1, <2>2
<1> HIDE DEF q, r
<1>2. (q + 1) * d = q * d + d
  BY <1>1, Distributes
<1>3. CASE r > 0
  <2>1. CeilDiv(n, d) = q + 1
    BY <1>3 DEF CeilDiv, q, r
  <2>2. ASSUME NEW b \in Nat, b < q + 1
        PROVE  b * d < n
    <3>1. b * d <= q * d /\ b * d \in Nat
      BY <1>1, <2>2, ProductMonotone
    <3>2. QED BY <3>1, <1>1, <1>3
  <2>3. n <= (q + 1) * d
    BY <1>1, <1>2
  <2>4. QED BY <2>1, <2>2, <2>3, <1>1
<1>4. CASE r = 0
  <2>1. CeilDiv(n, d) = q
    BY <1>1, <1>4 DEF CeilDiv, q, r
  <2>2. ASSUME NEW b \in Nat, b < q
        PROVE  b * d < n
    <3>1. (b + 1) * d <= q * d
      BY <1>1, <2>2, ProductMonotone
    <3>2. (b + 1) * d = b * d + d /\ b * d \in Nat
      BY Distributes
    <3>3. QED BY <3>1, <3>2, <1>1
  <2>3. QED BY <2>1, <2>2, <1>1, <1>4
<1>5. QED BY <1>1, <1>3, <1>4
-----------------------------------------------------------------------------
\* The batch size in effect is a batch size: never zero, and never above the one
\* configured, although it is computed by rounding up rows per thread.
THEOREM BatchesWithinSize ==
  ASSUME NEW u \in Nat, NEW threads \in Nat \ {0}, NEW batch_size \in Nat \ {0}
  PROVE  ImpBatchSize(u, threads, batch_size) \in 1..batch_size
<1>1. CASE threads * batch_size > u /\ u >= threads
  <2> DEFINE c == CeilDiv(u, threads)
  <2>1. ImpBatchSize(u, threads, batch_size) = c
    BY <1>1 DEF ImpBatchSize
  <2>2. /\ c \in Nat
        /\ u <= c * threads
        /\ \A b \in Nat : b < c => b * threads < u
    BY CeilDivBounds
  <2> HIDE DEF c
  <2>3. batch_size * threads > u
    BY <1>1
  <2>4. c <= batch_size
    <3>1. batch_size < c => batch_size * threads < u
      BY <2>2
    <3>2. batch_size * threads \in Nat
      OBVIOUS
    <3>3. QED BY <2>2, <2>3, <3>1, <3>2
  <2>5. c # 0
    <3>1. SUFFICES ASSUME c = 0
                   PROVE  FALSE
      OBVIOUS
    <3>2. u <= 0 * threads
      BY <2>2, <3>1
    <3>3. QED BY <1>1, <3>2
  <2>6. QED BY <2>1, <2>2, <2>4, <2>5
<1>2. CASE ~ (threads * batch_size > u /\ u >= threads)
  BY <1>2 DEF ImpBatchSize
<1>3. QED BY <1>1, <1>2

LEMMA ImpPositive ==
  ASSUME NEW u \in Nat, NEW threads \in Nat \ {0}, NEW batch_size \in Nat \ {0}
  PROVE  ImpBatchSize(u, threads, batch_size) \in Nat \ {0}
<1>1. ImpBatchSize(u, threads, batch_size) \in 1..batch_size
  BY BatchesWithinSize, Zenon
<1>2. QED BY <1>1

\* Every launched batch holds at least one row and stays inside the list: no request is
\* sent for nothing, and none reads past the unprocessed prompts.
THEOREM BatchesHoldRows ==
  ASSUME NEW u \in Nat, NEW threads \in Nat \ {0}, NEW batch_size \in Nat \ {0},
         NEW b \in Nat, b < Rounds(u, threads, batch_size)
  PROVE  LET imp == ImpBatchSize(u, threads, batch_size)
         IN  /\ FirstRow(b, imp) \in Nat
             /\ FirstRow(b, imp) < LastRow(b, imp, u)
             /\ LastRow(b, imp, u) \in 1..u
<1> DEFINE imp == ImpBatchSize(u, threads, batch_size)
<1>1. imp \in Nat \ {0}
  BY ImpPositive, Zenon
<1>2. b < CeilDiv(u, imp)
  BY DEF Rounds
<1> HIDE DEF imp
<1>3. b * imp < u /\ b * imp \in Nat
  BY <1>1, <1>2, CeilDivBounds
<1>4. /\ FirstRow(b, imp) \in Nat
      /\ FirstRow(b, imp) < LastRow(b, imp, u)
      /\ LastRow(b, imp, u) \in 1..u
  BY <1>1, <1>3 DEF FirstRow, LastRow, Min2
<1>5. QED BY <1>4 DEF imp

\* Every position of the unprocessed list is in a batch, and in no other one: no row is
\* forgotten by the rounding and none is sent twice.
THEOREM EveryPositionInOneBatch ==
  ASSUME NEW u \in Nat, NEW threads \in Nat \ {0}, NEW batch_size \in Nat \ {0},
         NEW pos \in 1..u
  PROVE  LET imp == ImpBatchSize(u, threads, batch_size)
             Holds(b) == FirstRow(b, imp) < pos /\ pos <= LastRow(b, imp, u)
         IN  /\ \E b \in 0..(Rounds(u, threads, batch_size) - 1) : Holds(b)
             /\ \A b, c \in Nat : Holds(b) /\ Holds(c) => b = c
<1> DEFINE imp == ImpBatchSize(u, threads, batch_size)
           Holds(b) == FirstRow(b, imp) < pos /\ pos <= LastRow(b, imp, u)
           rounds == Rounds(u, threads, batch_size)
           q == (pos - 1) \div imp
<1>1. imp \in Nat \ {0}
  BY ImpPositive, Zenon
<1>2. rounds = CeilDiv(u, imp)
  BY DEF Rounds
<1> HIDE DEF imp, rounds
<1>3. rounds \in Nat /\ u <= rounds * imp
  BY <1>1, <1>2, CeilDivBounds
<1>4. /\ q \in Nat
      /\ (pos - 1) % imp \in 0..(imp - 1)
      /\ pos - 1 = q * imp + ((pos - 1) % imp)
  <2>1. pos - 1 \in Nat
    OBVIOUS
  <2>2. QED BY <1>1, <2>1, Division, Zenon
<1> HIDE DEF q
<1>5. q * imp \in Nat /\ q * imp < pos /\ pos <= q * imp + imp
  <2>1. q * imp \in Nat
    BY <1>1, <1>4
  <2>2. QED BY <1>1, <1>4, <2>1
<1>6. Holds(q)
  BY <1>1, <1>5 DEF FirstRow, LastRow, Min2
<1>7. q < rounds
  <2>1. SUFFICES ASSUME rounds <= q
                 PROVE  FALSE
    BY <1>3, <1>4
  <2>2. rounds * imp <= q * imp /\ rounds * imp \in Nat
    BY <1>1, <1>3, <1>4, <2>1, ProductMonotone
  <2>3. QED BY <1>3, <1>5, <2>2
<1>8. ASSUME NEW b \in Nat, NEW c \in Nat, Holds(b), b < c
      PROVE  ~ Holds(c)
  <2>1. b * imp \in Nat /\ c * imp \in Nat /\ (b + 1) * imp = b * imp + imp
    BY <1>1, Distributes
  <2>2. (b + 1) * imp <= c * imp
    BY <1>1, <1>8, ProductMonotone
  <2>3. QED BY <1>1, <1>8, <2>1, <2>2 DEF FirstRow, LastRow, Min2
<1>9. \A b, c \in Nat : Holds(b) /\ Holds(c) => b = c
  <2>1. SUFFICES ASSUME NEW b \in Nat, NEW c \in Nat, Holds(b), Holds(c), b # c
                 PROVE  FALSE
    OBVIOUS
  <2>2. b < c \/ c < b
    BY <2>1
  <2> HIDE DEF Holds
  <2>3. QED BY <1>8, <2>1, <2>2
<1>10. \E b \in 0..(rounds - 1) : Holds(b)
  BY <1>3, <1>4, <1>6, <1>7
<1>11. QED BY <1>9, <1>10 DEF imp, rounds

\* The batches of a wave are the ones the code's inner loop launches: run counts up while
\* run < n_threads and (batch + run) * imp_batch_size < unprocessed_rows.
THEOREM WaveIsInnerLoop ==
  ASSUME NEW u \in Nat, NEW threads \in Nat \ {0}, NEW batch_size \in Nat \ {0},
         NEW batch \in Nat, batch < Rounds(u, threads, batch_size), NEW run \in Nat
  PROVE  LET imp == ImpBatchSize(u, threads, batch_size)
         IN  run < WaveSize(batch, Rounds(u, threads, batch_size), threads)
               <=> run < threads /\ (batch + run) * imp < u
<1> DEFINE imp == ImpBatchSize(u, threads, batch_size)
           rounds == Rounds(u, threads, batch_size)
<1>1. imp \in Nat \ {0}
  BY ImpPositive, Zenon
<1>2. rounds = CeilDiv(u, imp)
  BY DEF Rounds
<1> HIDE DEF imp, rounds
<1>3. /\ rounds \in Nat
      /\ u <= rounds * imp
      /\ \A b \in Nat : b < rounds => b * imp < u
  BY <1>1, <1>2, CeilDivBounds
<1>4. batch < rounds
  BY DEF rounds
<1>5. batch + run < rounds <=> (batch + run) * imp < u
  <2>1. batch + run < rounds => (batch + run) * imp < u
    BY <1>3
  <2>2. ASSUME rounds <= batch + run
        PROVE  ~ ((batch + run) * imp < u)
    <3>1. rounds * imp <= (batch + run) * imp
      BY <1>1, <1>3, <2>2, ProductMonotone
    <3>2. rounds * imp \in Nat /\ (batch + run) * imp \in Nat
      BY <1>1, <1>3
    <3>3. QED BY <1>3, <3>1, <3>2
  <2>3. QED BY <1>3, <2>1, <2>2
<1>6. run < WaveSize(batch, rounds, threads) <=> run < threads /\ batch + run < rounds
  BY <1>3, <1>4 DEF WaveSize, Min2
<1>7. QED BY <1>5, <1>6 DEF imp, rounds
=============================================================================
