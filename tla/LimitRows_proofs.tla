-------------------------- MODULE LimitRows_proofs --------------------------
(***************************************************************************)
(* RowsInv of LimitFilter is inductive, given IInv: no row is handed out   *)
(* twice, and every matching row is on its way, in the result or not       *)
(* needed, for any threads, tables, limits and verdicts. What follows is   *)
(* that a query returns as many rows as there are, up to its limit, and    *)
(* in which plans they are the first ones.                                 *)
(***************************************************************************)
EXTENDS LimitFilter_proofs
-----------------------------------------------------------------------------
(* Numbers. *)

LEMMA Smaller ==
  ASSUME NEW a \in Int, NEW b \in Int
  PROVE  /\ Min2(a, b) \in Int /\ Min2(a, b) <= a /\ Min2(a, b) <= b
         /\ Min2(a, b) = IF a <= b THEN a ELSE b
BY DEF Min2

LEMMA HasLeast ==
  ASSUME NEW S \in SUBSET Nat, S # {}
  PROVE  \E m \in S : \A x \in S : m <= x
<1> DEFINE T == {S \cap (0..m) : m \in S}
<1>1. IsWellFoundedOn(StrictSubsetOrdering(Nat), FiniteSubsetsOf(Nat))
  BY FS_StrictSubsetOrderingWellFounded
<1>2. T \subseteq FiniteSubsetsOf(Nat)
  <2>1. SUFFICES ASSUME NEW m \in S
                 PROVE  IsFiniteSet(S \cap (0..m)) /\ S \cap (0..m) \subseteq Nat
    BY DEF FiniteSubsetsOf
  <2>2. IsFiniteSet(0..m)
    BY FS_Interval
  <2>3. QED BY <2>2, FS_Intersection
<1>3. T # {}
  OBVIOUS
<1> HIDE DEF T
<1>4. PICK A \in T : \A B \in T : ~ (<<B, A>> \in StrictSubsetOrdering(Nat))
  BY <1>1, <1>2, <1>3, WFMin
<1>5. PICK m \in S : A = S \cap (0..m)
  BY <1>4 DEF T
<1>6. ASSUME NEW x \in S, x < m
      PROVE  FALSE
  <2> DEFINE B == S \cap (0..x)
  <2>1. B \in T
    BY <1>6 DEF T
  <2>2. B \subseteq A /\ m \in A /\ m \notin B
    BY <1>5, <1>6
  <2>3. A \subseteq Nat
    BY <1>5
  <2> HIDE DEF B
  <2>4. <<B, A>> \in StrictSubsetOrdering(Nat)
    BY <2>2, <2>3 DEF StrictSubsetOrdering
  <2>5. QED BY <1>4, <2>1, <2>4
<1>7. QED BY <1>6

\* What holds from one position to the next holds over any distance.
LEMMA Ascending ==
  ASSUME NEW n \in Nat, NEW f \in [1..n -> Nat],
         \A c \in 2..n : f[c - 1] <= f[c]
  PROVE  \A c, d \in 1..n : c <= d => f[c] <= f[d]
<1>1. SUFFICES ASSUME NEW c \in 1..n, NEW d \in 1..n, c <= d, ~ (f[c] <= f[d])
               PROVE  FALSE
  OBVIOUS
<1> DEFINE S == {e \in 1..n : c <= e /\ ~ (f[c] <= f[e])}
<1>2. S \subseteq Nat /\ S # {}
  <2>1. d \in S
    BY <1>1
  <2>2. S \subseteq 1..n
    OBVIOUS
  <2> HIDE DEF S
  <2>3. QED BY <2>1, <2>2
<1>3. PICK e \in S : \A x \in S : e <= x
  BY <1>2, HasLeast
<1>4. e # c
  BY <1>3
<1>5. e \in 2..n /\ e - 1 \in 1..n /\ c <= e - 1
  BY <1>3, <1>4
<1>6. e - 1 \notin S
  BY <1>3, <1>5
<1>7. f[c] <= f[e - 1] /\ f[e - 1] <= f[e]
  BY <1>5, <1>6
<1>8. /\ f[c] \in Nat /\ f[e - 1] \in Nat /\ f[e] \in Nat
      /\ ~ (f[c] <= f[e])
  BY <1>3, <1>5
<1>9. QED BY <1>7, <1>8
-----------------------------------------------------------------------------
(* Ranks: how many rows of a set are no greater than a row. *)

Rank(S, r) == Cardinality({q \in S : q <= r})

LEMMA RankType ==
  ASSUME NEW S \in SUBSET Nat, IsFiniteSet(S), NEW r
  PROVE  /\ IsFiniteSet({q \in S : q <= r})
         /\ Rank(S, r) \in Nat
         /\ Rank(S, r) <= Cardinality(S)
<1>1. {q \in S : q <= r} \subseteq S
  OBVIOUS
<1>2. QED BY <1>1, FS_Subset, FS_CardinalityType DEF Rank

LEMMA RankIncreases ==
  ASSUME NEW S \in SUBSET Nat, IsFiniteSet(S), NEW r \in Nat, NEW s \in S, r < s
  PROVE  Rank(S, r) < Rank(S, s)
<1> DEFINE A == {q \in S : q <= r}
           B == {q \in S : q <= s}
<1>1. A \subseteq B /\ s \in B /\ s \notin A
  <2>1. S \subseteq Nat /\ s \in Nat
    OBVIOUS
  <2>2. \A q \in Nat : q <= r => q <= s
    BY <2>1
  <2>3. ~ (s <= r) /\ s <= s
    BY <2>1
  <2>4. QED BY <2>1, <2>2, <2>3
<1>2. IsFiniteSet(A) /\ IsFiniteSet(B)
  BY RankType
<1> HIDE DEF A, B
<1>3. Cardinality(A) <= Cardinality(B) /\ Cardinality(A) # Cardinality(B)
  BY <1>1, <1>2, FS_Subset
<1>4. Cardinality(A) \in Nat /\ Cardinality(B) \in Nat
  BY <1>2, FS_CardinalityType
<1>5. QED BY <1>3, <1>4 DEF Rank, A, B

\* The ranks of a set's rows are the numbers up to its size, each once.
LEMMA RankBijection ==
  ASSUME NEW S \in SUBSET Nat, IsFiniteSet(S)
  PROVE  [r \in S |-> Rank(S, r)] \in Bijection(S, 1..Cardinality(S))
<1> DEFINE n == Cardinality(S)
           f == [r \in S |-> Rank(S, r)]
<1>1. n \in Nat
  BY FS_CardinalityType
<1>2. ASSUME NEW r \in S
      PROVE  Rank(S, r) \in 1..n
  <2> DEFINE B == {q \in S : q <= r}
  <2>1. r \in B /\ IsFiniteSet(B)
    BY RankType
  <2> HIDE DEF B
  <2>2. Cardinality(B) # 0
    BY <2>1, FS_EmptySet
  <2>3. QED BY <1>1, <2>2, RankType DEF Rank, B
<1>3. f \in [S -> 1..n]
  BY <1>2
<1>4. \A r, s \in S : f[r] = f[s] => r = s
  <2>1. SUFFICES ASSUME NEW r \in S, NEW s \in S, r < s
                 PROVE  f[r] # f[s]
    OBVIOUS
  <2>2. Rank(S, r) < Rank(S, s)
    BY <2>1, RankIncreases
  <2>3. QED BY <1>1, <1>2, <2>2
<1> HIDE DEF f
<1>5. f \in Injection(S, 1..n)
  BY <1>3, <1>4 DEF Injection, IsInjective
<1>6. IsFiniteSet(1..n) /\ Cardinality(1..n) = n
  BY <1>1, FS_Interval
<1>7. f \in Surjection(S, 1..n)
  BY <1>5, <1>6, FS_Injection
<1>8. QED BY <1>5, <1>7 DEF Bijection, f

\* How many rows are ranked from a + 1 to b.
LEMMA RankedCount ==
  ASSUME NEW S \in SUBSET Nat, IsFiniteSet(S), NEW a \in Nat, NEW b \in Nat, a <= b
  PROVE  LET R == {r \in S : a < Rank(S, r) /\ Rank(S, r) <= b}
             m == Min2(b, Cardinality(S))
         IN  /\ IsFiniteSet(R)
             /\ Cardinality(R) = IF m > a THEN m - a ELSE 0
<1> DEFINE n == Cardinality(S)
           m == Min2(b, n)
           R == {r \in S : a < Rank(S, r) /\ Rank(S, r) <= b}
           f == [r \in S |-> Rank(S, r)]
           g == [r \in R |-> Rank(S, r)]
<1>1. n \in Nat
  BY FS_CardinalityType
<1>2. m \in Nat /\ m <= n /\ m <= b /\ (m = n \/ m = b)
  BY <1>1 DEF Min2
<1>3. f \in Bijection(S, 1..n)
  BY RankBijection
<1>4. /\ \A r \in S : Rank(S, r) \in 1..n
      /\ \A r, s \in S : Rank(S, r) = Rank(S, s) => r = s
      /\ \A i \in 1..n : \E r \in S : Rank(S, r) = i
  <2> HIDE DEF n
  <2>1. f \in [S -> 1..n]
    BY <1>3 DEF Bijection, Injection
  <2>2. \A r, s \in S : f[r] = f[s] => r = s
    BY <1>3 DEF Bijection, Injection, IsInjective
  <2>3. \A i \in 1..n : \E r \in S : f[r] = i
    BY <1>3 DEF Bijection, Surjection
  <2>4. QED BY <2>1, <2>2, <2>3
<1>5. R \subseteq S
  OBVIOUS
<1> HIDE DEF n, m
<1>6. \A r \in R : Rank(S, r) \in (a + 1)..m
  BY <1>1, <1>2, <1>4
<1>7. \A i \in (a + 1)..m : \E r \in R : Rank(S, r) = i
  <2>1. SUFFICES ASSUME NEW i \in (a + 1)..m
                 PROVE  \E r \in R : Rank(S, r) = i
    OBVIOUS
  <2>2. i \in 1..n /\ a < i /\ i <= b
    BY <1>1, <1>2
  <2>3. PICK r \in S : Rank(S, r) = i
    BY <1>4, <2>2
  <2>4. QED BY <2>2, <2>3
<1>8. g \in Bijection(R, (a + 1)..m)
  <2> HIDE DEF R
  <2>1. g \in [R -> (a + 1)..m]
    BY <1>6
  <2>2. \A r, s \in R : g[r] = g[s] => r = s
    BY <1>4, <1>5
  <2>3. \A i \in (a + 1)..m : \E r \in R : g[r] = i
    BY <1>7
  <2> HIDE DEF g
  <2>4. QED BY <2>1, <2>2, <2>3 DEF Bijection, Injection, IsInjective, Surjection
<1>9. IsFiniteSet(R)
  BY <1>5, FS_Subset
<1>10. Cardinality((a + 1)..m) = Cardinality(R)
  <2> HIDE DEF R, g
  <2>1. ExistsBijection(R, (a + 1)..m)
    BY <1>8 DEF ExistsBijection
  <2>2. QED BY <1>9, <2>1, FS_Bijection
<1>11. Cardinality((a + 1)..m) = IF m > a THEN m - a ELSE 0
  <2>1. a + 1 \in Int /\ m \in Int
    BY <1>2
  <2>2. Cardinality((a + 1)..m) = IF a + 1 > m THEN 0 ELSE m - (a + 1) + 1
    BY <2>1, FS_Interval
  <2>3. QED BY <1>2, <2>2
<1>12. QED BY <1>9, <1>10, <1>11 DEF m, n
-----------------------------------------------------------------------------
(* Chunks. *)

\* Chunks come one after the other, and so do their batches.
LEMMA ChunkOrder ==
  ASSUME table \in Tables
  PROVE  /\ Chunks = 1..Len(table.ends) /\ Len(table.ends) \in Nat \ {0}
         /\ \A c, d \in Chunks : c < d => table.ends[c] <= Start(d)
         /\ \A c, d \in Chunks : c <= d => table.batches[c] <= table.batches[d]
         /\ \A c \in Chunks : c # 1 =>
               c - 1 \in Chunks /\ table.batches[c] \in {table.batches[c - 1], table.batches[c - 1] + 1}
<1> DEFINE n == Len(table.ends)
<1>1. /\ table.ends \in Seq(Nat \ {0})
      /\ table.batches \in [DOMAIN table.ends -> Nat \ {0}]
      /\ n > 0
      /\ \A c \in 2..n : /\ table.ends[c - 1] < table.ends[c]
                         /\ table.batches[c] \in {table.batches[c - 1], table.batches[c - 1] + 1}
  BY TablesAssumption
<1>2. n \in Nat \ {0} /\ DOMAIN table.ends = 1..n
  BY <1>1
<1> HIDE DEF n
<1>3. table.ends \in [1..n -> Nat] /\ table.batches \in [1..n -> Nat]
  BY <1>1, <1>2 DEF n
<1>4. \A c \in 2..n : c \in 1..n /\ c - 1 \in 1..n
  BY <1>2
<1>5. \A c, d \in 1..n : c <= d => table.ends[c] <= table.ends[d]
  <2>1. ASSUME NEW c \in 2..n
        PROVE  table.ends[c - 1] <= table.ends[c]
    <3>1. table.ends[c - 1] \in Nat /\ table.ends[c] \in Nat
      BY <1>3, <1>4
    <3>2. table.ends[c - 1] < table.ends[c]
      BY <1>1
    <3>3. QED BY <3>1, <3>2
  <2> DEFINE f == table.ends
  <2>2. f \in [1..n -> Nat] /\ \A c \in 2..n : f[c - 1] <= f[c]
    BY <1>3, <2>1
  <2> HIDE DEF f
  <2>3. \A c, d \in 1..n : c <= d => f[c] <= f[d]
    BY <1>2, <2>2, Ascending
  <2>4. QED BY <2>3 DEF f
<1>6. \A c, d \in 1..n : c <= d => table.batches[c] <= table.batches[d]
  <2>1. ASSUME NEW c \in 2..n
        PROVE  table.batches[c - 1] <= table.batches[c]
    <3>1. table.batches[c - 1] \in Nat /\ table.batches[c] \in Nat
      BY <1>3, <1>4
    <3>2. table.batches[c] \in {table.batches[c - 1], table.batches[c - 1] + 1}
      BY <1>1
    <3>3. QED BY <3>1, <3>2
  <2> DEFINE f == table.batches
  <2>2. f \in [1..n -> Nat] /\ \A c \in 2..n : f[c - 1] <= f[c]
    BY <1>3, <2>1
  <2> HIDE DEF f
  <2>3. \A c, d \in 1..n : c <= d => f[c] <= f[d]
    BY <1>2, <2>2, Ascending
  <2>4. QED BY <2>3 DEF f
<1>7. \A c, d \in 1..n : c < d => table.ends[c] <= Start(d)
  <2>1. SUFFICES ASSUME NEW c \in 1..n, NEW d \in 1..n, c < d
                 PROVE  table.ends[c] <= table.ends[d - 1] /\ d # 1
    BY DEF Start
  <2>2. d - 1 \in 1..n /\ c <= d - 1 /\ d # 1
    BY <1>2, <2>1
  <2>3. QED BY <1>5, <2>2
<1>8. \A c \in 1..n : c # 1 => c \in 2..n
  BY <1>2
<1>9. QED BY <1>1, <1>2, <1>4, <1>6, <1>7, <1>8 DEF Chunks, n

\* The rows of an earlier chunk are smaller.
LEMMA RowOrder ==
  ASSUME table \in Tables, NEW c \in Chunks, NEW d \in Chunks, NEW r \in Rows(c), NEW s \in Rows(d)
  PROVE  /\ r \in Nat /\ s \in Nat
         /\ c < d => r < s
         /\ r = s => c = d
<1>1. /\ Start(c) \in Nat /\ table.ends[c] \in Nat /\ c \in Nat
      /\ Start(d) \in Nat /\ table.ends[d] \in Nat /\ d \in Nat
  BY ChunkBounds
<1>2. c < d => table.ends[c] <= Start(d)
  BY ChunkOrder
<1>3. d < c => table.ends[d] <= Start(c)
  BY ChunkOrder
<1>4. /\ r \in Nat /\ Start(c) < r /\ r <= table.ends[c]
      /\ s \in Nat /\ Start(d) < s /\ s <= table.ends[d]
  BY <1>1 DEF Rows
<1>5. QED BY <1>1, <1>2, <1>3, <1>4

\* Every row that may match is in a chunk.
LEMMA ChunkOfRow ==
  ASSUME table \in Tables, matching \in table.verdicts, NEW r \in matching
  PROVE  \E c \in Chunks : r \in Rows(c)
<1> DEFINE n == Len(table.ends)
<1>1. /\ Chunks = 1..n /\ n \in Nat \ {0}
      /\ \A c \in Chunks : table.ends[c] \in Nat /\ Start(c) \in Nat
  BY ChunkOrder, ChunkBounds
<1>2. r \in 1..table.ends[n]
  <2>1. table.verdicts \subseteq SUBSET (1..table.ends[n])
    BY TablesAssumption
  <2>2. QED BY <2>1
<1> HIDE DEF n
<1>3. r \in Nat \ {0} /\ r <= table.ends[n] /\ n \in Chunks
  BY <1>1, <1>2
<1> DEFINE S == {c \in Chunks : r <= table.ends[c]}
<1>4. S \subseteq Nat /\ S # {}
  <2>1. n \in S
    BY <1>3
  <2>2. S \subseteq Chunks
    OBVIOUS
  <2> HIDE DEF S
  <2>3. QED BY <1>1, <2>1, <2>2
<1>5. PICK c \in S : \A d \in S : c <= d
  BY <1>4, HasLeast
<1>6. Start(c) < r
  <2>1. CASE c = 1
    BY <1>3, <2>1 DEF Start
  <2>2. CASE c # 1
    <3>1. c - 1 \in Chunks
      BY <1>1, <1>5, <2>2
    <3>2. c - 1 \notin S
      BY <1>1, <1>5
    <3>3. table.ends[c - 1] < r
      <4>1. ~ (r <= table.ends[c - 1])
        BY <3>1, <3>2
      <4>2. table.ends[c - 1] \in Nat
        BY <1>1, <3>1
      <4>3. QED BY <1>3, <4>1, <4>2
    <3>4. QED BY <2>2, <3>3 DEF Start
  <2>3. QED BY <2>1, <2>2
<1>7. r \in Rows(c)
  BY <1>1, <1>3, <1>5, <1>6 DEF Rows
<1>8. QED BY <1>5, <1>7

\* While a chunk's batch is not handed out, the source has a next one.
LEMMA NoneLeft ==
  ASSUME TypeOK, FirstOfNextBatch = {}
  PROVE  \A c \in Chunks : table.batches[c] <= taken
<1>1. /\ Chunks \subseteq Nat /\ taken \in Nat
      /\ \A c \in Chunks : table.batches[c] \in Nat
  BY ChunkBounds DEF TypeOK
<1>2. SUFFICES ASSUME NEW c \in Chunks, ~ (table.batches[c] <= taken)
               PROVE  FALSE
  OBVIOUS
<1> DEFINE S == {d \in Chunks : ~ (table.batches[d] <= taken)}
<1>3. c \in S /\ S \subseteq Chunks
  BY <1>2
<1> HIDE DEF S
<1>4. PICK d \in S : \A e \in S : d <= e
  BY <1>1, <1>3, HasLeast
<1>5. \A e \in Chunks : e < d => table.batches[e] <= taken
  <2>1. SUFFICES ASSUME NEW e \in Chunks, e < d, ~ (table.batches[e] <= taken)
                 PROVE  FALSE
    OBVIOUS
  <2>2. e \in S
    BY <2>1 DEF S
  <2>3. d <= e /\ d \in Nat /\ e \in Nat
    BY <1>1, <1>3, <1>4, <2>2
  <2>4. QED BY <2>1, <2>3
<1>6. table.batches[d] > taken
  BY <1>1, <1>3, <1>4 DEF S
<1>7. d \in FirstOfNextBatch
  BY <1>3, <1>4, <1>5, <1>6 DEF FirstOfNextBatch
<1>8. QED BY <1>7
-----------------------------------------------------------------------------
(* The chunks ahead, and what each step makes of them. *)

LEMMA AheadSame ==
  ASSUME UNCHANGED <<table, matching, at, taken>>,
         \A u \in Threads : pc'[u] \in Busy <=> pc[u] \in Busy
  PROVE  /\ \A c : Ahead(c)' <=> Ahead(c)
         /\ RowsAhead' = RowsAhead /\ RowsBehind' = RowsBehind
<1>1. \A c : Ahead(c)' <=> Ahead(c)
  BY DEF Ahead
<1>2. RowsAhead' = RowsAhead
  BY <1>1 DEF RowsAhead, Chunks, Rows, Start
<1>3. QED BY <1>1, <1>2 DEF RowsBehind

\* A thread is through with its chunk: the chunk is ahead no longer.
LEMMA AheadLess ==
  ASSUME TypeOK, SourceInv, NEW t \in Threads, at[t] # 0, pc[t] \in Busy,
         UNCHANGED <<table, matching, at, taken>>,
         NEW w, w \notin Busy, pc' = [pc EXCEPT ![t] = w]
  PROVE  /\ at[t] \in Chunks /\ Ahead(at[t])
         /\ \A c \in Chunks : Ahead(c)' <=> Ahead(c) /\ c # at[t]
<1>1. at[t] \in Chunks /\ Chunks \subseteq Nat /\ taken \in Nat
  BY ChunkBounds DEF TypeOK
<1>2. \A c \in Chunks : table.batches[c] \in Nat
  BY ChunkBounds DEF TypeOK
<1>3. Ahead(at[t])
  BY DEF Ahead
<1>4. /\ pc'[t] = w
      /\ \A u \in Threads : u # t => pc'[u] = pc[u]
  BY DEF TypeOK
<1>5. ASSUME NEW c \in Chunks, Ahead(c), c # at[t]
      PROVE  Ahead(c)'
  BY <1>4, <1>5 DEF Ahead
<1>6. ASSUME NEW c \in Chunks, Ahead(c)'
      PROVE  Ahead(c) /\ c # at[t]
  <2>1. Ahead(c)
    BY <1>4, <1>6 DEF Ahead
  <2>2. c # at[t]
    <3>1. SUFFICES ASSUME c = at[t]
                   PROVE  FALSE
      OBVIOUS
    <3>2. table.batches[c] <= taken
      BY <3>1 DEF SourceInv
    <3>3. ~ (table.batches[c] > taken)
      BY <1>1, <1>2, <3>2
    <3>4. PICK u \in Threads : /\ at[u] # 0
                               /\ table.batches[c] = table.batches[at[u]]
                               /\ c > at[u] \/ (c = at[u] /\ pc'[u] \in Busy)
      BY <1>6, <3>3 DEF Ahead
    <3>5. u = t
      BY <3>1, <3>4 DEF SourceInv
    <3>6. ~ (c > at[t])
      BY <1>1, <3>1
    <3>7. QED BY <1>4, <3>4, <3>5, <3>6
  <2>3. QED BY <2>1, <2>2
<1>7. QED BY <1>1, <1>3, <1>5, <1>6

\* The matching rows of the thread's chunk.
LEMMA ChunkMatches ==
  ASSUME TypeOK, NEW t \in Threads, at[t] # 0
  PROVE  /\ at[t] \in Chunks
         /\ Matches(t, table.ends[at[t]]) = Rows(at[t]) \cap matching
         /\ \A e \in Start(at[t])..table.ends[at[t]] : Matches(t, e) \subseteq Rows(at[t]) \cap matching
<1>1. at[t] \in Chunks /\ table.ends[at[t]] \in Nat /\ Start(at[t]) \in Nat
  BY ChunkBounds DEF TypeOK
<1>2. matching \subseteq Nat
  BY MatchingFinite DEF TypeOK
<1>3. ASSUME NEW r \in matching
      PROVE  r \in Rows(at[t]) <=> Start(at[t]) < r /\ r <= table.ends[at[t]]
  <2>1. r \in Nat
    BY <1>2
  <2>2. QED BY <1>1, <2>1 DEF Rows
<1>4. Matches(t, table.ends[at[t]]) = Rows(at[t]) \cap matching
  BY <1>3 DEF Matches
<1>5. ASSUME NEW e \in Start(at[t])..table.ends[at[t]], NEW r \in Matches(t, e)
      PROVE  r \in Rows(at[t]) \cap matching
  <2>1. r \in matching /\ Start(at[t]) < r /\ r <= e
    BY DEF Matches
  <2>2. r <= table.ends[at[t]]
    BY <1>1, <1>2, <2>1
  <2>3. QED BY <1>3, <2>1, <2>2
<1>6. QED BY <1>1, <1>4, <1>5

LEMMA BehindMore ==
  ASSUME TypeOK, SourceInv, NEW t \in Threads, at[t] # 0, pc[t] \in Busy,
         UNCHANGED <<table, matching, at, taken>>,
         NEW w, w \notin Busy, pc' = [pc EXCEPT ![t] = w]
  PROVE  LET M == Matches(t, table.ends[at[t]])
         IN  /\ M \subseteq RowsAhead
             /\ RowsAhead' = RowsAhead \ M
             /\ RowsBehind' = RowsBehind \cup M
<1> DEFINE M == Matches(t, table.ends[at[t]])
<1>1. M = Rows(at[t]) \cap matching /\ at[t] \in Chunks /\ Ahead(at[t])
  BY ChunkMatches, AheadLess
<1>2. \A c \in Chunks : Ahead(c)' <=> Ahead(c) /\ c # at[t]
  BY AheadLess
<1>3. M \subseteq RowsAhead
  BY <1>1 DEF RowsAhead
<1>4. RowsAhead' = {r \in matching : \E c \in Chunks : r \in Rows(c) /\ Ahead(c)'}
  BY DEF RowsAhead, Chunks, Rows, Start
<1>5. \A c \in Chunks, r \in matching : r \in Rows(c) /\ r \in M => c = at[t]
  BY <1>1, RowOrder DEF TypeOK
<1> HIDE DEF M
<1>6. RowsAhead' = RowsAhead \ M
  <2>1. ASSUME NEW r \in RowsAhead'
        PROVE  r \in RowsAhead \ M
    BY <1>2, <1>4, <1>5 DEF RowsAhead
  <2>2. ASSUME NEW r \in RowsAhead, r \notin M
        PROVE  r \in RowsAhead'
    BY <1>1, <1>2, <1>4, <2>2 DEF RowsAhead
  <2>3. QED BY <2>1, <2>2
<1>7. RowsBehind' = RowsBehind \cup M
  <2>1. M \subseteq matching
    BY <1>1
  <2>2. RowsBehind' = matching \ RowsAhead'
    BY DEF RowsBehind
  <2>3. QED BY <1>3, <1>6, <2>1, <2>2 DEF RowsBehind
<1>8. QED BY <1>3, <1>6, <1>7 DEF M

\* What a thread fetches was ahead, and stays so.
LEMMA FetchShape ==
  ASSUME TypeOK, NEW t \in Threads, Fetch(t)
  PROVE  \E c \in Chunks :
            /\ at' = [at EXCEPT ![t] = c]
            /\ UNCHANGED <<table, matching, plan, limit_reached>>
            /\ pc[t] = "fetch" /\ pc' = [pc EXCEPT ![t] = "filter"]
            /\ \/ /\ at[t] # 0 /\ c = at[t] + 1 /\ table.batches[c] = table.batches[at[t]]
                  /\ taken' = IF table.batches[c] > taken THEN table.batches[c] ELSE taken
               \/ /\ NextInBatch(t) = {}
                  /\ table.batches[c] > taken
                  /\ \A d \in Chunks : d < c => table.batches[d] <= taken
                  /\ taken' = table.batches[c]
<1>1. PICK c \in IF NextInBatch(t) # {} THEN NextInBatch(t) ELSE FirstOfNextBatch :
         /\ at' = [at EXCEPT ![t] = c]
         /\ taken' = IF table.batches[c] > taken THEN table.batches[c] ELSE taken
  BY DEF Fetch
<1>2. /\ UNCHANGED <<table, matching, plan, limit_reached>>
      /\ pc[t] = "fetch" /\ pc' = [pc EXCEPT ![t] = "filter"]
  BY DEF Fetch, Goto, queryVars, filterVars
<1>3. CASE NextInBatch(t) # {}
  <2>1. c \in NextInBatch(t)
    BY <1>1, <1>3
  <2>2. c \in Chunks /\ at[t] # 0 /\ c = at[t] + 1 /\ table.batches[c] = table.batches[at[t]]
    BY <2>1 DEF NextInBatch
  <2>3. QED BY <1>1, <1>2, <2>2
<1>4. CASE NextInBatch(t) = {}
  <2>1. c \in FirstOfNextBatch
    BY <1>1, <1>4
  <2>2. /\ c \in Chunks /\ table.batches[c] > taken
        /\ \A d \in Chunks : d < c => table.batches[d] <= taken
    BY <2>1 DEF FirstOfNextBatch
  <2>3. QED BY <1>1, <1>2, <1>4, <2>2
<1>5. QED BY <1>3, <1>4

LEMMA AheadFetch ==
  ASSUME TypeOK, SourceInv, NEW t \in Threads, Fetch(t)
  PROVE  /\ SourceInv'
         /\ \A c \in Chunks : Ahead(c)' <=> Ahead(c)
         /\ RowsAhead' = RowsAhead /\ RowsBehind' = RowsBehind
         /\ at'[t] \in Chunks /\ at'[t] # 0
         /\ at[t] # 0 => at[t] < at'[t]
<1>1. PICK c \in Chunks :
         /\ at' = [at EXCEPT ![t] = c]
         /\ UNCHANGED <<table, matching, plan, limit_reached>>
         /\ pc[t] = "fetch" /\ pc' = [pc EXCEPT ![t] = "filter"]
         /\ \/ /\ at[t] # 0 /\ c = at[t] + 1 /\ table.batches[c] = table.batches[at[t]]
               /\ taken' = IF table.batches[c] > taken THEN table.batches[c] ELSE taken
            \/ /\ NextInBatch(t) = {}
               /\ table.batches[c] > taken
               /\ \A d \in Chunks : d < c => table.batches[d] <= taken
               /\ taken' = table.batches[c]
  BY FetchShape
<1>2. /\ table \in Tables /\ taken \in Nat
      /\ Chunks \subseteq Nat \ {0}
      /\ \A d \in Chunks : table.batches[d] \in Nat
      /\ \A u \in Threads : at[u] # 0 => at[u] \in Chunks
  BY ChunkBounds DEF TypeOK
<1>3. \A d, e \in Chunks : d <= e => table.batches[d] <= table.batches[e]
  BY <1>2, ChunkOrder
<1>4. /\ at'[t] = c /\ pc'[t] = "filter"
      /\ \A u \in Threads : u # t => at'[u] = at[u] /\ pc'[u] = pc[u]
      /\ table' = table
  BY <1>1 DEF TypeOK
<1>5. /\ \A u \in Threads : at[u] # 0 => table.batches[at[u]] <= taken
      /\ \A u, v \in Threads : u # v /\ at[u] # 0 /\ at[v] # 0
            => table.batches[at[u]] # table.batches[at[v]]
  BY DEF SourceInv
<1>6. CASE at[t] # 0 /\ c = at[t] + 1 /\ table.batches[c] = table.batches[at[t]]
           /\ taken' = IF table.batches[c] > taken THEN table.batches[c] ELSE taken
  <2>1. taken' = taken /\ at[t] \in Chunks /\ at[t] < c
    BY <1>2, <1>5, <1>6
  <2>2. SourceInv'
    BY <1>1, <1>2, <1>4, <1>5, <1>6, <2>1 DEF SourceInv, Pushed
  <2>3. ASSUME NEW d \in Chunks
        PROVE  Ahead(d)' <=> Ahead(d)
    <3>1. d > at[t] <=> d > c \/ d = c
      BY <1>2, <1>6, <2>1
    <3>2. pc[t] \notin Busy /\ pc'[t] \in Busy
      BY <1>1, <1>4 DEF Busy
    <3>3. \A u \in Threads :
             /\ at'[u] # 0 <=> at[u] # 0
             /\ at[u] # 0 => table.batches[at'[u]] = table.batches[at[u]]
             /\ at[u] # 0 => (d > at'[u] \/ (d = at'[u] /\ pc'[u] \in Busy)
                                <=> d > at[u] \/ (d = at[u] /\ pc[u] \in Busy))
      BY <1>2, <1>4, <1>6, <2>1, <3>1, <3>2
    <3>4. QED BY <1>4, <2>1, <3>3 DEF Ahead
  <2>4. QED BY <1>1, <1>2, <1>4, <2>1, <2>2, <2>3 DEF RowsAhead, RowsBehind, Chunks, Rows, Start
<1>7. CASE /\ NextInBatch(t) = {}
           /\ table.batches[c] > taken
           /\ \A d \in Chunks : d < c => table.batches[d] <= taken
           /\ taken' = table.batches[c]
  <2>1. /\ taken' \in Nat /\ taken < taken'
        /\ \A d \in Chunks : table.batches[d] > taken =>
              d >= c /\ table.batches[d] >= table.batches[c]
    <3>1. taken' \in Nat /\ taken < taken'
      BY <1>2, <1>7
    <3>2. ASSUME NEW d \in Chunks, table.batches[d] > taken
          PROVE  d >= c /\ table.batches[d] >= table.batches[c]
      <4>1. ~ (d < c)
        BY <1>2, <1>7, <3>2
      <4>2. c <= d
        BY <1>2, <4>1
      <4>3. QED BY <1>2, <1>3, <4>2
    <3>3. QED BY <3>1, <3>2
  <2>2. SourceInv'
    <3>1. \A u \in Threads : at'[u] # 0 => table.batches[at'[u]] <= taken'
      BY <1>2, <1>4, <1>5, <1>7, <2>1
    <3>2. \A u \in Threads : u # t /\ at'[u] # 0 => table.batches[at'[u]] # table.batches[c]
      BY <1>2, <1>4, <1>5, <1>7
    <3>3. \A u, v \in Threads : u # v /\ at'[u] # 0 /\ at'[v] # 0
            => table.batches[at'[u]] # table.batches[at'[v]]
      BY <1>4, <1>5, <3>2
    <3>4. QED BY <1>1, <3>1, <3>3 DEF SourceInv, Pushed
  <2>3. ASSUME at[t] # 0
        PROVE  /\ at[t] < c
               /\ \A d \in Chunks : table.batches[d] = table.batches[at[t]] => ~ (d > at[t])
    <3>1. at[t] \in Chunks /\ table.batches[at[t]] <= taken
      BY <1>2, <1>5, <2>3
    <3>2. at[t] < c
      <4>1. table.batches[c] \in Nat /\ table.batches[at[t]] \in Nat /\ c \in Nat /\ at[t] \in Nat
        BY <1>2, <3>1
      <4>2. c <= at[t] => table.batches[c] <= table.batches[at[t]]
        BY <1>3, <3>1
      <4>3. QED BY <1>2, <1>7, <3>1, <4>1, <4>2
    <3>3. ASSUME NEW d \in Chunks, table.batches[d] = table.batches[at[t]], d > at[t]
          PROVE  FALSE
      <4>1. /\ at[t] \in Nat /\ d \in Nat /\ at[t] + 1 <= d /\ at[t] <= at[t] + 1
            /\ at[t] + 1 \in 1..Len(table.ends)
        BY <1>2, <3>1, <3>3, ChunkOrder
      <4>2. at[t] + 1 \in Chunks
        BY <1>2, <4>1, ChunkOrder
      <4>3. /\ table.batches[at[t]] <= table.batches[at[t] + 1]
            /\ table.batches[at[t] + 1] <= table.batches[d]
        BY <1>3, <3>1, <4>1, <4>2
      <4>4. table.batches[at[t] + 1] = table.batches[at[t]]
        <5>1. table.batches[at[t] + 1] \in Nat /\ table.batches[at[t]] \in Nat
          BY <1>2, <3>1, <4>2
        <5>2. QED BY <3>3, <4>3, <5>1
      <4>5. at[t] + 1 \in NextInBatch(t)
        BY <2>3, <4>2, <4>4 DEF NextInBatch
      <4>6. QED BY <1>7, <4>5
    <3>4. QED BY <3>2, <3>3
  <2>4. ASSUME NEW d \in Chunks
        PROVE  Ahead(d)' <=> Ahead(d)
    <3>1. d \in Nat /\ c \in Nat /\ c # 0 /\ table.batches[d] \in Nat /\ table.batches[c] \in Nat
      BY <1>2
    <3>2. pc[t] \notin Busy /\ pc'[t] \in Busy
      BY <1>1, <1>4 DEF Busy
    <3>3. ASSUME Ahead(d)
          PROVE  Ahead(d)'
      <4>1. CASE table.batches[d] > taken
        <5>1. d >= c /\ table.batches[d] >= table.batches[c]
          BY <2>1, <4>1
        <5>2. table.batches[d] > taken' \/ table.batches[d] = table.batches[c]
          BY <1>7, <3>1, <5>1
        <5>3. d > c \/ d = c
          BY <3>1, <5>1
        <5>4. QED BY <1>4, <3>1, <3>2, <5>2, <5>3 DEF Ahead
      <4>2. CASE \E u \in Threads : /\ at[u] # 0
                                    /\ table.batches[d] = table.batches[at[u]]
                                    /\ d > at[u] \/ (d = at[u] /\ pc[u] \in Busy)
        <5>1. PICK u \in Threads : /\ at[u] # 0
                                   /\ table.batches[d] = table.batches[at[u]]
                                   /\ d > at[u] \/ (d = at[u] /\ pc[u] \in Busy)
          BY <4>2
        <5>2. u # t
          BY <2>3, <3>2, <5>1
        <5>3. QED BY <1>4, <5>1, <5>2 DEF Ahead
      <4>3. QED BY <3>3, <4>1, <4>2 DEF Ahead
    <3>4. ASSUME Ahead(d)'
          PROVE  Ahead(d)
      <4>1. CASE table.batches[d] > taken'
        BY <1>2, <2>1, <3>1, <4>1 DEF Ahead
      <4>2. CASE \E u \in Threads : /\ at'[u] # 0
                                    /\ table.batches[d] = table.batches[at'[u]]
                                    /\ d > at'[u] \/ (d = at'[u] /\ pc'[u] \in Busy)
        <5>1. PICK u \in Threads : /\ at'[u] # 0
                                   /\ table.batches[d] = table.batches[at'[u]]
                                   /\ d > at'[u] \/ (d = at'[u] /\ pc'[u] \in Busy)
          BY <4>2
        <5>2. CASE u = t
          <6>1. table.batches[d] > taken
            BY <1>4, <1>7, <5>1, <5>2
          <6>2. QED BY <6>1 DEF Ahead
        <5>3. CASE u # t
          BY <1>4, <5>1, <5>3 DEF Ahead
        <5>4. QED BY <5>2, <5>3
      <4>3. QED BY <1>4, <3>4, <4>1, <4>2 DEF Ahead
    <3>5. QED BY <3>3, <3>4
  <2>5. QED BY <1>1, <1>2, <1>4, <2>2, <2>3, <2>4 DEF RowsAhead, RowsBehind, Chunks, Rows, Start
<1>8. QED BY <1>1, <1>6, <1>7
-----------------------------------------------------------------------------
(* Increasing sequences of rows. *)

RowsOf(s) == {s[i] : i \in DOMAIN s}

LEMMA Joined ==
  ASSUME NEW s \in Seq(Nat), NEW u \in Seq(Nat)
  PROVE  /\ RowsOf(s \o u) = RowsOf(s) \cup RowsOf(u)
         /\ (/\ Increasing(s) /\ Increasing(u)
             /\ \A q \in RowsOf(s), r \in RowsOf(u) : q < r) => Increasing(s \o u)
<1>1. /\ Len(s) \in Nat /\ Len(u) \in Nat
      /\ DOMAIN s = 1..Len(s) /\ DOMAIN u = 1..Len(u)
      /\ s \o u \in Seq(Nat) /\ DOMAIN (s \o u) = 1..(Len(s) + Len(u))
      /\ \A i \in 1..Len(s) : (s \o u)[i] = s[i]
      /\ \A i \in 1..Len(u) : (s \o u)[Len(s) + i] = u[i]
  OBVIOUS
<1> DEFINE w == s \o u
           m == Len(s)
           n == Len(u)
<1>2. /\ m \in Nat /\ n \in Nat /\ DOMAIN s = 1..m /\ DOMAIN u = 1..n
      /\ DOMAIN w = 1..(m + n)
      /\ \A i \in 1..m : w[i] = s[i]
      /\ \A i \in 1..n : w[m + i] = u[i]
  BY <1>1
<1> HIDE DEF w, m, n
<1>3. \A i \in 1..(m + n) : i \in 1..m \/ (i - m \in 1..n /\ i = m + (i - m))
  BY <1>2
<1>4. \A i \in 1..m : i \in 1..(m + n)
  BY <1>2
<1>5. \A i \in 1..n : m + i \in 1..(m + n)
  BY <1>2
<1>6. RowsOf(w) = RowsOf(s) \cup RowsOf(u)
  <2>1. RowsOf(w) \subseteq RowsOf(s) \cup RowsOf(u)
    <3>1. SUFFICES ASSUME NEW i \in 1..(m + n)
                   PROVE  w[i] \in RowsOf(s) \cup RowsOf(u)
      BY <1>2 DEF RowsOf
    <3>2. CASE i \in 1..m
      BY <1>2, <3>2 DEF RowsOf
    <3>3. CASE i - m \in 1..n /\ i = m + (i - m)
      BY <1>2, <3>3 DEF RowsOf
    <3>4. QED BY <1>3, <3>2, <3>3
  <2>2. RowsOf(s) \cup RowsOf(u) \subseteq RowsOf(w)
    BY <1>2, <1>4, <1>5 DEF RowsOf
  <2>3. QED BY <2>1, <2>2
<1>7. ASSUME Increasing(s), Increasing(u), \A q \in RowsOf(s), r \in RowsOf(u) : q < r
      PROVE  Increasing(w)
  <2>1. SUFFICES ASSUME NEW i \in 1..(m + n), NEW j \in 1..(m + n), i < j
                 PROVE  w[i] < w[j]
    BY <1>2 DEF Increasing
  <2>2. CASE j \in 1..m
    <3>1. i \in 1..m
      BY <1>2, <2>1, <2>2
    <3>2. QED BY <1>2, <1>7, <2>1, <2>2, <3>1 DEF Increasing
  <2>3. CASE i \in 1..m /\ j - m \in 1..n /\ j = m + (j - m)
    <3>1. w[i] \in RowsOf(s) /\ w[j] \in RowsOf(u)
      BY <1>2, <2>3 DEF RowsOf
    <3>2. QED BY <1>7, <3>1
  <2>4. CASE i - m \in 1..n /\ i = m + (i - m) /\ j - m \in 1..n /\ j = m + (j - m)
    <3>1. i - m < j - m
      BY <1>2, <2>1
    <3>2. u[i - m] < u[j - m]
      BY <1>2, <1>7, <2>4, <3>1 DEF Increasing
    <3>3. QED BY <1>2, <2>4, <3>2
  <2>5. QED BY <1>3, <2>2, <2>3, <2>4
<1>8. QED BY <1>6, <1>7 DEF w

LEMMA Cut ==
  ASSUME NEW s \in Seq(Nat), NEW a \in Nat \ {0}, NEW b \in Int, b <= Len(s)
  PROVE  /\ SubSeq(s, a, b) \in Seq(Nat)
         /\ RowsOf(SubSeq(s, a, b)) = {s[i] : i \in a..b}
         /\ Increasing(s) => Increasing(SubSeq(s, a, b))
<1> DEFINE w == SubSeq(s, a, b)
           n == IF a <= b THEN b - a + 1 ELSE 0
<1>1. n \in Nat /\ Len(s) \in Nat /\ DOMAIN s = 1..Len(s)
  OBVIOUS
<1>2. \A i \in a..b : i \in 1..Len(s)
  BY <1>1
<1>3. w \in Seq(Nat) /\ Len(w) = n /\ \A i \in 1..n : w[i] = s[a + i - 1]
  BY <1>1, <1>2, SubSeqProperties
<1>4. DOMAIN w = 1..n
  BY <1>3
<1> HIDE DEF w
<1>5. \A i \in 1..n : a + i - 1 \in a..b
  BY <1>1
<1>6. \A i \in a..b : i - a + 1 \in 1..n /\ a + (i - a + 1) - 1 = i
  BY <1>1
<1> HIDE DEF n
<1>7. RowsOf(w) = {s[i] : i \in a..b}
  <2>1. RowsOf(w) \subseteq {s[i] : i \in a..b}
    BY <1>3, <1>4, <1>5 DEF RowsOf
  <2>2. ASSUME NEW i \in a..b
        PROVE  s[i] \in RowsOf(w)
    <3>1. w[i - a + 1] = s[i]
      BY <1>3, <1>6
    <3>2. QED BY <1>4, <1>6, <3>1 DEF RowsOf
  <2>3. QED BY <2>1, <2>2
<1>8. ASSUME Increasing(s)
      PROVE  Increasing(w)
  <2>1. SUFFICES ASSUME NEW i \in 1..n, NEW j \in 1..n, i < j
                 PROVE  w[i] < w[j]
    BY <1>4 DEF Increasing
  <2>2. a + i - 1 < a + j - 1
    BY <1>1, <2>1
  <2>3. a + i - 1 \in 1..Len(s) /\ a + j - 1 \in 1..Len(s)
    BY <1>2, <1>5
  <2>4. s[a + i - 1] < s[a + j - 1]
    BY <1>1, <1>8, <2>2, <2>3 DEF Increasing
  <2>5. QED BY <1>3, <2>4
<1>9. QED BY <1>3, <1>7, <1>8 DEF w

LEMMA CutLength ==
  ASSUME NEW s \in Seq(Nat), NEW n \in Nat, n <= Len(s)
  PROVE  SubSeq(s, 1, n) \in Seq(Nat) /\ Len(SubSeq(s, 1, n)) = n
<1>1. \A i \in 1..n : i \in 1..Len(s)
  OBVIOUS
<1>2. QED BY <1>1, SubSeqProperties

\* An increasing sequence has as many rows as positions.
LEMMA PickedCount ==
  ASSUME NEW s \in Seq(Nat), Increasing(s), NEW a \in Nat \ {0}, NEW b \in Int, b <= Len(s)
  PROVE  /\ IsFiniteSet({s[i] : i \in a..b})
         /\ Cardinality({s[i] : i \in a..b}) = IF a <= b THEN b - a + 1 ELSE 0
<1> DEFINE S == {s[i] : i \in a..b}
           f == [i \in a..b |-> s[i]]
<1>1. Len(s) \in Nat /\ DOMAIN s = 1..Len(s)
  OBVIOUS
<1>2. \A i \in a..b : i \in DOMAIN s /\ s[i] \in Nat
  BY <1>1
<1>3. \A i, j \in a..b : s[i] = s[j] => i = j
  <2>1. SUFFICES ASSUME NEW i \in a..b, NEW j \in a..b, i < j
                 PROVE  s[i] # s[j]
    OBVIOUS
  <2>2. s[i] < s[j] /\ s[i] \in Nat /\ s[j] \in Nat
    BY <1>2, <2>1 DEF Increasing
  <2>3. QED BY <2>2
<1>4. f \in [a..b -> S]
  OBVIOUS
<1>5. \A i, j \in a..b : f[i] = f[j] => i = j
  BY <1>3
<1>6. \A x \in S : \E i \in a..b : f[i] = x
  OBVIOUS
<1> HIDE DEF f, S
<1>7. f \in Bijection(a..b, S)
  BY <1>4, <1>5, <1>6 DEF Bijection, Injection, IsInjective, Surjection
<1>8. IsFiniteSet(a..b) /\ Cardinality(a..b) = IF a > b THEN 0 ELSE b - a + 1
  BY FS_Interval
<1>9. ExistsBijection(a..b, S)
  BY <1>7 DEF ExistsBijection
<1>10. IsFiniteSet(S) /\ Cardinality(S) = Cardinality(a..b)
  BY <1>8, <1>9, FS_Bijection
<1>11. Cardinality(S) = IF a <= b THEN b - a + 1 ELSE 0
  BY <1>8, <1>10
<1>12. QED BY <1>10, <1>11 DEF S

\* A selection of a set holds its rows.
LEMMA Selected ==
  ASSUME NEW S \in SUBSET Nat, IsFiniteSet(S), NEW s \in Selections(S)
  PROVE  s \in Seq(Nat) /\ Increasing(s) /\ RowsOf(s) = S /\ Len(s) = Cardinality(S)
<1> DEFINE n == Cardinality(S)
<1>1. n \in Nat
  BY FS_CardinalityType
<1>2. s \in [1..n -> S] /\ \A i, j \in DOMAIN s : i < j => s[i] < s[j]
  BY DEF Selections
<1> HIDE DEF n
<1>3. s \in Seq(Nat) /\ Len(s) = n /\ DOMAIN s = 1..n
  <2>1. s \in [1..n -> Nat]
    BY <1>2
  <2>2. QED BY <1>1, <2>1
<1>4. Increasing(s)
  BY <1>2 DEF Increasing
<1>5. RowsOf(s) = {s[i] : i \in 1..n} /\ RowsOf(s) \subseteq S
  BY <1>2, <1>3 DEF RowsOf
<1>6. Cardinality({s[i] : i \in 1..n}) = n
  <2>1. 1 \in Nat \ {0} /\ n \in Int /\ n <= Len(s)
    BY <1>1, <1>3
  <2>2. Cardinality({s[i] : i \in 1..n}) = IF 1 <= n THEN n - 1 + 1 ELSE 0
    BY <1>3, <1>4, <2>1, PickedCount
  <2>3. QED BY <1>1, <2>2
<1>7. Cardinality(RowsOf(s)) = Cardinality(S)
  BY <1>5, <1>6 DEF n
<1>8. RowsOf(s) = S
  BY <1>5, <1>7, FS_Subset
<1>9. QED BY <1>3, <1>4, <1>8 DEF n
-----------------------------------------------------------------------------
(* The steps of one thread. *)

LEMMA RowSeqs ==
  ASSUME TypeOK, NEW t \in Threads
  PROVE  /\ out[t] \in Seq(Nat) /\ local[t] \in Seq(Nat)
         /\ Len(out[t]) \in Nat /\ Len(local[t]) \in Nat
         /\ OutRows(t) = RowsOf(out[t]) /\ Held(t) = RowsOf(local[t])
         /\ OutRows(t) \subseteq matching /\ Held(t) \subseteq matching
         /\ IsFiniteSet(matching) /\ matching \subseteq Nat
<1>1. IsFiniteSet(matching) /\ matching \subseteq Nat
  BY MatchingFinite DEF TypeOK
<1>2. out[t] \in Seq(matching) /\ local[t] \in Seq(matching)
  BY DEF TypeOK
<1>3. \A s \in Seq(matching) : s \in Seq(Nat) /\ Len(s) \in Nat
  <2>1. SUFFICES ASSUME NEW s \in Seq(matching)
                 PROVE  s \in Seq(Nat) /\ Len(s) \in Nat
    OBVIOUS
  <2>2. Len(s) \in Nat /\ s \in [1..Len(s) -> matching]
    BY <2>1
  <2>3. s \in [1..Len(s) -> Nat]
    BY <1>1, <2>2
  <2>4. QED BY <2>2, <2>3
<1>4. OutRows(t) \subseteq matching /\ Held(t) \subseteq matching
  BY <1>2 DEF OutRows, Held
<1>5. QED BY <1>1, <1>2, <1>3, <1>4 DEF OutRows, Held, RowsOf

\* What no step of a thread changes: the query, and the other threads' chunks.
LEMMA Others ==
  ASSUME TypeOK, NEW t \in Threads, Step(t)
  PROVE  /\ UNCHANGED <<table, matching, plan, answer>>
         /\ limit_reached => limit_reached'
         /\ \A u \in Threads : u # t =>
               /\ pc'[u] = pc[u] /\ at'[u] = at[u] /\ offset'[u] = offset[u]
               /\ out'[u] = out[u] /\ local'[u] = local[u]
         /\ BatchedLimit' <=> BatchedLimit
         /\ Sequential' <=> Sequential
         /\ Pushed' <=> Pushed
         /\ MaxElement' = MaxElement
         /\ InOrder' = InOrder
<1>1. /\ UNCHANGED <<table, matching, plan, answer>>
      /\ limit_reached => limit_reached'
  <2> USE DEF queryVars, filterVars
  <2>1. CASE Fetch(t) \/ Exhausted(t) \/ Skip(t) \/ Throw(t) \/ NothingFound(t)
    BY <2>1 DEF Fetch, Exhausted, Skip, Throw, NothingFound
  <2>2. CASE FilterAll(t) \/ BeginBatches(t) \/ FilterBatch(t)
    BY <2>2 DEF FilterAll, BeginBatches, FilterBatch
  <2>3. CASE EndBatches(t)
    <3>1. limit_reached' = (limit_reached \/ ReachesLimit(t))
      BY <2>3 DEF EndBatches
    <3>2. limit_reached => limit_reached'
      BY <3>1
    <3>3. QED BY <2>3, <3>2 DEF EndBatches
  <2>4. CASE Sink(t) \/ Stream(t) \/ Combine(t)
    BY <2>4 DEF Sink, Stream, Combine
  <2>5. QED BY <2>1, <2>2, <2>3, <2>4 DEF Step
<1>2. \A u \in Threads : u # t =>
         /\ pc'[u] = pc[u] /\ at'[u] = at[u] /\ offset'[u] = offset[u]
         /\ out'[u] = out[u] /\ local'[u] = local[u]
  BY DEF TypeOK, Step, Fetch, Exhausted, Skip, FilterAll, BeginBatches, FilterBatch, EndBatches,
         Throw, NothingFound, Sink, Stream, Combine, Goto, scanVars, filterVars, sinkVars
<1>3. QED BY <1>1, <1>2 DEF BatchedLimit, Sequential, Pushed, MaxElement, InOrder

\* A step by which a thread's chunk stays ahead, or stays behind.
Stays(t) ==
    \/ Exhausted(t) \/ FilterAll(t) \/ BeginBatches(t) \/ FilterBatch(t)
    \/ EndBatches(t) \/ Throw(t) \/ Combine(t)

\* A step by which a thread is through with its chunk.
Leaves(t) == Skip(t) \/ NothingFound(t) \/ Sink(t) \/ Stream(t)

LEMMA StaysShape ==
  ASSUME TypeOK, NEW t \in Threads, Stays(t)
  PROVE  /\ UNCHANGED <<table, matching, plan, answer, at, taken, local, passed>>
         /\ \A u \in Threads : pc'[u] \in Busy <=> pc[u] \in Busy
         /\ RowsAhead' = RowsAhead /\ RowsBehind' = RowsBehind
         /\ \A c : Ahead(c)' <=> Ahead(c)
         /\ ~ Combine(t) => merged' = merged
         /\ pc'[t] \in {"combine", "done"} => Exhausted(t) \/ Combine(t)
<1> USE DEF Goto, queryVars, scanVars, filterVars, sinkVars
<1>1. UNCHANGED <<table, matching, plan, answer, at, taken, local, passed>>
  BY DEF Stays, Exhausted, FilterAll, BeginBatches, FilterBatch, EndBatches, Throw, Combine
<1>2. \A u \in Threads : pc'[u] \in Busy <=> pc[u] \in Busy
  BY DEF TypeOK, Busy, Stays, Exhausted, FilterAll, BeginBatches, FilterBatch, EndBatches, Throw,
         Combine
<1>3. ~ Combine(t) => merged' = merged
  BY DEF Stays, Exhausted, FilterAll, BeginBatches, FilterBatch, EndBatches, Throw
<1>4. pc'[t] \in {"combine", "done"} => Exhausted(t) \/ Combine(t)
  BY DEF TypeOK, Stays, FilterAll, BeginBatches, FilterBatch, EndBatches, Throw
<1>5. /\ \A c : Ahead(c)' <=> Ahead(c)
      /\ RowsAhead' = RowsAhead /\ RowsBehind' = RowsBehind
  BY <1>1, <1>2, AheadSame
<1>6. QED BY <1>1, <1>2, <1>3, <1>4, <1>5

LEMMA LeavesShape ==
  ASSUME TypeOK, SourceInv, NEW t \in Threads, Leaves(t)
  PROVE  LET M == Matches(t, table.ends[at[t]])
         IN  /\ UNCHANGED <<table, matching, plan, answer, at, taken, limit_reached, out, merged>>
             /\ at[t] \in Chunks /\ at[t] # 0 /\ pc[t] \in Busy
             /\ pc'[t] \in {"fetch", "combine"} /\ pc'[t] \notin Busy
             /\ M \subseteq RowsAhead
             /\ RowsAhead' = RowsAhead \ M
             /\ RowsBehind' = RowsBehind \cup M
             /\ \A c \in Chunks : Ahead(c)' <=> Ahead(c) /\ c # at[t]
<1> USE DEF Goto, queryVars, scanVars, filterVars, sinkVars
<1>1. UNCHANGED <<table, matching, plan, answer, at, taken, limit_reached, out, merged>>
  BY DEF Leaves, Skip, NothingFound, Sink, Stream
<1>2. pc[t] \in {"filter", "sink"}
  BY DEF Leaves, Skip, NothingFound, Sink, Stream
<1>3. \E w \in {"fetch", "combine"} : pc' = [pc EXCEPT ![t] = w]
  BY DEF Leaves, Skip, NothingFound, Sink, Stream
<1>4. PICK w \in {"fetch", "combine"} : pc' = [pc EXCEPT ![t] = w]
  BY <1>3
<1>5. at[t] # 0 /\ pc[t] \in Busy /\ w \notin Busy /\ pc'[t] = w
  BY <1>2, <1>4 DEF TypeOK, Busy
<1>6. at[t] \in Chunks /\ \A c \in Chunks : Ahead(c)' <=> Ahead(c) /\ c # at[t]
  BY <1>1, <1>4, <1>5, AheadLess
<1> DEFINE M == Matches(t, table.ends[at[t]])
<1>7. /\ M \subseteq RowsAhead
      /\ RowsAhead' = RowsAhead \ M
      /\ RowsBehind' = RowsBehind \cup M
  BY <1>1, <1>4, <1>5, BehindMore
<1> HIDE DEF M
<1>8. QED BY <1>1, <1>5, <1>6, <1>7 DEF M

LEMMA SourceStep ==
  ASSUME TypeOK, SourceInv, \A u \in Threads : OutInv(u), NEW t \in Threads, Step(t)
  PROVE  SourceInv'
<1>1. CASE Fetch(t)
  BY <1>1, AheadFetch
<1>2. CASE Stays(t)
  <2>1. UNCHANGED <<table, plan, at, taken>>
    BY <1>2, StaysShape
  <2>2. limit_reached' => limit_reached \/ EndBatches(t)
    BY <1>2 DEF Stays, Exhausted, FilterAll, BeginBatches, FilterBatch, Throw, Combine, filterVars
  <2>3. EndBatches(t) => Pushed
    BY DEF EndBatches, OutInv
  <2>4. QED BY <2>1, <2>2, <2>3 DEF SourceInv, Pushed
<1>3. CASE Leaves(t)
  <2>1. UNCHANGED <<table, plan, at, taken, limit_reached>>
    BY <1>3, LeavesShape
  <2>2. QED BY <2>1 DEF SourceInv, Pushed
<1>4. QED BY <1>1, <1>2, <1>3 DEF Step, Stays, Leaves
-----------------------------------------------------------------------------
(* OutInv: what a thread's filter has selected. *)

LEMMA OutKept ==
  ASSUME NEW u \in Threads, OutInv(u), UNCHANGED <<table, matching, plan>>,
         limit_reached => limit_reached',
         pc'[u] = pc[u], at'[u] = at[u], offset'[u] = offset[u], out'[u] = out[u]
  PROVE  OutInv(u)'
<1>1. \A e : Matches(u, e)' = {r \in matching : Start(at[u]) < r /\ r <= e}
  BY DEF Matches, Start
<1>2. Start(at[u])' = Start(at[u]) /\ table.ends[at[u]]' = table.ends[at[u]]
  BY DEF Start
<1>3. OutRows(u)' = OutRows(u)
  BY DEF OutRows
<1>4. (pc[u] \in {"batches", "sink"} => Increasing(out[u]))'
  BY DEF OutInv, Increasing
<1>5. (pc[u] = "batches" => Pushed /\ OutRows(u) = Matches(u, Start(at[u]) + offset[u]))'
  BY <1>1, <1>2, <1>3 DEF OutInv, Pushed, Matches
<1>6. (pc[u] = "sink" =>
         \E e \in Start(at[u])..table.ends[at[u]] :
            /\ OutRows(u) = Matches(u, e)
            /\ e = table.ends[at[u]] \/ (limit_reached /\ Len(out[u]) >= plan.limit))'
  <2>1. SUFFICES ASSUME pc[u] = "sink"
                 PROVE  \E e \in Start(at[u])..table.ends[at[u]] :
                           /\ OutRows(u) = Matches(u, e)'
                           /\ e = table.ends[at[u]] \/ (limit_reached' /\ Len(out[u]) >= plan.limit)
    BY <1>2, <1>3
  <2>2. PICK e \in Start(at[u])..table.ends[at[u]] :
           /\ OutRows(u) = Matches(u, e)
           /\ e = table.ends[at[u]] \/ (limit_reached /\ Len(out[u]) >= plan.limit)
    BY <2>1 DEF OutInv
  <2>3. Matches(u, e)' = Matches(u, e)
    BY <1>1 DEF Matches
  <2>4. QED BY <2>2, <2>3
<1>7. QED BY <1>4, <1>5, <1>6 DEF OutInv

LEMMA OutOfChunk ==
  ASSUME TypeOK, NEW t \in Threads, FilterAll(t)
  PROVE  OutInv(t)'
<1> USE DEF Goto, queryVars, scanVars
<1>1. /\ at[t] # 0 /\ pc'[t] = "sink" /\ at' = at /\ table' = table /\ matching' = matching
  BY DEF FilterAll, TypeOK
<1>2. PICK s \in Selections(Rows(at[t]) \cap matching) : out'[t] = s
  BY DEF FilterAll, TypeOK
<1>3. IsFiniteSet(Rows(at[t]) \cap matching) /\ Rows(at[t]) \cap matching \subseteq Nat
  BY RowSeqs, FS_Intersection
<1>4. Increasing(s) /\ RowsOf(s) = Rows(at[t]) \cap matching
  BY <1>2, <1>3, Selected
<1>5. RowsOf(s) = Matches(t, table.ends[at[t]])
  BY <1>1, <1>4, ChunkMatches
<1>6. /\ Start(at[t])' = Start(at[t]) /\ table.ends[at[t]]' = table.ends[at[t]]
      /\ OutRows(t)' = RowsOf(s) /\ Increasing(out[t])'
      /\ Matches(t, table.ends[at[t]])' = Matches(t, table.ends[at[t]])
  BY <1>1, <1>2, <1>4 DEF Start, OutRows, RowsOf, Matches, Increasing
<1>7. table.ends[at[t]] \in Start(at[t])..table.ends[at[t]]
  <2>1. at[t] \in Chunks
    BY <1>1 DEF TypeOK
  <2>2. /\ Start(at[t]) \in Nat /\ table.ends[at[t]] \in Nat
        /\ table.ends[at[t]] - Start(at[t]) \in Nat
    BY <2>1, ChunkBounds DEF TypeOK, Size
  <2>3. QED BY <2>2
<1>8. QED BY <1>1, <1>5, <1>6, <1>7 DEF OutInv

LEMMA OutOfBatch ==
  ASSUME TypeOK, NEW t \in Threads, OutInv(t), FilterBatch(t)
  PROVE  OutInv(t)'
<1> USE DEF Goto, queryVars, scanVars
<1>1. /\ pc[t] = "batches" /\ pc'[t] = "batches" /\ MoreBatches(t)
      /\ at' = at /\ table' = table /\ matching' = matching /\ plan' = plan
      /\ offset'[t] = NextOffset(t)
  BY DEF FilterBatch, TypeOK
<1>2. PICK s \in Selections(NewMatches(t)) : out'[t] = out[t] \o s
  BY DEF FilterBatch, TypeOK
<1>3. Pushed /\ Increasing(out[t]) /\ RowsOf(out[t]) = Matches(t, Start(at[t]) + offset[t])
  BY <1>1, RowSeqs DEF OutInv
<1>4. NewMatches(t) \subseteq matching /\ IsFiniteSet(NewMatches(t)) /\ NewMatches(t) \subseteq Nat
  <2>1. NewMatches(t) \subseteq matching
    BY DEF NewMatches
  <2>2. QED BY <2>1, RowSeqs, FS_Subset
<1>5. s \in Seq(Nat) /\ Increasing(s) /\ RowsOf(s) = NewMatches(t)
  BY <1>2, <1>4, Selected
<1>6. /\ Start(at[t]) \in Nat /\ offset[t] \in Nat
      /\ BatchCount(t) \in Nat /\ NextOffset(t) = offset[t] + BatchCount(t)
  BY <1>1, HeldChunk, BatchWithinChunk DEF TypeOK, NextOffset
<1>7. \A q \in RowsOf(out[t]), r \in RowsOf(s) : q < r
  <2>1. SUFFICES ASSUME NEW q \in RowsOf(out[t]), NEW r \in RowsOf(s)
                 PROVE  q < r
    OBVIOUS
  <2>2. q \in Nat /\ q <= Start(at[t]) + offset[t]
    BY <1>3, RowSeqs DEF Matches
  <2>3. r \in Nat /\ r > Start(at[t]) + offset[t]
    BY <1>4, <1>5 DEF NewMatches
  <2>4. QED BY <1>6, <2>2, <2>3
<1>8. Increasing(out[t] \o s) /\ RowsOf(out[t] \o s) = RowsOf(out[t]) \cup RowsOf(s)
  BY <1>3, <1>5, <1>7, RowSeqs, Joined
<1>9. Matches(t, Start(at[t]) + NextOffset(t)) = Matches(t, Start(at[t]) + offset[t]) \cup NewMatches(t)
  <2>1. ASSUME NEW r \in matching
        PROVE  (Start(at[t]) < r /\ r <= Start(at[t]) + NextOffset(t))
                 <=> \/ Start(at[t]) < r /\ r <= Start(at[t]) + offset[t]
                     \/ r > Start(at[t]) + offset[t] /\ r <= Start(at[t]) + offset[t] + BatchCount(t)
    <3>1. r \in Nat
      BY RowSeqs
    <3>2. QED BY <1>6, <3>1
  <2>2. QED BY <2>1 DEF Matches, NewMatches
<1>10. /\ OutRows(t)' = RowsOf(out[t] \o s) /\ Increasing(out[t])'
       /\ (Matches(t, Start(at[t]) + offset[t]))' = Matches(t, Start(at[t]) + NextOffset(t))
  BY <1>1, <1>2, <1>8 DEF Start, OutRows, RowsOf, Matches, Increasing
<1>11. QED BY <1>1, <1>3, <1>5, <1>8, <1>9, <1>10 DEF OutInv, Pushed

LEMMA OutAtEnd ==
  ASSUME TypeOK, NEW t \in Threads, OutInv(t), EndBatches(t)
  PROVE  OutInv(t)'
<1> USE DEF Goto, queryVars, scanVars
<1>1. /\ pc[t] = "batches" /\ pc'[t] = "sink" /\ ~ MoreBatches(t)
      /\ at' = at /\ table' = table /\ matching' = matching /\ plan' = plan /\ out' = out
  BY DEF EndBatches, TypeOK
<1>2. limit_reached' = (limit_reached \/ ReachesLimit(t))
  BY DEF EndBatches
<1>3. /\ at[t] \in Chunks /\ Start(at[t]) \in Nat /\ table.ends[at[t]] \in Nat
      /\ Size(at[t]) = table.ends[at[t]] - Start(at[t])
      /\ offset[t] \in Nat /\ offset[t] <= Size(at[t])
      /\ Len(out[t]) \in Nat /\ plan.limit \in Nat
  BY <1>1, HeldChunk, ChunkBounds, PlanType, RowSeqs DEF TypeOK, Size
<1> DEFINE e == Start(at[t]) + offset[t]
<1>4. e \in Start(at[t])..table.ends[at[t]]
  BY <1>3
<1>5. Increasing(out[t]) /\ OutRows(t) = Matches(t, e)
  BY <1>1 DEF OutInv
<1>6. e = table.ends[at[t]] \/ (ReachesLimit(t) /\ Len(out[t]) >= plan.limit)
  <2>1. ~ (offset[t] < Size(at[t]) /\ Len(out[t]) < plan.limit)
    BY <1>1 DEF MoreBatches
  <2>2. CASE ~ (offset[t] < Size(at[t]))
    <3>1. offset[t] = table.ends[at[t]] - Start(at[t])
      BY <1>3, <2>2
    <3>2. QED BY <1>3, <3>1
  <2>3. CASE ~ (Len(out[t]) < plan.limit)
    <3>1. Len(out[t]) >= plan.limit
      BY <1>3, <2>3
    <3>2. QED BY <3>1 DEF ReachesLimit
  <2>4. QED BY <2>1, <2>2, <2>3
<1>7. e = table.ends[at[t]] \/ (limit_reached' /\ Len(out[t]) >= plan.limit)
  BY <1>2, <1>6
<1> HIDE DEF e
<1>8. /\ Start(at[t])' = Start(at[t]) /\ table.ends[at[t]]' = table.ends[at[t]]
      /\ OutRows(t)' = OutRows(t) /\ Increasing(out[t])'
      /\ Matches(t, e)' = Matches(t, e)'
      /\ {r \in matching' : Start(at[t])' < r /\ r <= e} = Matches(t, e)
  BY <1>1, <1>5 DEF Start, OutRows, Matches, Increasing
<1>9. (\E d \in Start(at[t])..table.ends[at[t]] :
         /\ OutRows(t) = Matches(t, d)
         /\ d = table.ends[at[t]] \/ (limit_reached /\ Len(out[t]) >= plan.limit))'
  BY <1>1, <1>4, <1>5, <1>7, <1>8 DEF Matches
<1>10. QED BY <1>1, <1>8, <1>9 DEF OutInv

LEMMA OutStep ==
  ASSUME TypeOK, NEW t \in Threads, Step(t), NEW u \in Threads, OutInv(u)
  PROVE  OutInv(u)'
<1>1. CASE u # t
  BY <1>1, Others, OutKept
<1>2. CASE u = t
  <2>1. CASE FilterAll(t) \/ FilterBatch(t) \/ EndBatches(t)
    BY <1>2, <2>1, OutOfChunk, OutOfBatch, OutAtEnd
  <2>2. CASE BeginBatches(t)
    <3>1. /\ at[t] \in Chunks /\ Start(at[t]) \in Nat /\ Pushed /\ pc'[t] = "batches"
          /\ at' = at /\ table' = table /\ matching' = matching /\ plan' = plan
          /\ out'[t] = <<>> /\ offset'[t] = 0
      BY <2>2, HeldChunk DEF BeginBatches, TypeOK, Goto, queryVars, scanVars
    <3>2. Matches(t, Start(at[t]) + 0) = {}
      <4>1. \A r \in matching : ~ (Start(at[t]) < r /\ r <= Start(at[t]) + 0)
        BY <3>1, RowSeqs
      <4>2. QED BY <4>1 DEF Matches
    <3>3. (Matches(t, Start(at[t]) + offset[t]))' = Matches(t, Start(at[t]) + 0)
      BY <3>1 DEF Matches, Start
    <3>4. OutRows(t)' = {} /\ Increasing(out[t])'
      BY <3>1 DEF OutRows, Increasing
    <3>5. QED BY <1>2, <3>1, <3>2, <3>3, <3>4 DEF OutInv, Pushed
  <2>3. CASE \/ Fetch(t) \/ Exhausted(t) \/ Skip(t) \/ Throw(t)
             \/ NothingFound(t) \/ Sink(t) \/ Stream(t) \/ Combine(t)
    <3>1. pc'[t] \notin {"batches", "sink"}
      BY <2>3 DEF TypeOK, Fetch, Exhausted, Skip, Throw, NothingFound, Sink, Stream, Combine, Goto
    <3>2. QED BY <1>2, <3>1 DEF OutInv
  <2>4. QED BY <2>1, <2>2, <2>3 DEF Step
<1>3. QED BY <1>1, <1>2
-----------------------------------------------------------------------------
(* KeptInv: what reaches the limit operator. *)

\* The output that reaches the limit operator is from the thread's chunk.
LEMMA OutInChunk ==
  ASSUME TypeOK, NEW t \in Threads, OutInv(t), pc[t] = "sink"
  PROVE  /\ at[t] \in Chunks /\ at[t] # 0
         /\ Start(at[t]) \in Nat /\ table.ends[at[t]] \in Nat /\ Start(at[t]) <= table.ends[at[t]]
         /\ Increasing(out[t])
         /\ OutRows(t) \subseteq Matches(t, table.ends[at[t]])
         /\ \A r \in OutRows(t) : r \in Nat /\ Start(at[t]) < r /\ r <= table.ends[at[t]]
<1>1. at[t] # 0 /\ at[t] \in Chunks
  BY DEF TypeOK
<1>2. /\ Start(at[t]) \in Nat /\ table.ends[at[t]] \in Nat
      /\ table.ends[at[t]] - Start(at[t]) \in Nat
  BY <1>1, ChunkBounds DEF TypeOK, Size
<1>3. PICK e \in Start(at[t])..table.ends[at[t]] : OutRows(t) = Matches(t, e)
  BY DEF OutInv
<1>4. \A r \in OutRows(t) : r \in matching /\ r \in Nat /\ Start(at[t]) < r /\ r <= e
  BY <1>3, RowSeqs DEF Matches
<1>5. \A r \in OutRows(t) : r \in matching /\ r \in Nat /\ Start(at[t]) < r /\ r <= table.ends[at[t]]
  BY <1>2, <1>3, <1>4
<1>6. QED BY <1>1, <1>2, <1>5 DEF OutInv, Matches

\* A part of it is handed over.
LEMMA Appended ==
  ASSUME TypeOK, NEW t \in Threads, OutInv(t), KeptInv, pc[t] = "sink",
         NEW first \in Nat \ {0}, NEW last \in Int, last <= Len(out[t]),
         local' = [local EXCEPT ![t] = local[t] \o SubSeq(out[t], first, last)],
         merged' = merged
  PROVE  LET N == {out[t][i] : i \in first..last}
         IN  /\ N \subseteq OutRows(t)
             /\ Held(t)' = Held(t) \cup N
             /\ \A u \in Threads : u # t => Held(u)' = Held(u)
             /\ \A q \in Held(t), r \in N : q < r
             /\ Increasing(local[t])'
             /\ Got' = Got \cup N
<1> DEFINE s == SubSeq(out[t], first, last)
           N == {out[t][i] : i \in first..last}
<1>1. /\ out[t] \in Seq(Nat) /\ local[t] \in Seq(Nat)
      /\ OutRows(t) = RowsOf(out[t]) /\ Held(t) = RowsOf(local[t])
  BY RowSeqs
<1>2. s \in Seq(Nat) /\ RowsOf(s) = N /\ Increasing(s)
  BY <1>1, Cut, OutInChunk
<1>3. N \subseteq OutRows(t)
  <2>1. \A i \in first..last : i \in 1..Len(out[t])
    BY <1>1
  <2>2. QED BY <1>1, <2>1 DEF RowsOf
<1>4. \A q \in Held(t), r \in N : q < r
  <2>1. SUFFICES ASSUME NEW q \in Held(t), NEW r \in N
                 PROVE  q < r
    OBVIOUS
  <2>2. q \in Nat /\ q <= Start(at[t])
    BY RowSeqs DEF KeptInv, Busy
  <2>3. r \in Nat /\ Start(at[t]) < r /\ Start(at[t]) \in Nat
    BY <1>3, OutInChunk
  <2>4. QED BY <2>2, <2>3
<1> HIDE DEF s, N
<1>5. Increasing(local[t]) /\ RowsOf(local[t]) = Held(t)
  BY <1>1 DEF KeptInv
<1>6. Increasing(local[t] \o s) /\ RowsOf(local[t] \o s) = Held(t) \cup N
  BY <1>1, <1>2, <1>4, <1>5, Joined
<1>7. local'[t] = local[t] \o s /\ \A u \in Threads : u # t => local'[u] = local[u]
  BY DEF TypeOK, s
<1>8. Held(t)' = Held(t) \cup N /\ Increasing(local[t])'
  BY <1>6, <1>7 DEF Held, RowsOf, Increasing
<1>9. \A u \in Threads : u # t => Held(u)' = Held(u)
  BY <1>7 DEF Held
<1>10. Got' = Got \cup N
  BY <1>8, <1>9 DEF Got
<1>11. QED BY <1>3, <1>4, <1>8, <1>9, <1>10 DEF N

\* What the limit operator gets when a thread is through with its chunk.
LEMMA HandedOver ==
  ASSUME TypeOK, SourceInv, KeptInv, NEW t \in Threads, OutInv(t), Leaves(t)
  PROVE  \E N \in SUBSET Matches(t, table.ends[at[t]]) :
            /\ Held(t)' = Held(t) \cup N
            /\ \A u \in Threads : u # t => Held(u)' = Held(u)
            /\ Increasing(local[t])'
            /\ Got' = Got \cup N
<1>1. CASE UNCHANGED local
  <2>1. UNCHANGED merged
    BY LeavesShape
  <2>2. /\ \A u \in Threads : Held(u)' = Held(u)
        /\ Got' = Got /\ Increasing(local[t])'
    BY <1>1, <2>1 DEF Got, Held, Increasing, KeptInv
  <2>3. {} \in SUBSET Matches(t, table.ends[at[t]]) /\ Held(t)' = Held(t) \cup {} /\ Got' = Got \cup {}
    BY <2>2
  <2>4. QED BY <2>2, <2>3
<1>2. CASE ~ UNCHANGED local
  <2>1. /\ pc[t] = "sink" /\ merged' = merged
        /\ \/ Sink(t) /\ ~ (plan.limit = 0 \/ Len(local[t]) >= MaxElement)
           \/ Stream(t)
    BY <1>2 DEF Leaves, Skip, NothingFound, Sink, Stream, sinkVars
  <2>2. /\ Len(out[t]) \in Nat /\ Len(local[t]) \in Nat /\ MaxElement \in Nat
        /\ plan.offset \in Nat /\ passed \in Nat
    BY RowSeqs, PlanType DEF TypeOK
  <2>3. \E first \in Nat \ {0}, last \in Int :
           /\ last <= Len(out[t])
           /\ local' = [local EXCEPT ![t] = local[t] \o SubSeq(out[t], first, last)]
    <3>1. CASE Sink(t)
      <4> DEFINE n == Min2(Len(out[t]), MaxElement - Len(local[t]))
      <4>1. n \in Int /\ n <= Len(out[t])
        <5>1. Len(out[t]) \in Int /\ MaxElement - Len(local[t]) \in Int
          BY <2>2
        <5>2. QED BY <5>1, Smaller
      <4>2. local' = [local EXCEPT ![t] = local[t] \o SubSeq(out[t], 1, n)]
        BY <2>1, <3>1, <1>2 DEF Sink
      <4>3. 1 \in Nat \ {0}
        OBVIOUS
      <4> HIDE DEF n
      <4>4. QED BY <4>1, <4>2, <4>3
    <3>2. CASE Stream(t)
      <4> DEFINE first == IF passed < plan.offset THEN plan.offset - passed + 1 ELSE 1
                 last  == Min2(Len(out[t]), MaxElement - passed)
      <4>1. first \in Nat \ {0}
        BY <2>2
      <4>2. last \in Int /\ last <= Len(out[t])
        <5>1. Len(out[t]) \in Int /\ MaxElement - passed \in Int
          BY <2>2
        <5>2. QED BY <5>1, Smaller
      <4>3. local' = [local EXCEPT ![t] = local[t] \o SubSeq(out[t], first, last)]
        BY <3>2 DEF Stream
      <4> HIDE DEF first, last
      <4>4. QED BY <4>1, <4>2, <4>3
    <3>3. QED BY <2>1, <3>1, <3>2
  <2>4. PICK first \in Nat \ {0}, last \in Int :
           /\ last <= Len(out[t])
           /\ local' = [local EXCEPT ![t] = local[t] \o SubSeq(out[t], first, last)]
    BY <2>3
  <2> DEFINE N == {out[t][i] : i \in first..last}
  <2>5. /\ N \subseteq OutRows(t)
        /\ Held(t)' = Held(t) \cup N
        /\ \A u \in Threads : u # t => Held(u)' = Held(u)
        /\ Increasing(local[t])'
        /\ Got' = Got \cup N
    BY <2>1, <2>4, Appended
  <2> HIDE DEF N
  <2>6. N \subseteq Matches(t, table.ends[at[t]])
    BY <2>1, <2>5, OutInChunk
  <2>7. QED BY <2>5, <2>6
<1>3. QED BY <1>1, <1>2

LEMMA GotSame ==
  ASSUME TypeOK, NEW t \in Threads, Stays(t) \/ Fetch(t)
  PROVE  /\ \A u \in Threads : Held(u)' = Held(u)
         /\ Got' = Got /\ merged \subseteq merged'
         /\ UNCHANGED <<local, passed>>
<1>1. UNCHANGED <<local, passed>>
  BY StaysShape DEF Fetch, sinkVars
<1>2. \A u \in Threads : Held(u)' = Held(u)
  BY <1>1 DEF Held
<1>3. merged' = merged \/ merged' = merged \cup Held(t)
  BY StaysShape DEF Combine, Fetch, sinkVars, Held
<1>4. Got' = Got /\ merged \subseteq merged'
  BY <1>2, <1>3 DEF Got
<1>5. QED BY <1>1, <1>2, <1>4

LEMMA KeptStep ==
  ASSUME TypeOK, SourceInv, KeptInv, NEW t \in Threads, OutInv(t), Step(t)
  PROVE  KeptInv'
<1>1. \A u \in Threads : \A r \in Held(u) : r \in Nat
  BY RowSeqs
<1>2. CASE Fetch(t)
  <2>1. /\ \A u \in Threads : Held(u)' = Held(u)
        /\ Got' = Got /\ merged \subseteq merged' /\ local' = local
    BY <1>2, GotSame
  <2>2. RowsAhead' = RowsAhead /\ at'[t] \in Chunks /\ at'[t] # 0 /\ (at[t] # 0 => at[t] < at'[t])
    BY <1>2, AheadFetch
  <2>3. /\ table' = table /\ pc[t] = "fetch" /\ pc'[t] = "filter"
        /\ \A u \in Threads : u # t => pc'[u] = pc[u] /\ at'[u] = at[u]
    BY <1>2 DEF Fetch, TypeOK, Goto, queryVars
  <2>4. ASSUME NEW u \in Threads, NEW r \in Held(u)
        PROVE  at'[u] # 0 /\ r <= (IF pc'[u] \in Busy THEN Start(at'[u]) ELSE table.ends[at'[u]])
    <3>1. CASE u = t
      <4>1. at[t] # 0 /\ r <= table.ends[at[t]]
        BY <2>3, <3>1 DEF KeptInv, Busy
      <4>2. at[t] \in Chunks
        BY <4>1 DEF TypeOK
      <4>3. table.ends[at[t]] <= Start(at'[t])
        BY <2>2, <4>1, <4>2, ChunkOrder DEF TypeOK
      <4>4. table.ends[at[t]] \in Nat /\ Start(at'[t]) \in Nat
        BY <2>2, <4>2, ChunkBounds DEF TypeOK
      <4>5. r <= Start(at'[t])
        BY <1>1, <4>1, <4>3, <4>4
      <4>6. QED BY <2>2, <2>3, <3>1, <4>5 DEF Busy
    <3>2. CASE u # t
      BY <2>3, <3>2 DEF KeptInv
    <3>3. QED BY <3>1, <3>2
  <2>5. \A c : Start(c)' = IF c = 1 THEN 0 ELSE table.ends[c - 1]
    BY <2>3 DEF Start
  <2>6. \A u \in Threads : \A r \in Held(u)' :
           (at[u] # 0 /\ r <= (IF pc[u] \in Busy THEN Start(at[u]) ELSE table.ends[at[u]]))'
    BY <2>1, <2>3, <2>4 DEF Start
  <2>7. \A u \in Threads : pc'[u] = "done" => Held(u)' \subseteq merged'
    BY <2>1, <2>3 DEF KeptInv
  <2>8. \A u \in Threads : Increasing(local[u])'
    BY <2>1 DEF KeptInv, Increasing
  <2>9. QED BY <2>1, <2>2, <2>6, <2>7, <2>8 DEF KeptInv
<1>3. CASE Stays(t)
  <2>1. /\ \A u \in Threads : Held(u)' = Held(u)
        /\ Got' = Got /\ merged \subseteq merged' /\ local' = local
    BY <1>3, GotSame
  <2>2. /\ RowsAhead' = RowsAhead /\ table' = table /\ at' = at
        /\ \A u \in Threads : pc'[u] \in Busy <=> pc[u] \in Busy
    BY <1>3, StaysShape
  <2>3. \A u \in Threads : \A r \in Held(u)' :
           (at[u] # 0 /\ r <= (IF pc[u] \in Busy THEN Start(at[u]) ELSE table.ends[at[u]]))'
    BY <2>1, <2>2 DEF KeptInv, Start
  <2>4. ASSUME NEW u \in Threads, pc'[u] = "done"
        PROVE  Held(u)' \subseteq merged'
    <3>1. CASE pc[u] = "done"
      BY <2>1, <3>1 DEF KeptInv
    <3>2. CASE pc[u] # "done"
      <4>1. u = t
        BY <1>3, <2>4, <3>2, Others DEF Step, Stays
      <4>2. Combine(t)
        BY <1>3, <2>4, <3>2, <4>1, StaysShape DEF Exhausted, Goto, TypeOK
      <4>3. merged' = merged \cup Held(t)
        BY <4>2 DEF Combine, Held
      <4>4. QED BY <2>1, <4>1, <4>3
    <3>3. QED BY <3>1, <3>2
  <2>5. \A u \in Threads : Increasing(local[u])'
    BY <2>1 DEF KeptInv, Increasing
  <2>6. QED BY <2>1, <2>2, <2>3, <2>4, <2>5 DEF KeptInv
<1>4. CASE Leaves(t)
  <2>1. PICK N \in SUBSET Matches(t, table.ends[at[t]]) :
           /\ Held(t)' = Held(t) \cup N
           /\ \A u \in Threads : u # t => Held(u)' = Held(u)
           /\ Increasing(local[t])'
           /\ Got' = Got \cup N
    BY <1>4, HandedOver
  <2>2. /\ table' = table /\ at' = at /\ merged' = merged
        /\ at[t] \in Chunks /\ at[t] # 0 /\ pc[t] \in Busy
        /\ pc'[t] \in {"fetch", "combine"} /\ pc'[t] \notin Busy
        /\ RowsAhead' = RowsAhead \ Matches(t, table.ends[at[t]])
    BY <1>4, LeavesShape
  <2>3. \A u \in Threads : u # t => pc'[u] = pc[u] /\ local'[u] = local[u]
    BY <1>4, Others DEF Step, Leaves
  <2>4. ASSUME NEW u \in Threads, NEW r \in Held(u)'
        PROVE  (at[u] # 0 /\ r <= (IF pc[u] \in Busy THEN Start(at[u]) ELSE table.ends[at[u]]))'
    <3>1. CASE u = t
      <4>1. CASE r \in N
        BY <2>1, <2>2, <3>1, <4>1 DEF Matches
      <4>2. CASE r \in Held(t)
        <5>1. r <= Start(at[t]) /\ r \in Nat
          BY <1>1, <2>2, <4>2 DEF KeptInv
        <5>2. /\ Start(at[t]) \in Nat /\ table.ends[at[t]] \in Nat
              /\ table.ends[at[t]] - Start(at[t]) \in Nat
          BY <2>2, ChunkBounds DEF TypeOK, Size
        <5>3. r <= table.ends[at[t]]
          BY <5>1, <5>2
        <5>4. QED BY <2>2, <3>1, <5>3
      <4>3. QED BY <2>1, <2>4, <3>1, <4>1, <4>2
    <3>2. CASE u # t
      BY <2>1, <2>2, <2>3, <2>4, <3>2 DEF KeptInv, Start
    <3>3. QED BY <3>1, <3>2
  <2>5. Got' \cap RowsAhead' = {}
    BY <2>1, <2>2 DEF KeptInv
  <2>6. \A u \in Threads : pc'[u] = "done" => Held(u)' \subseteq merged'
    BY <2>1, <2>2, <2>3 DEF KeptInv
  <2>7. \A u \in Threads : Increasing(local[u])'
    BY <2>1, <2>3 DEF KeptInv, Increasing
  <2>8. QED BY <2>4, <2>5, <2>6, <2>7 DEF KeptInv
<1>5. QED BY <1>2, <1>3, <1>4 DEF Step, Stays, Leaves
-----------------------------------------------------------------------------
(* WorkersInv: why a thread stops. *)

LEMMA CountersGrow ==
  ASSUME TypeOK, NEW t \in Threads, Step(t)
  PROVE  passed <= passed' /\ taken <= taken' /\ passed' \in Nat /\ taken' \in Nat
<1>1. passed \in Nat /\ taken \in Nat
  BY DEF TypeOK
<1>2. CASE Fetch(t)
  <2>1. PICK c \in Chunks : taken' = IF table.batches[c] > taken THEN table.batches[c] ELSE taken
    BY <1>2, FetchShape DEF Fetch, NextInBatch, FirstOfNextBatch
  <2>2. table.batches[c] \in Nat
    BY ChunkBounds DEF TypeOK
  <2>3. passed' = passed
    BY <1>2 DEF Fetch, sinkVars
  <2>4. QED BY <1>1, <2>1, <2>2, <2>3
<1>3. CASE Stays(t)
  BY <1>1, <1>3, StaysShape
<1>4. CASE Leaves(t)
  <2>1. taken' = taken /\ (passed' = passed \/ (passed' \in Nat /\ passed + Len(out[t]) <= passed'))
    <3>1. CASE Stream(t)
      BY <3>1, CounterStep DEF Stream, scanVars
    <3>2. CASE ~ Stream(t)
      BY <1>4, <3>2 DEF Leaves, Skip, NothingFound, Sink, scanVars, sinkVars
    <3>3. QED BY <3>1, <3>2
  <2>2. Len(out[t]) \in Nat
    BY RowSeqs
  <2>3. QED BY <1>1, <2>1, <2>2
<1>5. QED BY <1>2, <1>3, <1>4 DEF Step, Stays, Leaves

\* A thread that stopped has a reason still.
LEMMA StillStopped ==
  ASSUME TypeOK, NEW t \in Threads, Step(t), NEW u \in Threads, StopInv(u),
         pc[u] \in {"combine", "done"}, at'[u] = at[u], local'[u] = local[u]
  PROVE  StopInv(u)'
<1>1. /\ table' = table /\ plan' = plan
      /\ limit_reached => limit_reached'
      /\ BatchedLimit' <=> BatchedLimit
      /\ MaxElement' = MaxElement /\ MaxElement \in Nat
  BY Others, PlanType DEF TypeOK
<1>2. passed <= passed' /\ taken <= taken' /\ {passed, passed', taken, taken'} \subseteq Nat
  BY CountersGrow DEF TypeOK
<1>3. CASE limit_reached
  BY <1>1, <1>3 DEF StopInv
<1>4. CASE Enough(u)
  <2>1. passed >= MaxElement => passed' >= MaxElement
    BY <1>1, <1>2
  <2>2. Enough(u)'
    BY <1>1, <1>4, <2>1 DEF Enough
  <2>3. QED BY <2>2 DEF StopInv
<1>5. CASE NextInBatch(u) = {} /\ \A c \in Chunks : table.batches[c] <= taken
  <2>1. NextInBatch(u)' = {} /\ Chunks' = Chunks
    BY <1>1, <1>5 DEF NextInBatch, Chunks
  <2>2. ASSUME NEW c \in Chunks
        PROVE  table.batches[c] <= taken'
    <3>1. table.batches[c] \in Nat
      BY ChunkBounds DEF TypeOK
    <3>2. table.batches[c] <= taken
      BY <1>5
    <3>3. QED BY <1>2, <3>1, <3>2
  <2>3. (\A c \in Chunks : table.batches[c] <= taken)'
    BY <1>1, <2>1, <2>2
  <2>4. QED BY <2>1, <2>3 DEF StopInv
<1>6. QED BY <1>3, <1>4, <1>5 DEF StopInv

LEMMA StopsItself ==
  ASSUME TypeOK, NEW t \in Threads, StopInv(t), Step(t)
  PROVE  StopInv(t)'
<1> USE DEF Goto, queryVars, scanVars, filterVars, sinkVars
<1>1. CASE Fetch(t) \/ FilterAll(t) \/ BeginBatches(t) \/ FilterBatch(t) \/ EndBatches(t)
           \/ Throw(t) \/ NothingFound(t)
  <2>1. pc'[t] \notin {"combine", "done"}
    BY <1>1 DEF TypeOK, Fetch, FilterAll, BeginBatches, FilterBatch, EndBatches, Throw, NothingFound
  <2>2. QED BY <2>1 DEF StopInv
<1>2. CASE Exhausted(t)
  <2>1. NextInBatch(t) = {} /\ \A c \in Chunks : table.batches[c] <= taken
    BY <1>2, NoneLeft DEF Exhausted
  <2>2. UNCHANGED <<table, at, taken>>
    BY <1>2 DEF Exhausted
  <2>3. (NextInBatch(t) = {} /\ \A c \in Chunks : table.batches[c] <= taken)'
    BY <2>1, <2>2 DEF NextInBatch, Chunks
  <2>4. QED BY <2>3 DEF StopInv
<1>3. CASE Skip(t)
  BY <1>3 DEF Skip, StopInv
<1>4. CASE Combine(t)
  <2>1. pc[t] \in {"combine", "done"} /\ at'[t] = at[t] /\ local'[t] = local[t]
    BY <1>4 DEF Combine
  <2>2. QED BY <2>1, StillStopped
<1>5. CASE Sink(t)
  <2>1. BatchedLimit /\ UNCHANGED plan
    BY <1>5 DEF Sink
  <2>2. CASE plan.limit = 0 \/ Len(local[t]) >= MaxElement
    <3>1. Enough(t)'
      BY <1>5, <2>1, <2>2 DEF Sink, Enough, BatchedLimit, MaxElement
    <3>2. QED BY <3>1 DEF StopInv
  <2>3. CASE ~ (plan.limit = 0 \/ Len(local[t]) >= MaxElement)
    <3> DEFINE kept == local[t] \o SubSeq(out[t], 1, Min2(Len(out[t]), MaxElement - Len(local[t])))
    <3>1. /\ local'[t] = kept
          /\ pc'[t] = IF Len(kept) = MaxElement THEN "combine" ELSE "fetch"
      BY <1>5, <2>3 DEF Sink, TypeOK
    <3> HIDE DEF kept
    <3>2. CASE Len(kept) = MaxElement
      <4>1. Len(local'[t]) >= MaxElement
        <5>1. MaxElement \in Nat
          BY PlanType DEF TypeOK
        <5>2. QED BY <3>1, <3>2, <5>1
      <4>2. Enough(t)'
        BY <2>1, <4>1 DEF Enough, BatchedLimit, MaxElement
      <4>3. QED BY <4>2 DEF StopInv
    <3>3. CASE Len(kept) # MaxElement
      BY <3>1, <3>3 DEF StopInv
    <3>4. QED BY <3>2, <3>3
  <2>4. QED BY <2>2, <2>3
<1>6. CASE Stream(t)
  <2>1. ~ BatchedLimit /\ UNCHANGED plan
    BY <1>6 DEF Stream
  <2>2. pc'[t] = IF passed' >= MaxElement THEN "combine" ELSE "fetch"
    BY <1>6 DEF Stream, TypeOK
  <2>3. passed' >= MaxElement => Enough(t)'
    BY <2>1 DEF Enough, BatchedLimit, MaxElement
  <2>4. QED BY <2>2, <2>3 DEF StopInv
<1>7. QED BY <1>1, <1>2, <1>3, <1>4, <1>5, <1>6 DEF Step

LEMMA WorkersStep ==
  ASSUME TypeOK, WorkersInv, NEW t \in Threads, Step(t)
  PROVE  WorkersInv'
<1>1. /\ Sequential' <=> Sequential
      /\ \A u \in Threads : u # t => pc'[u] = pc[u] /\ at'[u] = at[u] /\ local'[u] = local[u]
  BY Others
<1>2. ASSUME NEW u \in Threads, StopInv(u)
      PROVE  StopInv(u)'
  <2>1. CASE u = t
    BY <1>2, <2>1, StopsItself
  <2>2. CASE u # t /\ pc[u] \in {"combine", "done"}
    BY <1>1, <1>2, <2>2, StillStopped
  <2>3. CASE u # t /\ pc[u] \notin {"combine", "done"}
    BY <1>1, <2>3 DEF StopInv
  <2>4. QED BY <2>1, <2>2, <2>3
<1>3. CASE Sequential
  <2>1. PICK w \in Threads : StopInv(w) /\ \A u \in Threads \ {w} : Idle(u)
    BY <1>3 DEF WorkersInv
  <2>2. pc[t] # "done"
    BY DEF Step, Fetch, Exhausted, Skip, FilterAll, BeginBatches, FilterBatch, EndBatches, Throw,
           NothingFound, Sink, Stream, Combine
  <2>3. w = t
    BY <2>1, <2>2 DEF Idle
  <2>4. \A u \in Threads \ {w} : Idle(u)'
    BY <1>1, <2>1, <2>3 DEF Idle
  <2>5. QED BY <1>1, <1>2, <1>3, <2>1, <2>4 DEF WorkersInv
<1>4. CASE ~ Sequential
  BY <1>1, <1>2, <1>4 DEF WorkersInv
<1>5. QED BY <1>3, <1>4
-----------------------------------------------------------------------------
(* CountInv: the rows the streaming limit has counted. *)

LEMMA DisjointCount ==
  ASSUME NEW S, NEW T, IsFiniteSet(S), IsFiniteSet(T), S \cap T = {}
  PROVE  /\ IsFiniteSet(S \cup T)
         /\ Cardinality(S \cup T) = Cardinality(S) + Cardinality(T)
         /\ Cardinality(S) \in Nat /\ Cardinality(T) \in Nat
<1>1. Cardinality(S) \in Nat /\ Cardinality(T) \in Nat
  BY FS_CardinalityType
<1>2. Cardinality(S \cap T) = 0
  BY FS_EmptySet
<1>3. IsFiniteSet(S \cup T) /\ Cardinality(S \cup T) = Cardinality(S) + Cardinality(T) - Cardinality(S \cap T)
  BY FS_Union
<1>4. QED BY <1>1, <1>2, <1>3

\* The first of L rows that the offset does not skip, and the last that the limit allows.
LEMMA Window ==
  ASSUME NEW p \in Nat, NEW L \in Nat, NEW skip \in Nat, NEW limit \in Nat
  PROVE  LET first == IF p < skip THEN skip - p + 1 ELSE 1
             last  == Min2(L, skip + limit - p)
             n(x)  == IF Min2(x, skip + limit) > skip THEN Min2(x, skip + limit) - skip ELSE 0
         IN  /\ first \in Nat \ {0} /\ last \in Int /\ last <= L
             /\ n(p + L) = n(p) + (IF first <= last THEN last - first + 1 ELSE 0)
BY DEF Min2

LEMMA OutCount ==
  ASSUME TypeOK, NEW t \in Threads, OutInv(t), pc[t] = "sink"
  PROVE  /\ OutRows(t) = {out[t][i] : i \in 1..Len(out[t])}
         /\ IsFiniteSet(OutRows(t)) /\ Cardinality(OutRows(t)) = Len(out[t])
<1>1. Increasing(out[t])
  BY DEF OutInv
<1>2. /\ out[t] \in Seq(Nat) /\ Len(out[t]) \in Nat
      /\ OutRows(t) = RowsOf(out[t]) /\ IsFiniteSet(matching) /\ OutRows(t) \subseteq matching
  BY RowSeqs
<1>3. DOMAIN out[t] = 1..Len(out[t])
  BY <1>2
<1>4. OutRows(t) = {out[t][i] : i \in 1..Len(out[t])}
  BY <1>3 DEF OutRows
<1>5. 1 \in Nat \ {0} /\ Len(out[t]) \in Int /\ Len(out[t]) <= Len(out[t])
  BY <1>2
<1>6. Cardinality({out[t][i] : i \in 1..Len(out[t])})
         = IF 1 <= Len(out[t]) THEN Len(out[t]) - 1 + 1 ELSE 0
  BY <1>1, <1>2, <1>5, PickedCount
<1>7. Cardinality({out[t][i] : i \in 1..Len(out[t])}) = Len(out[t])
  BY <1>2, <1>6
<1>8. QED BY <1>2, <1>4, <1>7, FS_Subset

LEMMA AllSelected ==
  ASSUME NEW t \in Threads, OutInv(t), pc[t] = "sink", ~ limit_reached
  PROVE  OutRows(t) = Matches(t, table.ends[at[t]])
BY DEF OutInv

\* What the streaming limit lets through.
LEMMA StreamShape ==
  ASSUME TypeOK, KeptInv, NEW t \in Threads, OutInv(t), Stream(t)
  PROVE  LET first == IF passed < plan.offset THEN plan.offset - passed + 1 ELSE 1
             last  == Min2(Len(out[t]), MaxElement - passed)
             N     == {out[t][i] : i \in first..last}
         IN  /\ pc[t] = "sink" /\ out[t] # <<>> /\ ~ BatchedLimit
             /\ passed' \in Nat /\ passed + Len(out[t]) <= passed'
             /\ passed' >= MaxElement <=> passed + Len(out[t]) >= MaxElement
             /\ passed' < MaxElement => passed' = passed + Len(out[t])
             /\ first \in Nat \ {0} /\ last \in Int /\ last <= Len(out[t])
             /\ N \subseteq OutRows(t)
             /\ Got' = Got \cup N
             /\ IsFiniteSet(N)
             /\ Cardinality(N) = IF first <= last THEN last - first + 1 ELSE 0
<1> DEFINE first == IF passed < plan.offset THEN plan.offset - passed + 1 ELSE 1
           last  == Min2(Len(out[t]), MaxElement - passed)
           N     == {out[t][i] : i \in first..last}
<1>1. /\ pc[t] = "sink" /\ out[t] # <<>> /\ ~ BatchedLimit
      /\ merged' = merged
  BY DEF Stream
<1>2. local' = [local EXCEPT ![t] = local[t] \o SubSeq(out[t], first, last)]
  BY DEF Stream
<1>3. /\ out[t] \in Seq(Nat) /\ Len(out[t]) \in Nat /\ passed \in Nat
      /\ plan.limit \in Nat /\ plan.offset \in Nat
      /\ MaxElement \in Nat /\ MaxElement = plan.limit + plan.offset
  BY RowSeqs, PlanType DEF TypeOK
<1>4. first \in Nat \ {0}
  <2>1. passed \in Nat /\ plan.offset \in Nat
    BY <1>3
  <2>2. QED BY <2>1
<1>5. last \in Int /\ last <= Len(out[t])
  <2>1. Len(out[t]) \in Int /\ MaxElement - passed \in Int
    BY <1>3
  <2>2. QED BY <2>1, Smaller
<1> HIDE DEF first, last
<1>6. N \subseteq OutRows(t) /\ Got' = Got \cup N
  BY <1>1, <1>2, <1>4, <1>5, Appended
<1>7. Increasing(out[t])
  BY <1>1 DEF OutInv
<1>8. IsFiniteSet(N) /\ Cardinality(N) = IF first <= last THEN last - first + 1 ELSE 0
  BY <1>3, <1>4, <1>5, <1>7, PickedCount
<1>9. /\ passed' \in Nat /\ passed + Len(out[t]) <= passed'
      /\ passed' >= MaxElement <=> passed + Len(out[t]) >= MaxElement
      /\ passed' < MaxElement => passed' = passed + Len(out[t])
  BY CounterStep
<1> HIDE DEF N
<1>10. QED BY <1>1, <1>4, <1>5, <1>6, <1>8, <1>9 DEF first, last, N

LEMMA GotFinite ==
  ASSUME TypeOK
  PROVE  /\ Got \subseteq matching /\ IsFiniteSet(Got)
         /\ RowsBehind \subseteq matching /\ IsFiniteSet(RowsBehind)
         /\ RowsAhead \subseteq matching
<1>1. \A t \in Threads : Held(t) \subseteq matching
  BY RowSeqs
<1>2. Got \subseteq matching /\ RowsBehind \subseteq matching /\ RowsAhead \subseteq matching
  BY <1>1 DEF Got, RowsBehind, RowsAhead, TypeOK
<1>3. IsFiniteSet(matching)
  BY MatchingFinite DEF TypeOK
<1>4. QED BY <1>2, <1>3, FS_Subset

\* The rows behind grow by what a thread handed over, unless the flag is up.
LEMMA BehindGrows ==
  ASSUME TypeOK, SourceInv, NEW t \in Threads, OutInv(t), NothingFound(t) \/ Sink(t) \/ Stream(t),
         ~ limit_reached
  PROVE  /\ RowsBehind' = RowsBehind \cup OutRows(t)
         /\ OutRows(t) \subseteq RowsAhead /\ RowsBehind \cap OutRows(t) = {}
         /\ Cardinality(RowsBehind') = Cardinality(RowsBehind) + Len(out[t])
<1>1. pc[t] = "sink" /\ Leaves(t)
  BY DEF NothingFound, Sink, Stream, Leaves
<1>2. /\ OutRows(t) = Matches(t, table.ends[at[t]])
      /\ IsFiniteSet(OutRows(t)) /\ Cardinality(OutRows(t)) = Len(out[t])
  BY <1>1, AllSelected, OutCount
<1>3. RowsBehind' = RowsBehind \cup OutRows(t) /\ OutRows(t) \subseteq RowsAhead
  BY <1>1, <1>2, LeavesShape
<1>4. RowsBehind \cap OutRows(t) = {}
  BY <1>3 DEF RowsBehind
<1>5. IsFiniteSet(RowsBehind)
  BY GotFinite
<1>6. Cardinality(RowsBehind \cup OutRows(t)) = Cardinality(RowsBehind) + Len(out[t])
  BY <1>2, <1>4, <1>5, DisjointCount
<1>7. QED BY <1>3, <1>4, <1>6

\* Up to max_element, numbers that are one there are one after as many rows more.
LEMMA CappedSum ==
  ASSUME NEW p \in Nat, NEW b \in Nat, NEW L \in Nat, NEW m \in Nat, NEW q \in Nat,
         p + L <= q, q >= m <=> p + L >= m, q < m => q = p + L
  PROVE  /\ Min2(q, m) = Min2(p + L, m)
         /\ Min2(p, m) = Min2(b, m) => Min2(q, m) = Min2(b + L, m)
BY DEF Min2

LEMMA CountStep ==
  ASSUME TypeOK, SourceInv, KeptInv, CountInv, NEW t \in Threads, OutInv(t), Step(t)
  PROVE  CountInv'
<1> SUFFICES ASSUME ~ BatchedLimit
             PROVE  /\ \/ limit_reached'
                       \/ Min2(passed', MaxElement) = Min2(Cardinality(RowsBehind'), MaxElement)
                    /\ Cardinality(Got') = Unskipped(Min2(passed', MaxElement))
  <2>1. /\ BatchedLimit' <=> BatchedLimit
        /\ MaxElement' = MaxElement /\ plan' = plan
    BY Others
  <2>2. QED BY <2>1 DEF CountInv, Unskipped, Min2
<1>1. limit_reached => limit_reached'
  BY Others
<1>2. CASE Stays(t) \/ Fetch(t)
  <2>1. Got' = Got /\ passed' = passed
    BY <1>2, GotSame
  <2>2. RowsBehind' = RowsBehind
    BY <1>2, StaysShape, AheadFetch
  <2>3. QED BY <1>1, <2>1, <2>2 DEF CountInv
<1>3. CASE Skip(t)
  <2>1. limit_reached /\ passed' = passed /\ local' = local /\ merged' = merged
    BY <1>3 DEF Skip, sinkVars
  <2>2. Got' = Got
    BY <2>1 DEF Got, Held
  <2>3. QED BY <1>1, <2>1, <2>2 DEF CountInv
<1>4. CASE NothingFound(t)
  <2>1. /\ out[t] = <<>> /\ passed' = passed /\ local' = local /\ merged' = merged
    BY <1>4 DEF NothingFound, sinkVars
  <2>2. Got' = Got
    BY <2>1 DEF Got, Held
  <2>3. \/ limit_reached'
        \/ Min2(passed', MaxElement) = Min2(Cardinality(RowsBehind'), MaxElement)
    <3>1. CASE limit_reached
      BY <1>1, <3>1
    <3>2. CASE ~ limit_reached
      <4>1. RowsBehind' = RowsBehind \cup OutRows(t)
        BY <1>4, <3>2, BehindGrows
      <4>2. OutRows(t) = {}
        BY <2>1 DEF OutRows
      <4>3. RowsBehind' = RowsBehind
        BY <4>1, <4>2
      <4>4. QED BY <2>1, <3>2, <4>3 DEF CountInv
    <3>3. QED BY <3>1, <3>2
  <2>4. QED BY <2>1, <2>2, <2>3 DEF CountInv
<1>5. CASE Sink(t)
  BY <1>5 DEF Sink
<1>6. CASE Stream(t)
  <2> DEFINE first == IF passed < plan.offset THEN plan.offset - passed + 1 ELSE 1
             last  == Min2(Len(out[t]), MaxElement - passed)
             N     == {out[t][i] : i \in first..last}
  <2>1. /\ pc[t] = "sink"
        /\ passed' \in Nat /\ passed + Len(out[t]) <= passed'
        /\ passed' >= MaxElement <=> passed + Len(out[t]) >= MaxElement
        /\ passed' < MaxElement => passed' = passed + Len(out[t])
        /\ N \subseteq OutRows(t)
        /\ Got' = Got \cup N
        /\ IsFiniteSet(N)
        /\ Cardinality(N) = IF first <= last THEN last - first + 1 ELSE 0
    BY <1>6, StreamShape
  <2> HIDE DEF first, last, N
  <2>5. /\ passed \in Nat /\ Len(out[t]) \in Nat /\ MaxElement \in Nat
        /\ Cardinality(RowsBehind) \in Nat
    BY RowSeqs, GotFinite, FS_CardinalityType, PlanType DEF TypeOK
  <2>6. /\ Min2(passed', MaxElement) = Min2(passed + Len(out[t]), MaxElement)
        /\ Min2(passed, MaxElement) = Min2(Cardinality(RowsBehind), MaxElement)
              => Min2(passed', MaxElement) = Min2(Cardinality(RowsBehind) + Len(out[t]), MaxElement)
    BY <2>1, <2>5, CappedSum
  <2>2. \/ limit_reached'
        \/ Min2(passed', MaxElement) = Min2(Cardinality(RowsBehind'), MaxElement)
    <3>1. CASE limit_reached
      BY <1>1, <3>1
    <3>2. CASE ~ limit_reached
      <4>1. Cardinality(RowsBehind') = Cardinality(RowsBehind) + Len(out[t])
        BY <1>6, <3>2, BehindGrows
      <4>2. Min2(passed, MaxElement) = Min2(Cardinality(RowsBehind), MaxElement)
        BY <3>2 DEF CountInv
      <4>3. QED BY <2>6, <4>1, <4>2
    <3>3. QED BY <3>1, <3>2
  <2>3. Cardinality(Got') = Unskipped(Min2(passed', MaxElement))
    <3>1. Got \cap N = {}
      <4>1. OutRows(t) \subseteq Matches(t, table.ends[at[t]])
        BY <2>1, OutInChunk
      <4>2. Matches(t, table.ends[at[t]]) \subseteq RowsAhead
        BY <1>6, LeavesShape DEF Leaves
      <4>3. QED BY <2>1, <4>1, <4>2 DEF KeptInv
    <3>2. Cardinality(Got') = Cardinality(Got) + (IF first <= last THEN last - first + 1 ELSE 0)
      <4>1. IsFiniteSet(Got)
        BY GotFinite
      <4>2. Cardinality(Got \cup N) = Cardinality(Got) + Cardinality(N)
        BY <2>1, <3>1, <4>1, DisjointCount
      <4>3. QED BY <2>1, <4>2
    <3>3. Cardinality(Got) = Unskipped(Min2(passed, MaxElement))
      BY DEF CountInv
    <3>4. /\ passed \in Nat /\ Len(out[t]) \in Nat /\ plan.offset \in Nat /\ plan.limit \in Nat
          /\ MaxElement = plan.offset + plan.limit
      <4>1. passed \in Nat /\ Len(out[t]) \in Nat
        BY RowSeqs DEF TypeOK
      <4>2. /\ plan.offset \in Nat /\ plan.limit \in Nat
            /\ MaxElement = plan.limit + plan.offset
        BY PlanType DEF TypeOK
      <4>3. QED BY <4>1, <4>2
    <3>5. Unskipped(Min2(passed + Len(out[t]), MaxElement))
             = Unskipped(Min2(passed, MaxElement)) + (IF first <= last THEN last - first + 1 ELSE 0)
      <4> DEFINE p == passed
                 L == Len(out[t])
                 skip == plan.offset
                 limit == plan.limit
      <4>1. p \in Nat /\ L \in Nat /\ skip \in Nat /\ limit \in Nat /\ MaxElement = skip + limit
        BY <3>4
      <4>2. first = IF p < skip THEN skip - p + 1 ELSE 1
        BY DEF first
      <4>3. last = Min2(L, skip + limit - p)
        BY <4>1 DEF last
      <4>4. \A n : Unskipped(n) = IF n > skip THEN n - skip ELSE 0
        BY DEF Unskipped
      <4> HIDE DEF p, L, skip, limit
      <4>5. Unskipped(Min2(p + L, skip + limit))
               = Unskipped(Min2(p, skip + limit)) + (IF first <= last THEN last - first + 1 ELSE 0)
        BY <4>1, <4>2, <4>3, <4>4, Window
      <4>6. QED BY <4>1, <4>5 DEF p, L
    <3>6. QED BY <2>6, <3>2, <3>3, <3>5
  <2>4. QED BY <2>2, <2>3
<1>7. QED BY <1>2, <1>3, <1>4, <1>5, <1>6 DEF Step, Stays
-----------------------------------------------------------------------------
(* DroppedInv: the rows the batched limit does not keep. *)

\* A thread that has max_element rows, all smaller.
FullBefore(t, r) == Len(local[t]) >= MaxElement /\ \A q \in Held(t) : q < r

\* What the limit operator drops of a thread's output comes after what it keeps of it.
LEMMA SinkDrops ==
  ASSUME TypeOK, KeptInv, NEW t \in Threads, OutInv(t), Sink(t), plan.limit # 0,
         NEW r \in OutRows(t), r \notin Held(t)'
  PROVE  FullBefore(t, r)'
<1>1. /\ pc[t] = "sink" /\ merged' = merged /\ plan' = plan
  BY DEF Sink, queryVars
<1>2. /\ out[t] \in Seq(Nat) /\ local[t] \in Seq(Nat)
      /\ Len(out[t]) \in Nat /\ Len(local[t]) \in Nat
      /\ OutRows(t) = RowsOf(out[t]) /\ Held(t) = RowsOf(local[t])
      /\ MaxElement \in Nat /\ MaxElement' = MaxElement
  BY <1>1, RowSeqs, PlanType DEF TypeOK, MaxElement
<1>3. /\ r \in Nat /\ Start(at[t]) < r /\ Start(at[t]) \in Nat
      /\ \A q \in Held(t) : q \in Nat /\ q <= Start(at[t])
  BY <1>1, OutInChunk, RowSeqs DEF KeptInv, Busy
<1>4. \A q \in Held(t) : q < r
  BY <1>3
<1>5. CASE Len(local[t]) >= MaxElement
  <2>1. local' = local
    BY <1>5 DEF Sink
  <2>2. QED BY <1>2, <1>4, <1>5, <2>1 DEF FullBefore, Held
<1>6. CASE ~ (Len(local[t]) >= MaxElement)
  <2> DEFINE n == Min2(Len(out[t]), MaxElement - Len(local[t]))
             N == {out[t][i] : i \in 1..n}
  <2>1. n \in Nat /\ n <= Len(out[t]) /\ (n = Len(out[t]) \/ n = MaxElement - Len(local[t]))
    <3> DEFINE a == Len(out[t])
               b == MaxElement - Len(local[t])
    <3>1. a \in Nat /\ b \in Nat
      BY <1>2, <1>6
    <3>2. n = Min2(a, b)
      OBVIOUS
    <3> HIDE DEF n, a, b
    <3>3. n \in Nat /\ n <= a /\ (n = a \/ n = b)
      BY <3>1, <3>2 DEF Min2
    <3>4. QED BY <3>3 DEF a, b
  <2>2. local' = [local EXCEPT ![t] = local[t] \o SubSeq(out[t], 1, n)]
    BY <1>6 DEF Sink
  <2>3. 1 \in Nat \ {0} /\ n \in Int
    <3> HIDE DEF n
    <3>1. QED BY <2>1
  <2> HIDE DEF n
  <2>4. Held(t)' = Held(t) \cup N
    BY <1>1, <2>1, <2>2, <2>3, Appended
  <2>5. PICK j \in 1..Len(out[t]) : r = out[t][j]
    BY <1>1, OutCount
  <2>6. r \notin N
    BY <2>4
  <2>7. n < j
    BY <1>2, <2>1, <2>5, <2>6
  <2>8. n = MaxElement - Len(local[t])
    BY <1>2, <2>1, <2>5, <2>7
  <2>9. Len(local'[t]) = MaxElement
    <3>1. SubSeq(out[t], 1, n) \in Seq(Nat) /\ Len(SubSeq(out[t], 1, n)) = n
      BY <1>2, <2>1, CutLength
    <3>2. Len(local[t] \o SubSeq(out[t], 1, n)) = Len(local[t]) + n
      BY <1>2, <3>1, ConcatProperties
    <3>3. local'[t] = local[t] \o SubSeq(out[t], 1, n)
      BY <2>2 DEF TypeOK
    <3>4. Len(local'[t]) = Len(local[t]) + (MaxElement - Len(local[t]))
      BY <2>8, <3>2, <3>3
    <3>5. Len(local[t]) \in Nat /\ MaxElement \in Nat
      BY <1>2
    <3>6. QED BY <3>4, <3>5
  <2>10. \A q \in N : q < r
    <3>1. SUFFICES ASSUME NEW i \in 1..n
                   PROVE  out[t][i] < r
      OBVIOUS
    <3>2. i \in 1..Len(out[t]) /\ i < j
      <4>1. Len(out[t]) \in Nat /\ n \in Nat /\ n <= Len(out[t]) /\ n < j /\ j \in Nat
        BY <1>2, <2>1, <2>5, <2>7
      <4>2. QED BY <4>1
    <3>3. Increasing(out[t]) /\ DOMAIN out[t] = 1..Len(out[t])
      BY <1>1, <1>2 DEF OutInv
    <3>4. QED BY <2>5, <3>2, <3>3 DEF Increasing
  <2>11. \A q \in Held(t)' : q < r
    BY <1>4, <2>4, <2>10
  <2>12. Len(local'[t]) >= MaxElement'
    BY <1>2, <2>9
  <2>13. QED BY <2>11, <2>12 DEF FullBefore
<1>7. QED BY <1>5, <1>6

LEMMA DroppedStep ==
  ASSUME TypeOK, SourceInv, KeptInv, DroppedInv, NEW t \in Threads, OutInv(t), Step(t)
  PROVE  DroppedInv'
<1>1. /\ plan' = plan /\ MaxElement' = MaxElement
      /\ BatchedLimit' <=> BatchedLimit
      /\ limit_reached => limit_reached'
      /\ \A u \in Threads : u # t => local'[u] = local[u]
  BY Others
<1>2. SUFFICES ASSUME BatchedLimit, ~ limit_reached, plan.limit # 0, NEW r \in (RowsBehind \ Got)'
               PROVE  \E u \in Threads : FullBefore(u, r)'
  BY <1>1 DEF DroppedInv, FullBefore
<1>3. r \in RowsBehind \ Got => \E u \in Threads : FullBefore(u, r)
  BY <1>2 DEF DroppedInv, FullBefore
<1>4. ASSUME NEW u \in Threads, FullBefore(u, r), local'[u] = local[u]
      PROVE  FullBefore(u, r)'
  BY <1>1, <1>4 DEF FullBefore, Held
<1>5. CASE Stays(t) \/ Fetch(t)
  <2>1. Got' = Got /\ local' = local
    BY <1>5, GotSame
  <2>2. RowsBehind' = RowsBehind
    BY <1>5, StaysShape, AheadFetch
  <2>3. QED BY <1>2, <1>3, <1>4, <2>1, <2>2
<1>6. CASE Skip(t) \/ Stream(t)
  BY <1>2, <1>6 DEF Skip, Stream
<1>7. CASE NothingFound(t)
  <2>1. out[t] = <<>> /\ local' = local /\ merged' = merged
    BY <1>7 DEF NothingFound, sinkVars
  <2>2. Got' = Got
    BY <2>1 DEF Got, Held
  <2>3. OutRows(t) = {}
    BY <2>1 DEF OutRows
  <2>4. RowsBehind' = RowsBehind
    BY <1>2, <1>7, <2>3, BehindGrows
  <2>5. QED BY <1>2, <1>3, <1>4, <2>1, <2>2, <2>4
<1>8. CASE Sink(t)
  <2>1. RowsBehind' = RowsBehind \cup OutRows(t)
    BY <1>2, <1>8, BehindGrows
  <2>2. Got \subseteq Got'
    BY <1>8, HandedOver DEF Leaves
  <2>3. Held(t)' \subseteq Got'
    BY DEF Got
  <2>4. CASE r \in OutRows(t)
    BY <1>2, <1>8, <2>3, <2>4, SinkDrops
  <2>5. CASE r \in RowsBehind
    <3>1. PICK u \in Threads : FullBefore(u, r)
      BY <1>2, <1>3, <2>2, <2>5
    <3>2. u = t => local'[u] = local[u]
      BY <1>8, <3>1 DEF Sink, FullBefore
    <3>3. QED BY <1>1, <1>4, <3>1, <3>2
  <2>6. QED BY <1>2, <2>1, <2>4, <2>5
<1>9. QED BY <1>5, <1>6, <1>7, <1>8 DEF Step, Stays
-----------------------------------------------------------------------------
(* AloneInv: one thread goes through all chunks. *)

InSequence == \A c, d \in Chunks : c < d /\ Ahead(c) => Ahead(d)

\* The rows behind are the first ones.
LEMMA BehindFirst ==
  ASSUME TypeOK, InSequence, NEW b \in RowsBehind, NEW q \in matching, q <= b
  PROVE  q \in RowsBehind
<1>1. SUFFICES ASSUME q \in RowsAhead
               PROVE  FALSE
  BY DEF RowsBehind
<1>2. table \in Tables /\ matching \in table.verdicts /\ Chunks \subseteq Nat /\ matching \subseteq Nat
  BY ChunkBounds, MatchingFinite DEF TypeOK
<1>3. PICK c \in Chunks : q \in Rows(c) /\ Ahead(c)
  BY <1>1 DEF RowsAhead
<1>4. b \in matching /\ b \notin RowsAhead
  BY DEF RowsBehind
<1>5. PICK d \in Chunks : b \in Rows(d)
  BY <1>2, <1>4, ChunkOfRow
<1>6. ~ Ahead(d)
  BY <1>4, <1>5 DEF RowsAhead
<1>7. ~ (c < d)
  BY <1>3, <1>6 DEF InSequence
<1>8. d < c
  BY <1>2, <1>3, <1>6, <1>7
<1>9. b < q
  BY <1>2, <1>3, <1>5, <1>8, RowOrder
<1>10. QED BY <1>2, <1>4, <1>9

\* The first rows, if they are enough, are those the query is to return.
LEMMA FirstEnough ==
  ASSUME TypeOK, NEW B \in SUBSET matching,
         \A b \in B, q \in matching : q <= b => q \in B,
         Cardinality(B) >= MaxElement
  PROVE  InOrder \subseteq B
<1>1. SUFFICES ASSUME NEW r \in InOrder, r \notin B
               PROVE  FALSE
  OBVIOUS
<1>2. /\ IsFiniteSet(matching) /\ matching \subseteq Nat
      /\ MaxElement \in Nat /\ MaxElement = plan.limit + plan.offset
      /\ plan.limit \in Nat /\ plan.offset \in Nat
  BY MatchingFinite, PlanType DEF TypeOK
<1>3. r \in matching /\ Rank(matching, r) <= plan.offset + plan.limit
  BY <1>1 DEF InOrder, Rank
<1>4. \A b \in B : b \in matching /\ b <= r
  BY <1>1, <1>2, <1>3
<1> DEFINE R == {q \in matching : q <= r}
<1>5. r \in R /\ B \subseteq R
  BY <1>2, <1>3, <1>4
<1>6. IsFiniteSet(R) /\ Cardinality(R) = Rank(matching, r)
  BY <1>2, RankType DEF Rank
<1> HIDE DEF R
<1>7. IsFiniteSet(B)
  BY <1>5, <1>6, FS_Subset
<1>8. IsFiniteSet(B \cup {r}) /\ Cardinality(B \cup {r}) = Cardinality(B) + 1
  BY <1>1, <1>7, FS_AddElement
<1>9. Cardinality(B \cup {r}) <= Cardinality(R)
  BY <1>5, <1>6, FS_Subset
<1>10. Cardinality(B) \in Nat /\ Cardinality(R) \in Nat
  BY <1>6, <1>7, FS_CardinalityType
<1>11. Rank(matching, r) \in Nat
  BY <1>6, <1>10
<1>12. QED BY <1>2, <1>3, <1>6, <1>8, <1>9, <1>10

\* Nothing is ahead before the chunk of a thread that works alone.
LEMMA AloneAhead ==
  ASSUME TypeOK, SourceInv, NEW t \in Threads, at[t] # 0, \A u \in Threads \ {t} : at[u] = 0,
         NEW c \in Chunks, Ahead(c)
  PROVE  c >= at[t]
<1>1. at[t] \in Chunks /\ at[t] \in Nat /\ c \in Nat /\ taken \in Nat
  BY ChunkBounds DEF TypeOK
<1>2. table.batches[c] \in Nat /\ table.batches[at[t]] \in Nat /\ table.batches[at[t]] <= taken
  BY <1>1, ChunkBounds DEF TypeOK, SourceInv
<1>3. CASE table.batches[c] > taken
  <2>1. c <= at[t] => table.batches[c] <= table.batches[at[t]]
    BY <1>1, ChunkOrder DEF TypeOK
  <2>2. ~ (c <= at[t])
    BY <1>1, <1>2, <1>3, <2>1
  <2>3. QED BY <1>1, <2>2
<1>4. CASE ~ (table.batches[c] > taken)
  <2>1. c > at[t] \/ c = at[t]
    BY <1>4 DEF Ahead
  <2>2. QED BY <1>1, <2>1
<1>5. QED BY <1>3, <1>4

LEMMA SequenceStep ==
  ASSUME TypeOK, SourceInv, InSequence, NEW t \in Threads, Step(t),
         \A u \in Threads \ {t} : at[u] = 0
  PROVE  InSequence'
<1>1. table' = table /\ Chunks' = Chunks
  BY Others DEF Chunks
<1>2. CASE Stays(t) \/ Fetch(t)
  <2>1. \A c \in Chunks : Ahead(c)' <=> Ahead(c)
    BY <1>2, StaysShape, AheadFetch
  <2>2. QED BY <1>1, <2>1 DEF InSequence
<1>3. CASE Leaves(t)
  <2>1. /\ at[t] \in Chunks /\ at[t] # 0
        /\ \A c \in Chunks : Ahead(c)' <=> Ahead(c) /\ c # at[t]
    BY <1>3, LeavesShape
  <2>2. SUFFICES ASSUME NEW c \in Chunks, NEW d \in Chunks, c < d, Ahead(c)'
                 PROVE  Ahead(d) /\ d # at[t]
    BY <1>1, <2>1 DEF InSequence
  <2>3. c >= at[t] /\ c \in Nat /\ d \in Nat /\ at[t] \in Nat
    BY <2>1, <2>2, AloneAhead, ChunkBounds DEF TypeOK
  <2>4. QED BY <2>1, <2>2, <2>3 DEF InSequence
<1>4. QED BY <1>2, <1>3 DEF Step, Stays, Leaves

\* The ranks of the rows a thread hands over, which works alone.
LEMMA RanksFollow ==
  ASSUME TypeOK, SourceInv, InSequence, NEW t \in Threads, OutInv(t), pc[t] = "sink",
         \A u \in Threads \ {t} : at[u] = 0,
         passed = Cardinality(RowsBehind), NEW i \in 1..Len(out[t])
  PROVE  /\ Rank(matching, out[t][i]) = passed + i
         /\ {q \in matching : q <= out[t][i]} = RowsBehind \cup {out[t][j] : j \in 1..i}
<1>1. /\ out[t] \in Seq(Nat) /\ Len(out[t]) \in Nat /\ DOMAIN out[t] = 1..Len(out[t])
      /\ OutRows(t) \subseteq matching /\ matching \subseteq Nat /\ IsFiniteSet(matching)
  BY RowSeqs
<1>2. /\ at[t] \in Chunks /\ at[t] # 0 /\ table \in Tables /\ Chunks \subseteq Nat
      /\ table.ends[at[t]] \in Nat /\ Start(at[t]) \in Nat
      /\ Increasing(out[t])
      /\ OutRows(t) \subseteq Matches(t, table.ends[at[t]])
  BY OutInChunk, ChunkBounds DEF TypeOK
<1>3. PICK e \in Start(at[t])..table.ends[at[t]] : OutRows(t) = Matches(t, e)
  BY DEF OutInv
<1> DEFINE r == out[t][i]
           N == {out[t][j] : j \in 1..i}
<1>4. r \in OutRows(t) /\ r \in matching /\ r \in Nat /\ Start(at[t]) < r /\ r <= e
  BY <1>1, <1>3 DEF OutRows, Matches
<1>5. r \in Rows(at[t])
  <2>1. e \in Nat /\ e <= table.ends[at[t]]
    BY <1>2, <1>3
  <2>2. r <= table.ends[at[t]]
    BY <1>2, <1>4, <2>1
  <2>3. QED BY <1>2, <1>4, <2>2 DEF Rows
<1>6. \A j \in 1..Len(out[t]) : out[t][j] \in Nat /\ (out[t][j] <= r <=> j <= i)
  <2>1. SUFFICES ASSUME NEW j \in 1..Len(out[t])
                 PROVE  out[t][j] \in Nat /\ (out[t][j] <= r <=> j <= i)
    OBVIOUS
  <2>2. out[t][j] \in Nat /\ out[t][i] \in Nat
    <3>1. \A s \in Seq(Nat) : \A k \in 1..Len(s) : s[k] \in Nat
      OBVIOUS
    <3>2. QED BY <1>1, <3>1
  <2>3. /\ i < j => out[t][i] < out[t][j]
        /\ j < i => out[t][j] < out[t][i]
    BY <1>1, <1>2 DEF Increasing
  <2>4. QED BY <2>2, <2>3
<1>7. \A j \in 1..i : j \in 1..Len(out[t])
  BY <1>1
<1>8. N \subseteq OutRows(t) /\ \A q \in N : q <= r
  <2>1. SUFFICES ASSUME NEW j \in 1..i
                 PROVE  out[t][j] \in OutRows(t) /\ out[t][j] <= r
    OBVIOUS
  <2>2. j \in 1..Len(out[t]) /\ j <= i
    BY <1>7
  <2>3. QED BY <1>1, <1>6, <2>2 DEF OutRows
<1>9. \A q \in OutRows(t) : q <= r => q \in N
  <2>1. SUFFICES ASSUME NEW j \in 1..Len(out[t]), out[t][j] <= r
                 PROVE  j \in 1..i
    BY <1>1 DEF OutRows
  <2>2. QED BY <1>6, <2>1
<1> HIDE DEF r, N
<1>10. ASSUME NEW q \in RowsBehind
       PROVE  q \in matching /\ q <= r
  <2>1. q \in matching /\ q \notin RowsAhead
    BY DEF RowsBehind
  <2>2. PICK c \in Chunks : q \in Rows(c)
    BY <2>1, ChunkOfRow DEF TypeOK
  <2>3. ~ Ahead(c) /\ Ahead(at[t])
    BY <1>2, <2>1, <2>2 DEF RowsAhead, Ahead, Busy
  <2>4. c < at[t]
    <3>1. ~ (at[t] < c) /\ c # at[t]
      BY <1>2, <2>3 DEF InSequence
    <3>2. c \in Nat /\ at[t] \in Nat
      BY <1>2
    <3>3. QED BY <3>1, <3>2
  <2>5. q < r /\ q \in Nat
    BY <1>2, <1>5, <2>2, <2>4, RowOrder
  <2>6. QED BY <1>4, <2>1, <2>5
<1>11. ASSUME NEW q \in matching, q <= r, q \notin RowsBehind
       PROVE  q \in N
  <2>1. q \in RowsAhead /\ q \in Nat
    BY <1>1, <1>11 DEF RowsBehind
  <2>2. PICK c \in Chunks : q \in Rows(c) /\ Ahead(c)
    BY <2>1 DEF RowsAhead
  <2>3. c >= at[t]
    BY <1>2, <2>2, AloneAhead
  <2>4. ~ (at[t] < c)
    <3>1. at[t] < c => r < q
      BY <1>2, <1>5, <2>2, RowOrder
    <3>2. QED BY <1>4, <1>11, <2>1, <3>1
  <2>5. c = at[t]
    BY <1>2, <2>3, <2>4
  <2>6. Start(at[t]) < q
    BY <1>2, <2>2, <2>5 DEF Rows
  <2>7. q <= e
    BY <1>2, <1>3, <1>4, <1>11, <2>1
  <2>8. q \in OutRows(t)
    BY <1>3, <1>11, <2>6, <2>7 DEF Matches
  <2>9. QED BY <1>9, <1>11, <2>8
<1>12. {q \in matching : q <= r} = RowsBehind \cup N
  BY <1>1, <1>8, <1>10, <1>11
<1>13. RowsBehind \cap N = {}
  <2>1. Matches(t, table.ends[at[t]]) = Rows(at[t]) \cap matching
    BY <1>2, ChunkMatches
  <2>2. Ahead(at[t])
    BY <1>2 DEF Ahead, Busy
  <2>3. OutRows(t) \subseteq RowsAhead
    BY <1>2, <2>1, <2>2 DEF RowsAhead
  <2>4. QED BY <1>8, <2>3 DEF RowsBehind
<1>14. IsFiniteSet(N) /\ Cardinality(N) = i
  <2>1. 1 \in Nat \ {0} /\ i \in Int /\ i <= Len(out[t]) /\ 1 <= i
    BY <1>1
  <2>2. IsFiniteSet(N) /\ Cardinality(N) = IF 1 <= i THEN i - 1 + 1 ELSE 0
    BY <1>1, <1>2, <2>1, PickedCount DEF N
  <2>3. QED BY <2>1, <2>2
<1>15. Cardinality(RowsBehind \cup N) = Cardinality(RowsBehind) + i
  BY <1>13, <1>14, GotFinite, DisjointCount
<1>16. QED BY <1>12, <1>15 DEF Rank, r, N

\* What a thread alone has passed on, before and after it has passed on enough.
Through  == passed = Cardinality(RowsBehind) /\ Got = InOrder \cap RowsBehind
Finished == passed >= MaxElement /\ Got = InOrder

LEMMA ThroughEnough ==
  ASSUME TypeOK, InSequence, Through, passed >= MaxElement
  PROVE  Finished
<1>1. RowsBehind \in SUBSET matching
  BY GotFinite
<1>2. \A b \in RowsBehind, q \in matching : q <= b => q \in RowsBehind
  BY BehindFirst
<1>3. Cardinality(RowsBehind) >= MaxElement
  BY DEF Through
<1>4. InOrder \subseteq RowsBehind
  BY <1>1, <1>2, <1>3, FirstEnough
<1>5. QED BY <1>4 DEF Through, Finished

\* The window of the streaming limit is that of the ranks.
LEMMA WindowOfRanks ==
  ASSUME TypeOK, SourceInv, InSequence, NEW t \in Threads, OutInv(t), pc[t] = "sink",
         \A u \in Threads \ {t} : at[u] = 0, passed = Cardinality(RowsBehind)
  PROVE  LET first == IF passed < plan.offset THEN plan.offset - passed + 1 ELSE 1
             last  == Min2(Len(out[t]), MaxElement - passed)
         IN  {out[t][i] : i \in first..last} = InOrder \cap OutRows(t)
<1> DEFINE first == IF passed < plan.offset THEN plan.offset - passed + 1 ELSE 1
           last  == Min2(Len(out[t]), MaxElement - passed)
           skip  == plan.offset
           max   == plan.offset + plan.limit
           L     == Len(out[t])
<1>1. /\ passed \in Nat /\ L \in Nat /\ skip \in Nat /\ max \in Nat
      /\ MaxElement = max
  <2>1. passed \in Nat /\ Len(out[t]) \in Nat
    BY RowSeqs DEF TypeOK
  <2>2. plan.offset \in Nat /\ plan.limit \in Nat /\ MaxElement = plan.limit + plan.offset
    BY PlanType DEF TypeOK
  <2>3. QED BY <2>1, <2>2
<1>2. first = IF passed < skip THEN skip - passed + 1 ELSE 1
  OBVIOUS
<1>3. last = Min2(L, max - passed)
  BY <1>1
<1>4. \A i \in 1..L : out[t][i] \in InOrder <=> skip < passed + i /\ passed + i <= max
  <2>1. SUFFICES ASSUME NEW i \in 1..Len(out[t])
                 PROVE  out[t][i] \in InOrder <=> skip < passed + i /\ passed + i <= max
    OBVIOUS
  <2>2. Rank(matching, out[t][i]) = passed + i
    BY RanksFollow
  <2>3. out[t][i] \in OutRows(t) /\ OutRows(t) \subseteq matching
    BY OutCount, RowSeqs
  <2>4. QED BY <2>2, <2>3 DEF InOrder, Rank
<1>5. OutRows(t) = {out[t][i] : i \in 1..L}
  BY OutCount
<1> HIDE DEF first, last, skip, max, L
<1>6. \A i \in 1..L : skip < passed + i /\ passed + i <= max <=> i \in first..last
  BY <1>1, <1>2, <1>3 DEF Min2
<1>7. \A i \in first..last : i \in 1..L
  BY <1>1, <1>2, <1>3 DEF Min2
<1>8. {out[t][i] : i \in first..last} = InOrder \cap OutRows(t)
  <2>1. ASSUME NEW i \in first..last
        PROVE  out[t][i] \in InOrder \cap OutRows(t)
    BY <1>4, <1>5, <1>6, <1>7
  <2>2. ASSUME NEW r \in InOrder \cap OutRows(t)
        PROVE  r \in {out[t][i] : i \in first..last}
    <3>1. PICK i \in 1..L : r = out[t][i]
      BY <1>5
    <3>2. i \in first..last
      BY <1>4, <1>6, <3>1
    <3>3. QED BY <3>1, <3>2
  <2>3. QED BY <2>1, <2>2
<1>9. QED BY <1>8 DEF first, last

LEMMA StreamAlone ==
  ASSUME TypeOK, FlagMeansEnough, SourceInv, KeptInv, InSequence, ~ Pushed \/ plan.offset = 0,
         NEW t \in Threads, OutInv(t), Stream(t),
         \A u \in Threads \ {t} : at[u] = 0 /\ pc[u] = "done", Through
  PROVE  Through' \/ Finished'
<1>1. /\ pc[t] = "sink" /\ ~ BatchedLimit
      /\ passed' \in Nat /\ passed + Len(out[t]) <= passed'
      /\ passed' >= MaxElement <=> passed + Len(out[t]) >= MaxElement
      /\ passed' < MaxElement => passed' = passed + Len(out[t])
      /\ Got' = Got \cup (InOrder \cap OutRows(t))
  BY StreamShape, WindowOfRanks DEF Through
<1>2. InOrder' = InOrder /\ MaxElement' = MaxElement
  BY Others DEF Step
<1>3. Got' = InOrder \cap (RowsBehind \cup OutRows(t))
  BY <1>1 DEF Through
<1>4. /\ Len(out[t]) \in Nat /\ passed \in Nat /\ MaxElement \in Nat
      /\ OutRows(t) \subseteq matching
  BY RowSeqs, PlanType DEF TypeOK
<1>5. limit_reached => passed + Len(out[t]) >= MaxElement
  <2> SUFFICES ASSUME limit_reached PROVE passed + Len(out[t]) >= MaxElement
    OBVIOUS
  <2>1. plan.limit \in Nat /\ MaxElement = plan.limit
    <3>1. plan.offset = 0 /\ plan.limit \in Nat /\ MaxElement = plan.limit + plan.offset
      BY PlanType DEF SourceInv, TypeOK
    <3>2. QED BY <3>1
  <2>2. Len(out[t]) >= plan.limit \/ passed >= plan.limit
    BY <1>1 DEF FlagMeansEnough, Holding
  <2>3. QED BY <1>4, <2>1, <2>2
<1>6. CASE passed + Len(out[t]) < MaxElement
  <2>1. ~ limit_reached
    BY <1>4, <1>5, <1>6
  <2>2. /\ RowsBehind' = RowsBehind \cup OutRows(t)
        /\ Cardinality(RowsBehind') = Cardinality(RowsBehind) + Len(out[t])
    BY <2>1, BehindGrows
  <2>3. passed' = passed + Len(out[t])
    BY <1>1, <1>4, <1>6
  <2>4. QED BY <1>2, <1>3, <2>2, <2>3 DEF Through
<1>7. CASE passed + Len(out[t]) >= MaxElement
  <2> DEFINE B == RowsBehind \cup OutRows(t)
  <2>1. B \in SUBSET matching
    BY <1>4, GotFinite
  <2>2. ASSUME NEW b \in B, NEW q \in matching, q <= b
        PROVE  q \in B
    <3>1. CASE b \in RowsBehind
      BY <2>2, <3>1, BehindFirst
    <3>2. CASE b \in OutRows(t)
      <4>1. PICK i \in 1..Len(out[t]) : b = out[t][i]
        BY <1>1, <3>2, OutCount
      <4>2. {x \in matching : x <= out[t][i]} = RowsBehind \cup {out[t][j] : j \in 1..i}
        BY <1>1, RanksFollow DEF Through
      <4>3. q \in RowsBehind \cup {out[t][j] : j \in 1..i}
        BY <2>2, <4>1, <4>2
      <4>4. \A j \in 1..i : j \in 1..Len(out[t])
        BY <1>4
      <4>5. QED BY <1>1, <4>3, <4>4, OutCount
    <3>3. QED BY <2>2, <3>1, <3>2
  <2>3. Cardinality(B) = passed + Len(out[t])
    <3>1. IsFiniteSet(OutRows(t)) /\ Cardinality(OutRows(t)) = Len(out[t])
      BY <1>1, OutCount
    <3>2. OutRows(t) \subseteq RowsAhead
      <4>1. OutRows(t) \subseteq Matches(t, table.ends[at[t]])
        BY <1>1, OutInChunk
      <4>2. QED BY <4>1, LeavesShape DEF Leaves
    <3>3. RowsBehind \cap OutRows(t) = {} /\ IsFiniteSet(RowsBehind)
      BY <3>2, GotFinite DEF RowsBehind
    <3>4. Cardinality(B) = Cardinality(RowsBehind) + Cardinality(OutRows(t))
      BY <3>1, <3>3, DisjointCount
    <3>5. QED BY <3>1, <3>4 DEF Through
  <2> HIDE DEF B
  <2>4. InOrder \subseteq B
    <3>1. Cardinality(B) >= MaxElement
      BY <1>7, <2>3
    <3>2. QED BY <2>1, <2>2, <3>1, FirstEnough
  <2>5. Got' = InOrder
    BY <1>3, <2>4 DEF B
  <2>6. passed' >= MaxElement'
    BY <1>1, <1>2, <1>7
  <2>7. QED BY <1>2, <2>5, <2>6 DEF Finished
<1>8. QED BY <1>4, <1>6, <1>7

LEMMA AloneStep ==
  ASSUME TypeOK, FlagMeansEnough, SourceInv, KeptInv, WorkersInv, AloneInv,
         NEW t \in Threads, OutInv(t), Step(t)
  PROVE  AloneInv'
<1>1. /\ Sequential' <=> Sequential
      /\ Pushed' <=> Pushed
      /\ plan' = plan /\ InOrder' = InOrder /\ MaxElement' = MaxElement
  BY Others
<1>2. SUFFICES ASSUME Sequential
               PROVE  /\ InSequence'
                      /\ ~ Pushed \/ plan.offset = 0 => Through' \/ Finished'
  BY <1>1 DEF AloneInv, InSequence, Through, Finished
<1>3. InSequence /\ (~ Pushed \/ plan.offset = 0 => Through \/ Finished)
  BY <1>2 DEF AloneInv, InSequence, Through, Finished
<1>4. \A u \in Threads \ {t} : at[u] = 0 /\ pc[u] = "done"
  <2>1. PICK w \in Threads : \A u \in Threads \ {w} : Idle(u)
    BY <1>2 DEF WorkersInv
  <2>2. pc[t] # "done"
    BY DEF Step, Fetch, Exhausted, Skip, FilterAll, BeginBatches, FilterBatch, EndBatches, Throw,
           NothingFound, Sink, Stream, Combine
  <2>3. QED BY <2>1, <2>2 DEF Idle
<1>5. InSequence'
  BY <1>3, <1>4, SequenceStep
<1>6. ASSUME ~ Pushed \/ plan.offset = 0
      PROVE  Through' \/ Finished'
  <2>1. Through \/ Finished
    BY <1>3, <1>6
  <2>2. ~ BatchedLimit
    BY <1>2 DEF Sequential
  <2>3. ASSUME Got' = Got, passed' = passed, Finished
        PROVE  Finished'
    BY <1>1, <2>3 DEF Finished
  <2>4. ASSUME Got' = Got, passed' = passed, RowsBehind' = RowsBehind
        PROVE  Through' \/ Finished'
    BY <1>1, <2>1, <2>4 DEF Through, Finished
  <2>5. ASSUME Through, passed >= MaxElement
        PROVE  Finished
    BY <1>3, <2>5, ThroughEnough
  <2>6. CASE Stays(t) \/ Fetch(t)
    BY <2>4, <2>6, GotSame, StaysShape, AheadFetch
  <2>7. CASE Skip(t)
    <3>1. /\ pc[t] = "filter" /\ limit_reached /\ Pushed
          /\ passed' = passed /\ local' = local /\ merged' = merged
      BY <2>7 DEF Skip, sinkVars
    <3>2. Got' = Got
      BY <3>1 DEF Got, Held
    <3>3. passed >= plan.limit
      BY <1>4, <2>2, <3>1 DEF FlagMeansEnough, Holding
    <3>4. passed >= MaxElement
      <4>1. plan.offset = 0 /\ plan.limit \in Nat /\ MaxElement = plan.limit + plan.offset
        BY <1>6, <3>1, PlanType DEF TypeOK
      <4>2. MaxElement = plan.limit
        BY <4>1
      <4>3. QED BY <3>3, <4>2
    <3>5. QED BY <2>1, <2>3, <2>5, <3>1, <3>2, <3>4
  <2>8. CASE NothingFound(t)
    <3>1. /\ pc[t] = "sink" /\ out[t] = <<>>
          /\ passed' = passed /\ local' = local /\ merged' = merged
      BY <2>8 DEF NothingFound, sinkVars
    <3>2. Got' = Got /\ OutRows(t) = {}
      BY <3>1 DEF Got, Held, OutRows
    <3>3. CASE ~ limit_reached
      <4>1. RowsBehind' = RowsBehind
        BY <2>8, <3>2, <3>3, BehindGrows
      <4>2. QED BY <2>4, <3>1, <3>2, <4>1
    <3>4. CASE limit_reached
      <4>1. Len(out[t]) >= plan.limit \/ passed >= plan.limit
        BY <1>4, <2>2, <3>4 DEF FlagMeansEnough, Holding
      <4>2. /\ plan.offset = 0 /\ plan.limit \in Nat /\ MaxElement = plan.limit + plan.offset
            /\ passed \in Nat
        BY <1>6, <3>4, PlanType DEF SourceInv, TypeOK
      <4>3. Len(out[t]) = 0
        BY <3>1
      <4>4. passed >= MaxElement
        BY <4>1, <4>2, <4>3
      <4>5. QED BY <2>1, <2>3, <2>5, <3>1, <3>2, <4>4
    <3>5. QED BY <3>3, <3>4
  <2>9. CASE Sink(t)
    BY <2>2, <2>9 DEF Sink
  <2>10. CASE Stream(t)
    <3>1. CASE Through
      BY <1>3, <1>4, <1>6, <2>10, <3>1, StreamAlone
    <3>2. CASE Finished
      <4> DEFINE first == IF passed < plan.offset THEN plan.offset - passed + 1 ELSE 1
                 last  == Min2(Len(out[t]), MaxElement - passed)
                 N     == {out[t][i] : i \in first..last}
      <4>1. Got' = Got \cup N /\ passed' \in Nat /\ passed + Len(out[t]) <= passed'
        BY <2>10, StreamShape
      <4>2. /\ Len(out[t]) \in Nat /\ passed \in Nat /\ MaxElement \in Nat /\ plan.offset \in Nat
            /\ plan.offset <= MaxElement
        <5>1. Len(out[t]) \in Nat /\ passed \in Nat
          BY RowSeqs DEF TypeOK
        <5>2. /\ plan.offset \in Nat /\ plan.limit \in Nat /\ MaxElement = plan.limit + plan.offset
          BY PlanType DEF TypeOK
        <5>3. QED BY <5>1, <5>2
      <4>3. passed >= MaxElement /\ Got = InOrder
        BY <3>2 DEF Finished
      <4>4. first = 1
        BY <4>2, <4>3
      <4>5. last \in Int /\ last <= MaxElement - passed
        <5>1. Len(out[t]) \in Int /\ MaxElement - passed \in Int
          BY <4>2
        <5>2. QED BY <5>1, Smaller
      <4> HIDE DEF first, last
      <4>6. first..last = {}
        <5>1. last <= 0
          BY <4>2, <4>3, <4>5
        <5>2. QED BY <4>4, <4>5, <5>1
      <4>7. N = {}
        BY <4>6
      <4> HIDE DEF N
      <4>8. Got' = Got /\ passed' >= MaxElement
        BY <4>1, <4>2, <4>3, <4>7
      <4>9. QED BY <1>1, <4>3, <4>8 DEF Finished
    <3>3. QED BY <2>1, <3>1, <3>2
  <2>11. QED BY <2>6, <2>7, <2>8, <2>9, <2>10 DEF Step, Stays
<1>7. QED BY <1>5, <1>6
-----------------------------------------------------------------------------
(* RowsInv is inductive. *)

LEMMA RowsInit == Init => RowsInv
<1> SUFFICES ASSUME Init PROVE RowsInv
  OBVIOUS
<1>1. TypeOK
  BY TypeInit
<1>2. /\ pc \in [Threads -> {"fetch", "done"}]
      /\ at = [t \in Threads |-> 0] /\ local = [t \in Threads |-> <<>>]
      /\ taken = 0 /\ passed = 0 /\ merged = {} /\ ~ limit_reached
  BY DEF Init
<1>3. \A c \in Chunks : Ahead(c)
  <2>1. \A c \in Chunks : table.batches[c] \in Nat \ {0}
    BY <1>1, ChunkBounds DEF TypeOK
  <2>2. \A c \in Chunks : table.batches[c] > taken
    BY <1>2, <2>1
  <2>3. QED BY <2>2 DEF Ahead
<1>4. RowsBehind = {} /\ RowsAhead \subseteq matching
  <2>1. \A r \in matching : \E c \in Chunks : r \in Rows(c)
    BY <1>1, ChunkOfRow DEF TypeOK
  <2>2. QED BY <1>3, <2>1 DEF RowsBehind, RowsAhead
<1>5. Got = {} /\ \A t \in Threads : Held(t) = {}
  BY <1>2 DEF Got, Held
<1>6. Cardinality({}) = 0
  BY FS_EmptySet
<1>7. SourceInv
  BY <1>2 DEF SourceInv
<1>8. \A t \in Threads : OutInv(t)
  BY <1>2 DEF OutInv
<1>9. KeptInv
  BY <1>2, <1>5 DEF KeptInv, Increasing
<1>10. WorkersInv
  <2>1. CASE Sequential
    <3>1. PICK w \in Threads : pc = [t \in Threads |-> IF t = w THEN "fetch" ELSE "done"]
      BY <2>1 DEF Init
    <3>2. StopInv(w) /\ \A t \in Threads \ {w} : Idle(t)
      BY <1>2, <3>1 DEF StopInv, Idle
    <3>3. QED BY <2>1, <3>2 DEF WorkersInv
  <2>2. CASE ~ Sequential
    <3>1. \A t \in Threads : pc[t] = "fetch"
      BY <2>2 DEF Init
    <3>2. QED BY <2>2, <3>1 DEF WorkersInv, StopInv
  <2>3. QED BY <2>1, <2>2
<1>11. CountInv
  <2>1. plan.offset \in Nat /\ MaxElement \in Nat
    BY <1>1, PlanType DEF TypeOK
  <2>2. Unskipped(Min2(0, MaxElement)) = 0
    BY <2>1 DEF Unskipped, Min2
  <2>3. QED BY <1>2, <1>4, <1>5, <1>6, <2>2 DEF CountInv
<1>12. DroppedInv
  BY <1>4 DEF DroppedInv
<1>13. AloneInv
  BY <1>2, <1>3, <1>4, <1>5, <1>6 DEF AloneInv
<1>14. QED BY <1>7, <1>8, <1>9, <1>10, <1>11, <1>12, <1>13 DEF RowsInv

LEMMA RowsStep == TypeOK /\ FlagMeansEnough /\ RowsInv /\ [Next]_vars => RowsInv'
<1> SUFFICES ASSUME TypeOK, FlagMeansEnough, RowsInv, [Next]_vars PROVE RowsInv'
  OBVIOUS
<1>1. /\ SourceInv /\ KeptInv /\ WorkersInv /\ CountInv /\ DroppedInv /\ AloneInv
      /\ \A t \in Threads : OutInv(t)
  BY DEF RowsInv
<1>2. ASSUME NEW t \in Threads, Step(t)
      PROVE  RowsInv'
  <2>1. SourceInv' /\ KeptInv' /\ WorkersInv' /\ CountInv' /\ DroppedInv' /\ AloneInv'
    BY <1>1, <1>2, SourceStep, KeptStep, WorkersStep, CountStep, DroppedStep, AloneStep
  <2>2. \A u \in Threads : OutInv(u)'
    BY <1>1, <1>2, OutStep
  <2>3. QED BY <2>1, <2>2 DEF RowsInv
<1>3. CASE UNCHANGED <<table, matching, plan, pc, at, taken, limit_reached, offset, batch_size, out,
                       local, passed, merged, asked>>
  <2> USE DEF Chunks, Rows, Start, Increasing, BatchedLimit, Sequential, Pushed, MaxElement
  <2>1. /\ \A c : Ahead(c)' <=> Ahead(c)
        /\ RowsAhead' = RowsAhead /\ RowsBehind' = RowsBehind
    BY <1>3, AheadSame
  <2>2. (\A t \in Threads : Held(t)' = Held(t)) /\ Got' = Got /\ InOrder' = InOrder
    BY <1>3 DEF Held, Got, InOrder
  <2>3. SourceInv' /\ \A t \in Threads : OutInv(t)'
    BY <1>1, <1>3, OutKept DEF SourceInv
  <2>4. KeptInv'
    BY <1>1, <1>3, <2>1, <2>2 DEF KeptInv
  <2>5. WorkersInv'
    BY <1>1, <1>3 DEF WorkersInv, StopInv, Idle, Enough, NextInBatch
  <2>6. CountInv'
    BY <1>1, <1>3, <2>1, <2>2 DEF CountInv, Unskipped, Min2
  <2>7. DroppedInv'
    BY <1>1, <1>3, <2>1, <2>2 DEF DroppedInv
  <2>8. AloneInv'
    BY <1>1, <1>3, <2>1, <2>2 DEF AloneInv
  <2>9. QED BY <2>3, <2>4, <2>5, <2>6, <2>7, <2>8 DEF RowsInv
<1>4. CASE Answer \/ UNCHANGED vars
  BY <1>3, <1>4 DEF Answer, vars, queryVars, scanVars, filterVars, sinkVars
<1>5. QED BY <1>2, <1>4 DEF Next
-----------------------------------------------------------------------------
(* What the limit operator has when all threads are done. *)

AllDone == \A t \in Threads : pc[t] = "done"

LEMMA MergedAll ==
  ASSUME TypeOK, RowsInv, AllDone
  PROVE  merged = Got /\ merged \subseteq matching /\ IsFiniteSet(merged)
<1>1. \A t \in Threads : Held(t) \subseteq merged
  BY DEF RowsInv, KeptInv, AllDone
<1>2. QED BY <1>1, GotFinite DEF Got

\* A later chunk of a thread's batch: the thread has not come to the batch's end.
LEMMA NotLast ==
  ASSUME TypeOK, NEW t \in Threads, at[t] # 0, NEW c \in Chunks,
         table.batches[c] = table.batches[at[t]], c > at[t]
  PROVE  NextInBatch(t) # {}
<1>1. /\ Chunks = 1..Len(table.ends) /\ Len(table.ends) \in Nat
      /\ \A d, e \in Chunks : d <= e => table.batches[d] <= table.batches[e]
      /\ \A d \in Chunks : table.batches[d] \in Nat
  BY ChunkOrder, ChunkBounds DEF TypeOK
<1>2. /\ at[t] \in Chunks /\ at[t] + 1 \in Chunks /\ at[t] + 1 <= c /\ at[t] <= at[t] + 1
  <2>1. at[t] \in Chunks
    BY DEF TypeOK
  <2>2. QED BY <1>1, <2>1
<1>3. table.batches[at[t] + 1] = table.batches[at[t]]
  <2>1. /\ table.batches[at[t]] <= table.batches[at[t] + 1]
        /\ table.batches[at[t] + 1] <= table.batches[c]
        /\ table.batches[at[t]] \in Nat /\ table.batches[at[t] + 1] \in Nat
    BY <1>1, <1>2
  <2>2. QED BY <2>1
<1>4. at[t] + 1 \in NextInBatch(t)
  BY <1>2, <1>3 DEF NextInBatch
<1>5. QED BY <1>4

\* Every batch is handed out and every thread is through with its own, or enough was found.
LEMMA WhyDone ==
  ASSUME TypeOK, RowsInv, AllDone
  PROVE  limit_reached \/ (\E t \in Threads : Enough(t)) \/ RowsAhead = {}
<1>1. SUFFICES ASSUME ~ limit_reached, \A t \in Threads : ~ Enough(t), NEW c \in Chunks, Ahead(c)
               PROVE  FALSE
  BY DEF RowsAhead
<1>2. ASSUME NEW t \in Threads, at[t] # 0 \/ ~ Sequential
      PROVE  NextInBatch(t) = {} /\ \A d \in Chunks : table.batches[d] <= taken
  <2>1. StopInv(t)
    <3>1. CASE Sequential
      <4>1. PICK w \in Threads : StopInv(w) /\ \A u \in Threads \ {w} : Idle(u)
        BY <3>1 DEF RowsInv, WorkersInv
      <4>2. QED BY <1>2, <3>1, <4>1 DEF Idle
    <3>2. CASE ~ Sequential
      BY <3>2 DEF RowsInv, WorkersInv
    <3>3. QED BY <3>1, <3>2
  <2>2. QED BY <1>1, <2>1 DEF StopInv, AllDone
<1>3. \A d \in Chunks : table.batches[d] <= taken
  <2>1. CASE Sequential
    <3>1. PICK w \in Threads : StopInv(w)
      BY <2>1 DEF RowsInv, WorkersInv
    <3>2. QED BY <1>1, <3>1 DEF StopInv, AllDone
  <2>2. CASE ~ Sequential
    <3>1. PICK w : w \in Threads
      BY ThreadsAssumption
    <3>2. QED BY <1>2, <2>2, <3>1
  <2>3. QED BY <2>1, <2>2
<1>4. table.batches[c] \in Nat /\ taken \in Nat
  BY ChunkBounds DEF TypeOK
<1>5. PICK t \in Threads : at[t] # 0 /\ table.batches[c] = table.batches[at[t]] /\ c > at[t]
  <2>1. ~ (table.batches[c] > taken)
    BY <1>3, <1>4
  <2>2. \A t \in Threads : pc[t] \notin Busy
    BY DEF AllDone, Busy
  <2>3. QED BY <1>1, <2>1, <2>2 DEF Ahead
<1>6. NextInBatch(t) # {}
  BY <1>5, NotLast
<1>7. QED BY <1>2, <1>5, <1>6

\* A thread that has max_element rows.
LEMMA FullCount ==
  ASSUME TypeOK, RowsInv, AllDone, NEW t \in Threads, NEW n \in Nat, Len(local[t]) >= n
  PROVE  /\ Held(t) \subseteq merged
         /\ IsFiniteSet(Held(t)) /\ Cardinality(Held(t)) >= n
<1>1. /\ local[t] \in Seq(Nat) /\ Len(local[t]) \in Nat
      /\ Held(t) = RowsOf(local[t]) /\ Increasing(local[t]) /\ Held(t) \subseteq merged
  <2>1. Increasing(local[t]) /\ Held(t) \subseteq merged
    BY DEF RowsInv, KeptInv, AllDone
  <2>2. QED BY <2>1, RowSeqs
<1>2. Held(t) = {local[t][i] : i \in 1..Len(local[t])}
  BY <1>1 DEF RowsOf
<1>3. 1 \in Nat \ {0} /\ Len(local[t]) \in Int /\ Len(local[t]) <= Len(local[t])
  BY <1>1
<1>4. /\ IsFiniteSet(Held(t))
      /\ Cardinality(Held(t)) = IF 1 <= Len(local[t]) THEN Len(local[t]) - 1 + 1 ELSE 0
  <2>1. /\ IsFiniteSet({local[t][i] : i \in 1..Len(local[t])})
        /\ Cardinality({local[t][i] : i \in 1..Len(local[t])})
              = IF 1 <= Len(local[t]) THEN Len(local[t]) - 1 + 1 ELSE 0
    BY <1>1, <1>3, PickedCount
  <2>2. QED BY <1>2, <2>1
<1>5. Cardinality(Held(t)) = Len(local[t])
  BY <1>1, <1>4
<1>6. QED BY <1>1, <1>4, <1>5

\* A row the batched limit does not have comes after max_element rows of some thread.
LEMMA MissingAfter ==
  ASSUME TypeOK, RowsInv, AllDone, BatchedLimit, ~ limit_reached, plan.limit # 0,
         NEW r \in matching, r \notin merged
  PROVE  \E t \in Threads : FullBefore(t, r)
<1>1. SourceInv /\ KeptInv /\ DroppedInv /\ \A t \in Threads : StopInv(t)
  BY DEF RowsInv, WorkersInv, Sequential
<1>2. CASE r \notin RowsAhead
  <2>1. r \in RowsBehind \ Got
    BY <1>2, MergedAll DEF RowsBehind
  <2>2. QED BY <1>1, <2>1 DEF DroppedInv, FullBefore
<1>3. CASE r \in RowsAhead
  <2>1. PICK c \in Chunks : r \in Rows(c) /\ Ahead(c)
    BY <1>3 DEF RowsAhead
  <2>2. /\ taken \in Nat /\ table.batches[c] \in Nat /\ c \in Nat
        /\ Start(c) \in Nat /\ table.ends[c] \in Nat
    BY ChunkBounds DEF TypeOK
  <2>3. r \in Nat /\ Start(c) < r
    BY <2>1, <2>2 DEF Rows
  <2>4. ASSUME NEW t \in Threads,
               \A d \in Chunks : at[t] = d => d < c,
               Enough(t)
        PROVE  FullBefore(t, r)
    <3>1. Len(local[t]) >= MaxElement
      BY <2>4 DEF Enough
    <3>2. ASSUME NEW q \in Held(t)
          PROVE  q < r
      <4>1. at[t] # 0 /\ q <= table.ends[at[t]] /\ q \in Nat
        BY <1>1, RowSeqs DEF KeptInv, AllDone, Busy
      <4>2. at[t] \in Chunks
        BY <4>1 DEF TypeOK
      <4>3. table.ends[at[t]] <= Start(c) /\ table.ends[at[t]] \in Nat
        BY <2>4, <4>2, ChunkOrder, ChunkBounds DEF TypeOK
      <4>4. QED BY <2>2, <2>3, <4>1, <4>3
    <3>3. QED BY <3>1, <3>2 DEF FullBefore
  <2>5. CASE table.batches[c] > taken
    <3>1. PICK t : t \in Threads
      BY ThreadsAssumption
    <3>2. Enough(t)
      <4>1. ~ (table.batches[c] <= taken)
        BY <2>2, <2>5
      <4>2. QED BY <1>1, <3>1, <4>1 DEF StopInv, AllDone
    <3>3. ASSUME NEW d \in Chunks, at[t] = d
          PROVE  d < c
      <4>1. d \in Nat \ {0} /\ table.batches[d] \in Nat
        BY ChunkBounds DEF TypeOK
      <4>2. table.batches[d] <= taken
        BY <1>1, <3>1, <3>3, <4>1 DEF SourceInv
      <4>3. c <= d => table.batches[c] <= table.batches[d]
        BY ChunkOrder DEF TypeOK
      <4>4. QED BY <2>2, <2>5, <4>1, <4>2, <4>3
    <3>4. QED BY <2>4, <3>1, <3>2, <3>3
  <2>6. CASE ~ (table.batches[c] > taken)
    <3>1. \A t \in Threads : pc[t] \notin Busy
      BY DEF AllDone, Busy
    <3>2. PICK t \in Threads : at[t] # 0 /\ table.batches[c] = table.batches[at[t]] /\ c > at[t]
      BY <2>1, <2>6, <3>1 DEF Ahead
    <3>3. Enough(t)
      BY <1>1, <3>2, NotLast DEF StopInv, AllDone
    <3>4. \A d \in Chunks : at[t] = d => d < c
      BY <2>2, <3>2, ChunkBounds DEF TypeOK
    <3>5. QED BY <2>4, <3>3, <3>4
  <2>7. QED BY <2>5, <2>6
<1>4. QED BY <1>2, <1>3

\* So no row that the query is to return, nor one before it, is missing.
LEMMA EmittedInOrder ==
  ASSUME TypeOK, RowsInv, AllDone, BatchedLimit, ~ limit_reached
  PROVE  Emitted = InOrder
<1>1. /\ plan.limit \in Nat /\ plan.offset \in Nat /\ MaxElement \in Nat
      /\ MaxElement = plan.offset + plan.limit
  <2>1. plan.limit \in Nat /\ plan.offset \in Nat /\ MaxElement = plan.limit + plan.offset
    BY PlanType DEF TypeOK
  <2>2. QED BY <2>1
<1>2. /\ merged \subseteq matching /\ IsFiniteSet(merged)
      /\ IsFiniteSet(matching) /\ matching \subseteq Nat
  BY MergedAll, MatchingFinite DEF TypeOK
<1>3. /\ Emitted = {r \in merged : plan.offset < Rank(merged, r) /\ Rank(merged, r) <= MaxElement}
      /\ InOrder = {r \in matching : plan.offset < Rank(matching, r)
                                        /\ Rank(matching, r) <= MaxElement}
  BY <1>1 DEF Emitted, InOrder, Rank
<1>4. \A r : Rank(merged, r) \in Nat /\ Rank(matching, r) \in Nat
  BY <1>2, RankType
<1>5. CASE plan.limit = 0
  <2>1. \A n \in Nat : ~ (plan.offset < n /\ n <= MaxElement)
    BY <1>1, <1>5
  <2>2. QED BY <1>3, <1>4, <2>1
<1>6. CASE plan.limit # 0
  <2>1. ASSUME NEW S \in {merged, matching}, NEW r \in S,
               NEW q \in matching, q <= r, q \notin merged
        PROVE  Rank(S, r) > MaxElement
    <3>1. PICK t \in Threads : Len(local[t]) >= MaxElement /\ \A h \in Held(t) : h < q
      BY <1>6, <2>1, MissingAfter DEF FullBefore
    <3>2. Held(t) \subseteq merged /\ IsFiniteSet(Held(t)) /\ Cardinality(Held(t)) >= MaxElement
      BY <1>1, <3>1, FullCount
    <3>3. S \subseteq Nat /\ IsFiniteSet(S) /\ r \in Nat /\ q \in Nat /\ Held(t) \subseteq S
      BY <1>2, <2>1, <3>2
    <3>4. ASSUME NEW h \in Held(t)
          PROVE  h \in Nat /\ h < r
      <4>1. h \in Nat /\ h < q /\ q \in Nat /\ r \in Nat /\ q <= r
        BY <2>1, <3>1, <3>3
      <4>2. QED BY <4>1
    <3> DEFINE R == {x \in S : x <= r}
    <3>5. Held(t) \cup {r} \subseteq R /\ r \notin Held(t)
      BY <2>1, <3>3, <3>4
    <3>6. IsFiniteSet(R) /\ Cardinality(R) = Rank(S, r)
      BY <3>3, RankType DEF Rank
    <3> HIDE DEF R
    <3>7. Cardinality(Held(t) \cup {r}) = Cardinality(Held(t)) + 1
      BY <3>2, <3>5, FS_AddElement
    <3>8. Cardinality(Held(t) \cup {r}) <= Cardinality(R)
      BY <3>5, <3>6, FS_Subset
    <3>9. Cardinality(Held(t)) \in Nat /\ Cardinality(R) \in Nat
      BY <3>2, <3>6, FS_CardinalityType
    <3>10. QED BY <1>1, <3>2, <3>6, <3>7, <3>8, <3>9
  <2>2. ASSUME NEW r \in matching, \A q \in matching : q <= r => q \in merged
        PROVE  Rank(merged, r) = Rank(matching, r)
    <3>1. {q \in merged : q <= r} = {q \in matching : q <= r}
      BY <1>2, <2>2
    <3>2. QED BY <3>1 DEF Rank
  <2>3. ASSUME NEW r \in Emitted
        PROVE  r \in InOrder
    <3>1. r \in merged /\ r \in matching /\ ~ (Rank(merged, r) > MaxElement)
      BY <1>1, <1>2, <1>3, <1>4
    <3>2. \A q \in matching : q <= r => q \in merged
      BY <2>1, <3>1
    <3>3. QED BY <1>3, <2>2, <3>1, <3>2
  <2>4. ASSUME NEW r \in InOrder
        PROVE  r \in Emitted
    <3>1. r \in matching /\ ~ (Rank(matching, r) > MaxElement) /\ r <= r
      BY <1>1, <1>2, <1>3, <1>4
    <3>2. \A q \in matching : q <= r => q \in merged
      BY <2>1, <3>1
    <3>3. QED BY <1>3, <2>2, <3>1, <3>2
  <2>5. QED BY <2>3, <2>4
<1>7. QED BY <1>5, <1>6

\* The flag: what the limit operator has then.
LEMMA FlagCount ==
  ASSUME TypeOK, FlagMeansEnough, RowsInv, AllDone, limit_reached
  PROVE  /\ Pushed
         /\ ~ BatchedLimit => passed >= plan.limit
         /\ BatchedLimit => Cardinality(merged) >= plan.limit
<1>1. Pushed
  BY DEF RowsInv, SourceInv
<1>2. ~ BatchedLimit => passed >= plan.limit
  BY DEF FlagMeansEnough, Holding, AllDone
<1>3. ASSUME BatchedLimit
      PROVE  Cardinality(merged) >= plan.limit
  <2>1. PICK t \in Threads : Len(local[t]) >= plan.limit
    BY <1>3 DEF FlagMeansEnough, Holding, AllDone
  <2>2. plan.limit \in Nat
    BY PlanType DEF TypeOK
  <2>3. Held(t) \subseteq merged /\ IsFiniteSet(Held(t)) /\ Cardinality(Held(t)) >= plan.limit
    BY <2>1, <2>2, FullCount
  <2>4. IsFiniteSet(merged) /\ Cardinality(Held(t)) <= Cardinality(merged)
    BY <2>3, MergedAll, FS_Subset
  <2>5. Cardinality(Held(t)) \in Nat /\ Cardinality(merged) \in Nat
    BY <2>3, <2>4, FS_CardinalityType
  <2>6. QED BY <2>2, <2>3, <2>4, <2>5
<1>4. QED BY <1>1, <1>2, <1>3
-----------------------------------------------------------------------------
(* The answer. *)

LEMMA WindowCount ==
  ASSUME NEW S \in SUBSET Nat, IsFiniteSet(S), plan \in Plans
  PROVE  Cardinality({r \in S : plan.offset < Rank(S, r) /\ Rank(S, r) <= plan.offset + plan.limit})
            = Unskipped(Min2(plan.offset + plan.limit, Cardinality(S)))
<1>1. plan.offset \in Nat /\ plan.offset + plan.limit \in Nat /\ plan.offset <= plan.offset + plan.limit
  BY PlanType
<1>2. QED BY <1>1, RankedCount DEF Unskipped

\* Of enough rows the limit operator lets through as many as it was asked for.
LEMMA WantedOf ==
  ASSUME NEW skip \in Nat, NEW limit \in Nat, NEW n \in Nat
  PROVE  LET window(x) == IF x > skip THEN x - skip ELSE 0
         IN  n >= skip + limit =>
                /\ window(Min2(n, skip + limit)) = limit
                /\ Min2(limit, window(n)) = limit
BY DEF Min2

LEMMA CappedSame ==
  ASSUME NEW p \in Nat, NEW b \in Nat, NEW n \in Nat, NEW m \in Nat,
         b <= n, Min2(p, m) = Min2(b, m), p >= m \/ b = n
  PROVE  (p >= m /\ n >= m) \/ p = n
BY DEF Min2

LEMMA AnswerCount ==
  ASSUME TypeOK, FlagMeansEnough, RowsInv, AllDone, ~ Pushed \/ plan.offset = 0
  PROVE  Cardinality(IF BatchedLimit THEN Emitted ELSE merged) = Wanted
<1> DEFINE skip  == plan.offset
           limit == plan.limit
           n     == Cardinality(matching)
           k     == Cardinality(merged)
<1>1. /\ limit \in Nat /\ skip \in Nat /\ MaxElement = skip + limit /\ MaxElement \in Nat
  <2>1. plan.limit \in Nat /\ plan.offset \in Nat /\ MaxElement = plan.limit + plan.offset
    BY PlanType DEF TypeOK
  <2>2. QED BY <2>1
<1>2. /\ merged = Got /\ merged \subseteq matching /\ IsFiniteSet(merged)
      /\ IsFiniteSet(matching) /\ matching \subseteq Nat
  BY MergedAll, MatchingFinite DEF TypeOK
<1>3. n \in Nat /\ k \in Nat /\ k <= n
  BY <1>2, FS_CardinalityType, FS_Subset
<1>4. Wanted = Min2(limit, Unskipped(n))
  BY DEF Wanted, Unskipped
<1>5. \A x : Unskipped(x) = IF x > skip THEN x - skip ELSE 0
  BY DEF Unskipped
<1>6. limit_reached => Pushed /\ skip = 0
  BY FlagCount
<1>7. CASE BatchedLimit
  <2>1. CASE ~ limit_reached
    <3>1. Emitted = InOrder
      BY <1>7, <2>1, EmittedInOrder
    <3>2. InOrder = {r \in matching : plan.offset < Rank(matching, r)
                                         /\ Rank(matching, r) <= plan.offset + plan.limit}
      BY DEF InOrder, Rank
    <3>3. Cardinality(InOrder) = Unskipped(Min2(skip + limit, n))
      BY <1>2, <3>2, WindowCount DEF TypeOK
    <3> HIDE DEF skip, limit, n
    <3>4. Cardinality(InOrder) = Wanted
      <4>1. Unskipped(Min2(skip + limit, n)) = Min2(limit, Unskipped(n))
        BY <1>1, <1>3, <1>5 DEF Min2
      <4>2. QED BY <1>4, <3>3, <4>1
    <3>5. QED BY <1>7, <3>1, <3>4
  <2>2. CASE limit_reached
    <3>1. k >= limit
      BY <1>7, <2>2, FlagCount
    <3>2. Emitted = {r \in merged : plan.offset < Rank(merged, r)
                                       /\ Rank(merged, r) <= plan.offset + plan.limit}
      BY <1>1 DEF Emitted, Rank
    <3>3. Cardinality(Emitted) = Unskipped(Min2(skip + limit, k))
      BY <1>2, <3>2, WindowCount DEF TypeOK
    <3> HIDE DEF skip, limit, n, k
    <3>4. Cardinality(Emitted) = limit /\ Wanted = limit
      BY <1>1, <1>3, <1>4, <1>5, <1>6, <2>2, <3>1, <3>3 DEF Min2
    <3>5. QED BY <1>7, <3>4
  <2>3. QED BY <2>1, <2>2
<1>8. CASE ~ BatchedLimit
  <2>1. /\ k = Unskipped(Min2(passed, MaxElement)) /\ passed \in Nat
        /\ limit_reached \/ Min2(passed, MaxElement) = Min2(Cardinality(RowsBehind), MaxElement)
    BY <1>2, <1>8 DEF RowsInv, CountInv, TypeOK
  <2>2. Cardinality(RowsBehind) \in Nat /\ Cardinality(RowsBehind) <= n
    BY <1>2, GotFinite, FS_CardinalityType, FS_Subset
  <2>3. CASE limit_reached
    <3>1. passed >= limit
      BY <1>8, <2>3, FlagCount
    <3> HIDE DEF skip, limit, n, k
    <3>2. k = limit
      BY <1>1, <1>5, <1>6, <2>1, <2>3, <3>1 DEF Min2
    <3>3. Wanted = limit
      BY <1>1, <1>3, <1>4, <1>5, <1>6, <2>3, <3>2 DEF Min2
    <3>4. QED BY <1>8, <3>2, <3>3 DEF k
  <2>4. CASE ~ limit_reached
    <3>1. passed >= MaxElement \/ RowsAhead = {}
      BY <1>8, <2>4, WhyDone DEF Enough
    <3>2. RowsAhead = {} => Cardinality(RowsBehind) = n
      <4>1. RowsAhead = {} => RowsBehind = matching
        BY DEF RowsBehind
      <4>2. QED BY <4>1
    <3>3. \/ passed >= MaxElement /\ n >= MaxElement
          \/ passed = n
      <4> HIDE DEF n
      <4>1. Min2(passed, MaxElement) = Min2(Cardinality(RowsBehind), MaxElement)
        BY <2>1, <2>4
      <4>2. passed >= MaxElement \/ Cardinality(RowsBehind) = n
        BY <3>1, <3>2
      <4>3. QED BY <1>1, <1>3, <2>1, <2>2, <4>1, <4>2, CappedSame
    <3> HIDE DEF skip, limit, n, k
    <3>4. k = Wanted
      <4>1. CASE passed >= MaxElement /\ n >= MaxElement
        <5>1. n >= MaxElement
          BY <4>1
        <5>2. k = limit
          BY <1>1, <1>5, <2>1, <4>1, WantedOf
        <5>3. Wanted = limit
          BY <1>1, <1>3, <1>4, <1>5, <5>1, WantedOf
        <5>4. QED BY <5>2, <5>3
      <4>2. CASE passed = n
        <5>1. k = Unskipped(Min2(n, skip + limit))
          BY <1>1, <2>1, <4>2
        <5>2. Unskipped(Min2(n, skip + limit)) = Min2(limit, Unskipped(n))
          BY <1>1, <1>3, <1>5 DEF Min2
        <5>3. QED BY <1>4, <5>1, <5>2
      <4>3. QED BY <3>3, <4>1, <4>2
    <3>5. QED BY <1>8, <3>4 DEF k
  <2>5. QED BY <2>3, <2>4
<1>9. QED BY <1>7, <1>8

LEMMA AnswerRows ==
  ASSUME TypeOK, FlagMeansEnough, RowsInv, AllDone, plan.preserve,
         ~ Pushed \/ (Sequential /\ plan.offset = 0)
  PROVE  (IF BatchedLimit THEN Emitted ELSE merged) = InOrder
<1>1. CASE BatchedLimit
  <2>1. ~ limit_reached
    BY <1>1, FlagCount DEF Sequential
  <2>2. QED BY <1>1, <2>1, EmittedInOrder
<1>2. CASE ~ BatchedLimit
  <2>1. Sequential /\ merged = Got
    BY <1>2, MergedAll DEF Sequential
  <2>2. InSequence /\ (Through \/ Finished)
    BY <2>1 DEF RowsInv, AloneInv, InSequence, Through, Finished
  <2>3. CASE Finished
    BY <1>2, <2>1, <2>3 DEF Finished
  <2>4. CASE Through /\ passed >= MaxElement
    BY <1>2, <2>1, <2>2, <2>4, ThroughEnough DEF Finished
  <2>5. CASE Through /\ RowsAhead = {}
    BY <1>2, <2>1, <2>5 DEF Through, RowsBehind, InOrder
  <2>6. limit_reached => passed >= MaxElement
    <3>1. SUFFICES ASSUME limit_reached PROVE passed >= MaxElement
      OBVIOUS
    <3>2. passed >= plan.limit /\ plan.offset = 0
      BY <1>2, <3>1, FlagCount
    <3>3. plan.limit \in Nat /\ MaxElement = plan.limit + plan.offset
      BY PlanType DEF TypeOK
    <3>4. MaxElement = plan.limit
      BY <3>2, <3>3
    <3>5. QED BY <3>2, <3>4
  <2>7. passed >= MaxElement \/ RowsAhead = {}
    BY <1>2, <2>6, WhyDone DEF Enough
  <2>8. QED BY <2>2, <2>3, <2>4, <2>5, <2>7
<1>3. QED BY <1>1, <1>2

LEMMA AnswerStep ==
  ASSUME TypeOK, FlagMeansEnough, RowsInv, EnoughRows, RightRows, [Next]_vars
  PROVE  EnoughRows' /\ RightRows'
<1> USE DEF EnoughRows, RightRows, OffsetKept, OrderKept, Answered, Unanswered
<1>1. CASE Answer
  <2>1. AllDone /\ UNCHANGED <<table, matching, plan>>
    BY <1>1 DEF Answer, AllDone, queryVars
  <2>2. answer' = IF BatchedLimit THEN Emitted ELSE merged
    BY <1>1 DEF Answer
  <2>3. /\ Wanted' = Wanted /\ InOrder' = InOrder
        /\ Pushed' <=> Pushed
        /\ Sequential' <=> Sequential
    BY <2>1 DEF Wanted, InOrder, Pushed, Sequential, BatchedLimit
  <2>4. ~ Pushed \/ plan.offset = 0 => Cardinality(answer') = Wanted
    BY <2>1, <2>2, AnswerCount
  <2>5. (~ Pushed \/ (Sequential /\ plan.offset = 0)) /\ plan.preserve => answer' = InOrder
    BY <2>1, <2>2, AnswerRows
  <2>6. QED BY <2>1, <2>3, <2>4, <2>5
<1>2. CASE (\E t \in Threads : Step(t)) \/ UNCHANGED vars
  <2>1. /\ UNCHANGED <<matching, plan, answer>>
        /\ Pushed' <=> Pushed
        /\ Sequential' <=> Sequential
        /\ InOrder' = InOrder
    BY <1>2, Others DEF vars, Pushed, Sequential, BatchedLimit, InOrder
  <2>2. Wanted' = Wanted
    BY <2>1 DEF Wanted
  <2>3. QED BY <2>1, <2>2
<1>3. QED BY <1>1, <1>2 DEF Next
-----------------------------------------------------------------------------
(* Theorems. *)

\* No two threads go through one batch, every matching row is ahead of the threads, with the
\* limit operator or not needed, and what the limit operators count is what arrived.
THEOREM RowsInvariant == Spec => []RowsInv
<1>1. IInv => TypeOK /\ FlagMeansEnough
  BY DEF IInv
<1>2. QED BY <1>1, RowsInit, RowsStep, Invariant, PTL DEF Spec

LEMMA AnswerInvariant == Spec => [](EnoughRows /\ RightRows)
<1>1. Init => EnoughRows /\ RightRows
  BY DEF Init, EnoughRows, RightRows, OffsetKept, OrderKept, Answered
<1>2. TypeOK /\ FlagMeansEnough /\ RowsInv /\ (EnoughRows /\ RightRows) /\ [Next]_vars
         => (EnoughRows /\ RightRows)'
  BY AnswerStep
<1>3. IInv => TypeOK /\ FlagMeansEnough
  BY DEF IInv
<1>4. QED BY <1>1, <1>2, <1>3, Invariant, RowsInvariant, PTL DEF Spec

\* A query without an offset, or whose limit is not handed to the filter, returns as many
\* rows as match, up to its limit: ExecuteInternal's flag, the batches it cuts a chunk into
\* and the limit operators' counters lose no row that is needed, and count none twice.
THEOREM EnoughRowsReturned == Spec => []EnoughRows
<1>1. QED BY AnswerInvariant, PTL

\* Where the limit is not handed to the filter, or one thread works alone without an offset,
\* a query that preserves the insertion order returns the first rows.
THEOREM FirstRowsReturned == Spec => []RightRows
<1>1. QED BY AnswerInvariant, PTL
=============================================================================
