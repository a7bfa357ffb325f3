----------------------- MODULE EmbeddingCatalog_proofs -----------------------
(* Theorems about EmbeddingCatalog: at every moment, and in every snapshot, an *)
(* embedding has its column exactly if it has its entry.                      *)
EXTENDS EmbeddingCatalog, TLAPS

-----------------------------------------------------------------------------
(* Chains of versions. *)

\* An uncommitted version that is appended or taken away is not on top for any time.
LEMMA TopOfAppend ==
    ASSUME NEW S, NEW chain \in Seq(S), NEW v \in S, NEW T, ~Before(v.by, T), NEW i
    PROVE  /\ Top(Append(chain, v), T, i) <=> Top(chain, T, i)
           /\ i \in DOMAIN chain => Append(chain, v)[i] = chain[i]
<1> DEFINE longer == Append(chain, v)
<1>1. /\ Len(longer) = Len(chain) + 1 /\ DOMAIN longer = 1..(Len(chain) + 1)
      /\ DOMAIN chain = 1..Len(chain) /\ Len(chain) \in Nat
      /\ longer[Len(chain) + 1] = v
      /\ \A k \in 1..Len(chain) : longer[k] = chain[k]
    OBVIOUS
<1>2. i \in DOMAIN chain => longer[i] = chain[i]
    BY <1>1
<1> HIDE DEF longer
<1>3. ASSUME Top(longer, T, i) PROVE Top(chain, T, i)
  <2>1. i \in DOMAIN longer /\ Before(longer[i].by, T) /\ \A k \in DOMAIN longer : Before(longer[k].by, T) => k <= i
      BY <1>3 DEF Top
  <2>2. i # Len(chain) + 1
      BY <2>1, <1>1
  <2>3. i \in DOMAIN chain /\ Before(chain[i].by, T)
      BY <2>1, <2>2, <1>1
  <2>4. ASSUME NEW k \in DOMAIN chain, Before(chain[k].by, T) PROVE k <= i
      BY <2>1, <2>4, <1>1
  <2> QED BY <2>3, <2>4 DEF Top
<1>4. ASSUME Top(chain, T, i) PROVE Top(longer, T, i)
  <2>1. i \in DOMAIN chain /\ Before(chain[i].by, T) /\ \A k \in DOMAIN chain : Before(chain[k].by, T) => k <= i
      BY <1>4 DEF Top
  <2>2. i \in DOMAIN longer /\ Before(longer[i].by, T)
      BY <2>1, <1>1
  <2>3. ASSUME NEW k \in DOMAIN longer, Before(longer[k].by, T) PROVE k <= i
    <3>1. k # Len(chain) + 1
        BY <2>3, <1>1
    <3> QED BY <3>1, <2>1, <2>3, <1>1
  <2> QED BY <2>2, <2>3 DEF Top
<1> QED BY <1>2, <1>3, <1>4 DEF longer

LEMMA AppendType ==
    ASSUME NEW S, NEW s \in Seq(S), NEW v \in S
    PROVE  Append(s, v) \in Seq(S) /\ Append(s, v) # <<>>
<1>1. Append(s, v) \in Seq(S) /\ Len(Append(s, v)) >= 1
    OBVIOUS
<1> QED BY <1>1

LEMMA LastType ==
    ASSUME NEW S, NEW s \in Seq(S), s # <<>>
    PROVE  Len(s) \in Nat /\ Len(s) >= 1 /\ Last(s) = s[Len(s)] /\ Last(s) \in S
<1>1. Len(s) \in Nat /\ Len(s) >= 1
    OBVIOUS
<1> QED BY <1>1 DEF Last

LEMMA FrontIs ==
    ASSUME NEW S, NEW chain \in Seq(S), Len(chain) >= 2
    PROVE  /\ Front(chain) \in Seq(S)
           /\ Len(Front(chain)) = Len(chain) - 1
           /\ \A k \in 1..(Len(chain) - 1) : Front(chain)[k] = chain[k]
           /\ chain = Append(Front(chain), Last(chain))
           /\ Last(chain) \in S /\ Last(Front(chain)) = chain[Len(chain) - 1]
<1>1. Front(chain) \in Seq(S) /\ Len(Front(chain)) = Len(chain) - 1
    BY DEF Front
<1>2. \A k \in 1..(Len(chain) - 1) : Front(chain)[k] = chain[k]
    BY DEF Front
<1>3. Last(chain) \in S /\ Last(Front(chain)) = chain[Len(chain) - 1]
    BY <1>1, <1>2 DEF Last
<1>4. chain = Append(Front(chain), Last(chain))
    BY <1>1, <1>2, <1>3 DEF Last
<1> QED BY <1>1, <1>2, <1>3, <1>4

LEMMA TopOfFront ==
    ASSUME NEW S, NEW chain \in Seq(S), Len(chain) >= 2, NEW T, ~Before(Last(chain).by, T), NEW i
    PROVE  /\ Top(Front(chain), T, i) <=> Top(chain, T, i)
           /\ i \in DOMAIN Front(chain) => Front(chain)[i] = chain[i]
<1>1. /\ Front(chain) \in Seq(S) /\ Last(chain) \in S
      /\ chain = Append(Front(chain), Last(chain))
    BY FrontIs
<1>2. /\ Top(Append(Front(chain), Last(chain)), T, i) <=> Top(Front(chain), T, i)
      /\ i \in DOMAIN Front(chain) => Append(Front(chain), Last(chain))[i] = Front(chain)[i]
    BY <1>1, TopOfAppend
<1> QED BY <1>1, <1>2

\* There is one version on top.
LEMMA TopUnique ==
    ASSUME NEW S, NEW chain \in Seq(S), NEW T, NEW i, NEW j, Top(chain, T, i), Top(chain, T, j)
    PROVE  i = j
<1>1. i \in DOMAIN chain /\ j \in DOMAIN chain /\ i <= j /\ j <= i
    BY DEF Top
<1>2. i \in Nat /\ j \in Nat
    BY <1>1
<1> QED BY <1>1, <1>2

\* A transaction sees its own version, if there is one.
LEMMA SeenOwn ==
    ASSUME NEW S, NEW chain \in Seq(S), Len(chain) >= 1, NEW t, Last(chain).by = t
    PROVE  Seen(t, chain) = Last(chain)
<1> DEFINE P(i) == /\ SeenBy(t, chain[i].by)
                   /\ \A j \in DOMAIN chain : SeenBy(t, chain[j].by) => j <= i
<1>1. DOMAIN chain = 1..Len(chain) /\ Len(chain) \in Nat
    OBVIOUS
<1>2. Len(chain) \in DOMAIN chain /\ P(Len(chain))
    BY <1>1 DEF SeenBy, Last
<1>3. ASSUME NEW i \in DOMAIN chain, P(i) PROVE i = Len(chain)
    BY <1>1, <1>2, <1>3
<1>4. (CHOOSE i \in DOMAIN chain : P(i)) = Len(chain)
  <2> HIDE DEF P
  <2> QED BY <1>2, <1>3
<1> QED BY <1>4 DEF Seen, Last

\* And otherwise the one on top when it began.
LEMMA SeenTop ==
    ASSUME NEW S, NEW chain \in Seq(S), NEW t, \A k \in DOMAIN chain : chain[k].by # t,
           NEW i, Top(chain, start[t], i)
    PROVE  Seen(t, chain) = chain[i]
<1> DEFINE P(k) == /\ SeenBy(t, chain[k].by)
                   /\ \A j \in DOMAIN chain : SeenBy(t, chain[j].by) => j <= k
<1>1. \A k \in DOMAIN chain : SeenBy(t, chain[k].by) <=> Before(chain[k].by, start[t])
    BY DEF SeenBy, Before
<1>2. i \in DOMAIN chain /\ P(i)
    BY <1>1 DEF Top
<1>3. ASSUME NEW k \in DOMAIN chain, P(k) PROVE k = i
  <2>1. k \in Nat /\ i \in Nat /\ k <= i /\ i <= k
      BY <1>2, <1>3
  <2> QED BY <2>1
<1>4. (CHOOSE k \in DOMAIN chain : P(k)) = i
  <2> HIDE DEF P
  <2> QED BY <1>2, <1>3
<1> QED BY <1>4 DEF Seen
-----------------------------------------------------------------------------
(* What a running transaction sees. *)

\* The statements, and what they are about.
LEMMA Statements ==
    ASSUME TypeOK, NEW t \in Txns
    PROVE  /\ op[t].kind \in Kinds \cup {"none"}
           /\ op[t].kind \in {"create", "drop"} => op[t].on \in Embeddings
<1>1. op[t] \in Operations
    BY DEF TypeOK
<1>2. CASE op[t] = [kind |-> "none", on |-> None]
    BY <1>2
<1>3. ASSUME NEW k \in Kinds, op[t] \in [kind : {k}, on : Targets(k)]
      PROVE  op[t].kind \in Kinds /\ (op[t].kind \in {"create", "drop"} => op[t].on \in Embeddings)
  <2>1. op[t].kind = k /\ op[t].on \in Targets(k)
      BY <1>3
  <2> QED BY <2>1 DEF Targets
<1> QED BY <1>1, <1>2, <1>3 DEF Operations

\* A version that is not the last one is committed.
LEMMA NotMine ==
    ASSUME NEW S, NEW chain \in Seq(S), ChainInv(chain), NEW t, ~Committed(t), Last(chain).by # t
    PROVE  \A k \in DOMAIN chain : chain[k].by # t
BY DEF ChainInv, Last

\* The last version, if it is in nobody's way.
LEMMA LastOnTop ==
    ASSUME NEW S, NEW chain \in Seq(S), Len(chain) >= 1, NEW t, Last(chain).by # t,
           ~Conflict(t, Last(chain).by), committed_at[Last(chain).by] # start[t],
           committed_at[Last(chain).by] \in Nat, start[t] \in Nat
    PROVE  Top(chain, start[t], Len(chain))
<1>1. DOMAIN chain = 1..Len(chain) /\ Last(chain) = chain[Len(chain)] /\ Len(chain) \in Nat
    BY DEF Last
<1>2. Before(Last(chain).by, start[t])
    BY DEF Conflict, Before, Committed
<1> QED BY <1>1, <1>2 DEF Top

LEMMA TableIs ==
    ASSUME IInv, NEW t \in Txns, pc[t] \notin {"idle", "committed"}
    PROVE  /\ Table(t) \in Versions
           /\ \E i \in DOMAIN versions : Top(versions, start[t], i)
           /\ Last(versions).by = t => Table(t) = Last(versions)
           /\ Last(versions).by # t =>
                 \A i \in DOMAIN versions : Top(versions, start[t], i) => Table(t) = versions[i]
<1>1. versions \in Seq(Versions) /\ Len(versions) >= 1 /\ Last(versions) \in Versions
    BY DEF IInv, TypeOK, Last
<1>2. start[t] \in 2..clock /\ ~Committed(t)
    BY DEF IInv, TypeOK, ClockInv
<1>3. PICK i \in DOMAIN versions : Top(versions, start[t], i)
    BY <1>2 DEF IInv, CatalogInv, HistoryInv
<1>4. CASE Last(versions).by = t
    BY <1>1, <1>3, <1>4, SeenOwn DEF Table
<1>5. CASE Last(versions).by # t
  <2>1. \A k \in DOMAIN versions : versions[k].by # t
      BY <1>1, <1>2, <1>5, NotMine DEF IInv, CatalogInv
  <2>2. \A k \in DOMAIN versions : Top(versions, start[t], k) => Table(t) = versions[k]
      BY <1>1, <2>1, SeenTop DEF Table
  <2> QED BY <1>1, <1>3, <1>5, <2>2
<1> QED BY <1>4, <1>5

LEMMA EntryIs ==
    ASSUME IInv, NEW t \in Txns, pc[t] \notin {"idle", "committed"}, NEW e \in Embeddings,
           Last(entries[e]).by # t
    PROVE  /\ \E j \in DOMAIN entries[e] : Top(entries[e], start[t], j)
           /\ \A j \in DOMAIN entries[e] : Top(entries[e], start[t], j) => Seen(t, entries[e]) = entries[e][j]
           /\ \A j \in DOMAIN entries[e] : Top(entries[e], start[t], j) =>
                 \A i \in DOMAIN versions : Top(versions, start[t], i) =>
                     (entries[e][j].alive <=> versions[i].cols[e] # None)
<1>1. entries[e] \in Seq([by : Writers, alive : BOOLEAN])
    BY DEF IInv, TypeOK
<1>2. start[t] \in 2..clock /\ ~Committed(t)
    BY DEF IInv, TypeOK, ClockInv
<1>3. \A k \in DOMAIN entries[e] : entries[e][k].by # t
    BY <1>1, <1>2, NotMine DEF IInv, CatalogInv
<1>4. \A j \in DOMAIN entries[e] : Top(entries[e], start[t], j) => Seen(t, entries[e]) = entries[e][j]
    BY <1>1, <1>3, SeenTop
<1> QED BY <1>2, <1>4 DEF IInv, CatalogInv, HistoryInv
-----------------------------------------------------------------------------
(* Types. *)

LEMMA TypeInit == Init => TypeOK
BY TxnsAssumption, RowsAssumption
DEF Init, TypeOK, Writers, Labels, Operations, Versions

LEMMA WrittenRows ==
    ASSUME TypeOK, NEW t \in Txns, NEW k \in 0..Len(rows), NEW n \in Nat
    PROVE  /\ Written(k, n, t) \in Seq(Writers)
           /\ Len(Written(k, n, t)) >= Len(rows) /\ Len(Written(k, n, t)) >= k + n
<1> DEFINE m == IF Len(rows) > k + n THEN Len(rows) ELSE k + n
<1>1. rows \in Seq(Writers) /\ t \in Writers /\ Len(rows) \in Nat
    BY DEF TypeOK, Writers
<1>2. m \in Nat /\ m >= Len(rows) /\ m >= k + n
    BY <1>1
<1>3. ASSUME NEW i \in 1..m PROVE (IF i \in (k + 1)..(k + n) THEN t ELSE rows[i]) \in Writers
  <2>1. CASE i \in (k + 1)..(k + n)
      BY <1>1, <2>1
  <2>2. CASE i \notin (k + 1)..(k + n)
    <3>1. i \in 1..Len(rows)
        BY <1>1, <2>2
    <3> QED BY <1>1, <2>2, <3>1
  <2> QED BY <2>1, <2>2
<1>4. Written(k, n, t) = [i \in 1..m |-> IF i \in (k + 1)..(k + n) THEN t ELSE rows[i]]
    BY DEF Written
<1> HIDE DEF m
<1>5. Written(k, n, t) \in Seq(Writers) /\ Len(Written(k, n, t)) = m
    BY <1>2, <1>3, <1>4
<1> QED BY <1>2, <1>5

\* What a statement makes of the table is a table.
LEMMA AlteredType ==
    ASSUME TypeOK, NEW t \in Txns, NEW v \in Versions
    PROVE  Altered(t, v) \in Versions /\ Altered(t, v).by = t
BY Statements DEF Altered, Versions, Writers

LEMMA TypeStep == IInv /\ [Next]_vars => TypeOK'
<1> SUFFICES ASSUME IInv, [Next]_vars PROVE TypeOK'
    OBVIOUS
<1>1. TypeOK
    BY DEF IInv
<1>2. CASE UNCHANGED vars
    BY <1>1, <1>2 DEF TypeOK, vars, catalogVars, storageVars, columnVars, sessionVars
<1>3. ASSUME NEW t \in Txns, Begin(t) \/ GiveUp(t) \/ Step(t) PROVE TypeOK'
  <2> USE DEF Goto, catalogVars, storageVars, columnVars
  <2> t \in Writers
      BY DEF Writers
  <2>1. CASE Begin(t)
    <3>1. PICK k \in Program[t] : \E x \in Targets(k) : op' = [op EXCEPT ![t] = [kind |-> k, on |-> x]]
        BY <2>1 DEF Begin
    <3> PICK x \in Targets(k) : op' = [op EXCEPT ![t] = [kind |-> k, on |-> x]]
        BY <3>1
    <3>2. k \in Kinds
        BY <3>1, ProgramAssumption
    <3>3. [kind |-> k, on |-> x] \in Operations
        BY <3>2 DEF Operations
    <3>4. op' \in [Txns -> Operations]
        BY <1>1, <3>3 DEF TypeOK
    <3>5. start' \in [Txns -> Nat] /\ clock' \in Nat /\ pc' \in [Txns -> Labels]
        BY <1>1, <2>1 DEF TypeOK, Begin, Labels
    <3> QED BY <1>1, <2>1, <3>4, <3>5 DEF TypeOK, Begin
  <2>2. CASE ScanSource(t) \/ Ask(t) \/ LookupEntry(t) \/ ShareStorage(t) \/ InsertRows(t) \/ UpdateText(t)
    <3>1. pc' \in [Txns -> Labels]
        BY <1>1, <2>2 DEF TypeOK, Labels, Ended, ScanSource, Ask, LookupEntry, ShareStorage, InsertRows, UpdateText
    <3>2. DOMAIN vectors' = Txns
        BY <1>1, <2>2 DEF TypeOK, ScanSource, Ask, LookupEntry, ShareStorage, InsertRows, UpdateText
    <3> QED BY <1>1, <2>2, <3>1, <3>2
            DEF TypeOK, ScanSource, Ask, LookupEntry, ShareStorage, InsertRows, UpdateText
  <2>3. ASSUME pc[t] \notin {"idle", "committed"} PROVE Table(t) \in Versions /\ Table(t).storage \in Writers
      BY <2>3, TableIs DEF Versions
  <2>4. CASE AddColumn(t) \/ RemoveColumn(t)
    <3>1. Table(t).storage \in Writers
        BY <2>3, <2>4 DEF AddColumn, RemoveColumn
    <3>2. pc' \in [Txns -> Labels] /\ DOMAIN vectors' = Txns
        BY <1>1, <2>4 DEF TypeOK, Labels, AddColumn, RemoveColumn
    <3>3. CASE UNCHANGED <<storageVars, base>>
        BY <1>1, <2>4, <3>2, <3>3 DEF TypeOK, AddColumn, RemoveColumn
    <3>4. CASE CopyStorage(t, Table(t).storage)
      <4>1. count' \in [Writers -> 0..Len(rows)] /\ main' \subseteq Writers /\ base' \in [Txns -> Writers \cup {None}]
          BY <1>1, <3>1, <3>4 DEF TypeOK, CopyStorage
      <4> QED BY <1>1, <2>4, <3>2, <3>4, <4>1 DEF TypeOK, AddColumn, RemoveColumn, CopyStorage
    <3> QED BY <2>4, <3>3, <3>4 DEF AddColumn, RemoveColumn
  <2>5. CASE InstallVersion(t)
    <3>1. pc' \in [Txns -> Labels]
        BY <1>1, <2>5 DEF TypeOK, Labels, Ended, InstallVersion, Continue
    <3>2. Altered(t, Table(t)) \in Versions
        BY <1>1, <2>3, <2>5, AlteredType DEF InstallVersion
    <3>3. versions' \in Seq(Versions) /\ versions' # <<>>
      <4>1. CASE versions' = versions
          BY <1>1, <4>1 DEF TypeOK
      <4>2. CASE versions' = Append(versions, Altered(t, Table(t)))
        <5>1. versions \in Seq(Versions)
            BY <1>1 DEF TypeOK
        <5> QED BY <3>2, <4>2, <5>1, AppendType
      <4> QED BY <2>5, <4>1, <4>2 DEF InstallVersion
    <3> QED BY <1>1, <2>5, <3>1, <3>3 DEF TypeOK, InstallVersion
  <2>6. CASE CreateEntry(t) \/ DropEntry(t)
    <3>1. pc' \in [Txns -> Labels]
        BY <1>1, <2>6 DEF TypeOK, Labels, Ended, CreateEntry, DropEntry
    <3> DEFINE E == [by : Writers, alive : BOOLEAN]
    <3>2. op[t].on \in Embeddings => entries[op[t].on] \in Seq(E)
        BY <1>1 DEF TypeOK
    <3>3. PICK b \in BOOLEAN : \/ UNCHANGED entries
                               \/ entries' = [entries EXCEPT ![op[t].on] = Append(@, [by |-> t, alive |-> b])]
        BY <2>6 DEF CreateEntry, DropEntry
    <3>4. [by |-> t, alive |-> b] \in E
        OBVIOUS
    <3>5. \A s \in Seq(E) : Append(s, [by |-> t, alive |-> b]) \in Seq(E)
                            /\ Append(s, [by |-> t, alive |-> b]) # <<>>
        BY <3>4
    <3>6. entries' \in [Embeddings -> Seq(E)] /\ \A e \in Embeddings : entries'[e] # <<>>
        BY <1>1, <3>2, <3>3, <3>5 DEF TypeOK
    <3> QED BY <1>1, <2>6, <3>1, <3>6 DEF TypeOK, CreateEntry, DropEntry
  <2>7. CASE Stage(t)
    <3>1. pc' \in [Txns -> Labels] /\ wal_lock' \in Txns \cup {None}
        BY <1>1, <2>7 DEF TypeOK, Labels, Ended, Stage
    <3>2. CASE UNCHANGED storageVars
        BY <1>1, <2>7, <3>1, <3>2 DEF TypeOK, Stage
    <3>3. CASE AppendRows(t, Table(t).storage)
      <4>1. Table(t).storage \in Writers /\ Size[t] \in Nat
            /\ count[Table(t).storage] \in 0..Len(rows)
          BY <1>1, <2>3, <2>7, ProgramAssumption DEF Stage, TypeOK
      <4>2. /\ rows' \in Seq(Writers) /\ Len(rows') >= Len(rows)
            /\ Len(rows') >= count[Table(t).storage] + Size[t]
          BY <1>1, <3>3, <4>1, WrittenRows DEF AppendRows
      <4>3. Len(rows) \in Nat /\ Len(rows') \in Nat
          BY <1>1, <4>2 DEF TypeOK
      <4>4. count' \in [Writers -> 0..Len(rows')] /\ place' \in [Txns -> -1..Len(rows')]
        <5>1. /\ count' = [count EXCEPT ![Table(t).storage] = count[Table(t).storage] + Size[t]]
              /\ place' = [place EXCEPT ![t] = count[Table(t).storage]]
            BY <3>3 DEF AppendRows
        <5>2. count \in [Writers -> 0..Len(rows')]
            BY <1>1, <4>2, <4>3 DEF TypeOK
        <5>3. place \in [Txns -> -1..Len(rows')]
            BY <1>1, <4>2, <4>3 DEF TypeOK
        <5>4. /\ count[Table(t).storage] + Size[t] \in 0..Len(rows')
              /\ count[Table(t).storage] \in -1..Len(rows')
            BY <4>1, <4>2, <4>3
        <5> QED BY <5>1, <5>2, <5>3, <5>4
      <4> QED BY <1>1, <2>7, <3>1, <3>3, <4>2, <4>4 DEF TypeOK, Stage, AppendRows
    <3> QED BY <2>7, <3>2, <3>3 DEF Stage
  <2>8. CASE CommitEntries(t)
    <3>1. /\ pc' \in [Txns -> Labels] /\ wal_lock' \in Txns \cup {None}
          /\ clock' \in Nat /\ committed_at' \in [Writers -> Nat]
      <4>1. pc \in [Txns -> Labels] /\ wal_lock \in Txns \cup {None}
            /\ clock \in Nat /\ committed_at \in [Writers -> Nat]
          BY <1>1 DEF TypeOK
      <4>2. {"failed", "committed"} \subseteq Labels
          BY DEF Labels, Ended
      <4>3. clock' = clock + 1
          BY <2>8 DEF CommitEntries
      <4>4. CASE pc' = [pc EXCEPT ![t] = "failed"] /\ UNCHANGED <<committed_at, wal_lock>>
          BY <4>1, <4>2, <4>3, <4>4
      <4>5. CASE /\ committed_at' = [committed_at EXCEPT ![t] = clock]
                 /\ wal_lock' = None /\ pc' = [pc EXCEPT ![t] = "committed"]
          BY <4>1, <4>2, <4>3, <4>5
      <4> QED BY <2>8, <4>4, <4>5 DEF CommitEntries
    <3>2. UNCHANGED <<op, start, versions, entries, main, count, rows, place, base, vectors>>
        BY <2>8 DEF CommitEntries
    <3> QED BY <1>1, <3>1, <3>2 DEF TypeOK
  <2>9. CASE Rollback(t) \/ GiveUp(t)
    <3>1. Undo(t) /\ pc[t] \in {"failed", "ready"}
        BY <2>9 DEF Rollback, GiveUp
    <3>2. pc' \in [Txns -> Labels] /\ wal_lock' \in Txns \cup {None} /\ place' \in [Txns -> -1..Len(rows)]
          /\ base' \in [Txns -> Writers \cup {None}]
        BY <1>1, <3>1 DEF TypeOK, Labels, Ended, Undo, Released
    <3>3. Table(t).storage \in Writers
        BY <2>3, <3>1
    <3>4. count' \in [Writers -> 0..Len(rows)]
        BY <1>1, <3>1, <3>3 DEF TypeOK, Undo, RevertedCount
    <3>5. ~Committed(t)
        BY <3>1 DEF IInv, ClockInv
    <3>6. versions' \in Seq(Versions) /\ versions' # <<>> /\ main' \subseteq Writers
      <4>1. CASE Last(versions).by = t
        <5>1. Len(versions) >= 2 /\ versions \in Seq(Versions)
            BY <1>1, <3>5, <4>1 DEF IInv, CatalogInv, TxnInv, VersionInv, TypeOK
        <5>2. /\ Front(versions) \in Seq(Versions) /\ Len(Front(versions)) = Len(versions) - 1
              /\ Last(Front(versions)) = versions[Len(versions) - 1]
            BY <5>1, FrontIs
        <5>3. versions[Len(versions) - 1] \in Versions
            BY <5>1
        <5>4. Last(Front(versions)).storage \in Writers
            BY <5>2, <5>3 DEF Versions
        <5>5. Front(versions) # <<>>
            BY <5>1, <5>2
        <5>6. main' \subseteq Writers
            BY <1>1, <3>1, <3>3, <5>4 DEF Undo, RestoredMain, TypeOK
        <5> QED BY <3>1, <4>1, <5>2, <5>5, <5>6 DEF Undo, Undone
      <4>2. CASE Last(versions).by # t
          BY <1>1, <3>1, <3>3, <4>2 DEF Undo, Undone, RestoredMain, TypeOK
      <4> QED BY <4>1, <4>2
    <3>7. ASSUME NEW e \in Embeddings
          PROVE  Undone(t, entries[e]) \in Seq([by : Writers, alive : BOOLEAN]) /\ Undone(t, entries[e]) # <<>>
      <4>1. entries[e] \in Seq([by : Writers, alive : BOOLEAN]) /\ entries[e] # <<>>
          BY <1>1 DEF TypeOK
      <4>2. CASE Last(entries[e]).by = t
        <5>1. Len(entries[e]) >= 2
            BY <3>5, <4>2 DEF IInv, CatalogInv, TxnInv, EntryInv
        <5>2. /\ Front(entries[e]) \in Seq([by : Writers, alive : BOOLEAN])
              /\ Len(Front(entries[e])) = Len(entries[e]) - 1
            BY <4>1, <5>1, FrontIs
        <5> QED BY <4>1, <4>2, <5>1, <5>2 DEF Undone
      <4>3. CASE Last(entries[e]).by # t
          BY <4>1, <4>3 DEF Undone
      <4> QED BY <4>2, <4>3
    <3>8. entries' \in [Embeddings -> Seq([by : Writers, alive : BOOLEAN])]
          /\ \A e \in Embeddings : entries'[e] # <<>>
        BY <3>1, <3>7 DEF Undo
    <3> QED BY <1>1, <3>1, <3>2, <3>4, <3>6, <3>8 DEF TypeOK, Undo
  <2> QED BY <1>3, <2>1, <2>2, <2>4, <2>5, <2>6, <2>7, <2>8, <2>9 DEF Step
<1> QED BY <1>2, <1>3 DEF Next
-----------------------------------------------------------------------------
(* Times. *)

\* A step of a running transaction that is neither its begin nor its commit.
Runs(t) ==
    /\ UNCHANGED <<clock, start, committed_at, op>>
    /\ pc[t] \notin {"idle", "committed", "aborted"}
    /\ \E l \in Labels \ {"idle", "begun", "committed"} : pc' = [pc EXCEPT ![t] = l]

LEMMA StepRuns ==
    ASSUME NEW t \in Txns, GiveUp(t) \/ Step(t)
    PROVE  Runs(t) \/ CommitEntries(t)
<1> USE DEF Goto, Runs, Labels, Ended
<1>1. CASE Ask(t) \/ AddColumn(t) \/ CreateEntry(t) \/ LookupEntry(t) \/ RemoveColumn(t) \/ DropEntry(t)
    BY <1>1 DEF Ask, AddColumn, CreateEntry, LookupEntry, RemoveColumn, DropEntry
<1>2. CASE ScanSource(t) \/ ShareStorage(t) \/ InsertRows(t) \/ UpdateText(t) \/ Stage(t)
    BY <1>2 DEF ScanSource, ShareStorage, InsertRows, UpdateText, Stage
<1>3. CASE InstallVersion(t)
    BY <1>3 DEF InstallVersion, Continue
<1>4. CASE Rollback(t) \/ GiveUp(t)
    BY <1>4 DEF Rollback, GiveUp, Undo
<1> QED BY <1>1, <1>2, <1>3, <1>4 DEF Step

LEMMA ClockInit == Init => ClockInv
BY TxnsAssumption DEF Init, ClockInv, Committed, Writers

LEMMA ClockStep == IInv /\ [Next]_vars => ClockInv'
<1> SUFFICES ASSUME IInv, [Next]_vars PROVE ClockInv'
    OBVIOUS
<1>1. TypeOK /\ ClockInv
    BY DEF IInv
<1>2. CASE UNCHANGED vars
    BY <1>1, <1>2 DEF ClockInv, Committed, vars
<1>3. ASSUME NEW t \in Txns, Begin(t) \/ GiveUp(t) \/ Step(t) PROVE ClockInv'
  <2>1. /\ clock \in Nat /\ start \in [Txns -> Nat] /\ committed_at \in [Writers -> Nat]
        /\ pc \in [Txns -> Labels] /\ Txns \subseteq Writers /\ Loader \notin Txns
        /\ \A w \in Writers : committed_at[w] < clock
      BY <1>1, TxnsAssumption DEF TypeOK, ClockInv, Writers
  <2>2. CASE Begin(t)
    <3>1. /\ pc[t] = "idle" /\ pc' = [pc EXCEPT ![t] = "begun"]
          /\ start' = [start EXCEPT ![t] = clock] /\ clock' = clock + 1
          /\ committed_at' = committed_at
        BY <2>2 DEF Begin, Goto
    <3> QED BY <1>1, <2>1, <3>1 DEF ClockInv, Committed
  <2>3. CASE Runs(t)
      BY <1>1, <2>1, <2>3 DEF ClockInv, Committed, Runs
  <2>4. CASE CommitEntries(t)
    <3>1. clock' = clock + 1 /\ start' = start /\ pc[t] = "staged"
        BY <2>4 DEF CommitEntries
    <3>2. CASE pc' = [pc EXCEPT ![t] = "failed"] /\ committed_at' = committed_at
        BY <1>1, <2>1, <3>1, <3>2 DEF ClockInv, Committed
    <3>3. CASE pc' = [pc EXCEPT ![t] = "committed"] /\ committed_at' = [committed_at EXCEPT ![t] = clock]
        BY <1>1, <2>1, <3>1, <3>3 DEF ClockInv, Committed
    <3> QED BY <2>4, <3>2, <3>3 DEF CommitEntries, Goto
  <2> QED BY <1>3, <2>2, <2>3, <2>4, StepRuns
<1> QED BY <1>2, <1>3 DEF Next
-----------------------------------------------------------------------------
(* The chains, step by step. *)

Grows(chain, next, t, S) == \E v \in S : v.by = t /\ next = Append(chain, v) /\ Committed(Last(chain).by)
Shrinks(chain, next, t) == Len(chain) >= 2 /\ Last(chain).by = t /\ next = Front(chain)
Entry == [by : Writers, alive : BOOLEAN]

\* A running transaction appends its version to what is committed, or takes it away.
LEMMA ChainChange ==
    ASSUME IInv, NEW t \in Txns, GiveUp(t) \/ Step(t), Runs(t)
    PROVE  /\ versions' = versions \/ Grows(versions, versions', t, Versions) \/ Shrinks(versions, versions', t)
           /\ \A e \in Embeddings : \/ entries'[e] = entries[e]
                                    \/ Grows(entries[e], entries'[e], t, Entry)
                                    \/ Shrinks(entries[e], entries'[e], t)
<1>1. TypeOK /\ ~Committed(t) /\ pc[t] \notin {"idle", "committed"}
    BY DEF IInv, ClockInv, Runs
<1>2. CASE UNCHANGED catalogVars
    BY <1>2 DEF catalogVars
<1>3. CASE InstallVersion(t)
  <2>1. /\ \/ versions' = versions
           \/ versions' = Append(versions, Altered(t, Table(t))) /\ ~Conflict(t, Last(versions).by)
        /\ UNCHANGED entries /\ pc[t] = "installing"
      BY <1>3 DEF InstallVersion
  <2>2. Altered(t, Table(t)) \in Versions /\ Altered(t, Table(t)).by = t
      BY <1>1, TableIs, AlteredType
  <2>3. Last(versions).by # t
      BY <1>1, <2>1 DEF IInv, CatalogInv, TxnInv, VersionInv
  <2>4. CASE versions' = Append(versions, Altered(t, Table(t))) /\ ~Conflict(t, Last(versions).by)
    <3>1. Committed(Last(versions).by)
        BY <2>3, <2>4 DEF Conflict
    <3> QED BY <2>1, <2>2, <2>4, <3>1 DEF Grows
  <2> QED BY <2>1, <2>4
<1>4. CASE CreateEntry(t) \/ DropEntry(t)
  <2>1. UNCHANGED versions /\ pc[t] \in {"creating", "dropping"}
      BY <1>4 DEF CreateEntry, DropEntry
  <2>2. op[t].on \in Embeddings
      BY <1>1, <2>1, Statements DEF IInv, CatalogInv, TxnInv, StatementInv
  <2>3. Last(entries[op[t].on]).by # t
      BY <1>1, <2>1, <2>2 DEF IInv, CatalogInv, TxnInv, EntryInv
  <2>4. CASE UNCHANGED entries
      BY <2>1, <2>4
  <2>5. ASSUME NEW b \in BOOLEAN, entries' = [entries EXCEPT ![op[t].on] = Append(@, [by |-> t, alive |-> b])],
               ~Conflict(t, Last(entries[op[t].on]).by)
        PROVE  \A e \in Embeddings : entries'[e] = entries[e] \/ Grows(entries[e], entries'[e], t, Entry)
    <3>1. Committed(Last(entries[op[t].on]).by)
        BY <2>3, <2>5 DEF Conflict
    <3>2. [by |-> t, alive |-> b] \in Entry
        BY DEF Entry, Writers
    <3>3. entries'[op[t].on] = Append(entries[op[t].on], [by |-> t, alive |-> b])
          /\ \A e \in Embeddings : e # op[t].on => entries'[e] = entries[e]
        BY <1>1, <2>2, <2>5 DEF TypeOK
    <3> QED BY <3>1, <3>2, <3>3 DEF Grows
  <2>6. UNCHANGED entries \/ \E b \in BOOLEAN : /\ entries' = [entries EXCEPT ![op[t].on] = Append(@, [by |-> t, alive |-> b])]
                                                /\ ~Conflict(t, Last(entries[op[t].on]).by)
      BY <1>4 DEF CreateEntry, DropEntry
  <2> QED BY <2>1, <2>4, <2>5, <2>6
<1>5. CASE Undo(t)
  <2>1. versions' = Undone(t, versions) /\ \A e \in Embeddings : entries'[e] = Undone(t, entries[e])
      BY <1>5 DEF Undo
  <2>2. versions' = versions \/ Shrinks(versions, versions', t)
      BY <1>1, <2>1 DEF Undone, Shrinks, IInv, CatalogInv, TxnInv, VersionInv
  <2>3. \A e \in Embeddings : entries'[e] = entries[e] \/ Shrinks(entries[e], entries'[e], t)
      BY <1>1, <2>1 DEF Undone, Shrinks, IInv, CatalogInv, TxnInv, EntryInv
  <2> QED BY <2>2, <2>3
<1>6. UNCHANGED catalogVars \/ InstallVersion(t) \/ CreateEntry(t) \/ DropEntry(t) \/ Undo(t)
    BY DEF Step, GiveUp, Rollback, ScanSource, Ask, AddColumn, LookupEntry, RemoveColumn, ShareStorage,
           InsertRows, UpdateText, Stage, CommitEntries
<1> QED BY <1>2, <1>3, <1>4, <1>5, <1>6

\* None of this is on top for any time, and only the last version stays uncommitted.
LEMMA ChainKept ==
    ASSUME NEW S, NEW chain \in Seq(S), chain # <<>>, NEW next, NEW t, ~Committed(t), ChainInv(chain),
           next = chain \/ Grows(chain, next, t, S) \/ Shrinks(chain, next, t)
    PROVE  /\ ChainInv(next)
           /\ \A T, i : Top(next, T, i) <=> Top(chain, T, i)
           /\ \A i \in DOMAIN chain \cap DOMAIN next : next[i] = chain[i]
<1>1. \A T : ~Before(t, T)
    BY DEF Before
<1>2. CASE next = chain
    BY <1>2
<1>3. CASE Grows(chain, next, t, S)
  <2>1. PICK v \in S : v.by = t /\ next = Append(chain, v)
      BY <1>3 DEF Grows
  <2>2. Committed(Last(chain).by)
      BY <1>3 DEF Grows
  <2>3. \A T, i : Top(next, T, i) <=> Top(chain, T, i)
      BY <1>1, <2>1, TopOfAppend
  <2>4. /\ Len(next) = Len(chain) + 1 /\ DOMAIN next = 1..(Len(chain) + 1) /\ Len(chain) \in Nat
        /\ DOMAIN chain = 1..Len(chain) /\ \A i \in 1..Len(chain) : next[i] = chain[i]
      BY <2>1
  <2>5. \A i \in 1..Len(chain) : Committed(chain[i].by)
      BY <2>2, <2>4 DEF ChainInv, Last
  <2>6. ChainInv(next)
      BY <2>4, <2>5 DEF ChainInv
  <2> QED BY <2>3, <2>4, <2>6
<1>4. CASE Shrinks(chain, next, t)
  <2>1. Len(chain) >= 2 /\ Last(chain).by = t /\ next = Front(chain)
      BY <1>4 DEF Shrinks
  <2>2. \A T, i : Top(next, T, i) <=> Top(chain, T, i)
      BY <1>1, <2>1, TopOfFront
  <2>3. /\ next \in Seq(S) /\ Len(next) = Len(chain) - 1 /\ Len(chain) \in Nat
        /\ \A k \in 1..(Len(chain) - 1) : next[k] = chain[k]
      BY <2>1, FrontIs
  <2>4. ChainInv(next)
      BY <2>3 DEF ChainInv
  <2> QED BY <2>2, <2>3, <2>4
<1> QED BY <1>2, <1>3, <1>4
-----------------------------------------------------------------------------
(* Snapshots. *)

LEMMA TopRuns ==
    ASSUME IInv, NEW t \in Txns, GiveUp(t) \/ Step(t), Runs(t)
    PROVE  /\ ChainInv(versions)'
           /\ \A T, i : Top(versions, T, i)' <=> Top(versions, T, i)
           /\ \A T, i : Top(versions, T, i) => versions'[i] = versions[i]
           /\ \A e \in Embeddings :
                 /\ ChainInv(entries[e])'
                 /\ \A T, i : Top(entries[e], T, i)' <=> Top(entries[e], T, i)
                 /\ \A T, i : Top(entries[e], T, i) => entries'[e][i] = entries[e][i]
<1>1. ~Committed(t) /\ committed_at' = committed_at
    BY DEF IInv, ClockInv, Runs
<1>2. \A next, T, i : Top(next, T, i) => i \in DOMAIN next
    BY DEF Top
<1>3. /\ ChainInv(versions') /\ \A T, i : Top(versions', T, i) <=> Top(versions, T, i)
      /\ \A i \in DOMAIN versions \cap DOMAIN versions' : versions'[i] = versions[i]
  <2>1. versions \in Seq(Versions) /\ versions # <<>> /\ ChainInv(versions)
      BY DEF IInv, TypeOK, CatalogInv
  <2>2. versions' = versions \/ Grows(versions, versions', t, Versions) \/ Shrinks(versions, versions', t)
      BY ChainChange
  <2> QED BY <1>1, <2>1, <2>2, ChainKept
<1>4. ASSUME NEW e \in Embeddings
      PROVE  /\ ChainInv(entries'[e]) /\ \A T, i : Top(entries'[e], T, i) <=> Top(entries[e], T, i)
             /\ \A i \in DOMAIN entries[e] \cap DOMAIN entries'[e] : entries'[e][i] = entries[e][i]
  <2>1. entries[e] \in Seq(Entry) /\ entries[e] # <<>> /\ ChainInv(entries[e])
      BY DEF IInv, TypeOK, CatalogInv, Entry
  <2>2. entries'[e] = entries[e] \/ Grows(entries[e], entries'[e], t, Entry) \/ Shrinks(entries[e], entries'[e], t)
      BY ChainChange
  <2> QED BY <1>1, <2>1, <2>2, ChainKept
<1>5. ChainInv(versions)' /\ \A T, i : Top(versions, T, i)' <=> Top(versions', T, i)
    BY <1>1, <1>3 DEF ChainInv, Top, Before, Committed
<1>6. \A e \in Embeddings : ChainInv(entries[e])' /\ \A T, i : Top(entries[e], T, i)' <=> Top(entries'[e], T, i)
    BY <1>1, <1>4 DEF ChainInv, Top, Before, Committed
<1> QED BY <1>2, <1>3, <1>4, <1>5, <1>6

\* The snapshot of a transaction that begins next is the one that begins now.
LEMMA TopNow ==
    ASSUME TypeOK, ClockInv, NEW S, NEW chain \in Seq(S), \A k \in DOMAIN chain : chain[k].by \in Writers, NEW i
    PROVE  Top(chain, clock + 1, i) <=> Top(chain, clock, i)
<1>1. \A w \in Writers : Before(w, clock + 1) <=> Before(w, clock)
    BY DEF TypeOK, ClockInv, Before, Committed, Writers
<1> QED BY <1>1 DEF Top

LEMMA Authors ==
    ASSUME TypeOK
    PROVE  /\ versions \in Seq(Versions) /\ \A k \in DOMAIN versions : versions[k] \in Versions /\ versions[k].by \in Writers
           /\ \A e \in Embeddings : entries[e] \in Seq(Entry) /\ \A k \in DOMAIN entries[e] : entries[e][k].by \in Writers
<1>1. versions \in Seq(Versions) /\ \A k \in DOMAIN versions : versions[k] \in Versions
    BY DEF TypeOK
<1>2. \A k \in DOMAIN versions : versions[k].by \in Writers
    BY <1>1 DEF Versions
<1>3. ASSUME NEW e \in Embeddings
      PROVE  entries[e] \in Seq(Entry) /\ \A k \in DOMAIN entries[e] : entries[e][k].by \in Writers
  <2>1. entries[e] \in Seq(Entry)
      BY DEF TypeOK, Entry
  <2>2. \A k \in DOMAIN entries[e] : entries[e][k] \in Entry
      BY <2>1
  <2> QED BY <2>1, <2>2 DEF Entry
<1> QED BY <1>1, <1>2, <1>3

\* After a commit: for earlier times nothing has changed, for later ones the version of
\* the transaction is on top, if there is one.
LEMMA TopCommitted ==
    ASSUME TypeOK, ClockInv, NEW t \in Txns, ~Committed(t), committed_at' = [committed_at EXCEPT ![t] = clock],
           NEW S, NEW chain \in Seq(S), chain # <<>>, ChainInv(chain),
           \A k \in DOMAIN chain : chain[k].by \in Writers
    PROVE  /\ ChainInv(chain)'
           /\ \A T \in 2..clock : \A i : Top(chain, T, i)' <=> Top(chain, T, i)
           /\ \A T : T = clock + 1 =>
                 /\ Last(chain).by # t => \A i : Top(chain, T, i)' <=> Top(chain, clock, i)
                 /\ Last(chain).by = t => \A i : Top(chain, T, i)' <=> i = Len(chain)
           /\ (Last(chain).by = t /\ Len(chain) >= 2) => Top(chain, clock, Len(chain) - 1)
<1>1. /\ \A w \in Writers : w # t => (Committed(w)' <=> Committed(w)) /\ committed_at'[w] = committed_at[w]
      /\ committed_at'[t] = clock /\ Committed(t)' /\ clock \in Nat /\ clock >= 2
      /\ \A w \in Writers : committed_at[w] \in Nat /\ committed_at[w] < clock
      /\ t \in Writers
    BY DEF TypeOK, ClockInv, Committed, Writers
<1>2. /\ DOMAIN chain = 1..Len(chain) /\ Len(chain) \in Nat /\ Len(chain) >= 1
      /\ Last(chain) = chain[Len(chain)]
    BY DEF Last
<1>3. ChainInv(chain)'
    BY <1>1 DEF ChainInv
<1>4. \A T \in 2..clock : \A w \in Writers : Before(w, T)' <=> Before(w, T)
    BY <1>1 DEF Before
<1>5. \A T \in 2..clock : \A i : Top(chain, T, i)' <=> Top(chain, T, i)
    BY <1>4 DEF Top
<1>6. ASSUME NEW T, T = clock + 1, NEW w \in Writers, w # t PROVE Before(w, T)' <=> Before(w, clock)
    BY <1>1, <1>6 DEF Before, Committed
<1>7. ASSUME NEW T, T = clock + 1 PROVE Before(t, T)'
    BY <1>1, <1>7 DEF Before
<1>8. ASSUME NEW T, T = clock + 1, Last(chain).by # t, NEW i
      PROVE  Top(chain, T, i)' <=> Top(chain, clock, i)
  <2>1. \A k \in DOMAIN chain : chain[k].by # t
      BY <1>8, NotMine
  <2>2. \A k \in DOMAIN chain : Before(chain[k].by, T)' <=> Before(chain[k].by, clock)
      BY <1>6, <1>8, <2>1
  <2> QED BY <2>2 DEF Top
<1>9. ASSUME NEW T, T = clock + 1, Last(chain).by = t, NEW i
      PROVE  Top(chain, T, i)' <=> i = Len(chain)
  <2>1. Before(chain[Len(chain)].by, T)'
      BY <1>2, <1>7, <1>9
  <2>2. Top(chain, T, Len(chain))'
      BY <1>2, <2>1 DEF Top
  <2>3. Top(chain, T, i)' => i \in 1..Len(chain) /\ Len(chain) <= i
      BY <1>2, <2>1 DEF Top
  <2> QED BY <1>2, <2>2, <2>3
<1>10. ASSUME Last(chain).by = t, Len(chain) >= 2 PROVE Top(chain, clock, Len(chain) - 1)
  <2>1. Committed(chain[Len(chain) - 1].by)
      BY <1>2, <1>10 DEF ChainInv
  <2>2. Before(chain[Len(chain) - 1].by, clock)
      BY <1>1, <1>2, <1>10, <2>1 DEF Before
  <2>3. ~Before(chain[Len(chain)].by, clock)
      BY <1>2, <1>10 DEF Before
  <2> QED BY <1>2, <1>10, <2>2, <2>3 DEF Top
<1> QED BY <1>3, <1>5, <1>8, <1>9, <1>10

\* At no time has a snapshot the column without the entry, or the entry without the column.
ChainsInv == ChainInv(versions) /\ \A e \in Embeddings : ChainInv(entries[e])

LEMMA HistoryInit == Init => ChainsInv /\ HistoryInv
<1> SUFFICES ASSUME Init PROVE ChainsInv /\ HistoryInv
    OBVIOUS
<1>1. /\ clock = 2 /\ committed_at[Loader] = 1 /\ Loader \in Writers
      /\ versions = <<[by |-> Loader, storage |-> Loader, cols |-> [e \in Embeddings |-> None]]>>
      /\ \A e \in Embeddings : entries[e] = <<[by |-> Loader, alive |-> FALSE]>>
    BY DEF Init, Writers
<1>2. ChainsInv
  <2>1. \A i \in DOMAIN versions : ~(i < Len(versions))
      BY <1>1
  <2>2. ASSUME NEW e \in Embeddings, NEW i \in DOMAIN entries[e] PROVE ~(i < Len(entries[e]))
    <3>1. entries[e] = <<[by |-> Loader, alive |-> FALSE]>>
        BY <1>1
    <3>2. \A r : Len(<<r>>) = 1 /\ DOMAIN <<r>> = {1}
        OBVIOUS
    <3> QED BY <3>1, <3>2
  <2>3. ChainInv(versions)
      BY <2>1 DEF ChainInv
  <2>4. \A e \in Embeddings : ChainInv(entries[e])
      BY <2>2 DEF ChainInv
  <2> QED BY <2>3, <2>4 DEF ChainsInv
<1>3. Before(Loader, 2)
    BY <1>1 DEF Before, Committed
<1>4. \A i : Top(versions, 2, i) <=> i = 1
    BY <1>1, <1>3 DEF Top
<1>5. \A e \in Embeddings : \A i : Top(entries[e], 2, i) <=> i = 1
    BY <1>1, <1>3 DEF Top
<1>6. versions[1].cols = [e \in Embeddings |-> None] /\ \A e \in Embeddings : entries[e][1].alive = FALSE
    BY <1>1
<1>7. 1 \in DOMAIN versions /\ \A e \in Embeddings : 1 \in DOMAIN entries[e]
    BY <1>1
<1>8. ASSUME NEW T \in 2..clock PROVE T = 2
    BY <1>1
<1>9. ASSUME NEW e \in Embeddings, NEW i, NEW j, Top(versions, 2, i), Top(entries[e], 2, j)
      PROVE  entries[e][j].alive <=> versions[i].cols[e] # None
  <2>1. i = 1 /\ j = 1
      BY <1>4, <1>5, <1>9
  <2> QED BY <1>6, <2>1
<1>10. (\E i \in DOMAIN versions : Top(versions, 2, i))
       /\ \A e \in Embeddings : \E j \in DOMAIN entries[e] : Top(entries[e], 2, j)
    BY <1>4, <1>5, <1>7
<1>11. HistoryInv
    BY <1>8, <1>9, <1>10 DEF HistoryInv
<1> QED BY <1>2, <1>11

\* What the newest committed versions are once a transaction commits.
LEMMA CommitAgrees ==
    ASSUME IInv, NEW t \in Txns, pc[t] = "staged", committed_at' = [committed_at EXCEPT ![t] = clock],
           UNCHANGED <<versions, entries>>, NEW T, T = clock + 1,
           NEW e \in Embeddings, NEW i, NEW j, Top(versions, T, i)', Top(entries[e], T, j)'
    PROVE  entries[e][j].alive <=> versions[i].cols[e] # None
<1>1. TypeOK /\ ClockInv /\ ~Committed(t) /\ clock \in 2..clock
  <2>1. TypeOK /\ ClockInv
      BY DEF IInv
  <2>2. ~Committed(t)
      BY <2>1 DEF ClockInv
  <2>3. clock \in Nat /\ clock >= 2
      BY <2>1 DEF TypeOK, ClockInv
  <2> QED BY <2>1, <2>2, <2>3
<1>2. /\ versions \in Seq(Versions) /\ versions # <<>> /\ ChainInv(versions)
      /\ \A k \in DOMAIN versions : versions[k] \in Versions /\ versions[k].by \in Writers
      /\ entries[e] \in Seq(Entry) /\ entries[e] # <<>> /\ ChainInv(entries[e])
      /\ \A k \in DOMAIN entries[e] : entries[e][k].by \in Writers
    BY <1>1, Authors DEF IInv, TypeOK, CatalogInv
<1>4. /\ Last(versions).by # t => Top(versions, clock, i)
      /\ Last(versions).by = t => i = Len(versions)
      /\ (Last(versions).by = t /\ Len(versions) >= 2) => Top(versions, clock, Len(versions) - 1)
  <2>1. ASSUME NEW c \in Seq(Versions), c = versions
        PROVE  /\ Last(c).by # t => \A k : Top(c, T, k)' <=> Top(c, clock, k)
               /\ Last(c).by = t => \A k : Top(c, T, k)' <=> k = Len(c)
               /\ (Last(c).by = t /\ Len(c) >= 2) => Top(c, clock, Len(c) - 1)
    <3>1. c # <<>> /\ ChainInv(c) /\ \A k \in DOMAIN c : c[k].by \in Writers
        BY <1>2, <2>1
    <3> QED BY <1>1, <3>1, TopCommitted
  <2>2. \A c : c = versions => (Top(c, T, i)' <=> Top(versions, T, i)')
      BY DEF Top, Before, Committed
  <2> QED BY <1>2, <2>1, <2>2
<1>5. /\ Last(entries[e]).by # t => Top(entries[e], clock, j)
      /\ Last(entries[e]).by = t => j = Len(entries[e])
  <2>1. ASSUME NEW c \in Seq(Entry), c = entries[e]
        PROVE  /\ Last(c).by # t => \A k : Top(c, T, k)' <=> Top(c, clock, k)
               /\ Last(c).by = t => \A k : Top(c, T, k)' <=> k = Len(c)
    <3>1. c # <<>> /\ ChainInv(c) /\ \A k \in DOMAIN c : c[k].by \in Writers
        BY <1>2, <2>1
    <3> QED BY <1>1, <3>1, TopCommitted
  <2>2. \A c : c = entries[e] => (Top(c, T, j)' <=> Top(entries[e], T, j)')
      BY DEF Top, Before, Committed
  <2> QED BY <1>2, <2>1, <2>2
<1>6. \A k, l : Top(versions, clock, k) /\ Top(entries[e], clock, l) => (entries[e][l].alive <=> versions[k].cols[e] # None)
    BY <1>1 DEF IInv, CatalogInv, HistoryInv, Top
<1>7. Last(versions).by = t =>
         /\ op[t].kind \in {"create", "drop", "alter"} /\ Len(versions) >= 2
         /\ Last(versions).cols = Altered(t, versions[Len(versions) - 1]).cols
    BY <1>1 DEF IInv, CatalogInv, TxnInv, VersionInv
<1>8. Last(entries[e]).by = t =>
         /\ op[t].on = e
         /\ \/ op[t].kind = "create" /\ Last(entries[e]).alive
            \/ op[t].kind = "drop" /\ ~Last(entries[e]).alive
    BY <1>1 DEF IInv, CatalogInv, TxnInv, EntryInv
<1>9. op[t].kind \in {"create", "drop"} => (Last(versions).by = t <=> Last(entries[op[t].on]).by = t)
    BY DEF IInv, CatalogInv, TxnInv, BothInv
<1>10. CASE Last(versions).by # t
  <2>1. Last(entries[e]).by # t
      BY <1>8, <1>9, <1>10
  <2> QED BY <1>4, <1>5, <1>6, <1>10, <2>1
<1>11. CASE Last(versions).by = t
  <2> DEFINE v == versions[Len(versions) - 1]
  <2>1. v \in Versions /\ DOMAIN v.cols = Embeddings
      BY <1>2, <1>7, <1>11 DEF Versions
  <2>2. /\ i = Len(versions) /\ Top(versions, clock, Len(versions) - 1)
        /\ versions[i].cols = Altered(t, v).cols
      BY <1>4, <1>7, <1>11 DEF Last
  <2> HIDE DEF v
  <2>3. CASE Last(entries[e]).by = t
    <3>1. op[t].on = e /\ entries[e][j] = Last(entries[e])
        BY <1>5, <1>8, <2>3 DEF Last
    <3>2. CASE op[t].kind = "create"
      <4>1. versions[i].cols[e] = t
          BY <2>1, <2>2, <3>1, <3>2 DEF Altered
      <4> QED BY <1>8, <2>3, <3>1, <3>2, <4>1, TxnsAssumption
    <3>3. CASE op[t].kind = "drop"
      <4>1. versions[i].cols[e] = None
          BY <2>1, <2>2, <3>1, <3>3 DEF Altered
      <4> QED BY <1>8, <2>3, <3>1, <3>3, <4>1
    <3> QED BY <1>8, <2>3, <3>2, <3>3
  <2>4. CASE Last(entries[e]).by # t
    <3>1. op[t].kind = "alter" \/ op[t].on # e
        BY <1>7, <1>9, <1>11, <2>4
    <3>2. versions[i].cols[e] = v.cols[e]
        BY <1>7, <1>11, <2>1, <2>2, <3>1 DEF Altered
    <3> QED BY <1>5, <1>6, <2>2, <2>4, <3>2 DEF v
  <2> QED BY <2>3, <2>4
<1> QED BY <1>10, <1>11

LEMMA HistoryAfterCommit ==
    ASSUME IInv, NEW t \in Txns, pc[t] = "staged", committed_at' = [committed_at EXCEPT ![t] = clock],
           clock' = clock + 1, UNCHANGED <<versions, entries>>
    PROVE  ChainsInv' /\ HistoryInv'
<1>1. TypeOK /\ ClockInv /\ ~Committed(t) /\ clock \in Nat /\ clock >= 2
  <2>1. TypeOK /\ ClockInv
      BY DEF IInv
  <2> QED BY <2>1 DEF TypeOK, ClockInv
<1>2. /\ ChainInv(versions)'
      /\ \A T \in 2..clock : \A i : Top(versions, T, i)' <=> Top(versions, T, i)
      /\ \A T : T = clock + 1 => \E i : Top(versions, T, i)'
  <2>1. ASSUME NEW c \in Seq(Versions), c = versions
        PROVE  /\ ChainInv(c)'
               /\ \A T \in 2..clock : \A i : Top(c, T, i)' <=> Top(c, T, i)
               /\ \A T : T = clock + 1 =>
                     /\ Last(c).by # t => \A i : Top(c, T, i)' <=> Top(c, clock, i)
                     /\ Last(c).by = t => \A i : Top(c, T, i)' <=> i = Len(c)
    <3>1. c # <<>> /\ ChainInv(c) /\ \A k \in DOMAIN c : c[k].by \in Writers
        BY <1>1, <2>1, Authors DEF IInv, TypeOK, CatalogInv
    <3> QED BY <1>1, <3>1, TopCommitted
  <2>2. \E i : Top(versions, clock, i)
      BY <1>1 DEF IInv, CatalogInv, HistoryInv
  <2>3. \A c : c = versions => /\ ChainInv(c)' <=> ChainInv(versions)'
                               /\ \A T, i : Top(c, T, i)' <=> Top(versions, T, i)'
      BY DEF ChainInv, Top, Before, Committed
  <2> QED BY <1>1, <2>1, <2>2, <2>3, Authors
<1>3. ASSUME NEW e \in Embeddings
      PROVE  /\ ChainInv(entries[e])'
             /\ \A T \in 2..clock : \A i : Top(entries[e], T, i)' <=> Top(entries[e], T, i)
             /\ \A T : T = clock + 1 => \E i : Top(entries[e], T, i)'
  <2>1. ASSUME NEW c \in Seq(Entry), c = entries[e]
        PROVE  /\ ChainInv(c)'
               /\ \A T \in 2..clock : \A i : Top(c, T, i)' <=> Top(c, T, i)
               /\ \A T : T = clock + 1 =>
                     /\ Last(c).by # t => \A i : Top(c, T, i)' <=> Top(c, clock, i)
                     /\ Last(c).by = t => \A i : Top(c, T, i)' <=> i = Len(c)
    <3>1. c # <<>> /\ ChainInv(c) /\ \A k \in DOMAIN c : c[k].by \in Writers
        BY <1>1, <2>1, Authors DEF IInv, TypeOK, CatalogInv
    <3> QED BY <1>1, <3>1, TopCommitted
  <2>2. \E i : Top(entries[e], clock, i)
      BY <1>1 DEF IInv, CatalogInv, HistoryInv
  <2>3. \A c : c = entries[e] => /\ ChainInv(c)' <=> ChainInv(entries[e])'
                                 /\ \A T, i : Top(c, T, i)' <=> Top(entries[e], T, i)'
      BY DEF ChainInv, Top, Before, Committed
  <2> QED BY <1>1, <2>1, <2>2, <2>3, Authors
<1>4. ChainsInv'
    BY <1>2, <1>3 DEF ChainsInv
<1>5. ASSUME NEW T \in 2..(clock + 1)
      PROVE  /\ \E i : Top(versions, T, i)'
             /\ \A e \in Embeddings :
                   /\ \E j : Top(entries[e], T, j)'
                   /\ \A i, j : (Top(versions, T, i)' /\ Top(entries[e], T, j)')
                                => (entries[e][j].alive <=> versions[i].cols[e] # None)
  <2>1. CASE T \in 2..clock
      BY <1>2, <1>3, <2>1 DEF IInv, CatalogInv, HistoryInv, Top
  <2>2. CASE T = clock + 1
    <3>1. \A e \in Embeddings : \A i, j : (Top(versions, T, i)' /\ Top(entries[e], T, j)')
                                => (entries[e][j].alive <=> versions[i].cols[e] # None)
        BY <2>2, CommitAgrees
    <3> QED BY <1>2, <1>3, <2>2, <3>1
  <2> QED BY <1>1, <2>1, <2>2
<1>6. \A T, i : (Top(versions, T, i)' => i \in DOMAIN versions')
                /\ \A e \in Embeddings : Top(entries[e], T, i)' => i \in DOMAIN entries'[e]
    BY DEF Top
<1>7. HistoryInv'
    BY <1>5, <1>6 DEF HistoryInv
<1> QED BY <1>4, <1>7

LEMMA HistoryStep == IInv /\ [Next]_vars => (ChainsInv /\ HistoryInv)'
<1> SUFFICES ASSUME IInv, [Next]_vars PROVE ChainsInv' /\ HistoryInv'
    OBVIOUS
<1>1. TypeOK /\ ClockInv /\ ChainsInv /\ HistoryInv /\ clock \in Nat /\ clock >= 2
    BY DEF IInv, CatalogInv, ChainsInv, TypeOK, ClockInv
<1>2. CASE UNCHANGED vars
  <2>1. UNCHANGED <<clock, committed_at, versions, entries>>
      BY <1>2 DEF vars
  <2>2. ChainsInv'
      BY <1>1, <2>1 DEF ChainsInv, ChainInv, Committed
  <2>3. /\ \A T, i : Top(versions, T, i)' <=> Top(versions, T, i)
        /\ \A e \in Embeddings : \A T, i : Top(entries[e], T, i)' <=> Top(entries[e], T, i)
      BY <2>1 DEF Top, Before, Committed
  <2>4. ASSUME NEW T \in 2..clock
        PROVE  /\ \E i \in DOMAIN versions : Top(versions, T, i)'
               /\ \A e \in Embeddings :
                     /\ \E j \in DOMAIN entries[e] : Top(entries[e], T, j)'
                     /\ \A i \in DOMAIN versions, j \in DOMAIN entries[e] :
                           (Top(versions, T, i)' /\ Top(entries[e], T, j)')
                           => (entries[e][j].alive <=> versions[i].cols[e] # None)
    <3>1. /\ \E i \in DOMAIN versions : Top(versions, T, i)
          /\ \A e \in Embeddings :
                /\ \E j \in DOMAIN entries[e] : Top(entries[e], T, j)
                /\ \A i \in DOMAIN versions, j \in DOMAIN entries[e] :
                      (Top(versions, T, i) /\ Top(entries[e], T, j))
                      => (entries[e][j].alive <=> versions[i].cols[e] # None)
        BY <1>1 DEF HistoryInv
    <3> QED BY <2>3, <3>1
  <2>5. HistoryInv'
      BY <2>1, <2>4 DEF HistoryInv
  <2> QED BY <2>2, <2>5
<1>3. ASSUME UNCHANGED <<committed_at, versions, entries>>, clock' = clock + 1
      PROVE  ChainsInv' /\ HistoryInv'
  <2>1. ChainsInv'
      BY <1>1, <1>3 DEF ChainsInv, ChainInv, Committed
  <2>2. /\ \A T, i : Top(versions, T, i)' <=> Top(versions, T, i)
        /\ \A e \in Embeddings : \A T, i : Top(entries[e], T, i)' <=> Top(entries[e], T, i)
      BY <1>3 DEF Top, Before, Committed
  <2>3. ASSUME NEW T \in 2..(clock + 1)
        PROVE  \E R \in 2..clock : /\ \A i : Top(versions, T, i)' <=> Top(versions, R, i)
                                   /\ \A e \in Embeddings : \A i : Top(entries[e], T, i)' <=> Top(entries[e], R, i)
    <3>1. CASE T = clock + 1
      <4>1. \A i : Top(versions, T, i) <=> Top(versions, clock, i)
          BY <1>1, <3>1, Authors, TopNow
      <4>2. \A e \in Embeddings : \A i : Top(entries[e], T, i) <=> Top(entries[e], clock, i)
          BY <1>1, <3>1, Authors, TopNow
      <4> QED BY <1>1, <2>2, <4>1, <4>2
    <3>2. CASE T # clock + 1
        BY <1>1, <2>2, <3>2
    <3> QED BY <3>1, <3>2
  <2>4. ASSUME NEW T \in 2..(clock + 1)
        PROVE  /\ \E i \in DOMAIN versions : Top(versions, T, i)'
               /\ \A e \in Embeddings :
                     /\ \E j \in DOMAIN entries[e] : Top(entries[e], T, j)'
                     /\ \A i \in DOMAIN versions, j \in DOMAIN entries[e] :
                           (Top(versions, T, i)' /\ Top(entries[e], T, j)')
                           => (entries[e][j].alive <=> versions[i].cols[e] # None)
    <3>1. PICK R \in 2..clock : /\ \A i : Top(versions, T, i)' <=> Top(versions, R, i)
                                /\ \A e \in Embeddings : \A i : Top(entries[e], T, i)' <=> Top(entries[e], R, i)
        BY <2>3
    <3>2. /\ \E i \in DOMAIN versions : Top(versions, R, i)
          /\ \A e \in Embeddings :
                /\ \E j \in DOMAIN entries[e] : Top(entries[e], R, j)
                /\ \A i \in DOMAIN versions, j \in DOMAIN entries[e] :
                      (Top(versions, R, i) /\ Top(entries[e], R, j))
                      => (entries[e][j].alive <=> versions[i].cols[e] # None)
        BY <1>1 DEF HistoryInv
    <3> QED BY <3>1, <3>2
  <2>5. HistoryInv'
      BY <1>3, <2>4 DEF HistoryInv
  <2> QED BY <2>1, <2>5
<1>4. ASSUME NEW t \in Txns, Begin(t) \/ GiveUp(t) \/ Step(t) PROVE ChainsInv' /\ HistoryInv'
  <2>1. CASE Begin(t)
      BY <1>3, <2>1 DEF Begin, catalogVars
  <2>2. CASE Runs(t) /\ (GiveUp(t) \/ Step(t))
    <3>1. /\ ChainInv(versions)' /\ \A e \in Embeddings : ChainInv(entries[e])'
          /\ \A T, i : Top(versions, T, i)' <=> Top(versions, T, i)
          /\ \A T, i : Top(versions, T, i) => versions'[i] = versions[i]
          /\ \A e \in Embeddings : /\ \A T, i : Top(entries[e], T, i)' <=> Top(entries[e], T, i)
                                   /\ \A T, i : Top(entries[e], T, i) => entries'[e][i] = entries[e][i]
        BY <2>2, TopRuns
    <3>2. clock' = clock
        BY <2>2 DEF Runs
    <3>3. ChainsInv'
        BY <3>1 DEF ChainsInv
    <3>4. ASSUME NEW T \in 2..clock PROVE \E i \in DOMAIN versions' : Top(versions, T, i)'
      <4>1. \E i \in DOMAIN versions : Top(versions, T, i)
          BY <1>1 DEF HistoryInv
      <4> QED BY <3>1, <4>1 DEF Top
    <3>5. ASSUME NEW T \in 2..clock, NEW e \in Embeddings
          PROVE  /\ \E j \in DOMAIN entries'[e] : Top(entries[e], T, j)'
                 /\ \A i \in DOMAIN versions', j \in DOMAIN entries'[e] :
                       (Top(versions, T, i)' /\ Top(entries[e], T, j)')
                       => (entries'[e][j].alive <=> versions'[i].cols[e] # None)
      <4>1. \E j \in DOMAIN entries[e] : Top(entries[e], T, j)
          BY <1>1 DEF HistoryInv
      <4>2. \E j \in DOMAIN entries'[e] : Top(entries[e], T, j)'
          BY <3>1, <4>1 DEF Top
      <4>3. ASSUME NEW i, NEW j, Top(versions, T, i)', Top(entries[e], T, j)'
            PROVE  entries'[e][j].alive <=> versions'[i].cols[e] # None
        <5>1. Top(versions, T, i) /\ Top(entries[e], T, j)
            BY <3>1, <4>3
        <5>2. i \in DOMAIN versions /\ j \in DOMAIN entries[e]
            BY <5>1 DEF Top
        <5>3. entries[e][j].alive <=> versions[i].cols[e] # None
            BY <1>1, <5>1, <5>2 DEF HistoryInv
        <5> QED BY <3>1, <5>1, <5>3
      <4> QED BY <4>2, <4>3
    <3>6. HistoryInv'
        BY <3>2, <3>4, <3>5 DEF HistoryInv
    <3> QED BY <3>3, <3>6
  <2>3. CASE CommitEntries(t)
    <3>1. /\ pc[t] = "staged" /\ clock' = clock + 1 /\ UNCHANGED <<versions, entries>>
          /\ committed_at' = committed_at \/ committed_at' = [committed_at EXCEPT ![t] = clock]
        BY <2>3 DEF CommitEntries, catalogVars
    <3>2. CASE committed_at' = committed_at
        BY <1>3, <3>1, <3>2
    <3>3. CASE committed_at' = [committed_at EXCEPT ![t] = clock]
        BY <1>1, <3>1, <3>3, HistoryAfterCommit
    <3> QED BY <3>1, <3>2, <3>3
  <2> QED BY <1>4, <2>1, <2>2, <2>3, StepRuns
<1> QED BY <1>2, <1>4 DEF Next
-----------------------------------------------------------------------------
(* What each transaction has changed. *)

LEMMA TxnInit == Init => \A t \in Txns : TxnInv(t)
<1> SUFFICES ASSUME Init, NEW t \in Txns PROVE TxnInv(t)
    OBVIOUS
<1>1. pc[t] = "idle" /\ t # Loader
    BY TxnsAssumption DEF Init
<1>2. Last(versions).by = Loader
    BY DEF Init, Last
<1>3. ASSUME NEW e \in Embeddings PROVE Last(entries[e]).by = Loader
  <2>1. entries[e] = <<[by |-> Loader, alive |-> FALSE]>>
      BY DEF Init
  <2> QED BY <2>1 DEF Last
<1> QED BY <1>1, <1>2, <1>3 DEF TxnInv, StatementInv, VersionInv, BothInv, EntryInv

\* Nobody touches an uncommitted version of someone else.
LEMMA OthersLast ==
    ASSUME NEW S, NEW chain \in Seq(S), chain # <<>>, NEW next, NEW t, ChainInv(chain),
           next = chain \/ Grows(chain, next, t, S) \/ Shrinks(chain, next, t),
           NEW u, u # t, ~Committed(u)
    PROVE  /\ Last(next).by = u <=> Last(chain).by = u
           /\ Last(chain).by = u => next = chain
<1>1. CASE Grows(chain, next, t, S)
  <2>1. PICK v \in S : v.by = t /\ next = Append(chain, v) /\ Committed(Last(chain).by)
      BY <1>1 DEF Grows
  <2>2. Last(next) = v
      BY <2>1 DEF Last
  <2> QED BY <2>1, <2>2
<1>2. CASE Shrinks(chain, next, t)
  <2>1. Len(chain) >= 2 /\ Last(chain).by = t /\ Last(next) = chain[Len(chain) - 1]
      BY <1>2, FrontIs DEF Shrinks
  <2>2. Committed(chain[Len(chain) - 1].by)
      BY <2>1 DEF ChainInv
  <2> QED BY <2>1, <2>2
<1> QED BY <1>1, <1>2

\* What the step of another transaction leaves as it is for u.
Undisturbed(u) ==
    /\ pc'[u] = pc[u] /\ op'[u] = op[u] /\ start'[u] = start[u] /\ (Committed(u)' <=> Committed(u))
    /\ ~Committed(u) =>
          /\ Last(versions').by = u <=> Last(versions).by = u
          /\ Last(versions).by = u => versions' = versions
          /\ \A e \in Embeddings : /\ Last(entries'[e]).by = u <=> Last(entries[e]).by = u
                                   /\ Last(entries[e]).by = u => entries'[e] = entries[e]
    /\ pc[u] # "idle" =>
          /\ \A i : Top(versions, start[u], i)' <=> Top(versions, start[u], i)
          /\ \A i : Top(versions, start[u], i) => versions'[i] = versions[i]
          /\ \A e \in Embeddings :
                /\ \A i : Top(entries[e], start[u], i)' <=> Top(entries[e], start[u], i)
                /\ \A i : Top(entries[e], start[u], i) => entries'[e][i] = entries[e][i]

LEMMA TxnKept ==
    ASSUME IInv, NEW u \in Txns, Undisturbed(u)
    PROVE  TxnInv(u)'
<1> USE DEF Undisturbed
<1>1. TypeOK /\ ClockInv /\ TxnInv(u)
    BY DEF IInv, CatalogInv
<1>2. CASE Committed(u)
  <2>1. pc'[u] = "committed" /\ Committed(u)'
      BY <1>1, <1>2 DEF ClockInv
  <2> QED BY <2>1 DEF TxnInv, StatementInv, VersionInv, BothInv, EntryInv
<1>3. CASE ~Committed(u)
  <2>1. pc[u] # "idle" => (HadColumn(u)' <=> HadColumn(u)) /\ (LackedColumn(u)' <=> LackedColumn(u))
    <3>1. \A i : Top(versions, start[u], i) => i \in DOMAIN versions
        BY DEF Top
    <3>2. \A i : Top(versions, start[u], i)' => i \in DOMAIN versions'
        BY DEF Top
    <3> QED BY <3>1, <3>2 DEF HadColumn, LackedColumn
  <2>2. StatementInv(u)'
      BY <1>1, <1>3, <2>1 DEF TxnInv, StatementInv, Last
  <2>3. VersionInv(u)'
    <3>1. CASE Last(versions).by # u
        BY <1>3, <3>1 DEF VersionInv, Last
    <3>2. CASE Last(versions).by = u
      <4>1. /\ pc[u] \in {"creating", "dropping", "ready", "staged", "failed"}
            /\ op[u].kind \in {"create", "drop", "alter"}
            /\ Len(versions) >= 2 /\ Top(versions, start[u], Len(versions) - 1)
            /\ Last(versions).cols = Altered(u, versions[Len(versions) - 1]).cols
          BY <1>1, <1>3, <3>2 DEF TxnInv, VersionInv
      <4>2. versions' = versions
          BY <1>3, <3>2
      <4>3. Top(versions, start[u], Len(versions) - 1)'
          BY <4>1, <4>2
      <4>4. (Altered(u, versions[Len(versions) - 1]).cols)' = Altered(u, versions[Len(versions) - 1]).cols
          BY <4>2 DEF Altered
      <4> QED BY <4>1, <4>2, <4>3, <4>4 DEF VersionInv, Last
    <3> QED BY <3>1, <3>2
  <2>4. BothInv(u)'
    <3>1. op[u].kind \in {"create", "drop"} => op[u].on \in Embeddings
        BY <1>1, Statements
    <3> QED BY <1>1, <1>3, <3>1 DEF TxnInv, BothInv, Last
  <2>5. ASSUME NEW e \in Embeddings PROVE EntryInv(u, e)'
      BY <1>1, <1>3 DEF TxnInv, EntryInv, Last
  <2> QED BY <2>2, <2>3, <2>4, <2>5 DEF TxnInv
<1> QED BY <1>2, <1>3

\* A transaction that has not come to its catalog changes has none.
LEMMA Unpublished ==
    ASSUME IInv, NEW t \in Txns, pc[t] \notin {"committed", "creating", "dropping", "ready", "staged", "failed"}
    PROVE  Last(versions).by # t /\ \A e \in Embeddings : Last(entries[e]).by # t
BY DEF IInv, ClockInv, CatalogInv, TxnInv, VersionInv, EntryInv

LEMMA NothingPublished ==
    ASSUME NEW t \in Txns, Last(versions').by # t, \A e \in Embeddings : Last(entries'[e]).by # t,
           op'[t].kind \in {"create", "drop"} => op'[t].on \in Embeddings
    PROVE  VersionInv(t)' /\ BothInv(t)' /\ \A e \in Embeddings : EntryInv(t, e)'
BY DEF VersionInv, BothInv, EntryInv, Last

\* The statement's own steps: the catalog changes that it makes are those it must make.
LEMMA ActorStep ==
    ASSUME IInv, NEW t \in Txns, GiveUp(t) \/ Step(t), Runs(t)
    PROVE  TxnInv(t)'
<1>1. /\ TypeOK /\ ClockInv /\ TxnInv(t) /\ ~Committed(t) /\ ~Committed(t)'
      /\ pc[t] \notin {"idle", "committed"} /\ op' = op /\ start' = start /\ committed_at' = committed_at
      /\ pc \in [Txns -> Labels] /\ t \in Writers
    BY DEF IInv, CatalogInv, ClockInv, TypeOK, Runs, Committed, Writers
<1>2. op[t].kind \in {"create", "drop"} => op[t].on \in Embeddings
    BY <1>1, Statements
<1>3. /\ \A T, i : Top(versions, T, i)' <=> Top(versions, T, i)
      /\ \A T, i : Top(versions, T, i) => versions'[i] = versions[i]
    BY TopRuns
<1>4. HadColumn(t)' <=> HadColumn(t)
  <2>1. \A i : Top(versions, start[t], i)' <=> Top(versions, start[t], i)
      BY <1>1, <1>3
  <2>2. \A i : (Top(versions, start[t], i) => i \in DOMAIN versions) /\ (Top(versions, start[t], i)' => i \in DOMAIN versions')
      BY DEF Top
  <2> QED BY <1>1, <1>3, <2>1, <2>2 DEF HadColumn
<1>5. LackedColumn(t)' <=> LackedColumn(t)
  <2>1. \A i : Top(versions, start[t], i)' <=> Top(versions, start[t], i)
      BY <1>1, <1>3
  <2>2. \A i : (Top(versions, start[t], i) => i \in DOMAIN versions) /\ (Top(versions, start[t], i)' => i \in DOMAIN versions')
      BY DEF Top
  <2> QED BY <1>1, <1>3, <2>1, <2>2 DEF LackedColumn
<1>6. \E i \in DOMAIN versions : Top(versions, start[t], i)
    BY <1>1, TableIs
<1>7. ~(HadColumn(t) /\ LackedColumn(t))
    BY <1>6 DEF HadColumn, LackedColumn
<1>8. ASSUME NEW e \in Embeddings
      PROVE  /\ entries[e] \in Seq(Entry) /\ Len(entries[e]) \in Nat /\ Len(entries[e]) >= 1
             /\ Last(entries[e]) = entries[e][Len(entries[e])] /\ Last(entries[e]).by \in Writers
  <2>1. entries[e] \in Seq(Entry) /\ entries[e] # <<>>
      BY <1>1 DEF TypeOK, Entry
  <2>2. /\ Len(entries[e]) \in Nat /\ Len(entries[e]) >= 1
        /\ Last(entries[e]) = entries[e][Len(entries[e])] /\ Last(entries[e]) \in Entry
      BY <2>1, LastType
  <2>3. \A r \in Entry : r.by \in Writers
      BY DEF Entry
  <2> QED BY <2>1, <2>2, <2>3
\* The steps before the catalog is changed.
<1>10. CASE ScanSource(t) \/ Ask(t) \/ AddColumn(t) \/ LookupEntry(t) \/ RemoveColumn(t)
            \/ ShareStorage(t) \/ InsertRows(t) \/ UpdateText(t)
  <2>1. versions' = versions /\ entries' = entries
        /\ pc[t] \notin {"committed", "creating", "dropping", "ready", "staged", "failed"}
      BY <1>10 DEF ScanSource, Ask, AddColumn, LookupEntry, RemoveColumn, ShareStorage, InsertRows, UpdateText, catalogVars
  <2>2. Last(versions).by # t /\ \A e \in Embeddings : Last(entries[e]).by # t
      BY <2>1, Unpublished
  <2>3. VersionInv(t)' /\ BothInv(t)' /\ \A e \in Embeddings : EntryInv(t, e)'
      BY <1>1, <1>2, <2>1, <2>2, NothingPublished
  <2>4. \A i : Top(versions, start[t], i) => i \in DOMAIN versions /\ Table(t) = versions[i]
      BY <1>1, <2>2, TableIs DEF Top
  <2>5. CASE ScanSource(t) \/ Ask(t) \/ ShareStorage(t) \/ InsertRows(t) \/ UpdateText(t)
    <3>1. \/ pc'[t] \in {"asking", "adding"} /\ op[t].kind = "create"
          \/ pc'[t] = "installing" /\ op[t].kind = "alter"
          \/ pc'[t] \in {"ready", "aborted"}
        BY <1>1, <2>5 DEF ScanSource, Ask, ShareStorage, InsertRows, UpdateText, Goto, TxnInv, StatementInv
    <3> QED BY <1>1, <2>3, <3>1 DEF TxnInv, StatementInv
  <2>6. CASE AddColumn(t)
    <3>1. op[t].kind = "create"
        BY <1>1, <2>6 DEF AddColumn, TxnInv, StatementInv
    <3>2. \/ pc'[t] = "creating" /\ HadColumn(t)
          \/ pc'[t] = "installing" /\ LackedColumn(t)
        BY <1>1, <2>4, <2>6 DEF AddColumn, Goto, HadColumn, LackedColumn
    <3> QED BY <1>1, <1>4, <1>5, <2>1, <2>2, <2>3, <3>1, <3>2 DEF TxnInv, StatementInv
  <2>7. CASE LookupEntry(t)
    <3>1. op[t].kind = "drop" /\ op[t].on \in Embeddings
        BY <1>2, <2>7 DEF LookupEntry
    <3>2. Seen(t, entries[op[t].on]).alive => HadColumn(t)
        BY <1>1, <2>2, <3>1, EntryIs DEF HadColumn
    <3>3. \/ pc'[t] = "removing" /\ HadColumn(t)
          \/ pc'[t] \in {"ready", "aborted"}
        BY <1>1, <2>7, <3>2 DEF LookupEntry, Goto
    <3> QED BY <1>1, <1>4, <2>3, <3>1, <3>3 DEF TxnInv, StatementInv
  <2>8. CASE RemoveColumn(t)
    <3>1. op[t].kind = "drop" /\ HadColumn(t)
        BY <1>1, <2>8 DEF RemoveColumn, TxnInv, StatementInv
    <3>2. Table(t).cols[op[t].on] # None
        BY <1>6, <2>4, <3>1 DEF HadColumn
    <3>3. pc'[t] = "installing"
        BY <1>1, <2>8, <3>2 DEF RemoveColumn, Goto
    <3> QED BY <1>1, <1>4, <2>3, <3>1, <3>3 DEF TxnInv, StatementInv
  <2> QED BY <1>10, <2>5, <2>6, <2>7, <2>8
<1>11. CASE InstallVersion(t)
  <2>1. /\ pc[t] = "installing" /\ entries' = entries
        /\ \/ op[t].kind = "create" /\ LackedColumn(t)
           \/ op[t].kind = "drop" /\ HadColumn(t)
           \/ op[t].kind = "alter"
      BY <1>1, <1>11 DEF InstallVersion, TxnInv, StatementInv
  <2>2. Last(versions).by # t /\ \A e \in Embeddings : Last(entries[e]).by # t
      BY <2>1, Unpublished
  <2>3. CASE pc'[t] = "aborted" /\ versions' = versions
    <3>1. VersionInv(t)' /\ BothInv(t)' /\ \A e \in Embeddings : EntryInv(t, e)'
        BY <1>1, <1>2, <2>1, <2>2, <2>3, NothingPublished
    <3> QED BY <2>3, <3>1 DEF TxnInv, StatementInv
  <2>4. CASE /\ ~Conflict(t, Last(versions).by) /\ pc'[t] = Continue(t)
             /\ versions' = Append(versions, Altered(t, Table(t)))
    <3> DEFINE n == Len(versions)
    <3>1. versions \in Seq(Versions) /\ n \in Nat /\ n >= 1 /\ Last(versions) = versions[n]
          /\ Last(versions).by \in Writers
      <4>1. versions \in Seq(Versions) /\ versions # <<>>
          BY <1>1 DEF TypeOK
      <4>2. Len(versions) \in Nat /\ Len(versions) >= 1 /\ Last(versions) = versions[Len(versions)]
            /\ Last(versions) \in Versions
          BY <4>1, LastType
      <4>3. \A v \in Versions : v.by \in Writers
          BY DEF Versions
      <4> QED BY <4>1, <4>2, <4>3
    <3>2. Top(versions, start[t], n)
      <4>1. committed_at[Last(versions).by] # start[t] /\ committed_at[Last(versions).by] \in Nat /\ start[t] \in Nat
          BY <1>1, <3>1 DEF ClockInv, TypeOK
      <4> QED BY <2>2, <2>4, <3>1, <4>1, LastOnTop
    <3>3. Table(t) = versions[n]
        BY <1>1, <2>2, <3>1, <3>2, TableIs
    <3>4. Altered(t, Table(t)).by = t /\ Altered(t, Table(t)) \in Versions
        BY <1>1, TableIs, AlteredType
    <3>5. /\ Len(versions') = n + 1 /\ Last(versions') = Altered(t, versions[n]) /\ versions'[n] = versions[n]
          /\ Last(versions').by = t
        BY <2>4, <3>1, <3>3, <3>4 DEF Last
    <3>6. Top(versions, start[t], Len(versions) - 1)'
      <4>1. \A i : Top(versions, start[t], i)' <=> Top(versions, start[t], i)
          BY <1>1, <1>3
      <4>2. ASSUME NEW m, m = n PROVE Top(versions, start[t], m)'
          BY <3>2, <4>1, <4>2
      <4>3. PICK m : m = n
          OBVIOUS
      <4>4. Len(versions') - 1 = m
          BY <3>1, <3>5, <4>3
      <4> QED BY <4>2, <4>3, <4>4
    <3>7. pc'[t] \in {"creating", "dropping", "ready"} /\ op[t].kind \in {"create", "drop", "alter"}
        BY <2>1, <2>4 DEF Continue
    <3>8. VersionInv(t)'
      <4>1. Len(versions') >= 2 /\ Len(versions') - 1 = n
          BY <3>1, <3>5
      <4>2. versions'[Len(versions') - 1] = versions[n]
          BY <3>5, <4>1
      <4>3. Last(versions').cols = (Altered(t, versions[Len(versions) - 1]).cols)'
          BY <1>1, <3>5, <4>2 DEF Altered
      <4>4. Last(versions)' = Last(versions')
          BY DEF Last
      <4> QED BY <1>1, <3>6, <3>7, <4>1, <4>3, <4>4 DEF VersionInv
    <3>9. \A e \in Embeddings : EntryInv(t, e)'
        BY <2>1, <2>2 DEF EntryInv, Last
    <3>10. StatementInv(t)'
        BY <1>1, <1>4, <1>5, <2>1, <2>4, <3>5 DEF StatementInv, Continue, Last
    <3>11. BothInv(t)'
        BY <1>1, <2>1, <2>4 DEF BothInv, Continue
    <3> QED BY <3>8, <3>9, <3>10, <3>11 DEF TxnInv
  <2> QED BY <1>1, <1>11, <2>3, <2>4 DEF InstallVersion, Goto
<1>12. CASE CreateEntry(t)
  <2> DEFINE e == op[t].on
  <2>1. /\ pc[t] = "creating" /\ versions' = versions /\ op[t].kind = "create" /\ e \in Embeddings
      BY <1>1, <1>2, <1>12 DEF CreateEntry, TxnInv, StatementInv
  <2>2. \A f \in Embeddings : Last(entries[f]).by # t
      BY <1>1, <2>1 DEF TxnInv, EntryInv
  <2>3. \A i, j : Top(versions, start[t], i) /\ Top(entries[e], start[t], j)
                  => /\ Seen(t, entries[e]) = entries[e][j]
                     /\ entries[e][j].alive <=> versions[i].cols[e] # None
    <3>1. \A i, j : Top(versions, start[t], i) /\ Top(entries[e], start[t], j) => i \in DOMAIN versions /\ j \in DOMAIN entries[e]
        BY DEF Top
    <3> QED BY <1>1, <2>1, <2>2, <3>1, EntryIs
  <2>4. \E j : Top(entries[e], start[t], j)
      BY <1>1, <2>1, <2>2, EntryIs
  <2>5. IF Last(versions).by = t THEN LackedColumn(t) ELSE HadColumn(t)
      BY <1>1, <2>1 DEF TxnInv, StatementInv
  <2>6. Last(versions).by = t => VersionInv(t)' \/ pc'[t] \notin {"ready", "failed"}
    <3>1. (Altered(t, versions[Len(versions) - 1]).cols)' = Altered(t, versions[Len(versions) - 1]).cols
        BY <1>1, <2>1 DEF Altered
    <3>2. Top(versions, start[t], Len(versions) - 1) => Top(versions, start[t], Len(versions) - 1)'
        BY <1>1, <1>3, <2>1
    <3> QED BY <1>1, <2>1, <3>1, <3>2 DEF TxnInv, VersionInv, Last
  <2>7. CASE Seen(t, entries[e]).alive /\ pc'[t] = "ready" /\ entries' = entries
    <3>1. Last(versions).by # t
        BY <1>6, <2>3, <2>4, <2>5, <2>7 DEF LackedColumn
    <3>2. VersionInv(t)' /\ BothInv(t)' /\ \A f \in Embeddings : EntryInv(t, f)'
        BY <1>1, <1>2, <2>1, <2>2, <2>7, <3>1, NothingPublished
    <3> QED BY <2>7, <3>2 DEF TxnInv, StatementInv
  <2>8. CASE pc'[t] = "failed" /\ entries' = entries
    <3>1. VersionInv(t)'
        BY <2>1, <2>6, <2>8 DEF VersionInv, Last
    <3>2. BothInv(t)' /\ StatementInv(t)'
        BY <2>8 DEF BothInv, StatementInv
    <3>3. \A f \in Embeddings : EntryInv(t, f)'
        BY <2>2, <2>8 DEF EntryInv, Last
    <3> QED BY <3>1, <3>2, <3>3 DEF TxnInv
  <2>9. CASE /\ ~Conflict(t, Last(entries[e]).by) /\ ~Last(entries[e]).alive /\ pc'[t] = "ready"
             /\ entries' = [entries EXCEPT ![e] = Append(@, [by |-> t, alive |-> TRUE])]
    <3>1. Top(entries[e], start[t], Len(entries[e]))
      <4>1. committed_at[Last(entries[e]).by] # start[t] /\ committed_at[Last(entries[e]).by] \in Nat /\ start[t] \in Nat
          BY <1>1, <1>8, <2>1 DEF ClockInv, TypeOK
      <4> QED BY <1>8, <2>1, <2>2, <2>9, <4>1, LastOnTop
    <3>2. Last(versions).by = t
        BY <1>6, <1>8, <2>1, <2>3, <2>5, <2>9, <3>1 DEF HadColumn
    <3>3. /\ entries'[e] = Append(entries[e], [by |-> t, alive |-> TRUE])
          /\ \A f \in Embeddings : f # e => entries'[f] = entries[f]
        BY <1>1, <2>1, <2>9 DEF TypeOK
    <3>4. Len(entries'[e]) >= 2 /\ Last(entries'[e]).by = t /\ Last(entries'[e]).alive
        BY <1>8, <2>1, <3>3 DEF Last
    <3>5. \A f \in Embeddings : EntryInv(t, f)'
        BY <1>1, <2>1, <2>2, <2>9, <3>3, <3>4 DEF EntryInv, Last
    <3>6. BothInv(t)'
        BY <1>1, <2>1, <3>2, <3>4 DEF BothInv, Last
    <3>7. StatementInv(t)'
        BY <2>9 DEF StatementInv
    <3>8. VersionInv(t)'
        BY <2>6, <2>9, <3>2
    <3> QED BY <3>5, <3>6, <3>7, <3>8 DEF TxnInv
  <2> QED BY <1>1, <1>12, <2>7, <2>8, <2>9 DEF CreateEntry, Goto
<1>13. CASE DropEntry(t)
  <2> DEFINE e == op[t].on
  <2>1. /\ pc[t] = "dropping" /\ versions' = versions /\ op[t].kind = "drop" /\ e \in Embeddings
        /\ Last(versions).by = t
      BY <1>1, <1>2, <1>13 DEF DropEntry, TxnInv, StatementInv
  <2>2. \A f \in Embeddings : Last(entries[f]).by # t
      BY <1>1, <2>1 DEF TxnInv, EntryInv
  <2>3. VersionInv(t)' \/ pc'[t] \notin {"ready", "failed"}
    <3>1. (Altered(t, versions[Len(versions) - 1]).cols)' = Altered(t, versions[Len(versions) - 1]).cols
        BY <1>1, <2>1 DEF Altered
    <3>2. Top(versions, start[t], Len(versions) - 1) => Top(versions, start[t], Len(versions) - 1)'
        BY <1>1, <1>3, <2>1
    <3> QED BY <1>1, <2>1, <3>1, <3>2 DEF TxnInv, VersionInv, Last
  <2>4. CASE pc'[t] = "failed" /\ entries' = entries
    <3>1. BothInv(t)' /\ StatementInv(t)'
        BY <2>4 DEF BothInv, StatementInv
    <3>2. \A f \in Embeddings : EntryInv(t, f)'
        BY <2>2, <2>4 DEF EntryInv, Last
    <3> QED BY <2>3, <2>4, <3>1, <3>2 DEF TxnInv
  <2>5. CASE /\ pc'[t] = "ready"
             /\ entries' = [entries EXCEPT ![e] = Append(@, [by |-> t, alive |-> FALSE])]
    <3>1. /\ entries'[e] = Append(entries[e], [by |-> t, alive |-> FALSE])
          /\ \A f \in Embeddings : f # e => entries'[f] = entries[f]
        BY <1>1, <2>1, <2>5 DEF TypeOK
    <3>2. Len(entries'[e]) >= 2 /\ Last(entries'[e]).by = t /\ ~Last(entries'[e]).alive
        BY <1>8, <2>1, <3>1 DEF Last
    <3>3. \A f \in Embeddings : EntryInv(t, f)'
        BY <1>1, <2>1, <2>2, <2>5, <3>1, <3>2 DEF EntryInv, Last
    <3>4. BothInv(t)'
        BY <1>1, <2>1, <3>2 DEF BothInv, Last
    <3>5. StatementInv(t)'
        BY <2>5 DEF StatementInv
    <3> QED BY <2>3, <2>5, <3>3, <3>4, <3>5 DEF TxnInv
  <2> QED BY <1>1, <1>13, <2>4, <2>5 DEF DropEntry, Goto
<1>14. CASE Stage(t)
  <2>1. pc[t] = "ready" /\ versions' = versions /\ entries' = entries
        /\ (pc'[t] = "staged" \/ (pc'[t] = "aborted" /\ op[t].kind = "insert"))
      BY <1>1, <1>14 DEF Stage, Goto, catalogVars
  <2>2. CASE pc'[t] = "staged"
    <3>1. (Altered(t, versions[Len(versions) - 1]).cols)' = Altered(t, versions[Len(versions) - 1]).cols
        BY <1>1, <2>1 DEF Altered
    <3>2. Top(versions, start[t], Len(versions) - 1) => Top(versions, start[t], Len(versions) - 1)'
        BY <1>1, <1>3, <2>1
    <3>3. VersionInv(t)'
        BY <1>1, <2>1, <2>2, <3>1, <3>2 DEF TxnInv, VersionInv, Last
    <3>4. \A f \in Embeddings : EntryInv(t, f)'
        BY <1>1, <2>1, <2>2 DEF TxnInv, EntryInv, Last
    <3>5. BothInv(t)' /\ StatementInv(t)'
        BY <1>1, <2>1, <2>2 DEF TxnInv, BothInv, StatementInv, Last
    <3> QED BY <3>3, <3>4, <3>5 DEF TxnInv
  <2>3. CASE pc'[t] = "aborted" /\ op[t].kind = "insert"
    <3>1. Last(versions).by # t /\ \A f \in Embeddings : Last(entries[f]).by # t
        BY <1>1, <2>3 DEF TxnInv, VersionInv, EntryInv
    <3>2. VersionInv(t)' /\ BothInv(t)' /\ \A f \in Embeddings : EntryInv(t, f)'
        BY <1>1, <2>1, <2>3, <3>1, NothingPublished
    <3> QED BY <2>3, <3>2 DEF TxnInv, StatementInv
  <2> QED BY <2>1, <2>2, <2>3
<1>15. CASE Undo(t)
  <2>1. pc'[t] = "aborted" /\ versions' = Undone(t, versions) /\ \A f \in Embeddings : entries'[f] = Undone(t, entries[f])
      BY <1>1, <1>15 DEF Undo, Goto
  <2>2. Last(versions').by # t
    <3>1. CASE Last(versions).by = t
      <4>1. Len(versions) >= 2 /\ versions \in Seq(Versions) /\ ChainInv(versions)
          BY <1>1, <3>1 DEF TxnInv, VersionInv, IInv, CatalogInv, TypeOK
      <4>2. Last(versions') = versions[Len(versions) - 1]
          BY <2>1, <3>1, <4>1, FrontIs DEF Undone
      <4>3. Committed(versions[Len(versions) - 1].by)
          BY <4>1 DEF ChainInv
      <4> QED BY <1>1, <4>2, <4>3
    <3>2. CASE Last(versions).by # t
        BY <2>1, <3>2 DEF Undone
    <3> QED BY <3>1, <3>2
  <2>3. ASSUME NEW f \in Embeddings PROVE Last(entries'[f]).by # t
    <3>1. CASE Last(entries[f]).by = t
      <4>1. Len(entries[f]) >= 2 /\ entries[f] \in Seq(Entry) /\ ChainInv(entries[f])
          BY <1>1, <1>8, <3>1 DEF TxnInv, EntryInv, IInv, CatalogInv
      <4>2. Last(entries'[f]) = entries[f][Len(entries[f]) - 1]
          BY <2>1, <3>1, <4>1, FrontIs DEF Undone
      <4>3. Committed(entries[f][Len(entries[f]) - 1].by)
          BY <4>1 DEF ChainInv
      <4> QED BY <1>1, <4>2, <4>3
    <3>2. CASE Last(entries[f]).by # t
        BY <2>1, <3>2 DEF Undone
    <3> QED BY <3>1, <3>2
  <2>4. VersionInv(t)' /\ BothInv(t)' /\ \A f \in Embeddings : EntryInv(t, f)'
      BY <1>1, <1>2, <2>2, <2>3, NothingPublished
  <2> QED BY <2>1, <2>4 DEF TxnInv, StatementInv
<1>16. CASE CommitEntries(t)
    BY <1>1, <1>16 DEF CommitEntries, Runs, TypeOK
<1> QED BY <1>10, <1>11, <1>12, <1>13, <1>14, <1>15, <1>16 DEF Step, GiveUp, Rollback

LEMMA Quiet ==
    ASSUME NEW u \in Txns, UNCHANGED <<committed_at, versions, entries>>,
           pc'[u] = pc[u], op'[u] = op[u], start'[u] = start[u]
    PROVE  Undisturbed(u)
<1>1. Committed(u)' <=> Committed(u)
    BY DEF Committed
<1>2. /\ \A i : Top(versions, start[u], i)' <=> Top(versions, start[u], i)
      /\ \A e \in Embeddings : \A i : Top(entries[e], start[u], i)' <=> Top(entries[e], start[u], i)
    BY DEF Top, Before, Committed
<1> QED BY <1>1, <1>2 DEF Undisturbed

LEMMA QuietCommit ==
    ASSUME IInv, NEW t \in Txns, pc[t] = "staged", committed_at' = [committed_at EXCEPT ![t] = clock],
           UNCHANGED <<op, start, versions, entries>>, pc' = [pc EXCEPT ![t] = "committed"],
           NEW u \in Txns, u # t
    PROVE  Undisturbed(u)
<1>1. /\ TypeOK /\ ClockInv /\ ~Committed(t) /\ pc \in [Txns -> Labels]
      /\ committed_at \in [Writers -> Nat] /\ u \in Writers
  <2>1. TypeOK /\ ClockInv
      BY DEF IInv
  <2> QED BY <2>1 DEF TypeOK, ClockInv, Writers
<1>2. pc'[u] = pc[u] /\ (Committed(u)' <=> Committed(u))
    BY <1>1 DEF Committed
<1>3. pc[u] # "idle" => start[u] \in 2..clock /\ start'[u] = start[u]
    BY <1>1 DEF ClockInv, TypeOK
<1>4. \A T \in 2..clock : \A i : Top(versions, T, i)' <=> Top(versions, T, i)
  <2>1. ASSUME NEW c \in Seq(Versions), c = versions
        PROVE  \A T \in 2..clock : \A i : Top(c, T, i)' <=> Top(c, T, i)
    <3>1. c # <<>> /\ ChainInv(c) /\ \A k \in DOMAIN c : c[k].by \in Writers
        BY <1>1, <2>1, Authors DEF IInv, TypeOK, CatalogInv
    <3> QED BY <1>1, <3>1, TopCommitted
  <2>2. \A c : c = versions => \A T, i : Top(c, T, i)' <=> Top(versions, T, i)'
      BY DEF Top, Before, Committed
  <2> QED BY <1>1, <2>1, <2>2, Authors
<1>5. ASSUME NEW e \in Embeddings
      PROVE  \A T \in 2..clock : \A i : Top(entries[e], T, i)' <=> Top(entries[e], T, i)
  <2>1. ASSUME NEW c \in Seq(Entry), c = entries[e]
        PROVE  \A T \in 2..clock : \A i : Top(c, T, i)' <=> Top(c, T, i)
    <3>1. c # <<>> /\ ChainInv(c) /\ \A k \in DOMAIN c : c[k].by \in Writers
        BY <1>1, <2>1, Authors DEF IInv, TypeOK, CatalogInv
    <3> QED BY <1>1, <3>1, TopCommitted
  <2>2. \A c : c = entries[e] => \A T, i : Top(c, T, i)' <=> Top(entries[e], T, i)'
      BY DEF Top, Before, Committed
  <2> QED BY <1>1, <2>1, <2>2, Authors
<1>6. pc[u] # "idle" => \A i : Top(versions, start[u], i)' <=> Top(versions, start[u], i)
    BY <1>3, <1>4
<1>7. pc[u] # "idle" => \A e \in Embeddings : \A i : Top(entries[e], start[u], i)' <=> Top(entries[e], start[u], i)
    BY <1>3, <1>5
<1> QED BY <1>2, <1>3, <1>6, <1>7 DEF Undisturbed

LEMMA OthersUndisturbed ==
    ASSUME IInv, NEW t \in Txns, Begin(t) \/ GiveUp(t) \/ Step(t), NEW u \in Txns, u # t
    PROVE  Undisturbed(u)
<1>1. TypeOK
    BY DEF IInv
<1>2. CASE Begin(t)
  <2>1. /\ UNCHANGED <<committed_at, versions, entries>>
        /\ pc' = [pc EXCEPT ![t] = "begun"] /\ start' = [start EXCEPT ![t] = clock]
      BY <1>2 DEF Begin, Goto, catalogVars
  <2>2. PICK k \in Program[t] : \E x \in Targets(k) : op' = [op EXCEPT ![t] = [kind |-> k, on |-> x]]
      BY <1>2 DEF Begin
  <2>3. pc'[u] = pc[u] /\ op'[u] = op[u] /\ start'[u] = start[u]
      BY <1>1, <2>1, <2>2 DEF TypeOK
  <2> QED BY <2>1, <2>3, Quiet
<1>3. CASE CommitEntries(t)
  <2>1. UNCHANGED <<op, start, versions, entries>> /\ pc[t] = "staged"
      BY <1>3 DEF CommitEntries, catalogVars
  <2>2. CASE pc' = [pc EXCEPT ![t] = "failed"] /\ committed_at' = committed_at
    <3>1. pc'[u] = pc[u]
        BY <1>1, <2>2 DEF TypeOK
    <3> QED BY <2>1, <2>2, <3>1, Quiet
  <2>3. CASE pc' = [pc EXCEPT ![t] = "committed"] /\ committed_at' = [committed_at EXCEPT ![t] = clock]
      BY <2>1, <2>3, QuietCommit
  <2> QED BY <1>3, <2>2, <2>3 DEF CommitEntries, Goto
<1>4. CASE (GiveUp(t) \/ Step(t)) /\ Runs(t)
  <2>1. pc'[u] = pc[u] /\ op'[u] = op[u] /\ start'[u] = start[u] /\ (Committed(u)' <=> Committed(u))
      BY <1>1, <1>4 DEF Runs, TypeOK, Committed
  <2>2. /\ \A T, i : Top(versions, T, i)' <=> Top(versions, T, i)
        /\ \A T, i : Top(versions, T, i) => versions'[i] = versions[i]
        /\ \A e \in Embeddings : /\ \A T, i : Top(entries[e], T, i)' <=> Top(entries[e], T, i)
                                 /\ \A T, i : Top(entries[e], T, i) => entries'[e][i] = entries[e][i]
      BY <1>4, TopRuns
  <2>3. /\ \A i : Top(versions, start[u], i)' <=> Top(versions, start[u], i)
        /\ \A e \in Embeddings : \A i : Top(entries[e], start[u], i)' <=> Top(entries[e], start[u], i)
      BY <2>1, <2>2
  <2>4. ~Committed(u) => /\ Last(versions').by = u <=> Last(versions).by = u
                         /\ Last(versions).by = u => versions' = versions
    <3>1. versions \in Seq(Versions) /\ versions # <<>> /\ ChainInv(versions)
        BY DEF IInv, TypeOK, CatalogInv
    <3>2. versions' = versions \/ Grows(versions, versions', t, Versions) \/ Shrinks(versions, versions', t)
        BY <1>4, ChainChange
    <3> QED BY <3>1, <3>2, OthersLast
  <2>5. ASSUME ~Committed(u), NEW e \in Embeddings
        PROVE  /\ Last(entries'[e]).by = u <=> Last(entries[e]).by = u
               /\ Last(entries[e]).by = u => entries'[e] = entries[e]
    <3>1. entries[e] \in Seq(Entry) /\ entries[e] # <<>> /\ ChainInv(entries[e])
        BY DEF IInv, TypeOK, CatalogInv, Entry
    <3>2. entries'[e] = entries[e] \/ Grows(entries[e], entries'[e], t, Entry) \/ Shrinks(entries[e], entries'[e], t)
        BY <1>4, ChainChange
    <3> QED BY <2>5, <3>1, <3>2, OthersLast
  <2> QED BY <2>1, <2>2, <2>3, <2>4, <2>5 DEF Undisturbed
<1> QED BY <1>2, <1>3, <1>4, StepRuns

\* A refused commit leaves the changes for the rollback, a successful one publishes them.
LEMMA CommitStep ==
    ASSUME IInv, NEW t \in Txns, CommitEntries(t)
    PROVE  TxnInv(t)'
<1>1. /\ TypeOK /\ ClockInv /\ TxnInv(t) /\ pc[t] = "staged" /\ ~Committed(t)
      /\ UNCHANGED <<op, start, versions, entries>>
      /\ pc \in [Txns -> Labels] /\ committed_at \in [Writers -> Nat] /\ t \in Writers
      /\ clock \in Nat /\ clock >= 2
  <2>1. TypeOK /\ ClockInv /\ TxnInv(t) /\ pc[t] = "staged" /\ UNCHANGED <<op, start, versions, entries>>
      BY DEF IInv, CatalogInv, CommitEntries, catalogVars
  <2> QED BY <2>1 DEF TypeOK, ClockInv, Writers
<1>2. CASE pc' = [pc EXCEPT ![t] = "failed"] /\ committed_at' = committed_at
  <2>1. pc'[t] = "failed" /\ ~Committed(t)' /\ start[t] \in 2..clock
      BY <1>1, <1>2 DEF Committed, ClockInv, TypeOK
  <2>2. (Altered(t, versions[Len(versions) - 1]).cols)' = Altered(t, versions[Len(versions) - 1]).cols
      BY <1>1 DEF Altered
  <2>3. Top(versions, start[t], Len(versions) - 1) => Top(versions, start[t], Len(versions) - 1)'
      BY <1>1, <1>2 DEF Top, Before, Committed
  <2>4. VersionInv(t)'
      BY <1>1, <2>1, <2>2, <2>3 DEF TxnInv, VersionInv, Last
  <2>5. \A f \in Embeddings : EntryInv(t, f)'
      BY <1>1, <2>1 DEF TxnInv, EntryInv, Last
  <2>6. BothInv(t)' /\ StatementInv(t)'
      BY <2>1 DEF BothInv, StatementInv
  <2> QED BY <2>4, <2>5, <2>6 DEF TxnInv
<1>3. CASE pc' = [pc EXCEPT ![t] = "committed"] /\ committed_at' = [committed_at EXCEPT ![t] = clock]
  <2>1. pc'[t] = "committed" /\ Committed(t)'
      BY <1>1, <1>3 DEF Committed
  <2> QED BY <2>1 DEF TxnInv, StatementInv, VersionInv, BothInv, EntryInv
<1> QED BY <1>2, <1>3 DEF CommitEntries, Goto

LEMMA TxnStep == IInv /\ [Next]_vars => (\A u \in Txns : TxnInv(u))'
<1> SUFFICES ASSUME IInv, [Next]_vars, NEW u \in Txns PROVE TxnInv(u)'
    OBVIOUS
<1>1. TypeOK
    BY DEF IInv
<1>2. CASE UNCHANGED vars
    BY <1>2, Quiet, TxnKept DEF vars
<1>3. ASSUME NEW t \in Txns, Begin(t) \/ GiveUp(t) \/ Step(t), u # t PROVE TxnInv(u)'
    BY <1>3, OthersUndisturbed, TxnKept
<1>4. ASSUME Begin(u) PROVE TxnInv(u)'
  <2>1. UNCHANGED <<committed_at, versions, entries>> /\ pc[u] = "idle" /\ pc' = [pc EXCEPT ![u] = "begun"]
      BY <1>4 DEF Begin, Goto, catalogVars
  <2>2. PICK k \in Program[u] : \E x \in Targets(k) : op' = [op EXCEPT ![u] = [kind |-> k, on |-> x]]
      BY <1>4 DEF Begin
  <2>3. Last(versions).by # u /\ \A e \in Embeddings : Last(entries[e]).by # u
      BY <2>1, Unpublished
  <2>4. op'[u].kind \in {"create", "drop"} => op'[u].on \in Embeddings
      BY <1>1, <2>2 DEF TypeOK, Targets
  <2>5. VersionInv(u)' /\ BothInv(u)' /\ \A e \in Embeddings : EntryInv(u, e)'
      BY <2>1, <2>3, <2>4, NothingPublished
  <2>6. pc'[u] = "begun"
      BY <1>1, <2>1 DEF TypeOK
  <2> QED BY <2>5, <2>6 DEF TxnInv, StatementInv
<1>5. ASSUME GiveUp(u) \/ Step(u), Runs(u) PROVE TxnInv(u)'
    BY <1>5, ActorStep
<1>6. ASSUME CommitEntries(u) PROVE TxnInv(u)'
    BY <1>6, CommitStep
<1> QED BY <1>2, <1>3, <1>4, <1>5, <1>6, StepRuns DEF Next
-----------------------------------------------------------------------------
(* Theorems. *)

\* The inductive invariant holds in every reachable state: DuckDB's multi-version catalog
\* with first-writer-wins conflicts, together with the undo of what a transaction changed.
THEOREM Invariance == Spec => []IInv
<1>1. Init => IInv
    BY TypeInit, ClockInit, HistoryInit, TxnInit DEF IInv, CatalogInv, ChainsInv
<1>2. IInv /\ [Next]_vars => IInv'
    BY TypeStep, ClockStep, HistoryStep, TxnStep DEF IInv, CatalogInv, ChainsInv
<1> QED BY <1>1, <1>2, PTL DEF Spec

\* Types of the catalog, the storages and the transactions.
THEOREM TypeCorrect == Spec => []TypeOK
<1>1. IInv => TypeOK
    BY DEF IInv
<1> QED BY <1>1, Invariance, PTL

\* What is committed last is what a transaction that begins now sees.
LEMMA NewestIs ==
    ASSUME IInv, NEW S, NEW chain \in Seq(S), \A k \in DOMAIN chain : chain[k].by \in Writers,
           NEW i, Top(chain, clock, i)
    PROVE  Newest(chain) = chain[i]
<1> DEFINE P(k) == /\ Committed(chain[k].by)
                   /\ \A j \in DOMAIN chain : Committed(chain[j].by) => j <= k
<1>1. \A w \in Writers : Committed(w) <=> Before(w, clock)
    BY DEF IInv, TypeOK, ClockInv, Before, Committed, Writers
<1>2. i \in DOMAIN chain /\ P(i)
    BY <1>1 DEF Top
<1>3. ASSUME NEW k \in DOMAIN chain, P(k) PROVE k = i
  <2>1. k \in Nat /\ i \in Nat /\ k <= i /\ i <= k
      BY <1>2, <1>3
  <2> QED BY <2>1
<1>4. (CHOOSE k \in DOMAIN chain : P(k)) = i
  <2> HIDE DEF P
  <2> QED BY <1>2, <1>3
<1> QED BY <1>4 DEF Newest

\* An embedding has its column exactly while it has its entry, whatever runs, fails or is
\* rolled back between the ALTER TABLE of CREATE EMBEDDING and the creation of the entry.
THEOREM ColumnWithEntry == Spec => []EntryMatchesColumn
<1>1. IInv => EntryMatchesColumn
  <2> SUFFICES ASSUME IInv, NEW e \in Embeddings
               PROVE  Newest(entries[e]).alive <=> Current.cols[e] # None
      BY DEF EntryMatchesColumn
  <2>1. TypeOK /\ clock \in 2..clock
    <3>1. TypeOK /\ ClockInv
        BY DEF IInv
    <3>2. clock \in Nat /\ clock >= 2
        BY <3>1 DEF TypeOK, ClockInv
    <3> QED BY <3>1, <3>2
  <2>2. PICK i \in DOMAIN versions : Top(versions, clock, i)
      BY <2>1 DEF IInv, CatalogInv, HistoryInv
  <2>3. PICK j \in DOMAIN entries[e] : Top(entries[e], clock, j)
      BY <2>1 DEF IInv, CatalogInv, HistoryInv
  <2>4. Current = versions[i] /\ Newest(entries[e]) = entries[e][j]
      BY <2>1, <2>2, <2>3, Authors, NewestIs DEF Current
  <2> QED BY <2>1, <2>2, <2>3, <2>4 DEF IInv, CatalogInv, HistoryInv
<1> QED BY <1>1, Invariance, PTL

\* What a running transaction sees of a chain: its own version, or the one on top when it began.
View(t, chain) ==
    /\ Last(chain).by = t => Seen(t, chain) = Last(chain)
    /\ Last(chain).by # t =>
          /\ \E i : Top(chain, start[t], i)
          /\ \A i : Top(chain, start[t], i) => Seen(t, chain) = chain[i]
Views ==
    \A t \in Txns : pc[t] \notin {"idle", "committed"} =>
        ~Committed(t) /\ View(t, versions) /\ \A e \in Embeddings : View(t, entries[e])

LEMMA ViewsHold == IInv => Views
<1> SUFFICES ASSUME IInv, NEW t \in Txns, pc[t] \notin {"idle", "committed"}
             PROVE  ~Committed(t) /\ View(t, versions) /\ \A e \in Embeddings : View(t, entries[e])
    BY DEF Views
<1>1. TypeOK /\ ~Committed(t)
    BY DEF IInv, ClockInv
<1>2. View(t, versions)
    BY TableIs DEF View, Table, Top
<1>3. ASSUME NEW e \in Embeddings PROVE View(t, entries[e])
  <2>1. entries[e] \in Seq(Entry) /\ entries[e] # <<>>
      BY <1>1 DEF TypeOK, Entry
  <2>2. Len(entries[e]) >= 1
      BY <2>1, LastType
  <2>3. CASE Last(entries[e]).by = t
      BY <2>1, <2>2, <2>3, SeenOwn DEF View
  <2>4. CASE Last(entries[e]).by # t
      BY <2>4, EntryIs DEF View, Top
  <2> QED BY <2>3, <2>4
<1> QED BY <1>1, <1>2, <1>3

\* Every step of a transaction takes it on.
LEMMA StepMoves ==
    ASSUME TypeOK, NEW t \in Txns, Begin(t) \/ GiveUp(t) \/ Step(t)
    PROVE  pc'[t] # pc[t]
<1>1. pc \in [Txns -> Labels]
    BY DEF TypeOK
<1>2. CASE Begin(t) \/ ScanSource(t) \/ Ask(t) \/ AddColumn(t) \/ CreateEntry(t) \/ LookupEntry(t)
           \/ RemoveColumn(t) \/ DropEntry(t)
    BY <1>1, <1>2 DEF Goto, Begin, ScanSource, Ask, AddColumn, CreateEntry, LookupEntry, RemoveColumn, DropEntry
<1>3. CASE ShareStorage(t) \/ InsertRows(t) \/ UpdateText(t) \/ Stage(t) \/ CommitEntries(t)
    BY <1>1, <1>3 DEF Goto, ShareStorage, InsertRows, UpdateText, Stage, CommitEntries
<1>4. CASE InstallVersion(t)
    BY <1>1, <1>4 DEF Goto, InstallVersion, Continue
<1>5. CASE Rollback(t) \/ GiveUp(t)
    BY <1>1, <1>5 DEF Goto, Rollback, GiveUp, Undo
<1> QED BY <1>2, <1>3, <1>4, <1>5 DEF Step

\* Snapshot isolation of the catalog: until its own next step, a transaction sees the same
\* version of the table and of every embedding, whatever others install, commit or undo.
THEOREM SnapshotsOfCatalog == Spec => CatalogStable
<1> DEFINE Stable == \A t \in Txns : (Running(t) /\ pc'[t] = pc[t]) => SameCatalog(t)
<1>1. IInv /\ Views /\ Views' /\ [Next]_vars => Stable
  <2> SUFFICES ASSUME IInv, Views, Views', [Next]_vars, NEW u \in Txns, Running(u), pc'[u] = pc[u]
               PROVE  SameCatalog(u)
      OBVIOUS
  <2>1. Undisturbed(u)
    <3>1. CASE UNCHANGED vars
        BY <3>1, Quiet DEF vars
    <3>2. ASSUME NEW t \in Txns, Begin(t) \/ GiveUp(t) \/ Step(t) PROVE Undisturbed(u)
      <4>1. u # t
          BY <3>2, StepMoves DEF IInv
      <4> QED BY <3>2, <4>1, OthersUndisturbed
    <3> QED BY <3>1, <3>2 DEF Next
  <2>2. /\ pc[u] \notin {"idle", "committed"}
        /\ ~Committed(u) /\ View(u, versions) /\ View(u, versions)'
        /\ \A e \in Embeddings : View(u, entries[e]) /\ View(u, entries[e])'
      BY DEF Views, Running, Ended
  <2>3. Table(u)' = Table(u)
    <3>1. CASE Last(versions).by = u
      <4>1. Last(versions)' = Last(versions) /\ Last(versions)'.by = u
          BY <2>1, <2>2, <3>1 DEF Undisturbed, Last
      <4> QED BY <2>2, <3>1, <4>1 DEF View, Table
    <3>2. CASE Last(versions).by # u
      <4>1. PICK i : Top(versions, start[u], i) /\ Seen(u, versions) = versions[i]
          BY <2>2, <3>2 DEF View
      <4>2. Top(versions, start[u], i)' /\ versions'[i] = versions[i] /\ Last(versions)'.by # u
          BY <2>1, <2>2, <3>2, <4>1 DEF Undisturbed, Last
      <4>3. Seen(u, versions)' = versions'[i]
          BY <2>2, <4>2 DEF View
      <4> QED BY <4>1, <4>2, <4>3 DEF Table
    <3> QED BY <3>1, <3>2
  <2>4. ASSUME NEW e \in Embeddings PROVE Seen(u, entries[e])' = Seen(u, entries[e])
    <3>1. CASE Last(entries[e]).by = u
      <4>1. Last(entries[e])' = Last(entries[e]) /\ Last(entries[e])'.by = u
          BY <2>1, <2>2, <3>1 DEF Undisturbed, Last
      <4> QED BY <2>2, <3>1, <4>1 DEF View
    <3>2. CASE Last(entries[e]).by # u
      <4>1. PICK i : Top(entries[e], start[u], i) /\ Seen(u, entries[e]) = entries[e][i]
          BY <2>2, <3>2 DEF View
      <4>2. Top(entries[e], start[u], i)' /\ entries'[e][i] = entries[e][i] /\ Last(entries[e])'.by # u
          BY <2>1, <2>2, <3>2, <4>1 DEF Undisturbed, Last
      <4>3. Seen(u, entries[e])' = entries'[e][i]
          BY <2>2, <4>2 DEF View
      <4> QED BY <4>1, <4>2, <4>3
    <3> QED BY <3>1, <3>2
  <2> QED BY <2>3, <2>4 DEF SameCatalog
<1> QED BY <1>1, Invariance, ViewsHold, PTL DEF Spec, CatalogStable
=============================================================================
