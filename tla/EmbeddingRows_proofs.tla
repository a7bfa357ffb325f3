------------------------ MODULE EmbeddingRows_proofs ------------------------
(***************************************************************************)
(* StorageInv of EmbeddingCatalog is inductive, given IInv: the storages   *)
(* that ALTERs copy, and rows that are appended, reverted and overwritten  *)
(* meanwhile. What follows is that committed rows stay in the table, that  *)
(* snapshots of them do not move, and whose vectors an embedding has.      *)
(***************************************************************************)
EXTENDS EmbeddingCatalog_proofs
-----------------------------------------------------------------------------
(* What the table is. *)

\* All versions but the last are committed, and the last unless its author is at work.
LEMMA Versioned ==
  ASSUME IInv
  PROVE  /\ versions \in Seq(Versions) /\ Len(versions) \in Nat /\ Len(versions) >= 1
         /\ Last(versions) = versions[Len(versions)]
         /\ \A k \in DOMAIN versions :
               /\ versions[k] \in Versions /\ versions[k].by \in Writers /\ versions[k].storage \in Writers
               /\ k # Len(versions) => Committed(versions[k].by)
         /\ ~ Committed(Last(versions).by) => Last(versions).by \in Txns /\ Len(versions) >= 2
<1>1. TypeOK /\ ChainInv(versions)
  BY DEF IInv, CatalogInv
<1>2. versions \in Seq(Versions) /\ versions # <<>>
  BY <1>1 DEF TypeOK
<1>3. /\ Len(versions) \in Nat /\ Len(versions) >= 1
      /\ Last(versions) = versions[Len(versions)] /\ Last(versions) \in Versions
  BY <1>2, LastType
<1>4. ASSUME NEW k \in DOMAIN versions
      PROVE  /\ versions[k] \in Versions /\ versions[k].by \in Writers /\ versions[k].storage \in Writers
             /\ k # Len(versions) => Committed(versions[k].by)
  <2>1. k \in 1..Len(versions) /\ versions[k] \in Versions
    BY <1>2
  <2>2. versions[k].by \in Writers /\ versions[k].storage \in Writers
    BY <2>1 DEF Versions
  <2>3. QED BY <1>1, <1>3, <2>1, <2>2 DEF ChainInv
<1>5. ASSUME ~ Committed(Last(versions).by)
      PROVE  Last(versions).by \in Txns /\ Len(versions) >= 2
  <2>1. Committed(Loader)
    BY DEF IInv, ClockInv, Committed
  <2>2. Last(versions).by \in Txns
    BY <1>3, <1>5, <2>1 DEF Versions, Writers
  <2>3. QED BY <1>5, <2>2 DEF IInv, CatalogInv, TxnInv, VersionInv
<1>6. QED BY <1>2, <1>3, <1>4, <1>5

\* The greatest of the positions up to n that are in S, which lacks at most the last.
LEMMA Greatest ==
  ASSUME NEW n \in Nat, n >= 1, NEW S, S \subseteq 1..n, \A k \in 1..n : k # n => k \in S,
         n \notin S => n >= 2
  PROVE  LET m == IF n \in S THEN n ELSE n - 1
         IN  /\ m \in S /\ m \in 1..n /\ \A j \in S : j <= m
             /\ \A i \in S : (\A j \in S : j <= i) => i = m
<1>1. CASE n \in S
  BY <1>1
<1>2. CASE n \notin S
  <2>1. n - 1 \in S /\ n - 1 \in 1..n
    BY <1>2
  <2>2. \A j \in S : j <= n - 1
    BY <1>2
  <2>3. QED BY <1>2, <2>1, <2>2
<1>3. QED BY <1>1, <1>2

\* The current version is the last one, or the one before it.
LEMMA CurrentIs ==
  ASSUME IInv
  PROVE  /\ Committed(Last(versions).by) => Current = Last(versions)
         /\ ~ Committed(Last(versions).by) => Current = versions[Len(versions) - 1]
         /\ \E k \in DOMAIN versions : Current = versions[k]
         /\ Current \in Versions /\ Current.storage \in Writers /\ Committed(Current.by)
<1> DEFINE n == Len(versions)
           S == {k \in DOMAIN versions : Committed(versions[k].by)}
           m == IF n \in S THEN n ELSE n - 1
<1>1. /\ n \in Nat /\ n >= 1 /\ DOMAIN versions = 1..n /\ Last(versions) = versions[n]
      /\ \A k \in DOMAIN versions : /\ versions[k] \in Versions /\ versions[k].storage \in Writers
                                    /\ k # n => Committed(versions[k].by)
      /\ ~ Committed(Last(versions).by) => n >= 2
  BY Versioned
<1>2. /\ n \in S <=> Committed(Last(versions).by)
      /\ S \subseteq 1..n /\ (\A k \in 1..n : k # n => k \in S) /\ (n \notin S => n >= 2)
      /\ \A k \in S : k \in DOMAIN versions /\ Committed(versions[k].by)
  <2>1. n \in DOMAIN versions
    BY <1>1
  <2> HIDE DEF n
  <2>2. QED BY <1>1, <2>1
<1>3. (CHOOSE i \in DOMAIN versions : /\ Committed(versions[i].by)
                                      /\ \A j \in DOMAIN versions : Committed(versions[j].by) => j <= i)
      = CHOOSE i \in DOMAIN versions : i \in S /\ \A j \in S : j <= i
  OBVIOUS
<1> HIDE DEF S, n
<1>4. /\ m \in S /\ m \in 1..n /\ \A j \in S : j <= m
      /\ \A i \in S : (\A j \in S : j <= i) => i = m
  BY <1>1, <1>2, Greatest
<1> HIDE DEF m
<1>5. (CHOOSE i \in DOMAIN versions : i \in S /\ \A j \in S : j <= i) = m
  BY <1>1, <1>4
<1>6. Current = versions[m]
  BY <1>3, <1>5 DEF Current, Newest
<1>7. Committed(Last(versions).by) => m = n
  BY <1>2 DEF m
<1>8. ~ Committed(Last(versions).by) => m = n - 1
  BY <1>2 DEF m
<1>9. m \in DOMAIN versions /\ Committed(versions[m].by)
  BY <1>2, <1>4
<1>10. versions[m] \in Versions /\ versions[m].storage \in Writers
  BY <1>1, <1>9
<1>11. Committed(Last(versions).by) => Current = Last(versions)
  BY <1>1, <1>6, <1>7
<1>12. ~ Committed(Last(versions).by) => Current = versions[n - 1]
  BY <1>6, <1>8
<1>13. QED BY <1>6, <1>9, <1>10, <1>11, <1>12 DEF n

\* A running transaction sees its own version, or one that was committed before it began.
LEMMA TableSeen ==
  ASSUME IInv, NEW t \in Txns, pc[t] \notin {"idle", "committed"}
  PROVE  /\ ~ Committed(t) /\ Table(t) \in Versions /\ Table(t).storage \in Writers
         /\ Last(versions).by = t => Table(t) = Last(versions)
         /\ Last(versions).by # t =>
               \E k \in DOMAIN versions : Table(t) = versions[k] /\ Before(versions[k].by, start[t])
<1>1. ~ Committed(t)
  BY DEF IInv, ClockInv
<1>2. Table(t) \in Versions /\ Table(t).storage \in Writers
  BY TableIs DEF Versions
<1>3. QED BY <1>1, <1>2, TableIs DEF Top

\* What follows from IInv, to be used of the state after a step as well.
Chained ==
  /\ versions \in Seq(Versions) /\ Len(versions) \in Nat /\ Len(versions) >= 1
  /\ Last(versions) = versions[Len(versions)]
  /\ \A k \in DOMAIN versions :
        /\ versions[k] \in Versions /\ versions[k].by \in Writers /\ versions[k].storage \in Writers
        /\ k # Len(versions) => Committed(versions[k].by)
  /\ ~ Committed(Last(versions).by) => Last(versions).by \in Txns /\ Len(versions) >= 2
Topped ==
  /\ Committed(Last(versions).by) => Current = Last(versions)
  /\ ~ Committed(Last(versions).by) => Current = versions[Len(versions) - 1]
  /\ \E k \in DOMAIN versions : Current = versions[k]
  /\ Current \in Versions /\ Current.storage \in Writers /\ Committed(Current.by)
Viewed ==
  \A t \in Txns : pc[t] \notin {"idle", "committed"} =>
      /\ ~ Committed(t) /\ Table(t) \in Versions /\ Table(t).storage \in Writers
      /\ Last(versions).by = t => Table(t) = Last(versions)
      /\ Last(versions).by # t =>
            \E k \in DOMAIN versions : Table(t) = versions[k] /\ Before(versions[k].by, start[t])
Facts == IInv /\ Chained /\ Topped /\ Viewed /\ Views

LEMMA FactsHold == IInv => Facts
<1> SUFFICES ASSUME IInv PROVE Facts
  OBVIOUS
<1>1. Chained
  BY Versioned DEF Chained
<1>2. Topped
  BY CurrentIs DEF Topped
<1>3. Viewed
  BY TableSeen DEF Viewed
<1>4. QED BY <1>1, <1>2, <1>3, ViewsHold DEF Facts
-----------------------------------------------------------------------------
(* The steps, by what they do to the storages. *)

\* A step of t that leaves versions, storages and the lock alone.
Moves(t) ==
  /\ UNCHANGED <<clock, op, start, committed_at, versions, main, count, rows, place, base, vectors, wal_lock>>
  /\ \E l \in Labels :
        /\ pc' = [pc EXCEPT ![t] = l]
        /\ \/ pc[t] = "asking" /\ l \in {"adding", "aborted"}
           \/ pc[t] = "begun" /\ l \in {"removing", "ready", "aborted"}
           \/ pc[t] = "begun" /\ l = "installing" /\ op[t].kind = "alter"
           \/ pc[t] = "adding" /\ l = "creating"
           \/ pc[t] = "removing" /\ l = "dropping"
           \/ pc[t] \in {"creating", "dropping"} /\ l \in {"ready", "failed"}
           \/ pc[t] = "installing" /\ l = "aborted" /\ Conflict(t, Last(versions).by)
           \/ pc[t] = "ready" /\ l = "aborted" /\ op[t].kind = "insert"

Scans(t) ==
  /\ UNCHANGED <<clock, op, start, committed_at, versions, main, count, rows, place, base, wal_lock>>
  /\ op[t].kind = "create" /\ pc[t] = "begun" /\ pc' = [pc EXCEPT ![t] = "asking"]
  /\ vectors' = [vectors EXCEPT ![t] = Texts(t)]

Copies(t) ==
  /\ UNCHANGED <<clock, op, start, committed_at, versions, wal_lock>>
  /\ CopyStorage(t, Table(t).storage)
  /\ pc' = [pc EXCEPT ![t] = "installing"]
  /\ \/ /\ pc[t] = "adding" /\ Table(t).cols[op[t].on] = None
        /\ vectors' = [vectors EXCEPT ![t] = Fill(vectors[t], count[Table(t).storage])]
     \/ pc[t] = "removing" /\ UNCHANGED vectors

Installs(t) ==
  /\ UNCHANGED <<clock, op, start, committed_at, main, count, rows, place, base, vectors, wal_lock>>
  /\ pc[t] = "installing" /\ ~ Conflict(t, Last(versions).by)
  /\ versions' = Append(versions, Altered(t, Table(t)))
  /\ pc' = [pc EXCEPT ![t] = Continue(t)]

Locks(t) ==
  /\ UNCHANGED <<clock, op, start, committed_at, versions, main, count, rows, place, base, vectors>>
  /\ pc[t] = "ready" /\ op[t].kind # "insert" /\ wal_lock = None
  /\ wal_lock' = t /\ pc' = [pc EXCEPT ![t] = "staged"]

Appends(t) ==
  /\ UNCHANGED <<clock, op, start, committed_at, versions, base, vectors>>
  /\ pc[t] = "ready" /\ op[t].kind = "insert" /\ wal_lock = None /\ Table(t).storage \in main
  /\ AppendRows(t, Table(t).storage)
  /\ wal_lock' = t /\ pc' = [pc EXCEPT ![t] = "staged"]

Fails(t) ==
  /\ UNCHANGED <<op, start, committed_at, versions, main, count, rows, place, base, vectors, wal_lock>>
  /\ pc[t] = "staged" /\ clock' = clock + 1 /\ pc' = [pc EXCEPT ![t] = "failed"]

Commits(t) ==
  /\ UNCHANGED <<op, start, versions, main, count, rows, place, base, vectors>>
  /\ pc[t] = "staged" /\ ~ Refused(t)
  /\ clock' = clock + 1 /\ committed_at' = [committed_at EXCEPT ![t] = clock]
  /\ wal_lock' = None /\ pc' = [pc EXCEPT ![t] = "committed"]

Undoes(t) == pc[t] \in {"ready", "failed"} /\ Undo(t)

Acts(t) ==
  \/ Begin(t) \/ Scans(t) \/ Moves(t) \/ Copies(t) \/ Installs(t)
  \/ Locks(t) \/ Appends(t) \/ Fails(t) \/ Commits(t) \/ Undoes(t)

LEMMA StepActs ==
  ASSUME NEW t \in Txns, Begin(t) \/ GiveUp(t) \/ Step(t)
  PROVE  Acts(t)
<1> USE DEF Goto, catalogVars, storageVars, columnVars
<1> {"idle", "begun", "asking", "adding", "installing", "creating", "removing", "dropping",
     "ready", "staged", "failed", "committed", "aborted"} = Labels
  BY DEF Labels, Ended
<1>1. CASE ScanSource(t)
  BY <1>1 DEF ScanSource, Scans, Acts
<1>2. CASE AddColumn(t)
  <2>1. CASE Goto(t, "creating") /\ UNCHANGED <<storageVars, columnVars>>
    <3>1. Moves(t)
      BY <1>2, <2>1 DEF AddColumn, Moves
    <3>2. QED BY <3>1 DEF Acts
  <2>2. CASE /\ Table(t).cols[op[t].on] = None /\ CopyStorage(t, Table(t).storage) /\ Goto(t, "installing")
             /\ vectors' = [vectors EXCEPT ![t] = Fill(vectors[t], count[Table(t).storage])]
    <3>1. Copies(t)
      BY <1>2, <2>2 DEF AddColumn, Copies
    <3>2. QED BY <3>1 DEF Acts
  <2>3. QED BY <1>2, <2>1, <2>2 DEF AddColumn
<1>3. CASE RemoveColumn(t)
  <2>1. CASE Goto(t, "dropping") /\ UNCHANGED <<storageVars, base>>
    <3>1. Moves(t)
      BY <1>3, <2>1 DEF RemoveColumn, Moves
    <3>2. QED BY <3>1 DEF Acts
  <2>2. CASE CopyStorage(t, Table(t).storage) /\ Goto(t, "installing")
    <3>1. Copies(t)
      BY <1>3, <2>2 DEF RemoveColumn, Copies
    <3>2. QED BY <3>1 DEF Acts
  <2>3. QED BY <1>3, <2>1, <2>2 DEF RemoveColumn
<1>4. CASE InstallVersion(t)
  <2>1. Installs(t) \/ Moves(t)
    BY <1>4 DEF InstallVersion, Installs, Moves
  <2>2. QED BY <2>1 DEF Acts
<1>5. CASE Ask(t) \/ LookupEntry(t) \/ ShareStorage(t) \/ InsertRows(t) \/ UpdateText(t)
           \/ CreateEntry(t) \/ DropEntry(t)
  <2>1. UNCHANGED <<clock, op, start, committed_at, versions, main, count, rows, place, base, vectors, wal_lock>>
    BY <1>5 DEF Ask, LookupEntry, ShareStorage, InsertRows, UpdateText, CreateEntry, DropEntry
  <2>2. CASE Ask(t)
    BY <2>1, <2>2 DEF Ask, Moves, Acts
  <2>3. CASE LookupEntry(t)
    BY <2>1, <2>3 DEF LookupEntry, Moves, Acts
  <2>4. CASE ShareStorage(t) \/ InsertRows(t) \/ UpdateText(t)
    BY <2>1, <2>4 DEF ShareStorage, InsertRows, UpdateText, Moves, Acts
  <2>5. CASE CreateEntry(t) \/ DropEntry(t)
    BY <2>1, <2>5 DEF CreateEntry, DropEntry, Moves, Acts
  <2>6. QED BY <1>5, <2>2, <2>3, <2>4, <2>5
<1>6. CASE Stage(t)
  <2>1. Moves(t) \/ Locks(t) \/ Appends(t)
    BY <1>6 DEF Stage, Moves, Locks, Appends, AppendRows
  <2>2. QED BY <2>1 DEF Acts
<1>7. CASE CommitEntries(t)
  BY <1>7 DEF CommitEntries, Fails, Commits, Acts
<1>8. CASE Rollback(t) \/ GiveUp(t)
  BY <1>8 DEF Rollback, GiveUp, Undoes, Acts
<1>9. CASE Begin(t)
  BY <1>9 DEF Acts
<1>10. QED BY <1>1, <1>2, <1>3, <1>4, <1>5, <1>6, <1>7, <1>8, <1>9 DEF Step

\* What the step of t leaves as it is for others.
Apart(t) ==
  \A u \in Txns \ {t} :
      /\ pc'[u] = pc[u] /\ op'[u] = op[u] /\ start'[u] = start[u]
      /\ base'[u] = base[u] /\ place'[u] = place[u] /\ vectors'[u] = vectors[u]

LEMMA ActsApart ==
  ASSUME TypeOK, NEW t \in Txns, Acts(t)
  PROVE  Apart(t)
<1>1. /\ pc \in [Txns -> Labels] /\ op \in [Txns -> Operations] /\ start \in [Txns -> Nat]
      /\ DOMAIN base = Txns /\ DOMAIN place = Txns /\ DOMAIN vectors = Txns
  BY DEF TypeOK
<1> USE DEF Apart, Goto, catalogVars, storageVars, columnVars
<1>2. CASE Begin(t)
  BY <1>1, <1>2 DEF Begin
<1>3. CASE Scans(t)
  BY <1>1, <1>3 DEF Scans
<1>4. CASE Moves(t)
  BY <1>1, <1>4 DEF Moves
<1>5. CASE Copies(t)
  BY <1>1, <1>5 DEF Copies, CopyStorage
<1>6. CASE Installs(t)
  BY <1>1, <1>6 DEF Installs
<1>7. CASE Locks(t)
  BY <1>1, <1>7 DEF Locks
<1>8. CASE Appends(t)
  BY <1>1, <1>8 DEF Appends, AppendRows
<1>9. CASE Fails(t) \/ Commits(t)
  BY <1>1, <1>9 DEF Fails, Commits
<1>10. CASE Undoes(t)
  BY <1>1, <1>10 DEF Undoes, Undo
<1>11. QED BY <1>2, <1>3, <1>4, <1>5, <1>6, <1>7, <1>8, <1>9, <1>10 DEF Acts

\* Which transactions are committed.
LEMMA CommittedNow ==
  ASSUME Facts, NEW t \in Txns, Acts(t)
  PROVE  /\ ~ Commits(t) => committed_at' = committed_at
         /\ \A w \in Writers : w # t => committed_at'[w] = committed_at[w]
         /\ \A w \in Writers : Committed(w)' <=> Committed(w) \/ (w = t /\ Commits(t))
         /\ ~ Committed(t)
<1>1. /\ TypeOK /\ ClockInv /\ committed_at \in [Writers -> Nat] /\ clock \in Nat /\ clock >= 2 /\ t \in Writers
      /\ Committed(t) <=> pc[t] = "committed"
  <2>1. TypeOK /\ ClockInv
    BY DEF Facts, IInv
  <2>2. QED BY <2>1 DEF TypeOK, ClockInv, Writers
<1>2. ~ Commits(t) => committed_at' = committed_at
  BY DEF Acts, Begin, Scans, Moves, Copies, Installs, Locks, Appends, Fails, Undoes, Undo
<1>3. CASE Commits(t)
  <2>1. committed_at' = [committed_at EXCEPT ![t] = clock] /\ pc[t] = "staged"
    BY <1>3 DEF Commits
  <2>2. QED BY <1>1, <1>3, <2>1 DEF Committed
<1>4. CASE ~ Commits(t)
  <2>1. committed_at' = committed_at
    BY <1>2, <1>4
  <2>2. pc[t] # "committed"
    BY <1>4 DEF Acts, Begin, Scans, Moves, Copies, Installs, Locks, Appends, Fails, Undoes
  <2>3. QED BY <1>1, <1>4, <2>1, <2>2 DEF Committed
<1>5. QED BY <1>2, <1>3, <1>4

\* What a transaction sees is not changed by the steps of others.
LEMMA SeenStays ==
  ASSUME Facts, NEW t \in Txns, Acts(t), NEW u \in Txns, u # t \/ ~ Commits(t), pc[u] # "idle", NEW w \in Writers
  PROVE  /\ SeenBy(u, w)' <=> SeenBy(u, w)
         /\ Before(w, start[u])' <=> Before(w, start[u])
<1>1. /\ TypeOK /\ ClockInv /\ committed_at \in [Writers -> Nat] /\ clock \in Nat /\ start \in [Txns -> Nat]
  <2>1. TypeOK /\ ClockInv
    BY DEF Facts, IInv
  <2>2. QED BY <2>1 DEF TypeOK
<1>2. start[u] < clock /\ start[u] \in Nat
  BY <1>1 DEF ClockInv
<1>3. start'[u] = start[u]
  <2>1. CASE u # t
    BY <1>1, <2>1, ActsApart DEF Apart
  <2>2. CASE u = t
    <3>1. ~ Begin(t)
      BY <2>2 DEF Begin
    <3>2. start' = start
      BY <3>1 DEF Acts, Scans, Moves, Copies, Installs, Locks, Appends, Fails, Commits, Undoes, Undo
    <3>3. QED BY <3>2
  <2>3. QED BY <2>1, <2>2
<1>4. CASE ~ Commits(t)
  <2>1. committed_at' = committed_at
    BY <1>4, CommittedNow
  <2>2. QED BY <1>3, <2>1 DEF SeenBy, Before, Committed
<1>5. CASE Commits(t) /\ u # t
  <2>1. committed_at' = [committed_at EXCEPT ![t] = clock]
    BY <1>5 DEF Commits
  <2>2. committed_at[t] = 0
    <3>1. committed_at[t] \in Nat /\ ~ Committed(t)
      BY <1>1, CommittedNow DEF Writers
    <3>2. QED BY <3>1 DEF Committed
  <2>3. CASE w = t
    <3>1. committed_at'[w] = clock /\ committed_at[w] = 0
      BY <1>1, <2>1, <2>2, <2>3
    <3>2. ~ Before(w, start[u])' /\ ~ Before(w, start[u])
      BY <1>1, <1>2, <1>3, <3>1 DEF Before, Committed
    <3>3. QED BY <1>3, <1>5, <2>3, <3>2 DEF SeenBy, Before
  <2>4. CASE w # t
    <3>1. committed_at'[w] = committed_at[w]
      BY <1>1, <2>1, <2>4
    <3>2. QED BY <1>3, <3>1 DEF SeenBy, Before, Committed
  <2>5. QED BY <2>3, <2>4
<1>6. QED BY <1>4, <1>5

LEMMA TableStays ==
  ASSUME Facts, Facts', NEW t \in Txns, Begin(t) \/ GiveUp(t) \/ Step(t),
         NEW u \in Txns, u # t, pc[u] \notin {"idle", "committed"}
  PROVE  Table(u)' = Table(u)
<1>1. Undisturbed(u)
  BY OthersUndisturbed DEF Facts
<1>2. pc'[u] = pc[u]
  BY <1>1 DEF Undisturbed
<1>3. ~ Committed(u) /\ View(u, versions) /\ View(u, versions)'
  BY <1>2 DEF Facts, Views
<1>4. CASE Last(versions).by = u
  <2>1. Last(versions)' = Last(versions) /\ Last(versions)'.by = u
    BY <1>1, <1>3, <1>4 DEF Undisturbed, Last
  <2>2. QED BY <1>3, <1>4, <2>1 DEF View, Table
<1>5. CASE Last(versions).by # u
  <2>1. PICK i : Top(versions, start[u], i) /\ Seen(u, versions) = versions[i]
    BY <1>3, <1>5 DEF View
  <2>2. pc[u] # "idle"
    OBVIOUS
  <2>3. Top(versions, start[u], i)' /\ versions'[i] = versions[i] /\ Last(versions)'.by # u
    BY <1>1, <1>3, <1>5, <2>1, <2>2 DEF Undisturbed, Last
  <2>4. Seen(u, versions)' = versions'[i]
    BY <1>3, <2>3 DEF View
  <2>5. QED BY <2>1, <2>3, <2>4 DEF Table
<1>6. QED BY <1>4, <1>5

\* The chain of the table's versions only changes at its end, and the current version only
\* with a commit.
LEMMA CurrentStays ==
  ASSUME Facts, Facts', NEW t \in Txns, Acts(t)
  PROVE  /\ ~ Commits(t) => Current' = Current
         /\ Commits(t) => Current' = IF Last(versions).by = t THEN Last(versions) ELSE Current
<1>1. /\ Chained /\ Chained' /\ Topped /\ Topped' /\ t \in Writers
  BY DEF Facts, Writers
<1>2. /\ \A w \in Writers : Committed(w)' <=> Committed(w) \/ (w = t /\ Commits(t))
      /\ ~ Committed(t)
  BY CommittedNow
<1>3. Last(versions).by \in Writers
  BY <1>1 DEF Chained
<1>4. CASE versions' = versions /\ ~ Commits(t)
  <2>1. Committed(Last(versions).by)' <=> Committed(Last(versions).by)
    BY <1>2, <1>3, <1>4 DEF Last
  <2>2. Last(versions)' = Last(versions)
    BY <1>4 DEF Last
  <2>3. QED BY <1>1, <1>4, <2>1, <2>2 DEF Topped
<1>5. CASE Commits(t)
  <2>1. versions' = versions /\ Last(versions)' = Last(versions)
    BY <1>5 DEF Commits, Last
  <2>2. Committed(Last(versions).by)' <=> Committed(Last(versions).by) \/ Last(versions).by = t
    BY <1>2, <1>3, <1>5, <2>1
  <2>3. CASE Last(versions).by = t
    BY <1>1, <1>5, <2>1, <2>2, <2>3 DEF Topped
  <2>4. CASE Last(versions).by # t
    BY <1>1, <1>5, <2>1, <2>2, <2>4 DEF Topped
  <2>5. QED BY <2>3, <2>4
<1>6. CASE Installs(t)
  <2>1. versions' = Append(versions, Altered(t, Table(t))) /\ ~ Conflict(t, Last(versions).by) /\ pc[t] = "installing"
    BY <1>6 DEF Installs
  <2>2. ~ Commits(t)
    BY <2>1 DEF Commits
  <2>3. Last(versions).by # t
    BY <2>1, Unpublished DEF Facts
  <2>4. Committed(Last(versions).by) /\ Current = Last(versions)
    BY <1>1, <2>1, <2>3 DEF Conflict, Topped
  <2>5. /\ Last(versions').by = t /\ Len(versions') - 1 = Len(versions)
        /\ versions'[Len(versions)] = versions[Len(versions)]
    <3>1. Altered(t, Table(t)).by = t /\ Altered(t, Table(t)) \in Versions
      BY <2>1, AlteredType DEF Facts, Viewed, IInv
    <3>2. versions \in Seq(Versions) /\ Len(versions) \in Nat /\ Len(versions) >= 1
      BY <1>1 DEF Chained
    <3>3. QED BY <2>1, <3>1, <3>2 DEF Last
  <2>6. ~ Committed(Last(versions).by)'
    BY <1>2, <1>1, <2>2, <2>5 DEF Last
  <2>7. Current' = versions'[Len(versions') - 1]
    BY <1>1, <2>6 DEF Topped
  <2>8. Last(versions) = versions[Len(versions)]
    BY DEF Last
  <2>9. QED BY <2>2, <2>4, <2>5, <2>7, <2>8
<1>7. CASE Undoes(t)
  <2>1. versions' = Undone(t, versions) /\ pc[t] \in {"ready", "failed"}
    BY <1>7 DEF Undoes, Undo
  <2>2. ~ Commits(t)
    BY <2>1 DEF Commits
  <2>3. CASE Last(versions).by # t
    BY <1>4, <2>1, <2>2, <2>3 DEF Undone
  <2>4. CASE Last(versions).by = t
    <3>1. versions' = Front(versions) /\ Len(versions) >= 2 /\ versions \in Seq(Versions) /\ Len(versions) \in Nat
      BY <1>1, <1>2, <2>1, <2>4 DEF Undone, Chained
    <3>2. Last(versions') = versions[Len(versions) - 1]
      BY <3>1, FrontIs
    <3>3. Current = versions[Len(versions) - 1] /\ Committed(Current.by) /\ Current.by \in Writers
      BY <1>1, <1>2, <2>4, <3>1 DEF Topped, Versions
    <3>4. Committed(Last(versions).by)'
      BY <1>2, <2>2, <3>2, <3>3 DEF Last
    <3>5. QED BY <1>1, <2>2, <3>2, <3>3, <3>4 DEF Topped, Last
  <2>5. QED BY <2>3, <2>4
<1>8. Commits(t) \/ Installs(t) \/ Undoes(t) \/ (versions' = versions /\ ~ Commits(t))
  BY DEF Acts, Begin, Scans, Moves, Copies, Locks, Appends, Fails, catalogVars
<1>9. QED BY <1>4, <1>5, <1>6, <1>7, <1>8
-----------------------------------------------------------------------------
(* The parts of StorageInv, one step at a time. *)

\* What a transaction is about to do, and who it is.
LEMMA Actor ==
  ASSUME Facts, NEW t \in Txns, Acts(t)
  PROVE  /\ TypeOK /\ t \in Writers /\ t # None /\ t # Loader /\ None \notin Writers
         /\ pc[t] \notin {"committed", "aborted"} /\ ~ Committed(t)
         /\ pc[t] \notin {"creating", "dropping", "ready", "staged", "failed"} => Last(versions).by # t
         /\ \A u \in Txns : Committed(u) <=> pc[u] = "committed"
         /\ \A k \in DOMAIN versions : Last(versions).by # t => versions[k].by # t
<1>1. /\ TypeOK /\ t \in Writers /\ t # None /\ t # Loader /\ None \notin Writers
      /\ \A u \in Txns : Committed(u) <=> pc[u] = "committed"
  BY TxnsAssumption DEF Facts, IInv, ClockInv, Writers
<1>2. pc[t] \notin {"committed", "aborted"}
  BY DEF Acts, Begin, Scans, Moves, Copies, Installs, Locks, Appends, Fails, Commits, Undoes
<1>3. ~ Committed(t)
  BY <1>1, <1>2
<1>4. pc[t] \notin {"creating", "dropping", "ready", "staged", "failed"} => Last(versions).by # t
  BY <1>2, Unpublished DEF Facts
<1>5. \A k \in DOMAIN versions : Last(versions).by # t => versions[k].by # t
  <2>1. versions \in Seq(Versions) /\ ChainInv(versions)
    BY <1>1 DEF TypeOK, Facts, IInv, CatalogInv
  <2>2. QED BY <1>3, <2>1, NotMine
<1>6. QED BY <1>1, <1>2, <1>3, <1>4, <1>5

LEMMA LockStep ==
  ASSUME Facts, LockInv, NEW t \in Txns, Acts(t)
  PROVE  LockInv'
<1>1. /\ pc \in [Txns -> Labels] /\ wal_lock \in Txns \cup {None} /\ None \notin Txns
      /\ \A u \in Txns : pc[u] = "staged" => wal_lock = u
      /\ wal_lock # None => pc[wal_lock] \in {"staged", "failed"}
  BY Actor, TxnsAssumption DEF TypeOK, LockInv
<1>2. DOMAIN pc = Txns
  BY <1>1
<1>3. CASE wal_lock' = wal_lock /\ pc[t] \notin {"staged", "failed"} /\ \E l : l # "staged" /\ pc' = [pc EXCEPT ![t] = l]
  BY <1>1, <1>3 DEF LockInv
<1>4. CASE wal_lock = None /\ wal_lock' = t /\ pc' = [pc EXCEPT ![t] = "staged"]
  BY <1>1, <1>4 DEF LockInv
<1>5. CASE Fails(t)
  BY <1>1, <1>5 DEF Fails, LockInv
<1>6. CASE Commits(t)
  BY <1>1, <1>6 DEF Commits, LockInv
<1>7. CASE Undoes(t)
  <2>1. wal_lock' = Released(t) /\ pc' = [pc EXCEPT ![t] = "aborted"] /\ pc[t] \in {"ready", "failed"}
    BY <1>7 DEF Undoes, Undo, Goto
  <2>2. QED BY <1>1, <2>1 DEF Released, LockInv
<1>8. CASE Begin(t) \/ Scans(t) \/ Moves(t) \/ Copies(t)
  <2>1. pc[t] \notin {"staged", "failed"} /\ wal_lock' = wal_lock
    BY <1>8 DEF Begin, Scans, Moves, Copies
  <2>2. \E l : l # "staged" /\ pc' = [pc EXCEPT ![t] = l]
    BY <1>8 DEF Begin, Scans, Moves, Copies, Goto
  <2>3. QED BY <1>3, <2>1, <2>2
<1>9. CASE Installs(t)
  <2>1. Continue(t) # "staged"
    BY DEF Continue
  <2>2. QED BY <1>3, <1>9, <2>1 DEF Installs
<1>10. CASE Locks(t) \/ Appends(t)
  BY <1>4, <1>10 DEF Locks, Appends
<1>11. QED BY <1>5, <1>6, <1>7, <1>8, <1>9, <1>10 DEF Acts

\* The versions after a step: those before it, without one of t that it undoes, or with one.
LEMMA VersionsNow ==
  ASSUME Facts, Facts', NEW t \in Txns, Acts(t)
  PROVE  /\ ~ Installs(t) => \A k \in DOMAIN versions' : k \in DOMAIN versions /\ versions'[k] = versions[k]
         /\ Undoes(t) => \A k \in DOMAIN versions' : versions[k].by # t
         /\ Installs(t) =>
               /\ Committed(Last(versions).by) /\ Last(versions).by # t /\ Current = Last(versions)
               /\ Table(t) = Last(versions) /\ Last(versions') = Altered(t, Last(versions))
               /\ \A k \in DOMAIN versions' :
                     \/ k \in DOMAIN versions /\ versions'[k] = versions[k]
                     \/ versions'[k] = Altered(t, Last(versions))
<1>1. /\ versions \in Seq(Versions) /\ Len(versions) \in Nat /\ Len(versions) >= 1
      /\ Last(versions) = versions[Len(versions)] /\ Last(versions) \in Versions
  BY LastType DEF Facts, Chained
<1>2. CASE versions' = versions
  <2>1. ~ Installs(t)
    BY <1>1, <1>2 DEF Installs
  <2>2. ASSUME Undoes(t), NEW k \in DOMAIN versions' PROVE versions[k].by # t
    <3>1. versions' = Undone(t, versions)
      BY <2>2 DEF Undoes, Undo
    <3>2. Last(versions).by # t
      <4>1. ASSUME Last(versions).by = t PROVE FALSE
        <5>1. versions' = Front(versions) /\ Len(versions) >= 2
          BY <3>1, <4>1, Actor DEF Undone, Facts, Chained
        <5>2. Len(Front(versions)) = Len(versions) - 1
          BY <1>1, <5>1, FrontIs
        <5>3. Len(versions') = Len(versions)
          BY <1>2
        <5>4. QED BY <1>1, <5>1, <5>2, <5>3
      <4>2. QED BY <4>1
    <3>3. QED BY <1>2, <2>2, <3>2, Actor
  <2>3. QED BY <1>2, <2>1, <2>2
<1>3. CASE Undoes(t) /\ versions' # versions
  <2>1. versions' = Front(versions) /\ Last(versions).by = t
    BY <1>3 DEF Undoes, Undo, Undone
  <2>2. Len(versions) >= 2
    BY <2>1, Actor DEF Facts, Chained
  <2>3. /\ DOMAIN versions' = 1..(Len(versions) - 1)
        /\ \A k \in 1..(Len(versions) - 1) : versions'[k] = versions[k]
    BY <1>1, <2>1, <2>2, FrontIs
  <2>4. \A k \in 1..(Len(versions) - 1) : Committed(versions[k].by) /\ k \in DOMAIN versions
    BY <1>1 DEF Facts, Chained
  <2>5. ~ Installs(t)
    BY <1>3 DEF Undoes, Installs
  <2>6. QED BY <2>3, <2>4, <2>5, Actor
<1>4. CASE Installs(t)
  <2>1. /\ pc[t] = "installing" /\ ~ Conflict(t, Last(versions).by)
        /\ versions' = Append(versions, Altered(t, Table(t)))
    BY <1>4 DEF Installs
  <2>2. Last(versions).by # t
    BY <2>1, Actor
  <2>3. Committed(Last(versions).by) /\ Current = Last(versions)
    BY <2>1, <2>2 DEF Conflict, Facts, Topped
  <2>4. Top(versions, start[t], Len(versions))
    <3>1. /\ committed_at \in [Writers -> Nat] /\ start[t] \in Nat /\ Last(versions).by \in Writers
      BY <1>1, Actor DEF TypeOK, Versions
    <3>2. committed_at[Last(versions).by] # start[t]
      BY <2>1, <3>1 DEF Facts, IInv, ClockInv
    <3>3. QED BY <1>1, <2>1, <2>2, <3>1, <3>2, LastOnTop
  <2>5. Table(t) = Last(versions)
    BY <1>1, <2>1, <2>2, <2>4, TableIs DEF Facts, Top
  <2>6. Altered(t, Last(versions)) \in Versions
    BY <1>1, AlteredType, Actor
  <2>7. /\ DOMAIN versions' = 1..(Len(versions) + 1) /\ Len(versions') = Len(versions) + 1
        /\ versions'[Len(versions) + 1] = Altered(t, Last(versions))
        /\ \A k \in 1..Len(versions) : versions'[k] = versions[k]
    BY <1>1, <2>1, <2>5, <2>6
  <2>8. ~ Undoes(t)
    BY <2>1 DEF Undoes
  <2>9. QED BY <1>1, <1>4, <2>2, <2>3, <2>5, <2>7, <2>8 DEF Last
<1>5. Installs(t) \/ Undoes(t) \/ versions' = versions
  BY DEF Acts, Begin, Scans, Moves, Copies, Locks, Appends, Fails, Commits, catalogVars
<1>6. QED BY <1>2, <1>3, <1>4, <1>5

\* What the statement of t makes of the storage and the columns.
LEMMA AlteredIs ==
  ASSUME Facts, NEW t \in Txns, NEW v \in Versions, pc[t] = "installing"
  PROVE  /\ Altered(t, v).by = t
         /\ op[t].kind \in {"create", "drop", "alter"}
         /\ op[t].kind = "alter" => Altered(t, v).storage = v.storage
         /\ op[t].kind # "alter" => Altered(t, v).storage = t
         /\ \A e \in Embeddings : \/ Altered(t, v).cols[e] \in {None, v.cols[e]}
                                  \/ op[t].kind = "create" /\ Altered(t, v).cols[e] = t
<1>1. op[t].kind \in {"create", "drop", "alter"}
  BY DEF Facts, IInv, CatalogInv, TxnInv, StatementInv
<1>2. v.cols \in [Embeddings -> Txns \cup {None}]
  BY DEF Versions
<1>3. CASE op[t].kind = "create"
  <2>1. Altered(t, v) = [by |-> t, storage |-> t, cols |-> [v.cols EXCEPT ![op[t].on] = t]]
    BY <1>3 DEF Altered
  <2>2. \A e \in Embeddings : Altered(t, v).cols[e] \in {v.cols[e], t}
    BY <1>2, <2>1
  <2>3. Altered(t, v).by = t /\ Altered(t, v).storage = t
    BY <2>1
  <2>4. QED BY <1>3, <2>2, <2>3
<1>4. CASE op[t].kind = "drop"
  <2>1. Altered(t, v) = [by |-> t, storage |-> t, cols |-> [v.cols EXCEPT ![op[t].on] = None]]
    BY <1>4 DEF Altered
  <2>2. \A e \in Embeddings : Altered(t, v).cols[e] \in {v.cols[e], None}
    BY <1>2, <2>1
  <2>3. Altered(t, v).by = t /\ Altered(t, v).storage = t
    BY <2>1
  <2>4. QED BY <1>4, <2>2, <2>3
<1>5. CASE op[t].kind = "alter"
  <2>1. Altered(t, v) = [v EXCEPT !.by = t]
    BY <1>5 DEF Altered
  <2>2. /\ [v EXCEPT !.by = t].by = t /\ [v EXCEPT !.by = t].storage = v.storage
        /\ [v EXCEPT !.by = t].cols = v.cols
    BY DEF Versions
  <2>3. Altered(t, v).by = t /\ Altered(t, v).storage = v.storage /\ Altered(t, v).cols = v.cols
    BY <2>1, <2>2
  <2>4. QED BY <1>5, <2>3
<1>6. QED BY <1>1, <1>3, <1>4, <1>5

\* What the step leaves of the statements: who is at work keeps the statement.
LEMMA SameStatement ==
  ASSUME Facts, NEW t \in Txns, Acts(t), NEW u \in Txns, pc[u] # "idle"
  PROVE  op'[u] = op[u] /\ start'[u] = start[u]
<1>1. CASE u # t
  BY <1>1, ActsApart DEF Apart, Facts, IInv
<1>2. CASE u = t
  <2>1. ~ Begin(t)
    BY <1>2 DEF Begin
  <2>2. QED BY <2>1 DEF Acts, Scans, Moves, Copies, Installs, Locks, Appends, Fails, Commits, Undoes, Undo
<1>3. QED BY <1>1, <1>2

\* A copy is made once, and only an undo forgets it.
LEMMA BaseNow ==
  ASSUME Facts, NEW t \in Txns, Acts(t)
  PROVE  /\ \A u \in Txns \ {t} : base'[u] = base[u]
         /\ ~ Copies(t) /\ ~ Undoes(t) => base'[t] = base[t]
         /\ Copies(t) => base'[t] = Table(t).storage
         /\ Undoes(t) => base'[t] = None
<1>1. base \in [Txns -> Writers \cup {None}]
  BY Actor DEF TypeOK
<1>2. \A u \in Txns \ {t} : base'[u] = base[u]
  BY ActsApart, Actor DEF Apart
<1>3. ~ Copies(t) /\ ~ Undoes(t) => base'[t] = base[t]
  BY DEF Acts, Begin, Scans, Moves, Installs, Locks, Appends, Fails, Commits, columnVars
<1>4. Copies(t) => base'[t] = Table(t).storage
  BY <1>1 DEF Copies, CopyStorage
<1>5. Undoes(t) => base'[t] = None
  BY <1>1 DEF Undoes, Undo
<1>6. QED BY <1>2, <1>3, <1>4, <1>5

\* LineageInv for the version v.
Line(v) ==
  /\ v.storage = v.by \/ (v.by \in Txns /\ op[v.by].kind = "alter")
  /\ Committed(v.by) =>
        /\ Committed(v.storage) /\ committed_at[v.storage] <= committed_at[v.by]
        /\ v.storage = Current.storage \/ \E t \in Txns : Committed(t) /\ base[t] = v.storage
  /\ \A e \in Embeddings : LET c == v.cols[e] IN
        c # None => op[c].kind = "create" /\ base[c] # None /\ (Committed(c) \/ c = v.by)

\* What CopyInv says of the statement of t.
CopyOf(t) ==
  /\ base[t] # None =>
        /\ op[t].kind \in {"create", "drop"} /\ base[t] \in Writers
        /\ Committed(base[t]) /\ committed_at[base[t]] < start[t]
        /\ pc[t] \in Installed \cup {"installing", "committed", "aborted"} /\ pc[t] # "idle"
        /\ pc[t] \in Installed => Last(versions).by = t /\ base[t] = Current.storage
        /\ pc[t] = "committed" => base[t] \notin main /\ base[t] # Current.storage
        /\ pc[t] # "committed" => t \in main
  /\ pc[t] = "installing" /\ base[t] = None => op[t].kind = "alter"
  /\ Last(versions).by = t /\ ~Committed(t) /\ base[t] = None =>
        op[t].kind = "alter" /\ Last(versions).storage = Current.storage

LEMMA CopyIs ==
  ASSUME TypeOK, NEW t \in Txns, CopyInv(t)
  PROVE  CopyOf(t)
<1>1. base[t] # None => base[t] \in Writers
  BY DEF TypeOK
<1>2. pc[t] \in Installed \cup {"installing", "committed", "aborted"} => pc[t] # "idle"
  BY DEF Installed
<1>3. QED BY <1>1, <1>2 DEF CopyInv, CopyOf, Before

\* A line of the chain goes on, whatever t does.
LEMMA LineStays ==
  ASSUME Facts, Facts', Committed(Current.storage), \A u \in Txns : CopyOf(u), NEW t \in Txns, Acts(t),
         NEW v \in Versions, NEW k \in DOMAIN versions, v = versions[k], Line(v), Undoes(t) => v.by # t
  PROVE  Line(v)'
<1>1. /\ v.by \in Writers /\ v.storage \in Writers /\ t \in Writers /\ ~ Committed(t) /\ Txns \subseteq Writers
      /\ Last(versions).by # t => v.by # t
      /\ pc[t] = "idle" => v.by # t
      /\ \A e \in Embeddings : v.cols[e] \in Txns \cup {None}
  BY Actor DEF Versions, Writers
<1>2. /\ \A w \in Writers : Committed(w)' <=> Committed(w) \/ (w = t /\ Commits(t))
      /\ \A w \in Writers : w # t => committed_at'[w] = committed_at[w]
  BY CommittedNow
<1>3. /\ ~ Commits(t) => Current' = Current
      /\ Commits(t) => Current' = IF Last(versions).by = t THEN Last(versions) ELSE Current
  BY CurrentStays
<1>4. /\ \A u \in Txns \ {t} : base'[u] = base[u]
      /\ ~ Copies(t) /\ ~ Undoes(t) => base'[t] = base[t]
      /\ Copies(t) => base'[t] # None
  <2>1. Copies(t) => Table(t).storage \in Writers
    BY DEF Copies, Facts, Viewed
  <2>2. QED BY <2>1, BaseNow, Actor
<1>5. v.storage = v.by \/ (v.by \in Txns /\ op'[v.by].kind = "alter")
  <2>1. CASE v.by \in Txns /\ op[v.by].kind = "alter"
    <3>1. CASE v.by = t
      BY <1>1, <2>1, <3>1, SameStatement
    <3>2. CASE v.by # t
      <4>1. op'[v.by] = op[v.by]
        BY <2>1, <3>2, ActsApart, Actor DEF Apart
      <4>2. QED BY <2>1, <4>1
    <3>3. QED BY <3>1, <3>2
  <2>2. QED BY <2>1 DEF Line
<1>6. ASSUME NEW e \in Embeddings, v.cols[e] # None
      PROVE  LET c == v.cols[e] IN op'[c].kind = "create" /\ base'[c] # None /\ (Committed(c)' \/ c = v.by)
  <2>1. PICK c \in Txns : c = v.cols[e]
    BY <1>1, <1>6
  <2>2. op[c].kind = "create" /\ base[c] # None /\ (Committed(c) \/ c = v.by)
    BY <1>6, <2>1 DEF Line
  <2>3. op'[c].kind = "create"
    BY <2>2, SameStatement DEF CopyOf
  <2>4. base'[c] # None
    BY <1>1, <1>4, <2>2
  <2>5. Committed(c)' \/ c = v.by
    BY <1>1, <1>2, <2>2
  <2>6. QED BY <2>1, <2>3, <2>4, <2>5
<1>7. ASSUME Committed(v.by)'
      PROVE  /\ Committed(v.storage)' /\ committed_at'[v.storage] <= committed_at'[v.by]
             /\ v.storage = Current'.storage \/ \E u \in Txns : Committed(u)' /\ base'[u] = v.storage
  <2>1. CASE Committed(v.by)
    <3>1. /\ Committed(v.storage) /\ committed_at[v.storage] <= committed_at[v.by]
          /\ v.storage = Current.storage \/ \E u \in Txns : Committed(u) /\ base[u] = v.storage
      BY <2>1 DEF Line
    <3>2. Committed(v.storage)' /\ committed_at'[v.storage] <= committed_at'[v.by]
      BY <1>1, <1>2, <2>1, <3>1
    <3>3. ASSUME NEW u \in Txns, Committed(u), base[u] = v.storage
          PROVE  Committed(u)' /\ base'[u] = v.storage
      BY <1>1, <1>2, <1>4, <3>3
    <3>4. ASSUME v.storage = Current.storage, Current'.storage # v.storage
          PROVE  Committed(t)' /\ base'[t] = v.storage
      <4>1. Commits(t) /\ Last(versions).by = t /\ Current' = Last(versions)
        BY <1>3, <3>4
      <4>2. pc[t] = "staged" /\ pc[t] \in Installed
        BY <4>1 DEF Commits, Installed
      <4>3. base[t] # None
        BY <1>1, <3>4, <4>1 DEF CopyOf
      <4>4. base[t] = v.storage
        BY <3>4, <4>2, <4>3 DEF CopyOf
      <4>5. base'[t] = base[t] /\ Committed(t)'
        BY <1>1, <1>2, <1>4, <4>1, <4>2 DEF Copies, Undoes
      <4>6. QED BY <4>4, <4>5
    <3>5. QED BY <3>1, <3>2, <3>3, <3>4
  <2>2. CASE ~ Committed(v.by)
    <3>1. v.by = t /\ Commits(t) /\ Last(versions).by = t
      BY <1>1, <1>2, <1>7, <2>2
    <3>2. v = Last(versions) /\ Current' = v
      <4>1. k = Len(versions)
        BY <2>2 DEF Facts, Chained
      <4>2. QED BY <1>3, <3>1, <4>1 DEF Last
    <3>3. Committed(v.storage)' /\ committed_at'[v.storage] <= committed_at'[v.by]
      <4>1. committed_at' = [committed_at EXCEPT ![t] = clock] /\ committed_at \in [Writers -> Nat] /\ clock \in Nat
        BY <3>1, Actor DEF Commits, TypeOK
      <4>2. Committed(t)'
        BY <1>1, <1>2, <3>1
      <4>3. CASE v.storage = v.by
        <5>1. committed_at'[t] = clock /\ v.storage = t
          BY <1>1, <3>1, <4>1, <4>3
        <5>2. QED BY <3>1, <4>1, <4>2, <5>1
      <4>4. CASE v.by \in Txns /\ op[v.by].kind = "alter"
        <5>1. base[t] = None
          BY <3>1, <4>4 DEF CopyOf
        <5>2. v.storage = Current.storage
          BY <1>1, <3>1, <3>2, <5>1 DEF CopyOf
        <5>3. Committed(v.storage) /\ v.storage # t
          BY <1>1, <5>2
        <5>4. committed_at[v.storage] < clock
          <6>1. ClockInv /\ clock \in Nat
            BY Actor DEF Facts, IInv, TypeOK
          <6>2. QED BY <1>1, <6>1 DEF ClockInv, Writers
        <5>5. committed_at'[v.storage] = committed_at[v.storage] /\ committed_at'[t] = clock /\ Committed(v.storage)'
          BY <1>1, <1>2, <4>1, <5>3
        <5>6. QED BY <1>1, <3>1, <4>1, <5>4, <5>5
      <4>5. QED BY <4>3, <4>4 DEF Line
    <3>4. QED BY <3>2, <3>3
  <2>3. QED BY <2>1, <2>2
<1>8. QED BY <1>5, <1>6, <1>7 DEF Line

LEMMA LinesAre == LineageInv <=> \A k \in DOMAIN versions : Line(versions[k])
  BY DEF LineageInv, Line

\* The storages that transactions see: of the storages that are main, only the current one
\* is of a committed version.
LEMMA StoragesSeen ==
  ASSUME Facts, LineageInv, \A u \in Txns : CopyOf(u)
  PROVE  /\ Committed(Current.storage) /\ Current.storage \in Writers
         /\ \A u \in Txns : pc[u] \notin {"idle", "committed"} =>
               /\ Table(u).storage \in Writers
               /\ Table(u).storage = u \/ Committed(Table(u).storage)
               /\ Last(versions).by = u => Table(u).storage \in {u, Current.storage}
               /\ Last(versions).by # u =>
                     /\ Committed(Table(u).storage) /\ committed_at[Table(u).storage] < start[u]
                     /\ Table(u).storage \in main => Table(u).storage = Current.storage
<1>1. \A k \in DOMAIN versions : Line(versions[k])
  BY LinesAre
<1>2. Committed(Current.storage) /\ Current.storage \in Writers
  BY <1>1 DEF Line, Facts, Topped
<1>3. ASSUME NEW u \in Txns, pc[u] \notin {"idle", "committed"}, Last(versions).by = u
      PROVE  Table(u).storage \in {u, Current.storage}
  <2>1. Table(u) = Last(versions) /\ ~ Committed(u)
    BY <1>3 DEF Facts, Viewed
  <2>2. Line(Last(versions))
    BY <1>1 DEF Facts, Chained
  <2>3. CASE Last(versions).storage = u
    BY <2>1, <2>3
  <2>4. CASE op[u].kind = "alter"
    BY <1>3, <2>1, <2>4 DEF CopyOf
  <2>5. QED BY <1>3, <2>2, <2>3, <2>4 DEF Line
<1>4. ASSUME NEW u \in Txns, pc[u] \notin {"idle", "committed"}, Last(versions).by # u
      PROVE  /\ Committed(Table(u).storage) /\ committed_at[Table(u).storage] < start[u]
             /\ Table(u).storage \in main => Table(u).storage = Current.storage
  <2>1. PICK k \in DOMAIN versions : Table(u) = versions[k] /\ Before(versions[k].by, start[u])
    BY <1>4 DEF Facts, Viewed
  <2>2. Committed(Table(u).by) /\ committed_at[Table(u).by] < start[u] /\ Line(Table(u))
    BY <1>1, <2>1 DEF Before
  <2>3. Committed(Table(u).storage) /\ committed_at[Table(u).storage] <= committed_at[Table(u).by]
    BY <2>2 DEF Line
  <2>4. committed_at[Table(u).storage] \in Nat /\ committed_at[Table(u).by] \in Nat /\ start[u] \in Nat
    <3>1. committed_at \in [Writers -> Nat] /\ start \in [Txns -> Nat]
      BY DEF Facts, IInv, TypeOK
    <3>2. Table(u).storage \in Writers /\ Table(u).by \in Writers
      BY <1>4 DEF Facts, Viewed, Versions
    <3>3. QED BY <3>1, <3>2
  <2>5. committed_at[Table(u).storage] < start[u]
    BY <2>2, <2>3, <2>4
  <2>6. ASSUME NEW w \in Txns, Committed(w), base[w] = Table(u).storage, Table(u).storage \in main PROVE FALSE
    <3>1. pc[w] = "committed"
      BY <2>6 DEF Facts, IInv, ClockInv
    <3>2. base[w] # None
      BY <1>4, <2>6, TxnsAssumption DEF Facts, Viewed, Writers
    <3>3. QED BY <2>6, <3>1, <3>2 DEF CopyOf
  <2>7. QED BY <2>2, <2>3, <2>5, <2>6 DEF Line
<1>5. \A u \in Txns : pc[u] \notin {"idle", "committed"} => Table(u).storage \in Writers
  BY DEF Facts, Viewed
<1>6. QED BY <1>2, <1>3, <1>4, <1>5

\* The version that a statement installs is of a transaction that has copied the storage,
\* if it has one of its own.
LEMMA NewLine ==
  ASSUME Facts, Facts', LineageInv, \A u \in Txns : CopyOf(u), NEW t \in Txns, Acts(t), Installs(t),
         NEW v, v = Altered(t, Last(versions))
  PROVE  Line(v)'
<1>1. /\ pc[t] = "installing" /\ op' = op /\ base' = base /\ committed_at' = committed_at
      /\ ~ Committed(t) /\ t # None
  BY Actor DEF Installs
<1>2. /\ Last(versions) \in Versions /\ Last(versions).by \in Writers /\ Committed(Last(versions).by)
      /\ Line(Last(versions))
  BY VersionsNow, LinesAre DEF Facts, Chained
<1>3. /\ v.by = t
      /\ op[t].kind \in {"create", "drop", "alter"}
      /\ op[t].kind # "alter" => v.storage = t
      /\ \A e \in Embeddings : \/ v.cols[e] \in {None, Last(versions).cols[e]}
                               \/ op[t].kind = "create" /\ v.cols[e] = t
  BY <1>1, <1>2, AlteredIs
<1>4. v.storage = v.by \/ (v.by \in Txns /\ op'[v.by].kind = "alter")
  BY <1>1, <1>3
<1>5. ~ Committed(v.by)'
  BY <1>1, <1>3 DEF Committed
<1>6. ASSUME NEW e \in Embeddings, v.cols[e] # None
      PROVE  LET c == v.cols[e] IN op'[c].kind = "create" /\ base'[c] # None /\ (Committed(c)' \/ c = v.by)
  <2>1. CASE v.cols[e] = Last(versions).cols[e]
    <3>1. PICK c : c = v.cols[e]
      OBVIOUS
    <3>2. op[c].kind = "create" /\ base[c] # None /\ (Committed(c) \/ c = Last(versions).by)
      BY <1>2, <1>6, <2>1, <3>1 DEF Line
    <3>3. Committed(c)'
      BY <1>1, <1>2, <3>2 DEF Committed
    <3>4. QED BY <1>1, <3>1, <3>2, <3>3
  <2>2. CASE op[t].kind = "create" /\ v.cols[e] = t
    <3>1. base[t] # None
      BY <1>1, <2>2 DEF CopyOf
    <3>2. QED BY <1>1, <1>3, <2>2, <3>1
  <2>3. QED BY <1>3, <1>6, <2>1, <2>2
<1>7. QED BY <1>4, <1>5, <1>6 DEF Line

LEMMA LineageStep ==
  ASSUME Facts, Facts', LineageInv, \A u \in Txns : CopyOf(u), NEW t \in Txns, Acts(t)
  PROVE  LineageInv'
<1>1. SUFFICES ASSUME NEW k \in DOMAIN versions', NEW v, v = versions'[k] PROVE Line(v)'
  BY DEF LineageInv, Line
<1>2. CASE k \in DOMAIN versions /\ v = versions[k] /\ (Undoes(t) => v.by # t)
  BY <1>2, LineStays, LinesAre, StoragesSeen DEF Facts, Chained
<1>3. CASE Installs(t) /\ v = Altered(t, Last(versions))
  BY <1>3, NewLine
<1>4. QED
  <2>1. CASE Installs(t)
    <3>1. ~ Undoes(t)
      BY <2>1 DEF Installs, Undoes
    <3>2. QED BY <1>1, <1>2, <1>3, <2>1, <3>1, VersionsNow
  <2>2. CASE ~ Installs(t)
    BY <1>1, <1>2, <2>2, VersionsNow
  <2>3. QED BY <2>1, <2>2

\* The last position after n rows are written behind the first k of l rows.
Reach(k, n, l) == IF l > k + n THEN l ELSE k + n

\* The positions up to it: those up to l, and n after the first k of them.
LEMMA Segments ==
  ASSUME NEW k \in Nat, NEW n \in Nat, NEW l \in Nat, k <= l
  PROVE  /\ 1..l \subseteq 1..Reach(k, n, l) /\ (k + 1)..(k + n) \subseteq 1..Reach(k, n, l)
         /\ \A i \in 1..Reach(k, n, l) : i \notin (k + 1)..(k + n) => i \in 1..l
<1>1. CASE l > k + n
  BY <1>1 DEF Reach
<1>2. CASE ~ (l > k + n)
  BY <1>2 DEF Reach
<1>3. QED BY <1>1, <1>2

\* r is the rows with n of t written behind the first k.
Extends(r, k, n, t) ==
  /\ DOMAIN rows = 1..Len(rows) /\ Len(rows) \in Nat
  /\ DOMAIN rows \subseteq DOMAIN r /\ (k + 1)..(k + n) \subseteq DOMAIN r
  /\ \A i \in (k + 1)..(k + n) : r[i] = t
  /\ \A i \in DOMAIN r : i \notin (k + 1)..(k + n) => i \in DOMAIN rows /\ r[i] = rows[i]

LEMMA WrittenIs ==
  ASSUME NEW t, NEW k \in Nat, NEW n \in Nat, rows \in Seq(Writers), k <= Len(rows)
  PROVE  Extends(Written(k, n, t), k, n, t)
<1>1. DOMAIN rows = 1..Len(rows) /\ Len(rows) \in Nat
  OBVIOUS
<1>2. Written(k, n, t) = [i \in 1..Reach(k, n, Len(rows)) |-> IF i \in (k + 1)..(k + n) THEN t ELSE rows[i]]
  BY DEF Written, Reach
<1>3. DOMAIN Written(k, n, t) = 1..Reach(k, n, Len(rows))
  BY <1>2
<1>4. \A i \in 1..Reach(k, n, Len(rows)) :
          /\ i \in (k + 1)..(k + n) => Written(k, n, t)[i] = t
          /\ i \notin (k + 1)..(k + n) => Written(k, n, t)[i] = rows[i]
  BY <1>2
<1>5. Len(rows) \in Nat
  BY <1>1
<1>6. PICK l \in Nat : l = Len(rows)
  BY <1>5, Zenon
<1>7. k <= l
  BY <1>6
<1>8. /\ 1..l \subseteq 1..Reach(k, n, l) /\ (k + 1)..(k + n) \subseteq 1..Reach(k, n, l)
      /\ \A i \in 1..Reach(k, n, l) : i \notin (k + 1)..(k + n) => i \in 1..l
  BY <1>7, Segments
<1>9. QED BY <1>1, <1>3, <1>4, <1>6, <1>8, Zenon DEF Extends

\* What the steps do to the rows and the storages.
LEMMA AppendsNow ==
  ASSUME Facts, NEW t \in Txns, Appends(t), NEW k, k = count[Table(t).storage], NEW n, n = Size[t]
  PROVE  /\ k \in Nat /\ n \in Nat \ {0} /\ k <= Len(rows) /\ DOMAIN rows = 1..Len(rows) /\ Len(rows) \in Nat
         /\ place'[t] = k /\ count'[Table(t).storage] = k + n
         /\ \A w \in Writers : w # Table(t).storage => count'[w] = count[w]
         /\ DOMAIN rows \subseteq DOMAIN rows' /\ (k + 1)..(k + n) \subseteq DOMAIN rows'
         /\ \A i \in (k + 1)..(k + n) : rows'[i] = t
         /\ \A i \in DOMAIN rows' : i \notin (k + 1)..(k + n) => i \in DOMAIN rows /\ rows'[i] = rows[i]
<1>1. /\ rows \in Seq(Writers) /\ count \in [Writers -> 0..Len(rows)] /\ DOMAIN place = Txns
      /\ Table(t).storage \in Writers
  BY DEF Facts, Viewed, IInv, TypeOK, Appends
<1>2. /\ rows' = Written(k, n, t)
      /\ place' = [place EXCEPT ![t] = k]
      /\ count' = [count EXCEPT ![Table(t).storage] = @ + n]
  BY DEF Appends, AppendRows
<1>3. k \in Nat /\ n \in Nat \ {0} /\ k <= Len(rows)
  BY <1>1, ProgramAssumption
<1>4. place'[t] = k /\ count'[Table(t).storage] = k + n
  BY <1>1, <1>2
<1>5. \A w \in Writers : w # Table(t).storage => count'[w] = count[w]
  BY <1>1, <1>2
<1>6. Extends(rows', k, n, t)
  <2>1. n \in Nat
    BY <1>3
  <2>2. rows \in Seq(Writers) /\ k \in Nat /\ k <= Len(rows)
    BY <1>1, <1>3, Zenon
  <2>3. Extends(Written(k, n, t), k, n, t)
    BY <2>1, <2>2, WrittenIs, Zenon
  <2>4. QED BY <1>2, <2>3, Zenon
<1>7. QED BY <1>3, <1>4, <1>5, <1>6, Zenon DEF Extends

LEMMA RowsNow ==
  ASSUME Facts, NEW t \in Txns, Acts(t)
  PROVE  /\ ~ Appends(t) => rows' = rows
         /\ \A u \in Txns \ {t} : place'[u] = place[u]
         /\ ~ Appends(t) /\ ~ Undoes(t) => place'[t] = place[t]
         /\ Undoes(t) => place'[t] = -1
<1>1. DOMAIN place = Txns
  BY Actor DEF TypeOK
<1>2. ~ Appends(t) => rows' = rows
  BY DEF Acts, Begin, Scans, Moves, Copies, CopyStorage, Installs, Locks, Fails, Commits, Undoes, Undo, storageVars
<1>3. \A u \in Txns \ {t} : place'[u] = place[u]
  BY ActsApart, Actor DEF Apart
<1>4. ~ Appends(t) /\ ~ Undoes(t) => place'[t] = place[t]
  BY DEF Acts, Begin, Scans, Moves, Copies, CopyStorage, Installs, Locks, Fails, Commits, storageVars
<1>5. Undoes(t) => place'[t] = -1
  BY <1>1 DEF Undoes, Undo
<1>6. QED BY <1>2, <1>3, <1>4, <1>5

LEMMA StoragesNow ==
  ASSUME Facts, NEW t \in Txns, Acts(t)
  PROVE  /\ ~ Copies(t) /\ ~ Undoes(t) => main' = main
         /\ Copies(t) => main' = (main \ {Table(t).storage}) \cup {t}
         /\ Undoes(t) => main \subseteq main'
         /\ Undoes(t) /\ Last(versions).by = t => Current.storage \in main'
         /\ Undoes(t) /\ place[t] >= 0 => Table(t).storage \in main'
         /\ Undoes(t) /\ place[t] < 0 /\ Last(versions).by # t => main' = main
         /\ ~ Copies(t) /\ ~ Undoes(t) /\ ~ Appends(t) => count' = count
         /\ Copies(t) => /\ count'[t] = count[Table(t).storage]
                         /\ \A w \in Writers : w # t => count'[w] = count[w]
         /\ Undoes(t) => /\ place[t] >= 0 => count'[Table(t).storage] = place[t]
                         /\ \A w \in Writers : place[t] < 0 \/ w # Table(t).storage => count'[w] = count[w]
<1>1. /\ DOMAIN count = Writers /\ t \in Writers /\ place[t] \in Int
  <2>1. /\ count \in [Writers -> 0..Len(rows)] /\ t \in Writers /\ place[t] \in -1..Len(rows) /\ rows \in Seq(Writers)
    BY Actor DEF TypeOK
  <2>2. QED BY <2>1
<1>2. ~ Copies(t) /\ ~ Undoes(t) => main' = main
  BY DEF Acts, Begin, Scans, Moves, Installs, Locks, Appends, AppendRows, Fails, Commits, storageVars
<1>3. ~ Copies(t) /\ ~ Undoes(t) /\ ~ Appends(t) => count' = count
  BY DEF Acts, Begin, Scans, Moves, Installs, Locks, Fails, Commits, storageVars
<1>4. Copies(t) => main' = (main \ {Table(t).storage}) \cup {t} /\ count' = [count EXCEPT ![t] = count[Table(t).storage]]
  BY DEF Copies, CopyStorage
<1>5. ASSUME Undoes(t)
      PROVE  main' = RestoredMain(t) /\ count' = RevertedCount(t) /\ Table(t).storage \in Writers
  <2>1. pc[t] \notin {"idle", "committed"}
    BY <1>5 DEF Undoes
  <2>2. QED BY <1>5, <2>1 DEF Undoes, Undo, Facts, Viewed
<1>6. Undoes(t) => main \subseteq main'
  BY <1>5 DEF RestoredMain
<1>7. ASSUME Undoes(t), Last(versions).by = t PROVE Current.storage \in main'
  <2>1. versions \in Seq(Versions) /\ Len(versions) >= 2 /\ Current = versions[Len(versions) - 1]
    BY <1>7, Actor DEF Facts, Chained, Topped
  <2>2. Last(Front(versions)) = Current
    BY <2>1, FrontIs
  <2>3. QED BY <1>5, <1>7, <2>2 DEF RestoredMain
<1>8. Undoes(t) /\ place[t] >= 0 => Table(t).storage \in main'
  BY <1>5 DEF RestoredMain
<1>9. Undoes(t) /\ place[t] < 0 /\ Last(versions).by # t => main' = main
  <2>1. ASSUME Undoes(t), place[t] < 0, Last(versions).by # t PROVE main' = main
    <3>1. ~ (place[t] >= 0)
      BY <1>1, <2>1
    <3>2. RestoredMain(t) = main
      BY <2>1, <3>1 DEF RestoredMain
    <3>3. QED BY <1>5, <2>1, <3>2
  <2>2. QED BY <2>1
<1>10. Undoes(t) /\ place[t] >= 0 => count' = [count EXCEPT ![Table(t).storage] = place[t]]
  BY <1>5 DEF RevertedCount
<1>11. Undoes(t) /\ place[t] < 0 => count' = count
  BY <1>1, <1>5 DEF RevertedCount
<1>12. Copies(t) => /\ count'[t] = count[Table(t).storage]
                    /\ \A w \in Writers : w # t => count'[w] = count[w]
  BY <1>1, <1>4
<1>13. Undoes(t) => /\ place[t] >= 0 => count'[Table(t).storage] = place[t]
                    /\ \A w \in Writers : place[t] < 0 \/ w # Table(t).storage => count'[w] = count[w]
  <2>1. ASSUME Undoes(t), place[t] >= 0
        PROVE  /\ count'[Table(t).storage] = place[t]
               /\ \A w \in Writers : w # Table(t).storage => count'[w] = count[w]
    BY <1>1, <1>5, <1>10, <2>1
  <2>2. QED BY <1>1, <1>11, <2>1
<1>14. QED BY <1>2, <1>3, <1>4, <1>6, <1>7, <1>8, <1>9, <1>12, <1>13

\* An INSERT appends to the current storage, and has no version of its own.
LEMMA AppendsToCurrent ==
  ASSUME Facts, LineageInv, \A u \in Txns : CopyOf(u), NEW t \in Txns, Acts(t), Appends(t)
  PROVE  Table(t).storage = Current.storage /\ Current.storage \in main /\ Last(versions).by # t /\ base[t] = None
<1>1. /\ pc[t] = "ready" /\ op[t].kind = "insert" /\ Table(t).storage \in main /\ ~ Committed(t)
  BY Actor DEF Appends
<1>2. Last(versions).by # t /\ base[t] = None
  BY <1>1 DEF CopyOf
<1>3. QED BY <1>1, <1>2, StoragesSeen

LEMMA UndoesAppend ==
  ASSUME Facts, \A u \in Txns : AppendInv(u), NEW t \in Txns, Acts(t), Undoes(t)
  PROVE  place[t] >= 0 => /\ Table(t).storage = Current.storage /\ wal_lock = t /\ op[t].kind = "insert"
                          /\ count[Current.storage] = place[t] + Size[t] /\ \A i \in Appended(t) : rows[i] = t
  BY Actor DEF AppendInv

LEMMA OriginStep ==
  ASSUME Facts, LineageInv, \A u \in Txns : CopyOf(u), \A u \in Txns : AppendInv(u), OriginInv,
         NEW t \in Txns, Acts(t)
  PROVE  OriginInv'
<1>1. SUFFICES ASSUME NEW i \in DOMAIN rows', NEW w, w = rows'[i], w # Loader => ~ (pc'[w] = "aborted" /\ op'[w].kind = "insert")
               PROVE  IF w = Loader THEN i <= Base ELSE place'[w] >= 0 /\ i \in (place'[w] + 1)..(place'[w] + Size[w])
  BY DEF OriginInv, Appended
<1>2. /\ t # Loader /\ DOMAIN pc = Txns /\ pc[t] # "aborted"
      /\ pc[t] # "idle" => op'[t] = op[t]
  BY Actor, SameStatement DEF TypeOK
<1>3. CASE i \in DOMAIN rows /\ rows[i] = w
  <2>1. IF w = Loader THEN i <= Base
        ELSE \/ place[w] >= 0 /\ i \in (place[w] + 1)..(place[w] + Size[w])
             \/ pc[w] = "aborted" /\ op[w].kind = "insert"
    BY <1>3 DEF OriginInv, Appended
  <2>2. w # Loader => w \in Txns
    BY <1>3, Actor DEF TypeOK, Writers
  <2>3. CASE w = Loader
    BY <2>1, <2>3
  <2>4. CASE w # Loader /\ w # t
    BY <1>1, <2>1, <2>2, <2>4, RowsNow, ActsApart, Actor DEF Apart
  <2>5. CASE w = t
    <3>1. place[t] >= 0 /\ i \in (place[t] + 1)..(place[t] + Size[t])
      BY <1>2, <2>1, <2>5
    <3>2. op[t].kind = "insert" /\ pc[t] \in {"staged", "failed"}
      BY <3>1, Actor DEF AppendInv
    <3>3. ~ Appends(t)
      BY <3>2 DEF Appends
    <3>4. ~ Undoes(t)
      <4>1. ASSUME Undoes(t) PROVE FALSE
        <5>1. pc'[t] = "aborted"
          BY <1>2, <4>1 DEF Undoes, Undo, Goto
        <5>2. QED BY <1>1, <1>2, <2>5, <3>2, <5>1
      <4>2. QED BY <4>1
    <3>5. place'[t] = place[t]
      BY <3>3, <3>4, RowsNow
    <3>6. QED BY <1>2, <2>5, <3>1, <3>5
  <2>6. QED BY <2>3, <2>4, <2>5
<1>4. CASE Appends(t) /\ w = t /\ i \in (count[Table(t).storage] + 1)..(count[Table(t).storage] + Size[t])
  <2>1. place'[t] = count[Table(t).storage] /\ count[Table(t).storage] \in Nat
    BY <1>4, AppendsNow
  <2>2. QED BY <1>2, <1>4, <2>1
<1>5. QED
  <2>1. CASE Appends(t)
    BY <1>1, <1>3, <1>4, <2>1, AppendsNow
  <2>2. CASE ~ Appends(t)
    BY <1>1, <1>3, <2>2, RowsNow
  <2>3. QED BY <2>1, <2>2

LEMMA AppendStep ==
  ASSUME Facts, Facts', LockInv, LineageInv, \A u \in Txns : CopyOf(u), \A u \in Txns : AppendInv(u),
         NEW t \in Txns, Begin(t) \/ GiveUp(t) \/ Step(t), Acts(t), NEW u \in Txns
  PROVE  AppendInv(u)'
<1>1. /\ wal_lock \in Txns \cup {None} /\ None \notin Txns /\ Txns \subseteq Writers /\ DOMAIN pc = Txns
      /\ ~ Committed(t)
  BY Actor, TxnsAssumption DEF TypeOK, Writers
<1>2. Current'.storage = Current.storage \/ (Commits(t) /\ Last(versions).by = t)
  BY CurrentStays
<1>3. \A w \in Writers : Committed(w)' <=> Committed(w) \/ (w = t /\ Commits(t))
  BY CommittedNow
<1>4. Committed(Current.storage) /\ Current.storage \in Writers /\ Current.storage # t
  BY <1>1, StoragesSeen
<1>5. CASE u # t
  <2>1. /\ pc'[u] = pc[u] /\ op'[u] = op[u] /\ place'[u] = place[u]
    BY <1>5, ActsApart, Actor DEF Apart
  <2>2. place'[u] >= 0 <=> op'[u].kind = "insert" /\ pc'[u] \in {"staged", "failed", "committed"}
    BY <2>1 DEF AppendInv
  <2>3. ASSUME place'[u] >= 0, ~ Committed(u)'
        PROVE  /\ wal_lock' = u /\ Table(u)'.storage = Current'.storage
               /\ count'[Current'.storage] = place'[u] + Size[u]
               /\ \A i \in (place'[u] + 1)..(place'[u] + Size[u]) : rows'[i] = u
    <3>1. ~ Committed(u)
      BY <1>1, <1>3, <2>3
    <3>2. /\ wal_lock = u /\ Table(u).storage = Current.storage
          /\ count[Current.storage] = place[u] + Size[u]
          /\ \A i \in (place[u] + 1)..(place[u] + Size[u]) : rows[i] = u
      BY <2>1, <2>3, <3>1 DEF AppendInv, Appended
    <3>3. ~ Appends(t) /\ ~ Locks(t) /\ ~ Commits(t)
      BY <1>1, <1>5, <3>2 DEF Appends, Locks, Commits, LockInv
    <3>4. wal_lock' = u
      BY <1>5, <3>2, <3>3 DEF Acts, Begin, Scans, Moves, Copies, Installs, Fails, Undoes, Undo, Released
    <3>5. Table(u)' = Table(u)
      <4>1. pc[u] \notin {"idle", "committed"}
        BY <2>1, <2>2, <2>3, <3>1 DEF Facts, IInv, ClockInv
      <4>2. QED BY <1>5, <4>1, TableStays
    <3>6. rows' = rows
      BY <3>3, RowsNow
    <3>7. count'[Current.storage] = count[Current.storage]
      <4>1. Undoes(t) => ~ (place[t] >= 0)
        BY <1>5, <3>2, UndoesAppend
      <4>2. Undoes(t) => place[t] < 0
        <5>1. place[t] \in Int
          BY Actor DEF TypeOK
        <5>2. QED BY <4>1, <5>1
      <4>3. QED BY <1>4, <3>3, <4>2, StoragesNow
    <3>8. QED BY <1>2, <2>1, <3>2, <3>3, <3>4, <3>5, <3>6, <3>7
  <2>4. QED BY <2>2, <2>3 DEF AppendInv, Appended
<1>6. CASE u = t
  <2>1. place[t] >= 0 <=> op[t].kind = "insert" /\ pc[t] \in {"staged", "failed"}
    BY Actor DEF AppendInv
  <2>2. CASE Appends(t)
    <3>1. /\ Table(t).storage = Current.storage /\ Last(versions).by # t /\ Current' = Current
      BY <2>2, AppendsToCurrent, CurrentStays DEF Appends, Commits
    <3>2. /\ place'[t] >= 0 /\ place'[t] = count[Current.storage]
          /\ count'[Current.storage] = count[Current.storage] + Size[t]
          /\ \A i \in (count[Current.storage] + 1)..(count[Current.storage] + Size[t]) : rows'[i] = t
      BY <2>2, <3>1, AppendsNow
    <3>3. op' = op /\ pc'[t] = "staged" /\ op[t].kind = "insert" /\ wal_lock' = t
      BY <1>1, <2>2 DEF Appends
    <3>4. Table(t)'.storage = Current.storage
      <4>1. ASSUME NEW w \in Writers PROVE SeenBy(t, w)' <=> SeenBy(t, w)
        BY <2>2 DEF Appends, SeenBy, Committed
      <4>2. versions' = versions /\ committed_at' = committed_at /\ start' = start
        BY <2>2 DEF Appends
      <4>3. Table(t)' = Table(t)
        BY <4>2 DEF Table, Seen, SeenBy, Committed
      <4>4. QED BY <3>1, <4>3
    <3>5. QED BY <1>6, <3>1, <3>2, <3>3, <3>4 DEF AppendInv, Appended
  <2>3. CASE Undoes(t)
    <3>1. place'[t] = -1 /\ pc'[t] = "aborted"
      BY <1>1, <2>3, RowsNow DEF Undoes, Undo, Goto
    <3>2. QED BY <1>6, <3>1 DEF AppendInv
  <2>4. CASE ~ Appends(t) /\ ~ Undoes(t) /\ ~ (op[t].kind = "insert" /\ pc[t] \in {"staged", "failed"})
    <3>1. place'[t] = place[t] /\ ~ (place[t] >= 0)
      BY <2>1, <2>4, RowsNow
    <3>2. ~ (op'[t].kind = "insert" /\ pc'[t] \in {"staged", "failed", "committed"})
      <4>1. CASE Begin(t) \/ Scans(t) \/ Copies(t)
        <5>1. pc'[t] \in {"begun", "asking", "installing"}
          BY <1>1, <4>1 DEF Begin, Scans, Copies, Goto
        <5>2. QED BY <5>1
      <4>2. CASE Installs(t)
        <5>1. pc'[t] = Continue(t)
          BY <1>1, <4>2 DEF Installs
        <5>2. Continue(t) \notin {"staged", "failed", "committed"}
          BY DEF Continue
        <5>3. QED BY <5>1, <5>2
      <4>3. CASE Moves(t)
        <5>1. op' = op
          BY <4>3 DEF Moves
        <5>2. PICK l \in Labels : pc' = [pc EXCEPT ![t] = l] /\
                \/ l \notin {"staged", "failed", "committed"}
                \/ pc[t] \in {"creating", "dropping"}
          BY <4>3 DEF Moves
        <5>3. pc'[t] = l
          BY <1>1, <5>2
        <5>4. pc[t] \in {"creating", "dropping"} => op[t].kind \in {"create", "drop"}
          BY DEF Facts, IInv, CatalogInv, TxnInv, StatementInv
        <5>5. QED BY <5>1, <5>2, <5>3, <5>4
      <4>4. CASE Locks(t)
        BY <1>1, <4>4 DEF Locks
      <4>5. CASE Fails(t) \/ Commits(t)
        BY <1>1, <2>4, <4>5 DEF Fails, Commits
      <4>6. QED BY <2>4, <4>1, <4>2, <4>3, <4>4, <4>5 DEF Acts
    <3>3. QED BY <1>6, <3>1, <3>2 DEF AppendInv
  <2>5. CASE op[t].kind = "insert" /\ pc[t] \in {"staged", "failed"} /\ ~ Undoes(t)
    <3>1. Fails(t) \/ Commits(t)
      BY <2>5 DEF Acts, Begin, Scans, Moves, Copies, Installs, Locks, Appends
    <3>2. place' = place /\ op' = op /\ pc'[t] \in {"failed", "committed"} /\ rows' = rows /\ count' = count /\ wal_lock = t
      BY <1>1, <3>1 DEF Fails, Commits, LockInv
    <3>3. CASE Commits(t)
      <4>1. Committed(t)' /\ pc'[t] = "committed"
        BY <1>1, <1>3, <3>3 DEF Commits
      <4>2. QED BY <1>6, <2>1, <2>5, <3>2, <4>1 DEF AppendInv
    <3>4. CASE Fails(t)
      <4>1. versions' = versions /\ committed_at' = committed_at /\ start' = start /\ wal_lock' = wal_lock /\ pc'[t] = "failed" /\ pc[t] = "staged"
        BY <1>1, <3>4 DEF Fails
      <4>2. Table(t)' = Table(t)
        BY <4>1 DEF Table, Seen, SeenBy, Committed
      <4>3. Current' = Current
        <5>1. ~ Commits(t)
          BY <1>1, <4>1 DEF Commits
        <5>2. QED BY <5>1, CurrentStays
      <4>4. /\ Table(t).storage = Current.storage /\ count[Current.storage] = place[t] + Size[t]
            /\ \A i \in (place[t] + 1)..(place[t] + Size[t]) : rows[i] = t
        BY <1>1, <2>1, <2>5 DEF AppendInv, Appended
      <4>5. QED BY <1>6, <2>1, <2>5, <3>2, <4>1, <4>2, <4>3, <4>4 DEF AppendInv, Appended
    <3>5. QED BY <3>1, <3>3, <3>4
  <2>6. QED BY <2>2, <2>3, <2>4, <2>5
<1>7. QED BY <1>5, <1>6

\* An undo makes only the current storage main again.
LEMMA UndoneMain ==
  ASSUME Facts, NEW t \in Txns, Acts(t), Undoes(t), place[t] >= 0 => Table(t).storage = Current.storage
  PROVE  main' \subseteq main \cup {Current.storage}
<1>1. main' = RestoredMain(t)
  BY DEF Undoes, Undo
<1>2. Last(versions).by = t => Last(Front(versions)).storage = Current.storage
  <2>1. ASSUME Last(versions).by = t PROVE Last(Front(versions)) = Current
    <3>1. versions \in Seq(Versions) /\ Len(versions) >= 2 /\ Current = versions[Len(versions) - 1]
      BY <2>1, Actor DEF Facts, Chained, Topped
    <3>2. QED BY <3>1, FrontIs
  <2>2. QED BY <2>1
<1>3. RestoredMain(t) \subseteq main \cup {Current.storage}
  BY <1>2 DEF RestoredMain
<1>4. QED BY <1>1, <1>3

\* While a copy is not committed, both storages have the same rows.
CopySame(t) ==
  pc[t] \in Installed \cup {"installing"} =>
      \/ base[t] \in main
      \/ count[t] = count[base[t]]
      \/ \E u \in Txns \ {t} : base[u] = base[t]

\* The table that a transaction sees is not changed by its own steps, other than the
\* installation and the commit or undo.
LEMMA OwnTable ==
  ASSUME NEW t, UNCHANGED <<versions, start, committed_at>>
  PROVE  Table(t)' = Table(t)
  BY DEF Table, Seen, SeenBy, Committed

\* Copies of others.
LEMMA OthersCopy ==
  ASSUME Facts, Facts', LockInv, LineageInv, \A w \in Txns : CopyInv(w) /\ CopyOf(w), \A w \in Txns : AppendInv(w),
         NEW t \in Txns, Begin(t) \/ GiveUp(t) \/ Step(t), Acts(t), NEW u \in Txns, u # t
  PROVE  CopyInv(u)'
<1>1. /\ pc'[u] = pc[u] /\ op'[u] = op[u] /\ base'[u] = base[u] /\ start'[u] = start[u]
      /\ t \in Writers /\ u \in Writers /\ ~ Committed(t) /\ t # None
      /\ Committed(u) <=> pc[u] = "committed"
      /\ base[u] # None => base[u] \in Writers
  <2>1. t \in Writers /\ u \in Writers /\ ~ Committed(t) /\ t # None /\ (Committed(u) <=> pc[u] = "committed")
    BY Actor DEF Writers
  <2>2. base[u] # None => base[u] \in Writers
    BY DEF CopyOf
  <2>3. QED BY <2>1, <2>2, ActsApart, Actor DEF Apart
<1>2. \A w \in Writers : Committed(w)' <=> Committed(w) \/ (w = t /\ Commits(t))
  BY CommittedNow
<1>3. ~ Committed(u) => /\ Last(versions').by = u <=> Last(versions).by = u
                        /\ Last(versions).by = u => versions' = versions
  BY OthersUndisturbed DEF Undisturbed, Facts
<1>4. /\ ~ Commits(t) => Current' = Current
      /\ Commits(t) => Current' = IF Last(versions).by = t THEN Last(versions) ELSE Current
  BY CurrentStays
<1>5. Committed(Current.storage) /\ Current.storage \in Writers /\ Current.storage # t
  BY <1>1, StoragesSeen
<1>6. base[u] # None => Committed(base[u]) /\ base[u] # t
  BY <1>1 DEF CopyOf
<1>7. ~ Committed(u) /\ Last(versions).by = u => Current' = Current
  BY <1>1, <1>4
<1>8. base[u] # None => Before(base[u], start[u])'
  <2>1. base[u] # None => pc[u] # "idle" /\ Before(base[u], start[u])
    BY DEF CopyOf, CopyInv
  <2>2. base[u] # None => (Before(base[u], start[u])' <=> base'[u] # None /\ Before(base[u], start[u]))
    <3>1. ASSUME base[u] # None, NEW b \in Writers, b = base[u] PROVE Before(b, start[u])' <=> Before(b, start[u])
      BY <2>1, <3>1, SeenStays
    <3>2. QED BY <1>1, <3>1 DEF Before, Committed
  <2>3. QED BY <1>1, <2>1, <2>2
<1>9. pc[u] = "installing" => Table(u)' = Table(u)
  BY TableStays
<1>10. ASSUME base[u] # None, pc[u] = "committed"
       PROVE  base[u] \notin main' /\ base[u] # Current'.storage
  <2>1. base[u] \notin main /\ base[u] # Current.storage
    BY <1>10 DEF CopyOf
  <2>2. base[u] \notin main'
    <3>1. CASE Copies(t)
      BY <1>6, <1>10, <2>1, <3>1, StoragesNow
    <3>2. CASE Undoes(t)
      <4>1. place[t] >= 0 => Table(t).storage = Current.storage
        BY <3>2, UndoesAppend
      <4>2. main' \subseteq main \cup {Current.storage}
        BY <3>2, <4>1, UndoneMain
      <4>3. QED BY <2>1, <4>2
    <3>3. QED BY <2>1, <3>1, <3>2, StoragesNow
  <2>3. base[u] # Current'.storage
    <3>1. CASE Commits(t) /\ Last(versions).by = t
      <4>1. Table(t) = Last(versions) /\ pc[t] \notin {"idle", "committed"}
        BY <3>1 DEF Commits, Facts, Viewed
      <4>2. Last(versions).storage \in {t, Current.storage}
        BY <3>1, <4>1, StoragesSeen
      <4>3. QED BY <1>4, <1>6, <1>10, <2>1, <3>1, <4>2
    <3>2. QED BY <1>4, <2>1, <3>1
  <2>4. QED BY <2>2, <2>3
<1>11. base[u] # None /\ pc[u] # "committed" => u \in main'
  <2>1. ASSUME base[u] # None, pc[u] # "committed" PROVE u \in main'
    <3>1. u \in main
      BY <2>1 DEF CopyOf
    <3>2. CASE Copies(t)
      <4>1. Last(versions).by # t /\ pc[t] \notin {"idle", "committed"}
        BY <3>2, Actor DEF Copies
      <4>2. Committed(Table(t).storage)
        BY <4>1, StoragesSeen
      <4>3. QED BY <1>1, <2>1, <3>1, <3>2, <4>2, StoragesNow
    <3>3. QED BY <3>1, <3>2, StoragesNow
  <2>2. QED BY <2>1
<1>12. ASSUME base[u] # None, pc[u] \in Installed \cup {"installing"}
       PROVE  \/ base[u] \in main'
              \/ count'[u] = count'[base[u]]
              \/ \E w \in Txns \ {u} : base'[w] = base[u]
  <2>1. CopySame(u) /\ ~ Committed(u) /\ u # Current.storage
    BY <1>1, <1>5, <1>12 DEF CopyInv, CopySame, Installed
  <2>2. CASE Copies(t)
    <3>1. base[t] = None
      BY <2>2 DEF Copies, CopyOf, Installed
    <3>2. base'[t] = Table(t).storage /\ \A w \in Txns \ {t} : base'[w] = base[w]
      BY <2>2, BaseNow
    <3>3. CASE Table(t).storage = base[u]
      BY <1>1, <3>2, <3>3
    <3>4. CASE Table(t).storage # base[u]
      <4>1. base[u] \in main => base[u] \in main'
        BY <2>2, <3>4, StoragesNow
      <4>2. count'[u] = count[u] /\ count'[base[u]] = count[base[u]]
        BY <1>1, <1>6, <1>12, <2>2, StoragesNow
      <4>3. QED BY <1>1, <1>12, <2>1, <3>1, <3>2, <4>1, <4>2 DEF CopySame
    <3>5. QED BY <3>3, <3>4
  <2>3. CASE Appends(t)
    <3>1. Table(t).storage = Current.storage /\ Current.storage \in main /\ main' = main /\ base' = base
      BY <2>3, AppendsToCurrent DEF Appends, AppendRows
    <3>2. CASE base[u] = Current.storage
      BY <3>1, <3>2
    <3>3. CASE base[u] # Current.storage
      <4>1. count'[u] = count[u] /\ count'[base[u]] = count[base[u]]
        BY <1>1, <1>12, <2>1, <2>3, <3>1, <3>3, AppendsNow
      <4>2. QED BY <1>12, <2>1, <3>1, <4>1 DEF CopySame
    <3>4. QED BY <3>2, <3>3
  <2>4. CASE Undoes(t)
    <3>1. main \subseteq main' /\ (Last(versions).by = t => Current.storage \in main')
      BY <2>4, StoragesNow
    <3>2. \A w \in Txns \ {t} : base'[w] = base[w]
      BY BaseNow
    <3>3. base[t] = base[u] => base[u] \in main'
      <4>1. pc[t] \in Installed
        BY <2>4 DEF Undoes, Installed
      <4>2. QED BY <1>12, <3>1, <4>1 DEF CopyOf
    <3>4. \/ base[u] \in main'
          \/ count'[u] = count[u] /\ count'[base[u]] = count[base[u]]
      <4>1. CASE place[t] >= 0
        <5>1. Table(t).storage = Current.storage /\ Current.storage \in main'
          BY <2>4, <4>1, UndoesAppend, StoragesNow
        <5>2. \A w \in Writers : w # Current.storage => count'[w] = count[w]
          BY <2>4, <5>1, StoragesNow
        <5>3. QED BY <1>1, <1>12, <2>1, <5>1, <5>2
      <4>2. CASE place[t] < 0
        BY <1>1, <1>12, <2>4, <4>2, StoragesNow
      <4>3. place[t] \in Int
        BY Actor DEF TypeOK
      <4>4. QED BY <4>1, <4>2, <4>3
    <3>5. QED BY <1>1, <1>12, <2>1, <3>1, <3>2, <3>3, <3>4 DEF CopySame
  <2>5. CASE ~ Copies(t) /\ ~ Appends(t) /\ ~ Undoes(t)
    <3>1. main' = main /\ count' = count /\ \A w \in Txns : base'[w] = base[w]
      BY <2>5, StoragesNow, BaseNow
    <3>2. QED BY <1>12, <2>1, <3>1 DEF CopySame
  <2>6. QED BY <2>2, <2>3, <2>4, <2>5
<1>13. pc[u] = "installing" /\ base[u] # None => base[u] = Table(u).storage
  BY DEF CopyInv
<1>14. base[u] # None => /\ op[u].kind \in {"create", "drop"}
                         /\ pc[u] \in Installed \cup {"installing", "committed", "aborted"}
                         /\ pc[u] \in Installed => Last(versions).by = u /\ base[u] = Current.storage
  BY DEF CopyOf
<1>15. pc[u] \in Installed => ~ Committed(u)
  BY <1>1 DEF Installed
<1>16. base[u] # None => /\ pc[u] \in Installed => Last(versions').by = u /\ base[u] = Current'.storage
  BY <1>3, <1>7, <1>14, <1>15
<1>17. pc[u] = "installing" /\ base[u] = None => op[u].kind = "alter"
  BY DEF CopyOf
<1>18. Last(versions').by = u /\ ~ Committed(u)' /\ base[u] = None =>
          op[u].kind = "alter" /\ Last(versions').storage = Current'.storage
  <2>1. ~ Committed(u)' => ~ Committed(u)
    BY <1>1, <1>2
  <2>2. Last(versions).by = u /\ ~ Committed(u) /\ base[u] = None =>
          op[u].kind = "alter" /\ Last(versions).storage = Current.storage
    BY DEF CopyOf
  <2>3. QED BY <1>3, <1>7, <2>1, <2>2 DEF Last
<1>19. QED BY <1>1, <1>8, <1>9, <1>10, <1>11, <1>12, <1>13, <1>14, <1>16, <1>17, <1>18 DEF CopyInv, Last

\* The copy of the statement that takes the step.
LEMMA OwnCopy ==
  ASSUME Facts, Facts', LockInv, LineageInv, \A w \in Txns : CopyInv(w) /\ CopyOf(w), \A w \in Txns : AppendInv(w),
         NEW t \in Txns, Begin(t) \/ GiveUp(t) \/ Step(t), Acts(t)
  PROVE  CopyInv(t)'
<1>1. /\ t \in Writers /\ ~ Committed(t) /\ t # None /\ pc[t] \notin {"committed", "aborted"}
      /\ DOMAIN pc = Txns
      /\ pc[t] \notin Installed => Last(versions).by # t
  BY Actor DEF TypeOK, Installed
<1>2. Committed(Current.storage) /\ Current.storage \in Writers /\ Current.storage # t
  BY <1>1, StoragesSeen
<1>3. base[t] # None => /\ op[t].kind \in {"create", "drop"} /\ Before(base[t], start[t])
                        /\ Committed(base[t]) /\ base[t] # t
                        /\ pc[t] \in Installed \cup {"installing"}
                        /\ pc[t] = "installing" => base[t] = Table(t).storage
                        /\ pc[t] \in Installed => Last(versions).by = t /\ base[t] = Current.storage
                        /\ t \in main
                        /\ CopySame(t)
  BY <1>1 DEF CopyInv, CopyOf, CopySame
<1>4. /\ pc[t] = "installing" /\ base[t] = None => op[t].kind = "alter"
      /\ Last(versions).by = t /\ base[t] = None =>
            op[t].kind = "alter" /\ Last(versions).storage = Current.storage
  BY <1>1 DEF CopyOf
<1>5. CASE Begin(t)
  <2>1. base' = base /\ versions' = versions /\ pc'[t] = "begun" /\ base[t] = None /\ Last(versions).by # t
    BY <1>1, <1>3, <1>5 DEF Begin, Goto, columnVars, catalogVars, Installed
  <2>2. QED BY <2>1 DEF CopyInv, Last
<1>6. CASE Scans(t)
  <2>1. base' = base /\ versions' = versions /\ pc'[t] = "asking" /\ base[t] = None /\ Last(versions).by # t
    BY <1>1, <1>3, <1>6 DEF Scans, Installed
  <2>2. QED BY <2>1 DEF CopyInv, Last
<1>7. CASE Moves(t) \/ Locks(t) \/ Fails(t)
  <2>1. /\ UNCHANGED <<op, start, committed_at, versions, main, count, base>>
        /\ Current' = Current /\ Table(t)' = Table(t)
    <3>1. UNCHANGED <<op, start, committed_at, versions, main, count, base>>
      BY <1>7 DEF Moves, Locks, Fails
    <3>2. ~ Commits(t)
      <4>1. pc'[t] # "committed"
        BY <1>1, <1>7 DEF Moves, Locks, Fails
      <4>2. QED BY <1>1, <4>1 DEF Commits
    <3>3. QED BY <3>1, <3>2, CurrentStays, OwnTable
  <2>2. /\ pc'[t] # "committed"
        /\ pc[t] \in Installed => pc'[t] \in Installed \/ (pc'[t] = "aborted" /\ op[t].kind = "insert")
        /\ pc[t] = "installing" => pc'[t] = "aborted"
        /\ pc'[t] = "installing" => op[t].kind = "alter" /\ pc[t] = "begun"
        /\ pc'[t] \in Installed => pc[t] # "installing"
    <3>1. CASE Moves(t)
      <4>1. PICK l \in Labels :
              /\ pc' = [pc EXCEPT ![t] = l]
              /\ \/ pc[t] = "asking" /\ l \in {"adding", "aborted"}
                 \/ pc[t] = "begun" /\ l \in {"removing", "ready", "aborted"}
                 \/ pc[t] = "begun" /\ l = "installing" /\ op[t].kind = "alter"
                 \/ pc[t] = "adding" /\ l = "creating"
                 \/ pc[t] = "removing" /\ l = "dropping"
                 \/ pc[t] \in {"creating", "dropping"} /\ l \in {"ready", "failed"}
                 \/ pc[t] = "installing" /\ l = "aborted"
                 \/ pc[t] = "ready" /\ l = "aborted" /\ op[t].kind = "insert"
        BY <3>1 DEF Moves
      <4>2. pc'[t] = l
        BY <1>1, <4>1
      <4>3. QED BY <4>1, <4>2 DEF Installed
    <3>2. CASE Locks(t) \/ Fails(t)
      <4>1. pc[t] \in {"ready", "staged"} /\ pc'[t] \in {"staged", "failed"}
        BY <1>1, <3>2 DEF Locks, Fails
      <4>2. QED BY <4>1 DEF Installed
    <3>3. QED BY <1>7, <3>1, <3>2
  <2>3. Before(base[t], start[t])' <=> Before(base[t], start[t])
    BY <2>1 DEF Before, Committed
  <2>4. Last(versions)' = Last(versions) /\ (Committed(t)' <=> Committed(t))
    BY <2>1 DEF Last, Committed
  <2>5. CASE base[t] # None
    <3>1. pc'[t] \in Installed \cup {"aborted"} /\ (pc'[t] \in Installed => pc[t] \in Installed)
      BY <1>3, <2>2, <2>5 DEF Installed
    <3>2. pc'[t] \in Installed => CopySame(t)'
      BY <1>3, <2>1, <2>5, <3>1 DEF CopySame
    <3>3. QED BY <1>3, <2>1, <2>3, <2>4, <2>5, <3>1, <3>2 DEF CopyInv, CopySame, Installed
  <2>6. CASE base[t] = None
    BY <1>1, <1>4, <2>1, <2>2, <2>4, <2>6 DEF CopyInv
  <2>7. QED BY <2>5, <2>6
<1>8. CASE Copies(t)
  <2>1. /\ UNCHANGED <<op, start, committed_at, versions>> /\ pc'[t] = "installing" /\ pc[t] \in {"adding", "removing"}
    BY <1>1, <1>8 DEF Copies
  <2>2. Table(t)' = Table(t) /\ Last(versions)' = Last(versions) /\ Last(versions).by # t
    BY <1>1, <2>1, OwnTable DEF Last, Installed
  <2>3. Table(t).storage \in Writers /\ Before(Table(t).storage, start[t])
    BY <2>1, <2>2, StoragesSeen DEF Before
  <2>4. op[t].kind \in {"create", "drop"}
    BY <2>1 DEF Facts, IInv, CatalogInv, TxnInv, StatementInv
  <2>5. base'[t] = Table(t).storage /\ t \in main' /\ count'[t] = count'[Table(t).storage] /\ base'[t] # None
    <3>1. Table(t).storage # t
      BY <1>1, <2>3 DEF Before
    <3>2. Table(t).storage # None
      BY <2>3, Actor
    <3>3. QED BY <1>8, <2>3, <3>1, <3>2, BaseNow, StoragesNow
  <2>6. Before(Table(t).storage, start[t])'
    BY <2>1, <2>2, <2>3 DEF Before, Committed
  <2>7. Before(base[t], start[t])'
    BY <2>2, <2>5, <2>6 DEF Before, Committed
  <2>8. QED BY <2>1, <2>2, <2>4, <2>5, <2>7 DEF CopyInv, Installed
<1>9. CASE Installs(t)
  <2>1. /\ UNCHANGED <<op, start, committed_at, main, count, base>> /\ pc[t] = "installing" /\ pc'[t] = Continue(t)
    BY <1>1, <1>9 DEF Installs
  <2>2. Continue(t) \in Installed
    BY DEF Continue, Installed
  <2>3. /\ Current = Last(versions) /\ Table(t) = Last(versions) /\ Last(versions') = Altered(t, Last(versions))
        /\ Current' = Current /\ Last(versions) \in Versions
    <3>1. ~ Commits(t)
      BY <2>1 DEF Commits
    <3>2. QED BY <1>9, <3>1, VersionsNow, CurrentStays DEF Facts, Chained
  <2>4. /\ Last(versions')= Last(versions)' /\ Last(versions').by = t
        /\ op[t].kind = "alter" => Last(versions').storage = Current.storage
    BY <2>1, <2>3, AlteredIs DEF Last
  <2>5. Before(base[t], start[t])' <=> Before(base[t], start[t])
    BY <2>1 DEF Before, Committed
  <2>6. CASE base[t] # None
    <3>1. base[t] = Current.storage
      BY <1>3, <2>1, <2>3, <2>6 DEF Installed
    <3>2. CopySame(t)'
      BY <1>3, <2>1, <2>6 DEF CopySame
    <3>3. QED BY <1>3, <2>1, <2>2, <2>3, <2>4, <2>5, <2>6, <3>1, <3>2 DEF CopyInv, CopySame, Installed
  <2>7. CASE base[t] = None
    BY <1>4, <2>1, <2>2, <2>3, <2>4, <2>7 DEF CopyInv, Installed
  <2>8. QED BY <2>6, <2>7
<1>10. CASE Appends(t)
  <2>1. base' = base /\ versions' = versions /\ pc'[t] = "staged" /\ base[t] = None /\ Last(versions).by # t
    BY <1>1, <1>10, AppendsToCurrent DEF Appends
  <2>2. QED BY <2>1 DEF CopyInv, Last
<1>11. CASE Commits(t)
  <2>1. /\ UNCHANGED <<op, start, versions, main, count, base>> /\ pc[t] = "staged" /\ pc'[t] = "committed" /\ ~ Refused(t)
    BY <1>1, <1>11 DEF Commits
  <2>2. Committed(t)'
    BY <1>1, <1>11, CommittedNow
  <2>3. CASE base[t] = None
    BY <2>1, <2>2, <2>3 DEF CopyInv
  <2>4. CASE base[t] # None
    <3>1. base[t] \notin main /\ pc[t] \in Installed /\ op[t].kind \in {"create", "drop"}
      BY <1>3, <2>1, <2>4 DEF Refused, Installed
    <3>2. Last(versions).by = t /\ base[t] = Current.storage /\ Current' = Last(versions)
      BY <1>3, <1>11, <2>4, <3>1, CurrentStays
    <3>3. Last(versions).storage = t
      <4>1. Line(Last(versions))
        BY LinesAre DEF Facts, Chained
      <4>2. QED BY <3>1, <3>2, <4>1 DEF Line
    <3>4. Before(base[t], start[t])'
      <4>1. base[t] \in Writers
        BY <2>4 DEF CopyOf
      <4>2. ASSUME NEW b \in Writers, b = base[t] PROVE Before(b, start[t])'
        <5>1. committed_at'[b] = committed_at[b]
          BY <1>3, <2>4, <4>2, CommittedNow
        <5>2. QED BY <1>3, <2>1, <2>4, <4>2, <5>1 DEF Before, Committed
      <4>3. QED BY <2>1, <4>1, <4>2 DEF Before, Committed
    <3>5. QED BY <1>3, <2>1, <2>2, <2>4, <3>1, <3>2, <3>3, <3>4 DEF CopyInv, Installed
  <2>5. QED BY <2>3, <2>4
<1>12. CASE Undoes(t)
  <2>1. base'[t] = None /\ pc'[t] = "aborted"
    <3>1. pc' = [pc EXCEPT ![t] = "aborted"]
      BY <1>12 DEF Undoes, Undo, Goto
    <3>2. QED BY <1>1, <1>12, <3>1, BaseNow
  <2>2. Last(versions').by # t
    <3>1. Len(versions') \in DOMAIN versions' /\ Last(versions') = versions'[Len(versions')]
      BY DEF Facts, Chained, Last
    <3>2. ~ Installs(t)
      BY <1>12 DEF Undoes, Installs
    <3>3. QED BY <1>12, <3>1, <3>2, VersionsNow
  <2>3. QED BY <2>1, <2>2 DEF CopyInv, Last
<1>13. QED BY <1>5, <1>6, <1>7, <1>8, <1>9, <1>10, <1>11, <1>12 DEF Acts

\* Once one of two rivals has committed, the other one cannot forget its copy.
LEMMA RivalStays ==
  ASSUME Facts, \A w \in Txns : CopyOf(w), NEW t \in Txns, Acts(t), RivalCommitted
  PROVE  RivalCommitted'
<1>1. PICK r \in Txns, u \in Txns : r # u /\ Committed(r) /\ base[r] # None /\ base[u] = base[r]
  BY DEF RivalCommitted
<1>2. /\ r # t /\ r \in Writers /\ t \in Writers /\ pc[r] = "committed"
  BY <1>1, Actor DEF Writers
<1>3. Committed(r)' /\ base'[r] = base[r]
  BY <1>1, <1>2, CommittedNow, BaseNow
<1>4. base'[u] = base[u]
  <2>1. CASE u # t
    BY <2>1, BaseNow
  <2>2. CASE u = t
    <3>1. pc[t] \in Installed \cup {"installing"}
      BY <1>1, <2>2, Actor DEF CopyOf
    <3>2. ~ Copies(t)
      BY <3>1 DEF Copies, Installed
    <3>3. ~ Undoes(t)
      <4>1. ASSUME Undoes(t) PROVE FALSE
        <5>1. base[t] = Current.storage
          BY <1>1, <2>2, <4>1 DEF Undoes, Installed, CopyOf
        <5>2. base[r] # Current.storage
          BY <1>1, <1>2 DEF CopyOf
        <5>3. QED BY <1>1, <2>2, <5>1, <5>2
      <4>2. QED BY <4>1
    <3>4. QED BY <2>2, <3>2, <3>3, BaseNow
  <2>3. QED BY <2>1, <2>2
<1>5. QED BY <1>1, <1>3, <1>4 DEF RivalCommitted

\* WritableInv for the storage s that stays the current one.
Replaced(s) == \E w \in Txns : base[w] = s /\ pc[w] \in Installed \cup {"installing"}

LEMMA LostCopyStays ==
  ASSUME Facts, Facts', \A w \in Txns : CopyOf(w), NEW t \in Txns, Acts(t), NEW s \in Writers, LostCopy(s),
         s = Current.storage
  PROVE  s \in main' \/ LostCopy(s)'
<1>1. PICK w \in Txns : base[w] = s /\ pc[w] = "aborted"
  BY DEF LostCopy
<1>2. PICK i \in DOMAIN versions : versions[i].storage = s /\ versions[i].by \in Txns
                                   /\ op[versions[i].by].kind = "alter"
  BY DEF LostCopy
<1>3. w # t /\ base'[w] = base[w] /\ pc'[w] = pc[w]
  <2>1. w # t
    BY <1>1, Actor
  <2>2. QED BY <2>1, ActsApart, Actor DEF Apart
<1>4. op'[versions[i].by] = op[versions[i].by]
  <2>1. CASE versions[i].by # t
    BY <1>2, <2>1, ActsApart, Actor DEF Apart
  <2>2. CASE versions[i].by = t
    <3>1. pc[t] # "idle"
      BY <1>2, <2>2, Actor
    <3>2. QED BY <2>2, <3>1, SameStatement
  <2>3. QED BY <2>1, <2>2
<1>5. CASE i \in DOMAIN versions' /\ versions'[i] = versions[i]
  BY <1>1, <1>2, <1>3, <1>4, <1>5 DEF LostCopy
<1>6. CASE ~ (i \in DOMAIN versions' /\ versions'[i] = versions[i])
  <2>1. versions' # versions
    BY <1>2, <1>6
  <2>2. Installs(t) \/ Undoes(t)
    BY <2>1 DEF Acts, Begin, Scans, Moves, Copies, Locks, Appends, Fails, Commits, catalogVars
  <2>3. /\ versions \in Seq(Versions) /\ Len(versions) \in Nat
    BY DEF Facts, Chained
  <2>4. ~ Installs(t)
    <3>1. ASSUME Installs(t) PROVE FALSE
      <4>1. versions' = Append(versions, Altered(t, Table(t)))
        BY <3>1 DEF Installs
      <4>2. QED BY <1>2, <1>6, <2>3, <4>1
    <3>2. QED BY <3>1
  <2>5. versions' = Undone(t, versions)
    BY <2>2, <2>4 DEF Undoes, Undo
  <2>6. Last(versions).by = t
    BY <2>1, <2>5 DEF Undone
  <2>7. QED BY <1>1, <2>2, <2>4, <2>6, StoragesNow
<1>7. QED BY <1>5, <1>6

\* A statement that has copied the table and finds another version on top.
LEMMA Loses ==
  ASSUME Facts, Facts', LineageInv, \A w \in Txns : CopyInv(w) /\ CopyOf(w), NEW t \in Txns, Acts(t), Moves(t),
         pc[t] = "installing", base[t] = Current.storage
  PROVE  Replaced(Current.storage)' \/ LostCopy(Current.storage)'
<1>1. /\ UNCHANGED <<op, committed_at, versions, base, start>> /\ Conflict(t, Last(versions).by)
      /\ pc' = [pc EXCEPT ![t] = "aborted"] /\ pc'[t] = "aborted"
  <2>1. DOMAIN pc = Txns
    BY Actor DEF TypeOK
  <2>2. QED BY <2>1 DEF Moves
<1>2. Current' = Current /\ Current.storage \in Writers /\ Committed(Current.storage)
  <2>1. ~ Commits(t)
    BY DEF Commits
  <2>2. Current' = Current
    BY <2>1, CurrentStays
  <2>3. Current.storage \in Writers /\ Committed(Current.storage)
    BY StoragesSeen
  <2>4. QED BY <2>2, <2>3
<1> DEFINE x == Last(versions).by
<1>3. /\ x # t /\ x \in Writers /\ Len(versions) \in DOMAIN versions /\ Last(versions) = versions[Len(versions)]
      /\ ~ Committed(x) \/ committed_at[x] > start[t]
      /\ Line(Last(versions))
  <2>1. Len(versions) \in DOMAIN versions /\ Last(versions) = versions[Len(versions)] /\ x \in Writers
    BY DEF Facts, Chained
  <2>2. QED BY <1>1, <2>1, LinesAre DEF Conflict
<1>4. base[t] # None
  BY <1>2, Actor
<1>5. ASSUME x \in Txns, op[x].kind = "alter", Last(versions).storage = Current.storage
      PROVE  LostCopy(Current.storage)'
  <2>1. base'[t] = Current.storage /\ pc'[t] = "aborted"
    BY <1>1
  <2>2. versions'[Len(versions)].storage = Current.storage /\ versions'[Len(versions)].by = x
    BY <1>1, <1>3, <1>5
  <2>3. QED BY <1>1, <1>2, <1>3, <1>5, <2>1, <2>2 DEF LostCopy
<1>6. CASE ~ Committed(x)
  <2>1. x \in Txns /\ pc[x] \in Installed
    <3>1. x \in Txns
      BY <1>6 DEF Facts, Chained
    <3>2. VersionInv(x)
      BY <3>1 DEF Facts, IInv, CatalogInv, TxnInv
    <3>3. QED BY <1>6, <3>1, <3>2 DEF VersionInv, Installed
  <2>2. CASE base[x] # None
    <3>1. base[x] = Current.storage
      BY <2>1, <2>2 DEF CopyOf
    <3>2. pc'[x] = pc[x]
      BY <1>3, <2>1, ActsApart, Actor DEF Apart
    <3>3. QED BY <1>1, <1>2, <2>1, <3>1, <3>2 DEF Replaced
  <2>3. CASE base[x] = None
    BY <1>5, <1>6, <2>1, <2>3 DEF CopyOf
  <2>4. QED BY <2>2, <2>3
<1>7. CASE Committed(x)
  <2>1. Current = Last(versions) /\ committed_at[x] > start[t]
    BY <1>3, <1>7 DEF Facts, Topped
  <2>2. Current.storage # x
    <3>1. committed_at[Current.storage] < start[t]
      BY <1>4 DEF CopyOf
    <3>2. committed_at[x] \in Nat /\ start[t] \in Nat
      BY <1>3, Actor DEF TypeOK
    <3>3. QED BY <2>1, <3>1, <3>2
  <2>3. x \in Txns /\ op[x].kind = "alter"
    BY <1>3, <2>1, <2>2 DEF Line
  <2>4. QED BY <1>5, <2>1, <2>3
<1>8. QED BY <1>6, <1>7

LEMMA WritableStep ==
  ASSUME Facts, Facts', LockInv, LineageInv, \A w \in Txns : CopyInv(w) /\ CopyOf(w), WritableInv,
         NEW t \in Txns, Acts(t)
  PROVE  WritableInv'
<1>1. /\ t \in Writers /\ ~ Committed(t) /\ DOMAIN pc = Txns /\ t # None
      /\ Current.storage \in Writers /\ Committed(Current.storage) /\ Current.storage # t
  BY StoragesSeen, Actor DEF TypeOK
<1>2. Current.storage \in main \/ Replaced(Current.storage) \/ LostCopy(Current.storage)
  BY DEF WritableInv, Replaced
<1>3. SUFFICES ASSUME NEW c \in Writers, c = Current'.storage
               PROVE  c \in main' \/ Replaced(c)' \/ LostCopy(c)'
  <2>1. Current'.storage \in Writers
    BY DEF Facts, Topped
  <2>2. QED BY <2>1 DEF WritableInv, Replaced, LostCopy
<1>4. PICK s \in Writers : s = Current.storage
  BY <1>1
<1>5. CASE Commits(t) /\ Last(versions).by = t /\ base[t] # None
  <2>1. Current' = Last(versions) /\ main' = main /\ t \in main /\ op[t].kind \in {"create", "drop"}
    BY <1>1, <1>5, CurrentStays, Actor DEF Commits, CopyOf
  <2>2. Last(versions).storage = t
    <3>1. Line(Last(versions))
      BY LinesAre DEF Facts, Chained
    <3>2. QED BY <1>5, <2>1, <3>1 DEF Line
  <2>3. QED BY <1>3, <2>1, <2>2
<1>6. CASE ~ (Commits(t) /\ Last(versions).by = t /\ base[t] # None)
  <2>1. c = s
    <3>1. CASE Commits(t) /\ Last(versions).by = t
      <4>1. Current' = Last(versions) /\ Last(versions).storage = Current.storage
        BY <1>1, <1>6, <3>1, CurrentStays DEF CopyOf
      <4>2. QED BY <1>3, <1>4, <4>1
    <3>2. CASE ~ (Commits(t) /\ Last(versions).by = t)
      BY <1>3, <1>4, <3>2, CurrentStays
    <3>3. QED BY <3>1, <3>2
  <2>2. CASE s \in main
    <3>1. CASE Copies(t) /\ Table(t).storage = s
      <4>1. base'[t] = s /\ pc'[t] = "installing"
        BY <1>1, <3>1, BaseNow DEF Copies
      <4>2. QED BY <2>1, <4>1 DEF Replaced
    <3>2. CASE ~ (Copies(t) /\ Table(t).storage = s)
      BY <2>1, <2>2, <3>2, StoragesNow
    <3>3. QED BY <3>1, <3>2
  <2>3. CASE LostCopy(s)
    <3>1. s \in main' \/ LostCopy(s)'
      BY <1>4, <2>3, LostCopyStays
    <3>2. QED BY <2>1, <3>1
  <2>4. ASSUME NEW w \in Txns, base[w] = s, pc[w] \in Installed \cup {"installing"}
        PROVE  s \in main' \/ Replaced(s)' \/ LostCopy(s)'
    <3>1. CASE w # t
      <4>1. base'[w] = s /\ pc'[w] = pc[w]
        BY <2>4, <3>1, ActsApart, Actor DEF Apart
      <4>2. QED BY <2>4, <4>1 DEF Replaced
    <3>2. CASE w = t
      <4>1. base[t] = Current.storage /\ base[t] # None /\ op[t].kind \in {"create", "drop"}
        BY <1>1, <1>4, <2>4, <3>2, Actor DEF CopyOf
      <4>2. ~ Begin(t) /\ ~ Scans(t) /\ ~ Copies(t)
        BY <2>4, <3>2 DEF Begin, Scans, Copies, Installed
      <4>3. CASE Undoes(t)
        <5>1. Last(versions).by = t
          BY <4>1, <4>3 DEF Undoes, CopyOf, Installed
        <5>2. QED BY <1>4, <4>3, <5>1, StoragesNow
      <4>4. CASE Commits(t)
        <5>1. Last(versions).by = t
          BY <4>1, <4>4 DEF Commits, CopyOf, Installed
        <5>2. QED BY <1>6, <4>1, <4>4, <5>1
      <4>5. CASE Moves(t) /\ pc[t] = "installing"
        <5>1. Replaced(Current.storage)' \/ LostCopy(Current.storage)'
          BY <4>1, <4>5, Loses
        <5>2. Current' = Current
          <6>1. ~ Commits(t)
            BY <4>5 DEF Commits
          <6>2. QED BY <6>1, CurrentStays
        <5>3. QED BY <1>4, <5>1, <5>2 DEF Replaced, LostCopy
      <4>6. CASE ~ Undoes(t) /\ ~ Commits(t) /\ ~ (Moves(t) /\ pc[t] = "installing")
        <5>1. pc'[t] \in Installed
          <6>1. CASE Moves(t)
            <7>1. PICK l \in Labels : pc' = [pc EXCEPT ![t] = l] /\ (l \in {"ready", "failed"} \/ op[t].kind = "insert")
              BY <2>4, <3>2, <4>6, <6>1 DEF Moves, Installed
            <7>2. QED BY <1>1, <4>1, <7>1 DEF Installed
          <6>2. CASE Installs(t)
            BY <1>1, <6>2 DEF Installs, Continue, Installed
          <6>3. CASE Locks(t) \/ Appends(t) \/ Fails(t)
            BY <1>1, <6>3 DEF Locks, Appends, Fails, Installed
          <6>4. QED BY <4>2, <4>6, <6>1, <6>2, <6>3 DEF Acts
        <5>2. base'[t] = s
          BY <2>4, <3>2, <4>2, <4>6, BaseNow
        <5>3. QED BY <5>1, <5>2 DEF Replaced
      <4>7. QED BY <4>3, <4>4, <4>5, <4>6
    <3>3. QED BY <3>1, <3>2
  <2>5. CASE Replaced(s)
    <3>1. s \in main' \/ Replaced(s)' \/ LostCopy(s)'
      BY <2>4, <2>5 DEF Replaced
    <3>2. QED BY <2>1, <3>1
  <2>6. QED BY <1>2, <1>4, <2>2, <2>3, <2>5
<1>7. QED BY <1>5, <1>6
-----------------------------------------------------------------------------
(* The rows. *)

\* Everything that is proved so far of the storages.
Stored ==
  /\ LockInv /\ LineageInv /\ OriginInv /\ WritableInv
  /\ \A w \in Txns : CopyInv(w) /\ CopyOf(w)
  /\ \A w \in Txns : AppendInv(w)

\* The rows of the current storage, as a number that is not the state's.
Rows(n) == n = count[Current.storage]

LEMMA CountIs ==
  ASSUME Facts
  PROVE  /\ count[Current.storage] \in Nat /\ count[Current.storage] <= Len(rows)
         /\ DOMAIN rows = 1..Len(rows) /\ Len(rows) \in Nat
         /\ \A i \in DOMAIN rows : rows[i] \in Writers
         /\ \A w \in Writers : count[w] \in Nat /\ count[w] <= Len(rows)
         /\ \A w \in Txns : place[w] \in Int
<1>1. /\ count \in [Writers -> 0..Len(rows)] /\ rows \in Seq(Writers) /\ place \in [Txns -> -1..Len(rows)]
      /\ Current.storage \in Writers
  BY DEF Facts, Topped, IInv, TypeOK
<1>2. QED BY <1>1

LEMMA UndoesOnly ==
  ASSUME Facts, NEW t \in Txns, Acts(t), Undoes(t)
  PROVE  ~ Appends(t) /\ ~ Commits(t) /\ ~ Installs(t) /\ ~ Copies(t)
<1>1. DOMAIN pc = Txns
  BY Actor DEF TypeOK
<1>2. pc' = [pc EXCEPT ![t] = "aborted"]
  BY DEF Undoes, Undo, Goto
<1>3. pc'[t] = "aborted" /\ pc[t] \in {"ready", "failed"}
  BY <1>1, <1>2 DEF Undoes
<1>4. Appends(t) => pc'[t] = "staged"
  BY <1>1 DEF Appends
<1>5. QED BY <1>3, <1>4 DEF Commits, Installs, Copies

\* Whoever has appended rows that are not committed holds the lock.
LEMMA OwnRows ==
  ASSUME Facts, Stored, NEW u \in Txns, pc[u] # "aborted", NEW i \in DOMAIN rows, rows[i] = u
  PROVE  /\ place[u] >= 0 /\ i \in Appended(u) /\ op[u].kind = "insert"
         /\ ~ Committed(u) => wal_lock = u /\ i <= count[Current.storage]
<1>1. place[u] >= 0 /\ i \in Appended(u)
  <2>1. u # Loader
    BY TxnsAssumption
  <2>2. QED BY <2>1 DEF Stored, OriginInv
<1>2. op[u].kind = "insert"
  BY <1>1 DEF Stored, AppendInv
<1>3. ~ Committed(u) => wal_lock = u /\ count[Current.storage] = place[u] + Size[u]
  BY <1>1 DEF Stored, AppendInv
<1>4. i <= place[u] + Size[u]
  BY <1>1, ProgramAssumption, CountIs DEF Appended
<1>5. QED BY <1>1, <1>2, <1>3, <1>4

\* Committed rows are in the current storage.
LEMMA RowsBelow ==
  ASSUME Facts, Stored, ContentInv, NEW i \in DOMAIN rows, Committed(rows[i])
  PROVE  i <= count[Current.storage]
<1>1. rows[i] \in Writers
  BY CountIs
<1>2. CASE rows[i] = Loader
  <2>1. i <= Base /\ Base <= count[Current.storage] /\ Base \in Nat
    BY <1>2, RowsAssumption DEF Stored, OriginInv, ContentInv
  <2>2. QED BY <2>1, CountIs
<1>3. CASE rows[i] # Loader
  <2>1. PICK u \in Txns : u = rows[i]
    BY <1>1, <1>3 DEF Writers
  <2>2. pc[u] # "aborted"
    BY <2>1 DEF Facts, IInv, ClockInv
  <2>3. i \in (place[u] + 1)..(place[u] + Size[u]) /\ op[u].kind = "insert"
    BY <2>1, <2>2, OwnRows DEF Appended
  <2>4. QED BY <2>1, <2>3 DEF ContentInv, RowsKept
<1>4. QED BY <1>2, <1>3

\* The commit of a statement that has copied the table carries over its rows.
LEMMA CountNow ==
  ASSUME Facts, Facts', Stored, ~ RivalCommitted', NEW t \in Txns, Acts(t)
  PROVE  /\ Appends(t) => count'[Current'.storage] = count[Current.storage] + Size[t]
         /\ Undoes(t) /\ place[t] >= 0 =>
               count'[Current'.storage] = place[t] /\ count[Current.storage] = place[t] + Size[t]
         /\ ~ Appends(t) /\ ~ (Undoes(t) /\ place[t] >= 0) => count'[Current'.storage] = count[Current.storage]
<1>1. /\ t \in Writers /\ ~ Committed(t) /\ place[t] \in Int
      /\ Current.storage \in Writers /\ Committed(Current.storage) /\ Current.storage # t
  BY StoragesSeen, Actor, CountIs DEF Stored
<1>2. ~ Commits(t) => Current' = Current
  BY CurrentStays
<1>3. CASE Appends(t)
  <2>1. Table(t).storage = Current.storage /\ ~ Commits(t) /\ ~ Undoes(t)
    <3>1. ~ Undoes(t)
      BY <1>3, UndoesOnly
    <3>2. ~ Commits(t)
      BY <1>3 DEF Appends, Commits
    <3>3. QED BY <1>3, <3>1, <3>2, AppendsToCurrent DEF Stored
  <2>2. QED BY <1>2, <1>3, <2>1, AppendsNow
<1>4. CASE Undoes(t)
  <2>1. ~ Commits(t) /\ ~ Appends(t)
    BY <1>4, UndoesOnly
  <2>2. place[t] >= 0 => /\ Table(t).storage = Current.storage
                         /\ count[Current.storage] = place[t] + Size[t]
    BY <1>4, UndoesAppend DEF Stored
  <2>3. place[t] >= 0 => count'[Current.storage] = place[t]
    BY <1>4, <2>2, StoragesNow
  <2>4. ~ (place[t] >= 0) => count'[Current.storage] = count[Current.storage]
    <3>1. ~ (place[t] >= 0) => place[t] < 0
      BY <1>1
    <3>2. QED BY <1>1, <1>4, <3>1, StoragesNow
  <2>5. QED BY <1>2, <1>4, <2>1, <2>2, <2>3, <2>4
<1>5. CASE Commits(t)
  <2>1. /\ pc[t] = "staged" /\ ~ Refused(t) /\ ~ Copies(t) /\ ~ Undoes(t) /\ ~ Appends(t) /\ count' = count
    BY <1>5 DEF Commits, Copies, Undoes, Appends
  <2>2. CASE Last(versions).by # t
    BY <1>5, <2>1, <2>2, CurrentStays
  <2>3. CASE Last(versions).by = t /\ base[t] = None
    <3>1. Current'.storage = Current.storage
      BY <1>1, <1>5, <2>3, CurrentStays DEF Stored, CopyOf
    <3>2. QED BY <2>1, <3>1
  <2>4. CASE Last(versions).by = t /\ base[t] # None
    <3>1. base[t] = Current.storage /\ base[t] \notin main /\ op[t].kind \in {"create", "drop"} /\ CopySame(t)
          /\ pc[t] \in Installed
      <4>1. pc[t] \in Installed
        BY <2>1 DEF Installed
      <4>2. CopyOf(t) /\ CopyInv(t)
        BY DEF Stored
      <4>3. QED BY <2>1, <2>4, <4>1, <4>2 DEF CopyOf, CopyInv, CopySame, Refused
    <3>2. Current'.storage = t
      <4>1. Line(Last(versions))
        BY LinesAre DEF Stored, Facts, Chained
      <4>2. Last(versions).storage = t
        BY <2>4, <3>1, <4>1 DEF Line
      <4>3. QED BY <1>5, <2>4, <4>2, CurrentStays
    <3>3. ASSUME NEW u \in Txns \ {t}, base[u] = base[t] PROVE FALSE
      <4>1. base'[u] = base[u] /\ base'[t] = base[t] /\ Committed(t)'
        BY <1>1, <1>5, <2>1, <3>3, BaseNow, CommittedNow
      <4>2. RivalCommitted'
        BY <2>4, <3>3, <4>1 DEF RivalCommitted
      <4>3. QED BY <4>2
    <3>4. count[t] = count[base[t]]
      BY <3>1, <3>3 DEF CopySame
    <3>5. QED BY <2>1, <3>1, <3>2, <3>4
  <2>5. QED BY <2>2, <2>3, <2>4
<1>6. CASE ~ Appends(t) /\ ~ Undoes(t) /\ ~ Commits(t)
  BY <1>1, <1>2, <1>6, StoragesNow
<1>7. QED BY <1>3, <1>4, <1>5, <1>6

\* What is not of t stays in the current storage.
LEMMA OthersRows ==
  ASSUME Facts, Facts', Stored, ~ RivalCommitted', NEW t \in Txns, Acts(t),
         NEW i \in 1..count[Current.storage], rows[i] # t \/ ~ Undoes(t)
  PROVE  i \in DOMAIN rows /\ i \in DOMAIN rows' /\ rows'[i] = rows[i] /\ i <= count'[Current'.storage]
<1>1. /\ i \in DOMAIN rows /\ i \in Nat /\ i <= count[Current.storage] /\ count[Current.storage] \in Nat
      /\ place[t] \in Int /\ i >= 1
  BY CountIs
<1>2. CASE Appends(t)
  <2>1. Table(t).storage = Current.storage
    BY <1>2, AppendsToCurrent DEF Stored
  <2>2. i \in DOMAIN rows' /\ (i \notin (count[Current.storage] + 1)..(count[Current.storage] + Size[t]) => rows'[i] = rows[i])
    BY <1>1, <1>2, <2>1, AppendsNow
  <2>3. i \notin (count[Current.storage] + 1)..(count[Current.storage] + Size[t])
    BY <1>1, ProgramAssumption
  <2>4. i <= count[Current.storage] + Size[t]
    BY <1>1, ProgramAssumption
  <2>5. QED BY <1>1, <1>2, <2>2, <2>3, <2>4, CountNow
<1>3. CASE Undoes(t) /\ place[t] >= 0
  <2>1. rows' = rows
    BY <1>3, RowsNow DEF Appends, Undoes, Undo, AppendRows
  <2>2. count[Current.storage] = place[t] + Size[t] /\ count'[Current'.storage] = place[t]
    BY <1>3, CountNow
  <2>3. \A j \in (place[t] + 1)..(place[t] + Size[t]) : rows[j] = t
    BY <1>3, UndoesAppend DEF Stored, Appended
  <2>4. i \notin (place[t] + 1)..(place[t] + Size[t])
    BY <1>3, <2>3
  <2>5. i <= place[t]
    BY <1>1, <2>2, <2>4, ProgramAssumption
  <2>6. QED BY <1>1, <2>1, <2>2, <2>5
<1>4. CASE ~ Appends(t) /\ ~ (Undoes(t) /\ place[t] >= 0)
  BY <1>1, <1>4, RowsNow, CountNow
<1>5. QED BY <1>2, <1>3, <1>4

\* And only t adds rows to it, or takes away all of its own.
LEMMA RowsWithin ==
  ASSUME Facts, Facts', Stored, ~ RivalCommitted', NEW t \in Txns, Acts(t), NEW i \in 1..count'[Current'.storage]
  PROVE  \/ i \in 1..count[Current.storage] /\ rows'[i] = rows[i] /\ (rows[i] = t => ~ Undoes(t))
         \/ Appends(t) /\ rows'[i] = t
<1>1. /\ count[Current.storage] \in Nat /\ place[t] \in Int /\ i \in Nat /\ i >= 1 /\ i <= count'[Current'.storage]
      /\ count'[Current'.storage] \in Nat /\ DOMAIN rows = 1..Len(rows) /\ Len(rows) \in Nat
      /\ count[Current.storage] <= Len(rows) /\ Size[t] \in Nat \ {0}
  <2>1. count'[Current'.storage] \in Nat
    <3>1. count' \in [Writers -> 0..Len(rows')] /\ rows' \in Seq(Writers) /\ Current'.storage \in Writers
      BY DEF Facts, Topped, IInv, TypeOK
    <3>2. QED BY <3>1
  <2>2. QED BY <2>1, CountIs, ProgramAssumption
<1>2. CASE Appends(t)
  <2>1. Table(t).storage = Current.storage /\ count'[Current'.storage] = count[Current.storage] + Size[t] /\ ~ Undoes(t)
    <3>1. ~ Undoes(t)
      BY <1>2, UndoesOnly
    <3>2. Table(t).storage = Current.storage
      BY <1>2, AppendsToCurrent DEF Stored
    <3>3. QED BY <1>2, <3>1, <3>2, CountNow
  <2>2. CASE i \in (count[Current.storage] + 1)..(count[Current.storage] + Size[t])
    BY <1>2, <2>1, <2>2, AppendsNow
  <2>3. CASE i \notin (count[Current.storage] + 1)..(count[Current.storage] + Size[t])
    <3>1. i <= count[Current.storage]
      BY <1>1, <2>1, <2>3
    <3>2. i \in DOMAIN rows
      BY <1>1, <3>1
    <3>3. rows'[i] = rows[i]
      BY <1>2, <2>1, <2>3, <3>2, AppendsNow
    <3>4. QED BY <1>1, <2>1, <3>1, <3>3
  <2>4. QED BY <2>2, <2>3
<1>3. CASE Undoes(t)
  <2>1. rows' = rows /\ ~ Appends(t)
    BY <1>3, RowsNow, UndoesOnly
  <2>2. /\ place[t] >= 0 => count'[Current'.storage] = place[t] /\ count[Current.storage] = place[t] + Size[t]
        /\ ~ (place[t] >= 0) => count'[Current'.storage] = count[Current.storage]
    BY <1>3, <2>1, CountNow
  <2>3. i <= count[Current.storage]
    BY <1>1, <2>2
  <2>4. rows[i] # t
    <3>1. ASSUME rows[i] = t PROVE FALSE
      <4>1. i \in DOMAIN rows
        BY <1>1, <2>3
      <4>2. place[t] >= 0 /\ i \in (place[t] + 1)..(place[t] + Size[t])
        BY <3>1, <4>1, OwnRows, Actor DEF Appended
      <4>3. QED BY <1>1, <2>2, <4>2
    <3>2. QED BY <3>1
  <2>5. QED BY <1>1, <2>1, <2>3, <2>4
<1>4. CASE ~ Appends(t) /\ ~ Undoes(t)
  BY <1>1, <1>4, RowsNow, CountNow
<1>5. QED BY <1>2, <1>3, <1>4

LEMMA LockNow ==
  ASSUME Facts, LockInv, NEW t \in Txns, Acts(t), wal_lock # None
  PROVE  wal_lock' = wal_lock \/ (wal_lock = t /\ (Commits(t) \/ Undoes(t)))
<1>1. pc[t] = "staged" => wal_lock = t
  BY DEF LockInv
<1>2. ~ Locks(t) /\ ~ Appends(t)
  BY DEF Locks, Appends
<1>3. CASE Undoes(t)
  BY <1>3 DEF Undoes, Undo, Released
<1>4. CASE Commits(t)
  BY <1>1, <1>4 DEF Commits
<1>5. CASE ~ Undoes(t) /\ ~ Commits(t)
  BY <1>2, <1>5 DEF Acts, Begin, Scans, Moves, Copies, Installs, Fails
<1>6. QED BY <1>3, <1>4, <1>5

LEMMA ContentStep ==
  ASSUME Facts, Facts', Stored, ContentInv, ~ RivalCommitted', NEW t \in Txns, Acts(t)
  PROVE  ContentInv'
<1>1. /\ t \in Writers /\ t # Loader /\ ~ Committed(t) /\ t # None /\ None \notin Writers
      /\ Base \in Nat \ {0} /\ count[Current.storage] \in Nat
      /\ \A i \in DOMAIN rows : rows[i] \in Writers
      /\ DOMAIN rows = 1..Len(rows) /\ Len(rows) \in Nat /\ count[Current.storage] <= Len(rows)
  BY Actor, CountIs, RowsAssumption
<1>2. \A w \in Writers : Committed(w)' <=> Committed(w) \/ (w = t /\ Commits(t))
  BY CommittedNow
<1>3. ASSUME NEW i \in 1..Base PROVE i \in 1..count[Current.storage] /\ rows[i] = Loader
  BY <1>1, <1>3 DEF ContentInv
<1>4. \A i \in 1..Base : rows'[i] = Loader /\ i <= count'[Current'.storage]
  BY <1>1, <1>3, OthersRows
<1>5. Base <= count'[Current'.storage]
  <2>1. Base \in 1..Base
    BY <1>1
  <2>2. QED BY <1>4, <2>1
<1>6. ASSUME NEW i \in 1..count'[Current'.storage]
      PROVE  Committed(rows[i])' \/ rows'[i] = wal_lock'
  <2>1. CASE Appends(t) /\ rows'[i] = t
    BY <2>1 DEF Appends
  <2>2. CASE i \in 1..count[Current.storage] /\ rows'[i] = rows[i] /\ (rows[i] = t => ~ Undoes(t))
    <3>1. PICK w \in Writers : w = rows[i]
      BY <1>1, <2>2
    <3>2. Committed(w) \/ w = wal_lock
      BY <2>2, <3>1 DEF ContentInv
    <3>3. Committed(w)' \/ w = wal_lock'
      <4>1. CASE Committed(w)
        BY <1>2, <4>1
      <4>2. CASE w = wal_lock
        <5>1. wal_lock' = wal_lock \/ (w = t /\ Commits(t))
          BY <1>1, <2>2, <3>1, <4>2, LockNow DEF Stored
        <5>2. QED BY <1>2, <4>2, <5>1
      <4>3. QED BY <3>2, <4>1, <4>2
    <3>4. w = rows'[i]
      BY <2>2, <3>1
    <3>5. Committed(w)' => Committed(rows[i])'
      BY <3>4 DEF Committed
    <3>6. QED BY <3>3, <3>4, <3>5
  <2>3. QED BY <2>1, <2>2, RowsWithin
<1>7. ASSUME NEW w \in Txns, op'[w].kind = "insert", Committed(w)', NEW i \in (place'[w] + 1)..(place'[w] + Size[w])
      PROVE  i <= count'[Current'.storage] /\ rows'[i] = w
  <2>1. w \in Writers
    BY DEF Writers
  <2>2. CASE Committed(w)
    <3>1. w # t /\ op'[w] = op[w] /\ place'[w] = place[w]
      BY <1>1, <2>2, ActsApart, Actor DEF Apart
    <3>2. i <= count[Current.storage] /\ rows[i] = w
      BY <1>7, <2>2, <3>1 DEF ContentInv, RowsKept
    <3>3. place[w] >= 0
      <4>1. pc[w] = "committed"
        BY <2>2, Actor
      <4>2. QED BY <1>7, <3>1, <4>1 DEF Stored, AppendInv
    <3>4. i \in 1..count[Current.storage]
      <4>1. place[w] \in Int
        BY CountIs
      <4>2. QED BY <1>1, <3>1, <3>2, <3>3, <4>1, <1>7
    <3>5. QED BY <3>1, <3>2, <3>4, OthersRows
  <2>3. CASE ~ Committed(w)
    <3>1. w = t /\ Commits(t)
      BY <1>2, <1>7, <2>1, <2>3
    <3>2. /\ op' = op /\ place' = place /\ rows' = rows /\ pc[t] = "staged" /\ ~ Undoes(t) /\ ~ Appends(t)
      BY <3>1 DEF Commits, Undoes, Appends
    <3>3. /\ place[t] >= 0 /\ count[Current.storage] = place[t] + Size[t]
          /\ \A j \in (place[t] + 1)..(place[t] + Size[t]) : rows[j] = t
      BY <1>1, <1>7, <3>1, <3>2 DEF Stored, AppendInv, Appended
    <3>4. count'[Current'.storage] = count[Current.storage]
      BY <3>2, CountNow
    <3>5. place[t] \in Int /\ Size[t] \in Nat
      BY CountIs, ProgramAssumption
    <3>6. QED BY <1>7, <3>1, <3>2, <3>3, <3>4, <3>5
  <2>4. QED BY <2>2, <2>3
<1>8. RowsKept'
  BY <1>7 DEF RowsKept
<1>9. QED BY <1>4, <1>5, <1>6, <1>8 DEF ContentInv

\* Whose rows t sees, before and after its own commit as well.
LEMMA SeesSame ==
  ASSUME Facts, NEW t \in Txns, Acts(t), NEW u \in Txns, pc[u] # "idle", NEW w \in Writers
  PROVE  SeenBy(u, w)' <=> SeenBy(u, w)
<1>1. CASE u # t \/ ~ Commits(t)
  BY <1>1, SeenStays
<1>2. CASE u = t /\ Commits(t)
  <2>1. CASE w = t
    BY <1>2, <2>1 DEF SeenBy
  <2>2. CASE w # t
    <3>1. committed_at'[w] = committed_at[w] /\ start'[t] = start[t]
      BY <1>2, <2>2, CommittedNow DEF Commits
    <3>2. QED BY <1>2, <2>2, <3>1 DEF SeenBy, Committed
  <2>3. QED BY <2>1, <2>2
<1>3. QED BY <1>1, <1>2

\* The rows that u sees are not touched by others.
LEMMA SeenRowsStay ==
  ASSUME Facts, Facts', Stored, NEW t \in Txns, Acts(t),
         NEW u \in Txns, pc[u] \notin {"idle", "aborted"}, u # t \/ ~ Appends(t)
  PROVE  /\ DOMAIN rows \subseteq DOMAIN rows'
         /\ \A i \in DOMAIN rows' :
               SeenBy(u, rows'[i]) => i \in DOMAIN rows /\ rows'[i] = rows[i]
         /\ \A i \in DOMAIN rows : ContentInv /\ SeenBy(u, rows[i]) => rows'[i] = rows[i]
         /\ \A i \in DOMAIN rows' : SeenBy(u, rows[i])' <=> SeenBy(u, rows'[i])
<1>1. ASSUME NEW i \in DOMAIN rows' PROVE SeenBy(u, rows[i])' <=> SeenBy(u, rows'[i])
  <2>1. PICK w \in Writers : w = rows'[i]
    <3>1. rows' \in Seq(Writers)
      BY DEF Facts, IInv, TypeOK
    <3>2. QED BY <3>1
  <2>2. SeenBy(u, w)' <=> SeenBy(u, w)
    BY SeesSame
  <2>3. SeenBy(u, rows[i])' <=> SeenBy(u, w)'
    BY <2>1 DEF SeenBy, Committed
  <2>4. QED BY <2>1, <2>2, <2>3
<1>2. CASE ~ Appends(t)
  BY <1>1, <1>2, RowsNow
<1>3. CASE Appends(t)
  <2>1. u # t /\ ~ SeenBy(u, t) /\ wal_lock = None /\ None \notin Txns
    <3>1. ~ Committed(t)
      BY Actor
    <3>2. QED BY <1>3, <3>1, TxnsAssumption DEF SeenBy, Appends
  <2>2. Table(t).storage = Current.storage
    BY <1>3, AppendsToCurrent DEF Stored
  <2>3. /\ DOMAIN rows \subseteq DOMAIN rows' /\ count[Current.storage] \in Nat /\ Size[t] \in Nat
        /\ \A i \in DOMAIN rows' :
              /\ i \in (count[Current.storage] + 1)..(count[Current.storage] + Size[t]) => rows'[i] = t
              /\ i \notin (count[Current.storage] + 1)..(count[Current.storage] + Size[t])
                    => i \in DOMAIN rows /\ rows'[i] = rows[i]
    BY <1>3, <2>2, AppendsNow
  <2>4. \A i \in DOMAIN rows' : SeenBy(u, rows'[i]) => i \in DOMAIN rows /\ rows'[i] = rows[i]
    BY <2>1, <2>3
  <2>5. ASSUME NEW i \in DOMAIN rows, ContentInv, SeenBy(u, rows[i]) PROVE rows'[i] = rows[i]
    <3>1. i <= count[Current.storage]
      <4>1. CASE Committed(rows[i])
        BY <2>5, <4>1, RowsBelow
      <4>2. CASE ~ Committed(rows[i])
        <5>1. rows[i] = u
          BY <2>5, <4>2 DEF SeenBy
        <5>2. QED BY <2>1, <4>2, <5>1, OwnRows
      <4>3. QED BY <4>1, <4>2
    <3>2. i \notin (count[Current.storage] + 1)..(count[Current.storage] + Size[t])
      <4>1. i \in Nat
        BY CountIs
      <4>2. QED BY <2>3, <3>1, <4>1
    <3>3. QED BY <2>3, <3>2
  <2>6. QED BY <1>1, <2>3, <2>4, <2>5
<1>4. QED BY <1>2, <1>3

\* SnapshotInv for others.
LEMMA OthersSnapshot ==
  ASSUME Facts, Facts', Stored, NEW t \in Txns, Begin(t) \/ GiveUp(t) \/ Step(t), Acts(t),
         NEW u \in Txns, u # t, SnapshotInv(u)
  PROVE  SnapshotInv(u)'
<1>1. SUFFICES ASSUME Running(u)', NEW i \in DOMAIN rows', SeenBy(u, rows[i])'
               PROVE  i <= count'[Table(u)'.storage] /\ (base'[u] # None => i <= count'[u])
  BY DEF SnapshotInv
<1>2. /\ pc'[u] = pc[u] /\ base'[u] = base[u] /\ Running(u) /\ pc[u] \notin {"idle", "committed", "aborted"}
  <2>1. pc'[u] = pc[u] /\ base'[u] = base[u]
    BY ActsApart, Actor DEF Apart
  <2>2. QED BY <1>1, <2>1 DEF Running, Ended
<1>3. Table(u)' = Table(u)
  BY <1>2, TableStays
<1>4. /\ t \in Writers /\ u \in Writers /\ ~ Committed(t) /\ ~ Committed(u)
      /\ Committed(Current.storage) /\ Current.storage \in Writers
      /\ Table(u).storage \in Writers /\ (Table(u).storage = u \/ Committed(Table(u).storage))
  <2>1. t \in Writers /\ u \in Writers /\ ~ Committed(t) /\ ~ Committed(u)
    BY <1>2, Actor DEF Writers
  <2>2. LineageInv /\ \A w \in Txns : CopyOf(w)
    BY DEF Stored
  <2>3. QED BY <1>2, <2>1, <2>2, StoragesSeen
<1>5. i \in DOMAIN rows /\ rows'[i] = rows[i] /\ SeenBy(u, rows[i]) /\ rows[i] # t
  <2>1. SeenBy(u, rows'[i])
    BY <1>1, <1>2, SeenRowsStay
  <2>2. i \in DOMAIN rows /\ rows'[i] = rows[i]
    BY <1>2, <2>1, SeenRowsStay
  <2>3. QED BY <1>4, <2>1, <2>2 DEF SeenBy
<1>6. i <= count[Table(u).storage] /\ (base[u] # None => i <= count[u])
  BY <1>2, <1>5 DEF SnapshotInv
<1>7. /\ i \in Nat /\ i >= 1 /\ place[t] \in Int /\ Size[t] \in Nat \ {0}
      /\ \A w \in Writers : count[w] \in Nat
  BY <1>5, CountIs, ProgramAssumption
<1>8. CASE Copies(t)
  <2>1. Table(u).storage # t
    BY <1>4
  <2>2. QED BY <1>2, <1>3, <1>4, <1>6, <1>8, <2>1, StoragesNow
<1>9. CASE Appends(t)
  <2>1. Table(t).storage = Current.storage
    BY <1>9, AppendsToCurrent DEF Stored
  <2>2. count'[Current.storage] = count[Current.storage] + Size[t]
    BY <1>9, <2>1, AppendsNow
  <2>3. \A w \in Writers : w # Current.storage => count'[w] = count[w]
    BY <1>9, <2>1, AppendsNow
  <2>4. ASSUME NEW w \in Writers, i <= count[w] PROVE i <= count'[w]
    <3>1. CASE w = Current.storage
      BY <1>7, <2>2, <2>4, <3>1
    <3>2. CASE w # Current.storage
      BY <2>3, <2>4, <3>2
    <3>3. QED BY <3>1, <3>2
  <2>5. QED BY <1>2, <1>3, <1>4, <1>6, <2>4
<1>10. CASE Undoes(t) /\ place[t] >= 0
  <2>1. /\ Table(t).storage = Current.storage /\ count[Current.storage] = place[t] + Size[t]
        /\ \A j \in (place[t] + 1)..(place[t] + Size[t]) : rows[j] = t
    BY <1>10, UndoesAppend DEF Stored, Appended
  <2>2. count'[Current.storage] = place[t]
    BY <1>10, <2>1, StoragesNow
  <2>3. \A w \in Writers : w # Current.storage => count'[w] = count[w]
    BY <1>10, <2>1, StoragesNow
  <2>4. i <= count[Current.storage] => i <= place[t]
    BY <1>5, <1>7, <2>1
  <2>5. ASSUME NEW w \in Writers, i <= count[w] PROVE i <= count'[w]
    <3>1. CASE w = Current.storage
      BY <2>2, <2>4, <2>5, <3>1
    <3>2. CASE w # Current.storage
      BY <2>3, <2>5, <3>2
    <3>3. QED BY <3>1, <3>2
  <2>6. QED BY <1>2, <1>3, <1>4, <1>6, <2>5
<1>11. CASE ~ Copies(t) /\ ~ Appends(t) /\ ~ (Undoes(t) /\ place[t] >= 0)
  <2>1. \A w \in Writers : count'[w] = count[w]
    <3>1. Undoes(t) => place[t] < 0
      BY <1>7, <1>11
    <3>2. QED BY <1>11, <3>1, StoragesNow
  <2>2. QED BY <1>2, <1>3, <1>4, <1>6, <2>1
<1>12. QED BY <1>8, <1>9, <1>10, <1>11

\* A transaction that begins sees the current version.
LEMMA BeginsWith ==
  ASSUME Facts, Facts', NEW t \in Txns, Begin(t)
  PROVE  Table(t)' = Current
<1>1. /\ start' = [start EXCEPT ![t] = clock] /\ versions' = versions /\ committed_at' = committed_at
      /\ pc' = [pc EXCEPT ![t] = "begun"] /\ pc[t] = "idle"
  BY DEF Begin, Goto, catalogVars
<1>2. start'[t] = clock /\ pc'[t] = "begun"
  BY <1>1 DEF Facts, IInv, TypeOK
<1>3. Last(versions)'.by # t
  <2>1. Acts(t)
    BY DEF Acts
  <2>2. Last(versions).by # t
    BY <1>1, <2>1, Actor
  <2>3. QED BY <1>1, <2>2 DEF Last
<1>4. PICK i : Top(versions, start[t], i)' /\ Seen(t, versions)' = versions'[i]
  <2>1. View(t, versions)'
    BY <1>2 DEF Facts, Views
  <2>2. QED BY <1>3, <2>1 DEF View
<1>5. Top(versions, clock, i)
  BY <1>1, <1>2, <1>4 DEF Top, Before, Committed
<1>6. Current = versions[i]
  <2>1. \A k \in DOMAIN versions : versions[k].by \in Writers
    BY DEF Facts, Chained
  <2>2. versions \in Seq(Versions)
    BY DEF Facts, Chained
  <2>3. QED BY <1>5, <2>1, <2>2, NewestIs DEF Facts, Current
<1>7. QED BY <1>1, <1>4, <1>6 DEF Table

\* SnapshotInv for the transaction that takes the step.
LEMMA OwnSnapshot ==
  ASSUME Facts, Facts', Stored, ContentInv, NEW t \in Txns, Acts(t), SnapshotInv(t)
  PROVE  SnapshotInv(t)'
<1>1. SUFFICES ASSUME Running(t)', NEW i \in DOMAIN rows', SeenBy(t, rows[i])'
               PROVE  i <= count'[Table(t)'.storage] /\ (base'[t] # None => i <= count'[t])
  BY DEF SnapshotInv
<1>2. /\ t \in Writers /\ ~ Committed(t) /\ DOMAIN pc = Txns /\ pc[t] \notin {"committed", "aborted"}
      /\ pc[t] # "idle" => Running(t)
  BY Actor DEF TypeOK, Running, Ended
<1>3. /\ ~ Commits(t) /\ ~ Undoes(t)
  <2>1. Commits(t) => pc'[t] = "committed"
    BY <1>2 DEF Commits
  <2>2. Undoes(t) => pc'[t] = "aborted"
    BY <1>2 DEF Undoes, Undo, Goto
  <2>3. QED BY <1>1, <2>1, <2>2 DEF Running, Ended
<1>4. committed_at' = committed_at /\ Current' = Current
  BY <1>3, CommittedNow, CurrentStays
<1>5. CASE Begin(t)
  <2>1. Table(t)' = Current /\ rows' = rows /\ count' = count /\ base' = base /\ pc[t] = "idle"
    BY <1>5, BeginsWith DEF Begin, storageVars, columnVars
  <2>2. base[t] = None
    <3>1. CopyOf(t)
      BY DEF Stored
    <3>2. QED BY <2>1, <3>1 DEF CopyOf
  <2>3. Committed(rows[i])
    <3>1. ASSUME rows[i] = t PROVE FALSE
      <4>1. place[t] >= 0
        BY <2>1, <3>1, OwnRows, <1>1
      <4>2. AppendInv(t)
        BY DEF Stored
      <4>3. QED BY <2>1, <4>1, <4>2 DEF AppendInv
    <3>2. SeenBy(t, rows[i])' => rows[i] = t \/ committed_at[rows[i]] > 0
      BY <1>4, <2>1 DEF SeenBy, Committed
    <3>3. QED BY <1>1, <3>1, <3>2 DEF Committed
  <2>4. i <= count[Current.storage]
    BY <1>1, <2>1, <2>3, RowsBelow
  <2>5. QED BY <2>1, <2>2, <2>4
<1>6. CASE Appends(t)
  <2>1. Table(t).storage = Current.storage /\ base[t] = None /\ base' = base
    BY <1>6, AppendsToCurrent DEF Stored, Appends
  <2>2. Table(t)' = Table(t)
    BY <1>6, OwnTable DEF Appends
  <2>3. count'[Current.storage] = count[Current.storage] + Size[t]
    BY <1>6, <2>1, AppendsNow
  <2>4. count[Current.storage] \in Nat /\ Size[t] \in Nat \ {0} /\ i \in Nat
    <3>1. rows' \in Seq(Writers)
      BY DEF Facts, IInv, TypeOK
    <3>2. QED BY <1>1, <3>1, CountIs, ProgramAssumption
  <2>5. CASE i \in (count[Current.storage] + 1)..(count[Current.storage] + Size[t])
    BY <2>1, <2>2, <2>3, <2>4, <2>5
  <2>6. CASE i \notin (count[Current.storage] + 1)..(count[Current.storage] + Size[t])
    <3>1. i \in DOMAIN rows /\ rows'[i] = rows[i]
      BY <1>6, <2>1, <2>6, AppendsNow
    <3>2. SeenBy(t, rows[i])
      <4>1. start' = start
        BY <1>6 DEF Appends
      <4>2. QED BY <1>1, <1>4, <3>1, <4>1 DEF SeenBy, Committed
    <3>3. i <= count[Current.storage]
      <4>1. pc[t] = "ready"
        BY <1>6 DEF Appends
      <4>2. QED BY <1>2, <2>1, <3>1, <3>2, <4>1 DEF SnapshotInv
    <3>4. QED BY <2>1, <2>2, <2>3, <2>4, <3>3
  <2>7. QED BY <2>5, <2>6
<1>7. CASE ~ Begin(t) /\ ~ Appends(t)
  <2>1. pc[t] # "idle" /\ start' = start /\ rows' = rows
    <3>1. pc[t] # "idle"
      BY <1>3, <1>7 DEF Acts, Scans, Moves, Copies, Installs, Locks, Fails
    <3>2. start' = start
      BY <1>3, <1>7 DEF Acts, Scans, Moves, Copies, Installs, Locks, Fails
    <3>3. QED BY <1>7, <3>1, <3>2, RowsNow
  <2>2. SeenBy(t, rows[i])
    BY <1>1, <1>4, <2>1 DEF SeenBy, Committed
  <2>3. i <= count[Table(t).storage] /\ (base[t] # None => i <= count[t])
    BY <1>1, <1>2, <2>1, <2>2 DEF SnapshotInv
  <2>4. CASE Installs(t)
    <3>1. /\ count' = count /\ base' = base /\ pc[t] = "installing" /\ pc'[t] = Continue(t)
      BY <1>2, <2>4 DEF Installs
    <3>2. /\ Table(t) = Last(versions) /\ Last(versions') = Altered(t, Last(versions)) /\ Last(versions) \in Versions
      BY <2>4, VersionsNow DEF Facts, Chained
    <3>3. Table(t)' = Last(versions') /\ Last(versions').by = t
      <4>1. Last(versions').by = t
        BY <3>1, <3>2, AlteredIs
      <4>2. pc'[t] \notin {"idle", "committed"}
        BY <3>1 DEF Continue
      <4>3. Last(versions)' = Last(versions')
        BY DEF Last
      <4>4. QED BY <4>1, <4>2, <4>3 DEF Facts, Viewed
    <3>4. CASE op[t].kind = "alter"
      BY <2>3, <3>1, <3>2, <3>3, <3>4, AlteredIs
    <3>5. CASE op[t].kind # "alter"
      <4>1. base[t] # None
        <5>1. CopyOf(t)
          BY DEF Stored
        <5>2. QED BY <3>1, <3>5, <5>1 DEF CopyOf
      <4>2. Table(t)'.storage = t
        BY <3>1, <3>2, <3>3, <3>5, AlteredIs
      <4>3. QED BY <2>3, <3>1, <4>1, <4>2
    <3>6. QED BY <3>4, <3>5
  <2>5. CASE Copies(t)
    <3>1. Table(t)' = Table(t)
      BY <2>5, OwnTable DEF Copies
    <3>2. pc[t] \in {"adding", "removing"} /\ Last(versions).by # t
      BY <2>5, Actor DEF Copies
    <3>3. Committed(Table(t).storage) /\ Table(t).storage \in Writers
      BY <3>2, StoragesSeen DEF Stored
    <3>4. count'[t] = count[Table(t).storage] /\ count'[Table(t).storage] = count[Table(t).storage]
      BY <1>2, <2>5, <3>3, StoragesNow
    <3>5. QED BY <2>3, <3>1, <3>4
  <2>6. CASE ~ Installs(t) /\ ~ Copies(t)
    <3>1. versions' = versions
      BY <1>3, <1>7, <2>6 DEF Acts, Scans, Moves, Locks, Fails
    <3>2. Table(t)' = Table(t)
      BY <1>4, <2>1, <3>1, OwnTable
    <3>3. count' = count /\ base'[t] = base[t]
      BY <1>3, <1>7, <2>6, StoragesNow, BaseNow
    <3>4. QED BY <2>3, <3>2, <3>3
  <2>7. QED BY <2>4, <2>5, <2>6
<1>8. QED BY <1>5, <1>6, <1>7

\* The last of the transactions in S.
LEMMA SameChoice ==
  ASSUME NEW S, NEW f, NEW g, \A v \in S : f[v] = g[v]
  PROVE  (CHOOSE u \in S : \A v \in S : f[v] <= f[u]) = (CHOOSE u \in S : \A v \in S : g[v] <= g[u])
<1>1. ASSUME NEW u PROVE (u \in S /\ \A v \in S : f[v] <= f[u]) <=> (u \in S /\ \A v \in S : g[v] <= g[u])
  OBVIOUS
<1>2. QED BY <1>1

\* The text that u sees of a row, while the row is there.
LEMMA TextStays ==
  ASSUME Facts, NEW t \in Txns, Acts(t), NEW u \in Txns, pc[u] # "idle", u # t \/ op[u].kind # "update",
         NEW i, rows'[i] = rows[i]
  PROVE  TextSeen(u, i)' = TextSeen(u, i)
<1>1. ~ Committed(t) /\ Txns \subseteq Writers
  BY Actor DEF Writers
<1> DEFINE seen == {v \in Updates(i) : SeenBy(u, v)}
           next == {v \in Updates(i) : SeenBy(u, v)}'
<1>2. ASSUME NEW v \in Txns
      PROVE  /\ (op'[v].kind = "update" /\ op'[v].on = i /\ SeenBy(u, v)') <=>
                   (op[v].kind = "update" /\ op[v].on = i /\ SeenBy(u, v))
             /\ op[v].kind = "update" /\ SeenBy(u, v) => v # t
  <2>1. SeenBy(u, v)' <=> SeenBy(u, v)
    BY <1>1, SeesSame
  <2>2. CASE v # t
    <3>1. op'[v] = op[v]
      BY <2>2, ActsApart, Actor DEF Apart
    <3>2. QED BY <2>1, <2>2, <3>1
  <2>3. CASE v = t /\ u # t
    <3>1. ~ SeenBy(u, v)
      BY <1>1, <2>3 DEF SeenBy
    <3>2. QED BY <2>1, <3>1
  <2>4. CASE v = t /\ u = t
    <3>1. op'[t] = op[t]
      BY <2>4, SameStatement
    <3>2. QED BY <2>4, <3>1
  <2>5. QED BY <2>2, <2>3, <2>4
<1>3. seen = {v \in Txns : op[v].kind = "update" /\ op[v].on = i /\ SeenBy(u, v)}
  BY DEF Updates
<1>4. next = {v \in Txns : op'[v].kind = "update" /\ op'[v].on = i /\ SeenBy(u, v)'}
  BY DEF Updates
<1>5. next = seen
  BY <1>2, <1>3, <1>4
<1>6. \A v \in seen : committed_at'[v] = committed_at[v]
  <2>1. \A v \in seen : v \in Writers /\ v # t
    BY <1>1, <1>2, <1>3
  <2>2. QED BY <2>1, CommittedNow
<1>7. TextSeen(u, i) = IF seen = {} THEN rows[i]
                       ELSE CHOOSE v \in seen : \A w \in seen : committed_at[w] <= committed_at[v]
  BY DEF TextSeen
<1>8. TextSeen(u, i)' = IF next = {} THEN rows'[i]
                        ELSE CHOOSE v \in next : \A w \in next : committed_at'[w] <= committed_at'[v]
  BY DEF TextSeen
<1> HIDE DEF seen, next
<1>9. (CHOOSE v \in seen : \A w \in seen : committed_at'[w] <= committed_at'[v])
      = CHOOSE v \in seen : \A w \in seen : committed_at[w] <= committed_at[v]
  BY <1>6, SameChoice
<1>10. QED BY <1>5, <1>7, <1>8, <1>9

\* What is in the storage of a snapshot is all that the snapshot sees.
LEMMA RowsSeenStay ==
  ASSUME Facts, Facts', Stored, ContentInv, NEW t \in Txns, Acts(t),
         NEW u \in Txns, SnapshotInv(u), SnapshotInv(u)', Running(u), Running(u)', u # t \/ ~ Appends(t)
  PROVE  RowsSeen(u)' = RowsSeen(u)
<1>1. pc[u] \notin {"idle", "aborted", "committed"} /\ pc'[u] \notin {"idle", "aborted", "committed"}
  BY DEF Running, Ended
<1>2. Table(u).storage \in Writers /\ Table(u)'.storage \in Writers
  BY <1>1 DEF Facts, Viewed
<1>3. count[Table(u).storage] \in Nat /\ count[Table(u).storage] <= Len(rows) /\ DOMAIN rows = 1..Len(rows) /\ Len(rows) \in Nat
  BY <1>2, CountIs
<1>4. count'[Table(u)'.storage] \in 0..Len(rows') /\ DOMAIN rows' = 1..Len(rows') /\ Len(rows') \in Nat
  <2>1. rows' \in Seq(Writers) /\ count' \in [Writers -> 0..Len(rows')]
    BY DEF Facts, IInv, TypeOK
  <2>2. QED BY <1>2, <2>1
<1>5. \A i : i \in RowsSeen(u) <=> i \in DOMAIN rows /\ SeenBy(u, rows[i])
  <2>1. \A i \in DOMAIN rows : SeenBy(u, rows[i]) => i <= count[Table(u).storage]
    BY DEF SnapshotInv
  <2>2. RowsSeen(u) = {i \in 1..count[Table(u).storage] : SeenBy(u, rows[i])}
    BY DEF RowsSeen
  <2>3. QED BY <1>3, <2>1, <2>2
<1>6. \A i : i \in RowsSeen(u)' <=> i \in DOMAIN rows' /\ SeenBy(u, rows[i])'
  <2>1. \A i \in DOMAIN rows' : SeenBy(u, rows[i])' => i <= count'[Table(u)'.storage]
    BY DEF SnapshotInv
  <2>2. RowsSeen(u)' = {i \in 1..count'[Table(u)'.storage] : SeenBy(u, rows[i])'}
    BY DEF RowsSeen
  <2>3. QED BY <1>4, <2>1, <2>2
<1>7. ASSUME NEW i, i \in RowsSeen(u) PROVE i \in RowsSeen(u)'
  <2>1. i \in DOMAIN rows /\ SeenBy(u, rows[i])
    BY <1>5, <1>7
  <2>2. i \in DOMAIN rows' /\ rows'[i] = rows[i]
    BY <1>1, <2>1, SeenRowsStay
  <2>3. SeenBy(u, rows'[i])
    BY <2>1, <2>2
  <2>4. SeenBy(u, rows[i])'
    BY <1>1, <2>2, <2>3, SeenRowsStay
  <2>5. QED BY <1>6, <2>2, <2>4
<1>8. ASSUME NEW i, i \in RowsSeen(u)' PROVE i \in RowsSeen(u)
  <2>1. i \in DOMAIN rows' /\ SeenBy(u, rows[i])'
    BY <1>6, <1>8
  <2>2. SeenBy(u, rows'[i])
    BY <1>1, <2>1, SeenRowsStay
  <2>3. i \in DOMAIN rows /\ rows'[i] = rows[i]
    BY <1>1, <2>1, <2>2, SeenRowsStay
  <2>4. QED BY <1>5, <2>2, <2>3
<1>9. QED BY <1>7, <1>8

\* The rows of the current storage that u sees are not touched by others, nor moved by
\* copies of it.
LEMMA CurrentSeenStay ==
  ASSUME Facts, Facts', Stored, NEW t \in Txns, Acts(t), ~ Commits(t),
         NEW u \in Txns, pc[u] # "idle", op[u].kind = "create", NEW i
  PROVE  (i \in 1..count'[Current.storage] /\ SeenBy(u, rows[i])') <=>
             (i \in 1..count[Current.storage] /\ SeenBy(u, rows[i]) /\ rows'[i] = rows[i])
<1>1. /\ t \in Writers /\ ~ Committed(t) /\ place[t] \in Int /\ Size[t] \in Nat \ {0}
      /\ Current.storage \in Writers /\ Committed(Current.storage) /\ Current.storage # t
      /\ count[Current.storage] \in Nat /\ count[Current.storage] <= Len(rows)
      /\ DOMAIN rows = 1..Len(rows) /\ Len(rows) \in Nat
  BY StoragesSeen, Actor, CountIs, ProgramAssumption DEF Stored
<1>2. ASSUME i \in DOMAIN rows' PROVE SeenBy(u, rows[i])' <=> SeenBy(u, rows'[i])
  <2>1. PICK w \in Writers : w = rows'[i]
    BY <1>2 DEF Facts, IInv, TypeOK
  <2>2. SeenBy(u, w)' <=> SeenBy(u, w)
    BY SeesSame
  <2>3. SeenBy(u, rows[i])' <=> SeenBy(u, w)'
    BY <2>1 DEF SeenBy, Committed
  <2>4. QED BY <2>1, <2>2, <2>3
<1>3. op[t].kind = "insert" => ~ SeenBy(u, t)
  BY <1>1 DEF SeenBy
<1>4. CASE Appends(t)
  <2>1. op[t].kind = "insert" /\ Table(t).storage = Current.storage
    BY <1>4, AppendsToCurrent DEF Appends, Stored
  <2>2. PICK k : k = count[Current.storage]
    OBVIOUS
  <2>3. PICK n : n = Size[t]
    OBVIOUS
  <2>4. /\ count'[Current.storage] = k + n /\ DOMAIN rows \subseteq DOMAIN rows' /\ (k + 1)..(k + n) \subseteq DOMAIN rows'
        /\ \A j \in (k + 1)..(k + n) : rows'[j] = t
        /\ \A j \in DOMAIN rows' : j \notin (k + 1)..(k + n) => j \in DOMAIN rows /\ rows'[j] = rows[j]
    BY <1>4, <2>1, <2>2, <2>3, AppendsNow
  <2>5. CASE i \in 1..k
    <3>1. i \in DOMAIN rows' /\ i \notin (k + 1)..(k + n) /\ i \in 1..(k + n)
      BY <1>1, <2>2, <2>3, <2>4, <2>5
    <3>2. rows'[i] = rows[i]
      BY <2>4, <3>1
    <3>3. QED BY <1>2, <2>2, <2>4, <2>5, <3>1, <3>2
  <2>6. CASE i \notin 1..k
    <3>1. ASSUME i \in 1..(k + n) PROVE ~ SeenBy(u, rows[i])'
      <4>1. i \in (k + 1)..(k + n)
        BY <1>1, <2>2, <2>3, <2>6, <3>1
      <4>2. rows'[i] = t /\ i \in DOMAIN rows'
        BY <2>4, <4>1
      <4>3. QED BY <1>2, <1>3, <2>1, <4>2
    <3>2. QED BY <2>2, <2>4, <2>6, <3>1
  <2>7. QED BY <2>5, <2>6
<1>5. CASE Undoes(t) /\ place[t] >= 0
  <2>1. /\ rows' = rows /\ op[t].kind = "insert" /\ Table(t).storage = Current.storage
        /\ count[Current.storage] = place[t] + Size[t] /\ \A j \in (place[t] + 1)..(place[t] + Size[t]) : rows[j] = t
    BY <1>5, RowsNow, UndoesOnly, UndoesAppend DEF Stored, Appended
  <2>2. count'[Current.storage] = place[t]
    BY <1>5, <2>1, StoragesNow
  <2>3. ASSUME i \in 1..count[Current.storage], SeenBy(u, rows[i]) PROVE i \in 1..place[t]
    <3>1. i \notin (place[t] + 1)..(place[t] + Size[t])
      BY <1>3, <2>1, <2>3
    <3>2. QED BY <1>1, <2>1, <2>3, <3>1
  <2>4. i \in 1..place[t] => i \in 1..count[Current.storage]
    BY <1>1, <1>5, <2>1
  <2>5. i \in 1..count[Current.storage] => i \in DOMAIN rows'
    BY <1>1, <2>1
  <2>6. QED BY <1>2, <2>1, <2>2, <2>3, <2>4, <2>5
<1>6. CASE ~ Appends(t) /\ ~ (Undoes(t) /\ place[t] >= 0)
  <2>1. rows' = rows
    BY <1>6, RowsNow
  <2>2. count'[Current.storage] = count[Current.storage]
    <3>1. Undoes(t) => place[t] < 0
      BY <1>1, <1>6
    <3>2. QED BY <1>1, <1>6, <3>1, StoragesNow
  <2>3. i \in 1..count[Current.storage] => i \in DOMAIN rows'
    BY <1>1, <2>1
  <2>4. QED BY <1>2, <2>1, <2>2, <2>3
<1>7. QED BY <1>4, <1>5, <1>6

\* What CREATE EMBEDDING has asked for is not changed by others while nobody has replaced
\* the storage it began with.
LEMMA TextsStay ==
  ASSUME Facts, Facts', Stored, NEW t \in Txns, Acts(t), ~ Commits(t), NEW u \in Txns, pc[u] # "idle",
         op[u].kind = "create", Table(u).storage = Current.storage, Table(u)' = Table(u)
  PROVE  Texts(u)' = Texts(u)
<1>1. \A i : i \in RowsSeen(u)' <=> i \in RowsSeen(u) /\ rows'[i] = rows[i]
  <2>1. RowsSeen(u) = {i \in 1..count[Current.storage] : SeenBy(u, rows[i])}
    BY DEF RowsSeen
  <2>2. RowsSeen(u)' = {i \in 1..count'[Current.storage] : SeenBy(u, rows[i])'}
    BY DEF RowsSeen
  <2>3. QED BY <2>1, <2>2, CurrentSeenStay
<1>2. ASSUME NEW i \in RowsSeen(u) PROVE rows'[i] = rows[i]
  <2>1. i \in 1..count[Current.storage] /\ SeenBy(u, rows[i])
    BY <1>2 DEF RowsSeen
  <2>2. i \in Nat /\ i <= count[Current.storage] /\ i \in DOMAIN rows
    BY <2>1, CountIs
  <2>3. CASE ~ Appends(t)
    BY <2>3, RowsNow
  <2>4. CASE Appends(t)
    <3>1. Table(t).storage = Current.storage
      BY <2>4, AppendsToCurrent DEF Stored
    <3>2. i \notin (count[Current.storage] + 1)..(count[Current.storage] + Size[t])
      BY <2>1, CountIs, ProgramAssumption
    <3>3. i \in DOMAIN rows'
      BY <2>2, <2>4, AppendsNow
    <3>4. QED BY <2>4, <3>1, <3>2, <3>3, AppendsNow
  <2>5. QED BY <2>3, <2>4
<1>3. RowsSeen(u)' = RowsSeen(u)
  BY <1>1, <1>2
<1>4. ASSUME NEW i \in RowsSeen(u) PROVE TextSeen(u, i)' = TextSeen(u, i)
  BY <1>2, <1>4, TextStays
<1> DEFINE S == RowsSeen(u) \ NullRows
<1>5. Texts(u) = [i \in S |-> TextSeen(u, i)]
  BY DEF Texts
<1>6. Texts(u)' = [i \in S |-> TextSeen(u, i)']
  BY <1>3 DEF Texts
<1>7. QED BY <1>4, <1>5, <1>6

\* The vectors of c stay right for a storage of n rows, as they do for the current one.
LEMMA FitsStays ==
  ASSUME Facts, Facts', Stored, NEW t \in Txns, Acts(t), NEW c \in Txns, pc[c] # "idle", op[c].kind = "create",
         vectors'[c] = vectors[c], NEW n \in Nat, n <= Len(rows), Fits(c, n), Fits(c, count[Current.storage])
  PROVE  Fits(c, n)'
<1>1. /\ DOMAIN rows = 1..Len(rows) /\ Len(rows) \in Nat /\ count[Current.storage] \in Nat /\ Size[t] \in Nat \ {0}
  BY CountIs, ProgramAssumption
<1>2. \A i : VectorAt(c, i)' = VectorAt(c, i)
  BY DEF VectorAt
<1>3. ASSUME NEW i \in 1..n
      PROVE  VectorAt(c, i) = IF SeenBy(c, rows[i])' /\ i \notin NullRows THEN TextSeen(c, i)' ELSE None
  <2>1. i \in DOMAIN rows /\ VectorAt(c, i) = IF SeenBy(c, rows[i]) /\ i \notin NullRows THEN TextSeen(c, i) ELSE None
    BY <1>1 DEF Fits, FilledFor
  <2>2. CASE rows'[i] = rows[i]
    <3>1. PICK w \in Writers : w = rows[i]
      BY <2>1, CountIs
    <3>2. SeenBy(c, w)' <=> SeenBy(c, w)
      BY SeesSame
    <3>3. SeenBy(c, rows[i])' <=> SeenBy(c, w)'
      BY <2>2, <3>1 DEF SeenBy, Committed
    <3>4. TextSeen(c, i)' = TextSeen(c, i)
      BY <2>2, TextStays
    <3>5. QED BY <2>1, <3>1, <3>2, <3>3, <3>4
  <2>3. CASE rows'[i] # rows[i]
    <3>1. Appends(t)
      BY <2>3, RowsNow
    <3>2. Table(t).storage = Current.storage
      BY <3>1, AppendsToCurrent DEF Stored
    <3>3. /\ i \in DOMAIN rows'
          /\ i \in (count[Current.storage] + 1)..(count[Current.storage] + Size[t]) /\ rows'[i] = t
      BY <2>1, <2>3, <3>1, <3>2, AppendsNow
    <3>4. ~ SeenBy(c, rows[i])'
      <4>1. c # t /\ ~ Committed(t) /\ t \in Writers
        BY <3>1, Actor DEF Appends
      <4>2. ~ SeenBy(c, t)
        BY <4>1 DEF SeenBy
      <4>3. ~ SeenBy(c, t)'
        BY <4>1, <4>2, SeesSame
      <4>4. QED BY <3>3, <4>3 DEF SeenBy, Committed
    <3>5. i \notin 1..count[Current.storage]
      BY <1>1, <3>3
    <3>6. VectorAt(c, i) = None
      BY <3>5 DEF Fits, VectorAt
    <3>7. QED BY <3>4, <3>6
  <2>4. QED BY <2>2, <2>3
<1>4. QED BY <1>2, <1>3 DEF Fits, FilledFor

\* They stay right for the current storage, when rows are appended to it or taken back.
LEMMA FitsCurrent ==
  ASSUME Facts, Facts', Stored, NEW t \in Txns, Acts(t), ~ Commits(t), NEW c \in Txns, pc[c] # "idle",
         op[c].kind = "create", vectors'[c] = vectors[c], Fits(c, count[Current.storage])
  PROVE  Fits(c, count[Current.storage])'
<1>1. Current' = Current
  BY CurrentStays
<1>2. PICK n : n = count[Current.storage]
  OBVIOUS
<1>3. PICK m : m = count'[Current.storage]
  OBVIOUS
<1>4. n \in Nat /\ n <= Len(rows) /\ Fits(c, n)
  BY <1>2, CountIs
<1>5. Fits(c, n)'
  BY <1>4, FitsStays
<1>6. \A i : VectorAt(c, i)' = VectorAt(c, i)
  BY DEF VectorAt
<1>7. \A i : (i \in 1..m /\ SeenBy(c, rows[i])') <=> (i \in 1..n /\ SeenBy(c, rows[i]) /\ rows'[i] = rows[i])
  BY <1>2, <1>3, CurrentSeenStay
<1>8. ASSUME NEW i \in 1..m
      PROVE  VectorAt(c, i)' = IF SeenBy(c, rows[i])' /\ i \notin NullRows THEN TextSeen(c, i)' ELSE None
  <2>1. CASE i \in 1..n
    BY <1>5, <2>1 DEF Fits, FilledFor
  <2>2. CASE i \notin 1..n
    <3>1. VectorAt(c, i) = None
      BY <1>4, <2>2 DEF Fits, VectorAt
    <3>2. QED BY <1>6, <1>7, <2>2, <3>1
  <2>3. QED BY <2>1, <2>2
<1>9. ASSUME NEW i \in DOMAIN vectors'[c], vectors'[c][i] # None PROVE i \in 1..m
  <2>1. i \in 1..n /\ VectorAt(c, i) # None
    BY <1>4, <1>9 DEF Fits, VectorAt
  <2>2. SeenBy(c, rows[i])'
    BY <1>5, <1>6, <2>1 DEF Fits, FilledFor
  <2>3. SeenBy(c, rows[i])
    BY <1>4, <2>1 DEF Fits, FilledFor
  <2>4. rows'[i] = rows[i]
    <3>1. CASE ~ Appends(t)
      BY <3>1, RowsNow
    <3>2. CASE Appends(t)
      <4>1. Table(t).storage = Current.storage
        BY <3>2, AppendsToCurrent DEF Stored
      <4>2. i \in DOMAIN rows /\ i \notin (n + 1)..(n + Size[t])
        BY <1>4, <2>1, CountIs, ProgramAssumption
      <4>3. i \in DOMAIN rows'
        BY <3>2, <4>2, AppendsNow
      <4>4. QED BY <1>2, <3>2, <4>1, <4>2, <4>3, AppendsNow
    <3>3. QED BY <3>1, <3>2
  <2>5. QED BY <1>7, <2>1, <2>3, <2>4
<1>10. QED BY <1>1, <1>3, <1>8, <1>9 DEF Fits, FilledFor

\* What CREATE EMBEDDING fills in when it adds the column.
LEMMA CopiesFill ==
  ASSUME Facts, Facts', Stored, NEW t \in Txns, Acts(t), Copies(t), pc[t] = "adding", op[t].kind = "create",
         vectors[t] = Texts(t), NEW n, n = count[Table(t).storage]
  PROVE  Fits(t, n)'
<1>1. /\ UNCHANGED <<op, start, committed_at, rows>> /\ DOMAIN vectors = Txns
      /\ vectors' = [vectors EXCEPT ![t] = Fill(vectors[t], n)]
  BY Actor DEF Copies, CopyStorage, TypeOK
<1>2. /\ n \in Nat /\ n <= Len(rows) /\ DOMAIN rows = 1..Len(rows) /\ Len(rows) \in Nat
  BY CountIs DEF Facts, Viewed
<1>3. vectors'[t] = [i \in 1..n |-> IF i \in DOMAIN Texts(t) THEN Texts(t)[i] ELSE None]
  BY <1>1 DEF Fill
<1>4. /\ DOMAIN Texts(t) = {i \in 1..n : SeenBy(t, rows[i])} \ NullRows
      /\ \A i \in DOMAIN Texts(t) : Texts(t)[i] = TextSeen(t, i)
  BY DEF Texts, RowsSeen
<1>5. ASSUME NEW i \in 1..n
      PROVE  VectorAt(t, i)' = IF SeenBy(t, rows[i])' /\ i \notin NullRows THEN TextSeen(t, i)' ELSE None
  <2>1. SeenBy(t, rows[i])' <=> SeenBy(t, rows[i])
    BY <1>1 DEF SeenBy, Committed
  <2>2. TextSeen(t, i)' = TextSeen(t, i)
    BY <1>1, TextStays
  <2>3. VectorAt(t, i)' = IF i \in DOMAIN Texts(t) THEN Texts(t)[i] ELSE None
    BY <1>3 DEF VectorAt
  <2>4. QED BY <1>4, <2>1, <2>2, <2>3
<1>6. \A i \in DOMAIN vectors'[t] : i \in 1..n
  BY <1>3
<1>7. QED BY <1>5, <1>6 DEF Fits, FilledFor

\* VectorInv, of what CREATE EMBEDDING asks for.
LEMMA AskedStep ==
  ASSUME Facts, Facts', Stored, VectorInv, NEW t \in Txns, Begin(t) \/ GiveUp(t) \/ Step(t), Acts(t),
         NEW u \in Txns, pc'[u] \in {"asking", "adding"}, Table(u)'.storage = Current'.storage
  PROVE  vectors'[u] = Texts(u)'
<1>1. DOMAIN pc = Txns /\ DOMAIN vectors = Txns /\ t \in Writers /\ ~ Committed(t)
  BY Actor DEF TypeOK
<1>2. \/ pc[u] \in {"asking", "adding"} /\ vectors'[u] = vectors[u]
      \/ u = t /\ Scans(t)
  <2>1. CASE u # t
    BY <2>1, ActsApart, Actor DEF Apart
  <2>2. CASE u = t /\ ~ Scans(t)
    <3>1. Moves(t)
      <4>1. CASE Begin(t)
        BY <1>1, <2>2, <4>1 DEF Begin, Goto
      <4>2. CASE Copies(t)
        BY <1>1, <2>2, <4>2 DEF Copies
      <4>3. CASE Installs(t)
        BY <1>1, <2>2, <4>3 DEF Installs, Continue
      <4>4. CASE Locks(t) \/ Appends(t) \/ Fails(t) \/ Commits(t)
        BY <1>1, <2>2, <4>4 DEF Locks, Appends, Fails, Commits
      <4>5. CASE Undoes(t)
        BY <1>1, <2>2, <4>5 DEF Undoes, Undo, Goto
      <4>6. QED BY <2>2, <4>1, <4>2, <4>3, <4>4, <4>5 DEF Acts
    <3>2. PICK l \in Labels : pc' = [pc EXCEPT ![t] = l] /\ (l \in {"asking", "adding"} => pc[t] = "asking")
      BY <3>1 DEF Moves
    <3>3. QED BY <1>1, <2>2, <3>1, <3>2 DEF Moves
  <2>3. QED BY <2>1, <2>2
<1>3. pc[u] \in {"begun", "asking", "adding"} /\ op[u].kind = "create"
  <2>1. pc[u] \in {"asking", "adding"} => op[u].kind = "create"
    BY DEF Facts, IInv, CatalogInv, TxnInv, StatementInv
  <2>2. QED BY <1>2, <2>1 DEF Scans
<1>4. Table(u)' = Table(u) /\ ~ (u = t /\ Commits(t))
  <2>1. CASE u # t
    BY <1>3, <2>1, TableStays
  <2>2. CASE u = t
    <3>1. Scans(t) \/ Moves(t)
      <4>1. CASE Copies(t)
        BY <1>1, <2>2, <4>1 DEF Copies
      <4>2. QED BY <1>3, <2>2, <4>1 DEF Acts, Begin, Installs, Locks, Appends, Fails, Commits, Undoes
    <3>2. QED BY <1>3, <2>2, <3>1, OwnTable DEF Scans, Moves, Commits
  <2>3. QED BY <2>1, <2>2
<1>5. CASE ~ Commits(t)
  <2>1. Table(u).storage = Current.storage
    BY <1>4, <1>5, CurrentStays
  <2>2. Texts(u)' = Texts(u)
    BY <1>3, <1>4, <1>5, <2>1, TextsStay
  <2>3. CASE pc[u] \in {"asking", "adding"} /\ vectors'[u] = vectors[u]
    BY <2>1, <2>2, <2>3 DEF VectorInv
  <2>4. CASE u = t /\ Scans(t)
    BY <1>1, <2>2, <2>4 DEF Scans
  <2>5. QED BY <1>2, <2>3, <2>4
<1>6. CASE Commits(t)
  <2>1. u # t /\ pc[u] \in {"asking", "adding"} /\ vectors'[u] = vectors[u]
    <3>1. ~ Scans(t)
      BY <1>6 DEF Scans, Commits
    <3>2. QED BY <1>2, <1>4, <1>6, <3>1
  <2>2. Table(u).storage # t
    BY <1>1, <1>3, <2>1, StoragesSeen DEF Stored
  <2>3. Current'.storage \in {t, Current.storage}
    <3>1. Line(Last(versions)) /\ CopyOf(t)
      BY LinesAre DEF Stored, Facts, Chained
    <3>2. CASE Last(versions).by # t
      BY <1>6, <3>2, CurrentStays
    <3>3. CASE Last(versions).by = t /\ base[t] = None
      BY <1>1, <1>6, <3>1, <3>3, CurrentStays DEF CopyOf
    <3>4. CASE Last(versions).by = t /\ base[t] # None
      BY <1>6, <3>1, <3>4, CurrentStays DEF CopyOf, Line
    <3>5. QED BY <3>2, <3>3, <3>4
  <2>4. Table(u).storage = Current.storage
    BY <1>4, <2>2, <2>3
  <2>5. vectors[u] = Texts(u)
    BY <2>1, <2>4 DEF VectorInv
  <2>6. Texts(u)' = Texts(u)
    <3>1. rows' = rows /\ count' = count
      BY <1>6 DEF Commits
    <3>2. PICK n : n = count[Table(u).storage]
      OBVIOUS
    <3>3. ASSUME NEW i \in 1..n
          PROVE  /\ SeenBy(u, rows[i])' <=> SeenBy(u, rows[i])
                 /\ TextSeen(u, i)' = TextSeen(u, i)
      <4>1. i \in DOMAIN rows
        BY <1>3, <3>2, CountIs DEF Facts, Viewed
      <4>2. PICK w \in Writers : w = rows[i]
        BY <4>1, CountIs
      <4>3. SeenBy(u, w)' <=> SeenBy(u, w)
        BY <1>3, SeesSame
      <4>4. SeenBy(u, rows[i])' <=> SeenBy(u, w)'
        BY <3>1, <4>2 DEF SeenBy, Committed
      <4>5. TextSeen(u, i)' = TextSeen(u, i)
        BY <1>3, <3>1, TextStays
      <4>6. QED BY <4>2, <4>3, <4>4, <4>5
    <3>4. RowsSeen(u) = {i \in 1..n : SeenBy(u, rows[i])} /\ RowsSeen(u)' = {i \in 1..n : SeenBy(u, rows[i])'}
      BY <1>4, <3>1, <3>2 DEF RowsSeen
    <3>5. RowsSeen(u)' = RowsSeen(u)
      BY <3>3, <3>4
    <3> DEFINE S == RowsSeen(u) \ NullRows
    <3>6. Texts(u) = [i \in S |-> TextSeen(u, i)] /\ Texts(u)' = [i \in S |-> TextSeen(u, i)']
      BY <3>5 DEF Texts
    <3>7. \A i \in S : TextSeen(u, i)' = TextSeen(u, i)
      BY <3>3, <3>4
    <3>8. QED BY <3>6, <3>7
  <2>7. QED BY <2>1, <2>5, <2>6
<1>7. QED BY <1>5, <1>6

\* Whose vectors a storage has: those of CREATE EMBEDDINGs that have filled in their column,
\* all of which the current storage fits too.
LEMMA Bearer ==
  ASSUME Facts, Stored, NEW c \in Txns, NEW w \in Writers, Carries(w, c)
  PROVE  /\ op[c].kind = "create" /\ pc[c] \in Installed \cup {"installing", "committed"}
         /\ pc[c] \notin {"idle", "begun", "asking", "adding", "removing"}
         /\ Carries(Current.storage, c)
         /\ w # Current.storage => w \in Txns /\ ~ Committed(w) /\ Replacing(w)
<1>1. op[c].kind = "create" /\ pc[c] \in Installed \cup {"installing", "committed"}
  <2>1. CASE \E e \in Embeddings : Current.cols[e] = c
    <3>1. PICK e \in Embeddings : Current.cols[e] = c
      BY <2>1
    <3>2. PICK k \in DOMAIN versions : Current = versions[k]
      BY DEF Facts, Topped
    <3>3. Line(versions[k]) /\ Committed(Current.by) /\ c # None
      BY LinesAre, TxnsAssumption DEF Stored, Facts, Topped
    <3>4. op[c].kind = "create" /\ Committed(c)
      BY <3>1, <3>2, <3>3 DEF Line
    <3>5. QED BY <3>4 DEF Facts, IInv, ClockInv
  <2>2. CASE Replacing(c) /\ op[c].kind = "create"
    BY <2>2 DEF Replacing
  <2>3. QED BY <2>1, <2>2 DEF Carries
<1>2. pc[c] \notin {"idle", "begun", "asking", "adding", "removing"}
  BY <1>1 DEF Installed
<1>3. w # Current.storage => w \in Txns /\ Replacing(w)
  BY DEF Carries
<1>4. ASSUME w \in Txns, Replacing(w) PROVE ~ Committed(w)
  <2>1. pc[w] # "committed"
    BY <1>4 DEF Replacing, Installed
  <2>2. QED BY <1>4, <2>1 DEF Facts, IInv, ClockInv
<1>5. QED BY <1>1, <1>2, <1>3, <1>4 DEF Carries

\* Nobody else sets out to replace the current storage, but by copying it.
LEMMA ReplacingNow ==
  ASSUME Facts, Facts', Stored, NEW t \in Txns, Acts(t), Current'.storage = Current.storage,
         NEW u \in Txns, u # t \/ ~ Copies(t), Replacing(u)'
  PROVE  Replacing(u)
<1>1. DOMAIN pc = Txns /\ Current.storage \in Writers /\ None \notin Writers
  BY Actor, StoragesSeen DEF TypeOK, Stored
<1>2. base'[u] = Current.storage /\ pc'[u] \in Installed \cup {"installing"}
  BY DEF Replacing
<1>3. CASE u # t
  BY <1>2, <1>3, ActsApart, Actor DEF Apart, Replacing
<1>4. CASE u = t
  <2>1. base[t] = Current.storage
    BY <1>1, <1>2, <1>4, BaseNow
  <2>2. pc[t] \in Installed \cup {"installing"}
    BY <1>1, <2>1, Actor DEF Stored, CopyOf
  <2>3. QED BY <1>4, <2>1, <2>2 DEF Replacing
<1>5. QED BY <1>3, <1>4

\* The columns of the table once t has committed.
LEMMA ColumnsNow ==
  ASSUME Facts, Facts', Stored, NEW t \in Txns, Acts(t), NEW c \in Txns, \E e \in Embeddings : Current'.cols[e] = c
  PROVE  \/ \E e \in Embeddings : Current.cols[e] = c
         \/ c = t /\ Commits(t) /\ op[t].kind = "create" /\ base[t] = Current.storage
<1>1. PICK e \in Embeddings : Current'.cols[e] = c
  OBVIOUS
<1>2. /\ t \in Writers /\ ~ Committed(t) /\ c # None
      /\ pc[t] \notin {"creating", "dropping", "ready", "staged", "failed"} => Last(versions).by # t
  BY Actor, TxnsAssumption
<1>3. CASE ~ (Commits(t) /\ Last(versions).by = t)
  BY <1>1, <1>3, CurrentStays
<1>4. CASE Commits(t) /\ Last(versions).by = t
  <2>1. Current' = Last(versions) /\ Current = versions[Len(versions) - 1]
    BY <1>2, <1>4, CurrentStays DEF Facts, Topped
  <2>2. /\ op[t].kind \in {"create", "drop", "alter"}
        /\ Last(versions).cols = Altered(t, Current).cols
    BY <1>2, <1>4, <2>1 DEF Facts, IInv, CatalogInv, TxnInv, VersionInv
  <2>3. Current.cols \in [Embeddings -> Txns \cup {None}]
    BY DEF Facts, Topped, Versions
  <2>4. \/ Current'.cols[e] = Current.cols[e]
        \/ Current'.cols[e] = None
        \/ Current'.cols[e] = t /\ op[t].kind = "create"
    <3>1. CASE op[t].kind = "create"
      BY <2>1, <2>2, <2>3, <3>1 DEF Altered
    <3>2. CASE op[t].kind = "drop"
      BY <2>1, <2>2, <2>3, <3>2 DEF Altered
    <3>3. CASE op[t].kind = "alter"
      <4>1. [Current EXCEPT !.by = t].cols = Current.cols
        BY DEF Facts, Topped, Versions
      <4>2. QED BY <2>1, <2>2, <3>3, <4>1 DEF Altered
    <3>4. QED BY <2>2, <3>1, <3>2, <3>3
  <2>5. op[t].kind = "create" => base[t] = Current.storage
    <3>1. pc[t] \in Installed /\ CopyOf(t)
      BY <1>4 DEF Commits, Installed, Stored
    <3>2. QED BY <1>2, <1>4, <3>1 DEF CopyOf
  <2>6. QED BY <1>1, <1>2, <1>4, <2>4, <2>5
<1>5. QED BY <1>3, <1>4

\* What t has filled in, others do not touch.
LEMMA BearerStays ==
  ASSUME Facts, Stored, NEW t \in Txns, Acts(t), NEW c \in Txns, NEW w \in Writers, Carries(w, c)
  PROVE  vectors'[c] = vectors[c]
<1>1. pc[c] \notin {"idle", "begun", "asking", "adding", "removing"}
  BY Bearer
<1>2. CASE c # t
  BY <1>2, ActsApart, Actor DEF Apart
<1>3. CASE c = t
  <2>1. ~ Begin(t) /\ ~ Scans(t) /\ ~ Copies(t)
    BY <1>1, <1>3 DEF Begin, Scans, Copies
  <2>2. vectors' = vectors
    BY <2>1 DEF Acts, Moves, Installs, Locks, Appends, Fails, Commits, Undoes, Undo
  <2>3. QED BY <2>2
<1>4. QED BY <1>2, <1>3

\* The vectors of c in the storage w, both of the state before the step.
LEMMA CarriedStays ==
  ASSUME Facts, Facts', Stored, VectorInv, NEW t \in Txns, Acts(t), Current'.storage = Current.storage,
         NEW c \in Txns, NEW w \in Writers, Carries(w, c)
  PROVE  Fits(c, count[w])'
<1>1. /\ op[c].kind = "create" /\ pc[c] # "idle" /\ vectors'[c] = vectors[c]
      /\ Carries(Current.storage, c) /\ Current.storage \in Writers
      /\ w # Current.storage => w \in Txns /\ ~ Committed(w) /\ Replacing(w)
  BY Bearer, BearerStays, StoragesSeen DEF Stored
<1>2. Fits(c, count[w]) /\ Fits(c, count[Current.storage])
  BY <1>1 DEF VectorInv
<1>3. PICK n : n = count[w]
  OBVIOUS
<1>4. n \in Nat /\ n <= Len(rows) /\ Fits(c, n)
  BY <1>2, <1>3, CountIs
<1>5. Fits(c, n)'
  BY <1>1, <1>2, <1>4, FitsStays
<1>6. CASE count'[w] = count[w]
  <2>1. count'[w] = n
    BY <1>3, <1>6
  <2>2. QED BY <1>5, <2>1 DEF Fits, FilledFor
<1>7. CASE count'[w] # count[w]
  <2>1. ~ Commits(t)
    BY <1>7 DEF Commits
  <2>2. w = Current.storage
    <3>1. CASE Copies(t)
      <4>1. w = t
        BY <1>7, <3>1, StoragesNow
      <4>2. base[t] = None /\ Current.storage # t
        <5>1. pc[t] \in {"adding", "removing"}
          BY <3>1 DEF Copies
        <5>2. QED BY <5>1, StoragesSeen, Actor DEF Stored, CopyOf, Installed
      <4>3. QED BY <1>1, <4>1, <4>2, TxnsAssumption DEF Replacing, Writers
    <3>2. CASE Undoes(t)
      <4>1. place[t] >= 0
        <5>1. place[t] \in Int
          BY CountIs
        <5>2. QED BY <1>7, <3>2, <5>1, StoragesNow
      <4>2. QED BY <1>7, <3>2, <4>1, StoragesNow, UndoesAppend DEF Stored
    <3>3. CASE Appends(t)
      BY <1>7, <3>3, AppendsNow, AppendsToCurrent DEF Stored
    <3>4. QED BY <1>7, <3>1, <3>2, <3>3, StoragesNow
  <2>3. Fits(c, count[Current.storage])'
    BY <1>1, <1>2, <2>1, FitsCurrent
  <2>4. QED BY <2>2, <2>3 DEF Fits, FilledFor
<1>8. QED BY <1>6, <1>7

\* What c's vectors fit before a step that replaces the current storage, they fit after it.
LEMMA VectorCommit ==
  ASSUME Facts, Facts', Stored, VectorInv, NEW t \in Txns, Acts(t), Current'.storage # Current.storage,
         NEW c \in Txns, NEW w \in Writers, Carries(w, c)'
  PROVE  Fits(c, count[w])'
<1>1. Commits(t) /\ Last(versions).by = t /\ Current' = Last(versions)
  BY CurrentStays
<1>2. /\ t \in Writers /\ t # None /\ ~ Committed(t) /\ DOMAIN pc = Txns
      /\ pc[t] = "staged" /\ pc[t] \in Installed
  BY <1>1, Actor DEF Commits, Installed, TypeOK
<1>3. CopyOf(t) /\ Line(Last(versions))
  BY LinesAre DEF Stored, Facts, Chained
<1>4. base[t] # None
  BY <1>1, <1>2, <1>3 DEF CopyOf
<1>5. Replacing(t) /\ Current'.storage = t
  BY <1>1, <1>2, <1>3, <1>4 DEF CopyOf, Line, Replacing
<1>6. ASSUME NEW u \in Txns, Replacing(u)' PROVE FALSE
  <2>1. base[u] = t
    BY <1>1, <1>5, <1>6 DEF Replacing, Commits
  <2>2. QED BY <1>2, <2>1 DEF Stored, CopyOf
<1>7. (\E e \in Embeddings : Current'.cols[e] = c) /\ w = t
  BY <1>5, <1>6 DEF Carries
<1>8. Carries(t, c)
  BY <1>5, <1>7, ColumnsNow DEF Carries
<1>9. /\ op[c].kind = "create" /\ pc[c] # "idle" /\ vectors'[c] = vectors[c]
      /\ Carries(Current.storage, c) /\ Current.storage \in Writers
  BY <1>2, <1>8, Bearer, BearerStays, StoragesSeen DEF Stored
<1>10. Fits(c, count[t]) /\ Fits(c, count[Current.storage])
  BY <1>2, <1>8, <1>9 DEF VectorInv
<1>11. PICK n : n = count[t]
  OBVIOUS
<1>12. n \in Nat /\ n <= Len(rows) /\ Fits(c, n)
  BY <1>2, <1>10, <1>11, CountIs
<1>13. Fits(c, n)'
  BY <1>9, <1>10, <1>12, FitsStays
<1>14. count'[w] = n
  BY <1>1, <1>7, <1>11 DEF Commits
<1>15. QED BY <1>13, <1>14 DEF Fits, FilledFor

\* Nor does a step that keeps the current storage, and copies none.
LEMMA VectorKept ==
  ASSUME Facts, Facts', Stored, VectorInv, NEW t \in Txns, Acts(t), Current'.storage = Current.storage, ~ Copies(t),
         NEW c \in Txns, NEW w \in Writers, Carries(w, c)'
  PROVE  Fits(c, count[w])'
<1>1. \A u \in Txns : Replacing(u)' => Replacing(u)
  BY ReplacingNow
<1>2. CASE \E e \in Embeddings : Current'.cols[e] = c
  <2>1. ~ (Commits(t) /\ op[t].kind = "create" /\ base[t] = Current.storage)
    <3>1. SUFFICES ASSUME Commits(t), op[t].kind = "create", base[t] = Current.storage PROVE FALSE
      OBVIOUS
    <3>2. base[t] # None /\ Committed(base[t]) /\ ~ Committed(t) /\ pc[t] \in Installed
      BY <3>1, StoragesSeen, Actor DEF Stored, Commits, Installed
    <3>3. Last(versions).by = t /\ Line(Last(versions))
      BY <3>2, LinesAre DEF Stored, CopyOf, Facts, Chained
    <3>4. Last(versions).storage = t
      BY <3>1, <3>3 DEF Line
    <3>5. Current' = Last(versions)
      BY <3>1, <3>3, CurrentStays
    <3>6. QED BY <3>1, <3>2, <3>4, <3>5
  <2>2. \E e \in Embeddings : Current.cols[e] = c
    BY <1>2, <2>1, ColumnsNow
  <2>3. w = Current.storage \/ (w \in Txns /\ Replacing(w)) \/ (Replacing(c) /\ w \in {c, Current.storage})
    BY <1>1 DEF Carries
  <2>4. Carries(w, c)
    BY <2>2, <2>3 DEF Carries
  <2>5. QED BY <2>4, CarriedStays
<1>3. CASE (Replacing(c) /\ op[c].kind = "create" /\ w \in {c, Current.storage})'
  <2>1. Replacing(c) /\ pc[c] # "idle"
    BY <1>1, <1>3 DEF Replacing, Installed
  <2>2. op[c].kind = "create"
    BY <1>3, <2>1, SameStatement
  <2>3. Carries(w, c)
    BY <1>3, <2>1, <2>2 DEF Carries
  <2>4. QED BY <2>3, CarriedStays
<1>4. QED BY <1>2, <1>3 DEF Carries

\* And when t copies a storage, it is the current one, or t will lose its conflict.
LEMMA VectorCopied ==
  ASSUME Facts, Facts', Stored, VectorInv, NEW t \in Txns, Acts(t), Copies(t),
         NEW c \in Txns, NEW w \in Writers, Carries(w, c)'
  PROVE  Fits(c, count[w])'
<1>1. /\ UNCHANGED <<op, committed_at, versions>> /\ pc[t] \in {"adding", "removing"} /\ t \in Writers
      /\ ~ Committed(t)
  BY Actor DEF Copies
<1>2. Current' = Current
  <2>1. ~ Commits(t)
    BY <1>1 DEF Commits
  <2>2. QED BY <2>1, CurrentStays
<1>3. /\ count'[t] = count[Table(t).storage] /\ base'[t] = Table(t).storage
      /\ \A v \in Writers : v # t => count'[v] = count[v]
  BY StoragesNow, BaseNow
<1>4. Current.storage \in Writers /\ Current.storage # t
  BY <1>1, StoragesSeen DEF Stored
<1>5. \A u \in Txns \ {t} : Replacing(u)' => Replacing(u)
  BY <1>2, ReplacingNow
<1>6. Replacing(t)' => Table(t).storage = Current.storage
  BY <1>2, <1>3 DEF Replacing
<1>7. CASE c = t
  <2>1. ~ (\E e \in Embeddings : Current.cols[e] = t)
    <3>1. SUFFICES ASSUME Carries(Current.storage, t) PROVE FALSE
      BY DEF Carries
    <3>2. QED BY <1>1, <1>4, <3>1, Bearer
  <2>2. Replacing(t)' /\ op[t].kind = "create" /\ w \in {t, Current.storage}
    BY <1>1, <1>2, <1>7, <2>1 DEF Carries
  <2>3. pc[t] = "adding" /\ vectors[t] = Texts(t)
    BY <1>1, <1>6, <2>2 DEF VectorInv, Facts, IInv, CatalogInv, TxnInv, StatementInv
  <2>4. PICK n : n = count[Table(t).storage]
    OBVIOUS
  <2>5. Fits(t, n)'
    BY <2>2, <2>3, <2>4, CopiesFill
  <2>6. count'[w] = n
    BY <1>3, <1>4, <1>6, <2>2, <2>4
  <2>7. QED BY <1>7, <2>5, <2>6 DEF Fits, FilledFor
<1>8. CASE c # t
  <2>1. \/ Carries(w, c)
        \/ w = t /\ Replacing(t)' /\ Carries(Current.storage, c)
    <3>1. CASE \E e \in Embeddings : Current.cols[e] = c
      BY <1>2, <1>5, <1>8, <3>1 DEF Carries
    <3>2. CASE ~ (\E e \in Embeddings : Current.cols[e] = c)
      BY <1>1, <1>2, <1>5, <1>8, <3>2 DEF Carries
    <3>3. QED BY <3>1, <3>2
  <2>2. CASE Carries(w, c)
    BY <1>2, <2>2, CarriedStays
  <2>3. CASE w = t /\ Replacing(t)' /\ Carries(Current.storage, c)
    <3>1. Fits(c, count[Current.storage])'
      BY <1>2, <1>4, <2>3, CarriedStays
    <3>2. count'[w] = count'[Current.storage]
      BY <1>3, <1>4, <1>6, <2>3
    <3>3. PICK n : n = count'[Current.storage]
      OBVIOUS
    <3>4. Fits(c, n)'
      BY <1>2, <3>1, <3>3 DEF Fits, FilledFor
    <3>5. QED BY <3>2, <3>3, <3>4 DEF Fits, FilledFor
  <2>4. QED BY <2>1, <2>2, <2>3
<1>9. QED BY <1>7, <1>8

LEMMA VectorStep ==
  ASSUME Facts, Facts', Stored, VectorInv, NEW t \in Txns, Begin(t) \/ GiveUp(t) \/ Step(t), Acts(t)
  PROVE  VectorInv'
<1>1. ASSUME NEW u \in Txns, pc'[u] \in {"asking", "adding"}, Table(u)'.storage = Current'.storage
      PROVE  vectors'[u] = Texts(u)'
  BY <1>1, AskedStep
<1>2. ASSUME NEW c \in Txns, NEW w \in Writers, Carries(w, c)' PROVE Fits(c, count[w])'
  <2>1. CASE Copies(t)
    BY <1>2, <2>1, VectorCopied
  <2>2. CASE ~ Copies(t) /\ Current'.storage = Current.storage
    BY <1>2, <2>2, VectorKept
  <2>3. CASE Current'.storage # Current.storage
    BY <1>2, <2>3, VectorCommit
  <2>4. QED BY <2>1, <2>2, <2>3
<1>3. QED BY <1>1, <1>2 DEF VectorInv
-----------------------------------------------------------------------------
(* StorageInv is invariant. *)

LEMMA StorageInit == Init => StorageInv
<1> SUFFICES ASSUME Init PROVE StorageInv
  OBVIOUS
<1>1. /\ \A t \in Txns : /\ pc[t] = "idle" /\ op[t] = [kind |-> "none", on |-> None] /\ start[t] = 0
                         /\ place[t] = -1 /\ base[t] = None /\ committed_at[t] = 0 /\ vectors[t] = <<>>
      /\ wal_lock = None /\ main = {Loader} /\ committed_at[Loader] = 1 /\ count[Loader] = Base
      /\ rows = [i \in 1..Base |-> Loader]
      /\ versions = <<[by |-> Loader, storage |-> Loader, cols |-> [e \in Embeddings |-> None]]>>
  <2>1. /\ wal_lock = None /\ main = {Loader} /\ rows = [i \in 1..Base |-> Loader]
        /\ versions = <<[by |-> Loader, storage |-> Loader, cols |-> [e \in Embeddings |-> None]]>>
    BY DEF Init
  <2>2. committed_at[Loader] = 1 /\ count[Loader] = Base /\ \A t \in Txns : committed_at[t] = 0
    BY TxnsAssumption DEF Init, Writers
  <2>3. \A t \in Txns : pc[t] = "idle" /\ op[t] = [kind |-> "none", on |-> None] /\ start[t] = 0
    BY DEF Init
  <2>4. \A t \in Txns : place[t] = -1 /\ base[t] = None /\ vectors[t] = <<>>
    BY DEF Init
  <2>5. QED BY <2>1, <2>2, <2>3, <2>4
<1>2. \A t \in Txns : ~ Committed(t) /\ t # Loader
  BY <1>1, TxnsAssumption DEF Committed
<1>3. Committed(Loader)
  BY <1>1 DEF Committed
<1> DEFINE v == [by |-> Loader, storage |-> Loader, cols |-> [e \in Embeddings |-> None]]
<1>4. /\ DOMAIN versions = {1} /\ Len(versions) = 1 /\ versions[1] = v /\ Last(versions) = v
  BY <1>1 DEF Last
<1>5. v.by = Loader /\ v.storage = Loader /\ \A e \in Embeddings : v.cols[e] = None
  OBVIOUS
<1> HIDE DEF v
<1>6. Current = v
  <2>1. (CHOOSE i \in {1} : Committed(versions[i].by) /\ \A j \in {1} : Committed(versions[j].by) => j <= i) = 1
    BY <1>3, <1>4, <1>5
  <2>2. QED BY <1>4, <2>1 DEF Current, Newest
<1>7. LockInv
  BY <1>1, TxnsAssumption DEF LockInv
<1>8. LineageInv
  <2>1. committed_at[Loader] <= committed_at[Loader]
    BY <1>1
  <2>2. QED BY <1>3, <1>4, <1>5, <1>6, <2>1 DEF LineageInv
<1>9. OriginInv
  BY <1>1, RowsAssumption DEF OriginInv
<1>10. WritableInv
  BY <1>1, <1>5, <1>6 DEF WritableInv
<1>11. ASSUME NEW t \in Txns PROVE CopyInv(t) /\ AppendInv(t) /\ SnapshotInv(t)
  <2>1. CopyInv(t)
    BY <1>1, <1>2, <1>4, <1>5 DEF CopyInv
  <2>2. AppendInv(t)
    BY <1>1 DEF AppendInv
  <2>3. SnapshotInv(t)
    BY <1>1 DEF SnapshotInv, Running
  <2>4. QED BY <2>1, <2>2, <2>3
<1>12. ContentInv
  <2>1. count[Current.storage] = Base /\ Base \in Nat
    BY <1>1, <1>5, <1>6, RowsAssumption
  <2>2. RowsKept
    BY <1>2 DEF RowsKept
  <2>3. \A i \in 1..Base : rows[i] = Loader
    BY <1>1
  <2>4. QED BY <1>3, <2>1, <2>2, <2>3 DEF ContentInv
<1>13. VectorInv
  <2>1. \A t \in Txns : ~ Replacing(t) /\ \A e \in Embeddings : Current.cols[e] # t
    BY <1>1, <1>5, <1>6, TxnsAssumption DEF Replacing, Installed
  <2>2. QED BY <1>1, <2>1 DEF VectorInv, Carries
<1>14. QED BY <1>7, <1>8, <1>9, <1>10, <1>11, <1>12, <1>13 DEF StorageInv

LEMMA IsStored ==
  ASSUME Facts, StorageInv
  PROVE  Stored
<1>1. ASSUME NEW t \in Txns PROVE CopyOf(t)
  <2>1. TypeOK /\ CopyInv(t)
    BY DEF StorageInv, Facts, IInv
  <2>2. QED BY <2>1, CopyIs
<1>2. QED BY <1>1 DEF StorageInv, Stored

LEMMA StorageActs ==
  ASSUME Facts, Facts', StorageInv, NEW t \in Txns, Begin(t) \/ GiveUp(t) \/ Step(t)
  PROVE  StorageInv'
<1>1. Acts(t) /\ Stored
  BY StepActs, IsStored
<1>2. LockInv /\ LineageInv /\ OriginInv /\ WritableInv
  BY <1>1 DEF Stored
<1>3. \A w \in Txns : CopyInv(w) /\ CopyOf(w)
  BY <1>1 DEF Stored
<1>4. \A w \in Txns : AppendInv(w)
  BY <1>1 DEF Stored
<1>5. \A w \in Txns : CopyOf(w)
  BY <1>3
<1>6. LockInv'
  BY <1>1, <1>2, LockStep
<1>7. LineageInv'
  BY <1>1, <1>2, <1>5, LineageStep
<1>8. OriginInv'
  BY <1>1, <1>2, <1>4, <1>5, OriginStep
<1>9. WritableInv'
  BY <1>1, <1>2, <1>3, WritableStep
<1>10. ASSUME NEW u \in Txns PROVE CopyInv(u)' /\ AppendInv(u)'
  <2>1. AppendInv(u)'
    BY <1>1, <1>2, <1>4, <1>5, AppendStep
  <2>2. CASE u = t
    BY <1>1, <1>2, <1>3, <1>4, <2>1, <2>2, OwnCopy
  <2>3. CASE u # t
    BY <1>1, <1>2, <1>3, <1>4, <2>1, <2>3, OthersCopy
  <2>4. QED BY <2>2, <2>3, <2>1
<1>11. VectorInv'
  BY <1>1, VectorStep DEF StorageInv
<1>12. ASSUME ~ RivalCommitted' PROVE ContentInv' /\ \A u \in Txns : SnapshotInv(u)'
  <2>1. ~ RivalCommitted
    BY <1>1, <1>5, <1>12, RivalStays
  <2>2. ContentInv /\ \A u \in Txns : SnapshotInv(u)
    BY <2>1 DEF StorageInv
  <2>3. ContentInv'
    BY <1>1, <1>12, <2>2, ContentStep
  <2>4. ASSUME NEW u \in Txns PROVE SnapshotInv(u)'
    BY <1>1, <2>2, OwnSnapshot, OthersSnapshot
  <2>5. QED BY <2>3, <2>4
<1>13. QED BY <1>6, <1>7, <1>8, <1>9, <1>10, <1>11, <1>12 DEF StorageInv

LEMMA StorageStutter ==
  ASSUME StorageInv, UNCHANGED vars
  PROVE  StorageInv'
<1>1. /\ UNCHANGED <<clock, pc, op, start, committed_at, versions, entries, main, count, rows, place, base, vectors, wal_lock>>
  BY DEF vars
<1>2. Current' = Current /\ \A t \in Txns : Table(t)' = Table(t)
  BY <1>1 DEF Current, Newest, Committed, Table, Seen, SeenBy
<1>3. LockInv' /\ LineageInv' /\ OriginInv'
  BY <1>1, <1>2 DEF StorageInv, LockInv, LineageInv, OriginInv, Committed, Appended
<1>4. WritableInv'
  BY <1>1, <1>2 DEF StorageInv, WritableInv, LostCopy
<1>5. ASSUME NEW t \in Txns PROVE CopyInv(t)' /\ AppendInv(t)'
  BY <1>1, <1>2 DEF StorageInv, CopyInv, AppendInv, Before, Committed, Last, Appended
<1>6. RivalCommitted' <=> RivalCommitted
  BY <1>1 DEF RivalCommitted, Committed
<1>7. ContentInv' <=> ContentInv
  BY <1>1, <1>2 DEF ContentInv, RowsKept, Committed
<1>8. ASSUME NEW t \in Txns PROVE SnapshotInv(t)' <=> SnapshotInv(t)
  BY <1>1, <1>2 DEF SnapshotInv, Running, SeenBy, Committed
<1>9. VectorInv'
  <2>1. ASSUME NEW t \in Txns
        PROVE  Texts(t)' = Texts(t) /\ (Replacing(t)' <=> Replacing(t))
    BY <1>1, <1>2 DEF Texts, TextSeen, Updates, RowsSeen, SeenBy, Committed, Replacing
  <2>2. ASSUME NEW c \in Txns, NEW w \in Writers PROVE Carries(w, c)' <=> Carries(w, c)
    BY <1>1, <1>2, <2>1 DEF Carries
  <2>3. ASSUME NEW c \in Txns, NEW n PROVE Fits(c, n)' <=> Fits(c, n)
    <3>1. ASSUME NEW i PROVE TextSeen(c, i)' = TextSeen(c, i) /\ VectorAt(c, i)' = VectorAt(c, i)
      BY <1>1 DEF TextSeen, Updates, SeenBy, Committed, VectorAt
    <3>2. QED BY <1>1, <3>1 DEF Fits, FilledFor, SeenBy, Committed
  <2>4. ASSUME NEW c \in Txns, NEW w \in Writers, Carries(w, c) PROVE Fits(c, count[w])'
    <3>1. PICK n : n = count[w]
      OBVIOUS
    <3>2. Fits(c, n)'
      BY <2>3, <2>4, <3>1 DEF StorageInv, VectorInv
    <3>3. QED BY <1>1, <3>1, <3>2 DEF Fits, FilledFor
  <2>5. QED BY <1>1, <1>2, <2>1, <2>2, <2>4 DEF StorageInv, VectorInv
<1>10. QED BY <1>3, <1>4, <1>5, <1>6, <1>7, <1>8, <1>9 DEF StorageInv

LEMMA StorageStep == Facts /\ Facts' /\ StorageInv /\ [Next]_vars => StorageInv'
<1> SUFFICES ASSUME Facts, Facts', StorageInv, [Next]_vars PROVE StorageInv'
  OBVIOUS
<1>1. CASE UNCHANGED vars
  BY <1>1, StorageStutter
<1>2. CASE Next
  BY <1>2, StorageActs DEF Next
<1>3. QED BY <1>1, <1>2

\* What the storages hold, whatever copies of them are made, committed, undone or lost.
THEOREM StorageInvariance == Spec => []StorageInv
<1>1. Spec => []Facts
  BY Invariance, FactsHold, PTL
<1>2. QED BY <1>1, StorageInit, StorageStep, PTL DEF Spec

\* The rows of a committed INSERT are in the table, although other transactions replace its
\* storage at any time: unless two statements have copied one storage and one of them committed.
THEOREM CommittedRowsKept == Spec => []InsertedRowsKept
<1>1. StorageInv => InsertedRowsKept
  BY DEF StorageInv, ContentInv, RivalCommitted, InsertedRowsKept
<1>2. QED BY <1>1, StorageInvariance, PTL

\* The storage of the table ends with rows of committed transactions, or of the one that
\* is committing: a reverted append leaves none behind, unless two statements have copied
\* one storage and one of them committed.
THEOREM CommittedRowsOnly == Spec => []OnlyCommittedRows
<1>1. StorageInv => OnlyCommittedRows
  BY DEF StorageInv, ContentInv, RivalCommitted, OnlyCommittedRows
<1>2. QED BY <1>1, StorageInvariance, PTL

\* The vectors of an embedding are of the texts its creator saw when it began, row by row,
\* and all other rows have none: whatever was inserted, updated, reverted or copied since.
THEOREM VectorsOfTexts == Spec => []VectorsOfSnapshot
<1>1. ASSUME Facts, StorageInv PROVE VectorsOfSnapshot
  <2>1. SUFFICES ASSUME NEW e \in Embeddings, NEW c, c = Current.cols[e], c # None
                 PROVE  FilledFor(c, count[Current.storage])
    BY DEF VectorsOfSnapshot
  <2>2. c \in Txns /\ Current.storage \in Writers
    <3>1. Current.cols \in [Embeddings -> Txns \cup {None}] /\ Current.storage \in Writers
      BY <1>1 DEF Facts, Topped, Versions
    <3>2. QED BY <2>1, <3>1
  <2>3. Carries(Current.storage, c)
    BY <2>1 DEF Carries
  <2>4. QED BY <1>1, <2>2, <2>3 DEF StorageInv, VectorInv, Fits
<1>2. Spec => []Facts
  BY Invariance, FactsHold, PTL
<1>3. QED BY <1>1, <1>2, StorageInvariance, PTL

\* A table that nobody has replaced, and nobody is about to, takes changes, unless a
\* statement that had copied it has lost against an ALTER that kept its storage.
THEOREM TableTakesChanges == Spec => []TableWritable
<1>1. ASSUME Facts, StorageInv PROVE TableWritable
  <2>1. SUFFICES ASSUME Committed(Last(versions).by),
                        \A t \in Txns : ~(base[t] = Current.storage /\ pc[t] = "installing"),
                        NEW t \in Txns, base[t] = Current.storage, pc[t] \in Installed
                 PROVE  FALSE
    BY <1>1 DEF TableWritable, StorageInv, WritableInv
  <2>2. CopyOf(t)
    BY <1>1, IsStored DEF Stored
  <2>3. base[t] # None
    BY <1>1, <2>1, TxnsAssumption DEF Facts, Topped, Writers
  <2>4. Last(versions).by = t
    BY <2>1, <2>2, <2>3 DEF CopyOf
  <2>5. pc[t] = "committed"
    BY <1>1, <2>1, <2>4 DEF Facts, IInv, ClockInv
  <2>6. QED BY <2>1, <2>5 DEF Installed
<1>2. Spec => []Facts
  BY Invariance, FactsHold, PTL
<1>3. QED BY <1>1, <1>2, StorageInvariance, PTL

\* What a running transaction sees of the rows is not changed by the steps of others, until
\* two statements have copied one storage and one of them has committed.
THEOREM SnapshotsOfRows == Spec => RowsStable
<1> DEFINE Stable == \A t \in Txns : (Running(t) /\ pc'[t] = pc[t]) => (~ RivalCommitted => RowsSeen(t)' = RowsSeen(t))
<1>1. ASSUME Facts, Facts', StorageInv, [Next]_vars PROVE [Stable]_vars
  <2>1. CASE UNCHANGED vars
    BY <2>1
  <2>2. ASSUME NEW t \in Txns, Begin(t) \/ GiveUp(t) \/ Step(t) PROVE Stable
    <3>1. SUFFICES ASSUME NEW u \in Txns, Running(u), pc'[u] = pc[u], ~ RivalCommitted
                   PROVE  RowsSeen(u)' = RowsSeen(u)
      OBVIOUS
    <3>2. u # t
      <4>1. TypeOK
        BY <1>1 DEF Facts, IInv
      <4>2. QED BY <2>2, <3>1, <4>1, StepMoves
    <3>3. Acts(t) /\ Stored /\ Running(u)'
      BY <1>1, <2>2, <3>1, StepActs, IsStored DEF Running
    <3>4. ContentInv /\ SnapshotInv(u)
      BY <1>1, <3>1 DEF StorageInv, RivalCommitted
    <3>5. SnapshotInv(u)'
      BY <1>1, <2>2, <3>2, <3>3, <3>4, OthersSnapshot
    <3>6. QED BY <1>1, <3>1, <3>2, <3>3, <3>4, <3>5, RowsSeenStay
  <2>3. QED BY <1>1, <2>1, <2>2 DEF Next
<1>2. Spec => []Facts
  BY Invariance, FactsHold, PTL
<1>3. Spec => [][Stable]_vars
  BY <1>1, <1>2, StorageInvariance, PTL DEF Spec
<1>4. QED BY <1>3 DEF RowsStable
=============================================================================
