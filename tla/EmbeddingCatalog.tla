--------------------------- MODULE EmbeddingCatalog ---------------------------
(***************************************************************************)
(* CREATE EMBEDDING and DROP EMBEDDING on one table, among transactions    *)
(* that insert, update and alter it. An embedding is two things that must  *)
(* come and go together: a vector column of the table and an entry of the  *)
(* catalog. Its vectors are computed by a slow call to the model between   *)
(* the scan of the texts and the ALTER TABLE that adds the column.         *)
(*                                                                         *)
(* The catalog keeps a chain of versions per name, the newest last; each   *)
(* version of the table names its storage. Adding or removing a column     *)
(* copies the row groups of the storage into a new one, which shares the   *)
(* columns it keeps, and marks the old one as no longer the main one; a    *)
(* storage that is not main takes no changes.                              *)
(*                                                                         *)
(* A transaction runs one statement and then commits or rolls back; one    *)
(* that fails before it has changed anything is over at once. The storage  *)
(* copied by a statement is named for its transaction. A text or a vector  *)
(* is named for the transaction that wrote the text.                       *)
(***************************************************************************)
EXTENDS Integers, Sequences, FiniteSets

CONSTANTS
    Txns,       \* transactions
    Loader,     \* the one that created and loaded the table
    Embeddings, \* names of embeddings
    None,
    Base,       \* rows of the table at the start
    NullRows,   \* those of them whose text is NULL
    Size,       \* rows that an INSERT of a transaction brings
    Program     \* the kinds of statement each transaction may run

Kinds == {"create", "drop", "alter", "insert", "update"}

ASSUME TxnsAssumption == Loader \notin Txns /\ None \notin Txns /\ None # Loader
ASSUME RowsAssumption == Base \in Nat \ {0} /\ NullRows \subseteq 1..Base
ASSUME ProgramAssumption == Size \in [Txns -> Nat \ {0}] /\ Program \in [Txns -> SUBSET Kinds]

Writers == Txns \cup {Loader}   \* also the names of storages

VARIABLES
    clock,          \* current_start_timestamp
    pc,             \* where each transaction is
    op,             \* its statement
    start,          \* its start time
    committed_at,   \* the commit id of its changes, 0 for uncommitted ones
    versions,       \* the chain of the table's catalog entry
    entries,        \* the chain of each embedding's catalog entry
    main,           \* the storages that are the main table
    count,          \* the rows of each storage
    rows,           \* the insert id of each row (version info), shared by the storages
    place,          \* the rows before those that a transaction has appended, or -1
    base,           \* the storage that a transaction has copied, or None
    vectors,        \* of the column that a transaction has added: row to text
    wal_lock        \* the transaction that holds the WAL lock, or None

sessionVars == <<pc, op, start>>
catalogVars == <<versions, entries>>
storageVars == <<main, count, rows, place>>
columnVars == <<base, vectors>>
vars == <<clock, pc, op, start, committed_at, versions, entries, main, count, rows, place,
          base, vectors, wal_lock>>
-----------------------------------------------------------------------------
Last(s) == s[Len(s)]
Front(s) == SubSeq(s, 1, Len(s) - 1)

Committed(w) == committed_at[w] > 0
Ended == {"committed", "aborted"}

\* A slip kept for comparison: what is committed is seen at once.
SeenWhenCommitted(t, w) == w = t \/ Committed(w)

\* CatalogSet::UseTimestamp: t made the version, or it was committed before t began.
SeenBy(t, w) == w = t \/ (Committed(w) /\ committed_at[w] < start[t])

\* A slip kept for comparison: only uncommitted versions are in the way.
ConflictWhileActive(t, w) == w # t /\ ~Committed(w)

\* CatalogSet::HasConflict
Conflict(t, w) == w # t /\ (~Committed(w) \/ committed_at[w] > start[t])

\* CatalogSet::GetEntryForTransaction: the newest version that t sees.
Seen(t, chain) ==
    chain[CHOOSE i \in DOMAIN chain : /\ SeenBy(t, chain[i].by)
                                      /\ \A j \in DOMAIN chain : SeenBy(t, chain[j].by) => j <= i]

Table(t) == Seen(t, versions)

\* The text of row i in the snapshot of t: the last update, or what was inserted.
Updates(i) == {u \in Txns : op[u].kind = "update" /\ op[u].on = i}
TextSeen(t, i) ==
    LET seen == {u \in Updates(i) : SeenBy(t, u)}
    IN IF seen = {} THEN rows[i]
       ELSE CHOOSE u \in seen : \A v \in seen : committed_at[v] <= committed_at[u]

RowsSeen(t) == {i \in 1..count[Table(t).storage] : SeenBy(t, rows[i])}

\* The texts that CREATE EMBEDDING finds: of the rows it sees, without NULLs.
Texts(t) == [i \in RowsSeen(t) \ NullRows |-> TextSeen(t, i)]

\* A slip kept for comparison: the vectors in the order of the rows they are of.
FillInOrder(f, n) ==
    [i \in 1..n |->
        IF i <= Cardinality(DOMAIN f)
        THEN f[CHOOSE r \in DOMAIN f : Cardinality({q \in DOMAIN f : q < r}) = i - 1]
        ELSE None]

\* EmbeddingFillCallback::Fill, for n rows.
Fill(f, n) == [i \in 1..n |-> IF i \in DOMAIN f THEN f[i] ELSE None]

Goto(t, label) == pc' = [pc EXCEPT ![t] = label]
-----------------------------------------------------------------------------
Init ==
    /\ clock = 2
    /\ pc = [t \in Txns |-> "idle"]
    /\ op = [t \in Txns |-> [kind |-> "none", on |-> None]]
    /\ start = [t \in Txns |-> 0]
    /\ committed_at = [w \in Writers |-> IF w = Loader THEN 1 ELSE 0]
    /\ versions = <<[by |-> Loader, storage |-> Loader, cols |-> [e \in Embeddings |-> None]]>>
    /\ entries = [e \in Embeddings |-> <<[by |-> Loader, alive |-> FALSE]>>]
    /\ main = {Loader}
    /\ count = [w \in Writers |-> IF w = Loader THEN Base ELSE 0]
    /\ rows = [i \in 1..Base |-> Loader]
    /\ place = [t \in Txns |-> -1]
    /\ base = [t \in Txns |-> None]
    /\ vectors = [t \in Txns |-> <<>>]
    /\ wal_lock = None

Targets(k) ==
    CASE k \in {"create", "drop"} -> Embeddings
      [] k = "update" -> (1..Base) \ NullRows
      [] OTHER -> {None}

\* StartTransaction, and the statement that the client sends.
Begin(t) ==
    /\ pc[t] = "idle"
    /\ \E k \in Program[t] : \E x \in Targets(k) :
          op' = [op EXCEPT ![t] = [kind |-> k, on |-> x]]
    /\ start' = [start EXCEPT ![t] = clock]
    /\ clock' = clock + 1
    /\ Goto(t, "begun")
    /\ UNCHANGED <<committed_at, catalogVars, storageVars, columnVars, wal_lock>>
-----------------------------------------------------------------------------
(* CREATE EMBEDDING (PhysicalCreateEmbedding::GetDataInternal). *)

ScanSource(t) ==
    /\ pc[t] = "begun" /\ op[t].kind = "create"
    /\ vectors' = [vectors EXCEPT ![t] = Texts(t)]
    /\ Goto(t, "asking")
    /\ UNCHANGED <<clock, op, start, committed_at, catalogVars, storageVars, base, wal_lock>>

\* One call for all texts; an error, or the wrong number of vectors, ends the statement.
Ask(t) ==
    /\ pc[t] = "asking"
    /\ \/ Goto(t, "adding")
       \/ DOMAIN vectors[t] # {} /\ Goto(t, "aborted")
    /\ UNCHANGED <<clock, op, start, committed_at, catalogVars, storageVars, columnVars, wal_lock>>

\* The DataTable constructors that add or remove a column: under the append lock of the
\* old storage, its row groups are copied and it stops being the main table.
CopyStorage(t, s) ==
    /\ count' = [count EXCEPT ![t] = count[s]]
    /\ main' = (main \ {s}) \cup {t}
    /\ base' = [base EXCEPT ![t] = s]
    /\ UNCHANGED <<rows, place>>

\* DuckTableEntry::AddColumn, IF NOT EXISTS.
AddColumn(t) ==
    /\ pc[t] = "adding"
    /\ \/ /\ Table(t).cols[op[t].on] # None
          /\ Goto(t, "creating")
          /\ UNCHANGED <<storageVars, columnVars>>
       \/ /\ Table(t).cols[op[t].on] = None
          /\ CopyStorage(t, Table(t).storage)
          /\ vectors' = [vectors EXCEPT ![t] = Fill(vectors[t], count[Table(t).storage])]
          /\ Goto(t, "installing")
    /\ UNCHANGED <<clock, op, start, committed_at, catalogVars, wal_lock>>

\* What the statement of t makes of version v.
Altered(t, v) ==
    CASE op[t].kind = "create" ->
             [by |-> t, storage |-> t, cols |-> [v.cols EXCEPT ![op[t].on] = t]]
      [] op[t].kind = "drop" ->
             [by |-> t, storage |-> t, cols |-> [v.cols EXCEPT ![op[t].on] = None]]
      [] OTHER -> [v EXCEPT !.by = t]

\* Where the statement goes on once the table is altered.
Continue(t) ==
    CASE op[t].kind = "create" -> "creating"
      [] op[t].kind = "drop" -> "dropping"
      [] OTHER -> "ready"

\* CatalogSet::AlterEntry: the entry is fetched again under the catalog lock; a version
\* of someone else ends the statement, and what it has copied is dropped.
InstallVersion(t) ==
    /\ pc[t] = "installing"
    /\ \/ /\ Conflict(t, Last(versions).by)
          /\ Goto(t, "aborted")
          /\ UNCHANGED versions
       \/ /\ ~Conflict(t, Last(versions).by)
          /\ versions' = Append(versions, Altered(t, Table(t)))
          /\ Goto(t, Continue(t))
    /\ UNCHANGED <<clock, op, start, committed_at, entries, storageVars, columnVars, wal_lock>>

\* DuckSchemaEntry::AddEntryInternal, with or without IF NOT EXISTS.
CreateEntry(t) ==
    LET e == op[t].on  l == Last(entries[e]) IN
    /\ pc[t] = "creating"
    /\ \/ /\ Seen(t, entries[e]).alive
          /\ Goto(t, "ready")
          /\ UNCHANGED entries
       \/ /\ Conflict(t, l.by) \/ l.alive
          /\ Goto(t, "failed")
          /\ UNCHANGED entries
       \/ /\ ~Conflict(t, l.by) /\ ~l.alive
          /\ entries' = [entries EXCEPT ![e] = Append(@, [by |-> t, alive |-> TRUE])]
          /\ Goto(t, "ready")
    /\ UNCHANGED <<clock, op, start, committed_at, versions, storageVars, columnVars, wal_lock>>
-----------------------------------------------------------------------------
(* DROP EMBEDDING (PhysicalDrop::GetDataInternal). *)

\* With IF EXISTS a missing embedding is no error.
LookupEntry(t) ==
    /\ pc[t] = "begun" /\ op[t].kind = "drop"
    /\ IF Seen(t, entries[op[t].on]).alive
       THEN Goto(t, "removing")
       ELSE Goto(t, "ready") \/ Goto(t, "aborted")
    /\ UNCHANGED <<clock, op, start, committed_at, catalogVars, storageVars, columnVars, wal_lock>>

\* DuckTableEntry::RemoveColumn, IF EXISTS.
RemoveColumn(t) ==
    /\ pc[t] = "removing"
    /\ \/ /\ Table(t).cols[op[t].on] = None
          /\ Goto(t, "dropping")
          /\ UNCHANGED <<storageVars, base>>
       \/ /\ Table(t).cols[op[t].on] # None
          /\ CopyStorage(t, Table(t).storage)
          /\ Goto(t, "installing")
    /\ UNCHANGED <<clock, op, start, committed_at, catalogVars, vectors, wal_lock>>

\* CatalogSet::DropEntryInternal
DropEntry(t) ==
    LET e == op[t].on  l == Last(entries[e]) IN
    /\ pc[t] = "dropping"
    /\ \/ /\ Conflict(t, l.by) \/ ~l.alive
          /\ Goto(t, "failed")
          /\ UNCHANGED entries
       \/ /\ ~Conflict(t, l.by) /\ l.alive
          /\ entries' = [entries EXCEPT ![e] = Append(@, [by |-> t, alive |-> FALSE])]
          /\ Goto(t, "ready")
    /\ UNCHANGED <<clock, op, start, committed_at, versions, storageVars, columnVars, wal_lock>>
-----------------------------------------------------------------------------
(* The other statements on the table. *)

\* An ALTER TABLE that keeps the storage: RENAME COLUMN, COMMENT ON, SET DEFAULT.
ShareStorage(t) ==
    /\ pc[t] = "begun" /\ op[t].kind = "alter"
    /\ Goto(t, "installing")
    /\ UNCHANGED <<clock, op, start, committed_at, catalogVars, storageVars, columnVars, wal_lock>>

\* DataTable::InitializeLocalAppend and LocalAppend
InsertRows(t) ==
    /\ pc[t] = "begun" /\ op[t].kind = "insert"
    /\ Goto(t, IF Table(t).storage \in main THEN "ready" ELSE "aborted")
    /\ UNCHANGED <<clock, op, start, committed_at, catalogVars, storageVars, columnVars, wal_lock>>

\* Another transaction has updated the row, and t does not see it.
RowConflict(t, i) ==
    \E u \in Updates(i) \ {t} : \/ pc[u] \in {"ready", "staged", "failed"}
                                \/ Committed(u) /\ committed_at[u] > start[t]

\* DataTable::Update
UpdateText(t) ==
    /\ pc[t] = "begun" /\ op[t].kind = "update"
    /\ Goto(t, IF Table(t).storage \in main /\ ~RowConflict(t, op[t].on)
               THEN "ready" ELSE "aborted")
    /\ UNCHANGED <<clock, op, start, committed_at, catalogVars, storageVars, columnVars, wal_lock>>
-----------------------------------------------------------------------------
(* The end of a transaction. *)

\* RowVersionManager::AppendVersionInfo: n rows of t after the first k. What a reverted
\* append has left behind them is overwritten.
Written(k, n, t) ==
    [i \in 1..(IF Len(rows) > k + n THEN Len(rows) ELSE k + n) |->
        IF i \in (k + 1)..(k + n) THEN t ELSE rows[i]]

\* LocalStorage::Flush: the rows of an INSERT are appended under the append lock.
AppendRows(t, s) ==
    /\ rows' = Written(count[s], Size[t], t)
    /\ place' = [place EXCEPT ![t] = count[s]]
    /\ count' = [count EXCEPT ![s] = @ + Size[t]]
    /\ UNCHANGED main

\* CommitTransaction and WriteToWAL: the WAL lock is held from here to the end.
Stage(t) ==
    /\ pc[t] = "ready" /\ wal_lock = None
    /\ \/ /\ op[t].kind = "insert" /\ Table(t).storage \notin main
          /\ Goto(t, "aborted")
          /\ UNCHANGED <<wal_lock, storageVars>>
       \/ /\ op[t].kind = "insert" /\ Table(t).storage \in main
          /\ AppendRows(t, Table(t).storage)
          /\ wal_lock' = t
          /\ Goto(t, "staged")
       \/ /\ op[t].kind # "insert"
          /\ wal_lock' = t
          /\ Goto(t, "staged")
          /\ UNCHANGED storageVars
    /\ UNCHANGED <<clock, op, start, committed_at, catalogVars, columnVars>>

\* A slip kept for comparison: only the first check.
RefusedChanges(t) == op[t].kind \in {"insert", "update"} /\ Table(t).storage \notin main

\* CommitState::CommitEntry: changes to a storage that is no longer main are refused, and
\* an ALTER whose old storage has become main again.
Refused(t) ==
    \/ op[t].kind \in {"insert", "update"} /\ Table(t).storage \notin main
    \/ base[t] # None /\ base[t] \in main

CommitEntries(t) ==
    /\ pc[t] = "staged"
    /\ clock' = clock + 1
    /\ \/ /\ Refused(t)
          /\ Goto(t, "failed")
          /\ UNCHANGED <<committed_at, wal_lock>>
       \/ /\ ~Refused(t)
          /\ committed_at' = [committed_at EXCEPT ![t] = clock]
          /\ wal_lock' = None
          /\ Goto(t, "committed")
    /\ UNCHANGED <<op, start, catalogVars, storageVars, columnVars>>

\* Slips kept for comparison: a part of the rollback is left out.
UndoneAlways(t, chain) == Front(chain)
MainAsItIs(t) == main
CountAsItIs(t) == count
LockAsItIs(t) == wal_lock

\* CatalogSet::Undo
Undone(t, chain) == IF Last(chain).by = t THEN Front(chain) ELSE chain

\* DuckTableEntry::SetAsRoot, and DataTable::RevertAppend, which makes a storage main
\* again that was altered since, "causing the commit of the other transaction to fail".
RestoredMain(t) ==
    main \cup (IF Last(versions).by = t THEN {Last(Front(versions)).storage} ELSE {})
         \cup (IF place[t] >= 0 THEN {Table(t).storage} ELSE {})

\* RowGroupCollection::RevertAppendInternal
RevertedCount(t) ==
    IF place[t] >= 0 THEN [count EXCEPT ![Table(t).storage] = place[t]] ELSE count

\* The WAL lock is held until the transaction is over.
Released(t) == IF wal_lock = t THEN None ELSE wal_lock

\* DuckTransaction::Rollback
Undo(t) ==
    /\ versions' = Undone(t, versions)
    /\ entries' = [e \in Embeddings |-> Undone(t, entries[e])]
    /\ main' = RestoredMain(t)
    /\ count' = RevertedCount(t)
    /\ place' = [place EXCEPT ![t] = -1]
    /\ base' = [base EXCEPT ![t] = None]
    /\ wal_lock' = Released(t)
    /\ Goto(t, "aborted")
    /\ UNCHANGED <<clock, op, start, committed_at, rows, vectors>>

\* After an error, and when the client gives up.
Rollback(t) == pc[t] = "failed" /\ Undo(t)
GiveUp(t) == pc[t] = "ready" /\ Undo(t)
-----------------------------------------------------------------------------
\* What a transaction does without a decision of its client.
Step(t) ==
    \/ ScanSource(t) \/ Ask(t) \/ AddColumn(t) \/ InstallVersion(t) \/ CreateEntry(t)
    \/ LookupEntry(t) \/ RemoveColumn(t) \/ DropEntry(t)
    \/ ShareStorage(t) \/ InsertRows(t) \/ UpdateText(t)
    \/ Stage(t) \/ CommitEntries(t) \/ Rollback(t)

Next == \E t \in Txns : Begin(t) \/ GiveUp(t) \/ Step(t)

Fairness == \A t \in Txns : WF_vars(Step(t))

Spec == Init /\ [][Next]_vars
FairSpec == Spec /\ Fairness
-----------------------------------------------------------------------------
(* Properties. *)

Newest(chain) ==
    chain[CHOOSE i \in DOMAIN chain : /\ Committed(chain[i].by)
                                      /\ \A j \in DOMAIN chain : Committed(chain[j].by) => j <= i]
Current == Newest(versions)

Labels == {"idle", "begun", "asking", "adding", "installing", "creating", "removing",
           "dropping", "ready", "staged", "failed"} \cup Ended
Operations == {[kind |-> "none", on |-> None]}
              \cup UNION {[kind : {k}, on : Targets(k)] : k \in Kinds}
Versions == [by : Writers, storage : Writers, cols : [Embeddings -> Txns \cup {None}]]

\* Types of the catalog, the storages and the transactions.
TypeOK ==
    /\ clock \in Nat
    /\ pc \in [Txns -> Labels]
    /\ op \in [Txns -> Operations]
    /\ start \in [Txns -> Nat]
    /\ committed_at \in [Writers -> Nat]
    /\ versions \in Seq(Versions) /\ versions # <<>>
    /\ entries \in [Embeddings -> Seq([by : Writers, alive : BOOLEAN])]
    /\ \A e \in Embeddings : entries[e] # <<>>
    /\ main \subseteq Writers
    /\ rows \in Seq(Writers)
    /\ count \in [Writers -> 0..Len(rows)]
    /\ place \in [Txns -> -1..Len(rows)]
    /\ base \in [Txns -> Writers \cup {None}]
    /\ DOMAIN vectors = Txns
    /\ wal_lock \in Txns \cup {None}

\* Two statements have copied one storage and one of them has committed. Both have marked
\* the storage as altered, so the commit cannot tell whether a rollback had made it main in
\* between, and the committed storage may differ from the one before by rows lost or left
\* over. From such a commit on the properties of rows promise nothing, and say so.
RivalCommitted ==
    \E t, u \in Txns : t # u /\ Committed(t) /\ base[t] # None /\ base[u] = base[t]

\* An embedding has its column exactly while it has its entry, whatever else runs, fails
\* or is rolled back between the ALTER TABLE and the creation or removal of the entry.
EntryMatchesColumn ==
    \A e \in Embeddings : Newest(entries[e]).alive <=> Current.cols[e] # None

\* The rows of a committed INSERT are in the table, although other transactions replace
\* its storage at any time: an ALTER TABLE copies rows that are not committed yet, or is
\* copied from a storage that takes rows again when another commit fails. The one
\* exception is a storage copied twice, once for good.
RowsKept ==
    \A t \in Txns : (op[t].kind = "insert" /\ Committed(t)) =>
        \A i \in (place[t] + 1)..(place[t] + Size[t]) :
            i <= count[Current.storage] /\ rows[i] = t
InsertedRowsKept == ~ RivalCommitted => RowsKept

\* The comment at data_table.cpp:1384, for the rows that come after: when a failed commit
\* has made a storage main again, the ALTER TABLE that had replaced it fails, so what is
\* inserted in between is kept.
RevertedAlterFails == RowsKept

\* The storage of the table ends with rows of committed transactions, or of the one that is
\* committing: a reverted append leaves none, also in storages copied while it was there.
\* The exception is again a storage copied twice, once for good: the reverted rows stay.
OnlyCommittedRows ==
    ~ RivalCommitted => \A i \in 1..count[Current.storage] :
        Committed(rows[i]) \/ rows[i] = wal_lock

\* The vectors that c has filled in, for a storage of n rows: of the texts c saw when it
\* began, row by row; all other rows have none.
VectorAt(c, i) == IF i \in DOMAIN vectors[c] THEN vectors[c][i] ELSE None
FilledFor(c, n) ==
    \A i \in 1..n :
        VectorAt(c, i) = IF SeenBy(c, rows[i]) /\ i \notin NullRows THEN TextSeen(c, i) ELSE None

\* The vectors of an embedding stay with their rows, although rows were inserted, updated
\* and reverted during the call to the model, and although its storage was copied since:
\* also by two statements of which one commits, which may lose rows, but none with a vector.
VectorsOfSnapshot ==
    \A e \in Embeddings : LET c == Current.cols[e] IN
        c # None => FilledFor(c, count[Current.storage])

\* Nobody has replaced the table and no statement is about to: then it takes changes. The
\* exception: a statement that copied the storage and lost against an ALTER that kept it.
LostCopy(s) ==
    /\ \E t \in Txns : base[t] = s /\ pc[t] = "aborted"
    /\ \E i \in DOMAIN versions : versions[i].storage = s /\ versions[i].by \in Txns
                                  /\ op[versions[i].by].kind = "alter"
TableWritable ==
    (Committed(Last(versions).by)
     /\ \A t \in Txns : ~(base[t] = Current.storage /\ pc[t] = "installing"))
    => Current.storage \in main \/ LostCopy(Current.storage)

Running(t) == pc[t] \notin {"idle"} \cup Ended

\* What a running transaction sees of the table and its embeddings is not changed by the
\* steps of others: versions that are installed, committed or undone meanwhile.
SameCatalog(t) ==
    /\ Table(t)' = Table(t)
    /\ \A e \in Embeddings : Seen(t, entries[e])' = Seen(t, entries[e])
CatalogStable == [][\A t \in Txns : (Running(t) /\ pc'[t] = pc[t]) => SameCatalog(t)]_vars

\* Nor are the rows it sees: rows are appended, reverted and overwritten, and storages
\* copied and dropped. The exception: once one of two copies of a storage is committed,
\* appends to it overwrite version info that snapshots of the other still read.
RowsStable ==
    [][\A t \in Txns : (Running(t) /\ pc'[t] = pc[t]) =>
            (~ RivalCommitted => RowsSeen(t)' = RowsSeen(t))]_vars

\* Every statement ends, and with it its transaction; nobody keeps the WAL lock.
TransactionsEnd == \A t \in Txns : pc[t] = "begun" ~> pc[t] \in Ended
-----------------------------------------------------------------------------
(* The inductive invariant from which EntryMatchesColumn is proved. *)

\* w committed before time T.
Before(w, T) == Committed(w) /\ committed_at[w] < T

\* The version at position i is the one that a transaction that begins at T sees.
Top(chain, T, i) ==
    /\ i \in DOMAIN chain
    /\ Before(chain[i].by, T)
    /\ \A k \in DOMAIN chain : Before(chain[k].by, T) => k <= i

ClockInv ==
    /\ clock >= 2 /\ committed_at[Loader] = 1
    /\ \A t \in Txns : /\ start[t] < clock /\ committed_at[t] < clock
                       /\ Committed(t) <=> pc[t] = "committed"
                       /\ pc[t] # "idle" => start[t] >= 2
    /\ \A t \in Txns, w \in Writers : pc[t] # "idle" => committed_at[w] # start[t]

\* Only the last version may be uncommitted.
ChainInv(chain) == \A i \in DOMAIN chain : i < Len(chain) => Committed(chain[i].by)

\* What a transaction sees depends on when it begins, and so does whether it sees the
\* column and the entry of an embedding: at no time one without the other.
HistoryInv ==
    \A T \in 2..clock :
        /\ \E i \in DOMAIN versions : Top(versions, T, i)
        /\ \A e \in Embeddings :
              /\ \E j \in DOMAIN entries[e] : Top(entries[e], T, j)
              /\ \A i \in DOMAIN versions, j \in DOMAIN entries[e] :
                    Top(versions, T, i) /\ Top(entries[e], T, j)
                    => (entries[e][j].alive <=> versions[i].cols[e] # None)

\* The table that t began with has the column, or has not.
HadColumn(t) == \A i \in DOMAIN versions :
    Top(versions, start[t], i) => versions[i].cols[op[t].on] # None
LackedColumn(t) == \A i \in DOMAIN versions :
    Top(versions, start[t], i) => versions[i].cols[op[t].on] = None

StatementInv(t) ==
    /\ pc[t] \in {"asking", "adding", "creating"} => op[t].kind = "create"
    /\ pc[t] \in {"removing", "dropping"} => op[t].kind = "drop" /\ HadColumn(t)
    /\ pc[t] = "installing" =>
          \/ op[t].kind = "create" /\ LackedColumn(t)
          \/ op[t].kind = "drop" /\ HadColumn(t)
          \/ op[t].kind = "alter"
    /\ pc[t] = "creating" /\ Last(versions).by # t => HadColumn(t)
    /\ pc[t] = "creating" /\ Last(versions).by = t => LackedColumn(t)
    /\ pc[t] = "dropping" => Last(versions).by = t

\* An uncommitted version is its transaction's change to what it began with.
VersionInv(t) ==
    (Last(versions).by = t /\ ~Committed(t)) =>
        /\ pc[t] \in {"creating", "dropping", "ready", "staged", "failed"}
        /\ op[t].kind \in {"create", "drop", "alter"}
        /\ Len(versions) >= 2 /\ Top(versions, start[t], Len(versions) - 1)
        /\ Last(versions).cols = Altered(t, versions[Len(versions) - 1]).cols

EntryInv(t, e) ==
    (Last(entries[e]).by = t /\ ~Committed(t)) =>
        /\ pc[t] \in {"ready", "staged", "failed"}
        /\ op[t].on = e
        /\ \/ op[t].kind = "create" /\ Last(entries[e]).alive
           \/ op[t].kind = "drop" /\ ~Last(entries[e]).alive
        /\ Len(entries[e]) >= 2

\* A statement that goes to its commit has changed both or none.
BothInv(t) ==
    (pc[t] \in {"ready", "staged"} /\ op[t].kind \in {"create", "drop"}) =>
        (Last(versions).by = t <=> Last(entries[op[t].on]).by = t)

TxnInv(t) ==
    StatementInv(t) /\ VersionInv(t) /\ BothInv(t) /\ \A e \in Embeddings : EntryInv(t, e)

CatalogInv ==
    /\ ChainInv(versions) /\ \A e \in Embeddings : ChainInv(entries[e])
    /\ HistoryInv
    /\ \A t \in Txns : TxnInv(t)

\* The catalog of every snapshot is consistent, and what is uncommitted is the last
\* version of its chain and the whole change of one statement.
IInv == TypeOK /\ ClockInv /\ CatalogInv
-----------------------------------------------------------------------------
(* A second invariant follows from the first: what the storages of the table hold, *)
(* from which the properties on rows and vectors are proved.                       *)

LockInv ==
    /\ \A t \in Txns : pc[t] = "staged" => wal_lock = t
    /\ wal_lock # None => pc[wal_lock] \in {"staged", "failed"}

\* A version has a storage of its own, or the one before it in the chain; the storages of
\* committed versions are the current one and those that a committed statement has copied.
\* The column of an embedding was added with the storage of its creator.
LineageInv ==
    \A k \in DOMAIN versions : LET v == versions[k] IN
        /\ v.storage = v.by \/ (v.by \in Txns /\ op[v.by].kind = "alter")
        /\ Committed(v.by) =>
              /\ Committed(v.storage) /\ committed_at[v.storage] <= committed_at[v.by]
              /\ v.storage = Current.storage \/ \E t \in Txns : Committed(t) /\ base[t] = v.storage
        /\ \A e \in Embeddings : LET c == v.cols[e] IN
              c # None => op[c].kind = "create" /\ base[c] # None /\ (Committed(c) \/ c = v.by)

\* A storage that has been copied takes changes again only if that copy will not commit,
\* or if another statement copies it too; until then both have the same rows.
Installed == {"creating", "dropping", "ready", "staged", "failed"}
CopyInv(t) ==
    /\ base[t] # None =>
          /\ op[t].kind \in {"create", "drop"} /\ Before(base[t], start[t])
          /\ pc[t] \in Installed \cup {"installing", "committed", "aborted"}
          /\ pc[t] = "installing" => base[t] = Table(t).storage
          /\ pc[t] \in Installed => Last(versions).by = t /\ base[t] = Current.storage
          /\ pc[t] = "committed" => base[t] \notin main /\ base[t] # Current.storage
          /\ pc[t] # "committed" => t \in main
          /\ pc[t] \in Installed \cup {"installing"} =>
                \/ base[t] \in main
                \/ count[t] = count[base[t]]
                \/ \E u \in Txns \ {t} : base[u] = base[t]
    /\ pc[t] = "installing" /\ base[t] = None => op[t].kind = "alter"
    /\ Last(versions).by = t /\ ~Committed(t) /\ base[t] = None =>
          op[t].kind = "alter" /\ Last(versions).storage = Current.storage

\* Rows that an INSERT has appended are the last of the current storage, until it is over.
Appended(t) == (place[t] + 1)..(place[t] + Size[t])
AppendInv(t) ==
    /\ place[t] >= 0 <=> op[t].kind = "insert" /\ pc[t] \in {"staged", "failed", "committed"}
    /\ place[t] >= 0 /\ ~Committed(t) =>
          /\ wal_lock = t
          /\ Table(t).storage = Current.storage
          /\ count[Current.storage] = place[t] + Size[t]
          /\ \A i \in Appended(t) : rows[i] = t
OriginInv ==
    \A i \in DOMAIN rows :
        IF rows[i] = Loader THEN i <= Base
        ELSE \/ place[rows[i]] >= 0 /\ i \in Appended(rows[i])
             \/ pc[rows[i]] = "aborted" /\ op[rows[i]].kind = "insert"

\* The current storage has the rows that are committed and those of the INSERT that holds
\* the lock; each transaction finds the rows it sees in its own storage.
ContentInv ==
    /\ Base <= count[Current.storage]
    /\ \A i \in 1..Base : rows[i] = Loader
    /\ RowsKept
    /\ \A i \in 1..count[Current.storage] : Committed(rows[i]) \/ rows[i] = wal_lock
SnapshotInv(t) ==
    Running(t) => \A i \in DOMAIN rows : SeenBy(t, rows[i]) =>
        i <= count[Table(t).storage] /\ (base[t] # None => i <= count[t])

\* The vectors of c are right for a storage of n rows, and there are none after those.
Fits(c, n) ==
    /\ FilledFor(c, n)
    /\ \A i \in DOMAIN vectors[c] : vectors[c][i] # None => i \in 1..n

\* The storages that the column of c is in, or will be in if a statement commits that is
\* about to replace the current one; and while that is c, the one it takes the rows from.
Replacing(t) == base[t] = Current.storage /\ pc[t] \in Installed \cup {"installing"}
Carries(w, c) ==
    \/ /\ \E e \in Embeddings : Current.cols[e] = c
       /\ w = Current.storage \/ (w \in Txns /\ Replacing(w))
    \/ Replacing(c) /\ op[c].kind = "create" /\ w \in {c, Current.storage}

\* What CREATE EMBEDDING asks for, and what it has filled in. A statement that began with a
\* storage that is replaced will lose its conflict, and what it asks for does not matter.
VectorInv ==
    /\ \A t \in Txns : pc[t] \in {"asking", "adding"} /\ Table(t).storage = Current.storage
                        => vectors[t] = Texts(t)
    /\ \A c \in Txns, w \in Writers : Carries(w, c) => Fits(c, count[w])

\* The table takes no changes while a statement replaces its storage, or after one that
\* would have has lost to an ALTER that keeps it.
WritableInv ==
    \/ Current.storage \in main
    \/ \E t \in Txns : base[t] = Current.storage /\ pc[t] \in Installed \cup {"installing"}
    \/ LostCopy(Current.storage)

StorageInv ==
    /\ LockInv /\ LineageInv /\ OriginInv /\ WritableInv /\ VectorInv
    /\ \A t \in Txns : CopyInv(t) /\ AppendInv(t)
    /\ ~ RivalCommitted => ContentInv /\ \A t \in Txns : SnapshotInv(t)
=============================================================================
