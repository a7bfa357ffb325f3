---------------------------- MODULE WalCheckpoint ----------------------------
(***************************************************************************)
(* The durability of a database file and of the models and embeddings in   *)
(* its catalog: transactions are written to a write-ahead log and flushed  *)
(* when they commit; a checkpoint writes a snapshot to the file while      *)
(* commits go on into a second log; a crash may fall between any two of    *)
(* these steps and between any two steps of the recovery, which has to     *)
(* find out from the files which logs still count.                         *)
(*                                                                         *)
(* A transaction is one attempt to commit. CREATE EMBEDDING transactions   *)
(* add a column whose vectors come from a callback that is not logged: the *)
(* column is replayed with NULLs, a checkpoint keeps the vectors.          *)
(*                                                                         *)
(* Assumed of the file system: a rename or removal is atomic and in order, *)
(* synced bytes stay, a torn write never splits the version entry. Assumed *)
(* of the block manager: a snapshot is written to blocks the current one   *)
(* does not use, and the header is written at once.                        *)
(***************************************************************************)
EXTENDS Integers, Sequences, FiniteSets

CONSTANTS
    Txns,           \* transactions
    Embeddings,     \* those that run CREATE EMBEDDING
    Blocks,         \* blocks that may hold the root of a snapshot
    NoTxn,
    Settings,       \* the worlds: which commits, faults and crashes happen
    MaxIteration    \* bound: checkpoints of a file, less one

ASSUME TxnsAssumption == Embeddings \subseteq Txns /\ NoTxn \notin Txns
ASSUME BlocksAssumption == Blocks # {}
ASSUME SettingsAssumption ==
    Settings \subseteq [skip : BOOLEAN,     \* a large commit may skip the log
                        torn : BOOLEAN,     \* a crash may leave part of a write
                        crashes : Nat]      \* bound: crashes
ASSUME IterationAssumption == MaxIteration \in Nat

VARIABLES
    setting,
    wal,            \* the main log file
    checkpoint_wal, \* the log file commits go to while a checkpoint runs
    image,          \* the snapshot below each root block
    root,           \* the root block of the header
    iteration,      \* the checkpoint iteration of the header
    phase,          \* what the process does: "running", or a step of recovery
    memory,         \* the committed transactions of the open database, in order
    filled,         \* the embeddings among them whose vectors are in memory
    committing,     \* the transaction between its first log write and its flush
    skipping,       \* the committed transaction that waits for its checkpoint
    stage,          \* where the running checkpoint is
    plan,           \* what it writes
    started,        \* transactions that tried to commit
    acked,          \* history: transactions whose COMMIT returned success
    crashes,        \* history: crashes
    merges          \* history: how often the checkpoint log on disk was merged into the
                    \* main log; 2 stays

fileVars == <<image, root, iteration>>
logVars == <<wal, checkpoint_wal, merges>>
memoryVars == <<memory, filled>>
commitVars == <<committing, skipping, started, acked>>
checkpointVars == <<stage, plan>>
vars == <<setting, wal, checkpoint_wal, image, root, iteration, phase, memory, filled,
          committing, skipping, stage, plan, started, acked, crashes, merges>>
-----------------------------------------------------------------------------
(* Log files. txs are the flushed transactions; a marker remembers how many *)
(* of them it follows; torn: the file goes on past its last flush.          *)

Absent == [iter |-> -1, txs |-> <<>>, marks |-> <<>>, torn |-> FALSE]
Empty == [iter |-> 0, txs |-> <<>>, marks |-> <<>>, torn |-> FALSE]

Elems(s) == {s[i] : i \in DOMAIN s}
Last(s) == s[Len(s)]
Marked(f) == f.marks # <<>>

\* Nothing is flushed in it: the size to which it is truncated is 0.
Bare(f) == f.txs = <<>> /\ f.marks = <<>>

\* WriteAheadLog::Truncate, to the end of the last flush.
Truncated(f) ==
    IF f.iter = -1 THEN f ELSE IF Bare(f) THEN Empty ELSE [f EXCEPT !.torn = FALSE]

\* WriteAheadLog::Initialize and WriteHeader, for the first write after opening the
\* file: a torn end is truncated, and a file of size 0 gets a version entry.
Writable(f, n) ==
    LET g == Truncated(f) IN IF g.iter \in {-1, 0} THEN [g EXCEPT !.iter = n] ELSE g

\* A slip kept for comparison: the merge copies the main log only.
MergedMainOnly(f, c) ==
    [f EXCEPT !.txs = SubSeq(@, 1, Last(f.marks).at),
              !.marks = SubSeq(@, 1, Len(@) - 1)]

\* MergeIntoRecoveryWAL: the main log up to its last marker, then the checkpoint log.
Merged(f, c) ==
    [iter |-> f.iter,
     txs |-> SubSeq(f.txs, 1, Last(f.marks).at) \o c.txs,
     marks |-> SubSeq(f.marks, 1, Len(f.marks) - 1),
     torn |-> c.torn]

\* What may be on disk of a file whose last write, of transaction t, was not synced.
Unsynced(f, t) ==
    {Truncated(f), [f EXCEPT !.txs = Append(@, t), !.torn = FALSE]}
    \cup (IF setting.torn THEN {f} ELSE {})
-----------------------------------------------------------------------------
Running == phase = "running"

\* The WAL object: while a checkpoint that has a log runs, it is the checkpoint log.
OnCheckpointWal == stage \in {"writing", "headed"} /\ plan.has_wal

\* GetWALLock: held by a commit until its flush, by a commit that skips the log until
\* its checkpoint is over, and by a checkpoint while it changes the log files.
WalLockFree == committing = NoTxn /\ skipping = NoTxn /\ stage # "marked"

\* Catalog changes hold a share of the checkpoint lock, a checkpoint the whole.
CheckpointLockFree == stage = "none" /\ committing \notin Embeddings

NoPlan == [block |-> root, txs |-> <<>>, filled |-> {}, has_wal |-> FALSE, iter |-> 0]

Init ==
    /\ setting \in Settings
    /\ wal = Absent
    /\ checkpoint_wal = Absent
    /\ root \in Blocks
    /\ image = [b \in Blocks |-> [txs |-> <<>>, filled |-> {}]]
    /\ iteration = 1
    /\ phase = "running"
    /\ memory = <<>>
    /\ filled = {}
    /\ committing = NoTxn
    /\ skipping = NoTxn
    /\ stage = "none"
    /\ plan = NoPlan
    /\ started = {}
    /\ acked = {}
    /\ crashes = 0
    /\ merges = 0
-----------------------------------------------------------------------------
(* Committing. *)

\* A slip kept for comparison: the transaction object is reset before it is reported.
AcknowledgeReset(t) == acked' = acked \cup {committing'}

\* CommitTransaction returns no error.
Acknowledge(t) == acked' = acked \cup {t}

WriteToWAL(t) ==
    /\ Running
    /\ WalLockFree
    /\ t \notin started
    /\ t \in Embeddings => CheckpointLockFree
    /\ IF OnCheckpointWal
       THEN /\ checkpoint_wal' = [Writable(checkpoint_wal, plan.iter) EXCEPT !.torn = TRUE]
            /\ UNCHANGED wal
       ELSE /\ wal' = [Writable(wal, iteration) EXCEPT !.torn = TRUE]
            /\ UNCHANGED checkpoint_wal
    /\ committing' = t
    /\ started' = started \cup {t}
    /\ UNCHANGED <<setting, fileVars, phase, memoryVars, skipping, checkpointVars, acked, crashes,
                   merges>>

\* DuckTransaction::Commit and FlushCommit: no query sees the transaction before the
\* transaction lock is released, and by then the log is synced.
FlushCommit ==
    /\ Running
    /\ committing # NoTxn
    /\ IF OnCheckpointWal
       THEN /\ checkpoint_wal' =
                  [checkpoint_wal EXCEPT !.txs = Append(@, committing), !.torn = FALSE]
            /\ UNCHANGED wal
       ELSE /\ wal' = [wal EXCEPT !.txs = Append(@, committing), !.torn = FALSE]
            /\ UNCHANGED checkpoint_wal
    /\ memory' = Append(memory, committing)
    /\ filled' = filled \cup ({committing} \cap Embeddings)
    /\ committing' = NoTxn
    /\ Acknowledge(committing)
    /\ UNCHANGED <<setting, fileVars, phase, skipping, checkpointVars, started, crashes, merges>>

\* The commit failed: what it wrote is cut off, a header it wrote included.
RevertCommit ==
    /\ Running
    /\ committing # NoTxn
    /\ IF OnCheckpointWal
       THEN checkpoint_wal' = Truncated(checkpoint_wal) /\ UNCHANGED wal
       ELSE wal' = Truncated(wal) /\ UNCHANGED checkpoint_wal
    /\ committing' = NoTxn
    /\ UNCHANGED <<setting, fileVars, phase, memoryVars, skipping, checkpointVars, started, acked,
                   crashes, merges>>

\* CommitTransaction with skip_wal_write_due_to_checkpoint: nothing is logged, and the
\* WAL lock stays held until the checkpoint that follows is over.
CommitSkippingWAL(t) ==
    /\ Running
    /\ setting.skip
    /\ WalLockFree
    /\ CheckpointLockFree
    /\ iteration < MaxIteration
    /\ t \notin started
    /\ memory' = Append(memory, t)
    /\ filled' = filled \cup ({t} \cap Embeddings)
    /\ skipping' = t
    /\ started' = started \cup {t}
    /\ UNCHANGED <<setting, logVars, fileVars, phase, committing, checkpointVars, acked, crashes>>
-----------------------------------------------------------------------------
(* A checkpoint. *)

\* There is no checkpoint log any more, merged or not.
NoCheckpointWAL ==
    /\ checkpoint_wal' = Absent
    /\ merges' = IF merges = 1 THEN 0 ELSE merges

\* A slip kept for comparison: the checkpoint log gets the iteration of the header.
SameIteration == iteration

\* The checkpoint log belongs to the next snapshot.
NextIteration == iteration + 1

\* CreateCheckpoint and WALStartCheckpoint: the snapshot is what is committed now; a
\* marker with its root block is flushed to the log, unless the log is empty, which
\* keeps a checkpoint from starting at all but for a commit that skipped the log.
WALStartCheckpoint(b) ==
    /\ Running
    /\ CheckpointLockFree
    /\ committing = NoTxn
    /\ skipping # NoTxn \/ ~ Bare(wal)
    /\ iteration < MaxIteration
    /\ b # root
    /\ plan' = [block |-> b, txs |-> memory, filled |-> filled,
                has_wal |-> ~ Bare(wal), iter |-> NextIteration]
    /\ IF Bare(wal)
       THEN stage' = "writing" /\ UNCHANGED wal
       ELSE /\ stage' = "marked"
            /\ wal' = [Truncated(wal) EXCEPT
                          !.marks = Append(@, [block |-> b, at |-> Len(wal.txs)])]
    /\ UNCHANGED <<setting, checkpoint_wal, fileVars, phase, memoryVars, commitVars, crashes,
                   merges>>

\* The rest of WALStartCheckpoint: commits go to a checkpoint log from now on, and one
\* left from before is removed.
SwitchWAL ==
    /\ Running
    /\ stage = "marked"
    /\ NoCheckpointWAL
    /\ stage' = "writing"
    /\ UNCHANGED <<setting, wal, fileVars, phase, memoryVars, commitVars, plan, crashes>>

\* A slip kept for comparison: the checkpoint writes what is committed by the end of it.
WrittenLate == [txs |-> memory, filled |-> filled]

\* The entries and rows committed when the checkpoint started, vectors included.
Written == [txs |-> plan.txs, filled |-> plan.filled]

\* The snapshot is on disk; the header makes its root block the current one.
WriteHeader ==
    /\ Running
    /\ stage = "writing"
    /\ image' = [image EXCEPT ![plan.block] = Written]
    /\ root' = plan.block
    /\ iteration' = iteration + 1
    /\ stage' = "headed"
    /\ UNCHANGED <<setting, logVars, phase, memoryVars, commitVars, plan, crashes>>

\* A slip kept for comparison: the main log is removed, whatever the other log holds.
RemovedLog == Absent

\* A checkpoint log that was written to is moved over the main log; when there is none
\* the main log is removed.
FinishedLog == checkpoint_wal

\* A slip kept for comparison: only a checkpoint nobody wrote beside is finished.
FinishUnwritten == committing = NoTxn /\ checkpoint_wal = Absent

\* The WAL lock: taken, or held by the commit that skipped the log.
FinishLock == committing = NoTxn

\* WALFinishCheckpoint; the commit that waited for the checkpoint returns.
WALFinishCheckpoint ==
    /\ Running
    /\ stage = "headed"
    /\ FinishLock
    /\ IF plan.has_wal
       THEN wal' = FinishedLog /\ NoCheckpointWAL
       ELSE UNCHANGED logVars
    /\ stage' = "none"
    /\ plan' = NoPlan
    /\ acked' = IF skipping = NoTxn THEN acked ELSE acked \cup {skipping}
    /\ skipping' = NoTxn
    /\ UNCHANGED <<setting, fileVars, phase, memoryVars, committing, started, crashes>>
-----------------------------------------------------------------------------
(* A crash. Memory is gone; a write that was not synced may be on disk, in part, or *)
(* not at all. A failed checkpoint, which invalidates the database, ends here too.  *)

Crash ==
    /\ phase \in {"running", "merged", "nested"}
    /\ crashes < setting.crashes
    /\ wal' \in
          IF committing # NoTxn /\ ~ OnCheckpointWal THEN Unsynced(wal, committing)
          ELSE IF stage = "marked" /\ setting.torn THEN {wal, [wal EXCEPT !.torn = TRUE]}
          ELSE {wal}
    /\ checkpoint_wal' \in
          IF committing # NoTxn /\ OnCheckpointWal THEN Unsynced(checkpoint_wal, committing)
          ELSE {checkpoint_wal}
    /\ phase' = "closed"
    /\ memory' = <<>>
    /\ filled' = {}
    /\ committing' = NoTxn
    /\ skipping' = NoTxn
    /\ stage' = "none"
    /\ plan' = NoPlan
    /\ crashes' = crashes + 1
    /\ UNCHANGED <<setting, fileVars, started, acked, merges>>
-----------------------------------------------------------------------------
(* Recovery: LoadDatabase and WriteAheadLogReplayer. *)

\* IsCheckpointClean: the snapshot the last marker announced is the current one.
Clean == Last(wal.marks).block = root

\* A slip kept for comparison: the vectors of a loaded column are not read back.
LoadedWithoutVectors(txs) ==
    /\ memory' = image[root].txs \o txs
    /\ filled' = {}
    /\ phase' = "running"

\* The database is as its snapshot and the transactions of a log say; the vectors of an
\* embedding come from the snapshot only.
Loaded(txs) ==
    /\ memory' = image[root].txs \o txs
    /\ filled' = image[root].filled
    /\ phase' = "running"

\* The log is empty, or its marker says that the snapshot has it all: it is removed.
RemoveWAL ==
    /\ \/ phase \in {"closed", "nested"} /\ wal.iter \in {-1, 0}
       \/ phase = "closed" /\ Marked(wal) /\ Clean /\ checkpoint_wal = Absent
    /\ wal' = Absent
    /\ Loaded(<<>>)
    /\ UNCHANGED <<setting, checkpoint_wal, fileVars, commitVars, checkpointVars, crashes, merges>>

\* The crash came after the header was written: the checkpoint log is the one to replay.
TakeCheckpointWAL ==
    /\ phase = "closed"
    /\ Marked(wal) /\ Clean
    /\ checkpoint_wal # Absent
    /\ wal' = checkpoint_wal
    /\ NoCheckpointWAL
    /\ phase' = "nested"
    /\ UNCHANGED <<setting, fileVars, memoryVars, commitVars, checkpointVars, crashes>>

\* MergeIntoRecoveryWAL, up to the rename of the recovery log over the main log (a
\* recovery log that a crash leaves behind is overwritten by the next). A crash before the
\* checkpoint log is removed leaves that too, and the next marker has it merged again.
MergeIntoRecoveryWAL ==
    /\ phase = "closed"
    /\ Marked(wal) /\ ~ Clean
    /\ checkpoint_wal # Absent
    /\ wal' = Merged(wal, checkpoint_wal)
    /\ merges' = IF merges = 0 THEN 1 ELSE 2
    /\ phase' = "merged"
    /\ UNCHANGED <<setting, checkpoint_wal, fileVars, memoryVars, commitVars, checkpointVars, crashes>>

RemoveCheckpointWAL ==
    /\ phase = "merged"
    /\ NoCheckpointWAL
    /\ phase' = "nested"
    /\ UNCHANGED <<setting, wal, fileVars, memoryVars, commitVars, checkpointVars, crashes>>

\* ReplayVersion: the log was written for this snapshot; a checkpoint log may have been
\* written for the next.
VersionMatches ==
    wal.iter = iteration \/ (phase = "nested" /\ wal.iter = iteration + 1)

\* ReplayLog: the flushed transactions are applied, a torn end is left alone.
ReplayLog ==
    /\ wal.iter \notin {-1, 0}
    /\ \/ phase = "closed" /\ (Marked(wal) => ~ Clean /\ checkpoint_wal = Absent)
       \/ phase = "nested" /\ ~ Marked(wal)
    /\ VersionMatches
    /\ Loaded(wal.txs)
    /\ UNCHANGED <<setting, logVars, fileVars, commitVars, checkpointVars, crashes>>

\* What a log creates may be there already.
Repeated(s) == \E i, j \in DOMAIN s : i < j /\ s[i] = s[j]

\* "checkpoint WAL cannot contain a checkpoint marker", or an entry that cannot be applied
\* twice: this attempt to open fails. (So does one that meets the wrong version, again and
\* again: no step leads on from there.)
Refuse ==
    /\ phase = "nested"
    /\ Marked(wal) \/ Repeated(image[root].txs \o wal.txs)
    /\ phase' = "closed"
    /\ UNCHANGED <<setting, logVars, fileVars, memoryVars, commitVars, checkpointVars, crashes>>

Recover ==
    \/ RemoveWAL
    \/ TakeCheckpointWAL
    \/ MergeIntoRecoveryWAL
    \/ RemoveCheckpointWAL
    \/ ReplayLog
    \/ Refuse

Next ==
    \/ \E t \in Txns : WriteToWAL(t) \/ CommitSkippingWAL(t)
    \/ FlushCommit
    \/ RevertCommit
    \/ \E b \in Blocks : WALStartCheckpoint(b)
    \/ SwitchWAL
    \/ WriteHeader
    \/ WALFinishCheckpoint
    \/ Crash
    \/ Recover

Spec == Init /\ [][Next]_vars

\* A commit or a checkpoint that has begun goes on, and the database is opened again
\* after a crash, or after an attempt to open it has failed.
Fairness ==
    /\ WF_vars(FlushCommit \/ RevertCommit)
    /\ WF_vars(skipping # NoTxn /\ \E b \in Blocks : WALStartCheckpoint(b))
    /\ WF_vars(SwitchWAL \/ WriteHeader)
    /\ WF_vars(WALFinishCheckpoint)
    /\ WF_vars(Recover)

FairSpec == Spec /\ Fairness
-----------------------------------------------------------------------------
(* Properties. *)

MarkType == [block : Blocks, at : Nat]
FileType == [iter : Int, txs : Seq(Txns), marks : Seq(MarkType), torn : BOOLEAN]
SnapshotType == [txs : Seq(Txns), filled : SUBSET Embeddings]
PlanType == [block : Blocks, txs : Seq(Txns), filled : SUBSET Embeddings,
             has_wal : BOOLEAN, iter : Nat]

\* The variables hold values of the kinds the code gives them.
TypeOK ==
    /\ setting \in Settings
    /\ wal \in FileType
    /\ checkpoint_wal \in FileType
    /\ image \in [Blocks -> SnapshotType]
    /\ root \in Blocks
    /\ iteration \in Nat
    /\ phase \in {"running", "closed", "merged", "nested"}
    /\ memory \in Seq(Txns)
    /\ filled \in SUBSET Embeddings
    /\ committing \in Txns \cup {NoTxn}
    /\ skipping \in Txns \cup {NoTxn}
    /\ stage \in {"none", "marked", "writing", "headed"}
    /\ plan \in PlanType
    /\ started \in SUBSET Txns
    /\ acked \in SUBSET Txns
    /\ crashes \in Nat
    /\ merges \in 0..2

\* A crash between the rename of the merged log and the removal of the checkpoint log
\* leaves a checkpoint log that counts no more, but which the next recovery that meets a
\* marker merges again: acknowledged commits between the markers are lost, and others are
\* replayed twice. Nothing is promised after that second merge.
Leftover == merges = 1
MergedTwice == merges = 2

\* The checkpoint log, unless the main log has it all.
Live == IF Leftover THEN Absent ELSE checkpoint_wal

\* What of the log files a recovery that starts, or goes on, now will replay, if it does
\* not merge a checkpoint log for the second time.
Replayed ==
    IF Leftover \/ phase = "nested" \/ ~ Marked(wal) THEN wal.txs
    ELSE IF Clean THEN checkpoint_wal.txs
    ELSE IF checkpoint_wal = Absent THEN wal.txs
    ELSE SubSeq(wal.txs, 1, Last(wal.marks).at) \o checkpoint_wal.txs

\* What a crash at this moment, losing every write that is not synced, leaves to find.
Recovered == image[root].txs \o Replayed

\* The inductive invariant: FilesInv says which files a step may find, ContentInv what
\* they hold; AckInv adds who has been told what. OrderInv holds after a second merge too.

\* Markers stand in a log in the order in which they were written.
Ordered(f) ==
    /\ \A i \in DOMAIN f.marks : f.marks[i].at <= Len(f.txs)
    /\ \A i, j \in DOMAIN f.marks : i < j => f.marks[i].at <= f.marks[j].at

OrderInv == Ordered(wal) /\ checkpoint_wal.marks = <<>>

FileOK(f) ==
    /\ f.iter = -1 => f = Absent
    /\ f.iter = 0 => f = Empty

\* Who holds the WAL lock, and that nothing is under way outside a running database.
LockInv ==
    /\ ~ Running => /\ committing = NoTxn
                    /\ skipping = NoTxn
                    /\ stage = "none"
                    /\ memory = <<>>
    /\ skipping # NoTxn => committing = NoTxn /\ Live = Absent
    /\ stage = "marked" => committing = NoTxn
    /\ committing # NoTxn =>
          (IF OnCheckpointWal THEN checkpoint_wal ELSE wal).iter \notin {-1, 0}

\* A marker of an older, abandoned checkpoint never looks like a finished one.
MarkInv ==
    \A i \in DOMAIN wal.marks :
        wal.marks[i].block = root =>
            /\ Clean /\ ~ Leftover
            /\ phase = "closed" \/ stage = "headed"

\* Where a checkpoint log may be, and what the running checkpoint has written.
CheckpointInv ==
    /\ Leftover => ~ OnCheckpointWal
    /\ phase = "merged" => Leftover
    /\ Live # Absent =>
          \/ Running /\ OnCheckpointWal
          \/ phase = "closed" /\ Marked(wal) /\ Last(wal.marks).at = Len(wal.txs)
    /\ stage # "none" =>
          /\ plan.iter >= 1
          /\ IF plan.has_wal
             THEN /\ Marked(wal)
                  /\ Last(wal.marks) = [block |-> plan.block, at |-> Len(wal.txs)]
             ELSE /\ Bare(wal)
                  /\ skipping # NoTxn
                  /\ stage # "marked"
          /\ plan.block = root <=> stage = "headed"
    /\ stage = "headed" => image[root].txs = plan.txs

FilesInv ==
    /\ iteration >= 1
    /\ FileOK(wal)
    /\ FileOK(checkpoint_wal)
    /\ LockInv
    /\ MarkInv
    /\ CheckpointInv

WithSkipped(s) == IF skipping = NoTxn THEN s ELSE Append(s, skipping)

ContentInv ==
    /\ Running /\ stage = "none" => memory = WithSkipped(image[root].txs \o wal.txs)
    /\ stage \in {"marked", "writing"} => plan.txs = WithSkipped(image[root].txs \o wal.txs)
    /\ stage # "none" => memory = plan.txs \o Live.txs

\* A transaction that has tried to commit is in the database at most once.
AckInv ==
    /\ acked \subseteq Elems(Recovered)
    /\ Elems(memory) \cup Elems(Recovered) \subseteq started
    /\ committing # NoTxn => committing \in started \ Elems(memory)
    /\ skipping # NoTxn => skipping \in Elems(memory)

IInv == TypeOK /\ OrderInv /\ (MergedTwice \/ (FilesInv /\ ContentInv /\ AckInv))

\* Once COMMIT has returned success, the transaction is found by every later recovery:
\* through any checkpoint, any crash in it, and any crash in the recoveries after it, until
\* a recovery has merged a checkpoint log twice.
AckedSurvive == MergedTwice \/ acked \subseteq Elems(Recovered)

\* An open database shows what a crash would leave, in the same order: no query can
\* base a later commit on a transaction that is then lost, except while the commit that
\* skipped the log keeps all others out with the WAL lock, and after a recovery that has
\* merged a checkpoint log twice.
MemoryRecoverable ==
    Running /\ ~ MergedTwice =>
        memory = IF skipping # NoTxn /\ stage # "headed" THEN Append(Recovered, skipping)
                 ELSE Recovered

\* Vectors that a checkpoint has written stay in every later snapshot of the file, also
\* when the logs before and after it are replayed.
CheckpointedVectorsKept == [][image[root].filled \subseteq image'[root'].filled]_vars

\* After CREATE EMBEDDING has committed, the stored vectors are there for later queries.
EmbeddingsSurvive == Running => acked \cap Embeddings \subseteq filled

\* A first write torn by a crash, which no later write has truncated, while a commit that
\* skipped the log has moved the header on: the log's version entry is now the old one.
LeftBehind == wal.torn /\ Bare(wal) /\ wal.iter # iteration

\* The database can be opened again after any crash, if need be at the second attempt;
\* what keeps it from opening is a torn log left behind by a checkpoint that took the log
\* to be empty, or a checkpoint log merged twice.
Reopens == phase # "running" ~> Running \/ LeftBehind \/ MergedTwice

\* A checkpoint that has begun ends, also when commits keep using its log.
CheckpointEnds == stage # "none" ~> stage = "none"

\* The log as the clients' contract sees it.
Durable == INSTANCE DurableLog WITH
    log <- Recovered, visible <- memory, open <- Running

\* Files, memory and recovery together keep the contract of DurableLog: what a restart
\* finds only grows, at its end, by one transaction that tried to commit. They do so up to
\* the step in which a recovery merges a checkpoint log for the second time.
KeepsContract == Durable!Init /\ [][Durable!Next \/ MergedTwice']_(Durable!vars)
=============================================================================
