----------------------------- MODULE DurableLog -----------------------------
(***************************************************************************)
(* What the storage manager promises to the clients of a database file,    *)
(* however checkpoints, log files and crashes interleave: the transactions *)
(* a restart brings back form a sequence that only ever grows by one       *)
(* committed transaction at its end, and a database that is open shows     *)
(* that sequence, or, while one large transaction waits for its            *)
(* checkpoint, that sequence and this transaction.                         *)
(***************************************************************************)
EXTENDS Sequences

CONSTANT Txns   \* transactions that change the database

VARIABLES
    log,        \* what a restart would bring back, in commit order
    visible,    \* what the queries of the open database see
    open        \* a process has the database open

vars == <<log, visible, open>>

New(t, s) == \A i \in DOMAIN s : s[i] # t

Init ==
    /\ log = <<>>
    /\ visible = <<>>
    /\ open = TRUE

\* A transaction becomes durable and visible at once.
Commit(t) ==
    /\ open
    /\ visible = log
    /\ New(t, log)
    /\ log' = Append(log, t)
    /\ visible' = log'
    /\ UNCHANGED open

\* A large transaction is seen by others before it is durable.
Publish(t) ==
    /\ open
    /\ visible = log
    /\ New(t, log)
    /\ visible' = Append(log, t)
    /\ UNCHANGED <<log, open>>

Harden ==
    /\ open
    /\ log' = visible
    /\ UNCHANGED <<visible, open>>

\* A commit that was under way may survive the crash.
Crash ==
    /\ open
    /\ open' = FALSE
    /\ visible' = <<>>
    /\ \/ log' = log
       \/ \E t \in Txns : New(t, log) /\ log' = Append(log, t)

Open ==
    /\ ~ open
    /\ open' = TRUE
    /\ visible' = log
    /\ UNCHANGED log

Next ==
    \/ \E t \in Txns : Commit(t) \/ Publish(t)
    \/ Harden
    \/ Crash
    \/ Open

Spec == Init /\ [][Next]_vars
=============================================================================
