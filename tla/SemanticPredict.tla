-------------------------- MODULE SemanticPredict --------------------------
(***************************************************************************)
(* What a semantic projection promises to the operator above it, however   *)
(* the inference is batched, shared between rows, retried or ordered:      *)
(* a chunk of rows goes in; every row is settled once, with an answer the  *)
(* model gave to that row's own prompt or with NULL; the chunk comes out   *)
(* when no row is left open; or the query fails.                           *)
(***************************************************************************)
EXTENDS Naturals, Sequences

CONSTANTS
    Prompts,    \* prompt texts, one per distinct combination of input columns
    MaxRows,    \* rows of a chunk
    Null,       \* SQL NULL
    Unset       \* an output cell nothing has been written to

VARIABLES
    phase,      \* "ready" for a chunk, "busy" with one, or "failed"
    rows,       \* the prompt of each row of the current chunk
    cells       \* the output cell of each row

vars == <<phase, rows, cells>>

Settled(r) == {Null} \cup [prompt : {rows[r]}, chunk : Nat, pos : Nat]

Init ==
    /\ phase = "ready"
    /\ rows = <<>>
    /\ cells = <<>>

\* A query starts afresh: nothing is carried over from the one before.
NewQuery ==
    /\ phase \in {"ready", "failed"}
    /\ phase' = "ready"
    /\ rows' = <<>>
    /\ cells' = <<>>

\* A chunk arrives. Some rows may be settled at once, from answers known already.
Accept ==
    /\ phase = "ready"
    /\ phase' = "busy"
    /\ Len(rows') \in 1..MaxRows
    /\ DOMAIN cells' = DOMAIN rows'
    /\ \A r \in DOMAIN rows' : cells'[r] \in {Unset} \cup Settled(r)'

\* Any number of open rows are settled; a settled row stays as it is.
Settle ==
    /\ phase = "busy"
    /\ DOMAIN cells' = DOMAIN cells
    /\ \A r \in DOMAIN cells :
          \/ cells'[r] = cells[r]
          \/ cells[r] = Unset /\ cells'[r] \in Settled(r)
    /\ UNCHANGED <<phase, rows>>

\* The chunk is handed on, complete.
Deliver ==
    /\ phase = "busy"
    /\ \A r \in DOMAIN cells : cells[r] # Unset
    /\ phase' = "ready"
    /\ UNCHANGED <<rows, cells>>

Fail ==
    /\ phase = "busy"
    /\ phase' = "failed"
    /\ UNCHANGED <<rows, cells>>

Next == NewQuery \/ Accept \/ Settle \/ Deliver \/ Fail

Spec == Init /\ [][Next]_vars
=============================================================================
