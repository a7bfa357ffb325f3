-------------------------- MODULE MC_WalCheckpoint --------------------------
(***************************************************************************)
(* Worlds for WalCheckpoint: each names the faults that may happen         *)
(* together, and how many crashes.                                         *)
(***************************************************************************)
EXTENDS WalCheckpoint

World(skip, torn, n) == [skip |-> skip, torn |-> torn, crashes |-> n]

RecoverableWorlds == {World(TRUE, TRUE, 3)}

OneCrash == {World(FALSE, FALSE, 1)}
=============================================================================
