--------------------------- MODULE MC_LimitFilter ---------------------------
(***************************************************************************)
(* Values for LimitFilter: a table of two batches whose first chunk is     *)
(* larger than the limits and whose other chunks are not, with every set   *)
(* of matching rows; and one long chunk with few matches, for which the    *)
(* batches double.                                                         *)
(***************************************************************************)
EXTENDS LimitFilter

Short(ends, batches) ==
    [ends |-> ends, batches |-> batches, verdicts |-> SUBSET (1..ends[Len(ends)])]

Long(n) == [ends |-> <<n>>, batches |-> <<1>>, verdicts |-> {{}, {1}, {n}, {2, n}}]

SomeTables == {Short(<<3, 4, 6>>, <<1, 1, 2>>), Long(13)}
TwoChunks == {Short(<<2, 4>>, <<1, 2>>)}

Plan(lim, skip, preserve) == [limit |-> lim, offset |-> skip, preserve |-> preserve]

SomePlans ==
    {Plan(lim, skip, preserve) :
        lim \in 1..2, skip \in {0, 1}, preserve \in BOOLEAN}
    \cup {Plan(3, 1, TRUE), Plan(4, 1, TRUE), Plan(3, 1, FALSE)}

OffsetPlans == {Plan(1, 1, TRUE)}
OrderedPlans == {Plan(1, 0, TRUE)}
=============================================================================
