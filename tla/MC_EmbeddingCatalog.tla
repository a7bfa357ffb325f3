------------------------- MODULE MC_EmbeddingCatalog -------------------------
(* Small instances of EmbeddingCatalog for TLC. *)
EXTENDS EmbeddingCatalog

CONSTANTS a, b, i, j

\* Two rows, the first without a text.
TwoRows == 2
FirstNull == {1}

\* The inserts bring different numbers of rows.
Sizes == [t \in Txns |-> IF t \in {b, j} THEN 2 ELSE 1]

Statements == [t \in Txns |-> CASE t = a -> {"create", "drop"}
                                [] t = b -> {"create", "alter", "insert"}
                                [] t = i -> {"insert", "update"}
                                [] OTHER -> {"insert"}]
=============================================================================
