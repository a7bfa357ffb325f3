---------------------------- MODULE LlmBatching ----------------------------
(***************************************************************************)
(* How PredictChunk cuts the list of unprocessed prompts into batches and  *)
(* the batches into waves of concurrent requests.                          *)
(*                                                                         *)
(* Positions in the list are 1-based here; a batch that starts after frow  *)
(* positions covers frow + 1 .. frow + n, the code's [frow, frow + n).     *)
(***************************************************************************)
EXTENDS Naturals

Min2(a, b) == IF a <= b THEN a ELSE b

\* The division that both the batch size and the round count are rounded up with:
\* a quotient, and one more when there is a remainder.
CeilDiv(n, d) == IF n % d > 0 THEN n \div d + 1 ELSE n \div d

\* imp_batch_size for u unprocessed rows. When one wave of full batches would hold
\* more than u rows and there is at least one row per thread, the rows are spread
\* over the threads; otherwise the configured batch_size stands.
ImpBatchSize(u, threads, batch_size) ==
    IF threads * batch_size > u /\ u >= threads
    THEN CeilDiv(u, threads)
    ELSE batch_size

\* A slip kept for comparison: the last, partly filled batch is not counted.
RoundsRoundedDown(u, threads, batch_size) ==
    u \div ImpBatchSize(u, threads, batch_size)

\* The number of batches.
Rounds(u, threads, batch_size) ==
    CeilDiv(u, ImpBatchSize(u, threads, batch_size))

\* Batch b: the rows before it, and the number of rows it holds.
FirstRow(b, imp) == b * imp

\* A slip kept for comparison: the last batch is not cut off at the end of the list.
LastRowUnclamped(b, imp, u) == FirstRow(b, imp) + imp

LastRow(b, imp, u) == Min2(FirstRow(b, imp) + imp, u)

\* How many batches one wave launches, starting at batch b: run counts up while
\* run < n_threads and (b + run) * imp_batch_size < unprocessed_rows.
WaveSize(b, rounds, threads) == Min2(threads, rounds - b)
=============================================================================
