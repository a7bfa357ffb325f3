-------------------------- MODULE MC_PredictChunk --------------------------
(***************************************************************************)
(* Values for LlmPredictChunk: two prompts, so that three rows must repeat *)
(* one, and settings that give several waves, uneven batches and batches   *)
(* resized to the number of threads.                                       *)
(***************************************************************************)
EXTENDS LlmPredictChunk

Config(threads, batch, with_cache, with_batch) ==
    [n_threads |-> threads, batch_size |-> batch, use_cache |-> with_cache,
     use_batch |-> with_batch]

TwoPrompts == {1, 2}
ThreePrompts == {1, 2, 3}

\* One thread and batches of two: two waves of the first loop for three rows.
\* Two threads and batches of two: three rows are resized into batches of two and one.
AllConfigs ==
    {Config(threads, 2, with_cache, with_batch) :
        threads \in {1, 2}, with_cache \in BOOLEAN, with_batch \in BOOLEAN}

BatchNoCache == {Config(2, 2, FALSE, TRUE)}
BatchCache == {Config(2, 2, TRUE, TRUE)}
RowsNoCache == {Config(2, 2, FALSE, FALSE)}

Strict == {}
OnlyGarbled == {"garbled"}
OnlyNoContent == {"nocontent"}
AnyReply == LaxKinds
=============================================================================
