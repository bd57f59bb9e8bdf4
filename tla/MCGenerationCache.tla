-------------------------- MODULE MCGenerationCache --------------------------
(* The threads of the API server over one cache file, and the one thread of a benchmark. *)
EXTENDS GenerationCache

CONSTANTS k1, k2, k3

\* Two chunks, a request the second repeats, and a request both batches share.
ServerKeys == {k1, k2}
ServerBatches == {<<k1>>, <<k1, k2, k2>>}

\* Without duplicates: the initial answers of a split, and later requests of some of them.
BenchmarkKeys == {k1, k2, k3}
BenchmarkBatches == {<<k1, k2, k3>>, <<k3>>, <<k2, k1>>}
=============================================================================
