------------------------- MODULE MCShardedGeneration -------------------------
(* For TLC: an array of three tasks that does not start at 0. *)
EXTENDS ShardedGeneration
===============================================================================
