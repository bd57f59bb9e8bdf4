-------------------------- MODULE ShardedGeneration --------------------------
(***************************************************************************)
(* Generation on a cluster (routeguard/experiments/sharding.py and         *)
(* scripts/cluster/): the tasks of an array each generate their share of   *)
(* the planned requests into a cache file of their own, stage 2 merges the *)
(* files into the experiment's cache, and benchmarks replay it, generating *)
(* what is missing.  Tasks, merges and benchmarks are killed at any point  *)
(* and started again; local_multi_gpu.sh goes on to stage 2 even so.       *)
(*                                                                         *)
(* The planned requests of a pool model are numbered in the order of their *)
(* keys; every model's requests are dealt out in the same way.  Outputs    *)
(* are numbered as they are generated: two outputs of one request may      *)
(* differ.  0 stands for a request without an output.                      *)
(*                                                                         *)
(* A definition commented as a slip is not part of the model: it is the    *)
(* definition that follows it with a plausible mistake, and PROJECT.json   *)
(* names the property that is violated when it is used instead.            *)
(***************************************************************************)
EXTENDS Integers, FiniteSets

CONSTANTS
    First, Last, \* SLURM_ARRAY_TASK_MIN and _MAX: the ids of the array's tasks
    Requests,    \* number of planned requests
    ChunkSize,   \* CachedLLM.chunk_size
    MaxKills, MaxBenchmarks, MaxMerges  \* bounds

ASSUME TasksAssumption == First \in Nat /\ Last \in Nat /\ First <= Last
ASSUME SizeAssumption == Requests \in Nat /\ ChunkSize \in Nat \ {0}
ASSUME BoundAssumption == MaxKills \in Nat /\ MaxBenchmarks \in Nat /\ MaxMerges \in Nat

\* submit_slurm.sh submits 0 .. N-1; ShardSpec allows for another start, but not for gaps.
Tasks == First .. Last
Keys == 1 .. Requests
NoOutputs == [k \in Keys |-> 0]

VARIABLES
    pc,         \* each task: "pending", "running", "ended" or "killed"
    file,       \* shard_<task>.sqlite: the output saved for each request
    merged,     \* the experiment's cache
    inputs,     \* the files the merge has not attached yet
    stage,      \* "generate", "merge", "benchmark" or "idle"
    seen,       \* history: the outputs of each request that benchmarks answered with
    generated,  \* history: how many outputs there are
    kills, benchmarks, merges

tasks == <<pc, file>>
second == <<merged, inputs, stage, seen>>
vars == <<tasks, second, generated, kills, benchmarks, merges>>

Init ==
    /\ pc = [t \in Tasks |-> "pending"]
    /\ file = [t \in Tasks |-> NoOutputs]
    /\ merged = NoOutputs
    /\ inputs = {}
    /\ stage = "generate"
    /\ seen = [k \in Keys |-> {}]
    /\ generated = 0
    /\ kills = 0 /\ benchmarks = 0 /\ merges = 0

-----------------------------------------------------------------------------
(* Stage 1. *)

\* ShardSpec.parse("auto"): the task's id from SLURM_ARRAY_TASK_MIN on, and the task count.
Shard(t) == [index |-> t - First, count |-> Cardinality(Tasks)]

\* Slips: the index starts at 1; the shards are blocks of equal length.
SliceFromOne(shard) ==
    {k \in Keys : \E q \in 0 .. Requests : k = 2 + shard.index + q * shard.count}
Block(shard) ==
    LET size == Requests \div shard.count
    IN {k \in Keys : k > shard.index * size /\ k <= (shard.index + 1) * size}
\* sorted(requests)[index::count].
Slice(shard) == {k \in Keys : \E q \in 0 .. Requests : k = 1 + shard.index + q * shard.count}

RunTask(t) ==
    /\ stage = "generate"
    /\ pc[t] = "pending"
    /\ pc' = [pc EXCEPT ![t] = "running"]
    /\ UNCHANGED <<file, second, generated, kills, benchmarks, merges>>

Missing(t) == {k \in Slice(Shard(t)) : file[t][k] = 0}

\* CachedLLM.generate_batch: the next chunk of what the file does not have, saved at once.
Chunk(t) == {k \in Missing(t) : Cardinality({j \in Missing(t) : j < k}) < ChunkSize}
Number(t, k) == generated + Cardinality({j \in Chunk(t) : j <= k})
Generate(t) ==
    /\ pc[t] = "running" /\ stage = "generate"
    /\ Missing(t) # {}
    /\ file' = [file EXCEPT ![t] =
                   [k \in Keys |-> IF k \in Chunk(t) THEN Number(t, k) ELSE @[k]]]
    /\ generated' = generated + Cardinality(Chunk(t))
    /\ UNCHANGED <<pc, second, kills, benchmarks, merges>>

EndTask(t) ==
    /\ pc[t] = "running" /\ stage = "generate"
    /\ Missing(t) = {}
    /\ pc' = [pc EXCEPT ![t] = "ended"]
    /\ UNCHANGED <<file, second, generated, kills, benchmarks, merges>>

\* Out of time, or preempted: the chunks saved so far stay in the file.
KillTask(t) ==
    /\ pc[t] = "running"
    /\ kills < MaxKills
    /\ kills' = kills + 1
    /\ pc' = [pc EXCEPT ![t] = "killed"]
    /\ UNCHANGED <<file, second, generated, benchmarks, merges>>

\* A killed task is requeued, with its id and so with its file.
Requeue(t) ==
    /\ stage \in {"generate", "idle"}
    /\ pc[t] = "killed"
    /\ pc' = [pc EXCEPT ![t] = "pending"]
    /\ stage' = "generate"
    /\ UNCHANGED <<file, merged, inputs, seen, generated, kills, benchmarks, merges>>

-----------------------------------------------------------------------------
(* Stage 2. *)

\* merge_caches of all files, when no task runs: after all of them, or after `wait`.
Merge ==
    /\ stage \in {"generate", "idle"}
    /\ \A t \in Tasks : pc[t] \in {"ended", "killed"}
    /\ merges < MaxMerges
    /\ merges' = merges + 1
    /\ stage' = "merge"
    /\ inputs' = Tasks
    /\ UNCHANGED <<tasks, merged, seen, generated, kills, benchmarks>>

\* Slip: INSERT OR REPLACE.
Replaced(t) == [k \in Keys |-> IF file[t][k] # 0 THEN file[t][k] ELSE merged[k]]
\* INSERT OR IGNORE: a row that is there stays.
Inserted(t) == [k \in Keys |-> IF merged[k] # 0 THEN merged[k] ELSE file[t][k]]

\* One file is attached, copied and committed; the order is that of the names on the command line.
Attach ==
    /\ stage = "merge"
    /\ \E t \in inputs : merged' = Inserted(t) /\ inputs' = inputs \ {t}
    /\ UNCHANGED <<tasks, stage, seen, generated, kills, benchmarks, merges>>

\* The command ends, or is killed between two commits.
EndMerge ==
    /\ stage = "merge"
    /\ \/ inputs = {} /\ stage' = "benchmark" /\ UNCHANGED kills
       \/ inputs # {} /\ kills < MaxKills /\ kills' = kills + 1 /\ stage' = "idle"
    /\ inputs' = {}
    /\ UNCHANGED <<tasks, merged, seen, generated, benchmarks, merges>>

Output == generated + 1

\* The benchmark answers with what the cache has, and generates and saves the rest.
Replay(k) ==
    /\ stage = "benchmark"
    /\ seen' = [seen EXCEPT ![k] = @ \cup {IF merged[k] # 0 THEN merged[k] ELSE Output}]
    /\ seen' # seen
    /\ IF merged[k] # 0
          THEN UNCHANGED <<merged, generated>>
          ELSE /\ merged' = [merged EXCEPT ![k] = Output]
               /\ generated' = generated + 1
    /\ UNCHANGED <<tasks, inputs, stage, kills, benchmarks, merges>>

\* It ends after all requests, or is killed after some.
EndBenchmark ==
    /\ stage = "benchmark"
    /\ benchmarks' = benchmarks + 1
    /\ stage' = "idle"
    /\ UNCHANGED <<tasks, merged, inputs, seen, generated, kills, merges>>

\* `routeguard benchmark` again.
Benchmark ==
    /\ stage = "idle"
    /\ benchmarks < MaxBenchmarks
    /\ stage' = "benchmark"
    /\ UNCHANGED <<tasks, merged, inputs, seen, generated, kills, benchmarks, merges>>

-----------------------------------------------------------------------------
Next ==
    \/ \E t \in Tasks : RunTask(t) \/ Generate(t) \/ EndTask(t) \/ KillTask(t) \/ Requeue(t)
    \/ Merge \/ Attach \/ EndMerge
    \/ \E k \in Keys : Replay(k)
    \/ EndBenchmark \/ Benchmark

Spec == Init /\ [][Next]_vars

-----------------------------------------------------------------------------
(* Properties. *)

Outputs == 0 .. generated

\* The files, the merge and the benchmarks hold what the code puts there.
TypeOK ==
    /\ pc \in [Tasks -> {"pending", "running", "ended", "killed"}]
    /\ generated \in Nat
    /\ file \in [Tasks -> [Keys -> Outputs]]
    /\ merged \in [Keys -> Outputs]
    /\ inputs \subseteq Tasks
    /\ stage \in {"generate", "merge", "benchmark", "idle"}
    /\ seen \in [Keys -> SUBSET Outputs]
    /\ kills \in Nat /\ benchmarks \in Nat /\ merges \in Nat

\* docs/cluster.md: "Shards are disjoint and balanced", and together they are the whole plan:
\* when every task has ended, each request is in the file of exactly one of them, whatever
\* was killed and run again on the way, and no task had more than one request more than
\* another.
ShardsPartitionThePlan ==
    (\A t \in Tasks : pc[t] = "ended") =>
        LET saved(t) == {k \in Keys : file[t][k] # 0}
        IN /\ \A k \in Keys : Cardinality({t \in Tasks : k \in saved(t)}) = 1
           /\ \A t, u \in Tasks : Cardinality(saved(t)) <= Cardinality(saved(u)) + 1

\* docs/cluster.md: "Every request is generated exactly once and then replayed, so all systems
\* see identical outputs within an experiment": no benchmark answers a request with another
\* output than an earlier one did, also when the earlier one had to generate it because its
\* shard was killed, and the shard is run and merged later.
SeenIsFinal == \A k \in Keys : Cardinality(seen[k]) <= 1

\* docs/cluster.md: in stage 2 "every initial answer is a cache hit": a merge of the files of
\* tasks that have all ended leaves nothing to generate, with whatever was merged before.
MergeIsComplete ==
    stage = "merge" /\ inputs = {} /\ (\A t \in Tasks : pc[t] = "ended") =>
        \A k \in Keys : merged[k] # 0
=============================================================================
