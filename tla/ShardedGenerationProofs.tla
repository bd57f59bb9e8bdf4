----------------------- MODULE ShardedGenerationProofs -----------------------
(***************************************************************************)
(* Theorems about generation on a cluster, for every array of tasks, plan, *)
(* chunk size and bounds.                                                  *)
(***************************************************************************)
EXTENDS ShardedGeneration, FiniteSetTheorems, TLAPS

-----------------------------------------------------------------------------
(* Shards. *)

\* The planned requests are finitely many, and so are any of them.
LEMMA KeysAreFinite ==
    /\ IsFiniteSet(Keys)
    /\ \A S \in SUBSET Keys : IsFiniteSet(S) /\ Cardinality(S) \in Nat
<1>1. IsFiniteSet(Keys)
    BY FS_Interval, SizeAssumption DEF Keys
<1>2. ASSUME NEW S \in SUBSET Keys PROVE IsFiniteSet(S) /\ Cardinality(S) \in Nat
    BY <1>1, FS_Subset, FS_CardinalityType
<1> QED BY <1>1, <1>2

\* SLURM_ARRAY_TASK_COUNT is what the first and the last id say.
LEMMA TaskCount ==
    /\ IsFiniteSet(Tasks)
    /\ Cardinality(Tasks) = Last - First + 1
    /\ Cardinality(Tasks) \in Nat \ {0}
<1>1. First \in Int /\ Last \in Int /\ First <= Last
    BY TasksAssumption
<1> QED BY <1>1, FS_Interval DEF Tasks

\* Every request is in the slice of some task.
LEMMA SlicesCoverThePlan ==
    ASSUME NEW k \in Keys
    PROVE  \E t \in Tasks : k \in Slice(Shard(t))
<1> DEFINE n == Last - First + 1
           q == (k - 1) \div n
           i == (k - 1) % n
<1>1. n \in Nat \ {0} /\ k - 1 \in Nat /\ k \in 1 .. Requests /\ Requests \in Nat
    BY TasksAssumption, SizeAssumption DEF Keys
<1>2. i \in 0 .. n - 1 /\ q \in Nat /\ k - 1 = i + q * n
    <2> HIDE DEF n
    <2> QED BY <1>1
<1>3. q <= k - 1
    <2>1. ASSUME NEW a \in Nat, NEW m \in Nat \ {0} PROVE a <= a * m
        OBVIOUS
    <2> HIDE DEF n, q, i
    <2>2. q <= q * n
        BY <2>1, <1>1, <1>2
    <2>3. q * n \in Nat
        BY <1>1, <1>2
    <2> QED BY <1>1, <1>2, <2>2, <2>3
<1>4. First + i \in Tasks
    BY <1>2, TasksAssumption DEF Tasks
<1>5. Shard(First + i) = [index |-> i, count |-> n]
    BY <1>2, TaskCount, TasksAssumption DEF Shard
<1>6. q \in 0 .. Requests /\ k = 1 + i + q * n
    <2> HIDE DEF n, q, i
    <2> QED BY <1>1, <1>2, <1>3
<1>7. k \in Slice(Shard(First + i))
    <2> HIDE DEF n, q, i
    <2> QED BY <1>5, <1>6 DEF Slice
<1> QED BY <1>4, <1>7

\* No request is in the slices of two tasks.
LEMMA SlicesAreDisjoint ==
    ASSUME NEW t \in Tasks, NEW u \in Tasks, NEW k \in Keys,
           k \in Slice(Shard(t)), k \in Slice(Shard(u))
    PROVE  t = u
<1> DEFINE n == Cardinality(Tasks)
           i == t - First
           j == u - First
<1>1. n \in Nat \ {0} /\ i \in 0 .. n - 1 /\ j \in 0 .. n - 1
    BY TaskCount, TasksAssumption DEF Tasks
<1>2. PICK q \in 0 .. Requests : k = 1 + i + q * n
    BY DEF Slice, Shard
<1>3. PICK r \in 0 .. Requests : k = 1 + j + r * n
    BY DEF Slice, Shard
<1> HIDE DEF n
<1>4. q \in Nat /\ r \in Nat /\ q * n \in Nat /\ r * n \in Nat
    BY <1>1, <1>2, <1>3, SizeAssumption
<1>5. ASSUME NEW a \in Nat, NEW b \in Nat, a < b PROVE a * n + n <= b * n
    <2>1. b = a + 1 + (b - a - 1) /\ b - a - 1 \in Nat
        BY <1>5
    <2>2. ASSUME NEW d \in Nat PROVE (a + 1 + d) * n = a * n + n + d * n /\ d * n \in Nat
        BY <1>1
    <2> QED BY <1>1, <2>1, <2>2
<1>6. ~ q < r
    <2> SUFFICES ASSUME q < r PROVE FALSE
        OBVIOUS
    <2>1. q * n + n <= r * n
        BY <1>4, <1>5
    <2> HIDE DEF i, j
    <2> QED BY <1>1, <1>2, <1>3, <1>4, <2>1
<1>7. ~ r < q
    <2> SUFFICES ASSUME r < q PROVE FALSE
        OBVIOUS
    <2>1. r * n + n <= q * n
        BY <1>4, <1>5
    <2> HIDE DEF i, j
    <2> QED BY <1>1, <1>2, <1>3, <1>4, <2>1
<1>8. q = r
    BY <1>4, <1>6, <1>7
<1>9. i = j
    <2> HIDE DEF i, j
    <2> QED BY <1>1, <1>2, <1>3, <1>4, <1>8
<1> QED BY <1>9, TasksAssumption DEF Tasks

\* A slice has at most one request more than another: without its first request, it can be
\* moved into the other by less than the number of tasks.
LEMMA SlicesAreBalanced ==
    ASSUME NEW t \in Tasks, NEW u \in Tasks
    PROVE  Cardinality(Slice(Shard(t))) <= Cardinality(Slice(Shard(u))) + 1
<1> DEFINE n == Cardinality(Tasks)
           i == t - First
           j == u - First
           S == Slice(Shard(t))
           T == Slice(Shard(u))
           R == S \ {1 + i}
           f == [k \in R |-> k - n - i + j]
<1>1. n \in Nat \ {0} /\ i \in 0 .. n - 1 /\ j \in 0 .. n - 1
    BY TaskCount, TasksAssumption DEF Tasks
<1>2. /\ S = {k \in Keys : \E q \in 0 .. Requests : k = 1 + i + q * n}
      /\ T = {k \in Keys : \E q \in 0 .. Requests : k = 1 + j + q * n}
    BY DEF Slice, Shard
<1>3. /\ IsFiniteSet(S) /\ Cardinality(S) \in Nat
      /\ IsFiniteSet(T) /\ Cardinality(T) \in Nat
      /\ IsFiniteSet(R) /\ Cardinality(R) \in Nat
    <2>1. S \in SUBSET Keys /\ T \in SUBSET Keys /\ R \in SUBSET Keys
        BY DEF Slice
    <2> QED BY <2>1, KeysAreFinite
<1> HIDE DEF n, i, j, S, T
<1>4. ASSUME NEW k \in R PROVE k - n - i + j \in T
    <2>1. PICK q \in 0 .. Requests : k = 1 + i + q * n
        BY <1>2
    <2>2. q # 0
        BY <1>1, <2>1
    <2>3. q - 1 \in 0 .. Requests /\ q - 1 \in Nat
        BY <2>1, <2>2, SizeAssumption
    <2>4. q * n = (q - 1) * n + n /\ (q - 1) * n \in Nat
        BY <1>1, <2>3
    <2>5. k - n - i + j = 1 + j + (q - 1) * n
        BY <1>1, <2>1, <2>4
    <2>6. k \in 1 .. Requests
        BY <1>2 DEF Keys
    <2>7. k - n - i + j \in Keys
        BY <1>1, <2>4, <2>5, <2>6, SizeAssumption DEF Keys
    <2> QED BY <1>2, <2>3, <2>5, <2>7
<1>5. f \in Injection(R, T)
    <2>1. R \subseteq Int /\ n \in Int /\ i \in Int /\ j \in Int
        BY <1>1, <1>2 DEF Keys
    <2>2. ASSUME NEW a \in R, NEW b \in R, f[a] = f[b] PROVE a = b
        BY <2>1, <2>2
    <2>3. f \in [R -> T]
        BY <1>4
    <2> QED BY <2>2, <2>3 DEF Injection, IsInjective
<1>6. Cardinality(R) <= Cardinality(T)
    BY <1>3, <1>5, FS_Injection
<1>7. Cardinality(S) <= Cardinality(R) + 1
    BY <1>3, FS_RemoveElement
<1>8. Cardinality(S) <= Cardinality(T) + 1
    BY <1>3, <1>6, <1>7
<1> QED BY <1>8 DEF S, T

-----------------------------------------------------------------------------
(* Types. *)

\* The outputs of a chunk are numbered from the ones there were on, and not with 0.
LEMMA ChunkNumbers ==
    ASSUME NEW chunk \in SUBSET Keys, NEW g \in Nat, NEW k \in chunk
    PROVE  /\ Cardinality(chunk) \in Nat
           /\ g + Cardinality({j \in chunk : j <= k}) \in 1 .. g + Cardinality(chunk)
<1> DEFINE S == {j \in chunk : j <= k}
<1>1. k \in S
    BY DEF Keys
<1>2. IsFiniteSet(chunk) /\ Cardinality(chunk) \in Nat
    BY KeysAreFinite
<1>3. IsFiniteSet(S) /\ Cardinality(S) \in Nat /\ Cardinality(S) <= Cardinality(chunk)
    BY <1>2, FS_Subset, FS_CardinalityType
<1>4. Cardinality(S) # 0
    BY <1>1, <1>3, FS_EmptySet
<1> HIDE DEF S
<1>5. g + Cardinality(S) \in 1 .. g + Cardinality(chunk)
    BY <1>2, <1>3, <1>4
<1> QED BY <1>2, <1>5 DEF S

\* A step of stage 1 saves outputs of requests of the task's slice that have none, and keeps
\* the others.
LEMMA GenerateSaves ==
    ASSUME TypeOK, NEW t \in Tasks, Generate(t)
    PROVE  /\ file' \in [Tasks -> [Keys -> 0 .. generated']]
           /\ generated' \in Nat /\ generated <= generated'
           /\ \A u \in Tasks, k \in Keys :
                  \/ file'[u][k] = file[u][k]
                  \/ u = t /\ k \in Missing(t) /\ file'[u][k] # 0
<1> DEFINE row == [k \in Keys |-> IF k \in Chunk(t) THEN Number(t, k) ELSE file[t][k]]
<1>1. /\ file' = [file EXCEPT ![t] = row]
      /\ generated' = generated + Cardinality(Chunk(t))
    BY DEF Generate
<1>2. Chunk(t) \in SUBSET Missing(t) /\ Missing(t) \in SUBSET Keys
    BY DEF Chunk, Missing, Slice
<1>3. file \in [Tasks -> [Keys -> 0 .. generated]] /\ generated \in Nat
    BY DEF TypeOK, Outputs
<1>4. Cardinality(Chunk(t)) \in Nat
    BY <1>2, KeysAreFinite
<1>5. generated' \in Nat /\ generated <= generated'
    BY <1>1, <1>3, <1>4
<1>6. ASSUME NEW k \in Chunk(t) PROVE Number(t, k) \in 1 .. generated'
    BY <1>1, <1>2, <1>3, ChunkNumbers DEF Number
<1>7. ASSUME NEW k \in Keys
      PROVE  /\ row[k] \in 0 .. generated'
             /\ k \notin Chunk(t) => row[k] = file[t][k]
             /\ k \in Chunk(t) => row[k] # 0
    <2>1. file[t][k] \in 0 .. generated
        BY <1>3
    <2>2. CASE k \in Chunk(t)
        BY <1>5, <1>6, <2>2
    <2>3. CASE k \notin Chunk(t)
        BY <1>3, <1>5, <2>1, <2>3
    <2> QED BY <2>2, <2>3
<1> HIDE DEF row
<1>8. row \in [Keys -> 0 .. generated']
    BY <1>7 DEF row
<1>9. [Keys -> 0 .. generated] \subseteq [Keys -> 0 .. generated']
    BY <1>3, <1>5
<1>10. file' \in [Tasks -> [Keys -> 0 .. generated']]
    BY <1>1, <1>3, <1>8, <1>9
<1>11. ASSUME NEW u \in Tasks, NEW k \in Keys
       PROVE  \/ file'[u][k] = file[u][k]
              \/ u = t /\ k \in Missing(t) /\ file'[u][k] # 0
    BY <1>1, <1>2, <1>3, <1>7
<1> QED BY <1>5, <1>10, <1>11

\* Every step keeps the types.
LEMMA TypeOKStep ==
    ASSUME TypeOK, [Next]_vars
    PROVE  TypeOK'
<1> USE DEF TypeOK, Outputs
<1>1. ASSUME NEW t \in Tasks, RunTask(t) PROVE TypeOK'
    BY <1>1 DEF RunTask, second
<1>2. ASSUME NEW t \in Tasks, Generate(t) PROVE TypeOK'
    <2>1. /\ file' \in [Tasks -> [Keys -> 0 .. generated']]
          /\ generated' \in Nat /\ generated <= generated'
        BY <1>2, GenerateSaves
    <2>2. UNCHANGED <<pc, merged, inputs, stage, seen, kills, benchmarks, merges>>
        BY <1>2 DEF Generate, second
    <2>3. 0 .. generated \subseteq 0 .. generated'
        BY <2>1
    <2>4. merged' \in [Keys -> 0 .. generated']
        BY <2>2, <2>3
    <2>5. seen' \in [Keys -> SUBSET (0 .. generated')]
        BY <2>2, <2>3
    <2> QED BY <2>1, <2>2, <2>4, <2>5
<1>3. ASSUME NEW t \in Tasks, EndTask(t) PROVE TypeOK'
    BY <1>3 DEF EndTask, second
<1>4. ASSUME NEW t \in Tasks, KillTask(t) PROVE TypeOK'
    BY <1>4, BoundAssumption DEF KillTask, second
<1>5. ASSUME NEW t \in Tasks, Requeue(t) PROVE TypeOK'
    BY <1>5 DEF Requeue
<1>6. CASE Merge
    BY <1>6 DEF Merge, tasks
<1>7. CASE Attach
    <2>1. PICK t \in inputs : merged' = Inserted(t) /\ inputs' = inputs \ {t}
        BY <1>7 DEF Attach
    <2>2. merged' \in [Keys -> 0 .. generated]
        BY <2>1 DEF Inserted
    <2> QED BY <1>7, <2>1, <2>2 DEF Attach, tasks
<1>8. CASE EndMerge
    BY <1>8 DEF EndMerge, tasks
<1>9. ASSUME NEW k \in Keys, Replay(k) PROVE TypeOK'
    <2>1. UNCHANGED <<pc, file, inputs, stage, kills, benchmarks, merges>>
        BY <1>9 DEF Replay, tasks
    <2>2. CASE merged[k] # 0
        BY <1>9, <2>1, <2>2 DEF Replay
    <2>3. CASE merged[k] = 0
        <3>1. /\ merged' = [merged EXCEPT ![k] = generated + 1]
              /\ generated' = generated + 1
              /\ seen' = [seen EXCEPT ![k] = @ \cup {generated + 1}]
            BY <1>9, <2>3 DEF Replay, Output
        <3>2. 0 .. generated \subseteq 0 .. generated' /\ generated + 1 \in 0 .. generated'
            BY <3>1
        <3>3. merged' \in [Keys -> 0 .. generated']
            BY <3>1, <3>2
        <3>4. seen' \in [Keys -> SUBSET (0 .. generated')]
            BY <3>1, <3>2
        <3>5. file' \in [Tasks -> [Keys -> 0 .. generated']]
            <4>1. [Keys -> 0 .. generated] \subseteq [Keys -> 0 .. generated']
                BY <3>2
            <4> QED BY <2>1, <4>1
        <3>6. generated' \in Nat
            BY <3>1
        <3> QED BY <2>1, <3>3, <3>4, <3>5, <3>6
    <2> QED BY <2>2, <2>3
<1>10. CASE EndBenchmark
    BY <1>10 DEF EndBenchmark, tasks
<1>11. CASE Benchmark
    BY <1>11 DEF Benchmark, tasks
<1>12. CASE UNCHANGED vars
    BY <1>12 DEF vars, tasks, second
<1> QED BY <1>1, <1>2, <1>3, <1>4, <1>5, <1>6, <1>7, <1>8, <1>9, <1>10, <1>11, <1>12 DEF Next

\* The tasks, their files, the merged cache and the benchmarks' history hold what sharding.py
\* and the scripts put there.
THEOREM TypeCorrect == Spec => []TypeOK
<1>1. Init => TypeOK
    BY DEF Init, TypeOK, NoOutputs, Outputs
<1>2. TypeOK /\ [Next]_vars => TypeOK'
    BY TypeOKStep
<1> QED BY <1>1, <1>2, PTL DEF Spec

-----------------------------------------------------------------------------
(* Outputs stay what they are. *)

\* SeenIsFinal is not inductive: a benchmark answers with what the merged cache has, so every
\* answer it gave before must still be there.
SeenIsMerged == \A k \in Keys : seen[k] \subseteq {merged[k]} \ {0}

LEMMA SeenIsMergedStep ==
    ASSUME TypeOK, SeenIsMerged, [Next]_vars
    PROVE  SeenIsMerged'
<1> USE DEF SeenIsMerged
<1>1. CASE UNCHANGED <<merged, seen>>
    BY <1>1
<1>2. CASE Attach
    <2>1. PICK t \in inputs : merged' = Inserted(t)
        BY <1>2 DEF Attach
    <2>2. UNCHANGED seen
        BY <1>2 DEF Attach
    <2>3. ASSUME NEW k \in Keys, merged[k] # 0 PROVE merged'[k] = merged[k]
        BY <2>1, <2>3 DEF Inserted
    <2> QED BY <2>2, <2>3
<1>3. ASSUME NEW k \in Keys, Replay(k) PROVE SeenIsMerged'
    <2>1. seen \in [Keys -> SUBSET Outputs] /\ merged \in [Keys -> Outputs] /\ generated \in Nat
        BY DEF TypeOK
    <2>2. CASE merged[k] # 0
        <3>1. UNCHANGED merged /\ seen' = [seen EXCEPT ![k] = @ \cup {merged[k]}]
            BY <1>3, <2>2 DEF Replay
        <3> QED BY <2>1, <2>2, <3>1
    <2>3. CASE merged[k] = 0
        <3>1. /\ merged' = [merged EXCEPT ![k] = generated + 1]
              /\ seen' = [seen EXCEPT ![k] = @ \cup {generated + 1}]
            BY <1>3, <2>3 DEF Replay, Output
        <3>2. seen[k] = {}
            BY <2>3
        <3>3. generated + 1 # 0
            BY <2>1
        <3>4. seen'[k] = {merged'[k]} /\ merged'[k] # 0
            BY <2>1, <3>1, <3>2, <3>3
        <3>5. ASSUME NEW j \in Keys, j # k PROVE seen'[j] = seen[j] /\ merged'[j] = merged[j]
            BY <2>1, <3>1, <3>5
        <3> QED BY <3>4, <3>5
    <2> QED BY <2>2, <2>3
<1>4. ASSUME NEW t \in Tasks, RunTask(t) \/ Generate(t) \/ EndTask(t) \/ KillTask(t) \/ Requeue(t)
      PROVE  UNCHANGED <<merged, seen>>
    BY <1>4 DEF RunTask, Generate, EndTask, KillTask, Requeue, second
<1>5. CASE Merge \/ EndMerge \/ EndBenchmark \/ Benchmark \/ UNCHANGED vars
    BY <1>5, <1>1 DEF Merge, EndMerge, EndBenchmark, Benchmark, vars, second
<1> QED BY <1>1, <1>2, <1>3, <1>4, <1>5 DEF Next

\* Whatever is killed, run again and merged later, and whatever a benchmark had to generate in
\* between: no benchmark answers a request with another output than an earlier one.
THEOREM BenchmarksAgree == Spec => []SeenIsFinal
<1>1. Init => SeenIsMerged
    BY DEF Init, SeenIsMerged
<1>2. TypeOK /\ SeenIsMerged /\ [Next]_vars => SeenIsMerged'
    BY SeenIsMergedStep
<1>3. SeenIsMerged => SeenIsFinal
    <2> SUFFICES ASSUME SeenIsMerged, NEW k \in Keys PROVE Cardinality(seen[k]) <= 1
        BY DEF SeenIsFinal
    <2>1. seen[k] = {} \/ seen[k] = {merged[k]}
        BY DEF SeenIsMerged
    <2>2. CASE seen[k] = {}
        <3>1. Cardinality(seen[k]) = 0
            BY <2>2, FS_EmptySet
        <3> QED BY <3>1
    <2>3. CASE seen[k] = {merged[k]}
        <3>1. Cardinality(seen[k]) = 1
            BY <2>3, FS_Singleton
        <3> QED BY <3>1
    <2> QED BY <2>1, <2>2, <2>3
<1> QED BY <1>1, <1>2, <1>3, TypeCorrect, PTL DEF Spec

-----------------------------------------------------------------------------
(* The plan is generated once, and merged. *)

\* A task generates its own slice, and ends with all of it: outputs are never taken away.
OwnSlice ==
    \A t \in Tasks :
        /\ \A k \in Keys : file[t][k] # 0 => k \in Slice(Shard(t))
        /\ pc[t] = "ended" => Missing(t) = {}

LEMMA OwnSliceStep ==
    ASSUME TypeOK, OwnSlice, [Next]_vars
    PROVE  OwnSlice'
<1> USE DEF OwnSlice, Missing
<1>1. ASSUME NEW t \in Tasks, Generate(t) PROVE OwnSlice'
    <2>1. \A u \in Tasks, k \in Keys :
              \/ file'[u][k] = file[u][k]
              \/ u = t /\ k \in Missing(t) /\ file'[u][k] # 0
        BY <1>1, GenerateSaves
    <2>2. UNCHANGED pc /\ pc[t] # "ended"
        BY <1>1 DEF Generate
    <2>3. ASSUME NEW u \in Tasks, NEW k \in Keys, file'[u][k] # 0 PROVE k \in Slice(Shard(u))
        BY <2>1, <2>3
    <2>4. ASSUME NEW u \in Tasks, pc'[u] = "ended" PROVE Missing(u)' = {}
        <3>1. u # t /\ Missing(u) = {}
            BY <2>2, <2>4
        <3>2. Slice(Shard(u)) \subseteq Keys
            BY DEF Slice
        <3> QED BY <2>1, <3>1, <3>2
    <2> QED BY <2>3, <2>4
<1>2. ASSUME NEW t \in Tasks, EndTask(t) PROVE OwnSlice'
    BY <1>2 DEF EndTask, TypeOK
<1>3. ASSUME NEW t \in Tasks, RunTask(t) \/ KillTask(t) \/ Requeue(t) PROVE OwnSlice'
    <2>1. UNCHANGED file /\ \A u \in Tasks : pc'[u] = "ended" => pc[u] = "ended"
        BY <1>3 DEF RunTask, KillTask, Requeue, TypeOK
    <2> QED BY <2>1
<1>4. CASE Merge \/ Attach \/ EndMerge \/ EndBenchmark \/ Benchmark \/ UNCHANGED vars
    BY <1>4 DEF Merge, Attach, EndMerge, EndBenchmark, Benchmark, vars, tasks
<1>5. ASSUME NEW k \in Keys, Replay(k) PROVE OwnSlice'
    BY <1>5 DEF Replay, tasks
<1> QED BY <1>1, <1>2, <1>3, <1>4, <1>5 DEF Next

LEMMA OwnSliceInvariant == Spec => []OwnSlice
<1>1. Init => OwnSlice
    BY DEF Init, OwnSlice, NoOutputs
<1>2. TypeOK /\ OwnSlice /\ [Next]_vars => OwnSlice'
    BY OwnSliceStep
<1> QED BY <1>1, <1>2, TypeCorrect, PTL DEF Spec

\* When all tasks have ended, each planned request is in the file of exactly one of them, and
\* the tasks' shares differ by one request at most.
THEOREM EveryRequestOnce == Spec => []ShardsPartitionThePlan
<1> SUFFICES ASSUME OwnSlice PROVE ShardsPartitionThePlan
    BY OwnSliceInvariant, PTL
<1> SUFFICES ASSUME \A t \in Tasks : pc[t] = "ended"
             PROVE  /\ \A k \in Keys : Cardinality({t \in Tasks : k \in {j \in Keys : file[t][j] # 0}}) = 1
                    /\ \A t, u \in Tasks : Cardinality({j \in Keys : file[t][j] # 0})
                                               <= Cardinality({j \in Keys : file[u][j] # 0}) + 1
    BY DEF ShardsPartitionThePlan
<1>1. ASSUME NEW t \in Tasks PROVE {k \in Keys : file[t][k] # 0} = Slice(Shard(t))
    <2>1. Slice(Shard(t)) \subseteq Keys
        BY DEF Slice
    <2> QED BY <2>1 DEF OwnSlice, Missing
<1>2. ASSUME NEW k \in Keys
      PROVE  Cardinality({t \in Tasks : k \in {j \in Keys : file[t][j] # 0}}) = 1
    <2>1. PICK t \in Tasks : k \in Slice(Shard(t))
        BY SlicesCoverThePlan
    <2>2. {u \in Tasks : k \in {j \in Keys : file[u][j] # 0}} = {t}
        BY <1>1, <2>1, SlicesAreDisjoint
    <2> QED BY <2>2, FS_Singleton
<1>3. ASSUME NEW t \in Tasks, NEW u \in Tasks
      PROVE  Cardinality({j \in Keys : file[t][j] # 0})
                 <= Cardinality({j \in Keys : file[u][j] # 0}) + 1
    BY <1>1, SlicesAreBalanced
<1> QED BY <1>2, <1>3

\* While files are merged, what an ended task has generated is there once its file is done.
MergedSoFar ==
    stage = "merge" =>
        \A t \in Tasks \ inputs : pc[t] = "ended" => \A k \in Slice(Shard(t)) : merged[k] # 0

LEMMA MergedSoFarStep ==
    ASSUME TypeOK, OwnSlice, MergedSoFar, [Next]_vars
    PROVE  MergedSoFar'
<1> USE DEF MergedSoFar
<1>1. CASE stage' # "merge"
    BY <1>1
<1>2. CASE Merge
    BY <1>2 DEF Merge
<1>3. CASE Attach
    <2>1. PICK t \in inputs : merged' = Inserted(t) /\ inputs' = inputs \ {t}
        BY <1>3 DEF Attach
    <2>2. UNCHANGED pc /\ stage = "merge" /\ t \in Tasks
        BY <1>3 DEF Attach, tasks, TypeOK
    <2>3. ASSUME NEW u \in Tasks \ inputs', pc'[u] = "ended", NEW k \in Slice(Shard(u))
          PROVE  merged'[k] # 0
        <3>1. k \in Keys
            BY DEF Slice
        <3>2. CASE u = t
            <4>1. file[t][k] # 0
                BY <2>2, <2>3, <3>1, <3>2 DEF OwnSlice, Missing
            <4> QED BY <2>1, <3>1, <4>1 DEF Inserted
        <3>3. CASE u # t
            <4>1. merged[k] # 0
                BY <2>1, <2>2, <2>3, <3>3
            <4> QED BY <2>1, <3>1, <4>1 DEF Inserted
        <3> QED BY <3>2, <3>3
    <2> QED BY <2>3
<1>4. ASSUME NEW t \in Tasks, KillTask(t) PROVE MergedSoFar'
    BY <1>4 DEF KillTask, second, TypeOK
<1>5. ASSUME NEW t \in Tasks, RunTask(t) \/ Generate(t) \/ EndTask(t) \/ Requeue(t)
      PROVE  stage' # "merge"
    BY <1>5 DEF RunTask, Generate, EndTask, Requeue, second
<1>6. CASE EndMerge \/ EndBenchmark \/ Benchmark
    BY <1>6 DEF EndMerge, EndBenchmark, Benchmark
<1>7. ASSUME NEW k \in Keys, Replay(k) PROVE stage' # "merge"
    BY <1>7 DEF Replay
<1>8. CASE UNCHANGED vars
    BY <1>8 DEF vars, tasks, second
<1> QED BY <1>1, <1>2, <1>3, <1>4, <1>5, <1>6, <1>7, <1>8 DEF Next

\* A merge of the files of tasks that have all ended leaves nothing to generate.
THEOREM MergeLeavesNothing == Spec => []MergeIsComplete
<1>1. Init => MergedSoFar
    BY DEF Init, MergedSoFar
<1>2. TypeOK /\ OwnSlice /\ MergedSoFar /\ [Next]_vars => MergedSoFar'
    BY MergedSoFarStep
<1>3. TypeOK /\ MergedSoFar => MergeIsComplete
    BY SlicesCoverThePlan DEF MergedSoFar, MergeIsComplete
<1> QED BY <1>1, <1>2, <1>3, TypeCorrect, OwnSliceInvariant, PTL DEF Spec
=============================================================================
