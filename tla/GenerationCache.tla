--------------------------- MODULE GenerationCache ---------------------------
(***************************************************************************)
(* The persistent generation cache (routeguard/models/cache.py) under the  *)
(* threads of one process: ModelPool.get hands out the CachedLLM of a      *)
(* model, CachedLLM.generate_batch looks every request up in SQLite, loads *)
(* the backend when something is missing, generates the missing requests   *)
(* in chunks and saves each chunk.  The process may be killed and started  *)
(* again at any point; only the SQLite file survives.  A benchmark has one *)
(* thread, the API a pool of them.                                         *)
(*                                                                         *)
(* A request is its key (request_key).  An output is its position in the   *)
(* history of everything any backend ever generated: two outputs of one    *)
(* request differ, if only in the latency measured.  0 stands for None.    *)
(*                                                                         *)
(* A definition commented as a slip is not part of the model: it is the    *)
(* definition that follows it with a plausible mistake, and PROJECT.json   *)
(* names the property that is violated when it is used instead.            *)
(***************************************************************************)
EXTENDS Integers, Sequences, FiniteSets, FiniteSetsExt

CONSTANTS
    Workers,      \* the threads there may be
    Keys,         \* the distinct requests
    Batches,      \* the batches of requests callers pass to generate_batch
    ChunkSize,    \* CachedLLM.chunk_size
    MaxRequests,  \* bound: batches asked for over the whole behaviour
    MaxCrashes    \* bound: times the process is killed

ASSUME WorkersAssumption == IsFiniteSet(Workers)
ASSUME BatchAssumption == Batches \subseteq Seq(Keys) \ {<< >>}
ASSUME ChunkAssumption == ChunkSize \in Nat \ {0}
ASSUME BoundAssumption == MaxRequests \in Nat /\ MaxCrashes \in Nat

VARIABLES
    threads,    \* the threads of this process: one in a benchmark, a pool of them in the API
    db,         \* the generations table: the output saved for each key, or 0
    generated,  \* history: the key of every output generated so far
    pooled,     \* ModelPool._instances: the CachedLLM in use, or 0
    created,    \* history: CachedLLMs created by this process
    loaded,     \* the CachedLLMs whose _inner is set
    loads,      \* history: backends built by this process
    pc, batch,  \* each worker: the statement it is at, the requests it was given
    instance,   \* the CachedLLM it holds
    results,    \* generate_batch's results, so far
    missing,    \* the positions that were not found, so far
    cursor,     \* where the next chunk of missing starts
    fresh,      \* the outputs generated and not yet saved
    known,      \* history: the keys saved when the batch was asked for
    requests, crashes

pool == <<pooled, created, loaded, loads>>
locals == <<pc, batch, instance, results, missing, cursor, fresh, known>>
vars == <<threads, db, generated, pool, locals, requests, crashes>>

Idle == {"idle", "done", "failed"}
Outputs == DOMAIN generated

Init ==
    /\ threads \in SUBSET Workers \ {{}}
    /\ db = [k \in Keys |-> 0]
    /\ generated = << >>
    /\ pooled = 0 /\ created = 0 /\ loaded = {} /\ loads = 0
    /\ pc = [w \in Workers |-> "idle"]
    /\ batch = [w \in Workers |-> << >>]
    /\ instance = [w \in Workers |-> 0]
    /\ results = [w \in Workers |-> << >>]
    /\ missing = [w \in Workers |-> << >>]
    /\ cursor = [w \in Workers |-> 1]
    /\ fresh = [w \in Workers |-> << >>]
    /\ known = [w \in Workers |-> {}]
    /\ requests = 0 /\ crashes = 0

-----------------------------------------------------------------------------
(* ModelPool.get: check, create, return what the dictionary holds by then. *)

Ask(w) ==
    /\ pc[w] \in Idle
    /\ requests < MaxRequests
    /\ requests' = requests + 1
    /\ \E b \in Batches : batch' = [batch EXCEPT ![w] = b]
    /\ known' = [known EXCEPT ![w] = {k \in Keys : db[k] # 0}]
    /\ results' = [results EXCEPT ![w] = << >>]
    /\ missing' = [missing EXCEPT ![w] = << >>]
    /\ cursor' = [cursor EXCEPT ![w] = 1]
    /\ fresh' = [fresh EXCEPT ![w] = << >>]
    /\ pc' = [pc EXCEPT ![w] = "get"]
    /\ UNCHANGED <<threads, db, generated, pool, instance, crashes>>

AfterCheck == IF pooled = 0 THEN "create" ELSE "bind"

FindModel(w) ==
    /\ pc[w] = "get"
    /\ pc' = [pc EXCEPT ![w] = AfterCheck]
    /\ UNCHANGED <<threads, db, generated, pool, batch, instance, results, missing, cursor, fresh,
                   known, requests, crashes>>

CreateModel(w) ==
    /\ pc[w] = "create"
    /\ created' = created + 1
    /\ pooled' = created'
    /\ pc' = [pc EXCEPT ![w] = "bind"]
    /\ UNCHANGED <<threads, db, generated, loaded, loads, batch, instance, results, missing, cursor,
                   fresh, known, requests, crashes>>

BindModel(w) ==
    /\ pc[w] = "bind"
    /\ instance' = [instance EXCEPT ![w] = pooled]
    /\ pc' = [pc EXCEPT ![w] = "lookup"]
    /\ UNCHANGED <<threads, db, generated, pool, batch, results, missing, cursor, fresh, known,
                   requests, crashes>>

-----------------------------------------------------------------------------
(* CachedLLM.generate_batch. *)

Cached(k) == db[k]

\* GenerationCache.get takes the lock for one key at a time.
Lookup(w) ==
    LET i == Len(results[w]) + 1
        hit == Cached(batch[w][i])
    IN /\ pc[w] = "lookup"
       /\ results' = [results EXCEPT ![w] = Append(@, hit)]
       /\ missing' = [missing EXCEPT ![w] = IF hit = 0 THEN Append(@, i) ELSE @]
       /\ pc' = [pc EXCEPT ![w] = IF i = Len(batch[w]) THEN "chunk" ELSE "lookup"]
       /\ UNCHANGED <<threads, db, generated, pool, batch, instance, cursor, fresh, known, requests,
                      crashes>>

\* Slips: the backend is asked for before the missing requests; the last chunk is forgotten.
LoadFirst(w) ==
    IF instance[w] \notin loaded THEN "load"
    ELSE IF cursor[w] > Len(missing[w]) THEN "done" ELSE "generate"
StopsAtLastChunk(w) ==
    IF cursor[w] + ChunkSize > Len(missing[w]) THEN "done"
    ELSE IF instance[w] \in loaded THEN "generate" ELSE "load"

\* `for start in range(0, len(missing), chunk_size)`, then the check in self.inner.
AfterChunks(w) ==
    IF cursor[w] > Len(missing[w]) THEN "done"
    ELSE IF instance[w] \in loaded THEN "generate" ELSE "load"

NextChunk(w) ==
    /\ pc[w] = "chunk"
    /\ pc' = [pc EXCEPT ![w] = AfterChunks(w)]
    /\ UNCHANGED <<threads, db, generated, pool, batch, instance, results, missing, cursor, fresh,
                   known, requests, crashes>>

\* Slip: a thread that finds the backend built in the meantime does not go on.
LoadBackendIfUnset(w) ==
    /\ pc[w] = "load"
    /\ instance[w] \notin loaded
    /\ loads' = loads + 1
    /\ loaded' = loaded \cup {instance[w]}
    /\ pc' = [pc EXCEPT ![w] = "generate"]
    /\ UNCHANGED <<threads, db, generated, pooled, created, batch, instance, results, missing, cursor,
                   fresh, known, requests, crashes>>

\* The assignment in self.inner; another thread may be here for the same CachedLLM.
LoadBackend(w) ==
    /\ pc[w] = "load"
    /\ loads' = loads + 1
    /\ loaded' = loaded \cup {instance[w]}
    /\ pc' = [pc EXCEPT ![w] = "generate"]
    /\ UNCHANGED <<threads, db, generated, pooled, created, batch, instance, results, missing, cursor,
                   fresh, known, requests, crashes>>

\* The positions in the batch of the chunk at the cursor, and their keys.
Chunk(w) == SubSeq(missing[w], cursor[w], Min({cursor[w] + ChunkSize - 1, Len(missing[w])}))
ChunkKeys(w) == [j \in 1 .. Len(Chunk(w)) |-> batch[w][Chunk(w)[j]]]

Generate(w) ==
    /\ pc[w] = "generate"
    /\ generated' = generated \o ChunkKeys(w)
    /\ fresh' = [fresh EXCEPT ![w] = [j \in 1 .. Len(ChunkKeys(w)) |-> Len(generated) + j]]
    /\ pc' = [pc EXCEPT ![w] = "save"]
    /\ UNCHANGED <<threads, db, pool, batch, instance, results, missing, cursor, known, requests,
                   crashes>>

\* The row of key k after the chunk: of two rows with one key the later one stays.
Row(w, k) ==
    LET rows == {j \in 1 .. Len(fresh[w]) : ChunkKeys(w)[j] = k}
    IN IF rows = {} THEN db[k] ELSE fresh[w][Max(rows)]

\* Slip: only the last chunk is committed.
CommittedAtEnd(w) ==
    IF cursor[w] + ChunkSize > Len(missing[w]) THEN [k \in Keys |-> Row(w, k)] ELSE db

\* put_many: INSERT OR REPLACE of the chunk's rows, committed before it returns.
Committed(w) == [k \in Keys |-> Row(w, k)]

\* The chunk is saved, and its results filled in.
Save(w) ==
    /\ pc[w] = "save"
    /\ db' = Committed(w)
    /\ results' = [results EXCEPT ![w] =
          [i \in 1 .. Len(@) |->
              IF \E j \in 1 .. Len(fresh[w]) : Chunk(w)[j] = i
                 THEN fresh[w][CHOOSE j \in 1 .. Len(fresh[w]) : Chunk(w)[j] = i]
                 ELSE @[i]]]
    /\ cursor' = [cursor EXCEPT ![w] = @ + ChunkSize]
    /\ fresh' = [fresh EXCEPT ![w] = << >>]
    /\ pc' = [pc EXCEPT ![w] = "chunk"]
    /\ UNCHANGED <<threads, generated, pool, batch, instance, missing, known, requests, crashes>>

\* The backend cannot be built, a request of the chunk fails after n others were answered, or
\* SQLite refuses the rows: the exception leaves generate_batch and the chunk is lost.
Fail(w) ==
    /\ pc[w] \in {"load", "generate", "save"}
    /\ \E n \in 0 .. (IF pc[w] = "generate" THEN Len(ChunkKeys(w)) - 1 ELSE 0) :
          generated' = generated \o SubSeq(ChunkKeys(w), 1, n)
    /\ pc' = [pc EXCEPT ![w] = "failed"]
    /\ fresh' = [fresh EXCEPT ![w] = << >>]
    /\ UNCHANGED <<threads, db, pool, batch, instance, results, missing, cursor, known, requests,
                   crashes>>

\* The process is killed and started again: every committed row is still there.
Crash ==
    /\ crashes < MaxCrashes
    /\ crashes' = crashes + 1
    /\ pooled' = 0 /\ created' = 0 /\ loaded' = {} /\ loads' = 0
    /\ pc' = [w \in Workers |-> "idle"]
    /\ batch' = [w \in Workers |-> << >>]
    /\ instance' = [w \in Workers |-> 0]
    /\ results' = [w \in Workers |-> << >>]
    /\ missing' = [w \in Workers |-> << >>]
    /\ cursor' = [w \in Workers |-> 1]
    /\ fresh' = [w \in Workers |-> << >>]
    /\ known' = [w \in Workers |-> {}]
    /\ UNCHANGED <<threads, db, generated, requests>>

-----------------------------------------------------------------------------
Step(w) ==
    \/ FindModel(w)
    \/ CreateModel(w)
    \/ BindModel(w)
    \/ Lookup(w)
    \/ NextChunk(w)
    \/ LoadBackend(w)
    \/ Generate(w)
    \/ Save(w)

Next ==
    \/ \E w \in threads : Ask(w) \/ Step(w) \/ Fail(w)
    \/ Crash

\* A thread inside generate_batch goes on unless a backend call raises; nobody has to ask, no
\* call has to fail and no crash has to come.
Spec == Init /\ [][Next]_vars /\ \A w \in Workers : WF_vars(Step(w))

-----------------------------------------------------------------------------
(* Properties. *)

\* The cache, the pool and the workers hold what the code puts there.
TypeOK ==
    /\ threads \subseteq Workers
    /\ db \in [Keys -> Nat]
    /\ generated \in Seq(Keys)
    /\ pooled \in Nat /\ created \in Nat /\ loaded \subseteq Nat /\ loads \in Nat
    /\ pc \in [Workers -> Idle \cup {"get", "create", "bind", "lookup", "chunk", "load",
                                     "generate", "save"}]
    /\ batch \in [Workers -> Batches \cup {<< >>}]
    /\ instance \in [Workers -> Nat]
    /\ results \in [Workers -> Seq(Nat)]
    /\ missing \in [Workers -> Seq(Nat \ {0})]
    /\ cursor \in [Workers -> Nat \ {0}]
    /\ fresh \in [Workers -> Seq(Nat \ {0})]
    /\ known \in [Workers -> SUBSET Keys]
    /\ requests \in Nat /\ crashes \in Nat

\* What generate_batch returns: as many outputs as requests, each one an output some backend
\* generated for the request at that position.  (The code filters None out of the results, so
\* one forgotten position would silently shift every later answer to another request.)
AnswersTheRequest ==
    \A w \in Workers : pc[w] = "done" =>
        /\ Len(results[w]) = Len(batch[w])
        /\ \A i \in 1 .. Len(batch[w]) :
              results[w][i] \in Outputs /\ generated[results[w][i]] = batch[w][i]

\* cache.py: chunks are "persisted after each chunk, so a long run that is interrupted keeps
\* everything generated so far".  Whatever happens next, a crash or a failure costs a worker
\* the chunk it is at: everything before it can be read back from the table.
InterruptionCostsOneChunk ==
    \A w \in Workers :
        /\ Len(fresh[w]) <= ChunkSize
        /\ \A j \in 1 .. Len(missing[w]) : j < cursor[w] => db[batch[w][missing[w][j]]] # 0

\* docs/reproducibility.md: "each unique request is generated once and re-used by every system
\* and seed": once the output of a request is saved, no other output of it is ever made.
SavedIsFinal ==
    \A n \in Outputs : db[generated[n]] # 0 => n <= db[generated[n]]

\* The requests no batch lists twice: a duplicate in a later chunk is generated again.
Unrepeated == {k \in Keys : \A b \in Batches : Cardinality({i \in DOMAIN b : b[i] = k}) <= 1}

\* docs/adding_models.md: "cached replays never load weights".  A request that was saved when
\* the batch was asked for is not generated again, and if all were no backend is touched.  A
\* process with one thread, as a benchmark has, makes no second output of a saved request its
\* batches do not repeat, over kills and restarts too, and builds the backend at most once.
ReplaysAreFree ==
    /\ \A w \in Workers :
          /\ \A j \in 1 .. Len(missing[w]) : batch[w][missing[w][j]] \notin known[w]
          /\ pc[w] \in {"load", "generate", "save"} =>
                \E i \in 1 .. Len(batch[w]) : batch[w][i] \notin known[w]
    /\ Cardinality(threads) = 1 =>
          /\ \A n \in Outputs :
                generated[n] \in Unrepeated /\ db[generated[n]] # 0 => n <= db[generated[n]]
          /\ loads <= 1

\* A batch that was asked for is answered, fails, or dies with the process.
BatchesEnd == \A w \in Workers : pc[w] = "get" ~> pc[w] \in Idle
=============================================================================
