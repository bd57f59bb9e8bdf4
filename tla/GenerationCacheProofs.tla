------------------------ MODULE GenerationCacheProofs ------------------------
(***************************************************************************)
(* What the generation cache answers, keeps and repeats, for any threads,  *)
(* requests, batches, size of chunks and number of kills.                  *)
(***************************************************************************)
EXTENDS GenerationCache, FiniteSetTheorems, SequenceTheorems, TLAPS

-----------------------------------------------------------------------------
(* Chunks. *)

\* Some of the first n positions have a last one: of the segments that start in one of them,
\* one is the smallest.
LEMMA Greatest ==
    ASSUME NEW n \in Nat, NEW S \in SUBSET (1 .. n), S # {}
    PROVE  Max(S) \in S /\ \A y \in S : y <= Max(S)
<1>. DEFINE Segments == {x .. n : x \in S}
<1>1. Segments \subseteq FiniteSubsetsOf(Nat) /\ Segments # {}
  <2>1. ASSUME NEW x \in S
        PROVE  x .. n \in FiniteSubsetsOf(Nat)
    <3>1. IsFiniteSet(x .. n)
      BY FS_Interval
    <3>. QED
      BY <3>1 DEF FiniteSubsetsOf
  <2>. QED
    BY <2>1
<1>2. IsWellFoundedOn(StrictSubsetOrdering(Nat), FiniteSubsetsOf(Nat))
  BY FS_StrictSubsetOrderingWellFounded
<1>. HIDE DEF Segments
<1>3. PICK U \in Segments : \A V \in Segments : ~(<<V, U>> \in StrictSubsetOrdering(Nat))
  BY <1>1, <1>2, WFMin, Zenon
<1>. USE DEF Segments
<1>4. PICK x \in S : U = x .. n
  BY <1>3
<1>5. ASSUME NEW y \in S, x < y
      PROVE  FALSE
  <2>1. y .. n \subseteq x .. n /\ y .. n # x .. n
    <3>1. x \in x .. n /\ x \notin y .. n
      BY <1>5
    <3>. QED
      BY <1>5, <3>1
  <2>2. <<y .. n, x .. n>> \in StrictSubsetOrdering(Nat)
    BY <2>1 DEF StrictSubsetOrdering
  <2>. QED
    BY <1>3, <1>4, <2>2
<1>6. \E m \in S : \A y \in S : m >= y
  BY <1>5
<1>. QED
  BY <1>6 DEF Max

\* The local variables of a worker have their types.
LEMMA LocalTypes ==
    ASSUME TypeOK, NEW w \in Workers
    PROVE  /\ batch[w] \in Seq(Keys) /\ Len(batch[w]) \in Nat
           /\ \A i \in 1 .. Len(batch[w]) : batch[w][i] \in Keys
           /\ results[w] \in Seq(Nat) /\ Len(results[w]) \in Nat
           /\ missing[w] \in Seq(Nat \ {0}) /\ Len(missing[w]) \in Nat
           /\ \A j \in 1 .. Len(missing[w]) : missing[w][j] \in Nat \ {0}
           /\ fresh[w] \in Seq(Nat \ {0}) /\ Len(fresh[w]) \in Nat
           /\ \A j \in 1 .. Len(fresh[w]) : fresh[w][j] \in Nat \ {0}
           /\ cursor[w] \in Nat \ {0} /\ ChunkSize \in Nat \ {0}
<1>1. batch[w] \in Seq(Keys)
  BY BatchAssumption, EmptySeq DEF TypeOK
<1>2. /\ results[w] \in Seq(Nat) /\ missing[w] \in Seq(Nat \ {0})
      /\ fresh[w] \in Seq(Nat \ {0}) /\ cursor[w] \in Nat \ {0}
  BY DEF TypeOK
<1>. QED
  BY <1>1, <1>2, LenProperties, ElementOfSeq, ChunkAssumption

\* A chunk starts at the cursor, holds ChunkSize positions at most, and fewer only at the end.
LEMMA ChunkFacts ==
    ASSUME TypeOK, NEW w \in Workers, cursor[w] <= Len(missing[w])
    PROVE  /\ Len(Chunk(w)) \in 1 .. ChunkSize
           /\ cursor[w] + Len(Chunk(w)) - 1 <= Len(missing[w])
           /\ \/ Len(Chunk(w)) = ChunkSize
              \/ cursor[w] + Len(Chunk(w)) - 1 = Len(missing[w])
           /\ \A j \in 1 .. Len(Chunk(w)) : Chunk(w)[j] = missing[w][cursor[w] + j - 1]
<1>. DEFINE c == cursor[w]
            n == Len(missing[w])
            e == Min({c + ChunkSize - 1, n})
<1>1. /\ c \in Nat \ {0} /\ n \in Nat /\ ChunkSize \in Nat \ {0} /\ c <= n
      /\ \A i \in 1 .. n : missing[w][i] \in Nat \ {0}
  BY LocalTypes
<1>2. e = IF c + ChunkSize - 1 <= n THEN c + ChunkSize - 1 ELSE n
  BY <1>1 DEF Min
<1>3. Chunk(w) = SubSeq(missing[w], c, e)
  BY DEF Chunk
<1>. HIDE DEF c, n, e
<1>4. /\ c \in Int /\ e \in Int /\ c <= e /\ e <= n
      /\ \A i \in c .. e : missing[w][i] \in Nat \ {0}
  BY <1>1, <1>2
<1>5. /\ Len(Chunk(w)) = e - c + 1
      /\ \A j \in 1 .. e - c + 1 : Chunk(w)[j] = missing[w][c + j - 1]
  BY <1>3, <1>4, SubSeqProperties
<1>. QED
  BY <1>1, <1>2, <1>4, <1>5 DEF c, n

\* Its requests, if all the positions that were not found are positions of the batch.
LEMMA ChunkKeysFacts ==
    ASSUME TypeOK, NEW w \in Workers, cursor[w] <= Len(missing[w]),
           \A j \in 1 .. Len(missing[w]) : missing[w][j] \in 1 .. Len(batch[w])
    PROVE  /\ ChunkKeys(w) \in Seq(Keys)
           /\ Len(ChunkKeys(w)) = Len(Chunk(w))
           /\ \A j \in 1 .. Len(Chunk(w)) :
                 /\ cursor[w] + j - 1 \in 1 .. Len(missing[w])
                 /\ ChunkKeys(w)[j] = batch[w][missing[w][cursor[w] + j - 1]]
                 /\ ChunkKeys(w)[j] \in Keys
<1>1. \A j \in 1 .. Len(Chunk(w)) :
         /\ cursor[w] + j - 1 \in 1 .. Len(missing[w])
         /\ Chunk(w)[j] = missing[w][cursor[w] + j - 1]
  BY ChunkFacts, LocalTypes
<1>2. \A j \in 1 .. Len(Chunk(w)) :
         /\ ChunkKeys(w)[j] = batch[w][missing[w][cursor[w] + j - 1]]
         /\ ChunkKeys(w)[j] \in Keys
  BY <1>1, LocalTypes DEF ChunkKeys
<1>3. Len(Chunk(w)) \in Nat
  BY ChunkFacts, ChunkAssumption
<1>4. /\ ChunkKeys(w) \in [1 .. Len(Chunk(w)) -> Keys]
  BY <1>2 DEF ChunkKeys
<1>5. ChunkKeys(w) \in Seq(Keys)
  BY <1>3, <1>4, SeqDef
<1>6. Len(ChunkKeys(w)) = Len(Chunk(w))
  BY <1>3, <1>4, <1>5, LenProperties
<1>. QED
  BY <1>1, <1>2, <1>5, <1>6

-----------------------------------------------------------------------------
(* What is in the table, and what a worker knows at each statement. *)

\* A row holds an output of its own request.
RowsAreRight ==
    \A k \in Keys : db[k] \in 0 .. Len(generated) /\ (db[k] # 0 => generated[db[k]] = k)

\* Output n answers request i of the batch.
Answers(w, n, i) == n \in 1 .. Len(generated) /\ generated[n] = batch[w][i]

LookingUp == {"get", "create", "bind", "lookup"}
LookedUp == {"chunk", "load", "generate", "save", "done"}

Counted(w) ==
    /\ Len(results[w]) <= Len(batch[w])
    /\ pc[w] \in LookingUp => Len(results[w]) < Len(batch[w]) /\ cursor[w] = 1
    /\ pc[w] \in LookedUp => Len(results[w]) = Len(batch[w])
    /\ pc[w] \in {"load", "generate", "save"} => cursor[w] <= Len(missing[w])
    /\ pc[w] = "done" => cursor[w] > Len(missing[w])

\* A position is missing once at most.
Positions(w) ==
    /\ \A j \in 1 .. Len(missing[w]) : missing[w][j] \in 1 .. Len(results[w])
    /\ \A a, b \in 1 .. Len(missing[w]) : missing[w][a] = missing[w][b] => a = b

\* A position has an answer or is still to be generated.
Filled(w) ==
    \A i \in 1 .. Len(results[w]) :
        \/ Answers(w, results[w][i], i)
        \/ \E j \in 1 .. Len(missing[w]) : cursor[w] <= j /\ missing[w][j] = i

\* What is before the cursor was saved.
SavedBefore(w) ==
    \A j \in 1 .. Len(missing[w]) : j < cursor[w] => db[batch[w][missing[w][j]]] # 0

\* The outputs at hand are those of the chunk.
FreshIsChunk(w) ==
    /\ pc[w] # "save" => fresh[w] = << >>
    /\ pc[w] = "save" =>
          /\ Len(fresh[w]) = Len(Chunk(w))
          /\ \A j \in 1 .. Len(fresh[w]) :
                Answers(w, fresh[w][j], missing[w][cursor[w] + j - 1])

WorkerInv(w) ==
    Counted(w) /\ Positions(w) /\ Filled(w) /\ SavedBefore(w) /\ FreshIsChunk(w)

CacheInv == TypeOK /\ RowsAreRight /\ \A w \in Workers : WorkerInv(w)

\* A position that is missing is one of the batch.
LEMMA PositionsInBatch ==
    ASSUME TypeOK, NEW w \in Workers, WorkerInv(w)
    PROVE  \A j \in 1 .. Len(missing[w]) :
              missing[w][j] \in 1 .. Len(batch[w]) /\ batch[w][missing[w][j]] \in Keys
<1>1. Len(results[w]) <= Len(batch[w]) /\ Len(results[w]) \in Nat /\ Len(batch[w]) \in Nat
  BY LocalTypes DEF WorkerInv, Counted
<1>2. \A j \in 1 .. Len(missing[w]) : missing[w][j] \in 1 .. Len(results[w])
  BY DEF WorkerInv, Positions
<1>3. \A j \in 1 .. Len(missing[w]) : missing[w][j] \in 1 .. Len(batch[w])
  BY <1>1, <1>2
<1>. QED
  BY <1>3, LocalTypes

\* What others may do meanwhile: add outputs and rows.
Grows ==
    /\ Len(generated) <= Len(generated')
    /\ \A n \in 1 .. Len(generated) : generated'[n] = generated[n]
    /\ \A k \in Keys : db[k] # 0 => db'[k] # 0

Untouched(v) ==
    /\ pc'[v] = pc[v] /\ batch'[v] = batch[v] /\ results'[v] = results[v]
    /\ missing'[v] = missing[v] /\ cursor'[v] = cursor[v] /\ fresh'[v] = fresh[v]

LEMMA OthersKeepTheirs ==
    ASSUME TypeOK, TypeOK', Grows, NEW v \in Workers, WorkerInv(v), Untouched(v)
    PROVE  WorkerInv(v)'
<1>. USE DEF Untouched
<1>1. \A n, i : Answers(v, n, i) => Answers(v, n, i)'
  <2>1. Len(generated) \in Nat /\ Len(generated') \in Nat
    BY LenProperties DEF TypeOK
  <2>. QED
    BY <2>1 DEF Answers, Grows
<1>2. Counted(v)' /\ Positions(v)'
  BY DEF WorkerInv, Counted, Positions
<1>3. Filled(v)'
  BY <1>1 DEF WorkerInv, Filled
<1>4. SavedBefore(v)'
  <2>1. \A j \in 1 .. Len(missing[v]) : batch[v][missing[v][j]] \in Keys
    BY PositionsInBatch
  <2>. QED
    BY <2>1 DEF WorkerInv, SavedBefore, Grows
<1>5. FreshIsChunk(v)'
  <2>1. Chunk(v)' = Chunk(v)
    BY DEF Chunk
  <2>. QED
    BY <1>1, <2>1 DEF WorkerInv, FreshIsChunk
<1>. QED
  BY <1>2, <1>3, <1>4, <1>5 DEF WorkerInv

\* When only the statement a worker is at changes, or what this invariant does not name.
LEMMA SameTable ==
    ASSUME TypeOK, RowsAreRight, UNCHANGED <<db, generated>>
    PROVE  Grows /\ RowsAreRight'
BY LenProperties DEF Grows, RowsAreRight, TypeOK

LEMMA InitCache == Init => CacheInv
<1>. SUFFICES ASSUME Init
              PROVE  CacheInv
  OBVIOUS
<1>1. /\ << >> \in Seq(Keys) /\ << >> \in Seq(Nat) /\ << >> \in Seq(Nat \ {0})
      /\ Len(<< >>) = 0
  BY EmptySeq
<1>2. TypeOK
  BY <1>1 DEF Init, TypeOK, Idle
<1>3. RowsAreRight
  BY <1>1 DEF Init, RowsAreRight
<1>4. ASSUME NEW w \in Workers
      PROVE  WorkerInv(w)
  <2>1. /\ pc[w] = "idle" /\ batch[w] = << >> /\ results[w] = << >> /\ missing[w] = << >>
        /\ cursor[w] = 1 /\ fresh[w] = << >>
    BY DEF Init
  <2>. QED
    BY <1>1, <2>1 DEF WorkerInv, Counted, Positions, Filled, SavedBefore, FreshIsChunk,
                      LookingUp, LookedUp
<1>. QED
  BY <1>2, <1>3, <1>4 DEF CacheInv

LEMMA AskKeeps ==
    ASSUME CacheInv, NEW w \in Workers, Ask(w)
    PROVE  CacheInv' /\ Grows
<1>. USE DEF CacheInv
<1>1. PICK b \in Batches : batch' = [batch EXCEPT ![w] = b]
  BY DEF Ask
<1>2. b \in Seq(Keys) /\ b # << >> /\ Len(b) \in Nat \ {0}
  BY BatchAssumption, EmptySeq, LenProperties
<1>3. << >> \in Seq(Nat) /\ << >> \in Seq(Nat \ {0}) /\ Len(<< >>) = 0
  BY EmptySeq
<1>4. TypeOK'
  BY <1>1, <1>3 DEF Ask, TypeOK, pool, Idle
<1>5. Grows /\ RowsAreRight'
  BY SameTable DEF Ask
<1>6. \A v \in Workers : v # w => Untouched(v)
  BY <1>1 DEF Ask, Untouched, TypeOK
<1>7. WorkerInv(w)'
  <2>1. /\ pc'[w] = "get" /\ batch'[w] = b /\ results'[w] = << >> /\ missing'[w] = << >>
        /\ cursor'[w] = 1 /\ fresh'[w] = << >>
    BY <1>1 DEF Ask, TypeOK
  <2>. QED
    BY <1>2, <1>3, <2>1 DEF WorkerInv, Counted, Positions, Filled, SavedBefore, FreshIsChunk,
                      LookingUp, LookedUp
<1>. QED
  BY <1>4, <1>5, <1>6, <1>7, OthersKeepTheirs

LEMMA FindKeeps ==
    ASSUME CacheInv, NEW w \in Workers, FindModel(w) \/ CreateModel(w) \/ BindModel(w)
    PROVE  CacheInv' /\ Grows
<1>. USE DEF CacheInv
<1>1. /\ pc[w] \in {"get", "create", "bind"}
      /\ \E s \in {"create", "bind", "lookup"} : pc' = [pc EXCEPT ![w] = s]
      /\ UNCHANGED <<db, generated, batch, results, missing, cursor, fresh>>
  BY DEF FindModel, CreateModel, BindModel, AfterCheck, pool
<1>2. TypeOK'
  <2>1. CASE FindModel(w)
    BY <2>1 DEF FindModel, AfterCheck, TypeOK, pool, Idle
  <2>2. CASE CreateModel(w)
    BY <2>2 DEF CreateModel, TypeOK, Idle
  <2>3. CASE BindModel(w)
    BY <2>3 DEF BindModel, TypeOK, pool, Idle
  <2>. QED
    BY <2>1, <2>2, <2>3
<1>3. Grows /\ RowsAreRight'
  BY <1>1, SameTable
<1>4. \A v \in Workers : v # w => Untouched(v)
  BY <1>1 DEF Untouched, TypeOK
<1>5. WorkerInv(w)'
  <2>1. pc'[w] \in {"create", "bind", "lookup"}
    BY <1>1 DEF TypeOK
  <2>2. WorkerInv(w)
    OBVIOUS
  <2>3. \A n, i : Answers(w, n, i)' = Answers(w, n, i)
    BY <1>1 DEF Answers
  <2>. QED
    BY <1>1, <2>1, <2>2, <2>3 DEF WorkerInv, Counted, Positions, Filled, SavedBefore,
                      FreshIsChunk, LookingUp, LookedUp
<1>. QED
  BY <1>2, <1>3, <1>4, <1>5, OthersKeepTheirs

LEMMA LookupKeeps ==
    ASSUME CacheInv, NEW w \in Workers, Lookup(w)
    PROVE  CacheInv' /\ Grows
<1>. USE DEF CacheInv
<1>. DEFINE i == Len(results[w]) + 1
            hit == db[batch[w][i]]
            rest == IF hit = 0 THEN Append(missing[w], i) ELSE missing[w]
<1>1. /\ pc[w] = "lookup" /\ cursor[w] = 1 /\ fresh[w] = << >>
      /\ i \in 1 .. Len(batch[w]) /\ i \in Nat \ {0} /\ batch[w][i] \in Keys
      /\ Len(results[w]) \in Nat /\ Len(missing[w]) \in Nat /\ Len(batch[w]) \in Nat
      /\ hit \in 0 .. Len(generated) /\ hit \in Nat /\ (hit # 0 => generated[hit] = batch[w][i])
      /\ Len(generated) \in Nat
  <2>1. /\ pc[w] = "lookup" /\ cursor[w] = 1 /\ fresh[w] = << >>
        /\ Len(results[w]) < Len(batch[w])
    BY DEF Lookup, WorkerInv, Counted, FreshIsChunk, LookingUp
  <2>2. i \in 1 .. Len(batch[w]) /\ batch[w][i] \in Keys
    BY <2>1, LocalTypes
  <2>. QED
    BY <2>1, <2>2, LocalTypes, LenProperties DEF RowsAreRight, TypeOK
<1>2. /\ results' = [results EXCEPT ![w] = Append(results[w], hit)]
      /\ missing' = [missing EXCEPT ![w] = rest]
      /\ pc' = [pc EXCEPT ![w] = IF i = Len(batch[w]) THEN "chunk" ELSE "lookup"]
      /\ UNCHANGED <<db, generated, batch, cursor, fresh>>
  BY DEF Lookup, Cached
<1>. HIDE DEF hit
<1>3. /\ Append(results[w], hit) \in Seq(Nat)
      /\ Len(Append(results[w], hit)) = i
      /\ \A a \in 1 .. Len(results[w]) : Append(results[w], hit)[a] = results[w][a]
      /\ Append(results[w], hit)[i] = hit
  BY <1>1, LocalTypes, AppendProperties
<1>4. /\ Append(missing[w], i) \in Seq(Nat \ {0})
      /\ Len(Append(missing[w], i)) = Len(missing[w]) + 1
      /\ \A a \in 1 .. Len(missing[w]) : Append(missing[w], i)[a] = missing[w][a]
      /\ Append(missing[w], i)[Len(missing[w]) + 1] = i
  BY <1>1, LocalTypes, AppendProperties
<1>5. /\ rest \in Seq(Nat \ {0}) /\ Len(rest) \in Nat
      /\ Len(missing[w]) <= Len(rest)
      /\ \A a \in 1 .. Len(missing[w]) : rest[a] = missing[w][a]
      /\ \A a \in 1 .. Len(rest) : a \in 1 .. Len(missing[w]) \/ (hit = 0 /\ rest[a] = i
                                                              /\ a = Len(missing[w]) + 1)
      /\ hit = 0 => Len(rest) = Len(missing[w]) + 1 /\ rest[Len(rest)] = i
  <2>1. CASE hit = 0
    <3>1. rest = Append(missing[w], i)
      BY <2>1
    <3>. HIDE DEF rest, i
    <3>. QED
      BY <1>1, <1>4, <2>1, <3>1
  <2>2. CASE hit # 0
    <3>1. rest = missing[w]
      BY <2>2
    <3>. HIDE DEF rest, i
    <3>. QED
      BY <1>1, <2>2, <3>1, LocalTypes
  <2>. QED
    BY <2>1, <2>2
<1>. HIDE DEF rest
<1>6. TypeOK'
  <2>1. results' \in [Workers -> Seq(Nat)] /\ missing' \in [Workers -> Seq(Nat \ {0})]
    BY <1>2, <1>3, <1>5 DEF TypeOK
  <2>2. pc' \in [Workers -> Idle \cup {"get", "create", "bind", "lookup", "chunk", "load",
                                      "generate", "save"}]
    BY <1>2 DEF TypeOK
  <2>3. UNCHANGED <<threads, db, generated, pooled, created, loaded, loads, batch, instance,
                    cursor, fresh, known, requests, crashes>>
    BY DEF Lookup, pool
  <2>. QED
    BY <2>1, <2>2, <2>3 DEF TypeOK
<1>7. Grows /\ RowsAreRight'
  BY <1>2, SameTable
<1>8. \A v \in Workers : v # w => Untouched(v)
  BY <1>2 DEF Untouched, TypeOK
<1>9. WorkerInv(w)'
  <2>1. /\ results'[w] = Append(results[w], hit) /\ missing'[w] = rest
        /\ pc'[w] = (IF i = Len(batch[w]) THEN "chunk" ELSE "lookup")
        /\ batch'[w] = batch[w] /\ cursor'[w] = 1 /\ fresh'[w] = << >>
    BY <1>1, <1>2 DEF TypeOK
  <2>2. Len(results'[w]) = i
    BY <1>3, <2>1
  <2>3. Counted(w)'
    BY <1>1, <2>1, <2>2 DEF Counted, LookingUp, LookedUp
  <2>4. Positions(w)'
    <3>1. /\ \A j \in 1 .. Len(missing[w]) : missing[w][j] \in 1 .. i - 1
          /\ \A a, b \in 1 .. Len(missing[w]) : missing[w][a] = missing[w][b] => a = b
      BY <1>1 DEF WorkerInv, Positions
    <3>2. \A j \in 1 .. Len(rest) : rest[j] \in 1 .. i
      BY <1>1, <1>5, <3>1
    <3>3. ASSUME NEW a \in 1 .. Len(rest), NEW b \in 1 .. Len(rest), rest[a] = rest[b]
          PROVE  a = b
      <4>1. CASE a \in 1 .. Len(missing[w]) /\ b \in 1 .. Len(missing[w])
        BY <1>5, <3>1, <3>3, <4>1
      <4>2. CASE a \in 1 .. Len(missing[w]) /\ b = Len(missing[w]) + 1 /\ rest[b] = i
        BY <1>1, <1>5, <3>1, <3>3, <4>2
      <4>3. CASE b \in 1 .. Len(missing[w]) /\ a = Len(missing[w]) + 1 /\ rest[a] = i
        BY <1>1, <1>5, <3>1, <3>3, <4>3
      <4>. QED
        BY <1>5, <4>1, <4>2, <4>3
    <3>. QED
      BY <2>1, <2>2, <3>2, <3>3 DEF Positions
  <2>5. Filled(w)'
    <3>1. SUFFICES ASSUME NEW a \in 1 .. i
                   PROVE  \/ Answers(w, results[w][a], a)'
                          \/ \E j \in 1 .. Len(rest) : 1 <= j /\ rest[j] = a
      BY <2>1, <2>2 DEF Filled
    <3>2. CASE a = i
      <4>1. CASE hit = 0
        BY <1>1, <1>5, <3>2, <4>1
      <4>2. CASE hit # 0
        BY <1>1, <1>2, <1>3, <2>1, <3>2, <4>2 DEF Answers, hit
      <4>. QED
        BY <4>1, <4>2
    <3>3. CASE a \in 1 .. Len(results[w])
      <4>1. results'[w][a] = results[w][a]
        BY <1>3, <2>1, <3>3
      <4>2. CASE Answers(w, results[w][a], a)
        BY <1>2, <4>1, <4>2 DEF Answers
      <4>3. CASE \E j \in 1 .. Len(missing[w]) : cursor[w] <= j /\ missing[w][j] = a
        <5>1. PICK j \in 1 .. Len(missing[w]) : missing[w][j] = a
          BY <4>3
        <5>2. j \in 1 .. Len(rest) /\ 1 <= j /\ rest[j] = a
          BY <1>1, <1>5, <5>1
        <5>. QED
          BY <5>2
      <4>. QED
        BY <3>3, <4>2, <4>3 DEF WorkerInv, Filled
    <3>. QED
      BY <1>1, <3>2, <3>3
  <2>6. SavedBefore(w)'
    BY <1>5, <2>1 DEF SavedBefore
  <2>7. FreshIsChunk(w)'
    BY <2>1 DEF FreshIsChunk
  <2>. QED
    BY <2>3, <2>4, <2>5, <2>6, <2>7 DEF WorkerInv
<1>. QED
  BY <1>6, <1>7, <1>8, <1>9, OthersKeepTheirs

LEMMA GoOnKeeps ==
    ASSUME CacheInv, NEW w \in Workers, NextChunk(w) \/ LoadBackend(w)
    PROVE  CacheInv' /\ Grows
<1>. USE DEF CacheInv
<1>1. /\ \/ pc[w] = "chunk" /\ pc' = [pc EXCEPT ![w] = AfterChunks(w)]
         \/ pc[w] = "load" /\ pc' = [pc EXCEPT ![w] = "generate"]
      /\ UNCHANGED <<db, generated, batch, results, missing, cursor, fresh>>
  BY DEF NextChunk, LoadBackend, pool
<1>2. TypeOK'
  <2>1. CASE NextChunk(w)
    <3>1. AfterChunks(w) \in {"done", "generate", "load"}
      BY DEF AfterChunks
    <3>2. pc' \in [Workers -> Idle \cup {"get", "create", "bind", "lookup", "chunk", "load",
                                        "generate", "save"}]
      BY <2>1, <3>1 DEF NextChunk, TypeOK, Idle
    <3>. QED
      BY <2>1, <3>2 DEF NextChunk, TypeOK, pool
  <2>2. CASE LoadBackend(w)
    <3>1. loaded' \subseteq Nat /\ loads' \in Nat
      <4>1. instance[w] \in Nat /\ loaded \subseteq Nat /\ loads \in Nat
        BY DEF TypeOK
      <4>2. loaded' = loaded \cup {instance[w]} /\ loads' = loads + 1
        BY <2>2 DEF LoadBackend
      <4>3. loaded' \subseteq Nat
        BY <4>1, <4>2, Zenon
      <4>. QED
        BY <4>1, <4>2, <4>3
    <3>2. pc' \in [Workers -> Idle \cup {"get", "create", "bind", "lookup", "chunk", "load",
                                        "generate", "save"}]
      BY <2>2 DEF LoadBackend, TypeOK
    <3>. QED
      BY <2>2, <3>1, <3>2 DEF LoadBackend, TypeOK
  <2>. QED
    BY <2>1, <2>2
<1>3. Grows /\ RowsAreRight'
  BY <1>1, SameTable
<1>4. \A v \in Workers : v # w => Untouched(v)
  BY <1>1 DEF Untouched, TypeOK
<1>5. WorkerInv(w)'
  <2>1. \/ pc'[w] = "done" /\ cursor[w] > Len(missing[w])
        \/ pc'[w] \in {"generate", "load"} /\ cursor[w] <= Len(missing[w])
    BY <1>1, LocalTypes DEF TypeOK, AfterChunks, WorkerInv, Counted
  <2>2. WorkerInv(w) /\ pc[w] \in {"chunk", "load"}
    BY <1>1
  <2>3. \A n, i : Answers(w, n, i)' = Answers(w, n, i)
    BY <1>1 DEF Answers
  <2>. QED
    BY <1>1, <2>1, <2>2, <2>3 DEF WorkerInv, Counted, Positions, Filled, SavedBefore,
                      FreshIsChunk, LookingUp, LookedUp
<1>. QED
  BY <1>2, <1>3, <1>4, <1>5, OthersKeepTheirs

\* Outputs are added at the end.
LEMMA MoreOutputs ==
    ASSUME TypeOK, RowsAreRight, NEW s \in Seq(Keys), generated' = generated \o s, db' = db
    PROVE  /\ Grows /\ RowsAreRight' /\ generated' \in Seq(Keys)
           /\ Len(generated) \in Nat /\ Len(s) \in Nat
           /\ Len(generated') = Len(generated) + Len(s)
           /\ \A j \in 1 .. Len(s) : generated'[Len(generated) + j] = s[j]
<1>1. /\ generated \in Seq(Keys) /\ Len(generated) \in Nat /\ Len(s) \in Nat
  BY LenProperties DEF TypeOK
<1>2. /\ generated' \in Seq(Keys) /\ Len(generated') = Len(generated) + Len(s)
      /\ \A i \in 1 .. Len(generated) + Len(s) :
            generated'[i] = IF i <= Len(generated) THEN generated[i] ELSE s[i - Len(generated)]
  BY <1>1, ConcatProperties
<1>3. \A n \in 1 .. Len(generated) : generated'[n] = generated[n]
  BY <1>1, <1>2
<1>4. \A j \in 1 .. Len(s) : generated'[Len(generated) + j] = s[j]
  BY <1>1, <1>2
<1>5. Grows
  BY <1>1, <1>2, <1>3 DEF Grows
<1>6. RowsAreRight'
  BY <1>1, <1>2, <1>3 DEF RowsAreRight
<1>. QED
  BY <1>1, <1>2, <1>4, <1>5, <1>6

LEMMA GenerateKeeps ==
    ASSUME CacheInv, NEW w \in Workers, Generate(w)
    PROVE  CacheInv' /\ Grows
<1>. USE DEF CacheInv
<1>. DEFINE n == Len(ChunkKeys(w))
            outputs == [j \in 1 .. n |-> Len(generated) + j]
<1>1. /\ pc[w] = "generate" /\ cursor[w] <= Len(missing[w])
      /\ Len(results[w]) = Len(batch[w])
  BY DEF Generate, WorkerInv, Counted, LookedUp
<1>2. /\ ChunkKeys(w) \in Seq(Keys) /\ n = Len(Chunk(w)) /\ n \in Nat
      /\ \A j \in 1 .. n : ChunkKeys(w)[j] = batch[w][missing[w][cursor[w] + j - 1]]
  <2>1. \A j \in 1 .. Len(missing[w]) : missing[w][j] \in 1 .. Len(batch[w])
    BY PositionsInBatch
  <2>2. Len(Chunk(w)) \in Nat
    BY <1>1, ChunkFacts, ChunkAssumption
  <2>. QED
    BY <1>1, <2>1, <2>2, ChunkKeysFacts
<1>3. /\ generated' = generated \o ChunkKeys(w)
      /\ fresh' = [fresh EXCEPT ![w] = outputs]
      /\ pc' = [pc EXCEPT ![w] = "save"]
      /\ UNCHANGED <<threads, db, pooled, created, loaded, loads, batch, instance, results,
                     missing, cursor, known, requests, crashes>>
  BY DEF Generate, pool
<1>4. /\ Grows /\ RowsAreRight' /\ generated' \in Seq(Keys)
      /\ Len(generated) \in Nat
      /\ Len(generated') = Len(generated) + n
      /\ \A j \in 1 .. n : generated'[Len(generated) + j] = ChunkKeys(w)[j]
  BY <1>2, <1>3, MoreOutputs
<1>. HIDE DEF n
<1>5. outputs \in [1 .. n -> Nat \ {0}]
  BY <1>2, <1>4
<1>6. outputs \in Seq(Nat \ {0}) /\ Len(outputs) = n
  <2>1. outputs \in Seq(Nat \ {0})
    BY <1>2, <1>5, SeqDef
  <2>. QED
    BY <1>2, <1>5, <2>1, LenProperties
<1>7. TypeOK'
  <2>1. fresh' \in [Workers -> Seq(Nat \ {0})]
    BY <1>3, <1>6 DEF TypeOK
  <2>2. pc' \in [Workers -> Idle \cup {"get", "create", "bind", "lookup", "chunk", "load",
                                      "generate", "save"}]
    BY <1>3 DEF TypeOK
  <2>. QED
    BY <1>3, <1>4, <2>1, <2>2 DEF TypeOK
<1>8. \A v \in Workers : v # w => Untouched(v)
  BY <1>3 DEF Untouched, TypeOK
<1>9. WorkerInv(w)'
  <2>1. /\ pc'[w] = "save" /\ fresh'[w] = outputs /\ batch'[w] = batch[w]
        /\ results'[w] = results[w] /\ missing'[w] = missing[w] /\ cursor'[w] = cursor[w]
        /\ Chunk(w)' = Chunk(w)
    BY <1>3 DEF TypeOK, Chunk
  <2>2. \A m, i : Answers(w, m, i) => Answers(w, m, i)'
    BY <1>2, <1>4, <2>1 DEF Answers, Grows
  <2>3. Counted(w)'
    BY <1>1, <2>1 DEF WorkerInv, Counted, LookingUp, LookedUp
  <2>4. Positions(w)' /\ Filled(w)'
    BY <2>1, <2>2 DEF WorkerInv, Positions, Filled
  <2>5. SavedBefore(w)'
    BY <1>3, <2>1 DEF WorkerInv, SavedBefore
  <2>6. FreshIsChunk(w)'
    <3>1. \A j \in 1 .. n :
             /\ fresh'[w][j] \in 1 .. Len(generated')
             /\ generated'[fresh'[w][j]] = batch'[w][missing'[w][cursor'[w] + j - 1]]
      BY <1>2, <1>4, <2>1
    <3>2. Len(fresh'[w]) = n /\ Len(Chunk(w)') = n
      BY <1>2, <1>6, <2>1
    <3>. QED
      BY <2>1, <3>1, <3>2 DEF FreshIsChunk, Answers
  <2>. QED
    BY <2>3, <2>4, <2>5, <2>6 DEF WorkerInv
<1>. QED
  BY <1>4, <1>7, <1>8, <1>9, OthersKeepTheirs

\* The rows of a chunk: each holds an output of its request.
LEMMA ChunkRows ==
    ASSUME CacheInv, NEW w \in Workers, pc[w] = "save"
    PROVE  /\ Len(fresh[w]) = Len(Chunk(w)) /\ Len(fresh[w]) \in 1 .. ChunkSize
           /\ \A j \in 1 .. Len(fresh[w]) :
                 /\ cursor[w] + j - 1 \in 1 .. Len(missing[w])
                 /\ Chunk(w)[j] = missing[w][cursor[w] + j - 1]
                 /\ ChunkKeys(w)[j] = batch[w][missing[w][cursor[w] + j - 1]]
                 /\ Row(w, ChunkKeys(w)[j]) # 0
                 /\ fresh[w][j] \in 1 .. Len(generated)
                 /\ generated[fresh[w][j]] = ChunkKeys(w)[j]
           /\ \A k \in Keys :
                 \/ Row(w, k) = db[k] /\ \A j \in 1 .. Len(fresh[w]) : ChunkKeys(w)[j] # k
                 \/ \E j \in 1 .. Len(fresh[w]) :
                       /\ Row(w, k) = fresh[w][j] /\ ChunkKeys(w)[j] = k
                       /\ \A i \in 1 .. Len(fresh[w]) : ChunkKeys(w)[i] = k => i <= j
<1>. USE DEF CacheInv
<1>1. cursor[w] <= Len(missing[w])
  BY DEF WorkerInv, Counted
<1>2. /\ Len(fresh[w]) = Len(Chunk(w)) /\ Len(fresh[w]) \in 1 .. ChunkSize
      /\ Len(fresh[w]) \in Nat
  BY <1>1, ChunkFacts, ChunkAssumption DEF WorkerInv, FreshIsChunk
<1>3. \A j \in 1 .. Len(fresh[w]) :
          /\ cursor[w] + j - 1 \in 1 .. Len(missing[w])
          /\ Chunk(w)[j] = missing[w][cursor[w] + j - 1]
          /\ ChunkKeys(w)[j] = batch[w][missing[w][cursor[w] + j - 1]]
          /\ ChunkKeys(w)[j] \in Keys
  BY <1>1, <1>2, PositionsInBatch, ChunkKeysFacts, ChunkFacts
<1>4. \A j \in 1 .. Len(fresh[w]) :
          fresh[w][j] \in 1 .. Len(generated) /\ generated[fresh[w][j]] = ChunkKeys(w)[j]
  BY <1>3 DEF WorkerInv, FreshIsChunk, Answers
<1>5. ASSUME NEW k \in Keys
      PROVE  \/ Row(w, k) = db[k] /\ \A j \in 1 .. Len(fresh[w]) : ChunkKeys(w)[j] # k
             \/ \E j \in 1 .. Len(fresh[w]) :
                   /\ Row(w, k) = fresh[w][j] /\ ChunkKeys(w)[j] = k
                   /\ \A i \in 1 .. Len(fresh[w]) : ChunkKeys(w)[i] = k => i <= j
  <2>. DEFINE rows == {j \in 1 .. Len(fresh[w]) : ChunkKeys(w)[j] = k}
  <2>1. Row(w, k) = IF rows = {} THEN db[k] ELSE fresh[w][Max(rows)]
    BY DEF Row
  <2>2. CASE rows = {}
    BY <2>1, <2>2
  <2>3. CASE rows # {}
    <3>1. Max(rows) \in rows /\ \A i \in rows : i <= Max(rows)
      BY <1>2, <2>3, Greatest
    <3>. QED
      BY <2>1, <2>3, <3>1
  <2>. QED
    BY <2>2, <2>3
<1>6. \A j \in 1 .. Len(fresh[w]) : Row(w, ChunkKeys(w)[j]) # 0
  BY <1>3, <1>4, <1>5, LocalTypes
<1>. QED
  BY <1>2, <1>3, <1>4, <1>5, <1>6

LEMMA SaveKeeps ==
    ASSUME CacheInv, NEW w \in Workers, Save(w)
    PROVE  CacheInv' /\ Grows
<1>. USE DEF CacheInv
<1>. DEFINE n == Len(fresh[w])
            filled == [i \in 1 .. Len(results[w]) |->
                          IF \E j \in 1 .. n : Chunk(w)[j] = i
                             THEN fresh[w][CHOOSE j \in 1 .. n : Chunk(w)[j] = i]
                             ELSE results[w][i]]
<1>1. /\ pc[w] = "save" /\ cursor[w] <= Len(missing[w])
      /\ Len(results[w]) = Len(batch[w])
  BY DEF Save, WorkerInv, Counted, LookedUp
<1>2. /\ db' = [k \in Keys |-> Row(w, k)]
      /\ results' = [results EXCEPT ![w] = filled]
      /\ cursor' = [cursor EXCEPT ![w] = cursor[w] + ChunkSize]
      /\ fresh' = [fresh EXCEPT ![w] = << >>]
      /\ pc' = [pc EXCEPT ![w] = "chunk"]
      /\ UNCHANGED <<threads, generated, pooled, created, loaded, loads, batch, instance, missing,
                     known, requests, crashes>>
  BY DEF Save, Committed, pool
<1>3. /\ Len(generated) \in Nat /\ n \in Nat /\ Len(results[w]) \in Nat
      /\ \A j \in 1 .. n : fresh[w][j] \in Nat \ {0}
      /\ \A i \in 1 .. Len(results[w]) : results[w][i] \in Nat
  BY LocalTypes, LenProperties, ElementOfSeq DEF TypeOK
<1>4. /\ Grows /\ RowsAreRight' /\ db' \in [Keys -> Nat]
  <2>1. \A k \in Keys : /\ Row(w, k) \in 0 .. Len(generated)
                        /\ Row(w, k) # 0 => generated[Row(w, k)] = k
                        /\ db[k] # 0 => Row(w, k) # 0
    <3>1. SUFFICES ASSUME NEW k \in Keys
                   PROVE  /\ Row(w, k) \in 0 .. Len(generated)
                          /\ Row(w, k) # 0 => generated[Row(w, k)] = k
                          /\ db[k] # 0 => Row(w, k) # 0
      OBVIOUS
    <3>2. CASE Row(w, k) = db[k]
      BY <3>2 DEF RowsAreRight
    <3>3. CASE \E j \in 1 .. n : Row(w, k) = fresh[w][j] /\ ChunkKeys(w)[j] = k
      BY <1>1, <1>3, <3>3, ChunkRows
    <3>. QED
      BY <1>1, <3>2, <3>3, ChunkRows
  <2>. QED
    BY <1>2, <1>3, <2>1 DEF Grows, RowsAreRight
<1>. HIDE DEF n
<1>5. \A i \in 1 .. Len(results[w]) :
         \/ \E j \in 1 .. n : Chunk(w)[j] = i /\ filled[i] = fresh[w][j]
         \/ (\A j \in 1 .. n : Chunk(w)[j] # i) /\ filled[i] = results[w][i]
  OBVIOUS
<1>6. filled \in Seq(Nat) /\ Len(filled) = Len(results[w])
  <2>1. filled \in [1 .. Len(results[w]) -> Nat]
    <3>1. \A i \in 1 .. Len(results[w]) : filled[i] \in Nat
      BY <1>3, <1>5
    <3>. QED
      BY <3>1
  <2>. HIDE DEF filled
  <2>2. filled \in Seq(Nat)
    BY <1>3, <2>1, SeqDef
  <2>. QED
    BY <1>3, <2>1, <2>2, LenProperties
<1>. HIDE DEF filled
<1>7. TypeOK'
  <2>1. /\ results' \in [Workers -> Seq(Nat)] /\ fresh' \in [Workers -> Seq(Nat \ {0})]
    BY <1>2, <1>6, EmptySeq DEF TypeOK
  <2>2. pc' \in [Workers -> Idle \cup {"get", "create", "bind", "lookup", "chunk", "load",
                                      "generate", "save"}]
    BY <1>2 DEF TypeOK
  <2>3. cursor' \in [Workers -> Nat \ {0}]
    BY <1>2, LocalTypes DEF TypeOK
  <2>. QED
    BY <1>2, <1>4, <2>1, <2>2, <2>3 DEF TypeOK
<1>8. \A v \in Workers : v # w => Untouched(v)
  BY <1>2 DEF Untouched, TypeOK
<1>9. WorkerInv(w)'
  <2>1. /\ pc'[w] = "chunk" /\ fresh'[w] = << >> /\ batch'[w] = batch[w]
        /\ results'[w] = filled /\ missing'[w] = missing[w]
        /\ cursor'[w] = cursor[w] + ChunkSize
    BY <1>2 DEF TypeOK
  <2>2. \A m, i : Answers(w, m, i)' = Answers(w, m, i)
    BY <1>2, <2>1 DEF Answers
  <2>3. Counted(w)'
    BY <1>1, <1>6, <2>1 DEF WorkerInv, Counted, LookingUp, LookedUp
  <2>4. Positions(w)'
    BY <1>6, <2>1 DEF WorkerInv, Positions
  <2>5. \A j \in 1 .. Len(missing[w]) :
           \/ j < cursor[w]
           \/ \E i \in 1 .. n : j = cursor[w] + i - 1
           \/ cursor[w] + ChunkSize <= j
    <3>1. /\ cursor[w] \in Nat \ {0} /\ Len(missing[w]) \in Nat /\ ChunkSize \in Nat \ {0}
          /\ n \in 1 .. ChunkSize /\ cursor[w] + n - 1 <= Len(missing[w])
          /\ n = ChunkSize \/ cursor[w] + n - 1 = Len(missing[w])
      BY <1>1, ChunkFacts, ChunkRows, LocalTypes DEF n
    <3>2. ASSUME NEW j \in 1 .. Len(missing[w]), ~(j < cursor[w]), ~(cursor[w] + ChunkSize <= j)
          PROVE  \E i \in 1 .. n : j = cursor[w] + i - 1
      <4>1. j - cursor[w] + 1 \in 1 .. n /\ j = cursor[w] + (j - cursor[w] + 1) - 1
        BY <3>1, <3>2
      <4>. QED
        BY <4>1
    <3>. QED
      BY <3>2
  <2>6. \A i \in 1 .. n :
           /\ Chunk(w)[i] = missing[w][cursor[w] + i - 1]
           /\ Answers(w, fresh[w][i], missing[w][cursor[w] + i - 1])
    BY <1>1, ChunkRows DEF n, Answers
  <2>7. Filled(w)'
    <3>1. SUFFICES ASSUME NEW i \in 1 .. Len(results[w])
                   PROVE  \/ Answers(w, filled[i], i)
                          \/ \E j \in 1 .. Len(missing[w]) :
                                cursor[w] + ChunkSize <= j /\ missing[w][j] = i
      BY <1>6, <2>1, <2>2 DEF Filled
    <3>2. CASE \E j \in 1 .. n : Chunk(w)[j] = i /\ filled[i] = fresh[w][j]
      BY <2>6, <3>2
    <3>3. CASE (\A j \in 1 .. n : Chunk(w)[j] # i) /\ filled[i] = results[w][i]
      <4>1. CASE Answers(w, results[w][i], i)
        BY <3>3, <4>1
      <4>2. CASE \E j \in 1 .. Len(missing[w]) : cursor[w] <= j /\ missing[w][j] = i
        <5>1. PICK j \in 1 .. Len(missing[w]) : cursor[w] <= j /\ missing[w][j] = i
          BY <4>2
        <5>2. ~(j < cursor[w])
          BY <5>1, LocalTypes
        <5>. QED
          BY <2>5, <2>6, <3>3, <5>1, <5>2
      <4>. QED
        BY <4>1, <4>2 DEF WorkerInv, Filled
    <3>. QED
      BY <1>5, <3>2, <3>3
  <2>8. SavedBefore(w)'
    <3>1. SUFFICES ASSUME NEW j \in 1 .. Len(missing[w]), j < cursor[w] + ChunkSize
                   PROVE  db'[batch[w][missing[w][j]]] # 0
      BY <2>1 DEF SavedBefore
    <3>2. batch[w][missing[w][j]] \in Keys
      BY PositionsInBatch
    <3>3. CASE j < cursor[w]
      BY <1>4, <3>2, <3>3 DEF WorkerInv, SavedBefore, Grows
    <3>4. CASE \E i \in 1 .. n : j = cursor[w] + i - 1
      BY <1>1, <1>2, <3>2, <3>4, ChunkRows DEF n
    <3>5. ~(cursor[w] + ChunkSize <= j)
      BY <3>1, LocalTypes
    <3>. QED
      BY <2>5, <3>3, <3>4, <3>5
  <2>9. FreshIsChunk(w)'
    BY <2>1 DEF FreshIsChunk
  <2>. QED
    BY <2>3, <2>4, <2>7, <2>8, <2>9 DEF WorkerInv
<1>. QED
  BY <1>4, <1>7, <1>8, <1>9, OthersKeepTheirs

\* What was generated when a worker fails: requests of its chunk.
LEMMA FailedOutputs ==
    ASSUME CacheInv, NEW w \in Workers, Fail(w)
    PROVE  \E n \in 0 .. Len(ChunkKeys(w)) :
              /\ n <= Len(Chunk(w))
              /\ generated' = generated \o SubSeq(ChunkKeys(w), 1, n)
              /\ SubSeq(ChunkKeys(w), 1, n) \in Seq(Keys)
              /\ Len(SubSeq(ChunkKeys(w), 1, n)) = n
              /\ \A j \in 1 .. n : SubSeq(ChunkKeys(w), 1, n)[j] = ChunkKeys(w)[j]
<1>. USE DEF CacheInv
<1>1. pc[w] \in {"load", "generate", "save"} /\ cursor[w] <= Len(missing[w])
  BY DEF Fail, WorkerInv, Counted
<1>2. /\ ChunkKeys(w) \in Seq(Keys) /\ Len(ChunkKeys(w)) \in Nat \ {0}
      /\ Len(ChunkKeys(w)) = Len(Chunk(w))
      /\ \A j \in 1 .. Len(ChunkKeys(w)) : ChunkKeys(w)[j] \in Keys
  BY <1>1, PositionsInBatch, ChunkKeysFacts, ChunkFacts, ChunkAssumption
<1>3. PICK n \in 0 .. (IF pc[w] = "generate" THEN Len(ChunkKeys(w)) - 1 ELSE 0) :
          generated' = generated \o SubSeq(ChunkKeys(w), 1, n)
  BY DEF Fail
<1>4. n \in 0 .. Len(ChunkKeys(w)) /\ n \in Int /\ 1 \in Int
  BY <1>2, <1>3
<1>5. \A j \in 1 .. n : ChunkKeys(w)[j] \in Keys
  BY <1>2, <1>4
<1>6. /\ SubSeq(ChunkKeys(w), 1, n) \in Seq(Keys)
      /\ Len(SubSeq(ChunkKeys(w), 1, n)) = IF 1 <= n THEN n - 1 + 1 ELSE 0
      /\ \A j \in 1 .. n - 1 + 1 : SubSeq(ChunkKeys(w), 1, n)[j] = ChunkKeys(w)[1 + j - 1]
  BY <1>4, <1>5, SubSeqProperties
<1>7. /\ Len(SubSeq(ChunkKeys(w), 1, n)) = n
      /\ \A j \in 1 .. n : SubSeq(ChunkKeys(w), 1, n)[j] = ChunkKeys(w)[j]
  <2>1. n - 1 + 1 = n /\ (~(1 <= n) => n = 0) /\ \A j \in 1 .. n : 1 + j - 1 = j
    BY <1>2, <1>4
  <2>2. Len(SubSeq(ChunkKeys(w), 1, n)) = n
    BY <1>6, <2>1
  <2>3. \A j \in 1 .. n : SubSeq(ChunkKeys(w), 1, n)[j] = ChunkKeys(w)[j]
    BY <1>6, <2>1
  <2>. QED
    BY <2>2, <2>3
<1>8. n \in 0 .. Len(ChunkKeys(w)) /\ n <= Len(Chunk(w))
  BY <1>2, <1>4
<1>. WITNESS n \in 0 .. Len(ChunkKeys(w))
<1>. QED
  BY <1>3, <1>6, <1>7, <1>8

LEMMA FailKeeps ==
    ASSUME CacheInv, NEW w \in Workers, Fail(w)
    PROVE  CacheInv' /\ Grows
<1>. USE DEF CacheInv
<1>1. PICK n \in 0 .. Len(ChunkKeys(w)) :
              /\ generated' = generated \o SubSeq(ChunkKeys(w), 1, n)
              /\ SubSeq(ChunkKeys(w), 1, n) \in Seq(Keys)
  BY FailedOutputs
<1>2. /\ pc[w] \in {"load", "generate", "save"}
      /\ fresh' = [fresh EXCEPT ![w] = << >>]
      /\ pc' = [pc EXCEPT ![w] = "failed"]
      /\ UNCHANGED <<threads, db, pooled, created, loaded, loads, batch, instance, results,
                     missing, cursor, known, requests, crashes>>
  BY DEF Fail, pool
<1>3. /\ Grows /\ RowsAreRight' /\ generated' \in Seq(Keys)
  BY <1>1, <1>2, MoreOutputs
<1>4. TypeOK'
  <2>1. fresh' \in [Workers -> Seq(Nat \ {0})]
    BY <1>2, EmptySeq DEF TypeOK
  <2>2. pc' \in [Workers -> Idle \cup {"get", "create", "bind", "lookup", "chunk", "load",
                                      "generate", "save"}]
    BY <1>2 DEF TypeOK, Idle
  <2>. QED
    BY <1>2, <1>3, <2>1, <2>2 DEF TypeOK
<1>5. \A v \in Workers : v # w => Untouched(v)
  BY <1>2 DEF Untouched, TypeOK
<1>6. WorkerInv(w)'
  <2>1. /\ pc'[w] = "failed" /\ fresh'[w] = << >> /\ batch'[w] = batch[w]
        /\ results'[w] = results[w] /\ missing'[w] = missing[w] /\ cursor'[w] = cursor[w]
    BY <1>2 DEF TypeOK
  <2>2. \A m, i : Answers(w, m, i) => Answers(w, m, i)'
    <3>1. Len(generated) \in Nat /\ Len(generated') \in Nat
      BY <1>3, LenProperties DEF TypeOK
    <3>. QED
      BY <1>3, <2>1, <3>1 DEF Answers, Grows
  <2>3. Counted(w)'
    BY <2>1 DEF WorkerInv, Counted, LookingUp, LookedUp
  <2>4. Positions(w)' /\ Filled(w)'
    BY <2>1, <2>2 DEF WorkerInv, Positions, Filled
  <2>5. SavedBefore(w)' /\ FreshIsChunk(w)'
    BY <1>2, <2>1 DEF WorkerInv, SavedBefore, FreshIsChunk
  <2>. QED
    BY <2>3, <2>4, <2>5 DEF WorkerInv
<1>. QED
  BY <1>3, <1>4, <1>5, <1>6, OthersKeepTheirs

LEMMA CrashKeeps == CacheInv /\ Crash => CacheInv' /\ Grows
<1>. SUFFICES ASSUME CacheInv, Crash
              PROVE  CacheInv' /\ Grows
  OBVIOUS
<1>. USE DEF CacheInv
<1>1. /\ << >> \in Seq(Nat) /\ << >> \in Seq(Nat \ {0}) /\ Len(<< >>) = 0
  BY EmptySeq
<1>2. TypeOK'
  BY <1>1 DEF Crash, TypeOK, Idle
<1>3. RowsAreRight' /\ Grows
  BY SameTable DEF Crash
<1>4. ASSUME NEW w \in Workers
      PROVE  WorkerInv(w)'
  <2>1. /\ pc'[w] = "idle" /\ batch'[w] = << >> /\ results'[w] = << >> /\ missing'[w] = << >>
        /\ cursor'[w] = 1 /\ fresh'[w] = << >>
    BY DEF Crash
  <2>. QED
    BY <1>1, <2>1 DEF WorkerInv, Counted, Positions, Filled, SavedBefore, FreshIsChunk,
                      LookingUp, LookedUp
<1>. QED
  BY <1>2, <1>3, <1>4

LEMMA NextCache == CacheInv /\ [Next]_vars => CacheInv' /\ Grows
<1>. SUFFICES ASSUME CacheInv, [Next]_vars
              PROVE  CacheInv' /\ Grows
  OBVIOUS
<1>1. CASE \E w \in threads : Ask(w) \/ Step(w) \/ Fail(w)
  <2>1. PICK w \in Workers : Ask(w) \/ Step(w) \/ Fail(w)
    BY <1>1 DEF CacheInv, TypeOK
  <2>. QED
    BY <2>1, AskKeeps, FindKeeps, LookupKeeps, GoOnKeeps, GenerateKeeps, SaveKeeps, FailKeeps
       DEF Step
<1>2. CASE Crash
  BY <1>2, CrashKeeps
<1>3. CASE UNCHANGED vars
  <2>1. TypeOK' /\ RowsAreRight'
    BY <1>3 DEF CacheInv, TypeOK, RowsAreRight, vars, pool, locals
  <2>2. \A w \in Workers : Untouched(w)
    BY <1>3 DEF Untouched, vars, locals
  <2>3. Grows
    BY <1>3, SameTable DEF CacheInv, vars
  <2>. QED
    BY <2>1, <2>2, <2>3, OthersKeepTheirs DEF CacheInv
<1>. QED
  BY <1>1, <1>2, <1>3 DEF Next

LEMMA CacheInvariant == Spec => []CacheInv
<1>1. CacheInv /\ [Next]_vars => CacheInv'
  BY NextCache
<1>. QED
  BY InitCache, <1>1, PTL DEF Spec

\* The cache, the pool and the workers hold what the code puts there.
THEOREM TypeCorrect == Spec => []TypeOK
<1>1. CacheInv => TypeOK
  BY DEF CacheInv
<1>. QED
  BY <1>1, CacheInvariant, PTL

\* generate_batch returns one output per request, each generated for the request at its place.
THEOREM OwnAnswers == Spec => []AnswersTheRequest
<1>1. CacheInv => AnswersTheRequest
  <2>1. SUFFICES ASSUME CacheInv, NEW w \in Workers, pc[w] = "done"
                 PROVE  /\ Len(results[w]) = Len(batch[w])
                        /\ \A i \in 1 .. Len(batch[w]) :
                              results[w][i] \in Outputs /\ generated[results[w][i]] = batch[w][i]
    BY DEF AnswersTheRequest
  <2>2. /\ Len(results[w]) = Len(batch[w]) /\ cursor[w] > Len(missing[w])
        /\ Len(missing[w]) \in Nat /\ cursor[w] \in Nat
    BY <2>1, LocalTypes DEF CacheInv, WorkerInv, Counted, LookedUp
  <2>3. \A i \in 1 .. Len(results[w]) : Answers(w, results[w][i], i)
    <3>1. \A j \in 1 .. Len(missing[w]) : ~(cursor[w] <= j)
      BY <2>2
    <3>. QED
      BY <2>1, <3>1 DEF CacheInv, WorkerInv, Filled
  <2>4. Outputs = 1 .. Len(generated)
    BY LenProperties DEF CacheInv, TypeOK, Outputs
  <2>. QED
    BY <2>2, <2>3, <2>4 DEF Answers
<1>. QED
  BY <1>1, CacheInvariant, PTL

\* A crash or a failure costs a worker the chunk it is at.
THEOREM OneChunkIsLost == Spec => []InterruptionCostsOneChunk
<1>1. CacheInv => InterruptionCostsOneChunk
  <2>1. SUFFICES ASSUME CacheInv, NEW w \in Workers
                 PROVE  Len(fresh[w]) <= ChunkSize
    BY DEF InterruptionCostsOneChunk, CacheInv, WorkerInv, SavedBefore
  <2>2. CASE pc[w] = "save"
    <3>1. Len(fresh[w]) \in 1 .. ChunkSize
      BY <2>1, <2>2, ChunkRows
    <3>. QED
      BY <3>1, ChunkAssumption
  <2>3. CASE pc[w] # "save"
    <3>1. fresh[w] = << >>
      BY <2>1, <2>3 DEF CacheInv, WorkerInv, FreshIsChunk
    <3>2. Len(<< >>) = 0
      BY EmptySeq
    <3>. QED
      BY <3>1, <3>2, ChunkAssumption
  <2>. QED
    BY <2>2, <2>3
<1>. QED
  BY <1>1, CacheInvariant, PTL

-----------------------------------------------------------------------------
(* What is not generated again. *)

\* What was saved when the batch was asked for still is, and is not missing.
KnownInv(w) ==
    /\ \A k \in known[w] : db[k] # 0
    /\ \A j \in 1 .. Len(missing[w]) : batch[w][missing[w][j]] \notin known[w]

\* No output of a saved request was made after the saved one, if no batch repeats it.
OnceSaved ==
    \A n \in 1 .. Len(generated) :
        generated[n] \in Unrepeated /\ db[generated[n]] # 0 => n <= db[generated[n]]

\* What the only thread is still to generate was not saved by anybody else.
Unsaved(w) ==
    \A j \in 1 .. Len(missing[w]) :
        cursor[w] <= j /\ batch[w][missing[w][j]] \in Unrepeated
            => db[batch[w][missing[w][j]]] = 0

\* The outputs it has at hand are the latest ones.
Latest(w) ==
    pc[w] = "save" =>
        \A j \in 1 .. Len(fresh[w]) : fresh[w][j] = Len(generated) - Len(fresh[w]) + j

\* There is one CachedLLM, and it loads its backend once.
OneLoad(w) ==
    /\ pc[w] = "create" => pooled = 0
    /\ pc[w] = "bind" => pooled # 0
    /\ pc[w] \in {"lookup", "chunk", "load", "generate", "save"} =>
          instance[w] = pooled /\ pooled # 0
    /\ pc[w] = "load" => loads = 0
    /\ \/ loads = 0 /\ loaded = {}
       \/ loads = 1 /\ loaded = {pooled} /\ pooled # 0

Alone(w) == OnceSaved /\ Unsaved(w) /\ Latest(w) /\ OneLoad(w)

ReplayInv ==
    /\ CacheInv
    /\ \A w \in Workers : KnownInv(w)
    /\ \A w \in Workers : threads = {w} => Alone(w)

LEMMA OnePosition ==
    ASSUME NEW b \in Batches, NEW k \in Unrepeated, NEW i \in 1 .. Len(b), NEW j \in 1 .. Len(b),
           b[i] = k, b[j] = k
    PROVE  i = j
<1>. DEFINE S == {x \in DOMAIN b : b[x] = k}
<1>1. b \in Seq(Keys) /\ DOMAIN b = 1 .. Len(b) /\ Len(b) \in Nat
  BY BatchAssumption, LenProperties
<1>2. IsFiniteSet(1 .. Len(b))
  BY <1>1, FS_Interval
<1>3. IsFiniteSet(S) /\ S \subseteq 1 .. Len(b)
  BY <1>1, <1>2, FS_Subset
<1>4. Cardinality(S) <= 1 /\ Cardinality(S) \in Nat
  BY <1>3, FS_CardinalityType DEF Unrepeated
<1>5. i \in S /\ j \in S
  BY <1>1
<1>. HIDE DEF S
<1>6. SUFFICES ASSUME i # j
               PROVE  FALSE
  OBVIOUS
<1>7. /\ IsFiniteSet({i}) /\ Cardinality({i}) = 1
  BY FS_Singleton
<1>8. Cardinality({i} \cup {j}) = 1 + 1
  <2>1. j \notin {i}
    BY <1>6
  <2>2. Cardinality({i} \cup {j}) = IF j \in {i} THEN Cardinality({i}) ELSE Cardinality({i}) + 1
    BY <1>7, FS_AddElement, Zenon
  <2>. QED
    BY <1>7, <2>1, <2>2
<1>9. {i} \cup {j} \in SUBSET S
  BY <1>5
<1>10. Cardinality({i} \cup {j}) <= Cardinality(S)
  BY <1>3, <1>9, FS_Subset
<1>11. 1 + 1 <= Cardinality(S)
  BY <1>8, <1>10, Zenon
<1>. QED
  BY <1>4, <1>11

\* A lookup leaves what was missing and adds what is not in the table.
LEMMA MissingAfterLookup ==
    ASSUME CacheInv, NEW w \in Workers, Lookup(w)
    PROVE  /\ UNCHANGED <<db, generated, batch, cursor, known>>
           /\ \A j \in 1 .. Len(missing'[w]) :
                 \/ j \in 1 .. Len(missing[w]) /\ missing'[w][j] = missing[w][j]
                 \/ db[batch[w][missing'[w][j]]] = 0
<1>. DEFINE i == Len(results[w]) + 1
<1>1. /\ i \in Nat \ {0} /\ missing[w] \in Seq(Nat \ {0}) /\ Len(missing[w]) \in Nat
  BY LocalTypes DEF CacheInv
<1>2. missing'[w] = IF db[batch[w][i]] = 0 THEN Append(missing[w], i) ELSE missing[w]
  BY DEF Lookup, Cached, CacheInv, TypeOK
<1>3. UNCHANGED <<db, generated, batch, cursor, known>>
  BY DEF Lookup
<1>. HIDE DEF i
<1>4. /\ Len(Append(missing[w], i)) = Len(missing[w]) + 1
      /\ \A j \in 1 .. Len(missing[w]) : Append(missing[w], i)[j] = missing[w][j]
      /\ Append(missing[w], i)[Len(missing[w]) + 1] = i
  BY <1>1, AppendProperties
<1>5. CASE db[batch[w][i]] = 0
  <2>1. missing'[w] = Append(missing[w], i)
    BY <1>2, <1>5
  <2>2. \A j \in 1 .. Len(missing[w]) + 1 : j \in 1 .. Len(missing[w]) \/ j = Len(missing[w]) + 1
    BY <1>1
  <2>. QED
    BY <1>3, <1>4, <1>5, <2>1, <2>2
<1>6. CASE db[batch[w][i]] # 0
  BY <1>2, <1>3, <1>6
<1>. QED
  BY <1>5, <1>6

\* Every action but Ask, Lookup and Crash leaves what workers look for alone.
LEMMA NextKnown ==
    ASSUME CacheInv, \A w \in Workers : KnownInv(w), [Next]_vars
    PROVE  \A w \in Workers : KnownInv(w)'
<1>. SUFFICES ASSUME NEW v \in Workers
              PROVE  KnownInv(v)'
  OBVIOUS
<1>1. Grows /\ known[v] \subseteq Keys
  BY NextCache DEF CacheInv, TypeOK
<1>2. CASE known'[v] = known[v] /\ missing'[v] = missing[v] /\ batch'[v] = batch[v]
  BY <1>1, <1>2 DEF KnownInv, Grows
<1>3. ASSUME NEW w \in Workers, Ask(w)
      PROVE  KnownInv(v)'
  <2>1. CASE v = w
    <3>1. missing'[v] = << >> /\ known'[v] = {k \in Keys : db[k] # 0} /\ db' = db
      BY <1>3, <2>1 DEF Ask, CacheInv, TypeOK
    <3>2. Len(<< >>) = 0
      BY EmptySeq
    <3>. QED
      BY <3>1, <3>2 DEF KnownInv
  <2>2. CASE v # w
    BY <1>2, <1>3, <2>2 DEF Ask, CacheInv, TypeOK
  <2>. QED
    BY <2>1, <2>2
<1>4. ASSUME NEW w \in Workers, Lookup(w)
      PROVE  KnownInv(v)'
  <2>1. CASE v = w
    <3>1. \A j \in 1 .. Len(missing[v]) : batch[v][missing[v][j]] \notin known[v]
      BY DEF KnownInv
    <3>. QED
      BY <1>4, <2>1, <3>1, MissingAfterLookup DEF KnownInv
  <2>2. CASE v # w
    BY <1>2, <1>4, <2>2 DEF Lookup, CacheInv, TypeOK
  <2>. QED
    BY <2>1, <2>2
<1>5. ASSUME NEW w \in Workers, \/ FindModel(w) \/ CreateModel(w) \/ BindModel(w) \/ NextChunk(w)
                                \/ LoadBackend(w) \/ Generate(w) \/ Save(w) \/ Fail(w)
      PROVE  KnownInv(v)'
  BY <1>2, <1>5 DEF FindModel, CreateModel, BindModel, NextChunk, LoadBackend, Generate, Save, Fail
<1>6. CASE Crash
  <2>1. missing'[v] = << >> /\ known'[v] = {}
    BY <1>6 DEF Crash
  <2>2. Len(<< >>) = 0
    BY EmptySeq
  <2>. QED
    BY <2>1, <2>2 DEF KnownInv
<1>7. CASE UNCHANGED vars
  BY <1>2, <1>7 DEF vars, locals
<1>8. CASE \E w \in threads : Ask(w) \/ Step(w) \/ Fail(w)
  <2>1. PICK w \in Workers : Ask(w) \/ Step(w) \/ Fail(w)
    BY <1>8 DEF CacheInv, TypeOK
  <2>. QED
    BY <2>1, <1>3, <1>4, <1>5 DEF Step
<1>. QED
  BY <1>6, <1>7, <1>8 DEF Next

\* Requests of a chunk are generated while, if no batch repeats them, nobody saved them.
LEMMA ChunkIsUnsaved ==
    ASSUME CacheInv, NEW w \in Workers, Unsaved(w), OnceSaved, cursor[w] <= Len(missing[w]),
           NEW s \in Seq(Keys), Len(s) <= Len(Chunk(w)),
           \A j \in 1 .. Len(s) : s[j] = ChunkKeys(w)[j],
           generated' = generated \o s, db' = db
    PROVE  OnceSaved'
<1>1. /\ Len(generated) \in Nat /\ Len(s) \in Nat
      /\ Len(generated') = Len(generated) + Len(s)
      /\ \A j \in 1 .. Len(s) : generated'[Len(generated) + j] = s[j]
      /\ \A n \in 1 .. Len(generated) : generated'[n] = generated[n]
  BY MoreOutputs DEF CacheInv, Grows
<1>2. \A j \in 1 .. Len(missing[w]) : missing[w][j] \in 1 .. Len(batch[w])
  BY PositionsInBatch DEF CacheInv
<1>3. Len(Chunk(w)) \in Nat /\ cursor[w] \in Nat
  BY ChunkFacts, ChunkAssumption, LocalTypes DEF CacheInv
<1>4. \A j \in 1 .. Len(s) :
         /\ cursor[w] + j - 1 \in 1 .. Len(missing[w]) /\ cursor[w] <= cursor[w] + j - 1
         /\ s[j] = batch[w][missing[w][cursor[w] + j - 1]]
  <2>1. \A j \in 1 .. Len(s) : j \in 1 .. Len(Chunk(w)) /\ cursor[w] <= cursor[w] + j - 1
    BY <1>1, <1>3
  <2>2. \A j \in 1 .. Len(Chunk(w)) :
           /\ cursor[w] + j - 1 \in 1 .. Len(missing[w])
           /\ ChunkKeys(w)[j] = batch[w][missing[w][cursor[w] + j - 1]]
    BY <1>2, ChunkKeysFacts DEF CacheInv
  <2>3. ASSUME NEW j \in 1 .. Len(s)
        PROVE  /\ cursor[w] + j - 1 \in 1 .. Len(missing[w])
               /\ cursor[w] <= cursor[w] + j - 1
               /\ s[j] = batch[w][missing[w][cursor[w] + j - 1]]
    <3>1. j \in 1 .. Len(Chunk(w)) /\ cursor[w] <= cursor[w] + j - 1
      BY <2>1
    <3>2. s[j] = ChunkKeys(w)[j]
      OBVIOUS
    <3>. QED
      BY <2>2, <3>1, <3>2
  <2>. QED
    BY <2>3
<1>5. ASSUME NEW j \in 1 .. Len(s), s[j] \in Unrepeated
      PROVE  db[s[j]] = 0
  <2>. DEFINE at == cursor[w] + j - 1
  <2>1. /\ at \in 1 .. Len(missing[w]) /\ cursor[w] <= at
        /\ s[j] = batch[w][missing[w][at]]
    BY <1>4
  <2>. HIDE DEF at
  <2>. QED
    BY <1>5, <2>1 DEF Unsaved
<1>6. SUFFICES ASSUME NEW n \in 1 .. Len(generated'), generated'[n] \in Unrepeated,
                      db[generated'[n]] # 0
               PROVE  n <= db[generated'[n]]
  BY DEF OnceSaved, Unrepeated
<1>7. CASE n \in 1 .. Len(generated)
  BY <1>1, <1>6, <1>7 DEF OnceSaved
<1>8. CASE n \notin 1 .. Len(generated)
  <2>1. n - Len(generated) \in 1 .. Len(s) /\ n = Len(generated) + (n - Len(generated))
    BY <1>1, <1>8
  <2>2. generated'[n] = s[n - Len(generated)]
    BY <1>1, <2>1
  <2>. QED
    BY <1>5, <1>6, <2>1, <2>2
<1>. QED
  BY <1>7, <1>8

LEMMA SaveAlone ==
    ASSUME CacheInv, NEW w \in Workers, Unsaved(w), OnceSaved, Latest(w), Save(w)
    PROVE  OnceSaved' /\ Unsaved(w)' /\ Latest(w)'
<1>. DEFINE n == Len(fresh[w])
            base == Len(generated) - n
<1>1. /\ pc[w] = "save" /\ cursor[w] <= Len(missing[w])
      /\ db' = [k \in Keys |-> Row(w, k)] /\ generated' = generated
      /\ batch'[w] = batch[w] /\ missing'[w] = missing[w] /\ pc'[w] = "chunk"
      /\ cursor'[w] = cursor[w] + ChunkSize
  BY DEF Save, Committed, CacheInv, TypeOK, WorkerInv, Counted
<1>2. /\ n \in 1 .. ChunkSize /\ n \in Nat /\ Len(generated) \in Nat /\ ChunkSize \in Nat
      /\ cursor[w] \in Nat
      /\ \A j \in 1 .. n :
            /\ cursor[w] + j - 1 \in 1 .. Len(missing[w])
            /\ ChunkKeys(w)[j] = batch[w][missing[w][cursor[w] + j - 1]]
            /\ fresh[w][j] = base + j /\ generated[base + j] = ChunkKeys(w)[j]
      /\ \A k \in Keys :
            \/ Row(w, k) = db[k]
            \/ \E j \in 1 .. n :
                  /\ Row(w, k) = base + j /\ ChunkKeys(w)[j] = k
                  /\ \A i \in 1 .. n : ChunkKeys(w)[i] = k => i <= j
  <2>1. /\ n \in 1 .. ChunkSize /\ n \in Nat /\ Len(generated) \in Nat /\ ChunkSize \in Nat
        /\ cursor[w] \in Nat
    BY <1>1, ChunkRows, ChunkAssumption, LocalTypes, LenProperties DEF CacheInv, TypeOK
  <2>2. \A j \in 1 .. n : fresh[w][j] = base + j
    BY <1>1 DEF Latest
  <2>3. \A j \in 1 .. n :
            /\ cursor[w] + j - 1 \in 1 .. Len(missing[w])
            /\ ChunkKeys(w)[j] = batch[w][missing[w][cursor[w] + j - 1]]
            /\ generated[fresh[w][j]] = ChunkKeys(w)[j]
    BY <1>1, ChunkRows
  <2>4. \A k \in Keys :
            \/ Row(w, k) = db[k]
            \/ \E j \in 1 .. n :
                  /\ Row(w, k) = fresh[w][j] /\ ChunkKeys(w)[j] = k
                  /\ \A i \in 1 .. n : ChunkKeys(w)[i] = k => i <= j
    BY <1>1, ChunkRows
  <2>. HIDE DEF n, base
  <2>. QED
    BY <2>1, <2>2, <2>3, <2>4
<1>3. \A m \in 1 .. Len(generated) : generated[m] \in Keys
  BY ElementOfSeq DEF CacheInv, TypeOK
<1>. HIDE DEF n
<1>4. OnceSaved'
  <2>1. SUFFICES ASSUME NEW m \in 1 .. Len(generated), generated[m] \in Unrepeated,
                        db'[generated[m]] # 0
                 PROVE  m <= db'[generated[m]]
    BY <1>1 DEF OnceSaved, Unrepeated
  <2>2. db'[generated[m]] = Row(w, generated[m])
    BY <1>1, <1>3
  <2>3. CASE Row(w, generated[m]) = db[generated[m]]
    BY <2>1, <2>2, <2>3 DEF OnceSaved
  <2>4. CASE \E j \in 1 .. n :
                /\ Row(w, generated[m]) = base + j
                /\ \A i \in 1 .. n : ChunkKeys(w)[i] = generated[m] => i <= j
    <3>1. PICK j \in 1 .. n :
             /\ Row(w, generated[m]) = base + j
             /\ \A i \in 1 .. n : ChunkKeys(w)[i] = generated[m] => i <= j
      BY <2>4
    <3>2. CASE m <= base
      BY <1>2, <2>2, <3>1, <3>2
    <3>3. CASE ~(m <= base)
      <4>1. m - base \in 1 .. n /\ m = base + (m - base)
        BY <1>2, <3>3
      <4>2. ChunkKeys(w)[m - base] = generated[m]
        BY <1>2, <4>1
      <4>3. m - base <= j
        BY <3>1, <4>1, <4>2
      <4>. QED
        BY <1>2, <2>2, <3>1, <4>1, <4>3
    <3>. QED
      BY <3>2, <3>3
  <2>. QED
    BY <1>2, <1>3, <2>3, <2>4
<1>. HIDE DEF base
<1>5. Unsaved(w)'
  <2>1. SUFFICES ASSUME NEW j \in 1 .. Len(missing[w]), cursor[w] + ChunkSize <= j,
                        batch[w][missing[w][j]] \in Unrepeated
                 PROVE  db'[batch[w][missing[w][j]]] = 0
    BY <1>1 DEF Unsaved, Unrepeated
  <2>. DEFINE k == batch[w][missing[w][j]]
  <2>2. /\ \A i \in 1 .. Len(missing[w]) : missing[w][i] \in 1 .. Len(batch[w])
        /\ k \in Keys
    BY PositionsInBatch DEF CacheInv
  <2>3. batch[w] \in Batches
    <3>1. Len(<< >>) = 0
      BY EmptySeq
    <3>. QED
      BY <2>2, <3>1 DEF CacheInv, TypeOK
  <2>4. db'[k] = Row(w, k) /\ db[k] = 0
    BY <1>1, <1>2, <2>1, <2>2 DEF Unsaved
  <2>5. ASSUME NEW i \in 1 .. n, ChunkKeys(w)[i] = k
        PROVE  FALSE
    <3>1. /\ cursor[w] + i - 1 \in 1 .. Len(missing[w])
          /\ batch[w][missing[w][cursor[w] + i - 1]] = k
      BY <1>2, <2>5
    <3>2. missing[w][cursor[w] + i - 1] = missing[w][j]
      BY <2>1, <2>2, <2>3, <3>1, OnePosition
    <3>3. cursor[w] + i - 1 = j
      BY <3>1, <3>2 DEF CacheInv, WorkerInv, Positions
    <3>. QED
      BY <1>2, <2>1, <3>3
  <2>. HIDE DEF k
  <2>6. Row(w, k) = db[k]
    BY <1>2, <2>2, <2>5
  <2>. QED
    BY <2>4, <2>6 DEF k
<1>6. Latest(w)'
  BY <1>1 DEF Latest
<1>. QED
  BY <1>4, <1>5, <1>6

LEMMA OneLoadKept ==
    ASSUME TypeOK, NEW w \in Workers, OneLoad(w), Ask(w) \/ Step(w) \/ Fail(w)
    PROVE  OneLoad(w)'
<1>1. pc \in [Workers -> Idle \cup {"get", "create", "bind", "lookup", "chunk", "load",
                                     "generate", "save"}]
      /\ instance \in [Workers -> Nat] /\ created \in Nat
  BY DEF TypeOK
<1>2. CASE Ask(w)
  BY <1>1, <1>2 DEF Ask, OneLoad, pool
<1>3. CASE FindModel(w)
  BY <1>1, <1>3 DEF FindModel, AfterCheck, OneLoad, pool
<1>4. CASE CreateModel(w)
  BY <1>1, <1>4 DEF CreateModel, OneLoad
<1>5. CASE BindModel(w)
  BY <1>1, <1>5 DEF BindModel, OneLoad, pool
<1>6. CASE Lookup(w)
  BY <1>1, <1>6 DEF Lookup, OneLoad, pool
<1>7. CASE NextChunk(w)
  BY <1>1, <1>7 DEF NextChunk, AfterChunks, OneLoad, pool
<1>8. CASE LoadBackend(w)
  BY <1>1, <1>8 DEF LoadBackend, OneLoad
<1>9. CASE Generate(w)
  BY <1>1, <1>9 DEF Generate, OneLoad, pool
<1>10. CASE Save(w)
  BY <1>1, <1>10 DEF Save, OneLoad, pool
<1>11. CASE Fail(w)
  BY <1>1, <1>11 DEF Fail, OneLoad, pool
<1>. QED
  BY <1>2, <1>3, <1>4, <1>5, <1>6, <1>7, <1>8, <1>9, <1>10, <1>11 DEF Step

LEMMA AloneKept ==
    ASSUME CacheInv, NEW w \in Workers, Alone(w), Ask(w) \/ Step(w) \/ Fail(w)
    PROVE  Alone(w)'
<1>. USE DEF Alone
<1>1. OneLoad(w)'
  BY OneLoadKept DEF CacheInv
<1>2. CASE Ask(w)
  <2>1. /\ UNCHANGED <<db, generated>> /\ missing'[w] = << >> /\ pc'[w] = "get"
    BY <1>2 DEF Ask, CacheInv, TypeOK
  <2>2. Len(<< >>) = 0
    BY EmptySeq
  <2>3. OnceSaved'
    BY <2>1 DEF OnceSaved, Unrepeated
  <2>4. Unsaved(w)' /\ Latest(w)'
    BY <2>1, <2>2 DEF Unsaved, Latest
  <2>. QED
    BY <1>1, <2>3, <2>4
<1>3. CASE \/ FindModel(w) \/ CreateModel(w) \/ BindModel(w) \/ NextChunk(w) \/ LoadBackend(w)
  <2>1. /\ UNCHANGED <<db, generated, missing, batch, cursor>> /\ pc'[w] # "save"
    BY <1>3 DEF FindModel, CreateModel, BindModel, NextChunk, LoadBackend, AfterCheck, AfterChunks,
                CacheInv, TypeOK
  <2>. QED
    BY <1>1, <2>1 DEF OnceSaved, Unsaved, Latest, Unrepeated
<1>4. CASE Lookup(w)
  <2>1. pc'[w] # "save"
    BY <1>4 DEF Lookup, CacheInv, TypeOK
  <2>2. OnceSaved' /\ Latest(w)'
    BY <1>4, <2>1, MissingAfterLookup DEF OnceSaved, Latest, Unrepeated
  <2>3. Unsaved(w)'
    BY <1>4, MissingAfterLookup DEF Unsaved, Unrepeated
  <2>. QED
    BY <1>1, <2>2, <2>3
<1>5. CASE Generate(w)
  <2>1. /\ cursor[w] <= Len(missing[w]) /\ db' = db
        /\ generated' = generated \o ChunkKeys(w)
        /\ UNCHANGED <<missing, batch, cursor>> /\ pc'[w] = "save"
        /\ fresh'[w] = [j \in 1 .. Len(ChunkKeys(w)) |-> Len(generated) + j]
    BY <1>5 DEF Generate, CacheInv, TypeOK, WorkerInv, Counted
  <2>2. \A j \in 1 .. Len(missing[w]) : missing[w][j] \in 1 .. Len(batch[w])
    BY PositionsInBatch DEF CacheInv
  <2>3. /\ ChunkKeys(w) \in Seq(Keys) /\ Len(ChunkKeys(w)) = Len(Chunk(w))
        /\ Len(ChunkKeys(w)) \in Nat /\ Len(generated) \in Nat
        /\ Len(generated') = Len(generated) + Len(ChunkKeys(w))
    BY <2>1, <2>2, ChunkKeysFacts, MoreOutputs DEF CacheInv
  <2>4. OnceSaved'
    <3>1. Len(ChunkKeys(w)) <= Len(Chunk(w))
      BY <2>3
    <3>. QED
      BY <2>1, <2>3, <3>1, ChunkIsUnsaved
  <2>5. Unsaved(w)'
    BY <2>1 DEF Unsaved, Unrepeated
  <2>6. Latest(w)'
    <3>1. Len(fresh'[w]) = Len(ChunkKeys(w))
      <4>1. fresh'[w] \in Seq(Nat \ {0}) /\ DOMAIN fresh'[w] = 1 .. Len(fresh'[w])
            /\ Len(fresh'[w]) \in Nat
        <5>1. TypeOK'
          BY <1>5, GenerateKeeps DEF CacheInv
        <5>2. fresh'[w] \in Seq(Nat \ {0})
          BY <5>1 DEF TypeOK
        <5>. QED
          BY <5>2, LenProperties
      <4>2. DOMAIN fresh'[w] = 1 .. Len(ChunkKeys(w))
        BY <2>1
      <4>. QED
        BY <2>3, <4>1, <4>2
    <3>2. \A j \in 1 .. Len(ChunkKeys(w)) :
             fresh'[w][j] = Len(generated') - Len(ChunkKeys(w)) + j
      BY <2>1, <2>3
    <3>. QED
      BY <3>1, <3>2 DEF Latest
  <2>. QED
    BY <1>1, <2>4, <2>5, <2>6
<1>6. CASE Save(w)
  BY <1>1, <1>6, SaveAlone
<1>7. CASE Fail(w)
  <2>1. PICK n \in 0 .. Len(ChunkKeys(w)) :
              /\ n <= Len(Chunk(w))
              /\ generated' = generated \o SubSeq(ChunkKeys(w), 1, n)
              /\ SubSeq(ChunkKeys(w), 1, n) \in Seq(Keys)
              /\ Len(SubSeq(ChunkKeys(w), 1, n)) = n
              /\ \A j \in 1 .. n : SubSeq(ChunkKeys(w), 1, n)[j] = ChunkKeys(w)[j]
    BY <1>7, FailedOutputs
  <2>2. /\ cursor[w] <= Len(missing[w]) /\ pc'[w] = "failed"
        /\ UNCHANGED <<db, missing, batch, cursor>>
    BY <1>7 DEF Fail, CacheInv, TypeOK, WorkerInv, Counted
  <2>3. OnceSaved'
    BY <2>1, <2>2, ChunkIsUnsaved
  <2>4. Unsaved(w)' /\ Latest(w)'
    BY <2>2 DEF Unsaved, Unrepeated, Latest
  <2>. QED
    BY <1>1, <2>3, <2>4
<1>. QED
  BY <1>2, <1>3, <1>4, <1>5, <1>6, <1>7 DEF Step

LEMMA NextReplay == ReplayInv /\ [Next]_vars => ReplayInv'
<1>. SUFFICES ASSUME ReplayInv, [Next]_vars
              PROVE  ReplayInv'
  OBVIOUS
<1>1. CacheInv' /\ \A w \in Workers : KnownInv(w)'
  BY NextCache, NextKnown DEF ReplayInv
<1>2. ASSUME NEW w \in Workers, threads' = {w}
      PROVE  Alone(w)'
  <2>1. threads = {w} /\ Alone(w) /\ CacheInv
    <3>1. threads' = threads
      BY DEF Next, vars, Crash, Ask, Fail, Step, FindModel, CreateModel, BindModel, Lookup,
             NextChunk, LoadBackend, Generate, Save
    <3>. QED
      BY <1>2, <3>1 DEF ReplayInv
  <2>2. CASE \E v \in threads : Ask(v) \/ Step(v) \/ Fail(v)
    BY <2>1, <2>2, AloneKept
  <2>3. CASE Crash
    <3>1. /\ UNCHANGED <<db, generated>> /\ missing'[w] = << >> /\ pc'[w] = "idle"
          /\ loads' = 0 /\ loaded' = {}
      BY <2>3 DEF Crash
    <3>2. Len(<< >>) = 0
      BY EmptySeq
    <3>3. OnceSaved'
      BY <2>1, <3>1 DEF Alone, OnceSaved, Unrepeated
    <3>4. Unsaved(w)' /\ Latest(w)' /\ OneLoad(w)'
      BY <3>1, <3>2 DEF Unsaved, Latest, OneLoad
    <3>. QED
      BY <3>3, <3>4 DEF Alone
  <2>4. CASE UNCHANGED vars
    BY <2>1, <2>4 DEF vars, pool, locals, Alone, OnceSaved, Unsaved, Latest, OneLoad, Unrepeated
  <2>. QED
    BY <2>2, <2>3, <2>4 DEF Next
<1>. QED
  BY <1>1, <1>2 DEF ReplayInv

LEMMA InitReplay == Init => ReplayInv
<1>. SUFFICES ASSUME Init
              PROVE  ReplayInv
  OBVIOUS
<1>1. Len(<< >>) = 0
  BY EmptySeq
<1>2. generated = << >> /\ \A k \in Keys : db[k] = 0
  BY DEF Init
<1>3. ASSUME NEW w \in Workers
      PROVE  KnownInv(w) /\ Alone(w)
  <2>1. /\ pc[w] = "idle" /\ missing[w] = << >> /\ known[w] = {} /\ loads = 0 /\ loaded = {}
    BY DEF Init
  <2>. QED
    BY <1>1, <1>2, <2>1 DEF KnownInv, Alone, OnceSaved, Unsaved, Latest, OneLoad
<1>. QED
  BY <1>3, InitCache DEF ReplayInv

\* A request that was saved when the batch was asked for is not generated again, and if all were
\* no backend is touched; a single thread never makes a second output of a saved request.
THEOREM FreeReplays == Spec => []ReplaysAreFree
<1>1. ReplayInv /\ [Next]_vars => ReplayInv'
  BY NextReplay
<1>2. ReplayInv => ReplaysAreFree
  <2>1. SUFFICES ASSUME ReplayInv
                 PROVE  ReplaysAreFree
    OBVIOUS
  <2>2. ASSUME NEW w \in Workers
        PROVE  /\ \A j \in 1 .. Len(missing[w]) : batch[w][missing[w][j]] \notin known[w]
               /\ pc[w] \in {"load", "generate", "save"} =>
                     \E i \in 1 .. Len(batch[w]) : batch[w][i] \notin known[w]
    <3>1. \A j \in 1 .. Len(missing[w]) : batch[w][missing[w][j]] \notin known[w]
      BY <2>1 DEF ReplayInv, KnownInv
    <3>2. ASSUME pc[w] \in {"load", "generate", "save"}
          PROVE  \E i \in 1 .. Len(batch[w]) : batch[w][i] \notin known[w]
      <4>1. cursor[w] \in 1 .. Len(missing[w])
        BY <2>1, <3>2, LocalTypes DEF ReplayInv, CacheInv, WorkerInv, Counted
      <4>2. missing[w][cursor[w]] \in 1 .. Len(batch[w])
        BY <2>1, <4>1, PositionsInBatch DEF ReplayInv, CacheInv
      <4>. QED
        BY <3>1, <4>1, <4>2
    <3>. QED
      BY <3>1, <3>2
  <2>3. ASSUME Cardinality(threads) = 1
        PROVE  /\ \A n \in Outputs : generated[n] \in Unrepeated /\ db[generated[n]] # 0
                                        => n <= db[generated[n]]
               /\ loads <= 1
    <3>1. threads \subseteq Workers /\ IsFiniteSet(threads)
      BY <2>1, WorkersAssumption, FS_Subset DEF ReplayInv, CacheInv, TypeOK
    <3>2. PICK w : threads = {w}
      BY <2>3, <3>1, FS_Singleton
    <3>3. w \in Workers /\ Alone(w)
      BY <2>1, <3>1, <3>2 DEF ReplayInv
    <3>4. Outputs = 1 .. Len(generated)
      BY <2>1, LenProperties DEF ReplayInv, CacheInv, TypeOK, Outputs
    <3>. QED
      BY <3>3, <3>4 DEF Alone, OnceSaved, OneLoad
  <2>. QED
    BY <2>2, <2>3 DEF ReplaysAreFree
<1>. QED
  BY InitReplay, <1>1, <1>2, PTL DEF Spec
=============================================================================
