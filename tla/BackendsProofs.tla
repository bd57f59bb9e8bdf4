---------------------------- MODULE BackendsProofs ----------------------------
(***************************************************************************)
(* What Backends claims of a batch, for every pool, every set of batches,  *)
(* every size of a chunk and every number of retries.                      *)
(***************************************************************************)
EXTENDS Backends, FiniteSetTheorems, TLAPS

-----------------------------------------------------------------------------
(* Keys. *)

\* Two requests of one key are one request to a simulator: they seed its generator alike, and
\* what it makes of a draw is the same.
LEMMA SameKeySameOutput ==
    ASSUME NEW s, NEW r, NEW t, NEW q, NEW draw,
           s.backend = "simulated", t.backend = "simulated",
           RequestKey(s, r) = RequestKey(t, q)
    PROVE  /\ SeededBy(s, r) = SeededBy(t, q)
           /\ Simulated(s, r, draw) = Simulated(t, q, draw)
<1>1. /\ s.options = t.options /\ r.messages = q.messages /\ r.metadata = q.metadata
      /\ (IF Sampled(r) THEN r.seed ELSE None) = (IF Sampled(q) THEN q.seed ELSE None)
  BY SMT DEF RequestKey, SpecIdentity
<1>2. SeededBy(s, r) = SeededBy(t, q)
  BY <1>1 DEF SeededBy
<1>3. \A ref, bonus : PCorrect(s, ref, bonus) = PCorrect(t, ref, bonus)
  BY <1>1 DEF PCorrect
<1>. QED
  BY <1>1, <1>2, <1>3 DEF Simulated

\* What is in made is what some simulator makes of some request, with the draws there are.
FromSimulators ==
    \A e \in made : \E s \in Specs, b \in Batches : \E r \in ToSet(b) :
        /\ s.backend = "simulated"
        /\ e = <<RequestKey(s, r), Simulated(s, r, draws[SeededBy(s, r)])>>

LEMMA FromSimulatorsDetermined == FromSimulators => KeysDetermineOutputs
<1>. SUFFICES ASSUME FromSimulators, NEW a \in made, NEW e \in made, a[1] = e[1]
              PROVE  a[2] = e[2]
  BY DEF KeysDetermineOutputs
<1>1. PICK s \in Specs, b \in Batches : \E r \in ToSet(b) :
        /\ s.backend = "simulated"
        /\ a = <<RequestKey(s, r), Simulated(s, r, draws[SeededBy(s, r)])>>
  BY DEF FromSimulators
<1>2. PICK r \in ToSet(b) :
        /\ s.backend = "simulated"
        /\ a = <<RequestKey(s, r), Simulated(s, r, draws[SeededBy(s, r)])>>
  BY <1>1
<1>3. PICK t \in Specs, c \in Batches : \E q \in ToSet(c) :
        /\ t.backend = "simulated"
        /\ e = <<RequestKey(t, q), Simulated(t, q, draws[SeededBy(t, q)])>>
  BY DEF FromSimulators
<1>4. PICK q \in ToSet(c) :
        /\ t.backend = "simulated"
        /\ e = <<RequestKey(t, q), Simulated(t, q, draws[SeededBy(t, q)])>>
  BY <1>3
<1>5. RequestKey(s, r) = RequestKey(t, q)
  BY <1>2, <1>4
<1>6. SeededBy(s, r) = SeededBy(t, q)
  BY <1>2, <1>4, <1>5, SameKeySameOutput
<1>7. Simulated(s, r, draws[SeededBy(s, r)]) = Simulated(t, q, draws[SeededBy(s, r)])
  BY <1>2, <1>4, <1>5, SameKeySameOutput
<1>. QED
  BY <1>2, <1>4, <1>6, <1>7

-----------------------------------------------------------------------------
(* Chunks. *)

\* If "precedes" is a total order of a finite set, InOrder is a sequence of all its members:
\* the numbers of members that precede each are all different, so each number up to the
\* cardinality is that of one of them.
LEMMA InOrderIsAll ==
    ASSUME NEW S, IsFiniteSet(S), NEW before,
           \A x \in S : x \notin before[x],
           \A x, y \in S : x = y \/ x \in before[y] \/ y \in before[x],
           \A x, y, z \in S : x \in before[y] /\ y \in before[z] => x \in before[z]
    PROVE  /\ InOrder(S, before) \in [1 .. Cardinality(S) -> S]
           /\ \A x \in S : \E k \in 1 .. Cardinality(S) : InOrder(S, before)[k] = x
<1>. DEFINE n == Cardinality(S)
            Ahead(x) == S \cap before[x]
            rank == [x \in S |-> Cardinality(Ahead(x)) + 1]
<1>1. n \in Nat
  BY FS_CardinalityType
<1>2. \A x \in S : IsFiniteSet(Ahead(x)) /\ Cardinality(Ahead(x)) \in Nat
  BY FS_Subset, FS_CardinalityType
<1>3. \A x \in S : Cardinality(Ahead(x)) < n
  <2>. TAKE x \in S
  <2>1. Ahead(x) \subseteq S /\ Ahead(x) # S
    OBVIOUS
  <2>. HIDE DEF Ahead
  <2>2. Cardinality(Ahead(x)) <= n /\ Cardinality(Ahead(x)) # n
    BY <2>1, FS_Subset
  <2>. QED
    BY <1>1, <1>2, <2>2
<1>4. ASSUME NEW x \in S, NEW y \in S, x \in before[y]
      PROVE  Cardinality(Ahead(x)) < Cardinality(Ahead(y))
  <2>1. Ahead(x) \subseteq Ahead(y) /\ x \in Ahead(y) /\ x \notin Ahead(x)
    BY <1>4
  <2>2. Ahead(x) # Ahead(y)
    BY <2>1
  <2>. HIDE DEF Ahead
  <2>. QED
    BY <1>2, <2>1, <2>2, FS_Subset
<1>5. rank \in [S -> 1 .. n]
  BY <1>1, <1>2, <1>3
<1>. HIDE DEF Ahead
<1>6. rank \in Injection(S, 1 .. n)
  <2>1. \A x, y \in S : rank[x] = rank[y] => x = y
    BY <1>2, <1>4
  <2>. QED
    BY <1>5, <2>1 DEF Injection, IsInjective
<1>7. rank \in Surjection(S, 1 .. n)
  <2>1. IsFiniteSet(1 .. n) /\ Cardinality(1 .. n) = n
    BY <1>1, FS_Interval
  <2>. QED
    BY <1>6, <2>1, FS_Injection
<1>8. \A k \in 1 .. n : \E x \in S : Cardinality(Ahead(x)) = k - 1
  <2>. TAKE k \in 1 .. n
  <2>1. PICK x \in S : rank[x] = k
    BY <1>7 DEF Surjection
  <2>. QED
    BY <1>1, <1>2, <2>1
<1>9. InOrder(S, before) = [k \in 1 .. n |-> CHOOSE x \in S : Cardinality(Ahead(x)) = k - 1]
  BY DEF InOrder, Ahead
<1>10. ASSUME NEW x \in S
       PROVE  \E k \in 1 .. n : InOrder(S, before)[k] = x
  <2>1. rank[x] \in 1 .. n /\ rank[x] - 1 = Cardinality(Ahead(x))
    BY <1>2, <1>5
  <2>2. InOrder(S, before)[rank[x]] = CHOOSE y \in S : Cardinality(Ahead(y)) = rank[x] - 1
    BY <1>9, <2>1
  <2>3. \A y \in S : Cardinality(Ahead(y)) = rank[x] - 1 => y = x
    <3>. TAKE y \in S
    <3>1. HAVE Cardinality(Ahead(y)) = rank[x] - 1
    <3>2. rank[y] = rank[x]
      BY <1>2, <2>1, <3>1
    <3>. QED
      BY <1>6, <3>2 DEF Injection, IsInjective
  <2>4. InOrder(S, before)[rank[x]] = x
    BY <2>1, <2>2, <2>3
  <2>. QED
    BY <2>1, <2>4
<1>. QED
  BY <1>8, <1>9, <1>10

\* A set of naturals has a least element: of the initial segments that end in it, one
\* is the smallest.
LEMMA Least ==
    ASSUME NEW S \in SUBSET Nat, S # {}
    PROVE  \E x \in S : \A y \in S : x <= y
<1>. DEFINE Segments == {0 .. x : x \in S}
<1>1. Segments \subseteq FiniteSubsetsOf(Nat) /\ Segments # {}
  <2>1. ASSUME NEW x \in S
        PROVE  0 .. x \in FiniteSubsetsOf(Nat)
    <3>1. IsFiniteSet(0 .. x)
      BY FS_Interval
    <3>. QED
      BY <3>1 DEF FiniteSubsetsOf
  <2>. QED
    BY <2>1
<1>2. IsWellFoundedOn(StrictSubsetOrdering(Nat), FiniteSubsetsOf(Nat))
  BY FS_StrictSubsetOrderingWellFounded
<1>. HIDE DEF Segments
<1>3. PICK U \in Segments : \A V \in Segments : ~(<<V, U>> \in StrictSubsetOrdering(Nat))
  BY <1>1, <1>2, WFMin, Zenon
<1>. USE DEF Segments
<1>4. PICK x \in S : U = 0 .. x
  BY <1>3
<1>5. ASSUME NEW y \in S, y < x
      PROVE  FALSE
  <2>1. 0 .. y \subseteq 0 .. x /\ 0 .. y # 0 .. x
    <3>1. x \in 0 .. x /\ x \notin 0 .. y
      BY <1>5
    <3>. QED
      BY <1>5, <3>1
  <2>2. <<0 .. y, 0 .. x>> \in StrictSubsetOrdering(Nat)
    BY <2>1 DEF StrictSubsetOrdering
  <2>. QED
    BY <1>3, <1>4, <2>2
<1>. QED
  BY <1>5

\* A request is in its group, whose first request is in it as well.
LEMMA GroupHasFirst ==
    ASSUME NEW b \in Batches, NEW i \in DOMAIN b
    PROVE  /\ Min(GroupOf(b, i)) \in GroupOf(b, i)
           /\ Min(GroupOf(b, i)) \in Nat
<1>1. DOMAIN b \subseteq Nat
  BY BackendsAssumption DEF BackendsAssumption
<1>2. GroupOf(b, i) \in SUBSET Nat /\ GroupOf(b, i) # {}
  BY <1>1 DEF GroupOf
<1>3. \E x \in GroupOf(b, i) : \A y \in GroupOf(b, i) : x <= y
  BY <1>2, Least
<1>. QED
  BY <1>2, <1>3 DEF Min

LEMMA PlaceType ==
    ASSUME NEW b \in Batches, NEW i \in DOMAIN b
    PROVE  Place(b, i) \in Nat \X Nat
<1>1. b \in Seq(ToSet(b)) /\ BatchSize \in Nat \ {0}
  BY BackendsAssumption DEF BackendsAssumption
<1>2. IsFiniteSet(DOMAIN b) /\ Sooner(b, i) \subseteq DOMAIN b
  BY <1>1, FS_Interval DEF Sooner, GroupOf
<1>3. Cardinality(Sooner(b, i)) \in Nat
  BY <1>2, FS_Subset, FS_CardinalityType
<1>4. Cardinality(Sooner(b, i)) \div BatchSize \in Nat
  BY <1>1, <1>3
<1>. QED
  BY <1>4, GroupHasFirst DEF Place

\* The chunks of the local backend: every request is in one, and those of one chunk were
\* grouped together.
LEMMA LocalChunks ==
    ASSUME NEW s, s.backend = "huggingface", NEW b \in Batches
    PROVE  /\ ChunksOf(s, b) \in Seq(Seq(DOMAIN b))
           /\ \A c \in ToSet(ChunksOf(s, b)) : \A i, j \in ToSet(c) :
                 GroupKey(b[i]) = GroupKey(b[j])
           /\ \A i \in DOMAIN b : \E c \in ToSet(ChunksOf(s, b)) : i \in ToSet(c)
<1>. DEFINE before == [p \in Places(b) |-> EarlierPlaces(b, p)]
            sooner == [i \in DOMAIN b |-> Sooner(b, i)]
            At(p) == {i \in DOMAIN b : Place(b, i) = p}
            places == InOrder(Places(b), before)
<1>1. b \in Seq(ToSet(b)) /\ (\A i \in DOMAIN b : b[i].length \in Nat)
  BY BackendsAssumption DEF BackendsAssumption, ToSet
<1>2. IsFiniteSet(DOMAIN b) /\ DOMAIN b \subseteq Nat
  BY <1>1, FS_Interval
<1>3. IsFiniteSet(Places(b)) /\ Cardinality(Places(b)) \in Nat
  <2>1. [i \in DOMAIN b |-> Place(b, i)] \in Surjection(DOMAIN b, Places(b))
    BY DEF Places, Surjection
  <2>2. IsFiniteSet(Places(b))
    BY <1>2, <2>1, FS_Surjection
  <2>. QED
    BY <2>2, FS_CardinalityType
<1>4. /\ places \in [1 .. Cardinality(Places(b)) -> Places(b)]
      /\ \A p \in Places(b) : \E k \in 1 .. Cardinality(Places(b)) : places[k] = p
  <2>1. Places(b) \subseteq Nat \X Nat
    BY PlaceType DEF Places
  <2>2. \A p, q \in Places(b) :
           q \in before[p] <=> q[1] < p[1] \/ (q[1] = p[1] /\ q[2] < p[2])
    BY DEF EarlierPlaces
  <2>. HIDE DEF before
  <2>3. \A p \in Places(b) : p \notin before[p]
    BY <2>1, <2>2
  <2>4. \A p, q \in Places(b) : p = q \/ p \in before[q] \/ q \in before[p]
    BY <2>1, <2>2
  <2>5. \A p, q, r \in Places(b) : p \in before[q] /\ q \in before[r] => p \in before[r]
    BY <2>1, <2>2
  <2>. QED
    BY <1>3, <2>3, <2>4, <2>5, InOrderIsAll
<1>5. ASSUME NEW p \in Places(b)
      PROVE  /\ InOrder(At(p), sooner) \in Seq(DOMAIN b)
             /\ ToSet(InOrder(At(p), sooner)) = At(p)
             /\ \A i, j \in At(p) : GroupKey(b[i]) = GroupKey(b[j])
  <2>1. IsFiniteSet(At(p)) /\ Cardinality(At(p)) \in Nat
    <3>1. IsFiniteSet(At(p))
      BY <1>2, FS_Subset
    <3>. QED
      BY <3>1, FS_CardinalityType
  <2>2. \A i, j \in At(p) : GroupKey(b[i]) = GroupKey(b[j])
    <3>. TAKE i, j \in At(p)
    <3>1. Place(b, i) = Place(b, j)
      OBVIOUS
    <3>2. Min(GroupOf(b, i)) = Min(GroupOf(b, j))
      BY <3>1 DEF Place
    <3>3. Min(GroupOf(b, i)) \in GroupOf(b, i) /\ Min(GroupOf(b, j)) \in GroupOf(b, j)
      BY GroupHasFirst
    <3>. QED
      BY <3>2, <3>3 DEF GroupOf
  <2>3. \A i, j \in At(p) :
           i \in sooner[j] <=> b[i].length < b[j].length \/ (b[i].length = b[j].length /\ i < j)
    BY <2>2 DEF Sooner, GroupOf
  <2>. HIDE DEF sooner
  <2>4. \A i \in At(p) : i \in Nat /\ b[i].length \in Nat
    BY <1>1, <1>2
  <2>. HIDE DEF At
  <2>5. \A i \in At(p) : i \notin sooner[i]
    BY <2>3, <2>4
  <2>6. \A i, j \in At(p) : i = j \/ i \in sooner[j] \/ j \in sooner[i]
    BY <2>3, <2>4
  <2>7. \A i, j, k \in At(p) : i \in sooner[j] /\ j \in sooner[k] => i \in sooner[k]
    BY <2>3, <2>4
  <2>8. /\ InOrder(At(p), sooner) \in [1 .. Cardinality(At(p)) -> At(p)]
        /\ \A i \in At(p) : \E k \in 1 .. Cardinality(At(p)) : InOrder(At(p), sooner)[k] = i
    BY <2>1, <2>5, <2>6, <2>7, InOrderIsAll
  <2>9. ToSet(InOrder(At(p), sooner)) = At(p)
    BY <2>8 DEF ToSet
  <2>10. InOrder(At(p), sooner) \in Seq(At(p)) /\ At(p) \subseteq DOMAIN b
    BY <2>1, <2>8 DEF At
  <2>. QED
    BY <2>2, <2>9, <2>10
<1>6. ChunksOf(s, b) = [k \in DOMAIN places |-> InOrder(At(places[k]), sooner)]
  BY DEF ChunksOf
<1>. HIDE DEF before, sooner, At, places
<1>7. DOMAIN places = 1 .. Cardinality(Places(b))
  BY <1>4
<1>8. \A k \in DOMAIN places : places[k] \in Places(b)
  BY <1>4
<1>9. ChunksOf(s, b) \in Seq(Seq(DOMAIN b))
  BY <1>3, <1>5, <1>6, <1>7, <1>8
<1>10. ToSet(ChunksOf(s, b)) = {InOrder(At(p), sooner) : p \in Places(b)}
  <2>1. ToSet(ChunksOf(s, b)) = {InOrder(At(places[k]), sooner) : k \in DOMAIN places}
    BY <1>6 DEF ToSet
  <2>. QED
    BY <1>4, <2>1
<1>11. \A i \in DOMAIN b : Place(b, i) \in Places(b) /\ i \in At(Place(b, i))
  BY DEF Places, At
<1>. QED
  BY <1>5, <1>9, <1>10, <1>11

-----------------------------------------------------------------------------
(* A batch. *)

\* The chunks left are sequences of indices, of requests that were grouped together; outside
\* the local backend each is one request, and they are the last ones of the batch.
ChunksLeft ==
    /\ spec \in Specs \cup {None} /\ batch \in Batches \cup {<< >>}
    /\ chunks \in Seq(Seq(Indices))
    /\ \A c \in ToSet(chunks) : \A i, j \in ToSet(c) : GroupKey(batch[i]) = GroupKey(batch[j])
    /\ spec.backend # "huggingface" =>
          \A k \in DOMAIN chunks : chunks[k] = <<Len(batch) - Len(chunks) + k>>

\* A request that has no output is in one of them.
NoneForgotten ==
    \A i \in Indices : i \in DOMAIN results \/ \E c \in ToSet(chunks) : i \in ToSet(c)

\* The outputs are those of the requests at their places.
OutputsInPlace ==
    \A i \in DOMAIN results :
        /\ results[i].request = batch[i]
        /\ results[i].settings = Settings(batch[i])
        /\ results[i].logprobs => batch[i].logprobs

\* A batch fails where it has come to, and for a transient error after all retries.
FailedInPlace ==
    /\ posts \in 0 .. MaxRetries
    /\ failure # None /\ failure.at # None =>
          /\ \A i \in 1 .. failure.at - 1 : i \in DOMAIN results
          /\ failure.last \in Transient => posts = MaxRetries

BatchInv == ChunksLeft /\ NoneForgotten /\ OutputsInPlace /\ FailedInPlace

LEMMA BatchInvSuffices == BatchInv => AnsweredOrRefused
<1>. SUFFICES ASSUME BatchInv PROVE AnsweredOrRefused
  OBVIOUS
<1>1. ASSUME spec # None, Idle, failure = None
      PROVE  \A i \in Indices : i \in DOMAIN results
  <2>1. chunks = << >>
    BY <1>1 DEF Idle
  <2>2. ToSet(chunks) = {}
    BY <2>1 DEF ToSet
  <2>. QED
    BY <2>2 DEF BatchInv, NoneForgotten
<1>. QED
  BY <1>1 DEF BatchInv, OutputsInPlace, FailedInPlace, AnsweredOrRefused

LEMMA InitBatch == Init => BatchInv /\ FromSimulators
<1>. SUFFICES ASSUME Init PROVE BatchInv /\ FromSimulators
  OBVIOUS
<1>1. spec = None /\ chunks = << >> /\ batch = << >> /\ results = << >> /\ posts = 0 /\ failure = None /\ made = {}
  BY DEF Init
<1>2. ToSet(chunks) = {} /\ DOMAIN results = {} /\ Indices = {}
  BY <1>1 DEF ToSet, Indices
<1>. QED
  BY <1>1, <1>2, BackendsAssumption
  DEF BackendsAssumption, BatchInv, ChunksLeft, NoneForgotten, OutputsInPlace, FailedInPlace,
      FromSimulators

\* A new batch: every request is in a chunk.
LEMMA AskBatch == Ask => BatchInv'
<1>. SUFFICES ASSUME Ask PROVE BatchInv'
  OBVIOUS
<1>1. PICK s \in Specs, b \in Batches :
         /\ spec' = s /\ batch' = b /\ chunks' = ChunksOf(s, b)
         /\ failure' = IF s.configured THEN None ELSE [at |-> None, last |-> "configuration"]
  BY DEF Ask
<1>2. posts' = 0 /\ results' = << >>
  BY DEF Ask
<1>3. b \in Seq(ToSet(b))
  BY BackendsAssumption DEF BackendsAssumption
<1>4. /\ ChunksOf(s, b) \in Seq(Seq(DOMAIN b))
      /\ \A c \in ToSet(ChunksOf(s, b)) : \A i, j \in ToSet(c) : GroupKey(b[i]) = GroupKey(b[j])
      /\ \A i \in DOMAIN b : \E c \in ToSet(ChunksOf(s, b)) : i \in ToSet(c)
      /\ s.backend # "huggingface" =>
            \A k \in DOMAIN ChunksOf(s, b) : ChunksOf(s, b)[k] = <<Len(b) - Len(ChunksOf(s, b)) + k>>
  <2>1. CASE s.backend = "huggingface"
    BY <2>1, LocalChunks
  <2>2. CASE s.backend # "huggingface"
    <3>1. ChunksOf(s, b) = [i \in DOMAIN b |-> <<i>>]
      BY <2>2 DEF ChunksOf
    <3>2. Len(b) \in Nat /\ DOMAIN b = 1 .. Len(b)
      BY <1>3
    <3>3. ChunksOf(s, b) \in Seq(Seq(DOMAIN b)) /\ Len(ChunksOf(s, b)) = Len(b)
      BY <3>1, <3>2
    <3>4. ToSet(ChunksOf(s, b)) = {<<i>> : i \in DOMAIN b}
      BY <3>1 DEF ToSet
    <3>5. \A i \in DOMAIN b : ToSet(<<i>>) = {i}
      BY DEF ToSet
    <3>6. \A c \in ToSet(ChunksOf(s, b)) : \A i, j \in ToSet(c) : i = j
      BY <3>4, <3>5
    <3>7. \A i \in DOMAIN b : \E c \in ToSet(ChunksOf(s, b)) : i \in ToSet(c)
      BY <3>4, <3>5
    <3>8. \A k \in DOMAIN ChunksOf(s, b) : ChunksOf(s, b)[k] = <<Len(b) - Len(ChunksOf(s, b)) + k>>
      BY <3>1, <3>2, <3>3
    <3>. QED
      BY <3>3, <3>6, <3>7, <3>8
  <2>. QED
    BY <2>1, <2>2
<1>5. ChunksLeft' /\ NoneForgotten'
  BY <1>1, <1>4 DEF ChunksLeft, NoneForgotten, Indices
<1>6. OutputsInPlace'
  BY <1>2 DEF OutputsInPlace
<1>7. FailedInPlace'
  BY <1>1, <1>2, BackendsAssumption DEF BackendsAssumption, FailedInPlace
<1>. QED
  BY <1>5, <1>6, <1>7 DEF BatchInv

\* Outputs for the first chunk, each with what its request asked for.
Fits(output, i) ==
    /\ output.request = batch[i] /\ output.settings = Settings(batch[i])
    /\ output.logprobs => batch[i].logprobs

LEMMA GivenBatch ==
    ASSUME BatchInv, ~Idle, UNCHANGED <<spec, batch, failure>>,
           NEW outputs, Give(outputs),
           \A k \in DOMAIN Head(chunks) : Fits(outputs[k], Head(chunks)[k])
    PROVE  BatchInv'
<1>. DEFINE chunk == Head(chunks)
            at(i) == CHOOSE k \in DOMAIN chunk : chunk[k] = i
<1>1. chunks \in Seq(Seq(Indices)) /\ chunks # << >> /\ failure = None
  BY DEF BatchInv, ChunksLeft, Idle
<1>2. /\ results' = [i \in DOMAIN results \cup ToSet(chunk) |->
                        IF i \in ToSet(chunk) THEN outputs[at(i)] ELSE results[i]]
      /\ chunks' = Tail(chunks) /\ posts' = 0
  BY DEF Give
<1>3. ToSet(chunks) = {chunk} \cup ToSet(chunks')
  <2>1. /\ Len(chunks) \in Nat \ {0} /\ DOMAIN chunks = 1 .. Len(chunks) /\ chunk = chunks[1]
        /\ DOMAIN chunks' = 1 .. Len(chunks) - 1
        /\ \A k \in 1 .. Len(chunks) - 1 : chunks'[k] = chunks[k + 1]
    BY <1>1, <1>2
  <2>. HIDE DEF chunk
  <2>2. \A k \in DOMAIN chunks : chunks[k] = chunk \/ chunks[k] \in ToSet(chunks')
    <3>. TAKE k \in DOMAIN chunks
    <3>1. k = 1 \/ k - 1 \in 1 .. Len(chunks) - 1
      BY <2>1
    <3>2. ASSUME k - 1 \in 1 .. Len(chunks) - 1
          PROVE  chunks[k] = chunks'[k - 1]
      BY <2>1, <3>2
    <3>. QED
      BY <2>1, <3>1, <3>2 DEF ToSet
  <2>3. \A k \in DOMAIN chunks' : chunks'[k] \in ToSet(chunks)
    BY <2>1 DEF ToSet
  <2>4. chunk \in ToSet(chunks)
    BY <2>1 DEF ToSet
  <2>. QED
    BY <2>2, <2>3, <2>4 DEF ToSet
<1>4. ChunksLeft'
  <2>1. chunks' \in Seq(Seq(Indices)) /\ Len(chunks') = Len(chunks) - 1
    BY <1>1, <1>2
  <2>2. \A k \in DOMAIN chunks' : k + 1 \in DOMAIN chunks /\ chunks'[k] = chunks[k + 1]
    BY <1>1, <1>2
  <2>3. (Len(chunks) \in Nat) /\ (Len(batch) \in Nat) /\ DOMAIN chunks' \subseteq Nat
    <3>1. batch \in Seq(ToSet(batch))
      <4>1. CASE batch \in Batches
        BY <4>1, BackendsAssumption DEF BackendsAssumption
      <4>2. CASE batch = << >>
        BY <4>2
      <4>. QED
        BY <4>1, <4>2 DEF BatchInv, ChunksLeft
    <3>. QED
      BY <1>1, <2>1, <3>1
  <2>4. spec.backend # "huggingface" =>
          \A k \in DOMAIN chunks' : chunks'[k] = <<Len(batch) - Len(chunks') + k>>
    <3>. SUFFICES ASSUME spec.backend # "huggingface", NEW k \in DOMAIN chunks'
                  PROVE  chunks'[k] = <<Len(batch) - Len(chunks') + k>>
      OBVIOUS
    <3>1. chunks'[k] = <<Len(batch) - Len(chunks) + (k + 1)>>
      BY <2>2 DEF BatchInv, ChunksLeft
    <3>2. Len(batch) - Len(chunks) + (k + 1) = Len(batch) - Len(chunks') + k
      BY <2>1, <2>3
    <3>. QED
      BY <3>1, <3>2
  <2>. QED
    BY <1>3, <2>1, <2>4 DEF BatchInv, ChunksLeft, Indices
<1>5. NoneForgotten'
  BY <1>2, <1>3 DEF BatchInv, NoneForgotten, Indices
<1>6. OutputsInPlace'
  <2>. SUFFICES ASSUME NEW i \in DOMAIN results'
                PROVE  Fits(results'[i], i)
    BY DEF OutputsInPlace, Fits
  <2>1. CASE i \in ToSet(chunk)
    <3>1. at(i) \in DOMAIN chunk /\ chunk[at(i)] = i
      BY <2>1 DEF ToSet
    <3>2. results'[i] = outputs[at(i)]
      BY <1>2, <2>1
    <3>. HIDE DEF at
    <3>. QED
      BY <3>1, <3>2
  <2>2. CASE i \notin ToSet(chunk)
    <3>1. i \in DOMAIN results /\ results'[i] = results[i]
      BY <1>2, <2>2
    <3>. QED
      BY <3>1 DEF BatchInv, OutputsInPlace, Fits
  <2>. QED
    BY <2>1, <2>2
<1>7. FailedInPlace'
  BY <1>1, <1>2, BackendsAssumption DEF BackendsAssumption, FailedInPlace
<1>. QED
  BY <1>4, <1>5, <1>6, <1>7 DEF BatchInv

\* Outside the local backend the first chunk is the next request.
LEMMA OneRequest ==
    ASSUME BatchInv, ~Idle, spec.backend # "huggingface"
    PROVE  /\ Head(chunks) = <<Len(batch) - Len(chunks) + 1>>
           /\ Head(chunks)[1] \in Indices
           /\ \A i \in 1 .. Head(chunks)[1] - 1 : i \in DOMAIN results
<1>1. chunks \in Seq(Seq(Indices)) /\ chunks # << >>
  BY DEF BatchInv, ChunksLeft, Idle
<1>2. /\ 1 \in DOMAIN chunks /\ Head(chunks) = chunks[1]
      /\ Len(chunks) \in Nat \ {0} /\ DOMAIN chunks = 1 .. Len(chunks)
  BY <1>1
<1>3. Head(chunks) = <<Len(batch) - Len(chunks) + 1>>
  BY <1>2 DEF BatchInv, ChunksLeft
<1>4. Head(chunks)[1] \in Indices
  <2>1. Head(chunks) \in Seq(Indices)
    <3>. HIDE DEF Indices
    <3>1. chunks[1] \in Seq(Indices)
      BY <1>1, <1>2
    <3>. QED
      BY <1>2, <3>1
  <2>2. Len(Head(chunks)) = 1
    <3>1. \A x : Len(<<x>>) = 1
      OBVIOUS
    <3>. QED
      BY <1>3, <3>1, Zenon
  <2>. QED
    BY <2>1, <2>2
<1>5. batch \in Seq(ToSet(batch))
  BY <1>4, BackendsAssumption DEF BackendsAssumption, BatchInv, ChunksLeft, Indices
<1>6. ASSUME NEW i \in 1 .. Head(chunks)[1] - 1
      PROVE  i \in DOMAIN results
  <2>1. Head(chunks)[1] = Len(batch) - Len(chunks) + 1 /\ Indices = 1 .. Len(batch)
        /\ Len(batch) \in Nat
    BY <1>3, <1>5 DEF Indices
  <2>2. i \in Indices /\ i < Len(batch) - Len(chunks) + 1 /\ i \in Int
    BY <1>2, <2>1
  <2>3. ASSUME NEW k \in DOMAIN chunks
        PROVE  i \notin ToSet(chunks[k])
    <3>1. chunks[k] = <<Len(batch) - Len(chunks) + k>>
      BY DEF BatchInv, ChunksLeft
    <3>2. ToSet(chunks[k]) = {Len(batch) - Len(chunks) + k}
      BY <3>1 DEF ToSet
    <3>. QED
      BY <1>2, <2>1, <2>2, <3>2
  <2>. QED
    BY <2>2, <2>3 DEF BatchInv, NoneForgotten, ToSet
<1>. QED
  BY <1>3, <1>4, <1>6

LEMMA NextBatch == BatchInv /\ [Next]_vars => BatchInv'
<1>. SUFFICES ASSUME BatchInv, [Next]_vars
              PROVE  BatchInv'
  OBVIOUS
<1>1. CASE Ask
  BY <1>1, AskBatch
<1>2. CASE RunLocal
  <2>. DEFINE chunk == Head(chunks)
  <2>1. PICK texts \in [DOMAIN chunk -> Texts \X {"stop", "length"}] :
          Give([k \in DOMAIN chunk |->
                  Output(batch[chunk[k]], Settings(batch[Head(chunk)]),
                         batch[chunk[k]].logprobs, texts[k][1], texts[k][2])])
    BY <1>2 DEF RunLocal
  <2>2. ~Idle /\ UNCHANGED <<spec, batch, failure>>
    BY <1>2 DEF RunLocal
  <2>3. chunk \in ToSet(chunks) /\ chunk \in Seq(Indices)
    BY <2>2 DEF BatchInv, ChunksLeft, Idle, ToSet
  <2>4. \A k \in DOMAIN chunk : Settings(batch[Head(chunk)]) = Settings(batch[chunk[k]])
    <3>. TAKE k \in DOMAIN chunk
    <3>1. Head(chunk) \in ToSet(chunk) /\ chunk[k] \in ToSet(chunk)
      BY <2>3 DEF ToSet
    <3>2. GroupKey(batch[Head(chunk)]) = GroupKey(batch[chunk[k]])
      BY <2>3, <3>1 DEF BatchInv, ChunksLeft
    <3>. QED
      BY <3>2 DEF GroupKey, Settings
  <2>. HIDE DEF chunk
  <2>. DEFINE outputs == [k \in DOMAIN chunk |->
                  Output(batch[chunk[k]], Settings(batch[Head(chunk)]),
                         batch[chunk[k]].logprobs, texts[k][1], texts[k][2])]
  <2>5. \A k \in DOMAIN chunk : Fits(outputs[k], chunk[k])
    BY <2>4 DEF Fits, Output
  <2>6. Give(outputs)
    BY <2>1
  <2>. HIDE DEF outputs
  <2>7. \A k \in DOMAIN Head(chunks) : Fits(outputs[k], Head(chunks)[k])
    BY <2>5 DEF chunk
  <2>. QED
    BY <2>2, <2>6, <2>7, GivenBatch
<1>3. CASE Simulate
  <2>. DEFINE r == batch[Head(chunks)[1]]
              outputs == <<Output(r, Settings(r), r.logprobs,
                                  Simulated(spec, r, draws[SeededBy(spec, r)]).text, "stop")>>
  <2>1. ~Idle /\ UNCHANGED <<spec, batch, failure>> /\ spec.backend # "huggingface" /\ Give(outputs)
    BY <1>3 DEF Simulate
  <2>2. DOMAIN Head(chunks) = {1}
    BY <2>1, OneRequest
  <2>3. Fits(outputs[1], Head(chunks)[1])
    BY DEF Fits, Output
  <2>. HIDE DEF outputs
  <2>. QED
    BY <2>1, <2>2, <2>3, GivenBatch
<1>4. CASE Answered
  <2>. DEFINE r == batch[Head(chunks)[1]]
  <2>1. PICK text \in Texts, lps \in {r.logprobs, FALSE} :
          Give(<<Output(r, Settings(r), lps, text, "stop")>>)
    BY <1>4 DEF Answered
  <2>. DEFINE outputs == <<Output(r, Settings(r), lps, text, "stop")>>
  <2>2. ~Idle /\ UNCHANGED <<spec, batch, failure>> /\ spec.backend # "huggingface" /\ Give(outputs)
    BY <1>4, <2>1 DEF Answered
  <2>3. DOMAIN Head(chunks) = {1}
    BY <2>2, OneRequest
  <2>4. Fits(outputs[1], Head(chunks)[1])
    BY DEF Fits, Output
  <2>. HIDE DEF outputs
  <2>. QED
    BY <2>2, <2>3, <2>4, GivenBatch
<1>5. CASE Refused
  <2>1. /\ ~Idle /\ spec.backend # "huggingface"
        /\ UNCHANGED <<spec, batch, chunks, results>>
    BY <1>5 DEF Refused
  <2>2. PICK error \in Transient \cup Lasting :
          IF error \in Transient /\ posts < MaxRetries
          THEN posts' = posts + 1 /\ UNCHANGED failure
          ELSE failure' = [at |-> Head(chunks)[1], last |-> error] /\ UNCHANGED posts
    BY <1>5 DEF Refused
  <2>3. failure = None /\ posts \in 0 .. MaxRetries /\ MaxRetries \in Nat
    BY <2>1, BackendsAssumption DEF BackendsAssumption, Idle, BatchInv, FailedInPlace
  <2>4. ChunksLeft' /\ NoneForgotten' /\ OutputsInPlace'
    BY <2>1 DEF BatchInv, ChunksLeft, NoneForgotten, OutputsInPlace, Indices
  <2>5. FailedInPlace'
    <3>1. CASE error \in Transient /\ posts < MaxRetries
      BY <2>2, <2>3, <3>1 DEF FailedInPlace
    <3>2. CASE ~(error \in Transient /\ posts < MaxRetries)
      BY <2>1, <2>2, <2>3, <3>2, OneRequest DEF FailedInPlace
    <3>. QED
      BY <3>1, <3>2
  <2>. QED
    BY <2>4, <2>5 DEF BatchInv
<1>6. CASE UNCHANGED vars
  BY <1>6 DEF vars, BatchInv, ChunksLeft, NoneForgotten, OutputsInPlace, FailedInPlace, Indices
<1>7. CASE Ended
  BY <1>6, <1>7 DEF Ended
<1>. QED
  BY <1>1, <1>2, <1>3, <1>4, <1>5, <1>6, <1>7 DEF Next

\* A batch comes back whole and in place, or fails for a request refused to the end.
THEOREM AnsweredInPlace == Spec => []AnsweredOrRefused
<1>1. Init => BatchInv
  BY InitBatch
<1>. QED
  BY <1>1, NextBatch, BatchInvSuffices, PTL DEF Spec

LEMMA NextFromSimulators == BatchInv /\ FromSimulators /\ [Next]_vars => FromSimulators'
<1>. SUFFICES ASSUME BatchInv, FromSimulators, [Next]_vars
              PROVE  FromSimulators'
  OBVIOUS
<1>1. CASE Simulate
  <2>. DEFINE r == batch[Head(chunks)[1]]
              e == <<RequestKey(spec, r), Simulated(spec, r, draws[SeededBy(spec, r)])>>
  <2>1. ~Idle /\ spec.backend = "simulated" /\ made' = made \cup {e} /\ draws' = draws
    BY <1>1 DEF Simulate
  <2>2. Head(chunks)[1] \in Indices
    BY <2>1, OneRequest
  <2>3. batch \in Batches /\ r \in ToSet(batch) /\ spec \in Specs
    BY <2>1, <2>2 DEF BatchInv, ChunksLeft, Indices, ToSet, Idle
  <2>. HIDE DEF r
  <2>. QED
    BY <2>1, <2>3 DEF FromSimulators
<1>2. CASE Ask \/ RunLocal \/ Answered \/ Refused \/ UNCHANGED vars
  <2>1. UNCHANGED <<draws, made>>
    BY <1>2 DEF Ask, RunLocal, Answered, Refused, vars
  <2>. QED
    BY <2>1 DEF FromSimulators
<1>3. CASE Ended
  BY <1>2, <1>3 DEF Ended
<1>. QED
  BY <1>1, <1>2, <1>3 DEF Next

\* Whatever a simulator answers to a request, it answers to every request of the same key.
THEOREM CachedAsUncached == Spec => []KeysDetermineOutputs
<1>1. Init => BatchInv /\ FromSimulators
  BY InitBatch
<1>. QED
  BY <1>1, NextBatch, NextFromSimulators, FromSimulatorsDetermined, PTL DEF Spec
=============================================================================
