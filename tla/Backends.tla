------------------------------- MODULE Backends -------------------------------
(***************************************************************************)
(* The backends (models/openai_compat.py, huggingface.py, simulated.py):   *)
(* what each makes of the batches it is given, one after the other, and    *)
(* the key a cache knows a request by (cache.py).  The server, the weights *)
(* and the texts are outside the model: a server answers as it likes, and  *)
(* a real model generates any of Texts.                                    *)
(*                                                                         *)
(* A definition commented as a slip is not part of the model: it is the    *)
(* definition that follows it with a plausible mistake.                    *)
(***************************************************************************)
EXTENDS Integers, Sequences, FiniteSets, SequencesExt, FiniteSetsExt

CONSTANTS
    Specs,      \* the models of a pool: backend and options
    Batches,    \* the batches asked for
    MaxBatches, \* bound: batches per behaviour
    BatchSize,  \* options.batch_size of the local backend
    MaxRetries, \* options.max_retries of the server backend
    Odds,       \* bound: a probability is 0 .. Odds out of Odds
    Texts,      \* what a real model may write
    None

ASSUME BackendsAssumption ==
    /\ BatchSize \in Nat \ {0} /\ MaxRetries \in Nat /\ MaxBatches \in Nat /\ Odds \in Nat \ {0}
    /\ \A b \in Batches : b \in Seq(ToSet(b)) /\ b # << >>
    /\ \A b \in Batches : \A r \in ToSet(b) : r.length \in Nat /\ r.logprobs \in BOOLEAN

VARIABLES
    draws,   \* random.Random of the simulator, by what it is seeded with
    asked,   \* batches so far
    spec,    \* the model asked, or None
    batch,   \* its requests
    chunks,  \* the indices of the requests still to be generated, as they go together
    posts,   \* posts of the current request that were answered by a transient error
    results, \* the outputs so far, by the index of their request
    failure, \* why the batch failed, or None
    made     \* what the simulators ever made of a request, by its key

vars == <<draws, asked, spec, batch, chunks, posts, results, failure, made>>

-----------------------------------------------------------------------------
(* Requests. *)

\* BaseLLM.spec_identity leaves out what does not affect the outputs.
SpecIdentity(s) == [backend |-> s.backend, options |-> s.options]

Sampled(r) == r.temperature > 0

\* request_key, before it is hashed.  Slip: metadata is left out for every backend.
KeyWithoutMetadata(s, r) ==
    <<SpecIdentity(s), r.messages, r.max, r.temperature, IF Sampled(r) THEN r.seed ELSE None,
      r.stop, r.logprobs>>
RequestKey(s, r) ==
    <<SpecIdentity(s), r.messages, r.max, r.temperature, IF Sampled(r) THEN r.seed ELSE None,
      r.stop, r.logprobs, IF s.backend = "simulated" THEN r.metadata ELSE None>>

-----------------------------------------------------------------------------
(* The simulator. *)

\* SimulatedLLM._rng looks at what a real model would see.
SeededBy(s, r) == <<s.options.capability, r.messages, IF Sampled(r) THEN r.seed ELSE None>>
Seeds == {SeededBy(s, r) : s \in {x \in Specs : x.backend = "simulated"},
                           r \in UNION {ToSet(b) : b \in Batches}}

\* p_correct: more of capability and help, less of difficulty.
PCorrect(s, ref, bonus) == Max({0, Min({Odds, s.options.capability - ref.difficulty + bonus})})

EvidenceHelps(ref, evidence) == ref.answer \in evidence
Bonus(ref, m) ==
    (IF m.strategy = "careful" THEN 1 ELSE 0)
        + (IF EvidenceHelps(ref, m.evidence) THEN 2 ELSE 0)

Said(text, correct) == [text |-> text, correct |-> correct]

\* A step of the tool agent: an unskilled one makes the answer up, calls wrongly or not at all.
ToolStep(ref, m, skilled, draw) ==
    LET last == IF m.toolResults = << >> THEN ref.answer ELSE Last(m.toolResults)
    IN CASE m.toolStep = 0 /\ ref.expectedCalls # << >> ->
              IF skilled THEN Said(Head(ref.expectedCalls), TRUE)
              ELSE Said(<<ref.answer, "malformed call", "0">>[(draw % 3) + 1], FALSE)
         [] m.toolStep = 0 /\ ref.expectedCalls = << >> ->
              IF skilled THEN Said(ref.answer, TRUE) ELSE Said("needless call", FALSE)
         [] OTHER ->
              LET answer == IF skilled \/ draw % 2 = 0 THEN last ELSE "corrupted"
              IN Said(answer, answer = last)

\* The judge's rating of a difficulty, by three grades.
Rating(n) == <<"easy", "middle", "hard">>[Max({1, Min({3, n})})]

\* The wrong answers of an item, of which some repeat.
Distractor(draw) == <<"D1", "D2">>[(draw % 2) + 1]

\* SimulatedLLM.generate of a request that draws `draw`.
Simulated(s, r, draw) ==
    LET m == r.metadata
        ref == m.reference
        accurate == draw < Max({1, s.options.capability})
        correct == draw < PCorrect(s, ref, Bonus(ref, m))
    IN CASE ref = None -> Said("unknown", FALSE)
         [] ref # None /\ m.purpose = "difficulty_judge" ->
              Said(Rating(ref.difficulty + draw), TRUE)
         [] ref # None /\ m.purpose = "verify_judge" ->
              Said(IF (m.candidate = ref.answer) = accurate THEN "Yes" ELSE "No", accurate)
         [] ref # None /\ m.purpose = "tool_agent" ->
              ToolStep(ref, m, draw < PCorrect(s, ref, 0), draw)
         [] OTHER -> Said(IF correct THEN ref.answer ELSE Distractor(draw), correct)

-----------------------------------------------------------------------------
(* Chunks. *)

\* What one call of model.generate() is given for all its requests (top_p and top_logprobs go
\* with the temperature), and what requests are grouped by.  Slip: by their length only.
Settings(r) == [temperature |-> r.temperature, max |-> r.max]
LengthOnly(r) == r.max
GroupKey(r) == <<r.temperature, r.max>>

Indices == DOMAIN batch

\* The requests of a group, and those of them that come before one when they are sorted: the
\* shorter ones, and of two as long the earlier one, since the sort is stable.
GroupOf(b, i) == {j \in DOMAIN b : GroupKey(b[j]) = GroupKey(b[i])}
Sooner(b, i) ==
    {j \in GroupOf(b, i) : \/ b[j].length < b[i].length
                           \/ b[j].length = b[i].length /\ j < i}

\* Where a request goes: its group, known by its first request, and the chunk of that group.
Place(b, i) == <<Min(GroupOf(b, i)), Cardinality(Sooner(b, i)) \div BatchSize>>
Places(b) == {Place(b, i) : i \in DOMAIN b}
EarlierPlaces(b, p) == {q \in Places(b) : q[1] < p[1] \/ (q[1] = p[1] /\ q[2] < p[2])}

\* A set in the order in which before[x] are the members that precede x.
InOrder(S, before) ==
    [k \in 1 .. Cardinality(S) |->
        CHOOSE x \in S : Cardinality(S \cap before[x]) = k - 1]

\* HuggingFaceLLM.generate_batch groups, sorts and cuts; the others take one at a time.
ChunksOf(s, b) ==
    IF s.backend # "huggingface" THEN [i \in DOMAIN b |-> <<i>>]
    ELSE LET places == InOrder(Places(b), [p \in Places(b) |-> EarlierPlaces(b, p)])
         IN [k \in DOMAIN places |->
                InOrder({i \in DOMAIN b : Place(b, i) = places[k]},
                        [i \in DOMAIN b |-> Sooner(b, i)])]

-----------------------------------------------------------------------------
(* Actions. *)

Idle == spec = None \/ chunks = << >> \/ failure # None

\* A constructor may lack its URL or its key (BackendConfigurationError).
Ask ==
    /\ Idle /\ asked < MaxBatches
    /\ \E s \in Specs, b \in Batches :
          /\ spec' = s /\ batch' = b
          /\ chunks' = ChunksOf(s, b)
          /\ failure' = IF s.configured THEN None ELSE [at |-> None, last |-> "configuration"]
    /\ asked' = asked + 1 /\ posts' = 0 /\ results' = << >>
    /\ UNCHANGED <<draws, made>>

\* The outputs of a chunk go where its requests were.
Give(outputs) ==
    LET chunk == Head(chunks)
        at(i) == CHOOSE k \in DOMAIN chunk : chunk[k] = i
    IN /\ results' = [i \in DOMAIN results \cup ToSet(chunk) |->
                         IF i \in ToSet(chunk) THEN outputs[at(i)] ELSE results[i]]
       /\ chunks' = Tail(chunks)
       /\ posts' = 0

Output(r, settings, logprobs, said, finish) ==
    [request |-> r, settings |-> settings, logprobs |-> logprobs, said |-> said,
     finish |-> finish]

\* One batch of HuggingFaceLLM._run, with the settings of its first request.  A text ends with
\* a token or a string that stops it, or is as long as it may be.
RunLocal ==
    /\ ~Idle /\ spec.backend = "huggingface"
    /\ LET chunk == Head(chunks)
       IN \E texts \in [DOMAIN chunk -> Texts \X {"stop", "length"}] :
             Give([k \in DOMAIN chunk |->
                     Output(batch[chunk[k]], Settings(batch[Head(chunk)]),
                            batch[chunk[k]].logprobs, texts[k][1], texts[k][2])])
    /\ UNCHANGED <<draws, asked, spec, batch, failure, made>>

Simulate ==
    /\ ~Idle /\ spec.backend = "simulated"
    /\ LET r == batch[Head(chunks)[1]]
           said == Simulated(spec, r, draws[SeededBy(spec, r)])
       IN /\ Give(<<Output(r, Settings(r), r.logprobs, said.text, "stop")>>)
          /\ made' = made \cup {<<RequestKey(spec, r), said>>}
    /\ UNCHANGED <<draws, asked, spec, batch, failure>>

\* 429, 5xx, and a connection that cannot be opened.
Transient == {"too many", "server error", "unreachable"}
\* Any other 4xx; an answer without choices; and what _post does not catch: a connection
\* lost or too slow while the answer is read, and an answer that is not JSON.
Lasting == {"client error", "malformed", "broken off"}

Answered ==
    /\ ~Idle /\ spec.backend = "openai_compatible"
    /\ LET r == batch[Head(chunks)[1]]
       IN \E text \in Texts, lps \in {r.logprobs, FALSE} :
             Give(<<Output(r, Settings(r), lps, text, "stop")>>)
    /\ UNCHANGED <<draws, asked, spec, batch, failure, made>>

Refused ==
    /\ ~Idle /\ spec.backend = "openai_compatible"
    /\ \E error \in Transient \cup Lasting :
          IF error \in Transient /\ posts < MaxRetries
          THEN posts' = posts + 1 /\ UNCHANGED failure
          ELSE failure' = [at |-> Head(chunks)[1], last |-> error] /\ UNCHANGED posts
    /\ UNCHANGED <<draws, asked, spec, batch, chunks, results, made>>

Init ==
    /\ draws \in [Seeds -> 0 .. Odds - 1]
    /\ asked = 0 /\ spec = None /\ batch = << >> /\ chunks = << >> /\ posts = 0
    /\ results = << >> /\ failure = None /\ made = {}

\* Every batch has been asked for.
Ended == Idle /\ asked = MaxBatches /\ UNCHANGED vars

Next == Ask \/ RunLocal \/ Simulate \/ Answered \/ Refused \/ Ended

Spec == Init /\ [][Next]_vars

-----------------------------------------------------------------------------
(* Properties. *)

\* A batch comes back whole, each request answered at its own place, by an output generated
\* with its own settings and with the log-probabilities it asked for (a server may have none
\* to give), although requests were grouped, sorted and cut into chunks; or it fails because
\* a request was refused for good, or was refused once and by every retry.
AnsweredOrRefused ==
    /\ spec # None /\ Idle /\ failure = None =>
          \A i \in Indices :
              /\ i \in DOMAIN results
              /\ results[i].request = batch[i]
              /\ results[i].settings = Settings(batch[i])
              /\ results[i].logprobs => batch[i].logprobs
    /\ failure # None /\ failure.at # None =>
          /\ \A i \in 1 .. failure.at - 1 : i \in DOMAIN results
          /\ failure.last \in Transient => posts = MaxRetries

\* cache.py: leaving out "its trusted reference and call-purpose fields can collide", and
\* simulated.py: otherwise "cached and uncached runs of the same request could differ":
\* whatever a simulator answers to a request, it answers to every request of the same key, so
\* a cached answer is the one an uncached run would give.
KeysDetermineOutputs == \A a, b \in made : a[1] = b[1] => a[2] = b[2]
=============================================================================
