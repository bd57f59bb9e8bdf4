-------------------------- MODULE RouteGuardService --------------------------
(***************************************************************************)
(* The inference side of the HTTP API (apps/api/service.py,                *)
(* RouteGuardService): request threads that read a configuration file,     *)
(* share one registry of pipelines behind a lock, run a pipeline outside   *)
(* of it and keep the traces of the latest answers.  The operator edits    *)
(* the configuration files and restarts the server while it is used.       *)
(*                                                                         *)
(* Under the lock only the construction of a pipeline takes long, and only *)
(* it is split: the other sections that take the lock are one step each,   *)
(* possible while nobody holds it.                                         *)
(*                                                                         *)
(* A definition commented as a slip is not part of the model: it is the    *)
(* definition that follows it with a plausible mistake, and PROJECT.json   *)
(* names the property that is violated when it is used instead.            *)
(***************************************************************************)
EXTENDS Integers, Sequences, FiniteSets

CONSTANTS
    Threads,     \* the threads that run the (synchronous) route functions
    ConfigIds,   \* the stems of configs/*.yaml
    Models,      \* model names
    Requests,    \* what clients may post
    Contents,    \* what a configuration file may contain
    TraceLimit,  \* RouteGuardService.trace_limit
    NoOne,       \* the holder of a free lock
    NoFile,      \* a configuration file that is not there, or was not read yet
    MaxAsked, MaxEdits, MaxRestarts  \* bounds

Routers == {"simple", "learned", "oracle"}

\* valid: it parses into a PipelineConfig; simulated: every backend is; learned: the router,
\* and parts: the task classifier or the difficulty estimator, has to be fitted.
ContentType ==
    [valid : BOOLEAN, simulated : BOOLEAN, models : SUBSET Models, router : Routers,
     parts : BOOLEAN]

\* fixture: the question and the answer type are one of the demo's, and there is no context.
RequestType ==
    [config : ConfigIds, manual : BOOLEAN, model : Models, verification : BOOLEAN,
     escalation : BOOLEAN, fixture : BOOLEAN]

ASSUME ContentAssumption == Contents \subseteq ContentType
ASSUME RequestAssumption == Requests \subseteq RequestType /\ Requests # {}
ASSUME LimitAssumption == TraceLimit \in Nat
ASSUME NobodyAssumption == NoOne \notin Threads /\ NoFile \notin Contents
ASSUME BoundAssumption == MaxAsked \in Nat /\ MaxEdits \in Nat /\ MaxRestarts \in Nat

VARIABLES
    files,     \* configs/*.yaml
    lock,      \* the holder of _lock
    built,     \* history: the configuration of every pipeline this process completed
    registry,  \* _pipelines: the positions in built that are registered
    traces,    \* the keys of _traces, oldest first
    stored,    \* history: traces ever stored; the n-th gets trace id n
    lost,      \* history: traces stored by processes that have ended
    pc, request,
    content,   \* the configuration file as the thread read it
    pipeline,  \* the pipeline it got, a position in built
    gold,      \* whether its query carries the reference answer
    status,    \* the HTTP status it answered last
    trace,     \* the trace id it returned, or was asked for
    asked, edits, restarts

server == <<lock, built, registry, traces, stored, lost>>
locals == <<pc, request, content, pipeline, gold, status, trace>>
vars == <<files, server, locals, asked, edits, restarts>>

-----------------------------------------------------------------------------
(* What a request asks for. *)

\* The configuration that runs: the file's, with the request's router and switches.
Effective(c, r) ==
    [models |-> c.models, simulated |-> c.simulated, parts |-> c.parts,
     router |-> IF r.manual THEN "simple" ELSE c.router,
     fixed |-> IF r.manual THEN {r.model} ELSE {},
     verification |-> r.verification, escalation |-> r.escalation]

ConfigType ==
    [models : SUBSET Models, simulated : BOOLEAN, parts : BOOLEAN, router : Routers,
     fixed : SUBSET Models, verification : BOOLEAN, escalation : BOOLEAN]

\* RouteGuardPipeline.needs_training_data: the oracle does not say it requires a fit.
NeedsTraining(config) == config.parts \/ config.router = "learned"

\* Slip: the routers that are fitted are forgotten.
ReadyWhateverTheRouter(c) == ~c.parts

\* ConfigurationInfo.ready_for_inference of a file, as /configurations lists it.
Ready(c) == ~c.parts /\ c.router \notin {"learned", "oracle"}

\* Slip: the switches of the request are not part of the key.
KeyWithoutSwitches(config) ==
    <<config.models, config.simulated, config.parts, config.router, config.fixed>>

\* The registry's key is the whole configuration.
Key(config) ==
    <<config.models, config.simulated, config.parts, config.router, config.fixed,
      config.verification, config.escalation>>

Wanted(t) == Effective(content[t], request[t])
Registered(t) == {p \in registry : Key(built[p]) = Key(Wanted(t))}

Init ==
    /\ files \in [ConfigIds -> Contents \cup {NoFile}]
    /\ lock = NoOne
    /\ built = << >> /\ registry = {}
    /\ traces = << >> /\ stored = 0 /\ lost = 0
    /\ pc = [t \in Threads |-> "idle"]
    /\ request = [t \in Threads |-> CHOOSE r \in Requests : TRUE]
    /\ content = [t \in Threads |-> NoFile]
    /\ pipeline = [t \in Threads |-> 0]
    /\ gold = [t \in Threads |-> FALSE]
    /\ status = [t \in Threads |-> 0]
    /\ trace = [t \in Threads |-> 0]
    /\ asked = 0 /\ edits = 0 /\ restarts = 0

Answer(t, code) ==
    /\ status' = [status EXCEPT ![t] = code]
    /\ pc' = [pc EXCEPT ![t] = "idle"]

Go(t, label) == pc' = [pc EXCEPT ![t] = label] /\ UNCHANGED status

-----------------------------------------------------------------------------
(* POST /inference: RouteGuardService.infer. *)

Post(t) ==
    /\ pc[t] = "idle"
    /\ asked < MaxAsked
    /\ asked' = asked + 1
    /\ \E r \in Requests : request' = [request EXCEPT ![t] = r]
    /\ content' = [content EXCEPT ![t] = NoFile]
    /\ pipeline' = [pipeline EXCEPT ![t] = 0]
    /\ gold' = [gold EXCEPT ![t] = FALSE]
    /\ trace' = [trace EXCEPT ![t] = 0]
    /\ status' = [status EXCEPT ![t] = 0]
    /\ pc' = [pc EXCEPT ![t] = "config"]
    /\ UNCHANGED <<files, server, edits, restarts>>

\* The file is read again for every request; a manual model must be in it.
ReadConfig(t) ==
    LET c == files[request[t].config]
    IN /\ pc[t] = "config"
       /\ content' = [content EXCEPT ![t] = c]
       /\ CASE c = NoFile -> Answer(t, 404)
            [] c # NoFile /\ ~c.valid -> Answer(t, 500)
            [] c # NoFile /\ c.valid /\ request[t].manual /\ request[t].model \notin c.models ->
                   Answer(t, 400)
            [] OTHER -> Go(t, "registry")
       /\ UNCHANGED <<files, server, request, pipeline, gold, trace, asked, edits, restarts>>

\* Slip: the lock is not taken.
FindPipelineUnlocked(t) ==
    /\ pc[t] = "registry"
    /\ IF Registered(t) = {}
          THEN Go(t, "build") /\ UNCHANGED pipeline
          ELSE /\ pipeline' = [pipeline EXCEPT ![t] = CHOOSE p \in Registered(t) : TRUE]
               /\ Go(t, "query")
    /\ UNCHANGED <<files, server, request, content, gold, trace, asked, edits, restarts>>

\* `with self._lock: if key not in self._pipelines`.
FindPipeline(t) ==
    /\ pc[t] = "registry"
    /\ lock = NoOne
    /\ IF Registered(t) = {}
          THEN lock' = t /\ Go(t, "build") /\ UNCHANGED pipeline
          ELSE /\ pipeline' = [pipeline EXCEPT ![t] = CHOOSE p \in Registered(t) : TRUE]
               /\ Go(t, "query")
               /\ UNCHANGED lock
    /\ UNCHANGED <<files, built, registry, traces, stored, lost, request, content, gold, trace,
                   asked, edits, restarts>>

\* Slip: the pipeline is registered, then refused.
RegistryWithTheUnfitted(t) == registry \cup {Len(built) + 1}

\* An unfitted pipeline is refused, not registered.
RegistryAfter(t) ==
    IF NeedsTraining(Wanted(t)) THEN registry ELSE registry \cup {Len(built) + 1}

\* The constructor returns: the pipeline is refused, or registered and used.
BuildPipeline(t) ==
    /\ pc[t] = "build"
    /\ built' = Append(built, Wanted(t))
    /\ registry' = RegistryAfter(t)
    /\ pipeline' = [pipeline EXCEPT ![t] = Len(built) + 1]
    /\ IF NeedsTraining(Wanted(t)) THEN Answer(t, 400) ELSE Go(t, "query")
    /\ lock' = NoOne
    /\ UNCHANGED <<files, traces, stored, lost, request, content, gold, trace, asked, edits,
                   restarts>>

\* Slip: the lock is released after the registration only.
FailToBuildLocked(t) ==
    /\ pc[t] = "build"
    /\ \E code \in {500, 503} : Answer(t, code)
    /\ UNCHANGED <<files, server, request, content, pipeline, gold, trace, asked, edits,
                   restarts>>

\* The constructor raises: a dependency is missing (503), or an option, a rule or the corpus
\* is wrong (500).  The exception leaves the `with`, which releases the lock.
FailToBuild(t) ==
    /\ pc[t] = "build"
    /\ \E code \in {500, 503} : Answer(t, code)
    /\ lock' = NoOne
    /\ UNCHANGED <<files, built, registry, traces, stored, lost, request, content, pipeline,
                   gold, trace, asked, edits, restarts>>

\* pipeline.pool.simulated.
Simulated(t) == built[pipeline[t]].simulated

\* _query, which takes the lock to read the demo's fixtures; they may not parse (500).
BuildQuery(t) ==
    LET demo == Simulated(t) /\ request[t].config = "demo"
    IN /\ pc[t] = "query"
       /\ demo => lock = NoOne
       /\ \/ gold' = [gold EXCEPT ![t] = demo /\ request[t].fixture] /\ Go(t, "run")
          \/ demo /\ Answer(t, 500) /\ UNCHANGED gold
       /\ UNCHANGED <<files, server, request, content, pipeline, trace, asked, edits, restarts>>

\* pipeline.run, outside the lock; an oracle without outcomes raises a KeyError.
Run(t) ==
    /\ pc[t] = "run"
    /\ built[pipeline[t]].router # "oracle"
    /\ Go(t, "store")
    /\ UNCHANGED <<files, server, request, content, pipeline, gold, trace, asked, edits,
                   restarts>>

FailToRun(t) ==
    /\ pc[t] = "run"
    /\ \E code \in {500, 503} : Answer(t, code)
    /\ UNCHANGED <<files, server, request, content, pipeline, gold, trace, asked, edits,
                   restarts>>

\* Slip: the newest trace is evicted.
KeptOldest(ids) == IF Len(ids) <= TraceLimit THEN ids ELSE SubSeq(ids, 1, TraceLimit)

\* `while len(self._traces) > self.trace_limit: popitem(last=False)`.
Kept(ids) ==
    IF Len(ids) <= TraceLimit THEN ids ELSE SubSeq(ids, Len(ids) - TraceLimit + 1, Len(ids))

\* The trace is stored, the oldest ones evicted, and the response returned.
StoreTrace(t) ==
    /\ pc[t] = "store"
    /\ lock = NoOne
    /\ stored' = stored + 1
    /\ traces' = Kept(Append(traces, stored'))
    /\ trace' = [trace EXCEPT ![t] = stored']
    /\ Answer(t, 200)
    /\ UNCHANGED <<files, lock, built, registry, lost, request, content, pipeline, gold, asked,
                   edits, restarts>>

-----------------------------------------------------------------------------
(* GET /traces/{trace_id} for an id some client was given, the operator, and the server. *)

ViewTrace(t) ==
    /\ pc[t] = "idle"
    /\ lock = NoOne
    /\ \E id \in 1 .. stored :
          /\ trace' = [trace EXCEPT ![t] = id]
          /\ status' = [status EXCEPT ![t] =
                           IF \E n \in 1 .. Len(traces) : traces[n] = id THEN 200 ELSE 404]
    /\ UNCHANGED <<files, server, pc, request, content, pipeline, gold, asked, edits,
                   restarts>>

EditConfig ==
    /\ edits < MaxEdits
    /\ edits' = edits + 1
    /\ \E id \in ConfigIds, c \in Contents \cup {NoFile} : files' = [files EXCEPT ![id] = c]
    /\ UNCHANGED <<server, locals, asked, restarts>>

\* Nothing of the service survives its process; the clients keep their trace ids.
Restart ==
    /\ restarts < MaxRestarts
    /\ restarts' = restarts + 1
    /\ lock' = NoOne
    /\ built' = << >> /\ registry' = {}
    /\ traces' = << >> /\ lost' = stored
    /\ pc' = [t \in Threads |-> "idle"]
    /\ content' = [t \in Threads |-> NoFile]
    /\ pipeline' = [t \in Threads |-> 0]
    /\ gold' = [t \in Threads |-> FALSE]
    /\ status' = [t \in Threads |-> 0]
    /\ trace' = [t \in Threads |-> 0]
    /\ UNCHANGED <<files, stored, request, asked, edits>>

-----------------------------------------------------------------------------
Step(t) ==
    \/ ReadConfig(t)
    \/ FindPipeline(t)
    \/ BuildPipeline(t)
    \/ FailToBuild(t)
    \/ BuildQuery(t)
    \/ Run(t)
    \/ FailToRun(t)
    \/ StoreTrace(t)

Next ==
    \/ \E t \in Threads : Post(t) \/ ViewTrace(t) \/ Step(t)
    \/ EditConfig
    \/ Restart

\* A thread that serves a request goes on; nobody has to ask, to edit or to restart.
Spec == Init /\ [][Next]_vars /\ \A t \in Threads : WF_vars(Step(t))

-----------------------------------------------------------------------------
(* Properties. *)

\* The registry, the trace store and the threads hold what the code puts there.
TypeOK ==
    /\ files \in [ConfigIds -> Contents \cup {NoFile}]
    /\ lock \in Threads \cup {NoOne}
    /\ built \in Seq(ConfigType)
    /\ registry \subseteq 1 .. Len(built)
    /\ traces \in Seq(1 .. stored)
    /\ stored \in Nat /\ lost \in 0 .. stored
    /\ pc \in [Threads -> {"idle", "config", "registry", "build", "query", "run", "store"}]
    /\ request \in [Threads -> Requests]
    /\ content \in [Threads -> Contents \cup {NoFile}]
    /\ pipeline \in [Threads -> 0 .. Len(built)]
    /\ gold \in [Threads -> BOOLEAN]
    /\ status \in [Threads -> {0, 200, 400, 404, 500, 503}]
    /\ trace \in [Threads -> 0 .. stored]
    /\ asked \in Nat /\ edits \in Nat /\ restarts \in Nat

\* A configuration is built once however many threads ask for it at the same time, so all of
\* them share one model pool, and with it one copy of each model's weights.
OnePipelinePerConfiguration ==
    \A p, q \in registry : built[p] = built[q] => p = q

\* The pipeline a thread runs is the one for the file as it read it and for the router and the
\* switches of its own request: never that of another request or of the file before an edit.
RunsWhatWasAsked ==
    \A t \in Threads : pc[t] \in {"query", "run", "store"} =>
        built[pipeline[t]] = Effective(content[t], request[t])

\* A pipeline with components that were never fitted does not answer queries, neither for the
\* request that made the service build it nor for any later one.
UnfittedNeverServed ==
    \A t \in Threads : pc[t] \in {"query", "run", "store"} =>
        ~NeedsTraining(built[pipeline[t]])

\* A configuration listed as ready is never refused as unfitted.
ReadyIsServed ==
    \A t \in Threads :
        (/\ status[t] = 400
         /\ request[t].manual => request[t].model \in content[t].models)
            => ~Ready(content[t])

\* The store is bounded, and a trace id whose trace is not available was given by an earlier
\* process, or trace_limit later traces have been stored.
LatestTracesServed ==
    /\ Len(traces) <= TraceLimit
    /\ \A t \in Threads : status[t] = 404 /\ trace[t] # 0 =>
          trace[t] <= lost \/ trace[t] + TraceLimit <= stored

\* Every request is answered: a pipeline that cannot be built does not leave the others waiting
\* for the lock.
RequestsAnswered == \A t \in Threads : pc[t] = "config" ~> pc[t] = "idle"
=============================================================================
