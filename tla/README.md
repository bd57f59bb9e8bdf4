# RouteGuard-LLM: specification and proofs

TLA+ models of RouteGuard-LLM, checked with TLC and proved with TLAPS. The models are
translated from the code (`src/routeguard`, `src/apps/api`, `src/scripts`); where the documentation
and the code disagree the code is what is modelled, and the disagreement is listed below under
*Findings*. `PROJECT.json` maps every definition to the lines it stands for.

## The system

RouteGuard answers a query with one model of a pool, judges whether the answer is reliable, and
escalates when it is not. The same pipeline is used by a benchmark runner, an HTTP API and a
command line.

| Part | State it keeps | Operations | Interacts with |
|---|---|---|---|
| Query pipeline (`pipeline.py`, `context.py`, `escalation/`, `verification/__init__.py`, `tools/agent.py`) | per run: the attempts, the ledger of model calls, the next stage; per pipeline: thresholds, fitted components | `run`, `attempt`, `finalize_attempt`, the stages, `triggers`, `select_final`, the fits | calls the pool for everything it generates; is called by runner, API and CLI |
| Generation cache and pool (`models/cache.py`, `models/pool.py`) | a SQLite table; per process: wrapped models, loaded backends | `ModelPool.get`, `generate_batch`, `get`, `put_many` | shared by all threads of a process and by all systems of an experiment |
| Backends (`models/openai_compat.py`, `huggingface.py`, `simulated.py`) | weights, or nothing | `generate`, `generate_batch`, retries | called by the cache; raise |
| Calibration and risk control (`confidence/calibration.py`, `selective.py`) | calibrators and thresholds per model | `CalibrationBank.fit`, `predict`, `risk_controlled_threshold` | fitted by the runner, read by the policy |
| Confidence, verification, difficulty, routing | fitted parameters | `score`, `verify`, `estimate`, `route` | called by the pipeline, through `CallContext` |
| Data and splits (`benchmarks/loaders.py`, `splits.py`) | none across calls | `load_all`, `make_splits`, `check_disjoint` | feed the runner |
| Experiment runner (`experiments/runner.py`, `tracking/run.py`) | a run directory: manifest, records, report | `run`, `run_system`, `fit`, `_warm` | writes what `evaluate`, `publish_results.py` and the API read |
| Evaluation and publication (`evaluation/`, `scripts/publish_results.py`) | report files; the published results | `build_record`, `build_report`, `evaluate`, `plot`, `publish` | read the records of a run |
| Sharded generation (`experiments/sharding.py`, `scripts/cluster/`) | one cache file per task, the merged cache | `generate`, `cache-merge`, the batch scripts | prepares the cache of a benchmark |
| Inference service (`apps/api`) | pipelines by configuration, the latest traces, a lock | `POST /inference`, `GET /traces`, `/configurations`, `/experiments...` | threads of the server; configuration files; run directories |
| Web page (`apps/web/app/page.tsx`) | selected configuration, models, request in flight | submit, cancel, switch | the API |
| Analysis, prompts, tools, retrieval, plots | none across calls | pure functions | |

What is hard here, and what each part has to get right:

* **Pipeline.** A long sequence of steps over two growing lists (attempts and calls) that are later
  related by *position*: the overhead is a slice of the ledger, the final answer an index found
  by value. Stages are skipped, pinned to models or exhausted; two tables of thresholds apply to
  different attempts; any step may raise. It must charge every call to the attempt that made it,
  accept nothing below a certificate, and give up only when nothing is left to try.
* **Cache and pool.** Threads that check, generate and save without holding a lock throughout;
  failures and kills between chunks. Each request must get its own answer, saved work must
  survive, and what is saved must not be generated again.
* **Backends.** Batches grouped, sorted and cut before they are generated and put back in place; some
  errors retried and others not; a simulator whose answers must depend on nothing a cache key
  leaves out.
* **Fitting.** Seven things are fitted one after the other, each on what an earlier one produces. Nothing
  may learn from what it is tested on, a threshold must be certified on scores made the way they
  are made in service, and the batches generated in advance must be the requests made later.
* **Service.** Threads that wait for one lock while a pipeline is built and may fail to build, files
  that change between two reads, a bounded store of traces.
* **Experiment files.** Several processes without any lock between them, each of which may be
  killed between two writes. A manifest must not promise what is not on disk, a failure must
  not pass for a success, published numbers must be of one run.
* **Evaluation.** Many numbers computed apart from the same records, of runs that are whole or not. They
  must tell one story, and a comparison must be made over the same items.
* **Sharding.** Tasks killed, requeued and merged late. The shards must stay the plan, and a request
  that was answered must keep that answer.
* **Risk control.** A test sequence whose guarantee depends on where it starts and where it stops.

`PROJECT.json` lists the hazards at their lines, with the properties that cover each one.

## The modules

| Module | Models | Proofs |
|---|---|---|
| `EscalationProtocol` | what a caller of `run()` relies on: tries, a budget, an answer | |
| `RouteGuardPipeline` | `RouteGuardPipeline.run`, statement by statement | `RouteGuardPipelineProofs` |
| `Routing` | the decisions of the routers, as functions of what they look at | `FittingProofs` |
| `Fitting` | `load_all`, `make_splits`, `BenchmarkRunner.fit`, the `fit_*` methods, `CalibrationBank`, serving | `FittingProofs` |
| `RiskControl` | `risk_controlled_threshold` | `FittingProofs` |
| `GenerationCache` | `ModelPool.get`, `CachedLLM.generate_batch`, the table | `GenerationCacheProofs` |
| `Backends` | the three backends, and the request key of the cache | `BackendsProofs` |
| `RouteGuardService` | `RouteGuardService.infer`, `_pipeline`, `_query`, `trace` | `RouteGuardServiceProofs` |
| `MixtureFrontier` | `mixture_frontier`, its interpolation, `pareto_front` | `EvaluationProofs` |
| `Evaluation` | from pipeline results to records, metrics, failure labels and reports | `EvaluationProofs` |
| `ExperimentRuns` | `routeguard benchmark`, `evaluate`, `publish_results.py` on disk | `ExperimentRunsProofs` |
| `ShardedGeneration` | `generate`, `cache-merge`, the batch scripts, replays | `ShardedGenerationProofs` |

`Fitting` extends `Routing` and `Evaluation` extends `MixtureFrontier`; the other modules meet at what one
leaves for the next. `Fitting` leaves the thresholds that are constants of `RouteGuardPipeline`, whose
value `RiskControl` computes; `RouteGuardPipeline` returns the attempts `Evaluation` makes records of;
`ExperimentRuns` counts those records on disk; `ShardedGeneration` fills the cache that `GenerationCache`
reads, and `Backends` answers what `GenerationCache` does not find.

Every model that is run has an `MC...` module with constants for TLC. A definition commented as a *slip*
is the next definition with a plausible mistake, and never part of the model; with it in place the
property named in `PROJECT.json` fails, which shows that the property depends on that code.

### RouteGuardPipeline

A behaviour is one query. `pc` is the statement `run()` is at, `current` the attempt being built,
`attempts` and `calls` the two lists, `nextStage` and `ran` the loop's counters. A model is its
tier. Scores are levels on a grid `0 .. Top`; an infinite threshold is `Top + 1`. Answers are
abstract, `None` is an answer that could not be extracted. What models, judges and estimators
say is nondeterministic: `\E` over answers, levels and verdicts. `GenerateVote` keeps the
arithmetic of majority voting (`Counter.most_common` prefers the first of equal clusters),
`VerificationOver` the early stop of the composite verifier, `ToolTurn` the loop of the agent,
`Threshold` the fall-backs of `threshold_for`, `Eligible` the cascade of `select_final`. In `Select`
the index is found by value as `attempts.index(final)` does: attempts equal in what the model
keeps may differ in text, so any equal one may be found. `Raise` is an exception from any
step that can call a backend.

`ImplementsProtocol` maps a run to `EscalationProtocol`: an assessed attempt is a try, and routing,
scoring, verifying and skipped stages are invisible.

### Fitting and Routing

`Fitting` represents what a component has learned by *what it was fitted on*: `classifier` and
`difficulty` are sets of items, `router` the items and, for each, the items behind the difficulty score
it came with; `bank` maps a key (model, language) to the items of a calibrator, or of the constant
that replaces it for a single class; a threshold is the items it was certified on, the calibrator each
score went `through`, and the router `by` which those items reached the model. `phase` is the step of
`fit()`. `Split` is `make_splits`: any partition of the groups of each stratum with the rounded sizes and
their corrections, since the shuffle may give any; how many positions of a stratum each side takes is counted as
the loop compares them. `Warm` is `_warm`, `asked` the requests made one
by one later: a request is the item, its purpose and the classifier its prompt depends on (every model is asked
alike, so it is not named). What is asked and what is warmed are built apart, as in the code. `Batch` is what
`_warm` builds from the estimator's `n_samples`; `Assessed` is what `attempt` asks for, with the samples of
an estimator that samples or of an ensemble's member that does, and the judge of the answer;
`Estimated` the question to an LLM that judges difficulty, which the router's examples, conditional
calibration and serving ask. `WarmedFirst` claims of it what `_warm` is for: initial answers, and the samples
of an estimator that itself samples. Judges are never warmed, and of an ensemble no sample is.
`OutOfFoldScores` is `_out_of_fold_difficulty` over every deal of the examples into folds. `Serve` routes and
scores a test item with everything fitted.

`Routing` has the pure part: thresholds on a score, the expected tier, the rules of the learned, cost-aware
and quality-cost routers with Python's tie rule (the first of the best), with probabilities and prices as
integers out of `Scale`. `RoutersAreMonotone` quantifies over all their inputs.

### GenerationCache

Every statement that reads or writes something shared is an action of a worker: the membership
test, the creation and the second read of `ModelPool.get`; one lookup per key; the unguarded
check and assignment of `inner`; a chunk generated; a chunk committed. An output is its position
in the history `generated`, so that two outputs of one request can be told apart. A failing
backend may have generated a part of the chunk; a crash keeps the table only.

### Backends

A behaviour is up to `MaxBatches` batches, each given to any model of the pool. `ChunksOf` is
the local backend's grouping by sampling settings, its sort and its chunks: the `Place` of a request is its group and
the chunk of that group, by how many requests of the group are `Sooner`, and `InOrder` lists places, and the
requests of one, by how many come before. `results` has the outputs so far by position; `Answered` and
`Refused` the server's answers to a post, with `Transient` errors retried up to `MaxRetries` and `Lasting`
ones raised; `Simulate` follows the simulator's rules for each purpose. Its random generator is
`draws`, one number for each seed tuple, chosen when a behaviour starts: two requests with one seed tuple see
one draw, as `random.Random` gives them. `RequestKey` is `request_key` before it is hashed.

### RouteGuardService

One thread per request in flight. The file is read, the registry searched under the lock, a missing
pipeline built while the lock is held, the query built, the pipeline run outside the lock, the
trace stored. Only the build keeps the lock for more than a step; the other critical sections
are one action each, enabled while nobody holds it. `Effective` is the configuration after the request's
changes. Not every router that has to be fitted says so: the oracle is built and registered, and
fails when it runs. `EditConfig` replaces or removes a file at any time, `Restart` ends the process.
`ViewTrace` may happen at any time, any number of times.

### RiskControl

Calibration answers are counted by confidence and outcome, so that all samples up to a size are
initial states. The bound of Clopper and Pearson is compared with the target through the binomial
tail, in integers: this is the same comparison without the rounding of `beta.ppf`. `ErrorTail` is that tail by
its last answer, `Power` the `math.log` comparison of the start without logarithms.

### Evaluation and MixtureFrontier

`Fit` starts the next system (for a baseline there is nothing to learn; the oracle is told every model's
outcome), `RunItem` runs it on the next item and appends its record, `Report` is the report of the
benchmark itself and `Evaluate` that of the command, at any moment and with any `--reference`. What
models say is drawn once for each *prompting*, the task classifier and model settings of a system: these
decide the requests a system sends (`prompts.py:71`, `runner.py:212`), and systems that share them send
the same requests, whose outputs the cache replays. Systems that differ get answers of their own, as in
`routeguard_ablations.yaml`, where `no_task_classification` and `oracle_task_labels` change the classifier.
`OracleIsUpperBound` and `FixedSystemsAreTheirModel` therefore compare a system only with those of its own
prompting: across classifiers neither is true of the code. That equal requests have equal outputs is
`cache_server`'s and `sharding`'s subject (finding 1 is the exception) or, without a cache, a deterministic
backend's. Models have the same names in every system, which the configuration validates. What the
scorer says of an answer is drawn when it is first asked and remembered only where the code caches it: an
answer that runs code can be scored again and time out. `Labels` is the error taxonomy,
`Rows` says which systems appear in each table, and `TablesRaise` and `FiguresRaise` where an unreported reference
makes the tables or the figures raise. The sets of records behind each rate stand for the
rates. `MixtureFrontier` has the upper hull as the code's loop builds it, one point a turn, and its
interpolation as a fraction. `InOrder` is `sorted` of a set: each point at the place its predecessors leave it.

### ExperimentRuns

`run` are the files, `end` and `owners` history. A JSON file is written in two steps, truncation and
content. Records reach the disk at any time between being written and the closing of the file;
a kill loses the rest. A part of a report is known by how many records of each file it was computed from.
`Raise` is an exception or interrupt the `try` around the systems handles; `RaiseOutside` one it does not: at
the first manifest, in the handler, at resource statistics or the last manifest, in the report. `Evaluate` is
`routeguard evaluate` of a run or of one file of it, which replaces the report of the whole run by that of
the file, with or without figures, and `routeguard plot`, the figures alone: hence `CompletedIsWhole` says
that a report counts no file in part, not that it counts all of them.
`publish` deletes and copies file by file. Evaluations of the files start after the benchmark has
ended; an evaluation of unfinished records is in `Evaluation`.

### ShardedGeneration

Requests are numbered in the order of their keys. A task works on its own file chunk by chunk, may be
killed, and is requeued with that file. A merge needs every task to be ended or killed, since
`local_multi_gpu.sh` goes on after `wait` whatever the tasks returned; it commits one file at a
time and may be killed in between. A benchmark answers from the merged cache and fills it.

## The runs

| Run | Asks | Size |
|---|---|---|
| `pipeline` | accounting, certified thresholds, the climb, the choice of the answer, termination, the refinement | 3 models, 3 score levels, 7 configurations covering every stage kind, verifier, estimator and selection rule |
| `fitting` | was anything learned from what it is tested on, are certificates about the scores they are applied to, were initial answers and samples generated in advance, are the routers monotone | 7 items of 5 groups in 2 languages and 2 strata, 3 choices of fractions, 2 limits, 9 systems covering every router, kind of confidence estimator, both LLM judges and kind of risk control |
| `risk_control` | where the scan starts and stops | up to 12 answers on 3 confidences, 2 settings |
| `cache_server` | do callers get their own answers, does interrupted work survive, do replays stay free, do batches end | 1 or 2 threads at work, batches with a duplicate across two chunks, 3 requests, a crash |
| `cache_generated_twice` | is a saved output final under two threads: no (finding 1) | 2 threads |
| `backends` | are batches answered in place or refused for a reason, do keys determine the simulators' answers | 2 simulators, a local model, a server with and without credentials; 5 kinds of batches, 2 of them |
| `service` | sharing, staleness, refusals, the trace store, progress of requests | 2 threads, 2 requests, 4 file contents, an edit, a restart, one trace kept |
| `evaluation` | do the numbers of a report agree with each other and with what was answered | a fixed model, the oracle and an ablation that routes with another classifier and escalates, every selection of them, an item and its translation |
| `experiment_runs` | directories, manifests, reports and publications under raises and kills | 2 benchmarks of one shell, 2 files of 2 records each, an evaluation |
| `experiment_early`, `experiment_same_second` | findings 2 and 3 | 2 shells, 1 file of 1 record |
| `sharding` | shards, merges and replays under kills and requeues | 3 tasks with ids from 1, 4 requests, 2 kills, 2 merges, 2 benchmarks |

The passing runs show that their properties hold on these instances, and each property is violated by the slip
`PROJECT.json` names for it.

**Bounds.** Three models are needed to climb twice and to pin a stage below a model already tried;
three levels give a threshold something below, at and above it. Two threads show every race of a
check and the act it guards; a third only repeats it. Chunks of two in a batch of three give one
full chunk, one partial one and a crash between them. Four grouped items and one alone in its stratum
give a translated pair to leak, a stratum whose rounding has to be corrected and one too small to be split;
`Folds` and `MinSamples` are two so that both sides of both limits occur; a `Scale` of four and a `PoolSize`
of three have ties and every order of three models. `BatchSize` two cuts a group of three,
`MaxRetries` two leaves a retry that is answered and one that is not, `Odds` two gives each request a sure, an
open and a hopeless case, and two batches are what it takes to ask one key twice. Two items and a
`Plain` one among them keep the verdicts of escalations apart from those of the oracle; `MaxPoints` four is the
smallest hull that pops twice. One trace kept of two answered requests shows what is dropped. Three tasks for
four requests make the shards unequal, and an array from 1 tells the index from the id. An evaluation that
leaves something out needs two files, and a file in part two records; a publication over another
needs two directories, which two benchmarks of one shell give, the second under a name with a suffix. Benchmarks of two
shells share no file but the directory they create, so only `experiment_same_second` has two at once; the proofs
are for any number of them. `Varied` is the models that answer otherwise when they are asked otherwise, one of the
two: what a system with another prompt gets from the other one is what all get. All
bounds (`MaxRequests`, `MaxCrashes`, `MaxBatches`, `MaxAsked`, `MaxEdits`, `MaxRestarts`, `MaxRuns`, `MaxEvaluations`,
`MaxKills`, `MaxMerges`, `MaxBenchmarks`, `MaxCount`) stand in guards or initial states and stop the environment,
never the program; `Varied` restricts the initial states.

**Fairness.** `run()` is sequential code and each of its backend calls returns, raises or times out,
so the pipeline has weak fairness of its next step. A worker of the cache, a request thread of
the service and a benchmark have weak fairness of their own steps; asking, editing, failing,
being killed and restarting have none. For `RequestsAnswered` a thread waits for a lock that others
take repeatedly; weak fairness is enough here because the number of requests is bounded, and
stands for the fairness of the lock itself: Python's `RLock` gives no order, so under an endless
stream of builds a thread could starve. Deadlock is not checked where a behaviour ends by itself:
a query is answered, a report evaluated, a bound is used up. `Fitting` and `Backends` state where they end, and are
checked for deadlock anywhere else.

## Proofs

TLAPS proves for all values of the constants, from the assumptions named in the modules:

* `RouteGuardPipelineProofs`. Type correctness; the ledger (`OverheadExact`: an invariant relates
  the attempt number of every call to the boundary and to the length of `attempts`); a reliable
  attempt is the last and is returned (`ReliableAttemptReturned`: while a stage is chosen or an
  attempt is built no assessed attempt is reliable); certificates (`AcceptedIsCertified`: an
  attempt keeps the triggers that fired when it was assessed, and the configuration does not
  change); the climb (`StrongerClimbs`: the attempt being built by a stronger_model stage is
  above all models tried); and the refinement (`RunImplementsProtocol`), whose budget needs the
  invariant that attempts are one more than the stages that ran. `AnswerKept` from `AnswerlessFails`: once the
  format check was reached an attempt without an answer has failed, so it fires a trigger and is never the
  reliable one. `GivesUpExhausted` from `Exhausting`: every stage the loop has passed left an attempt, is being
  built, or is of a kind that may not apply; the other kinds always have a model. `TriesAreCharged` from
  `Account`, the account by purpose of every judged attempt and of the one being built, where an
  attempt's judge calls are bounded by the judges among the verifiers it has reached; a charging step adds
  an interval of positions to one account and leaves the others as they were.
* `FittingProofs`, for any data, fractions and systems. `FittedOutOfSample` from `LearnedInv`: the splits
  are apart as whole groups, the classifier, the estimator and the router come from the training items,
  calibrators and thresholds from the calibration items, and a router's examples carry scores of folds
  they are not in. `ServedFromTheCache` from `Warmed`: once the batches are generated they hold the
  requests of all splits under the classifier in use, which does not change any more; whatever else an
  assessment or an estimate asks is of another purpose (`AssessedWarmed`, `EstimatesAreJudged`). `CertificatesApply`
  from `CertifiedInv`: the thresholds are certified with the bank and the router that serve, because
  nothing is fitted after them. `StrataTested`: the shares of a stratum end before its last position, and two
  disjoint sets of groups of these sizes do not fill it (`SomeGroupIsLeft`, by cardinalities). It needs the
  calibration share not to be negative, which `SplitConfig` does not validate: it checks the sum and the test
  share.
  `RouterDecisionsMonotone`, for any pool and grain: harder queries, higher targets and higher prices move the
  decision one way. The lemmas are that a set of naturals has a least element (so the first of the best
  exists) and that `ArgMax` is the first position of the best value.
  For the scan of `RiskControl`: it stays within the candidates; a threshold is certified only when all tested
  above it are; what it returns is the lowest such threshold (the invariant is that every level above the one
  tried next was passed over or certified, unless the scan stopped); and `StartAttainable`: no candidate is passed
  over for its size that could be certified. This rests on `NoErrorTail`, that the tail of no error is the power
  the start is computed from, which is an induction over the number of answers; see below.
* `GenerationCacheProofs`, for any threads, pools, batches, chunk sizes and crashes. `CacheInv` says that a row
  holds an output of its own request, and of each worker that the positions it has looked up are filled
  or missing, that all chunks before its cursor are saved, and that what it has generated is the chunk at
  the cursor, in its order. From it follow `OwnAnswers` and `OneChunkIsLost`. `FreeReplays` adds `ReplayInv`: rows
  are never removed, so what was saved when a batch began is found by its lookups; and of a thread
  that is alone, that an output was made for a request only while it had no row.
* `RouteGuardServiceProofs`. Type correctness together with an invariant on what a thread has read
  when it holds a pipeline; one pipeline per configuration (a thread that builds holds the lock,
  and nothing under its key was registered since it looked); a thread runs what it read
  (pipelines are only appended); unfitted pipelines are never registered; the trace store (the
  ids kept are consecutive and end with the latest); a ready configuration is not refused as unfitted
  (`ReadyAccepted`: a thread that serves a request has not answered it, so a refusal is about the file and the
  request it still holds).
* `ExperimentRunsProofs`. `Traceable`, for any constants, from the invariant that while files are copied there
  is no note and all that is there is of the source. Under `DistinctSeconds` (no two benchmarks of the
  experiment start in one second): type correctness, `DirectoriesAreUnshared` and `CompletedRunsAreWhole`. The
  invariant `RunInv` has `Names` (suffixes are below the number of benchmarks started, so a free one
  exists, and the one chosen stays free until it is made), `Fresh` (nothing is in a directory before it is
  made), `Progress` (the files a benchmark has gone past are whole, and it has promised nothing yet)
  and `Whole`. The assumption is needed: `experiment_same_second` is a counterexample without it.
* `ShardedGenerationProofs`. Type correctness; the strides cover the plan (division with remainder),
  are disjoint, and differ by one request at most (all but the first request of one slice moves
  injectively into another); so the files of ended tasks are a partition of the plan, from the
  invariant that a task saves only requests of its slice and ends with none missing; what
  benchmarks saw is final, from the invariant that every answer given is the one the merged cache
  holds; and a merge of ended tasks is complete, from the invariant that what a file had is in
  the merged cache once it was attached.

* `EvaluationProofs`, for any data, models, systems and scores. `EvaluationInv` says that the profile of an item
  holds what scoring said once it was fitted, that a record agrees with the profile and the scores, and
  that the records are those of the systems and items gone past. From it `OracleBoundsAll` (the oracle's tier is
  the weakest that the profile has right, and a first answer is scored once), `FixedAreTheirModel`,
  `MetricsAndLabelsAgree` (set by set, then by cardinality) and `OwnReportWhole` (when a run reports, every
  selected system has a record of every item, so no table raises and every pair is complete).
  Then the curves of `MixtureFrontier`, for any systems (`MixtureIsBest`, hence `GapFromTheBestMixture`).
  `InOrderIsAll`: the loops see every point once, in order. `IsHull` is the invariant of the hull loop: what it
  holds leads from the first point to the latest, and all points so far are on or below the line of every edge.
  It is inductive (`PushIsHull`) because turns compose (`TurnsCompose`): the new point is below the last edge that
  stays, so below all earlier ones (`BelowEarlier`); a point is below the new edge because it is below the one
  that ends where it starts (`BelowFromBefore`) or the one it replaces (`BelowReplaced`). After popping
  only once the new point may still be above the last edge that stays. The frontier is this hull up to its top
  (`FrontierIsToTop`), and nothing is above the top (`TopIsHighest`). A mixture of points below a line that does not
  fall is below it (`BelowTheLine`), and the interpolated value is itself a mixture.
  The Pareto loop keeps those that improve on all before them (`ImproveIsKept`).
* `BackendsProofs`, for any batches, sizes, retries and servers. `AnsweredInPlace` from `BatchInv`: a request
  without an output is in one of the chunks left (`NoneForgotten`), the requests of a chunk have one key, and
  every output is of the request at its position and made with its settings; `LocalChunks` shows that
  grouping, sorting and cutting leave no request out. `CachedAsUncached` from
  `FromSimulators`: what is made is what the simulators' rules say, and these look at a request through its
  key only (`SameKeySameOutput`).

Some of these proofs need induction over numbers. The library's induction theorems take operators, so the modules prove
what they need from the well-foundedness of finite sets: a set of naturals has a least element, hence one that
has 0 and the successors of its members is all of them (`SuccessorClosed`), hence iterating a function is a
function (`Iteration`, `LoopExists`), which is what a recursive definition has to be shown to be before it can be used.

The type invariants of these modules are proved rather than run. Every invariant a passing run checks is stated by a
theorem. Checked by TLC only is liveness (`Terminates`, `BatchesEnd`, `RequestsAnswered`, `VerdictReached`), which is
out of the prover's reach.

## Findings

Runs expected to be violated, each with the line it disagrees with in `PROJECT.json`:

1. `cache_generated_twice`: under the server's threads a request can be generated twice and the later
   output replaces the one already given (`models/cache.py`), where `docs/reproducibility.md` says
   each unique request is generated once.
2. `experiment_early`: a run that is still going, or was killed, has a manifest without a status
   and is published as finished.
3. `experiment_same_second`: two benchmarks of one experiment started in the same second can
   share a run directory.

Smaller disagreements met while translating, which the models follow the code in and no run is about:

* `confidence/calibration.py:6-8` says that a group with one class of outcomes falls back to the coarser
  group and that this is recorded; it gets a constant of its own, and `fallbacks` does not say so.
* `evaluation/errors.py:19` defines `incorrect_routing` by "escalation did not recover"; the label is only given
  when nothing was escalated, and what was escalated in vain is an `escalation_failure`.
* `evaluation/errors.py:50` reads the last attempt for `verifier_false_pass`; with `final_selection: most_confident`
  the answer returned may be an earlier one, which no verifier accepted, while line 28 says that a verifier
  accepted a wrong final answer.
* An exception or an interrupt in the handler itself or between the systems and the last manifest
  (`experiments/runner.py:304-313`) leaves a run without a status, though line 299 says that a failed run is recorded as
  failed; it has all its records and is published as finished. `VerdictReached` excepts it.
* `_warm` takes `n_samples` of the estimator itself (`experiments/runner.py:104`), which an ensemble has not: its members'
  samples are generated one query at a time, where the docstring (93-98) says that those of
  sampling-based confidence are cache hits. `WarmedFirst` leaves them out.
* `routeguard evaluate <run>/raw/x.jsonl`, as the help has it (`cli.py:338`), writes the report of one file over that of
  the run (`cli.py:180-181`).
* `benchmarks/loaders.py:90` keeps the same items of every language only if the data is fully parallel.
* `utils/seeding.py:18` says that sampled generations are seeded per request; `models/huggingface.py:184` seeds
  once per batch, from all of its requests, so that a sample depends on what it is generated with.
* The oracle router together with risk control conditional on routing raises a `KeyError`
  (`router/oracle.py:46`): it knows the outcomes of test items only. `Fitting` ends in `failed`.
* With an empty calibration split risk control silently falls back to `confidence_below` (`escalation/policy.py:39`).
* An answer of the local model cut at a stop string keeps the log-probabilities of what was cut.

## Not modelled, and why

* Language detection, task classification, features, prompt wording, answer extraction and text metrics
  are functions of strings and word lists, without control of their own. Learned estimators, regressors
  and calibration curves, bootstrap statistics and drawing compute with real numbers in third-party
  libraries; the models let them return anything.
* The loaders parse external data, retrieval scores documents, the dashboard and the read-only commands
  present results, the scripts start things up. Memory, GPU batches and the subprocess of the sandbox
  are outside the program's own state.
* The web page holds one request at a time; after a switch of configuration it keeps the old models until
  the new ones are loaded, and what it may send then the service refuses.
* The API's reads of experiments, over files that may be torn or republished meanwhile (listed as hazards), and
  two writers of one report at once.
* Some steps are coarser than the code, where no property depends on it. Routing cannot raise in
  `RouteGuardPipeline` (`pipeline.py:323-324` and the oracle's `KeyError` can), every judge is charged one call
  though it skips answer types it is not for (`verification/judge.py:29-30`), and an ensemble samples once, though
  several of its members may. `GroupKey` leaves out `top_p`, which `context.py:46` ties to the temperature,
  and the number of log-probabilities, which no caller sets. `ReadConfig` lists the configurations and reads the one asked for in
  one step. Benchmarks on one merged cache run one after the other; two at once have the race of finding 1.
  The shards' balance is proved of the plan of one model: `sharding.py:118-119` deals every model's plan from
  the same index, so totals may differ by as many requests as there are models.
* An evaluation or a plot of the files of a benchmark that is still writing them (its records alone are in
  `Evaluation`), and of a file with a torn last record, where it raises before it writes.
* Pools of one experiment with different cache settings, and arrays of tasks with gaps in their ids
  (`sharding.py:54` numbers by the smallest id): no shipped configuration or script has them.

## What is left

1. The API's reads of experiments over the files of `ExperimentRuns`, and concurrent writers of a report.
2. The page against the service: a request in flight, a configuration switched, stale models.
