------------------------------- MODULE Fitting -------------------------------
(***************************************************************************)
(* Loading a benchmark, fitting a system on its splits and serving its     *)
(* test items (load_all, make_splits, BenchmarkRunner.fit, the fit_*       *)
(* methods of RouteGuardPipeline, CalibrationBank).  What a component has  *)
(* learned is represented by what it was fitted on: items, and the         *)
(* components whose output it was given.  A query's group is the item it   *)
(* translates.                                                             *)
(*                                                                         *)
(* A definition commented as a slip is not part of the model: it is the    *)
(* definition that follows it with a plausible mistake.                    *)
(***************************************************************************)
EXTENDS Integers, Sequences, FiniteSets, FiniteSetsExt, Functions, Routing

CONSTANTS
    Items, Group, Lang, \* the data: items, the group and the language of each
    Limits,             \* the limits of items per language tried (None: all)
    Stratum,            \* the category of each group, which the splits are stratified by
    Fractions,          \* the [train, calibration] fractions tried, in twentieths
    Configs,            \* the systems tried
    Folds,              \* k of _out_of_fold_difficulty (bound: 5 in the code)
    MinSamples,         \* confidence.min_samples
    None

\* The routers that are fitted, and the others.
Supervised == {"learned", "cost_aware", "quality_cost"}
Routers == Supervised \cup {"fixed", "random", "oracle", "threshold", "rules"}

Groups == {Group[i] : i \in Items}
Languages == {Lang[i] : i \in Items}
GroupsOf(is) == {Group[i] : i \in is}
InStratum(s, gs) == {g \in gs : Stratum[g] = s}
Strata(gs) == {Stratum[g] : g \in gs}

ASSUME DataAssumption ==
    /\ DOMAIN Group = Items /\ DOMAIN Lang = Items /\ DOMAIN Stratum = Groups
    /\ None \notin Items \cup Languages
    /\ IsFiniteSet(Items)
ASSUME ConfigAssumption == \A c \in Configs : c.router \in Routers
\* SplitConfig._sum: "test fraction must be positive".
ASSUME FractionsAssumption ==
    \A f \in Fractions : f.train \in Int /\ f.calibration \in Nat /\ f.train + f.calibration < 20

Nothing == {}

VARIABLES
    loaded,      \* the items of the experiment
    config,      \* the configuration of the system
    fractions,   \* SplitConfig
    splits,      \* train, calibration and test items
    phase,       \* the step fit() is at, or "serve" or "failed"
    classifier,  \* the items the task classifier was fitted on
    warmed,      \* the requests generated in advance, in batches
    asked,       \* the requests made one by one
    difficulty,  \* the items the difficulty estimator was fitted on
    router,      \* the items the router was fitted on, and how each got its difficulty score
    bank,        \* calibration.calibrators: what each key was fitted on, and how
    thresholds, initialThresholds, \* EscalationPolicy: what each was certified on
    served       \* the last test item served, or None

\* What does not change after Init.
setting == <<loaded, config, fractions>>

vars == <<loaded, config, fractions, splits, phase, classifier, warmed, asked, difficulty,
          router, bank, thresholds, initialThresholds, served>>

-----------------------------------------------------------------------------
(* load_all and make_splits. *)

\* _take keeps the first items of each language in one order of the groups, so that languages
\* keep translations of the same items where they have them.
Orders == {o \in [Groups -> 1 .. Cardinality(Groups)] :
              \A g, h \in Groups : g # h => o[g] # o[h]}
Taken(limit) ==
    IF limit = None THEN {Items}
    ELSE {{i \in Items : Cardinality({j \in Items : /\ Lang[j] = Lang[i]
                                                   /\ o[Group[j]] < o[Group[i]]}) < limit} :
             o \in Orders}

LoadedGroups == GroupsOf(loaded)
Members(gs) == {i \in loaded : Group[i] \in gs}

\* round(n * f / 20), a half to the even neighbour.
Rounded(n, f) ==
    LET q == (n * f) \div 20
        r == (n * f) % 20
    IN IF 2 * r > 20 \/ (2 * r = 20 /\ q % 2 = 1) THEN q + 1 ELSE q

\* How many of n groups are for training and for calibration.
\* Slip: rounding may leave none for the test.
RoundedSizes(n, f) == [train |-> Rounded(n, f.train), calibration |-> Rounded(n, f.calibration)]
Sizes(n, f) ==
    LET calibration == Rounded(n, f.calibration)
        train == Rounded(n, f.train)
    IN [train |-> IF n >= 3 /\ train + calibration >= n
                     THEN Max({0, n - calibration - 1}) ELSE train,
        calibration |-> calibration]

\* Whole groups, shuffled, stratum by stratum: by its position, each goes to the training
\* items, to the calibration items or to the test items.
IsSplit(t, c) ==
    /\ t \cap c = {}
    /\ \A s \in Strata(LoadedGroups) :
          LET n == Cardinality(InStratum(s, LoadedGroups))
              size == Sizes(n, fractions)
              end == size.train + size.calibration
          IN /\ Cardinality(InStratum(s, t)) = Cardinality({i \in 0 .. n - 1 : i < size.train})
             /\ Cardinality(InStratum(s, c)) =
                   Cardinality({i \in 0 .. n - 1 : size.train <= i /\ i < end})

Split ==
    /\ phase = "split"
    /\ \E t, c \in SUBSET LoadedGroups :
          /\ IsSplit(t, c)
          /\ splits' = [train |-> Members(t), calibration |-> Members(c),
                        test |-> Members(LoadedGroups \ (t \cup c))]
    /\ phase' = "classifier"
    /\ UNCHANGED <<setting, classifier, warmed, asked, difficulty, router, bank, thresholds,
                   initialThresholds, served>>

-----------------------------------------------------------------------------
(* The task classifier and the warm-up. *)

\* LearnedTaskClassifier.fit: two categories or the rules.
\* Slip: the classifier is fitted on every item.
LabelledOf(is) == IF Cardinality({Stratum[Group[i]] : i \in is}) < 2 THEN Nothing ELSE is
ClassifierItemsOfAll == LabelledOf(loaded)
ClassifierItems == LabelledOf(splits.train)

\* A request holds the prompt, which depends on the category predicted for the item, except
\* where the difficulty is judged.  A judge of an answer is asked about what `by` led to.
Requests(is, purpose, by) == is \X {purpose} \X {by}
OfPurpose(requests, purpose) == {r \in requests : r[2] = purpose}

\* The estimator has n_samples.  Of an ensemble only a member may sample: it has none itself.
Sampling == config.confidence = "sampling"
MemberSamples == config.confidence = "ensemble"

\* What attempt() asks for, with assess=True, and DifficultyEstimator.estimate.
Assessed(is, by) ==
    Requests(is, "initial", by)
        \cup (IF Sampling \/ MemberSamples THEN Requests(is, "confidence_sample", by) ELSE {})
        \cup (IF config.judge THEN Requests(is, "verify_judge", by) ELSE {})
Estimated(is) ==
    IF config.judgedDifficulty THEN Requests(is, "difficulty_judge", Nothing) ELSE {}

\* What _warm builds for the items it samples.
Batch(is, by) ==
    Requests(is, "initial", by)
        \cup IF Sampling THEN Requests(is, "confidence_sample", by) ELSE {}

\* Slip: the samples of the calibration items are forgotten.
TestSamplesOnly(by) ==
    Requests(splits.train \cup splits.calibration, "initial", by) \cup Batch(splits.test, by)
AllSplits(by) ==
    Requests(splits.train, "initial", by) \cup Batch(splits.calibration \cup splits.test, by)

FitTaskClassifier ==
    /\ phase = "classifier"
    /\ classifier' = IF config.learnedTask THEN ClassifierItems ELSE Nothing
    /\ phase' = "warm"
    /\ UNCHANGED <<setting, splits, warmed, asked, difficulty, router, bank,
                   thresholds, initialThresholds, served>>

Warm ==
    /\ phase = "warm"
    /\ warmed' = AllSplits(classifier)
    /\ phase' = "train"
    /\ UNCHANGED <<setting, splits, classifier, asked, difficulty, router, bank,
                   thresholds, initialThresholds, served>>

-----------------------------------------------------------------------------
(* The difficulty estimator and the router. *)

NeedsTraining == config.learnedTask \/ config.learnedDifficulty \/ config.router \in Supervised

\* fit.train_languages, by the gold language.
Examples ==
    {i \in splits.train : config.trainLanguages = {} \/ Lang[i] \in config.trainLanguages}

\* order[fold::k] of any order.
Deals(is) ==
    {f \in [is -> 1 .. Folds] :
        \A a, b \in 1 .. Folds :
            Cardinality({i \in is : f[i] = a}) <= Cardinality({i \in is : f[i] = b}) + 1}

\* What the estimator that scores each example for the router was fitted on; `estimator` is
\* what the system's own was.  Slip: it always is that one.
InSampleScores(is, estimator) == {[i \in is |-> estimator]}
OutOfFoldScores(is, estimator) ==
    IF ~config.learnedDifficulty \/ Cardinality(is) < 2 * Folds
       THEN {[i \in is |-> estimator]}
       ELSE {[i \in is |-> {j \in is : f[j] # f[i]}] : f \in Deals(is)}

\* The ValueErrors of an empty training set.
NoExamples ==
    /\ Examples = {}
    /\ config.trainLanguages # {} \/ config.learnedDifficulty \/ config.router \in Supervised

FitDifficultyAndRouter ==
    /\ phase = "train"
    /\ asked' = asked
          \cup (IF NeedsTraining THEN Requests(splits.train, "initial", classifier) ELSE {})
          \cup (IF config.router \in Supervised THEN Estimated(Examples) ELSE {})
    /\ \/ /\ NeedsTraining /\ NoExamples
          /\ phase' = "failed" /\ UNCHANGED <<difficulty, router>>
       \/ /\ ~(NeedsTraining /\ NoExamples)
          /\ phase' = "calibrate"
          /\ difficulty' = IF config.learnedDifficulty THEN Examples ELSE Nothing
          /\ IF config.router \notin Supervised THEN UNCHANGED router
             ELSE \E scores \in OutOfFoldScores(Examples, difficulty') :
                     router' = [on |-> Examples, scores |-> scores]
    /\ UNCHANGED <<setting, splits, classifier, warmed, bank, thresholds,
                   initialThresholds, served>>

-----------------------------------------------------------------------------
(* Routing, of calibration items and of test items. *)

\* Bound: a few predictions stand for the features of a query.
Predictions == {p \in [Pool -> {0, Scale}] : TRUE}
OneTier(u) == [t \in 1 .. PoolSize + 1 |-> IF t = u THEN Scale ELSE 0]
Difficulties ==
    IF config.learnedDifficulty THEN {ExpectedDifficulty(OneTier(u)) : u \in 1 .. PoolSize + 1}
    ELSE {0, Scale \div 2, Scale}

Destinations(i) ==
    CASE config.router = "fixed" -> {Strongest}
      [] config.router = "random" -> Pool
      [] config.router = "oracle" -> Pool
      [] config.router = "threshold" -> {ThresholdRoute(d, EvenThresholds) : d \in Difficulties}
      [] config.router = "rules" ->
            {RuleRoute(DefaultRules,
                       [difficulty |-> Label(d, Scale \div 3, (2 * Scale) \div 3),
                        category |-> Stratum[Group[i]], language |-> Lang[i]], 1) :
                d \in Difficulties}
      [] config.router = "learned" ->
            {LearnedRoute(OneTier(u)) : u \in 1 .. PoolSize + 1}
      [] config.router = "cost_aware" -> {CostAwareRoute(p, Scale) : p \in Predictions}
      [] config.router = "quality_cost" ->
            {QualityCostRoute(p, [m \in Pool |-> m], [m \in Pool |-> m], 1, 0) :
                p \in Predictions}

\* What a decision is a function of.
RouterState == <<classifier, difficulty, router>>

-----------------------------------------------------------------------------
(* CalibrationBank and the certified thresholds. *)

NeedsCalibration == config.confidence # "none" /\ (config.calibration \/ config.risk # "none")
Keys == Pool \X (Languages \cup {None})

\* The calibration answers of a key; every model answers every item.
AnswersOf(key) == {i \in splits.calibration : key[2] \in {None, Lang[i]}}
KeysSeen ==
    {key \in Keys : AnswersOf(key) # {} /\ (config.perLanguage \/ key[2] = None)}
TooFew(key) == Cardinality(AnswersOf(key)) < MinSamples

\* Calibrators by key; those in uniform saw one class of answers only.
FittedBank(uniform) ==
    [key \in {k \in KeysSeen : k[2] = None \/ ~TooFew(k)} |->
        [on |-> AnswersOf(key),
         kind |-> IF TooFew(key) \/ key \in uniform THEN "constant" ELSE config.calibrator]]

\* CalibrationBank.predict: the calibrator a raw score of a model in a language goes through.
\* Without one the raw score itself is compared.
CalibratorOf(b, m, l) ==
    IF config.perLanguage /\ <<m, l>> \in DOMAIN b THEN b[<<m, l>>]
    ELSE IF <<m, None>> \in DOMAIN b THEN b[<<m, None>>] ELSE [on |-> {}, kind |-> "raw"]

\* certify: a threshold rests on its items, each with the calibrator its score went through,
\* and, when it is conditional, on the router that chose them.
Certificate(m, is, b, by) ==
    [on |-> is, through |-> [i \in is |-> CalibratorOf(b, m, Lang[i])], by |-> by]

\* Slip: the calibrators used are those there were before this fit.
CertifyEarly(items, b, by) == [m \in Pool |-> Certificate(m, items[m], bank, by)]
Certify(items, b, by) == [m \in Pool |-> Certificate(m, items[m], b, by)]

\* One class of outcomes in a group means one class in its part of a language.
Uniform == {u \in SUBSET KeysSeen :
               \A m \in Pool : <<m, None>> \in u => \A l \in Languages :
                                  <<m, l>> \in KeysSeen => <<m, l>> \in u}

\* An oracle has no outcomes for calibration items (KeyError).
Conditional == config.risk = "conditional"
CannotRoute == Conditional /\ config.router = "oracle" /\ splits.calibration # {}

Banks == IF config.calibration THEN {FittedBank(u) : u \in Uniform} ELSE {bank}
RoutedItems ==
    {[m \in Pool |-> {i \in splits.calibration : to[i] = m}] :
        to \in {f \in [splits.calibration -> Pool] :
                   \A i \in splits.calibration : f[i] \in Destinations(i)}}

\* Each item is profiled and, conditional on routing, routed.
Profiled(is) == Assessed(is, classifier) \cup IF Conditional THEN Estimated(is) ELSE {}

FitCalibration ==
    /\ phase = "calibrate" /\ NeedsCalibration /\ ~CannotRoute
    /\ asked' = asked \cup Profiled(splits.calibration)
    /\ \E b \in Banks, routed \in IF Conditional THEN RoutedItems ELSE {None} :
          /\ bank' = b
          /\ IF config.risk = "none" \/ splits.calibration = {}
                THEN UNCHANGED <<thresholds, initialThresholds>>
                ELSE /\ thresholds' = Certify([m \in Pool |-> splits.calibration], b, None)
                     /\ initialThresholds' =
                           IF Conditional THEN Certify(routed, b, RouterState) ELSE << >>
    /\ phase' = "test"
    /\ UNCHANGED <<setting, splits, classifier, warmed, difficulty, router, served>>

SkipCalibration ==
    /\ phase = "calibrate"
    /\ \/ ~NeedsCalibration /\ phase' = "test" /\ UNCHANGED asked
       \/ /\ NeedsCalibration /\ CannotRoute /\ phase' = "failed"
          /\ \E i \in splits.calibration : asked' = asked \cup Profiled({i})
    /\ UNCHANGED <<setting, splits, classifier, warmed, difficulty, router, bank,
                   thresholds, initialThresholds, served>>

-----------------------------------------------------------------------------
(* The test split. *)

\* The outcomes for the oracle and the analysis, and _check_leakage, which never fires.
TestOutcomes ==
    /\ phase = "test"
    /\ (difficulty \cup router.on) \cap splits.test = {}
    /\ asked' = asked \cup Requests(splits.test, "initial", classifier)
    /\ phase' = "serve"
    /\ UNCHANGED <<setting, splits, classifier, warmed, difficulty, router, bank,
                   thresholds, initialThresholds, served>>

\* EscalationPolicy.threshold_for an initial answer.
ConfidenceBelow == [on |-> {}, through |-> << >>, by |-> "confidence_below"]
ThresholdFor(m) ==
    IF config.risk = "none" THEN ConfidenceBelow
    ELSE IF m \in DOMAIN initialThresholds THEN initialThresholds[m]
    ELSE IF m \in DOMAIN thresholds THEN thresholds[m]
    ELSE ConfidenceBelow

\* The initial answer to a test item.
Serve ==
    /\ phase = "serve"
    /\ \E i \in splits.test : \E m \in Destinations(i) :
          /\ asked' = asked \cup Estimated({i}) \cup Assessed({i}, classifier)
          /\ served' = [item |-> i, model |-> m, by |-> RouterState,
                        through |-> CalibratorOf(bank, m, Lang[i]),
                        threshold |-> ThresholdFor(m)]
    /\ UNCHANGED <<setting, splits, phase, classifier, warmed, difficulty, router,
                   bank, thresholds, initialThresholds>>

Init ==
    /\ \E limit \in Limits : loaded \in Taken(limit)
    /\ config \in Configs /\ fractions \in Fractions
    /\ splits = [train |-> {}, calibration |-> {}, test |-> {}]
    /\ phase = "split"
    /\ classifier = Nothing /\ difficulty = Nothing
    /\ router = [on |-> Nothing, scores |-> << >>]
    /\ warmed = {} /\ asked = {}
    /\ bank = << >> /\ thresholds = << >> /\ initialThresholds = << >>
    /\ served = None

\* fit() raised, or there is nothing to serve.
Ended ==
    /\ phase = "failed" \/ (phase = "serve" /\ splits.test = {})
    /\ UNCHANGED vars

Next ==
    \/ Split \/ FitTaskClassifier \/ Warm \/ FitDifficultyAndRouter
    \/ FitCalibration \/ SkipCalibration \/ TestOutcomes \/ Serve \/ Ended

Spec == Init /\ [][Next]_vars

-----------------------------------------------------------------------------
(* Properties. *)

FittedOn == classifier \cup difficulty \cup router.on \cup (UNION Range(router.scores))
CalibratedOn ==
    (UNION {bank[key].on : key \in DOMAIN bank})
        \cup (UNION {thresholds[m].on : m \in DOMAIN thresholds})
        \cup (UNION {initialThresholds[m].on : m \in DOMAIN initialThresholds})

\* "Fitted on the calibration split (disjoint from both the training split and the test
\* split)" (calibration.py), and "all are trained on training-split outcomes only": nothing
\* any component learned, the classifier and the thresholds that _check_leakage leaves out
\* included, translates what another split holds; and the difficulty a router learns from
\* is, with enough examples, never that of an estimator that saw the example.
OutOfSample ==
    /\ GroupsOf(FittedOn) \cap GroupsOf(splits.calibration \cup splits.test) = {}
    /\ GroupsOf(CalibratedOn) \cap GroupsOf(splits.test) = {}
    /\ config.learnedDifficulty /\ ~(Cardinality(router.on) < 2 * Folds) =>
          \A i \in router.on : i \notin router.scores[i]

\* The threshold an initial answer is held against was certified on scores that went through
\* the very calibrator this answer's goes through; and, conditional on routing, on items
\* chosen by the very router that chose this model.
CertifiedAsServed ==
    served # None /\ config.risk # "none" /\ config.confidence # "none"
    /\ splits.calibration # {} =>
        LET threshold == served.threshold
        IN /\ threshold.by = IF Conditional THEN served.by ELSE None
           /\ \A i \in threshold.on :
                 Lang[i] = Lang[served.item] => threshold.through[i] = served.through

\* "Keep at least one test group per stratum" (splits.py): every stratum of three groups or
\* more is tested, unless its calibration share alone rounds up to the whole of it.
EveryStratumIsTested ==
    phase # "split" => \A s \in Strata(LoadedGroups) :
        LET n == Cardinality(InStratum(s, LoadedGroups))
        IN n >= 3 /\ Rounded(n, fractions.calibration) < n =>
              InStratum(s, GroupsOf(splits.test)) # {}

\* "Generate every model's initial answers for all splits in large batches up front (cached;
\* later profiling and evaluation calls are cache hits)" (BenchmarkRunner.fit), and the samples
\* of an estimator that samples: of what training, calibration and serving ask for, every
\* initial answer, and every such sample, was generated in a batch before, with the same
\* prompt.  The samples that a member of an ensemble asks for never are, as _warm reads n_samples
\* of the estimator, which an ensemble has not; nor are the questions to a judge, of a
\* difficulty or of an answer.
WarmedFirst ==
    /\ OfPurpose(asked, "initial") \subseteq warmed
    /\ Sampling => OfPurpose(asked, "confidence_sample") \subseteq warmed

\* The routers a system is fitted with decide monotonically, whatever they have learned.
DecisionsAreMonotone == phase = "split" => RoutersAreMonotone
=============================================================================
