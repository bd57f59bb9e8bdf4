------------------------------ MODULE Evaluation ------------------------------
(***************************************************************************)
(* From pipeline results to reported numbers (routeguard/evaluation and    *)
(* the loop of BenchmarkRunner.run_system).  For every selected system of  *)
(* an experiment the runner scores what each model answers to each test    *)
(* item, runs the system on the items, and writes one record per item;     *)
(* metrics.py, errors.py and report.py then read nothing but the records,  *)
(* at the end of the benchmark or whenever `routeguard evaluate` is run.   *)
(*                                                                         *)
(* A model is its tier in the pool, which has the same models for every    *)
(* system (config.py).  What a model answers to an item depends on the     *)
(* request: on the category that the classifier of the asking system       *)
(* predicts, and on its model settings.  Systems with the same classifier  *)
(* and settings send the same requests, whose outputs the cache replays.   *)
(* An answer is a member of a small set; what the scorer says of it is     *)
(* decided when it is first asked (code is executed, with a timeout).      *)
(* Confidence is low or high: below the acceptance threshold or not.       *)
(* Rates are counts.                                                       *)
(*                                                                         *)
(* A definition commented as a slip is not part of the model: it is the    *)
(* definition that follows it with a plausible mistake.                    *)
(***************************************************************************)
EXTENDS Integers, Sequences, FiniteSets, FiniteSetsExt, Functions, MixtureFrontier

CONSTANTS
    NModels,    \* models in the pool, cheapest first
    Items,      \* the test split, in the order it is run
    English,    \* the one of them in English, if any; the others are its translations
    Plain,      \* bound: items no system escalates and all models answer alike, however asked
    Varied,     \* bound: the models that answer other items otherwise when asked otherwise
    Answers,    \* what extract_answer may find in a response
    Signals,    \* the sets of signals to try
    None,       \* no answer, no model, no system
    Systems,    \* the systems of the experiment, in the order they are run
    FixedModel, \* for each system the model its router is fixed to, or None
    Prompting,  \* for each system the task classifier and the model settings it asks with
    Oracles,    \* the systems with the oracle router
    Ablations,  \* the systems of group "ablation"
    Reference,  \* report.reference_system, or None
    Asked       \* bound: the systems given with --reference

Models == 1 .. NModels
Fixed == {s \in Range(Systems) : FixedModel[s] # None}
Replies == Answers \cup {None}

ASSUME PoolAssumption == NModels \in Nat \ {0}
ASSUME NoneAssumption == None \notin Answers \cup Models
ASSUME OrderAssumption == Items \in Seq(Range(Items)) /\ Systems \in Seq(Range(Systems))
ASSUME ItemAssumption ==
    English \cup Plain \subseteq Range(Items) /\ \A i, j \in English : i = j
ASSUME SystemAssumption ==
    /\ FixedModel \in [Range(Systems) -> Models \cup {None}]
    /\ Prompting \in [Range(Systems) -> Range(Prompting)]
    /\ Oracles \cup Ablations \cup Asked \cup ({Reference} \ {None}) \subseteq Range(Systems)
    /\ Oracles \cap Fixed = {}

VARIABLES
    selected,    \* the systems this run was asked for (--systems), in order
    signals,     \* what the routed systems judge an answer by: confidence, a verifier, both
    said,        \* what each model answers to each item under each prompting
    scores,      \* BenchmarkRunner._scores: the verdicts so far
    outcomes,    \* the test outcomes of the system at hand
    system, item, \* positions of the system and of the item that come next
    records,     \* raw/*.jsonl
    report       \* the last report: who asked for it, what became of it, its table rows

vars == <<selected, signals, said, scores, outcomes, system, item, records, report>>

-----------------------------------------------------------------------------
(* Scoring. *)

\* The verdicts once the answers `asked` of an item have been scored: the ones there are stay.
\* Slip: every answer is scored anew.
Rescored(asked) ==
    {v \in [Range(Items) \X Answers -> {"new", "right", "wrong"}] :
        \A k \in DOMAIN v : IF k \in asked THEN v[k] # "new" ELSE v[k] = scores[k]}
Scored(asked) ==
    {v \in [Range(Items) \X Answers -> {"new", "right", "wrong"}] :
        \A k \in DOMAIN v :
            IF k \in asked /\ scores[k] = "new" THEN v[k] # "new" ELSE v[k] = scores[k]}

\* score_prediction: no answer is a failed extraction, and wrong.
Right(v, i, a) == a # None /\ v[<<i, a>>] = "right"

-----------------------------------------------------------------------------
(* The oracle. *)

CheapestCorrect(right) ==
    IF \E m \in Models : right[m]
       THEN CHOOSE m \in Models : right[m] /\ \A n \in 1 .. m - 1 : ~right[n]
       ELSE NModels + 1

\* Slips: an item nobody solves is given to the strongest model, as the learned router does.
OracleTierUp(right) == Min({CheapestCorrect(right), NModels})
OracleTier(right) ==
    IF CheapestCorrect(right) = NModels + 1 THEN 1 ELSE CheapestCorrect(right)

-----------------------------------------------------------------------------
(* What a system may return for an item. *)

RoutedTo(s, i) ==
    IF s \in Fixed THEN {FixedModel[s]}
    ELSE IF s \in Oracles THEN {OracleTier(outcomes[i])}
    ELSE Models

Baseline(s) == s \in Fixed \cup Oracles
Confidences(s) == IF "confidence" \in signals /\ ~Baseline(s) THEN {"low", "high"} ELSE {"none"}
Verdicts(s) ==
    {"none"} \cup IF "verifier" \in signals /\ ~Baseline(s) THEN {"passed", "failed"} ELSE {}

Attempts(s, stage, models, answers, evidence) ==
    [stage : {stage}, model : models, answer : answers, confidence : Confidences(s),
     verified : Verdicts(s), evidence : {evidence}]

\* What the models answer to the requests of a system, by item.
Said(s) == said[Prompting[s]]

\* The initial answer of a model is the one it was profiled with: same request, same output.
Initial(s, i) ==
    UNION {Attempts(s, "initial", {m}, {Said(s)[i][m]}, "none") : m \in RoutedTo(s, i)}

Unreliable(a) == a.confidence = "low" \/ a.verified = "failed"

\* One stage (bound): the next stronger model, another prompt, or retrieval.
Escalated(s, i, first) ==
    (IF first.model < NModels
        THEN Attempts(s, "stronger_model", {first.model + 1}, {Said(s)[i][first.model + 1]}, "none")
        ELSE {})
    \cup Attempts(s, "reprompt", {first.model}, Replies, "none")
    \cup Attempts(s, "retrieval", {first.model}, Replies, "found")
    \cup Attempts(s, "retrieval", {first.model}, Replies, "missing")

\* EscalationPolicy.select_final, under either final_selection.
Finals(attempts) ==
    LET reliable == {j \in DOMAIN attempts : ~Unreliable(attempts[j])}
        answered == {j \in DOMAIN attempts : attempts[j].answer # None}
    IN IF reliable # {} THEN {Max(reliable)}
       ELSE IF answered = {} THEN {Len(attempts)}
       ELSE {Max(answered)} \cup {j \in answered : attempts[j].confidence # "none"}

\* A stage may not apply, so that an unreliable answer is returned all the same.
Runs(s, i) ==
    {<<first>> : first \in Initial(s, i)}
    \cup UNION {{<<first, second>> : second \in Escalated(s, i, first)} :
                   first \in {a \in Initial(s, i) : Unreliable(a) /\ ~Baseline(s)
                                                    /\ i \notin Plain}}

\* build_record: the attempts with their scores, and the outcomes of all models on the item.
BuildRecord(s, i, attempts, final, v) ==
    LET right == [j \in DOMAIN attempts |-> Right(v, i, attempts[j].answer)]
    IN [system |-> s, item |-> i, attempts |-> attempts, right |-> right,
        routed |-> attempts[1].model,
        outcomes |-> outcomes[i],
        oracle |-> OracleTier(outcomes[i]),
        initial_correct |-> right[1],
        correct |-> right[final],
        extraction_failed |-> attempts[final].answer = None,
        escalated |-> Len(attempts) > 1]

-----------------------------------------------------------------------------
(* The benchmark. *)

NoReport == [by |-> "nobody", outcome |-> "none", rows |-> {}]

\* Some of the systems, in the order of the experiment.
Selections ==
    UNION {{[k \in 1 .. n |-> Systems[at[k]]] :
               at \in {f \in [1 .. n -> DOMAIN Systems] :
                          \A j, k \in 1 .. n : j < k => f[j] < f[k]}} :
              n \in 1 .. Len(Systems)}

\* How the systems of this run ask.  Nothing is said to a prompting that is not used.
Used == {Prompting[s] : s \in Range(selected)}

Init ==
    /\ selected \in Selections
    /\ signals \in Signals
    /\ said \in {f \in [Range(Prompting) -> [Range(Items) -> [Models -> Replies]]] :
                    /\ \A p \in Range(Prompting) \ Used : \A i \in Range(Items) : \A m \in Models :
                          f[p][i][m] = None
                    /\ \A p, q \in Used : \A i \in Range(Items) : \A m, n \in Models :
                          i \in Plain \/ (m = n /\ m \notin Varied) => f[p][i][m] = f[q][i][n]}
    /\ scores = [k \in Range(Items) \X Answers |-> "new"]
    /\ outcomes = [i \in Range(Items) |-> [m \in Models |-> FALSE]]
    /\ system = 1 /\ item = 0
    /\ records = << >>
    /\ report = NoReport

\* The answers the models give when a system profiles them.
Profiles(s) == {k \in Range(Items) \X Answers : k[2] \in Range(Said(s)[k[1]])}

\* fit: every model's answer to every test item is scored, for the oracle and the analysis.
Fit ==
    /\ system <= Len(selected) /\ item = 0
    /\ LET s == selected[system] IN
       \E v \in Scored(Profiles(s)) :
          /\ scores' = v
          /\ outcomes' = [i \in Range(Items) |-> [m \in Models |-> Right(v, i, Said(s)[i][m])]]
    /\ item' = 1
    /\ report' = NoReport
    /\ UNCHANGED <<selected, signals, said, system, records>>

\* One item of run_system: the pipeline's result, its record, the write.
RunItem ==
    /\ item \in DOMAIN Items
    /\ LET s == selected[system]
           i == Items[item]
       IN \E attempts \in Runs(s, i) :
          \E v \in Scored({<<i, attempts[j].answer>> : j \in DOMAIN attempts}) :
          \E final \in Finals(attempts) :
             /\ scores' = v
             /\ records' = Append(records, BuildRecord(s, i, attempts, final, v))
    /\ IF item = Len(Items) THEN system' = system + 1 /\ item' = 0
                            ELSE item' = item + 1 /\ UNCHANGED system
    /\ report' = NoReport \* bound: a report is forgotten once there are more records
    /\ UNCHANGED <<selected, signals, said, outcomes>>

-----------------------------------------------------------------------------
(* metrics.py, over a set of records. *)

Of(s) == {r \in Range(records) : r.system = s}
Reported == {r.system : r \in Range(records)}

Escalations(rs) == {r \in rs : r.escalated}
InitiallyWrong(rs) == {r \in rs : ~r.initial_correct}
InitiallyRight(rs) == {r \in rs : r.initial_correct}
Correct(rs) == {r \in rs : r.correct}
Accepted(rs) == {r \in rs : r.attempts[1].confidence = "high"}

\* corrected_rate and harmed_rate: among the escalated ones that began wrong, or right.
Corrected(rs) == Correct(InitiallyWrong(Escalations(rs)))
Harmed(rs) == InitiallyRight(Escalations(rs)) \ Correct(rs)

Exact(r) == r.routed = r.oracle
Unnecessary(r) == r.routed > r.oracle
StrongerRight(r) == \E m \in r.routed + 1 .. NModels : r.outcomes[m]
Under(r) == ~r.outcomes[r.routed] /\ StrongerRight(r)

-----------------------------------------------------------------------------
(* errors.py. *)

LastAttempt(r) == r.attempts[Len(r.attempts)]

\* _english_outcomes: the English parallel item, same system, is known to be right.
EnglishRight(r) == \E e \in Of(r.system) : e.item \in English /\ e.correct

\* Labels any record may get, and those only a wrong one gets.
SignalLabels(r) ==
    LET first == r.attempts[1]
        retrieval == {j \in DOMAIN r.attempts : r.attempts[j].stage = "retrieval"}
        tried == r.attempts[Max(retrieval)]
        holds ==
            [low_confidence_correct |-> r.initial_correct /\ first.confidence = "low",
             verifier_false_fail |-> r.initial_correct /\ first.verified = "failed",
             escalation_harm |-> r.escalated /\ r.initial_correct /\ ~r.correct,
             retrieval_failure |-> retrieval # {} /\ tried.evidence = "missing",
             unsupported_answer |->
                /\ retrieval # {} /\ tried.evidence = "missing"
                /\ tried.answer # None /\ ~r.right[Max(retrieval)]]
    IN {l \in DOMAIN holds : holds[l]}

WrongLabels(r) ==
    LET first == r.attempts[1]
        solvable == \E m \in Models : r.outcomes[m]
        holds ==
            [extraction_failure |-> r.extraction_failed,
             model_capability_failure |-> ~solvable,
             incorrect_routing |-> Under(r) /\ ~r.escalated,
             escalation_failure |-> solvable /\ r.escalated,
             high_confidence_wrong |->
                /\ ~r.initial_correct /\ ~r.escalated
                /\ first.confidence = "high" /\ first.verified # "failed",
             verifier_false_pass |-> LastAttempt(r).verified = "passed",
             language_related_failure |-> r.item \notin English /\ EnglishRight(r)]
    IN {l \in DOMAIN holds : holds[l]}

Labels(r) == SignalLabels(r) \cup IF r.correct THEN {} ELSE WrongLabels(r)
Labelled(s, l) == {r \in Of(s) : l \in Labels(r)}

-----------------------------------------------------------------------------
(* report.py: what is compared with what, over the records there are. *)

\* fixed_model_of: one routed model, never left.  Slip: a cascade counts as its first model.
StartingModel(s) ==
    {m \in Models : {r.routed : r \in Of(s)} = {m}}
FixedModelOf(s) ==
    {m \in Models : {r.routed : r \in Of(s)} = {m} /\ Escalations(Of(s)) = {}}
MixtureSystems == {s \in Reported : FixedModelOf(s) # {}}

\* paired_comparisons: the items both have a record for.
Pairs(s, ref) == {r \in Of(s) : \E q \in Of(ref) : q.item = r.item}
Compared(ref) == {s \in Reported \ {ref} : ref # None /\ Pairs(s, ref) # {}}

\* build_tables: which systems have a row in which table.  Numbers and wording are left out.
Confident(rs) == {r \in rs : r.attempts[1].confidence # "none"}
EscalationSystems == {s \in Reported : Escalations(Of(s)) # {}}
CalibrationSystems == {s \in Reported : Confident(Of(s)) # {}}
AcceptanceSystems(groups) == {s \in Reported : Accepted(Of(s)) # {} /\ groups[s] # "oracle"}
CostMatchedSystems == IF Cardinality(MixtureSystems) < 2 THEN {} ELSE Reported
AblationSystems(groups) == {s \in Reported : groups[s] = "ablation"}

AblationTable(groups, ref) ==
    IF AblationSystems(groups) = {} \/ ref = None THEN {} ELSE AblationSystems(groups) \cup {ref}

Rows(groups, ref) ==
    {"main_results", "routing", "efficiency", "language_breakdown", "error_analysis"} \X Reported
    \cup {"escalation"} \X EscalationSystems
    \cup {"calibration"} \X CalibrationSystems
    \cup {"acceptance"} \X AcceptanceSystems(groups)
    \cup {"cost_matched_mixture"} \X CostMatchedSystems
    \cup {"ablations"} \X AblationTable(groups, ref)
    \cup {"significance"} \X Compared(ref)

\* The KeyErrors of a reference that has no records: the ablation table reads its summary,
\* and so do the figures, after those of all systems.  The metrics have been written by then.
Unreported(ref) == ref # None /\ ref \notin Reported
TablesRaise(groups, ref) == AblationSystems(groups) # {} /\ Unreported(ref)
FiguresRaise(ref) == Unreported(ref)

\* The figures themselves are left out: they draw what the metrics say.
BuildReport(by, groups, ref, figures) ==
    report' = [by |-> by,
               outcome |-> IF TablesRaise(groups, ref) \/ (figures /\ FiguresRaise(ref))
                              THEN "halfway" ELSE "whole",
               rows |-> IF TablesRaise(groups, ref) THEN {} ELSE Rows(groups, ref)]

\* BenchmarkRunner.report_meta.  Slip: the reference need not have been selected.
AnyReference == Reference
MetaReference == IF Reference \in Range(selected) THEN Reference ELSE None
Groups == [s \in Range(Systems) |->
              IF s \in Oracles THEN "oracle" ELSE IF s \in Ablations THEN "ablation"
              ELSE "baseline"]

\* The end of BenchmarkRunner.run: report_meta.json, then the report.
Report ==
    /\ system = Len(selected) + 1
    /\ system' = system + 1
    /\ \E figures \in BOOLEAN : BuildReport("run", Groups, MetaReference, figures)
    /\ UNCHANGED <<selected, signals, said, scores, outcomes, item, records>>

\* `routeguard evaluate` of a run, at any time (of one of its files: ExperimentRuns).  Until
\* report_meta.json is there every system is a baseline and there is no reference;
\* --reference may name a system without records.
Evaluate ==
    LET own == system = Len(selected) + 2
        groups == IF own THEN Groups ELSE [s \in Range(Systems) |-> "baseline"]
        reference == IF own THEN MetaReference ELSE None
    IN /\ report.by # "evaluate" \* bound: another one says nothing this one could not have said
       /\ IF records = << >> THEN report' = [NoReport EXCEPT !.by = "evaluate"]
          ELSE \E ref \in {reference} \cup Asked, figures \in BOOLEAN :
                  BuildReport("evaluate", groups, ref, figures)
       /\ UNCHANGED <<selected, signals, said, scores, outcomes, system, item, records>>

Next == Fit \/ RunItem \/ Report \/ Evaluate

Spec == Init /\ [][Next]_vars

-----------------------------------------------------------------------------
(* Properties. *)

\* "The oracle is optimal in both accuracy and cost for a fixed pool" (router/oracle.py):
\* if the first answer of any system to an item is right, so is the oracle's, from a model no
\* stronger, provided that both ask with the same classifier and model settings.  A system that
\* asks otherwise gets other answers, and may beat the oracle.  The verdicts are drawn as the
\* answers are first scored, by whichever system comes first.
OracleIsUpperBound ==
    \A r \in Range(records) : r.initial_correct =>
        \A o \in Range(records) :
            /\ o.system \in Oracles /\ o.item = r.item
            /\ Prompting[o.system] = Prompting[r.system]
            => o.correct /\ o.routed <= r.routed

\* The rates of metrics.py and the labels of errors.py tell one story: a query was routed as
\* the oracle would, to a stronger model than needed, or to one that fails where a stronger
\* one would not, and only the last is ever blamed on routing; and the accuracy is what the
\* first answers got right, and what escalation corrected, less the harm that is labelled.
MetricsAgreeWithLabels ==
    \A s \in Reported :
        /\ \A r \in Of(s) : Exact(r) \/ Unnecessary(r) \/ Under(r)
        /\ \A r \in Labelled(s, "incorrect_routing") : Under(r) /\ ~Exact(r)
        /\ Cardinality(Correct(Of(s))) =
              Cardinality(InitiallyRight(Of(s))) + Cardinality(Corrected(Of(s)))
                - Cardinality(Labelled(s, "escalation_harm"))
        /\ Harmed(Of(s)) = Labelled(s, "escalation_harm")

\* The mixture a router is measured against is one of single models: the accuracy of each of
\* its systems is that of its model alone, as the outcomes recorded by every system that asks
\* with the same classifier and model settings have it.
FixedSystemsAreTheirModel ==
    \A s \in MixtureSystems : \A m \in FixedModelOf(s) :
        \A r \in Of(s) : \A q \in Range(records) :
            q.item = r.item /\ Prompting[q.system] = Prompting[s] => q.outcomes[m] = r.correct

\* "This hull is what a router must beat" (mixture_frontier): whenever systems are compared
\* with a mixture, it is the best there is at their cost, whichever points it is made of.
GapIsFromTheBestMixture == CostMatchedSystems # {} => FrontierIsBest

\* The report the benchmark itself writes, after it has marked the run as completed, is never
\* cut short; each system has its row, and each but the reference is compared with it.
OwnReportIsWhole ==
    report.by = "run" =>
        /\ report.outcome = "whole"
        /\ \A s \in Range(selected) :
              /\ <<"main_results", s>> \in report.rows
              /\ MetaReference \notin {None, s} =>
                    <<"significance", s>> \in report.rows /\ Pairs(s, MetaReference) = Of(s)

=============================================================================
