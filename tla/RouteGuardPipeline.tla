------------------------- MODULE RouteGuardPipeline -------------------------
(***************************************************************************)
(* One query through RouteGuardPipeline.run (routeguard/pipeline.py): the  *)
(* difficulty estimate, the router, the initial attempt, its assessment by *)
(* the confidence estimator and the verifiers, the escalation stages       *)
(* (routeguard/escalation/stages.py) under the escalation policy           *)
(* (routeguard/escalation/policy.py), and the choice of the final answer.  *)
(* CallContext.calls (routeguard/context.py) is the ledger every step      *)
(* charges.  A step that calls a backend may raise, and ends the run.      *)
(*                                                                         *)
(* A model is its tier in the pool.  Confidence, difficulty and thresholds *)
(* live on a grid 0..Top; level l stands for the score l/Top, and Top + 1  *)
(* for the infinite threshold of "nothing could be certified".             *)
(*                                                                         *)
(* A definition commented as a slip is not part of the model: it is the    *)
(* definition that follows it with a plausible mistake, and PROJECT.json   *)
(* names the property that is violated when it is used instead.            *)
(***************************************************************************)
EXTENDS Integers, Sequences, FiniteSets, FiniteSetsExt

CONSTANTS
    NModels,            \* size of the pool
    Top,                \* the highest score on the grid
    Answers,            \* the distinct extracted answers
    None,               \* Python's None
    VoteSamples,        \* self_consistency stage: n
    ConfidenceSamples,  \* sampling estimators: n_samples
    ToolSteps,          \* tool stage: max_steps
    Configs             \* the pipeline configurations, with their query kind

Models == 0 .. NModels - 1
Strongest == NModels - 1
Levels == 0 .. Top

StageKinds == {"reprompt", "stronger_model", "retrieval",
               "self_consistency", "judge_select", "tool"}
TargetsOf == [
    reprompt         |-> {"current"},
    stronger_model   |-> {"next", "strongest"},
    retrieval        |-> {"current", "fixed"},
    self_consistency |-> {"current", "fixed"},
    judge_select     |-> {"strongest", "fixed"},
    tool             |-> {"current", "fixed"} ]
\* A configured stage: its type and its model option ("fixed" names .model).
StageConfig ==
    {s \in [kind : StageKinds, target : UNION {TargetsOf[k] : k \in StageKinds}, model : Models] :
        s.target \in TargetsOf[s.kind]}

\* "check" is any verifier that makes no model call (arithmetic, grounding, ...).
Verifiers == {"format", "check", "judge"}
Verdicts == {"passed", "failed", "skipped"}
Triggers == {"low_confidence", "verification_failed", "high_difficulty"}

Config == [
    enabled               : BOOLEAN,                     \* escalation.enabled
    stages                : Seq(StageConfig),
    maxStages             : Nat,
    selection             : {"last", "most_confident"},
    confidenceBelow       : Levels \cup {None},
    riskControl           : BOOLEAN,
    thresholds            : [Models -> (0 .. Top + 1) \cup {None}],
    initialThresholds     : [Models -> (0 .. Top + 1) \cup {None}],
    onVerificationFailure : BOOLEAN,
    difficultyAbove       : Levels \cup {None},
    difficultyJudge       : BOOLEAN,                     \* difficulty.estimator = llm_judge
    confidence            : {"none", "logprob", "sampling"},
    verifiers             : Seq(Verifiers),
    numeric               : BOOLEAN ]                    \* query.answer_type is numeric

ASSUME PoolAssumption == NModels \in Nat \ {0}
ASSUME GridAssumption == Top \in Nat \ {0}
ASSUME AnswerAssumption == None \notin Answers /\ None \notin Int
ASSUME SampleAssumption ==
    VoteSamples \in Nat \ {0} /\ ConfidenceSamples \in Nat \ {0} /\ ToolSteps \in Nat
ASSUME ConfigAssumption == Configs \subseteq Config

VARIABLES
    config,        \* the configuration of this pipeline, fixed for the run
    pc,            \* the statement of run() about to execute
    difficulty,    \* DifficultyEstimate.score
    current,       \* the attempt being built
    attempts,      \* the assessed attempts, in order
    calls,         \* CallContext.calls
    nextStage,     \* position of the next configured stage
    ran,           \* n_run: stages that produced an attempt
    initialCalls,  \* PipelineResult.initial_call_count
    final          \* PipelineResult.final_index, 1-based; 0 before the end

vars == <<config, pc, difficulty, current, attempts, calls, nextStage, ran,
          initialCalls, final>>

-----------------------------------------------------------------------------
(* CallContext: every generated output is charged to the attempt being built. *)

AttemptStages == {"initial"} \cup StageKinds
Purposes == AttemptStages \cup {"difficulty_judge", "confidence_sample", "verify_judge",
                "escalation_self_consistency", "escalation_judge_select", "tool_agent"}
Call == [purpose : Purposes, attempt : Nat]

Charge(purpose, n) ==
    calls' = calls \o [i \in 1 .. n |-> [purpose |-> purpose, attempt |-> Len(attempts) + 1]]

Draft(stage, model) ==
    [stage |-> stage, model |-> model, answer |-> None, confidence |-> None,
     verdict |-> "skipped", checked |-> 0, toolCalls |-> 0]

Init ==
    /\ config \in Configs
    /\ pc = "difficulty"
    /\ difficulty = 0
    /\ current = Draft("initial", 0)
    /\ attempts = << >>
    /\ calls = << >>
    /\ nextStage = 1
    /\ ran = 0
    /\ initialCalls = 0
    /\ final = 0

-----------------------------------------------------------------------------
(* The initial attempt. *)

\* An unparseable rating of the LLM judge is the midpoint, so any level can come out.
EstimateDifficulty ==
    /\ pc = "difficulty"
    /\ difficulty' \in Levels
    /\ Charge("difficulty_judge", IF config.difficultyJudge THEN 1 ELSE 0)
    /\ pc' = "route"
    /\ UNCHANGED <<config, current, attempts, nextStage, ran, initialCalls, final>>

\* Routers see the query and the difficulty and make no call; any model may win.
Route ==
    /\ pc = "route"
    /\ \E m \in Models : current' = Draft("initial", m)
    /\ pc' = "generate"
    /\ UNCHANGED <<config, difficulty, attempts, calls, nextStage, ran, initialCalls, final>>

-----------------------------------------------------------------------------
(* Generating the answer of an attempt. *)

Candidates == {attempts[i].answer : i \in DOMAIN attempts} \ {None}

\* attempt() and judge_select; with nothing to adjudicate the judge just answers.
GenerateOnce ==
    /\ pc = "generate"
    /\ current.stage \notin {"self_consistency", "tool"}
    /\ Charge(IF current.stage = "judge_select" /\ Candidates # {}
                 THEN "escalation_judge_select" ELSE current.stage, 1)
    /\ \E a \in Answers \cup {None} : current' = [current EXCEPT !.answer = a]
    /\ pc' = "score"
    /\ UNCHANGED <<config, difficulty, attempts, nextStage, ran, initialCalls, final>>

Samples == 1 .. VoteSamples
\* How many samples agree with the i-th; an unparseable sample has no vote.
Support(answer, i) ==
    Cardinality({j \in Samples : answer[j] = answer[i] /\ answer[j] # None})
\* Counter.most_common: the largest cluster, the first seen among equals.
Leads(answer, i) ==
    \A j \in Samples : \/ Support(answer, j) < Support(answer, i)
                       \/ Support(answer, j) = Support(answer, i) /\ i <= j

\* The vote share replaces the estimator's confidence: no scoring step follows.
GenerateVote ==
    /\ pc = "generate"
    /\ current.stage = "self_consistency"
    /\ Charge("escalation_self_consistency", VoteSamples)
    /\ \E answer \in [Samples -> Answers \cup {None}], i \in Samples, share \in Levels :
          /\ Leads(answer, i)
          /\ share * VoteSamples <= Support(answer, i) * Top
          /\ Support(answer, i) * Top < (share + 1) * VoteSamples
          /\ current' = [current EXCEPT !.answer = answer[i], !.confidence = share]
    /\ pc' = "verify"
    /\ UNCHANGED <<config, difficulty, attempts, nextStage, ran, initialCalls, final>>

\* Slip: off by one.
MayCallToolOnceMore == current.toolCalls <= ToolSteps
\* On the turn after max_steps tool calls the reply is not parsed for a call.
MayCallTool == current.toolCalls < ToolSteps

\* One turn of ToolAgent.run: the reply is a tool call, or it is the final text.
ToolTurn ==
    /\ pc = "generate"
    /\ current.stage = "tool"
    /\ Charge("tool_agent", 1)
    /\ \/ /\ MayCallTool
          /\ current' = [current EXCEPT !.toolCalls = @ + 1]
          /\ pc' = "generate"
       \/ /\ \E a \in Answers \cup {None} : current' = [current EXCEPT !.answer = a]
          /\ pc' = "score"
    /\ UNCHANGED <<config, difficulty, attempts, nextStage, ran, initialCalls, final>>

-----------------------------------------------------------------------------
(* finalize_attempt: confidence, then the verifiers in order. *)

Score ==
    /\ pc = "score"
    /\ Charge("confidence_sample",
              IF config.confidence = "sampling" THEN ConfidenceSamples ELSE 0)
    /\ \E c \in IF config.confidence = "none" THEN {None} ELSE Levels :
          current' = [current EXCEPT !.confidence = c]
    /\ pc' = "verify"
    /\ UNCHANGED <<config, difficulty, attempts, nextStage, ran, initialCalls, final>>

\* CompositeVerifier stops at the first failure.
VerificationOver == current.verdict = "failed" \/ current.checked = Len(config.verifiers)
NextVerifier == config.verifiers[current.checked + 1]

\* FormatVerifier fails every attempt without an answer (and truncated output).
VerdictsOf(verifier) ==
    CASE verifier = "format" /\ current.answer = None -> {"failed"}
      [] verifier = "format" /\ current.answer # None -> {"passed", "failed"}
      [] OTHER -> Verdicts

Verify ==
    /\ pc = "verify"
    /\ ~VerificationOver
    /\ Charge("verify_judge", IF NextVerifier = "judge" THEN 1 ELSE 0)
    /\ \E v \in VerdictsOf(NextVerifier) :
          current' = [current EXCEPT !.checked = @ + 1,
                                     !.verdict = IF v = "skipped" THEN @ ELSE v]
    /\ UNCHANGED <<config, pc, difficulty, attempts, nextStage, ran, initialCalls, final>>

-----------------------------------------------------------------------------
(* EscalationPolicy.triggers and the escalation loop. *)

\* Slip: the thresholds certified on routed queries are not used.
ThresholdForAnyRole(model, initial) ==
    IF config.riskControl /\ config.thresholds[model] # None
       THEN config.thresholds[model] ELSE config.confidenceBelow

Threshold(model, initial) ==
    LET certified == IF initial /\ config.initialThresholds[model] # None
                        THEN config.initialThresholds[model] ELSE config.thresholds[model]
    IN IF config.riskControl /\ certified # None THEN certified ELSE config.confidenceBelow

Fired(a, initial) ==
    {t \in Triggers :
        \/ /\ t = "low_confidence"
           /\ Threshold(a.model, initial) # None
           /\ a.confidence # None
           /\ a.confidence < Threshold(a.model, initial)
        \/ /\ t = "verification_failed"
           /\ config.onVerificationFailure
           /\ a.verdict = "failed"
        \/ /\ t = "high_difficulty"
           /\ initial
           /\ config.difficultyAbove # None
           /\ difficulty > config.difficultyAbove
           /\ a.model # Strongest }

Assessed(draft, initial) ==
    [stage |-> draft.stage, model |-> draft.model, answer |-> draft.answer,
     confidence |-> draft.confidence, verdict |-> draft.verdict,
     trigger |-> Fired(draft, initial)]

IsReliable(a) == a.trigger = {}

JudgeInitial ==
    /\ pc = "verify"
    /\ VerificationOver
    /\ attempts = << >>
    /\ LET first == Assessed(current, TRUE) IN
          /\ attempts' = <<first>>
          /\ pc' = IF config.enabled /\ ~IsReliable(first) THEN "stage" ELSE "select"
    /\ initialCalls' = Len(calls)
    /\ UNCHANGED <<config, difficulty, current, calls, nextStage, ran, final>>

JudgeStage ==
    /\ pc = "verify"
    /\ VerificationOver
    /\ attempts # << >>
    /\ LET new == Assessed(current, FALSE) IN
          /\ attempts' = Append(attempts, new)
          /\ pc' = IF IsReliable(new) THEN "select" ELSE "stage"
    /\ ran' = ran + 1
    /\ UNCHANGED <<config, difficulty, current, calls, nextStage, initialCalls, final>>

Tried == {attempts[i].model : i \in DOMAIN attempts}
\* LastTried is also the slip of StrongestTried: a stage may be pinned to a weaker model.
LastTried == attempts[Len(attempts)].model
StrongestTried == Max(Tried)

Target(s) ==
    CASE s.target = "next" -> StrongestTried + 1
      [] s.target = "strongest" -> Strongest
      [] s.target = "current" -> LastTried
      [] s.target = "fixed" -> s.model

\* The model a stage answers with; the empty set is a stage returning None.
StageModels(s) ==
    {m \in {Target(s)} \cap Models : /\ s.kind = "stronger_model" => m > StrongestTried
                                     /\ s.kind = "tool" => config.numeric}

\* Slips: off by one, in either bound.
OneStageTooMany == nextStage <= Len(config.stages) /\ ran <= config.maxStages
LastStageForgotten == nextStage < Len(config.stages) /\ ran < config.maxStages

StagesLeft == nextStage <= Len(config.stages) /\ ran < config.maxStages

RunStage ==
    /\ pc = "stage"
    /\ StagesLeft
    /\ \E m \in StageModels(config.stages[nextStage]) :
          current' = Draft(config.stages[nextStage].kind, m)
    /\ nextStage' = nextStage + 1
    /\ pc' = "generate"
    /\ UNCHANGED <<config, difficulty, attempts, calls, ran, initialCalls, final>>

\* Slip: the stage that did not apply is tried again.
SkipStageRetries ==
    /\ pc = "stage"
    /\ StagesLeft
    /\ StageModels(config.stages[nextStage]) = {}
    /\ UNCHANGED vars

\* A stage that does not apply is not counted against max_stages.
SkipStage ==
    /\ pc = "stage"
    /\ StagesLeft
    /\ StageModels(config.stages[nextStage]) = {}
    /\ nextStage' = nextStage + 1
    /\ UNCHANGED <<config, pc, difficulty, current, attempts, calls, ran, initialCalls, final>>

\* Slip: the initial calls are counted after the loop.
StopEscalatingAndCount ==
    /\ pc = "stage"
    /\ ~StagesLeft
    /\ pc' = "select"
    /\ initialCalls' = Len(calls)
    /\ UNCHANGED <<config, difficulty, current, attempts, calls, nextStage, ran, final>>

StopEscalating ==
    /\ pc = "stage"
    /\ ~StagesLeft
    /\ pc' = "select"
    /\ UNCHANGED <<config, difficulty, current, attempts, calls, nextStage, ran,
                   initialCalls, final>>

-----------------------------------------------------------------------------
(* EscalationPolicy.select_final and PipelineResult. *)

ReliableTries == {i \in DOMAIN attempts : IsReliable(attempts[i])}
AnsweredTries == {i \in DOMAIN attempts : attempts[i].answer # None}
ScoredTries == {i \in AnsweredTries : attempts[i].confidence # None}
\* max() keeps the first of equally confident attempts.
MostConfidentTries ==
    {i \in ScoredTries : \A j \in ScoredTries :
        \/ attempts[j].confidence < attempts[i].confidence
        \/ attempts[j].confidence = attempts[i].confidence /\ i <= j}

\* Slips: the reliable attempt is not preferred; an attempt without an answer is eligible.
EligibleIgnoringTriggers ==
    IF config.selection = "most_confident" /\ ScoredTries # {}
       THEN MostConfidentTries ELSE DOMAIN attempts
EligibleAnswerless == IF ReliableTries # {} THEN ReliableTries ELSE EligibleIgnoringTriggers

Eligible ==
    LET answered == IF AnsweredTries # {} THEN AnsweredTries ELSE DOMAIN attempts
        fallback == IF config.selection = "most_confident" /\ ScoredTries # {}
                       THEN MostConfidentTries ELSE answered
    IN IF ReliableTries # {} THEN ReliableTries ELSE fallback

\* attempts.index(final) finds the first attempt that equals the selected one; two
\* attempts that are equal here may still differ in text, so any equal one may be found.
Select ==
    /\ pc = "select"
    /\ \E last \in Eligible :
          /\ \A i \in Eligible : i <= last
          /\ \E i \in 1 .. last : attempts[i] = attempts[last] /\ final' = i
    /\ pc' = "done"
    /\ UNCHANGED <<config, difficulty, current, attempts, calls, nextStage, ran, initialCalls>>

\* A backend call (or an estimator that finds no log-probabilities) raises: run() is left
\* with an exception, and the outputs of the call that raised are not recorded.
MayRaise ==
    \/ pc = "difficulty" /\ config.difficultyJudge
    \/ pc = "generate"
    \/ pc = "score" /\ config.confidence # "none"
    \/ pc = "verify" /\ ~VerificationOver /\ NextVerifier = "judge"

Raise ==
    /\ MayRaise
    /\ pc' = "failed"
    /\ UNCHANGED <<config, difficulty, current, attempts, calls, nextStage, ran,
                   initialCalls, final>>

-----------------------------------------------------------------------------
Next ==
    \/ EstimateDifficulty
    \/ Route
    \/ GenerateOnce
    \/ GenerateVote
    \/ ToolTurn
    \/ Score
    \/ Verify
    \/ JudgeInitial
    \/ JudgeStage
    \/ RunStage
    \/ SkipStage
    \/ StopEscalating
    \/ Select
    \/ Raise

\* run() is one thread of plain code, and every backend call returns or times out.
Spec == Init /\ [][Next]_vars /\ WF_vars(Next)

-----------------------------------------------------------------------------
(* Properties. *)

DraftType == [
    stage      : AttemptStages,
    model      : Models,
    answer     : Answers \cup {None},
    confidence : Levels \cup {None},
    verdict    : Verdicts,
    checked    : Nat,
    toolCalls  : 0 .. ToolSteps ]

AttemptType == [
    stage      : AttemptStages,
    model      : Models,
    answer     : Answers \cup {None},
    confidence : Levels \cup {None},
    verdict    : Verdicts,
    trigger    : SUBSET Triggers ]

\* The variables of RouteGuardPipeline.run range over the values the code gives them.
TypeOK ==
    /\ config \in Configs
    /\ pc \in {"difficulty", "route", "generate", "score", "verify", "stage", "select",
               "done", "failed"}
    /\ difficulty \in Levels
    /\ current \in DraftType
    /\ attempts \in Seq(AttemptType)
    /\ calls \in Seq(Call)
    /\ nextStage \in Nat \ {0}
    /\ ran \in Nat
    /\ initialCalls \in Nat
    /\ final \in Nat

\* escalation_overhead() sums calls[initial_call_count:].  That slice holds every call made
\* for an escalation attempt and none of the initial one's, the confidence samples and the
\* judges included, however the run interleaves generation and assessment; so a query that
\* did not escalate has no overhead, and totals() minus overhead is the initial cost.
OverheadIsEscalation ==
    attempts # << >> =>
        \A i \in DOMAIN calls : calls[i].attempt > 1 <=> i > initialCalls

\* "Components never call a backend directly" (context.py): no attempt is free, and none
\* costs more than its stage, its confidence samples and one judge call per judge verifier;
\* none of a judge listed after a format check that failed (docs/escalation.md: "so an
\* expensive judge is not called after a cheap check has already failed").
EveryTryIsCharged ==
    \A k \in DOMAIN attempts :
        LET stage == attempts[k].stage
            charged(p) == Cardinality({i \in DOMAIN calls :
                                          calls[i].attempt = k /\ calls[i].purpose = p})
            all == Cardinality({i \in DOMAIN calls : calls[i].attempt = k})
            overhead == charged("difficulty_judge") + charged("confidence_sample")
                           + charged("verify_judge")
            answering == CASE stage = "self_consistency" -> {VoteSamples}
                           [] stage = "tool" -> 1 .. ToolSteps + 1
                           [] OTHER -> {1}
        IN /\ all - overhead \in answering
           /\ charged("confidence_sample") =
                 IF config.confidence = "sampling" /\ stage # "self_consistency"
                    THEN ConfidenceSamples ELSE 0
           /\ charged("verify_judge") <=
                 Cardinality({v \in DOMAIN config.verifiers :
                                 /\ config.verifiers[v] = "judge"
                                 /\ attempts[k].answer = None =>
                                       \A u \in 1 .. v - 1 : config.verifiers[u] # "format"})

\* A reliable attempt ends the run: nothing is generated after it, and select_final, which
\* searches by value from the front, returns that attempt.
ReliableEndsRun ==
    \A i \in DOMAIN attempts : IsReliable(attempts[i]) =>
        /\ i = Len(attempts)
        /\ pc \in {"select", "done"}
        /\ pc = "done" => final = i

\* Escalation never trades an answer for no answer: while the format check is on, the final
\* answer is missing only if every attempt's was.
NoAnswerDropped ==
    /\ pc = "done"
    /\ config.onVerificationFailure
    /\ \E v \in DOMAIN config.verifiers : config.verifiers[v] = "format"
    /\ attempts[final].answer = None
    => AnsweredTries = {}

\* The stronger_model stage climbs: its attempt is by a strictly stronger model than all the
\* attempts before it, whichever stages ran between and whatever models they were pinned to.
StrongerModelClimbs ==
    \A j \in DOMAIN attempts : attempts[j].stage = "stronger_model" =>
        \A i \in 1 .. j - 1 : attempts[i].model < attempts[j].model

RespectsCertificate(a, initial) ==
    LET routed == config.initialThresholds[a.model]
        overall == config.thresholds[a.model]
    IN /\ initial /\ routed # None => routed <= a.confidence
       /\ ~initial \/ routed = None => (overall # None => overall <= a.confidence)

\* docs/confidence.md: an answer is accepted only at or above the threshold certified for its
\* model; from a model for which nothing could be certified no scored answer is accepted,
\* and the threshold certified on routed queries is the one that judges initial answers.
OnlyCertifiedAccepted ==
    \A i \in DOMAIN attempts :
        config.riskControl /\ attempts[i].confidence # None /\ IsReliable(attempts[i]) =>
            RespectsCertificate(attempts[i], i = 1)

\* docs/escalation.md: stages run "until an attempt is reliable or max_stages stages have
\* produced attempts".  With escalation on, an unreliable last attempt is accepted only when
\* the stages are used up: each left no attempt behind only because it did not apply.
GivesUpOnlyWhenExhausted ==
    /\ Len(attempts) <= 1 + config.maxStages
    /\ pc \in {"select", "done"} /\ config.enabled /\ ReliableTries = {} =>
          \/ Len(attempts) = 1 + config.maxStages
          \/ /\ nextStage > Len(config.stages)
             /\ \A s \in DOMAIN config.stages :
                   config.stages[s].kind \notin {"stronger_model", "tool"} =>
                      \E i \in 2 .. Len(attempts) : attempts[i].stage = config.stages[s].kind

\* run() always ends, with a result or an exception: the tool loop, the verifier list and the
\* stage list are all finite.
Terminates == <>(pc \in {"done", "failed"})

\* The caller's view of a run.
Protocol == INSTANCE EscalationProtocol WITH
    budget <- IF config.enabled THEN 1 + config.maxStages ELSE 1,
    tries  <- [i \in DOMAIN attempts |-> IsReliable(attempts[i])],
    status <- IF pc = "done" THEN "answered" ELSE IF pc = "failed" THEN "failed" ELSE "open",
    answer <- final

\* run() implements the escalation protocol.
ImplementsProtocol == Protocol!Spec
=============================================================================
