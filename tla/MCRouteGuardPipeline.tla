------------------------ MODULE MCRouteGuardPipeline ------------------------
(* A pool of three models, a score grid of three levels and the configurations below. *)
EXTENDS RouteGuardPipeline

Stage(kind, target) == [kind |-> kind, target |-> target, model |-> 0]
Pinned(kind, m) == [kind |-> kind, target |-> "fixed", model |-> m]

NotCertified == [m \in Models |-> None]

\* configs/demo.yaml without its calibration: two steps up, fixed threshold.
Demo == [
    enabled               |-> TRUE,
    stages                |-> <<Stage("stronger_model", "next"), Stage("stronger_model", "next")>>,
    maxStages             |-> 2,
    selection             |-> "last",
    confidenceBelow       |-> 2,
    riskControl           |-> FALSE,
    thresholds            |-> NotCertified,
    initialThresholds     |-> NotCertified,
    onVerificationFailure |-> TRUE,
    difficultyAbove       |-> None,
    difficultyJudge       |-> FALSE,
    confidence            |-> "logprob",
    verifiers             |-> <<"format">>,
    numeric               |-> TRUE ]

\* Risk control: model 0 certified, model 1 certified at no threshold, the strongest
\* seen on routed queries only and certified at no threshold there.
RiskControl == [Demo EXCEPT
    !.riskControl = TRUE,
    !.confidenceBelow = None,
    !.thresholds = [m \in Models |-> IF m = 0 THEN 1 ELSE IF m = 1 THEN Top + 1 ELSE 2],
    !.initialThresholds = [m \in Models |-> IF m = 0 THEN 2 ELSE IF m = 1 THEN None ELSE Top + 1],
    !.stages = <<Stage("reprompt", "current"), Stage("stronger_model", "next")>>,
    !.selection = "most_confident" ]

\* Stages pinned below the models already tried, then one that has to climb.
PinnedStages == [Demo EXCEPT
    !.stages = <<Stage("stronger_model", "next"), Pinned("retrieval", 0),
                 Stage("stronger_model", "next")>>,
    !.maxStages = 3,
    !.confidence = "none",
    !.difficultyAbove = 1,
    !.difficultyJudge = TRUE,
    !.verifiers = <<"format", "judge">> ]

\* The sampling stages, on a numeric and on another query.
Sampling(numeric) == [Demo EXCEPT
    !.stages = <<Stage("tool", "current"), Stage("self_consistency", "current"),
                 Stage("judge_select", "strongest")>>,
    !.maxStages = 2,
    !.confidence = "sampling",
    !.selection = "most_confident",
    !.verifiers = <<"format", "check", "judge">>,
    !.numeric = numeric ]

\* Escalation off, and no verifier that fails: the first try is the answer.
NoEscalation == [Demo EXCEPT !.enabled = FALSE, !.verifiers = << >>]

\* Without the format check an answerless attempt may be accepted, or all may be.
NoVerifier == [Demo EXCEPT
    !.verifiers = << >>,
    !.stages = <<Stage("stronger_model", "strongest"), Stage("self_consistency", "current"),
                 Stage("stronger_model", "strongest")>>,
    !.maxStages = 3,
    !.selection = "most_confident" ]

MCConfigs == {Demo, RiskControl, PinnedStages, Sampling(TRUE), Sampling(FALSE),
              NoEscalation, NoVerifier}
=============================================================================
