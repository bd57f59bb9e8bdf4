---------------------- MODULE RouteGuardPipelineProofs ----------------------
(***************************************************************************)
(* Theorems about RouteGuardPipeline, for every pool, grid and set of      *)
(* configurations.                                                         *)
(***************************************************************************)
EXTENDS RouteGuardPipeline, FiniteSetTheorems, SequenceTheorems, TLAPS

\* What Charge does to the ledger: old entries stay, new ones carry the attempt's number.
LEMMA ChargeExtends ==
    ASSUME NEW purpose \in Purposes, NEW n \in Nat, calls \in Seq(Call), Len(attempts) \in Nat,
           Charge(purpose, n)
    PROVE  /\ calls' \in Seq(Call)
           /\ Len(calls') = Len(calls) + n
           /\ \A i \in 1 .. Len(calls) : calls'[i] = calls[i]
           /\ \A i \in Len(calls) + 1 .. Len(calls') : calls'[i].attempt = Len(attempts) + 1
<1> DEFINE new == [i \in 1 .. n |-> [purpose |-> purpose, attempt |-> Len(attempts) + 1]]
<1>1. new \in Seq(Call) /\ Len(new) = n
  BY DEF Call
<1>2. calls' = calls \o new
  BY DEF Charge
<1> HIDE DEF new
<1>3. calls' \in Seq(Call) /\ Len(calls') = Len(calls) + n
  BY <1>1, <1>2, ConcatProperties
<1>4. \A i \in 1 .. Len(calls) : calls'[i] = calls[i]
  BY <1>1, <1>2, ConcatProperties
<1>5. ASSUME NEW i \in Len(calls) + 1 .. Len(calls')
      PROVE  calls'[i].attempt = Len(attempts) + 1
  <2>1. calls'[i] = new[i - Len(calls)] /\ i - Len(calls) \in 1 .. n
    BY <1>1, <1>2, <1>3, ConcatProperties
  <2> QED
    BY <2>1 DEF new
<1> QED
  BY <1>3, <1>4, <1>5

\* Every step keeps the ledger and charges what it adds to the attempt being built.
LedgerGrows ==
    /\ calls' \in Seq(Call)
    /\ Len(calls) <= Len(calls')
    /\ \A i \in 1 .. Len(calls) : calls'[i] = calls[i]
    /\ \A i \in Len(calls) + 1 .. Len(calls') : calls'[i].attempt = Len(attempts) + 1

LEMMA StepsGrowLedger ==
    ASSUME TypeOK, [Next]_vars
    PROVE  LedgerGrows
<1> USE SampleAssumption
<1>1. ASSUME NEW purpose \in Purposes, NEW n \in Nat, Charge(purpose, n)
      PROVE  LedgerGrows
  <2>1. calls \in Seq(Call) /\ Len(attempts) \in Nat
    BY DEF TypeOK
  <2> QED
    BY <1>1, <2>1, ChargeExtends DEF LedgerGrows
<1>2. CASE UNCHANGED calls
  BY <1>2 DEF TypeOK, LedgerGrows
<1>3. /\ current.stage \in Purposes
      /\ {"difficulty_judge", "confidence_sample", "verify_judge", "tool_agent",
          "escalation_self_consistency", "escalation_judge_select"} \subseteq Purposes
  BY DEF TypeOK, DraftType, Purposes
<1>4. CASE EstimateDifficulty
  <2> DEFINE n == IF config.difficultyJudge THEN 1 ELSE 0
  <2>1. Charge("difficulty_judge", n)
    BY <1>4 DEF EstimateDifficulty
  <2>2. n \in Nat
    OBVIOUS
  <2> QED
    BY <1>1, <1>3, <2>1, <2>2
<1>5. CASE GenerateOnce
  <2> DEFINE purpose == IF current.stage = "judge_select" /\ Candidates # {}
                           THEN "escalation_judge_select" ELSE current.stage
  <2>1. Charge(purpose, 1)
    BY <1>5 DEF GenerateOnce
  <2>2. purpose \in Purposes
    BY <1>3
  <2> HIDE DEF purpose
  <2> QED
    BY <1>1, <2>1, <2>2
<1>6. CASE GenerateVote
  BY <1>1, <1>3, <1>6 DEF GenerateVote
<1>7. CASE ToolTurn
  BY <1>1, <1>3, <1>7 DEF ToolTurn
<1>8. CASE Score
  <2> DEFINE n == IF config.confidence = "sampling" THEN ConfidenceSamples ELSE 0
  <2>1. Charge("confidence_sample", n)
    BY <1>8 DEF Score
  <2>2. n \in Nat
    OBVIOUS
  <2> HIDE DEF n
  <2> QED
    BY <1>1, <1>3, <2>1, <2>2
<1>9. CASE Verify
  <2> DEFINE n == IF NextVerifier = "judge" THEN 1 ELSE 0
  <2>1. Charge("verify_judge", n)
    BY <1>9 DEF Verify
  <2>2. n \in Nat
    OBVIOUS
  <2> HIDE DEF n
  <2> QED
    BY <1>1, <1>3, <2>1, <2>2
<1>10. CASE \/ Route \/ JudgeInitial \/ JudgeStage \/ RunStage \/ SkipStage
            \/ StopEscalating \/ Select \/ Raise \/ UNCHANGED vars
  BY <1>2, <1>10 DEF Route, JudgeInitial, JudgeStage, RunStage, SkipStage, StopEscalating,
     Select, Raise, vars
<1> QED
  BY <1>4, <1>5, <1>6, <1>7, <1>8, <1>9, <1>10 DEF Next

THEOREM TypeCorrect == Spec => []TypeOK
<1>1. Init => TypeOK
  BY PoolAssumption, GridAssumption, SampleAssumption
     DEF Init, TypeOK, Draft, DraftType, AttemptStages, Verdicts, Models, Levels
<1>2. TypeOK /\ [Next]_vars => TypeOK'
  <2> SUFFICES ASSUME TypeOK, [Next]_vars
               PROVE  TypeOK'
    OBVIOUS
  <2> USE PoolAssumption, GridAssumption, SampleAssumption
  <2>1. calls' \in Seq(Call)
    BY StepsGrowLedger DEF LedgerGrows
  <2>2. CASE EstimateDifficulty
    BY <2>1, <2>2 DEF EstimateDifficulty, TypeOK
  <2>3. CASE Route
    BY <2>1, <2>3 DEF Route, TypeOK, Draft, DraftType, AttemptStages, Verdicts
  <2>4. CASE GenerateOnce
    <3>1. current' \in DraftType
      BY <2>4 DEF GenerateOnce, TypeOK, DraftType
    <3> QED
      BY <2>1, <2>4, <3>1 DEF GenerateOnce, TypeOK
  <2>5. CASE GenerateVote
    <3>1. PICK answer \in [Samples -> Answers \cup {None}], i \in Samples, share \in Levels :
             current' = [current EXCEPT !.answer = answer[i], !.confidence = share]
      BY <2>5 DEF GenerateVote
    <3>2. answer[i] \in Answers \cup {None}
      OBVIOUS
    <3>3. current' \in DraftType
      <4> DEFINE a == answer[i]
      <4>1. current' = [current EXCEPT !.answer = a, !.confidence = share]
        BY <3>1
      <4>2. a \in Answers \cup {None} /\ current \in DraftType
        BY <3>2 DEF TypeOK
      <4> HIDE DEF a
      <4> QED
        BY <4>1, <4>2 DEF DraftType
    <3>4. pc' = "verify" /\ UNCHANGED <<config, difficulty, attempts, nextStage, ran,
                                       initialCalls, final>>
      BY <2>5 DEF GenerateVote
    <3> QED
      BY <2>1, <3>3, <3>4 DEF TypeOK
  <2>6. CASE ToolTurn
    <3>1. current' \in DraftType
      <4>1. CASE /\ current.toolCalls < ToolSteps
                 /\ current' = [current EXCEPT !.toolCalls = @ + 1]
        <5>1. current.toolCalls + 1 \in 0 .. ToolSteps
          BY <4>1 DEF TypeOK, DraftType
        <5> QED
          BY <4>1, <5>1 DEF TypeOK, DraftType
      <4>2. CASE \E a \in Answers \cup {None} : current' = [current EXCEPT !.answer = a]
        BY <4>2 DEF TypeOK, DraftType
      <4> QED
        BY <2>6, <4>1, <4>2 DEF ToolTurn, MayCallTool
    <3> QED
      BY <2>1, <2>6, <3>1 DEF ToolTurn, TypeOK
  <2>7. CASE Score
    <3>1. current' \in DraftType
      BY <2>7 DEF Score, TypeOK, DraftType
    <3> QED
      BY <2>1, <2>7, <3>1 DEF Score, TypeOK
  <2>8. CASE Verify
    <3>1. VerdictsOf(NextVerifier) \subseteq Verdicts
      BY DEF VerdictsOf, Verdicts
    <3>2. PICK v \in Verdicts :
             current' = [current EXCEPT !.checked = @ + 1,
                                        !.verdict = IF v = "skipped" THEN @ ELSE v]
      BY <2>8, <3>1 DEF Verify
    <3>3. current' \in DraftType
      <4> DEFINE w == IF v = "skipped" THEN current.verdict ELSE v
      <4>1. current' = [current EXCEPT !.checked = current.checked + 1, !.verdict = w]
        BY <3>2
      <4>2. current \in DraftType /\ current.checked + 1 \in Nat /\ w \in Verdicts
        BY DEF TypeOK, DraftType
      <4> HIDE DEF w
      <4> QED
        BY <4>1, <4>2 DEF DraftType
    <3> QED
      BY <2>1, <2>8, <3>3 DEF Verify, TypeOK
  <2>9. ASSUME NEW initial \in BOOLEAN
        PROVE  Assessed(current, initial) \in AttemptType
    <3>1. Fired(current, initial) \in SUBSET Triggers
      BY DEF Fired
    <3> QED
      BY <3>1 DEF Assessed, AttemptType, DraftType, TypeOK
  <2>10. CASE JudgeInitial
    <3> DEFINE first == Assessed(current, TRUE)
    <3>1. first \in AttemptType
      BY <2>9
    <3>2. /\ attempts' = <<first>>
          /\ pc' \in {"stage", "select"}
          /\ initialCalls' = Len(calls)
          /\ UNCHANGED <<config, difficulty, current, calls, nextStage, ran, final>>
      BY <2>10 DEF JudgeInitial
    <3> HIDE DEF first
    <3> QED
      BY <3>1, <3>2 DEF TypeOK
  <2>11. CASE JudgeStage
    <3> DEFINE new == Assessed(current, FALSE)
    <3>1. new \in AttemptType
      BY <2>9
    <3>2. /\ attempts' = Append(attempts, new)
          /\ pc' \in {"stage", "select"}
          /\ ran' = ran + 1
          /\ UNCHANGED <<config, difficulty, current, calls, nextStage, initialCalls, final>>
      BY <2>11 DEF JudgeStage
    <3> HIDE DEF new
    <3> QED
      BY <3>1, <3>2 DEF TypeOK
  <2>12. CASE RunStage
    <3>1. config.stages \in Seq(StageConfig) /\ nextStage \in 1 .. Len(config.stages)
      BY <2>12, ConfigAssumption DEF RunStage, StagesLeft, TypeOK, Config
    <3>2. config.stages[nextStage].kind \in StageKinds
      BY <3>1 DEF StageConfig
    <3>3. PICK m \in Models : current' = Draft(config.stages[nextStage].kind, m)
      BY <2>12 DEF RunStage, StageModels
    <3>4. current' \in DraftType
      BY <3>2, <3>3 DEF Draft, DraftType, AttemptStages, Verdicts
    <3> QED
      BY <2>1, <2>12, <3>4 DEF RunStage, TypeOK
  <2>13. CASE SkipStage
    BY <2>1, <2>13 DEF SkipStage, TypeOK
  <2>14. CASE StopEscalating
    BY <2>1, <2>14 DEF StopEscalating, TypeOK
  <2>15. CASE Select
    BY <2>1, <2>15 DEF Select, TypeOK
  <2>16. CASE Raise
    BY <2>1, <2>16 DEF Raise, TypeOK
  <2>17. CASE UNCHANGED vars
    BY <2>17 DEF vars, TypeOK
  <2> QED
    BY <2>2, <2>3, <2>4, <2>5, <2>6, <2>7, <2>8, <2>10, <2>11, <2>12, <2>13,
       <2>14, <2>15, <2>16, <2>17 DEF Next
<1> QED
  BY <1>1, <1>2, PTL DEF Spec

-----------------------------------------------------------------------------
(* The shape of a run: which attempts exist at which statement. *)

Building == pc \in {"generate", "score", "verify"}

Flow ==
    /\ pc \in {"difficulty", "route"} => attempts = << >>
    /\ pc \in {"stage", "select", "done"} => attempts # << >>
    /\ attempts = << >> => ran = 0
    /\ attempts # << >> => ran = Len(attempts) - 1
    /\ ran <= config.maxStages
    /\ Building /\ attempts # << >> => config.enabled /\ ran < config.maxStages
    /\ pc = "stage" => config.enabled
    /\ pc # "stage" /\ Len(attempts) > 1 => config.enabled
    /\ pc # "done" => final = 0

LEMMA FlowCorrect == Spec => []Flow
<1>1. Init => Flow
  BY ConfigAssumption DEF Init, Flow, Building, Config
<1>2. TypeOK /\ Flow /\ [Next]_vars => Flow'
  <2> SUFFICES ASSUME TypeOK, Flow, [Next]_vars
               PROVE  Flow'
    OBVIOUS
  <2>0. config.maxStages \in Nat /\ attempts \in Seq(AttemptType) /\ ran \in Nat
    BY ConfigAssumption DEF TypeOK, Config
  <2>1. CASE JudgeInitial
    <3>1. PICK first : attempts' = <<first>>
      BY <2>1 DEF JudgeInitial
    <3>2. Len(attempts') = 1 /\ attempts' # << >>
      BY <3>1
    <3>3. /\ pc = "verify" /\ pc' \in {"stage", "select"} /\ (pc' = "stage" => config.enabled)
          /\ attempts = << >> /\ config' = config /\ ran' = ran /\ final' = final
      BY <2>1 DEF JudgeInitial
    <3> QED
      BY <2>0, <3>2, <3>3 DEF Flow, Building
  <2>2. CASE JudgeStage
    <3>1. PICK new : attempts' = Append(attempts, new)
      BY <2>2 DEF JudgeStage
    <3>2. Len(attempts') = Len(attempts) + 1 /\ attempts' # << >>
      BY <2>0, <3>1
    <3>3. /\ pc = "verify" /\ pc' \in {"stage", "select"}
          /\ attempts # << >> /\ config' = config /\ ran' = ran + 1 /\ final' = final
      BY <2>2 DEF JudgeStage
    <3> QED
      BY <2>0, <3>2, <3>3 DEF Flow, Building
  <2>3. CASE \/ EstimateDifficulty \/ Route \/ GenerateOnce \/ GenerateVote \/ ToolTurn
             \/ Score \/ Verify
    BY <2>0, <2>3 DEF EstimateDifficulty, Route, GenerateOnce, GenerateVote, ToolTurn, Score,
       Verify, Flow, Building
  <2>4. CASE \/ RunStage \/ SkipStage \/ StopEscalating \/ Select \/ Raise \/ UNCHANGED vars
    BY <2>0, <2>4 DEF RunStage, SkipStage, StopEscalating, Select, Raise, MayRaise,
       StagesLeft, vars, Flow, Building
  <2> QED
    BY <2>1, <2>2, <2>3, <2>4 DEF Next
<1> QED
  BY <1>1, <1>2, TypeCorrect, PTL DEF Spec

\* Only the two judging steps change the attempts, and each appends one attempt.
LEMMA AttemptsAppended ==
    ASSUME TypeOK, [Next]_vars, attempts' # attempts
    PROVE  \/ JudgeInitial /\ attempts' = <<Assessed(current, TRUE)>>
           \/ JudgeStage /\ attempts' = Append(attempts, Assessed(current, FALSE))
BY DEF Next, vars, EstimateDifficulty, Route, GenerateOnce, GenerateVote, ToolTurn, Score,
   Verify, JudgeInitial, JudgeStage, RunStage, SkipStage, StopEscalating, Select, Raise

-----------------------------------------------------------------------------
\* A reliable attempt is the last one and the one returned.
THEOREM ReliableAttemptReturned == Spec => []ReliableEndsRun
<1>1. Init => ReliableEndsRun
  BY DEF Init, ReliableEndsRun
<1>2. TypeOK /\ Flow /\ ReliableEndsRun /\ [Next]_vars => ReliableEndsRun'
  <2> SUFFICES ASSUME TypeOK, Flow, ReliableEndsRun, [Next]_vars,
                      NEW k \in DOMAIN attempts', IsReliable(attempts'[k])
               PROVE  k = Len(attempts') /\ pc' \in {"select", "done"} /\ (pc' = "done" => final' = k)
    BY DEF ReliableEndsRun, IsReliable
  <2>0. attempts \in Seq(AttemptType)
    BY DEF TypeOK
  <2>1. CASE JudgeInitial
    <3>1. PICK first : attempts' = <<first>> /\ (IsReliable(first) => pc' = "select")
      BY <2>1 DEF JudgeInitial
    <3> QED
      BY <3>1
  <2>2. CASE JudgeStage
    <3>1. PICK new : attempts' = Append(attempts, new) /\ (IsReliable(new) => pc' = "select")
      BY <2>2 DEF JudgeStage
    <3>2. \A i \in DOMAIN attempts : ~IsReliable(attempts[i])
      BY <2>2 DEF JudgeStage, ReliableEndsRun
    <3>3. CASE k <= Len(attempts)
      BY <2>0, <3>1, <3>2, <3>3
    <3>4. CASE k = Len(attempts) + 1
      BY <2>0, <3>1, <3>4
    <3> QED
      BY <2>0, <3>1, <3>3, <3>4
  <2>3. CASE Select
    <3>1. k = Len(attempts) /\ ReliableTries = {k}
      BY <2>3, <2>0 DEF Select, ReliableEndsRun, ReliableTries
    <3>2. Eligible = {k}
      BY <3>1 DEF Eligible
    <3>3. attempts[final'] = attempts[k] /\ final' \in 1 .. k
      BY <2>0, <2>3, <3>1, <3>2 DEF Select
    <3>4. final' \in ReliableTries
      BY <2>0, <3>1, <3>3 DEF ReliableTries
    <3> QED
      BY <2>3, <3>1, <3>4 DEF Select
  <2>4. CASE attempts' = attempts /\ ~Select
    <3>1. k = Len(attempts) /\ pc \in {"select", "done"} /\ (pc = "done" => final = k)
      BY <2>4 DEF ReliableEndsRun
    <3>2. UNCHANGED vars
      BY <2>4, <3>1 DEF Next, EstimateDifficulty, Route, GenerateOnce, GenerateVote, ToolTurn,
         Score, Verify, JudgeInitial, JudgeStage, RunStage, SkipStage, StopEscalating,
         Raise, MayRaise
    <3> QED
      BY <2>4, <3>1, <3>2 DEF vars
  <2> QED
    BY <2>1, <2>2, <2>3, <2>4, AttemptsAppended
<1> QED
  BY <1>1, <1>2, TypeCorrect, FlowCorrect, PTL DEF Spec

-----------------------------------------------------------------------------
\* Until the initial attempt is judged every call is its own; afterwards its calls are a
\* prefix of the ledger.
Ledger ==
    /\ attempts = << >> => \A i \in DOMAIN calls : calls[i].attempt = 1
    /\ attempts # << >> => initialCalls <= Len(calls)
    /\ OverheadIsEscalation

THEOREM OverheadExact == Spec => []OverheadIsEscalation
<1>1. Init => Ledger
  BY DEF Init, Ledger, OverheadIsEscalation
<1>2. TypeOK /\ Ledger /\ [Next]_vars => Ledger'
  <2> SUFFICES ASSUME TypeOK, Ledger, [Next]_vars
               PROVE  Ledger'
    OBVIOUS
  <2>0. attempts \in Seq(AttemptType) /\ calls \in Seq(Call) /\ initialCalls \in Nat
    BY DEF TypeOK
  <2>1. LedgerGrows
    BY StepsGrowLedger
  <2>2. CASE JudgeInitial
    <3>1. PICK first : attempts' = <<first>>
      BY <2>2 DEF JudgeInitial
    <3>2. attempts = << >> /\ calls' = calls /\ initialCalls' = Len(calls)
      BY <2>2 DEF JudgeInitial
    <3> QED
      BY <2>0, <3>1, <3>2 DEF Ledger, OverheadIsEscalation
  <2>3. CASE JudgeStage
    <3>1. PICK new : attempts' = Append(attempts, new)
      BY <2>3 DEF JudgeStage
    <3>2. attempts # << >> /\ calls' = calls /\ initialCalls' = initialCalls
      BY <2>3 DEF JudgeStage
    <3> QED
      BY <2>0, <3>1, <3>2 DEF Ledger, OverheadIsEscalation
  <2>4. CASE attempts' = attempts /\ initialCalls' = initialCalls
    <3>1. CASE attempts = << >>
      BY <2>0, <2>1, <2>4, <3>1 DEF Ledger, LedgerGrows, OverheadIsEscalation
    <3>2. CASE attempts # << >>
      <4>1. Len(attempts) + 1 > 1
        BY <2>0, <3>2
      <4> QED
        BY <2>0, <2>1, <2>4, <3>2, <4>1 DEF Ledger, LedgerGrows, OverheadIsEscalation
    <3> QED
      BY <3>1, <3>2
  <2>5. \/ JudgeInitial \/ JudgeStage
        \/ attempts' = attempts /\ initialCalls' = initialCalls
    BY DEF Next, vars, EstimateDifficulty, Route, GenerateOnce, GenerateVote, ToolTurn, Score,
       Verify, JudgeInitial, JudgeStage, RunStage, SkipStage, StopEscalating, Select, Raise
  <2> QED
    BY <2>2, <2>3, <2>4, <2>5
<1>3. Ledger => OverheadIsEscalation
  BY DEF Ledger
<1> QED
  BY <1>1, <1>2, <1>3, TypeCorrect, PTL DEF Spec

-----------------------------------------------------------------------------
\* The triggers an attempt was judged by bind its confidence to the certified threshold.
LEMMA ReliableIsCertified ==
    ASSUME TypeOK, NEW initial \in BOOLEAN,
           IsReliable(Assessed(current, initial)), config.riskControl,
           Assessed(current, initial).confidence # None
    PROVE  RespectsCertificate(Assessed(current, initial), initial)
<1> DEFINE m == current.model
           limit == Threshold(m, initial)
<1>0. /\ Assessed(current, initial).model = m
      /\ Assessed(current, initial).confidence = current.confidence
      /\ Assessed(current, initial).trigger = Fired(current, initial)
  BY DEF Assessed
<1>1. "low_confidence" \notin Fired(current, initial)
  BY <1>0 DEF IsReliable
<1>2. limit # None => ~(current.confidence < limit)
  BY <1>0, <1>1 DEF Fired, Triggers
<1>3. /\ current.confidence \in Int
      /\ config.initialThresholds[m] \in Int \cup {None}
      /\ config.thresholds[m] \in Int \cup {None}
  BY <1>0, ConfigAssumption DEF TypeOK, DraftType, Levels, Config
<1>4. CASE initial /\ config.initialThresholds[m] # None
  BY <1>0, <1>2, <1>3, <1>4 DEF Threshold, RespectsCertificate
<1>5. CASE ~(initial /\ config.initialThresholds[m] # None)
  BY <1>0, <1>2, <1>3, <1>5 DEF Threshold, RespectsCertificate
<1> QED
  BY <1>4, <1>5

\* No answer with a score is accepted below the threshold certified for its model and role.
THEOREM AcceptedIsCertified == Spec => []OnlyCertifiedAccepted
<1>1. Init => OnlyCertifiedAccepted
  BY DEF Init, OnlyCertifiedAccepted
<1>2. TypeOK /\ OnlyCertifiedAccepted /\ [Next]_vars => OnlyCertifiedAccepted'
  <2> SUFFICES ASSUME TypeOK, OnlyCertifiedAccepted, [Next]_vars,
                      NEW k \in DOMAIN attempts', config'.riskControl,
                      attempts'[k].confidence # None, IsReliable(attempts'[k])
               PROVE  RespectsCertificate(attempts[k], k = 1)'
    BY DEF OnlyCertifiedAccepted, IsReliable
  <2>0. attempts \in Seq(AttemptType) /\ config' = config
    BY DEF TypeOK, Next, vars, EstimateDifficulty, Route, GenerateOnce, GenerateVote, ToolTurn,
       Score, Verify, JudgeInitial, JudgeStage, RunStage, SkipStage, StopEscalating, Select, Raise
  <2>1. ASSUME NEW initial \in BOOLEAN, initial <=> k = 1,
               attempts'[k] = Assessed(current, initial)
        PROVE  RespectsCertificate(attempts[k], k = 1)'
    <3>1. RespectsCertificate(Assessed(current, initial), initial)
      BY <2>0, <2>1, ReliableIsCertified
    <3> QED
      BY <2>0, <2>1, <3>1 DEF RespectsCertificate
  <2>2. CASE k \in DOMAIN attempts /\ attempts'[k] = attempts[k]
    <3>1. RespectsCertificate(attempts[k], k = 1)
      BY <2>0, <2>2 DEF OnlyCertifiedAccepted
    <3> QED
      BY <2>0, <2>2, <3>1 DEF RespectsCertificate
  <2>3. CASE attempts' = <<Assessed(current, TRUE)>>
    <3>1. PICK first : first = Assessed(current, TRUE) /\ attempts' = <<first>>
      BY <2>3
    <3>2. DOMAIN <<first>> = {1} /\ <<first>>[1] = first
      OBVIOUS
    <3>3. k = 1
      BY <3>1, <3>2
    <3> QED
      BY <2>1, <3>1, <3>2, <3>3
  <2>4. CASE JudgeStage /\ attempts' = Append(attempts, Assessed(current, FALSE))
    <3> DEFINE new == Assessed(current, FALSE)
    <3>1. attempts # << >> /\ attempts' = Append(attempts, new)
      BY <2>4 DEF JudgeStage
    <3>2. \/ k # 1 /\ attempts'[k] = new
          \/ k \in DOMAIN attempts /\ attempts'[k] = attempts[k]
      <4> HIDE DEF new
      <4>1. k \in 1 .. Len(attempts) + 1 /\ Len(attempts) >= 1
        BY <2>0, <3>1
      <4> QED
        BY <2>0, <3>1, <4>1
    <3> QED
      BY <2>1, <2>2, <3>2
  <2> QED
    BY <2>2, <2>3, <2>4, AttemptsAppended
<1> QED
  BY <1>1, <1>2, TypeCorrect, PTL DEF Spec

-----------------------------------------------------------------------------
(* The stronger_model stage compares with the strongest model tried so far. *)

Climbs ==
    /\ StrongerModelClimbs
    /\ attempts # << >> => \E t \in Tried : \A u \in Tried : u <= t
    /\ Building /\ current.stage = "stronger_model" =>
          \A i \in DOMAIN attempts : attempts[i].model < current.model

\* An attempt of the stronger_model stage is by a stronger model than every earlier attempt.
THEOREM StrongerClimbs == Spec => []StrongerModelClimbs
<1>1. Init => Climbs
  BY DEF Init, Climbs, StrongerModelClimbs, Draft, Building
<1>2. TypeOK /\ Flow /\ Climbs /\ [Next]_vars => Climbs'
  <2> SUFFICES ASSUME TypeOK, Flow, Climbs, [Next]_vars
               PROVE  Climbs'
    OBVIOUS
  <2>0. /\ attempts \in Seq(AttemptType)
        /\ \A i \in DOMAIN attempts : attempts[i].model \in Int
        /\ current.model \in Int
    <3>1. attempts \in Seq(AttemptType) /\ current \in DraftType
      BY DEF TypeOK
    <3>2. \A i \in DOMAIN attempts : attempts[i] \in AttemptType
      BY <3>1
    <3> QED
      BY <3>1, <3>2, PoolAssumption DEF AttemptType, DraftType, Models
  <2>1. CASE JudgeInitial
    <3> DEFINE first == Assessed(current, TRUE)
    <3>1. attempts' = <<first>> /\ pc' \in {"stage", "select"} /\ first.model = current.model
      BY <2>1 DEF JudgeInitial, Assessed
    <3> HIDE DEF first
    <3>2. Tried' = {current.model}
      BY <3>1 DEF Tried
    <3> QED
      BY <2>0, <3>1, <3>2 DEF Climbs, StrongerModelClimbs, Building
  <2>2. CASE JudgeStage
    <3> DEFINE new == Assessed(current, FALSE)
    <3>1. /\ attempts' = Append(attempts, new) /\ pc' \in {"stage", "select"}
          /\ new.model = current.model /\ new.stage = current.stage
      BY <2>2 DEF JudgeStage, Assessed
    <3> HIDE DEF new
    <3>2. attempts # << >> /\ Building
      BY <2>2 DEF JudgeStage, Building
    <3>3. StrongerModelClimbs'
      BY <2>0, <3>1, <3>2 DEF Climbs, StrongerModelClimbs
    <3>4. Tried' = Tried \cup {current.model}
      BY <2>0, <3>1 DEF Tried
    <3>5. \E t \in Tried' : \A u \in Tried' : u <= t
      <4>1. PICK t \in Tried : \A u \in Tried : u <= t
        BY <3>2 DEF Climbs
      <4>2. \A u \in Tried : u \in Int
        BY <2>0 DEF Tried
      <4> QED
        BY <2>0, <3>4, <4>1, <4>2
    <3> QED
      BY <3>1, <3>3, <3>5 DEF Climbs, Building
  <2>3. CASE RunStage
    <3>1. PICK m \in StageModels(config.stages[nextStage]) :
             current' = Draft(config.stages[nextStage].kind, m)
      BY <2>3 DEF RunStage
    <3>2. current'.model = m /\ current'.stage = config.stages[nextStage].kind
      BY <3>1 DEF Draft
    <3>3. current'.stage = "stronger_model" => m > StrongestTried /\ m \in Int
      BY <3>1, <3>2, PoolAssumption DEF StageModels, Models
    <3>4. \A i \in DOMAIN attempts : attempts[i].model <= StrongestTried
      BY <2>0, <2>3 DEF RunStage, Flow, Climbs, StrongestTried, Max, Tried
    <3>5. StrongestTried \in Int
      BY <2>0, <2>3 DEF RunStage, Flow, Climbs, StrongestTried, Max, Tried
    <3> QED
      BY <2>0, <2>3, <3>2, <3>3, <3>4, <3>5 DEF RunStage, Climbs, StrongerModelClimbs, Tried
  <2> DEFINE SameDraft == /\ Building
                          /\ current'.stage = current.stage
                          /\ current'.model = current.model
             Keeps == /\ attempts' = attempts
                      /\ Building' => current'.stage = "initial" \/ SameDraft
  <2>4. CASE Keeps
    BY <2>4 DEF Climbs, StrongerModelClimbs, Tried
  <2>5. JudgeInitial \/ JudgeStage \/ RunStage \/ Keeps
    <3>1. CASE GenerateVote
      <4>1. PICK a, share : current' = [current EXCEPT !.answer = a, !.confidence = share]
        BY <3>1 DEF GenerateVote
      <4>2. current'.stage = current.stage /\ current'.model = current.model
        BY <4>1 DEF TypeOK, DraftType
      <4> QED
        BY <3>1, <4>2 DEF GenerateVote, Building
    <3>2. CASE GenerateOnce
      BY <3>2 DEF GenerateOnce, Building, TypeOK, DraftType
    <3>3. CASE ToolTurn
      BY <3>3 DEF ToolTurn, Building, TypeOK, DraftType
    <3>4. CASE Score
      BY <3>4 DEF Score, Building, TypeOK, DraftType
    <3>5. CASE Verify
      <4>1. PICK n, v : current' = [current EXCEPT !.checked = n, !.verdict = v]
        BY <3>5 DEF Verify
      <4>2. current'.stage = current.stage /\ current'.model = current.model
        BY <4>1 DEF TypeOK, DraftType
      <4>3. pc = "verify" /\ attempts' = attempts
        BY <3>5 DEF Verify
      <4> QED
        BY <4>2, <4>3 DEF Building
    <3>6. CASE EstimateDifficulty
      BY <3>6 DEF EstimateDifficulty, Building
    <3>7. CASE Route
      <4>1. PICK m : current' = Draft("initial", m)
        BY <3>7 DEF Route
      <4>2. current'.stage = "initial" /\ attempts' = attempts
        BY <3>7, <4>1 DEF Route, Draft
      <4> QED
        BY <4>2 DEF Building
    <3>8. CASE SkipStage \/ StopEscalating \/ Select \/ Raise
      BY <3>8 DEF SkipStage, StopEscalating, Select, Raise, Building
    <3>9. CASE UNCHANGED vars
      BY <3>9 DEF vars, Building, Climbs
    <3> QED
      BY <3>1, <3>2, <3>3, <3>4, <3>5, <3>6, <3>7, <3>8, <3>9 DEF Next
  <2> QED
    BY <2>1, <2>2, <2>3, <2>4, <2>5
<1>3. Climbs => StrongerModelClimbs
  BY DEF Climbs
<1> QED
  BY <1>1, <1>2, <1>3, TypeCorrect, FlowCorrect, PTL DEF Spec

-----------------------------------------------------------------------------
(* An attempt without an answer fails the format check, wherever it stands in the list. *)

FormatChecked == \E v \in DOMAIN config.verifiers : config.verifiers[v] = "format"

AnswerlessFails ==
    /\ pc \in {"difficulty", "route", "generate", "score"} => current.checked = 0
    /\ pc = "verify" /\ current.answer = None
          /\ (\E v \in 1 .. current.checked : config.verifiers[v] = "format")
          => current.verdict = "failed"
    /\ config.onVerificationFailure /\ FormatChecked =>
          \A i \in DOMAIN attempts : attempts[i].answer = None => ~IsReliable(attempts[i])

\* An attempt judged without an answer under a format check fires a trigger.
LEMMA AnswerlessIsUnreliable ==
    ASSUME TypeOK, AnswerlessFails, pc = "verify", VerificationOver, current.answer = None,
           config.onVerificationFailure, FormatChecked, NEW initial \in BOOLEAN
    PROVE  ~IsReliable(Assessed(current, initial))
<1>1. current.verdict = "failed"
  <2>1. CASE current.checked = Len(config.verifiers)
    <3>1. config.verifiers \in Seq(Verifiers)
      BY ConfigAssumption DEF TypeOK, Config
    <3> QED
      BY <2>1, <3>1 DEF AnswerlessFails, FormatChecked
  <2> QED
    BY <2>1 DEF VerificationOver
<1>2. "verification_failed" \in Fired(current, initial)
  BY <1>1 DEF Fired, Triggers
<1> QED
  BY <1>2 DEF IsReliable, Assessed

LEMMA AnswerlessInvariant == Spec => [](AnswerlessFails /\ NoAnswerDropped)
<1> DEFINE Inv == AnswerlessFails /\ NoAnswerDropped
<1>1. Init => Inv
  BY DEF Init, AnswerlessFails, NoAnswerDropped, Draft
<1>2. TypeOK /\ Inv /\ [Next]_vars => Inv'
  <2> SUFFICES ASSUME TypeOK, Inv, [Next]_vars
               PROVE  Inv'
    OBVIOUS
  <2>0. /\ attempts \in Seq(AttemptType) /\ current \in DraftType
        /\ config \in Config /\ config' = config /\ (FormatChecked' <=> FormatChecked)
    BY ConfigAssumption DEF TypeOK, Next, vars, EstimateDifficulty, Route, GenerateOnce,
       GenerateVote, ToolTurn, Score, Verify, JudgeInitial, JudgeStage, RunStage, SkipStage,
       StopEscalating, Select, Raise, FormatChecked
  <2>1. CASE JudgeInitial
    <3> DEFINE first == Assessed(current, TRUE)
    <3>1. first.answer = None /\ config.onVerificationFailure /\ FormatChecked =>
             ~IsReliable(first)
      BY <2>1, AnswerlessIsUnreliable DEF JudgeInitial, Assessed
    <3>2. attempts' = <<first>> /\ pc' \in {"stage", "select"}
      BY <2>1 DEF JudgeInitial
    <3> HIDE DEF first
    <3>3. \A i \in DOMAIN attempts' : attempts'[i] = first
      BY <3>2
    <3> QED
      BY <2>0, <3>1, <3>2, <3>3 DEF AnswerlessFails, NoAnswerDropped, IsReliable
  <2>2. CASE JudgeStage
    <3> DEFINE new == Assessed(current, FALSE)
    <3>1. new.answer = None /\ config.onVerificationFailure /\ FormatChecked =>
             ~IsReliable(new)
      BY <2>2, AnswerlessIsUnreliable DEF JudgeStage, Assessed
    <3>2. attempts' = Append(attempts, new) /\ pc' \in {"stage", "select"}
      BY <2>2 DEF JudgeStage
    <3> HIDE DEF new
    <3>3. \A i \in DOMAIN attempts' :
             \/ attempts'[i] = new
             \/ i \in DOMAIN attempts /\ attempts'[i] = attempts[i]
      BY <2>0, <3>2
    <3> QED
      BY <2>0, <3>1, <3>2, <3>3 DEF AnswerlessFails, NoAnswerDropped, IsReliable
  <2>3. CASE Verify
    <3>1. PICK v \in VerdictsOf(NextVerifier) :
             current' = [current EXCEPT !.checked = @ + 1,
                                        !.verdict = IF v = "skipped" THEN @ ELSE v]
      BY <2>3 DEF Verify
    <3>2. /\ current'.answer = current.answer
          /\ current'.checked = current.checked + 1
          /\ current'.verdict = IF v = "skipped" THEN current.verdict ELSE v
      BY <2>0, <3>1 DEF DraftType
    <3>3. pc = "verify" /\ pc' = pc /\ attempts' = attempts /\ current.verdict # "failed"
      BY <2>3 DEF Verify, VerificationOver
    <3>4. ASSUME current.answer = None, NEW w \in 1 .. current.checked + 1,
                 config.verifiers[w] = "format"
          PROVE  current'.verdict = "failed"
      <4>1. current.checked \in Nat
        BY <2>0 DEF DraftType
      <4>2. w = current.checked + 1
        BY <3>3, <3>4, <4>1 DEF AnswerlessFails
      <4>3. v = "failed"
        BY <3>1, <3>4, <4>2 DEF NextVerifier, VerdictsOf
      <4> QED
        BY <3>2, <4>3
    <3> QED
      BY <2>0, <3>2, <3>3, <3>4 DEF AnswerlessFails, NoAnswerDropped, IsReliable
  <2>4. CASE Select
    <3>1. PICK last \in Eligible : attempts[final'] = attempts[last]
      BY <2>4 DEF Select
    <3>2. ASSUME config.onVerificationFailure, FormatChecked, attempts[last].answer = None
          PROVE  AnsweredTries = {}
      <4>1. last \notin AnsweredTries /\ last \notin ScoredTries
        BY <3>2 DEF AnsweredTries, ScoredTries
      <4>2. last \notin ReliableTries
        BY <3>2 DEF ReliableTries, AnswerlessFails
      <4> QED
        BY <3>1, <4>1, <4>2 DEF Eligible, MostConfidentTries
    <3>3. pc' = "done" /\ attempts' = attempts
      BY <2>4 DEF Select
    <3> QED
      BY <2>0, <3>1, <3>2, <3>3 DEF AnswerlessFails, NoAnswerDropped, FormatChecked,
         AnsweredTries, IsReliable
  <2>5. CASE UNCHANGED vars
    BY <2>5 DEF vars, AnswerlessFails, NoAnswerDropped, FormatChecked, AnsweredTries, IsReliable
  <2> DEFINE Fresh == \/ pc' \in {"route", "generate", "score"} /\ current'.checked = 0
                      \/ pc' = "verify" /\ current'.checked = 0
                      \/ pc' \in {"stage", "select", "failed"}
  <2>6. CASE Fresh /\ attempts' = attempts
    BY <2>0, <2>6 DEF AnswerlessFails, NoAnswerDropped, IsReliable
  <2>7. \/ JudgeInitial \/ JudgeStage \/ Verify \/ Select \/ UNCHANGED vars
        \/ (Fresh /\ attempts' = attempts)
    <3>1. CASE GenerateVote
      <4>1. PICK a, share : current' = [current EXCEPT !.answer = a, !.confidence = share]
        BY <3>1 DEF GenerateVote
      <4>2. current'.checked = current.checked
        BY <2>0, <4>1 DEF DraftType
      <4> QED
        BY <3>1, <4>2 DEF GenerateVote, AnswerlessFails
    <3>2. CASE GenerateOnce
      BY <2>0, <3>2 DEF GenerateOnce, AnswerlessFails, DraftType
    <3>3. CASE ToolTurn
      BY <2>0, <3>3 DEF ToolTurn, AnswerlessFails, DraftType
    <3>4. CASE Score
      BY <2>0, <3>4 DEF Score, AnswerlessFails, DraftType
    <3>5. CASE EstimateDifficulty
      BY <3>5 DEF EstimateDifficulty, AnswerlessFails
    <3>6. CASE Route
      BY <3>6 DEF Route, Draft
    <3>7. CASE RunStage
      BY <3>7 DEF RunStage, Draft
    <3>8. CASE SkipStage \/ StopEscalating \/ Raise
      BY <3>8 DEF SkipStage, StopEscalating, Raise
    <3> QED
      BY <3>1, <3>2, <3>3, <3>4, <3>5, <3>6, <3>7, <3>8 DEF Next
  <2> QED
    BY <2>1, <2>2, <2>3, <2>4, <2>5, <2>6, <2>7
<1> QED
  BY <1>1, <1>2, TypeCorrect, PTL DEF Spec

\* Escalation never trades an answer for no answer while the format check is on.
THEOREM AnswerKept == Spec => []NoAnswerDropped
<1> QED
  BY AnswerlessInvariant, PTL

-----------------------------------------------------------------------------
(* Every configured stage the loop has passed left an attempt, or does not always apply. *)

Optional(s) == config.stages[s].kind \in {"stronger_model", "tool"}
Produced(s) == \E i \in 2 .. Len(attempts) : attempts[i].stage = config.stages[s].kind
BeingBuilt(s) == Building /\ s = nextStage - 1 /\ current.stage = config.stages[s].kind

Exhausting ==
    /\ attempts = << >> => nextStage = 1
    /\ pc # "failed" => \A s \in DOMAIN config.stages :
                           s < nextStage => Optional(s) \/ Produced(s) \/ BeingBuilt(s)
    /\ pc \in {"select", "done"} /\ config.enabled /\ ReliableTries = {} => ~StagesLeft

\* A stage that answers with the current, the strongest or a fixed model always applies.
LEMMA OnlyOptionalSkipped ==
    ASSUME TypeOK, attempts # << >>, NEW s \in DOMAIN config.stages, ~Optional(s)
    PROVE  StageModels(config.stages[s]) # {}
<1> DEFINE stage == config.stages[s]
<1>1. config.stages \in Seq(StageConfig)
  BY ConfigAssumption DEF TypeOK, Config
<1>2. /\ stage.kind \in StageKinds /\ stage.target \in TargetsOf[stage.kind]
      /\ stage.model \in Models /\ stage.kind # "stronger_model" /\ stage.kind # "tool"
  BY <1>1 DEF StageConfig, Optional
<1> HIDE DEF stage
<1>3. stage.target \in {"current", "strongest", "fixed"}
  BY <1>2 DEF StageKinds, TargetsOf
<1>4. LastTried \in Models
  <2>1. attempts \in Seq(AttemptType)
    BY DEF TypeOK
  <2>2. attempts[Len(attempts)] \in AttemptType
    BY <2>1
  <2> QED
    BY <2>2 DEF LastTried, AttemptType
<1>5. Strongest \in Models
  BY PoolAssumption DEF Strongest, Models
<1>6. Target(stage) \in Models
  BY <1>2, <1>3, <1>4, <1>5 DEF Target
<1>7. Target(stage) \in StageModels(stage)
  BY <1>2, <1>6 DEF StageModels
<1> QED
  BY <1>7 DEF stage

\* Escalation gives up only when max_stages stages answered or every stage was used.
THEOREM GivesUpExhausted == Spec => []GivesUpOnlyWhenExhausted
<1>1. Init => Exhausting
  BY ConfigAssumption DEF Init, Exhausting, Config
<1>2. TypeOK /\ Flow /\ Exhausting /\ [Next]_vars => Exhausting'
  <2> SUFFICES ASSUME TypeOK, Flow, Exhausting, [Next]_vars
               PROVE  Exhausting'
    OBVIOUS
  <2>0. /\ attempts \in Seq(AttemptType) /\ current \in DraftType
        /\ config.stages \in Seq(StageConfig) /\ nextStage \in Nat \ {0}
        /\ config' = config
    BY ConfigAssumption DEF TypeOK, Config, Next, vars, EstimateDifficulty, Route, GenerateOnce,
       GenerateVote, ToolTurn, Score, Verify, JudgeInitial, JudgeStage, RunStage, SkipStage,
       StopEscalating, Select, Raise
  <2>1. CASE JudgeInitial
    <3> DEFINE first == Assessed(current, TRUE)
    <3>1. /\ attempts' = <<first>> /\ nextStage' = nextStage /\ attempts = << >>
          /\ pc' = "select" => ~config.enabled \/ IsReliable(first)
          /\ pc' \in {"stage", "select"}
      BY <2>1 DEF JudgeInitial
    <3> HIDE DEF first
    <3>2. nextStage' = 1 /\ attempts' # << >>
      BY <3>1 DEF Exhausting
    <3>3. IsReliable(first) => ReliableTries' # {}
      BY <3>1 DEF ReliableTries, IsReliable
    <3> QED
      BY <2>0, <3>1, <3>2, <3>3 DEF Exhausting
  <2>2. CASE JudgeStage
    <3> DEFINE new == Assessed(current, FALSE)
    <3>1. /\ attempts' = Append(attempts, new) /\ nextStage' = nextStage /\ attempts # << >>
          /\ pc' = "select" => IsReliable(new)
          /\ pc = "verify" /\ pc' \in {"stage", "select"} /\ new.stage = current.stage
      BY <2>2 DEF JudgeStage, Assessed
    <3> HIDE DEF new
    <3>2. /\ Len(attempts') = Len(attempts) + 1 /\ Len(attempts) \in Nat \ {0}
          /\ attempts'[Len(attempts) + 1] = new
          /\ \A i \in 1 .. Len(attempts) : attempts'[i] = attempts[i]
      BY <2>0, <3>1
    <3>3. IsReliable(new) => ReliableTries' # {}
      BY <2>0, <3>1, <3>2 DEF ReliableTries, IsReliable
    <3>4. ASSUME NEW s \in DOMAIN config.stages, s < nextStage
          PROVE  Optional(s)' \/ Produced(s)'
      <4>1. CASE Optional(s)
        BY <2>0, <4>1 DEF Optional
      <4>2. CASE Produced(s)
        BY <2>0, <3>2, <4>2 DEF Produced
      <4>3. CASE BeingBuilt(s)
        BY <2>0, <3>1, <3>2, <4>3 DEF BeingBuilt, Produced
      <4> QED
        BY <3>1, <3>4, <4>1, <4>2, <4>3 DEF Exhausting
    <3> QED
      BY <2>0, <3>1, <3>2, <3>3, <3>4 DEF Exhausting
  <2>3. CASE RunStage
    <3>1. PICK m : current' = Draft(config.stages[nextStage].kind, m)
      BY <2>3 DEF RunStage
    <3>2. /\ pc = "stage" /\ pc' = "generate" /\ nextStage' = nextStage + 1
          /\ attempts' = attempts /\ attempts # << >>
          /\ current'.stage = config.stages[nextStage].kind
      BY <2>3, <3>1 DEF RunStage, Draft, Flow
    <3>3. ASSUME NEW s \in DOMAIN config.stages, s < nextStage'
          PROVE  Optional(s)' \/ Produced(s)' \/ BeingBuilt(s)'
      <4>1. CASE s = nextStage
        BY <2>0, <3>2, <4>1 DEF BeingBuilt, Building
      <4>2. CASE s # nextStage
        <5>1. Optional(s) \/ Produced(s)
          BY <2>0, <3>2, <3>3, <4>2 DEF Exhausting, BeingBuilt, Building
        <5> QED
          BY <2>0, <3>2, <5>1 DEF Optional, Produced
      <4> QED
        BY <4>1, <4>2
    <3> QED
      BY <2>0, <3>2, <3>3 DEF Exhausting
  <2>4. CASE SkipStage
    <3>1. /\ pc = "stage" /\ pc' = "stage" /\ nextStage' = nextStage + 1
          /\ attempts' = attempts /\ attempts # << >>
          /\ StageModels(config.stages[nextStage]) = {}
          /\ nextStage \in DOMAIN config.stages
      BY <2>0, <2>4 DEF SkipStage, StagesLeft, Flow
    <3>2. Optional(nextStage)
      BY <3>1, OnlyOptionalSkipped
    <3>3. ASSUME NEW s \in DOMAIN config.stages, s < nextStage'
          PROVE  Optional(s)' \/ Produced(s)'
      <4>1. Optional(s) \/ Produced(s)
        BY <2>0, <3>1, <3>2, <3>3 DEF Exhausting, BeingBuilt, Building
      <4> QED
        BY <2>0, <3>1, <4>1 DEF Optional, Produced
    <3> QED
      BY <2>0, <3>1, <3>3 DEF Exhausting
  <2> DEFINE Idle == /\ attempts' = attempts /\ nextStage' = nextStage /\ ran' = ran
                     /\ Building => current'.stage = current.stage
  <2>5. CASE /\ Idle
             /\ \/ Building /\ Building'
                \/ attempts = << >> /\ pc' \in {"route", "generate"}
                \/ pc' = "failed"
                \/ pc = "stage" /\ ~StagesLeft /\ pc' = "select"
                \/ pc = "select" /\ pc' = "done"
                \/ pc' = pc
    <3>1. Idle
      BY <2>5
    <3>2. ASSUME NEW s \in DOMAIN config.stages
          PROVE  /\ Optional(s)' = Optional(s)
                 /\ Produced(s)' = Produced(s)
                 /\ Building => Building' \/ pc' = "failed" \/ attempts = << >>
                 /\ Building /\ Building' /\ BeingBuilt(s) => BeingBuilt(s)'
      BY <2>0, <2>5 DEF Optional, Produced, BeingBuilt, Building
    <3>3. StagesLeft' = StagesLeft /\ ReliableTries' = ReliableTries
      BY <2>0, <3>1 DEF StagesLeft, ReliableTries, IsReliable
    <3>4. attempts' = << >> => nextStage' = 1
      BY <3>1 DEF Exhausting
    <3>5. pc' # "failed" => \A s \in DOMAIN config'.stages :
             s < nextStage' => Optional(s)' \/ Produced(s)' \/ BeingBuilt(s)'
      <4> SUFFICES ASSUME pc' # "failed", NEW s \in DOMAIN config.stages, s < nextStage
                   PROVE  Optional(s)' \/ Produced(s)' \/ BeingBuilt(s)'
        BY <2>0, <3>1
      <4>1. CASE pc = "failed"
        BY <2>0, <2>5, <4>1 DEF Building, Exhausting
      <4>2. CASE pc # "failed"
        BY <2>0, <2>5, <3>2, <4>2 DEF Exhausting, BeingBuilt
      <4> QED
        BY <4>1, <4>2
    <3>6. pc' \in {"select", "done"} /\ config'.enabled /\ ReliableTries' = {} => ~StagesLeft'
      BY <2>0, <2>5, <3>3 DEF Exhausting, Building
    <3> QED
      BY <3>4, <3>5, <3>6 DEF Exhausting
  <2>6. CASE GenerateVote
    <3>1. PICK a, share : current' = [current EXCEPT !.answer = a, !.confidence = share]
      BY <2>6 DEF GenerateVote
    <3>2. current'.stage = current.stage
      BY <2>0, <3>1 DEF DraftType
    <3> QED
      BY <2>5, <2>6, <3>2 DEF GenerateVote, Building
  <2>7. CASE GenerateOnce
    BY <2>0, <2>5, <2>7 DEF GenerateOnce, Building, DraftType
  <2>8. CASE ToolTurn
    BY <2>0, <2>5, <2>8 DEF ToolTurn, Building, DraftType
  <2>9. CASE Score
    BY <2>0, <2>5, <2>9 DEF Score, Building, DraftType
  <2>10. CASE Verify
    <3>1. PICK n, v : current' = [current EXCEPT !.checked = n, !.verdict = v]
      BY <2>10 DEF Verify
    <3>2. current'.stage = current.stage
      BY <2>0, <3>1 DEF DraftType
    <3> QED
      BY <2>5, <2>10, <3>2 DEF Verify, Building
  <2>11. CASE EstimateDifficulty \/ Route
    BY <2>5, <2>11 DEF EstimateDifficulty, Route, Building, Flow
  <2>12. CASE StopEscalating \/ Select \/ Raise
    BY <2>5, <2>12 DEF StopEscalating, Select, Raise, Building
  <2>13. CASE UNCHANGED vars
    BY <2>5, <2>13 DEF vars
  <2> QED
    BY <2>1, <2>2, <2>3, <2>4, <2>6, <2>7, <2>8, <2>9, <2>10, <2>11, <2>12, <2>13 DEF Next
<1>3. TypeOK /\ Flow /\ Exhausting => GivesUpOnlyWhenExhausted
  <2> SUFFICES ASSUME TypeOK, Flow, Exhausting
               PROVE  GivesUpOnlyWhenExhausted
    OBVIOUS
  <2>1. /\ attempts \in Seq(AttemptType) /\ config.stages \in Seq(StageConfig)
        /\ config.maxStages \in Nat /\ nextStage \in Nat /\ ran \in Nat
    BY ConfigAssumption DEF TypeOK, Config
  <2>2. Len(attempts) <= 1 + config.maxStages
    BY <2>1 DEF Flow
  <2>3. ASSUME pc \in {"select", "done"}, config.enabled, ReliableTries = {},
               Len(attempts) # 1 + config.maxStages
        PROVE  /\ nextStage > Len(config.stages)
               /\ \A s \in DOMAIN config.stages : Optional(s) \/ Produced(s)
    <3>1. attempts # << >> /\ ran < config.maxStages
      BY <2>1, <2>2, <2>3 DEF Flow
    <3>2. nextStage > Len(config.stages)
      BY <2>1, <2>3, <3>1 DEF Exhausting, StagesLeft
    <3> QED
      BY <2>1, <2>3, <3>2 DEF Exhausting, BeingBuilt, Building
  <2> QED
    BY <2>2, <2>3 DEF GivesUpOnlyWhenExhausted, Optional, Produced
<1> QED
  BY <1>1, <1>2, <1>3, TypeCorrect, FlowCorrect, PTL DEF Spec

-----------------------------------------------------------------------------
(* The account of an attempt: its calls, by purpose. *)

Of(ledger, k) == {i \in DOMAIN ledger : ledger[i].attempt = k}
For(ledger, k, p) ==
    {i \in DOMAIN ledger : ledger[i].attempt = k /\ ledger[i].purpose = p}
Built == Len(attempts) + 1

\* The calls that answered, all but those of the estimators and of the judge verifiers.
Answered(ledger, k) ==
    Cardinality(Of(ledger, k)) - (Cardinality(For(ledger, k, "difficulty_judge"))
        + Cardinality(For(ledger, k, "confidence_sample"))
        + Cardinality(For(ledger, k, "verify_judge")))
Expected(stage) ==
    CASE stage = "self_consistency" -> {VoteSamples}
      [] stage = "tool" -> 1 .. ToolSteps + 1
      [] OTHER -> {1}
Sampled(stage) ==
    IF config.confidence = "sampling" /\ stage # "self_consistency" THEN ConfidenceSamples ELSE 0
\* The judges among the first n verifiers that an attempt with this answer can reach.
JudgesUpTo(verifiers, answer, n) ==
    {v \in 1 .. n : /\ verifiers[v] = "judge"
                    /\ answer = None => \A u \in 1 .. v - 1 : verifiers[u] # "format"}

TryCharged(k) ==
    /\ Answered(calls, k) \in Expected(attempts[k].stage)
    /\ Cardinality(For(calls, k, "confidence_sample")) = Sampled(attempts[k].stage)
    /\ Cardinality(For(calls, k, "verify_judge")) <=
          Cardinality(JudgesUpTo(config.verifiers, attempts[k].answer, Len(config.verifiers)))

TriesCharged == \A k \in DOMAIN attempts : TryCharged(k)

DraftCharged ==
    /\ pc \in {"difficulty", "route"} => Answered(calls, Built) = 0
    /\ pc = "generate" => /\ Answered(calls, Built) = current.toolCalls
                          /\ current.stage # "tool" => current.toolCalls = 0
    /\ pc = "score" => current.stage # "self_consistency"
    /\ pc \in {"score", "verify"} => Answered(calls, Built) \in Expected(current.stage)
    /\ pc \in {"difficulty", "route", "generate", "score"} =>
          /\ Cardinality(For(calls, Built, "confidence_sample")) = 0
          /\ Cardinality(For(calls, Built, "verify_judge")) = 0
    /\ pc = "verify" =>
          /\ Cardinality(For(calls, Built, "confidence_sample")) = Sampled(current.stage)
          /\ Cardinality(For(calls, Built, "verify_judge")) <=
                Cardinality(JudgesUpTo(config.verifiers, current.answer, current.checked))
          /\ current.checked <= Len(config.verifiers)

Account ==
    /\ \A i \in DOMAIN calls : calls[i].attempt <= Built
    /\ pc \in {"stage", "select", "done"} => Of(calls, Built) = {}
    /\ TriesCharged
    /\ DraftCharged

LEMMA CountsAreNatural ==
    ASSUME calls \in Seq(Call), NEW k, NEW p
    PROVE  /\ IsFiniteSet(Of(calls, k)) /\ Cardinality(Of(calls, k)) \in Nat
           /\ IsFiniteSet(For(calls, k, p)) /\ Cardinality(For(calls, k, p)) \in Nat
<1>1. IsFiniteSet(1 .. Len(calls))
  BY FS_Interval
<1>2. Of(calls, k) \subseteq 1 .. Len(calls) /\ For(calls, k, p) \subseteq 1 .. Len(calls)
  BY DEF Of, For
<1> QED
  BY <1>1, <1>2, FS_Subset, FS_CardinalityType

LEMMA JudgesAreFinite ==
    ASSUME NEW verifiers, NEW answer, NEW m \in Nat, NEW n \in Nat, m <= n
    PROVE  /\ IsFiniteSet(JudgesUpTo(verifiers, answer, n))
           /\ Cardinality(JudgesUpTo(verifiers, answer, n)) \in Nat
           /\ Cardinality(JudgesUpTo(verifiers, answer, m)) \in Nat
           /\ Cardinality(JudgesUpTo(verifiers, answer, m)) <=
                 Cardinality(JudgesUpTo(verifiers, answer, n))
<1>1. IsFiniteSet(1 .. n)
  BY FS_Interval
<1>2. JudgesUpTo(verifiers, answer, n) \subseteq 1 .. n
  BY DEF JudgesUpTo
<1>3. IsFiniteSet(JudgesUpTo(verifiers, answer, n))
  BY <1>1, <1>2, FS_Subset
<1>4. JudgesUpTo(verifiers, answer, m) \subseteq JudgesUpTo(verifiers, answer, n)
  BY DEF JudgesUpTo
<1> QED
  BY <1>3, <1>4, FS_Subset, FS_CardinalityType

\* Charging n calls adds n to the attempt being built, for that purpose, and nothing else.
LEMMA ChargeCounts ==
    ASSUME NEW purpose \in Purposes, NEW n \in Nat, NEW b \in Nat, calls \in Seq(Call),
           Len(attempts) \in Nat, b = Len(attempts) + 1, Charge(purpose, n)
    PROVE  /\ Cardinality(Of(calls', b)) = Cardinality(Of(calls, b)) + n
           /\ \A p : Cardinality(For(calls', b, p)) =
                        Cardinality(For(calls, b, p)) + (IF p = purpose THEN n ELSE 0)
           /\ \A k : k # b => /\ Of(calls', k) = Of(calls, k)
                              /\ \A p : For(calls', k, p) = For(calls, k, p)
           /\ \A i \in DOMAIN calls' : \/ calls'[i].attempt = b
                                       \/ i \in DOMAIN calls /\ calls'[i] = calls[i]
<1> DEFINE new == [i \in 1 .. n |-> [purpose |-> purpose, attempt |-> b]]
           added == Len(calls) + 1 .. Len(calls) + n
<1>1. new \in Seq(Call) /\ Len(new) = n
  BY DEF Call
<1>2. calls' = calls \o new
  BY DEF Charge
<1>3. \A i \in 1 .. n : new[i].purpose = purpose /\ new[i].attempt = b
  OBVIOUS
<1> HIDE DEF new
<1>4. /\ DOMAIN calls = 1 .. Len(calls) /\ Len(calls) \in Nat
      /\ DOMAIN calls' = 1 .. Len(calls) + n
      /\ \A i \in 1 .. Len(calls) : calls'[i] = calls[i]
  <2>1. calls' \in Seq(Call) /\ Len(calls') = Len(calls) + n
    BY <1>1, <1>2, ConcatProperties
  <2>2. \A i \in 1 .. Len(calls) : calls'[i] = calls[i]
    BY <1>1, <1>2, ConcatProperties
  <2> QED
    BY <2>1, <2>2
<1>5. \A i \in added : calls'[i].purpose = purpose /\ calls'[i].attempt = b
  <2> SUFFICES ASSUME NEW i \in added
               PROVE  calls'[i].purpose = purpose /\ calls'[i].attempt = b
    OBVIOUS
  <2>1. calls'[i] = new[i - Len(calls)] /\ i - Len(calls) \in 1 .. n
    BY <1>1, <1>2, <1>4, ConcatProperties
  <2> QED
    BY <1>3, <2>1
<1>6. IsFiniteSet(added) /\ Cardinality(added) = n
  BY <1>4, FS_Interval
<1>7. /\ \A i \in added : i \notin 1 .. Len(calls)
      /\ \A i : i \in DOMAIN calls' <=> i \in 1 .. Len(calls) \/ i \in added
  BY <1>4
<1> HIDE DEF added
<1>8. ASSUME NEW S, IsFiniteSet(S), S \subseteq 1 .. Len(calls)
      PROVE  Cardinality(S \cup added) = Cardinality(S) + n
  <2>1. S \cap added = {}
    BY <1>7, <1>8
  <2>2. Cardinality(S) \in Nat /\ Cardinality(S \cap added) = 0
    BY <1>8, <2>1, FS_CardinalityType, FS_EmptySet
  <2>3. Cardinality(S \cup added) = Cardinality(S) + Cardinality(added) - Cardinality(S \cap added)
    BY <1>6, <1>8, FS_Union
  <2> QED
    BY <1>6, <2>2, <2>3
<1>9. Cardinality(Of(calls', b)) = Cardinality(Of(calls, b)) + n
  <2>1. Of(calls', b) = Of(calls, b) \cup added
    BY <1>4, <1>5, <1>7 DEF Of
  <2>2. IsFiniteSet(Of(calls, b)) /\ Of(calls, b) \subseteq 1 .. Len(calls)
    <3>1. IsFiniteSet(Of(calls, b))
      BY CountsAreNatural
    <3> QED
      BY <1>4, <3>1 DEF Of
  <2> QED
    BY <1>8, <2>1, <2>2
<1>10. ASSUME NEW p
       PROVE  Cardinality(For(calls', b, p)) =
                 Cardinality(For(calls, b, p)) + (IF p = purpose THEN n ELSE 0)
  <2>1. IsFiniteSet(For(calls, b, p)) /\ For(calls, b, p) \subseteq 1 .. Len(calls)
    <3>1. IsFiniteSet(For(calls, b, p))
      BY CountsAreNatural
    <3> QED
      BY <1>4, <3>1 DEF For
  <2>2. CASE p = purpose
    <3>1. \A i : i \in For(calls', b, p) <=> i \in For(calls, b, p) \/ i \in added
      BY <1>4, <1>5, <1>7, <2>2 DEF For
    <3>2. For(calls', b, p) = For(calls, b, p) \cup added
      BY <3>1
    <3> QED
      BY <1>8, <2>1, <2>2, <3>2
  <2>3. CASE p # purpose
    <3>1. For(calls', b, p) = For(calls, b, p)
      <4>1. \A i : i \in For(calls', b, p) <=> i \in For(calls, b, p)
        BY <1>4, <1>5, <1>7, <2>3 DEF For
      <4> QED
        BY <4>1
    <3>2. Cardinality(For(calls, b, p)) \in Nat
      BY CountsAreNatural
    <3> QED
      BY <2>3, <3>1, <3>2
  <2> QED
    BY <2>2, <2>3
<1>11. ASSUME NEW k, k # b
       PROVE  Of(calls', k) = Of(calls, k) /\ \A p : For(calls', k, p) = For(calls, k, p)
  BY <1>4, <1>5, <1>7, <1>11 DEF Of, For
<1>12. \A i \in DOMAIN calls' : \/ calls'[i].attempt = b
                                \/ i \in DOMAIN calls /\ calls'[i] = calls[i]
  BY <1>4, <1>5, <1>7
<1> QED
  BY <1>9, <1>10, <1>11, <1>12

\* A charging step keeps the accounts of the judged attempts and adds to the one being built.
LEMMA ChargeStep ==
    ASSUME TypeOK, Account, NEW purpose \in Purposes, NEW n \in Nat, Charge(purpose, n),
           attempts' = attempts, config' = config
    PROVE  /\ Built' = Built
           /\ \A i \in DOMAIN calls' : calls'[i].attempt <= Built'
           /\ TriesCharged'
           /\ Answered(calls, Built) \in Int
           /\ Answered(calls', Built) = Answered(calls, Built) +
                 (IF purpose \in {"difficulty_judge", "confidence_sample", "verify_judge"}
                     THEN 0 ELSE n)
           /\ Cardinality(For(calls', Built, "confidence_sample")) =
                 Cardinality(For(calls, Built, "confidence_sample"))
                    + (IF purpose = "confidence_sample" THEN n ELSE 0)
           /\ Cardinality(For(calls', Built, "verify_judge")) =
                 Cardinality(For(calls, Built, "verify_judge"))
                    + (IF purpose = "verify_judge" THEN n ELSE 0)
<1>1. /\ calls \in Seq(Call) /\ attempts \in Seq(AttemptType) /\ Len(attempts) \in Nat
      /\ Built \in Nat
  BY DEF TypeOK, Built
<1>2. PICK b \in Nat : b = Len(attempts) + 1
  BY <1>1
<1>3. Built = b /\ Built' = b
  BY <1>2 DEF Built
<1>4. /\ Cardinality(Of(calls', b)) = Cardinality(Of(calls, b)) + n
      /\ \A p : Cardinality(For(calls', b, p)) =
                   Cardinality(For(calls, b, p)) + (IF p = purpose THEN n ELSE 0)
      /\ \A k : k # b => Of(calls', k) = Of(calls, k) /\ \A p : For(calls', k, p) = For(calls, k, p)
      /\ \A i \in DOMAIN calls' : \/ calls'[i].attempt = b
                                  \/ i \in DOMAIN calls /\ calls'[i] = calls[i]
  BY <1>1, <1>2, ChargeCounts
<1>5. /\ Cardinality(Of(calls, b)) \in Nat
      /\ Cardinality(For(calls, b, "difficulty_judge")) \in Nat
      /\ Cardinality(For(calls, b, "confidence_sample")) \in Nat
      /\ Cardinality(For(calls, b, "verify_judge")) \in Nat
  BY <1>1, CountsAreNatural
<1>6. \A i \in DOMAIN calls' : calls'[i].attempt <= Built'
  BY <1>3, <1>4 DEF Account
<1>7. ASSUME NEW k \in DOMAIN attempts'
      PROVE  TryCharged(k)'
  <2>1. k # b /\ k \in DOMAIN attempts
    BY <1>1, <1>2
  <2>2. TryCharged(k)
    BY <2>1 DEF Account, TriesCharged
  <2>3. Of(calls', k) = Of(calls, k) /\ \A p : For(calls', k, p) = For(calls, k, p)
    BY <1>4, <2>1
  <2> QED
    BY <2>2, <2>3 DEF TryCharged, Answered, Sampled, JudgesUpTo, Expected
<1>8. /\ Cardinality(For(calls', b, "confidence_sample")) =
            Cardinality(For(calls, b, "confidence_sample"))
               + (IF purpose = "confidence_sample" THEN n ELSE 0)
      /\ Cardinality(For(calls', b, "verify_judge")) =
            Cardinality(For(calls, b, "verify_judge")) + (IF purpose = "verify_judge" THEN n ELSE 0)
      /\ Cardinality(For(calls', b, "difficulty_judge")) =
            Cardinality(For(calls, b, "difficulty_judge"))
               + (IF purpose = "difficulty_judge" THEN n ELSE 0)
  BY <1>4
<1>9. /\ Answered(calls, b) \in Int
      /\ Answered(calls', b) = Answered(calls, b) +
            (IF purpose \in {"difficulty_judge", "confidence_sample", "verify_judge"}
                THEN 0 ELSE n)
  BY <1>4, <1>5, <1>8 DEF Answered
<1>10. TriesCharged'
  BY <1>7 DEF TriesCharged, TryCharged
<1> QED
  BY <1>3, <1>6, <1>8, <1>9, <1>10

\* A step that makes no call and judges nothing keeps every account.
LEMMA NoChargeStep ==
    ASSUME UNCHANGED <<calls, attempts, config>>, Account
    PROVE  /\ Built' = Built
           /\ \A i \in DOMAIN calls' : calls'[i].attempt <= Built'
           /\ TriesCharged'
<1>1. calls' = calls /\ attempts' = attempts /\ config' = config
  OBVIOUS
<1>2. Built' = Built
  BY DEF Built
<1>3. TriesCharged'
  BY <1>1 DEF Account, TriesCharged, TryCharged, Sampled, JudgesUpTo
<1> QED
  BY <1>1, <1>2, <1>3 DEF Account

\* Before an attempt is begun nothing is charged to it.
LEMMA UnbegunIsFree ==
    ASSUME NEW k, Of(calls, k) = {}
    PROVE  /\ Answered(calls, k) = 0
           /\ Cardinality(For(calls, k, "confidence_sample")) = 0
           /\ Cardinality(For(calls, k, "verify_judge")) = 0
<1>1. \A p : For(calls, k, p) = {}
  BY DEF Of, For
<1> QED
  BY <1>1, FS_EmptySet DEF Answered

\* A judged attempt takes the account of the one that was being built.
LEMMA JudgedIsCharged ==
    ASSUME TypeOK, Account, NEW e, e.stage = current.stage, e.answer = current.answer,
           pc = "verify", VerificationOver, UNCHANGED <<calls, config>>,
           Len(attempts') = Len(attempts) + 1, attempts'[Len(attempts) + 1] = e,
           \A i \in 1 .. Len(attempts) : attempts'[i] = attempts[i],
           DOMAIN attempts' = 1 .. Len(attempts) + 1, pc' \in {"stage", "select"}
    PROVE  Account'
<1>1. /\ calls \in Seq(Call) /\ attempts \in Seq(AttemptType) /\ Len(attempts) \in Nat
      /\ config \in Config /\ current.checked \in Nat /\ calls' = calls
      /\ \A i \in DOMAIN calls : calls[i].attempt \in Nat
  <2>1. calls \in Seq(Call) /\ attempts \in Seq(AttemptType) /\ current \in DraftType
    BY DEF TypeOK
  <2>2. \A i \in DOMAIN calls : calls[i] \in Call
    BY <2>1
  <2> QED
    BY <2>1, <2>2, ConfigAssumption DEF TypeOK, DraftType, Call
<1>2. Len(config.verifiers) \in Nat
  BY <1>1 DEF Config
<1>3. /\ Answered(calls, Built) \in Expected(e.stage)
      /\ Cardinality(For(calls, Built, "confidence_sample")) = Sampled(e.stage)
      /\ Cardinality(For(calls, Built, "verify_judge")) <=
            Cardinality(JudgesUpTo(config.verifiers, e.answer, current.checked))
      /\ current.checked <= Len(config.verifiers)
  BY DEF Account, DraftCharged
<1>4. Cardinality(For(calls, Built, "verify_judge")) <=
         Cardinality(JudgesUpTo(config.verifiers, e.answer, Len(config.verifiers)))
  <2>1. Cardinality(For(calls, Built, "verify_judge")) \in Nat
    BY <1>1, CountsAreNatural
  <2>2. /\ Cardinality(JudgesUpTo(config.verifiers, e.answer, current.checked)) \in Nat
        /\ Cardinality(JudgesUpTo(config.verifiers, e.answer, Len(config.verifiers))) \in Nat
        /\ Cardinality(JudgesUpTo(config.verifiers, e.answer, current.checked)) <=
              Cardinality(JudgesUpTo(config.verifiers, e.answer, Len(config.verifiers)))
    BY <1>1, <1>2, <1>3, JudgesAreFinite
  <2> QED
    BY <1>3, <2>1, <2>2
<1>5. ASSUME NEW k \in 1 .. Len(attempts) + 1
      PROVE  TryCharged(k)'
  <2>1. Of(calls', k) = Of(calls, k) /\ \A p : For(calls', k, p) = For(calls, k, p)
    BY <1>1 DEF Of, For
  <2>2. CASE k = Built
    <3>1. attempts'[k] = e
      BY <2>2 DEF Built
    <3> QED
      BY <1>3, <1>4, <2>1, <2>2, <3>1
         DEF TryCharged, Answered, Sampled, JudgesUpTo, Expected
  <2>3. CASE k # Built
    <3>1. k \in DOMAIN attempts /\ attempts'[k] = attempts[k]
      BY <1>1, <2>3 DEF Built
    <3>2. TryCharged(k)
      BY <3>1 DEF Account, TriesCharged
    <3> QED
      BY <2>1, <3>1, <3>2 DEF TryCharged, Answered, Sampled, JudgesUpTo, Expected
  <2> QED
    BY <2>2, <2>3
<1>6. Built' = Built + 1 /\ Built \in Nat
  BY <1>1 DEF Built
<1>7. \A i \in DOMAIN calls : calls[i].attempt <= Built
  BY DEF Account
<1>8. Of(calls', Built') = {}
  <2>1. \A i \in DOMAIN calls' : calls'[i].attempt # Built'
    BY <1>1, <1>6, <1>7
  <2> QED
    BY <2>1 DEF Of
<1>9. \A i \in DOMAIN calls' : calls'[i].attempt <= Built'
  BY <1>1, <1>6, <1>7
<1>10. TriesCharged'
  BY <1>5 DEF TriesCharged, TryCharged
<1> QED
  BY <1>8, <1>9, <1>10 DEF Account, DraftCharged

LEMMA AccountInvariant == Spec => []Account
<1>1. Init => Account
  <2> SUFFICES ASSUME Init PROVE Account
    OBVIOUS
  <2>1. calls = << >> /\ attempts = << >> /\ pc = "difficulty"
    BY DEF Init
  <2>2. Of(calls, Built) = {}
    BY <2>1 DEF Of
  <2>3. /\ Answered(calls, Built) = 0
        /\ Cardinality(For(calls, Built, "confidence_sample")) = 0
        /\ Cardinality(For(calls, Built, "verify_judge")) = 0
    BY <2>2, UnbegunIsFree
  <2> QED
    BY <2>1, <2>3 DEF Account, TriesCharged, DraftCharged
<1>2. TypeOK /\ AnswerlessFails /\ Account /\ [Next]_vars => Account'
  <2> SUFFICES ASSUME TypeOK, AnswerlessFails, Account, [Next]_vars
               PROVE  Account'
    OBVIOUS
  <2>0. /\ calls \in Seq(Call) /\ attempts \in Seq(AttemptType) /\ current \in DraftType
        /\ config \in Config /\ current.checked \in Nat /\ current.toolCalls \in 0 .. ToolSteps
        /\ ToolSteps \in Nat /\ VoteSamples \in Nat \ {0} /\ ConfidenceSamples \in Nat \ {0}
    BY ConfigAssumption, SampleAssumption DEF TypeOK, DraftType
  <2>1. /\ Cardinality(For(calls, Built, "confidence_sample")) \in Nat
        /\ Cardinality(For(calls, Built, "verify_judge")) \in Nat
    BY <2>0, CountsAreNatural
  <2>2. config.verifiers \in Seq(Verifiers) /\ Len(config.verifiers) \in Nat
    BY <2>0 DEF Config
  <2>3. CASE EstimateDifficulty
    <3> DEFINE n == IF config.difficultyJudge THEN 1 ELSE 0
    <3>1. /\ Charge("difficulty_judge", n) /\ pc = "difficulty" /\ pc' = "route"
          /\ config' = config /\ attempts' = attempts
      BY <2>3 DEF EstimateDifficulty
    <3>2. n \in Nat /\ "difficulty_judge" \in Purposes
      BY DEF Purposes
    <3> HIDE DEF n
    <3>3. /\ Built' = Built /\ TriesCharged'
          /\ \A i \in DOMAIN calls' : calls'[i].attempt <= Built'
          /\ Answered(calls, Built) \in Int
          /\ Answered(calls', Built) = Answered(calls, Built)
          /\ Cardinality(For(calls', Built, "confidence_sample")) =
                Cardinality(For(calls, Built, "confidence_sample"))
          /\ Cardinality(For(calls', Built, "verify_judge")) =
                Cardinality(For(calls, Built, "verify_judge"))
      BY <2>1, <3>1, <3>2, ChargeStep
    <3> QED
      BY <3>1, <3>3 DEF Account, DraftCharged
  <2>4. CASE Route
    <3>1. PICK m : current' = Draft("initial", m)
      BY <2>4 DEF Route
    <3>2. current'.stage = "initial" /\ current'.toolCalls = 0
      BY <3>1 DEF Draft
    <3>3. /\ UNCHANGED <<calls, attempts, config>> /\ pc = "route" /\ pc' = "generate"
      BY <2>4 DEF Route
    <3>4. Built' = Built /\ TriesCharged' /\ \A i \in DOMAIN calls' : calls'[i].attempt <= Built'
      BY <3>3, NoChargeStep
    <3> QED
      BY <3>2, <3>3, <3>4 DEF Account, DraftCharged
  <2>5. CASE GenerateOnce
    <3> DEFINE purpose == IF current.stage = "judge_select" /\ Candidates # {}
                             THEN "escalation_judge_select" ELSE current.stage
    <3>1. /\ Charge(purpose, 1) /\ pc = "generate" /\ pc' = "score"
          /\ config' = config /\ attempts' = attempts
          /\ current.stage \notin {"self_consistency", "tool"}
      BY <2>5 DEF GenerateOnce
    <3>2. /\ purpose \in Purposes
          /\ purpose \notin {"difficulty_judge", "confidence_sample", "verify_judge"}
      BY <2>0 DEF DraftType, AttemptStages, StageKinds, Purposes
    <3> HIDE DEF purpose
    <3>3. /\ Built' = Built /\ TriesCharged'
          /\ \A i \in DOMAIN calls' : calls'[i].attempt <= Built'
          /\ Answered(calls', Built) = Answered(calls, Built) + 1
          /\ Cardinality(For(calls', Built, "confidence_sample")) =
                Cardinality(For(calls, Built, "confidence_sample"))
          /\ Cardinality(For(calls', Built, "verify_judge")) =
                Cardinality(For(calls, Built, "verify_judge"))
      BY <2>1, <3>1, <3>2, ChargeStep
    <3>4. current'.stage = current.stage
      BY <2>0, <2>5 DEF GenerateOnce, DraftType
    <3>5. Answered(calls', Built) = 1
      BY <3>1, <3>3 DEF Account, DraftCharged
    <3>6. Answered(calls', Built) \in Expected(current.stage)
      BY <3>1, <3>5 DEF Expected
    <3> QED
      BY <3>1, <3>3, <3>4, <3>6 DEF Account, DraftCharged, Expected
  <2>6. CASE GenerateVote
    <3>1. /\ Charge("escalation_self_consistency", VoteSamples)
          /\ pc = "generate" /\ pc' = "verify" /\ config' = config /\ attempts' = attempts
          /\ current.stage = "self_consistency"
      BY <2>6 DEF GenerateVote
    <3>2. "escalation_self_consistency" \in Purposes
      BY DEF Purposes
    <3>3. /\ Built' = Built /\ TriesCharged'
          /\ \A i \in DOMAIN calls' : calls'[i].attempt <= Built'
          /\ Answered(calls', Built) = Answered(calls, Built) + VoteSamples
          /\ Cardinality(For(calls', Built, "confidence_sample")) =
                Cardinality(For(calls, Built, "confidence_sample"))
          /\ Cardinality(For(calls', Built, "verify_judge")) =
                Cardinality(For(calls, Built, "verify_judge"))
      BY <2>0, <2>1, <3>1, <3>2, ChargeStep
    <3>4. PICK a, share : current' = [current EXCEPT !.answer = a, !.confidence = share]
      BY <2>6 DEF GenerateVote
    <3>5. current'.stage = current.stage /\ current'.checked = current.checked
      BY <2>0, <3>4 DEF DraftType
    <3>6. current.checked = 0
      BY <3>1 DEF AnswerlessFails
    <3>7. Answered(calls', Built) = VoteSamples
      BY <2>0, <3>1, <3>3 DEF Account, DraftCharged
    <3>8. /\ Cardinality(For(calls', Built, "confidence_sample")) = 0
          /\ Cardinality(For(calls', Built, "verify_judge")) = 0
      BY <3>1, <3>3 DEF Account, DraftCharged
    <3>9. Cardinality(JudgesUpTo(config'.verifiers, current'.answer, 0)) \in Nat
      <4>1. JudgesUpTo(config'.verifiers, current'.answer, 0) = {}
        BY DEF JudgesUpTo
      <4> QED
        BY <4>1, FS_EmptySet
    <3>10. DraftCharged'
      BY <2>2, <3>1, <3>3, <3>5, <3>6, <3>7, <3>8, <3>9 DEF DraftCharged, Expected, Sampled
    <3> QED
      BY <3>1, <3>3, <3>10 DEF Account
  <2>7. CASE ToolTurn
    <3>1. /\ Charge("tool_agent", 1) /\ pc = "generate"
          /\ config' = config /\ attempts' = attempts
          /\ current.stage = "tool"
      BY <2>7 DEF ToolTurn
    <3>2. "tool_agent" \in Purposes
      BY DEF Purposes
    <3>3. /\ Built' = Built /\ TriesCharged'
          /\ \A i \in DOMAIN calls' : calls'[i].attempt <= Built'
          /\ Answered(calls', Built) = Answered(calls, Built) + 1
          /\ Cardinality(For(calls', Built, "confidence_sample")) =
                Cardinality(For(calls, Built, "confidence_sample"))
          /\ Cardinality(For(calls', Built, "verify_judge")) =
                Cardinality(For(calls, Built, "verify_judge"))
      BY <2>1, <3>1, <3>2, ChargeStep
    <3>4. Answered(calls', Built) = current.toolCalls + 1
      BY <3>1, <3>3 DEF Account, DraftCharged
    <3>5. \/ /\ current' = [current EXCEPT !.toolCalls = current.toolCalls + 1]
             /\ pc' = "generate"
          \/ /\ \E a \in Answers \cup {None} : current' = [current EXCEPT !.answer = a]
             /\ pc' = "score"
      BY <2>7 DEF ToolTurn
    <3>6. /\ current'.stage = "tool" /\ pc' \in {"generate", "score"}
          /\ pc' = "generate" => current'.toolCalls = current.toolCalls + 1
      BY <2>0, <3>1, <3>5 DEF DraftType
    <3>7. Answered(calls', Built) \in Expected("tool")
      BY <2>0, <3>4 DEF Expected
    <3>8. /\ Cardinality(For(calls', Built, "confidence_sample")) = 0
          /\ Cardinality(For(calls', Built, "verify_judge")) = 0
      BY <3>1, <3>3 DEF Account, DraftCharged
    <3>9. DraftCharged'
      BY <3>3, <3>4, <3>6, <3>7, <3>8 DEF DraftCharged, Expected
    <3> QED
      BY <3>3, <3>6, <3>9 DEF Account
  <2>8. CASE Score
    <3> DEFINE n == IF config.confidence = "sampling" THEN ConfidenceSamples ELSE 0
    <3>1. /\ Charge("confidence_sample", n) /\ pc = "score" /\ pc' = "verify"
          /\ config' = config /\ attempts' = attempts
      BY <2>8 DEF Score
    <3>2. n \in Nat /\ "confidence_sample" \in Purposes /\ n = Sampled(current.stage)
      BY <2>0, <3>1 DEF Purposes, Sampled, Account, DraftCharged
    <3> HIDE DEF n
    <3>3. /\ Built' = Built /\ TriesCharged'
          /\ \A i \in DOMAIN calls' : calls'[i].attempt <= Built'
          /\ Answered(calls, Built) \in Int
          /\ Answered(calls', Built) = Answered(calls, Built)
          /\ Cardinality(For(calls', Built, "confidence_sample")) =
                Cardinality(For(calls, Built, "confidence_sample")) + n
          /\ Cardinality(For(calls', Built, "verify_judge")) =
                Cardinality(For(calls, Built, "verify_judge"))
      BY <2>1, <3>1, <3>2, ChargeStep
    <3>4. PICK c : current' = [current EXCEPT !.confidence = c]
      BY <2>8 DEF Score
    <3>5. current'.stage = current.stage /\ current'.checked = current.checked
      BY <2>0, <3>4 DEF DraftType
    <3>6. current.checked = 0
      BY <3>1 DEF AnswerlessFails
    <3>7. /\ Cardinality(For(calls', Built, "confidence_sample")) = n
          /\ Cardinality(For(calls', Built, "verify_judge")) = 0
          /\ Answered(calls', Built) \in Expected(current.stage)
      BY <3>1, <3>2, <3>3 DEF Account, DraftCharged
    <3>8. Cardinality(JudgesUpTo(config'.verifiers, current'.answer, 0)) \in Nat
      <4>1. JudgesUpTo(config'.verifiers, current'.answer, 0) = {}
        BY DEF JudgesUpTo
      <4> QED
        BY <4>1, FS_EmptySet
    <3>9. DraftCharged'
      BY <2>2, <3>1, <3>2, <3>3, <3>5, <3>6, <3>7, <3>8 DEF DraftCharged, Sampled, Expected
    <3> QED
      BY <3>1, <3>3, <3>9 DEF Account
  <2>9. CASE Verify
    <3> DEFINE n == IF NextVerifier = "judge" THEN 1 ELSE 0
    <3>1. /\ Charge("verify_judge", n) /\ pc = "verify" /\ pc' = "verify"
          /\ config' = config /\ attempts' = attempts
          /\ current.verdict # "failed" /\ current.checked # Len(config.verifiers)
      BY <2>9 DEF Verify, VerificationOver
    <3>2. n \in Nat /\ "verify_judge" \in Purposes
      BY DEF Purposes
    <3> HIDE DEF n
    <3>3. /\ Built' = Built /\ TriesCharged'
          /\ \A i \in DOMAIN calls' : calls'[i].attempt <= Built'
          /\ Answered(calls, Built) \in Int
          /\ Answered(calls', Built) = Answered(calls, Built)
          /\ Cardinality(For(calls', Built, "confidence_sample")) =
                Cardinality(For(calls, Built, "confidence_sample"))
          /\ Cardinality(For(calls', Built, "verify_judge")) =
                Cardinality(For(calls, Built, "verify_judge")) + n
      BY <2>1, <3>1, <3>2, ChargeStep
    <3>4. PICK v : current' = [current EXCEPT !.checked = current.checked + 1, !.verdict = v]
      BY <2>9 DEF Verify
    <3>5. /\ current'.stage = current.stage /\ current'.answer = current.answer
          /\ current'.checked = current.checked + 1
      BY <2>0, <3>4 DEF DraftType
    <3>6. current.checked <= Len(config.verifiers)
      BY <3>1 DEF Account, DraftCharged
    <3> DEFINE before == JudgesUpTo(config.verifiers, current.answer, current.checked)
               after == JudgesUpTo(config.verifiers, current.answer, current.checked + 1)
    <3>7. /\ IsFiniteSet(before) /\ Cardinality(before) \in Nat
          /\ Cardinality(after) \in Nat /\ Cardinality(before) <= Cardinality(after)
      BY <2>0, JudgesAreFinite
    <3>8. ASSUME NextVerifier = "judge"
          PROVE  Cardinality(after) = Cardinality(before) + 1
      <4>1. current.checked + 1 \notin before
        BY <2>0 DEF JudgesUpTo
      <4>2. current.answer = None =>
               \A u \in 1 .. current.checked : config.verifiers[u] # "format"
        BY <3>1 DEF AnswerlessFails
      <4>3. config.verifiers[current.checked + 1] = "judge"
        BY <3>8 DEF NextVerifier
      <4>4. after = before \cup {current.checked + 1}
        BY <2>0, <4>2, <4>3 DEF JudgesUpTo
      <4> QED
        BY <3>7, <4>1, <4>4, FS_AddElement
    <3>9. Cardinality(For(calls, Built, "verify_judge")) <= Cardinality(before)
      BY <3>1 DEF Account, DraftCharged
    <3>10. Cardinality(For(calls', Built, "verify_judge")) <= Cardinality(after)
      BY <2>1, <3>3, <3>7, <3>8, <3>9 DEF n
    <3>11. JudgesUpTo(config'.verifiers, current'.answer, current'.checked) = after
      BY <3>1, <3>5 DEF JudgesUpTo
    <3>12. /\ Cardinality(For(calls, Built, "confidence_sample")) = Sampled(current.stage)
           /\ Answered(calls, Built) \in Expected(current.stage)
      BY <3>1 DEF Account, DraftCharged
    <3>13. current'.checked <= Len(config.verifiers)
      BY <2>0, <2>2, <3>1, <3>5, <3>6
    <3> HIDE DEF before, after
    <3>14. DraftCharged'
      BY <3>1, <3>3, <3>5, <3>10, <3>11, <3>12, <3>13 DEF DraftCharged, Sampled, Expected
    <3> QED
      BY <3>1, <3>3, <3>14 DEF Account
  <2>10. CASE JudgeInitial
    <3> DEFINE first == Assessed(current, TRUE)
    <3>1. /\ attempts' = <<first>> /\ attempts = << >> /\ pc' \in {"stage", "select"}
          /\ first.stage = current.stage /\ first.answer = current.answer
          /\ pc = "verify" /\ VerificationOver /\ UNCHANGED <<calls, config>>
      BY <2>10 DEF JudgeInitial, Assessed
    <3> HIDE DEF first
    <3>2. /\ Len(attempts) = 0 /\ Len(attempts') = Len(attempts) + 1
          /\ attempts'[Len(attempts) + 1] = first
          /\ \A i \in 1 .. Len(attempts) : attempts'[i] = attempts[i]
          /\ DOMAIN attempts' = 1 .. Len(attempts) + 1
      BY <3>1
    <3> QED
      BY <3>1, <3>2, JudgedIsCharged
  <2>11. CASE JudgeStage
    <3> DEFINE new == Assessed(current, FALSE)
    <3>1. /\ attempts' = Append(attempts, new) /\ pc' \in {"stage", "select"}
          /\ new.stage = current.stage /\ new.answer = current.answer
          /\ pc = "verify" /\ VerificationOver /\ UNCHANGED <<calls, config>>
      BY <2>11 DEF JudgeStage, Assessed
    <3> HIDE DEF new
    <3>2. /\ Len(attempts') = Len(attempts) + 1
          /\ attempts'[Len(attempts) + 1] = new
          /\ \A i \in 1 .. Len(attempts) : attempts'[i] = attempts[i]
          /\ DOMAIN attempts' = 1 .. Len(attempts) + 1
      BY <2>0, <3>1
    <3> QED
      BY <3>1, <3>2, JudgedIsCharged
  <2>12. CASE RunStage
    <3>1. PICK m : current' = Draft(config.stages[nextStage].kind, m)
      BY <2>12 DEF RunStage
    <3>2. current'.toolCalls = 0
      BY <3>1 DEF Draft
    <3>3. UNCHANGED <<calls, attempts, config>> /\ pc = "stage" /\ pc' = "generate"
      BY <2>12 DEF RunStage
    <3>4. Built' = Built /\ TriesCharged' /\ \A i \in DOMAIN calls' : calls'[i].attempt <= Built'
      BY <3>3, NoChargeStep
    <3>5. /\ Answered(calls, Built) = 0
          /\ Cardinality(For(calls, Built, "confidence_sample")) = 0
          /\ Cardinality(For(calls, Built, "verify_judge")) = 0
      BY <3>3, UnbegunIsFree DEF Account
    <3> QED
      BY <3>2, <3>3, <3>4, <3>5 DEF Account, DraftCharged
  <2>13. CASE SkipStage \/ StopEscalating \/ Select
    <3>1. /\ UNCHANGED <<calls, attempts, config>>
          /\ pc \in {"stage", "select"} /\ pc' \in {"stage", "select", "done"}
      BY <2>13 DEF SkipStage, StopEscalating, Select
    <3>2. Built' = Built /\ TriesCharged' /\ \A i \in DOMAIN calls' : calls'[i].attempt <= Built'
      BY <3>1, NoChargeStep
    <3> QED
      BY <3>1, <3>2 DEF Account, DraftCharged
  <2>14. CASE Raise
    <3>1. UNCHANGED <<calls, attempts, config>> /\ pc' = "failed"
      BY <2>14 DEF Raise
    <3>2. Built' = Built /\ TriesCharged' /\ \A i \in DOMAIN calls' : calls'[i].attempt <= Built'
      BY <3>1, NoChargeStep
    <3> QED
      BY <3>1, <3>2 DEF Account, DraftCharged
  <2>15. CASE UNCHANGED vars
    <3>1. UNCHANGED <<calls, attempts, config, pc, current>>
      BY <2>15 DEF vars
    <3>2. Built' = Built /\ TriesCharged' /\ \A i \in DOMAIN calls' : calls'[i].attempt <= Built'
      BY <3>1, NoChargeStep
    <3>3. DraftCharged'
      BY <3>1, <3>2 DEF Account, DraftCharged, Sampled, JudgesUpTo, Expected
    <3> QED
      BY <3>1, <3>2, <3>3 DEF Account
  <2> QED
    BY <2>3, <2>4, <2>5, <2>6, <2>7, <2>8, <2>9, <2>10, <2>11, <2>12, <2>13, <2>14, <2>15
       DEF Next
<1> QED
  BY <1>1, <1>2, TypeCorrect, AnswerlessInvariant, PTL DEF Spec

\* No attempt is free, and none costs more than its stage, its samples and its judges.
THEOREM TriesAreCharged == Spec => []EveryTryIsCharged
<1>1. TypeOK /\ Account => EveryTryIsCharged
  <2> SUFFICES ASSUME TypeOK, TriesCharged
               PROVE  EveryTryIsCharged
    BY DEF Account
  <2>1. config.verifiers \in Seq(Verifiers)
    BY ConfigAssumption DEF TypeOK, Config
  <2>2. ASSUME NEW k \in DOMAIN attempts
        PROVE  /\ JudgesUpTo(config.verifiers, attempts[k].answer, Len(config.verifiers)) =
                     {v \in DOMAIN config.verifiers :
                         /\ config.verifiers[v] = "judge"
                         /\ attempts[k].answer = None =>
                               \A u \in 1 .. v - 1 : config.verifiers[u] # "format"}
               /\ TryCharged(k)
    BY <2>1, <2>2 DEF JudgesUpTo, TriesCharged
  <2> QED
    BY <2>2 DEF EveryTryIsCharged, TryCharged, Answered, Of, For, Expected, Sampled
<1> QED
  BY <1>1, TypeCorrect, AccountInvariant, PTL

-----------------------------------------------------------------------------
(* The refinement of EscalationProtocol. *)

Outcomes(s) == [i \in DOMAIN s |-> IsReliable(s[i])]

LEMMA OutcomesAppend ==
    ASSUME NEW S, NEW s \in Seq(S), NEW e
    PROVE  /\ Outcomes(s) \in Seq(BOOLEAN)
           /\ Len(Outcomes(s)) = Len(s)
           /\ Outcomes(Append(s, e)) = Append(Outcomes(s), IsReliable(e))
<1>1. \A i \in DOMAIN s : IsReliable(s[i]) \in BOOLEAN
  BY DEF IsReliable
<1>2. Outcomes(s) \in Seq(BOOLEAN) /\ Len(Outcomes(s)) = Len(s)
  BY <1>1 DEF Outcomes
<1> DEFINE long == Append(s, e)
<1>3. DOMAIN long = 1 .. Len(s) + 1
  OBVIOUS
<1>4. \A i \in 1 .. Len(s) : long[i] = s[i]
  OBVIOUS
<1>5. long[Len(s) + 1] = e
  OBVIOUS
<1> HIDE DEF long
<1> DEFINE after == Append(Outcomes(s), IsReliable(e))
<1>6. Outcomes(long) \in Seq(BOOLEAN) /\ Len(Outcomes(long)) = Len(s) + 1
  BY <1>3 DEF Outcomes, IsReliable
<1>7. after \in Seq(BOOLEAN) /\ Len(after) = Len(s) + 1
  BY <1>2 DEF IsReliable
<1>8. ASSUME NEW i \in 1 .. Len(s) + 1
      PROVE  Outcomes(long)[i] = after[i]
  <2>1. Outcomes(long)[i] = IsReliable(long[i])
    BY <1>3 DEF Outcomes
  <2>2. CASE i = Len(s) + 1
    <3>1. after[Len(s) + 1] = IsReliable(e)
      BY <1>2
    <3> QED
      BY <1>5, <2>1, <2>2, <3>1
  <2>3. CASE i # Len(s) + 1
    <3>1. i \in 1 .. Len(s) /\ i \in DOMAIN s
      BY <2>3
    <3>2. after[i] = Outcomes(s)[i]
      BY <1>2, <3>1
    <3> QED
      BY <1>4, <2>1, <3>1, <3>2 DEF Outcomes
  <2> QED
    BY <2>2, <2>3
<1>9. Outcomes(long) = after
  <2> HIDE DEF after
  <2> QED
    BY <1>6, <1>7, <1>8, SeqEqual
<1> QED
  BY <1>2, <1>9 DEF long

\* Every step of run() is a try, a return, an abort or invisible to the caller.
THEOREM RunImplementsProtocol == Spec => ImplementsProtocol
<1> DEFINE Budget == IF config.enabled THEN 1 + config.maxStages ELSE 1
           Status == IF pc = "done" THEN "answered" ELSE IF pc = "failed" THEN "failed" ELSE "open"
<1>1. Init => Protocol!Init
  <2> SUFFICES ASSUME Init PROVE Protocol!Init
    OBVIOUS
  <2>1. config.maxStages \in Nat
    BY ConfigAssumption DEF Init, Config
  <2>2. Outcomes(attempts) = << >>
    BY DEF Init, Outcomes
  <2> QED
    BY <2>1, <2>2 DEF Init, Protocol!Init, Outcomes
<1>2. TypeOK /\ Flow /\ ReliableEndsRun /\ [Next]_vars => [Protocol!Next]_(Protocol!protocolVars)
  <2> SUFFICES ASSUME TypeOK, Flow, ReliableEndsRun, [Next]_vars
               PROVE  [Protocol!Next]_(Protocol!protocolVars)
    OBVIOUS
  <2>1. attempts \in Seq(AttemptType) /\ config.maxStages \in Nat
    BY ConfigAssumption DEF TypeOK, Config
  <2>2. Outcomes(attempts) \in Seq(BOOLEAN) /\ Len(Outcomes(attempts)) = Len(attempts)
    BY <2>1, OutcomesAppend
  <2>3. ASSUME NEW ok \in BOOLEAN, Status = "open", Status' = "open", Len(attempts) < Budget,
               \A i \in DOMAIN attempts : ~IsReliable(attempts[i]),
               Outcomes(attempts)' = Append(Outcomes(attempts), ok),
               Budget' = Budget, final' = final
        PROVE  Protocol!Try
    <3>1. Protocol!Reliable = {}
      BY <2>3 DEF Protocol!Reliable
    <3> QED
      BY <2>2, <2>3, <3>1 DEF Protocol!Try, Outcomes
  <2>4. CASE JudgeInitial
    <3>1. PICK first : attempts' = <<first>>
      BY <2>4 DEF JudgeInitial
    <3>2. attempts = << >> /\ attempts' = Append(attempts, first)
      <4>1. <<first>> = Append(<< >>, first)
        OBVIOUS
      <4>2. attempts = << >>
        BY <2>4 DEF JudgeInitial
      <4> QED
        BY <3>1, <4>1, <4>2
    <3>3. Outcomes(attempts)' = Append(Outcomes(attempts), IsReliable(first))
      BY <2>1, <3>2, OutcomesAppend DEF Outcomes, IsReliable
    <3>4. /\ pc = "verify" /\ pc' \in {"stage", "select"}
          /\ config' = config /\ final' = final
      BY <2>4 DEF JudgeInitial
    <3>5. IsReliable(first) \in BOOLEAN
      BY DEF IsReliable
    <3>6. Protocol!Try
      BY <2>1, <2>3, <3>2, <3>3, <3>4, <3>5
    <3> QED
      BY <3>6 DEF Protocol!Next
  <2>5. CASE JudgeStage
    <3>1. PICK new : attempts' = Append(attempts, new)
      BY <2>5 DEF JudgeStage
    <3>2. Outcomes(attempts)' = Append(Outcomes(attempts), IsReliable(new))
      <4>1. Outcomes(Append(attempts, new)) = Append(Outcomes(attempts), IsReliable(new))
        BY <2>1, OutcomesAppend
      <4> QED
        BY <3>1, <4>1 DEF Outcomes, IsReliable
    <3>3. /\ pc = "verify" /\ pc' \in {"stage", "select"} /\ attempts # << >>
          /\ config' = config /\ final' = final
      BY <2>5 DEF JudgeStage
    <3>4. IsReliable(new) \in BOOLEAN
      BY DEF IsReliable
    <3>5. Len(attempts) < Budget
      BY <2>1, <3>3 DEF Flow, Building
    <3>6. \A i \in DOMAIN attempts : ~IsReliable(attempts[i])
      BY <3>3 DEF ReliableEndsRun
    <3>7. Protocol!Try
      BY <2>3, <3>2, <3>3, <3>4, <3>5, <3>6
    <3> QED
      BY <3>7 DEF Protocol!Next
  <2>6. CASE Select
    <3>1. /\ Status = "open" /\ Status' = "answered"
          /\ config' = config /\ attempts' = attempts
      BY <2>6 DEF Select
    <3>2. final' \in DOMAIN attempts /\ (ReliableTries # {} => final' \in ReliableTries)
      <4>1. PICK last \in Eligible : final' \in 1 .. last /\ attempts[final'] = attempts[last]
        BY <2>6 DEF Select
      <4>2. last \in DOMAIN attempts
        BY <4>1 DEF Eligible, ReliableTries, AnsweredTries, ScoredTries, MostConfidentTries
      <4>3. ReliableTries # {} => IsReliable(attempts[last])
        BY <4>1 DEF Eligible, ReliableTries
      <4> QED
        BY <2>1, <4>1, <4>2, <4>3 DEF ReliableTries
    <3>3. Protocol!Reliable = ReliableTries
      BY DEF Protocol!Reliable, ReliableTries
    <3>4. Protocol!Return
      BY <3>1, <3>2, <3>3 DEF Protocol!Return
    <3> QED
      BY <3>4 DEF Protocol!Next
  <2>7. CASE Raise
    <3>1. /\ Status = "open" /\ Status' = "failed"
          /\ config' = config /\ attempts' = attempts /\ final' = final
      BY <2>7 DEF Raise, MayRaise
    <3>2. Protocol!Abort
      BY <3>1 DEF Protocol!Abort
    <3> QED
      BY <3>2 DEF Protocol!Next
  <2>8. CASE /\ ~JudgeInitial /\ ~JudgeStage /\ ~Select /\ ~Raise
    <3>1. config' = config /\ attempts' = attempts /\ final' = final /\ Status' = Status
      BY <2>8 DEF Next, vars, EstimateDifficulty, Route, GenerateOnce, GenerateVote, ToolTurn,
         Score, Verify, RunStage, SkipStage, StopEscalating
    <3> QED
      BY <3>1 DEF Protocol!protocolVars
  <2> QED
    BY <2>4, <2>5, <2>6, <2>7, <2>8
<1> QED
  BY <1>1, <1>2, TypeCorrect, FlowCorrect, ReliableAttemptReturned, PTL
     DEF Spec, ImplementsProtocol, Protocol!Spec
=============================================================================
