----------------------------- MODULE MCEvaluation -----------------------------
EXTENDS Evaluation, TLC

CONSTANTS en, kk, yes, small, oracle, routed

MCItems == <<en, kk>>
MCEnglish == {en}
MCSignals == {{"confidence"}, {"verifier"}}
MCPlain == {en}
MCAnswers == {yes}
MCSystems == <<small, oracle, routed>>
MCFixedModel == (small :> 1) @@ (oracle :> None) @@ (routed :> None)
\* An ablation without the task classifier the others have.
MCPrompting == (small :> "usual") @@ (oracle :> "usual") @@ (routed :> "none")
MCOracles == {oracle}
MCAblations == {routed}
MCAsked == {routed}
MCReference == small

MCCosts == 1 .. 4
MCAccuracies == 0 .. 3
=============================================================================
