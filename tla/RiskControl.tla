----------------------------- MODULE RiskControl -----------------------------
(***************************************************************************)
(* risk_controlled_threshold (routeguard/confidence/selective.py): from    *)
(* the confidence and the correctness of calibration answers, the lowest   *)
(* threshold whose accepted answers are certified to err at most at the    *)
(* target rate.  Candidates are tried from the most conservative one on,   *)
(* those that accept too few answers are passed over, and the first one    *)
(* that is not certified ends the scan.                                    *)
(*                                                                         *)
(* Rates are fractions of integers.  A Clopper-Pearson upper bound is at   *)
(* most the target exactly if so few errors have probability at most delta *)
(* when every answer errs at the target rate: that is what comparing the   *)
(* quantile of the beta distribution with the target decides.              *)
(*                                                                         *)
(* A definition commented as a slip is not part of the model: it is the    *)
(* definition that follows it with a plausible mistake, and PROJECT.json   *)
(* names the property that is violated when it is used instead.            *)
(***************************************************************************)
EXTENDS Integers, FiniteSets

CONSTANTS
    Top,       \* confidences are 1 .. Top, in their order
    MaxCount,  \* bound: answers of one confidence and one outcome
    Settings   \* target_risk = risk / scale, delta = delta / deltaScale, min_accepted

Levels == 1 .. Top

ASSUME TopAssumption == Top \in Nat /\ MaxCount \in Nat
ASSUME SettingsAssumption ==
    Settings \subseteq [risk : Nat \ {0}, scale : Nat, delta : Nat \ {0}, deltaScale : Nat,
                        minAccepted : Nat]
ASSUME FractionAssumption == \A s \in Settings : s.risk < s.scale /\ s.delta < s.deltaScale

VARIABLES
    settings,
    right, wrong,  \* calibration answers of each confidence: correct ones and errors
    level,         \* the candidate tried next; every one above it was tried
    stopped,       \* the scan met a candidate that is not certified
    best           \* the threshold found so far, or 0

scanVars == <<settings, right, wrong, level, stopped, best>>

-----------------------------------------------------------------------------
Accepting(l) == l .. Top

\* The accepted answers of one outcome, numbered for each confidence.
Answers(count, l) == {a \in Accepting(l) \X (1 .. MaxCount) : a[2] <= count[a[1]]}
Errors(l) == Cardinality(Answers(wrong, l))
Accepted(l) == Cardinality(Answers(right, l)) + Cardinality(Answers(wrong, l))

\* np.unique(confidence).
Candidate(l) == right[l] + wrong[l] > 0

\* b ** n.
Power(b, n) ==
    LET power[i \in Nat] == IF i = 0 THEN 1 ELSE b * power[i - 1] IN power[n]

\* (1 - target_risk) ** n <= delta: n answers without an error can be certified, which is
\* n >= attainable for the smallest such n.
Attainable(s, n) == Power(s.scale - s.risk, n) * s.deltaScale <= s.delta * Power(s.scale, n)

\* Probability of at most e errors among n answers, times scale ** n: the last answer is
\* correct, or it is one of the errors.
ErrorTail(s, e, n) ==
    LET tails[i \in Nat] ==
            [j \in Nat |->
                IF i = 0 THEN 1
                ELSE (s.scale - s.risk) * tails[i - 1][j]
                        + (IF j = 0 THEN 0 ELSE s.risk * tails[i - 1][j - 1])]
    IN tails[n][e]

\* clopper_pearson_upper(e, n, delta) <= target_risk.
WithinTarget(s, e, n) ==
    /\ e < n
    /\ ErrorTail(s, e, n) * s.deltaScale <= s.delta * Power(s.scale, n)

\* Slip: the scan starts with the first candidate that accepts min_accepted answers.
EnoughAccepted(l) == Accepted(l) >= settings.minAccepted

\* n_acc >= n_start.
Enough(l) == Accepted(l) >= settings.minAccepted /\ Attainable(settings, Accepted(l))

Certified(l) == WithinTarget(settings, Errors(l), Accepted(l))

Tested(l) == Candidate(l) /\ Enough(l)

-----------------------------------------------------------------------------
ScanInit ==
    /\ settings \in Settings
    /\ right \in [Levels -> 0 .. MaxCount]
    /\ wrong \in [Levels -> 0 .. MaxCount]
    /\ level = Top
    /\ stopped = FALSE
    /\ best = 0

Scanning == level > 0 /\ ~stopped

\* No answer has this confidence, or too few are accepted (`continue`).
PassOver ==
    /\ Scanning
    /\ ~Tested(level)
    /\ level' = level - 1
    /\ UNCHANGED <<settings, right, wrong, stopped, best>>

\* Slip: the first certified threshold is returned.
CertifyFirst ==
    /\ Scanning
    /\ Tested(level)
    /\ Certified(level)
    /\ best' = level
    /\ stopped' = TRUE
    /\ UNCHANGED <<settings, right, wrong, level>>

CertifyLevel ==
    /\ Scanning
    /\ Tested(level)
    /\ Certified(level)
    /\ best' = level
    /\ level' = level - 1
    /\ UNCHANGED <<settings, right, wrong, stopped>>

\* Slip: a candidate that is not certified is passed over.
GoOn ==
    /\ Scanning
    /\ Tested(level)
    /\ ~Certified(level)
    /\ level' = level - 1
    /\ UNCHANGED <<settings, right, wrong, stopped, best>>

\* `if ucb > target_risk: break`.
Stop ==
    /\ Scanning
    /\ Tested(level)
    /\ ~Certified(level)
    /\ stopped' = TRUE
    /\ UNCHANGED <<settings, right, wrong, level, best>>

ScanNext == PassOver \/ CertifyLevel \/ Stop

ScanSpec == ScanInit /\ [][ScanNext]_scanVars

-----------------------------------------------------------------------------
(* Properties. *)

\* The scan stays inside the candidates.
TypeOK ==
    /\ settings \in Settings
    /\ right \in [Levels -> 0 .. MaxCount]
    /\ wrong \in [Levels -> 0 .. MaxCount]
    /\ level \in 0 .. Top
    /\ stopped \in BOOLEAN
    /\ best \in 0 .. Top

\* Fixed-sequence testing: a threshold is only certified if every tested candidate that is more
\* conservative was certified too, which is what keeps the error probability at delta without
\* a correction for the number of tests.
FixedSequence ==
    best # 0 => /\ Tested(best)
                /\ \A l \in best .. Top : Tested(l) => Certified(l)

\* docs/confidence.md: "the lowest threshold".  When the scan ends, every less conservative
\* candidate is cut off by one that is not certified, and "if no threshold can be certified",
\* nothing is accepted.
LowestThreshold ==
    ~Scanning =>
        \A l \in Levels : Tested(l) /\ (best = 0 \/ l < best) =>
            \E m \in l .. Top : Tested(m) /\ ~Certified(m)

\* docs/confidence.md: the scan starts "at the smallest coverage at which the target is
\* attainable at all": a candidate passed over for that reason alone would have failed whatever
\* its labels, and one at which the scan stops would have been certified without its errors.
StartIsAttainable ==
    \A l \in Levels :
        /\ Candidate(l) /\ ~Enough(l) /\ Accepted(l) >= settings.minAccepted =>
              ~WithinTarget(settings, 0, Accepted(l))
        /\ stopped /\ l = level => Errors(l) > 0
=============================================================================
