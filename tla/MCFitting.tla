------------------------------ MODULE MCFitting ------------------------------
EXTENDS Fitting, TLC

MCItems == {"a_en", "a_kk", "b_en", "b_kk", "c_en", "d_en", "e_en"}
MCGroup == [i \in MCItems |-> CASE i \in {"a_en", "a_kk"} -> "a" [] i \in {"b_en", "b_kk"} -> "b"
                                [] i = "c_en" -> "c" [] i = "d_en" -> "d" [] OTHER -> "e"]
MCLang == [i \in MCItems |-> IF i \in {"a_kk", "b_kk"} THEN "kk" ELSE "en"]
MCStratum == [g \in {"a", "b", "c", "d", "e"} |-> IF g = "e" THEN "other" ELSE "math"]
MCFractions == {[train |-> 10, calibration |-> 5], [train |-> 8, calibration |-> 8],
                [train |-> 12, calibration |-> 0]}

Plain == [learnedTask |-> FALSE, learnedDifficulty |-> FALSE, judgedDifficulty |-> FALSE,
          judge |-> FALSE, router |-> "threshold",
          trainLanguages |-> {}, confidence |-> "logprob", calibration |-> TRUE,
          calibrator |-> "isotonic", perLanguage |-> FALSE, risk |-> "none"]
MCConfigs ==
    {[Plain EXCEPT !.router = "fixed"]}
    \cup {[Plain EXCEPT !.router = "random", !.confidence = "ensemble", !.judge = TRUE]}
    \cup {[Plain EXCEPT !.router = "rules", !.learnedDifficulty = TRUE]}
    \cup {[Plain EXCEPT !.confidence = "none", !.risk = "plain"],
          [Plain EXCEPT !.learnedTask = TRUE, !.judgedDifficulty = TRUE, !.judge = TRUE,
                        !.confidence = "sampling", !.perLanguage = TRUE, !.risk = "plain"],
          [Plain EXCEPT !.router = "oracle", !.risk = "conditional"],
          [Plain EXCEPT !.router = "learned", !.learnedDifficulty = TRUE,
                        !.perLanguage = TRUE, !.risk = "conditional"],
          [Plain EXCEPT !.router = "cost_aware", !.judgedDifficulty = TRUE,
                        !.trainLanguages = {"kk"}, !.risk = "conditional",
                        !.calibration = FALSE],
          [Plain EXCEPT !.router = "quality_cost", !.learnedTask = TRUE,
                        !.learnedDifficulty = TRUE, !.risk = "plain"]}
=============================================================================
