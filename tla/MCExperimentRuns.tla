--------------------------- MODULE MCExperimentRuns ---------------------------
(* Constants for TLC: one shell, or two, started in different seconds or in the same one. *)
EXTENDS ExperimentRuns, TLC

CONSTANTS r1, r2

\* Its benchmarks come one after the other, the second one under a name with a suffix.
OneShell == r1 :> 0
TwoSeconds == r1 :> 0 @@ r2 :> 1
SameSecond == r1 :> 0 @@ r2 :> 0
===============================================================================
