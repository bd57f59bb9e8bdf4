---------------------------- MODULE MCRiskControl ----------------------------
(* Up to twelve calibration answers of three confidences. *)
EXTENDS RiskControl

\* A start set by min_accepted (four answers would do), and one set by what is attainable (two).
MCSettings ==
    {[risk |-> 1, scale |-> 3, delta |-> 1, deltaScale |-> 4, minAccepted |-> 5],
     [risk |-> 1, scale |-> 2, delta |-> 1, deltaScale |-> 4, minAccepted |-> 1]}
=============================================================================
