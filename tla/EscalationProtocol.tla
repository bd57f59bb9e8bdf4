------------------------- MODULE EscalationProtocol -------------------------
(***************************************************************************)
(* What a caller of RouteGuardPipeline.run may rely on, with no mention of *)
(* models, prompts or confidence: a query gets a first try, further tries  *)
(* only while none was reliable and the budget lasts, and it ends either   *)
(* with one of the tries as its answer or with an error.  A reliable try   *)
(* is never followed by another one and is never passed over.              *)
(***************************************************************************)
EXTENDS Naturals, Sequences

VARIABLES
    budget,  \* the number of tries the configuration pays for, the first included
    tries,   \* tries[i]: was the i-th try judged reliable?
    status,  \* "open", "answered" or "failed"
    answer   \* the index of the try that is returned, 0 before that

protocolVars == <<budget, tries, status, answer>>

Reliable == {i \in DOMAIN tries : tries[i]}

Init ==
    /\ budget \in Nat \ {0}
    /\ tries = << >>
    /\ status = "open"
    /\ answer = 0

Try ==
    /\ status = "open"
    /\ Reliable = {}
    /\ Len(tries) < budget
    /\ \E ok \in BOOLEAN : tries' = Append(tries, ok)
    /\ UNCHANGED <<budget, status, answer>>

Return ==
    /\ status = "open"
    /\ \E i \in DOMAIN tries :
          /\ Reliable # {} => i \in Reliable
          /\ answer' = i
    /\ status' = "answered"
    /\ UNCHANGED <<budget, tries>>

Abort ==
    /\ status = "open"
    /\ status' = "failed"
    /\ UNCHANGED <<budget, tries, answer>>

Next == Try \/ Return \/ Abort

Spec == Init /\ [][Next]_protocolVars
=============================================================================
