------------------------- MODULE MCRouteGuardService -------------------------
(* Two request threads, a configuration that is edited meanwhile, and traces over a restart. *)
EXTENDS RouteGuardService

File(simulated, router) ==
    [valid |-> TRUE, simulated |-> simulated, models |-> {"small"}, router |-> router,
     parts |-> FALSE]

\* Ready and simulated, ready with real backends, with a learned router, with a learned
\* classifier, and a file that is wrong.
MCContents ==
    {File(TRUE, "simple"), File(FALSE, "simple"), File(TRUE, "learned"),
     [File(FALSE, "simple") EXCEPT !.parts = TRUE],
     [File(FALSE, "oracle") EXCEPT !.valid = FALSE]}

Request(config, manual, model, escalation) ==
    [config |-> config, manual |-> manual, model |-> model, verification |-> TRUE,
     escalation |-> escalation, fixture |-> TRUE]

\* Of one configuration with and without escalation, of a model chosen by hand, and of a model
\* that is not in the file.
MCRequests ==
    {Request("demo", FALSE, "small", TRUE), Request("demo", FALSE, "small", FALSE),
     Request("demo", TRUE, "small", TRUE), Request("demo", TRUE, "large", TRUE)}
=============================================================================
