------------------------------ MODULE MCBackends ------------------------------
EXTENDS Backends

MCSpecs ==
    {[backend |-> "simulated", options |-> [capability |-> c], configured |-> TRUE] : c \in {1, 2}}
    \cup {[backend |-> "huggingface", options |-> [capability |-> 0], configured |-> TRUE]}
    \cup {[backend |-> "openai_compatible", options |-> [capability |-> 0], configured |-> c] :
             c \in BOOLEAN}

Question == [answer |-> "A", difficulty |-> 1, expectedCalls |-> << >>]
Sum == [answer |-> "7", difficulty |-> 1, expectedCalls |-> <<"add">>]
Asking == [reference |-> Question, purpose |-> "initial", strategy |-> "default",
           evidence |-> {}, candidate |-> None, toolStep |-> 0, toolResults |-> << >>]
Plain == [messages |-> "p", length |-> 2, temperature |-> 0, seed |-> 1, max |-> 8, stop |-> << >>,
          logprobs |-> TRUE, metadata |-> Asking]

Meta(m) == [Plain EXCEPT !.metadata = m]
Tool == [Asking EXCEPT !.purpose = "tool_agent", !.reference = Sum]
MCBatches ==
    {\* longer first, a sample between greedy ones, another limit
     <<[Plain EXCEPT !.length = 3], [Plain EXCEPT !.temperature = 1, !.logprobs = FALSE], Plain,
       [Plain EXCEPT !.length = 1]>>,
     \* the same prompt from the benchmark, from a visitor, carefully and with evidence
     <<Plain, Meta([Asking EXCEPT !.reference = None]), Meta([Asking EXCEPT !.strategy = "careful"]),
       Meta([Asking EXCEPT !.evidence = {"A"}])>>,
     \* two samples and one of them again, under another limit
     <<[Plain EXCEPT !.temperature = 1], [Plain EXCEPT !.temperature = 1, !.seed = 2],
       [Plain EXCEPT !.temperature = 1, !.max = 1]>>,
     \* judges
     <<Meta([Asking EXCEPT !.purpose = "difficulty_judge"]),
       Meta([Asking EXCEPT !.purpose = "verify_judge", !.candidate = "A"]),
       Meta([Asking EXCEPT !.purpose = "verify_judge", !.candidate = "B"])>>,
     \* tool steps
     <<Meta(Tool), Meta([Tool EXCEPT !.reference = Question]),
       Meta([Tool EXCEPT !.toolStep = 1, !.toolResults = <<"7">>]),
       Meta([Tool EXCEPT !.toolStep = 1])>>}
===============================================================================
