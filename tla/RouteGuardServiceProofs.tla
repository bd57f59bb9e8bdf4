----------------------- MODULE RouteGuardServiceProofs -----------------------
(***************************************************************************)
(* What the inference side of the API guarantees for any number of         *)
(* threads, requests, edits and restarts.                                  *)
(***************************************************************************)
EXTENDS RouteGuardService, SequenceTheorems, TLAPS

Working == {"registry", "build", "query", "run", "store"}
Serving == {"query", "run", "store"}

\* A thread past ReadConfig holds a file that was there.
Reading == \A t \in Threads : pc[t] \in Working => content[t] \in Contents

LEMMA WantedType ==
    ASSUME NEW c \in Contents, NEW r \in Requests
    PROVE  Effective(c, r) \in ConfigType
  BY ContentAssumption, RequestAssumption
     DEF ContentAssumption, RequestAssumption, ContentType, RequestType, ConfigType, Effective,
         Routers

\* What the store keeps: the given traces, or as many of the last ones as it has room for.
LEMMA KeptProperties ==
    ASSUME NEW S, NEW s \in Seq(S)
    PROVE  /\ Kept(s) \in Seq(S)
           /\ Len(Kept(s)) = IF Len(s) <= TraceLimit THEN Len(s) ELSE TraceLimit
           /\ \A i \in 1 .. Len(Kept(s)) : Kept(s)[i] = s[Len(s) - Len(Kept(s)) + i]
<1>1. Len(s) \in Nat /\ TraceLimit \in Nat
  BY LimitAssumption, LenProperties DEF LimitAssumption
<1>2. CASE Len(s) <= TraceLimit
  BY <1>1, <1>2 DEF Kept
<1>3. CASE ~(Len(s) <= TraceLimit)
  <2>1. Kept(s) = SubSeq(s, Len(s) - TraceLimit + 1, Len(s))
    BY <1>3 DEF Kept
  <2>2. \A i \in Len(s) - TraceLimit + 1 .. Len(s) : s[i] \in S
    BY <1>1, <1>3, ElementOfSeq
  <2>3. /\ SubSeq(s, Len(s) - TraceLimit + 1, Len(s)) \in Seq(S)
        /\ Len(SubSeq(s, Len(s) - TraceLimit + 1, Len(s))) = TraceLimit
        /\ \A i \in 1 .. TraceLimit :
              SubSeq(s, Len(s) - TraceLimit + 1, Len(s))[i] = s[Len(s) - TraceLimit + i]
    BY <1>1, <1>3, <2>2
  <2>. QED
    BY <1>1, <1>3, <2>1, <2>3
<1>. QED
  BY <1>2, <1>3

\* The registry, the trace store and the threads hold what the code puts there.
THEOREM TypeCorrect == Spec => [](TypeOK /\ Reading)
<1>1. Init => TypeOK /\ Reading
  <2>. SUFFICES ASSUME Init PROVE TypeOK /\ Reading
    OBVIOUS
  <2>1. (CHOOSE r \in Requests : TRUE) \in Requests
    BY RequestAssumption DEF RequestAssumption
  <2>2. built \in Seq(ConfigType) /\ Len(built) = 0 /\ traces \in Seq(1 .. stored)
    BY DEF Init
  <2>. QED
    BY <2>1, <2>2 DEF Init, TypeOK, Reading, Working
<1>2. TypeOK /\ Reading /\ [Next]_vars => TypeOK' /\ Reading'
  <2>. SUFFICES ASSUME TypeOK, Reading, [Next]_vars
                PROVE  TypeOK' /\ Reading'
    OBVIOUS
  <2>0. registry \subseteq 1 .. Len(built) /\ Len(built) \in Nat
    BY DEF TypeOK
  <2>. USE DEF TypeOK, Reading, Working
  <2>1. ASSUME NEW t \in Threads, Post(t) PROVE TypeOK' /\ Reading'
    BY <2>1 DEF Post, server
  <2>2. ASSUME NEW t \in Threads, ViewTrace(t) PROVE TypeOK' /\ Reading'
    BY <2>2 DEF ViewTrace, server
  <2>3. ASSUME NEW t \in Threads, ReadConfig(t) PROVE TypeOK' /\ Reading'
    <3>1. request[t].config \in ConfigIds
      BY RequestAssumption DEF RequestAssumption, RequestType
    <3>2. files[request[t].config] \in Contents \cup {NoFile}
      BY <3>1
    <3>3. \/ /\ files[request[t].config] = NoFile \/ files[request[t].config] # NoFile
             /\ \E code \in {400, 404, 500} : Answer(t, code)
          \/ files[request[t].config] # NoFile /\ Go(t, "registry")
      BY <2>3 DEF ReadConfig
    <3>4. /\ content' = [content EXCEPT ![t] = files[request[t].config]]
          /\ UNCHANGED <<files, server, request, pipeline, gold, trace, asked, edits, restarts>>
      BY <2>3 DEF ReadConfig
    <3>5. CASE \E code \in {400, 404, 500} : Answer(t, code)
      BY <3>2, <3>4, <3>5 DEF Answer, server
    <3>6. CASE files[request[t].config] # NoFile /\ Go(t, "registry")
      BY <3>2, <3>4, <3>6 DEF Go, server
    <3>. QED
      BY <3>3, <3>5, <3>6
  <2>4. ASSUME NEW t \in Threads, FindPipeline(t) PROVE TypeOK' /\ Reading'
    <3>1. Registered(t) \subseteq registry
      BY DEF Registered
    <3>2. ASSUME Registered(t) # {}
          PROVE  (CHOOSE p \in Registered(t) : TRUE) \in 0 .. Len(built)
      <4>. DEFINE found == CHOOSE p \in Registered(t) : TRUE
      <4>1. found \in Registered(t)
        BY <3>2
      <4>. HIDE DEF found
      <4>2. found \in 1 .. Len(built)
        BY <3>1, <4>1, <2>0
      <4>3. found \in 0 .. Len(built)
        BY <4>2, <2>0
      <4>. QED
        BY <4>3 DEF found
    <3>3. pipeline' \in [Threads -> 0 .. Len(built)]
      <4>. DEFINE found == CHOOSE p \in Registered(t) : TRUE
      <4>1. CASE Registered(t) = {}
        BY <2>4, <4>1 DEF FindPipeline
      <4>2. CASE Registered(t) # {}
        <5>1. found \in 0 .. Len(built) /\ pipeline' = [pipeline EXCEPT ![t] = found]
          BY <2>4, <3>2, <4>2 DEF FindPipeline
        <5>. HIDE DEF found
        <5>. QED
          BY <5>1
      <4>. QED
        BY <4>1, <4>2
    <3>4. /\ lock' \in Threads \cup {NoOne}
          /\ pc[t] = "registry"
          /\ pc' = [pc EXCEPT ![t] = "build"] \/ pc' = [pc EXCEPT ![t] = "query"]
          /\ UNCHANGED status
      BY <2>4 DEF FindPipeline, Go
    <3>5. UNCHANGED <<files, built, registry, traces, stored, lost, request, content, gold,
                      trace, asked, edits, restarts>>
      BY <2>4 DEF FindPipeline
    <3>8. Reading'
      BY <3>3, <3>4, <3>5
    <3>9. pc' \in [Threads -> {"idle", "config", "registry", "build", "query", "run", "store"}]
      <4>1. CASE pc' = [pc EXCEPT ![t] = "build"]
        BY <4>1
      <4>2. CASE pc' = [pc EXCEPT ![t] = "query"]
        BY <4>2
      <4>. QED
        BY <3>4, <4>1, <4>2
    <3>10. status' \in [Threads -> {0, 200, 400, 404, 500, 503}]
      BY <3>4
    <3>11. TypeOK'
      BY <3>3, <3>4, <3>5, <3>9, <3>10
    <3>. QED
      BY <3>8, <3>11
  <2>5. ASSUME NEW t \in Threads, BuildPipeline(t) PROVE TypeOK' /\ Reading'
    <3>1. Wanted(t) \in ConfigType
      BY <2>5, WantedType DEF BuildPipeline, Wanted
    <3>2. built' \in Seq(ConfigType) /\ Len(built') = Len(built) + 1 /\ Len(built) \in Nat
      BY <2>5, <3>1 DEF BuildPipeline
    <3>3. registry' \subseteq registry \cup {Len(built) + 1}
      BY <2>5 DEF BuildPipeline, RegistryAfter
    <3>4. registry' \subseteq 1 .. Len(built')
      <4>. SUFFICES ASSUME NEW p \in registry' PROVE p \in 1 .. Len(built')
        OBVIOUS
      <4>1. CASE p \in registry
        BY <2>0, <3>2, <4>1
      <4>2. CASE p = Len(built) + 1
        BY <3>2, <4>2
      <4>. QED
        BY <3>3, <4>1, <4>2
    <3>5. pipeline' \in [Threads -> 0 .. Len(built')]
      BY <2>5, <3>2 DEF BuildPipeline
    <3>6. /\ status' = [status EXCEPT ![t] = 400] \/ status' = status
          /\ pc[t] = "build"
          /\ pc' = [pc EXCEPT ![t] = "idle"] \/ pc' = [pc EXCEPT ![t] = "query"]
      BY <2>5 DEF BuildPipeline, Answer, Go
    <3>7. /\ lock' = NoOne
          /\ UNCHANGED <<files, traces, stored, lost, request, content, gold, trace, asked,
                         edits, restarts>>
      BY <2>5 DEF BuildPipeline
    <3>8. Reading'
      BY <3>2, <3>4, <3>5, <3>6, <3>7
    <3>9. pc' \in [Threads -> {"idle", "config", "registry", "build", "query", "run", "store"}]
      <4>1. CASE pc' = [pc EXCEPT ![t] = "idle"]
        BY <4>1
      <4>2. CASE pc' = [pc EXCEPT ![t] = "query"]
        BY <4>2
      <4>. QED
        BY <3>6, <4>1, <4>2
    <3>10. status' \in [Threads -> {0, 200, 400, 404, 500, 503}]
      <4>1. CASE status' = [status EXCEPT ![t] = 400]
        BY <4>1
      <4>. QED
        BY <3>6, <4>1
    <3>11. TypeOK'
      BY <3>2, <3>4, <3>5, <3>6, <3>7, <3>9, <3>10
    <3>. QED
      BY <3>8, <3>11
  <2>6. ASSUME NEW t \in Threads, FailToBuild(t) PROVE TypeOK' /\ Reading'
    BY <2>6 DEF FailToBuild, Answer
  <2>7. ASSUME NEW t \in Threads, BuildQuery(t) PROVE TypeOK' /\ Reading'
    <3>1. \/ /\ gold' = [gold EXCEPT ![t] = /\ Simulated(t)
                                            /\ request[t].config = "demo"
                                            /\ request[t].fixture]
             /\ Go(t, "run")
          \/ Answer(t, 500) /\ UNCHANGED gold
      BY <2>7 DEF BuildQuery
    <3>2. gold' \in [Threads -> BOOLEAN]
      <4>. DEFINE b == Simulated(t) /\ request[t].config = "demo" /\ request[t].fixture
      <4>1. b \in BOOLEAN
        OBVIOUS
      <4>2. gold' = [gold EXCEPT ![t] = b] \/ gold' = gold
        BY <3>1
      <4>3. gold \in [Threads -> BOOLEAN]
        OBVIOUS
      <4>. HIDE DEF b, TypeOK
      <4>. QED
        BY <4>1, <4>2, <4>3
    <3>3. /\ status' = [status EXCEPT ![t] = 500] \/ status' = status
          /\ pc[t] = "query"
          /\ pc' = [pc EXCEPT ![t] = "idle"] \/ pc' = [pc EXCEPT ![t] = "run"]
      BY <2>7, <3>1 DEF BuildQuery, Answer, Go
    <3>4. UNCHANGED <<files, server, request, content, pipeline, trace, asked, edits, restarts>>
      BY <2>7 DEF BuildQuery
    <3>8. Reading'
      BY <3>2, <3>3, <3>4 DEF server
    <3>9. pc' \in [Threads -> {"idle", "config", "registry", "build", "query", "run", "store"}]
      <4>1. CASE pc' = [pc EXCEPT ![t] = "idle"]
        BY <4>1
      <4>2. CASE pc' = [pc EXCEPT ![t] = "run"]
        BY <4>2
      <4>. QED
        BY <3>3, <4>1, <4>2
    <3>10. status' \in [Threads -> {0, 200, 400, 404, 500, 503}]
      <4>1. CASE status' = [status EXCEPT ![t] = 500]
        BY <4>1
      <4>. QED
        BY <3>3, <4>1
    <3>11. TypeOK'
      BY <3>2, <3>3, <3>4, <3>9, <3>10 DEF server
    <3>. QED
      BY <3>8, <3>11
  <2>8. ASSUME NEW t \in Threads, Run(t) PROVE TypeOK' /\ Reading'
    BY <2>8 DEF Run, Go, server
  <2>9. ASSUME NEW t \in Threads, FailToRun(t) PROVE TypeOK' /\ Reading'
    BY <2>9 DEF FailToRun, Answer, server
  <2>10. ASSUME NEW t \in Threads, StoreTrace(t) PROVE TypeOK' /\ Reading'
    <3>1. stored' = stored + 1 /\ stored' \in Nat
      BY <2>10 DEF StoreTrace
    <3>2. Append(traces, stored') \in Seq(1 .. stored')
      BY <3>1, SeqMonotonic
    <3>3. traces' \in Seq(1 .. stored')
      BY <2>10, <3>2, KeptProperties DEF StoreTrace
    <3>. QED
      BY <2>10, <3>1, <3>3 DEF StoreTrace, Answer
  <2>11. CASE EditConfig
    BY <2>11 DEF EditConfig, server, locals
  <2>12. CASE Restart
    <3>1. built' \in Seq(ConfigType) /\ Len(built') = 0 /\ traces' \in Seq(1 .. stored')
      BY <2>12 DEF Restart
    <3>. QED
      BY <2>12, <3>1 DEF Restart
  <2>13. CASE UNCHANGED vars
    BY <2>13 DEF vars, server, locals
  <2>. QED
    BY <2>1, <2>2, <2>3, <2>4, <2>5, <2>6, <2>7, <2>8, <2>9, <2>10, <2>11, <2>12, <2>13
       DEF Next, Step
<1>. QED
  BY <1>1, <1>2, PTL DEF Spec

-----------------------------------------------------------------------------
(* The registry. *)

\* A configuration that is not registered is built by the holder of the lock only.
Locked ==
    /\ \A t \in Threads : pc[t] = "build" <=> lock = t
    /\ \A t \in Threads : pc[t] = "build" => Registered(t) = {}

Fitted == \A p \in registry : ~NeedsTraining(built[p])

ServesRegistered ==
    \A t \in Threads : pc[t] \in Serving =>
        pipeline[t] \in registry /\ built[pipeline[t]] = Effective(content[t], request[t])

RegistryInv == Locked /\ OnePipelinePerConfiguration /\ Fitted /\ ServesRegistered

\* The registry's key tells configurations apart.
LEMMA KeyInjective ==
    ASSUME NEW c \in ConfigType, NEW d \in ConfigType, Key(c) = Key(d)
    PROVE  c = d
  BY DEF ConfigType, Key

\* Steps that leave the registry alone, and move one thread that does not hold the lock to a
\* place where it neither builds nor, unless it did before, serves.
LEMMA RegistryFrame ==
    ASSUME TypeOK, RegistryInv, NEW t \in Threads,
           UNCHANGED <<built, registry, lock>>,
           pc[t] # "build", pc'[t] # "build",
           pc'[t] \in Serving => /\ pc[t] \in Serving
                                 /\ pipeline'[t] = pipeline[t]
                                 /\ content'[t] = content[t]
                                 /\ request'[t] = request[t],
           \A u \in Threads \ {t} : /\ pc'[u] = pc[u]
                                    /\ pipeline'[u] = pipeline[u]
                                    /\ content'[u] = content[u]
                                    /\ request'[u] = request[u]
    PROVE  RegistryInv'
<1>1. Locked'
  BY DEF RegistryInv, Locked, Registered, Wanted
<1>2. OnePipelinePerConfiguration' /\ Fitted'
  BY DEF RegistryInv, OnePipelinePerConfiguration, Fitted
<1>3. ServesRegistered'
  BY DEF RegistryInv, ServesRegistered
<1>. QED
  BY <1>1, <1>2, <1>3 DEF RegistryInv

LEMMA RegistryInvariant == Spec => []RegistryInv
<1>1. Init => RegistryInv
  BY NobodyAssumption
     DEF NobodyAssumption, Init, RegistryInv, Locked, OnePipelinePerConfiguration, Fitted,
         ServesRegistered, Serving
<1>2. TypeOK /\ Reading /\ RegistryInv /\ [Next]_vars => RegistryInv'
  <2>. SUFFICES ASSUME TypeOK, Reading, RegistryInv, [Next]_vars
                PROVE  RegistryInv'
    OBVIOUS
  <2>0. /\ pc \in [Threads -> {"idle", "config", "registry", "build", "query", "run", "store"}]
        /\ request \in [Threads -> Requests]
        /\ content \in [Threads -> Contents \cup {NoFile}]
        /\ pipeline \in [Threads -> 0 .. Len(built)]
        /\ registry \subseteq 1 .. Len(built) /\ Len(built) \in Nat
        /\ built \in Seq(ConfigType)
        /\ NoOne \notin Threads
    BY NobodyAssumption DEF TypeOK, NobodyAssumption
  <2>1. ASSUME NEW t \in Threads, Post(t) PROVE RegistryInv'
    <3>1. /\ pc[t] = "idle" /\ pc'[t] = "config"
          /\ UNCHANGED <<built, registry, lock>>
          /\ \A u \in Threads \ {t} : /\ pc'[u] = pc[u] /\ pipeline'[u] = pipeline[u]
                                       /\ content'[u] = content[u] /\ request'[u] = request[u]
      BY <2>0, <2>1 DEF Post, server
    <3>. QED
      BY <3>1, RegistryFrame DEF Serving
  <2>2. ASSUME NEW t \in Threads, ViewTrace(t) PROVE RegistryInv'
    <3>1. UNCHANGED <<built, registry, lock, pc, pipeline, content, request>> /\ pc[t] = "idle"
      BY <2>2 DEF ViewTrace, server
    <3>. QED
      BY <3>1, RegistryFrame DEF Serving
  <2>3. ASSUME NEW t \in Threads, ReadConfig(t) PROVE RegistryInv'
    <3>1. /\ pc[t] = "config"
          /\ pc' = [pc EXCEPT ![t] = "idle"] \/ pc' = [pc EXCEPT ![t] = "registry"]
          /\ content' = [content EXCEPT ![t] = files[request[t].config]]
          /\ UNCHANGED <<built, registry, lock, pipeline, request>>
      BY <2>3 DEF ReadConfig, Answer, Go, server
    <3>2. pc'[t] \in {"idle", "registry"} /\ \A u \in Threads \ {t} : pc'[u] = pc[u]
      BY <2>0, <3>1
    <3>3. \A u \in Threads \ {t} : content'[u] = content[u]
      BY <2>0, <3>1
    <3>. QED
      BY <3>1, <3>2, <3>3, RegistryFrame DEF Serving
  <2>4. ASSUME NEW t \in Threads, FindPipeline(t) PROVE RegistryInv'
    <3>1. /\ pc[t] = "registry" /\ lock = NoOne
          /\ UNCHANGED <<built, registry, content, request>>
          /\ content[t] \in Contents /\ request[t] \in Requests
      BY <2>0, <2>4 DEF FindPipeline, Reading, Working
    <3>2. \A u \in Threads : pc[u] # "build"
      BY <2>0, <3>1 DEF RegistryInv, Locked
    <3>3. OnePipelinePerConfiguration' /\ Fitted'
      BY <3>1 DEF RegistryInv, OnePipelinePerConfiguration, Fitted
    <3>4. CASE Registered(t) = {}
      <4>1. lock' = t /\ pc' = [pc EXCEPT ![t] = "build"] /\ UNCHANGED pipeline
        BY <2>4, <3>4 DEF FindPipeline, Go
      <4>2. pc'[t] = "build" /\ \A u \in Threads \ {t} : pc'[u] = pc[u]
        BY <2>0, <4>1
      <4>3. Registered(t)' = {}
        BY <3>1, <3>4 DEF Registered, Wanted
      <4>4. Locked'
        BY <3>2, <4>1, <4>2, <4>3 DEF Locked
      <4>5. ServesRegistered'
        BY <3>1, <4>1, <4>2 DEF RegistryInv, ServesRegistered, Serving
      <4>. QED
        BY <3>3, <4>4, <4>5 DEF RegistryInv
    <3>5. CASE Registered(t) # {}
      <4>. DEFINE found == CHOOSE p \in Registered(t) : TRUE
      <4>1. found \in Registered(t)
        BY <3>5
      <4>2. pipeline' = [pipeline EXCEPT ![t] = found] /\ lock' = NoOne
            /\ pc' = [pc EXCEPT ![t] = "query"]
        BY <2>4, <3>1, <3>5 DEF FindPipeline, Go
      <4>. HIDE DEF found
      <4>3. /\ pc'[t] = "query" /\ pipeline'[t] = found
            /\ \A u \in Threads \ {t} : pc'[u] = pc[u] /\ pipeline'[u] = pipeline[u]
        BY <2>0, <4>2
      <4>4. found \in registry /\ Key(built[found]) = Key(Wanted(t))
        BY <4>1 DEF Registered
      <4>5. built[found] \in ConfigType
        BY <2>0, <4>4
      <4>6. Wanted(t) \in ConfigType
        BY <3>1, WantedType DEF Wanted
      <4>7. built[found] = Wanted(t)
        BY <4>4, <4>5, <4>6, KeyInjective
      <4>8. Locked'
        BY <2>0, <3>2, <4>2, <4>3 DEF Locked
      <4>9. ServesRegistered'
        BY <3>1, <4>3, <4>4, <4>7 DEF RegistryInv, ServesRegistered, Wanted
      <4>. QED
        BY <3>3, <4>8, <4>9 DEF RegistryInv
    <3>. QED
      BY <3>4, <3>5
  <2>5. ASSUME NEW t \in Threads, BuildPipeline(t) PROVE RegistryInv'
    <3>. DEFINE new == Len(built) + 1
    <3>1. /\ pc[t] = "build" /\ lock' = NoOne
          /\ UNCHANGED <<content, request>>
          /\ content[t] \in Contents /\ request[t] \in Requests
          /\ built' = Append(built, Wanted(t))
          /\ pipeline' = [pipeline EXCEPT ![t] = new]
      BY <2>0, <2>5 DEF BuildPipeline, Reading, Working
    <3>2. Wanted(t) \in ConfigType
      BY <3>1, WantedType DEF Wanted
    <3>3. /\ \A p \in registry : built'[p] = built[p]
          /\ built'[new] = Wanted(t) /\ new \notin registry
      BY <2>0, <3>1, <3>2
    <3>4. lock = t /\ Registered(t) = {}
      BY <3>1 DEF RegistryInv, Locked
    <3>5. \A u \in Threads \ {t} : pc[u] # "build" /\ pipeline'[u] = pipeline[u]
      BY <2>0, <3>1, <3>4 DEF RegistryInv, Locked
    <3>a. ASSUME NEW u \in Threads \ {t}, pc[u] \in Serving, registry \subseteq registry'
          PROVE  /\ pipeline'[u] \in registry'
                 /\ built'[pipeline'[u]] = Effective(content'[u], request'[u])
      <4>1. pipeline[u] \in registry /\ built[pipeline[u]] = Effective(content[u], request[u])
        BY <3>a DEF RegistryInv, ServesRegistered
      <4>2. pipeline'[u] = pipeline[u] /\ content'[u] = content[u] /\ request'[u] = request[u]
        BY <3>1, <3>5
      <4>. QED
        BY <3>3, <3>a, <4>1, <4>2
    <3>. HIDE DEF new
    <3>6. CASE NeedsTraining(Wanted(t))
      <4>1. registry' = registry /\ pc' = [pc EXCEPT ![t] = "idle"]
        BY <2>5, <3>6 DEF BuildPipeline, RegistryAfter, Answer
      <4>2. pc'[t] = "idle" /\ \A u \in Threads \ {t} : pc'[u] = pc[u]
        BY <2>0, <4>1
      <4>3. Locked'
        BY <2>0, <3>1, <3>5, <4>2 DEF Locked
      <4>4. OnePipelinePerConfiguration' /\ Fitted'
        BY <3>3, <4>1 DEF RegistryInv, OnePipelinePerConfiguration, Fitted
      <4>5. ServesRegistered'
        <5>1. \A u \in Threads : pc'[u] \in Serving => u \in Threads \ {t} /\ pc[u] \in Serving
          BY <4>2 DEF Serving
        <5>. QED
          BY <3>a, <4>1, <5>1 DEF ServesRegistered
      <4>. QED
        BY <4>3, <4>4, <4>5 DEF RegistryInv
    <3>7. CASE ~NeedsTraining(Wanted(t))
      <4>1. registry' = registry \cup {new} /\ pc' = [pc EXCEPT ![t] = "query"]
        BY <2>5, <3>7 DEF BuildPipeline, RegistryAfter, Go, new
      <4>2. pc'[t] = "query" /\ pipeline'[t] = new /\ \A u \in Threads \ {t} : pc'[u] = pc[u]
        BY <2>0, <3>1, <4>1
      <4>3. Locked'
        BY <2>0, <3>1, <3>5, <4>2 DEF Locked
      <4>4. \A p \in registry : built[p] # Wanted(t)
        BY <3>4 DEF Registered
      <4>5. OnePipelinePerConfiguration'
        BY <3>3, <4>1, <4>4 DEF RegistryInv, OnePipelinePerConfiguration
      <4>6. Fitted'
        BY <3>3, <3>7, <4>1 DEF RegistryInv, Fitted
      <4>7. ServesRegistered'
        <5>1. pipeline'[t] \in registry' /\ built'[pipeline'[t]] = Effective(content'[t], request'[t])
          <6>1. pipeline'[t] = new /\ new \in registry'
            BY <4>1, <4>2
          <6>2. built'[new] = Effective(content[t], request[t])
            BY <3>3 DEF Wanted
          <6>3. content' = content /\ request' = request
            BY <3>1
          <6>. QED
            BY <6>1, <6>2, <6>3
        <5>2. \A u \in Threads \ {t} : pc'[u] \in Serving => pc[u] \in Serving
          BY <4>2
        <5>3. registry \subseteq registry'
          BY <4>1
        <5>. QED
          BY <3>a, <5>1, <5>2, <5>3 DEF ServesRegistered
      <4>. QED
        BY <4>3, <4>5, <4>6, <4>7 DEF RegistryInv
    <3>. QED
      BY <3>6, <3>7
  <2>6. ASSUME NEW t \in Threads, FailToBuild(t) PROVE RegistryInv'
    <3>1. /\ pc[t] = "build" /\ lock' = NoOne
          /\ pc' = [pc EXCEPT ![t] = "idle"]
          /\ UNCHANGED <<built, registry, content, request, pipeline>>
      BY <2>6 DEF FailToBuild, Answer
    <3>2. pc'[t] = "idle" /\ \A u \in Threads \ {t} : pc'[u] = pc[u] /\ pc[u] # "build"
      BY <2>0, <3>1 DEF RegistryInv, Locked
    <3>3. Locked'
      BY <2>0, <3>1, <3>2 DEF Locked
    <3>. QED
      BY <3>1, <3>2, <3>3
         DEF RegistryInv, OnePipelinePerConfiguration, Fitted, ServesRegistered, Serving
  <2>7. ASSUME NEW t \in Threads, BuildQuery(t) \/ Run(t) \/ FailToRun(t) \/ StoreTrace(t)
        PROVE  RegistryInv'
    <3>1. /\ pc[t] \in Serving
          /\ \/ pc' = [pc EXCEPT ![t] = "idle"]
             \/ pc' = [pc EXCEPT ![t] = "run"]
             \/ pc' = [pc EXCEPT ![t] = "store"]
          /\ UNCHANGED <<built, registry, lock, content, request, pipeline>>
      BY <2>7 DEF BuildQuery, Run, FailToRun, StoreTrace, Answer, Go, server, Serving
    <3>2. pc'[t] # "build" /\ \A u \in Threads \ {t} : pc'[u] = pc[u]
      BY <2>0, <3>1
    <3>. QED
      BY <3>1, <3>2, RegistryFrame DEF Serving
  <2>8. CASE EditConfig \/ UNCHANGED vars
    <3>1. UNCHANGED <<built, registry, lock, pc, content, request, pipeline>>
      BY <2>8 DEF EditConfig, vars, server, locals
    <3>. QED
      BY <3>1 DEF RegistryInv, Locked, Registered, Wanted, OnePipelinePerConfiguration, Fitted,
                  ServesRegistered
  <2>9. CASE Restart
    <3>1. /\ lock' = NoOne /\ registry' = {}
          /\ \A t \in Threads : pc'[t] = "idle"
      BY <2>9 DEF Restart
    <3>. QED
      BY <2>0, <3>1 DEF RegistryInv, Locked, OnePipelinePerConfiguration, Fitted,
                        ServesRegistered, Serving
  <2>. QED
    BY <2>1, <2>2, <2>3, <2>4, <2>5, <2>6, <2>7, <2>8, <2>9 DEF Next, Step
<1>. QED
  BY <1>1, <1>2, TypeCorrect, PTL DEF Spec

\* However many threads ask for a configuration at once, one pipeline is built for it.
THEOREM SharedPipeline == Spec => []OnePipelinePerConfiguration
<1>. QED
  BY RegistryInvariant, PTL DEF RegistryInv

\* No thread runs the pipeline of another request, or of the file before an edit.
THEOREM RunsItsOwnConfiguration == Spec => []RunsWhatWasAsked
<1>1. RegistryInv => RunsWhatWasAsked
  BY DEF RegistryInv, ServesRegistered, RunsWhatWasAsked, Serving
<1>. QED
  BY <1>1, RegistryInvariant, PTL

\* A pipeline with unfitted components answers no query.
THEOREM OnlyFittedServe == Spec => []UnfittedNeverServed
<1>1. RegistryInv => UnfittedNeverServed
  BY DEF RegistryInv, ServesRegistered, Fitted, UnfittedNeverServed, Serving
<1>. QED
  BY <1>1, RegistryInvariant, PTL

-----------------------------------------------------------------------------
(* The trace store. *)

\* The store holds the last traces of this process, as many as fit, in the order stored.
LastTraces ==
    /\ Len(traces) = IF stored - lost <= TraceLimit THEN stored - lost ELSE TraceLimit
    /\ \A i \in 1 .. Len(traces) : traces[i] = stored - Len(traces) + i

\* A thread that serves a request returns no trace id yet, and one that found a trace gone
\* asked for an old one.
Viewed ==
    \A t \in Threads :
        /\ pc[t] # "idle" => trace[t] = 0
        /\ status[t] = 404 /\ trace[t] # 0 =>
              trace[t] <= lost \/ trace[t] + TraceLimit <= stored

LEMMA TraceInvariant == Spec => [](LastTraces /\ Viewed)
<1>. USE LimitAssumption DEF LimitAssumption
<1>1. Init => LastTraces /\ Viewed
  BY DEF Init, LastTraces, Viewed
<1>2. TypeOK /\ LastTraces /\ Viewed /\ [Next]_vars => LastTraces' /\ Viewed'
  <2>. SUFFICES ASSUME TypeOK, LastTraces, Viewed, [Next]_vars
                PROVE  LastTraces' /\ Viewed'
    OBVIOUS
  <2>0. /\ pc \in [Threads -> {"idle", "config", "registry", "build", "query", "run", "store"}]
        /\ status \in [Threads -> {0, 200, 400, 404, 500, 503}]
        /\ trace \in [Threads -> 0 .. stored]
        /\ stored \in Nat /\ lost \in 0 .. stored
        /\ traces \in Seq(1 .. stored)
    BY DEF TypeOK
  <2>1. ASSUME UNCHANGED <<traces, stored, lost>> PROVE LastTraces'
    BY <2>1 DEF LastTraces
  \* Steps of a thread that serves a request, other than the last one.
  <2>2. ASSUME NEW t \in Threads, UNCHANGED <<traces, stored, lost>>,
               trace'[t] = 0, \A u \in Threads \ {t} : /\ pc'[u] = pc[u]
                                                      /\ status'[u] = status[u]
                                                      /\ trace'[u] = trace[u]
        PROVE  LastTraces' /\ Viewed'
    <3>1. \A u \in Threads : /\ pc'[u] # "idle" => trace'[u] = 0
                             /\ status'[u] = 404 /\ trace'[u] # 0 =>
                                   trace'[u] <= lost' \/ trace'[u] + TraceLimit <= stored'
      BY <2>2 DEF Viewed
    <3>. QED
      BY <2>1, <2>2, <3>1 DEF Viewed
  <2>3. ASSUME NEW t \in Threads, Post(t) PROVE LastTraces' /\ Viewed'
    BY <2>0, <2>2, <2>3 DEF Post, server
  <2>4. ASSUME NEW t \in Threads,
               \/ ReadConfig(t) \/ FindPipeline(t) \/ BuildPipeline(t) \/ FailToBuild(t)
               \/ BuildQuery(t) \/ Run(t) \/ FailToRun(t)
        PROVE  LastTraces' /\ Viewed'
    <3>1. pc[t] # "idle" /\ UNCHANGED <<traces, stored, lost, trace>>
      BY <2>4 DEF ReadConfig, FindPipeline, BuildPipeline, FailToBuild, BuildQuery, Run,
                  FailToRun, server
    <3>2. \/ \E code \in {400, 404, 500, 503} : Answer(t, code)
          \/ \E label \in {"registry", "build", "query", "run", "store"} : Go(t, label)
      BY <2>4 DEF ReadConfig, FindPipeline, BuildPipeline, FailToBuild, BuildQuery, Run, FailToRun
    <3>3. \A u \in Threads \ {t} : pc'[u] = pc[u] /\ status'[u] = status[u]
      BY <2>0, <3>2 DEF Answer, Go
    <3>4. trace'[t] = 0
      BY <3>1 DEF Viewed
    <3>. QED
      BY <2>2, <3>1, <3>3, <3>4
  <2>5. ASSUME NEW t \in Threads, StoreTrace(t) PROVE LastTraces' /\ Viewed'
    <3>1. /\ stored' = stored + 1 /\ lost' = lost
          /\ traces' = Kept(Append(traces, stored'))
      BY <2>5 DEF StoreTrace
    <3>2. /\ Append(traces, stored') \in Seq(Nat)
          /\ Len(Append(traces, stored')) = Len(traces) + 1 /\ Len(traces) \in Nat
          /\ \A i \in 1 .. Len(traces) + 1 :
                Append(traces, stored')[i] = IF i <= Len(traces) THEN traces[i] ELSE stored'
      <4>1. traces \in Seq(Nat)
        BY <2>0, SeqMonotonic
      <4>. QED
        BY <2>0, <3>1, <4>1
    <3>. DEFINE longer == Append(traces, stored')
    <3>3. /\ Len(traces') = IF Len(longer) <= TraceLimit THEN Len(longer) ELSE TraceLimit
          /\ \A i \in 1 .. Len(traces') :
                traces'[i] = longer[Len(longer) - Len(traces') + i]
      BY <3>1, <3>2, KeptProperties
    <3>. HIDE DEF longer
    <3>4. /\ Len(longer) = Len(traces) + 1 /\ Len(traces) \in Nat
          /\ \A i \in 1 .. Len(longer) : longer[i] = stored' - Len(longer) + i
      <4>1. \A i \in 1 .. Len(traces) : longer[i] = stored - Len(traces) + i
        BY <3>2 DEF LastTraces, longer
      <4>2. longer[Len(traces) + 1] = stored'
        BY <3>2 DEF longer
      <4>. QED
        BY <2>0, <3>1, <3>2, <4>1, <4>2 DEF longer
    <3>5. Len(traces') = IF stored' - lost' <= TraceLimit THEN stored' - lost' ELSE TraceLimit
      BY <2>0, <3>1, <3>3, <3>4 DEF LastTraces
    <3>6. \A i \in 1 .. Len(traces') : traces'[i] = stored' - Len(traces') + i
      <4>1. Len(traces') \in 0 .. Len(longer) /\ stored' \in Nat
        BY <2>0, <3>1, <3>3, <3>4
      <4>. SUFFICES ASSUME NEW i \in 1 .. Len(traces')
                    PROVE  traces'[i] = stored' - Len(traces') + i
        OBVIOUS
      <4>2. Len(longer) \in Nat /\ Len(traces') \in Nat /\ Len(traces') <= Len(longer)
        BY <3>4, <4>1
      <4>3. Len(longer) - Len(traces') + i \in 1 .. Len(longer)
        BY <4>2
      <4>4. traces'[i] = longer[Len(longer) - Len(traces') + i]
        BY <3>3
      <4>5. longer[Len(longer) - Len(traces') + i]
               = stored' - Len(longer) + (Len(longer) - Len(traces') + i)
        BY <3>4, <4>3
      <4>. QED
        BY <4>1, <4>2, <4>4, <4>5
    <3>7. Viewed'
      <4>1. /\ pc' = [pc EXCEPT ![t] = "idle"] /\ status' = [status EXCEPT ![t] = 200]
            /\ trace' = [trace EXCEPT ![t] = stored']
        BY <2>5 DEF StoreTrace, Answer
      <4>2. /\ pc'[t] = "idle" /\ status'[t] = 200
            /\ \A u \in Threads \ {t} : /\ pc'[u] = pc[u] /\ status'[u] = status[u]
                                         /\ trace'[u] = trace[u] /\ trace[u] \in Nat
        BY <2>0, <4>1
      <4>3. ASSUME NEW u \in Threads \ {t}, status[u] = 404, trace[u] # 0
            PROVE  trace[u] <= lost' \/ trace[u] + TraceLimit <= stored'
        <5>1. trace[u] <= lost \/ trace[u] + TraceLimit <= stored
          BY <4>3 DEF Viewed
        <5>. QED
          BY <2>0, <3>1, <4>2, <5>1
      <4>. QED
        BY <4>2, <4>3 DEF Viewed
    <3>. QED
      BY <3>5, <3>6, <3>7 DEF LastTraces
  <2>6. ASSUME NEW t \in Threads, ViewTrace(t) PROVE LastTraces' /\ Viewed'
    <3>1. UNCHANGED <<traces, stored, lost, pc>> /\ pc[t] = "idle"
      BY <2>6 DEF ViewTrace, server
    <3>2. PICK id \in 1 .. stored :
             /\ trace' = [trace EXCEPT ![t] = id]
             /\ status' = [status EXCEPT ![t] =
                              IF \E n \in 1 .. Len(traces) : traces[n] = id THEN 200 ELSE 404]
      BY <2>6 DEF ViewTrace
    <3>3. CASE \E n \in 1 .. Len(traces) : traces[n] = id
      <4>1. /\ status'[t] = 200
            /\ \A u \in Threads \ {t} : status'[u] = status[u] /\ trace'[u] = trace[u]
        BY <2>0, <3>2, <3>3
      <4>. QED
        BY <2>1, <3>1, <4>1 DEF Viewed
    <3>4. CASE ~\E n \in 1 .. Len(traces) : traces[n] = id
      <4>1. id <= lost \/ id + TraceLimit <= stored
        <5>1. SUFFICES ASSUME id > lost, id + TraceLimit > stored PROVE FALSE
          BY <2>0
        <5>2. Len(traces) \in Nat /\ id - (stored - Len(traces)) \in 1 .. Len(traces)
          BY <2>0, <5>1 DEF LastTraces
        <5>3. PICK n \in 1 .. Len(traces) : n = id - (stored - Len(traces))
          BY <5>2
        <5>4. traces[n] = stored - Len(traces) + n
          BY DEF LastTraces
        <5>5. stored - Len(traces) + n = id
          BY <2>0, <5>2, <5>3
        <5>. QED
          BY <3>4, <5>4, <5>5
      <4>2. /\ trace'[t] = id
            /\ \A u \in Threads \ {t} : status'[u] = status[u] /\ trace'[u] = trace[u]
        BY <2>0, <3>2
      <4>. QED
        BY <2>1, <3>1, <4>1, <4>2 DEF Viewed
    <3>. QED
      BY <3>3, <3>4
  <2>7. CASE EditConfig \/ UNCHANGED vars
    BY <2>1, <2>7 DEF EditConfig, vars, server, locals, Viewed
  <2>8. CASE Restart
    <3>1. /\ traces' = << >> /\ stored' = stored /\ lost' = stored
          /\ \A t \in Threads : pc'[t] = "idle" /\ status'[t] = 0
      BY <2>8 DEF Restart
    <3>. QED
      BY <2>0, <3>1 DEF LastTraces, Viewed
  <2>. QED
    BY <2>3, <2>4, <2>5, <2>6, <2>7, <2>8 DEF Next, Step
<1>. QED
  BY <1>1, <1>2, TypeCorrect, PTL DEF Spec

\* The store is bounded, and a trace is only gone with its process or after trace_limit others.
THEOREM TracesServed == Spec => []LatestTracesServed
<1>1. TypeOK /\ LastTraces /\ Viewed => LatestTracesServed
  <2>. SUFFICES ASSUME TypeOK, LastTraces, Viewed PROVE LatestTracesServed
    OBVIOUS
  <2>1. Len(traces) <= TraceLimit
    BY LimitAssumption DEF LimitAssumption, TypeOK, LastTraces
  <2>. QED
    BY <2>1 DEF Viewed, LatestTracesServed
<1>. QED
  BY <1>1, TypeCorrect, TraceInvariant, PTL
-----------------------------------------------------------------------------
(* Refusals. *)

\* The request and the file a thread refused with 400 do not make a ready configuration.
RefusedUnready(t) ==
    (/\ status[t] = 400
     /\ request[t].manual => request[t].model \in content[t].models)
        => ~Ready(content[t])

\* A thread that serves a request has not answered it yet.
Unanswered == \A t \in Threads : pc[t] # "idle" => status[t] = 0

\* A configuration the service lists as ready is not refused as unfitted, whoever else asks
\* for it, edits it or restarts the server meanwhile.
THEOREM ReadyAccepted == Spec => []ReadyIsServed
<1>. DEFINE Inv == Unanswered /\ ReadyIsServed
<1>1. Init => Inv
  BY DEF Init, Unanswered, ReadyIsServed
<1>2. TypeOK /\ Reading /\ Inv /\ [Next]_vars => Inv'
  <2>. SUFFICES ASSUME TypeOK, Reading, Inv, [Next]_vars
                PROVE  Inv'
    OBVIOUS
  <2>0. /\ pc \in [Threads -> {"idle", "config", "registry", "build", "query", "run", "store"}]
        /\ status \in [Threads -> {0, 200, 400, 404, 500, 503}]
        /\ content \in [Threads -> Contents \cup {NoFile}]
        /\ request \in [Threads -> Requests]
    BY DEF TypeOK
  <2>1. ASSUME NEW t \in Threads,
               \A u \in Threads \ {t} : /\ pc'[u] = pc[u] /\ status'[u] = status[u]
                                        /\ content'[u] = content[u]
                                        /\ request'[u] = request[u],
               pc'[t] # "idle" => status'[t] = 0,
               RefusedUnready(t)'
        PROVE  Inv'
    BY <2>1 DEF Unanswered, ReadyIsServed, RefusedUnready, Ready
  <2>2. ASSUME NEW t \in Threads, Post(t) PROVE Inv'
    <3>1. /\ status'[t] = 0
          /\ \A u \in Threads \ {t} : /\ pc'[u] = pc[u] /\ status'[u] = status[u]
                                      /\ content'[u] = content[u] /\ request'[u] = request[u]
      BY <2>0, <2>2 DEF Post
    <3>. QED
      BY <2>1, <3>1 DEF RefusedUnready
  <2>3. ASSUME NEW t \in Threads, ReadConfig(t) PROVE Inv'
    <3>1. /\ pc[t] = "config" /\ UNCHANGED request
          /\ content' = [content EXCEPT ![t] = files[request[t].config]]
      BY <2>3 DEF ReadConfig
    <3>2. \/ Answer(t, 404) \/ Answer(t, 500) \/ Go(t, "registry")
          \/ /\ Answer(t, 400)
             /\ request[t].manual
             /\ request[t].model \notin files[request[t].config].models
      BY <2>3 DEF ReadConfig
    <3>3. status[t] = 0
      BY <3>1 DEF Unanswered
    <3>4. \A u \in Threads \ {t} : /\ pc'[u] = pc[u] /\ status'[u] = status[u]
                                   /\ content'[u] = content[u] /\ request'[u] = request[u]
      BY <2>0, <3>1, <3>2 DEF Answer, Go
    <3>5. pc'[t] # "idle" => status'[t] = 0
      BY <2>0, <3>2, <3>3 DEF Answer, Go
    <3>6. RefusedUnready(t)'
      <4>1. CASE Answer(t, 404) \/ Answer(t, 500) \/ Go(t, "registry")
        BY <2>0, <3>3, <4>1 DEF Answer, Go, RefusedUnready
      <4>2. CASE /\ request[t].manual
                 /\ request[t].model \notin files[request[t].config].models
        BY <2>0, <3>1, <4>2 DEF RefusedUnready
      <4>. QED
        BY <3>2, <4>1, <4>2
    <3>. QED
      BY <2>1, <3>4, <3>5, <3>6
  <2>4. ASSUME NEW t \in Threads, BuildPipeline(t) PROVE Inv'
    <3>1. /\ pc[t] = "build" /\ UNCHANGED <<content, request>>
          /\ \/ NeedsTraining(Wanted(t)) /\ Answer(t, 400)
             \/ Go(t, "query")
      BY <2>4 DEF BuildPipeline
    <3>2. status[t] = 0
      BY <3>1 DEF Unanswered
    <3>3. \A u \in Threads \ {t} : /\ pc'[u] = pc[u] /\ status'[u] = status[u]
                                   /\ content'[u] = content[u] /\ request'[u] = request[u]
      BY <2>0, <3>1 DEF Answer, Go
    <3>4. pc'[t] # "idle" => status'[t] = 0
      BY <2>0, <3>1, <3>2 DEF Answer, Go
    <3>5. RefusedUnready(t)'
      <4>1. CASE NeedsTraining(Wanted(t))
        <5>1. content[t].parts \/ content[t].router = "learned"
          BY <4>1 DEF NeedsTraining, Wanted, Effective
        <5>2. content'[t] = content[t]
          BY <3>1
        <5>. QED
          BY <5>1, <5>2 DEF RefusedUnready, Ready
      <4>2. CASE Go(t, "query")
        BY <2>0, <3>2, <4>2 DEF Go, RefusedUnready
      <4>. QED
        BY <3>1, <4>1, <4>2
    <3>. QED
      BY <2>1, <3>3, <3>4, <3>5
  <2>5. ASSUME NEW t \in Threads, UNCHANGED <<content, request>>,
               \/ \E code \in {0, 200, 404, 500, 503} : Answer(t, code)
               \/ \E label \in {"build", "query", "run", "store"} :
                     pc[t] # "idle" /\ Go(t, label)
        PROVE  Inv'
    <3>1. /\ status'[t] # 400
          /\ pc'[t] # "idle" => status'[t] = 0
          /\ \A u \in Threads \ {t} : pc'[u] = pc[u] /\ status'[u] = status[u]
      BY <2>0, <2>5 DEF Answer, Go, Unanswered
    <3>. QED
      BY <2>1, <2>5, <3>1 DEF RefusedUnready
  <2>6. ASSUME NEW t \in Threads,
               \/ FindPipeline(t) \/ FailToBuild(t) \/ BuildQuery(t) \/ Run(t)
               \/ FailToRun(t) \/ StoreTrace(t)
        PROVE  Inv'
    BY <2>5, <2>6 DEF FindPipeline, FailToBuild, BuildQuery, Run, FailToRun, StoreTrace
  <2>7. ASSUME NEW t \in Threads, ViewTrace(t) PROVE Inv'
    <3>1. pc[t] = "idle" /\ UNCHANGED <<pc, content, request>>
      BY <2>7 DEF ViewTrace
    <3>2. \/ status' = [status EXCEPT ![t] = 200]
          \/ status' = [status EXCEPT ![t] = 404]
      BY <2>7 DEF ViewTrace
    <3>3. /\ status'[t] # 400 /\ pc'[t] = "idle"
          /\ \A u \in Threads \ {t} : status'[u] = status[u]
      BY <2>0, <3>1, <3>2
    <3>. QED
      BY <2>1, <3>1, <3>3 DEF RefusedUnready
  <2>8. CASE EditConfig \/ UNCHANGED vars
    BY <2>8 DEF EditConfig, vars, locals, Unanswered, ReadyIsServed, Ready
  <2>9. CASE Restart
    BY <2>9 DEF Restart, Unanswered, ReadyIsServed
  <2>. QED
    BY <2>2, <2>3, <2>4, <2>6, <2>7, <2>8, <2>9 DEF Next, Step
<1>. QED
  BY <1>1, <1>2, TypeCorrect, PTL DEF Spec
=============================================================================
