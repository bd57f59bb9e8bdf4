--------------------------- MODULE EvaluationProofs ---------------------------
(***************************************************************************)
(* What Evaluation claims of records and reports, for every pool, every    *)
(* test split and every experiment; then what MixtureFrontier claims of    *)
(* its two curves, for any systems: the hull loop builds an upper hull,    *)
(* the frontier is the hull up to its highest point, and no mixture is     *)
(* above it.                                                               *)
(***************************************************************************)
EXTENDS Evaluation, FiniteSetTheorems, TLAPS

\* A set of naturals has a least element: of the initial segments that end in it, one
\* is the smallest.
LEMMA Least ==
    ASSUME NEW S \in SUBSET Nat, S # {}
    PROVE  \E x \in S : \A y \in S : x <= y
<1>. DEFINE Segments == {0 .. x : x \in S}
<1>1. Segments \subseteq FiniteSubsetsOf(Nat) /\ Segments # {}
  <2>1. ASSUME NEW x \in S
        PROVE  0 .. x \in FiniteSubsetsOf(Nat)
    <3>1. IsFiniteSet(0 .. x)
      BY FS_Interval
    <3>. QED
      BY <3>1 DEF FiniteSubsetsOf
  <2>. QED
    BY <2>1
<1>2. IsWellFoundedOn(StrictSubsetOrdering(Nat), FiniteSubsetsOf(Nat))
  BY FS_StrictSubsetOrderingWellFounded
<1>. HIDE DEF Segments
<1>3. PICK U \in Segments : \A V \in Segments : ~(<<V, U>> \in StrictSubsetOrdering(Nat))
  BY <1>1, <1>2, WFMin, Zenon
<1>. USE DEF Segments
<1>4. PICK x \in S : U = 0 .. x
  BY <1>3
<1>5. ASSUME NEW y \in S, y < x
      PROVE  FALSE
  <2>1. 0 .. y \subseteq 0 .. x /\ 0 .. y # 0 .. x
    <3>1. x \in 0 .. x /\ x \notin 0 .. y
      BY <1>5
    <3>. QED
      BY <1>5, <3>1
  <2>2. <<0 .. y, 0 .. x>> \in StrictSubsetOrdering(Nat)
    BY <2>1 DEF StrictSubsetOrdering
  <2>. QED
    BY <1>3, <1>4, <2>2
<1>. QED
  BY <1>5

-----------------------------------------------------------------------------
(* The oracle and the attempts of a run. *)

\* The oracle's model is right whenever one is, and then no cheaper one is.
LEMMA OracleIsCheapest ==
    ASSUME NEW right \in [Models -> BOOLEAN]
    PROVE  /\ OracleTier(right) \in Models
           /\ \A m \in Models : right[m] => right[OracleTier(right)] /\ OracleTier(right) <= m
           /\ \A m \in Models : m < OracleTier(right) => ~right[m]
           /\ OracleTier(right) > 1 => right[OracleTier(right)]
<1>0. NModels \in Nat \ {0}
  BY PoolAssumption DEF PoolAssumption
<1>1. CASE \E m \in Models : right[m]
  <2>. DEFINE S == {m \in Models : right[m]}
  <2>1. S \in SUBSET Nat /\ S # {}
    BY <1>0, <1>1 DEF Models
  <2>2. PICK x \in S : \A y \in S : x <= y
    BY <2>1, Least
  <2>3. x \in Models /\ right[x] /\ \A n \in 1 .. x - 1 : ~right[n]
    BY <1>0, <2>2 DEF Models
  <2>4. /\ CheapestCorrect(right) \in Models
        /\ right[CheapestCorrect(right)]
        /\ \A n \in 1 .. CheapestCorrect(right) - 1 : ~right[n]
    BY <1>1, <2>3 DEF CheapestCorrect
  <2>5. OracleTier(right) = CheapestCorrect(right)
    BY <1>0, <2>4 DEF OracleTier, Models
  <2>. QED
    BY <1>0, <2>4, <2>5 DEF Models
<1>2. CASE ~\E m \in Models : right[m]
  <2>1. OracleTier(right) = 1
    BY <1>2 DEF OracleTier, CheapestCorrect
  <2>. QED
    BY <1>0, <1>2, <2>1 DEF Models
<1>. QED
  BY <1>1, <1>2

\* Of one attempt, that one is returned.
LEMMA OneIsFinal ==
    ASSUME NEW a, NEW final \in Finals(<<a>>)
    PROVE  final = 1
<1>1. ASSUME NEW S \in SUBSET {1}, S # {}
      PROVE  Max(S) = 1
  <2>1. S = {1}
    BY <1>1
  <2>2. Max({1}) \in {1}
    <3>1. \E x \in {1} : \A y \in {1} : x >= y
      OBVIOUS
    <3>. QED
      BY <3>1 DEF Max
  <2>. QED
    BY <2>1, <2>2
<1>2. DOMAIN <<a>> = {1} /\ Len(<<a>>) = 1
  OBVIOUS
<1>. DEFINE attempts == <<a>>
            reliable == {j \in DOMAIN attempts : ~Unreliable(attempts[j])}
            answered == {j \in DOMAIN attempts : attempts[j].answer # None}
<1>3. reliable \subseteq {1} /\ answered \subseteq {1}
  BY <1>2
<1>4. Finals(attempts) =
        IF reliable # {} THEN {Max(reliable)}
        ELSE IF answered = {} THEN {Len(attempts)}
        ELSE {Max(answered)} \cup {j \in answered : attempts[j].confidence # "none"}
  BY DEF Finals
<1>5. final \in Finals(attempts) /\ Len(attempts) = 1
  OBVIOUS
<1>. HIDE DEF attempts, reliable, answered
<1>6. /\ reliable # {} => Max(reliable) = 1
      /\ answered # {} => Max(answered) = 1
  BY <1>1, <1>3
<1>. QED
  BY <1>3, <1>4, <1>5, <1>6

-----------------------------------------------------------------------------
(* What the benchmark keeps true. *)

\* The outcomes of all models on an item, as verdicts sc have it of what they said.
Profile(sc, sd, i) == [m \in Models |-> Right(sc, i, sd[i][m])]

AllScored(sc, sd) ==
    \A i \in Range(Items) : \A m \in Models : sd[i][m] # None => sc[<<i, sd[i][m]>>] # "new"

TypeInv ==
    /\ said \in [Range(Prompting) -> [Range(Items) -> [Models -> Replies]]]
    /\ scores \in [Range(Items) \X Answers -> {"new", "right", "wrong"}]
    /\ records \in Seq(Range(records))
    /\ selected \in Seq(Range(Systems)) /\ selected # << >>

\* While a system runs, every answer it was profiled with has its verdict, and the outcomes are
\* theirs.
Profiled ==
    item > 0 =>
        /\ AllScored(scores, Said(selected[system]))
        /\ outcomes = [i \in Range(Items) |-> Profile(scores, Said(selected[system]), i)]

\* A record has the outcomes of its item, as its system was profiled, and the model it was
\* routed to; a query that was not escalated has its first answer; the oracle's queries went to
\* the oracle's model.
Faithful(r, sc, sd) ==
    /\ r.system \in Range(Systems) /\ r.item \in Range(Items) /\ r.routed \in Models
    /\ AllScored(sc, sd[Prompting[r.system]])
    /\ r.outcomes = Profile(sc, sd[Prompting[r.system]], r.item)
    /\ r.oracle = OracleTier(r.outcomes)
    /\ r.initial_correct = r.outcomes[r.routed]
    /\ ~r.escalated => r.correct = r.initial_correct
    /\ r.system \in Oracles => r.routed = r.oracle /\ ~r.escalated

RecordsFaithful == \A r \in Range(records) : Faithful(r, scores, said)

\* The systems run so far have a record of every item, the one at hand of those before its next.
HasRecord(rs, s, i) == \E r \in rs : r.system = s /\ r.item = i
Progress ==
    /\ system \in 1 .. Len(selected) + 2 /\ item \in Nat
    /\ item > 0 => system <= Len(selected)
    /\ system > 1 => Items # << >>
    /\ \A k \in DOMAIN selected : k < system =>
          \A j \in DOMAIN Items : HasRecord(Range(records), selected[k], Items[j])
    /\ \A j \in DOMAIN Items : j < item =>
          HasRecord(Range(records), selected[system], Items[j])

EvaluationInv == TypeInv /\ Profiled /\ RecordsFaithful /\ Progress

LEMMA SaidType ==
    ASSUME TypeInv, NEW s \in Range(Systems)
    PROVE  Said(s) \in [Range(Items) -> [Models -> Replies]]
<1>1. Prompting[s] \in Range(Prompting)
  BY SystemAssumption DEF SystemAssumption
<1>. QED
  BY <1>1 DEF TypeInv, Said

\* A verdict stays, and with it what was right.
LEMMA ProfileStays ==
    ASSUME NEW sc, NEW sd \in [Range(Items) -> [Models -> Replies]],
           AllScored(sc, sd), NEW v,
           \A i \in Range(Items), a \in Answers : sc[<<i, a>>] # "new" => v[<<i, a>>] = sc[<<i, a>>]
    PROVE  /\ AllScored(v, sd)
           /\ \A i \in Range(Items) : Profile(v, sd, i) = Profile(sc, sd, i)
           /\ \A i \in Range(Items), m \in Models :
                 Right(v, i, sd[i][m]) = Right(sc, i, sd[i][m])
<1>1. \A i \in Range(Items), m \in Models :
        sd[i][m] # None => sd[i][m] \in Answers /\ sc[<<i, sd[i][m]>>] # "new"
  BY DEF AllScored, Replies
<1>2. \A i \in Range(Items), m \in Models :
        sd[i][m] # None => v[<<i, sd[i][m]>>] = sc[<<i, sd[i][m]>>]
  BY <1>1
<1>3. \A i \in Range(Items), m \in Models : Right(v, i, sd[i][m]) = Right(sc, i, sd[i][m])
  BY <1>2 DEF Right
<1>. QED
  BY <1>1, <1>2, <1>3 DEF AllScored, Profile

\* A record stays faithful when more answers are scored.
LEMMA FaithfulStays ==
    ASSUME TypeInv, NEW r, Faithful(r, scores, said), NEW v,
           \A i \in Range(Items), a \in Answers :
               scores[<<i, a>>] # "new" => v[<<i, a>>] = scores[<<i, a>>]
    PROVE  Faithful(r, v, said)
<1>. DEFINE sd == Said(r.system)
<1>1. sd \in [Range(Items) -> [Models -> Replies]] /\ AllScored(scores, sd)
  BY SaidType DEF Faithful, Said
<1>. HIDE DEF sd
<1>2. AllScored(v, sd) /\ \A i \in Range(Items) : Profile(v, sd, i) = Profile(scores, sd, i)
  BY <1>1, ProfileStays
<1>. USE DEF sd
<1>. QED
  BY <1>2 DEF Faithful, Said

LEMMA ScoredStays ==
    ASSUME NEW asked, NEW v \in Scored(asked)
    PROVE  /\ v \in [Range(Items) \X Answers -> {"new", "right", "wrong"}]
           /\ \A k \in Range(Items) \X Answers :
                 /\ scores[k] # "new" => v[k] = scores[k]
                 /\ k \in asked => v[k] # "new"
BY DEF Scored

LEMMA ProfileType ==
    ASSUME NEW sc, NEW sd, NEW i
    PROVE  Profile(sc, sd, i) \in [Models -> BOOLEAN]
BY DEF Profile, Right

LEMMA AppendRange ==
    ASSUME NEW s, s \in Seq(Range(s)), NEW x
    PROVE  /\ Append(s, x) \in Seq(Range(Append(s, x)))
           /\ Range(Append(s, x)) = Range(s) \cup {x}
<1>1. /\ Len(s) \in Nat /\ DOMAIN s = 1 .. Len(s)
      /\ Append(s, x) \in Seq(Range(s) \cup {x})
      /\ DOMAIN Append(s, x) = 1 .. Len(s) + 1 /\ Append(s, x)[Len(s) + 1] = x
      /\ \A k \in 1 .. Len(s) : Append(s, x)[k] = s[k]
  OBVIOUS
<1>2. Range(Append(s, x)) = Range(s) \cup {x}
  <2>1. \A k \in 1 .. Len(s) + 1 : k \in 1 .. Len(s) \/ k = Len(s) + 1
    BY <1>1
  <2>2. 1 .. Len(s) \subseteq 1 .. Len(s) + 1 /\ Len(s) + 1 \in 1 .. Len(s) + 1
    BY <1>1
  <2>. QED
    BY <1>1, <2>1, <2>2 DEF Range
<1>. QED
  BY <1>1, <1>2

-----------------------------------------------------------------------------
(* Steps. *)

\* What a run can be: its first answer is the one its model was profiled with, an oracle's
\* model is the oracle's, and no oracle escalates.
LEMMA RunFacts ==
    ASSUME TypeInv, NEW s, NEW i \in Range(Items), outcomes[i] \in [Models -> BOOLEAN],
           NEW attempts \in Runs(s, i)
    PROVE  /\ attempts[1].model \in Models
           /\ attempts[1].answer = Said(s)[i][attempts[1].model]
           /\ s \in Oracles => attempts[1].model = OracleTier(outcomes[i])
           /\ \/ attempts = <<attempts[1]>> /\ Len(attempts) = 1
              \/ Len(attempts) = 2 /\ s \notin Oracles
<1>1. RoutedTo(s, i) \subseteq Models
  <2>1. s \in Fixed => FixedModel[s] \in Models
    BY SystemAssumption DEF SystemAssumption, Fixed
  <2>2. OracleTier(outcomes[i]) \in Models
    BY OracleIsCheapest
  <2>. QED
    BY <2>1, <2>2 DEF RoutedTo
<1>2. s \in Oracles => RoutedTo(s, i) = {OracleTier(outcomes[i])}
  BY SystemAssumption DEF SystemAssumption, RoutedTo
<1>3. ASSUME NEW a \in Initial(s, i)
      PROVE  a.model \in RoutedTo(s, i) /\ a.answer = Said(s)[i][a.model]
  BY DEF Initial, Attempts
<1>4. \/ \E first \in Initial(s, i) : attempts = <<first>>
      \/ \E first \in Initial(s, i) : \E second \in Escalated(s, i, first) :
            attempts = <<first, second>> /\ ~Baseline(s)
  BY DEF Runs
<1>5. CASE \E first \in Initial(s, i) : attempts = <<first>>
  <2>1. PICK first \in Initial(s, i) : attempts = <<first>>
    BY <1>5
  <2>2. attempts[1] = first /\ Len(attempts) = 1 /\ attempts = <<attempts[1]>>
    BY <2>1
  <2>. QED
    BY <1>1, <1>2, <1>3, <2>2
<1>6. CASE \E first \in Initial(s, i) : \E second \in Escalated(s, i, first) :
            attempts = <<first, second>> /\ ~Baseline(s)
  <2>1. PICK first \in Initial(s, i) : \E second \in Escalated(s, i, first) :
            attempts = <<first, second>> /\ ~Baseline(s)
    BY <1>6
  <2>2. attempts[1] = first /\ Len(attempts) = 2 /\ s \notin Oracles
    BY <2>1 DEF Baseline
  <2>. QED
    BY <1>1, <1>3, <2>2
<1>. QED
  BY <1>4, <1>5, <1>6

LEMMA InitEvaluation == Init => EvaluationInv
<1>. SUFFICES ASSUME Init PROVE EvaluationInv
  OBVIOUS
<1>0. /\ said \in [Range(Prompting) -> [Range(Items) -> [Models -> Replies]]]
      /\ scores = [k \in Range(Items) \X Answers |-> "new"]
      /\ selected \in Selections
      /\ system = 1 /\ item = 0 /\ records = << >>
  BY DEF Init
<1>1. selected \in Seq(Range(Systems)) /\ selected # << >>
  <2>1. PICK n \in 1 .. Len(Systems) : \E at \in [1 .. n -> DOMAIN Systems] :
          selected = [k \in 1 .. n |-> Systems[at[k]]]
    BY <1>0 DEF Selections
  <2>2. PICK at \in [1 .. n -> DOMAIN Systems] : selected = [k \in 1 .. n |-> Systems[at[k]]]
    BY <2>1
  <2>3. \A k \in 1 .. n : Systems[at[k]] \in Range(Systems)
    BY DEF Range
  <2>4. n \in Nat
    BY OrderAssumption DEF OrderAssumption
  <2>. QED
    BY <2>2, <2>3, <2>4
<1>2. Range(records) = {}
  BY <1>0 DEF Range
<1>3. TypeInv
  BY <1>0, <1>1, <1>2 DEF TypeInv
<1>4. Progress
  <2>1. Len(selected) \in Nat /\ DOMAIN selected = 1 .. Len(selected)
        /\ Len(Items) \in Nat /\ DOMAIN Items = 1 .. Len(Items)
    BY <1>1, OrderAssumption DEF OrderAssumption
  <2>. QED
    BY <1>0, <2>1 DEF Progress
<1>. QED
  BY <1>0, <1>2, <1>3, <1>4 DEF EvaluationInv, Profiled, RecordsFaithful

LEMMA FitEvaluation == EvaluationInv /\ Fit => EvaluationInv'
<1>. SUFFICES ASSUME EvaluationInv, Fit PROVE EvaluationInv'
  OBVIOUS
<1>. DEFINE s == selected[system]
            sd == Said(s)
            asked == Profiles(s)
<1>1. PICK v \in Scored(asked) :
        /\ scores' = v
        /\ outcomes' = [i \in Range(Items) |-> [m \in Models |-> Right(v, i, sd[i][m])]]
  BY DEF Fit
<1>2. /\ system <= Len(selected) /\ item = 0 /\ item' = 1
      /\ UNCHANGED <<selected, said, system, records>>
  BY DEF Fit
<1>3. TypeInv /\ s \in Range(Systems) /\ sd \in [Range(Items) -> [Models -> Replies]]
  <2>1. Len(selected) \in Nat /\ DOMAIN selected = 1 .. Len(selected) /\ system \in Nat /\ system > 0
    BY DEF EvaluationInv, TypeInv, Progress
  <2>2. system \in DOMAIN selected
    BY <1>2, <2>1
  <2>3. TypeInv /\ s \in Range(Systems)
    BY <2>2 DEF EvaluationInv, TypeInv
  <2>. QED
    BY <2>3, SaidType
<1>4. /\ v \in [Range(Items) \X Answers -> {"new", "right", "wrong"}]
      /\ \A k \in Range(Items) \X Answers :
            /\ scores[k] # "new" => v[k] = scores[k]
            /\ k \in asked => v[k] # "new"
  <2>. HIDE DEF asked
  <2>. QED
    BY ScoredStays
<1>5. TypeInv'
  BY <1>1, <1>2, <1>3, <1>4 DEF TypeInv
<1>6. Profiled'
  <2>1. AllScored(v, sd)
    <3>. SUFFICES ASSUME NEW i \in Range(Items), NEW m \in Models, sd[i][m] # None
                  PROVE  v[<<i, sd[i][m]>>] # "new"
      BY DEF AllScored
    <3>. HIDE DEF sd
    <3>1. sd[i][m] \in Answers /\ sd[i][m] \in Range(sd[i])
      BY <1>3 DEF Replies, Range
    <3>. USE DEF sd
    <3>2. <<i, sd[i][m]>> \in asked
      BY <3>1 DEF Profiles
    <3>. HIDE DEF asked, sd
    <3>. QED
      BY <1>4, <3>1, <3>2
  <2>2. outcomes' = [i \in Range(Items) |-> Profile(v, sd, i)]
    BY <1>1 DEF Profile
  <2>3. selected'[system'] = s /\ said' = said
    BY <1>2
  <2>. QED
    BY <1>1, <2>1, <2>2, <2>3 DEF Profiled, Said
<1>7. RecordsFaithful'
  <2>. HIDE DEF asked
  <2>1. ASSUME NEW r \in Range(records)
        PROVE  Faithful(r, v, said)
    <3>1. Faithful(r, scores, said)
      BY DEF EvaluationInv, RecordsFaithful
    <3>. QED
      BY <1>3, <1>4, <3>1, FaithfulStays
  <2>. QED
    BY <1>1, <1>2, <2>1 DEF RecordsFaithful
<1>8. Progress'
  <2>1. Len(Items) \in Nat /\ DOMAIN Items = 1 .. Len(Items)
    BY OrderAssumption DEF OrderAssumption
  <2>. QED
    BY <1>2, <2>1 DEF EvaluationInv, Progress
<1>. QED
  BY <1>5, <1>6, <1>7, <1>8 DEF EvaluationInv

LEMMA RunItemEvaluation == EvaluationInv /\ RunItem => EvaluationInv'
<1>. SUFFICES ASSUME EvaluationInv, RunItem PROVE EvaluationInv'
  OBVIOUS
<1>. DEFINE s == selected[system]
            i == Items[item]
<1>1. PICK attempts \in Runs(s, i) :
        \E v \in Scored({<<i, attempts[j].answer>> : j \in DOMAIN attempts}) :
        \E final \in Finals(attempts) :
           /\ scores' = v
           /\ records' = Append(records, BuildRecord(s, i, attempts, final, v))
  BY DEF RunItem
<1>2. PICK v \in Scored({<<i, attempts[j].answer>> : j \in DOMAIN attempts}) :
        \E final \in Finals(attempts) :
           /\ scores' = v
           /\ records' = Append(records, BuildRecord(s, i, attempts, final, v))
  BY <1>1
<1>3. PICK final \in Finals(attempts) :
           /\ scores' = v
           /\ records' = Append(records, BuildRecord(s, i, attempts, final, v))
  BY <1>2
<1>4. /\ item \in DOMAIN Items
      /\ IF item = Len(Items) THEN system' = system + 1 /\ item' = 0
                              ELSE item' = item + 1 /\ UNCHANGED system
      /\ UNCHANGED <<selected, said, outcomes>>
  BY DEF RunItem
<1>5. Len(Items) \in Nat /\ DOMAIN Items = 1 .. Len(Items) /\ i \in Range(Items)
  BY <1>4, OrderAssumption DEF OrderAssumption, Range
<1>6. /\ v \in [Range(Items) \X Answers -> {"new", "right", "wrong"}]
      /\ \A k \in Range(Items) \X Answers : scores[k] # "new" => v[k] = scores[k]
  BY ScoredStays
<1>. DEFINE sd == Said(s)
<1>16. TypeInv /\ s \in Range(Systems) /\ sd \in [Range(Items) -> [Models -> Replies]]
  <2>1. /\ Len(selected) \in Nat /\ DOMAIN selected = 1 .. Len(selected)
        /\ system \in Nat /\ system > 0
    BY DEF EvaluationInv, TypeInv, Progress
  <2>4. item > 0
    BY <1>4, <1>5
  <2>2. system \in DOMAIN selected
    BY <2>1, <2>4 DEF EvaluationInv, Progress
  <2>3. TypeInv /\ s \in Range(Systems)
    BY <2>2 DEF EvaluationInv, TypeInv
  <2>. QED
    BY <2>3, SaidType
<1>7. /\ AllScored(scores, sd)
      /\ outcomes = [j \in Range(Items) |-> Profile(scores, sd, j)]
  <2>1. item > 0
    BY <1>4, <1>5
  <2>. QED
    BY <2>1 DEF EvaluationInv, Profiled
<1>8. /\ AllScored(v, sd)
      /\ \A j \in Range(Items) : Profile(v, sd, j) = Profile(scores, sd, j)
      /\ \A j \in Range(Items), m \in Models : Right(v, j, sd[j][m]) = Right(scores, j, sd[j][m])
  <2>. HIDE DEF s, i, sd
  <2>1. \A j \in Range(Items), a \in Answers :
          scores[<<j, a>>] # "new" => v[<<j, a>>] = scores[<<j, a>>]
    BY <1>6
  <2>. QED
    BY <1>7, <1>16, <2>1, ProfileStays
<1>. DEFINE r == BuildRecord(s, i, attempts, final, v)
<1>9. records' = Append(records, r)
  BY <1>3
<1>10. /\ records' \in Seq(Range(records'))
       /\ Range(records') = Range(records) \cup {r}
  <2>. HIDE DEF r
  <2>. QED
    BY <1>9, AppendRange DEF EvaluationInv, TypeInv
<1>11. TypeInv'
  BY <1>3, <1>4, <1>6, <1>10 DEF EvaluationInv, TypeInv
<1>12. Profiled'
  <2>1. item' > 0 => system' = system
    BY <1>4
  <2>2. outcomes = [j \in Range(Items) |-> Profile(v, sd, j)]
    BY <1>7, <1>8
  <2>. QED
    BY <1>3, <1>4, <1>8, <2>1, <2>2 DEF Profiled, Said
<1>13. Faithful(r, v, said)
  <2>1. outcomes[i] = Profile(v, sd, i) /\ outcomes[i] \in [Models -> BOOLEAN]
    BY <1>5, <1>7, <1>8, ProfileType
  <2>2. /\ attempts[1].model \in Models
        /\ attempts[1].answer = Said(s)[i][attempts[1].model]
        /\ s \in Oracles => attempts[1].model = OracleTier(outcomes[i])
        /\ \/ attempts = <<attempts[1]>> /\ Len(attempts) = 1
           \/ Len(attempts) = 2 /\ s \notin Oracles
    BY <1>5, <2>1, RunFacts DEF EvaluationInv
  <2>. DEFINE right == [j \in DOMAIN attempts |-> Right(v, i, attempts[j].answer)]
  <2>3. /\ r.system = s /\ r.item = i /\ r.routed = attempts[1].model
        /\ r.outcomes = outcomes[i] /\ r.oracle = OracleTier(outcomes[i])
        /\ r.initial_correct = right[1] /\ r.correct = right[final]
        /\ r.escalated <=> Len(attempts) > 1
    BY DEF BuildRecord
  <2>4. 1 \in DOMAIN attempts
    <3>1. CASE attempts = <<attempts[1]>>
      BY <3>1
    <3>2. CASE Len(attempts) = 2
      <4>1. PICK first, second : attempts = <<first, second>> \/ attempts = <<first>>
        BY <1>1 DEF Runs
      <4>. QED
        BY <4>1
    <3>. QED
      BY <2>2, <3>1, <3>2
  <2>5. right[1] = outcomes[i][attempts[1].model]
    BY <2>1, <2>2, <2>4 DEF Profile
  <2>6. Len(attempts) = 1 => final = 1
    BY <2>2, OneIsFinal
  <2>. HIDE DEF r, right
  <2>10. Len(attempts) = 1 \/ (Len(attempts) = 2 /\ s \notin Oracles)
    BY <2>2
  <2>11. (Len(attempts) = 2 => r.escalated) /\ (Len(attempts) = 1 => ~r.escalated)
    <3>1. \A n : (n = 2 => n > 1) /\ (n = 1 => ~(n > 1))
      OBVIOUS
    <3>2. r.escalated <=> Len(attempts) > 1
      BY <2>3
    <3>. QED
      BY <3>1, <3>2, Zenon
  <2>7. /\ r.item \in Range(Items) /\ r.routed \in Models
        /\ r.outcomes = Profile(v, sd, r.item)
        /\ r.oracle = OracleTier(r.outcomes)
        /\ r.initial_correct = r.outcomes[r.routed]
    BY <1>5, <2>1, <2>2, <2>3, <2>5
  <2>8. ~r.escalated => r.correct = r.initial_correct
    <3>1. ~r.escalated => final = 1
      BY <2>6, <2>10, <2>11
    <3>2. r.initial_correct = right[1] /\ r.correct = right[final]
      BY <2>3
    <3>. QED
      BY <3>1, <3>2
  <2>9. r.system \in Oracles => r.routed = r.oracle /\ ~r.escalated
    BY <2>2, <2>3, <2>10, <2>11
  <2>. QED
    BY <1>8, <1>16, <2>3, <2>7, <2>8, <2>9 DEF Faithful, Said
<1>14. RecordsFaithful'
  <2>1. ASSUME NEW q \in Range(records)
        PROVE  Faithful(q, v, said)
    <3>1. Faithful(q, scores, said)
      BY DEF EvaluationInv, RecordsFaithful
    <3>. QED
      BY <1>6, <1>16, <3>1, FaithfulStays
  <2>. HIDE DEF r
  <2>. QED
    BY <1>3, <1>4, <1>10, <1>13, <2>1 DEF RecordsFaithful
<1>15. Progress'
  <2>1. r.system = s /\ r.item = i
    BY DEF BuildRecord
  <2>. HIDE DEF r
  <2>2. /\ HasRecord(Range(records'), s, i)
        /\ \A t, j : HasRecord(Range(records), t, j) => HasRecord(Range(records'), t, j)
    BY <1>10, <2>1 DEF HasRecord
  <2>3. /\ system \in 1 .. Len(selected) /\ item \in 1 .. Len(Items)
        /\ Len(selected) \in Nat /\ DOMAIN selected = 1 .. Len(selected)
    <3>1. Len(selected) \in Nat /\ DOMAIN selected = 1 .. Len(selected)
      BY DEF EvaluationInv, TypeInv
    <3>2. item > 0 /\ item \in 1 .. Len(Items)
      BY <1>4, <1>5
    <3>. QED
      BY <3>1, <3>2 DEF EvaluationInv, Progress
  <2>4. CASE item = Len(Items)
    <3>1. system' = system + 1 /\ item' = 0
      BY <1>4, <2>4
    <3>2. ASSUME NEW k \in DOMAIN selected, k < system + 1, NEW j \in DOMAIN Items
          PROVE  HasRecord(Range(records'), selected[k], Items[j])
      <4>1. CASE k < system
        BY <2>2, <4>1 DEF EvaluationInv, Progress
      <4>2. CASE k = system /\ j < item
        BY <2>2, <4>2 DEF EvaluationInv, Progress
      <4>3. CASE k = system /\ j = item
        BY <2>2, <4>3
      <4>. QED
        BY <1>5, <2>3, <2>4, <3>2, <4>1, <4>2, <4>3
    <3>3. Items # << >>
      BY <1>4
    <3>. QED
      BY <1>4, <1>5, <2>3, <3>1, <3>2, <3>3 DEF Progress
  <2>5. CASE item # Len(Items)
    <3>1. system' = system /\ item' = item + 1
      BY <1>4, <2>5
    <3>2. ASSUME NEW j \in DOMAIN Items, j < item + 1
          PROVE  HasRecord(Range(records'), selected[system], Items[j])
      <4>1. CASE j < item
        BY <2>2, <4>1 DEF EvaluationInv, Progress
      <4>. QED
        BY <1>5, <2>2, <2>3, <3>2, <4>1
    <3>3. ASSUME NEW k \in DOMAIN selected, k < system, NEW j \in DOMAIN Items
          PROVE  HasRecord(Range(records'), selected[k], Items[j])
      BY <2>2, <3>3 DEF EvaluationInv, Progress
    <3>4. Items # << >> /\ item + 1 \in Nat /\ item + 1 > 0 /\ system \in 1 .. Len(selected) + 2
      BY <1>4, <1>5, <2>3
    <3>. QED
      BY <1>4, <2>3, <3>1, <3>2, <3>3, <3>4 DEF Progress
  <2>. QED
    BY <2>4, <2>5
<1>. QED
  BY <1>11, <1>12, <1>14, <1>15 DEF EvaluationInv

LEMMA NextEvaluation == EvaluationInv /\ [Next]_vars => EvaluationInv'
<1>. SUFFICES ASSUME EvaluationInv, [Next]_vars PROVE EvaluationInv'
  OBVIOUS
<1>1. CASE Fit
  BY <1>1, FitEvaluation
<1>2. CASE RunItem
  BY <1>2, RunItemEvaluation
<1>3. CASE Report
  <2>1. /\ system = Len(selected) + 1 /\ system' = system + 1
        /\ UNCHANGED <<selected, said, scores, outcomes, item, records>>
    BY <1>3 DEF Report
  <2>2. /\ Len(selected) \in Nat /\ DOMAIN selected = 1 .. Len(selected) /\ item = 0
        /\ Len(Items) \in Nat /\ DOMAIN Items = 1 .. Len(Items)
    <3>1. Len(selected) \in Nat /\ DOMAIN selected = 1 .. Len(selected)
      BY DEF EvaluationInv, TypeInv
    <3>2. item \in Nat /\ ~(item > 0)
      BY <2>1, <3>1 DEF EvaluationInv, Progress
    <3>. QED
      BY <3>1, <3>2, OrderAssumption DEF OrderAssumption
  <2>6. Len(selected) > 0
    BY DEF EvaluationInv, TypeInv
  <2>3. Progress'
    <3>1. \A k \in DOMAIN selected : k < system
      BY <2>1, <2>2
    <3>2. /\ system' \in 1 .. Len(selected) + 2 /\ system' > 1 /\ ~(item > 0)
          /\ item \in Nat /\ \A j \in DOMAIN Items : ~(j < item)
      BY <2>1, <2>2
    <3>3. system > 1 => Items # << >>
      BY DEF EvaluationInv, Progress
    <3>4. Items # << >>
      BY <2>1, <2>2, <2>6, <3>3
    <3>. QED
      BY <2>1, <3>1, <3>2, <3>4 DEF EvaluationInv, Progress
  <2>4. TypeInv' /\ RecordsFaithful'
    BY <2>1 DEF EvaluationInv, TypeInv, RecordsFaithful
  <2>5. Profiled'
    BY <2>1, <2>2, <2>6 DEF EvaluationInv, Profiled
  <2>. QED
    BY <2>3, <2>4, <2>5 DEF EvaluationInv
<1>4. CASE Evaluate \/ UNCHANGED vars
  <2>1. UNCHANGED <<selected, said, scores, outcomes, system, item, records>>
    BY <1>4 DEF Evaluate, vars
  <2>. QED
    BY <2>1 DEF EvaluationInv, TypeInv, RecordsFaithful, Profiled, Progress, Said
<1>. QED
  BY <1>1, <1>2, <1>3, <1>4 DEF Next

LEMMA AlwaysEvaluationInv == Spec => []EvaluationInv
  BY InitEvaluation, NextEvaluation, PTL DEF Spec

-----------------------------------------------------------------------------
(* What the records say. *)

LEMMA ProfileBoolean ==
    ASSUME NEW r, Faithful(r, scores, said)
    PROVE  r.outcomes \in [Models -> BOOLEAN]
BY ProfileType DEF Faithful

\* Of the systems that ask with the classifier and model settings of the oracle's, none has a
\* right first answer that the oracle misses, or gets it from a weaker model, for any systems,
\* pool, items and promptings, in any order.
THEOREM OracleBoundsAll == Spec => []OracleIsUpperBound
<1>1. EvaluationInv => OracleIsUpperBound
  <2>. SUFFICES ASSUME EvaluationInv,
                       NEW r \in Range(records), r.initial_correct,
                       NEW o \in Range(records), o.system \in Oracles, o.item = r.item,
                       Prompting[o.system] = Prompting[r.system]
                PROVE  o.correct /\ o.routed <= r.routed
    BY DEF OracleIsUpperBound
  <2>1. Faithful(r, scores, said) /\ Faithful(o, scores, said)
    BY DEF EvaluationInv, RecordsFaithful
  <2>2. o.outcomes = r.outcomes /\ r.outcomes \in [Models -> BOOLEAN]
    BY <2>1, ProfileBoolean DEF Faithful
  <2>3. r.routed \in Models /\ r.outcomes[r.routed]
    BY <2>1 DEF Faithful
  <2>4. o.routed = OracleTier(r.outcomes) /\ ~o.escalated
    BY <2>1, <2>2 DEF Faithful
  <2>5. r.outcomes[o.routed] /\ o.routed <= r.routed
    BY <2>2, <2>3, <2>4, OracleIsCheapest
  <2>6. o.correct = o.outcomes[o.routed]
    BY <2>1, <2>4 DEF Faithful
  <2>. QED
    BY <2>2, <2>5, <2>6
<1>. QED
  BY <1>1, AlwaysEvaluationInv, PTL

\* A system that is taken for a single model has that model's accuracy, as every system that
\* asks with the same classifier and model settings records it.
THEOREM FixedAreTheirModel == Spec => []FixedSystemsAreTheirModel
<1>1. EvaluationInv => FixedSystemsAreTheirModel
  <2>. SUFFICES ASSUME EvaluationInv, NEW s, NEW m \in FixedModelOf(s),
                       NEW r \in Of(s), NEW q \in Range(records), q.item = r.item,
                       Prompting[q.system] = Prompting[s]
                PROVE  q.outcomes[m] = r.correct
    BY DEF FixedSystemsAreTheirModel
  <2>1. r \in Range(records)
    BY DEF Of
  <2>2. Faithful(r, scores, said) /\ Faithful(q, scores, said)
    BY <2>1 DEF EvaluationInv, RecordsFaithful
  <2>3. r.routed = m /\ ~r.escalated
    BY DEF FixedModelOf, Escalations
  <2>4. r.correct = r.outcomes[m]
    BY <2>2, <2>3 DEF Faithful
  <2>5. q.outcomes = r.outcomes
    BY <2>2 DEF Faithful, Of
  <2>. QED
    BY <2>4, <2>5
<1>. QED
  BY <1>1, AlwaysEvaluationInv, PTL

\* The report at the end finds a record of every selected system and item.
THEOREM OwnReportWhole == Spec => []OwnReportIsWhole
<1>1. Init => OwnReportIsWhole
  BY DEF Init, NoReport, OwnReportIsWhole
<1>2. EvaluationInv /\ OwnReportIsWhole /\ [Next]_vars => OwnReportIsWhole'
  <2>. SUFFICES ASSUME EvaluationInv, OwnReportIsWhole, [Next]_vars
                PROVE  OwnReportIsWhole'
    OBVIOUS
  <2>1. CASE Fit \/ RunItem \/ Evaluate
    <3>1. report'.by # "run"
      BY <2>1 DEF Fit, RunItem, Evaluate, NoReport, BuildReport
    <3>. QED
      BY <3>1 DEF OwnReportIsWhole
  <2>2. CASE UNCHANGED vars
    BY <2>2 DEF vars, OwnReportIsWhole, MetaReference, Pairs, Of
  <2>3. CASE Report
    <3>1. PICK figures \in BOOLEAN : BuildReport("run", Groups, MetaReference, figures)
      BY <2>3 DEF Report
    <3>2. system = Len(selected) + 1 /\ UNCHANGED <<selected, records>>
      BY <2>3 DEF Report
    <3>3. /\ Len(selected) \in Nat /\ DOMAIN selected = 1 .. Len(selected)
          /\ Len(selected) > 0
      BY DEF EvaluationInv, TypeInv
    <3>4. ASSUME NEW s \in Range(selected)
          PROVE  /\ \A i \in Range(Items) : HasRecord(Range(records), s, i)
                 /\ s \in Reported
      <4>1. PICK k \in DOMAIN selected : s = selected[k]
        BY DEF Range
      <4>2. k < system
        BY <3>2, <3>3
      <4>3. \A j \in DOMAIN Items : HasRecord(Range(records), s, Items[j])
        BY <4>1, <4>2 DEF EvaluationInv, Progress
      <4>4. PICK j \in DOMAIN Items : TRUE
        <5>1. Items # << >>
          BY <3>2, <3>3 DEF EvaluationInv, Progress
        <5>. QED
          BY <5>1, OrderAssumption DEF OrderAssumption
      <4>. QED
        BY <4>3, <4>4 DEF Range, HasRecord, Reported
    <3>5. ~Unreported(MetaReference)
      BY <3>4 DEF Unreported, MetaReference
    <3>6. report' = [by |-> "run", outcome |-> "whole", rows |-> Rows(Groups, MetaReference)]
      BY <3>1, <3>5 DEF BuildReport, TablesRaise, FiguresRaise
    <3>7. report'.outcome = "whole" /\ report'.rows = Rows(Groups, MetaReference)
      BY <3>6
    <3>8. ASSUME NEW s \in Range(selected)
          PROVE  <<"main_results", s>> \in Rows(Groups, MetaReference)
      BY <3>4 DEF Rows
    <3>9. ASSUME NEW s \in Range(selected), MetaReference \notin {None, s}
          PROVE  /\ <<"significance", s>> \in Rows(Groups, MetaReference)
                 /\ Pairs(s, MetaReference) = Of(s)
      <4>1. MetaReference \in Range(selected)
        BY <3>9 DEF MetaReference
      <4>2. \A r \in Of(s) : r.item \in Range(Items)
        BY DEF Of, EvaluationInv, RecordsFaithful, Faithful
      <4>3. Pairs(s, MetaReference) = Of(s)
        BY <3>4, <4>1, <4>2 DEF Pairs, Of, HasRecord
      <4>4. Of(s) # {} /\ s \in Reported
        BY <3>4 DEF Of, Reported
      <4>5. s \in Compared(MetaReference)
        BY <3>9, <4>3, <4>4 DEF Compared
      <4>. QED
        BY <4>3, <4>5 DEF Rows
    <3>10. /\ MetaReference' = MetaReference
           /\ \A s, ref : Pairs(s, ref)' = Pairs(s, ref) /\ Of(s)' = Of(s)
      BY <3>2 DEF MetaReference, Pairs, Of
    <3>. QED
      BY <3>2, <3>7, <3>8, <3>9, <3>10 DEF OwnReportIsWhole
  <2>. QED
    BY <2>1, <2>2, <2>3 DEF Next
<1>. QED
  BY <1>1, <1>2, AlwaysEvaluationInv, PTL DEF Spec

\* The metrics and the labels tell one story of the records.
THEOREM MetricsAndLabelsAgree == Spec => []MetricsAgreeWithLabels
<1>1. EvaluationInv => MetricsAgreeWithLabels
  <2>. SUFFICES ASSUME EvaluationInv, NEW s \in Reported
                PROVE  /\ \A r \in Of(s) : Exact(r) \/ Unnecessary(r) \/ Under(r)
                       /\ \A r \in Labelled(s, "incorrect_routing") : Under(r) /\ ~Exact(r)
                       /\ Cardinality(Correct(Of(s))) =
                             Cardinality(InitiallyRight(Of(s))) + Cardinality(Corrected(Of(s)))
                               - Cardinality(Labelled(s, "escalation_harm"))
                       /\ Harmed(Of(s)) = Labelled(s, "escalation_harm")
    BY DEF MetricsAgreeWithLabels
  <2>0. NModels \in Nat \ {0} /\ Models \subseteq Nat
    BY PoolAssumption DEF PoolAssumption, Models
  <2>1. ASSUME NEW r \in Of(s)
        PROVE  /\ Faithful(r, scores, said)
               /\ r.outcomes \in [Models -> BOOLEAN]
               /\ r.oracle = OracleTier(r.outcomes) /\ r.oracle \in Models
               /\ r.routed \in Models
    BY ProfileBoolean, OracleIsCheapest DEF Of, EvaluationInv, RecordsFaithful, Faithful
  <2>2. ASSUME NEW r \in Of(s)
        PROVE  Exact(r) \/ Unnecessary(r) \/ Under(r)
    <3>1. CASE r.routed < r.oracle
      <4>1. r.oracle > 1
        BY <2>0, <2>1, <3>1 DEF Models
      <4>2. r.outcomes[r.oracle] /\ ~r.outcomes[r.routed]
        BY <2>1, <3>1, <4>1, OracleIsCheapest
      <4>3. r.oracle \in r.routed + 1 .. NModels
        BY <2>0, <2>1, <3>1 DEF Models
      <4>. QED
        BY <4>2, <4>3 DEF Under, StrongerRight
    <3>2. r.routed \in Nat /\ r.oracle \in Nat
      BY <2>0, <2>1
    <3>3. r.routed = r.oracle \/ r.routed > r.oracle \/ r.routed < r.oracle
      BY <3>2
    <3>. QED
      BY <3>1, <3>3 DEF Exact, Unnecessary
  <2>3. ASSUME NEW r \in Labelled(s, "incorrect_routing")
        PROVE  Under(r) /\ ~Exact(r)
    <3>1. r \in Of(s) /\ "incorrect_routing" \in Labels(r)
      BY DEF Labelled
    <3>2. "incorrect_routing" \in WrongLabels(r)
      BY <3>1 DEF Labels, SignalLabels
    <3>3. Under(r)
      BY <3>2 DEF WrongLabels
    <3>4. PICK m \in r.routed + 1 .. NModels : r.outcomes[m]
      BY <3>3 DEF Under, StrongerRight
    <3>5. m \in Models
      BY <2>0, <2>1, <3>1 DEF Models
    <3>6. r.outcomes[r.oracle]
      BY <2>1, <3>1, <3>4, <3>5, OracleIsCheapest
    <3>. QED
      BY <3>3, <3>6 DEF Under, Exact
  <2>4. \A r \in Of(s) : "escalation_harm" \in Labels(r) <=>
                            r.escalated /\ r.initial_correct /\ ~r.correct
    <3>. TAKE r \in Of(s)
    <3>1. "escalation_harm" \in SignalLabels(r) <=>
             r.escalated /\ r.initial_correct /\ ~r.correct
      BY DEF SignalLabels
    <3>2. "escalation_harm" \notin WrongLabels(r)
      BY DEF WrongLabels
    <3>. QED
      BY <3>1, <3>2 DEF Labels
  <2>5. Harmed(Of(s)) = Labelled(s, "escalation_harm")
    BY <2>4 DEF Labelled, Harmed, InitiallyRight, Escalations, Correct
  <2>6. IsFiniteSet(Of(s))
    <3>1. records \in Seq(Range(records))
      BY DEF EvaluationInv, TypeInv
    <3>2. IsFiniteSet(DOMAIN records)
      BY <3>1, FS_Interval
    <3>4. records \in Surjection(DOMAIN records, Range(records))
      <4>1. records \in [DOMAIN records -> Range(records)]
        BY <3>1
      <4>2. \A r \in Range(records) : \E k \in DOMAIN records : records[k] = r
        BY DEF Range
      <4>. QED
        BY <4>1, <4>2 DEF Surjection
    <3>3. IsFiniteSet(Range(records))
      BY <3>2, <3>4, FS_Surjection
    <3>. QED
      BY <3>3, FS_Subset DEF Of
  <2>7. Cardinality(Correct(Of(s))) =
          Cardinality(InitiallyRight(Of(s))) + Cardinality(Corrected(Of(s)))
            - Cardinality(Harmed(Of(s)))
    <3>. DEFINE kept == InitiallyRight(Of(s)) \ Harmed(Of(s))
    <3>1. \A r \in Of(s) : ~r.escalated => r.correct = r.initial_correct
      BY <2>1 DEF Faithful
    <3>2. /\ Correct(Of(s)) = kept \cup Corrected(Of(s))
          /\ kept \cap Corrected(Of(s)) = {}
          /\ Harmed(Of(s)) \subseteq InitiallyRight(Of(s))
          /\ InitiallyRight(Of(s)) \subseteq Of(s) /\ Corrected(Of(s)) \subseteq Of(s)
      BY <3>1 DEF Correct, Corrected, Harmed, InitiallyRight, InitiallyWrong, Escalations
    <3>3. /\ InitiallyRight(Of(s)) = kept \cup Harmed(Of(s))
          /\ kept \cap Harmed(Of(s)) = {}
      BY <3>2
    <3>4. /\ IsFiniteSet(kept) /\ IsFiniteSet(Corrected(Of(s))) /\ IsFiniteSet(Harmed(Of(s)))
      <4>1. kept \subseteq Of(s) /\ Harmed(Of(s)) \subseteq Of(s)
        BY <3>2
      <4>. HIDE DEF kept
      <4>. QED
        BY <2>6, <3>2, <4>1, FS_Subset
    <3>. HIDE DEF kept
    <3>5. /\ Cardinality(kept) \in Nat /\ Cardinality(Corrected(Of(s))) \in Nat
          /\ Cardinality(Harmed(Of(s))) \in Nat
      BY <3>4, FS_CardinalityType
    <3>6. Cardinality({}) = 0
      BY FS_EmptySet
    <3>7. Cardinality(Correct(Of(s))) = Cardinality(kept) + Cardinality(Corrected(Of(s))) - 0
      BY <3>2, <3>4, <3>6, FS_Union
    <3>8. Cardinality(InitiallyRight(Of(s))) = Cardinality(kept) + Cardinality(Harmed(Of(s))) - 0
      BY <3>3, <3>4, <3>6, FS_Union
    <3>. QED
      BY <3>5, <3>7, <3>8
  <2>. QED
    BY <2>2, <2>3, <2>5, <2>7
<1>. QED
  BY <1>1, AlwaysEvaluationInv, PTL

-----------------------------------------------------------------------------
(* Numbers, orders and loops. *)

\* A set of naturals that has 0 and, with a number, the next one is all of them.
LEMMA SuccessorClosed ==
    ASSUME NEW S \in SUBSET Nat, 0 \in S, \A n \in S : n + 1 \in S
    PROVE  S = Nat
<1>1. SUFFICES ASSUME Nat \ S # {}
               PROVE  FALSE
  OBVIOUS
<1>2. PICK x \in Nat \ S : \A y \in Nat \ S : x <= y
  BY <1>1, Least
<1>3. x - 1 \in Nat /\ x - 1 < x
  BY <1>2
<1>4. x - 1 \in S
  BY <1>2, <1>3
<1>. QED
  BY <1>2, <1>4

\* If "precedes" is a total order of a finite set, InOrder is a sequence of all its members:
\* the numbers of members that precede each are all different, so each number up to the
\* cardinality is that of one of them.
LEMMA InOrderIsAll ==
    ASSUME NEW S, IsFiniteSet(S), NEW before,
           \A x \in S : x \notin before[x],
           \A x, y \in S : x = y \/ x \in before[y] \/ y \in before[x],
           \A x, y, z \in S : x \in before[y] /\ y \in before[z] => x \in before[z]
    PROVE  /\ InOrder(S, before) \in [1 .. Cardinality(S) -> S]
           /\ \A x \in S : \E k \in 1 .. Cardinality(S) : InOrder(S, before)[k] = x
           /\ \A j, k \in 1 .. Cardinality(S) :
                 j < k => InOrder(S, before)[j] \in before[InOrder(S, before)[k]]
<1>. DEFINE n == Cardinality(S)
            Ahead(x) == S \cap before[x]
            rank == [x \in S |-> Cardinality(Ahead(x)) + 1]
<1>1. n \in Nat
  BY FS_CardinalityType
<1>2. \A x \in S : IsFiniteSet(Ahead(x)) /\ Cardinality(Ahead(x)) \in Nat
  BY FS_Subset, FS_CardinalityType
<1>3. \A x \in S : Cardinality(Ahead(x)) < n
  <2>. TAKE x \in S
  <2>1. Ahead(x) \subseteq S /\ Ahead(x) # S
    OBVIOUS
  <2>. HIDE DEF Ahead
  <2>2. Cardinality(Ahead(x)) <= n /\ Cardinality(Ahead(x)) # n
    BY <2>1, FS_Subset
  <2>. QED
    BY <1>1, <1>2, <2>2
<1>4. ASSUME NEW x \in S, NEW y \in S, x \in before[y]
      PROVE  Cardinality(Ahead(x)) < Cardinality(Ahead(y))
  <2>1. Ahead(x) \subseteq Ahead(y) /\ x \in Ahead(y) /\ x \notin Ahead(x)
    BY <1>4
  <2>2. Ahead(x) # Ahead(y)
    BY <2>1
  <2>. HIDE DEF Ahead
  <2>. QED
    BY <1>2, <2>1, <2>2, FS_Subset
<1>5. rank \in [S -> 1 .. n]
  BY <1>1, <1>2, <1>3
<1>. HIDE DEF Ahead
<1>6. rank \in Injection(S, 1 .. n)
  <2>1. \A x, y \in S : rank[x] = rank[y] => x = y
    BY <1>2, <1>4
  <2>. QED
    BY <1>5, <2>1 DEF Injection, IsInjective
<1>7. rank \in Surjection(S, 1 .. n)
  <2>1. IsFiniteSet(1 .. n) /\ Cardinality(1 .. n) = n
    BY <1>1, FS_Interval
  <2>. QED
    BY <1>6, <2>1, FS_Injection
<1>8. \A k \in 1 .. n : \E x \in S : Cardinality(Ahead(x)) = k - 1
  <2>. TAKE k \in 1 .. n
  <2>1. PICK x \in S : rank[x] = k
    BY <1>7 DEF Surjection
  <2>. QED
    BY <1>1, <1>2, <2>1
<1>9. InOrder(S, before) = [k \in 1 .. n |-> CHOOSE x \in S : Cardinality(Ahead(x)) = k - 1]
  BY DEF InOrder, Ahead
<1>10. ASSUME NEW x \in S
       PROVE  \E k \in 1 .. n : InOrder(S, before)[k] = x
  <2>1. rank[x] \in 1 .. n /\ rank[x] - 1 = Cardinality(Ahead(x))
    BY <1>2, <1>5
  <2>2. InOrder(S, before)[rank[x]] = CHOOSE y \in S : Cardinality(Ahead(y)) = rank[x] - 1
    BY <1>9, <2>1
  <2>3. \A y \in S : Cardinality(Ahead(y)) = rank[x] - 1 => y = x
    <3>. TAKE y \in S
    <3>1. HAVE Cardinality(Ahead(y)) = rank[x] - 1
    <3>2. rank[y] = rank[x]
      BY <1>2, <2>1, <3>1
    <3>. QED
      BY <1>6, <3>2 DEF Injection, IsInjective
  <2>4. InOrder(S, before)[rank[x]] = x
    BY <2>1, <2>2, <2>3
  <2>. QED
    BY <2>1, <2>4
<1>11. \A k \in 1 .. n : /\ InOrder(S, before)[k] \in S
                         /\ Cardinality(Ahead(InOrder(S, before)[k])) = k - 1
  BY <1>8, <1>9
<1>12. ASSUME NEW j \in 1 .. n, NEW k \in 1 .. n, j < k
       PROVE  InOrder(S, before)[j] \in before[InOrder(S, before)[k]]
  <2>. DEFINE x == InOrder(S, before)[j]
              y == InOrder(S, before)[k]
  <2>1. /\ x \in S /\ y \in S
        /\ Cardinality(Ahead(x)) = j - 1 /\ Cardinality(Ahead(y)) = k - 1
    BY <1>11
  <2>. HIDE DEF x, y
  <2>2. x # y /\ ~(y \in before[x])
    BY <1>4, <1>12, <2>1
  <2>. QED
    BY <2>1, <2>2 DEF x, y
<1>13. InOrder(S, before) \in [1 .. n -> S]
  BY <1>8, <1>9
<1>14. \A j, k \in 1 .. n : j < k => InOrder(S, before)[j] \in before[InOrder(S, before)[k]]
  BY <1>12
<1>. QED
  BY <1>10, <1>13, <1>14, Zenon

\* The states of a loop over 1 .. n, that starts at b and whose body is g.
Looping(F, n, D, b, g) ==
    F \in [0 .. n -> D] /\ F[0] = b /\ \A k \in 1 .. n : F[k] = g[<<k, F[k - 1]>>]

\* There is a function of these states when the body stays in D.
LEMMA LoopExists ==
    ASSUME NEW D, NEW b \in D, NEW n \in Nat, NEW g,
           \A k \in 1 .. n, x \in D : g[<<k, x>>] \in D
    PROVE  \E F : Looping(F, n, D, b, g)
<1>. DEFINE S == {m \in Nat : m <= n => \E F : Looping(F, m, D, b, g)}
<1>1. 0 \in S
  <2>1. Looping([k \in 0 .. 0 |-> b], 0, D, b, g)
    BY DEF Looping
  <2>. QED
    BY <2>1
<1>2. ASSUME NEW m \in S
      PROVE  m + 1 \in S
  <2>. SUFFICES ASSUME m + 1 <= n
                PROVE  \E F : Looping(F, m + 1, D, b, g)
    OBVIOUS
  <2>1. m \in Nat /\ m <= n /\ m + 1 \in 1 .. n
    OBVIOUS
  <2>2. PICK F : Looping(F, m, D, b, g)
    BY <2>1
  <2>. DEFINE G == [k \in 0 .. m + 1 |-> IF k <= m THEN F[k] ELSE g[<<m + 1, F[m]>>]]
  <2>3. F[m] \in D /\ g[<<m + 1, F[m]>>] \in D
    <3>1. F[m] \in D
      BY <2>1, <2>2 DEF Looping
    <3>. QED
      BY <2>1, <3>1
  <2>4. G \in [0 .. m + 1 -> D] /\ G[0] = b
    BY <2>1, <2>2, <2>3 DEF Looping
  <2>5. ASSUME NEW k \in 1 .. m + 1
        PROVE  G[k] = g[<<k, G[k - 1]>>]
    <3>1. CASE k <= m
      <4>1. k \in 1 .. m /\ G[k] = F[k] /\ G[k - 1] = F[k - 1]
        BY <2>1, <3>1
      <4>. QED
        BY <2>2, <4>1 DEF Looping
    <3>2. CASE k = m + 1
      <4>1. G[k] = g[<<k, F[m]>>] /\ G[k - 1] = F[m]
        BY <2>1, <3>2
      <4>. QED
        BY <4>1
    <3>. QED
      BY <2>1, <3>1, <3>2
  <2>6. Looping(G, m + 1, D, b, g)
    BY <2>4, <2>5 DEF Looping
  <2>. QED
    BY <2>6
<1>3. S = Nat
  <2>. HIDE DEF S
  <2>1. S \in SUBSET Nat
    BY DEF S
  <2>. QED
    BY <1>1, <1>2, <2>1, SuccessorClosed
<1>. QED
  BY <1>3

\* A set of naturals with a bound has a greatest element.
LEMMA Greatest ==
    ASSUME NEW n \in Nat, NEW S \in SUBSET (0 .. n), S # {}
    PROVE  Max(S) \in S /\ \A y \in S : y <= Max(S)
<1>. DEFINE T == {n - x : x \in S}
<1>1. T \in SUBSET Nat /\ T # {}
  <2>1. \A x \in S : n - x \in Nat
    OBVIOUS
  <2>. QED
    BY <2>1
<1>2. PICK t \in T : \A u \in T : t <= u
  <2>. HIDE DEF T
  <2>. QED
    BY <1>1, Least
<1>3. PICK x \in S : t = n - x
  OBVIOUS
<1>4. \A y \in S : x >= y
  <2>. TAKE y \in S
  <2>1. n - y \in T
    OBVIOUS
  <2>2. n - x <= n - y
    BY <1>2, <1>3, <2>1
  <2>. QED
    BY <2>2
<1>5. Max(S) \in S /\ \A y \in S : Max(S) >= y
  BY <1>4 DEF Max
<1>. QED
  BY <1>5

-----------------------------------------------------------------------------
(* Turns.  Points are compared by the cross product of the vectors between them; a vector   *)
(* leads on if it goes to a higher cost, or to a higher accuracy at the same cost.          *)

Points == Int \X Int
LeadsOn(a, b) == a > 0 \/ (a = 0 /\ b > 0)

\* The signs of products.
LEMMA Signs ==
    /\ \A a, b \in Int : a >= 0 /\ b >= 0 => a * b >= 0
    /\ \A a, b \in Int : a >= 0 /\ b <= 0 => a * b <= 0
    /\ \A a, b \in Int : a <= 0 /\ b <= 0 => a * b >= 0
    /\ \A a, b \in Int : a > 0 /\ b > 0 => a * b > 0
    /\ \A a, b \in Int : a > 0 /\ b < 0 => a * b < 0
    /\ \A a, b \in Int : a * b \in Int
    /\ \A a, b \in Int : a > 0 /\ a * b <= 0 => b <= 0
    /\ \A a, b \in Int : a > 0 /\ a * b < 0 => b < 0
    /\ \A a, b \in Int : a * b = b * a
  OBVIOUS

\* Among vectors that lead on, turning right is transitive.
LEMMA RightTurns ==
    ASSUME NEW a \in Int, NEW b \in Int, NEW c \in Int, NEW d \in Int, NEW e \in Int, NEW f \in Int,
           LeadsOn(a, b), LeadsOn(c, d), LeadsOn(e, f),
           a * d - b * c <= 0, c * f - d * e <= 0
    PROVE  a * f - b * e <= 0
<1>. DEFINE uv == a * d - b * c
            vw == c * f - d * e
            uw == a * f - b * e
<1>0. uv \in Int /\ vw \in Int /\ uw \in Int
  BY Signs
<1>1. CASE c > 0
  <2>1. c * uw = e * uv + a * vw
    OBVIOUS
  <2>2. a >= 0 /\ e >= 0
    BY DEF LeadsOn
  <2>. HIDE DEF uv, vw, uw
  <2>3. uv <= 0 /\ vw <= 0
    BY DEF uv, vw
  <2>4. e * uv <= 0 /\ a * vw <= 0 /\ e * uv \in Int /\ a * vw \in Int
    BY <1>0, <2>2, <2>3, Signs
  <2>5. c * uw <= 0
    BY <2>1, <2>4
  <2>6. uw <= 0
    BY <1>0, <1>1, <2>5, Signs
  <2>. QED
    BY <2>6 DEF uw
<1>2. CASE c = 0
  <2>1. d > 0 /\ a >= 0 /\ e >= 0
    BY <1>2 DEF LeadsOn
  <2>2. a * d <= 0
    BY <1>2
  <2>3. a = 0
    <3>1. a > 0 => a * d > 0
      BY <2>1, Signs
    <3>. QED
      BY <2>1, <2>2, <3>1
  <2>4. b > 0
    BY <2>3 DEF LeadsOn
  <2>5. b * e >= 0 /\ b * e \in Int
    BY <2>1, <2>4, Signs
  <2>. QED
    BY <2>3, <2>5
<1>. QED
  BY <1>1, <1>2 DEF LeadsOn

\* One point comes before another if the way from it leads on: a total order.
LEMMA LowerLeadsOn ==
    ASSUME NEW p \in Points, NEW q \in Points
    PROVE  /\ Cost(p) \in Int /\ Accuracy(p) \in Int
           /\ Lower(p, q) <=> LeadsOn(Cost(q) - Cost(p), Accuracy(q) - Accuracy(p))
           /\ p = q \/ Lower(p, q) \/ Lower(q, p)
           /\ ~Lower(p, p)
<1>1. PICK a \in Int, b \in Int : p = <<a, b>>
  BY DEF Points
<1>2. PICK c \in Int, d \in Int : q = <<c, d>>
  BY DEF Points
<1>. QED
  BY <1>1, <1>2 DEF Cost, Accuracy, Lower, LeadsOn

\* And what comes before another does not come after it.
LEMMA LowerTransitive ==
    ASSUME NEW p \in Points, NEW q \in Points, NEW r \in Points, Lower(p, q), Lower(q, r)
    PROVE  Lower(p, r) /\ ~Lower(r, p) /\ p # r
<1>1. /\ Cost(p) \in Int /\ Cost(q) \in Int /\ Cost(r) \in Int
      /\ Accuracy(p) \in Int /\ Accuracy(q) \in Int /\ Accuracy(r) \in Int
  BY LowerLeadsOn
<1>2. Lower(p, r) /\ ~Lower(r, p)
  BY <1>1 DEF Lower
<1>. QED
  BY <1>2, LowerLeadsOn

\* A point is on the line through itself; a turn keeps its side when its points are rotated,
\* and changes it when it is walked the other way.
LEMMA CrossFacts ==
    ASSUME NEW p \in Points, NEW q \in Points, NEW r \in Points
    PROVE  /\ Cross(p, q, r) \in Int
           /\ Cross(p, q, p) = 0 /\ Cross(p, q, q) = 0 /\ Cross(p, p, r) = 0
           /\ Cross(p, q, r) = Cross(q, r, p)
           /\ Cross(q, p, r) = -Cross(p, q, r)
<1>. DEFINE a == Cost(p)
            b == Accuracy(p)
            c == Cost(q)
            d == Accuracy(q)
            e == Cost(r)
            f == Accuracy(r)
<1>1. a \in Int /\ b \in Int /\ c \in Int /\ d \in Int /\ e \in Int /\ f \in Int
  BY LowerLeadsOn
<1>. HIDE DEF a, b, c, d, e, f
<1>2. /\ Cross(p, q, r) = (c - a) * (f - b) - (d - b) * (e - a)
      /\ Cross(p, q, p) = (c - a) * (b - b) - (d - b) * (a - a)
      /\ Cross(p, q, q) = (c - a) * (d - b) - (d - b) * (c - a)
      /\ Cross(p, p, r) = (a - a) * (f - b) - (b - b) * (e - a)
      /\ Cross(q, r, p) = (e - c) * (b - d) - (f - d) * (a - c)
      /\ Cross(q, p, r) = (a - c) * (f - d) - (b - d) * (e - c)
  BY DEF Cross, a, b, c, d, e, f
<1>. QED
  BY <1>1, <1>2

\* Two turns that are no left ones, of the vectors p q, r s and t u, give a third.
LEMMA TurnsCompose ==
    ASSUME NEW p \in Points, NEW q \in Points, NEW r \in Points, NEW s \in Points,
           NEW t \in Points, NEW u \in Points,
           Lower(p, q), Lower(r, s), Lower(t, u),
           (Cost(q) - Cost(p)) * (Accuracy(s) - Accuracy(r))
              - (Accuracy(q) - Accuracy(p)) * (Cost(s) - Cost(r)) <= 0,
           (Cost(s) - Cost(r)) * (Accuracy(u) - Accuracy(t))
              - (Accuracy(s) - Accuracy(r)) * (Cost(u) - Cost(t)) <= 0
    PROVE  (Cost(q) - Cost(p)) * (Accuracy(u) - Accuracy(t))
              - (Accuracy(q) - Accuracy(p)) * (Cost(u) - Cost(t)) <= 0
<1>. DEFINE a == Cost(q) - Cost(p)
            b == Accuracy(q) - Accuracy(p)
            c == Cost(s) - Cost(r)
            d == Accuracy(s) - Accuracy(r)
            e == Cost(u) - Cost(t)
            f == Accuracy(u) - Accuracy(t)
<1>1. a \in Int /\ b \in Int /\ c \in Int /\ d \in Int /\ e \in Int /\ f \in Int
  BY LowerLeadsOn
<1>2. LeadsOn(a, b) /\ LeadsOn(c, d) /\ LeadsOn(e, f)
  BY LowerLeadsOn
<1>3. a * d - b * c <= 0 /\ c * f - d * e <= 0
  OBVIOUS
<1>. HIDE DEF a, b, c, d, e, f
<1>4. a * f - b * e <= 0
  BY <1>1, <1>2, <1>3, RightTurns
<1>. QED
  BY <1>4 DEF a, b, e, f

\* What is below the last edge c d of a hull is below an earlier edge a b.
LEMMA BelowEarlier ==
    ASSUME NEW a \in Points, NEW b \in Points, NEW c \in Points, NEW d \in Points,
           NEW p \in Points,
           Lower(a, b), Lower(a, d), Lower(c, d), Lower(d, p),
           Cross(a, b, d) <= 0, Cross(c, d, a) <= 0, Cross(c, d, p) <= 0
    PROVE  Cross(a, b, p) <= 0
<1>. DEFINE X(u, v, w, z) == (Cost(v) - Cost(u)) * (Accuracy(z) - Accuracy(w))
                                - (Accuracy(v) - Accuracy(u)) * (Cost(z) - Cost(w))
<1>0. /\ Cost(a) \in Int /\ Cost(b) \in Int /\ Cost(c) \in Int /\ Cost(d) \in Int
      /\ Accuracy(a) \in Int /\ Accuracy(b) \in Int /\ Accuracy(c) \in Int
      /\ Accuracy(d) \in Int /\ Cost(p) \in Int /\ Accuracy(p) \in Int
  BY LowerLeadsOn
<1>1. X(a, b, a, d) <= 0
  BY DEF Cross
<1>2. X(a, d, c, d) <= 0
  <2>1. X(a, d, c, d) = Cross(c, d, a)
    BY <1>0 DEF Cross
  <2>. QED
    BY <2>1
<1>3. X(c, d, d, p) <= 0
  <2>1. X(c, d, d, p) = Cross(c, d, p)
    BY <1>0 DEF Cross
  <2>. QED
    BY <2>1
<1>4. X(a, d, d, p) <= 0
  BY <1>2, <1>3, TurnsCompose
<1>5. X(a, b, d, p) <= 0
  BY <1>1, <1>4, TurnsCompose
<1>6. Cross(a, b, p) = X(a, b, a, d) + X(a, b, d, p)
  BY <1>0 DEF Cross
<1>7. X(a, b, a, d) \in Int /\ X(a, b, d, p) \in Int
  BY <1>0, Signs
<1>. HIDE DEF X
<1>. QED
  BY <1>1, <1>5, <1>6, <1>7

\* Below the edge that ends in h, and before h: below the edge from h to p.
LEMMA BelowFromBefore ==
    ASSUME NEW g \in Points, NEW h \in Points, NEW p \in Points, NEW q \in Points,
           Lower(g, h), Lower(h, p), Lower(q, h),
           Cross(g, h, q) <= 0, Cross(g, h, p) <= 0
    PROVE  Cross(h, p, q) <= 0
<1>. DEFINE X(u, v, w, z) == (Cost(v) - Cost(u)) * (Accuracy(z) - Accuracy(w))
                                - (Accuracy(v) - Accuracy(u)) * (Cost(z) - Cost(w))
<1>0. /\ Cost(g) \in Int /\ Cost(h) \in Int /\ Cost(p) \in Int /\ Cost(q) \in Int
      /\ Accuracy(g) \in Int /\ Accuracy(h) \in Int /\ Accuracy(p) \in Int
      /\ Accuracy(q) \in Int
  BY LowerLeadsOn
<1>1. X(q, h, g, h) = Cross(g, h, q)
  BY <1>0 DEF Cross
<1>2. X(g, h, h, p) = Cross(g, h, p)
  BY <1>0 DEF Cross
<1>3. X(q, h, h, p) = Cross(h, p, q)
  BY <1>0 DEF Cross
<1>4. X(q, h, g, h) <= 0 /\ X(g, h, h, p) <= 0
  BY <1>1, <1>2
<1>5. X(q, h, h, p) <= 0
  BY <1>4, TurnsCompose
<1>. HIDE DEF X
<1>. QED
  BY <1>3, <1>5

\* Below the edge h e that the edge from h to p replaces: below that edge.
LEMMA BelowReplaced ==
    ASSUME NEW h \in Points, NEW e \in Points, NEW p \in Points, NEW q \in Points,
           Lower(h, e), Lower(h, p), Lower(h, q),
           Cross(h, e, p) >= 0, Cross(h, e, q) <= 0
    PROVE  Cross(h, p, q) <= 0
<1>1. Cross(h, p, e) <= 0
  <2>1. Cross(h, p, e) = -Cross(h, e, p) /\ Cross(h, e, p) \in Int
    <3>1. Cross(h, p, e) = Cross(p, e, h) /\ Cross(p, e, h) = -Cross(e, p, h)
      BY CrossFacts
    <3>2. Cross(e, p, h) = Cross(p, h, e) /\ Cross(p, h, e) = Cross(h, e, p)
      BY CrossFacts
    <3>. QED
      BY <3>1, <3>2, CrossFacts
  <2>. QED
    BY <2>1
<1>. QED
  BY <1>1, TurnsCompose DEF Cross

-----------------------------------------------------------------------------
(* The hull. *)

Sorted(s, n) == s \in [1 .. n -> Points] /\ \A i, j \in 1 .. n : i < j => Lower(s[i], s[j])

\* Of the first k points: some of them, in order, from the first to the last, with every point
\* on or below the line of every edge.
IsHull(h, s, k) ==
    /\ h \in Seq(Points) /\ Len(h) >= 1
    /\ h[1] = s[1] /\ h[Len(h)] = s[k]
    /\ \A j \in DOMAIN h : \E i \in 1 .. k : h[j] = s[i]
    /\ \A i, j \in DOMAIN h : i < j => Lower(h[i], h[j])
    /\ \A j \in 1 .. Len(h) - 1 : \A i \in 1 .. k : Cross(h[j], h[j + 1], s[i]) <= 0

\* The points that stay are those up to the last one at which the turn to p is a right one.
LEMMA PushKeeps ==
    ASSUME NEW h \in Seq(Points), Len(h) >= 1, NEW p \in Points
    PROVE  \E m \in 1 .. Len(h) :
              /\ Push(h, p) \in Seq(Points) /\ Len(Push(h, p)) = m + 1
              /\ \A j \in 1 .. m : Push(h, p)[j] = h[j]
              /\ Push(h, p)[m + 1] = p
              /\ m = 1 \/ Cross(h[m - 1], h[m], p) < 0
              /\ m < Len(h) => Cross(h[m], h[m + 1], p) >= 0
<1>. DEFINE kept == {j \in DOMAIN h : j = 1 \/ Cross(h[j - 1], h[j], p) < 0}
            m == Max(kept \cup {0})
<1>1. Len(h) \in Nat /\ DOMAIN h = 1 .. Len(h)
  OBVIOUS
<1>2. kept \cup {0} \in SUBSET (0 .. Len(h)) /\ kept \cup {0} # {} /\ 1 \in kept
  BY <1>1
<1>. HIDE DEF kept
<1>3. m \in kept \cup {0} /\ \A y \in kept \cup {0} : y <= m
  BY <1>1, <1>2, Greatest
<1>. HIDE DEF m
<1>4. m \in kept /\ m \in 1 .. Len(h) /\ \A y \in kept : y <= m
  <2>1. 1 <= m
    BY <1>2, <1>3
  <2>2. m \in kept
    BY <1>3, <2>1
  <2>. QED
    BY <1>1, <1>3, <2>1, <2>2 DEF kept
<1>5. m = 1 \/ Cross(h[m - 1], h[m], p) < 0
  BY <1>4 DEF kept
<1>6. ASSUME m < Len(h)
      PROVE  Cross(h[m], h[m + 1], p) >= 0
  <2>1. m + 1 \in DOMAIN h /\ m + 1 # 1 /\ (m + 1) - 1 = m /\ m \in DOMAIN h
    BY <1>1, <1>4, <1>6
  <2>2. m + 1 \notin kept
    BY <1>4, <2>1
  <2>3. ~(Cross(h[m], h[m + 1], p) < 0)
    BY <2>1, <2>2 DEF kept
  <2>4. h[m] \in Points /\ h[m + 1] \in Points
    BY <2>1
  <2>5. Cross(h[m], h[m + 1], p) \in Int
    BY <2>4, CrossFacts
  <2>. QED
    BY <2>3, <2>5
<1>7. Push(h, p) = Append(SubSeq(h, 1, m), p)
  BY DEF Push, m, kept
<1>8. /\ SubSeq(h, 1, m) \in Seq(Points) /\ Len(SubSeq(h, 1, m)) = m
      /\ \A j \in 1 .. m : SubSeq(h, 1, m)[j] = h[j]
  BY <1>1, <1>4
<1>9. /\ Push(h, p) \in Seq(Points) /\ Len(Push(h, p)) = m + 1
      /\ \A j \in 1 .. m : Push(h, p)[j] = h[j]
      /\ Push(h, p)[m + 1] = p
  BY <1>4, <1>7, <1>8
<1>. QED
  BY <1>4, <1>5, <1>6, <1>9

\* A new last point keeps it a hull.
LEMMA PushIsHull ==
    ASSUME NEW n \in Nat, NEW s, Sorted(s, n), NEW k \in 1 .. n - 1, NEW h, IsHull(h, s, k)
    PROVE  IsHull(Push(h, s[k + 1]), s, k + 1)
<1>. DEFINE p == s[k + 1]
            t == Push(h, p)
            L == Len(h)
<1>1. /\ h \in Seq(Points) /\ L \in Nat /\ L >= 1 /\ DOMAIN h = 1 .. L
      /\ p \in Points /\ k + 1 \in 1 .. n
      /\ \A i \in 1 .. k : s[i] \in Points /\ Lower(s[i], p)
  BY DEF IsHull, Sorted
<1>. HIDE DEF p, L
<1>2. PICK m \in 1 .. L :
         /\ t \in Seq(Points) /\ Len(t) = m + 1
         /\ \A j \in 1 .. m : t[j] = h[j]
         /\ t[m + 1] = p
         /\ m = 1 \/ Cross(h[m - 1], h[m], p) < 0
         /\ m < L => Cross(h[m], h[m + 1], p) >= 0
  BY <1>1, PushKeeps DEF L
<1>. HIDE DEF t
<1>3. /\ \A j \in 1 .. L : h[j] \in Points /\ Lower(h[j], p)
      /\ \A i, j \in 1 .. L : i < j => Lower(h[i], h[j])
      /\ \A j \in 1 .. L - 1 : \A i \in 1 .. k : Cross(h[j], h[j + 1], s[i]) <= 0
      /\ \A j \in 1 .. L : \E i \in 1 .. k : h[j] = s[i]
      /\ h[1] = s[1] /\ h[L] = s[k]
  BY <1>1 DEF IsHull, L
<1>4. m \in Nat /\ m >= 1 /\ m <= L /\ DOMAIN t = 1 .. m + 1
  BY <1>1, <1>2
<1>5. t[1] = s[1] /\ t[Len(t)] = p
  BY <1>2, <1>3, <1>4
<1>6. \A j \in DOMAIN t : \E i \in 1 .. k + 1 : t[j] = s[i]
  <2>. TAKE j \in DOMAIN t
  <2>1. CASE j \in 1 .. m
    <3>1. j \in 1 .. L /\ t[j] = h[j]
      BY <1>1, <1>2, <1>4, <2>1
    <3>2. PICK i \in 1 .. k : h[j] = s[i]
      BY <1>3, <3>1
    <3>. QED
      BY <3>1, <3>2
  <2>2. CASE j = m + 1
    BY <1>2, <2>2 DEF p
  <2>. QED
    BY <1>4, <2>1, <2>2
<1>7. \A i, j \in DOMAIN t : i < j => Lower(t[i], t[j])
  <2>. TAKE i, j \in DOMAIN t
  <2>1. HAVE i < j
  <2>2. i \in 1 .. m /\ t[i] = h[i] /\ i \in 1 .. L
    BY <1>1, <1>2, <1>4, <2>1
  <2>3. CASE j \in 1 .. m
    <3>1. t[j] = h[j] /\ j \in 1 .. L
      BY <1>1, <1>2, <1>4, <2>3
    <3>. QED
      BY <1>3, <2>1, <2>2, <3>1
  <2>4. CASE j = m + 1
    BY <1>2, <1>3, <2>2, <2>4
  <2>. QED
    BY <1>4, <2>3, <2>4
\* The edges that stay: p is below the last of them, so it is below all.
<1>8. ASSUME NEW j \in 1 .. m - 1, NEW i \in 1 .. k + 1
      PROVE  Cross(t[j], t[j + 1], s[i]) <= 0
  <2>1. /\ j \in 1 .. L - 1 /\ j \in 1 .. L /\ j + 1 \in 1 .. L
        /\ j \in 1 .. m /\ j + 1 \in 1 .. m /\ m \in 1 .. L /\ m - 1 \in 1 .. L
        /\ m - 1 \in 1 .. L - 1 /\ (m - 1) + 1 = m /\ m # 1
        /\ j < j + 1 /\ j < m /\ m - 1 < m
    BY <1>1, <1>4
  <2>2. t[j] = h[j] /\ t[j + 1] = h[j + 1]
    BY <1>2, <2>1
  <2>3. CASE i \in 1 .. k
    BY <1>3, <2>1, <2>2, <2>3
  <2>4. CASE i = k + 1
    <3>1. Cross(h[m - 1], h[m], p) <= 0
      <4>1. h[m - 1] \in Points /\ h[m] \in Points /\ Cross(h[m - 1], h[m], p) < 0
        BY <1>2, <1>3, <2>1
      <4>2. Cross(h[m - 1], h[m], p) \in Int
        BY <1>1, <4>1, CrossFacts
      <4>. QED
        BY <4>1, <4>2
    <3>2. PICK a \in 1 .. k : h[j] = s[a]
      BY <1>3, <2>1
    <3>3. PICK d \in 1 .. k : h[m] = s[d]
      BY <1>3, <2>1
    <3>4. Cross(h[j], h[j + 1], h[m]) <= 0 /\ Cross(h[m - 1], h[m], h[j]) <= 0
      BY <1>3, <2>1, <3>2, <3>3
    <3>5. Lower(h[j], h[j + 1]) /\ Lower(h[j], h[m]) /\ Lower(h[m - 1], h[m]) /\ Lower(h[m], p)
      BY <1>3, <2>1
    <3>6. h[j] \in Points /\ h[j + 1] \in Points /\ h[m] \in Points /\ h[m - 1] \in Points
      BY <1>3, <2>1
    <3>7. Cross(h[j], h[j + 1], p) <= 0
      BY <1>1, <3>1, <3>4, <3>5, <3>6, BelowEarlier
    <3>. QED
      BY <2>2, <2>4, <3>7 DEF p
  <2>. QED
    BY <1>1, <2>3, <2>4
\* The new edge: a point before it is below the edge that ends where it starts, and one beside
\* it is below the edge it replaces.
<1>9. ASSUME NEW i \in 1 .. k + 1
      PROVE  Cross(t[m], t[m + 1], s[i]) <= 0
  <2>. DEFINE g == h[m]
              q == s[i]
  <2>1. t[m] = g /\ t[m + 1] = p /\ g \in Points /\ Lower(g, p)
    BY <1>2, <1>3, <1>4
  <2>2. CASE i = k + 1
    BY <1>1, <2>1, <2>2, CrossFacts DEF p
  <2>3. CASE i \in 1 .. k
    <3>1. q \in Points
      BY <1>1, <2>3
    <3>2. CASE q = g
      BY <1>1, <2>1, <3>2, CrossFacts
    <3>3. CASE Lower(q, g)
      <4>1. m # 1
        <5>1. ASSUME m = 1
              PROVE  FALSE
          <6>1. g = s[1] /\ 1 \in 1 .. n /\ i \in 1 .. n
            BY <1>3, <5>1
          <6>2. ~Lower(q, s[1])
            <7>1. CASE i = 1
              BY <1>1, <2>3, <7>1, LowerLeadsOn
            <7>2. CASE i # 1
              <8>1. Lower(s[1], s[i]) /\ s[1] \in Points
                BY <2>3, <6>1, <7>2 DEF Sorted
              <8>. QED
                BY <3>1, <8>1, LowerTransitive, LowerLeadsOn
            <7>. QED
              BY <7>1, <7>2
          <6>. QED
            BY <3>3, <6>1, <6>2
        <5>. QED
          BY <5>1
      <4>2. /\ m - 1 \in 1 .. L - 1 /\ m - 1 \in 1 .. L /\ (m - 1) + 1 = m /\ m \in 1 .. L
            /\ m - 1 < m
        BY <1>1, <1>4, <4>1
      <4>3. Lower(h[m - 1], g) /\ h[m - 1] \in Points
        BY <1>3, <4>2
      <4>4. Cross(h[m - 1], g, q) <= 0
        BY <1>3, <2>3, <4>2
      <4>5. Cross(h[m - 1], g, p) <= 0
        <5>1. Cross(h[m - 1], g, p) < 0 /\ Cross(h[m - 1], g, p) \in Int
          BY <1>1, <1>2, <2>1, <4>1, <4>3, CrossFacts
        <5>. QED
          BY <5>1
      <4>. HIDE DEF g, q
      <4>6. Cross(g, p, q) <= 0
        BY <1>1, <2>1, <3>1, <3>3, <4>3, <4>4, <4>5, BelowFromBefore
      <4>. QED
        BY <2>1, <4>6 DEF q
    <3>4. CASE Lower(g, q)
      <4>1. m # L
        <5>1. ASSUME m = L
              PROVE  FALSE
          <6>1. g = s[k] /\ k \in 1 .. n /\ i \in 1 .. n /\ s[k] \in Points
            BY <1>1, <1>3, <2>3, <5>1
          <6>2. ~Lower(s[k], q)
            <7>1. CASE i = k
              BY <3>1, <6>1, <7>1, LowerLeadsOn
            <7>2. CASE i # k
              <8>1. Lower(s[i], s[k])
                BY <2>3, <6>1, <7>2 DEF Sorted
              <8>. QED
                BY <3>1, <6>1, <8>1, LowerTransitive, LowerLeadsOn
            <7>. QED
              BY <7>1, <7>2
          <6>. QED
            BY <3>4, <6>1, <6>2
        <5>. QED
          BY <5>1
      <4>2. /\ m < L /\ m \in 1 .. L - 1 /\ m + 1 \in 1 .. L /\ m \in 1 .. L /\ m < m + 1
        <5>1. m < L
          BY <1>1, <1>4, <4>1
        <5>. QED
          BY <1>1, <1>4, <5>1
      <4>3. Lower(g, h[m + 1]) /\ h[m + 1] \in Points
        BY <1>3, <4>2
      <4>4. Cross(g, h[m + 1], q) <= 0 /\ Cross(g, h[m + 1], p) >= 0
        BY <1>2, <1>3, <2>3, <4>2
      <4>. HIDE DEF g, q
      <4>5. Cross(g, p, q) <= 0
        BY <1>1, <2>1, <3>1, <3>4, <4>3, <4>4, BelowReplaced
      <4>. QED
        BY <2>1, <4>5 DEF q
    <3>. QED
      BY <2>1, <3>1, <3>2, <3>3, <3>4, LowerLeadsOn
  <2>. QED
    BY <1>1, <2>2, <2>3
<1>10. \A j \in 1 .. Len(t) - 1 : \A i \in 1 .. k + 1 : Cross(t[j], t[j + 1], s[i]) <= 0
  <2>. TAKE j \in 1 .. Len(t) - 1
  <2>. TAKE i \in 1 .. k + 1
  <2>1. j \in 1 .. m - 1 \/ j = m
    BY <1>2, <1>4
  <2>. QED
    BY <1>8, <1>9, <2>1
<1>11. IsHull(t, s, k + 1)
  BY <1>2, <1>4, <1>5, <1>6, <1>7, <1>10 DEF IsHull, p
<1>. QED
  BY <1>11 DEF t, p

\* The first point is pushed on an empty hull: there is nothing to pop.
LEMMA PushFirst ==
    ASSUME NEW p \in Points
    PROVE  Push(<< >>, p) = <<p>>
<1>. DEFINE e == << >>
            kept == {j \in DOMAIN e : j = 1 \/ Cross(e[j - 1], e[j], p) < 0}
<1>1. Max({0}) = 0
  BY DEF Max
<1>2. kept \cup {0} = {0}
  <2>1. DOMAIN e = {}
    OBVIOUS
  <2>. HIDE DEF e
  <2>. QED
    BY <2>1
<1>3. Push(e, p) = Append(SubSeq(e, 1, Max(kept \cup {0})), p)
  BY DEF Push
<1>. HIDE DEF kept
<1>4. Push(e, p) = Append(SubSeq(e, 1, 0), p)
  BY <1>1, <1>2, <1>3
<1>5. SubSeq(e, 1, 0) = e
  OBVIOUS
<1>6. Append(e, p) = <<p>>
  OBVIOUS
<1>. QED
  BY <1>4, <1>5, <1>6

\* So it is a hull of itself.
LEMMA FirstIsHull ==
    ASSUME NEW n \in Nat, n >= 1, NEW s, Sorted(s, n)
    PROVE  IsHull(Push(<< >>, s[1]), s, 1)
<1>. DEFINE p == s[1]
            h == <<p>>
<1>1. p \in Points
  BY DEF Sorted
<1>2. Push(<< >>, p) = h
  BY <1>1, PushFirst
<1>. HIDE DEF p
<1>3. h \in Seq(Points) /\ Len(h) = 1 /\ h[1] = p /\ DOMAIN h = {1}
  BY <1>1
<1>. HIDE DEF h
<1>4. \A j \in DOMAIN h : \E i \in 1 .. 1 : h[j] = s[i]
  BY <1>3 DEF p
<1>5. 1 .. Len(h) - 1 = {}
  BY <1>3
<1>6. IsHull(h, s, 1)
  BY <1>3, <1>4, <1>5 DEF IsHull, p
<1>. QED
  BY <1>2, <1>6 DEF p

\* The loop over the sorted points builds a hull of all of them.
LEMMA LoopIsHull ==
    ASSUME NEW n \in Nat, n >= 1, NEW s, Sorted(s, n), NEW hull,
           hull = CHOOSE f : f = [k \in 0 .. n |->
                                     IF k = 0 THEN << >> ELSE Push(f[k - 1], s[k])]
    PROVE  IsHull(hull[n], s, n)
<1>. DEFINE body(f) == [k \in 0 .. n |-> IF k = 0 THEN << >> ELSE Push(f[k - 1], s[k])]
            D == Seq(Points)
            g == [kx \in (1 .. n) \X D |-> Push(kx[2], s[kx[1]])]
<1>1. ASSUME NEW k \in 1 .. n, NEW x \in D
      PROVE  Push(x, s[k]) \in D
  <2>1. s[k] \in Points
    BY DEF Sorted
  <2>2. CASE Len(x) >= 1
    BY <2>1, <2>2, PushKeeps
  <2>3. CASE Len(x) = 0
    <3>1. x = << >>
      BY <2>3
    <3>2. Push(<< >>, s[k]) \in D
      <4>1. <<s[k]>> \in Seq(Points)
        BY <2>1
      <4>. QED
        BY <2>1, <4>1, PushFirst, Zenon
    <3>. QED
      BY <3>1, <3>2
  <2>. QED
    BY <2>2, <2>3
<1>2. \A k \in 1 .. n, x \in D : g[<<k, x>>] \in D
  BY <1>1
<1>3. << >> \in D
  OBVIOUS
<1>4. \A k \in 1 .. n, x \in D : g[<<k, x>>] = Push(x, s[k])
  OBVIOUS
<1>. HIDE DEF D, g
<1>5. PICK F : Looping(F, n, D, << >>, g)
  BY <1>2, <1>3, LoopExists
<1>6. F = body(F)
  <2>1. F = [k \in 0 .. n |-> F[k]]
    BY <1>5 DEF Looping
  <2>2. \A k \in 1 .. n : F[k] = Push(F[k - 1], s[k])
    <3>. TAKE k \in 1 .. n
    <3>1. k - 1 \in 0 .. n
      OBVIOUS
    <3>2. F[k - 1] \in D /\ F[k] = g[<<k, F[k - 1]>>]
      BY <1>5, <3>1 DEF Looping
    <3>. QED
      BY <1>4, <3>2
  <2>3. \A k \in 0 .. n : F[k] = IF k = 0 THEN << >> ELSE Push(F[k - 1], s[k])
    BY <1>5, <2>2 DEF Looping
  <2>. QED
    BY <2>1, <2>3
<1>7. hull = body(hull)
  <2>. HIDE DEF body
  <2>1. hull = CHOOSE f : f = body(f)
    BY DEF body
  <2>. QED
    BY <1>6, <2>1
<1>8. hull[0] = << >> /\ \A k \in 1 .. n : hull[k] = Push(hull[k - 1], s[k])
  <2>1. \A k \in 0 .. n : hull[k] = body(hull)[k]
    BY <1>7
  <2>2. \A k \in 0 .. n : body(hull)[k] = IF k = 0 THEN << >> ELSE Push(hull[k - 1], s[k])
    OBVIOUS
  <2>. HIDE DEF body
  <2>3. 0 \in 0 .. n /\ \A k \in 1 .. n : k \in 0 .. n /\ k # 0
    OBVIOUS
  <2>. QED
    BY <2>1, <2>2, <2>3
<1>. DEFINE S == {k \in Nat : k + 1 \in 1 .. n => IsHull(hull[k + 1], s, k + 1)}
<1>9. 0 \in S
  <2>1. hull[1] = Push(<< >>, s[1])
    BY <1>8
  <2>. QED
    BY <2>1, FirstIsHull
<1>10. ASSUME NEW k \in S
       PROVE  k + 1 \in S
  <2>. SUFFICES ASSUME (k + 1) + 1 \in 1 .. n
                PROVE  IsHull(hull[(k + 1) + 1], s, (k + 1) + 1)
    OBVIOUS
  <2>. DEFINE m == k + 1
  <2>1. k \in Nat /\ m \in 1 .. n - 1 /\ m \in 1 .. n
    OBVIOUS
  <2>2. IsHull(hull[m], s, m)
    BY <2>1
  <2>3. hull[m + 1] = Push(hull[m], s[m + 1])
    <3>1. m + 1 \in 1 .. n /\ (m + 1) - 1 = m
      OBVIOUS
    <3>. HIDE DEF m
    <3>. QED
      BY <1>8, <3>1
  <2>. HIDE DEF m
  <2>4. IsHull(Push(hull[m], s[m + 1]), s, m + 1)
    BY <2>1, <2>2, PushIsHull
  <2>. QED
    BY <2>3, <2>4 DEF m
<1>11. S = Nat
  <2>. HIDE DEF S
  <2>1. S \in SUBSET Nat
    BY DEF S
  <2>. QED
    BY <1>9, <1>10, <2>1, SuccessorClosed
<1>12. n - 1 \in Nat /\ (n - 1) + 1 = n /\ n \in 1 .. n
  OBVIOUS
<1>. QED
  BY <1>11, <1>12

\* Of points: some of them, from the first to the last, and every one on or below every edge.
IsHullOf(h, points) ==
    /\ h \in Seq(points) /\ Len(h) >= 1
    /\ \A i, j \in DOMAIN h : i < j => Lower(h[i], h[j])
    /\ \A j \in 1 .. Len(h) - 1 : \A p \in points : Cross(h[j], h[j + 1], p) <= 0
    /\ \A p \in points : (p = h[1] \/ Lower(h[1], p)) /\ (p = h[Len(h)] \/ Lower(p, h[Len(h)]))

\* What Hull computes, for any points: mixture_frontier sorts them and pushes them one by one.
LEMMA HullIsHull ==
    ASSUME NEW points \in SUBSET Points, IsFiniteSet(points), points # {}
    PROVE  IsHullOf(Hull(points), points)
<1>. DEFINE n == Cardinality(points)
            before == [p \in points |-> {q \in points : Lower(q, p)}]
            s == InOrder(points, before)
<1>1. n \in Nat /\ n >= 1
  BY FS_CardinalityType, FS_EmptySet
<1>2. /\ \A x \in points : x \notin before[x]
      /\ \A x, y \in points : x = y \/ x \in before[y] \/ y \in before[x]
      /\ \A x, y, z \in points : x \in before[y] /\ y \in before[z] => x \in before[z]
  BY LowerLeadsOn, LowerTransitive
<1>3. \A x, y \in points : x \in before[y] => Lower(x, y)
  OBVIOUS
<1>4. Hull(points) = LET hull[k \in 0 .. Len(s)] ==
                             IF k = 0 THEN << >> ELSE Push(hull[k - 1], s[k])
                     IN hull[Len(s)]
  BY DEF Hull
<1>. HIDE DEF n, before
<1>5. /\ s \in [1 .. n -> points]
      /\ \A x \in points : \E k \in 1 .. n : s[k] = x
      /\ \A j, k \in 1 .. n : j < k => s[j] \in before[s[k]]
  BY <1>2, InOrderIsAll DEF n
<1>. HIDE DEF s
<1>6. Sorted(s, n)
  BY <1>3, <1>5 DEF Sorted
<1>7. Len(s) = n
  BY <1>1, <1>5
<1>8. IsHull(Hull(points), s, n)
  <2>. DEFINE hull == CHOOSE f : f = [k \in 0 .. n |->
                                        IF k = 0 THEN << >> ELSE Push(f[k - 1], s[k])]
  <2>1. Hull(points) = hull[n]
    BY <1>4, <1>7
  <2>2. IsHull(hull[n], s, n)
    BY <1>1, <1>6, LoopIsHull
  <2>. QED
    BY <2>1, <2>2
<1>. DEFINE h == Hull(points)
<1>. HIDE DEF h
<1>9. IsHull(h, s, n)
  BY <1>8 DEF h
<1>10. h \in Seq(points)
  <2>1. h \in Seq(Points) /\ \A j \in DOMAIN h : h[j] \in points
    BY <1>5, <1>9 DEF IsHull
  <2>2. Len(h) \in Nat /\ h \in [1 .. Len(h) -> points]
    BY <2>1
  <2>. QED
    BY <2>2
<1>11. ASSUME NEW p \in points
       PROVE  /\ p = s[1] \/ Lower(s[1], p)
              /\ p = s[n] \/ Lower(p, s[n])
              /\ \A j \in 1 .. Len(h) - 1 : Cross(h[j], h[j + 1], p) <= 0
  <2>1. PICK i \in 1 .. n : s[i] = p
    BY <1>5
  <2>2. 1 \in 1 .. n /\ n \in 1 .. n /\ i \in Nat
    BY <1>1
  <2>3. p = s[1] \/ Lower(s[1], p)
    BY <1>6, <2>1, <2>2 DEF Sorted
  <2>4. p = s[n] \/ Lower(p, s[n])
    BY <1>6, <2>1, <2>2 DEF Sorted
  <2>5. \A j \in 1 .. Len(h) - 1 : Cross(h[j], h[j + 1], p) <= 0
    BY <1>9, <2>1 DEF IsHull
  <2>. QED
    BY <2>3, <2>4, <2>5
<1>12. /\ Len(h) >= 1 /\ h[1] = s[1] /\ h[Len(h)] = s[n]
       /\ \A i, j \in DOMAIN h : i < j => Lower(h[i], h[j])
  BY <1>9 DEF IsHull
<1>13. IsHullOf(h, points)
  BY <1>10, <1>11, <1>12 DEF IsHullOf
<1>. QED
  BY <1>13 DEF h

-----------------------------------------------------------------------------
(* The frontier. *)

\* Where accuracy stops to rise along the hull: at its end, or at the first fall.
IsTop(h, a) ==
    /\ a \in 1 .. Len(h)
    /\ \A j \in 1 .. a - 1 : Accuracy(h[j]) <= Accuracy(h[j + 1])
    /\ a < Len(h) => Accuracy(h[a + 1]) < Accuracy(h[a])

\* There is such a place: the first one at which accuracy is about to fall, or the end.
LEMMA TopExists ==
    ASSUME NEW h \in Seq(Points), Len(h) >= 1
    PROVE  \E a \in 1 .. Len(h) : IsTop(h, a)
<1>. DEFINE L == Len(h)
            S == {j \in 1 .. L : j = L \/ Accuracy(h[j + 1]) < Accuracy(h[j])}
<1>1. L \in Nat /\ L >= 1
  OBVIOUS
<1>2. \A j \in 1 .. L : h[j] \in Points
  OBVIOUS
<1>3. \A j \in 1 .. L : Accuracy(h[j]) \in Int
  BY <1>2, LowerLeadsOn
<1>. HIDE DEF L
<1>4. S \in SUBSET Nat /\ S # {}
  BY <1>1
<1>. HIDE DEF S
<1>5. PICK a \in S : \A y \in S : a <= y
  BY <1>4, Least
<1>6. a \in 1 .. L /\ (a = L \/ Accuracy(h[a + 1]) < Accuracy(h[a]))
  BY DEF S
<1>7. ASSUME NEW j \in 1 .. a - 1
      PROVE  Accuracy(h[j]) <= Accuracy(h[j + 1])
  <2>1. j \in 1 .. L /\ j + 1 \in 1 .. L /\ j # L /\ ~(a <= j)
    BY <1>1, <1>6
  <2>2. j \notin S
    BY <1>5, <2>1
  <2>3. ~(Accuracy(h[j + 1]) < Accuracy(h[j]))
    BY <2>1, <2>2 DEF S
  <2>. QED
    BY <1>3, <2>1, <2>3
<1>8. IsTop(h, a)
  BY <1>1, <1>6, <1>7 DEF IsTop, L
<1>. QED
  BY <1>6, <1>8 DEF L

\* After the top every point of the hull is lower: the edge that falls bounds it.
LEMMA FallsAfterTop ==
    ASSUME NEW points \in SUBSET Points, NEW h, IsHullOf(h, points), NEW a, IsTop(h, a),
           NEW k \in a + 1 .. Len(h)
    PROVE  Accuracy(h[k]) < Accuracy(h[a])
<1>. DEFINE L == Len(h)
            xa == Cost(h[a])
            ya == Accuracy(h[a])
            xb == Cost(h[a + 1])
            yb == Accuracy(h[a + 1])
            xk == Cost(h[k])
            yk == Accuracy(h[k])
<1>1. h \in Seq(points) /\ L \in Nat /\ DOMAIN h = 1 .. L
  BY DEF IsHullOf
<1>. HIDE DEF L
<1>2. a \in 1 .. L /\ k \in a + 1 .. L
  BY DEF IsTop, L
<1>3. a \in 1 .. L - 1 /\ a + 1 \in 1 .. L /\ k \in 1 .. L /\ a < L /\ a < a + 1
  BY <1>1, <1>2
<1>4. h[a] \in points /\ h[a + 1] \in points /\ h[k] \in points
  BY <1>1, <1>2, <1>3
<1>5. /\ xa \in Int /\ ya \in Int /\ xb \in Int /\ yb \in Int /\ xk \in Int /\ yk \in Int
  BY <1>4, LowerLeadsOn
<1>6. yb < ya
  BY <1>3 DEF IsTop, L
<1>7. Lower(h[a], h[a + 1])
  BY <1>1, <1>2, <1>3 DEF IsHullOf
<1>8. xa < xb
  BY <1>5, <1>6, <1>7 DEF Lower
<1>9. h[k] = h[a + 1] \/ Lower(h[a + 1], h[k])
  <2>1. CASE k = a + 1
    BY <2>1
  <2>2. CASE k # a + 1
    <3>1. a + 1 < k
      BY <1>2, <1>3, <2>2
    <3>. QED
      BY <1>1, <1>3, <3>1 DEF IsHullOf
  <2>. QED
    BY <2>1, <2>2
<1>10. xb <= xk
  BY <1>5, <1>9 DEF Lower
<1>11. Cross(h[a], h[a + 1], h[k]) <= 0
  BY <1>3, <1>4 DEF IsHullOf, L
<1>12. (xb - xa) * (yk - ya) - (yb - ya) * (xk - xa) <= 0
  BY <1>11 DEF Cross
<1>. HIDE DEF xa, ya, xb, yb, xk, yk
<1>13. (yb - ya) * (xk - xa) < 0
  <2>1. yb - ya \in Int /\ xk - xa \in Int /\ yb - ya < 0 /\ xk - xa > 0
    BY <1>5, <1>6, <1>8, <1>10
  <2>. QED
    BY <2>1
<1>14. (xb - xa) * (yk - ya) < 0
  <2>1. (xb - xa) * (yk - ya) \in Int /\ (yb - ya) * (xk - xa) \in Int
    BY <1>5
  <2>. QED
    BY <1>12, <1>13, <2>1
<1>15. yk - ya < 0
  <2>1. xb - xa \in Int /\ yk - ya \in Int /\ xb - xa > 0
    BY <1>5, <1>8
  <2>. QED
    BY <1>14, <2>1
<1>16. yk < ya
  BY <1>5, <1>15
<1>. QED
  BY <1>16 DEF yk, ya

\* No point is higher than the top.
LEMMA TopIsHighest ==
    ASSUME NEW points \in SUBSET Points, NEW h, IsHullOf(h, points), NEW a, IsTop(h, a),
           NEW p \in points
    PROVE  Accuracy(p) <= Accuracy(h[a])
<1>. DEFINE L == Len(h)
            xa == Cost(h[a])
            ya == Accuracy(h[a])
            xp == Cost(p)
            yp == Accuracy(p)
<1>1. h \in Seq(points) /\ L \in Nat /\ L >= 1 /\ DOMAIN h = 1 .. L
  BY DEF IsHullOf
<1>. HIDE DEF L
<1>2. a \in 1 .. L /\ h[a] \in points
  BY <1>1 DEF IsTop, L
<1>3. xa \in Int /\ ya \in Int /\ xp \in Int /\ yp \in Int
  BY <1>2, LowerLeadsOn
<1>4. CASE xa <= xp /\ a = L
  <2>1. p = h[a] \/ Lower(p, h[a])
    BY <1>4 DEF IsHullOf, L
  <2>. QED
    BY <1>3, <1>4, <2>1 DEF Lower
<1>5. CASE xa <= xp /\ a # L
  <2>. DEFINE xb == Cost(h[a + 1])
              yb == Accuracy(h[a + 1])
  <2>1. a \in 1 .. L - 1 /\ a + 1 \in 1 .. L /\ a < L /\ a < a + 1
    BY <1>1, <1>2, <1>5
  <2>2. h[a + 1] \in points
    BY <1>1, <2>1
  <2>3. xb \in Int /\ yb \in Int
    BY <2>2, LowerLeadsOn
  <2>4. yb < ya
    BY <2>1 DEF IsTop, L
  <2>5. Lower(h[a], h[a + 1])
    BY <1>1, <1>2, <2>1 DEF IsHullOf
  <2>6. xa < xb
    BY <1>3, <2>3, <2>4, <2>5 DEF Lower
  <2>7. (xb - xa) * (yp - ya) - (yb - ya) * (xp - xa) <= 0
    BY <2>1 DEF IsHullOf, Cross, L
  <2>. HIDE DEF xa, ya, xb, yb, xp, yp
  <2>8. (yb - ya) * (xp - xa) <= 0
    <3>1. yb - ya \in Int /\ xp - xa \in Int /\ yb - ya < 0 /\ xp - xa >= 0
      BY <1>3, <1>5, <2>3, <2>4
    <3>. QED
      BY <3>1
  <2>9. (xb - xa) * (yp - ya) <= 0
    <3>1. (xb - xa) * (yp - ya) \in Int /\ (yb - ya) * (xp - xa) \in Int
      BY <1>3, <2>3
    <3>. QED
      BY <2>7, <2>8, <3>1
  <2>10. yp - ya <= 0
    <3>1. xb - xa \in Int /\ yp - ya \in Int /\ xb - xa > 0
      BY <1>3, <2>3, <2>6
    <3>. QED
      BY <2>9, <3>1
  <2>11. yp <= ya
    BY <1>3, <2>10
  <2>. QED
    BY <2>11 DEF yp, ya
<1>6. CASE ~(xa <= xp)
  <2>. DEFINE xb == Cost(h[a - 1])
              yb == Accuracy(h[a - 1])
  <2>0. xp < xa
    BY <1>3, <1>6
  <2>1. a # 1
    <3>1. p = h[1] \/ Lower(h[1], p)
      BY DEF IsHullOf
    <3>2. a = 1 => xa <= xp
      BY <1>3, <3>1 DEF Lower
    <3>. QED
      BY <1>6, <3>2
  <2>2. a - 1 \in 1 .. L - 1 /\ a - 1 \in 1 .. L /\ a - 1 < a /\ (a - 1) + 1 = a
        /\ a - 1 \in 1 .. a - 1
    BY <1>1, <1>2, <2>1
  <2>3. h[a - 1] \in points
    BY <1>1, <2>2
  <2>4. xb \in Int /\ yb \in Int
    BY <2>3, LowerLeadsOn
  <2>5. yb <= ya
    BY <2>2 DEF IsTop
  <2>6. Lower(h[a - 1], h[a])
    BY <1>1, <1>2, <2>2 DEF IsHullOf
  <2>7. Cross(h[a - 1], h[a], p) <= 0
    BY <2>2 DEF IsHullOf, L
  <2>8. (xa - xb) * (yp - yb) - (ya - yb) * (xp - xb) <= 0
    BY <2>7 DEF Cross
  <2>9. xb < xa \/ (xb = xa /\ yb < ya)
    BY <2>6 DEF Lower
  <2>. HIDE DEF xa, ya, xb, yb, xp, yp
  <2>10. (xa - xb) * (yp - yb) - (ya - yb) * (xp - xb)
           = (xa - xb) * (yp - ya) + (ya - yb) * (xa - xp)
    BY <1>3, <2>4
  <2>11. /\ (xa - xb) * (yp - ya) \in Int /\ (ya - yb) * (xa - xp) \in Int
         /\ ya - yb \in Int /\ xa - xp \in Int /\ xa - xb \in Int /\ yp - ya \in Int
    BY <1>3, <2>4
  <2>12. (ya - yb) * (xa - xp) >= 0
    <3>1. ya - yb >= 0 /\ xa - xp > 0
      BY <1>3, <2>0, <2>4, <2>5
    <3>. QED
      BY <2>11, <3>1
  <2>13. (xa - xb) * (yp - ya) <= 0
    BY <2>8, <2>10, <2>11, <2>12
  <2>14. CASE xb < xa
    <3>1. xa - xb > 0
      BY <1>3, <2>4, <2>14
    <3>2. yp - ya <= 0
      BY <2>11, <2>13, <3>1
    <3>3. yp <= ya
      BY <1>3, <3>2
    <3>. QED
      BY <3>3 DEF yp, ya
  <2>15. CASE xb = xa /\ yb < ya
    <3>1. ya - yb > 0 /\ xa - xp > 0
      BY <1>3, <2>0, <2>4, <2>15
    <3>2. (ya - yb) * (xa - xp) > 0
      BY <2>11, <3>1
    <3>3. (xa - xb) * (yp - ya) = 0
      BY <1>3, <2>4, <2>15
    <3>. QED
      BY <2>8, <2>10, <2>11, <3>2, <3>3
  <2>. QED
    BY <2>9, <2>14, <2>15
<1>. QED
  BY <1>4, <1>5, <1>6

\* The frontier is the hull up to its top.
LEMMA FrontierIsToTop ==
    ASSUME NEW points \in SUBSET Points, NEW h, IsHullOf(h, points), h = Hull(points),
           NEW a, IsTop(h, a)
    PROVE  /\ Frontier(points) \in Seq(points) /\ Len(Frontier(points)) = a
           /\ \A j \in 1 .. a : Frontier(points)[j] = h[j]
<1>. DEFINE L == Len(h)
            body(f) == [k \in 0 .. L |-> IF k = 0 THEN << >> ELSE Rise(f[k - 1], h[k])]
            upTo(k) == SubSeq(h, 1, IF k <= a THEN k ELSE a)
            F == [k \in 0 .. L |-> upTo(k)]
<1>1. h \in Seq(points) /\ L \in Nat /\ L >= 1 /\ DOMAIN h = 1 .. L
  BY DEF IsHullOf
<1>2. a \in 1 .. L
  BY DEF IsTop
<1>3. \A k \in 1 .. L : h[k] \in points /\ Accuracy(h[k]) \in Int
  <2>1. \A k \in 1 .. L : h[k] \in points
    BY <1>1
  <2>. QED
    BY <2>1, LowerLeadsOn
\* Given what comes before, one more point is added up to the top, and none after it.
<1>4. ASSUME NEW k \in 1 .. L
      PROVE  Rise(upTo(k - 1), h[k]) = upTo(k)
  <2>1. CASE k <= a
    <3>. DEFINE t == SubSeq(h, 1, k - 1)
    <3>1. k - 1 \in 0 .. L /\ k - 1 <= a
      BY <1>1, <1>2, <2>1
    <3>2. upTo(k - 1) = t /\ upTo(k) = SubSeq(h, 1, k)
      BY <2>1, <3>1
    <3>3. /\ t \in Seq(points) /\ Len(t) = k - 1 /\ \A j \in 1 .. k - 1 : t[j] = h[j]
      BY <1>1, <3>1
    <3>4. Append(t, h[k]) = SubSeq(h, 1, k)
      BY <1>1, <1>3
    <3>5. t # << >> => Accuracy(h[k]) >= Accuracy(Last(t))
      <4>1. HAVE t # << >>
      <4>2. k - 1 >= 1 /\ k - 1 \in 1 .. a - 1 /\ (k - 1) + 1 = k /\ k - 1 \in 1 .. L
        BY <1>1, <1>2, <2>1, <3>3, <4>1
      <4>3. Last(t) = h[k - 1]
        BY <3>3, <4>2 DEF Last
      <4>4. Accuracy(h[k - 1]) <= Accuracy(h[k])
        BY <4>2 DEF IsTop
      <4>. QED
        BY <1>3, <4>2, <4>3, <4>4
    <3>. HIDE DEF t, upTo
    <3>. QED
      BY <3>2, <3>4, <3>5 DEF Rise
  <2>2. CASE a < k
    <3>. DEFINE t == SubSeq(h, 1, a)
    <3>1. upTo(k - 1) = t /\ upTo(k) = t
      BY <1>1, <1>2, <2>2
    <3>2. t \in Seq(points) /\ Len(t) = a /\ t[a] = h[a]
      BY <1>1, <1>2
    <3>3. Last(t) = h[a] /\ t # << >>
      BY <1>2, <3>2 DEF Last
    <3>4. k \in a + 1 .. L
      BY <1>1, <1>2, <2>2
    <3>5. Accuracy(h[k]) < Accuracy(h[a])
      BY <3>4, FallsAfterTop
    <3>6. ~(Accuracy(h[k]) >= Accuracy(h[a]))
      BY <1>2, <1>3, <3>5
    <3>. HIDE DEF t, upTo
    <3>. QED
      BY <3>1, <3>3, <3>6 DEF Rise
  <2>. QED
    BY <1>1, <1>2, <2>1, <2>2
<1>5. upTo(0) = << >>
  BY <1>1, <1>2
<1>6. Frontier(points) = LET front[k \in 0 .. L] ==
                                 IF k = 0 THEN << >> ELSE Rise(front[k - 1], h[k])
                         IN front[L]
  BY DEF Frontier
<1>. HIDE DEF L, upTo
<1>7. F = body(F)
  <2>1. \A k \in 0 .. L : body(F)[k] = upTo(k)
    <3>1. TAKE k \in 0 .. L
    <3>2. CASE k = 0
      BY <1>5, <3>2
    <3>3. CASE k # 0
      <4>1. k \in 1 .. L /\ k - 1 \in 0 .. L
        BY <1>1, <3>3
      <4>2. body(F)[k] = Rise(upTo(k - 1), h[k])
        BY <3>3, <4>1
      <4>. QED
        BY <1>4, <4>1, <4>2
    <3>. QED
      BY <3>2, <3>3
  <2>. QED
    BY <2>1
<1>. DEFINE front == CHOOSE f : f = body(f)
<1>8. front = body(front)
  <2>. HIDE DEF body, F
  <2>. QED
    BY <1>7
<1>9. Frontier(points) = front[L]
  BY <1>6
<1>10. \A k \in 0 .. L : front[k] = IF k = 0 THEN << >> ELSE Rise(front[k - 1], h[k])
  <2>1. \A k \in 0 .. L : front[k] = body(front)[k]
    BY <1>8
  <2>. HIDE DEF front
  <2>2. \A k \in 0 .. L : body(front)[k]
                             = IF k = 0 THEN << >> ELSE Rise(front[k - 1], h[k])
    OBVIOUS
  <2>. HIDE DEF body
  <2>. QED
    BY <2>1, <2>2
<1>. HIDE DEF front, F, body
<1>. DEFINE S == {k \in Nat : k <= L => front[k] = upTo(k)}
<1>11. 0 \in S
  <2>1. 0 \in 0 .. L
    BY <1>1
  <2>. QED
    BY <1>5, <1>10, <2>1
<1>12. ASSUME NEW k \in S
       PROVE  k + 1 \in S
  <2>. SUFFICES ASSUME k + 1 <= L
                PROVE  front[k + 1] = upTo(k + 1)
    OBVIOUS
  <2>1. k \in Nat /\ k <= L /\ k + 1 \in 0 .. L /\ k + 1 \in 1 .. L /\ k + 1 # 0
        /\ (k + 1) - 1 = k
    BY <1>1
  <2>2. front[k + 1] = Rise(front[k], h[k + 1])
    BY <1>10, <2>1
  <2>3. front[k] = upTo(k)
    BY <2>1
  <2>4. Rise(upTo(k), h[k + 1]) = upTo(k + 1)
    BY <1>4, <2>1
  <2>. QED
    BY <2>2, <2>3, <2>4
<1>13. S = Nat
  <2>. HIDE DEF S
  <2>1. S \in SUBSET Nat
    BY DEF S
  <2>. QED
    BY <1>11, <1>12, <2>1, SuccessorClosed
<1>14. front[L] = upTo(L)
  BY <1>1, <1>13
<1>15. upTo(L) = SubSeq(h, 1, a)
  BY <1>1, <1>2 DEF upTo
<1>16. /\ SubSeq(h, 1, a) \in Seq(points) /\ Len(SubSeq(h, 1, a)) = a
       /\ \A j \in 1 .. a : SubSeq(h, 1, a)[j] = h[j]
  BY <1>1, <1>2
<1>. QED
  BY <1>9, <1>14, <1>15, <1>16

\* Between two costs c <= x < e, whatever lies on or below a line that does not fall gives
\* mixtures on or below it: v and w are accuracies at c and e, the line has slope k / d.
LEMMA BelowTheLine ==
    ASSUME NEW c \in Int, NEW e \in Int, NEW x \in Int, c <= x, x < e,
           NEW v \in Int, NEW w \in Int, NEW d \in Int, NEW k \in Int,
           NEW x0 \in Int, NEW y0 \in Int,
           d * (v - y0) <= k * (c - x0), d * (w - y0) <= k * (e - x0)
    PROVE  (v * (e - x) + w * (x - c)) * d <= (y0 * d + k * (x - x0)) * (e - c)
<1>. DEFINE r == k * (c - x0) - d * (v - y0)
            t == k * (e - x0) - d * (w - y0)
<1>1. r \in Int /\ t \in Int /\ r >= 0 /\ t >= 0
  BY SMTT(30)
<1>2. (y0 * d + k * (x - x0)) * (e - c) - (v * (e - x) + w * (x - c)) * d
         = (e - x) * r + (x - c) * t
  BY SMTT(30)
<1>. HIDE DEF r, t
<1>3. (e - x) * r \in Int /\ (x - c) * t \in Int /\ (e - x) * r >= 0 /\ (x - c) * t >= 0
  <2>1. e - x \in Int /\ x - c \in Int /\ e - x > 0 /\ x - c >= 0
    OBVIOUS
  <2>. HIDE DEF r, t
  <2>2. ASSUME NEW i \in Int, NEW j \in Int, i >= 0, j >= 0
        PROVE  i * j \in Int /\ i * j >= 0
    BY <2>2
  <2>. QED
    BY <1>1, <2>1, <2>2
<1>4. /\ (y0 * d + k * (x - x0)) * (e - c) \in Int
      /\ (v * (e - x) + w * (x - c)) * d \in Int
  OBVIOUS
<1>. QED
  BY <1>2, <1>3, <1>4

\* What a mixture is: one system within the cost, or two of which one is.
LEMMA MixtureKinds ==
    ASSUME NEW points, NEW x
    PROVE  /\ \A m \in Mixtures(points, x) :
                 \/ \E p \in points : Cost(p) <= x /\ m = <<Accuracy(p), 1>>
                 \/ \E p, q \in points :
                       /\ Cost(p) <= x /\ x < Cost(q)
                       /\ m = <<Accuracy(p) * (Cost(q) - x) + Accuracy(q) * (x - Cost(p)),
                                Cost(q) - Cost(p)>>
           /\ \A p \in points : Cost(p) <= x => <<Accuracy(p), 1>> \in Mixtures(points, x)
           /\ \A p, q \in points :
                 Cost(p) <= x /\ x < Cost(q) =>
                    <<Accuracy(p) * (Cost(q) - x) + Accuracy(q) * (x - Cost(p)),
                      Cost(q) - Cost(p)>> \in Mixtures(points, x)
BY DEF Mixtures

\* The interpolated frontier is a mixture, and none is better.
LEMMA FrontierIsBestMixture ==
    ASSUME NEW points \in SUBSET Points, IsFiniteSet(points),
           NEW x \in Int, NEW least \in points, Cost(least) <= x
    PROVE  /\ \A m \in Mixtures(points, x) : NoBetter(m, Interpolated(Frontier(points), x))
           /\ \E m \in Mixtures(points, x) : NoBetter(Interpolated(Frontier(points), x), m)
<1>. DEFINE h == Hull(points)
            f == Frontier(points)
            value == Interpolated(f, x)
<1>1. IsHullOf(h, points)
  BY HullIsHull
<1>2. h \in Seq(points) /\ Len(h) >= 1 /\ h \in Seq(Points)
  <2>1. h \in Seq(points) /\ Len(h) >= 1
    BY <1>1 DEF IsHullOf
  <2>2. \A s \in Seq(points) : s \in Seq(Points)
    OBVIOUS
  <2>. QED
    BY <2>1, <2>2
<1>3. PICK a \in 1 .. Len(h) : IsTop(h, a)
  BY <1>2, TopExists
<1>4. f \in Seq(points) /\ Len(f) = a /\ \A j \in 1 .. a : f[j] = h[j]
  BY <1>1, <1>3, FrontierIsToTop
<1>5. \A p \in points : Cost(p) \in Int /\ Accuracy(p) \in Int
  BY LowerLeadsOn
<1>6. a \in Nat /\ a >= 1 /\ a <= Len(h) /\ Len(h) \in Nat /\ DOMAIN f = 1 .. a
      /\ DOMAIN h = 1 .. Len(h)
  BY <1>2, <1>3, <1>4
<1>7. \A j \in 1 .. Len(h) : h[j] \in points
  BY <1>2
<1>. DEFINE reached == {j \in DOMAIN f : Cost(f[j]) <= x}
            j == Max(reached)
<1>8. Interpolated(f, x) =
         IF reached = {} THEN <<Accuracy(f[1]), 1>>
         ELSE IF j = Len(f) THEN <<Accuracy(f[j]), 1>>
         ELSE <<Accuracy(f[j]) * (Cost(f[j + 1]) - Cost(f[j]))
                  + (Accuracy(f[j + 1]) - Accuracy(f[j])) * (x - Cost(f[j])),
                Cost(f[j + 1]) - Cost(f[j])>>
  BY DEF Interpolated
<1>. HIDE DEF h, f
<1>9. 1 \in reached
  <2>1. least = h[1] \/ Lower(h[1], least)
    BY <1>1 DEF IsHullOf
  <2>2. Cost(h[1]) <= Cost(least)
    BY <1>2, <1>5, <1>6, <1>7, <2>1 DEF Lower
  <2>. QED
    BY <1>4, <1>5, <1>6, <1>7, <2>2
<1>10. reached \in SUBSET (0 .. a)
  BY <1>6
<1>. HIDE DEF reached
<1>11. j \in reached /\ \A y \in reached : y <= j
  BY <1>6, <1>9, <1>10, Greatest
<1>. HIDE DEF j
<1>12. j \in 1 .. a /\ Cost(h[j]) <= x /\ h[j] \in points /\ f[j] = h[j]
  <2>1. j \in 1 .. a /\ Cost(f[j]) <= x
    BY <1>6, <1>11 DEF reached
  <2>2. j \in 1 .. Len(h)
    BY <1>6, <2>1
  <2>. QED
    BY <1>4, <1>7, <2>1, <2>2
\* At the end of the frontier: the accuracy of its top, which no system has more of.
<1>13. CASE j = a
  <2>. DEFINE y == Accuracy(h[a])
  <2>1. value = <<y, 1>>
    BY <1>4, <1>8, <1>9, <1>12, <1>13
  <2>2. y \in Int /\ \A p \in points : Accuracy(p) <= y
    BY <1>1, <1>3, <1>5, <1>12, <1>13, TopIsHighest
  <2>3. <<y, 1>> \in Mixtures(points, x)
    BY <1>12, <1>13, MixtureKinds
  <2>. HIDE DEF y, value
  <2>4. NoBetter(value, <<y, 1>>)
    BY <2>1, <2>2 DEF NoBetter
  <2>5. ASSUME NEW m \in Mixtures(points, x)
        PROVE  NoBetter(m, value)
    <3>1. CASE \E p \in points : Cost(p) <= x /\ m = <<Accuracy(p), 1>>
      <4>1. PICK p \in points : m = <<Accuracy(p), 1>>
        BY <3>1
      <4>. QED
        BY <1>5, <2>1, <2>2, <4>1 DEF NoBetter
    <3>2. CASE \E p, q \in points :
                  /\ Cost(p) <= x /\ x < Cost(q)
                  /\ m = <<Accuracy(p) * (Cost(q) - x) + Accuracy(q) * (x - Cost(p)),
                           Cost(q) - Cost(p)>>
      <4>1. PICK p \in points, q \in points :
               /\ Cost(p) <= x /\ x < Cost(q)
               /\ m = <<Accuracy(p) * (Cost(q) - x) + Accuracy(q) * (x - Cost(p)),
                        Cost(q) - Cost(p)>>
        BY <3>2
      <4>. DEFINE c == Cost(p)
                  e == Cost(q)
                  v == Accuracy(p)
                  w == Accuracy(q)
      <4>2. /\ c \in Int /\ e \in Int /\ v \in Int /\ w \in Int
            /\ c <= x /\ x < e /\ v <= y /\ w <= y
        BY <1>5, <2>2, <4>1
      <4>3. m = <<v * (e - x) + w * (x - c), e - c>>
        BY <4>1
      <4>. HIDE DEF c, e, v, w
      <4>4. 1 * (v - y) <= 0 * (c - c) /\ 1 * (w - y) <= 0 * (e - c)
        BY <2>2, <4>2
      <4>5. (v * (e - x) + w * (x - c)) * 1 <= (y * 1 + 0 * (x - c)) * (e - c)
        BY <2>2, <4>2, <4>4, BelowTheLine
      <4>6. (y * 1 + 0 * (x - c)) * (e - c) = y * (e - c)
        BY <2>2, <4>2
      <4>. QED
        BY <2>1, <4>3, <4>5, <4>6 DEF NoBetter
    <3>. QED
      BY <3>1, <3>2, MixtureKinds
  <2>. QED
    BY <2>3, <2>4, <2>5 DEF value, f
\* Before its end: a point on the edge from P to Q, and every system is on or below its line.
<1>14. CASE j # a
  <2>. DEFINE x0 == Cost(h[j])
              y0 == Accuracy(h[j])
              d == Cost(h[j + 1]) - Cost(h[j])
              k == Accuracy(h[j + 1]) - Accuracy(h[j])
              top == y0 * d + k * (x - x0)
  <2>1. j + 1 \in 1 .. a /\ j + 1 \in 1 .. Len(h) /\ j \in 1 .. Len(h) - 1 /\ j \in 1 .. a - 1
        /\ j \in Nat /\ ~(j + 1 <= j)
    BY <1>6, <1>12, <1>14
  <2>2. h[j + 1] \in points /\ f[j + 1] = h[j + 1]
    BY <1>4, <1>7, <2>1
  <2>3. x0 \in Int /\ y0 \in Int /\ d \in Int /\ k \in Int
    BY <1>5, <1>12, <2>2
  <2>4. x0 <= x /\ x < Cost(h[j + 1])
    <3>1. j + 1 \notin reached
      BY <1>11, <2>1
    <3>2. ~(Cost(h[j + 1]) <= x)
      BY <1>6, <2>1, <2>2, <3>1 DEF reached
    <3>. QED
      BY <1>5, <1>12, <2>2, <3>2
  <2>5. k >= 0 /\ d > 0
    <3>1. Accuracy(h[j]) <= Accuracy(h[j + 1])
      BY <1>3, <2>1 DEF IsTop
    <3>2. Cost(h[j]) < Cost(h[j + 1])
      BY <1>5, <1>12, <2>2, <2>4
    <3>. QED
      BY <1>5, <1>12, <2>2, <3>1, <3>2
  <2>6. ASSUME NEW p \in points
        PROVE  d * (Accuracy(p) - y0) <= k * (Cost(p) - x0)
    <3>1. Cross(h[j], h[j + 1], p) <= 0
      BY <1>1, <2>1 DEF IsHullOf
    <3>2. Cross(h[j], h[j + 1], p) = d * (Accuracy(p) - y0) - k * (Cost(p) - x0)
      BY DEF Cross
    <3>. HIDE DEF d, k, x0, y0
    <3>3. d * (Accuracy(p) - y0) \in Int /\ k * (Cost(p) - x0) \in Int
      BY <1>5, <2>3
    <3>. QED
      BY <3>1, <3>2, <3>3
  <2>7. value = <<top, d>>
    <3>1. value = <<Accuracy(f[j]) * (Cost(f[j + 1]) - Cost(f[j]))
                      + (Accuracy(f[j + 1]) - Accuracy(f[j])) * (x - Cost(f[j])),
                    Cost(f[j + 1]) - Cost(f[j])>>
      BY <1>4, <1>8, <1>9, <1>14
    <3>. QED
      BY <1>12, <2>2, <3>1
  <2>8. \E m \in Mixtures(points, x) : NoBetter(value, m)
    <3>. DEFINE x1 == Cost(h[j + 1])
                y1 == Accuracy(h[j + 1])
                m == <<y0 * (x1 - x) + y1 * (x - x0), x1 - x0>>
    <3>1. m \in Mixtures(points, x)
      BY <1>12, <2>2, <2>4, MixtureKinds
    <3>2. x1 \in Int /\ y1 \in Int /\ x0 \in Int /\ y0 \in Int /\ d = x1 - x0 /\ k = y1 - y0
      BY <1>5, <1>12, <2>2
    <3>. HIDE DEF x0, y0, d, k, x1, y1, value
    <3>3. y0 * (x1 - x) + y1 * (x - x0) = top
      BY <3>2
    <3>4. m = <<top, d>>
      BY <3>2, <3>3
    <3>5. top * d <= top * d
      <4>1. top \in Int
        BY <2>3
      <4>. HIDE DEF top
      <4>. QED
        BY <2>3, <4>1
    <3>. HIDE DEF m, top
    <3>6. NoBetter(value, m)
      BY <2>7, <3>4, <3>5 DEF NoBetter
    <3>. QED
      BY <3>1, <3>6
  <2>. HIDE DEF x0, y0, d, k, value
  <2>9. top \in Int
    BY <2>3
  <2>10. ASSUME NEW m \in Mixtures(points, x)
         PROVE  NoBetter(m, value)
    <3>1. CASE \E p \in points : Cost(p) <= x /\ m = <<Accuracy(p), 1>>
      <4>1. PICK p \in points : Cost(p) <= x /\ m = <<Accuracy(p), 1>>
        BY <3>1
      <4>. DEFINE c == Cost(p)
                  v == Accuracy(p)
      <4>2. c \in Int /\ v \in Int /\ c <= x /\ d * (v - y0) <= k * (c - x0)
        BY <1>5, <2>6, <4>1
      <4>3. m = <<v, 1>>
        BY <4>1
      <4>. HIDE DEF c, v
      <4>4. k * (c - x0) <= k * (x - x0)
        <5>1. c - x0 <= x - x0 /\ c - x0 \in Int /\ x - x0 \in Int
          BY <2>3, <4>2
        <5>2. ASSUME NEW i \in Int, NEW l \in Int, i <= l
              PROVE  k * i <= k * l
          BY <2>3, <2>5, <5>2
        <5>. QED
          BY <5>1, <5>2
      <4>5. d * (v - y0) = v * d - y0 * d
        BY <2>3, <4>2
      <4>6. v * d <= top
        <5>1. /\ k * (c - x0) \in Int /\ k * (x - x0) \in Int /\ v * d \in Int
              /\ y0 * d \in Int
          BY <2>3, <4>2
        <5>. QED
          BY <4>2, <4>4, <4>5, <5>1
      <4>. HIDE DEF top
      <4>. QED
        BY <2>7, <2>9, <4>3, <4>6 DEF NoBetter
    <3>2. CASE \E p, q \in points :
                  /\ Cost(p) <= x /\ x < Cost(q)
                  /\ m = <<Accuracy(p) * (Cost(q) - x) + Accuracy(q) * (x - Cost(p)),
                           Cost(q) - Cost(p)>>
      <4>1. PICK p \in points, q \in points :
               /\ Cost(p) <= x /\ x < Cost(q)
               /\ m = <<Accuracy(p) * (Cost(q) - x) + Accuracy(q) * (x - Cost(p)),
                        Cost(q) - Cost(p)>>
        BY <3>2
      <4>. DEFINE c == Cost(p)
                  e == Cost(q)
                  v == Accuracy(p)
                  w == Accuracy(q)
      <4>2. /\ c \in Int /\ e \in Int /\ v \in Int /\ w \in Int
            /\ c <= x /\ x < e
            /\ d * (v - y0) <= k * (c - x0) /\ d * (w - y0) <= k * (e - x0)
        BY <1>5, <2>6, <4>1
      <4>3. m = <<v * (e - x) + w * (x - c), e - c>>
        BY <4>1
      <4>. HIDE DEF c, e, v, w
      <4>4. (v * (e - x) + w * (x - c)) * d <= top * (e - c)
        BY <2>3, <4>2, BelowTheLine
      <4>. QED
        BY <2>7, <4>3, <4>4 DEF NoBetter
    <3>. QED
      BY <3>1, <3>2, MixtureKinds
  <2>11. \A m \in Mixtures(points, x) : NoBetter(m, value)
    BY <2>10
  <2>. QED
    BY <2>8, <2>11 DEF value, f
<1>. QED
  BY <1>13, <1>14 DEF f

-----------------------------------------------------------------------------
(* The Pareto front. *)

CheaperFirst(s, n) == s \in [1 .. n -> Points] /\ \A i, j \in 1 .. n : i < j => Cheaper(s[i], s[j])

\* Those of the first k points that are better than all before them.
Improvements(s, k) ==
    {i \in 1 .. k : \A j \in 1 .. i - 1 : Accuracy(s[j]) < Accuracy(s[i])}

\* What the loop has kept of the first k points.
IsKept(f, s, k) ==
    /\ f \in Seq(Points)
    /\ \A i \in Improvements(s, k) : \E j \in 1 .. Len(f) : f[j] = s[i]
    /\ \A j \in 1 .. Len(f) : \E i \in Improvements(s, k) : f[j] = s[i]
    /\ Len(f) = 0 <=> k = 0
    /\ Len(f) > 0 => \A i \in 1 .. k : Accuracy(s[i]) <= Accuracy(f[Len(f)])

\* One more turn of pareto_front's loop: the new point is kept iff it improves on all before.
LEMMA ImproveIsKept ==
    ASSUME NEW n \in Nat, NEW s, CheaperFirst(s, n), NEW k \in Nat, k + 1 \in 1 .. n,
           NEW f, IsKept(f, s, k)
    PROVE  IsKept(Improve(f, s[k + 1]), s, k + 1)
<1>. DEFINE p == s[k + 1]
            L == Len(f)
            g == Improve(f, p)
            b == Accuracy(f[L])
<1>1. f \in Seq(Points) /\ L \in Nat /\ p \in Points
  BY DEF IsKept, CheaperFirst
<1>2. Accuracy(p) \in Int /\ \A i \in 1 .. k : Accuracy(s[i]) \in Int
  <2>1. p \in Points /\ \A i \in 1 .. k : s[i] \in Points
    BY <1>1 DEF CheaperFirst
  <2>. QED
    BY <2>1, LowerLeadsOn
<1>3. k + 1 \in Improvements(s, k + 1) <=> \A j \in 1 .. k : Accuracy(s[j]) < Accuracy(p)
  BY DEF Improvements
<1>4. \A i \in 1 .. k : i \in Improvements(s, k + 1) <=> i \in Improvements(s, k)
  BY DEF Improvements
<1>5. Improvements(s, k) \subseteq 1 .. k /\ Improvements(s, k + 1) \subseteq 1 .. k + 1
  BY DEF Improvements
<1>6. /\ \A i \in Improvements(s, k) : \E j \in 1 .. L : f[j] = s[i]
      /\ \A j \in 1 .. L : \E i \in Improvements(s, k) : f[j] = s[i]
      /\ L = 0 <=> k = 0
      /\ L > 0 => \A i \in 1 .. k : Accuracy(s[i]) <= b
  BY DEF IsKept
<1>7. L > 0 => f[L] \in Points /\ b \in Int
  <2>1. L > 0 => f[L] \in Points
    BY <1>1
  <2>. QED
    BY <2>1, LowerLeadsOn
<1>8. f = << >> <=> L = 0
  BY <1>1
<1>9. L > 0 => Last(f) = f[L]
  BY DEF Last
<1>. HIDE DEF b
\* p is an improvement: it is kept.
<1>10. CASE L = 0 \/ b < Accuracy(p)
  <2>1. g = Append(f, p)
    BY <1>1, <1>2, <1>7, <1>8, <1>9, <1>10 DEF Improve, b
  <2>2. g \in Seq(Points) /\ Len(g) = L + 1 /\ g[L + 1] = p /\ \A j \in 1 .. L : g[j] = f[j]
    BY <1>1, <2>1
  <2>3. k + 1 \in Improvements(s, k + 1)
    <3>1. ASSUME NEW j \in 1 .. k
          PROVE  Accuracy(s[j]) < Accuracy(p)
      <4>1. L > 0 /\ b < Accuracy(p)
        BY <1>1, <1>6, <1>10
      <4>2. Accuracy(s[j]) <= b
        BY <1>6, <4>1
      <4>. QED
        BY <1>2, <1>7, <4>1, <4>2
    <3>. QED
      BY <1>3, <3>1
  <2>. HIDE DEF g, L, p
  <2>4. ASSUME NEW i \in Improvements(s, k + 1)
        PROVE  \E j \in 1 .. L + 1 : g[j] = s[i]
    <3>1. CASE i = k + 1
      BY <1>1, <2>2, <3>1 DEF p
    <3>2. CASE i # k + 1
      <4>1. i \in Improvements(s, k)
        BY <1>4, <1>5, <3>2
      <4>2. PICK j \in 1 .. L : f[j] = s[i]
        BY <1>6, <4>1
      <4>3. j \in 1 .. L + 1 /\ g[j] = s[i]
        BY <1>1, <2>2, <4>2
      <4>. QED
        BY <4>3
    <3>. QED
      BY <3>1, <3>2
  <2>5. ASSUME NEW j \in 1 .. L + 1
        PROVE  \E i \in Improvements(s, k + 1) : g[j] = s[i]
    <3>1. CASE j = L + 1
      BY <2>2, <2>3, <3>1 DEF p
    <3>2. CASE j # L + 1
      <4>1. j \in 1 .. L
        BY <1>1, <3>2
      <4>2. PICK i \in Improvements(s, k) : f[j] = s[i]
        BY <1>6, <4>1
      <4>3. i \in Improvements(s, k + 1)
        BY <1>4, <1>5
      <4>. QED
        BY <2>2, <4>1, <4>2, <4>3
    <3>. QED
      BY <3>1, <3>2
  <2>6. ASSUME NEW i \in 1 .. k + 1
        PROVE  Accuracy(s[i]) <= Accuracy(g[L + 1])
    <3>1. CASE i = k + 1
      BY <1>2, <2>2, <3>1 DEF p
    <3>2. CASE i # k + 1
      <4>1. i \in 1 .. k
        BY <3>2
      <4>2. Accuracy(s[i]) < Accuracy(p)
        BY <1>3, <2>3, <4>1
      <4>. QED
        BY <1>2, <2>2, <4>1, <4>2
    <3>. QED
      BY <3>1, <3>2
  <2>7. Len(g) > 0 /\ Len(g) # 0 /\ k + 1 # 0
    BY <1>1, <2>2
  <2>8. IsKept(g, s, k + 1)
    BY <2>2, <2>4, <2>5, <2>6, <2>7 DEF IsKept
  <2>. QED
    BY <2>8 DEF g, p
\* It is not: the front stays.
<1>11. CASE L > 0 /\ ~(b < Accuracy(p))
  <2>1. g = f
    BY <1>1, <1>2, <1>7, <1>8, <1>9, <1>11 DEF Improve, b
  <2>2. PICK m \in Improvements(s, k) : f[L] = s[m]
    <3>1. L \in 1 .. L
      BY <1>1, <1>11
    <3>. QED
      BY <1>6, <3>1
  <2>3. m \in 1 .. k /\ Accuracy(s[m]) = b
    BY <1>5, <2>2 DEF b
  <2>4. k + 1 \notin Improvements(s, k + 1)
    <3>1. ~(Accuracy(s[m]) < Accuracy(p))
      BY <1>11, <2>3
    <3>. QED
      BY <1>3, <2>3, <3>1
  <2>5. Improvements(s, k + 1) = Improvements(s, k)
    <3>1. \A i \in Improvements(s, k + 1) : i \in 1 .. k
      BY <1>5, <2>4
    <3>. QED
      BY <1>4, <1>5, <3>1
  <2>6. ASSUME NEW i \in 1 .. k + 1
        PROVE  Accuracy(s[i]) <= b
    <3>1. CASE i = k + 1
      BY <1>2, <1>7, <1>11, <3>1
    <3>2. CASE i # k + 1
      <4>1. i \in 1 .. k
        BY <3>2
      <4>. QED
        BY <1>6, <1>11, <4>1
    <3>. QED
      BY <3>1, <3>2
  <2>7. IsKept(f, s, k + 1)
    <3>1. L # 0 /\ k + 1 # 0
      BY <1>11
    <3>. QED
      BY <1>1, <1>6, <2>5, <2>6, <3>1 DEF IsKept, b
  <2>. QED
    BY <2>1, <2>7
<1>. QED
  BY <1>1, <1>2, <1>7, <1>10, <1>11

\* The loop keeps the improvements.
LEMMA LoopIsKept ==
    ASSUME NEW n \in Nat, NEW s, CheaperFirst(s, n), NEW front,
           front = CHOOSE f : f = [k \in 0 .. n |->
                                      IF k = 0 THEN << >> ELSE Improve(f[k - 1], s[k])]
    PROVE  IsKept(front[n], s, n)
<1>. DEFINE body(f) == [k \in 0 .. n |-> IF k = 0 THEN << >> ELSE Improve(f[k - 1], s[k])]
            D == Seq(Points)
            g == [kx \in (1 .. n) \X D |-> Improve(kx[2], s[kx[1]])]
<1>1. ASSUME NEW k \in 1 .. n, NEW x \in D
      PROVE  Improve(x, s[k]) \in D
  <2>1. s[k] \in Points
    BY DEF CheaperFirst
  <2>. QED
    BY <2>1 DEF Improve
<1>2. \A k \in 1 .. n, x \in D : g[<<k, x>>] \in D
  BY <1>1
<1>3. << >> \in D
  OBVIOUS
<1>4. \A k \in 1 .. n, x \in D : g[<<k, x>>] = Improve(x, s[k])
  OBVIOUS
<1>. HIDE DEF D, g
<1>5. PICK F : Looping(F, n, D, << >>, g)
  BY <1>2, <1>3, LoopExists
<1>6. F = body(F)
  <2>1. F = [k \in 0 .. n |-> F[k]]
    BY <1>5 DEF Looping
  <2>2. \A k \in 1 .. n : F[k] = Improve(F[k - 1], s[k])
    <3>. TAKE k \in 1 .. n
    <3>1. k - 1 \in 0 .. n
      OBVIOUS
    <3>2. F[k - 1] \in D /\ F[k] = g[<<k, F[k - 1]>>]
      BY <1>5, <3>1 DEF Looping
    <3>. QED
      BY <1>4, <3>2
  <2>3. \A k \in 0 .. n : F[k] = IF k = 0 THEN << >> ELSE Improve(F[k - 1], s[k])
    BY <1>5, <2>2 DEF Looping
  <2>. QED
    BY <2>1, <2>3
<1>7. front = body(front)
  <2>. HIDE DEF body
  <2>1. front = CHOOSE f : f = body(f)
    BY DEF body
  <2>. QED
    BY <1>6, <2>1
<1>8. front[0] = << >> /\ \A k \in 1 .. n : front[k] = Improve(front[k - 1], s[k])
  <2>1. \A k \in 0 .. n : front[k] = body(front)[k]
    BY <1>7
  <2>2. \A k \in 0 .. n : body(front)[k]
                             = IF k = 0 THEN << >> ELSE Improve(front[k - 1], s[k])
    OBVIOUS
  <2>. HIDE DEF body
  <2>3. 0 \in 0 .. n /\ \A k \in 1 .. n : k \in 0 .. n /\ k # 0
    OBVIOUS
  <2>. QED
    BY <2>1, <2>2, <2>3
<1>. DEFINE S == {k \in Nat : k <= n => IsKept(front[k], s, k)}
<1>9. 0 \in S
  <2>. DEFINE e == << >>
  <2>1. e \in Seq(Points) /\ Len(e) = 0
    OBVIOUS
  <2>2. Improvements(s, 0) = {}
    BY DEF Improvements
  <2>. HIDE DEF e
  <2>3. IsKept(e, s, 0)
    BY <2>1, <2>2 DEF IsKept
  <2>. QED
    BY <1>8, <2>3 DEF e
<1>10. ASSUME NEW k \in S
       PROVE  k + 1 \in S
  <2>. SUFFICES ASSUME k + 1 <= n
                PROVE  IsKept(front[k + 1], s, k + 1)
    OBVIOUS
  <2>1. k \in Nat /\ k + 1 \in 1 .. n /\ (k + 1) - 1 = k /\ k <= n
    OBVIOUS
  <2>2. IsKept(front[k], s, k)
    BY <2>1
  <2>3. front[k + 1] = Improve(front[k], s[k + 1])
    BY <1>8, <2>1
  <2>. HIDE DEF S
  <2>4. IsKept(Improve(front[k], s[k + 1]), s, k + 1)
    BY <2>1, <2>2, ImproveIsKept
  <2>. QED
    BY <2>3, <2>4
<1>11. S = Nat
  <2>. HIDE DEF S
  <2>1. S \in SUBSET Nat
    BY DEF S
  <2>. QED
    BY <1>9, <1>10, <2>1, SuccessorClosed
<1>. QED
  BY <1>11

\* The front is the points that no other one dominates.
LEMMA ParetoFrontIsUndominated ==
    ASSUME NEW points \in SUBSET Points, IsFiniteSet(points), NEW p \in points
    PROVE  p \in ParetoFront(points)
              <=> ~\E q \in points \ {p} : Cost(q) <= Cost(p) /\ Accuracy(q) >= Accuracy(p)
<1>. DEFINE n == Cardinality(points)
            before == [r \in points |-> {q \in points : Cheaper(q, r)}]
            s == InOrder(points, before)
<1>1. n \in Nat
  BY FS_CardinalityType
<1>2. \A q \in points : Cost(q) \in Int /\ Accuracy(q) \in Int
  BY LowerLeadsOn
<1>3. \A x, y \in points : x = y <=> Cost(x) = Cost(y) /\ Accuracy(x) = Accuracy(y)
  BY LowerLeadsOn DEF Lower
<1>4. /\ \A x \in points : x \notin before[x]
      /\ \A x, y \in points : x = y \/ x \in before[y] \/ y \in before[x]
      /\ \A x, y, z \in points : x \in before[y] /\ y \in before[z] => x \in before[z]
  BY <1>2, <1>3 DEF Cheaper
<1>5. \A x, y \in points : x \in before[y] => Cheaper(x, y)
  OBVIOUS
<1>6. ParetoFront(points) = LET front[k \in 0 .. Len(s)] ==
                                    IF k = 0 THEN << >> ELSE Improve(front[k - 1], s[k])
                            IN ToSet(front[Len(s)])
  BY DEF ParetoFront
<1>. HIDE DEF n, before
<1>7. /\ s \in [1 .. n -> points]
      /\ \A x \in points : \E k \in 1 .. n : s[k] = x
      /\ \A j, k \in 1 .. n : j < k => s[j] \in before[s[k]]
  BY <1>4, InOrderIsAll DEF n
<1>. HIDE DEF s
<1>8. CheaperFirst(s, n)
  BY <1>5, <1>7 DEF CheaperFirst
<1>9. Len(s) = n
  BY <1>1, <1>7
<1>. DEFINE front == CHOOSE f : f = [k \in 0 .. n |->
                                       IF k = 0 THEN << >> ELSE Improve(f[k - 1], s[k])]
            f == front[n]
<1>10. ParetoFront(points) = ToSet(f)
  BY <1>6, <1>9
<1>11. IsKept(f, s, n)
  BY <1>1, <1>8, LoopIsKept
<1>. HIDE DEF f
<1>12. PICK i \in 1 .. n : s[i] = p
  BY <1>7
<1>13. \A j \in 1 .. n : s[j] = p => j = i
  <2>. TAKE j \in 1 .. n
  <2>1. HAVE s[j] = p
  <2>2. ~(i < j) /\ ~(j < i)
    BY <1>4, <1>7, <1>12, <2>1
  <2>. QED
    BY <1>1, <2>2
<1>14. p \in ToSet(f) <=> i \in Improvements(s, n)
  <2>1. f \in Seq(Points) /\ DOMAIN f = 1 .. Len(f)
    BY <1>11 DEF IsKept
  <2>2. p \in ToSet(f) <=> \E j \in 1 .. Len(f) : f[j] = p
    BY <2>1 DEF ToSet
  <2>3. Improvements(s, n) \subseteq 1 .. n
    BY DEF Improvements
  <2>. QED
    BY <1>11, <1>12, <1>13, <2>2, <2>3 DEF IsKept
<1>15. i \in Improvements(s, n) <=> \A j \in 1 .. i - 1 : Accuracy(s[j]) < Accuracy(p)
  BY <1>12 DEF Improvements
<1>16. ASSUME NEW j \in 1 .. i - 1, ~(Accuracy(s[j]) < Accuracy(p))
       PROVE  \E q \in points \ {p} : Cost(q) <= Cost(p) /\ Accuracy(q) >= Accuracy(p)
  <2>1. j \in 1 .. n /\ j < i /\ j # i
    BY <1>1
  <2>2. s[j] \in points \ {p}
    BY <1>7, <1>13, <2>1
  <2>3. Cheaper(s[j], p)
    BY <1>8, <1>12, <2>1 DEF CheaperFirst
  <2>4. Cost(s[j]) <= Cost(p) /\ Accuracy(s[j]) >= Accuracy(p)
    BY <1>2, <1>16, <2>2, <2>3 DEF Cheaper
  <2>. QED
    BY <2>2, <2>4
<1>17. ASSUME NEW q \in points \ {p}, Cost(q) <= Cost(p), Accuracy(q) >= Accuracy(p)
       PROVE  \E j \in 1 .. i - 1 : ~(Accuracy(s[j]) < Accuracy(p))
  <2>1. PICK j \in 1 .. n : s[j] = q
    BY <1>7
  <2>2. j # i
    BY <1>12, <2>1
  <2>3. Cheaper(q, p) /\ ~Cheaper(p, q)
    <3>1. ~(Cost(p) = Cost(q) /\ Accuracy(p) = Accuracy(q))
      BY <1>3
    <3>. QED
      BY <1>2, <1>17, <3>1 DEF Cheaper
  <2>4. ~(i < j)
    BY <1>8, <1>12, <2>1, <2>3 DEF CheaperFirst
  <2>5. j \in 1 .. i - 1
    BY <1>1, <2>2, <2>4
  <2>6. ~(Accuracy(s[j]) < Accuracy(p))
    BY <1>2, <1>17, <2>1
  <2>. QED
    BY <2>5, <2>6
<1>. QED
  BY <1>10, <1>14, <1>15, <1>16, <1>17

-----------------------------------------------------------------------------

\* For any systems, mixture_frontier and its interpolation give at each cost the accuracy of
\* the best mixture of them, and pareto_front the systems no other one dominates.
THEOREM MixtureIsBest == FrontierIsBest
<1>. SUFFICES ASSUME NEW points \in Instances
              PROVE  /\ \A x \in Costs : (\E p \in points : Cost(p) <= x) =>
                           LET value == Interpolated(Frontier(points), x)
                               all == Mixtures(points, x)
                           IN /\ \A m \in all : NoBetter(m, value)
                              /\ \E m \in all : NoBetter(value, m)
                     /\ \A p \in points :
                           p \in ParetoFront(points)
                              <=> ~\E q \in points \ {p} :
                                     Cost(q) <= Cost(p) /\ Accuracy(q) >= Accuracy(p)
  BY DEF FrontierIsBest
<1>1. points \in SUBSET Points /\ IsFiniteSet(points)
  BY CoordinatesAssumption DEF Instances, Points
<1>2. ASSUME NEW x \in Costs, \E p \in points : Cost(p) <= x
      PROVE  /\ \A m \in Mixtures(points, x) : NoBetter(m, Interpolated(Frontier(points), x))
             /\ \E m \in Mixtures(points, x) : NoBetter(Interpolated(Frontier(points), x), m)
  <2>1. PICK least \in points : Cost(least) <= x
    BY <1>2
  <2>2. x \in Int
    BY CoordinatesAssumption
  <2>. QED
    BY <1>1, <2>1, <2>2, FrontierIsBestMixture
<1>3. \A p \in points :
         p \in ParetoFront(points)
            <=> ~\E q \in points \ {p} : Cost(q) <= Cost(p) /\ Accuracy(q) >= Accuracy(p)
  BY <1>1, ParetoFrontIsUndominated
<1>. QED
  BY <1>2, <1>3

\* What a router is compared with, whenever a run reports it, is the best mixture.
THEOREM GapFromTheBestMixture == Spec => []GapIsFromTheBestMixture
<1>1. GapIsFromTheBestMixture
  BY MixtureIsBest DEF GapIsFromTheBestMixture
<1>. QED
  BY <1>1, PTL
=============================================================================
