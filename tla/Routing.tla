------------------------------- MODULE Routing -------------------------------
(***************************************************************************)
(* What the routers decide (routeguard/router, complexity/base.py), as     *)
(* functions of what they look at.  A model is its tier, from 1; scores,   *)
(* probabilities, costs and latencies are integers out of Scale.           *)
(*                                                                         *)
(* A definition commented as a slip is the definition that follows it with *)
(* a plausible mistake.                                                    *)
(***************************************************************************)
EXTENDS Integers, Sequences, FiniteSets, FiniteSetsExt

CONSTANTS
    PoolSize,  \* models, in the order of the configuration
    Scale      \* bound: the grain of scores and probabilities

ASSUME SizeAssumption == PoolSize \in Nat \ {0} /\ Scale \in Nat \ {0}

Pool == 1 .. PoolSize
Unit == 0 .. Scale
Strongest == PoolSize

\* ModelPool.by_tier keeps a tier inside the pool.
ByTier(t) == IF t < 1 THEN 1 ELSE IF t > PoolSize THEN PoolSize ELSE t

\* max() of Python and np.argmax: the first of the best.
First(S) == CHOOSE x \in S : \A y \in S : x <= y
ArgMax(f) == First({x \in DOMAIN f : \A y \in DOMAIN f : f[y] <= f[x]})

Label(score, easyBelow, hardAbove) ==
    IF score < easyBelow THEN "easy" ELSE IF score > hardAbove THEN "hard" ELSE "medium"

\* The mean of the predicted tiers, out of Scale; PoolSize + 1 stands for no model.
ExpectedDifficulty(proba) ==
    SumFunction([t \in DOMAIN proba |-> (t - 1) * proba[t]]) \div PoolSize

ThresholdRoute(score, thresholds) ==
    ByTier(1 + Cardinality({j \in DOMAIN thresholds : score >= thresholds[j]}))

\* The default thresholds: even ones.
EvenThresholds == [j \in 1 .. PoolSize - 1 |-> (j * Scale) \div PoolSize]

\* The first rule all of whose fields match; a rule is [when, model].
RuleRoute(rules, values, default) ==
    LET matching == {j \in DOMAIN rules :
                        \A f \in DOMAIN rules[j].when : values[f] \in rules[j].when[f]}
    IN IF matching = {} THEN default ELSE rules[First(matching)].model

DefaultRules ==
    <<[when |-> [difficulty |-> {"hard"}], model |-> Strongest],
      [when |-> [category |-> {"coding", "math", "logic"}], model |-> ByTier(2)],
      [when |-> [language |-> {"kk", "fa"}], model |-> ByTier(2)]>>

\* The predicted tier; a query no model is predicted to solve goes to the strongest.
LearnedRoute(proba) == ByTier(ArgMax(proba))

\* The first model likely enough to succeed, else the likeliest.  Slip: else the cheapest.
CostAwareOrCheapest(p, target) ==
    LET likely == {m \in Pool : p[m] >= target}
    IN IF likely # {} THEN First(likely) ELSE 1
CostAwareRoute(p, target) ==
    LET likely == {m \in Pool : p[m] >= target}
    IN IF likely # {} THEN First(likely) ELSE ArgMax(p)

QualityCostRoute(p, cost, latency, costWeight, latencyWeight) ==
    ArgMax([m \in Pool |-> Scale * p[m] - costWeight * cost[m] - latencyWeight * latency[m]])

-----------------------------------------------------------------------------

\* A harder query never goes to a weaker model, a higher target never to an earlier one, and
\* a higher price of compute never to a more expensive one ("sweeping lambda traces a
\* quality/cost Pareto front", router/learned.py), whatever the order of the costs.
RoutersAreMonotone ==
    /\ \A s, t \in Unit : s <= t =>
          ThresholdRoute(s, EvenThresholds) <= ThresholdRoute(t, EvenThresholds)
    /\ \A p \in [Pool -> Unit] : \A s, t \in 1 .. Scale : s <= t =>
          CostAwareRoute(p, s) <= CostAwareRoute(p, t)
    /\ \A p, cost \in [Pool -> {0, Scale \div 2, Scale}] : \A s, t \in Unit : s <= t =>
          cost[QualityCostRoute(p, cost, p, t, 1)] <= cost[QualityCostRoute(p, cost, p, s, 1)]
=============================================================================
