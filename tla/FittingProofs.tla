---------------------------- MODULE FittingProofs ----------------------------
(***************************************************************************)
(* What is learned is learned out of sample, what is generated was warmed  *)
(* first and what is served was certified as it is served, for every data  *)
(* set, every configuration and every number of folds; the routers choose  *)
(* a model of the pool, and choose monotonically, for every pool and every *)
(* grain of the scores; the threshold that is certified is the lowest one  *)
(* fixed-sequence testing certifies, for every calibration set, target,    *)
(* delta and number of confidences.                                        *)
(***************************************************************************)
EXTENDS Fitting, RiskControl, FiniteSetTheorems, TLAPS

-----------------------------------------------------------------------------
(* Routing. *)

\* A set of naturals has a least element: of the initial segments that end in it, one
\* is the smallest.
LEMMA Least ==
    ASSUME NEW S \in SUBSET Nat, S # {}
    PROVE  \E x \in S : \A y \in S : x <= y
<1>. DEFINE Segments == {0 .. x : x \in S}
<1>1. Segments \subseteq FiniteSubsetsOf(Nat) /\ Segments # {}
  <2>1. ASSUME NEW x \in S
        PROVE  0 .. x \in FiniteSubsetsOf(Nat)
    <3>1. IsFiniteSet(0 .. x)
      BY FS_Interval
    <3>. QED
      BY <3>1 DEF FiniteSubsetsOf
  <2>. QED
    BY <2>1
<1>2. IsWellFoundedOn(StrictSubsetOrdering(Nat), FiniteSubsetsOf(Nat))
  BY FS_StrictSubsetOrderingWellFounded
<1>. HIDE DEF Segments
<1>3. PICK U \in Segments : \A V \in Segments : ~(<<V, U>> \in StrictSubsetOrdering(Nat))
  BY <1>1, <1>2, WFMin, Zenon
<1>. USE DEF Segments
<1>4. PICK x \in S : U = 0 .. x
  BY <1>3
<1>5. ASSUME NEW y \in S, y < x
      PROVE  FALSE
  <2>1. 0 .. y \subseteq 0 .. x /\ 0 .. y # 0 .. x
    <3>1. x \in 0 .. x /\ x \notin 0 .. y
      BY <1>5
    <3>. QED
      BY <1>5, <3>1
  <2>2. <<0 .. y, 0 .. x>> \in StrictSubsetOrdering(Nat)
    BY <2>1 DEF StrictSubsetOrdering
  <2>. QED
    BY <1>3, <1>4, <2>2
<1>. QED
  BY <1>5

\* A set of naturals that has 0 and, with a number, the next one is all of them.
LEMMA SuccessorClosed ==
    ASSUME NEW S \in SUBSET Nat, 0 \in S, \A n \in S : n + 1 \in S
    PROVE  S = Nat
<1>1. SUFFICES ASSUME Nat \ S # {}
               PROVE  FALSE
  OBVIOUS
<1>2. PICK x \in Nat \ S : \A y \in Nat \ S : x <= y
  BY <1>1, Least
<1>3. x - 1 \in Nat /\ x - 1 < x
  BY <1>2
<1>4. x - 1 \in S
  BY <1>2, <1>3
<1>. QED
  BY <1>2, <1>4

\* The first n + 1 values of what starts at b and goes on by g.
Run(n, f, D, b, g) ==
    f \in [0 .. n -> D] /\ f[0] = b /\ \A i \in 0 .. n - 1 : f[i + 1] = g[f[i]]

LEMMA RunsExist ==
    ASSUME NEW D, NEW b \in D, NEW g \in [D -> D]
    PROVE  \A n \in Nat : \E f : Run(n, f, D, b, g)
<1>. DEFINE S == {n \in Nat : \E f : Run(n, f, D, b, g)}
<1>1. 0 \in S
  <2>1. Run(0, [i \in 0 .. 0 |-> b], D, b, g)
    BY DEF Run
  <2>. QED
    BY <2>1
<1>2. ASSUME NEW n \in S
      PROVE  n + 1 \in S
  <2>1. PICK f : Run(n, f, D, b, g)
    OBVIOUS
  <2>. DEFINE h == [i \in 0 .. n + 1 |-> IF i <= n THEN f[i] ELSE g[f[n]]]
  <2>2. n \in Nat /\ f[n] \in D /\ g[f[n]] \in D
    BY <2>1 DEF Run
  <2>3. h \in [0 .. n + 1 -> D]
    BY <2>1, <2>2 DEF Run
  <2>4. h[0] = b
    BY <2>1, <2>2 DEF Run
  <2>5. ASSUME NEW i \in 0 .. (n + 1) - 1
        PROVE  h[i + 1] = g[h[i]]
    <3>1. CASE i < n
      <4>1. h[i + 1] = f[i + 1] /\ h[i] = f[i]
        BY <2>2, <3>1
      <4>. QED
        BY <2>1, <2>2, <3>1, <4>1 DEF Run
    <3>2. CASE i = n
      BY <2>2, <3>2
    <3>. QED
      BY <2>2, <3>1, <3>2
  <2>6. Run(n + 1, h, D, b, g)
    BY <2>3, <2>4, <2>5 DEF Run
  <2>. QED
    BY <2>2, <2>6
<1>3. S = Nat
  <2>. HIDE DEF S
  <2>1. S \in SUBSET Nat
    BY DEF S
  <2>. QED
    BY <1>1, <1>2, <2>1, SuccessorClosed
<1>. QED
  BY <1>3

LEMMA RunsAgree ==
    ASSUME NEW D, NEW b, NEW g, NEW n \in Nat, NEW f, NEW h,
           Run(n, f, D, b, g), Run(n + 1, h, D, b, g)
    PROVE  h[n] = f[n]
<1>. DEFINE S == {i \in Nat : i <= n => h[i] = f[i]}
<1>1. 0 \in S
  BY DEF Run
<1>2. ASSUME NEW i \in S
      PROVE  i + 1 \in S
  <2>1. CASE i + 1 <= n
    <3>1. i \in 0 .. n - 1 /\ i \in 0 .. (n + 1) - 1 /\ h[i] = f[i]
      BY <2>1
    <3>2. h[i + 1] = g[h[i]] /\ f[i + 1] = g[f[i]]
      BY <3>1 DEF Run
    <3>. QED
      BY <3>1, <3>2
  <2>2. CASE ~(i + 1 <= n)
    BY <2>2
  <2>. QED
    BY <2>1, <2>2
<1>3. S = Nat
  <2>. HIDE DEF S
  <2>1. S \in SUBSET Nat
    BY DEF S
  <2>. QED
    BY <1>1, <1>2, <2>1, SuccessorClosed
<1>. QED
  BY <1>3

\* Iteration from b by g is a function on the naturals: what a recursive definition needs.
Iterates(F, D, b, g) ==
    F \in [Nat -> D] /\ F[0] = b /\ \A n \in Nat : F[n + 1] = g[F[n]]

LEMMA Iteration ==
    ASSUME NEW D, NEW b \in D, NEW g \in [D -> D]
    PROVE  \E F : Iterates(F, D, b, g)
<1>. DEFINE Of(n) == CHOOSE f : Run(n, f, D, b, g)
            F == [n \in Nat |-> Of(n)[n]]
<1>1. \A n \in Nat : Run(n, Of(n), D, b, g)
  BY RunsExist
<1>. HIDE DEF Of
<1>2. ASSUME NEW n \in Nat
      PROVE  F[n] \in D /\ F[n + 1] = g[F[n]]
  <2>1. Run(n, Of(n), D, b, g) /\ Run(n + 1, Of(n + 1), D, b, g) /\ n + 1 \in Nat
    BY <1>1
  <2>2. Of(n + 1)[n] = Of(n)[n]
    BY <2>1, RunsAgree
  <2>3. Of(n)[n] \in D
    BY <2>1 DEF Run
  <2>4. Of(n + 1)[n + 1] = g[Of(n + 1)[n]]
    BY <2>1 DEF Run
  <2>. QED
    BY <2>1, <2>2, <2>3, <2>4
<1>3. F[0] = b
  BY <1>1 DEF Run
<1>4. F \in [Nat -> D]
  BY <1>2
<1>. HIDE DEF F
<1>5. Iterates(F, D, b, g)
  BY <1>2, <1>3, <1>4 DEF Iterates
<1>. QED
  BY <1>5

\* The first of some positions is one of them, and none is before it.
LEMMA FirstIsLeast ==
    ASSUME NEW S \in SUBSET Nat, S # {}
    PROVE  First(S) \in S /\ \A y \in S : First(S) <= y
BY Least DEF First

\* Some position holds the best value, if the values are bounded.
LEMMA BestExists ==
    ASSUME NEW D \in SUBSET Nat, D # {}, NEW f \in [D -> Int], NEW bound \in Int,
           \A x \in D : f[x] <= bound
    PROVE  \E x \in D : \A y \in D : f[y] <= f[x]
<1>. DEFINE Gaps == {bound - f[x] : x \in D}
<1>1. Gaps \in SUBSET Nat /\ Gaps # {}
  <2>1. ASSUME NEW x \in D
        PROVE  bound - f[x] \in Nat
    <3>1. f[x] \in Int /\ f[x] <= bound
      OBVIOUS
    <3>. QED
      BY <3>1
  <2>. QED
    BY <2>1
<1>. HIDE DEF Gaps
<1>2. PICK g \in Gaps : \A h \in Gaps : g <= h
  BY <1>1, Least
<1>3. PICK x \in D : g = bound - f[x]
  BY <1>2 DEF Gaps
<1>4. \A y \in D : bound - f[y] \in Gaps
  BY DEF Gaps
<1>. QED
  BY <1>2, <1>3, <1>4

\* ArgMax is a position of the best value.
LEMMA ArgMaxIsBest ==
    ASSUME NEW D \in SUBSET Nat, D # {}, NEW f \in [D -> Int], NEW bound \in Int,
           \A x \in D : f[x] <= bound
    PROVE  ArgMax(f) \in D /\ \A y \in D : f[y] <= f[ArgMax(f)]
<1>. DEFINE Best == {x \in DOMAIN f : \A y \in DOMAIN f : f[y] <= f[x]}
<1>1. Best \in SUBSET Nat /\ Best # {}
  BY BestExists
<1>2. ArgMax(f) = First(Best)
  BY DEF ArgMax
<1>. HIDE DEF Best
<1>3. First(Best) \in Best
  BY <1>1, FirstIsLeast
<1>. QED
  BY <1>2, <1>3 DEF Best

LEMMA ByTierInPool ==
    ASSUME NEW t \in Int
    PROVE  ByTier(t) \in Pool
BY SizeAssumption DEF SizeAssumption, ByTier, Pool

LEMMA ByTierIsMonotone ==
    ASSUME NEW t \in Int, NEW u \in Int, t <= u
    PROVE  ByTier(t) <= ByTier(u)
BY SizeAssumption DEF SizeAssumption, ByTier

-----------------------------------------------------------------------------

\* The thresholds a score reaches, which are finitely many.
Reached(score) == {j \in DOMAIN EvenThresholds : score >= EvenThresholds[j]}

LEMMA ReachedIsFinite ==
    ASSUME NEW score
    PROVE  IsFiniteSet(Reached(score)) /\ Cardinality(Reached(score)) \in Nat
<1>1. IsFiniteSet(1 .. PoolSize - 1)
  BY SizeAssumption, FS_Interval DEF SizeAssumption
<1>2. Reached(score) \in SUBSET (1 .. PoolSize - 1)
  BY DEF Reached, EvenThresholds
<1>. QED
  BY <1>1, <1>2, FS_Subset, FS_CardinalityType

LEMMA ThresholdRouteInPool ==
    ASSUME NEW score
    PROVE  ThresholdRoute(score, EvenThresholds) \in Pool
<1>1. 1 + Cardinality(Reached(score)) \in Int
  BY ReachedIsFinite
<1>. QED
  BY <1>1, ByTierInPool DEF ThresholdRoute, Reached

\* A harder query does not go to a weaker model.
LEMMA ThresholdRouteIsMonotone ==
    ASSUME NEW s \in Unit, NEW t \in Unit, s <= t
    PROVE  ThresholdRoute(s, EvenThresholds) <= ThresholdRoute(t, EvenThresholds)
<1>1. \A j \in 1 .. PoolSize - 1 : EvenThresholds[j] \in Int
  BY SizeAssumption DEF SizeAssumption, EvenThresholds
<1>2. Reached(s) \in SUBSET Reached(t)
  BY <1>1, SizeAssumption DEF SizeAssumption, Reached, EvenThresholds, Unit
<1>3. Cardinality(Reached(s)) <= Cardinality(Reached(t))
  BY <1>2, ReachedIsFinite, FS_Subset
<1>4. /\ 1 + Cardinality(Reached(s)) \in Int
      /\ 1 + Cardinality(Reached(t)) \in Int
      /\ 1 + Cardinality(Reached(s)) <= 1 + Cardinality(Reached(t))
  BY <1>3, ReachedIsFinite
<1>. QED
  BY <1>4, ByTierIsMonotone DEF ThresholdRoute, Reached

-----------------------------------------------------------------------------

LEMMA PoolIsNotEmpty == Pool \in SUBSET Nat /\ Pool # {} /\ 1 \in Pool
BY SizeAssumption DEF SizeAssumption, Pool

LEMMA CostAwareRouteInPool ==
    ASSUME NEW p \in [Pool -> Unit], NEW target \in Int
    PROVE  /\ CostAwareRoute(p, target) \in Pool
           /\ \A m \in Pool : p[m] >= target => /\ p[CostAwareRoute(p, target)] >= target
                                                /\ CostAwareRoute(p, target) <= m
           /\ (\A m \in Pool : p[m] < target) =>
                 \A m \in Pool : p[m] <= p[CostAwareRoute(p, target)]
<1>. DEFINE likely == {m \in Pool : p[m] >= target}
<1>1. likely \in SUBSET Nat
  BY PoolIsNotEmpty
<1>2. p \in [Pool -> Int] /\ Scale \in Int /\ \A m \in Pool : p[m] <= Scale
  BY SizeAssumption DEF SizeAssumption, Unit
<1>3. ArgMax(p) \in Pool /\ \A m \in Pool : p[m] <= p[ArgMax(p)]
  BY <1>2, PoolIsNotEmpty, ArgMaxIsBest
<1>4. CASE likely # {}
  <2>1. First(likely) \in likely /\ \A m \in likely : First(likely) <= m
    BY <1>1, <1>4, FirstIsLeast
  <2>2. CostAwareRoute(p, target) = First(likely)
    BY <1>4 DEF CostAwareRoute
  <2>3. \E m \in Pool : ~(p[m] < target)
    BY <1>2, <1>4
  <2>. QED
    BY <2>1, <2>2, <2>3
<1>5. CASE likely = {}
  <2>1. CostAwareRoute(p, target) = ArgMax(p)
    BY <1>5 DEF CostAwareRoute
  <2>. QED
    BY <1>3, <1>5, <2>1
<1>. QED
  BY <1>4, <1>5

\* A higher target does not go to an earlier model.
LEMMA CostAwareRouteIsMonotone ==
    ASSUME NEW p \in [Pool -> Unit], NEW s \in Int, NEW t \in Int, s <= t
    PROVE  CostAwareRoute(p, s) <= CostAwareRoute(p, t)
<1>. DEFINE m == CostAwareRoute(p, s)
            n == CostAwareRoute(p, t)
<1>1. p \in [Pool -> Int]
  BY SizeAssumption DEF SizeAssumption, Unit
<1>2. m \in Pool /\ n \in Pool
  BY CostAwareRouteInPool
<1>3. CASE p[n] >= s
  BY <1>3, <1>2, CostAwareRouteInPool
<1>4. CASE p[n] < s
  <2>1. \A k \in Pool : p[k] < t
    BY <1>1, <1>2, <1>4, CostAwareRouteInPool
  <2>2. \A k \in Pool : p[k] <= p[n]
    BY <2>1, CostAwareRouteInPool
  <2>3. \A k \in Pool : ~(p[k] >= s) /\ ~(p[k] >= t)
    BY <1>1, <1>2, <1>4, <2>1, <2>2
  <2>4. m = ArgMax(p) /\ n = ArgMax(p)
    BY <2>3 DEF CostAwareRoute
  <2>5. m = n /\ m \in Nat
    BY <1>2, <2>4, PoolIsNotEmpty
  <2>. QED
    BY <2>5
<1>. QED
  BY <1>1, <1>2, <1>3, <1>4

-----------------------------------------------------------------------------

\* The utility of each model.
Worth(p, cost, latency, a, b) ==
    [m \in Pool |-> Scale * p[m] - a * cost[m] - b * latency[m]]

LEMMA QualityCostRouteIsBest ==
    ASSUME NEW p \in [Pool -> Nat], NEW cost \in [Pool -> Nat], NEW latency \in [Pool -> Nat],
           NEW a \in Nat, NEW b \in Nat, NEW bound \in Int,
           \A m \in Pool : Worth(p, cost, latency, a, b)[m] <= bound
    PROVE  /\ QualityCostRoute(p, cost, latency, a, b) \in Pool
           /\ \A m \in Pool :
                 Worth(p, cost, latency, a, b)[m]
                    <= Worth(p, cost, latency, a, b)[QualityCostRoute(p, cost, latency, a, b)]
<1>1. Worth(p, cost, latency, a, b) \in [Pool -> Int]
  BY SizeAssumption DEF SizeAssumption, Worth
<1>2. QualityCostRoute(p, cost, latency, a, b) = ArgMax(Worth(p, cost, latency, a, b))
  BY DEF QualityCostRoute, Worth
<1>. QED
  BY <1>1, <1>2, PoolIsNotEmpty, ArgMaxIsBest

\* Two prices of compute: the higher one does not choose the more expensive model.
LEMMA CheaperAtHigherPrice ==
    ASSUME NEW s \in Int, NEW t \in Int, s <= t, NEW x \in Int, NEW y \in Int,
           NEW c \in Int, NEW d \in Int,
           y - s * d <= x - s * c,
           x - t * c <= y - t * d
    PROVE  s < t => d <= c
<1>. SUFFICES ASSUME s < t, c < d
              PROVE  FALSE
  OBVIOUS
<1>1. (t - s) * (d - c) <= 0
  OBVIOUS
<1>2. t - s >= 1 /\ d - c >= 1
  OBVIOUS
<1>. QED
  BY <1>1, <1>2

\* p is also the latency here, and two prices of compute are compared.
LEMMA QualityCostRouteIsMonotone ==
    ASSUME NEW p \in [Pool -> Unit], NEW cost \in [Pool -> Unit],
           NEW s \in Unit, NEW t \in Unit, s <= t
    PROVE  cost[QualityCostRoute(p, cost, p, t, 1)] <= cost[QualityCostRoute(p, cost, p, s, 1)]
<1>. DEFINE m == QualityCostRoute(p, cost, p, s, 1)
            n == QualityCostRoute(p, cost, p, t, 1)
<1>1. /\ p \in [Pool -> Nat] /\ cost \in [Pool -> Nat]
      /\ s \in Nat /\ t \in Nat /\ Scale \in Nat /\ Scale * Scale \in Int
  BY SizeAssumption DEF SizeAssumption, Unit
<1>2. ASSUME NEW a \in Nat, NEW k \in Pool
      PROVE  Worth(p, cost, p, a, 1)[k] <= Scale * Scale
  <2>1. /\ p[k] \in Nat /\ p[k] <= Scale /\ cost[k] \in Nat
        /\ Worth(p, cost, p, a, 1)[k] = Scale * p[k] - a * cost[k] - 1 * p[k]
    BY <1>1 DEF Worth, Unit
  <2>2. Scale * p[k] <= Scale * Scale
    BY <1>1, <2>1
  <2>3. a * cost[k] >= 0
    BY <2>1
  <2>. QED
    BY <1>1, <2>1, <2>2, <2>3
<1>3. /\ m \in Pool /\ n \in Pool
      /\ Worth(p, cost, p, s, 1)[n] <= Worth(p, cost, p, s, 1)[m]
      /\ Worth(p, cost, p, t, 1)[m] <= Worth(p, cost, p, t, 1)[n]
  BY <1>1, <1>2, QualityCostRouteIsBest
<1>. HIDE DEF m, n
<1>4. /\ Scale * p[n] - s * cost[n] - 1 * p[n] <= Scale * p[m] - s * cost[m] - 1 * p[m]
      /\ Scale * p[m] - t * cost[m] - 1 * p[m] <= Scale * p[n] - t * cost[n] - 1 * p[n]
  BY <1>3 DEF Worth
<1>5. /\ Scale * p[n] - 1 * p[n] \in Int /\ Scale * p[m] - 1 * p[m] \in Int
      /\ cost[m] \in Int /\ cost[n] \in Int
  BY <1>1, <1>3
<1>6. CASE s = t
  BY <1>1, <1>3, <1>5, <1>6 DEF m, n
<1>7. CASE s < t
  <2>. DEFINE x == Scale * p[m] - 1 * p[m]
              y == Scale * p[n] - 1 * p[n]
  <2>1. y - s * cost[n] <= x - s * cost[m] /\ x - t * cost[m] <= y - t * cost[n]
    <3>1. /\ Scale * p[m] \in Int /\ Scale * p[n] \in Int /\ p[m] \in Int /\ p[n] \in Int
          /\ s * cost[m] \in Int /\ s * cost[n] \in Int
          /\ t * cost[m] \in Int /\ t * cost[n] \in Int
      BY <1>1, <1>3
    <3>. QED
      BY <3>1, <1>4
  <2>2. x \in Int /\ y \in Int
    BY <1>5
  <2>. HIDE DEF x, y
  <2>3. cost[n] <= cost[m]
    <3>1. s \in Int /\ t \in Int
      BY <1>1
    <3>. QED
      BY <3>1, <1>5, <1>7, <2>1, <2>2, CheaperAtHigherPrice, Zenon
  <2>. QED
    BY <2>3 DEF m, n
<1>. QED
  BY <1>1, <1>6, <1>7

\* Whatever was learned, a harder query does not go to a weaker model, a higher target not to
\* an earlier one, and a higher price of compute not to a more expensive one.
THEOREM MonotoneRouters == RoutersAreMonotone
<1>1. \A p \in [Pool -> Unit] : \A s, t \in 1 .. Scale : s <= t =>
          CostAwareRoute(p, s) <= CostAwareRoute(p, t)
  BY CostAwareRouteIsMonotone
<1>2. \A p, cost \in [Pool -> {0, Scale \div 2, Scale}] :
          p \in [Pool -> Unit] /\ cost \in [Pool -> Unit]
  <2>1. {0, Scale \div 2, Scale} \subseteq Unit
    BY SizeAssumption DEF SizeAssumption, Unit
  <2>. QED
    BY <2>1
<1>. QED
  BY <1>1, <1>2, ThresholdRouteIsMonotone, QualityCostRouteIsMonotone DEF RoutersAreMonotone

-----------------------------------------------------------------------------
(* Risk control. *)

\* What the scan has established above the next candidate: every tested candidate there is
\* certified, and best is the lowest of them; a scan that stopped did so at a failure.
ScanInv ==
    /\ \A l \in Levels : l > level /\ Tested(l) => Certified(l) /\ best # 0 /\ best <= l
    /\ best # 0 => best \in Levels /\ best > level /\ Tested(best)
    /\ stopped => level \in Levels /\ Tested(level) /\ ~Certified(level)

\* The calibration answers do not change, and with them no candidate does.
LEMMA DataFixed ==
    ASSUME UNCHANGED <<settings, right, wrong>>
    PROVE  \A l \in Levels : /\ Tested(l)' = Tested(l)
                             /\ Certified(l)' = Certified(l)
  BY DEF Tested, Certified, Candidate, Enough, Accepted, Errors

\* The scan stays inside the candidates.
THEOREM TypeCorrect == ScanSpec => []TypeOK
<1>1. ScanInit => TypeOK
  <2>1. Top \in 0 .. Top /\ 0 \in 0 .. Top
    BY TopAssumption DEF TopAssumption
  <2>. QED
    BY <2>1 DEF ScanInit, TypeOK
<1>2. TypeOK /\ [ScanNext]_scanVars => TypeOK'
  <2>. SUFFICES ASSUME TypeOK, [ScanNext]_scanVars
                PROVE  TypeOK'
    OBVIOUS
  <2>1. CASE Scanning /\ level' = level - 1 /\ best' \in {best, level}
             /\ UNCHANGED <<settings, right, wrong, stopped>>
    <3>1. level' \in 0 .. Top /\ best' \in 0 .. Top
      BY <2>1, TopAssumption DEF TopAssumption, TypeOK, Scanning
    <3>. QED
      BY <2>1, <3>1 DEF TypeOK
  <2>2. CASE PassOver
    BY <2>1, <2>2 DEF PassOver
  <2>3. CASE CertifyLevel
    BY <2>1, <2>3 DEF CertifyLevel
  <2>4. CASE Stop
    BY <2>4 DEF Stop, TypeOK
  <2>5. CASE UNCHANGED scanVars
    BY <2>5 DEF scanVars, TypeOK
  <2>. QED
    BY <2>2, <2>3, <2>4, <2>5 DEF ScanNext
<1>. QED
  BY <1>1, <1>2, PTL DEF ScanSpec

LEMMA ScanInvInductive == ScanSpec => []ScanInv
<1>1. ScanInit => ScanInv
  BY TopAssumption DEF TopAssumption, ScanInit, ScanInv, Levels
<1>2. TypeOK /\ ScanInv /\ [ScanNext]_scanVars => ScanInv'
  <2>. SUFFICES ASSUME TypeOK, ScanInv, [ScanNext]_scanVars
                PROVE  ScanInv'
    OBVIOUS
  <2>1. UNCHANGED <<settings, right, wrong>>
    BY DEF ScanNext, PassOver, CertifyLevel, Stop, scanVars
  <2>2. \A l \in Levels : Tested(l)' = Tested(l) /\ Certified(l)' = Certified(l)
    BY <2>1, DataFixed
  <2>3. level \in 0 .. Top /\ Top \in Nat
    BY TopAssumption DEF TopAssumption, TypeOK
  <2>4. CASE PassOver
    BY <2>2, <2>3, <2>4 DEF PassOver, Scanning, ScanInv, Levels
  <2>5. CASE CertifyLevel
    BY <2>2, <2>3, <2>5 DEF CertifyLevel, Scanning, ScanInv, Levels
  <2>6. CASE Stop
    BY <2>2, <2>3, <2>6 DEF Stop, Scanning, ScanInv, Levels
  <2>7. CASE UNCHANGED scanVars
    BY <2>2, <2>3, <2>7 DEF scanVars, ScanInv, Levels
  <2>. QED
    BY <2>4, <2>5, <2>6, <2>7 DEF ScanNext
<1>. QED
  BY <1>1, <1>2, TypeCorrect, PTL DEF ScanSpec

\* A threshold is certified only behind an unbroken sequence of certified ones.
THEOREM FixedSequenceTested == ScanSpec => []FixedSequence
<1>1. TypeOK /\ ScanInv => FixedSequence
  BY TopAssumption DEF TopAssumption, TypeOK, ScanInv, FixedSequence, Levels
<1>. QED
  BY <1>1, TypeCorrect, ScanInvInductive, PTL

\* When the scan ends no lower threshold could have been certified.
THEOREM LowestThresholdReturned == ScanSpec => []LowestThreshold
<1>1. TypeOK /\ ScanInv => LowestThreshold
  BY TopAssumption DEF TopAssumption, TypeOK, ScanInv, LowestThreshold, Scanning, Levels
<1>. QED
  BY <1>1, TypeCorrect, ScanInvInductive, PTL

-----------------------------------------------------------------------------
(* The start of the scan. *)

LEMMA PowerOf ==
    ASSUME NEW b \in Nat
    PROVE  Power(b, 0) = 1 /\ \A n \in Nat : Power(b, n + 1) = b * Power(b, n)
<1>. DEFINE Step(f) == [i \in Nat |-> IF i = 0 THEN 1 ELSE b * f[i - 1]]
            power == CHOOSE f : f = Step(f)
            g == [x \in Nat |-> b * x]
<1>1. g \in [Nat -> Nat]
  OBVIOUS
<1>. HIDE DEF g
<1>2. PICK F : Iterates(F, Nat, 1, g)
  BY <1>1, Iteration
<1>3. ASSUME NEW i \in Nat
      PROVE  F[i] = Step(F)[i]
  <2>1. CASE i = 0
    BY <1>2, <2>1 DEF Iterates
  <2>2. CASE i # 0
    <3>1. i - 1 \in Nat /\ (i - 1) + 1 = i
      BY <2>2
    <3>2. F[i] = g[F[i - 1]] /\ F[i - 1] \in Nat
      BY <1>2, <3>1 DEF Iterates
    <3>3. g[F[i - 1]] = b * F[i - 1]
      BY <3>2 DEF g
    <3>. QED
      BY <2>2, <3>2, <3>3
  <2>. QED
    BY <2>1, <2>2
<1>4. F = Step(F)
  BY <1>2, <1>3 DEF Iterates
<1>. HIDE DEF Step
<1>5. power = Step(power)
  BY <1>4
<1>. USE DEF Step
<1>6. \A n : Power(b, n) = power[n]
  BY DEF Power
<1>. HIDE DEF power
<1>7. power[0] = 1
  BY <1>5
<1>8. ASSUME NEW n \in Nat
      PROVE  power[n + 1] = b * power[n]
  <2>1. n + 1 \in Nat /\ n + 1 # 0 /\ (n + 1) - 1 = n
    OBVIOUS
  <2>2. power[n + 1] = Step(power)[n + 1]
    BY <1>5
  <2>. QED
    BY <2>1, <2>2
<1>. QED
  BY <1>6, <1>7, <1>8

\* No error among n answers has the probability that all of them are correct.
LEMMA NoErrorTail ==
    ASSUME NEW s \in Settings
    PROVE  \A n \in Nat : ErrorTail(s, 0, n) = Power(s.scale - s.risk, n)
<1>. DEFINE ok == s.scale - s.risk
            Next1(f) == [j \in Nat |-> ok * f[j] + (IF j = 0 THEN 0 ELSE s.risk * f[j - 1])]
            Step(f) ==
                [i \in Nat |->
                    [j \in Nat |->
                        IF i = 0 THEN 1
                        ELSE ok * f[i - 1][j] + (IF j = 0 THEN 0 ELSE s.risk * f[i - 1][j - 1])]]
            tails == CHOOSE f : f = Step(f)
            D == [Nat -> Nat]
            g == [f \in D |-> Next1(f)]
            one == [j \in Nat |-> 1]
<1>1. ok \in Nat /\ s.risk \in Nat
  BY SettingsAssumption, FractionAssumption DEF SettingsAssumption, FractionAssumption
<1>. HIDE DEF ok
<1>2. one \in D /\ g \in [D -> D]
  <2>1. ASSUME NEW f \in D, NEW j \in Nat
        PROVE  ok * f[j] + (IF j = 0 THEN 0 ELSE s.risk * f[j - 1]) \in Nat
    <3>1. f[j] \in Nat /\ ok * f[j] \in Nat
      BY <1>1
    <3>2. CASE j = 0
      BY <3>1, <3>2
    <3>3. CASE j # 0
      <4>1. f[j - 1] \in Nat
        BY <3>3
      <4>2. s.risk * f[j - 1] \in Nat
        BY <1>1, <4>1
      <4>. QED
        BY <3>1, <3>3, <4>2
    <3>. QED
      BY <3>2, <3>3
  <2>2. \A f \in D : Next1(f) \in D
    BY <2>1
  <2>. QED
    BY <2>2
<1>. HIDE DEF g, one, D
<1>3. PICK F : Iterates(F, D, one, g)
  BY <1>2, Iteration
<1>4. ASSUME NEW i \in Nat
      PROVE  F[i] = Step(F)[i]
  <2>1. CASE i = 0
    BY <1>3, <2>1 DEF one, Iterates
  <2>2. CASE i # 0
    <3>1. i - 1 \in Nat /\ (i - 1) + 1 = i
      BY <2>2
    <3>2. F[i] = g[F[i - 1]] /\ F[i - 1] \in D
      BY <1>3, <3>1 DEF Iterates
    <3>3. g[F[i - 1]] = Next1(F[i - 1])
      BY <3>2 DEF g
    <3>4. Step(F)[i] = Next1(F[i - 1])
      BY <2>2
    <3>. QED
      BY <3>2, <3>3, <3>4
  <2>. QED
    BY <2>1, <2>2
<1>5. F = Step(F)
  BY <1>3, <1>4 DEF Iterates
<1>6. \A n : ErrorTail(s, 0, n) = tails[n][0]
  BY DEF ErrorTail, ok
<1>. HIDE DEF Step
<1>7. tails = Step(tails)
  BY <1>5
<1>. HIDE DEF tails
<1>. USE DEF Step
<1>8. tails[0][0] = 1
  BY <1>7
<1>9. ASSUME NEW n \in Nat
      PROVE  tails[n + 1][0] = ok * tails[n][0] + 0
  <2>1. n + 1 \in Nat /\ n + 1 # 0 /\ (n + 1) - 1 = n
    OBVIOUS
  <2>2. tails[n + 1] = Step(tails)[n + 1]
    BY <1>7
  <2>. QED
    BY <2>1, <2>2
<1>. DEFINE S == {n \in Nat : tails[n][0] = Power(ok, n) /\ tails[n][0] \in Nat}
<1>10. S = Nat
  <2>1. 0 \in S
    BY <1>1, <1>8, PowerOf
  <2>2. ASSUME NEW n \in S
        PROVE  n + 1 \in S
    <3>1. Power(ok, n + 1) = ok * Power(ok, n)
      BY <1>1, PowerOf
    <3>2. tails[n + 1][0] = ok * tails[n][0] + 0
      BY <1>9
    <3>3. ok * tails[n][0] \in Nat
      BY <1>1
    <3>. QED
      BY <3>1, <3>2, <3>3
  <2>. HIDE DEF S
  <2>3. S \in SUBSET Nat
    BY DEF S
  <2>. QED
    BY <2>1, <2>2, <2>3, SuccessorClosed
<1>. QED
  BY <1>6, <1>10 DEF ok

\* Answers are counted.
LEMMA CountsAreNumbers ==
    ASSUME TypeOK, NEW l \in Levels
    PROVE  /\ IsFiniteSet(Answers(right, l)) /\ IsFiniteSet(Answers(wrong, l))
           /\ Errors(l) \in Nat /\ Accepted(l) \in Nat
           /\ Candidate(l) => Accepted(l) > 0
<1>1. l \in Int /\ Top \in Int /\ MaxCount \in Int /\ l \in Accepting(l)
  BY TopAssumption DEF TopAssumption, Levels, Accepting
<1>2. IsFiniteSet(Accepting(l) \X (1 .. MaxCount))
  <2>1. IsFiniteSet(Accepting(l)) /\ IsFiniteSet(1 .. MaxCount)
    BY <1>1, FS_Interval DEF Accepting
  <2>. QED
    BY <2>1, FS_Product
<1>3. \A count : IsFiniteSet(Answers(count, l))
  BY <1>2, FS_Subset DEF Answers
<1>4. Cardinality(Answers(right, l)) \in Nat /\ Cardinality(Answers(wrong, l)) \in Nat
  BY <1>3, FS_CardinalityType
<1>5. ASSUME NEW count \in [Levels -> 0 .. MaxCount], count[l] > 0
      PROVE  Cardinality(Answers(count, l)) # 0
  <2>1. 1 \in 1 .. MaxCount /\ 1 <= count[l]
    BY <1>1, <1>5
  <2>2. <<l, 1>> \in Answers(count, l)
    BY <1>1, <2>1 DEF Answers
  <2>. QED
    BY <1>3, <2>2, FS_EmptySet
<1>6. Candidate(l) => right[l] > 0 \/ wrong[l] > 0
  BY <1>1 DEF Candidate, TypeOK
<1>7. Candidate(l) => Accepted(l) > 0
  BY <1>4, <1>5, <1>6 DEF Accepted, TypeOK
<1>. QED
  BY <1>3, <1>4, <1>7 DEF Errors, Accepted

\* Nothing that could be certified is passed over for its number of answers, and what ends the
\* scan are errors.
THEOREM StartAttainable == ScanSpec => []StartIsAttainable
<1>1. TypeOK /\ ScanInv => StartIsAttainable
  <2>. SUFFICES ASSUME TypeOK, ScanInv, NEW l \in Levels
                PROVE  /\ Candidate(l) /\ ~Enough(l) /\ Accepted(l) >= settings.minAccepted =>
                             ~WithinTarget(settings, 0, Accepted(l))
                       /\ stopped /\ l = level => Errors(l) > 0
    BY DEF StartIsAttainable
  <2>1. /\ Errors(l) \in Nat /\ Accepted(l) \in Nat
        /\ Candidate(l) => Accepted(l) > 0
    BY CountsAreNumbers
  <2>2. settings \in Settings
    BY DEF TypeOK
  <2>3. \A n \in Nat : ErrorTail(settings, 0, n) = Power(settings.scale - settings.risk, n)
    BY <2>2, NoErrorTail
  <2>4. 0 < Accepted(l) => (WithinTarget(settings, 0, Accepted(l))
                               <=> Attainable(settings, Accepted(l)))
    BY <2>1, <2>3 DEF WithinTarget, Attainable
  <2>5. Candidate(l) /\ ~Enough(l) /\ Accepted(l) >= settings.minAccepted =>
            ~WithinTarget(settings, 0, Accepted(l))
    BY <2>1, <2>4 DEF Enough
  <2>6. ASSUME stopped, l = level
        PROVE  Errors(l) > 0
    <3>1. Tested(l) /\ ~Certified(l)
      BY <2>6 DEF ScanInv
    <3>2. ~WithinTarget(settings, Errors(l), Accepted(l)) /\ 0 < Accepted(l)
      BY <2>1, <3>1 DEF Certified, Tested
    <3>3. WithinTarget(settings, 0, Accepted(l))
      BY <2>4, <3>1, <3>2 DEF Tested, Enough
    <3>. QED
      BY <2>1, <3>2, <3>3
  <2>. QED
    BY <2>5, <2>6
<1>. QED
  BY <1>1, TypeCorrect, ScanInvInductive, PTL

-----------------------------------------------------------------------------
(* Fitting. *)

\* The groups of the three splits are apart, and there are none before Split.
Apart ==
    /\ GroupsOf(splits.train) \cap GroupsOf(splits.calibration) = {}
    /\ GroupsOf(splits.train) \cap GroupsOf(splits.test) = {}
    /\ GroupsOf(splits.calibration) \cap GroupsOf(splits.test) = {}
    /\ phase = "split" => splits.train = {} /\ splits.calibration = {}

\* What was fitted, by any component or for any fold, are training items.
FromTraining ==
    /\ classifier \subseteq splits.train
    /\ difficulty \subseteq splits.train
    /\ router.on \subseteq splits.train
    /\ \A i \in DOMAIN router.scores : router.scores[i] \subseteq splits.train

\* What was calibrated or certified are calibration items.
FromCalibration ==
    /\ \A key \in DOMAIN bank : bank[key].on \subseteq splits.calibration
    /\ \A m \in DOMAIN thresholds : thresholds[m].on \subseteq splits.calibration
    /\ \A m \in DOMAIN initialThresholds :
          initialThresholds[m].on \subseteq splits.calibration

CrossFitted ==
    config.learnedDifficulty /\ ~(Cardinality(router.on) < 2 * Folds) =>
        \A i \in router.on : i \notin router.scores[i]

LearnedInv == Apart /\ FromTraining /\ FromCalibration /\ CrossFitted

-----------------------------------------------------------------------------

\* A split takes whole groups, and no group twice (make_splits, check_disjoint).
LEMMA WholeGroups ==
    ASSUME NEW gs, NEW hs, gs \cap hs = {}
    PROVE  GroupsOf(Members(gs)) \cap GroupsOf(Members(hs)) = {}
BY DEF GroupsOf, Members

\* The classifier is fitted on the training items or on nothing.
LEMMA ClassifierFromTraining == ClassifierItems \subseteq splits.train
BY DEF ClassifierItems, LabelledOf, Nothing

\* The items a router learns from are scored by estimators fitted on some of them; by none
\* that saw the item itself, if the difficulty estimator learns and there are enough.
LEMMA Scored ==
    ASSUME NEW is, NEW estimator, estimator \subseteq is,
           NEW scores \in OutOfFoldScores(is, estimator)
    PROVE  /\ \A i \in DOMAIN scores : scores[i] \subseteq is
           /\ config.learnedDifficulty /\ ~(Cardinality(is) < 2 * Folds) =>
                 \A i \in is : i \notin scores[i]
<1>1. CASE ~config.learnedDifficulty \/ Cardinality(is) < 2 * Folds
  BY <1>1 DEF OutOfFoldScores
<1>2. CASE ~(~config.learnedDifficulty \/ Cardinality(is) < 2 * Folds)
  <2>1. PICK f \in Deals(is) : scores = [i \in is |-> {j \in is : f[j] # f[i]}]
    BY <1>2 DEF OutOfFoldScores
  <2>. QED
    BY <2>1
<1>. QED
  BY <1>1, <1>2

\* A calibrator is fitted on calibration items.
LEMMA BankFromCalibration ==
    ASSUME NEW uniform, NEW key \in DOMAIN FittedBank(uniform)
    PROVE  FittedBank(uniform)[key].on \subseteq splits.calibration
BY DEF FittedBank, AnswersOf

\* A threshold is certified on the items it is given.
LEMMA CertifiedOn ==
    ASSUME NEW items, NEW b, NEW by, NEW m \in DOMAIN Certify(items, b, by)
    PROVE  m \in Pool /\ Certify(items, b, by)[m].on = items[m]
BY DEF Certify, Certificate

-----------------------------------------------------------------------------

LEMMA InitLearned == Init => LearnedInv
BY DEF Init, LearnedInv, Apart, FromTraining, FromCalibration, CrossFitted, GroupsOf, Nothing

LEMMA NextLearned == LearnedInv /\ [Next]_vars => LearnedInv'
<1>. SUFFICES ASSUME LearnedInv, [Next]_vars
              PROVE  LearnedInv'
  OBVIOUS
<1>. USE DEF LearnedInv
<1>1. CASE Split
  <2>1. PICK t, c : /\ t \cap c = {}
                    /\ splits' = [train |-> Members(t), calibration |-> Members(c),
                                  test |-> Members(LoadedGroups \ (t \cup c))]
    BY <1>1 DEF Split, IsSplit
  <2>2. /\ splits'.train = Members(t) /\ splits'.calibration = Members(c)
        /\ splits'.test = Members(LoadedGroups \ (t \cup c))
    BY <2>1
  <2>3. Apart'
    <3>1. /\ GroupsOf(Members(t)) \cap GroupsOf(Members(c)) = {}
          /\ GroupsOf(Members(t)) \cap GroupsOf(Members(LoadedGroups \ (t \cup c))) = {}
          /\ GroupsOf(Members(c)) \cap GroupsOf(Members(LoadedGroups \ (t \cup c))) = {}
      <4>1. /\ t \cap (LoadedGroups \ (t \cup c)) = {}
            /\ c \cap (LoadedGroups \ (t \cup c)) = {}
        OBVIOUS
      <4>. QED
        BY <2>1, <4>1, WholeGroups
    <3>2. phase' # "split"
      BY <1>1 DEF Split
    <3>. QED
      BY <2>2, <3>1, <3>2 DEF Apart, GroupsOf
  <2>4. /\ splits.train = {} /\ splits.calibration = {}
        /\ UNCHANGED <<classifier, difficulty, router, bank, thresholds,
                     initialThresholds, config>>
    BY <1>1 DEF Split, Apart, setting
  <2>5. FromTraining'
    BY <2>4 DEF FromTraining
  <2>6. FromCalibration'
    BY <2>4 DEF FromCalibration
  <2>7. CrossFitted'
    BY <2>4 DEF CrossFitted
  <2>. QED
    BY <2>3, <2>5, <2>6, <2>7
<1>2. CASE FitTaskClassifier
  <2>1. /\ phase' # "split"
        /\ UNCHANGED <<splits, difficulty, router, bank, thresholds,
                     initialThresholds, config>>
    BY <1>2 DEF FitTaskClassifier, setting
  <2>2. classifier' \subseteq splits.train
    BY <1>2, ClassifierFromTraining DEF FitTaskClassifier, Nothing
  <2>3. Apart'
    BY <2>1 DEF Apart, GroupsOf
  <2>. QED
    BY <2>1, <2>2, <2>3 DEF FromTraining, FromCalibration, CrossFitted
<1>3. CASE FitDifficultyAndRouter
  <2>1. /\ phase' # "split"
        /\ UNCHANGED <<splits, classifier, bank, thresholds, initialThresholds, config>>
    BY <1>3 DEF FitDifficultyAndRouter, setting
  <2>2. Apart' /\ FromCalibration'
    BY <2>1 DEF Apart, GroupsOf, FromCalibration
  <2>3. CASE UNCHANGED <<difficulty, router>>
    BY <2>1, <2>2, <2>3 DEF FromTraining, CrossFitted
  <2>4. CASE /\ difficulty' = IF config.learnedDifficulty THEN Examples ELSE Nothing
             /\ UNCHANGED router
    <3>1. difficulty' \subseteq splits.train
      BY <2>4 DEF Examples, Nothing
    <3>. QED
      BY <2>1, <2>2, <2>4, <3>1 DEF FromTraining, CrossFitted
  <2>5. CASE /\ difficulty' = IF config.learnedDifficulty THEN Examples ELSE Nothing
             /\ \E scores \in OutOfFoldScores(Examples, difficulty') :
                   router' = [on |-> Examples, scores |-> scores]
    <3>1. PICK scores \in OutOfFoldScores(Examples, difficulty') :
             router' = [on |-> Examples, scores |-> scores]
      BY <2>5
    <3>2. Examples \subseteq splits.train /\ difficulty' \subseteq Examples
      BY <2>5 DEF Examples, Nothing
    <3>3. /\ \A i \in DOMAIN scores : scores[i] \subseteq Examples
          /\ config.learnedDifficulty /\ ~(Cardinality(Examples) < 2 * Folds) =>
                \A i \in Examples : i \notin scores[i]
      BY <3>2, Scored
    <3>4. router'.on = Examples /\ router'.scores = scores
      BY <3>1
    <3>5. FromTraining'
      BY <2>1, <3>2, <3>3, <3>4 DEF FromTraining
    <3>6. CrossFitted'
      BY <2>1, <3>3, <3>4 DEF CrossFitted
    <3>. QED
      BY <2>2, <3>5, <3>6
  <2>. QED
    BY <1>3, <2>3, <2>4, <2>5 DEF FitDifficultyAndRouter
<1>4. CASE FitCalibration
  <2>1. /\ phase' # "split"
        /\ UNCHANGED <<splits, classifier, difficulty, router, config>>
    BY <1>4 DEF FitCalibration, setting
  <2>2. Apart' /\ FromTraining' /\ CrossFitted'
    BY <2>1 DEF Apart, GroupsOf, FromTraining, CrossFitted
  <2>3. PICK b \in Banks, routed \in IF Conditional THEN RoutedItems ELSE {None} :
              /\ bank' = b
              /\ \/ UNCHANGED <<thresholds, initialThresholds>>
                 \/ /\ thresholds' = Certify([m \in Pool |-> splits.calibration], b, None)
                    /\ initialThresholds' =
                          IF Conditional THEN Certify(routed, b, RouterState) ELSE << >>
    BY <1>4 DEF FitCalibration
  <2>4. \A key \in DOMAIN bank' : bank'[key].on \subseteq splits.calibration
    BY <2>3, BankFromCalibration DEF Banks, FromCalibration
  <2>5. \A m \in DOMAIN thresholds' : thresholds'[m].on \subseteq splits.calibration
    <3>1. CASE UNCHANGED thresholds
      BY <3>1 DEF FromCalibration
    <3>2. CASE thresholds' = Certify([m \in Pool |-> splits.calibration], b, None)
      BY <3>2, CertifiedOn
    <3>. QED
      BY <2>3, <3>1, <3>2
  <2>6. \A m \in DOMAIN initialThresholds' :
            initialThresholds'[m].on \subseteq splits.calibration
    <3>1. CASE UNCHANGED initialThresholds
      BY <3>1 DEF FromCalibration
    <3>2. CASE initialThresholds' = Certify(routed, b, RouterState) /\ Conditional
      <4>1. \A m \in Pool : routed[m] \subseteq splits.calibration
        BY <3>2, <2>3 DEF RoutedItems
      <4>. QED
        BY <3>2, <4>1, CertifiedOn
    <3>3. CASE initialThresholds' = << >>
      BY <3>3
    <3>. QED
      BY <2>3, <3>1, <3>2, <3>3
  <2>. QED
    BY <2>1, <2>2, <2>4, <2>5, <2>6 DEF FromCalibration
<1>5. CASE Warm \/ SkipCalibration \/ TestOutcomes \/ Serve \/ Ended \/ UNCHANGED vars
  <2>1. /\ phase' = "split" => phase = "split"
        /\ UNCHANGED <<splits, classifier, difficulty, router, bank, thresholds,
                     initialThresholds, config>>
    BY <1>5 DEF Warm, SkipCalibration, TestOutcomes, Serve, Ended, vars, setting
  <2>. QED
    BY <2>1 DEF Apart, GroupsOf, FromTraining, FromCalibration, CrossFitted
<1>. QED
  BY <1>1, <1>2, <1>3, <1>4, <1>5 DEF Next

\* Components apart, the items of two splits share no group.
LEMMA LearnedOutOfSample == LearnedInv => OutOfSample
<1>. SUFFICES ASSUME LearnedInv
              PROVE  OutOfSample
  OBVIOUS
<1>1. FittedOn \subseteq splits.train
  BY DEF LearnedInv, FromTraining, FittedOn, Range
<1>2. CalibratedOn \subseteq splits.calibration
  <2>1. \A i \in UNION {bank[key].on : key \in DOMAIN bank} : i \in splits.calibration
    BY DEF LearnedInv, FromCalibration
  <2>2. \A i \in UNION {thresholds[m].on : m \in DOMAIN thresholds} :
           i \in splits.calibration
    BY DEF LearnedInv, FromCalibration
  <2>3. \A i \in UNION {initialThresholds[m].on : m \in DOMAIN initialThresholds} :
           i \in splits.calibration
    BY DEF LearnedInv, FromCalibration
  <2>. QED
    BY <2>1, <2>2, <2>3 DEF CalibratedOn
<1>. QED
  BY <1>1, <1>2 DEF LearnedInv, Apart, CrossFitted, OutOfSample, GroupsOf

\* Nothing any component learned comes from a group of items it is tested on, and no
\* difficulty score a router learned from comes from an estimator that saw the item.
THEOREM FittedOutOfSample == Spec => []OutOfSample
<1>1. LearnedInv /\ [Next]_vars => LearnedInv'
  BY NextLearned
<1>. QED
  BY InitLearned, <1>1, LearnedOutOfSample, PTL DEF Spec

-----------------------------------------------------------------------------
(* Requests are generated in batches before they are asked for. *)

\* What is asked for before the warm-up is nothing, and what of it a batch is for was warmed
\* after it.
Warmed ==
    /\ phase \in {"split", "classifier", "warm"} => asked = {}
    /\ phase \in {"train", "calibrate", "test", "serve"} => warmed = AllSplits(classifier)
    /\ WarmedFirst

\* No purpose is another one: of what an assessment and an estimate ask for, only an initial
\* answer and a sample count.
InBatches(requests) ==
    /\ OfPurpose(requests, "initial") \subseteq warmed
    /\ Sampling => OfPurpose(requests, "confidence_sample") \subseteq warmed

LEMMA EstimatesAreJudged == \A is : InBatches(Estimated(is))
BY DEF InBatches, OfPurpose, Estimated, Requests

LEMMA InitialWarmed ==
    ASSUME warmed = AllSplits(classifier), NEW is,
           is \subseteq splits.train \/ is \subseteq splits.test
    PROVE  InBatches(Requests(is, "initial", classifier))
BY DEF InBatches, OfPurpose, AllSplits, Batch, Requests

LEMMA AssessedWarmed ==
    ASSUME warmed = AllSplits(classifier), NEW is,
           is \subseteq splits.calibration \/ is \subseteq splits.test
    PROVE  InBatches(Assessed(is, classifier))
<1>1. is \subseteq splits.calibration \cup splits.test
  OBVIOUS
<1>2. OfPurpose(Assessed(is, classifier), "initial") \subseteq warmed
  BY <1>1 DEF OfPurpose, AllSplits, Batch, Assessed, Requests
<1>3. Sampling => OfPurpose(Assessed(is, classifier), "confidence_sample") \subseteq warmed
  BY <1>1 DEF OfPurpose, AllSplits, Batch, Assessed, Requests
<1>. QED
  BY <1>2, <1>3 DEF InBatches

LEMMA TogetherInBatches ==
    ASSUME NEW R, NEW S, InBatches(R), InBatches(S)
    PROVE  InBatches(R \cup S)
BY DEF InBatches, OfPurpose

LEMMA NextWarmed == Warmed /\ [Next]_vars => Warmed'
<1>. SUFFICES ASSUME Warmed, [Next]_vars
              PROVE  Warmed'
  OBVIOUS
<1>1. CASE Split \/ FitTaskClassifier
  <2>1. /\ asked = {} /\ asked' = asked
        /\ phase' \in {"classifier", "warm"}
    BY <1>1 DEF Split, FitTaskClassifier, Warmed
  <2>. QED
    BY <2>1 DEF Warmed, WarmedFirst, OfPurpose
<1>2. CASE Warm
  <2>1. /\ phase' = "train" /\ asked = {} /\ asked' = asked
        /\ warmed' = AllSplits(classifier) /\ UNCHANGED <<config, splits, classifier>>
    BY <1>2 DEF Warm, setting, Warmed
  <2>2. AllSplits(classifier)' = AllSplits(classifier)
    BY <2>1 DEF AllSplits, Batch, Sampling
  <2>. QED
    BY <2>1, <2>2 DEF Warmed, WarmedFirst, OfPurpose
<1>3. CASE FitDifficultyAndRouter \/ FitCalibration \/ TestOutcomes \/ Serve \/ SkipCalibration
  <2>1. /\ phase \in {"train", "calibrate", "test", "serve"}
        /\ phase' \in {"calibrate", "test", "serve", "failed"}
        /\ UNCHANGED <<config, splits, classifier, warmed>>
    BY <1>3 DEF FitDifficultyAndRouter, FitCalibration, TestOutcomes, Serve, SkipCalibration,
                setting
  <2>2. warmed = AllSplits(classifier) /\ AllSplits(classifier)' = AllSplits(classifier)
    BY <2>1 DEF AllSplits, Batch, Sampling, Warmed
  <2>3. InBatches({})
    BY DEF InBatches, OfPurpose
  <2>4. ASSUME NEW is, is \subseteq splits.calibration
        PROVE  InBatches(Profiled(is))
    <3>1. InBatches(Assessed(is, classifier))
      BY <2>2, <2>4, AssessedWarmed
    <3>2. InBatches(IF Conditional THEN Estimated(is) ELSE {})
      BY <2>3, EstimatesAreJudged
    <3>. QED
      BY <3>1, <3>2, TogetherInBatches DEF Profiled
  <2>5. \E new : asked' = asked \cup new /\ InBatches(new)
    <3>1. CASE FitDifficultyAndRouter
      <4>. DEFINE initial == IF NeedsTraining
                                THEN Requests(splits.train, "initial", classifier) ELSE {}
                  estimated == IF config.router \in Supervised
                                  THEN Estimated(Examples) ELSE {}
      <4>1. asked' = asked \cup (initial \cup estimated)
        BY <3>1 DEF FitDifficultyAndRouter
      <4>2. InBatches(initial)
        BY <2>2, <2>3, InitialWarmed
      <4>3. InBatches(estimated)
        BY <2>3, EstimatesAreJudged
      <4>. QED
        BY <4>1, <4>2, <4>3, TogetherInBatches
    <3>2. CASE FitCalibration
      <4>1. asked' = asked \cup Profiled(splits.calibration)
        BY <3>2 DEF FitCalibration
      <4>. QED
        BY <2>4, <4>1
    <3>3. CASE SkipCalibration
      <4>1. CASE asked' = asked
        BY <2>3, <4>1
      <4>2. CASE asked' # asked
        <5>1. PICK i \in splits.calibration : asked' = asked \cup Profiled({i})
          BY <3>3, <4>2 DEF SkipCalibration
        <5>2. {i} \subseteq splits.calibration
          OBVIOUS
        <5>. QED
          BY <2>4, <5>1, <5>2
      <4>. QED
        BY <4>1, <4>2
    <3>4. CASE TestOutcomes
      <4>1. asked' = asked \cup Requests(splits.test, "initial", classifier)
        BY <3>4 DEF TestOutcomes
      <4>. QED
        BY <2>2, <4>1, InitialWarmed
    <3>5. CASE Serve
      <4>1. PICK i \in splits.test :
               asked' = asked \cup (Estimated({i}) \cup Assessed({i}, classifier))
        BY <3>5 DEF Serve
      <4>2. {i} \subseteq splits.test
        OBVIOUS
      <4>3. InBatches(Assessed({i}, classifier))
        BY <2>2, <4>2, AssessedWarmed
      <4>. QED
        BY <4>1, <4>3, EstimatesAreJudged, TogetherInBatches
    <3>. QED
      BY <1>3, <3>1, <3>2, <3>3, <3>4, <3>5
  <2>6. InBatches(asked)
    BY DEF Warmed, WarmedFirst, InBatches
  <2>7. InBatches(asked')
    BY <2>5, <2>6, TogetherInBatches
  <2>8. WarmedFirst'
    BY <2>1, <2>7 DEF WarmedFirst, InBatches, Sampling
  <2>. QED
    BY <2>1, <2>2, <2>8 DEF Warmed
<1>4. CASE Ended \/ UNCHANGED vars
  <2>1. UNCHANGED <<config, splits, classifier, warmed, asked, phase>>
    BY <1>4 DEF Ended, vars, setting
  <2>2. AllSplits(classifier)' = AllSplits(classifier)
    BY <2>1 DEF AllSplits, Batch, Sampling
  <2>3. WarmedFirst' = WarmedFirst
    BY <2>1 DEF WarmedFirst, Sampling
  <2>. QED
    BY <2>1, <2>2, <2>3 DEF Warmed
<1>. QED
  BY <1>1, <1>2, <1>3, <1>4 DEF Next

\* Whatever estimates difficulties, judges answers and scores confidences, every initial answer
\* that training, calibration and serving ask for was generated in a batch before, with the
\* same prompt, and so was every sample of an estimator that samples itself.
THEOREM ServedFromTheCache == Spec => []WarmedFirst
<1>1. Init => Warmed
  BY DEF Init, Warmed, WarmedFirst, OfPurpose
<1>2. Warmed /\ [Next]_vars => Warmed'
  BY NextWarmed
<1>3. Warmed => WarmedFirst
  BY DEF Warmed
<1>. QED
  BY <1>1, <1>2, <1>3, PTL DEF Spec

-----------------------------------------------------------------------------
(* A threshold is used on scores like those it was certified on. *)

\* Every router chooses a model of the pool.
LEMMA RulesInPool ==
    ASSUME NEW values
    PROVE  RuleRoute(DefaultRules, values, 1) \in Pool
<1>. DEFINE matching == {j \in DOMAIN DefaultRules :
                            \A f \in DOMAIN DefaultRules[j].when :
                               values[f] \in DefaultRules[j].when[f]}
<1>1. DOMAIN DefaultRules = 1 .. 3
  BY DEF DefaultRules
<1>2. \A j \in 1 .. 3 : DefaultRules[j].model \in Pool
  <2>1. Strongest \in Pool /\ ByTier(2) \in Pool
    BY ByTierInPool, SizeAssumption DEF SizeAssumption, Strongest, Pool
  <2>. QED
    BY <2>1 DEF DefaultRules
<1>3. matching \in SUBSET Nat /\ matching \subseteq 1 .. 3
  BY <1>1
<1>4. RuleRoute(DefaultRules, values, 1) =
         IF matching = {} THEN 1 ELSE DefaultRules[First(matching)].model
  BY DEF RuleRoute
<1>. HIDE DEF matching
<1>5. CASE matching = {}
  BY <1>4, <1>5, PoolIsNotEmpty
<1>6. CASE matching # {}
  <2>1. First(matching) \in 1 .. 3
    BY <1>3, <1>6, FirstIsLeast
  <2>. QED
    BY <1>2, <1>4, <1>6, <2>1
<1>. QED
  BY <1>5, <1>6

LEMMA LearnedInPool ==
    ASSUME NEW u
    PROVE  LearnedRoute(OneTier(u)) \in Pool
<1>. DEFINE D == 1 .. PoolSize + 1
<1>1. D \in SUBSET Nat /\ D # {} /\ Scale \in Int
  BY SizeAssumption DEF SizeAssumption
<1>2. OneTier(u) \in [D -> Int] /\ \A t \in D : OneTier(u)[t] <= Scale
  BY SizeAssumption DEF SizeAssumption, OneTier
<1>. HIDE DEF D
<1>3. ArgMax(OneTier(u)) \in D
  BY <1>1, <1>2, ArgMaxIsBest
<1>. USE DEF D
<1>4. ArgMax(OneTier(u)) \in Int
  BY <1>3, SizeAssumption DEF SizeAssumption
<1>. QED
  BY <1>4, ByTierInPool DEF LearnedRoute

LEMMA QualityCostInPool ==
    ASSUME NEW p \in Predictions
    PROVE  QualityCostRoute(p, [m \in Pool |-> m], [m \in Pool |-> m], 1, 0) \in Pool
<1>. DEFINE price == [m \in Pool |-> m]
<1>1. p \in [Pool -> Nat] /\ price \in [Pool -> Nat] /\ Scale * Scale \in Int
  BY SizeAssumption DEF SizeAssumption, Predictions, Pool
<1>2. \A m \in Pool : Worth(p, price, price, 1, 0)[m] <= Scale * Scale
  <2>1. ASSUME NEW m \in Pool
        PROVE  Worth(p, price, price, 1, 0)[m] <= Scale * Scale
    <3>1. Worth(p, price, price, 1, 0)[m] = Scale * p[m] - 1 * m - 0 * m
      BY DEF Worth
    <3>2. m \in Nat /\ Scale \in Nat /\ (p[m] = 0 \/ p[m] = Scale)
      BY SizeAssumption DEF SizeAssumption, Predictions, Pool
    <3>3. Scale * p[m] \in Int /\ Scale * p[m] <= Scale * Scale
      BY <3>2
    <3>. QED
      BY <3>1, <3>2, <3>3
  <2>. QED
    BY <2>1
<1>. HIDE DEF price
<1>3. QualityCostRoute(p, price, price, 1, 0) \in Pool
  BY <1>1, <1>2, QualityCostRouteIsBest
<1>. QED
  BY <1>3 DEF price

LEMMA DestinationsInPool ==
    ASSUME config.router \in Routers, NEW i
    PROVE  Destinations(i) \subseteq Pool
<1>1. CASE config.router = "fixed"
  BY <1>1, SizeAssumption DEF Destinations, SizeAssumption, Strongest, Pool
<1>2. CASE config.router \in {"random", "oracle"}
  BY <1>2 DEF Destinations
<1>3. CASE config.router = "threshold"
  BY <1>3, ThresholdRouteInPool DEF Destinations
<1>4. CASE config.router = "rules"
  BY <1>4, RulesInPool DEF Destinations
<1>5. CASE config.router = "learned"
  BY <1>5, LearnedInPool DEF Destinations
<1>6. CASE config.router = "cost_aware"
  <2>1. \A p \in Predictions : CostAwareRoute(p, Scale) \in Pool
    <3>1. \A p \in Predictions : p \in [Pool -> Unit]
      BY SizeAssumption DEF SizeAssumption, Predictions, Unit
    <3>2. Scale \in Int
      BY SizeAssumption DEF SizeAssumption
    <3>. QED
      BY <3>1, <3>2, CostAwareRouteInPool
  <2>. QED
    BY <1>6, <2>1 DEF Destinations
<1>7. CASE config.router = "quality_cost"
  BY <1>7, QualityCostInPool DEF Destinations
<1>. QED
  BY <1>1, <1>2, <1>3, <1>4, <1>5, <1>6, <1>7 DEF Routers, Supervised

\* When thresholds are certified, all models have one, on the scores of the bank in use; and a
\* conditional one, on what the router in use chose.
NeedsThresholds ==
    config.risk # "none" /\ config.confidence # "none" /\ splits.calibration # {}
AllCertified ==
    /\ thresholds = Certify([m \in Pool |-> splits.calibration], bank, None)
    /\ IF Conditional
          THEN \E routed : initialThresholds = Certify(routed, bank, RouterState)
          ELSE initialThresholds = << >>

CertifiedInv ==
    /\ config.router \in Routers
    /\ phase # "serve" => served = None
    /\ phase \in {"test", "serve"} /\ NeedsThresholds => AllCertified
    /\ CertifiedAsServed

\* A score that goes through the calibrator of its model and language is held against a
\* threshold certified on such scores.
LEMMA UsedAsCertified ==
    ASSUME CertifiedInv, phase = "serve", Serve
    PROVE  CertifiedAsServed'
<1>0. PICK i \in splits.test : \E m \in Destinations(i) :
          served' = [item |-> i, model |-> m, by |-> RouterState,
                     through |-> CalibratorOf(bank, m, Lang[i]),
                     threshold |-> ThresholdFor(m)]
  BY DEF Serve
<1>1. PICK m \in Destinations(i) :
          served' = [item |-> i, model |-> m, by |-> RouterState,
                     through |-> CalibratorOf(bank, m, Lang[i]),
                     threshold |-> ThresholdFor(m)]
  BY <1>0
<1>2. UNCHANGED <<config, splits>> /\ Conditional' = Conditional
  BY DEF Serve, setting, Conditional
<1>3. m \in Pool
  BY DestinationsInPool DEF CertifiedInv
<1>4. /\ served'.item = i /\ served'.by = RouterState
      /\ served'.through = CalibratorOf(bank, m, Lang[i])
      /\ served'.threshold = ThresholdFor(m)
  BY <1>1
<1>5. SUFFICES ASSUME NeedsThresholds
               PROVE  /\ ThresholdFor(m).by = IF Conditional THEN RouterState ELSE None
                      /\ \A j \in ThresholdFor(m).on : Lang[j] = Lang[i] =>
                            ThresholdFor(m).through[j] = CalibratorOf(bank, m, Lang[i])
  BY <1>2, <1>4 DEF CertifiedAsServed, NeedsThresholds
<1>6. AllCertified
  BY <1>5 DEF CertifiedInv
<1>7. \A items, by : /\ m \in DOMAIN Certify(items, bank, by)
                     /\ Certify(items, bank, by)[m] = Certificate(m, items[m], bank, by)
  BY <1>3 DEF Certify
<1>8. \A is, by :
         /\ Certificate(m, is, bank, by).by = by
         /\ \A j \in Certificate(m, is, bank, by).on : Lang[j] = Lang[i] =>
               Certificate(m, is, bank, by).through[j] = CalibratorOf(bank, m, Lang[i])
  BY DEF Certificate
<1>9. CASE Conditional
  <2>1. PICK routed : initialThresholds = Certify(routed, bank, RouterState)
    BY <1>6, <1>9 DEF AllCertified
  <2>2. ThresholdFor(m) = Certificate(m, routed[m], bank, RouterState)
    BY <1>5, <1>7, <2>1 DEF ThresholdFor, NeedsThresholds
  <2>. QED
    BY <1>8, <1>9, <2>2
<1>10. CASE ~Conditional
  <2>1. /\ initialThresholds = << >>
        /\ thresholds = Certify([k \in Pool |-> splits.calibration], bank, None)
    BY <1>6, <1>10 DEF AllCertified
  <2>2. m \notin DOMAIN initialThresholds
    BY <2>1, <1>3
  <2>3. ThresholdFor(m) = Certificate(m, splits.calibration, bank, None)
    BY <1>3, <1>5, <1>7, <2>1, <2>2 DEF ThresholdFor, NeedsThresholds
  <2>. QED
    BY <1>8, <1>10, <2>3
<1>. QED
  BY <1>9, <1>10

LEMMA NextCertified == CertifiedInv /\ [Next]_vars => CertifiedInv'
<1>. SUFFICES ASSUME CertifiedInv, [Next]_vars
              PROVE  CertifiedInv'
  OBVIOUS
<1>0. config' = config
  BY DEF Next, vars, setting, Split, FitTaskClassifier, Warm, FitDifficultyAndRouter,
         FitCalibration, SkipCalibration, TestOutcomes, Serve, Ended
<1>1. CASE Split \/ FitTaskClassifier \/ Warm \/ FitDifficultyAndRouter
  <2>1. phase # "serve" /\ phase' \notin {"test", "serve"} /\ served' = served
    BY <1>1 DEF Split, FitTaskClassifier, Warm, FitDifficultyAndRouter
  <2>. QED
    BY <1>0, <2>1 DEF CertifiedInv, CertifiedAsServed
<1>2. CASE FitCalibration
  <2>1. /\ phase # "serve" /\ phase' = "test" /\ served' = served
        /\ UNCHANGED <<splits, classifier, difficulty, router>>
    BY <1>2 DEF FitCalibration
  <2>2. NeedsThresholds' => AllCertified'
    <3>1. SUFFICES ASSUME NeedsThresholds
                   PROVE  AllCertified'
      BY <1>0, <2>1 DEF NeedsThresholds
    <3>2. PICK b, routed :
             /\ bank' = b
             /\ thresholds' = Certify([m \in Pool |-> splits.calibration], b, None)
             /\ initialThresholds' =
                   IF Conditional THEN Certify(routed, b, RouterState) ELSE << >>
      BY <1>2, <3>1 DEF FitCalibration, NeedsThresholds
    <3>3. \A items, c, by : Certify(items, c, by)' = Certify(items, c, by)
      BY <1>0 DEF Certify, Certificate, CalibratorOf
    <3>4. RouterState' = RouterState /\ Conditional' = Conditional
      BY <1>0, <2>1 DEF RouterState, Conditional
    <3>. QED
      BY <2>1, <3>2, <3>4, <1>0 DEF AllCertified, Certify, Certificate, CalibratorOf
  <2>. QED
    BY <1>0, <2>1, <2>2 DEF CertifiedInv, CertifiedAsServed
<1>3. CASE SkipCalibration
  <2>1. /\ phase # "serve" /\ phase' # "serve" /\ served' = served
        /\ splits' = splits
        /\ phase' \in {"test", "serve"} => ~NeedsThresholds
    BY <1>3 DEF SkipCalibration, NeedsThresholds, NeedsCalibration
  <2>. QED
    BY <1>0, <2>1 DEF CertifiedInv, CertifiedAsServed, NeedsThresholds
<1>4. CASE TestOutcomes \/ Serve \/ Ended \/ UNCHANGED vars
  <2>1. /\ phase' \in {"test", "serve"} => phase \in {"test", "serve"}
        /\ UNCHANGED <<splits, classifier, difficulty, router, bank, thresholds,
                     initialThresholds>>
    BY <1>4 DEF TestOutcomes, Serve, Ended, vars
  <2>2. NeedsThresholds' = NeedsThresholds /\ AllCertified' = AllCertified
    BY <1>0, <2>1 DEF NeedsThresholds, AllCertified, Certify, Certificate, CalibratorOf,
                      RouterState, Conditional
  <2>3. phase' # "serve" => served' = None
    BY <1>4 DEF TestOutcomes, Serve, Ended, vars, CertifiedInv
  <2>4. CertifiedAsServed'
    <3>1. CASE Serve
      BY <3>1, UsedAsCertified DEF Serve
    <3>2. CASE served' = served
      BY <1>0, <2>1, <3>2 DEF CertifiedInv, CertifiedAsServed, Conditional
    <3>. QED
      BY <1>4, <3>1, <3>2 DEF TestOutcomes, Ended, vars
  <2>. QED
    BY <1>0, <2>1, <2>2, <2>3, <2>4 DEF CertifiedInv
<1>. QED
  BY <1>1, <1>2, <1>3, <1>4 DEF Next

\* An initial answer is held against a threshold certified on scores through the same
\* calibrator, and, conditional on routing, on items the same router chose.
THEOREM CertificatesApply == Spec => []CertifiedAsServed
<1>1. Init => CertifiedInv
  BY ConfigAssumption DEF ConfigAssumption, Init, CertifiedInv, CertifiedAsServed
<1>2. CertifiedInv /\ [Next]_vars => CertifiedInv'
  BY NextCertified
<1>3. CertifiedInv => CertifiedAsServed
  BY DEF CertifiedInv
<1>. QED
  BY <1>1, <1>2, <1>3, PTL DEF Spec

\* Whatever the routers have learned, they decide monotonically.
THEOREM RouterDecisionsMonotone == Spec => []DecisionsAreMonotone
<1>1. DecisionsAreMonotone
  BY MonotoneRouters DEF DecisionsAreMonotone
<1>. QED
  BY <1>1, PTL
-----------------------------------------------------------------------------
(* The splits. *)

\* What the splits are made of does not change, and is what it is configured to be.
SplitOnce ==
    /\ loaded \subseteq Items
    /\ fractions \in Fractions
    /\ EveryStratumIsTested

\* A stratum has finitely many groups.
LEMMA StrataAreFinite ==
    ASSUME loaded \subseteq Items, NEW s
    PROVE  IsFiniteSet(InStratum(s, LoadedGroups))
<1>1. IsFiniteSet(loaded)
  <2>1. IsFiniteSet(Items)
    BY DataAssumption DEF DataAssumption
  <2>. QED
    BY <2>1, FS_Subset
<1>2. IsFiniteSet(LoadedGroups)
  <2>. DEFINE f == [i \in loaded |-> Group[i]]
  <2>1. f \in Surjection(loaded, LoadedGroups)
    BY DEF Surjection, LoadedGroups, GroupsOf
  <2>. QED
    BY <1>1, <2>1, FS_Surjection
<1>. QED
  BY <1>2, FS_Subset DEF InStratum

\* A share of a number of groups is a number, and that of the calibration is not negative.
LEMMA SharesAreNumbers ==
    ASSUME NEW n \in Nat, NEW f \in Fractions
    PROVE  Rounded(n, f.train) \in Int /\ Rounded(n, f.calibration) \in Nat
<1>1. f.train \in Int /\ f.calibration \in Nat
  BY FractionsAssumption DEF FractionsAssumption
<1>2. ASSUME NEW k \in Int
      PROVE  (IF 2 * (k % 20) > 20 \/ (2 * (k % 20) = 20 /\ (k \div 20) % 2 = 1)
                THEN (k \div 20) + 1 ELSE k \div 20) \in (k \div 20) .. (k \div 20) + 1
  OBVIOUS
<1>3. \A k \in Int : k \div 20 \in Int
  OBVIOUS
<1>4. \A k \in Nat : k \div 20 \in Nat
  OBVIOUS
<1>5. n * f.train \in Int /\ n * f.calibration \in Nat
  BY <1>1
<1>6. Rounded(n, f.train) \in Int
  BY <1>2, <1>3, <1>5 DEF Rounded
<1>7. Rounded(n, f.calibration) \in Nat
  BY <1>2, <1>4, <1>5 DEF Rounded
<1>. QED
  BY <1>6, <1>7

\* Of three groups or more the last one is beyond the training and the calibration share.
LEMMA LastIsForTheTest ==
    ASSUME NEW n \in Nat, n >= 3, NEW f \in Fractions, Rounded(n, f.calibration) < n
    PROVE  LET size == Sizes(n, f)
           IN /\ size.train \in Int /\ size.calibration \in Nat
              /\ size.train <= n - 1
              /\ size.train + size.calibration <= n - 1
<1>. DEFINE c == Rounded(n, f.calibration)
            t == Rounded(n, f.train)
<1>1. t \in Int /\ c \in Nat
  BY SharesAreNumbers
<1>. HIDE DEF c, t
<1>2. n - c - 1 \in Int /\ n - c - 1 >= 0
  BY <1>1 DEF c
<1>3. Max({0, n - c - 1}) = n - c - 1
  <2>1. \A x \in {0, n - c - 1} : n - c - 1 >= x
    BY <1>2
  <2>2. \A x \in {0, n - c - 1} : (\A y \in {0, n - c - 1} : x >= y) => x = n - c - 1
    BY <1>2
  <2>. QED
    BY <2>1, <2>2 DEF Max
<1>4. Sizes(n, f) = [train |-> IF t + c >= n THEN n - c - 1 ELSE t, calibration |-> c]
  BY <1>3 DEF Sizes, c, t
<1>. QED
  BY <1>1, <1>4

\* Two shares of a stratum that end before its last position leave a group of it.
LEMMA SomeGroupIsLeft ==
    ASSUME NEW G, IsFiniteSet(G), Cardinality(G) >= 3, NEW T, NEW C,
           NEW train \in Int, NEW end \in Int,
           train <= Cardinality(G) - 1, end <= Cardinality(G) - 1,
           Cardinality(T) = Cardinality({i \in 0 .. Cardinality(G) - 1 : i < train}),
           Cardinality(C) = Cardinality({i \in 0 .. Cardinality(G) - 1 : train <= i /\ i < end}),
           T \subseteq G, C \subseteq G
    PROVE  \E g \in G : g \notin T /\ g \notin C
<1>. DEFINE n == Cardinality(G)
            P == {i \in 0 .. n - 1 : i < train}
            Q == {i \in 0 .. n - 1 : train <= i /\ i < end}
<1>1. n \in Nat
  BY FS_CardinalityType
<1>. HIDE DEF n
<1>2. IsFiniteSet(0 .. n - 2) /\ Cardinality(0 .. n - 2) = n - 1
  <2>1. n - 2 \in Int /\ 0 \in Int /\ ~(0 > n - 2) /\ n - 2 - 0 + 1 = n - 1
    BY <1>1 DEF n
  <2>. QED
    BY <2>1, FS_Interval
<1>3. P \subseteq 0 .. n - 2 /\ Q \subseteq 0 .. n - 2 /\ P \cap Q = {}
  BY <1>1 DEF n
<1>. HIDE DEF P, Q
<1>4. IsFiniteSet(P) /\ IsFiniteSet(Q)
  BY <1>2, <1>3, FS_Subset
<1>5. IsFiniteSet(T) /\ IsFiniteSet(C)
  BY FS_Subset
<1>6. /\ Cardinality(P) \in Nat /\ Cardinality(Q) \in Nat
      /\ Cardinality(T) \in Nat /\ Cardinality(C) \in Nat /\ Cardinality(T \cap C) \in Nat
  <2>1. IsFiniteSet(T \cap C)
    BY <1>5, FS_Subset, T \cap C \subseteq T
  <2>. QED
    BY <1>4, <1>5, <2>1, FS_CardinalityType
<1>7. Cardinality(P) + Cardinality(Q) <= n - 1
  <2>1. Cardinality(P \cup Q) = Cardinality(P) + Cardinality(Q) - Cardinality(P \cap Q)
    BY <1>4, FS_Union
  <2>2. Cardinality(P \cap Q) = 0
    BY <1>3, FS_EmptySet
  <2>3. Cardinality(P \cup Q) <= n - 1
    <3>1. P \cup Q \subseteq 0 .. n - 2
      BY <1>3
    <3>2. Cardinality(P \cup Q) <= Cardinality(0 .. n - 2)
      BY <1>2, <3>1, FS_Subset, Zenon
    <3>. QED
      BY <1>2, <3>2
  <2>. QED
    BY <1>6, <2>1, <2>2, <2>3
<1>8. Cardinality(T \cup C) = Cardinality(T) + Cardinality(C) - Cardinality(T \cap C)
  BY <1>5, FS_Union
<1>9. Cardinality(T) = Cardinality(P) /\ Cardinality(C) = Cardinality(Q)
  BY DEF P, Q, n
<1>10. Cardinality(T \cup C) < n
  BY <1>1, <1>6, <1>7, <1>8, <1>9
<1>11. T \cup C # G
  <2>1. ASSUME T \cup C = G
        PROVE  Cardinality(T \cup C) = n
    BY <2>1 DEF n
  <2>. QED
    BY <1>1, <1>10, <2>1
<1>. QED
  BY <1>11

LEMMA SplitTests ==
    ASSUME loaded \subseteq Items, fractions \in Fractions, Split
    PROVE  EveryStratumIsTested'
<1>1. PICK t \in SUBSET LoadedGroups, c \in SUBSET LoadedGroups :
           /\ IsSplit(t, c)
           /\ splits' = [train |-> Members(t), calibration |-> Members(c),
                         test |-> Members(LoadedGroups \ (t \cup c))]
  BY DEF Split
<1>2. UNCHANGED <<loaded, fractions>>
  BY DEF Split, setting
<1>3. SUFFICES ASSUME NEW s \in Strata(LoadedGroups),
                      Cardinality(InStratum(s, LoadedGroups)) >= 3,
                      Rounded(Cardinality(InStratum(s, LoadedGroups)), fractions.calibration)
                         < Cardinality(InStratum(s, LoadedGroups))
               PROVE  InStratum(s, GroupsOf(splits'.test)) # {}
  BY <1>2 DEF EveryStratumIsTested, LoadedGroups, GroupsOf, InStratum, Strata, Rounded
<1>. DEFINE G == InStratum(s, LoadedGroups)
            n == Cardinality(G)
            size == Sizes(n, fractions)
<1>4. IsFiniteSet(G) /\ n \in Nat
  BY StrataAreFinite, FS_CardinalityType
<1>5. /\ size.train \in Int /\ size.calibration \in Nat
      /\ size.train <= n - 1 /\ size.train + size.calibration <= n - 1
  BY <1>3, <1>4, LastIsForTheTest
<1>6. /\ Cardinality(InStratum(s, t)) = Cardinality({i \in 0 .. n - 1 : i < size.train})
      /\ Cardinality(InStratum(s, c)) =
            Cardinality({i \in 0 .. n - 1 :
                            size.train <= i /\ i < size.train + size.calibration})
  BY <1>1 DEF IsSplit
<1>7. InStratum(s, t) \subseteq G /\ InStratum(s, c) \subseteq G
  BY DEF InStratum
<1>. HIDE DEF size
<1>8. size.train + size.calibration \in Int
  BY <1>5
<1>9. PICK g \in G : g \notin InStratum(s, t) /\ g \notin InStratum(s, c)
  <2>. DEFINE T == InStratum(s, t)
              C == InStratum(s, c)
              train == size.train
              end == size.train + size.calibration
  <2>1. /\ Cardinality(G) >= 3 /\ IsFiniteSet(G) /\ T \subseteq G /\ C \subseteq G
        /\ train \in Int /\ end \in Int
        /\ train <= Cardinality(G) - 1 /\ end <= Cardinality(G) - 1
    BY <1>3, <1>4, <1>5, <1>7, <1>8
  <2>2. /\ Cardinality(T) = Cardinality({i \in 0 .. Cardinality(G) - 1 : i < train})
        /\ Cardinality(C) =
              Cardinality({i \in 0 .. Cardinality(G) - 1 : train <= i /\ i < end})
    BY <1>6
  <2>. HIDE DEF G, T, C, train, end
  <2>3. \E g \in G : g \notin T /\ g \notin C
    BY <2>1, <2>2, SomeGroupIsLeft
  <2>. QED
    BY <2>3 DEF T, C
<1>10. g \in LoadedGroups \ (t \cup c) /\ Stratum[g] = s
  BY <1>9 DEF InStratum
<1>11. PICK i \in loaded : Group[i] = g
  BY <1>10 DEF LoadedGroups, GroupsOf
<1>12. i \in splits'.test
  BY <1>1, <1>10, <1>11 DEF Members
<1>. QED
  BY <1>10, <1>11, <1>12 DEF InStratum, GroupsOf

\* A stratum of three groups or more is never without a test group.
THEOREM StrataTested == Spec => []EveryStratumIsTested
<1>1. Init => SplitOnce
  <2>. SUFFICES ASSUME Init
                PROVE  SplitOnce
    OBVIOUS
  <2>1. loaded \subseteq Items
    BY DEF Init, Taken
  <2>2. fractions \in Fractions /\ phase = "split"
    BY DEF Init
  <2>. QED
    BY <2>1, <2>2 DEF SplitOnce, EveryStratumIsTested
<1>2. SplitOnce /\ [Next]_vars => SplitOnce'
  <2>. SUFFICES ASSUME SplitOnce, [Next]_vars
                PROVE  SplitOnce'
    OBVIOUS
  <2>1. loaded' = loaded /\ fractions' = fractions
    BY DEF Next, vars, setting, Split, FitTaskClassifier, Warm, FitDifficultyAndRouter,
           FitCalibration, SkipCalibration, TestOutcomes, Serve, Ended
  <2>2. CASE Split
    BY <2>1, <2>2, SplitTests DEF SplitOnce
  <2>3. CASE ~Split
    <3>1. splits' = splits /\ (phase' # "split" => phase # "split")
      BY <2>3 DEF Next, vars, setting, FitTaskClassifier, Warm, FitDifficultyAndRouter,
             FitCalibration, SkipCalibration, TestOutcomes, Serve, Ended
    <3>2. EveryStratumIsTested'
      BY <2>1, <3>1 DEF SplitOnce, EveryStratumIsTested, LoadedGroups, GroupsOf, InStratum,
             Strata, Rounded
    <3>. QED
      BY <2>1, <3>2 DEF SplitOnce
  <2>. QED
    BY <2>2, <2>3
<1>3. SplitOnce => EveryStratumIsTested
  BY DEF SplitOnce
<1>. QED
  BY <1>1, <1>2, <1>3, PTL DEF Spec
=============================================================================
