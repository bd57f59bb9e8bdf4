---------------------------- MODULE MixtureFrontier ----------------------------
(***************************************************************************)
(* The two curves systems are judged by (evaluation/report.py, plots.py):  *)
(* the cost-matched mixture of the fixed-model systems, and the Pareto     *)
(* front of all systems.  A system is a point <<cost, accuracy>>; the      *)
(* numbers are integers, since only ratios of differences matter.          *)
(*                                                                         *)
(* A definition commented as a slip is the definition that follows it with *)
(* a plausible mistake.                                                    *)
(***************************************************************************)
EXTENDS Integers, Sequences, FiniteSets, FiniteSetsExt, SequencesExt

CONSTANTS
    Costs, Accuracies, \* bound: the coordinates of points
    MaxPoints          \* bound: systems compared

ASSUME CoordinatesAssumption == Costs \cup Accuracies \subseteq Nat /\ Costs # {}

Cost(p) == p[1]
Accuracy(p) == p[2]

Lower(p, q) == Cost(p) < Cost(q) \/ (Cost(p) = Cost(q) /\ Accuracy(p) < Accuracy(q))

\* Positive when the turn p, q, r is a left one: q is then below the line from p to r.
Cross(p, q, r) ==
    (Cost(q) - Cost(p)) * (Accuracy(r) - Accuracy(p))
        - (Accuracy(q) - Accuracy(p)) * (Cost(r) - Cost(p))

\* A set in the order in which before[x] are the members that precede x.
InOrder(S, before) ==
    [k \in 1 .. Cardinality(S) |->
        CHOOSE x \in S : Cardinality(S \cap before[x]) = k - 1]

\* One point of the hull loop: the points below the new edge are popped from the end.
\* Slip: at most one is.
PushPoppingOne(hull, p) ==
    LET n == Len(hull)
    IN IF n >= 2 /\ Cross(hull[n - 1], hull[n], p) >= 0
          THEN Append(SubSeq(hull, 1, n - 1), p) ELSE Append(hull, p)
Push(hull, p) ==
    LET kept == {j \in DOMAIN hull : j = 1 \/ Cross(hull[j - 1], hull[j], p) < 0}
    IN Append(SubSeq(hull, 1, Max(kept \cup {0})), p)

Hull(points) ==
    LET sorted == InOrder(points, [p \in points |-> {q \in points : Lower(q, p)}])
        hull[k \in 0 .. Len(sorted)] ==
            IF k = 0 THEN << >> ELSE Push(hull[k - 1], sorted[k])
    IN hull[Len(sorted)]

\* Only while accuracy does not fall.
Rise(front, p) ==
    IF front = << >> \/ Accuracy(p) >= Accuracy(Last(front)) THEN Append(front, p) ELSE front

Frontier(points) ==
    LET hull == Hull(points)
        front[k \in 0 .. Len(hull)] == IF k = 0 THEN << >> ELSE Rise(front[k - 1], hull[k])
    IN front[Len(hull)]

\* np.interp at a cost, as a numerator over a denominator.
Interpolated(front, x) ==
    LET reached == {j \in DOMAIN front : Cost(front[j]) <= x}
        j == Max(reached)
        p == front[j]
        q == front[j + 1]
    IN IF reached = {} THEN <<Accuracy(front[1]), 1>>
       ELSE IF j = Len(front) THEN <<Accuracy(p), 1>>
       ELSE <<Accuracy(p) * (Cost(q) - Cost(p))
                + (Accuracy(q) - Accuracy(p)) * (x - Cost(p)), Cost(q) - Cost(p)>>

\* plots.pareto_front: in order of cost, the best of a cost first, each better than all before.
Cheaper(p, q) == Cost(p) < Cost(q) \/ (Cost(p) = Cost(q) /\ Accuracy(p) > Accuracy(q))
Improve(front, p) ==
    IF front = << >> \/ Accuracy(p) > Accuracy(Last(front)) THEN Append(front, p) ELSE front
ParetoFront(points) ==
    LET sorted == InOrder(points, [p \in points |-> {q \in points : Cheaper(q, p)}])
        front[k \in 0 .. Len(sorted)] ==
            IF k = 0 THEN << >> ELSE Improve(front[k - 1], sorted[k])
    IN ToSet(front[Len(sorted)])

-----------------------------------------------------------------------------

Instances == {points \in SUBSET (Costs \X Accuracies) :
                 IsFiniteSet(points) /\ Cardinality(points) \in 2 .. MaxPoints}

\* What random mixtures of two systems, or one system, achieve at cost at most x.
Mixtures(points, x) ==
    {<<Accuracy(p), 1>> : p \in {r \in points : Cost(r) <= x}}
    \cup UNION {{<<Accuracy(p) * (Cost(q) - x) + Accuracy(q) * (x - Cost(p)), Cost(q) - Cost(p)>> :
                    q \in {r \in points : x < Cost(r)}} :
                   p \in {r \in points : Cost(r) <= x}}

NoBetter(v, w) == v[1] * w[2] <= w[1] * v[2]

\* At any cost the systems can reach, the frontier is at the best mixture of them, no lower
\* and no higher; and the Pareto front is the systems that no other one dominates.
FrontierIsBest ==
    \A points \in Instances :
        LET front == Frontier(points)
            fronted == ParetoFront(points)
        IN /\ \A x \in Costs : (\E p \in points : Cost(p) <= x) =>
                 LET value == Interpolated(front, x)
                     all == Mixtures(points, x)
                 IN /\ \A m \in all : NoBetter(m, value)
                    /\ \E m \in all : NoBetter(value, m)
           /\ \A p \in points :
                 p \in fronted <=> ~\E q \in points \ {p} :
                                       Cost(q) <= Cost(p) /\ Accuracy(q) >= Accuracy(p)
=============================================================================
