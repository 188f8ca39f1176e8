---------------------------- MODULE Arbitration ----------------------------
(***************************************************************************)
(* TournamentArbitrator.evaluateArms (core/tournament.ts): which arm of a  *)
(* tournament is recommended under a policy.  Arms are numbered in the     *)
(* order of their arm_id, in which the store lists them.                   *)
(***************************************************************************)
EXTENDS Integers, FiniteSetsExt

Gains == {"quality", "coverage"}
Losses == {"cost", "latency", "churn", "duration"}
Metrics == Gains \cup Losses
Flaws == {"clean", "erg", "tests", "deterministic"}

Strategies ==
  {"lowest_cost", "fastest_latency", "highest_coverage", "pareto_optimal",
   "weighted_composite", "manual"}

\* What the policy lets pass: a flaw is a gate the arm is recorded to have
\* failed, and one without a record has passed it.
IsEligible(arm, policy) ==
  /\ arm.completed
  /\ arm.flaws \cap policy.required = {}
  /\ arm.metrics["coverage"] >= policy.minCoverage

IsBetter(m, n, k) == IF k \in Gains THEN m[k] > n[k] ELSE m[k] < n[k]

Dominates(m, n) ==
  /\ \A k \in Metrics : ~IsBetter(n, m, k)
  /\ \E k \in Metrics : IsBetter(m, n, k)

\* The default weights, in tenths: the duration has none.
Weights ==
  [k \in Metrics \ {"duration"} |->
     CASE k = "cost" -> 3 [] k = "churn" -> 1 [] OTHER -> 2]

\* How near the metric is to the best of the eligible arms, from 0 to 100000.
Normalised(k, m, E) ==
  LET values == {n[k] : n \in E}
      span == Max(values) - Min(values)
      above == IF k \in Gains THEN m[k] - Min(values) ELSE Max(values) - m[k]
  IN IF span = 0 THEN 100000 ELSE (above * 100000) \div span

\* In thousandths, rounded.
UtilityScore(m, E) ==
  LET part(k) == Weights[k] * Normalised(k, m, E)
  IN (part("cost") + part("latency") + part("quality") + part("churn")
        + part("coverage") + 500) \div 1000

\* Mutant: a Pareto-optimal arm has no bonus.
ScoreWithoutBonus(strategy, m, E) ==
  CASE strategy = "lowest_cost" -> m["cost"] * 10000 + m["latency"]
    [] strategy = "fastest_latency" -> m["latency"] * 10000 + m["cost"]
    [] strategy = "highest_coverage" ->
         m["cost"] * 10000 + m["latency"] - m["coverage"] * 100000000
    [] strategy \in {"pareto_optimal", "weighted_composite"} ->
         0 - UtilityScore(m, E)
    [] OTHER -> 0

\* The lowest comes first.  The coverage formula and the utilities are scaled
\* by 1000.
Score(strategy, m, E) ==
  CASE strategy = "lowest_cost" -> m["cost"] * 10000 + m["latency"]
    [] strategy = "fastest_latency" -> m["latency"] * 10000 + m["cost"]
    [] strategy = "highest_coverage" ->
         m["cost"] * 10000 + m["latency"] - m["coverage"] * 100000000
    [] strategy = "pareto_optimal" ->
         0 - (UtilityScore(m, E)
                + IF \E n \in E : Dominates(n, m) THEN 0 ELSE 10000)
    [] strategy = "weighted_composite" -> 0 - UtilityScore(m, E)
    [] OTHER -> 0

Eligible(arms, policy) == {a \in DOMAIN arms : IsEligible(arms[a], policy)}

\* The arm of rank 1, if one is eligible; the sort is stable.  0 if none is.
Recommended(arms, policy) ==
  LET E == Eligible(arms, policy)
      M == {arms[a].metrics : a \in E}
      score == [a \in E |-> Score(policy.strategy, arms[a].metrics, M)]
      first == {a \in E : \A b \in E : score[a] <= score[b]}
  IN IF E = {} THEN 0 ELSE Min(first)
=============================================================================
