---------------------------- MODULE Trajectories ----------------------------
(***************************************************************************)
(* The reasoning run, spider_qwen/reasoning/ and AutonomousController.run_reasoning:  *)
(* a few strategies each search and fetch within caps of their own, a strategy     *)
(* with evidence gaps gets one repair round, and the best bundle of evidence wins. *)
(*                                                                          *)
(* A bundle's averages over its qualified suppliers are kept as their sums and   *)
(* their number, so that nothing is rounded.  Which suppliers a round finds is    *)
(* left open; conflicted ones never qualify, so no bundle is ever disputed.       *)
(***************************************************************************)
EXTENDS Integers, FiniteSets, Sequences, Functions

CONSTANTS
    Strategies,      \* the strategies of the mode, in order
    Suppliers,
    Dimensions,      \* the metrics that gaps are looked for in
    Fit,             \* the metrics of each supplier
    Weight,          \* weights_for(mode)
    GapBelow,        \* find_evidence_gaps: a lower average is a gap
    MaxTrajectories, MaxRefinements,  \* ReasoningBudget
    SearchCap, FetchCap,              \* per trajectory and round
    FullCoverage                      \* as many suppliers earn the whole coverage

ASSUME TrajectoryAssumption ==
    /\ Strategies \in Seq(STRING) /\ IsFiniteSet(Suppliers) /\ IsFiniteSet(Dimensions)
    /\ Fit \in [Suppliers -> [Dimensions -> Nat]]
    /\ Weight \in [Dimensions \cup {"coverage"} -> Nat] /\ GapBelow \in [Dimensions -> Nat]
    /\ MaxTrajectories \in Nat \ {0} /\ MaxRefinements \in Nat \ {0}
    /\ SearchCap \in Nat \ {0} /\ FetchCap \in Nat /\ FullCoverage \in Nat \ {0}

VARIABLES
    trajectory,  \* the trajectory that runs
    round,       \* its round, 0 before the first
    bundle,      \* its bundle: the sums, the number of qualified suppliers, who they are
    bundles,     \* those of the trajectories that ended
    charged,     \* searches and fetches of all of them
    winner

tvars == <<trajectory, round, bundle, bundles, charged, winner>>

Lesser(a, b) == IF a < b THEN a ELSE b
Width == Lesser(MaxTrajectories, Len(Strategies))
NoBundle == [sum |-> [d \in Dimensions |-> 0], count |-> 0, who |-> {}]

TrajectoriesInit ==
    /\ trajectory = 1 /\ round = 0 /\ bundle = NoBundle /\ bundles = << >>
    /\ charged = [search |-> 0, fetch |-> 0] /\ winner = NoBundle

\* _bundle_metrics: only suppliers that qualify on their own count.
Metrics(qualified) ==
    [sum |-> [d \in Dimensions |-> SumFunction([s \in qualified |-> Fit[s][d]])],
     count |-> Cardinality(qualified), who |-> qualified]

\* Mutant: each metric is the better of the two rounds'.
MergedBest(old, new) ==
    [sum |-> [d \in Dimensions |->
                 IF old.sum[d] * new.count >= new.sum[d] * old.count
                 THEN old.sum[d] * (IF old.count = 0 THEN 1 ELSE new.count + 1)
                 ELSE new.sum[d] * (old.count + 1)],
     count |-> old.count + new.count, who |-> old.who \cup new.who]

\* _merge: averages weighted by the number of suppliers.
Merged(old, new) ==
    [sum |-> [d \in Dimensions |-> old.sum[d] + new.sum[d]],
     count |-> old.count + new.count, who |-> old.who \cup new.who]

\* find_evidence_gaps
Gaps(b) == {d \in Dimensions : b.sum[d] < GapBelow[d] * (IF b.count = 0 THEN 1 ELSE b.count)}

\* The executor gathers with a budget of its own and consolidates what it found.
Gathered(queries) ==
    \E searches \in 0..Lesser(queries, SearchCap), fetches \in 0..FetchCap,
       qualified \in SUBSET Suppliers :
        /\ searches = 0 => fetches = 0
        /\ fetches = 0 => qualified = {}
        /\ charged' = [search |-> charged.search + searches, fetch |-> charged.fetch + fetches]
        /\ bundle' = IF round = 0 THEN Metrics(qualified) ELSE Merged(bundle, Metrics(qualified))

Explore ==
    /\ trajectory =< Width /\ round = 0
    /\ Gathered(SearchCap) /\ round' = 1
    /\ UNCHANGED <<trajectory, bundles, winner>>

\* One targeted query per gap, as far as the cap allows.
Repair ==
    /\ trajectory =< Width /\ round \in 1..(MaxRefinements - 1) /\ Gaps(bundle) # {}
    /\ Gathered(Lesser(Cardinality(Gaps(bundle)), SearchCap)) /\ round' = round + 1
    /\ UNCHANGED <<trajectory, bundles, winner>>

EndTrajectory ==
    /\ trajectory =< Width /\ round > 0
    /\ round = MaxRefinements \/ Gaps(bundle) = {}
    /\ bundles' = Append(bundles, bundle) /\ trajectory' = trajectory + 1
    /\ round' = 0 /\ bundle' = NoBundle
    /\ UNCHANGED <<charged, winner>>

\* ProcessReward.score, as a sum over `count` suppliers; coverage is earned by
\* the number of qualified suppliers, up to FullCoverage.
Reward(b) == SumFunction([d \in Dimensions |-> Weight[d] * b.sum[d]])
Coverage(b) == Lesser(b.count, FullCoverage)

\* The reward of a is at least that of b, both divided by their counts.
AtLeastAsGood(a, b) ==
    LET n(x) == IF x.count = 0 THEN 1 ELSE x.count IN
    (Reward(a) + Weight["coverage"] * Coverage(a) * n(a)) * n(b)
        >= (Reward(b) + Weight["coverage"] * Coverage(b) * n(b)) * n(a)

\* score_all: the best bundle wins, the earliest of equals.
Select ==
    /\ trajectory = Width + 1 /\ trajectory' = trajectory + 1
    /\ \E i \in DOMAIN bundles :
         /\ \A j \in DOMAIN bundles :
              /\ AtLeastAsGood(bundles[i], bundles[j])
              /\ j < i => ~AtLeastAsGood(bundles[j], bundles[i])
         /\ winner' = bundles[i]
    /\ UNCHANGED <<round, bundle, bundles, charged>>

TrajectoriesNext == Explore \/ Repair \/ EndTrajectory \/ Select

TrajectoriesSpec == TrajectoriesInit /\ [][TrajectoriesNext]_tvars

-----------------------------------------------------------------------------
(* Properties                                                               *)

\* No bundle is better than the best of its suppliers: rounds are folded
\* together without putting the strengths of several suppliers into one that
\* does not exist (trajectory_runner.py:69, controller.py:855); and all rounds
\* together stay under the ceilings of the budget (trajectory.py:85).
NoFictitiousSupplier ==
    /\ \A b \in {bundles[i] : i \in DOMAIN bundles} \cup {bundle} :
         b.count > 0 => \E s \in b.who : Reward(b) =< b.count * Reward(Metrics({s}))
    /\ charged.search =< Width * MaxRefinements * SearchCap
    /\ charged.fetch =< Width * MaxRefinements * FetchCap

=============================================================================
