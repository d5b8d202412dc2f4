---------------------------- MODULE BeliefFusion ----------------------------
(***************************************************************************)
(* How strongly each value of a disputed fact is believed,                 *)
(* evidence/belief.py, and which disputes are worth a warning,             *)
(* ranking/serendipity.py.  Every source of a side lays its reliability on *)
(* `true' for that side's value and on `false' for all others, and leaves  *)
(* the rest on `unknown'; the masses are combined at once, and conflict    *)
(* above a threshold is shown as unknown.                                  *)
(*                                                                         *)
(* Reliabilities are hundredths.  The combination of n masses is kept in   *)
(* units of 100^-n, exact, and a belief is rounded to thousandths, not to  *)
(* six places.  A dispute grows by one cited source at a time; how many    *)
(* distinct pages back a side is not here.                                 *)
(***************************************************************************)
EXTENDS Integers, Sequences, Functions

CONSTANTS
    MaxSides,        \* bound: competing values
    OwnConfidences,  \* what a side's own confidence may be
    CitedSources,    \* what a side may cite
    MaxReliability,  \* _MAX_RELIABILITY
    YagerThreshold,  \* YAGER_CONFLICT_THRESHOLD
    Tau,             \* UNCERTAINTY_TAU, in thousandths
    MaxMasses        \* bound: masses in all

ASSUME BeliefAssumption ==
    /\ OwnConfidences \subseteq 0..100 /\ MaxReliability \in 0..99
    /\ YagerThreshold \in 0..99 /\ Tau \in Nat /\ MaxSides \in Nat /\ MaxMasses \in Nat
    /\ \A source \in CitedSources :
          \/ source \in [kind : {"row"}, reliability : Nat]
          \/ source \in [kind : {"memory"}, tiers : Seq(Nat), confidence : Nat]
          \/ source \in [kind : {"gone"}]

\* A near-certain source is believed as one, and two of them are too much conflict:
\* the code has 0.99 and 0.8.
ASSUME CertaintyAssumption == MaxReliability >= 90 /\ YagerThreshold <= 80

VARIABLE sides   \* the confidence and the sources of each value, the primary one first

Rivals == DOMAIN sides
UpToLimit(limit, n) == IF n < limit THEN n ELSE limit

\* The parts of a list, one after the other.
Joined(parts) ==
    LET upTo[n \in Nat] == IF n = 0 THEN <<>> ELSE upTo[n - 1] \o parts[n] IN upTo[Len(parts)]

-----------------------------------------------------------------------------
(* The masses                                                               *)

\* bpa
Bpa(reliability, supports) ==
    LET r == UpToLimit(MaxReliability, reliability) IN
    [true |-> IF supports THEN r ELSE 0, false |-> IF supports THEN 0 ELSE r, unknown |-> 100 - r]

\* _memory_row_reliabilities: a remembered row weighs what its original sources
\* do, and no more than the confidence it was recalled with.
MemoryWeights(source) ==
    IF source.tiers = <<>> THEN <<source.confidence>>
    ELSE [i \in DOMAIN source.tiers |-> UpToLimit(source.confidence, source.tiers[i])]

\* _side_reliabilities: a reference that leads nowhere weighs what the side does.
SourceWeights(side, source) ==
    CASE source.kind = "row"    -> <<source.reliability>>
      [] source.kind = "memory" -> MemoryWeights(source)
      [] source.kind = "gone"   -> <<side.confidence>>

Weights(side) ==
    IF side.cites = <<>> THEN <<side.confidence>>
    ELSE Joined([i \in DOMAIN side.cites |-> SourceWeights(side, side.cites[i])])

\* The sources of all sides, and whose they are.
Backers ==
    Joined([j \in Rivals |->
        [k \in DOMAIN Weights(sides[j]) |-> [of |-> j, weight |-> Weights(sides[j])[k]]]])

\* The masses for one value: its own side's are for it, the others' against it.
Masses(i) == [k \in DOMAIN Backers |-> Bpa(Backers[k].weight, Backers[k].of = i)]

-----------------------------------------------------------------------------
(* The combination                                                          *)

Product(factors) ==
    LET upTo[n \in Nat] == IF n = 0 THEN 1 ELSE upTo[n - 1] * factors[n] IN upTo[Len(factors)]

\* All the mass there is, of n sources: 100^n
Whole[n \in Nat] == IF n = 0 THEN 1 ELSE 100 * Whole[n - 1]

\* _conjunctive
Conjunctive(masses) ==
    LET all == DOMAIN masses
        unknown == Product([k \in all |-> masses[k].unknown])
        true == Product([k \in all |-> masses[k].true + masses[k].unknown]) - unknown
        false == Product([k \in all |-> masses[k].false + masses[k].unknown]) - unknown
    IN  [true |-> true, false |-> false, unknown |-> unknown,
         conflict |-> Whole[Len(masses)] - true - false - unknown]

\* More than the threshold of the mass there is.
Excessive(conflict, n) == conflict * 100 > YagerThreshold * Whole[n]

\* Mutant: sources are combined one by one, the conflict set aside each time.
FusePairwise(masses) ==
    LET combine(acc, m) ==
            LET n == acc.n + 1
                unknown == acc.unknown * m.unknown
                true == acc.true * (m.true + m.unknown) + acc.unknown * m.true
                false == acc.false * (m.false + m.unknown) + acc.unknown * m.false
                conflict == (acc.true + acc.false + acc.unknown) * 100 - true - false - unknown
            IN  [n |-> n, true |-> true, false |-> false,
                 unknown |-> IF Excessive(conflict, n) THEN unknown + conflict ELSE unknown,
                 yager |-> acc.yager \/ Excessive(conflict, n)]
        nothing == [n |-> 0, true |-> 0, false |-> 0, unknown |-> 1, yager |-> FALSE]
        upTo[n \in Nat] == IF n = 0 THEN nothing ELSE combine(upTo[n - 1], masses[n])
        all == upTo[Len(masses)]
    IN  [true |-> all.true, false |-> all.false, unknown |-> all.unknown,
         of |-> all.true + all.false + all.unknown, yager |-> all.yager]

\* fuse: all masses at once.  Too much conflict becomes unknown (Yager), less is
\* divided out (Dempster).
Fuse(masses) ==
    LET q == Conjunctive(masses)  n == Len(masses) IN
    IF Excessive(q.conflict, n)
    THEN [true |-> q.true, false |-> q.false, unknown |-> q.unknown + q.conflict,
          of |-> Whole[n], yager |-> TRUE]
    ELSE [true |-> q.true, false |-> q.false, unknown |-> q.unknown,
          of |-> Whole[n] - q.conflict, yager |-> FALSE]

\* _interval: [Bel, Pl] in thousandths.
Interval(f) ==
    [belief |-> (f.true * 1000) \div f.of, plausibility |-> ((f.true + f.unknown) * 1000) \div f.of,
     yager |-> f.yager]

\* fuse_disputed_fact, and quote_channel_interval for a value nothing competes with.
IntervalOf(i) == Interval(Fuse(Masses(i)))

\* disputed_fact_signals, of the side believed most, the first of them in a tie.
Uncertainty(interval) == interval.plausibility - interval.belief
Ahead(i, j) ==
    \/ IntervalOf(i).belief > IntervalOf(j).belief
    \/ IntervalOf(i).belief = IntervalOf(j).belief /\ i <= j
TopSide == CHOOSE i \in Rivals : \A j \in Rivals : Ahead(i, j)
Warns == Uncertainty(IntervalOf(TopSide)) >= Tau \/ IntervalOf(TopSide).yager

-----------------------------------------------------------------------------
BeliefInit ==
    \E n \in 1..MaxSides : sides \in [1..n -> [confidence : OwnConfidences, cites : {<<>>}]]

\* A side of the remembered dispute gets one more source.
CiteSource(i, source) ==
    /\ sides' = [sides EXCEPT ![i].cites = Append(@, source)]
    /\ Len(Backers') <= MaxMasses

BeliefNext == \E i \in Rivals, source \in CitedSources : CiteSource(i, source)

BeliefSpec == BeliefInit /\ [][BeliefNext]_sides

-----------------------------------------------------------------------------
(* Properties                                                               *)

\* A joint assignment takes from each source either its verdict or nothing.
Joint(masses, verdicts) ==
    SumFunction([taken \in [DOMAIN masses -> {"true", "false", "unknown"}] |->
        IF {taken[k] : k \in DOMAIN masses} \ {"unknown"} = verdicts
        THEN Product([k \in DOMAIN masses |-> masses[k][taken[k]]]) ELSE 0])

(* The closed form of belief.py:78 is the combination it stands for: of    *)
(* all the ways to believe or ignore each source, the ones that agree on a *)
(* verdict, the ones that say nothing, and the ones that contradict        *)
(* themselves, all at once and not one by one (belief.py:99); and under    *)
(* much conflict no verdict gains.                                         *)
FusionIsJoint ==
    \A i \in Rivals :
        LET masses == Masses(i)  f == Fuse(masses)  conflict == Joint(masses, {"true", "false"}) IN
        /\ f.true = Joint(masses, {"true"}) /\ f.false = Joint(masses, {"false"})
        /\ f.unknown = Joint(masses, {}) + (IF Excessive(conflict, Len(masses)) THEN conflict ELSE 0)
        /\ f.of = f.true + f.false + f.unknown

(* What is believed of one value is not plausible of another: belief in    *)
(* competing values never adds up to more than certainty, and of two       *)
(* values one is plausible as far as the other is not believed.            *)
BeliefsCompete ==
    /\ SumFunction([i \in Rivals |-> IntervalOf(i).belief]) <= 1000
    /\ \A i, j \in Rivals :
         i # j => LET f == Fuse(Masses(i))  g == Fuse(Masses(j)) IN
                  /\ IntervalOf(i).belief <= IntervalOf(i).plausibility
                  /\ Len(sides) = 2 => f.of = g.of /\ f.true + f.unknown = g.of - g.true

(* A dispute in which both sides have a near-certain source is always a    *)
(* warning.                                                                *)
CertainConflictWarns ==
    (Len(sides) > 1 /\ \A i \in Rivals : \E k \in DOMAIN Weights(sides[i]) : Weights(sides[i])[k] >= 90)
        => Warns

(* The interval that accompanies a disputed value, and the warning about   *)
(* it.                                                                     *)
BeliefsAreExact == FusionIsJoint /\ BeliefsCompete /\ CertainConflictWarns

=============================================================================
