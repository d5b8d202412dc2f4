------------------------ MODULE SemanticMemoryProofs ------------------------
(***************************************************************************)
(* Proofs about SemanticMemory and BeliefFusion: the locked file           *)
(* implements FactStore, and what its operations keep of each fact holds   *)
(* for any number of runs, keys and days; and what is believed of each     *)
(* value of a disputed fact is exact, for any number of values, of sources *)
(* and any reliabilities.                                                  *)
(***************************************************************************)
EXTENDS SemanticMemory, BeliefFusion, FiniteSetTheorems, TLAPS

(***************************************************************************)
(* Types: facts whose evidence is pages only and whose own value is the        *)
(* surest of their sides, and the operations that keep them so.              *)
(***************************************************************************)
Tenths == 0..10
PageRows == {PageRow(a) : a \in Actors}
SideType == [value : Values, conf : Tenths, refs : SUBSET PageRows]

FactRecord ==
    [value : Values, conf : Tenths, refs : SUBSET PageRows, verified : Nat, status : Statuses,
     alts : SUBSET SideType, reinforced : Nat, cited : Nat]

SurestFirst(f) == \A s \in f.alts : s.conf =< f.conf
Sound(f) == f \in FactRecord /\ SurestFirst(f)

UpsertOp ==
    [kind : {"upsert"}, key : Keys, value : Values, conf : Tenths, refs : SUBSET PageRows, day : Nat]
MaintainOp == [kind : {"maintain"}, day : Nat]
CiteOp == [kind : {"cite"}, key : Keys]
RevalidateOp ==
    [kind : {"revalidate"}, key : Keys, seen : BOOLEAN, value : Values, conf : Tenths,
     refs : SUBSET PageRows, day : Nat]
Ops == UpsertOp \cup MaintainOp \cup CiteOp \cup RevalidateOp

SoundFacts(F) == DOMAIN F \subseteq Keys /\ \A k \in DOMAIN F : Sound(F[k])

(***************************************************************************)
(* The inductive invariant.                                                *)
(***************************************************************************)
RunTypes ==
    /\ DOMAIN txn = Actors /\ DOMAIN pc = Runs /\ DOMAIN recalled = Runs /\ DOMAIN channel = Runs
    /\ key \in [Runs -> Keys] /\ began \in [Runs -> Nat] /\ today \in Nat
    /\ acked \in [Keys -> SUBSET PageRows]
    /\ \A r \in Runs : channel[r].from = "page" => channel[r].value \in Values /\ channel[r].conf \in Tenths

\* Who has an operation under way holds the lock, and has read what is in the file.
LockInv ==
    \A a \in Actors : txn[a].op # NoOp => /\ lock = a
                                         /\ txn[a].read = facts
                                         /\ txn[a].op \in Ops

\* What the runs' operations are: a run settles no dispute, and maintains first.
RunInv ==
    \A r \in Runs :
        /\ txn[r].op # NoOp => /\ txn[r].op \notin RevalidateOp
                               /\ pc[r] \in {"maintaining", "crediting", "promoting"}
        /\ pc[r] = "maintaining" => txn[r].op = Maintain(began[r])

\* From a run's maintain() to its recall, what is active is fresh and what is
\* under way keeps it so.
FreshFor(F, day) == \A k \in DOMAIN F : F[k].status = "active" => ~IsStale(F[k], day)
FreshInv ==
    \A r \in Runs :
        /\ began[r] =< today
        /\ pc[r] \in {"start", "maintaining", "recall"} => DOMAIN recalled[r] = {}
        /\ pc[r] = "recall" =>
             /\ FreshFor(facts, began[r])
             /\ \A a \in Actors : txn[a].op \in UpsertOp \cup RevalidateOp => began[r] =< txn[a].op.day

Inv ==
    /\ RunTypes /\ LockInv /\ RunInv /\ FreshInv
    /\ SoundFacts(facts) /\ PromotionKept /\ RecallFresh

-----------------------------------------------------------------------------
(* Sides of a dispute                                                       *)

\* Of some confidences, which are tenths, one is the largest.
LEMMA LargestConf ==
    ASSUME NEW C \in SUBSET Tenths, C # {}
    PROVE  \E m \in C : \A c \in C : c =< m
<1>2. \A c \in C : c =< 10
  BY DEF Tenths
<1>. SUFFICES ASSUME ~(\E m \in C : \A c \in C : c =< m) PROVE FALSE
  OBVIOUS
<1>3. \A n \in Tenths : (\A c \in C : c =< n) => n \notin C
  OBVIOUS
<1>4. \A n \in 0..9 : (\A c \in C : c =< n + 1) => \A c \in C : c =< n
  BY <1>3 DEF Tenths
<1>5. (\A c \in C : c =< 9) /\ (\A c \in C : c =< 8) /\ (\A c \in C : c =< 7)
  BY <1>2, <1>4
<1>6. (\A c \in C : c =< 6) /\ (\A c \in C : c =< 5) /\ (\A c \in C : c =< 4)
  BY <1>5, <1>4
<1>7. (\A c \in C : c =< 3) /\ (\A c \in C : c =< 2) /\ (\A c \in C : c =< 1)
  BY <1>6, <1>4
<1>8. \A c \in C : c =< 0
  BY <1>7, <1>4
<1>9. PICK c \in C : TRUE
  OBVIOUS
<1>10. c \in Tenths /\ c =< 0
  BY <1>8, <1>9
<1>11. c = 0
  BY <1>10 DEF Tenths
<1> QED
  BY <1>3, <1>8, <1>9, <1>11 DEF Tenths

\* Surest() picks one of the sides, and none is surer.
LEMMA SurestFact ==
    ASSUME NEW S \in SUBSET SideType, S # {}, NEW v
    PROVE  /\ Surest(S, v) \in S
           /\ \A t \in S : t.conf =< Surest(S, v).conf
<1> DEFINE C == {s.conf : s \in S}
           best == {s \in S : \A t \in S : t.conf =< s.conf}
<1>1. \E m \in C : \A c \in C : c =< m
  <2>1. C \in SUBSET Tenths /\ C # {}
    BY DEF SideType
  <2> HIDE DEF C
  <2> QED
    BY <2>1, LargestConf
<1>2. best # {}
  BY <1>1
<1>3. Surest(S, v) \in best
  <2>1. CASE \E s \in best : s.value = v
    <3>1. Surest(S, v) = CHOOSE s \in best : s.value = v
      BY <2>1 DEF Surest
    <3> HIDE DEF best
    <3> QED
      BY <2>1, <3>1
  <2>2. CASE ~(\E s \in best : s.value = v)
    <3>1. Surest(S, v) = CHOOSE s \in best : TRUE
      BY <2>2 DEF Surest
    <3> HIDE DEF best
    <3> QED
      BY <1>2, <3>1
  <2> QED
    BY <2>1, <2>2
<1> QED
  BY <1>3

\* The evidence of a set of sides.
SideRefs(S) == UNION {s.refs : s \in S}

\* One more side adds its evidence to what there is and takes nothing away.
LEMMA WithSideFact ==
    ASSUME NEW S \in SUBSET SideType, NEW s \in SideType
    PROVE  /\ WithSide(S, s) \in SUBSET SideType
           /\ WithSide(S, s) # {}
           /\ SideRefs(WithSide(S, s)) = SideRefs(S) \cup s.refs
<1>1. CASE ~(\E t \in S : t.value = s.value)
  <2>1. WithSide(S, s) = S \cup {s}
    BY <1>1 DEF WithSide
  <2> QED
    BY <2>1 DEF SideRefs
<1>2. CASE \E t \in S : t.value = s.value
  <2> DEFINE t == CHOOSE x \in S : x.value = s.value
             new == Side(t.value, Larger(t.conf, s.conf), t.refs \cup s.refs)
  <2>1. t \in S
    BY <1>2
  <2>2. WithSide(S, s) = (S \ {t}) \cup {new}
    BY <1>2 DEF WithSide
  <2> HIDE DEF t
  <2>3. new \in SideType /\ new.refs = t.refs \cup s.refs
    BY <2>1 DEF SideType, Side, Larger, Tenths
  <2> HIDE DEF new
  <2>4. SideRefs((S \ {t}) \cup {new}) = SideRefs(S) \cup s.refs
    BY <2>1, <2>3 DEF SideRefs
  <2> QED
    BY <2>2, <2>3, <2>4
<1> QED
  BY <1>1, <1>2

-----------------------------------------------------------------------------
(* One fact                                                                 *)

\* A new fact is sound and has the evidence it was stored with.
LEMMA NewFactFact ==
    ASSUME NEW op \in UpsertOp
    PROVE  /\ Sound(NewFact(op)) /\ RefsOf(NewFact(op)) = op.refs
           /\ NewFact(op).verified = op.day
  BY DEF UpsertOp, NewFact, Sound, SurestFirst, FactRecord, Statuses, RefsOf, SideType

\* Agreement adds its evidence, and does not settle a dispute.
LEMMA ReinforcedFact ==
    ASSUME NEW op \in UpsertOp, NEW f, Sound(f)
    PROVE  /\ Sound(Reinforced(f, op))
           /\ RefsOf(Reinforced(f, op)) = RefsOf(f) \cup op.refs
           /\ Reinforced(f, op).verified = op.day
           /\ f.status = "disputed" => Reinforced(f, op).status = "disputed"
<1> DEFINE g == Reinforced(f, op)
<1>1. /\ g.conf = Larger(f.conf, op.conf) /\ g.refs = f.refs \cup op.refs
      /\ g.verified = op.day /\ g.alts = f.alts
      /\ f.status = "disputed" => g.status = "disputed"
  BY DEF Reinforced, Sound, FactRecord
<1>2. Larger(f.conf, op.conf) \in Tenths /\ f.conf =< Larger(f.conf, op.conf)
  BY DEF Sound, FactRecord, UpsertOp, Larger, Tenths
<1>3. g \in FactRecord
  <2> DEFINE conf == Larger(f.conf, op.conf)
             status == IF f.status = "disputed" THEN f.status ELSE "active"
  <2>1. status \in Statuses
    BY DEF Sound, FactRecord, Statuses
  <2>2. g = [f EXCEPT !.conf = conf, !.verified = op.day, !.reinforced = f.reinforced + 1,
                      !.status = status, !.refs = f.refs \cup op.refs]
    BY DEF Reinforced, Sound, FactRecord
  <2>3. conf \in Tenths /\ op.day \in Nat /\ f.reinforced + 1 \in Nat
        /\ f.refs \cup op.refs \in SUBSET PageRows
    BY <1>2 DEF Sound, FactRecord, UpsertOp
  <2>4. f \in FactRecord
    BY DEF Sound
  <2> HIDE DEF conf, status, g
  <2> QED
    BY <2>1, <2>2, <2>3, <2>4 DEF FactRecord
<1>4. SurestFirst(g)
  <2> HIDE DEF g
  <2> SUFFICES ASSUME NEW s \in f.alts PROVE s.conf =< Larger(f.conf, op.conf)
    BY <1>1 DEF SurestFirst
  <2>1. s.conf =< f.conf /\ s.conf \in Tenths /\ f.conf \in Tenths
    BY DEF Sound, SurestFirst, FactRecord, SideType
  <2> QED
    BY <2>1, <1>2 DEF Tenths
<1> QED
  BY <1>1, <1>3, <1>4 DEF Sound, RefsOf

\* A dispute shows the surest side and keeps all of them with their evidence.
LEMMA DisputedFact ==
    ASSUME NEW op \in UpsertOp, NEW f, Sound(f)
    PROVE  /\ Sound(Disputed(f, op))
           /\ RefsOf(Disputed(f, op)) = RefsOf(f) \cup op.refs
           /\ Disputed(f, op).status = "disputed"
<1> DEFINE held == Sides(f, op)
           side == Surest(held, f.value)
           g == Disputed(f, op)
<1>1. Primary(f) \in SideType /\ Primary(f).refs = f.refs
  BY DEF Primary, Side, SideType, Sound, FactRecord
<1>2. Side(op.value, op.conf, op.refs) \in SideType /\ Side(op.value, op.conf, op.refs).refs = op.refs
  BY DEF Side, SideType, UpsertOp
<1>3. f.alts \in SUBSET SideType
  BY DEF Sound, FactRecord
<1>4. /\ held \in SUBSET SideType /\ held # {}
      /\ SideRefs(held) = SideRefs(f.alts) \cup f.refs \cup op.refs
  <2>1. /\ WithSide(f.alts, Primary(f)) \in SUBSET SideType
        /\ SideRefs(WithSide(f.alts, Primary(f))) = SideRefs(f.alts) \cup f.refs
    BY <1>1, <1>3, WithSideFact
  <2> QED
    BY <2>1, <1>2, WithSideFact DEF Sides
<1> HIDE DEF held
<1>5. side \in held /\ \A t \in held : t.conf =< side.conf
  BY <1>4, SurestFact
<1>6. /\ g.conf = side.conf /\ g.refs = side.refs /\ g.alts = held \ {side}
      /\ g.status = "disputed"
  BY DEF Disputed, Sound, FactRecord, held
<1>7. g \in FactRecord /\ SurestFirst(g)
  <2>1. side \in SideType /\ held \ {side} \in SUBSET SideType /\ "disputed" \in Statuses
    BY <1>4, <1>5 DEF Statuses
  <2>2. g = [f EXCEPT !.status = "disputed", !.verified = op.day, !.value = side.value,
                  !.conf = side.conf, !.refs = side.refs, !.alts = held \ {side}]
    BY DEF Disputed, held
  <2> HIDE DEF side
  <2>3. g \in FactRecord
    BY <2>1, <2>2 DEF Sound, FactRecord, UpsertOp, SideType
  <2>4. SurestFirst(g)
    <3> HIDE DEF g
    <3> QED
      BY <1>5, <1>6 DEF SurestFirst
  <2> QED
    BY <2>3, <2>4
<1> HIDE DEF side, g
<1>8. RefsOf(g) = SideRefs(held)
  BY <1>5, <1>6 DEF RefsOf, SideRefs
<1>9. RefsOf(f) = SideRefs(f.alts) \cup f.refs
  BY DEF RefsOf, SideRefs
<1> QED
  BY <1>4, <1>6, <1>7, <1>8, <1>9 DEF Sound, g

\* A revalidated fact is sound; if it is active, it was seen on that day or did not change.
LEMMA RefreshedFact ==
    ASSUME NEW op \in RevalidateOp, NEW f, Sound(f)
    PROVE  /\ Sound(Refreshed(f, op))
           /\ Refreshed(f, op).status = "active" =>
                Refreshed(f, op) = f \/ Refreshed(f, op).verified = op.day
<1> DEFINE fresh == op.refs \ f.refs
           agrees == [f EXCEPT !.conf = Larger(@, op.conf), !.verified = op.day,
                               !.status = "active", !.refs = @ \cup fresh]
           overwritten == [f EXCEPT !.value = op.value, !.conf = op.conf, !.refs = fresh,
                                    !.verified = op.day, !.status = "active"]
           marked(status) == [f EXCEPT !.status = status]
<1>1. \A status \in Statuses : Sound(marked(status)) /\ marked(status).status = status
  BY DEF Sound, FactRecord, SurestFirst
<1>2. Sound(agrees) /\ agrees.verified = op.day
  <2>1. Larger(f.conf, op.conf) \in Tenths /\ f.conf =< Larger(f.conf, op.conf)
    BY DEF Sound, FactRecord, RevalidateOp, Larger, Tenths
  <2>2. agrees \in FactRecord /\ agrees.conf = Larger(f.conf, op.conf) /\ agrees.alts = f.alts
        /\ agrees.verified = op.day
    BY <2>1 DEF Sound, FactRecord, RevalidateOp, Statuses
  <2>3. ASSUME NEW s \in f.alts PROVE s.conf =< Larger(f.conf, op.conf)
    <3>1. s.conf =< f.conf /\ s.conf \in Tenths /\ f.conf \in Tenths
      BY DEF Sound, SurestFirst, FactRecord, SideType
    <3> QED
      BY <3>1, <2>1 DEF Tenths
  <2> QED
    BY <2>2, <2>3 DEF Sound, SurestFirst
<1>3. op.conf > f.conf + Margin => Sound(overwritten) /\ overwritten.verified = op.day
  <2> SUFFICES ASSUME op.conf > f.conf + Margin
               PROVE  Sound(overwritten) /\ overwritten.verified = op.day
    OBVIOUS
  <2>1. overwritten \in FactRecord /\ overwritten.conf = op.conf /\ overwritten.alts = f.alts
        /\ overwritten.verified = op.day
    BY DEF Sound, FactRecord, RevalidateOp, Statuses
  <2>2. ASSUME NEW s \in f.alts PROVE s.conf =< op.conf
    <3>1. s.conf =< f.conf /\ s.conf \in Tenths /\ f.conf \in Tenths /\ op.conf \in Tenths
      BY DEF Sound, SurestFirst, FactRecord, SideType, RevalidateOp
    <3> QED
      BY <3>1 DEF Tenths, Margin
  <2> QED
    BY <2>1, <2>2 DEF Sound, SurestFirst
<1>4. op.seen \in BOOLEAN /\ "stale" \in Statuses /\ "disputed" \in Statuses
  BY DEF RevalidateOp, Statuses
<1>5. CASE ~op.seen \/ op.refs = {}
  <2>1. Refreshed(f, op) = marked("stale")
    BY <1>5, <1>4 DEF Refreshed
  <2> QED
    BY <2>1, <1>1, <1>4
<1>6. CASE op.seen /\ op.refs # {} /\ fresh = {}
  <2>1. Refreshed(f, op) = IF op.value # f.value THEN marked("disputed") ELSE f
    BY <1>6, <1>4 DEF Refreshed
  <2> QED
    BY <2>1, <1>1, <1>4
<1>7. CASE op.seen /\ op.refs # {} /\ fresh # {} /\ op.value = f.value
  <2>1. Refreshed(f, op) = agrees
    BY <1>7, <1>4 DEF Refreshed
  <2> QED
    BY <2>1, <1>2
<1>8. CASE op.seen /\ op.refs # {} /\ fresh # {} /\ op.value # f.value
  <2>1. Refreshed(f, op) = IF op.conf > f.conf + Margin THEN overwritten ELSE marked("disputed")
    BY <1>8, <1>4 DEF Refreshed
  <2> QED
    BY <2>1, <1>1, <1>3, <1>4
<1> QED
  BY <1>5, <1>6, <1>7, <1>8, <1>4

-----------------------------------------------------------------------------
(* One operation                                                            *)

\* What an operation makes of an active fact: it is as it was, or verified on the
\* day of the operation.
Renewed(F, G, day) ==
    \A k \in DOMAIN G : G[k].status = "active" =>
        G[k].verified = day \/ (k \in DOMAIN F /\ F[k].status = "active" /\ G[k].verified = F[k].verified)

\* Nothing of a fact's evidence is lost, and no dispute is settled.
KeptFrom(F, G) ==
    \A k \in DOMAIN F : /\ k \in DOMAIN G /\ RefsOf(F[k]) \subseteq RefsOf(G[k])
                        /\ F[k].status = "disputed" => G[k].status = "disputed"

\* upsert() loses nothing and stores its evidence.
LEMMA UpsertedFact ==
    ASSUME NEW F, SoundFacts(F), NEW op \in UpsertOp
    PROVE  LET G == Upserted(F, op) IN
           /\ SoundFacts(G) /\ KeptFrom(F, G) /\ Renewed(F, G, op.day)
           /\ op.key \in DOMAIN G /\ op.refs \subseteq RefsOf(G[op.key])
<1> DEFINE G == Upserted(F, op)
           f == F[op.key]
           g == IF op.key \notin DOMAIN F THEN NewFact(op)
                ELSE IF Contradicts(f.value, op.value) THEN Disputed(f, op) ELSE Reinforced(f, op)
<1>1. G = [k \in DOMAIN F \cup {op.key} |-> IF k = op.key THEN g ELSE F[k]]
  BY DEF Upserted, Put
<1>2. Sound(g) /\ op.refs \subseteq RefsOf(g)
  BY NewFactFact, DisputedFact, ReinforcedFact DEF SoundFacts
<1>3. g.status = "active" => g.verified = op.day
  BY NewFactFact, DisputedFact, ReinforcedFact DEF SoundFacts
<1>4. op.key \in DOMAIN F => /\ RefsOf(f) \subseteq RefsOf(g)
                             /\ f.status = "disputed" => g.status = "disputed"
  BY DisputedFact, ReinforcedFact DEF SoundFacts
<1>5. op.key \in Keys
  BY DEF UpsertOp
<1> HIDE DEF g, G
<1> QED
  BY <1>1, <1>2, <1>3, <1>4, <1>5 DEF SoundFacts, KeptFrom, Renewed, G

\* maintain() loses nothing, and leaves nothing active that is stale.
LEMMA MaintainedFact ==
    ASSUME NEW F, SoundFacts(F), NEW op \in MaintainOp
    PROVE  LET G == Maintained(F, op) IN
           SoundFacts(G) /\ KeptFrom(F, G) /\ FreshFor(G, op.day)
<1> DEFINE G == Maintained(F, op)
<1>1. DOMAIN G = DOMAIN F
  BY DEF Maintained
<1>2. ASSUME NEW k \in DOMAIN F
      PROVE  /\ Sound(G[k]) /\ RefsOf(G[k]) = RefsOf(F[k])
             /\ F[k].status = "disputed" => G[k].status = "disputed"
             /\ G[k].status = "active" => G[k] = F[k] /\ ~IsStale(F[k], op.day)
  <2>1. Sound(F[k])
    BY DEF SoundFacts
  <2>2. CASE F[k].status = "active" /\ IsStale(F[k], op.day)
    <3> DEFINE g == [F[k] EXCEPT !.status = "stale"]
    <3>1. G[k] = g
      BY <2>2 DEF Maintained
    <3>2. g \in FactRecord /\ g.alts = F[k].alts /\ g.refs = F[k].refs /\ g.conf = F[k].conf
          /\ g.status = "stale"
      BY <2>1 DEF Sound, FactRecord, Statuses
    <3> HIDE DEF g
    <3> QED
      BY <2>1, <2>2, <3>1, <3>2 DEF Sound, SurestFirst, RefsOf
  <2>3. CASE ~(F[k].status = "active" /\ IsStale(F[k], op.day))
    <3>1. G[k] = F[k]
      BY <2>3 DEF Maintained
    <3> QED
      BY <2>1, <2>3, <3>1
  <2> QED
    BY <2>2, <2>3
<1> HIDE DEF G
<1> QED
  BY <1>1, <1>2 DEF SoundFacts, KeptFrom, FreshFor, G

\* A credited citation changes no evidence and no status.
LEMMA CitedFact ==
    ASSUME NEW F, SoundFacts(F), NEW op \in CiteOp
    PROVE  LET G == Cited(F, op) IN
           SoundFacts(G) /\ KeptFrom(F, G)
<1> DEFINE G == Cited(F, op)
<1>1. DOMAIN G = DOMAIN F
  BY DEF Cited
<1>2. ASSUME NEW k \in DOMAIN F
      PROVE  /\ Sound(G[k]) /\ RefsOf(G[k]) = RefsOf(F[k])
             /\ G[k].status = F[k].status /\ G[k].verified = F[k].verified
  <2>1. Sound(F[k])
    BY DEF SoundFacts
  <2> DEFINE g == [F[k] EXCEPT !.cited = @ + 1]
  <2>2. g \in FactRecord /\ g.alts = F[k].alts /\ g.refs = F[k].refs /\ g.conf = F[k].conf
        /\ g.status = F[k].status /\ g.verified = F[k].verified
    BY <2>1 DEF Sound, FactRecord
  <2>3. G[k] = F[k] \/ G[k] = g
    BY DEF Cited
  <2> HIDE DEF g, G
  <2> QED
    BY <2>1, <2>2, <2>3 DEF Sound, SurestFirst, RefsOf
<1> HIDE DEF G
<1> QED
  BY <1>1, <1>2 DEF SoundFacts, KeptFrom, G

\* A revalidation only changes the fact it is about.
LEMMA RevalidatedFact ==
    ASSUME NEW F, SoundFacts(F), NEW op \in RevalidateOp
    PROVE  LET G == Revalidated(F, op) IN
           /\ SoundFacts(G) /\ Renewed(F, G, op.day) /\ DOMAIN G = DOMAIN F
           /\ \A k \in DOMAIN F \ {op.key} : G[k] = F[k]
<1> DEFINE G == Revalidated(F, op)
<1>1. CASE op.key \notin DOMAIN F
  BY <1>1 DEF Revalidated, Renewed
<1>2. CASE op.key \in DOMAIN F
  <2> DEFINE g == Refreshed(F[op.key], op)
  <2>1. G = [F EXCEPT ![op.key] = g]
    BY <1>2 DEF Revalidated
  <2>2. Sound(g) /\ (g.status = "active" => g = F[op.key] \/ g.verified = op.day)
    BY <1>2, RefreshedFact DEF SoundFacts
  <2> HIDE DEF g, G
  <2> QED
    BY <1>2, <2>1, <2>2 DEF SoundFacts, Renewed, G
<1> QED
  BY <1>1, <1>2

\* Of all of them.
LEMMA AppliedFact ==
    ASSUME NEW F, SoundFacts(F), NEW op \in Ops
    PROVE  LET G == Applied(F, op) IN
           /\ SoundFacts(G)
           /\ op \notin RevalidateOp => KeptFrom(F, G)
           /\ op \in UpsertOp => op.key \in DOMAIN G /\ op.refs \subseteq RefsOf(G[op.key])
           /\ op \in RevalidateOp => /\ DOMAIN G = DOMAIN F
                                     /\ \A k \in DOMAIN F \ {op.key} : G[k] = F[k]
           /\ op \in MaintainOp => FreshFor(G, op.day)
<1> DEFINE G == Applied(F, op)
<1>1. CASE op \in UpsertOp
  <2>1. G = Upserted(F, op) /\ op \notin RevalidateOp /\ op \notin MaintainOp
    BY <1>1 DEF Applied, UpsertOp, RevalidateOp, MaintainOp
  <2>2. SoundFacts(G) /\ KeptFrom(F, G) /\ Renewed(F, G, op.day)
        /\ op.key \in DOMAIN G /\ op.refs \subseteq RefsOf(G[op.key])
    BY <1>1, <2>1, UpsertedFact
  <2> QED
    BY <1>1, <2>1, <2>2
<1>2. CASE op \in MaintainOp
  <2>1. G = Maintained(F, op) /\ op \notin RevalidateOp /\ op \notin UpsertOp
    BY <1>2 DEF Applied, UpsertOp, RevalidateOp, MaintainOp
  <2>2. SoundFacts(G) /\ KeptFrom(F, G) /\ FreshFor(G, op.day)
    BY <1>2, <2>1, MaintainedFact
  <2> QED
    BY <2>1, <2>2
<1>3. CASE op \in CiteOp
  <2>1. G = Cited(F, op) /\ op \notin RevalidateOp /\ op \notin UpsertOp /\ op \notin MaintainOp
    BY <1>3 DEF Applied, UpsertOp, RevalidateOp, MaintainOp, CiteOp
  <2>2. SoundFacts(G) /\ KeptFrom(F, G)
    BY <1>3, <2>1, CitedFact
  <2> QED
    BY <2>1, <2>2
<1>4. CASE op \in RevalidateOp
  <2>1. G = Revalidated(F, op) /\ op \notin UpsertOp /\ op \notin MaintainOp
    BY <1>4 DEF Applied, UpsertOp, RevalidateOp, MaintainOp
  <2>2. /\ SoundFacts(G) /\ Renewed(F, G, op.day) /\ DOMAIN G = DOMAIN F
        /\ \A k \in DOMAIN F \ {op.key} : G[k] = F[k]
    BY <1>4, <2>1, RevalidatedFact
  <2> QED
    BY <1>4, <2>1, <2>2
<1> QED
  BY <1>1, <1>2, <1>3, <1>4 DEF Ops

\* An operation of a day keeps what is active fresh for that day and those before.
LEMMA AppliedFresh ==
    ASSUME NEW F, SoundFacts(F), NEW op \in Ops, NEW day \in Nat, FreshFor(F, day),
           op \in UpsertOp \cup RevalidateOp => day =< op.day
    PROVE  FreshFor(Applied(F, op), day)
<1> DEFINE G == Applied(F, op)
<1>1. CASE op \in UpsertOp \cup RevalidateOp
  <2>1. Renewed(F, G, op.day)
    <3>1. CASE op \in UpsertOp
      <4>1. G = Upserted(F, op)
        BY <3>1 DEF Applied, UpsertOp
      <4> QED
        BY <3>1, <4>1, UpsertedFact
    <3>2. CASE op \in RevalidateOp
      <4>1. G = Revalidated(F, op)
        BY <3>2 DEF Applied, RevalidateOp
      <4> QED
        BY <3>2, <4>1, RevalidatedFact
    <3> QED
      BY <1>1, <3>1, <3>2
  <2>2. op.day \in Nat /\ day =< op.day
    BY <1>1 DEF UpsertOp, RevalidateOp
  <2> HIDE DEF G
  <2>3. FreshFor(G, day)
    BY <2>1, <2>2, FactOperationsAssumption DEF FreshFor, Renewed, IsStale
  <2> QED
    BY <2>3 DEF G
<1>2. CASE op \in MaintainOp
  <2>1. G = Maintained(F, op)
    BY <1>2 DEF Applied, MaintainOp
  <2>2. \A k \in DOMAIN G : k \in DOMAIN F /\ (G[k].status = "active" => G[k] = F[k])
    BY <2>1 DEF Maintained, SoundFacts, Sound, FactRecord
  <2> HIDE DEF G
  <2>3. FreshFor(G, day)
    BY <2>2 DEF FreshFor
  <2> QED
    BY <2>3 DEF G
<1>3. CASE op \in CiteOp
  <2>1. G = Cited(F, op)
    BY <1>3 DEF Applied, CiteOp
  <2>2. \A k \in DOMAIN G : k \in DOMAIN F /\ G[k].status = F[k].status /\ G[k].verified = F[k].verified
    BY <2>1 DEF Cited, SoundFacts, Sound, FactRecord
  <2> HIDE DEF G
  <2>3. FreshFor(G, day)
    BY <2>2 DEF FreshFor, IsStale
  <2> QED
    BY <2>3 DEF G
<1> QED
  BY <1>1, <1>2, <1>3 DEF Ops

-----------------------------------------------------------------------------
(* Transactions                                                             *)

\* An operation is told by its kind.
LEMMA OpKinds ==
    /\ NoOp \notin Ops
    /\ \A op \in Ops : op \in RevalidateOp <=> op.kind = "revalidate"
    /\ \A op \in Ops : op \in UpsertOp <=> op.kind = "upsert"
  BY DEF NoOp, Ops, UpsertOp, MaintainOp, CiteOp, RevalidateOp

\* Whoever begins is the only one: the lock was free.
LEMMA BeginFact ==
    ASSUME Inv, NEW a \in Actors, NEW op \in Ops, Begin(a, op)
    PROVE  /\ \A b \in Actors : txn[b].op = NoOp
           /\ DOMAIN txn' = Actors /\ txn'[a].op = op
           /\ \A b \in Actors \ {a} : txn'[b].op = NoOp
           /\ facts' = facts /\ acked' = acked
           /\ LockInv'
<1>1. \A b \in Actors : txn[b].op = NoOp
  BY SemanticMemoryAssumption DEF Inv, LockInv, Begin, Actors
<1>2. DOMAIN txn' = Actors /\ txn'[a] = [op |-> op, read |-> facts]
      /\ \A b \in Actors \ {a} : txn'[b] = txn[b]
  BY DEF Inv, RunTypes, Begin
<1>3. facts' = facts /\ acked' = acked /\ lock' = a
  BY DEF Begin
<1>4. LockInv'
  BY <1>1, <1>2, <1>3 DEF LockInv
<1> QED
  BY <1>1, <1>2, <1>3, <1>4

\* A transaction that commits applies its operation to what is in the file, for
\* nobody changed the file since it was read.
LEMMA CommitFact ==
    ASSUME Inv, NEW a \in Actors, Commit(a)
    PROVE  /\ txn[a].op \in Ops /\ facts' = Applied(facts, txn[a].op)
           /\ DOMAIN txn' = Actors /\ \A b \in Actors : txn'[b].op = NoOp
           /\ LockInv' /\ SoundFacts(facts)' /\ PromotionKept'
           /\ acked' \in [Keys -> SUBSET PageRows]
<1> DEFINE op == txn[a].op
<1>1. op \in Ops /\ facts' = Applied(facts, op) /\ op # NoOp
  BY DEF Inv, LockInv, Commit
<1>2. \A b \in Actors \ {a} : txn[b].op = NoOp
  BY <1>1 DEF Inv, LockInv
<1>3. DOMAIN txn' = Actors /\ \A b \in Actors : txn'[b].op = NoOp
  BY <1>2 DEF Inv, RunTypes, Commit, Idle
<1>4. LockInv'
  BY <1>3 DEF LockInv
<1>5. SoundFacts(facts)
  BY DEF Inv
<1>6. SoundFacts(facts')
  BY <1>1, <1>5, AppliedFact
<1>7. acked \in [Keys -> SUBSET PageRows]
  BY DEF Inv, RunTypes
<1>8. PromotionKept' /\ acked' \in [Keys -> SUBSET PageRows]
  <2>1. \A k \in Keys : acked[k] # {} => k \in DOMAIN facts /\ acked[k] \subseteq RefsOf(facts[k])
    BY DEF Inv, PromotionKept
  <2>2. CASE op.kind = "upsert"
    <3>1. acked' = [acked EXCEPT ![op.key] = @ \cup op.refs]
      BY <1>1, <2>2 DEF Commit
    <3>2. op \in UpsertOp /\ op \notin RevalidateOp
      BY <1>1, <2>2, OpKinds
    <3>3. op.key \in Keys /\ op.refs \in SUBSET PageRows
      BY <3>2 DEF UpsertOp
    <3>4. /\ KeptFrom(facts, facts')
          /\ op.key \in DOMAIN facts' /\ op.refs \subseteq RefsOf(facts'[op.key])
      BY <1>1, <1>5, <3>2, AppliedFact
    <3> HIDE DEF op
    <3> QED
      BY <1>7, <2>1, <3>1, <3>3, <3>4 DEF PromotionKept, KeptFrom
  <2>3. CASE op.kind = "revalidate"
    <3>1. acked' = IF op.key \in DOMAIN facts'
                   THEN [acked EXCEPT ![op.key] = @ \cap RefsOf(facts'[op.key])] ELSE acked
      BY <1>1, <2>3 DEF Commit
    <3>2. op \in RevalidateOp
      BY <1>1, <2>3, OpKinds
    <3>3. DOMAIN facts' = DOMAIN facts /\ \A k \in DOMAIN facts \ {op.key} : facts'[k] = facts[k]
      BY <1>1, <1>5, <3>2, AppliedFact
    <3>4. op.key \in Keys
      BY <3>2 DEF RevalidateOp
    <3> HIDE DEF op
    <3> QED
      BY <1>7, <2>1, <3>1, <3>3, <3>4 DEF PromotionKept
  <2>4. CASE op.kind \notin {"upsert", "revalidate"}
    <3>1. acked' = acked
      BY <1>1, <2>4 DEF Commit
    <3>2. KeptFrom(facts, facts')
      BY <1>1, <1>5, <2>4, OpKinds, AppliedFact
    <3> QED
      BY <1>7, <2>1, <3>1, <3>2 DEF PromotionKept, KeptFrom
  <2> QED
    BY <2>2, <2>3, <2>4
<1> QED
  BY <1>1, <1>3, <1>4, <1>6, <1>8

\* What a commit does to the facts a run is about to recall.
LEMMA CommitFresh ==
    ASSUME Inv, NEW a \in Actors, Commit(a), NEW r \in Runs
    PROVE  /\ pc[r] = "recall" => FreshFor(facts', began[r])
           /\ txn[a].op = Maintain(began[r]) => FreshFor(facts', began[r])
<1>1. SoundFacts(facts) /\ began[r] \in Nat
  BY DEF Inv, RunTypes
<1>2. txn[a].op \in Ops /\ facts' = Applied(facts, txn[a].op)
  BY CommitFact
<1>3. ASSUME pc[r] = "recall" PROVE FreshFor(facts', began[r])
  <2>1. FreshFor(facts, began[r])
    BY <1>3 DEF Inv, FreshInv
  <2>2. txn[a].op \in UpsertOp \cup RevalidateOp => began[r] =< txn[a].op.day
    BY <1>3 DEF Inv, FreshInv
  <2>3. FreshFor(Applied(facts, txn[a].op), began[r])
    BY <1>1, <1>2, <2>1, <2>2, AppliedFresh
  <2> QED
    BY <1>2, <2>3
<1>4. ASSUME txn[a].op = Maintain(began[r]) PROVE FreshFor(facts', began[r])
  <2>1. txn[a].op \in MaintainOp /\ txn[a].op.day = began[r]
    BY <1>1, <1>4 DEF Maintain, MaintainOp
  <2>2. FreshFor(Applied(facts, txn[a].op), txn[a].op.day)
    BY <1>1, <1>2, <2>1, AppliedFact
  <2> QED
    BY <1>2, <2>1, <2>2
<1> QED
  BY <1>3, <1>4

-----------------------------------------------------------------------------
(* The steps                                                                *)

\* The empty memory has the invariant.
LEMMA InitInv == Init => Inv
<1> SUFFICES ASSUME Init PROVE Inv
  OBVIOUS
<1>1. DOMAIN facts = {} /\ \A r \in Runs : DOMAIN recalled[r] = {}
  BY DEF Init, NoFacts
<1>2. \A a \in Actors : txn[a].op = NoOp
  BY DEF Init, Idle
<1>3. RunTypes
  BY DEF Init, RunTypes, NoChannel
<1>4. LockInv /\ RunInv
  BY <1>2 DEF Init, LockInv, RunInv, Actors
<1>5. FreshInv
  BY <1>1 DEF Init, FreshInv
<1>6. SoundFacts(facts) /\ PromotionKept /\ RecallFresh
  BY <1>1 DEF Init, SoundFacts, PromotionKept, RecallFresh
<1> QED
  BY <1>3, <1>4, <1>5, <1>6 DEF Inv

\* Steps of a run that leave the store alone.
LEMMA RunAloneInv ==
    ASSUME Inv, NEW r \in Runs, UNCHANGED store,
           Recall(r) \/ RecallError(r) \/ Gather(r) \/ Unverified(r) \/ Verified(r) \/ Draft(r) \/ Promote(r)
    PROVE  Inv'
<1>1. facts' = facts /\ lock' = lock /\ txn' = txn /\ acked' = acked
  BY DEF store
<1>2. /\ key' = key /\ began' = began /\ today' = today
      /\ pc[r] \notin {"maintaining", "crediting", "promoting"}
  BY DEF Recall, RecallError, Gather, Unverified, Verified, Draft, Promote
<1>3. txn[r].op = NoOp
  BY <1>2 DEF Inv, RunInv
<1>4. /\ DOMAIN pc' = Runs /\ \A s \in Runs \ {r} : pc'[s] = pc[s]
      /\ pc'[r] \in {"gather", "verify", "rfq", "promote", "done"}
  <2>1. DOMAIN pc = Runs
    BY DEF Inv, RunTypes
  <2>2. ~Begin(r, Cite(key[r])) /\ ~Begin(r, Promoted(r))
    BY <1>1, SemanticMemoryAssumption DEF Begin
  <2> QED
    BY <2>1, <2>2 DEF Recall, RecallError, Gather, Unverified, Verified, Draft, Promote
<1>5. /\ DOMAIN recalled' = Runs /\ \A s \in Runs \ {r} : recalled'[s] = recalled[s]
      /\ \A k \in DOMAIN recalled'[r] : ~IsStale(recalled'[r][k], began[r])
  <2>1. CASE recalled' = recalled
    BY <2>1 DEF Inv, RunTypes, RecallFresh
  <2>2. CASE Recall(r)
    <3>1. PICK found \in SUBSET {k \in DOMAIN facts : Readable(k)} :
             recalled' = [recalled EXCEPT ![r] = [k \in found |-> facts[k]]]
      BY <2>2 DEF Recall
    <3>2. \A k \in found : ~IsStale(facts[k], began[r])
      BY <2>2 DEF Recall, Readable, Inv, FreshInv, FreshFor
    <3> QED
      BY <3>1, <3>2 DEF Inv, RunTypes
  <2> QED
    BY <2>1, <2>2 DEF RecallError, Gather, Unverified, Verified, Draft, Promote
<1>6. /\ DOMAIN channel' = Runs
      /\ \A s \in Runs : channel'[s].from = "page" => channel'[s].value \in Values /\ channel'[s].conf \in Tenths
  <2>1. CASE channel' = channel
    BY <2>1 DEF Inv, RunTypes
  <2>2. CASE Gather(r)
    <3>1. \A v \in Values, c \in Confs, own \in BOOLEAN :
            PageChannel(v, c, own).value \in Values /\ PageChannel(v, c, own).conf \in Tenths
      BY SemanticMemoryAssumption DEF PageChannel, Tenths
    <3>2. \A f : Recalled(f).from # "page"
      BY DEF Recalled
    <3>3. \/ channel' = channel
          \/ \E v \in Values, c \in Confs, own \in BOOLEAN :
               channel' = [channel EXCEPT ![r] = PageChannel(v, c, own)]
          \/ channel' = [channel EXCEPT ![r] = Recalled(recalled[r][key[r]])]
      BY <2>2 DEF Gather
    <3> QED
      BY <3>1, <3>2, <3>3 DEF Inv, RunTypes
  <2> QED
    BY <2>1, <2>2 DEF Recall, RecallError, Unverified, Verified, Draft, Promote
<1>7. RunTypes'
  BY <1>1, <1>2, <1>4, <1>5, <1>6 DEF Inv, RunTypes
<1>8. LockInv' /\ SoundFacts(facts)' /\ PromotionKept'
  BY <1>1 DEF Inv, LockInv, SoundFacts, PromotionKept
<1>9. RunInv'
  BY <1>1, <1>2, <1>3, <1>4 DEF Inv, RunInv
<1>10. FreshInv'
  BY <1>1, <1>2, <1>4, <1>5 DEF Inv, FreshInv
<1>11. RecallFresh'
  BY <1>2, <1>5 DEF Inv, RecallFresh
<1> QED
  BY <1>7, <1>8, <1>9, <1>10, <1>11 DEF Inv

\* Steps of a run that begin a transaction.
LEMMA RunBeginsInv ==
    ASSUME Inv, NEW r \in Runs, NEW op \in Ops \ RevalidateOp, Begin(r, op),
           op \in UpsertOp => op.day = today,
           today' = today, key' = key, recalled' = recalled, channel' = channel,
           \/ /\ pc[r] = "start" /\ pc' = [pc EXCEPT ![r] = "maintaining"]
              /\ began' = [began EXCEPT ![r] = today] /\ op = Maintain(today)
           \/ /\ pc' = [pc EXCEPT ![r] = "crediting"] \/ pc' = [pc EXCEPT ![r] = "promoting"]
              /\ began' = began
    PROVE  Inv'
<1>1. r \in Actors /\ op \in Ops /\ NoOp \notin Ops
  BY OpKinds DEF Actors
<1>2. /\ \A b \in Actors : txn[b].op = NoOp
      /\ DOMAIN txn' = Actors /\ txn'[r].op = op
      /\ \A b \in Actors \ {r} : txn'[b].op = NoOp
      /\ facts' = facts /\ acked' = acked
      /\ LockInv'
  BY <1>1, BeginFact
<1>3. /\ DOMAIN pc' = Runs /\ \A s \in Runs \ {r} : pc'[s] = pc[s] /\ began'[s] = began[s]
      /\ pc'[r] \in {"maintaining", "crediting", "promoting"}
      /\ pc'[r] = "maintaining" => pc[r] = "start" /\ op = Maintain(began'[r])
      /\ began' \in [Runs -> Nat] /\ began'[r] =< today
      /\ began'[r] = began[r] \/ (DOMAIN recalled[r] = {} /\ pc[r] = "start")
  BY DEF Inv, RunTypes, FreshInv
<1>4. RunTypes'
  BY <1>2, <1>3 DEF Inv, RunTypes
<1>5. SoundFacts(facts)' /\ PromotionKept'
  BY <1>2 DEF Inv, SoundFacts, PromotionKept
<1>6. RunInv'
  <2>1. ASSUME NEW s \in Runs PROVE pc[s] # "maintaining"
    <3>1. Maintain(began[s]).kind # NoOp.kind
      BY DEF Maintain, NoOp
    <3>2. txn[s].op = NoOp
      BY <1>2 DEF Actors
    <3> QED
      BY <3>1, <3>2 DEF Inv, RunInv
  <2> QED
    BY <1>1, <1>2, <1>3, <2>1 DEF RunInv, Actors
<1>7. FreshInv'
  <2>1. \A s \in Runs : began'[s] =< today'
    BY <1>3 DEF Inv, FreshInv
  <2>2. \A s \in Runs : pc'[s] \in {"start", "maintaining", "recall"} => DOMAIN recalled'[s] = {}
    BY <1>3 DEF Inv, FreshInv
  <2>3. ASSUME NEW s \in Runs, pc'[s] = "recall"
        PROVE  /\ FreshFor(facts', began'[s])
               /\ \A a \in Actors : txn'[a].op \in UpsertOp \cup RevalidateOp => began'[s] =< txn'[a].op.day
    <3>1. s # r /\ pc[s] = "recall" /\ began'[s] = began[s]
      BY <1>3, <2>3
    <3>2. FreshFor(facts', began'[s])
      BY <1>2, <3>1 DEF Inv, FreshInv
    <3>3. \A a \in Actors : txn'[a].op \in UpsertOp \cup RevalidateOp => a = r
      BY <1>1, <1>2 DEF Ops
    <3>4. op \in UpsertOp \cup RevalidateOp => began'[s] =< op.day
      BY <2>1 DEF RevalidateOp
    <3> QED
      BY <1>2, <3>2, <3>3, <3>4
  <2> QED
    BY <2>1, <2>2, <2>3 DEF FreshInv
<1>8. RecallFresh'
  BY <1>3 DEF Inv, RecallFresh
<1> QED
  BY <1>2, <1>4, <1>5, <1>6, <1>7, <1>8 DEF Inv

\* The end of a transaction, of a run or of a command.
LEMMA CommitInv ==
    ASSUME Inv, NEW a \in Actors, Commit(a), UNCHANGED <<today, key, recalled, channel, began>>,
           \/ a \in Runs /\ pc' = [pc EXCEPT ![a] = Following(pc[a])]
           \/ a \notin Runs /\ pc' = pc
    PROVE  Inv'
<1>1. /\ txn[a].op \in Ops /\ txn[a].op # NoOp
      /\ DOMAIN txn' = Actors /\ \A b \in Actors : txn'[b].op = NoOp
      /\ LockInv' /\ SoundFacts(facts)' /\ PromotionKept'
      /\ acked' \in [Keys -> SUBSET PageRows]
  BY CommitFact, OpKinds
<1>2. \A s \in Runs : s # a => pc'[s] = pc[s] /\ pc[s] # "maintaining"
  <2> SUFFICES ASSUME NEW s \in Runs, s # a PROVE pc'[s] = pc[s] /\ pc[s] # "maintaining"
    OBVIOUS
  <2>1. pc'[s] = pc[s]
    BY DEF Inv, RunTypes
  <2>2. txn[s].op = NoOp
    BY <1>1 DEF Inv, LockInv, Actors
  <2>3. Maintain(began[s]).kind # NoOp.kind
    BY DEF Maintain, NoOp
  <2> QED
    BY <2>1, <2>2, <2>3 DEF Inv, RunInv
<1>3. a \in Runs => /\ pc[a] \in {"maintaining", "crediting", "promoting"}
                    /\ pc'[a] = Following(pc[a])
  BY <1>1 DEF Inv, RunInv, RunTypes
<1>4. a \in Runs => /\ pc'[a] \in {"recall", "rfq", "done"}
                    /\ pc'[a] = "recall" => pc[a] = "maintaining" /\ txn[a].op = Maintain(began[a])
  BY <1>3 DEF Following, Inv, RunInv
<1>5. RunTypes'
  BY <1>1 DEF Inv, RunTypes
<1>6. RunInv'
  BY <1>1, <1>2, <1>4 DEF RunInv, Actors
<1>7. FreshInv'
  <2>1. ASSUME NEW s \in Runs
        PROVE  pc'[s] \in {"start", "maintaining", "recall"} => DOMAIN recalled'[s] = {}
    BY <1>2, <1>4 DEF Inv, FreshInv
  <2>2. ASSUME NEW s \in Runs, pc'[s] = "recall" PROVE FreshFor(facts', began[s])
    BY <1>2, <1>4, <2>2, CommitFresh
  <2>3. \A b \in Actors : txn'[b].op \notin UpsertOp \cup RevalidateOp
    BY <1>1, OpKinds DEF Ops
  <2> QED
    BY <2>1, <2>2, <2>3 DEF Inv, FreshInv
<1>8. RecallFresh'
  BY DEF Inv, RecallFresh
<1> QED
  BY <1>1, <1>5, <1>6, <1>7, <1>8 DEF Inv

\* A run whose process dies leaves the file as it was.
LEMMA CrashInv ==
    ASSUME Inv, NEW r \in Runs, Crash(r)
    PROVE  Inv'
<1>1. /\ facts' = facts /\ acked' = acked /\ key' = key /\ recalled' = recalled
      /\ channel' = channel /\ began' = began /\ today' = today
  BY DEF Crash
<1>2. /\ DOMAIN pc' = Runs /\ pc'[r] = "dead" /\ \A s \in Runs \ {r} : pc'[s] = pc[s]
      /\ DOMAIN txn' = Actors /\ txn'[r].op = NoOp /\ \A b \in Actors \ {r} : txn'[b] = txn[b]
  BY DEF Crash, Inv, RunTypes, Idle, Actors
<1>3. RunTypes'
  BY <1>1, <1>2 DEF Inv, RunTypes
<1>4. LockInv'
  BY <1>1, <1>2 DEF Inv, LockInv, Crash
<1>5. RunInv'
  BY <1>1, <1>2 DEF Inv, RunInv, Actors
<1>6. FreshInv'
  BY <1>1, <1>2, OpKinds DEF Inv, FreshInv, Ops
<1>7. SoundFacts(facts)' /\ PromotionKept' /\ RecallFresh'
  BY <1>1 DEF Inv, SoundFacts, PromotionKept, RecallFresh
<1> QED
  BY <1>3, <1>4, <1>5, <1>6, <1>7 DEF Inv

\* What the operator may ask for.
LEMMA CommandFact ==
    ASSUME Inv, Command
    PROVE  \E op \in MaintainOp \cup RevalidateOp : Begin(Operator, op) /\ op.day = today
<1>1. today \in Nat
  BY DEF Inv, RunTypes
<1>2. CASE Begin(Operator, Maintain(today))
  BY <1>1, <1>2 DEF Maintain, MaintainOp
<1>3. ASSUME NEW k \in DOMAIN facts, NEW v \in Values, NEW c \in Confs, NEW seen \in BOOLEAN,
             NEW refs \in {facts[k].refs, {PageRow(Operator)}},
             Begin(Operator, Revalidate(k, seen, v, c, refs, today))
      PROVE  \E op \in MaintainOp \cup RevalidateOp : Begin(Operator, op) /\ op.day = today
  <2>1. k \in Keys /\ refs \in SUBSET PageRows
    BY DEF Inv, SoundFacts, Sound, FactRecord, PageRows, Actors
  <2>2. c \in Tenths
    BY SemanticMemoryAssumption DEF Tenths
  <2>3. Revalidate(k, seen, v, c, refs, today) \in RevalidateOp
        /\ Revalidate(k, seen, v, c, refs, today).day = today
    BY <1>1, <2>1, <2>2 DEF Revalidate, RevalidateOp
  <2> QED
    BY <1>3, <2>3
<1> QED
  BY <1>2, <1>3 DEF Command

\* A command that begins keeps the invariant.
LEMMA CommandInv ==
    ASSUME Inv, Command
    PROVE  Inv'
<1>1. PICK op \in MaintainOp \cup RevalidateOp : Begin(Operator, op) /\ op.day = today
  BY CommandFact
<1>2. Operator \in Actors /\ op \in Ops
  BY <1>1 DEF Actors, Ops
<1>3. /\ \A b \in Actors : txn[b].op = NoOp
      /\ DOMAIN txn' = Actors /\ txn'[Operator].op = op
      /\ \A b \in Actors \ {Operator} : txn'[b].op = NoOp
      /\ facts' = facts /\ acked' = acked
      /\ LockInv'
  BY <1>1, <1>2, BeginFact
<1>4. /\ pc' = pc /\ key' = key /\ recalled' = recalled /\ channel' = channel
      /\ began' = began /\ today' = today
  BY DEF Command, run
<1>5. RunTypes'
  BY <1>3, <1>4 DEF Inv, RunTypes
<1>6. RunInv'
  <2>1. \A s \in Runs : s \in Actors /\ s # Operator
    BY SemanticMemoryAssumption DEF Actors
  <2> QED
    BY <1>3, <1>4, <2>1 DEF Inv, RunInv
<1>7. FreshInv'
  BY <1>1, <1>3, <1>4, OpKinds DEF Inv, FreshInv, Ops
<1>8. SoundFacts(facts)' /\ PromotionKept' /\ RecallFresh'
  BY <1>3, <1>4 DEF Inv, SoundFacts, PromotionKept, RecallFresh
<1> QED
  BY <1>3, <1>5, <1>6, <1>7, <1>8 DEF Inv

\* What a run promotes is an upsert of evidence from its pages.
LEMMA PromotedFact ==
    ASSUME Inv, NEW r \in Runs, Promotes(r)
    PROVE  Promoted(r) \in UpsertOp /\ Promoted(r).day = today
<1>1. channel[r].from = "page" /\ channel[r].value \in Values /\ channel[r].conf \in Tenths
  BY DEF Promotes, Inv, RunTypes
<1>2. key[r] \in Keys /\ today \in Nat /\ {PageRow(r)} \in SUBSET PageRows
  BY DEF Inv, RunTypes, PageRows, Actors
<1> QED
  BY <1>1, <1>2 DEF Promoted, Upsert, UpsertOp

\* The operations of the other transactions a run begins.
LEMMA MaintainCiteFact ==
    ASSUME Inv, NEW r \in Runs
    PROVE  /\ Maintain(today) \in Ops \ (RevalidateOp \cup UpsertOp)
           /\ Cite(key[r]) \in Ops \ (RevalidateOp \cup UpsertOp)
<1>1. today \in Nat /\ key[r] \in Keys
  BY DEF Inv, RunTypes
<1> QED
  BY <1>1 DEF Maintain, Cite, Ops, MaintainOp, CiteOp, UpsertOp, RevalidateOp

\* Every step keeps the invariant.
LEMMA NextInv == Inv /\ [Next]_vars => Inv'
<1> SUFFICES ASSUME Inv, [Next]_vars PROVE Inv'
  OBVIOUS
<1>1. ASSUME NEW r \in Runs, StartMaintain(r) PROVE Inv'
  <2>1. /\ Begin(r, Maintain(today)) /\ pc[r] = "start" /\ pc' = [pc EXCEPT ![r] = "maintaining"]
        /\ began' = [began EXCEPT ![r] = today]
        /\ today' = today /\ key' = key /\ recalled' = recalled /\ channel' = channel
    BY <1>1 DEF StartMaintain
  <2>2. Maintain(today) \in Ops \ (RevalidateOp \cup UpsertOp)
    BY MaintainCiteFact
  <2> QED
    BY <2>1, <2>2, RunBeginsInv
<1>2. ASSUME NEW r \in Runs, Recall(r) \/ RecallError(r) \/ Gather(r) \/ Unverified(r) \/ Draft(r)
      PROVE  Inv'
  <2>1. UNCHANGED store
    BY <1>2 DEF Recall, RecallError, Gather, Unverified, Draft
  <2> QED
    BY <1>2, <2>1, RunAloneInv
<1>3. ASSUME NEW r \in Runs, Verified(r) PROVE Inv'
  <2>1. CASE UNCHANGED store
    BY <1>3, <2>1, RunAloneInv
  <2>2. CASE ~UNCHANGED store
    <3>1. /\ Begin(r, Cite(key[r])) /\ pc' = [pc EXCEPT ![r] = "crediting"] /\ began' = began
          /\ today' = today /\ key' = key /\ recalled' = recalled /\ channel' = channel
      BY <1>3, <2>2 DEF Verified
    <3>2. Cite(key[r]) \in Ops \ (RevalidateOp \cup UpsertOp)
      BY MaintainCiteFact
    <3> QED
      BY <3>1, <3>2, RunBeginsInv
  <2> QED
    BY <2>1, <2>2
<1>4. ASSUME NEW r \in Runs, Promote(r) PROVE Inv'
  <2>1. CASE UNCHANGED store
    BY <1>4, <2>1, RunAloneInv
  <2>2. CASE ~UNCHANGED store
    <3>1. /\ Promotes(r) /\ Begin(r, Promoted(r))
          /\ pc' = [pc EXCEPT ![r] = "promoting"] /\ began' = began
          /\ today' = today /\ key' = key /\ recalled' = recalled /\ channel' = channel
      BY <1>4, <2>2 DEF Promote
    <3>2. Promoted(r) \in UpsertOp /\ Promoted(r).day = today
      BY <3>1, PromotedFact
    <3>3. Promoted(r) \in Ops \ RevalidateOp
      BY <3>2 DEF Ops, UpsertOp, RevalidateOp
    <3> QED
      BY <3>1, <3>2, <3>3, RunBeginsInv
  <2> QED
    BY <2>1, <2>2
<1>5. ASSUME NEW r \in Runs, CommitRun(r) PROVE Inv'
  <2>1. /\ r \in Actors /\ Commit(r) /\ UNCHANGED <<today, key, recalled, channel, began>>
        /\ pc' = [pc EXCEPT ![r] = Following(pc[r])]
    BY <1>5 DEF CommitRun, Actors
  <2> QED
    BY <2>1, CommitInv
<1>6. ASSUME NEW r \in Runs, Crash(r) PROVE Inv'
  BY <1>6, CrashInv
<1>7. CASE Command
  BY <1>7, CommandInv
<1>8. CASE CommitCommand
  <2>1. /\ Operator \in Actors /\ Operator \notin Runs /\ Commit(Operator)
        /\ UNCHANGED <<today, key, recalled, channel, began>> /\ pc' = pc
    BY <1>8, SemanticMemoryAssumption DEF CommitCommand, Actors, run
  <2> QED
    BY <2>1, CommitInv
<1>9. CASE NextDay \/ UNCHANGED vars
  <2>1. /\ facts' = facts /\ lock' = lock /\ txn' = txn /\ acked' = acked
        /\ pc' = pc /\ key' = key /\ recalled' = recalled /\ channel' = channel /\ began' = began
        /\ today' = today \/ today' = today + 1
    BY <1>9 DEF NextDay, vars, store, run
  <2>2. RunTypes' /\ FreshInv'
    BY <2>1 DEF Inv, RunTypes, FreshInv
  <2>3. LockInv' /\ RunInv'
    BY <2>1 DEF Inv, LockInv, RunInv
  <2>4. SoundFacts(facts)' /\ PromotionKept' /\ RecallFresh'
    BY <2>1 DEF Inv, SoundFacts, PromotionKept, RecallFresh
  <2> QED
    BY <2>2, <2>3, <2>4 DEF Inv
<1> QED
  BY <1>1, <1>2, <1>3, <1>4, <1>5, <1>6, <1>7, <1>8, <1>9 DEF Next, RunStep

\* The inductive invariant: whoever has a transaction under way holds the lock and
\* has read what is in the file, and the facts are sound.
THEOREM SpecInv == Spec => []Inv
  BY InitInv, NextInv, PTL DEF Spec

-----------------------------------------------------------------------------
(* What follows                                                             *)

\* Only a commit changes the file.
LEMMA OnlyCommits ==
    [Next]_vars => facts' = facts \/ \E a \in Actors : Commit(a)
<1> SUFFICES ASSUME [Next]_vars PROVE facts' = facts \/ \E a \in Actors : Commit(a)
  OBVIOUS
<1>1. ASSUME NEW r \in Runs, RunStep(r) \/ Crash(r)
      PROVE  facts' = facts \/ \E a \in Actors : Commit(a)
  <2>1. CASE CommitRun(r)
    BY <2>1 DEF CommitRun, Actors
  <2> QED
    BY <1>1, <2>1 DEF RunStep, StartMaintain, Recall, RecallError, Gather, Unverified, Verified,
                      Draft, Promote, Crash, Begin, store
<1>2. CASE Command \/ CommitCommand \/ NextDay \/ UNCHANGED vars
  BY <1>2 DEF Command, CommitCommand, NextDay, Begin, Actors, store, vars
<1> QED
  BY <1>1, <1>2 DEF Next

\* The abstract store applies the same operations.
LEMMA SameApplied == \A F, op : Store!Applied(F, op) = Applied(F, op)
<1>1. \A x, y : Store!Larger(x, y) = Larger(x, y)
  BY DEF Larger, Store!Larger
<1>2. \A v, c, r : Store!Side(v, c, r) = Side(v, c, r)
  BY DEF Side, Store!Side
<1>3. \A S, s : Store!WithSide(S, s) = WithSide(S, s)
  BY <1>1, <1>2 DEF WithSide, Store!WithSide
<1>4. \A f, op : Store!Sides(f, op) = Sides(f, op)
  BY <1>2, <1>3 DEF Sides, Store!Sides, Primary, Store!Primary
<1>5. \A S, v : Store!Surest(S, v) = Surest(S, v)
  BY DEF Surest, Store!Surest
<1>6. \A f, op : Store!Disputed(f, op) = Disputed(f, op)
  BY <1>4, <1>5 DEF Disputed, Store!Disputed
<1>7. \A f, op : Store!Reinforced(f, op) = Reinforced(f, op)
  BY <1>1 DEF Reinforced, Store!Reinforced
<1>8. \A f, op : Store!Refreshed(f, op) = Refreshed(f, op)
  BY <1>1 DEF Refreshed, Store!Refreshed, Margin, Store!Margin
<1>9. /\ \A op : Store!NewFact(op) = NewFact(op)
      /\ \A v, w : Store!Contradicts(v, w) = Contradicts(v, w)
      /\ \A f, day : Store!IsStale(f, day) = IsStale(f, day)
      /\ \A F, k, f : Store!Put(F, k, f) = Put(F, k, f)
  BY DEF NewFact, Store!NewFact, Contradicts, Store!Contradicts, IsStale, Store!IsStale, Put, Store!Put
<1>10. \A F, op : Store!Upserted(F, op) = Upserted(F, op)
  BY <1>6, <1>7, <1>9 DEF Upserted, Store!Upserted
<1>11. \A F, op : Store!Maintained(F, op) = Maintained(F, op)
  BY <1>9 DEF Maintained, Store!Maintained
<1>12. \A F, op : Store!Cited(F, op) = Cited(F, op)
  BY DEF Cited, Store!Cited
<1>13. \A F, op : Store!Revalidated(F, op) = Revalidated(F, op)
  BY <1>8 DEF Revalidated, Store!Revalidated
<1> QED
  BY <1>10, <1>11, <1>12, <1>13 DEF Applied, Store!Applied

\* The locked file implements the abstract store: whatever runs, commands and
\* crashes interleave, the facts change by whole operations that somebody asks
\* for, each applied to what the last one left.
THEOREM StoreImplemented == Spec => Serializable
<1>1. Init => Store!StoreInit
  BY DEF Init, Store!StoreInit, NoFacts, Store!NoFacts
<1>2. Inv /\ [Next]_vars => [Store!StoreNext]_facts
  <2> SUFFICES ASSUME Inv, NEW a \in Actors, Commit(a) PROVE Store!StoreNext
    BY OnlyCommits
  <2>1. txn[a].op \in Ops /\ facts' = Applied(facts, txn[a].op)
    BY CommitFact
  <2>2. txn[a].op \in {txn[b].op : b \in Actors} \ {NoOp}
    BY <2>1, OpKinds
  <2> QED
    BY <2>1, <2>2, SameApplied DEF Store!StoreNext
<1> QED
  BY <1>1, <1>2, SpecInv, PTL DEF Spec, Serializable, Store!StoreSpec

\* Evidence that was promoted stays with its fact or one of its sides.
THEOREM PromotionIsKept == Spec => []PromotionKept
<1>1. Inv => PromotionKept
  BY DEF Inv
<1> QED
  BY <1>1, SpecInv, PTL

\* Memory never becomes its own evidence.
THEOREM OnlyPagesSupport == Spec => []NoSelfSupport
<1>1. Inv => NoSelfSupport
  <2> SUFFICES ASSUME Inv, NEW k \in DOMAIN facts, NEW ref \in RefsOf(facts[k])
               PROVE  ref.tool = "page"
    BY DEF NoSelfSupport
  <2>1. facts[k].refs \in SUBSET PageRows /\ facts[k].alts \in SUBSET SideType
    BY DEF Inv, SoundFacts, Sound, FactRecord
  <2>2. ref \in PageRows
    BY <2>1 DEF RefsOf, SideType
  <2> QED
    BY <2>2 DEF PageRows, PageRow
<1> QED
  BY <1>1, SpecInv, PTL

\* What is recalled is fresh, and the surest side of its fact.
THEOREM RecallsAreSound == Spec => []RecallIsSound
<1>1. Inv => RecallIsSound
  BY DEF Inv, RecallIsSound, SurestShown, SoundFacts, Sound, SurestFirst
<1> QED
  BY <1>1, SpecInv, PTL

\* No run and no crash settles a dispute.
THEOREM DisputesStand == Spec => DisputeStands
<1> DEFINE Stands == \A k \in DOMAIN facts :
          facts[k].status = "disputed" /\ txn[Operator].op.kind # "revalidate"
              => k \in DOMAIN facts' /\ facts'[k].status = "disputed"
<1>1. Inv /\ [Next]_vars => Stands
  <2> SUFFICES ASSUME Inv, NEW a \in Actors, Commit(a), txn[Operator].op.kind # "revalidate"
               PROVE  KeptFrom(facts, facts')
    BY OnlyCommits DEF KeptFrom
  <2>1. txn[a].op \in Ops /\ txn[a].op # NoOp /\ facts' = Applied(facts, txn[a].op)
    BY CommitFact, OpKinds
  <2>2. txn[a].op \notin RevalidateOp
    BY <2>1, OpKinds DEF Actors, Inv, RunInv
  <2>3. SoundFacts(facts)
    BY DEF Inv
  <2> QED
    BY <2>1, <2>2, <2>3, AppliedFact
<1>2. Inv /\ [Next]_vars => [Stands]_vars
  BY <1>1
<1> QED
  BY <1>2, SpecInv, PTL DEF Spec, DisputeStands

-----------------------------------------------------------------------------
(* Belief fusion: induction, and sums over finite sets.                      *)

\* Every nonempty set of naturals has a least element
LEMMA LeastNat ==
    ASSUME NEW T, T \subseteq Nat, T # {}
    PROVE  \E x \in T : \A y \in T : x <= y
<1> DEFINE R == {ss \in Nat \X Nat : ss[1] < ss[2]}
<1>1. IsWellFoundedOn(R, Nat)
  BY NatLessThanWellFounded DEF OpToRel
<1>2. \E x \in T : \A y \in T : ~ (<<y, x>> \in R)
  <2> HIDE DEF R
  <2> QED BY <1>1, WFMin
<1>3. \A x, y \in Nat : y < x => <<y,x>> \in R
  OBVIOUS
<1>4. PICK x \in T : \A y \in T : ~ (<<y, x>> \in R)
  BY <1>2
<1>5. \A y \in T : ~ (y < x)
  BY <1>3, <1>4
<1> QED BY <1>5

\* Induction over the naturals, from all the smaller ones, with a set for the predicate.
LEMMA NatStrongInduction ==
    ASSUME NEW P, \A n \in Nat : (\A i \in 0..(n - 1) : i \in P) => n \in P
    PROVE  Nat \subseteq P
<1> SUFFICES ASSUME Nat \ P # {} PROVE FALSE
    OBVIOUS
<1>1. PICK m \in Nat \ P : \A n \in Nat \ P : m <= n
  <2>1. Nat \ P \subseteq Nat
      OBVIOUS
  <2> QED BY <2>1, LeastNat
<1>2. \A i \in 0..(m - 1) : i \in P
    BY <1>1
<1> QED BY <1>1, <1>2

\* One element of a set.
Some(S) == CHOOSE x \in S : TRUE

\* What holds of {}, and of a set when it holds of the set without one element, holds of all finite sets.
LEMMA SubsetInduction ==
    ASSUME NEW D, IsFiniteSet(D), NEW P, {} \in P,
           \A s \in SUBSET D : s # {} /\ s \ {Some(s)} \in P => s \in P
    PROVE  SUBSET D \subseteq P
<1> SUFFICES ASSUME NEW b \in SUBSET D, b \notin P PROVE FALSE
    OBVIOUS
<1> DEFINE T == {Cardinality(s) : s \in (SUBSET D) \ P}
<1>1. \A s \in SUBSET D : IsFiniteSet(s) /\ Cardinality(s) \in Nat
    BY FS_Subset, FS_CardinalityType
<1>2. T \subseteq Nat /\ T # {}
    BY <1>1
<1>3. PICK m \in T : \A n \in T : m <= n
  <2> HIDE DEF T
  <2> QED BY <1>2, LeastNat
<1>4. PICK s \in (SUBSET D) \ P : m = Cardinality(s)
    BY <1>3
<1>5. s # {} /\ Some(s) \in s
    BY <1>4 DEF Some
<1>6. s \ {Some(s)} \in SUBSET D /\ Cardinality(s \ {Some(s)}) = m - 1
    BY <1>1, <1>4, <1>5, FS_RemoveElement
<1>7. s \ {Some(s)} \in P
    BY <1>1, <1>3, <1>4, <1>6
<1> QED BY <1>4, <1>5, <1>7

\* A table of sums, by their recursive definition.
IsTable(it, f) ==
    it = [s \in SUBSET DOMAIN f |-> IF s = {} THEN 0 ELSE f[Some(s)] + it[s \ {Some(s)}]]

\* A sum, by its recursive definition.
LEMMA SumUnfold == \A f : SumFunction(f) = (CHOOSE it : IsTable(it, f))[DOMAIN f]
  BY DEF SumFunction, SumFunctionOnSet, FoldFunctionOnSet, MapThenFoldSet, IsTable, Some

\* Induction over the naturals, with a set for the predicate.
LEMMA NatSetInduction ==
    ASSUME NEW P, 0 \in P, \A n \in Nat : n \in P => n + 1 \in P
    PROVE  Nat \subseteq P
<1> SUFFICES ASSUME Nat \ P # {} PROVE FALSE
    OBVIOUS
<1>1. PICK m \in Nat \ P : \A n \in Nat \ P : m <= n
  <2>1. Nat \ P \subseteq Nat
      OBVIOUS
  <2> QED BY <2>1, LeastNat
<1>2. m # 0 /\ m - 1 \in Nat /\ m - 1 \in P /\ (m - 1) + 1 = m
    BY <1>1
<1> QED BY <1>1, <1>2

\* The recursive definition of a sum has a solution: by induction on the size of the sets.
LEMMA TableExists ==
    ASSUME NEW f, IsFiniteSet(DOMAIN f)
    PROVE  \E it : IsTable(it, f)
<1> DEFINE D == DOMAIN f
           Small(n) == {s \in SUBSET D : Cardinality(s) <= n}
           Step(it, s) == IF s = {} THEN 0 ELSE f[Some(s)] + it[s \ {Some(s)}]
           P == {n \in Nat : \E it : it = [s \in Small(n) |-> Step(it, s)]}
<1>1. \A s \in SUBSET D : IsFiniteSet(s) /\ Cardinality(s) \in Nat
    BY FS_Subset, FS_CardinalityType
<1>2. \A s \in SUBSET D : Cardinality(s) = 0 <=> s = {}
    BY <1>1, FS_EmptySet
<1>3. \A s \in SUBSET D : s # {} =>
         s \ {Some(s)} \in SUBSET D /\ Cardinality(s \ {Some(s)}) = Cardinality(s) - 1
    BY <1>1, FS_RemoveElement DEF Some
<1>4. 0 \in P
  <2>1. Small(0) = {{}}
      BY <1>1, <1>2
  <2>2. PICK it : it = [s \in Small(0) |-> 0]
      OBVIOUS
  <2>3. \A s \in Small(0) : Step(it, s) = 0
      BY <2>1
  <2> HIDE DEF Small, Step
  <2>4. it = [s \in Small(0) |-> Step(it, s)]
      BY <2>2, <2>3
  <2> QED BY <2>4
<1>5. \A n \in Nat : n \in P => n + 1 \in P
  <2> SUFFICES ASSUME NEW n \in Nat, n \in P PROVE n + 1 \in P
      OBVIOUS
  <2>1. PICK old : old = [s \in Small(n) |-> Step(old, s)]
      OBVIOUS
  <2>2. PICK it : it = [s \in Small(n + 1) |-> Step(old, s)]
      OBVIOUS
  <2>3. \A s \in Small(n + 1) : s # {} => s \ {Some(s)} \in Small(n)
      BY <1>1, <1>3
  <2>4. Small(n) \subseteq Small(n + 1)
      BY <1>1
  <2>5. \A s \in Small(n) : it[s] = old[s]
    <3> HIDE DEF Small, Step
    <3> QED BY <2>1, <2>2, <2>4
  <2>6. \A s \in Small(n + 1) : Step(it, s) = Step(old, s)
    <3> HIDE DEF Small
    <3> QED BY <2>3, <2>5
  <2>7. it = [s \in Small(n + 1) |-> Step(it, s)]
    <3> HIDE DEF Small, Step
    <3> QED BY <2>2, <2>6
  <2>8. n + 1 \in Nat
      OBVIOUS
  <2> HIDE DEF Small, Step
  <2> QED BY <2>7, <2>8
<1>6. Nat \subseteq P
  <2> HIDE DEF P
  <2> QED BY <1>4, <1>5, NatSetInduction
<1>7. Cardinality(D) \in Nat /\ Small(Cardinality(D)) = SUBSET D
  <2>1. \A s \in SUBSET D : Cardinality(s) <= Cardinality(D)
      BY FS_Subset
  <2> QED BY <1>1, <2>1
<1>8. \E it : it = [s \in Small(Cardinality(D)) |-> Step(it, s)]
    BY <1>6, <1>7
<1>9. \E it : it = [s \in SUBSET D |-> Step(it, s)]
  <2> HIDE DEF Small, Step, P
  <2> QED BY <1>7, <1>8
<1> QED BY <1>9 DEF IsTable

\* A table of the sums of f over the subsets of its domain.
SumsUp(it, f) ==
    /\ it \in [SUBSET DOMAIN f -> Nat] /\ it[{}] = 0 /\ SumFunction(f) = it[DOMAIN f]
    /\ \A s \in SUBSET DOMAIN f : s # {} => it[s] = f[Some(s)] + it[s \ {Some(s)}]

\* A sum of naturals is the last entry of a table that starts with 0 and adds one element at a time.
LEMMA SumTable ==
    ASSUME NEW f, IsFiniteSet(DOMAIN f), \A x \in DOMAIN f : f[x] \in Nat
    PROVE  \E it : SumsUp(it, f)
<1> DEFINE it == CHOOSE table : IsTable(table, f)
<1>1. IsTable(it, f) /\ SumFunction(f) = it[DOMAIN f]
    BY TableExists, SumUnfold
<1> HIDE DEF it
<1>2. /\ it[{}] = 0 /\ DOMAIN it = SUBSET DOMAIN f
      /\ \A s \in SUBSET DOMAIN f : it[s] = IF s = {} THEN 0 ELSE f[Some(s)] + it[s \ {Some(s)}]
    BY <1>1 DEF IsTable
<1> DEFINE P == {s \in SUBSET DOMAIN f : it[s] \in Nat}
<1>3. SUBSET DOMAIN f \subseteq P
  <2>1. {} \in P
      BY <1>2
  <2>2. \A s \in SUBSET DOMAIN f : s # {} /\ s \ {Some(s)} \in P => s \in P
    <3> SUFFICES ASSUME NEW s \in SUBSET DOMAIN f, s # {}, s \ {Some(s)} \in P PROVE s \in P
        OBVIOUS
    <3>1. Some(s) \in DOMAIN f
        BY DEF Some
    <3>2. it[s] = f[Some(s)] + it[s \ {Some(s)}]
        BY <1>2
    <3> QED BY <3>1, <3>2
  <2> HIDE DEF P
  <2> QED BY <2>1, <2>2, SubsetInduction
<1>4. it = [s \in SUBSET DOMAIN f |-> it[s]]
    BY <1>1, <1>2 DEF IsTable
<1>5. it \in [SUBSET DOMAIN f -> Nat]
    BY <1>3, <1>4
<1>6. SumsUp(it, f)
    BY <1>1, <1>2, <1>5 DEF SumsUp
<1> QED BY <1>6

\* The sum of f over a set.
Tot(f, S) == SumFunction([x \in S |-> f[x]])

\* A table has the sums of f over the subsets of its domain.
LEMMA TableHasTot ==
    ASSUME NEW D, IsFiniteSet(D), NEW f \in [D -> Nat], NEW it, SumsUp(it, f), NEW S \in SUBSET D
    PROVE  it[S] = Tot(f, S)
<1>1. PICK g : g = [x \in S |-> f[x]]
    OBVIOUS
<1>2. IsFiniteSet(S) /\ DOMAIN g = S /\ \A x \in S : g[x] \in Nat /\ g[x] = f[x]
    BY <1>1, FS_Subset
<1>3. PICK jt : SumsUp(jt, g)
    BY <1>2, SumTable
<1> DEFINE P == {s \in SUBSET S : it[s] = jt[s]}
<1>4. {} \in P
    BY <1>3 DEF SumsUp
<1>5. ASSUME NEW s \in SUBSET S, s # {}, s \ {Some(s)} \in P PROVE s \in P
  <2>1. Some(s) \in S /\ s \in SUBSET D /\ s \in SUBSET DOMAIN g
      BY <1>2, <1>5 DEF Some
  <2>2. it[s] = f[Some(s)] + it[s \ {Some(s)}]
      BY <1>5, <2>1 DEF SumsUp
  <2>3. jt[s] = g[Some(s)] + jt[s \ {Some(s)}]
      BY <1>3, <1>5, <2>1 DEF SumsUp
  <2> QED BY <1>2, <1>5, <2>1, <2>2, <2>3
<1>6. S \in P
  <2> HIDE DEF P
  <2>1. SUBSET S \subseteq P
      BY <1>2, <1>4, <1>5, SubsetInduction
  <2> QED BY <2>1
<1>7. SumFunction(g) = jt[S]
    BY <1>2, <1>3 DEF SumsUp
<1> QED BY <1>1, <1>6, <1>7 DEF Tot

\* A sum is a natural, and nothing over no element.
LEMMA TotType ==
    ASSUME NEW S, IsFiniteSet(S), NEW f, \A x \in S : f[x] \in Nat
    PROVE  Tot(f, S) \in Nat /\ Tot(f, {}) = 0
<1>1. PICK g \in [S -> Nat] : g = [x \in S |-> f[x]]
    OBVIOUS
<1>2. PICK it : SumsUp(it, g)
    BY SumTable
<1>3. it[S] = SumFunction(g) /\ it[S] \in Nat /\ it[{}] = 0
    BY <1>2 DEF SumsUp
<1>4. it[{}] = Tot(g, {})
    BY <1>2, TableHasTot
<1>5. Tot(g, {}) = Tot(f, {})
  <2>1. [x \in {} |-> g[x]] = [x \in {} |-> f[x]]
      OBVIOUS
  <2> QED BY <2>1 DEF Tot
<1> QED BY <1>1, <1>3, <1>4, <1>5 DEF Tot

\* It is that of any one of its elements and of the others.
LEMMA TotTake ==
    ASSUME NEW S, IsFiniteSet(S), NEW f, \A y \in S : f[y] \in Nat, NEW x \in S
    PROVE  Tot(f, S) = f[x] + Tot(f, S \ {x}) /\ Tot(f, S \ {x}) \in Nat
<1>1. PICK g \in [S -> Nat] : g = [y \in S |-> f[y]]
    OBVIOUS
<1>2. PICK it : SumsUp(it, g)
    BY SumTable
<1>3. /\ \A s \in SUBSET S : s # {} => it[s] = g[Some(s)] + it[s \ {Some(s)}]
      /\ \A s \in SUBSET S : it[s] \in Nat
    BY <1>2 DEF SumsUp
<1>4. \A s \in SUBSET S : IsFiniteSet(s) /\ Cardinality(s) \in Nat
    BY FS_Subset, FS_CardinalityType
<1> DEFINE P == {n \in Nat : \A s \in SUBSET S : Cardinality(s) = n =>
                    \A y \in s : it[s] = g[y] + it[s \ {y}]}
<1>5. 0 \in P
  <2>1. \A s \in SUBSET S : Cardinality(s) = 0 => s = {}
      BY <1>4, FS_EmptySet
  <2> QED BY <2>1
<1>6. \A n \in Nat : n \in P => n + 1 \in P
  <2> SUFFICES ASSUME NEW n \in Nat, n \in P PROVE n + 1 \in P
      OBVIOUS
  <2>1. ASSUME NEW s \in SUBSET S, Cardinality(s) = n + 1, NEW y \in s
        PROVE  it[s] = g[y] + it[s \ {y}]
    <3>1. PICK c \in s : c = Some(s)
        BY DEF Some
    <3>2. it[s] = g[c] + it[s \ {c}]
        BY <1>3, <3>1
    <3>3. CASE c = y
        BY <3>2, <3>3
    <3>4. CASE c # y
      <4>1. Cardinality(s \ {c}) = n /\ Cardinality(s \ {y}) = n
          BY <1>4, <2>1, FS_RemoveElement
      <4>2. PICK a, b : a = s \ {c} /\ b = s \ {y}
          OBVIOUS
      <4>3. a \in SUBSET S /\ b \in SUBSET S /\ y \in a /\ c \in b /\ a \ {y} = b \ {c} /\ b \ {c} \in SUBSET S
          BY <3>4, <4>2
      <4>4. it[a] = g[y] + it[a \ {y}]
          BY <4>1, <4>2, <4>3
      <4>5. it[b] = g[c] + it[b \ {c}]
          BY <4>1, <4>2, <4>3
      <4>6. g[c] \in Nat /\ g[y] \in Nat /\ it[b \ {c}] \in Nat
          BY <1>3, <4>3
      <4>7. PICK rest \in Nat : rest = it[b \ {c}]
          BY <4>6
      <4>8. it[s] = g[c] + (g[y] + rest) /\ it[b] = g[c] + rest
          BY <3>2, <4>2, <4>3, <4>4, <4>5, <4>7
      <4> QED BY <4>2, <4>6, <4>8
    <3> QED BY <3>3, <3>4
  <2> QED BY <2>1
<1>7. Nat \subseteq P
  <2> HIDE DEF P
  <2> QED BY <1>5, <1>6, NatSetInduction
<1>8. it[S] = g[x] + it[S \ {x}]
  <2>1. Cardinality(S) \in P /\ S \in SUBSET S
      BY <1>4, <1>7
  <2> QED BY <2>1
<1>9. it[S] = Tot(g, S) /\ it[S \ {x}] = Tot(g, S \ {x}) /\ it[S \ {x}] \in Nat
    BY <1>2, <1>3, TableHasTot
<1>10. Tot(g, S) = Tot(f, S) /\ Tot(g, S \ {x}) = Tot(f, S \ {x})
  <2>1. [y \in S |-> g[y]] = [y \in S |-> f[y]] /\ [y \in S \ {x} |-> g[y]] = [y \in S \ {x} |-> f[y]]
      BY <1>1
  <2> QED BY <2>1 DEF Tot
<1> QED BY <1>1, <1>8, <1>9, <1>10

\* Sums over two sets in correspondence, element by element.
LEMMA TotMap ==
    ASSUME NEW S, IsFiniteSet(S), NEW E, IsFiniteSet(E), NEW f, NEW g, NEW b,
           \A x \in S : f[x] \in Nat /\ b[x] \in E /\ g[b[x]] = f[x],
           \A x, y \in S : b[x] = b[y] => x = y,
           \A z \in E : \E x \in S : z = b[x],
           \A z \in E : g[z] \in Nat
    PROVE  Tot(f, S) = Tot(g, E)
<1> DEFINE Image(s) == {b[x] : x \in s}
           P == {s \in SUBSET S : Tot(f, s) = Tot(g, Image(s))}
<1>1. {} \in P
  <2>1. Image({}) = {}
      OBVIOUS
  <2>2. Tot(f, {}) = 0 /\ Tot(g, {}) = 0
      BY TotType
  <2> QED BY <2>1, <2>2
<1>2. ASSUME NEW s \in SUBSET S, s # {}, s \ {Some(s)} \in P PROVE s \in P
  <2>1. PICK c \in s : c = Some(s)
      BY <1>2 DEF Some
  <2>2. Image(s) \subseteq E /\ IsFiniteSet(Image(s)) /\ IsFiniteSet(s)
      BY FS_Subset
  <2>3. Image(s \ {c}) = Image(s) \ {b[c]} /\ b[c] \in Image(s)
      BY <2>1
  <2>4. Tot(f, s) = f[c] + Tot(f, s \ {c})
      BY <2>1, <2>2, TotTake
  <2>5. Tot(g, Image(s)) = g[b[c]] + Tot(g, Image(s) \ {b[c]})
    <3> HIDE DEF Image
    <3> QED BY <2>2, <2>3, TotTake
  <2>6. Tot(f, s \ {c}) = Tot(g, Image(s \ {c}))
      BY <1>2, <2>1
  <2> QED BY <2>1, <2>3, <2>4, <2>5, <2>6
<1>3. S \in P
  <2> HIDE DEF P
  <2>1. SUBSET S \subseteq P
      BY <1>1, <1>2, SubsetInduction
  <2> QED BY <2>1
<1>4. Image(S) = E
    OBVIOUS
<1> QED BY <1>3, <1>4

\* Sums of equal terms.
LEMMA TotSame ==
    ASSUME NEW S, NEW f, NEW g, \A x \in S : f[x] = g[x]
    PROVE  Tot(f, S) = Tot(g, S)
<1>1. [x \in S |-> f[x]] = [x \in S |-> g[x]]
    OBVIOUS
<1> QED BY <1>1 DEF Tot

\* A sum over two parts.
LEMMA TotJoin ==
    ASSUME NEW A, IsFiniteSet(A), NEW B, IsFiniteSet(B), A \cap B = {}, NEW f, \A x \in A \cup B : f[x] \in Nat
    PROVE  /\ Tot(f, A \cup B) = Tot(f, A) + Tot(f, B)
           /\ Tot(f, A) \in Nat /\ Tot(f, B) \in Nat
<1> DEFINE P == {s \in SUBSET A : Tot(f, s \cup B) = Tot(f, s) + Tot(f, B)}
<1>1. Tot(f, A) \in Nat /\ Tot(f, B) \in Nat /\ Tot(f, {}) = 0
    BY TotType
<1>2. {} \in P
  <2>1. {} \cup B = B
      OBVIOUS
  <2> QED BY <1>1, <2>1
<1>3. ASSUME NEW s \in SUBSET A, s # {}, s \ {Some(s)} \in P PROVE s \in P
  <2>1. PICK c \in s : c = Some(s)
      BY <1>3 DEF Some
  <2>2. IsFiniteSet(s) /\ IsFiniteSet(s \cup B)
      BY FS_Subset, FS_Union
  <2>3. (s \cup B) \ {c} = (s \ {c}) \cup B
      BY <2>1
  <2>4. Tot(f, s) = f[c] + Tot(f, s \ {c}) /\ Tot(f, s \ {c}) \in Nat
      BY <2>1, <2>2, TotTake
  <2>5. Tot(f, s \cup B) = f[c] + Tot(f, (s \ {c}) \cup B)
    <3>1. c \in s \cup B /\ \A x \in s \cup B : f[x] \in Nat
        OBVIOUS
    <3> QED BY <2>2, <2>3, <3>1, TotTake
  <2>6. Tot(f, (s \ {c}) \cup B) = Tot(f, s \ {c}) + Tot(f, B)
      BY <1>3, <2>1
  <2>7. f[c] \in Nat
      OBVIOUS
  <2>8. Tot(f, s \cup B) = Tot(f, s) + Tot(f, B)
      BY <1>1, <2>4, <2>5, <2>6, <2>7
  <2> QED BY <2>8
<1>4. A \in P
  <2> HIDE DEF P
  <2>1. SUBSET A \subseteq P
      BY <1>2, <1>3, SubsetInduction
  <2> QED BY <2>1
<1> QED BY <1>1, <1>4

\* A sum of terms each c times another.
LEMMA TotTimes ==
    ASSUME NEW S, IsFiniteSet(S), NEW f, NEW g, NEW c \in Nat,
           \A x \in S : f[x] \in Nat /\ g[x] = c * f[x]
    PROVE  Tot(g, S) = c * Tot(f, S)
<1> DEFINE P == {s \in SUBSET S : Tot(g, s) = c * Tot(f, s)}
<1>1. \A x \in S : g[x] \in Nat
    OBVIOUS
<1>2. {} \in P
  <2>1. Tot(f, {}) = 0 /\ Tot(g, {}) = 0
      BY <1>1, TotType
  <2> QED BY <2>1
<1>3. ASSUME NEW s \in SUBSET S, s # {}, s \ {Some(s)} \in P PROVE s \in P
  <2>1. PICK d \in s : d = Some(s)
      BY <1>3 DEF Some
  <2>2. IsFiniteSet(s)
      BY FS_Subset
  <2>3. Tot(f, s) = f[d] + Tot(f, s \ {d}) /\ Tot(f, s \ {d}) \in Nat
      BY <2>2, TotTake
  <2>4. Tot(g, s) = g[d] + Tot(g, s \ {d})
      BY <1>1, <2>2, TotTake
  <2>5. Tot(g, s \ {d}) = c * Tot(f, s \ {d})
      BY <1>3, <2>1
  <2>6. \A u, v \in Nat : c * (u + v) = c * u + c * v
      OBVIOUS
  <2> QED BY <2>3, <2>4, <2>5, <2>6
<1>4. S \in P
  <2> HIDE DEF P
  <2>1. SUBSET S \subseteq P
      BY <1>2, <1>3, SubsetInduction
  <2> QED BY <2>1
<1> QED BY <1>4

\* A sum of zeros.
LEMMA TotZero ==
    ASSUME NEW S, IsFiniteSet(S), NEW f, \A x \in S : f[x] = 0
    PROVE  Tot(f, S) = 0
<1>1. \A x \in S : f[x] \in Nat /\ f[x] = 0 * f[x]
    OBVIOUS
<1>2. Tot(f, S) = 0 * Tot(f, S) /\ Tot(f, S) \in Nat
    BY <1>1, TotTimes, TotType
<1> QED BY <1>2

-----------------------------------------------------------------------------
(* Belief fusion: lists, products and the mass there is.                     *)

\* One step of the definition of Product, from the solution f.
ProductStep(factors, f, n) == IF n = 0 THEN 1 ELSE f[n - 1] * factors[n]

\* It reads the step before it only.
LEMMA ProductLocal ==
    ASSUME NEW factors, NEW n \in Nat, NEW k, NEW l, \A i \in 0..(n - 1) : k[i] = l[i]
    PROVE  ProductStep(factors, k, n) = ProductStep(factors, l, n)
<1>1. CASE n = 0
    BY <1>1 DEF ProductStep
<1>2. CASE n # 0
  <2>1. k[n - 1] = l[n - 1]
      BY <1>2
  <2> QED BY <2>1 DEF ProductStep
<1> QED BY <1>1, <1>2

\* k solves the recursive definition of Product on the numbers up to m.
IsProductUpTo(factors, k, m) == k = [n \in 0..m |-> ProductStep(factors, k, n)]

\* There is one up to every number, from those up to the numbers below.
LEMMA ProductUpToExists == ASSUME NEW factors, NEW m \in Nat PROVE \E k : IsProductUpTo(factors, k, m)
<1> DEFINE P == {j \in Nat : \E k : IsProductUpTo(factors, k, j)}
<1>1. \A j \in Nat : (\A i \in 0..(j - 1) : i \in P) => j \in P
  <2> SUFFICES ASSUME NEW j \in Nat, \A i \in 0..(j - 1) : i \in P PROVE \E k : IsProductUpTo(factors, k, j)
      OBVIOUS
  <2>1. \E old : \A n \in 0..(j - 1) : old[n] = ProductStep(factors, old, n)
    <3>1. CASE j = 0
        BY <3>1
    <3>2. CASE j # 0
      <4>1. j - 1 \in P
          BY <3>2
      <4>2. PICK old : old = [n \in 0..(j - 1) |-> ProductStep(factors, old, n)]
          BY <4>1 DEF IsProductUpTo
      <4> QED BY <4>2
    <3> QED BY <3>1, <3>2
  <2>2. PICK old : \A n \in 0..(j - 1) : old[n] = ProductStep(factors, old, n)
      BY <2>1
  <2>3. PICK k : k = [n \in 0..j |-> ProductStep(factors, old, n)]
      OBVIOUS
  <2>4. \A n \in 0..(j - 1) : k[n] = old[n]
      BY <2>2, <2>3
  <2>5. \A n \in 0..j : ProductStep(factors, k, n) = ProductStep(factors, old, n)
    <3> SUFFICES ASSUME NEW n \in 0..j PROVE ProductStep(factors, k, n) = ProductStep(factors, old, n)
        OBVIOUS
    <3>1. n \in Nat /\ \A i \in 0..(n - 1) : k[i] = old[i]
        BY <2>4
    <3> QED BY <3>1, ProductLocal
  <2>6. k = [n \in 0..j |-> ProductStep(factors, k, n)]
      BY <2>3, <2>5
  <2> QED BY <2>6 DEF IsProductUpTo
<1>2. Nat \subseteq P
  <2> HIDE DEF P
  <2> QED BY <1>1, NatStrongInduction
<1> QED BY <1>2

\* Such solutions agree.
LEMMA ProductUpToAgree ==
    ASSUME NEW factors, NEW k, NEW l, NEW m \in Nat, NEW h \in Nat, IsProductUpTo(factors, k, m), IsProductUpTo(factors, l, h),
           NEW n \in Nat, n <= m, n <= h
    PROVE  k[n] = l[n]
<1> DEFINE P == {j \in Nat : j <= m /\ j <= h => k[j] = l[j]}
<1>1. \A j \in Nat : (\A i \in 0..(j - 1) : i \in P) => j \in P
  <2> SUFFICES ASSUME NEW j \in Nat, \A i \in 0..(j - 1) : i \in P, j <= m, j <= h PROVE k[j] = l[j]
      OBVIOUS
  <2>1. \A i \in 0..(j - 1) : k[i] = l[i]
      OBVIOUS
  <2>2. ProductStep(factors, k, j) = ProductStep(factors, l, j)
      BY <2>1, ProductLocal
  <2>3. j \in 0..m /\ j \in 0..h
      OBVIOUS
  <2>4. k[j] = ProductStep(factors, k, j)
      BY <2>3 DEF IsProductUpTo
  <2>5. l[j] = ProductStep(factors, l, j)
      BY <2>3 DEF IsProductUpTo
  <2> QED BY <2>2, <2>4, <2>5
<1>2. Nat \subseteq P
  <2> HIDE DEF P
  <2> QED BY <1>1, NatStrongInduction
<1> QED BY <1>2

\* So it has one on all of them.
LEMMA ProductExists == ASSUME NEW factors PROVE \E f : f = [n \in Nat |-> ProductStep(factors, f, n)]
<1> DEFINE up(n) == CHOOSE k : IsProductUpTo(factors, k, n)
<1>1. \A n \in Nat : IsProductUpTo(factors, up(n), n)
    BY ProductUpToExists
<1> HIDE DEF up
<1>2. PICK f : f = [n \in Nat |-> up(n)[n]]
    OBVIOUS
<1>3. ASSUME NEW n \in Nat PROVE up(n)[n] = ProductStep(factors, f, n)
  <2>1. up(n)[n] = ProductStep(factors, up(n), n)
    <3>1. n \in 0..n /\ IsProductUpTo(factors, up(n), n)
        BY <1>1
    <3> QED BY <3>1 DEF IsProductUpTo
  <2>2. \A i \in 0..(n - 1) : up(n)[i] = f[i]
    <3> SUFFICES ASSUME NEW i \in 0..(n - 1) PROVE up(n)[i] = f[i]
        OBVIOUS
    <3>1. i \in Nat /\ i <= i /\ i <= n /\ f[i] = up(i)[i]
        BY <1>2
    <3>2. IsProductUpTo(factors, up(n), n) /\ IsProductUpTo(factors, up(i), i)
        BY <1>1, <3>1
    <3>3. up(n)[i] = up(i)[i]
        BY <3>1, <3>2, ProductUpToAgree
    <3> QED BY <3>1, <3>3
  <2>3. ProductStep(factors, up(n), n) = ProductStep(factors, f, n)
      BY <2>2, ProductLocal
  <2> QED BY <2>1, <2>3
<1>4. f = [n \in Nat |-> ProductStep(factors, f, n)]
    BY <1>2, <1>3
<1> QED BY <1>4

\* Product is computed by the function f.
ProductBy(factors, f) ==
    /\ f[0] = 1 /\ \A n \in Nat : f[n + 1] = f[n] * factors[n + 1]
    /\ Product(factors) = f[Len(factors)]

\* Product is computed by its recursive definition.
LEMMA ProductUnfold == ASSUME NEW factors PROVE \E f : ProductBy(factors, f)
<1> DEFINE f == CHOOSE f : f = [n \in Nat |-> ProductStep(factors, f, n)]
<1>1. f = [n \in Nat |-> ProductStep(factors, f, n)]
    BY ProductExists
<1>2. Product(factors) = f[Len(factors)]
    BY DEF Product, ProductStep
<1> HIDE DEF f
<1>3. \A n \in Nat : f[n] = ProductStep(factors, f, n)
    BY <1>1
<1>4. f[0] = 1
    BY <1>3 DEF ProductStep
<1>5. ASSUME NEW n \in Nat PROVE f[n + 1] = f[n] * factors[n + 1]
  <2>1. PICK s : s = n + 1
      OBVIOUS
  <2>2. s \in Nat /\ s # 0 /\ s - 1 = n
      BY <2>1
  <2>3. f[s] = f[s - 1] * factors[s]
      BY <1>3, <2>2 DEF ProductStep
  <2> QED BY <2>1, <2>2, <2>3
<1> QED BY <1>2, <1>4, <1>5 DEF ProductBy

\* The product of the first n factors.
Pr(w, n) == Product([k \in 1..n |-> w[k]])

\* The product of no factor, and of one more.
LEMMA PrMore ==
    ASSUME NEW w, NEW n \in Nat
    PROVE  Pr(w, 0) = 1 /\ Pr(w, n + 1) = Pr(w, n) * w[n + 1]
<1>1. PICK s : s = n + 1 /\ s \in Nat
    OBVIOUS
<1>2. ASSUME NEW m \in Nat
      PROVE  \E f : f[0] = 1 /\ (\A k \in 0..(m - 1) : f[k + 1] = f[k] * w[k + 1]) /\ Pr(w, m) = f[m]
  <2>1. PICK v : v = [k \in 1..m |-> w[k]]
      OBVIOUS
  <2>2. PICK f : ProductBy(v, f)
      BY ProductUnfold
  <2>3. Len(v) = m
      BY <2>1
  <2>4. \A k \in 0..(m - 1) : k \in Nat /\ v[k + 1] = w[k + 1]
      BY <2>1
  <2> QED BY <2>1, <2>2, <2>3, <2>4 DEF ProductBy, Pr
<1>3. PICK f : f[0] = 1 /\ (\A k \in 0..(n - 1) : f[k + 1] = f[k] * w[k + 1]) /\ Pr(w, n) = f[n]
    BY <1>2
<1>4. PICK g : g[0] = 1 /\ (\A k \in 0..(s - 1) : g[k + 1] = g[k] * w[k + 1]) /\ Pr(w, s) = g[s]
    BY <1>1, <1>2
<1> DEFINE P == {m \in Nat : m <= n => f[m] = g[m]}
<1>5. 0 \in P
    BY <1>3, <1>4
<1>6. \A m \in Nat : m \in P => m + 1 \in P
  <2> SUFFICES ASSUME NEW m \in Nat, m \in P, m + 1 <= n PROVE f[m + 1] = g[m + 1]
      OBVIOUS
  <2>1. m \in 0..(n - 1) /\ m \in 0..(s - 1) /\ f[m] = g[m]
      BY <1>1
  <2> QED BY <1>3, <1>4, <2>1
<1>7. n \in P
  <2> HIDE DEF P
  <2> QED BY <1>5, <1>6, NatSetInduction
<1>8. g[n + 1] = g[n] * w[n + 1]
    BY <1>1, <1>4
<1>9. Pr(w, 0) = 1
  <2>1. PICK h : h[0] = 1 /\ Pr(w, 0) = h[0]
      BY <1>2
  <2> QED BY <2>1
<1> QED BY <1>1, <1>3, <1>4, <1>7, <1>8, <1>9

\* A product of naturals, and of positive ones.
LEMMA PrType ==
    ASSUME NEW w, NEW n \in Nat, \A k \in 1..n : w[k] \in Nat
    PROVE  Pr(w, n) \in Nat /\ ((\A k \in 1..n : w[k] # 0) => Pr(w, n) # 0)
<1> DEFINE P == {m \in Nat : m <= n =>
                   Pr(w, m) \in Nat /\ ((\A k \in 1..n : w[k] # 0) => Pr(w, m) # 0)}
<1>1. 0 \in P
    BY PrMore
<1>2. \A m \in Nat : m \in P => m + 1 \in P
  <2> SUFFICES ASSUME NEW m \in Nat, m \in P, m + 1 <= n
               PROVE  Pr(w, m + 1) \in Nat /\ ((\A k \in 1..n : w[k] # 0) => Pr(w, m + 1) # 0)
      OBVIOUS
  <2>1. Pr(w, m + 1) = Pr(w, m) * w[m + 1]
      BY PrMore
  <2>2. PICK a, b : a = Pr(w, m) /\ b = w[m + 1]
      OBVIOUS
  <2>3. a \in Nat /\ b \in Nat /\ m + 1 \in 1..n
      BY <2>2
  <2>4. a * b \in Nat /\ (a # 0 /\ b # 0 => a * b # 0)
      BY <2>3
  <2> QED BY <2>1, <2>2, <2>3, <2>4
<1>3. n \in P
  <2> HIDE DEF P
  <2> QED BY <1>1, <1>2, NatSetInduction
<1> QED BY <1>3

\* Products of equal factors.
LEMMA PrSame ==
    ASSUME NEW v, NEW w, NEW n \in Nat, \A k \in 1..n : v[k] = w[k]
    PROVE  Pr(v, n) = Pr(w, n)
<1>1. [k \in 1..n |-> v[k]] = [k \in 1..n |-> w[k]]
    OBVIOUS
<1> QED BY <1>1 DEF Pr

\* One step of the definition of Whole, from the solution f.
WholeStep(f, n) == IF n = 0 THEN 1 ELSE 100 * f[n - 1]

\* It reads the step before it only.
LEMMA WholeLocal ==
    ASSUME NEW n \in Nat, NEW k, NEW l, \A i \in 0..(n - 1) : k[i] = l[i]
    PROVE  WholeStep(k, n) = WholeStep(l, n)
<1>1. CASE n = 0
    BY <1>1 DEF WholeStep
<1>2. CASE n # 0
  <2>1. k[n - 1] = l[n - 1]
      BY <1>2
  <2> QED BY <2>1 DEF WholeStep
<1> QED BY <1>1, <1>2

\* k solves the recursive definition of Whole on the numbers up to m.
IsWholeUpTo(k, m) == k = [n \in 0..m |-> WholeStep(k, n)]

\* There is one up to every number, from those up to the numbers below.
LEMMA WholeUpToExists == ASSUME NEW m \in Nat PROVE \E k : IsWholeUpTo(k, m)
<1> DEFINE P == {j \in Nat : \E k : IsWholeUpTo(k, j)}
<1>1. \A j \in Nat : (\A i \in 0..(j - 1) : i \in P) => j \in P
  <2> SUFFICES ASSUME NEW j \in Nat, \A i \in 0..(j - 1) : i \in P PROVE \E k : IsWholeUpTo(k, j)
      OBVIOUS
  <2>1. \E old : \A n \in 0..(j - 1) : old[n] = WholeStep(old, n)
    <3>1. CASE j = 0
        BY <3>1
    <3>2. CASE j # 0
      <4>1. j - 1 \in P
          BY <3>2
      <4>2. PICK old : old = [n \in 0..(j - 1) |-> WholeStep(old, n)]
          BY <4>1 DEF IsWholeUpTo
      <4> QED BY <4>2
    <3> QED BY <3>1, <3>2
  <2>2. PICK old : \A n \in 0..(j - 1) : old[n] = WholeStep(old, n)
      BY <2>1
  <2>3. PICK k : k = [n \in 0..j |-> WholeStep(old, n)]
      OBVIOUS
  <2>4. \A n \in 0..(j - 1) : k[n] = old[n]
      BY <2>2, <2>3
  <2>5. \A n \in 0..j : WholeStep(k, n) = WholeStep(old, n)
    <3> SUFFICES ASSUME NEW n \in 0..j PROVE WholeStep(k, n) = WholeStep(old, n)
        OBVIOUS
    <3>1. n \in Nat /\ \A i \in 0..(n - 1) : k[i] = old[i]
        BY <2>4
    <3> QED BY <3>1, WholeLocal
  <2>6. k = [n \in 0..j |-> WholeStep(k, n)]
      BY <2>3, <2>5
  <2> QED BY <2>6 DEF IsWholeUpTo
<1>2. Nat \subseteq P
  <2> HIDE DEF P
  <2> QED BY <1>1, NatStrongInduction
<1> QED BY <1>2

\* Such solutions agree.
LEMMA WholeUpToAgree ==
    ASSUME NEW k, NEW l, NEW m \in Nat, NEW h \in Nat, IsWholeUpTo(k, m), IsWholeUpTo(l, h),
           NEW n \in Nat, n <= m, n <= h
    PROVE  k[n] = l[n]
<1> DEFINE P == {j \in Nat : j <= m /\ j <= h => k[j] = l[j]}
<1>1. \A j \in Nat : (\A i \in 0..(j - 1) : i \in P) => j \in P
  <2> SUFFICES ASSUME NEW j \in Nat, \A i \in 0..(j - 1) : i \in P, j <= m, j <= h PROVE k[j] = l[j]
      OBVIOUS
  <2>1. \A i \in 0..(j - 1) : k[i] = l[i]
      OBVIOUS
  <2>2. WholeStep(k, j) = WholeStep(l, j)
      BY <2>1, WholeLocal
  <2>3. j \in 0..m /\ j \in 0..h
      OBVIOUS
  <2>4. k[j] = WholeStep(k, j)
      BY <2>3 DEF IsWholeUpTo
  <2>5. l[j] = WholeStep(l, j)
      BY <2>3 DEF IsWholeUpTo
  <2> QED BY <2>2, <2>4, <2>5
<1>2. Nat \subseteq P
  <2> HIDE DEF P
  <2> QED BY <1>1, NatStrongInduction
<1> QED BY <1>2

\* So it has one on all of them.
LEMMA WholeExists == \E f : f = [n \in Nat |-> WholeStep(f, n)]
<1> DEFINE up(n) == CHOOSE k : IsWholeUpTo(k, n)
<1>1. \A n \in Nat : IsWholeUpTo(up(n), n)
    BY WholeUpToExists
<1> HIDE DEF up
<1>2. PICK f : f = [n \in Nat |-> up(n)[n]]
    OBVIOUS
<1>3. ASSUME NEW n \in Nat PROVE up(n)[n] = WholeStep(f, n)
  <2>1. up(n)[n] = WholeStep(up(n), n)
    <3>1. n \in 0..n /\ IsWholeUpTo(up(n), n)
        BY <1>1
    <3> QED BY <3>1 DEF IsWholeUpTo
  <2>2. \A i \in 0..(n - 1) : up(n)[i] = f[i]
    <3> SUFFICES ASSUME NEW i \in 0..(n - 1) PROVE up(n)[i] = f[i]
        OBVIOUS
    <3>1. i \in Nat /\ i <= i /\ i <= n /\ f[i] = up(i)[i]
        BY <1>2
    <3>2. IsWholeUpTo(up(n), n) /\ IsWholeUpTo(up(i), i)
        BY <1>1, <3>1
    <3>3. up(n)[i] = up(i)[i]
        BY <3>1, <3>2, WholeUpToAgree
    <3> QED BY <3>1, <3>3
  <2>3. WholeStep(up(n), n) = WholeStep(f, n)
      BY <2>2, WholeLocal
  <2> QED BY <2>1, <2>3
<1>4. f = [n \in Nat |-> WholeStep(f, n)]
    BY <1>2, <1>3
<1> QED BY <1>4

\* The mass of n sources is a hundred to the n.
LEMMA WholeFacts ==
    /\ Whole[0] = 1 /\ \A n \in Nat : Whole[n + 1] = 100 * Whole[n]
    /\ \A n \in Nat : Whole[n] \in Nat /\ Whole[n] # 0
<1>1. Whole = [n \in Nat |-> WholeStep(Whole, n)]
    BY WholeExists DEF Whole, WholeStep
<1>2. \A n \in Nat : Whole[n] = IF n = 0 THEN 1 ELSE 100 * Whole[n - 1]
    BY <1>1 DEF WholeStep
<1>3. Whole[0] = 1
    BY <1>2
<1>4. ASSUME NEW n \in Nat PROVE Whole[n + 1] = 100 * Whole[n]
  <2>1. PICK s : s = n + 1
      OBVIOUS
  <2>2. s \in Nat /\ s # 0 /\ s - 1 = n
      BY <2>1
  <2> QED BY <1>2, <2>1, <2>2
<1> DEFINE P == {n \in Nat : Whole[n] \in Nat /\ Whole[n] # 0}
<1>5. 0 \in P
    BY <1>3
<1>6. \A n \in Nat : n \in P => n + 1 \in P
    BY <1>4
<1>7. Nat \subseteq P
  <2> HIDE DEF P
  <2> QED BY <1>5, <1>6, NatSetInduction
<1> QED BY <1>3, <1>4, <1>7

\* One step of the definition of Joined, from the solution f.
JoinedStep(parts, f, n) == IF n = 0 THEN <<>> ELSE f[n - 1] \o parts[n]

\* It reads the step before it only.
LEMMA JoinedLocal ==
    ASSUME NEW parts, NEW n \in Nat, NEW k, NEW l, \A i \in 0..(n - 1) : k[i] = l[i]
    PROVE  JoinedStep(parts, k, n) = JoinedStep(parts, l, n)
<1>1. CASE n = 0
    BY <1>1 DEF JoinedStep
<1>2. CASE n # 0
  <2>1. k[n - 1] = l[n - 1]
      BY <1>2
  <2> QED BY <2>1 DEF JoinedStep
<1> QED BY <1>1, <1>2

\* k solves the recursive definition of Joined on the numbers up to m.
IsJoinedUpTo(parts, k, m) == k = [n \in 0..m |-> JoinedStep(parts, k, n)]

\* There is one up to every number, from those up to the numbers below.
LEMMA JoinedUpToExists == ASSUME NEW parts, NEW m \in Nat PROVE \E k : IsJoinedUpTo(parts, k, m)
<1> DEFINE P == {j \in Nat : \E k : IsJoinedUpTo(parts, k, j)}
<1>1. \A j \in Nat : (\A i \in 0..(j - 1) : i \in P) => j \in P
  <2> SUFFICES ASSUME NEW j \in Nat, \A i \in 0..(j - 1) : i \in P PROVE \E k : IsJoinedUpTo(parts, k, j)
      OBVIOUS
  <2>1. \E old : \A n \in 0..(j - 1) : old[n] = JoinedStep(parts, old, n)
    <3>1. CASE j = 0
        BY <3>1
    <3>2. CASE j # 0
      <4>1. j - 1 \in P
          BY <3>2
      <4>2. PICK old : old = [n \in 0..(j - 1) |-> JoinedStep(parts, old, n)]
          BY <4>1 DEF IsJoinedUpTo
      <4> QED BY <4>2
    <3> QED BY <3>1, <3>2
  <2>2. PICK old : \A n \in 0..(j - 1) : old[n] = JoinedStep(parts, old, n)
      BY <2>1
  <2>3. PICK k : k = [n \in 0..j |-> JoinedStep(parts, old, n)]
      OBVIOUS
  <2>4. \A n \in 0..(j - 1) : k[n] = old[n]
      BY <2>2, <2>3
  <2>5. \A n \in 0..j : JoinedStep(parts, k, n) = JoinedStep(parts, old, n)
    <3> SUFFICES ASSUME NEW n \in 0..j PROVE JoinedStep(parts, k, n) = JoinedStep(parts, old, n)
        OBVIOUS
    <3>1. n \in Nat /\ \A i \in 0..(n - 1) : k[i] = old[i]
        BY <2>4
    <3> QED BY <3>1, JoinedLocal
  <2>6. k = [n \in 0..j |-> JoinedStep(parts, k, n)]
      BY <2>3, <2>5
  <2> QED BY <2>6 DEF IsJoinedUpTo
<1>2. Nat \subseteq P
  <2> HIDE DEF P
  <2> QED BY <1>1, NatStrongInduction
<1> QED BY <1>2

\* Such solutions agree.
LEMMA JoinedUpToAgree ==
    ASSUME NEW parts, NEW k, NEW l, NEW m \in Nat, NEW h \in Nat, IsJoinedUpTo(parts, k, m), IsJoinedUpTo(parts, l, h),
           NEW n \in Nat, n <= m, n <= h
    PROVE  k[n] = l[n]
<1> DEFINE P == {j \in Nat : j <= m /\ j <= h => k[j] = l[j]}
<1>1. \A j \in Nat : (\A i \in 0..(j - 1) : i \in P) => j \in P
  <2> SUFFICES ASSUME NEW j \in Nat, \A i \in 0..(j - 1) : i \in P, j <= m, j <= h PROVE k[j] = l[j]
      OBVIOUS
  <2>1. \A i \in 0..(j - 1) : k[i] = l[i]
      OBVIOUS
  <2>2. JoinedStep(parts, k, j) = JoinedStep(parts, l, j)
      BY <2>1, JoinedLocal
  <2>3. j \in 0..m /\ j \in 0..h
      OBVIOUS
  <2>4. k[j] = JoinedStep(parts, k, j)
      BY <2>3 DEF IsJoinedUpTo
  <2>5. l[j] = JoinedStep(parts, l, j)
      BY <2>3 DEF IsJoinedUpTo
  <2> QED BY <2>2, <2>4, <2>5
<1>2. Nat \subseteq P
  <2> HIDE DEF P
  <2> QED BY <1>1, NatStrongInduction
<1> QED BY <1>2

\* So it has one on all of them.
LEMMA JoinedExists == ASSUME NEW parts PROVE \E f : f = [n \in Nat |-> JoinedStep(parts, f, n)]
<1> DEFINE up(n) == CHOOSE k : IsJoinedUpTo(parts, k, n)
<1>1. \A n \in Nat : IsJoinedUpTo(parts, up(n), n)
    BY JoinedUpToExists
<1> HIDE DEF up
<1>2. PICK f : f = [n \in Nat |-> up(n)[n]]
    OBVIOUS
<1>3. ASSUME NEW n \in Nat PROVE up(n)[n] = JoinedStep(parts, f, n)
  <2>1. up(n)[n] = JoinedStep(parts, up(n), n)
    <3>1. n \in 0..n /\ IsJoinedUpTo(parts, up(n), n)
        BY <1>1
    <3> QED BY <3>1 DEF IsJoinedUpTo
  <2>2. \A i \in 0..(n - 1) : up(n)[i] = f[i]
    <3> SUFFICES ASSUME NEW i \in 0..(n - 1) PROVE up(n)[i] = f[i]
        OBVIOUS
    <3>1. i \in Nat /\ i <= i /\ i <= n /\ f[i] = up(i)[i]
        BY <1>2
    <3>2. IsJoinedUpTo(parts, up(n), n) /\ IsJoinedUpTo(parts, up(i), i)
        BY <1>1, <3>1
    <3>3. up(n)[i] = up(i)[i]
        BY <3>1, <3>2, JoinedUpToAgree
    <3> QED BY <3>1, <3>3
  <2>3. JoinedStep(parts, up(n), n) = JoinedStep(parts, f, n)
      BY <2>2, JoinedLocal
  <2> QED BY <2>1, <2>3
<1>4. f = [n \in Nat |-> JoinedStep(parts, f, n)]
    BY <1>2, <1>3
<1> QED BY <1>4

\* x is in the list that the parts make.
InJoined(parts, x) == \E k \in 1..Len(Joined(parts)) : Joined(parts)[k] = x

\* The parts of a list make a list, with all of their elements.
LEMMA JoinedIs ==
    ASSUME NEW S, NEW n \in Nat, NEW parts \in [1..n -> Seq(S)]
    PROVE  /\ Joined(parts) \in Seq(S)
           /\ \A i \in 1..n : \A l \in 1..Len(parts[i]) : InJoined(parts, parts[i][l])
<1> DEFINE f == CHOOSE f : f = [m \in Nat |-> JoinedStep(parts, f, m)]
<1>1. f = [m \in Nat |-> JoinedStep(parts, f, m)]
    BY JoinedExists
<1>2. Joined(parts) = f[Len(parts)]
    BY DEF Joined, JoinedStep
<1> HIDE DEF f
<1>3. \A m \in Nat : f[m] = IF m = 0 THEN <<>> ELSE f[m - 1] \o parts[m]
    BY <1>1 DEF JoinedStep
<1>4. Len(parts) = n
    OBVIOUS
<1> DEFINE Into(m) == \A i \in 1..m : \A l \in 1..Len(parts[i]) : \E k \in 1..Len(f[m]) : f[m][k] = parts[i][l]
           P == {m \in Nat : m <= n => f[m] \in Seq(S) /\ Into(m)}
<1>5. 0 \in P
  <2>0. f[0] = <<>>
      BY <1>3
  <2>1. Len(f[0]) = 0 /\ f[0] \in Seq(S)
      BY <2>0
  <2>2. Into(0)
      BY <2>1
  <2> HIDE DEF Into
  <2> QED BY <2>1, <2>2
<1>6. \A m \in Nat : m \in P => m + 1 \in P
  <2> SUFFICES ASSUME NEW m \in Nat, m \in P PROVE m + 1 \in P
      OBVIOUS
  <2> SUFFICES ASSUME m + 1 <= n
               PROVE  f[m + 1] \in Seq(S) /\ Into(m + 1)
    <3> HIDE DEF Into
    <3> QED OBVIOUS
  <2>1. PICK s, a, b, c : s = m + 1 /\ a = f[m] /\ b = parts[s] /\ c = f[s]
      OBVIOUS
  <2>2. s \in 1..n /\ s \in Nat /\ s # 0 /\ s - 1 = m /\ m <= n
      BY <2>1
  <2>3. a \in Seq(S) /\ b \in Seq(S) /\ c = a \o b /\ Into(m)
      BY <1>3, <2>1, <2>2
  <2>4. /\ c \in Seq(S) /\ Len(c) = Len(a) + Len(b) /\ Len(a) \in Nat /\ Len(b) \in Nat
        /\ \A k \in 1..Len(a) : c[k] = a[k]
        /\ \A k \in 1..Len(b) : c[k + Len(a)] = b[k]
      BY <2>3
  <2>5. ASSUME NEW i \in 1..s, NEW l \in 1..Len(parts[i]) PROVE \E k \in 1..Len(c) : c[k] = parts[i][l]
    <3>1. CASE i = s
      <4>1. l \in 1..Len(b) /\ parts[i][l] = b[l]
          BY <2>1, <3>1
      <4>2. PICK k : k = l + Len(a)
          OBVIOUS
      <4>3. k \in 1..Len(c) /\ c[k] = b[l]
          BY <2>4, <4>1, <4>2
      <4> QED BY <4>1, <4>3
    <3>2. CASE i # s
      <4>1. i \in 1..m
          BY <2>1, <3>2
      <4>2. PICK k \in 1..Len(a) : a[k] = parts[i][l]
          BY <2>1, <2>3, <4>1
      <4>3. k \in 1..Len(c) /\ c[k] = a[k]
          BY <2>4
      <4> QED BY <4>2, <4>3
    <3> QED BY <3>1, <3>2
  <2>6. Into(s)
      BY <2>1, <2>5
  <2> HIDE DEF Into
  <2> QED BY <2>1, <2>4, <2>6
<1>7. n \in P
  <2> HIDE DEF P
  <2> QED BY <1>5, <1>6, NatSetInduction
<1>8. f[n] \in Seq(S) /\ Into(n)
  <2> HIDE DEF Into
  <2> QED BY <1>7
<1> QED BY <1>2, <1>4, <1>8 DEF InJoined

-----------------------------------------------------------------------------
(* Belief fusion: the ways to take something of each mass.                   *)

\* There are finitely many ways to choose n times from finitely many things.
LEMMA ChoicesFinite ==
    ASSUME NEW A, IsFiniteSet(A), NEW n \in Nat
    PROVE  IsFiniteSet([1..n -> A])
<1> DEFINE P == {m \in Nat : IsFiniteSet([1..m -> A])}
<1>1. 0 \in P
  <2>1. PICK e : e = [k \in 1..0 |-> 0]
      OBVIOUS
  <2>2. \A t \in [1..0 -> A] : t = e
      BY <2>1
  <2>3. e \in [1..0 -> A]
      BY <2>1
  <2>4. [1..0 -> A] = {e}
      BY <2>2, <2>3
  <2>5. IsFiniteSet({e})
      BY FS_Singleton
  <2> QED BY <2>4, <2>5
<1>2. \A m \in Nat : m \in P => m + 1 \in P
  <2> SUFFICES ASSUME NEW m \in Nat, IsFiniteSet([1..m -> A]) PROVE IsFiniteSet([1..(m + 1) -> A])
      OBVIOUS
  <2>1. PICK s : s = m + 1 /\ s \in Nat /\ s \in 1..s /\ 1..m \subseteq 1..s
      OBVIOUS
  <2>2. IsFiniteSet([1..m -> A] \X A)
      BY FS_Product
  <2>3. PICK b : b = [p \in [1..m -> A] \X A |-> [k \in 1..s |-> IF k = s THEN p[2] ELSE p[1][k]]]
      OBVIOUS
  <2>4. b \in [[1..m -> A] \X A -> [1..s -> A]]
    <3> SUFFICES ASSUME NEW p \in [1..m -> A] \X A PROVE [k \in 1..s |-> IF k = s THEN p[2] ELSE p[1][k]] \in [1..s -> A]
        BY <2>3
    <3>1. p[1] \in [1..m -> A] /\ p[2] \in A
        OBVIOUS
    <3>2. \A k \in 1..s : k # s => k \in 1..m
        BY <2>1
    <3> QED BY <3>1, <3>2
  <2>5. \A t \in [1..s -> A] : \E p \in [1..m -> A] \X A : b[p] = t
    <3> SUFFICES ASSUME NEW t \in [1..s -> A] PROVE \E p \in [1..m -> A] \X A : b[p] = t
        OBVIOUS
    <3>1. PICK r, x : r = [k \in 1..m |-> t[k]] /\ x = t[s]
        OBVIOUS
    <3>2. r \in [1..m -> A] /\ x \in A
        BY <2>1, <3>1
    <3>3. PICK p \in [1..m -> A] \X A : p = <<r, x>>
        BY <3>2
    <3>4. \A k \in 1..s : (IF k = s THEN p[2] ELSE p[1][k]) = t[k]
        BY <2>1, <3>1, <3>3
    <3>5. b[p] = [k \in 1..s |-> IF k = s THEN p[2] ELSE p[1][k]]
        BY <2>3
    <3>6. b[p] = t
        BY <3>4, <3>5
    <3> QED BY <3>6
  <2>6. b \in Surjection([1..m -> A] \X A, [1..s -> A])
      BY <2>4, <2>5 DEF Surjection
  <2>7. IsFiniteSet([1..s -> A])
      BY <2>2, <2>6, FS_Surjection
  <2> QED BY <2>1, <2>7
<1>3. n \in P
  <2> HIDE DEF P
  <2> QED BY <1>1, <1>2, NatSetInduction
<1> QED BY <1>3

\* The verdicts of a source.
Verdicts == {"true", "false", "unknown"}

\* The product of what is taken of each mass.
Yield(w, n) == [t \in [1..n -> Verdicts] |-> Pr([k \in 1..n |-> w[k][t[k]]], n)]

\* The sum of the products, over all ways to choose from A.
Ways(w, n, A) == Tot(Yield(w, n), [1..n -> A])

\* What is taken of each mass is a natural.
Weighed(w, n) == \A k \in 1..n, x \in Verdicts : w[k][x] \in Nat

\* There are finitely many ways, and each yields a natural.
LEMMA YieldType ==
    ASSUME NEW w, NEW n \in Nat, Weighed(w, n), NEW A \in SUBSET Verdicts
    PROVE  /\ IsFiniteSet(A) /\ IsFiniteSet([1..n -> A])
           /\ \A t \in [1..n -> A] : t \in [1..n -> Verdicts] /\ Yield(w, n)[t] \in Nat
           /\ Ways(w, n, A) \in Nat
<1>1. IsFiniteSet(Verdicts)
  <2>1. Verdicts = ({"true"} \cup {"false"}) \cup {"unknown"}
      BY DEF Verdicts
  <2> QED BY <2>1, FS_Singleton, FS_Union
<1>2. IsFiniteSet(A)
    BY <1>1, FS_Subset
<1>3. IsFiniteSet([1..n -> A])
    BY <1>2, ChoicesFinite
<1>4. ASSUME NEW t \in [1..n -> A] PROVE t \in [1..n -> Verdicts] /\ Yield(w, n)[t] \in Nat
  <2>1. t \in [1..n -> Verdicts]
      OBVIOUS
  <2>2. PICK v : v = [k \in 1..n |-> w[k][t[k]]]
      OBVIOUS
  <2>3. \A k \in 1..n : v[k] \in Nat
      BY <2>1, <2>2 DEF Weighed
  <2>4. Pr(v, n) \in Nat
      BY <2>3, PrType
  <2> QED BY <2>1, <2>2, <2>4 DEF Yield
<1>5. Tot(Yield(w, n), [1..n -> A]) \in Nat
    BY <1>3, <1>4, TotType
<1> QED BY <1>2, <1>3, <1>4, <1>5 DEF Ways

\* One more mass: what it gives times what the others give.
LEMMA YieldMore ==
    ASSUME NEW w, NEW n \in Nat, NEW t \in [1..n -> Verdicts], NEW r \in [1..(n + 1) -> Verdicts],
           \A k \in 1..n : r[k] = t[k]
    PROVE  Yield(w, n + 1)[r] = Yield(w, n)[t] * w[n + 1][r[n + 1]]
<1>1. PICK s : s = n + 1 /\ s \in Nat /\ s \in 1..s
    OBVIOUS
<1>2. PICK u, v : u = [k \in 1..n |-> w[k][t[k]]] /\ v = [k \in 1..s |-> w[k][r[k]]]
    OBVIOUS
<1>3. Yield(w, n)[t] = Pr(u, n) /\ Yield(w, s)[r] = Pr(v, s)
    BY <1>1, <1>2 DEF Yield
<1>4. Pr(v, s) = Pr(v, n) * v[s]
    BY <1>1, PrMore
<1>5. \A k \in 1..n : v[k] = u[k]
    BY <1>1, <1>2
<1>6. Pr(v, n) = Pr(u, n)
    BY <1>5, PrSame
<1>7. v[s] = w[s][r[s]]
    BY <1>1, <1>2
<1> QED BY <1>1, <1>3, <1>4, <1>6, <1>7

\* The ways that take c of the last mass.
LEMMA WaysLast ==
    ASSUME NEW w, NEW n \in Nat, Weighed(w, n + 1), NEW A \in SUBSET Verdicts, NEW c \in A
    PROVE  Tot(Yield(w, n + 1), {r \in [1..(n + 1) -> A] : r[n + 1] = c}) = w[n + 1][c] * Ways(w, n, A)
<1>1. PICK s : s = n + 1 /\ s \in Nat /\ s \in 1..s /\ 1..n \subseteq 1..s /\ \A k \in 1..s : k # s => k \in 1..n
    OBVIOUS
<1>2. PICK E : E = {r \in [1..s -> A] : r[s] = c}
    OBVIOUS
<1>3. Weighed(w, s) /\ Weighed(w, n)
    BY <1>1 DEF Weighed
<1>4. PICK y, z : y = Yield(w, s) /\ z = Yield(w, n)
    OBVIOUS
<1>5. PICK S : S = [1..n -> A]
    OBVIOUS
<1>6. IsFiniteSet(S) /\ \A t \in S : t \in [1..n -> Verdicts] /\ z[t] \in Nat
    BY <1>3, <1>4, <1>5, YieldType
<1>7. IsFiniteSet(E) /\ \A r \in E : r \in [1..s -> Verdicts] /\ y[r] \in Nat
  <2>1. IsFiniteSet([1..s -> A]) /\ \A r \in [1..s -> A] : r \in [1..s -> Verdicts] /\ y[r] \in Nat
      BY <1>1, <1>3, <1>4, YieldType
  <2>2. E \in SUBSET [1..s -> A]
      BY <1>2
  <2> QED BY <2>1, <2>2, FS_Subset
<1>8. PICK b : b = [t \in S |-> [k \in 1..s |-> IF k = s THEN c ELSE t[k]]]
    OBVIOUS
<1>9. PICK f : f = [t \in S |-> w[s][c] * z[t]]
    OBVIOUS
<1>10. w[s][c] \in Nat
    BY <1>1, <1>3 DEF Weighed
<1>11. Tot(f, S) = w[s][c] * Tot(z, S)
  <2>1. \A t \in S : z[t] \in Nat /\ f[t] = w[s][c] * z[t]
      BY <1>6, <1>9
  <2> QED BY <1>6, <1>10, <2>1, TotTimes
<1>12. ASSUME NEW t \in S PROVE f[t] \in Nat /\ b[t] \in E /\ y[b[t]] = f[t] /\ \A k \in 1..n : b[t][k] = t[k]
  <2>1. PICK r : r = [k \in 1..s |-> IF k = s THEN c ELSE t[k]]
      OBVIOUS
  <2>2. b[t] = r /\ t \in [1..n -> A] /\ t \in [1..n -> Verdicts]
      BY <1>5, <1>6, <1>8, <2>1
  <2>3. r \in [1..s -> A] /\ r[s] = c /\ \A k \in 1..n : r[k] = t[k]
      BY <1>1, <2>1, <2>2
  <2>4. r \in E /\ r \in [1..s -> Verdicts]
      BY <1>2, <1>7, <2>3
  <2>5. Yield(w, s)[r] = Yield(w, n)[t] * w[s][r[s]]
      BY <1>1, <2>2, <2>3, <2>4, YieldMore
  <2>6. \A i, j \in Nat : i * j \in Nat /\ i * j = j * i
      OBVIOUS
  <2> QED BY <1>4, <1>6, <1>9, <1>10, <2>2, <2>3, <2>4, <2>5, <2>6
<1>13. \A t, u \in S : b[t] = b[u] => t = u
  <2> SUFFICES ASSUME NEW t \in S, NEW u \in S, b[t] = b[u] PROVE t = u
      OBVIOUS
  <2>1. \A k \in 1..n : t[k] = u[k]
      BY <1>12
  <2> QED BY <1>5, <2>1
<1>14. ASSUME NEW r \in E PROVE \E t \in S : r = b[t]
  <2>1. r \in [1..s -> A] /\ r[s] = c
      BY <1>2
  <2>2. PICK t : t = [k \in 1..n |-> r[k]]
      OBVIOUS
  <2>3. t \in S
      BY <1>1, <1>5, <2>1, <2>2
  <2>4. PICK v : v = [k \in 1..s |-> IF k = s THEN c ELSE t[k]]
      OBVIOUS
  <2>5. b[t] = v
      BY <1>8, <2>3, <2>4
  <2>6. \A k \in 1..s : v[k] = r[k]
      BY <1>1, <2>1, <2>2, <2>4
  <2>7. v = r
      BY <2>1, <2>4, <2>6
  <2> QED BY <2>3, <2>5, <2>7
<1>15. Tot(f, S) = Tot(y, E)
  <2>1. \A t \in S : f[t] \in Nat /\ b[t] \in E /\ y[b[t]] = f[t]
      BY <1>12
  <2>2. \A r \in E : \E t \in S : r = b[t]
      BY <1>14
  <2>3. \A r \in E : y[r] \in Nat
      BY <1>7
  <2>4. IsFiniteSet(S) /\ IsFiniteSet(E)
      BY <1>6, <1>7
  <2> QED BY <1>13, <2>1, <2>2, <2>3, <2>4, TotMap
<1> QED BY <1>1, <1>2, <1>4, <1>5, <1>11, <1>15 DEF Ways

\* Over all ways to choose, each mass gives the sum of what may be taken of it.
LEMMA WaysMore ==
    ASSUME NEW w, NEW n \in Nat, Weighed(w, n + 1), NEW A \in SUBSET Verdicts
    PROVE  Ways(w, n + 1, A) = Ways(w, n, A) * Tot(w[n + 1], A)
<1>1. PICK s : s = n + 1 /\ s \in Nat /\ s \in 1..s
    OBVIOUS
<1>2. Weighed(w, s) /\ Weighed(w, n)
    BY <1>1 DEF Weighed
<1>3. PICK y, p : y = Yield(w, s) /\ p = Ways(w, n, A)
    OBVIOUS
<1>4. p \in Nat /\ IsFiniteSet(A) /\ \A x \in A : w[s][x] \in Nat
    BY <1>1, <1>2, <1>3, YieldType DEF Weighed
<1>5. IsFiniteSet([1..s -> A]) /\ \A r \in [1..s -> A] : y[r] \in Nat
    BY <1>1, <1>2, <1>3, YieldType
<1> DEFINE G(B) == {r \in [1..s -> A] : r[s] \in B}
           P == {B \in SUBSET A : Tot(y, G(B)) = p * Tot(w[s], B)}
<1>6. {} \in P
  <2>1. G({}) = {}
      OBVIOUS
  <2>2. Tot(y, {}) = 0 /\ Tot(w[s], {}) = 0
    <3>1. PICK g : g = w[s]
        OBVIOUS
    <3>2. \A x \in A : g[x] \in Nat
        BY <1>4, <3>1
    <3>3. Tot(g, {}) = 0
        BY <1>4, <3>2, TotType
    <3>4. Tot(y, {}) = 0
        BY <1>5, TotType
    <3> QED BY <3>1, <3>3, <3>4
  <2>3. p * 0 = 0
      BY <1>4
  <2>4. Tot(y, G({})) = p * Tot(w[s], {})
    <3> HIDE DEF G
    <3> QED BY <2>1, <2>2, <2>3
  <2> QED BY <2>4
<1>7. ASSUME NEW B \in SUBSET A, B # {}, B \ {Some(B)} \in P PROVE B \in P
  <2>1. PICK c \in B : c = Some(B)
      BY <1>7 DEF Some
  <2>2. PICK D, U, O : D = B \ {c} /\ U = G(B \ {c}) /\ O = {r \in [1..s -> A] : r[s] = c}
      OBVIOUS
  <2>3. Tot(y, U) = p * Tot(w[s], D)
      BY <1>7, <2>1, <2>2
  <2>4. Tot(y, O) = w[s][c] * p
      BY <1>1, <1>2, <1>3, <2>2, WaysLast
  <2>5. IsFiniteSet(U) /\ IsFiniteSet(O) /\ U \cap O = {} /\ \A r \in U \cup O : y[r] \in Nat
    <3>1. U \in SUBSET [1..s -> A] /\ O \in SUBSET [1..s -> A]
        BY <2>2
    <3>2. U \cap O = {}
        BY <2>2
    <3> QED BY <1>5, <3>1, <3>2, FS_Subset
  <2>6. Tot(y, U \cup O) = Tot(y, U) + Tot(y, O)
      BY <2>5, TotJoin
  <2>7. U \cup O = G(B)
      BY <2>2
  <2>8. Tot(w[s], B) = w[s][c] + Tot(w[s], D) /\ Tot(w[s], D) \in Nat
    <3>1. IsFiniteSet(B) /\ \A x \in B : w[s][x] \in Nat
        BY <1>4, FS_Subset
    <3> QED BY <2>2, <3>1, TotTake
  <2>9. w[s][c] \in Nat
      BY <1>4
  <2>10. \A i, j, k \in Nat : i * j + k * i = i * (k + j)
      OBVIOUS
  <2>11. Tot(y, G(B)) = p * Tot(w[s], B)
    <3> HIDE DEF G
    <3>1. Tot(y, G(B)) = p * Tot(w[s], D) + w[s][c] * p
        BY <2>3, <2>4, <2>6, <2>7
    <3>2. PICK i, j, k : i = p /\ j = Tot(w[s], D) /\ k = w[s][c]
        OBVIOUS
    <3>3. i * j + k * i = i * (k + j)
        BY <1>4, <2>8, <2>9, <2>10, <3>2
    <3> QED BY <2>8, <3>1, <3>2, <3>3
  <2> QED BY <2>11
<1>8. Tot(y, G(A)) = p * Tot(w[s], A)
  <2>1. A \in P
    <3> HIDE DEF P
    <3> QED BY <1>4, <1>6, <1>7, SubsetInduction
  <2> QED BY <2>1
<1>9. G(A) = [1..s -> A]
    BY <1>1
<1> QED BY <1>1, <1>3, <1>8, <1>9 DEF Ways

\* So the sum over all ways is the product of the sums.
LEMMA WaysAre ==
    ASSUME NEW w, NEW n \in Nat, Weighed(w, n), NEW A \in SUBSET Verdicts,
           NEW v, \A k \in 1..n : v[k] = Tot(w[k], A)
    PROVE  Ways(w, n, A) = Pr(v, n)
<1> DEFINE P == {m \in Nat : m <= n => Ways(w, m, A) = Pr(v, m)}
<1>1. 0 \in P
  <2>1. PICK e : e = [k \in 1..0 |-> 0]
      OBVIOUS
  <2>2. e \in [1..0 -> A] /\ e \in [1..0 -> Verdicts] /\ \A t \in [1..0 -> A] : t = e
      BY <2>1
  <2>3. Yield(w, 0)[e] = 1
    <3>1. PICK u : u = [k \in 1..0 |-> w[k][e[k]]]
        OBVIOUS
    <3>2. Pr(u, 0) = 1
        BY PrMore
    <3> QED BY <2>2, <3>1, <3>2 DEF Yield
  <2>4. PICK S, y : S = [1..0 -> A] /\ y = Yield(w, 0)
      OBVIOUS
  <2>5. Weighed(w, 0) /\ 0 \in Nat
      BY DEF Weighed
  <2>6. IsFiniteSet(S) /\ \A t \in S : y[t] \in Nat
      BY <2>4, <2>5, YieldType
  <2>7. Tot(y, S) = y[e] + Tot(y, S \ {e})
    <3>1. e \in S
        BY <2>2, <2>4
    <3> QED BY <2>6, <3>1, TotTake
  <2>8. S \ {e} = {}
      BY <2>2, <2>4
  <2>9. Tot(y, {}) = 0
      BY <2>6, TotType
  <2>10. Ways(w, 0, A) = 1
    <3>1. Ways(w, 0, A) = Tot(y, S)
        BY <2>4 DEF Ways
    <3>2. y[e] = 1
        BY <2>3, <2>4
    <3> QED BY <2>7, <2>8, <2>9, <3>1, <3>2
  <2>11. Pr(v, 0) = 1
      BY PrMore
  <2> QED BY <2>10, <2>11
<1>2. \A m \in Nat : m \in P => m + 1 \in P
  <2> SUFFICES ASSUME NEW m \in Nat, m \in P, m + 1 <= n PROVE Ways(w, m + 1, A) = Pr(v, m + 1)
      OBVIOUS
  <2>1. Weighed(w, m + 1)
      BY DEF Weighed
  <2>2. Ways(w, m + 1, A) = Ways(w, m, A) * Tot(w[m + 1], A)
      BY <2>1, WaysMore
  <2>3. Pr(v, m + 1) = Pr(v, m) * v[m + 1]
      BY PrMore
  <2>4. v[m + 1] = Tot(w[m + 1], A)
      OBVIOUS
  <2> QED BY <2>2, <2>3, <2>4
<1>3. n \in P
  <2> HIDE DEF P
  <2> QED BY <1>1, <1>2, NatSetInduction
<1> QED BY <1>3

-----------------------------------------------------------------------------
(* Belief fusion: the combination is the joint one.                          *)

\* A sum in which only some terms count.
LEMMA TotOnly ==
    ASSUME NEW S, IsFiniteSet(S), NEW f, \A x \in S : f[x] \in Nat, NEW Q \in SUBSET S,
           NEW g, \A x \in S : g[x] = IF x \in Q THEN f[x] ELSE 0
    PROVE  Tot(g, S) = Tot(f, Q)
<1>1. PICK O : O = S \ Q
    OBVIOUS
<1>2. IsFiniteSet(Q) /\ IsFiniteSet(O) /\ Q \cap O = {} /\ Q \cup O = S
    BY <1>1, FS_Subset
<1>3. \A x \in Q \cup O : g[x] \in Nat
    BY <1>2
<1>4. Tot(g, Q \cup O) = Tot(g, Q) + Tot(g, O) /\ Tot(g, Q) \in Nat
    BY <1>2, <1>3, TotJoin
<1>5. Tot(g, O) = 0
  <2>1. \A x \in O : g[x] = 0
      BY <1>1
  <2> QED BY <1>2, <2>1, TotZero
<1>6. Tot(g, Q) = Tot(f, Q)
  <2>1. \A x \in Q : g[x] = f[x]
      BY <1>2
  <2> QED BY <2>1, TotSame
<1> QED BY <1>2, <1>4, <1>5, <1>6

\* The ways to choose that give the verdicts v, and nothing else but `unknown'.
Giving(n, v) == {t \in [1..n -> Verdicts] : {t[k] : k \in 1..n} \ {"unknown"} = v}

\* A joint assignment sums the yield of the ways that give it.
LEMMA JointIs ==
    ASSUME NEW w, NEW n \in Nat, DOMAIN w = 1..n, Weighed(w, n), NEW v
    PROVE  Joint(w, v) = Tot(Yield(w, n), Giving(n, v))
<1>1. PICK S : S = [1..n -> Verdicts]
    OBVIOUS
<1>2. PICK y : y = Yield(w, n)
    OBVIOUS
<1>3. IsFiniteSet(S) /\ \A t \in S : y[t] \in Nat
    BY <1>1, <1>2, YieldType
<1>4. PICK g : g = [t \in S |-> IF t \in Giving(n, v) THEN y[t] ELSE 0]
    OBVIOUS
<1>5. Giving(n, v) \in SUBSET S
    BY <1>1 DEF Giving
<1>6. Tot(g, S) = Tot(y, Giving(n, v))
  <2>1. \A t \in S : g[t] = IF t \in Giving(n, v) THEN y[t] ELSE 0
      BY <1>4
  <2> QED BY <1>3, <1>5, <2>1, TotOnly
<1>7. PICK h : h = [taken \in [DOMAIN w -> {"true", "false", "unknown"}] |->
                       IF {taken[k] : k \in DOMAIN w} \ {"unknown"} = v
                       THEN Product([k \in DOMAIN w |-> w[k][taken[k]]]) ELSE 0]
    OBVIOUS
<1>8. Joint(w, v) = SumFunction(h)
    BY <1>7 DEF Joint
<1>9. DOMAIN h = S /\ S = [DOMAIN w -> {"true", "false", "unknown"}]
    BY <1>1, <1>7 DEF Verdicts
<1>10. ASSUME NEW t \in S PROVE h[t] = g[t]
  <2>1. h[t] = IF {t[k] : k \in DOMAIN w} \ {"unknown"} = v THEN Product([k \in DOMAIN w |-> w[k][t[k]]]) ELSE 0
      BY <1>7, <1>9
  <2>2. PICK u : u = [k \in 1..n |-> w[k][t[k]]]
      OBVIOUS
  <2>3. [k \in 1..n |-> u[k]] = u
      BY <2>2
  <2>4. Product([k \in DOMAIN w |-> w[k][t[k]]]) = Pr(u, n)
      BY <2>2, <2>3 DEF Pr
  <2>5. y[t] = Pr(u, n)
      BY <1>1, <1>2, <2>2 DEF Yield
  <2>6. t \in Giving(n, v) <=> {t[k] : k \in DOMAIN w} \ {"unknown"} = v
      BY <1>1 DEF Giving
  <2> QED BY <1>4, <2>1, <2>4, <2>5, <2>6
<1>11. h = [t \in S |-> g[t]]
    BY <1>7, <1>9, <1>10
<1> QED BY <1>2, <1>6, <1>8, <1>11 DEF Tot

\* The ways that choose from some verdicts only are those that give each part of them.
LEMMA GivingParts ==
    ASSUME NEW n \in Nat
    PROVE  /\ [1..n -> {"unknown"}] = Giving(n, {})
           /\ [1..n -> {"true", "unknown"}] = Giving(n, {}) \cup Giving(n, {"true"})
           /\ [1..n -> {"false", "unknown"}] = Giving(n, {}) \cup Giving(n, {"false"})
           /\ [1..n -> Verdicts]
                 = (Giving(n, {}) \cup Giving(n, {"true"})) \cup (Giving(n, {"false"}) \cup Giving(n, {"true", "false"}))
<1>1. ASSUME NEW A \in SUBSET Verdicts, NEW t \in [1..n -> Verdicts]
      PROVE  t \in [1..n -> A \cup {"unknown"}] <=> {t[k] : k \in 1..n} \ {"unknown"} \subseteq A
  <2>1. t \in [1..n -> A \cup {"unknown"}] <=> \A k \in 1..n : t[k] \in A \cup {"unknown"}
      OBVIOUS
  <2> QED BY <2>1
<1>2. ASSUME NEW A \in SUBSET Verdicts, NEW t \in [1..n -> A] PROVE t \in [1..n -> Verdicts]
    OBVIOUS
<1>3. ASSUME NEW t \in [1..n -> Verdicts]
      PROVE  /\ t \in [1..n -> {"unknown"}] <=> {t[k] : k \in 1..n} \ {"unknown"} = {}
             /\ t \in [1..n -> {"true", "unknown"}]
                   <=> {t[k] : k \in 1..n} \ {"unknown"} = {} \/ {t[k] : k \in 1..n} \ {"unknown"} = {"true"}
             /\ t \in [1..n -> {"false", "unknown"}]
                   <=> {t[k] : k \in 1..n} \ {"unknown"} = {} \/ {t[k] : k \in 1..n} \ {"unknown"} = {"false"}
             /\ \/ {t[k] : k \in 1..n} \ {"unknown"} = {} \/ {t[k] : k \in 1..n} \ {"unknown"} = {"true"}
                \/ {t[k] : k \in 1..n} \ {"unknown"} = {"false"} \/ {t[k] : k \in 1..n} \ {"unknown"} = {"true", "false"}
  <2>1. PICK T : T = {t[k] : k \in 1..n} \ {"unknown"}
      OBVIOUS
  <2>2. T \subseteq {"true", "false"}
      BY <2>1 DEF Verdicts
  <2>3. T = {} \/ T = {"true"} \/ T = {"false"} \/ T = {"true", "false"}
      BY <2>2
  <2>4. {} \cup {"unknown"} = {"unknown"} /\ {"true"} \cup {"unknown"} = {"true", "unknown"}
        /\ {"false"} \cup {"unknown"} = {"false", "unknown"}
      OBVIOUS
  <2>5. {} \in SUBSET Verdicts /\ {"true"} \in SUBSET Verdicts /\ {"false"} \in SUBSET Verdicts
      BY DEF Verdicts
  <2>6. t \in [1..n -> {} \cup {"unknown"}] <=> T \subseteq {}
      BY <1>1, <2>1, <2>5
  <2>7. t \in [1..n -> {"true"} \cup {"unknown"}] <=> T \subseteq {"true"}
      BY <1>1, <2>1, <2>5
  <2>8. t \in [1..n -> {"false"} \cup {"unknown"}] <=> T \subseteq {"false"}
      BY <1>1, <2>1, <2>5
  <2>9. /\ t \in [1..n -> {"unknown"}] <=> T = {}
        /\ t \in [1..n -> {"true", "unknown"}] <=> T = {} \/ T = {"true"}
        /\ t \in [1..n -> {"false", "unknown"}] <=> T = {} \/ T = {"false"}
    <3>1. (T \subseteq {} <=> T = {}) /\ (T \subseteq {"true"} <=> T = {} \/ T = {"true"})
          /\ (T \subseteq {"false"} <=> T = {} \/ T = {"false"})
        OBVIOUS
    <3> QED BY <2>4, <2>6, <2>7, <2>8, <3>1
  <2> QED BY <2>1, <2>3, <2>9
<1>4. {"unknown"} \in SUBSET Verdicts /\ {"true", "unknown"} \in SUBSET Verdicts /\ {"false", "unknown"} \in SUBSET Verdicts
    BY DEF Verdicts
<1>5. /\ \A t \in [1..n -> {"unknown"}] : t \in [1..n -> Verdicts]
      /\ \A t \in [1..n -> {"true", "unknown"}] : t \in [1..n -> Verdicts]
      /\ \A t \in [1..n -> {"false", "unknown"}] : t \in [1..n -> Verdicts]
    BY <1>2, <1>4
<1>6. [1..n -> {"unknown"}] = Giving(n, {})
    BY <1>3, <1>5 DEF Giving
<1>7. [1..n -> {"true", "unknown"}] = Giving(n, {}) \cup Giving(n, {"true"})
    BY <1>3, <1>5 DEF Giving
<1>8. [1..n -> {"false", "unknown"}] = Giving(n, {}) \cup Giving(n, {"false"})
    BY <1>3, <1>5 DEF Giving
<1>9. [1..n -> Verdicts]
         = (Giving(n, {}) \cup Giving(n, {"true"})) \cup (Giving(n, {"false"}) \cup Giving(n, {"true", "false"}))
    BY <1>3 DEF Giving
<1> QED BY <1>6, <1>7, <1>8, <1>9

\* A mass in hundredths.
MassFunctions == {m \in [true : Nat, false : Nat, unknown : Nat] : m.true + m.false + m.unknown = 100}

\* The sums over what a mass may give.
LEMMA MassSums ==
    ASSUME NEW m \in MassFunctions
    PROVE  /\ m["true"] = m.true /\ m["false"] = m.false /\ m["unknown"] = m.unknown
           /\ Tot(m, {"unknown"}) = m.unknown
           /\ Tot(m, {"true", "unknown"}) = m.true + m.unknown
           /\ Tot(m, {"false", "unknown"}) = m.false + m.unknown
           /\ Tot(m, Verdicts) = 100
<1>1. /\ m.true \in Nat /\ m.false \in Nat /\ m.unknown \in Nat /\ m.true + m.false + m.unknown = 100
      /\ m["true"] = m.true /\ m["false"] = m.false /\ m["unknown"] = m.unknown
    BY DEF MassFunctions
<1>2. IsFiniteSet(Verdicts)
  <2>1. Verdicts = ({"true"} \cup {"false"}) \cup {"unknown"}
      BY DEF Verdicts
  <2> QED BY <2>1, FS_Singleton, FS_Union
<1>3. \A x \in Verdicts : m[x] \in Nat
    BY <1>1 DEF Verdicts
<1>4. ASSUME NEW A \in SUBSET Verdicts
      PROVE  /\ Tot(m, {}) = 0
             /\ \A x \in A : Tot(m, A) = m[x] + Tot(m, A \ {x})
  <2>1. IsFiniteSet(A) /\ \A x \in A : m[x] \in Nat
      BY <1>2, <1>3, FS_Subset
  <2> QED BY <2>1, TotTake, TotType
<1>5. Tot(m, {"unknown"}) = m.unknown
  <2>1. {"unknown"} \in SUBSET Verdicts /\ {"unknown"} \ {"unknown"} = {} /\ "unknown" \in {"unknown"}
      BY DEF Verdicts
  <2>2. Tot(m, {"unknown"}) = m["unknown"] + Tot(m, {})
      BY <1>4, <2>1
  <2> QED BY <1>1, <1>4, <2>1, <2>2
<1>6. Tot(m, {"true", "unknown"}) = m.true + m.unknown
  <2>1. {"true", "unknown"} \in SUBSET Verdicts /\ {"true", "unknown"} \ {"true"} = {"unknown"} /\ "true" \in {"true", "unknown"}
      BY DEF Verdicts
  <2>2. Tot(m, {"true", "unknown"}) = m["true"] + Tot(m, {"unknown"})
      BY <1>4, <2>1
  <2> QED BY <1>1, <1>5, <2>2
<1>7. Tot(m, {"false", "unknown"}) = m.false + m.unknown
  <2>1. {"false", "unknown"} \in SUBSET Verdicts /\ {"false", "unknown"} \ {"false"} = {"unknown"} /\ "false" \in {"false", "unknown"}
      BY DEF Verdicts
  <2>2. Tot(m, {"false", "unknown"}) = m["false"] + Tot(m, {"unknown"})
      BY <1>4, <2>1
  <2> QED BY <1>1, <1>5, <2>2
<1>8. Tot(m, Verdicts) = 100
  <2>1. Verdicts \in SUBSET Verdicts /\ Verdicts \ {"true"} = {"false", "unknown"} /\ "true" \in Verdicts
      BY DEF Verdicts
  <2>2. Tot(m, Verdicts) = m["true"] + Tot(m, {"false", "unknown"})
      BY <1>4, <2>1
  <2> QED BY <1>1, <1>7, <2>2
<1> QED BY <1>1, <1>5, <1>6, <1>7, <1>8

\* Whole is the product of hundreds.
LEMMA WholeIs ==
    ASSUME NEW n \in Nat, NEW v, \A k \in 1..n : v[k] = 100
    PROVE  Pr(v, n) = Whole[n]
<1> DEFINE P == {m \in Nat : m <= n => Pr(v, m) = Whole[m]}
<1>1. 0 \in P
    BY PrMore, WholeFacts
<1>2. \A m \in Nat : m \in P => m + 1 \in P
  <2> SUFFICES ASSUME NEW m \in Nat, m \in P, m + 1 <= n PROVE Pr(v, m + 1) = Whole[m + 1]
      OBVIOUS
  <2>1. v[m + 1] = 100 /\ Pr(v, m) = Whole[m]
      OBVIOUS
  <2>2. Pr(v, m + 1) = Whole[m] * 100
      BY <2>1, PrMore
  <2>3. Whole[m + 1] = 100 * Whole[m] /\ Whole[m] \in Nat
      BY WholeFacts
  <2> QED BY <2>2, <2>3
<1>3. n \in P
  <2> HIDE DEF P
  <2> QED BY <1>1, <1>2, NatSetInduction
<1> QED BY <1>3

\* The combination in closed form, by its products.
ConjunctionIs(w, n, q) ==
    LET u == Pr([k \in 1..n |-> w[k].unknown], n)
        t == Pr([k \in 1..n |-> w[k].true + w[k].unknown], n)
        f == Pr([k \in 1..n |-> w[k].false + w[k].unknown], n)
    IN  q = [true |-> t - u, false |-> f - u, unknown |-> u, conflict |-> Whole[n] - (t - u) - (f - u) - u]

\* They are what is computed.
LEMMA ConjunctiveIs ==
    ASSUME NEW n \in Nat, NEW w \in [1..n -> MassFunctions]
    PROVE  Len(w) = n /\ ConjunctionIs(w, n, Conjunctive(w))
<1>1. DOMAIN w = 1..n /\ Len(w) = n
    OBVIOUS
<1>2. PICK a, b, c : /\ a = [k \in 1..n |-> w[k].unknown]
                     /\ b = [k \in 1..n |-> w[k].true + w[k].unknown]
                     /\ c = [k \in 1..n |-> w[k].false + w[k].unknown]
    OBVIOUS
<1>3. a = [k \in 1..n |-> a[k]] /\ b = [k \in 1..n |-> b[k]] /\ c = [k \in 1..n |-> c[k]]
    BY <1>2
<1>4. Product(a) = Pr(a, n) /\ Product(b) = Pr(b, n) /\ Product(c) = Pr(c, n)
    BY <1>3 DEF Pr
<1>5. Conjunctive(w) = [true |-> Product(b) - Product(a), false |-> Product(c) - Product(a), unknown |-> Product(a),
                        conflict |-> Whole[n] - (Product(b) - Product(a)) - (Product(c) - Product(a)) - Product(a)]
    BY <1>1, <1>2 DEF Conjunctive
<1> QED BY <1>1, <1>2, <1>4, <1>5 DEF ConjunctionIs

\* The four parts of the combination are the joint assignments, and natural.
LEMMA CombinationIsJoint ==
    ASSUME NEW n \in Nat, NEW w \in [1..n -> MassFunctions], NEW q, q = Conjunctive(w)
    PROVE  /\ q.unknown = Joint(w, {}) /\ q.true = Joint(w, {"true"}) /\ q.false = Joint(w, {"false"})
           /\ q.conflict = Joint(w, {"true", "false"})
           /\ q.unknown \in Nat /\ q.true \in Nat /\ q.false \in Nat /\ q.conflict \in Nat
           /\ q.unknown + q.true + q.false + q.conflict = Whole[n]
<1>1. \A k \in 1..n : w[k] \in MassFunctions
    OBVIOUS
<1>2. Weighed(w, n) /\ DOMAIN w = 1..n
  <2>1. ASSUME NEW k \in 1..n, NEW x \in Verdicts PROVE w[k][x] \in Nat
    <3>1. PICK m \in MassFunctions : m = w[k]
        BY <1>1
    <3> QED BY <3>1, MassSums DEF MassFunctions, Verdicts
  <2> QED BY <2>1 DEF Weighed
<1>3. PICK y : y = Yield(w, n)
    OBVIOUS
<1>4. PICK a, b, c, d : /\ a = Giving(n, {}) /\ b = Giving(n, {"true"})
                        /\ c = Giving(n, {"false"}) /\ d = Giving(n, {"true", "false"})
    OBVIOUS
<1>5. /\ Joint(w, {}) = Tot(y, a) /\ Joint(w, {"true"}) = Tot(y, b)
      /\ Joint(w, {"false"}) = Tot(y, c) /\ Joint(w, {"true", "false"}) = Tot(y, d)
    BY <1>2, <1>3, <1>4, JointIs
<1>6. IsFiniteSet([1..n -> Verdicts]) /\ \A t \in [1..n -> Verdicts] : y[t] \in Nat
  <2>1. Verdicts \in SUBSET Verdicts
      OBVIOUS
  <2> QED BY <1>2, <1>3, <2>1, YieldType
<1>7. \A s \in SUBSET [1..n -> Verdicts] : IsFiniteSet(s) /\ \A t \in s : y[t] \in Nat
    BY <1>6, FS_Subset
<1>8. /\ a \in SUBSET [1..n -> Verdicts] /\ b \in SUBSET [1..n -> Verdicts]
      /\ c \in SUBSET [1..n -> Verdicts] /\ d \in SUBSET [1..n -> Verdicts]
      /\ a \cap b = {} /\ a \cap c = {} /\ c \cap d = {} /\ (a \cup b) \cap (c \cup d) = {}
  <2>1. /\ "true" \in {"true"} /\ "true" \notin {"false"} /\ "true" \notin {}
        /\ "false" \in {"false"} /\ "false" \notin {"true"} /\ "false" \notin {}
        /\ "true" \in {"true", "false"} /\ "false" \in {"true", "false"}
      OBVIOUS
  <2> QED BY <1>4, <2>1 DEF Giving
<1>9. /\ Tot(y, a \cup b) = Tot(y, a) + Tot(y, b) /\ Tot(y, a \cup c) = Tot(y, a) + Tot(y, c)
      /\ Tot(y, c \cup d) = Tot(y, c) + Tot(y, d)
      /\ Tot(y, a) \in Nat /\ Tot(y, b) \in Nat /\ Tot(y, c) \in Nat /\ Tot(y, d) \in Nat
    BY <1>7, <1>8, TotJoin
<1>10. Tot(y, (a \cup b) \cup (c \cup d)) = Tot(y, a \cup b) + Tot(y, c \cup d)
  <2>1. /\ IsFiniteSet(a \cup b) /\ IsFiniteSet(c \cup d)
        /\ \A t \in (a \cup b) \cup (c \cup d) : y[t] \in Nat
      BY <1>7, <1>8, FS_Union
  <2> QED BY <1>8, <2>1, TotJoin
<1>11. PICK vu, vt, vf, vw : /\ vu = [k \in 1..n |-> w[k].unknown]
                             /\ vt = [k \in 1..n |-> w[k].true + w[k].unknown]
                             /\ vf = [k \in 1..n |-> w[k].false + w[k].unknown]
                             /\ vw = [k \in 1..n |-> 100]
    OBVIOUS
<1>12. \A k \in 1..n : /\ vu[k] = Tot(w[k], {"unknown"}) /\ vt[k] = Tot(w[k], {"true", "unknown"})
                       /\ vf[k] = Tot(w[k], {"false", "unknown"}) /\ vw[k] = Tot(w[k], Verdicts)
  <2> SUFFICES ASSUME NEW k \in 1..n
               PROVE  /\ vu[k] = Tot(w[k], {"unknown"}) /\ vt[k] = Tot(w[k], {"true", "unknown"})
                      /\ vf[k] = Tot(w[k], {"false", "unknown"}) /\ vw[k] = Tot(w[k], Verdicts)
      OBVIOUS
  <2>1. PICK m \in MassFunctions : m = w[k]
      BY <1>1
  <2>2. vu[k] = m.unknown /\ vt[k] = m.true + m.unknown /\ vf[k] = m.false + m.unknown /\ vw[k] = 100
      BY <1>11, <2>1
  <2> QED BY <2>1, <2>2, MassSums
<1>13. /\ {"unknown"} \in SUBSET Verdicts /\ {"true", "unknown"} \in SUBSET Verdicts
       /\ {"false", "unknown"} \in SUBSET Verdicts /\ Verdicts \in SUBSET Verdicts
    BY DEF Verdicts
<1>14. Tot(y, a) = Pr(vu, n)
  <2>1. Ways(w, n, {"unknown"}) = Pr(vu, n)
      BY <1>2, <1>12, <1>13, WaysAre
  <2>2. [1..n -> {"unknown"}] = a
      BY <1>4, GivingParts
  <2> QED BY <1>3, <2>1, <2>2 DEF Ways
<1>15. Tot(y, a \cup b) = Pr(vt, n)
  <2>1. Ways(w, n, {"true", "unknown"}) = Pr(vt, n)
      BY <1>2, <1>12, <1>13, WaysAre
  <2>2. [1..n -> {"true", "unknown"}] = a \cup b
      BY <1>4, GivingParts
  <2> QED BY <1>3, <2>1, <2>2 DEF Ways
<1>16. Tot(y, a \cup c) = Pr(vf, n)
  <2>1. Ways(w, n, {"false", "unknown"}) = Pr(vf, n)
      BY <1>2, <1>12, <1>13, WaysAre
  <2>2. [1..n -> {"false", "unknown"}] = a \cup c
      BY <1>4, GivingParts
  <2> QED BY <1>3, <2>1, <2>2 DEF Ways
<1>17. Tot(y, (a \cup b) \cup (c \cup d)) = Whole[n]
  <2>1. Ways(w, n, Verdicts) = Pr(vw, n)
      BY <1>2, <1>12, <1>13, WaysAre
  <2>2. [1..n -> Verdicts] = (a \cup b) \cup (c \cup d)
      BY <1>4, GivingParts
  <2>3. \A k \in 1..n : vw[k] = 100
      BY <1>11
  <2>4. Pr(vw, n) = Whole[n]
      BY <2>3, WholeIs
  <2> QED BY <1>3, <2>1, <2>2, <2>4 DEF Ways
<1>18. q = [true |-> Pr(vt, n) - Pr(vu, n), false |-> Pr(vf, n) - Pr(vu, n), unknown |-> Pr(vu, n),
            conflict |-> Whole[n] - (Pr(vt, n) - Pr(vu, n)) - (Pr(vf, n) - Pr(vu, n)) - Pr(vu, n)]
    BY <1>11, ConjunctiveIs DEF ConjunctionIs
<1> QED BY <1>5, <1>9, <1>10, <1>14, <1>15, <1>16, <1>17, <1>18

-----------------------------------------------------------------------------
(* Belief fusion: competing values.                                          *)

\* Products grow with their factors.
LEMMA PrLess ==
    ASSUME NEW v, NEW w, NEW n \in Nat, \A k \in 1..n : v[k] \in Nat /\ w[k] \in Nat /\ v[k] <= w[k]
    PROVE  Pr(v, n) <= Pr(w, n)
<1> DEFINE P == {m \in Nat : m <= n => Pr(v, m) \in Nat /\ Pr(w, m) \in Nat /\ Pr(v, m) <= Pr(w, m)}
<1>1. 0 \in P
    BY PrMore
<1>2. \A m \in Nat : m \in P => m + 1 \in P
  <2> SUFFICES ASSUME NEW m \in Nat, m \in P, m + 1 <= n
               PROVE  Pr(v, m + 1) \in Nat /\ Pr(w, m + 1) \in Nat /\ Pr(v, m + 1) <= Pr(w, m + 1)
      OBVIOUS
  <2>1. Pr(v, m + 1) = Pr(v, m) * v[m + 1] /\ Pr(w, m + 1) = Pr(w, m) * w[m + 1]
      BY PrMore
  <2>2. PICK a, b, x, y : a = Pr(v, m) /\ b = Pr(w, m) /\ x = v[m + 1] /\ y = w[m + 1]
      OBVIOUS
  <2>3. a \in Nat /\ b \in Nat /\ x \in Nat /\ y \in Nat /\ a <= b /\ x <= y
      BY <2>2
  <2>4. a * x \in Nat /\ b * y \in Nat /\ a * x <= b * x /\ b * x <= b * y /\ b * x \in Nat
      BY <2>3
  <2>5. a * x <= b * y
      BY <2>4
  <2> QED BY <2>1, <2>2, <2>4, <2>5
<1>3. n \in P
  <2> HIDE DEF P
  <2> QED BY <1>1, <1>2, NatSetInduction
<1> QED BY <1>3

\* Factors of at most a hundred, one of them at most ten.
LEMMA PrTenth ==
    ASSUME NEW v, NEW n \in Nat, \A k \in 1..n : v[k] \in 0..100, NEW l \in 1..n, v[l] <= 10
    PROVE  10 * Pr(v, n) <= Whole[n]
<1> DEFINE P == {m \in Nat : m <= n => /\ Pr(v, m) \in Nat /\ Pr(v, m) <= Whole[m]
                                       /\ (l <= m => 10 * Pr(v, m) <= Whole[m])}
<1>1. 0 \in P
    BY PrMore, WholeFacts
<1>2. \A m \in Nat : m \in P => m + 1 \in P
  <2> SUFFICES ASSUME NEW m \in Nat, m \in P, m + 1 <= n
               PROVE  /\ Pr(v, m + 1) \in Nat /\ Pr(v, m + 1) <= Whole[m + 1]
                      /\ (l <= m + 1 => 10 * Pr(v, m + 1) <= Whole[m + 1])
      OBVIOUS
  <2>1. Pr(v, m + 1) = Pr(v, m) * v[m + 1] /\ Whole[m + 1] = 100 * Whole[m] /\ Whole[m] \in Nat
      BY PrMore, WholeFacts
  <2>2. PICK a, x, h : a = Pr(v, m) /\ x = v[m + 1] /\ h = Whole[m]
      OBVIOUS
  <2>3. a \in Nat /\ x \in Nat /\ h \in Nat /\ x <= 100 /\ a <= h
      BY <2>1, <2>2
  <2>4. a * x \in Nat /\ a * x <= a * 100
      BY <2>3
  <2>5. ASSUME l <= m + 1 PROVE 10 * (a * x) <= 100 * h
    <3>1. CASE l = m + 1
      <4>1. x <= 10
          BY <2>2, <3>1
      <4>2. a * x <= a * 10
          BY <2>3, <4>1
      <4> QED BY <2>3, <2>4, <4>2
    <3>2. CASE l # m + 1
      <4>1. 10 * a <= h
          BY <2>2, <2>5, <3>2
      <4> QED BY <2>3, <2>4, <4>1
    <3> QED BY <3>1, <3>2
  <2> QED BY <2>1, <2>2, <2>3, <2>4, <2>5
<1>3. n \in P
  <2> HIDE DEF P
  <2> QED BY <1>1, <1>2, NatSetInduction
<1> QED BY <1>3

\* N sources c of the sides 1..s.
Backed(c, N, s) == c \in [1..N -> [of : 1..s, weight : Nat]]

\* What a source leaves open, and what all sources together do, or leave open for a side or against it.
Open(c) == [k \in DOMAIN c |-> 100 - UpToLimit(MaxReliability, c[k].weight)]
OpenFor(c, i) == [k \in DOMAIN c |-> IF c[k].of = i THEN 100 ELSE Open(c)[k]]
OpenAgainst(c, i) == [k \in DOMAIN c |-> IF c[k].of = i THEN Open(c)[k] ELSE 100]

\* None leaves nothing open.
LEMMA OpenTypes ==
    ASSUME NEW c, NEW N \in Nat, NEW s \in Nat, Backed(c, N, s), NEW k \in 1..N
    PROVE  Open(c)[k] \in 1..100 /\ c[k].of \in 1..s
<1>1. DOMAIN c = 1..N /\ c[k].weight \in Nat /\ c[k].of \in 1..s
    BY DEF Backed
<1>2. PICK r : r = UpToLimit(MaxReliability, c[k].weight)
    OBVIOUS
<1>3. r \in 0..99
  <2>1. PICK limit, x : limit = MaxReliability /\ x = c[k].weight
      OBVIOUS
  <2>2. limit \in 0..99 /\ x \in Nat
      BY <1>1, <2>1, BeliefAssumption
  <2>3. r = IF x < limit THEN x ELSE limit
      BY <1>2, <2>1 DEF UpToLimit
  <2> QED BY <2>2, <2>3
<1>4. Open(c)[k] = 100 - r
    BY <1>1, <1>2 DEF Open
<1>5. Open(c)[k] \in 1..100
    BY <1>3, <1>4
<1> QED BY <1>1, <1>5

\* A source leaves all of its mass open for its own side, and against the others.
FactorsOf(c, i, k) ==
    /\ c[k].of = i => OpenFor(c, i)[k] = 100 /\ OpenAgainst(c, i)[k] = Open(c)[k]
    /\ c[k].of # i => OpenFor(c, i)[k] = Open(c)[k] /\ OpenAgainst(c, i)[k] = 100

\* Every source does.
LEMMA FactorsAre ==
    ASSUME NEW c, NEW N \in Nat, NEW s \in Nat, Backed(c, N, s), NEW k \in 1..N, NEW i
    PROVE  FactorsOf(c, i, k)
<1>1. DOMAIN c = 1..N
    BY DEF Backed
<1>2. c[k].of = i => OpenFor(c, i)[k] = 100 /\ OpenAgainst(c, i)[k] = Open(c)[k]
    BY <1>1 DEF OpenFor, OpenAgainst
<1>3. c[k].of # i => OpenFor(c, i)[k] = Open(c)[k] /\ OpenAgainst(c, i)[k] = 100
    BY <1>1 DEF OpenFor, OpenAgainst
<1> QED BY <1>2, <1>3 DEF FactorsOf

\* How the products compare, after m of the sources.
LEMMA OpenOrder ==
    ASSUME NEW c, NEW N \in Nat, NEW s \in Nat, Backed(c, N, s), NEW m \in 0..N, NEW i, NEW j
    PROVE  /\ Pr(Open(c), m) \in Nat /\ Pr(Open(c), m) # 0
           /\ Pr(OpenFor(c, i), m) \in Nat /\ Pr(OpenAgainst(c, i), m) \in Nat
           /\ Pr(Open(c), m) <= Pr(OpenFor(c, i), m) /\ Pr(Open(c), m) <= Pr(OpenAgainst(c, i), m)
           /\ Pr(OpenFor(c, i), m) <= Whole[m] /\ Pr(OpenAgainst(c, i), m) <= Whole[m]
           /\ (i # j => Pr(OpenFor(c, j), m) <= Pr(OpenAgainst(c, i), m))
<1>1. PICK u, a, b, d, h : /\ u = Open(c) /\ a = OpenFor(c, i) /\ b = OpenAgainst(c, i)
                           /\ d = OpenFor(c, j) /\ h = [k \in 1..m |-> 100]
    OBVIOUS
<1>2. ASSUME NEW k \in 1..m
      PROVE  /\ u[k] \in Nat /\ u[k] # 0 /\ u[k] <= 100 /\ h[k] = 100
             /\ a[k] = (IF c[k].of = i THEN 100 ELSE u[k])
             /\ b[k] = (IF c[k].of = i THEN u[k] ELSE 100)
             /\ d[k] = (IF c[k].of = j THEN 100 ELSE u[k])
  <2>1. k \in 1..N /\ h[k] = 100
      BY <1>1
  <2>2. Open(c)[k] \in 1..100
      BY <2>1, OpenTypes
  <2>3. u[k] = Open(c)[k] /\ u[k] \in Nat /\ u[k] # 0 /\ u[k] <= 100
    <3>1. u[k] = Open(c)[k]
        BY <1>1
    <3>2. PICK x : x = Open(c)[k]
        OBVIOUS
    <3>3. x \in Nat /\ x # 0 /\ x <= 100
        BY <2>2, <3>2
    <3> QED BY <3>1, <3>2, <3>3
  <2>4. FactorsOf(c, i, k)
      BY <2>1, FactorsAre
  <2>5. a[k] = IF c[k].of = i THEN 100 ELSE u[k]
      BY <1>1, <2>3, <2>4 DEF FactorsOf
  <2>6. b[k] = IF c[k].of = i THEN u[k] ELSE 100
      BY <1>1, <2>3, <2>4 DEF FactorsOf
  <2>7. FactorsOf(c, j, k)
      BY <2>1, FactorsAre
  <2>8. d[k] = IF c[k].of = j THEN 100 ELSE u[k]
      BY <1>1, <2>3, <2>7 DEF FactorsOf
  <2> QED BY <2>1, <2>3, <2>5, <2>6, <2>8
<1>3. \A k \in 1..m : /\ u[k] \in Nat /\ a[k] \in Nat /\ b[k] \in Nat /\ d[k] \in Nat /\ h[k] \in Nat
                      /\ u[k] # 0 /\ u[k] <= a[k] /\ u[k] <= b[k] /\ a[k] <= h[k] /\ b[k] <= h[k]
                      /\ (i # j => d[k] <= b[k])
    BY <1>2
<1>4. m \in Nat
    OBVIOUS
<1>5. Pr(u, m) \in Nat /\ Pr(u, m) # 0 /\ Pr(a, m) \in Nat /\ Pr(b, m) \in Nat
    BY <1>3, <1>4, PrType
<1>6. Pr(u, m) <= Pr(a, m) /\ Pr(u, m) <= Pr(b, m) /\ Pr(a, m) <= Pr(h, m) /\ Pr(b, m) <= Pr(h, m)
    BY <1>3, <1>4, PrLess
<1>7. i # j => Pr(d, m) <= Pr(b, m)
  <2> SUFFICES ASSUME i # j PROVE Pr(d, m) <= Pr(b, m)
      OBVIOUS
  <2>1. \A k \in 1..m : d[k] \in Nat /\ b[k] \in Nat /\ d[k] <= b[k]
      BY <1>3
  <2> QED BY <1>4, <2>1, PrLess
<1>8. Pr(h, m) = Whole[m]
    BY <1>2, <1>4, WholeIs
<1> QED BY <1>1, <1>5, <1>6, <1>7, <1>8

\* What the sources of each side leave for it alone, and for nobody.
Gains(c, s, m) == [i \in 1..s |-> Pr(OpenFor(c, i), m) - Pr(Open(c), m)]
Shared(c, s, m) == Tot(Gains(c, s, m), 1..s) + Pr(Open(c), m)
\* It fits in the mass there is, and in what is left of it without contradictions about a side.
Fits(c, s, m) ==
    /\ Shared(c, s, m) \in Nat /\ Shared(c, s, m) <= Whole[m]
    /\ \A i \in 1..s : Shared(c, s, m) <= Pr(OpenFor(c, i), m) + Pr(OpenAgainst(c, i), m) - Pr(Open(c), m)

\* One more source.
LEMMA FitsMore ==
    ASSUME NEW c, NEW N \in Nat, NEW s \in Nat, Backed(c, N, s), NEW m \in Nat, m + 1 <= N, Fits(c, s, m)
    PROVE  Fits(c, s, m + 1)
<1>1. PICK p : p = m + 1 /\ p \in 1..N /\ p \in 0..N /\ m \in 0..N
    OBVIOUS
<1>2. PICK u, o : u = Open(c)[p] /\ o = c[p].of
    OBVIOUS
<1>3. u \in Nat /\ u <= 100 /\ o \in 1..s
  <2>1. Open(c)[p] \in 1..100 /\ c[p].of \in 1..s
      BY <1>1, OpenTypes
  <2> QED BY <1>2, <2>1
<1>4. PICK U, H : U = Pr(Open(c), m) /\ H = Whole[m]
    OBVIOUS
<1>5. PICK A, B : A = [i \in 1..s |-> Pr(OpenFor(c, i), m)] /\ B = [i \in 1..s |-> Pr(OpenAgainst(c, i), m)]
    OBVIOUS
<1>6. U \in Nat /\ H \in Nat
    BY <1>1, <1>4, OpenOrder, WholeFacts
<1>7. \A i \in 1..s : A[i] \in Nat /\ B[i] \in Nat /\ U <= A[i] /\ U <= B[i] /\ A[i] <= H
    BY <1>1, <1>4, <1>5, OpenOrder
<1>8. \A i \in 1..s : i # o => A[o] <= B[i]
    BY <1>1, <1>3, <1>5, OpenOrder
<1>9. Pr(Open(c), p) = U * u /\ Whole[p] = 100 * H
    BY <1>1, <1>2, <1>4, PrMore, WholeFacts
<1>10. ASSUME NEW i \in 1..s
       PROVE  /\ Pr(OpenFor(c, i), p) = A[i] * (IF o = i THEN 100 ELSE u)
              /\ Pr(OpenAgainst(c, i), p) = B[i] * (IF o = i THEN u ELSE 100)
  <2>1. /\ OpenFor(c, i)[p] = (IF o = i THEN 100 ELSE u)
        /\ OpenAgainst(c, i)[p] = (IF o = i THEN u ELSE 100)
    <3>1. FactorsOf(c, i, p)
        BY <1>1, FactorsAre
    <3> QED BY <1>2, <3>1 DEF FactorsOf
  <2>2. /\ Pr(OpenFor(c, i), p) = Pr(OpenFor(c, i), m) * OpenFor(c, i)[p]
        /\ Pr(OpenAgainst(c, i), p) = Pr(OpenAgainst(c, i), m) * OpenAgainst(c, i)[p]
      BY <1>1, PrMore
  <2> QED BY <1>5, <2>1, <2>2
<1>11. PICK f, g : f = Gains(c, s, m) /\ g = Gains(c, s, p)
    OBVIOUS
<1>12. \A i \in 1..s : f[i] = A[i] - U /\ f[i] \in Nat
    BY <1>4, <1>5, <1>7, <1>6, <1>11 DEF Gains
<1>13. \A i \in 1..s : i # o => g[i] = u * f[i]
  <2> SUFFICES ASSUME NEW i \in 1..s, i # o PROVE g[i] = u * f[i]
      OBVIOUS
  <2>1. g[i] = A[i] * u - U * u
      BY <1>9, <1>10, <1>11 DEF Gains
  <2>2. PICK x : x = A[i]
      OBVIOUS
  <2>3. x * u - U * u = u * (x - U)
      BY <1>3, <1>6, <1>7, <2>2
  <2> QED BY <1>12, <2>1, <2>2, <2>3
<1>14. g[o] = u * f[o] + (100 - u) * A[o]
  <2>1. g[o] = A[o] * 100 - U * u
      BY <1>3, <1>9, <1>10, <1>11 DEF Gains
  <2>2. PICK x : x = A[o]
      OBVIOUS
  <2>3. x * 100 - U * u = u * (x - U) + (100 - u) * x
      BY <1>3, <1>6, <1>7, <2>2
  <2> QED BY <1>3, <1>12, <2>1, <2>2, <2>3
<1>15. PICK O : O = (1..s) \ {o}
    OBVIOUS
<1>16. IsFiniteSet(1..s) /\ IsFiniteSet(O)
  <2>1. IsFiniteSet(1..s)
      BY FS_Interval
  <2>2. O \in SUBSET (1..s)
      BY <1>15
  <2> QED BY <2>1, <2>2, FS_Subset
<1>17. (100 - u) * A[o] \in Nat /\ u * f[o] \in Nat
  <2>1. PICK x, y : x = A[o] /\ y = f[o]
      OBVIOUS
  <2>2. x \in Nat /\ y \in Nat /\ 100 - u \in Nat
      BY <1>3, <1>7, <1>12, <2>1
  <2> QED BY <1>3, <2>1, <2>2
<1>18. \A i \in 1..s : g[i] \in Nat
  <2> SUFFICES ASSUME NEW i \in 1..s PROVE g[i] \in Nat
      OBVIOUS
  <2>1. CASE i = o
      BY <1>14, <1>17, <2>1
  <2>2. CASE i # o
    <3>1. PICK y : y = f[i]
        OBVIOUS
    <3>2. u * y \in Nat
        BY <1>3, <1>12, <3>1
    <3> QED BY <1>13, <2>2, <3>1, <3>2
  <2> QED BY <2>1, <2>2
<1>19. Tot(f, 1..s) = f[o] + Tot(f, O) /\ Tot(f, O) \in Nat
    BY <1>3, <1>12, <1>15, <1>16, TotTake
<1>20. Tot(g, 1..s) = g[o] + Tot(g, O)
    BY <1>3, <1>15, <1>16, <1>18, TotTake
<1>21. Tot(g, O) = u * Tot(f, O)
  <2>1. \A i \in O : f[i] \in Nat /\ g[i] = u * f[i]
      BY <1>12, <1>13, <1>15
  <2> QED BY <1>3, <1>16, <2>1, TotTimes
<1>22. PICK D, E, a, y, z : /\ D = Shared(c, s, m) /\ E = Shared(c, s, p)
                            /\ a = A[o] /\ y = f[o] /\ z = Tot(f, O)
    OBVIOUS
<1>23. D = y + z + U /\ E = u * y + (100 - u) * a + u * z + U * u
    BY <1>4, <1>9, <1>11, <1>14, <1>19, <1>20, <1>21, <1>22 DEF Shared
<1>24. a \in Nat /\ y \in Nat /\ z \in Nat /\ a <= H
    BY <1>3, <1>7, <1>12, <1>19, <1>22
<1>25. E = u * D + (100 - u) * a /\ D \in Nat
  <2>1. u * (y + z + U) = u * y + u * z + U * u
      BY <1>3, <1>6, <1>24
  <2>2. u * y \in Nat /\ u * z \in Nat /\ U * u \in Nat /\ (100 - u) * a \in Nat
    <3>1. 100 - u \in Nat
        BY <1>3
    <3> QED BY <1>3, <1>6, <1>24, <3>1
  <2> QED BY <1>6, <1>23, <1>24, <2>1, <2>2
<1>26. D <= H /\ \A i \in 1..s : D <= A[i] + B[i] - U
    BY <1>4, <1>5, <1>22 DEF Fits
<1>27. \A x, v, w \in Int : x <= v /\ w \in Nat => w * x <= w * v
    OBVIOUS
<1>28. 100 - u \in Nat
    BY <1>3
<1>29. u * D \in Nat /\ (100 - u) * a \in Nat /\ E \in Nat
    BY <1>3, <1>24, <1>25, <1>28
<1>30. E <= 100 * H
  <2>1. u * D <= u * H /\ (100 - u) * a <= (100 - u) * H
      BY <1>3, <1>6, <1>24, <1>25, <1>26, <1>27, <1>28
  <2>2. u * H + (100 - u) * H = 100 * H
      BY <1>3, <1>6
  <2>3. u * H \in Nat /\ (100 - u) * H \in Nat
      BY <1>3, <1>6, <1>28
  <2> QED BY <1>25, <1>29, <2>1, <2>2, <2>3
<1>31. ASSUME NEW i \in 1..s
       PROVE  E <= Pr(OpenFor(c, i), p) + Pr(OpenAgainst(c, i), p) - Pr(Open(c), p)
  <2>1. PICK x, b : x = A[i] /\ b = B[i]
      OBVIOUS
  <2>2. x \in Nat /\ b \in Nat /\ D <= x + b - U /\ x + b - U \in Int
      BY <1>6, <1>7, <1>26, <2>1
  <2>3. u * D <= u * (x + b - U)
      BY <1>3, <1>25, <1>27, <2>2
  <2>4. u * (x + b - U) = x * u + b * u - U * u /\ x * u \in Nat /\ b * u \in Nat /\ U * u \in Nat
      BY <1>3, <1>6, <2>2
  <2>5. CASE i = o
    <3>1. E <= x * 100 + b * u - U * u
      <4>1. x = a
          BY <1>22, <2>1, <2>5
      <4>2. x * u + (100 - u) * x = x * 100
          BY <1>3, <2>2
      <4>3. (100 - u) * x \in Nat
          BY <1>29, <4>1
      <4> QED BY <1>25, <1>29, <2>2, <2>3, <2>4, <4>1, <4>2, <4>3
    <3> QED BY <1>9, <1>10, <2>1, <2>5, <3>1
  <2>6. CASE i # o
    <3>1. a <= b
        BY <1>8, <1>22, <2>1, <2>6
    <3>2. (100 - u) * a <= (100 - u) * b
        BY <1>24, <1>27, <1>28, <2>2, <3>1
    <3>3. b * u + (100 - u) * b = b * 100 /\ (100 - u) * b \in Nat
        BY <1>3, <1>28, <2>2
    <3>4. E <= x * u + b * 100 - U * u
        BY <1>25, <1>29, <2>2, <2>3, <2>4, <3>2, <3>3
    <3> QED BY <1>9, <1>10, <2>1, <2>6, <3>4
  <2> QED BY <2>5, <2>6
<1> QED BY <1>1, <1>9, <1>22, <1>29, <1>30, <1>31 DEF Fits

\* So after all sources.
LEMMA SharedFits ==
    ASSUME NEW c, NEW N \in Nat, NEW s \in Nat, Backed(c, N, s)
    PROVE  Fits(c, s, N)
<1> DEFINE P == {m \in Nat : m <= N => Fits(c, s, m)}
<1>1. 0 \in P
  <2>1. Pr(Open(c), 0) = 1 /\ Whole[0] = 1
        /\ \A i \in 1..s : Pr(OpenFor(c, i), 0) = 1 /\ Pr(OpenAgainst(c, i), 0) = 1
      BY PrMore, WholeFacts
  <2>2. PICK g : g = Gains(c, s, 0)
      OBVIOUS
  <2>3. \A i \in 1..s : g[i] = 0
      BY <2>1, <2>2 DEF Gains
  <2>4. IsFiniteSet(1..s)
      BY FS_Interval
  <2>5. Tot(g, 1..s) = 0
      BY <2>3, <2>4, TotZero
  <2>6. Shared(c, s, 0) = 1
      BY <2>1, <2>2, <2>5 DEF Shared
  <2>7. Fits(c, s, 0)
      BY <2>1, <2>6 DEF Fits
  <2> QED BY <2>7
<1>2. \A m \in Nat : m \in P => m + 1 \in P
  <2> SUFFICES ASSUME NEW m \in Nat, m \in P, m + 1 <= N PROVE Fits(c, s, m + 1)
      OBVIOUS
  <2>1. Fits(c, s, m)
      OBVIOUS
  <2> QED BY <2>1, FitsMore
<1>3. N \in P
  <2> HIDE DEF P
  <2> QED BY <1>1, <1>2, NatSetInduction
<1> QED BY <1>3

-----------------------------------------------------------------------------
(* Belief fusion: the sides of a dispute.                                    *)

\* The sides of a dispute, with as many sources as they have.
CompetingSides == [confidence : OwnConfidences, cites : Seq(CitedSources)]
BeliefInv == \E s \in 1..MaxSides : sides \in [1..s -> CompetingSides]

\* A source weighs something.
LEMMA SourceWeightsType ==
    ASSUME NEW side \in CompetingSides, NEW source \in CitedSources
    PROVE  SourceWeights(side, source) \in Seq(Nat) /\ side.confidence \in Nat
<1>1. side.confidence \in Nat
  <2>1. PICK x : x = side.confidence
      OBVIOUS
  <2>2. x \in OwnConfidences
      BY <2>1 DEF CompetingSides
  <2>3. x \in 0..100
      BY <2>2, BeliefAssumption
  <2>4. x \in Nat
      BY <2>3
  <2> QED BY <2>1, <2>4
<1>2. CASE source \in [kind : {"row"}, reliability : Nat]
  <2>1. source.kind = "row" /\ source.reliability \in Nat
      BY <1>2
  <2>2. SourceWeights(side, source) = <<source.reliability>>
      BY <2>1, Zenon DEF SourceWeights
  <2> QED BY <1>1, <2>1, <2>2
<1>3. CASE source \in [kind : {"memory"}, tiers : Seq(Nat), confidence : Nat]
  <2>1. source.kind = "memory" /\ source.tiers \in Seq(Nat) /\ source.confidence \in Nat
      BY <1>3
  <2>2. source.kind # "row" /\ source.kind # "gone"
      BY <2>1
  <2>3. SourceWeights(side, source) = MemoryWeights(source)
      BY <2>1, <2>2, Zenon DEF SourceWeights
  <2>4. MemoryWeights(source) \in Seq(Nat)
    <3>1. CASE source.tiers = <<>>
      <4>1. MemoryWeights(source) = <<source.confidence>>
          BY <3>1 DEF MemoryWeights
      <4> QED BY <2>1, <4>1
    <3>2. CASE source.tiers # <<>>
      <4>1. PICK t, x : t = source.tiers /\ x = source.confidence
          OBVIOUS
      <4>2. t \in Seq(Nat) /\ x \in Nat
          BY <2>1, <4>1
      <4>3. PICK m \in Nat : DOMAIN t = 1..m
          BY <4>2
      <4>4. MemoryWeights(source) = [i \in 1..m |-> UpToLimit(x, t[i])]
          BY <3>2, <4>1, <4>3 DEF MemoryWeights
      <4>5. \A i \in 1..m : UpToLimit(x, t[i]) \in Nat
          BY <4>2, <4>3 DEF UpToLimit
      <4> QED BY <4>4, <4>5
    <3> QED BY <3>1, <3>2
  <2> QED BY <1>1, <2>3, <2>4
<1>4. CASE source \in [kind : {"gone"}]
  <2>1. source.kind = "gone"
      BY <1>4
  <2>2. source.kind # "row" /\ source.kind # "memory"
      BY <2>1
  <2>3. SourceWeights(side, source) = <<side.confidence>>
      BY <2>1, <2>2, Zenon DEF SourceWeights
  <2> QED BY <1>1, <2>3
<1> QED BY <1>2, <1>3, <1>4, BeliefAssumption

\* So does a side.
LEMMA WeightsType ==
    ASSUME NEW side \in CompetingSides
    PROVE  Weights(side) \in Seq(Nat)
<1>1. CASE side.cites = <<>>
  <2>1. Weights(side) = <<side.confidence>>
      BY <1>1 DEF Weights
  <2>2. PICK x : x = side.confidence
      OBVIOUS
  <2>3. x \in OwnConfidences
      BY <2>2 DEF CompetingSides
  <2>4. x \in 0..100
      BY <2>3, BeliefAssumption
  <2>5. x \in Nat
      BY <2>4
  <2> QED BY <2>1, <2>2, <2>5
<1>2. CASE side.cites # <<>>
  <2>1. PICK t : t = side.cites
      OBVIOUS
  <2>2. t \in Seq(CitedSources)
      BY <2>1 DEF CompetingSides
  <2>3. PICK m \in Nat : DOMAIN t = 1..m /\ \A i \in 1..m : t[i] \in CitedSources
      BY <2>2
  <2>4. PICK p : p = [i \in 1..m |-> SourceWeights(side, t[i])]
      OBVIOUS
  <2>5. p \in [1..m -> Seq(Nat)]
      BY <2>3, <2>4, SourceWeightsType
  <2>6. Joined(p) \in Seq(Nat)
      BY <2>5, JoinedIs
  <2>7. Weights(side) = Joined(p)
      BY <1>2, <2>1, <2>3, <2>4 DEF Weights
  <2> QED BY <2>6, <2>7
<1> QED BY <1>1, <1>2

\* The sources of all sides are their sources; none is left out.
LEMMA BackersAre ==
    ASSUME NEW s \in Nat, sides \in [1..s -> CompetingSides]
    PROVE  \E N \in Nat :
              /\ Backed(Backers, N, s) /\ Len(Backers) = N
              /\ \A i \in 1..s : \A l \in 1..Len(Weights(sides[i])) :
                    \E k \in 1..N : Backers[k].of = i /\ Backers[k].weight = Weights(sides[i])[l]
<1>1. PICK W : W = [i \in 1..s |-> Weights(sides[i])]
    OBVIOUS
<1>2. \A i \in 1..s : W[i] \in Seq(Nat) /\ W[i] = Weights(sides[i])
    BY <1>1, WeightsType
<1>3. PICK p : p = [i \in 1..s |-> [k \in DOMAIN W[i] |-> [of |-> i, weight |-> W[i][k]]]]
    OBVIOUS
<1>4. PICK T : T = [of : 1..s, weight : Nat]
    OBVIOUS
<1>5. ASSUME NEW i \in 1..s
      PROVE  /\ p[i] \in Seq(T) /\ Len(p[i]) = Len(W[i])
             /\ \A l \in 1..Len(W[i]) : p[i][l] = [of |-> i, weight |-> W[i][l]]
  <2>1. PICK v : v = W[i]
      OBVIOUS
  <2>2. PICK m \in Nat : DOMAIN v = 1..m /\ Len(v) = m /\ \A l \in 1..m : v[l] \in Nat
    <3>1. v \in Seq(Nat)
        BY <1>2, <2>1
    <3>2. Len(v) \in Nat /\ DOMAIN v = 1..Len(v) /\ \A l \in 1..Len(v) : v[l] \in Nat
        BY <3>1
    <3> QED BY <3>2
  <2>3. p[i] = [k \in 1..m |-> [of |-> i, weight |-> v[k]]]
      BY <1>3, <2>1, <2>2
  <2>4. \A l \in 1..m : [of |-> i, weight |-> v[l]] \in T
      BY <1>4, <2>2
  <2>5. PICK r : r = [k \in 1..m |-> [of |-> i, weight |-> v[k]]]
      OBVIOUS
  <2>6. r \in [1..m -> T] /\ \A l \in 1..m : r[l] = [of |-> i, weight |-> v[l]]
      BY <2>4, <2>5
  <2>7. r \in Seq(T) /\ Len(r) = m
      BY <2>6
  <2> QED BY <2>1, <2>2, <2>3, <2>5, <2>6, <2>7
<1>6. p \in [1..s -> Seq(T)]
    BY <1>3, <1>5
<1>7. Backers = Joined(p)
  <2>1. DOMAIN sides = 1..s
      OBVIOUS
  <2>2. PICK e : e = [j \in Rivals |-> [k \in DOMAIN Weights(sides[j]) |-> [of |-> j, weight |-> Weights(sides[j])[k]]]]
      OBVIOUS
  <2>3. e = p
      BY <1>2, <1>3, <2>1, <2>2 DEF Rivals
  <2> QED BY <2>2, <2>3 DEF Backers
<1>8. PICK c : c = Backers
    OBVIOUS
<1>9. c \in Seq(T) /\ \A i \in 1..s : \A l \in 1..Len(p[i]) : \E k \in 1..Len(c) : c[k] = p[i][l]
  <2>1. Joined(p) \in Seq(T)
      BY <1>6, JoinedIs
  <2>2. c = Joined(p)
      BY <1>7, <1>8
  <2>3. ASSUME NEW i \in 1..s, NEW l \in 1..Len(p[i]) PROVE \E k \in 1..Len(c) : c[k] = p[i][l]
    <3>1. InJoined(p, p[i][l])
        BY <1>6, JoinedIs
    <3> QED BY <2>2, <3>1 DEF InJoined
  <2> QED BY <2>1, <2>2, <2>3
<1>10. PICK N : N = Len(c)
    OBVIOUS
<1>11. N \in Nat /\ c \in [1..N -> T]
    BY <1>9, <1>10
<1>12. ASSUME NEW i \in 1..s, NEW l \in 1..Len(Weights(sides[i]))
       PROVE  \E k \in 1..N : c[k].of = i /\ c[k].weight = Weights(sides[i])[l]
  <2>1. l \in 1..Len(W[i]) /\ l \in 1..Len(p[i]) /\ p[i][l] = [of |-> i, weight |-> W[i][l]]
      BY <1>2, <1>5
  <2>2. PICK k \in 1..N : c[k] = p[i][l]
      BY <1>9, <1>10, <2>1
  <2>3. c[k].of = i /\ c[k].weight = W[i][l]
      BY <2>1, <2>2
  <2> QED BY <1>2, <2>3
<1>13. Backed(c, N, s)
    BY <1>4, <1>11 DEF Backed
<1> QED BY <1>8, <1>10, <1>11, <1>12, <1>13

-----------------------------------------------------------------------------
(* Belief fusion: what is believed of a side, and the warning.               *)

\* Sums grow with their terms.
LEMMA TotLess ==
    ASSUME NEW S, IsFiniteSet(S), NEW f, NEW g, \A x \in S : f[x] \in Nat /\ g[x] \in Nat /\ f[x] <= g[x]
    PROVE  Tot(f, S) <= Tot(g, S)
<1> DEFINE P == {s \in SUBSET S : Tot(f, s) <= Tot(g, s)}
<1>1. {} \in P
  <2>1. Tot(f, {}) = 0 /\ Tot(g, {}) = 0
      BY TotType
  <2> QED BY <2>1
<1>2. ASSUME NEW s \in SUBSET S, s # {}, s \ {Some(s)} \in P PROVE s \in P
  <2>1. PICK d \in s : d = Some(s)
      BY <1>2 DEF Some
  <2>2. IsFiniteSet(s) /\ \A x \in s : f[x] \in Nat /\ g[x] \in Nat
      BY FS_Subset
  <2>3. Tot(f, s) = f[d] + Tot(f, s \ {d}) /\ Tot(f, s \ {d}) \in Nat
      BY <2>2, TotTake
  <2>4. Tot(g, s) = g[d] + Tot(g, s \ {d}) /\ Tot(g, s \ {d}) \in Nat
      BY <2>2, TotTake
  <2>5. Tot(f, s \ {d}) <= Tot(g, s \ {d}) /\ f[d] \in Nat /\ g[d] \in Nat /\ f[d] <= g[d]
      BY <1>2, <2>1
  <2> QED BY <2>3, <2>4, <2>5
<1>3. S \in P
  <2> HIDE DEF P
  <2>1. SUBSET S \subseteq P
      BY <1>1, <1>2, SubsetInduction
  <2> QED BY <2>1
<1> QED BY <1>3

\* The masses for a side, by what the sources leave open.
LEMMA MassesAre ==
    ASSUME NEW N \in Nat, NEW s \in Nat, NEW c, c = Backers, Backed(c, N, s), NEW i
    PROVE  /\ Masses(i) \in [1..N -> MassFunctions]
           /\ \A k \in 1..N : /\ Masses(i)[k].unknown = Open(c)[k]
                              /\ Masses(i)[k].true + Masses(i)[k].unknown = OpenFor(c, i)[k]
                              /\ Masses(i)[k].false + Masses(i)[k].unknown = OpenAgainst(c, i)[k]
<1>1. DOMAIN c = 1..N
    BY DEF Backed
<1>2. PICK w : w = Masses(i)
    OBVIOUS
<1>3. w = [k \in 1..N |-> Bpa(c[k].weight, c[k].of = i)]
    BY <1>1, <1>2 DEF Masses
<1>4. ASSUME NEW k \in 1..N
      PROVE  /\ w[k] \in MassFunctions /\ w[k].unknown = Open(c)[k]
             /\ w[k].true + w[k].unknown = OpenFor(c, i)[k]
             /\ w[k].false + w[k].unknown = OpenAgainst(c, i)[k]
  <2>1. PICK r, m, u : /\ r = UpToLimit(MaxReliability, c[k].weight) /\ m = w[k] /\ u = Open(c)[k]
      OBVIOUS
  <2>2. u \in 1..100
      BY <2>1, OpenTypes
  <2>3. u = 100 - r
      BY <1>1, <2>1 DEF Open
  <2>4. r \in 0..99
    <3>1. c[k].weight \in Nat
        BY DEF Backed
    <3>2. PICK x, limit : x = c[k].weight /\ limit = MaxReliability
        OBVIOUS
    <3>3. x \in Nat /\ limit \in 0..99
        BY <3>1, <3>2, BeliefAssumption
    <3>4. r = IF x < limit THEN x ELSE limit
        BY <2>1, <3>2 DEF UpToLimit
    <3> QED BY <3>3, <3>4
  <2>5. OpenFor(c, i)[k] = (IF c[k].of = i THEN 100 ELSE u) /\ OpenAgainst(c, i)[k] = (IF c[k].of = i THEN u ELSE 100)
    <3>1. FactorsOf(c, i, k)
        BY FactorsAre
    <3> QED BY <2>1, <3>1 DEF FactorsOf
  <2>6. m = Bpa(c[k].weight, c[k].of = i)
      BY <1>3, <2>1
  <2>7. CASE c[k].of = i
    <3>1. m = [true |-> r, false |-> 0, unknown |-> 100 - r]
        BY <2>1, <2>6, <2>7 DEF Bpa
    <3>2. m.true = r /\ m.false = 0 /\ m.unknown = 100 - r
        BY <3>1
    <3>3. m \in MassFunctions
        BY <2>4, <3>1 DEF MassFunctions
    <3> QED BY <2>1, <2>3, <2>4, <2>5, <2>7, <3>2, <3>3
  <2>8. CASE c[k].of # i
    <3>1. m = [true |-> 0, false |-> r, unknown |-> 100 - r]
        BY <2>1, <2>6, <2>8 DEF Bpa
    <3>2. m.true = 0 /\ m.false = r /\ m.unknown = 100 - r
        BY <3>1
    <3>3. m \in MassFunctions
        BY <2>4, <3>1 DEF MassFunctions
    <3> QED BY <2>1, <2>3, <2>4, <2>5, <2>8, <3>2, <3>3
  <2> QED BY <2>7, <2>8
<1>5. w \in [1..N -> MassFunctions]
    BY <1>3, <1>4
<1> QED BY <1>2, <1>4, <1>5

\* The combination for a side.
LEMMA SideCombination ==
    ASSUME NEW N \in Nat, NEW s \in Nat, NEW c, c = Backers, Backed(c, N, s), NEW i, NEW q, q = Conjunctive(Masses(i))
    PROVE  /\ q.unknown = Pr(Open(c), N)
           /\ q.true = Pr(OpenFor(c, i), N) - Pr(Open(c), N)
           /\ q.false = Pr(OpenAgainst(c, i), N) - Pr(Open(c), N)
           /\ q.conflict = Whole[N] - q.true - q.false - q.unknown
           /\ Len(Masses(i)) = N
<1>1. PICK w : w = Masses(i)
    OBVIOUS
<1>2. w \in [1..N -> MassFunctions]
    BY <1>1, MassesAre
<1>3. PICK a, b, d : /\ a = [k \in 1..N |-> w[k].unknown]
                     /\ b = [k \in 1..N |-> w[k].true + w[k].unknown]
                     /\ d = [k \in 1..N |-> w[k].false + w[k].unknown]
    OBVIOUS
<1>4. \A k \in 1..N : a[k] = Open(c)[k] /\ b[k] = OpenFor(c, i)[k] /\ d[k] = OpenAgainst(c, i)[k]
    BY <1>1, <1>3, MassesAre
<1>5. Pr(a, N) = Pr(Open(c), N) /\ Pr(b, N) = Pr(OpenFor(c, i), N) /\ Pr(d, N) = Pr(OpenAgainst(c, i), N)
    BY <1>4, PrSame
<1>6. Len(w) = N /\ ConjunctionIs(w, N, q)
    BY <1>1, <1>2, ConjunctiveIs
<1>7. q = [true |-> Pr(b, N) - Pr(a, N), false |-> Pr(d, N) - Pr(a, N), unknown |-> Pr(a, N),
           conflict |-> Whole[N] - (Pr(b, N) - Pr(a, N)) - (Pr(d, N) - Pr(a, N)) - Pr(a, N)]
    BY <1>3, <1>6 DEF ConjunctionIs
<1> QED BY <1>1, <1>5, <1>6, <1>7

\* What is too much of n sources.
LEMMA ExcessiveIs ==
    ASSUME NEW x, NEW n PROVE Excessive(x, n) \in BOOLEAN
BY DEF Excessive

\* The closed form of belief.py:78 is the combination it stands for, whatever the sources.
LEMMA FusionIsJointAlways ==
    ASSUME NEW s \in Nat, sides \in [1..s -> CompetingSides]
    PROVE  FusionIsJoint
<1> SUFFICES ASSUME NEW i \in Rivals
             PROVE  LET masses == Masses(i)  f == Fuse(masses)  conflict == Joint(masses, {"true", "false"}) IN
                    /\ f.true = Joint(masses, {"true"}) /\ f.false = Joint(masses, {"false"})
                    /\ f.unknown = Joint(masses, {}) + (IF Excessive(conflict, Len(masses)) THEN conflict ELSE 0)
                    /\ f.of = f.true + f.false + f.unknown
    BY DEF FusionIsJoint
<1>1. PICK N \in Nat : Backed(Backers, N, s)
    BY BackersAre
<1>2. PICK w, q, f : w = Masses(i) /\ q = Conjunctive(w) /\ f = Fuse(w)
    OBVIOUS
<1>3. w \in [1..N -> MassFunctions] /\ Len(w) = N
    BY <1>1, <1>2, MassesAre
<1>4. /\ q.unknown = Joint(w, {}) /\ q.true = Joint(w, {"true"}) /\ q.false = Joint(w, {"false"})
      /\ q.conflict = Joint(w, {"true", "false"})
      /\ q.unknown \in Nat /\ q.true \in Nat /\ q.false \in Nat /\ q.conflict \in Nat
      /\ q.unknown + q.true + q.false + q.conflict = Whole[N]
    BY <1>2, <1>3, CombinationIsJoint
<1>5. CASE Excessive(q.conflict, N)
  <2>1. f = [true |-> q.true, false |-> q.false, unknown |-> q.unknown + q.conflict, of |-> Whole[N], yager |-> TRUE]
      BY <1>2, <1>3, <1>5 DEF Fuse
  <2>2. f.true = q.true /\ f.false = q.false /\ f.unknown = q.unknown + q.conflict /\ f.of = Whole[N]
      BY <2>1
  <2>3. f.of = f.true + f.false + f.unknown
      BY <1>4, <2>2
  <2> QED BY <1>2, <1>3, <1>4, <1>5, <2>2, <2>3
<1>6. CASE ~Excessive(q.conflict, N)
  <2>1. f = [true |-> q.true, false |-> q.false, unknown |-> q.unknown, of |-> Whole[N] - q.conflict, yager |-> FALSE]
      BY <1>2, <1>3, <1>6 DEF Fuse
  <2>2. f.true = q.true /\ f.false = q.false /\ f.unknown = q.unknown /\ f.of = Whole[N] - q.conflict
      BY <2>1
  <2>3. f.of = f.true + f.false + f.unknown /\ f.unknown = q.unknown + 0
      BY <1>4, <2>2
  <2> QED BY <1>2, <1>3, <1>4, <1>6, <2>2, <2>3
<1> QED BY <1>5, <1>6, ExcessiveIs

\* What is fused for a side, by what the sources leave open.
FusedSide(c, N, i, f) ==
    LET a == Pr(OpenFor(c, i), N)
        u == Pr(Open(c), N)
        x == Whole[N] - (a - u) - (Pr(OpenAgainst(c, i), N) - u) - u
    IN  /\ x \in Nat /\ f.true = a - u
        /\ \/ Excessive(x, N) /\ f.unknown = u + x /\ f.of = Whole[N] /\ f.yager = TRUE
           \/ ~Excessive(x, N) /\ f.unknown = u /\ f.of = Whole[N] - x /\ f.yager = FALSE

\* It is what fuse computes.
LEMMA FusedSideIs ==
    ASSUME NEW N \in Nat, NEW s \in Nat, NEW c, c = Backers, Backed(c, N, s), NEW i, NEW f, f = Fuse(Masses(i))
    PROVE  FusedSide(c, N, i, f)
<1>1. PICK w, q, a, b, u, h : /\ w = Masses(i) /\ q = Conjunctive(w) /\ h = Whole[N]
                              /\ a = Pr(OpenFor(c, i), N) /\ b = Pr(OpenAgainst(c, i), N) /\ u = Pr(Open(c), N)
    OBVIOUS
<1>2. /\ q.unknown = u /\ q.true = a - u /\ q.false = b - u /\ q.conflict = h - q.true - q.false - q.unknown
      /\ Len(w) = N
    BY <1>1, SideCombination
<1>3. w \in [1..N -> MassFunctions]
    BY <1>1, MassesAre
<1>4. q.conflict \in Nat /\ q.conflict = h - (a - u) - (b - u) - u
    BY <1>1, <1>2, <1>3, CombinationIsJoint
<1>5. PICK x : x = q.conflict
    OBVIOUS
<1>6. CASE Excessive(x, N)
  <2>1. f = [true |-> q.true, false |-> q.false, unknown |-> q.unknown + x, of |-> h, yager |-> TRUE]
      BY <1>1, <1>2, <1>5, <1>6 DEF Fuse
  <2>2. f.true = a - u /\ f.unknown = u + x /\ f.of = h /\ f.yager = TRUE
      BY <1>2, <2>1
  <2> QED BY <1>1, <1>4, <1>5, <1>6, <2>2 DEF FusedSide
<1>7. CASE ~Excessive(x, N)
  <2>1. f = [true |-> q.true, false |-> q.false, unknown |-> q.unknown, of |-> h - x, yager |-> FALSE]
      BY <1>1, <1>2, <1>5, <1>7 DEF Fuse
  <2>2. f.true = a - u /\ f.unknown = u /\ f.of = h - x /\ f.yager = FALSE
      BY <1>2, <2>1
  <2> QED BY <1>1, <1>4, <1>5, <1>7, <2>2 DEF FusedSide
<1> QED BY <1>6, <1>7

\* Parts of a whole, in thousandths.
LEMMA Thousandths ==
    ASSUME NEW x \in Nat, NEW y \in Nat, NEW d \in Nat, d # 0
    PROVE  /\ (x * 1000) \div d \in Nat /\ ((x * 1000) \div d) * d <= x * 1000
           /\ (x * 1000) \div d <= ((x + y) * 1000) \div d
<1>1. PICK m, n : m = x * 1000 /\ n = (x + y) * 1000
    OBVIOUS
<1>2. m \in Nat /\ n \in Nat /\ m <= n
    BY <1>1
<1>3. m \div d \in Nat
    BY <1>2
<1>4. PICK k : k = m \div d
    OBVIOUS
<1>5. k \in Nat /\ d * k <= m
    BY <1>2, <1>3, <1>4
<1>6. k * d = d * k
    BY <1>5
<1>7. m \div d <= n \div d
    BY <1>2
<1> QED BY <1>1, <1>3, <1>4, <1>5, <1>6, <1>7

\* Belief and plausibility of a side.
LEMMA IntervalFacts ==
    ASSUME NEW N \in Nat, NEW s \in Nat, NEW c, c = Backers, Backed(c, N, s), NEW i \in 1..s
    PROVE  /\ Shared(c, s, N) \in Nat /\ Shared(c, s, N) # 0
           /\ IntervalOf(i).belief \in Nat /\ IntervalOf(i).belief <= IntervalOf(i).plausibility
           /\ Gains(c, s, N)[i] \in Nat /\ IntervalOf(i).belief * Shared(c, s, N) <= 1000 * Gains(c, s, N)[i]
           /\ IntervalOf(i).yager = Fuse(Masses(i)).yager
<1>1. PICK f, a, b, u, h, D : /\ f = Fuse(Masses(i)) /\ h = Whole[N] /\ D = Shared(c, s, N)
                              /\ a = Pr(OpenFor(c, i), N) /\ b = Pr(OpenAgainst(c, i), N) /\ u = Pr(Open(c), N)
    OBVIOUS
<1>2. N \in 0..N
    OBVIOUS
<1>3. a \in Nat /\ b \in Nat /\ u \in Nat /\ u # 0 /\ h \in Nat /\ u <= a
    BY <1>1, <1>2, OpenOrder, WholeFacts
<1>4. D \in Nat /\ D <= h /\ D <= a + b - u
    BY <1>1, SharedFits DEF Fits
<1>5. PICK x : x = h - (a - u) - (b - u) - u
    OBVIOUS
<1>6. /\ x \in Nat /\ f.true = a - u
      /\ \/ f.unknown = u + x /\ f.of = h
         \/ f.unknown = u /\ f.of = h - x
  <2>1. FusedSide(c, N, i, f)
      BY <1>1, FusedSideIs
  <2> QED BY <1>1, <1>5, <2>1 DEF FusedSide
<1>7. Gains(c, s, N)[i] = a - u
    BY <1>1 DEF Gains
<1>8. D # 0
  <2>1. PICK g : g = Gains(c, s, N)
      OBVIOUS
  <2>2. IsFiniteSet(1..s)
      BY FS_Interval
  <2>3. \A j \in 1..s : g[j] \in Nat
    <3> SUFFICES ASSUME NEW j \in 1..s PROVE g[j] \in Nat
        OBVIOUS
    <3>1. g[j] = Pr(OpenFor(c, j), N) - u
        BY <1>1, <2>1 DEF Gains
    <3>2. Pr(OpenFor(c, j), N) \in Nat /\ u <= Pr(OpenFor(c, j), N)
        BY <1>1, <1>2, OpenOrder
    <3>3. PICK y : y = Pr(OpenFor(c, j), N)
        OBVIOUS
    <3> QED BY <1>3, <3>1, <3>2, <3>3
  <2>4. Tot(g, 1..s) \in Nat
      BY <2>2, <2>3, TotType
  <2>5. D = Tot(g, 1..s) + u
      BY <1>1, <2>1 DEF Shared
  <2> QED BY <1>3, <2>4, <2>5
<1>9. PICK t, v, d : t = f.true /\ v = f.unknown /\ d = f.of
    OBVIOUS
<1>10. t \in Nat /\ v \in Nat /\ d \in Nat /\ d # 0 /\ D <= d /\ t = a - u
    BY <1>3, <1>4, <1>5, <1>6, <1>8, <1>9
<1>11. PICK k, l : k = (t * 1000) \div d /\ l = ((t + v) * 1000) \div d
    OBVIOUS
<1>12. k \in Nat /\ k * d <= t * 1000 /\ k <= l
    BY <1>10, <1>11, Thousandths
<1>13. IntervalOf(i) = [belief |-> k, plausibility |-> l, yager |-> f.yager]
    BY <1>1, <1>9, <1>11 DEF IntervalOf, Interval
<1>14. IntervalOf(i).belief = k /\ IntervalOf(i).plausibility = l /\ IntervalOf(i).yager = f.yager
    BY <1>13
<1>15. k * D <= 1000 * t
  <2>1. k * D <= k * d /\ k * D \in Nat /\ k * d \in Nat
      BY <1>4, <1>10, <1>12
  <2> QED BY <1>10, <1>12, <2>1
<1> QED BY <1>1, <1>4, <1>7, <1>8, <1>10, <1>12, <1>14, <1>15

\* Belief in competing values does not add up to more than certainty.
LEMMA BeliefsAddUp ==
    ASSUME NEW N \in Nat, NEW s \in Nat, NEW c, c = Backers, Backed(c, N, s), DOMAIN sides = 1..s
    PROVE  SumFunction([i \in Rivals |-> IntervalOf(i).belief]) <= 1000
<1>1. PICK S, e, g, D : /\ S = 1..s /\ e = [i \in S |-> IntervalOf(i).belief]
                        /\ g = Gains(c, s, N) /\ D = Shared(c, s, N)
    OBVIOUS
<1>2. IsFiniteSet(S)
    BY <1>1, FS_Interval
<1>3. PICK y, z : y = [i \in S |-> D * e[i]] /\ z = [i \in S |-> 1000 * g[i]]
    OBVIOUS
<1>4. ASSUME NEW i \in S
      PROVE  /\ e[i] \in Nat /\ g[i] \in Nat /\ D \in Nat /\ D # 0
             /\ y[i] = D * e[i] /\ z[i] = 1000 * g[i] /\ y[i] \in Nat /\ z[i] \in Nat /\ y[i] <= z[i]
  <2>1. e[i] = IntervalOf(i).belief
      BY <1>1
  <2>2. e[i] \in Nat /\ g[i] \in Nat /\ D \in Nat /\ D # 0 /\ e[i] * D <= 1000 * g[i]
      BY <1>1, <2>1, IntervalFacts
  <2>3. PICK k, l : k = e[i] /\ l = g[i]
      OBVIOUS
  <2>4. D * k = k * D /\ D * k \in Nat /\ 1000 * l \in Nat
      BY <2>2, <2>3
  <2> QED BY <1>3, <2>2, <2>3, <2>4
<1>5. SumFunction([i \in Rivals |-> IntervalOf(i).belief]) = Tot(e, S)
  <2>1. [i \in Rivals |-> IntervalOf(i).belief] = [i \in S |-> e[i]]
      BY <1>1 DEF Rivals
  <2> QED BY <2>1 DEF Tot
<1>6. CASE S = {}
  <2>1. Tot(e, {}) = 0
      BY <1>2, <1>6, TotType
  <2> QED BY <1>5, <1>6, <2>1
<1>7. CASE S # {}
  <2>1. D \in Nat /\ D # 0
      BY <1>4, <1>7
  <2>2. Tot(y, S) = D * Tot(e, S)
      BY <1>2, <1>4, <2>1, TotTimes
  <2>3. Tot(z, S) = 1000 * Tot(g, S)
    <3>1. \A i \in S : g[i] \in Nat /\ z[i] = 1000 * g[i]
        BY <1>4
    <3> QED BY <1>2, <3>1, TotTimes
  <2>4. Tot(y, S) <= Tot(z, S)
      BY <1>2, <1>4, TotLess
  <2>5. Tot(e, S) \in Nat /\ Tot(g, S) \in Nat
      BY <1>2, <1>4, TotType
  <2>6. Tot(g, S) <= D
    <3>1. D = Tot(g, S) + Pr(Open(c), N)
        BY <1>1 DEF Shared
    <3>2. N \in 0..N
        OBVIOUS
    <3>3. Pr(Open(c), N) \in Nat
        BY <3>2, OpenOrder
    <3> QED BY <2>5, <3>1, <3>3
  <2>7. PICK k, l : k = Tot(e, S) /\ l = Tot(g, S)
      OBVIOUS
  <2>8. D * k <= 1000 * l /\ 1000 * l <= 1000 * D /\ k \in Nat /\ l \in Nat
      BY <2>2, <2>3, <2>4, <2>5, <2>6, <2>7, <2>1
  <2>9. D * k <= D * 1000
      BY <2>1, <2>8
  <2>10. k <= 1000
      BY <2>1, <2>8, <2>9
  <2> QED BY <1>5, <2>7, <2>10
<1> QED BY <1>6, <1>7

\* With two values, the sources for one are those against the other.
LEMMA TwoSides ==
    ASSUME NEW N \in Nat, NEW s \in Nat, s = 2, NEW c, c = Backers, Backed(c, N, s),
           NEW i \in 1..s, NEW j \in 1..s, i # j,
           NEW f, f = Fuse(Masses(i)), NEW g, g = Fuse(Masses(j))
    PROVE  f.of = g.of /\ f.true + f.unknown = g.of - g.true
<1>1. PICK a, b, d, e : a = OpenFor(c, i) /\ b = OpenAgainst(c, i) /\ d = OpenFor(c, j) /\ e = OpenAgainst(c, j)
    OBVIOUS
<1>2. \A k \in 1..N : a[k] = e[k] /\ b[k] = d[k]
  <2> SUFFICES ASSUME NEW k \in 1..N PROVE a[k] = e[k] /\ b[k] = d[k]
      OBVIOUS
  <2>1. PICK o, u : o = c[k].of /\ u = Open(c)[k]
      OBVIOUS
  <2>2. o \in 1..s /\ a[k] = (IF o = i THEN 100 ELSE u) /\ b[k] = (IF o = i THEN u ELSE 100)
    <3>1. c[k].of \in 1..s
        BY OpenTypes
    <3>2. FactorsOf(c, i, k)
        BY FactorsAre
    <3> QED BY <1>1, <2>1, <3>1, <3>2 DEF FactorsOf
  <2>3. d[k] = (IF o = j THEN 100 ELSE u) /\ e[k] = (IF o = j THEN u ELSE 100)
    <3>1. FactorsOf(c, j, k)
        BY FactorsAre
    <3> QED BY <1>1, <2>1, <3>1 DEF FactorsOf
  <2>4. o = i <=> o # j
      BY <2>2
  <2> QED BY <2>2, <2>3, <2>4
<1>3. Pr(a, N) = Pr(e, N) /\ Pr(b, N) = Pr(d, N)
    BY <1>2, PrSame
<1>4. PICK A, B, u, h : A = Pr(a, N) /\ B = Pr(b, N) /\ u = Pr(Open(c), N) /\ h = Whole[N]
    OBVIOUS
<1>5. N \in 0..N
    OBVIOUS
<1>6. A \in Nat /\ B \in Nat /\ u \in Nat /\ h \in Nat
    BY <1>1, <1>4, <1>5, OpenOrder, WholeFacts
<1>7. PICK x : x = h - (A - u) - (B - u) - u
    OBVIOUS
<1>8. x = h - (B - u) - (A - u) - u
    BY <1>6, <1>7
<1>9. /\ f.true = A - u
      /\ \/ Excessive(x, N) /\ f.unknown = u + x /\ f.of = h
         \/ ~Excessive(x, N) /\ f.unknown = u /\ f.of = h - x
  <2>1. FusedSide(c, N, i, f)
      BY FusedSideIs
  <2> QED BY <1>1, <1>4, <1>7, <2>1 DEF FusedSide
<1>10. /\ g.true = B - u
       /\ \/ Excessive(x, N) /\ g.unknown = u + x /\ g.of = h
          \/ ~Excessive(x, N) /\ g.unknown = u /\ g.of = h - x
  <2>1. FusedSide(c, N, j, g)
      BY FusedSideIs
  <2> QED BY <1>1, <1>3, <1>4, <1>8, <2>1 DEF FusedSide
<1>11. f.of = g.of /\ (f.of = h \/ f.of = h - x)
    BY <1>9, <1>10
<1>12. CASE Excessive(x, N)
  <2>1. f.true = A - u /\ f.unknown = u + x /\ g.of = h /\ g.true = B - u
      BY <1>9, <1>10, <1>12
  <2>2. (A - u) + (u + x) = h - (B - u)
      BY <1>6, <1>7
  <2> QED BY <1>11, <2>1, <2>2
<1>13. CASE ~Excessive(x, N)
  <2>1. f.true = A - u /\ f.unknown = u /\ g.of = h - x /\ g.true = B - u
      BY <1>9, <1>10, <1>13
  <2>2. (A - u) + u = (h - x) - (B - u)
      BY <1>6, <1>7
  <2> QED BY <1>11, <2>1, <2>2
<1> QED BY <1>12, <1>13, ExcessiveIs

\* Competing values share what there is to believe, whatever the sources.
LEMMA BeliefsCompeteAlways ==
    ASSUME NEW s \in Nat, sides \in [1..s -> CompetingSides]
    PROVE  BeliefsCompete
<1>1. PICK N \in Nat : Backed(Backers, N, s)
    BY BackersAre
<1>2. PICK c : c = Backers
    OBVIOUS
<1>3. Backed(c, N, s) /\ DOMAIN sides = 1..s /\ Len(sides) = s
    BY <1>1, <1>2
<1>4. SumFunction([i \in Rivals |-> IntervalOf(i).belief]) <= 1000
    BY <1>2, <1>3, BeliefsAddUp
<1>5. ASSUME NEW i \in Rivals, NEW j \in Rivals, i # j
      PROVE  LET f == Fuse(Masses(i))  g == Fuse(Masses(j)) IN
             /\ IntervalOf(i).belief <= IntervalOf(i).plausibility
             /\ Len(sides) = 2 => f.of = g.of /\ f.true + f.unknown = g.of - g.true
  <2>1. i \in 1..s /\ j \in 1..s
      BY <1>3 DEF Rivals
  <2>2. IntervalOf(i).belief <= IntervalOf(i).plausibility
    <3>1. PICK o \in 1..s : o = i
        BY <2>1
    <3>2. IntervalOf(o).belief <= IntervalOf(o).plausibility
        BY <1>2, <1>3, IntervalFacts
    <3> QED BY <3>1, <3>2
  <2>3. PICK f, g : f = Fuse(Masses(i)) /\ g = Fuse(Masses(j))
      OBVIOUS
  <2>4. ASSUME s = 2 PROVE f.of = g.of /\ f.true + f.unknown = g.of - g.true
    <3>1. Backed(c, N, s) /\ i \in 1..s /\ j \in 1..s /\ i # j
        BY <1>3, <1>5, <2>1
    <3> QED BY <1>2, <2>3, <2>4, <3>1, TwoSides
  <2> QED BY <1>3, <2>2, <2>3, <2>4
<1> QED BY <1>4, <1>5 DEF BeliefsCompete

\* A side that nothing is ahead of.
LEMMA TopSideIs ==
    ASSUME NEW s \in Nat, s # 0, DOMAIN sides = 1..s, \A i \in 1..s : IntervalOf(i).belief \in Nat
    PROVE  TopSide \in 1..s
<1> DEFINE P == {m \in Nat : 1 <= m /\ m <= s => \E i \in 1..m : \A j \in 1..m : Ahead(i, j)}
<1>1. 0 \in P
    OBVIOUS
<1>2. \A m \in Nat : m \in P => m + 1 \in P
  <2> SUFFICES ASSUME NEW m \in Nat, m \in P PROVE m + 1 \in P
      OBVIOUS
  <2> SUFFICES ASSUME m + 1 <= s PROVE \E i \in 1..(m + 1) : \A j \in 1..(m + 1) : Ahead(i, j)
      OBVIOUS
  <2>1. PICK n : n = m + 1 /\ n \in 1..n /\ n \in 1..s /\ 1..m \subseteq 1..n /\ \A j \in 1..n : j \in 1..m \/ j = n
      OBVIOUS
  <2>2. Ahead(n, n)
      BY <2>1 DEF Ahead
  <2>3. CASE m = 0
    <3>1. \A j \in 1..n : j = n
        BY <2>1, <2>3
    <3> QED BY <2>1, <2>2, <3>1
  <2>4. CASE m # 0
    <3>1. PICK i \in 1..m : \A j \in 1..m : Ahead(i, j)
        BY <2>4
    <3>2. IntervalOf(i).belief \in Nat /\ IntervalOf(n).belief \in Nat /\ i \in 1..s /\ i <= n /\ i \in 1..n
        BY <2>1
    <3>3. CASE IntervalOf(n).belief > IntervalOf(i).belief
      <4>1. ASSUME NEW j \in 1..m PROVE Ahead(n, j)
        <5>1. IntervalOf(j).belief \in Nat /\ Ahead(i, j)
            BY <3>1
        <5>2. IntervalOf(n).belief > IntervalOf(j).belief
            BY <3>2, <3>3, <5>1 DEF Ahead
        <5> QED BY <5>2 DEF Ahead
      <4> QED BY <2>1, <2>2, <4>1
    <3>4. CASE ~(IntervalOf(n).belief > IntervalOf(i).belief)
      <4>1. IntervalOf(i).belief > IntervalOf(n).belief \/ IntervalOf(i).belief = IntervalOf(n).belief
          BY <3>2, <3>4
      <4>2. Ahead(i, n)
          BY <3>2, <4>1 DEF Ahead
      <4> QED BY <2>1, <3>1, <3>2, <4>2
    <3> QED BY <3>3, <3>4
  <2> QED BY <2>3, <2>4
<1>3. s \in P
  <2> HIDE DEF P
  <2> QED BY <1>1, <1>2, NatSetInduction
<1>4. \E i \in 1..s : \A j \in 1..s : Ahead(i, j)
  <2>1. 1 <= s /\ s <= s
      OBVIOUS
  <2> QED BY <1>3, <2>1
<1>5. \E i \in Rivals : \A j \in Rivals : Ahead(i, j)
    BY <1>4 DEF Rivals
<1>6. TopSide \in Rivals
    BY <1>5 DEF TopSide
<1> QED BY <1>6 DEF Rivals

\* A near-certain source.
NearCertain(c, k) == c[k].weight >= 90

\* A near-certain source leaves at most a tenth of the mass open.
LEMMA CertainOpen ==
    ASSUME NEW N \in Nat, NEW s \in Nat, NEW c, Backed(c, N, s), NEW k \in 1..N, NearCertain(c, k)
    PROVE  Open(c)[k] \in 1..10
<1>1. Open(c)[k] \in 1..100
    BY OpenTypes
<1>2. PICK x, limit, r : x = c[k].weight /\ limit = MaxReliability /\ r = UpToLimit(limit, x)
    OBVIOUS
<1>3. x \in Nat /\ x >= 90
    BY <1>2 DEF Backed, NearCertain
<1>4. limit \in 0..99 /\ limit >= 90
    BY <1>2, BeliefAssumption, CertaintyAssumption
<1>5. r = IF x < limit THEN x ELSE limit
    BY <1>2 DEF UpToLimit
<1>6. r >= 90 /\ r \in Nat
    BY <1>3, <1>4, <1>5
<1>7. Open(c)[k] = 100 - r
  <2>1. DOMAIN c = 1..N
      BY DEF Backed
  <2> QED BY <1>2, <2>1 DEF Open
<1> QED BY <1>1, <1>6, <1>7

\* With a near-certain source for a side and one against it, conflict is above the threshold.
LEMMA CertainIsExcessive ==
    ASSUME NEW N \in Nat, NEW s \in Nat, NEW c, c = Backers, Backed(c, N, s), NEW i \in 1..s,
           NEW k \in 1..N, c[k].of = i, NearCertain(c, k), NEW l \in 1..N, c[l].of # i, NearCertain(c, l)
    PROVE  Fuse(Masses(i)).yager = TRUE
<1>1. PICK f, a, b, u, h, x : /\ f = Fuse(Masses(i)) /\ h = Whole[N] /\ x = h - (a - u) - (b - u) - u
                              /\ a = Pr(OpenFor(c, i), N) /\ b = Pr(OpenAgainst(c, i), N) /\ u = Pr(Open(c), N)
    OBVIOUS
<1>2. Open(c)[k] \in 1..10 /\ Open(c)[l] \in 1..10
    BY CertainOpen
<1>3. PICK v, w : v = OpenFor(c, i) /\ w = OpenAgainst(c, i)
    OBVIOUS
<1>4. \A m \in 1..N : v[m] \in 0..100 /\ w[m] \in 0..100
  <2> SUFFICES ASSUME NEW m \in 1..N PROVE v[m] \in 0..100 /\ w[m] \in 0..100
      OBVIOUS
  <2>1. PICK y : y = Open(c)[m]
      OBVIOUS
  <2>2. y \in 1..100 /\ v[m] = (IF c[m].of = i THEN 100 ELSE y) /\ w[m] = (IF c[m].of = i THEN y ELSE 100)
    <3>1. y \in 1..100
        BY <2>1, OpenTypes
    <3>2. FactorsOf(c, i, m)
        BY FactorsAre
    <3> QED BY <1>3, <2>1, <3>1, <3>2 DEF FactorsOf
  <2> QED BY <2>2
<1>5. w[k] <= 10 /\ v[l] <= 10
  <2>1. w[k] = Open(c)[k] /\ v[l] = Open(c)[l]
    <3>1. FactorsOf(c, i, k) /\ FactorsOf(c, i, l)
        BY FactorsAre
    <3> QED BY <1>3, <3>1 DEF FactorsOf
  <2>2. PICK y, z : y = Open(c)[k] /\ z = Open(c)[l]
      OBVIOUS
  <2>3. y <= 10 /\ z <= 10
      BY <1>2, <2>2
  <2> QED BY <2>1, <2>2, <2>3
<1>6. 10 * Pr(v, N) <= Whole[N]
    BY <1>4, <1>5, PrTenth
<1>7. 10 * Pr(w, N) <= Whole[N]
    BY <1>4, <1>5, PrTenth
<1>8. N \in 0..N
    OBVIOUS
<1>9. a \in Nat /\ b \in Nat /\ u \in Nat /\ u # 0 /\ h \in Nat
  <2>1. a \in Nat /\ b \in Nat /\ u \in Nat /\ u # 0
      BY <1>1, <1>8, OpenOrder
  <2>2. h \in Nat
      BY <1>1, WholeFacts
  <2> QED BY <2>1, <2>2
<1>10. 10 * a <= h /\ 10 * b <= h
    BY <1>1, <1>3, <1>6, <1>7
<1>11. x * 100 > 80 * h
  <2>1. x = h - (a - u) - (b - u) - u
      BY <1>1
  <2>2. x = (h - a) - (b - u)
      BY <1>9, <2>1
  <2>3. 10 * x = 10 * h - 10 * a - 10 * b + 10 * u
      BY <1>9, <2>2
  <2> QED BY <1>9, <1>10, <2>2, <2>3
<1>12. YagerThreshold * h <= 80 * h
  <2>1. PICK t : t = YagerThreshold
      OBVIOUS
  <2>2. t \in Nat /\ t <= 80
    <3>1. t \in 0..99
        BY <2>1, BeliefAssumption
    <3>2. t <= 80
        BY <2>1, CertaintyAssumption
    <3> QED BY <3>1, <3>2
  <2>3. t * h <= 80 * h
      BY <1>9, <2>2
  <2> QED BY <2>1, <2>3
<1>13. Excessive(x, N)
  <2>1. PICK t : t = YagerThreshold * h
      OBVIOUS
  <2>2. x * 100 > t
    <3>1. PICK y : y = YagerThreshold
        OBVIOUS
    <3>2. t \in Int
      <4>1. y \in 0..99
          BY <3>1, BeliefAssumption
      <4>2. t = y * h
          BY <2>1, <3>1
      <4> QED BY <1>9, <4>1, <4>2
    <3>3. t <= 80 * h
        BY <1>12, <2>1
    <3>4. x \in Int
        BY <1>1, <1>9
    <3> QED BY <1>9, <1>11, <3>2, <3>3, <3>4
  <2> QED BY <1>1, <2>1, <2>2 DEF Excessive
<1>14. FusedSide(c, N, i, f)
    BY <1>1, FusedSideIs
<1> QED BY <1>1, <1>13, <1>14 DEF FusedSide

\* A dispute between near-certain sources is a warning, whatever else is cited.
LEMMA CertainConflictWarnsAlways ==
    ASSUME NEW s \in Nat, sides \in [1..s -> CompetingSides]
    PROVE  CertainConflictWarns
<1> SUFFICES ASSUME Len(sides) > 1,
                    \A i \in Rivals : \E k \in DOMAIN Weights(sides[i]) : Weights(sides[i])[k] >= 90
             PROVE  Warns
    BY DEF CertainConflictWarns
<1>1. PICK N \in Nat :
         /\ Backed(Backers, N, s)
         /\ \A i \in 1..s : \A l \in 1..Len(Weights(sides[i])) :
               \E k \in 1..N : Backers[k].of = i /\ Backers[k].weight = Weights(sides[i])[l]
    BY BackersAre
<1>2. PICK c : c = Backers
    OBVIOUS
<1>3. Backed(c, N, s) /\ DOMAIN sides = 1..s /\ s > 1
    BY <1>1, <1>2
<1>4. ASSUME NEW i \in 1..s PROVE \E k \in 1..N : c[k].of = i /\ NearCertain(c, k)
  <2>1. PICK v : v = Weights(sides[i])
      OBVIOUS
  <2>2. PICK l \in DOMAIN v : v[l] >= 90
      BY <1>3, <2>1 DEF Rivals
  <2>3. v \in Seq(Nat)
      BY <2>1, WeightsType
  <2>4. l \in 1..Len(v)
      BY <2>2, <2>3
  <2>5. PICK k \in 1..N : c[k].of = i /\ c[k].weight = v[l]
      BY <1>1, <1>2, <2>1, <2>4
  <2>6. NearCertain(c, k)
      BY <2>2, <2>5 DEF NearCertain
  <2> QED BY <2>5, <2>6
<1>5. ASSUME NEW i \in 1..s PROVE IntervalOf(i).belief \in Nat
    BY <1>2, <1>3, IntervalFacts
<1>6. PICK i \in 1..s : i = TopSide
    BY <1>3, <1>5, TopSideIs
<1>7. PICK j \in 1..s : j # i
  <2>1. 1 \in 1..s /\ 2 \in 1..s
      BY <1>3
  <2>2. i # 1 \/ i # 2
      OBVIOUS
  <2> QED BY <2>1, <2>2
<1>8. PICK k \in 1..N : c[k].of = i /\ NearCertain(c, k)
    BY <1>4
<1>9. PICK l \in 1..N : c[l].of = j /\ NearCertain(c, l)
    BY <1>4
<1>10. Fuse(Masses(i)).yager = TRUE
  <2>1. c[l].of # i
      BY <1>7, <1>9
  <2>2. c = Backers /\ Backed(c, N, s) /\ c[k].of = i /\ NearCertain(c, k) /\ NearCertain(c, l)
      BY <1>2, <1>3, <1>8, <1>9
  <2> QED BY <2>1, <2>2, CertainIsExcessive
<1>11. IntervalOf(i).yager = Fuse(Masses(i)).yager
    BY DEF IntervalOf, Interval
<1>12. IntervalOf(TopSide).yager
    BY <1>6, <1>10, <1>11
<1> QED BY <1>12 DEF Warns

\* A dispute starts with sides that cite nothing, and citing keeps them sides.
LEMMA BeliefInvHolds ==
    /\ BeliefInit => BeliefInv
    /\ BeliefInv /\ [BeliefNext]_sides => BeliefInv'
<1>1. BeliefInit => BeliefInv
  <2> SUFFICES ASSUME BeliefInit PROVE BeliefInv
      OBVIOUS
  <2>1. PICK n \in 1..MaxSides : sides \in [1..n -> [confidence : OwnConfidences, cites : {<<>>}]]
      BY DEF BeliefInit
  <2>2. ASSUME NEW side \in [confidence : OwnConfidences, cites : {<<>>}] PROVE side \in CompetingSides
    <3>1. side = [confidence |-> side.confidence, cites |-> side.cites]
        OBVIOUS
    <3>2. side.confidence \in OwnConfidences /\ side.cites = <<>>
        OBVIOUS
    <3>3. side.cites \in Seq(CitedSources)
        BY <3>2
    <3> QED BY <3>1, <3>2, <3>3 DEF CompetingSides
  <2>3. sides \in [1..n -> CompetingSides]
      BY <2>1, <2>2
  <2> QED BY <2>3 DEF BeliefInv
<1>2. BeliefInv /\ [BeliefNext]_sides => BeliefInv'
  <2> SUFFICES ASSUME BeliefInv, [BeliefNext]_sides PROVE BeliefInv'
      OBVIOUS
  <2>1. PICK s \in 1..MaxSides : sides \in [1..s -> CompetingSides]
      BY DEF BeliefInv
  <2>2. CASE UNCHANGED sides
      BY <2>1, <2>2 DEF BeliefInv
  <2>3. CASE BeliefNext
    <3>1. PICK i \in 1..s, source \in CitedSources : sides' = [sides EXCEPT ![i].cites = Append(@, source)]
        BY <2>1, <2>3 DEF BeliefNext, CiteSource, Rivals
    <3>2. PICK side : side = sides[i]
        OBVIOUS
    <3>3. side \in CompetingSides /\ side.confidence \in OwnConfidences /\ side.cites \in Seq(CitedSources)
        BY <2>1, <3>2 DEF CompetingSides
    <3>4. Append(side.cites, source) \in Seq(CitedSources)
        BY <3>3
    <3>5. [side EXCEPT !.cites = Append(side.cites, source)] \in CompetingSides
        BY <3>3, <3>4 DEF CompetingSides
    <3>6. sides' = [sides EXCEPT ![i] = [side EXCEPT !.cites = Append(side.cites, source)]]
        BY <3>1, <3>2
    <3>7. sides' \in [1..s -> CompetingSides]
        BY <2>1, <3>5, <3>6
    <3> QED BY <3>7 DEF BeliefInv
  <2> QED BY <2>2, <2>3
<1> QED BY <1>1, <1>2

\* The interval that accompanies a disputed value is the joint combination of its sources,
\* competing values share one certainty, and certain conflict warns, for every number of sides,
\* sources and reliabilities (belief.py:78).
THEOREM BeliefsAreExactCorrect == BeliefSpec => []BeliefsAreExact
<1>1. BeliefInv => BeliefsAreExact
  <2> SUFFICES ASSUME BeliefInv PROVE BeliefsAreExact
      OBVIOUS
  <2>1. PICK s \in 1..MaxSides : sides \in [1..s -> CompetingSides]
      BY DEF BeliefInv
  <2>2. s \in Nat
      OBVIOUS
  <2>3. FusionIsJoint /\ BeliefsCompete /\ CertainConflictWarns
      BY <2>1, <2>2, FusionIsJointAlways, BeliefsCompeteAlways, CertainConflictWarnsAlways
  <2> QED BY <2>3 DEF BeliefsAreExact
<1> QED BY <1>1, BeliefInvHolds, PTL DEF BeliefSpec

=============================================================================
