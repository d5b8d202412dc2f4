--------------------------- MODULE FactOperations ---------------------------
(***************************************************************************)
(* What one transaction does to the facts of semantic.json: the operations  *)
(* of spider_qwen/memory/semantic.py and memory/revalidation.py as functions *)
(* from the facts before to the facts after.                                *)
(*                                                                          *)
(* The facts of one owner are a partial function of their key: a fact's id   *)
(* and key never change, no fact is deleted, and upsert adds none for a key  *)
(* that has one.  A fact's disputed_alternatives are a set of sides, of which *)
(* none repeats a value; their order only matters to how they print.         *)
(* Confidences are in tenths.  Evidence references, and their lists, are sets *)
(* of ledger rows, for _merge_refs joins them by ledger_id.                  *)
(***************************************************************************)
EXTENDS Integers, Sequences

CONSTANTS
    Keys,        \* SemanticFact.key(): supplier and field
    Values,      \* spellings of a value
    Form,        \* the normal form of each spelling, _norm_value
    StaleDays    \* DEFAULT_STALE_DAYS

ASSUME FactOperationsAssumption == DOMAIN Form = Values /\ StaleDays \in Nat \ {0}

NoFacts == <<>>     \* the empty partial function
Statuses == {"active", "stale", "disputed"}
Margin == 1         \* how much surer a revalidation must be to overwrite: 0.1

Larger(a, b) == IF a >= b THEN a ELSE b

\* The two values genuinely differ.
Contradicts(v, w) == Form[v] # Form[w]

\* Two rows of one host are one source.
ShouldPromote(hosts, conf, domainMatch) ==
    \/ \E g, h \in hosts : g # h
    \/ hosts # {} /\ conf >= 8 /\ domainMatch

IsStale(f, day) == day - f.verified >= StaleDays

Side(v, c, r) == [value |-> v, conf |-> c, refs |-> r]
Primary(f) == Side(f.value, f.conf, f.refs)

NewFact(op) ==
    [value |-> op.value, conf |-> op.conf, refs |-> op.refs, verified |-> op.day,
     status |-> "active", alts |-> {}, reinforced |-> 0, cited |-> 0]

\* Mutant: agreement with a disputed fact settles the dispute.
ReinforcedActive(f, op) ==
    [f EXCEPT !.conf = Larger(@, op.conf), !.verified = op.day, !.reinforced = @ + 1,
              !.status = "active", !.refs = @ \cup op.refs]

\* Mutant: the new reference replaces those the fact had.
ReinforcedAfresh(f, op) ==
    [f EXCEPT !.conf = Larger(@, op.conf), !.verified = op.day, !.reinforced = @ + 1,
              !.status = IF @ = "disputed" THEN @ ELSE "active", !.refs = op.refs]

Reinforced(f, op) ==
    [f EXCEPT !.conf = Larger(@, op.conf), !.verified = op.day, !.reinforced = @ + 1,
              !.status = IF @ = "disputed" THEN @ ELSE "active", !.refs = @ \cup op.refs]

\* One more side: joined with the one that has its exact spelling, if any.
WithSide(sides, s) ==
    IF \E t \in sides : t.value = s.value
    THEN LET t == CHOOSE t \in sides : t.value = s.value
         IN  (sides \ {t}) \cup {Side(t.value, Larger(t.conf, s.conf), t.refs \cup s.refs)}
    ELSE sides \cup {s}

Sides(f, op) == WithSide(WithSide(f.alts, Primary(f)), Side(op.value, op.conf, op.refs))

\* The surest side; the sort is stable and the fact's own value comes first.
Surest(sides, value) ==
    LET best == {s \in sides : \A t \in sides : t.conf =< s.conf}
    IN  IF \E s \in best : s.value = value
        THEN CHOOSE s \in best : s.value = value
        ELSE CHOOSE s \in best : TRUE

\* Mutant: the value that was there first stays.
DisputedFirst(f, op) ==
    LET sides == Sides(f, op)
        side == CHOOSE s \in sides : s.value = f.value
    IN  [f EXCEPT !.status = "disputed", !.verified = op.day, !.value = side.value,
                  !.conf = side.conf, !.refs = side.refs, !.alts = sides \ {side}]

\* _record_dispute
Disputed(f, op) ==
    LET sides == Sides(f, op)
        side == Surest(sides, f.value)
    IN  [f EXCEPT !.status = "disputed", !.verified = op.day, !.value = side.value,
                  !.conf = side.conf, !.refs = side.refs, !.alts = sides \ {side}]

\* The mutation of Revalidator.refresh(); op.seen tells whether a value was
\* observed at all.
Refreshed(f, op) ==
    LET fresh == op.refs \ f.refs
        agrees == [f EXCEPT !.conf = Larger(@, op.conf), !.verified = op.day,
                            !.status = "active", !.refs = @ \cup fresh]
        overwritten == [f EXCEPT !.value = op.value, !.conf = op.conf, !.refs = fresh,
                                 !.verified = op.day, !.status = "active"]
    IN  CASE ~op.seen \/ op.refs = {} -> [f EXCEPT !.status = "stale"]
          [] op.seen /\ op.refs # {} /\ fresh = {} ->
                IF op.value # f.value THEN [f EXCEPT !.status = "disputed"] ELSE f
          [] op.seen /\ fresh # {} /\ op.value = f.value -> agrees
          [] op.seen /\ fresh # {} /\ op.value # f.value ->
                IF op.conf > f.conf + Margin THEN overwritten
                ELSE [f EXCEPT !.status = "disputed"]

-----------------------------------------------------------------------------
(* The operations: kind, key, and what the kind needs                       *)

Put(facts, k, f) == [j \in DOMAIN facts \cup {k} |-> IF j = k THEN f ELSE facts[j]]

Upserted(facts, op) ==
    Put(facts, op.key,
        IF op.key \notin DOMAIN facts THEN NewFact(op)
        ELSE IF Contradicts(facts[op.key].value, op.value) THEN Disputed(facts[op.key], op)
        ELSE Reinforced(facts[op.key], op))

Maintained(facts, op) ==
    [k \in DOMAIN facts |->
        IF facts[k].status = "active" /\ IsStale(facts[k], op.day)
        THEN [facts[k] EXCEPT !.status = "stale"] ELSE facts[k]]

Cited(facts, op) ==
    IF op.key \in DOMAIN facts THEN [facts EXCEPT ![op.key].cited = @ + 1] ELSE facts

Revalidated(facts, op) ==
    IF op.key \in DOMAIN facts
    THEN [facts EXCEPT ![op.key] = Refreshed(facts[op.key], op)] ELSE facts

Applied(facts, op) ==
    CASE op.kind = "upsert"     -> Upserted(facts, op)
      [] op.kind = "maintain"   -> Maintained(facts, op)
      [] op.kind = "cite"       -> Cited(facts, op)
      [] op.kind = "revalidate" -> Revalidated(facts, op)

\* Every reference of a fact, those of its alternatives included.
RefsOf(f) == f.refs \cup UNION {s.refs : s \in f.alts}

=============================================================================
