----------------------------- MODULE Candidates -----------------------------
(***************************************************************************)
(* What a run makes of its pages: supplier candidates and their consolidation  *)
(* (extraction/dedupe.py), the buyer's requirements (requirements.py), the      *)
(* ranking (ranking/), and the verification of the claims a candidate rests on  *)
(* against the pages of the run (evidence/verifier.py, verification/).          *)
(*                                                                          *)
(* A page is what its text says: the endpoint or the price it shows, and how it *)
(* relates it to a supplier.  Names, identity keys and sentences are abstracted *)
(* to that.  A row is one supplier with one offering; a reference is the page   *)
(* it leads to, and two fetches of a page are one.                             *)
(***************************************************************************)
EXTENDS Integers, FiniteSets, Sequences, SequencesExt

CONSTANTS
    PagesOfRun, Rows,
    Requirements,      \* the buyer's requirements
    RequirementKind,   \* of each, "mandatory", "preferred" or "exclusion"
    Says,              \* what each page says, see PageType
    Memory,            \* the source of a recalled value, no page
    Nothing,           \* no value
    OnRequest,         \* prices that are a status: a quote is required, ask for one
    Phones,            \* channels that are nothing but a number
    RecalledTier,      \* of each row, the best tier of the sources a recall was promoted from
    Enough,            \* evidence_completeness_threshold, in twelfths
    Corroborating,     \* CORROBORATION_UPGRADE
    EmissionScore      \* the calibrated threshold of the emission gate, 0 if none

Modes == {"product", "service", "contact"}

\* row: the supplier the page is about; gated: a directory or a listing;
\* channel, price, quantity: what it shows (for a service the price stands for its
\* pricing status); how: whether the sentence with the value names the row
\* ("together", or "weakly" to a learned scorer), does not ("apart"), denies the
\* value ("negated") or the row is given another number ("other"); own: it lies on
\* the site the buyer confirmed as the row's; signs: what it asserts of each
\* requirement; model: its text was written by a model; tier: what its claims grade at;
\* name: the length of the name it gives the row; minor: what is found of the claims
\* that are not critical, the name and the minimum order, of a candidate it begins.
PageType == [row : Rows, gated : BOOLEAN, channel : Nat \cup {Nothing}, price : Nat \cup {Nothing},
             quantity : Nat \cup {Nothing}, how : {"together", "weakly", "apart", "negated", "other"},
             matched : BOOLEAN, fit : Nat, own : BOOLEAN,
             signs : [Requirements -> {"supported", "contradicted", "silent"}],
             model : BOOLEAN, tier : 1..4, host : Nat, name : Nat,
             minor : {"grounded", "ungrounded", "contradicted"}]

ASSUME CandidatesAssumption ==
    /\ Memory \notin PagesOfRun /\ Nothing \notin PagesOfRun
    /\ Says \in [PagesOfRun -> PageType]
    /\ RequirementKind \in [Requirements -> {"mandatory", "preferred", "exclusion"}]
    /\ OnRequest \subseteq Nat /\ Phones \subseteq Nat /\ RecalledTier \in [Rows -> 1..4]
    /\ Enough \in 0..12 /\ EmissionScore \in 0..2 /\ Corroborating \in Nat

Low(a, b) == IF a < b THEN a ELSE b
High(a, b) == IF a < b THEN b ELSE a
Lowest(numbers) == CHOOSE n \in numbers : \A m \in numbers : n =< m

\* Tuples of numbers, the first first.
Above(a, b) == \E i \in DOMAIN a : a[i] > b[i] /\ \A j \in 1..(i - 1) : a[j] = b[j]

\* The elements of s at the positions `at', in their order: SelectSeq, of positions.
Picked(s, at) ==
    LET upTo[n \in 0..Len(s)] ==
            IF n = 0 THEN << >>
            ELSE IF n \in at THEN Append(upTo[n - 1], s[n]) ELSE upTo[n - 1]
    IN upTo[Len(s)]

-----------------------------------------------------------------------------
(* Building and consolidating                                               *)

\* An offer is one observation of a price under its conditions.
Offer(p) == [price |-> Says[p].price, quantity |-> Says[p].quantity]

\* _PRICED_STATUSES
Priced(price) == price \notin OnRequest \cup {Nothing}

\* The mail address the page shows is of the page's own site.
DomainMatch(p) == Says[p].own /\ Says[p].channel # Nothing

\* How complete the evidence is, in twelfths.
Backed(mode, offer, endpoints, matched) ==
    CASE mode = "product" -> IF offer.price # Nothing THEN 12 ELSE 8
      [] mode = "service" -> 4 + (IF matched THEN 4 ELSE 0) + (IF endpoints # {} THEN 4 ELSE 0)
      [] mode = "contact" -> IF endpoints # {} THEN 12 ELSE 6

\* The endpoint the page shows: a service's quote channel or a contact.
Endpoints(mode, p) ==
    IF mode = "product" \/ Says[p].channel = Nothing THEN {}
    ELSE {[value |-> Says[p].channel, source |-> p]}

\* How complete one page makes it: a status in place of a price backs nothing yet.
FirstBacked(mode, p) ==
    IF mode = "product" /\ ~Priced(Says[p].price) THEN 8
    ELSE Backed(mode, Offer(p), Endpoints(mode, p), Says[p].matched)

\* _build_candidate of a page that is not gated.
Candidate(mode, p) ==
    [row |-> Says[p].row, refs |-> <<p>>, offers |-> {Offer(p)}, offer |-> Offer(p),
     endpoints |-> Endpoints(mode, p), matched |-> Says[p].matched, fit |-> Says[p].fit,
     domain |-> DomainMatch(p), conflict |-> FALSE,
     complete |-> FirstBacked(mode, p)]

\* _scope_relation: whether two observations are of the same conditions, of which the
\* currency is one that only a price has.
SameConditions(a, b) == a.quantity = b.quantity /\ (Priced(a.price) <=> Priced(b.price))

\* Observations under the same conditions that give different prices, or different
\* reasons why there is none; that it was not found is one.
Contradictory(offers) == \E a, b \in offers : SameConditions(a, b) /\ a.price # b.price

\* _offer_richness, with the order of the offers' texts between equals.
Richer(a, b) ==
    LET dims(o) == (IF Priced(o.price) THEN 10 ELSE 0) + (IF o.quantity # Nothing THEN 1 ELSE 0)
    IN \/ dims(a) > dims(b)
       \/ dims(a) = dims(b) /\ Nothing \notin {a.price, b.price} /\ a.price < b.price

\* Mutant: of the offers only the chosen one and the new one are compared.
DisagreeChosen(mode, selected, incoming) ==
    \/ mode = "product" /\ Contradictory({selected.offer, incoming.offer})
    \/ mode = "service" /\ selected.offer.price # incoming.offer.price
    \/ mode = "contact" /\ selected.domain # incoming.domain

\* The fields of two observations of a row that cannot both hold.
Disagree(mode, selected, incoming) ==
    \/ mode = "product" /\ Contradictory(selected.offers \cup incoming.offers)
    \/ mode = "service" /\ selected.offer.price # incoming.offer.price
    \/ mode = "contact" /\ selected.domain # incoming.domain

\* _merge_contacts; a service keeps the channel it has.
Joined(mode, selected, incoming) ==
    IF mode = "service" /\ selected # {} THEN selected
    ELSE selected \cup {e \in incoming : \A s \in selected : s.value # e.value}

\* _consolidate: the incoming candidate is merged into the selected one.
Consolidated(mode, selected, incoming) ==
    LET offer == IF mode = "product" /\ Richer(incoming.offer, selected.offer)
                 THEN incoming.offer ELSE selected.offer
        endpoints == Joined(mode, selected.endpoints, incoming.endpoints)
        matched == selected.matched \/ incoming.matched
        fresh == {i \in DOMAIN incoming.refs : incoming.refs[i] \notin ToSet(selected.refs)}
    IN [selected EXCEPT
          !.refs = @ \o Picked(incoming.refs, fresh),
          !.offers = @ \cup incoming.offers, !.offer = offer,
          !.endpoints = endpoints, !.matched = matched, !.fit = High(@, incoming.fit),
          !.conflict = @ \/ incoming.conflict \/ Disagree(mode, selected, incoming),
          !.complete = Backed(mode, offer, endpoints, matched)]

\* The values of a page that get an evidence row of their own.
Recorded(mode, p) ==
    {field \in {"price", "channel", "match"} :
        /\ p # Memory
        /\ CASE field = "price" -> mode = "product" /\ Says[p].price # Nothing
             [] field = "channel" -> mode # "product" /\ Says[p].channel # Nothing
             [] field = "match" -> mode = "service" /\ Says[p].matched}

\* _richness, and whose name is longer: the references, then the fields that are filled.
Fuller(mode, a, b) ==
    LET refs(c) == Len(c.refs) + Cardinality(UNION {{p} \X Recorded(mode, p) : p \in ToSet(c.refs)})
        offered(o) == (IF Priced(o.price) THEN 2 ELSE IF o.price # Nothing THEN 1 ELSE 0)
                        + (IF o.quantity # Nothing THEN 1 ELSE 0)
        filled(c) == CASE mode = "product" -> offered(c.offer)
                       [] mode = "service" -> (IF c.endpoints # {} THEN 1 ELSE 0) + (IF c.matched THEN 1 ELSE 0)
                       [] mode = "contact" -> IF c.endpoints # {} THEN 1 ELSE 0
        name(c) == Says[Head(c.refs)].name
        key(c) == <<refs(c), filled(c), name(c)>>
    IN Above(key(a), key(b))

\* A candidate joins the first one of its row.
Join(mode, found, c) ==
    LET same == {i \in DOMAIN found : found[i].row = c.row}
        i == Lowest(same)
    IN IF same = {} THEN Append(found, c)
       ELSE [found EXCEPT ![i] = IF Fuller(mode, c, @) THEN Consolidated(mode, c, @)
                                 ELSE Consolidated(mode, @, c)]

\* dedupe_candidates: one after the other.
Deduped(mode, candidates) ==
    LET found[n \in 0..Len(candidates)] ==
            IF n = 0 THEN << >> ELSE Join(mode, found[n - 1], candidates[n])
    IN found[Len(candidates)]

\* _apply_memory_recalls: a service without a channel gets the one that is
\* recalled for its row, with the recall as its evidence.
Recall(mode, recalled, c) ==
    IF mode = "service" /\ c.endpoints = {} /\ recalled[c.row] # Nothing
    THEN [c EXCEPT !.endpoints = {[value |-> recalled[c.row], source |-> Memory]},
                   !.refs = Append(@, Memory), !.complete = High(@, 9)]
    ELSE c

\* _apply_consolidation_safety: the completeness of a conflicted candidate is capped.
Safe(c) == IF c.conflict THEN [c EXCEPT !.complete = Low(@, 6)] ELSE c

-----------------------------------------------------------------------------
(* Requirements                                                             *)

\* assess_requirements: what the row's own confirmed pages say, if they agree.
Signs(c, r) ==
    {Says[p].signs[r] : p \in {q \in ToSet(c.refs) \ {Memory} : Says[q].own}} \ {"silent"}

Status(c, r) == IF Cardinality(Signs(c, r)) = 1 THEN CHOOSE s \in Signs(c, r) : TRUE ELSE "not_found"

Required == {r \in Requirements : RequirementKind[r] # "preferred"}

Satisfied(c, r) ==
    Status(c, r) = (IF RequirementKind[r] = "exclusion" THEN "contradicted" ELSE "supported")

\* qualification
Qualification(c, confirmed) ==
    CASE \E r \in Required : Status(c, r) # "not_found" /\ ~Satisfied(c, r) -> "not_qualified"
      [] confirmed /\ Required # {} /\ (\A r \in Required : Satisfied(c, r)) -> "qualified"
      [] OTHER -> "unresolved"

\* _requirements_block
Blocked(c, confirmed) ==
    \/ Qualification(c, confirmed) = "not_qualified"
    \/ confirmed /\ Qualification(c, confirmed) # "qualified"

-----------------------------------------------------------------------------
(* Ranking and validity                                                     *)

\* ProductRanker, ContactRanker and ServiceRanker, in sixtieths of their scales.
Score(mode, c) ==
    CASE mode = "product" -> (IF Priced(c.offer.price) THEN 90
                               ELSE IF c.offer.price # Nothing THEN 18 ELSE 0) + c.fit + 5 * c.complete
      [] mode = "contact" -> (IF c.domain THEN 30 ELSE 0) + c.fit + 6 * c.complete
      [] mode = "service" -> c.fit + (IF c.endpoints # {} THEN 75 ELSE 0) + 5 * c.complete
                               - (IF c.conflict THEN 60 ELSE 0)

\* The weight of a candidate's qualification.
Standing(confirmed, c) ==
    CASE Qualification(c, confirmed) = "qualified" -> 2
      [] Qualification(c, confirmed) = "unresolved" -> 1
      [] OTHER -> 0

\* A service ranks by its standing, the requirements it satisfies and its fit first.
Keys(mode, confirmed, c) ==
    IF mode # "service" THEN <<Score(mode, c)>>
    ELSE <<Standing(confirmed, c), Cardinality({r \in Required : Satisfied(c, r)}), c.fit, Score(mode, c)>>

\* The positions of those that a candidate is above.
Lower(mode, confirmed, sorted, c) ==
    {i \in DOMAIN sorted : Above(Keys(mode, confirmed, c), Keys(mode, confirmed, sorted[i]))}

\* A candidate takes its place before the first that it is above.
Place(mode, confirmed, sorted, c) ==
    InsertAt(sorted, Lowest(Lower(mode, confirmed, sorted, c) \cup {Len(sorted) + 1}), c)

\* rank: a stable sort; a contact ranks only if it has one.
Ranked(mode, confirmed, candidates) ==
    LET ranks(c) == mode = "contact" => c.endpoints # {}
        sorted[n \in 0..Len(candidates)] ==
            IF n = 0 THEN << >>
            ELSE IF ranks(candidates[n]) THEN Place(mode, confirmed, sorted[n - 1], candidates[n])
            ELSE sorted[n - 1]
    IN sorted[Len(candidates)]

\* _is_validated
Validated(mode, confirmed, c) ==
    /\ c.refs # << >> /\ ~c.conflict /\ ~Blocked(c, confirmed) /\ c.complete >= Enough
    /\ CASE mode = "product" -> Priced(c.offer.price)
         [] mode = "service" -> c.endpoints # {} /\ c.matched
         [] mode = "contact" -> c.endpoints # {}

-----------------------------------------------------------------------------
(* Verification                                                             *)

Shown(mode, p) == IF mode = "product" THEN Says[p].price ELSE Says[p].channel

\* decompose, _ref_for_claim: the critical claims of a candidate.  A price cites
\* the first of its pages that shows one or its status, an endpoint the page it was found on.
Claims(mode, c) ==
    IF mode # "product" THEN c.endpoints
    ELSE LET priced == {i \in DOMAIN c.refs : c.refs[i] # Memory /\ Says[c.refs[i]].price # Nothing}
         IN IF priced = {} \/ ~Priced(c.offer.price) THEN {} ELSE {[value |-> c.offer.price, source |-> c.refs[Lowest(priced)]]}

\* _model_written: text that a model wrote is no evidence.
Genuine(p) == ~Says[p].model

\* _relation_grounded: a sentence of the page has the value and names the row.
Located(mode, p, row, value) ==
    Says[p].row = row /\ Shown(mode, p) = value /\ Says[p].how \in {"together", "weakly", "negated"}

\* _hard_rejection: every such sentence denies the value or limits it.
HardlyRejected(p) == Says[p].how = "negated"

\* _apply_model: a learned scorer may think less of it.
Learned(p) == IF Says[p].how = "weakly" THEN 1 ELSE 2

\* MiniCheck.check: how strongly page p supports that the row has the value.
Support(mode, p, row, value) ==
    IF Located(mode, p, row, value) /\ ~HardlyRejected(p) THEN Learned(p) ELSE 0

\* Mutant: text that a model wrote is checked like a page.
CitedAny(mode, row, claim) ==
    IF claim.source = Memory THEN 0 ELSE Support(mode, claim.source, row, claim.value)

\* _premise_from_ref: a claim is checked on the page it cites, if there is one.
Cited(mode, row, claim) ==
    IF claim.source = Memory \/ ~Genuine(claim.source) THEN 0
    ELSE Support(mode, claim.source, row, claim.value)

\* _corpus_entries: the other pages of the run that support a claim.
Others(mode, row, claim, ledger) ==
    {i \in DOMAIN ledger : Genuine(ledger[i]) /\ ledger[i] # claim.source
                             /\ Support(mode, ledger[i], row, claim.value) > 0}

\* SafeReverifier.reverify: the first with the best support.
Best(mode, row, claim, ledger) ==
    LET support(i) == Support(mode, ledger[i], row, claim.value)
        others == Others(mode, row, claim, ledger)
    IN ledger[Lowest({i \in others : \A j \in others : support(j) =< support(i)})]

\* Only a number can be contradicted by another one.
Numeric(mode, value) == mode = "product" \/ value \in Phones

\* detect_numeric_contradiction: the cited page gives the row another number.
ContradictedBy(mode, row, claim) ==
    /\ Numeric(mode, claim.value) /\ claim.source # Memory /\ Genuine(claim.source)
    /\ Says[claim.source].row = row
    /\ \/ Says[claim.source].how = "other"
       \/ Shown(mode, claim.source) # claim.value /\ Says[claim.source].how # "apart"

\* grade_claim
Graded(mode, row, claim, ledger, label) ==
    LET tier == IF claim.source = Memory THEN RecalledTier[row] ELSE Says[claim.source].tier
        hosts == {Says[ledger[i]].host : i \in Others(mode, row, claim, ledger)}
    IN CASE label = "complementary" -> High(1, tier - 1)
         [] label = "grounded" ->
              LET own == Says[claim.source].host
              IN IF Cardinality(hosts \cup {own}) >= Corroborating THEN Low(4, tier + 1) ELSE tier
         [] OTHER -> High(1, tier - 2)

\* classify_grounding
Label(mode, row, claim, ledger) ==
    CASE Cited(mode, row, claim) > 0 -> "grounded"
      [] Cited(mode, row, claim) = 0 /\ Others(mode, row, claim, ledger) # {} -> "complementary"
      [] OTHER -> IF ContradictedBy(mode, row, claim) THEN "contradicted" ELSE "ungrounded"

\* What is kept of a claim that got a label: its grade, and the other page that bears
\* it out, whose support then counts.
LabelledVerdict(mode, row, claim, ledger, label) ==
    LET page == IF label = "complementary" THEN Best(mode, row, claim, ledger) ELSE Nothing
    IN [label |-> label, grade |-> Graded(mode, row, claim, ledger, label), page |-> page,
        score |-> IF label = "complementary" THEN Support(mode, page, row, claim.value)
                  ELSE Cited(mode, row, claim)]

\* _verify_claim
ClaimVerdict(mode, row, claim, ledger) ==
    LabelledVerdict(mode, row, claim, ledger, Label(mode, row, claim, ledger))

\* What the verdicts on its claims make of a candidate: it holds if it has critical
\* claims and all of them do; the minor ones count for what is to be done next.
Overall(each, minor) ==
    LET holding == {v \in each : v.score > 0}
        labels == {v.label : v \in each} \cup {minor}
    IN [verified |-> each # {} /\ holding = each,
        score |-> IF each = {} THEN 0 ELSE Lowest({v.score : v \in each}),
        decision |-> IF each = {} \/ "contradicted" \in labels THEN "replan"
                     ELSE IF labels \subseteq {"grounded"} THEN "proceed" ELSE "regenerate",
        grade |-> IF holding = {} THEN 1 ELSE Lowest({v.grade : v \in holding}),
        pages |-> {v.page : v \in each} \ {Nothing}]

\* verify_candidate
Verdict(mode, c, ledger) ==
    Overall({ClaimVerdict(mode, c.row, claim, ledger) : claim \in Claims(mode, c)},
            Says[Head(c.refs)].minor)

\* Mutant: the citation is left where it was.
RepointedNot(c, verdict) == c

\* _repoint_citations: the pages that bore the claims out are cited as well.
Repointed(c, verdict) ==
    [c EXCEPT !.refs = @ \o SetToSeq(verdict.pages \ ToSet(@))]

\* SelectiveRiskGate.decide
Emits(verdict) == verdict.score >= EmissionScore

\* offer_scope_status "unresolved": none gives another condition than the others, and
\* some lack one.
ScopeUnresolved(mode, c) ==
    /\ mode = "product" /\ \E a, b \in c.offers : ~SameConditions(a, b)
    /\ \A a, b \in c.offers : Nothing \in {a.quantity, b.quantity} \/ a.quantity = b.quantity

\* candidate_readiness: how far the research of an output row got.
Readiness(mode, c, confirmed, verdict, disputed, floor) ==
    IF ~verdict.verified \/ verdict.decision # "proceed" \/ disputed \/ c.conflict
         \/ Qualification(c, confirmed) # "qualified"
    THEN "discovered"
    ELSE IF c.complete < 12 \/ ScopeUnresolved(mode, c) \/ verdict.grade < floor THEN "evidence_checked" ELSE "review_ready"

=============================================================================
