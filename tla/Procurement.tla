---------------------------- MODULE Procurement ----------------------------
(***************************************************************************)
(* One procurement run, Controller.run of agent/controller.py, from the gather  *)
(* to the result: consolidation, requirements, ranking, one broadened gather,    *)
(* verification with a reserve, one replan, RFQ drafts and what is withheld.     *)
(*                                                                          *)
(* How pages are found is the Gather module's; here a round of search and fetch  *)
(* yields some pages in some order.  Searches and time run out at any point.     *)
(***************************************************************************)
EXTENDS Candidates, FiniteSetsExt

CONSTANTS
    Requests,       \* the runs: see RequestType
    MaxExtract,     \* max_candidates_to_extract
    MaxPages,       \* bound: pages a later round fetches
    MinValidated, MaxValidated,
    GradeFloor      \* rfq_grade_floor, 1 to 4

\* confirmed: the buyer confirmed the requirements; verify: claim verification is
\* on; store: there is a review store; review: drafts must be reviewed; recalled:
\* the channel that memory has for each row; disputed: rows with a disputed fact.
RequestType == [mode : Modes, confirmed : BOOLEAN, verify : BOOLEAN, store : BOOLEAN,
                review : BOOLEAN, recalled : [Rows -> Nat \cup {Nothing}], disputed : SUBSET Rows]

ASSUME ProcurementAssumption ==
    /\ \A r \in Requests : r \in RequestType
    /\ MaxExtract \in Nat \ {0} /\ MaxPages \in Nat
    /\ MinValidated \in Nat \ {0} /\ MaxValidated \in Nat /\ MinValidated =< MaxValidated
    /\ GradeFloor \in 1..4

VARIABLES
    request,
    step,           \* "gather", "judge", "verified", "replan", "drafted" or "done"
    ledger,         \* the pages fetched, in order
    extracted,      \* tracker.candidates_extracted
    read,           \* the pages that became candidates
    candidates,     \* the consolidated candidates
    qualified,      \* those that are valid, ranked
    broadened, replanned,
    output,         \* validated
    verdicts,       \* per row, the verification of a row that was checked
    released, held, \* rows whose RFQ draft is in the result, or in the review store
    withheld, surface, ready

pvars == <<request, step, ledger, extracted, read, candidates, qualified, broadened, replanned,
           output, verdicts, released, held, withheld, surface, ready>>

RowsOf(list) == {list[i].row : i \in DOMAIN list}

ProcurementInit ==
    /\ request \in Requests /\ step = "gather"
    /\ ledger = << >> /\ extracted = 0 /\ read = {}
    /\ candidates = << >> /\ qualified = << >> /\ output = << >> /\ verdicts = << >>
    /\ broadened = FALSE /\ replanned = FALSE
    /\ released = {} /\ held = {} /\ withheld = {} /\ surface = {} /\ ready = {}

-----------------------------------------------------------------------------
(* Acquisition and consolidation                                            *)

\* What a round of search and fetch yields.
Fetches(most) == UNION {SetToSeqs(pages) : pages \in UNION {kSubset(k, PagesOfRun) : k \in 0..most}}

\* _fetch_and_extract: pages become candidates while the extraction budget lasts.
Extracted(pages) == SubSeq(pages, 1, Low(Len(pages), MaxExtract - extracted))

\* dedupe_candidates, _apply_memory_recalls and _apply_consolidation_safety.
Prepared(list) ==
    LET one(c) == Safe(Recall(request.mode, request.recalled, c))
        merged == Deduped(request.mode, list)
    IN [i \in DOMAIN merged |-> one(merged[i])]

\* Those of a ranked list that are valid.
Valid(ranked) ==
    Picked(ranked, {i \in DOMAIN ranked : Validated(request.mode, request.confirmed, ranked[i])})

\* rank, then _is_validated.
Qualified(list) == Valid(Ranked(request.mode, request.confirmed, list))

\* Mutant: the candidates of the new pages are not consolidated with the others.
ConsolidatedApart(list, more) == list \o Prepared(more)

\* The candidates of the rounds before, with those of the new pages.
ConsolidatedWith(list, more) == Prepared(list \o more)

Acquire(pages) ==
    LET tried == Extracted(pages)
        taken == Picked(tried, {i \in DOMAIN tried : ~Says[tried[i]].gated})
        more == [i \in DOMAIN taken |-> Candidate(request.mode, taken[i])]
    IN /\ ledger' = ledger \o pages
       /\ extracted' = extracted + Len(tried)
       /\ read' = read \cup ToSet(taken)
       /\ candidates' = ConsolidatedWith(candidates, more)
       /\ qualified' = Qualified(candidates')

Gather ==
    /\ step = "gather" /\ step' = "judge"
    /\ \E pages \in Fetches(MaxExtract) : Acquire(pages)
    /\ UNCHANGED <<request, broadened, replanned, output, verdicts, released, held, withheld,
                   surface, ready>>

\* One corrective or global gather if too few are valid.
Broaden ==
    /\ step = "judge" /\ ~broadened /\ broadened' = TRUE
    /\ Len(qualified) < MinValidated /\ extracted < MaxExtract
    /\ \E pages \in Fetches(MaxPages) : Acquire(pages)
    /\ UNCHANGED <<request, step, replanned, output, verdicts, released, held, withheld, surface,
                   ready>>

-----------------------------------------------------------------------------
(* Verification                                                             *)

Accepted(verdict) == verdict.verified /\ Emits(verdict)
Passes(c) == Accepted(Verdict(request.mode, c, ledger))

\* Those that pass of the first n of a list.
Passing(list, n) == Picked(list, {i \in 1..n : Passes(list[i])})

\* Mutant: the candidates past the cap are not looked at.
LookedNone(list) == Low(MaxValidated, Len(list))

\* How many are looked at: those that would be shown, then the others in turn until
\* the minimum is met.
Looked(list) ==
    Lowest({n \in Low(MaxValidated, Len(list))..Len(list) :
              n = Len(list) \/ Len(Passing(list, n)) >= MinValidated})

\* _verify_with_reserve
WithReserve(list) ==
    LET passing == Passing(list, Looked(list))
    IN [kept |-> SubSeq(passing, 1, Low(MaxValidated, Len(passing))),
        checked |-> RowsOf(SubSeq(list, 1, Looked(list)))]

\* The citations of the rows that were checked are repaired.
Repaired(list, verdict) ==
    [i \in DOMAIN list |-> IF list[i].row \in DOMAIN verdict THEN Repointed(list[i], verdict[list[i].row])
                           ELSE list[i]]

VerdictsOf(list, rows) ==
    [row \in rows |-> Verdict(request.mode, CHOOSE c \in ToSet(list) : c.row = row, ledger)]

Keep(list, result) ==
    /\ verdicts' = VerdictsOf(list, result.checked)
    /\ output' = Repaired(result.kept, verdicts')
    /\ candidates' = Repaired(candidates, verdicts')

VerifyAll(list) == Keep(list, WithReserve(list))

\* Without verification the presentation cap is all.
Verify ==
    /\ step = "judge" /\ step' = "verified"
    /\ IF request.verify THEN VerifyAll(qualified)
       ELSE /\ output' = SubSeq(qualified, 1, Low(MaxValidated, Len(qualified)))
            /\ UNCHANGED <<verdicts, candidates>>
    /\ UNCHANGED <<request, ledger, extracted, read, qualified, broadened, replanned, released, held,
                   withheld, surface, ready>>

\* replan_recommended
ReplanAdvised == \E row \in DOMAIN verdicts : verdicts[row].decision = "replan"

\* One more round if a cited page gives another number and too few are left;
\* everything is judged and, in the next step, verified again.
Replan ==
    /\ step = "verified" /\ request.verify /\ ReplanAdvised /\ ~replanned /\ replanned' = TRUE
    /\ Len(output) < MinValidated /\ extracted < MaxExtract
    /\ step' = "replan"
    /\ \E pages \in Fetches(MaxPages) : Acquire(pages)
    /\ UNCHANGED <<request, broadened, output, verdicts, released, held, withheld, surface, ready>>

VerifyAgain ==
    /\ step = "replan" /\ step' = "verified"
    /\ VerifyAll(qualified)
    /\ UNCHANGED <<request, ledger, extracted, read, qualified, broadened, replanned, released, held,
                   withheld, surface, ready>>

-----------------------------------------------------------------------------
(* Drafts and the result                                                    *)

\* The grade of a row is known if it was verified.
BelowFloor(row) == row \in DOMAIN verdicts /\ verdicts[row].grade < GradeFloor

\* Mutant: only a review store holds a draft back.
HoldsBackStored(row) == request.store /\ (request.review \/ BelowFloor(row))

\* Whether _build_rfqs keeps the body of a draft out of the result.
HoldsBack(row) == (request.store /\ request.review) \/ BelowFloor(row)

\* Mutant: the serendipity view takes every ranked candidate.
SurfacedAll(list) == RowsOf(list)

\* build_serendipity_result of the candidates without a conflict.
Surfaced(list) == {c.row : c \in {x \in ToSet(list) : ~x.conflict}}

\* build_serendipity_result and, for services, _build_rfqs.
Draft ==
    LET drafted == IF request.mode = "service" THEN RowsOf(output) ELSE {}
        back == {row \in drafted : HoldsBack(row)}
    IN /\ step = "verified" /\ step' = "drafted"
       /\ surface' = Surfaced(Ranked(request.mode, request.confirmed, candidates))
       /\ released' = drafted \ back
       /\ held' = IF request.store THEN back ELSE {}
       /\ UNCHANGED <<request, ledger, extracted, read, candidates, qualified, broadened, replanned,
                      output, verdicts, withheld, ready>>

\* The RunResult: the withheld candidates and how ready the others are.
Report ==
    /\ step = "drafted" /\ step' = "done"
    /\ withheld' = {c.row : c \in {x \in ToSet(candidates) : x.conflict \/ Blocked(x, request.confirmed)}}
    /\ ready' = {row \in RowsOf(output) :
                   /\ row \in DOMAIN verdicts
                   /\ LET c == CHOOSE x \in ToSet(output) : x.row = row
                      IN Readiness(request.mode, c, request.confirmed, verdicts[row], row \in request.disputed,
                                   GradeFloor) = "review_ready"}
    /\ UNCHANGED <<request, ledger, extracted, read, candidates, qualified, broadened, replanned,
                   output, verdicts, released, held, surface>>

ProcurementNext == Gather \/ Broaden \/ Verify \/ Replan \/ VerifyAgain \/ Draft \/ Report

ProcurementSpec == ProcurementInit /\ [][ProcurementNext]_pvars

-----------------------------------------------------------------------------
(* Properties                                                               *)

\* Two pages of one row that cannot both be right.
Clash(p, q) ==
    /\ Says[p].row = Says[q].row
    /\ CASE request.mode = "product" ->
              /\ Says[p].quantity = Says[q].quantity /\ Says[p].price # Says[q].price
              /\ Priced(Says[p].price) <=> Priced(Says[q].price)
         [] request.mode = "service" -> Says[p].price # Says[q].price
         [] request.mode = "contact" -> DomainMatch(p) # DomainMatch(q)

Clashing(row) == \E p, q \in read : Says[p].row = row /\ Clash(p, q)

\* A page whose own text says that the row has the value.
Attests(p, row, value) ==
    /\ p # Memory /\ ~Says[p].model /\ Says[p].row = row
    /\ Says[p].how \in {"together", "weakly"}
    /\ value = (IF request.mode = "product" THEN Says[p].price ELSE Says[p].channel)

\* Whatever the order in which the rounds find the pages, no supplier is in the
\* output while two pages the run read of it clash, or while it fails a confirmed
\* requirement on its own pages; and with verification on, every price and channel
\* of the output is attested by a page that its citations lead to
\* (_apply_consolidation_safety, _is_validated, VerificationSpine).
OutputStands ==
    step \in {"verified", "drafted", "done"} =>
      \A i \in DOMAIN output :
        LET c == output[i] IN
        /\ ~Clashing(c.row)
        /\ request.confirmed =>
             \A r \in Required : \E p \in read :
               /\ Says[p].row = c.row /\ Says[p].own
               /\ Says[p].signs[r] = (IF RequirementKind[r] = "exclusion" THEN "contradicted"
                                      ELSE "supported")
        /\ request.verify =>
             \A claim \in Claims(request.mode, c) :
               \E p \in ToSet(c.refs) : Attests(p, c.row, claim.value)

\* The cap is on what is shown, not on what is checked: a qualified supplier is left
\* out only if it failed verification or better ones fill the output, and there are
\* fewer than the minimum only if all the others failed (_verify_with_reserve).
ReserveUsed ==
    step = "verified" /\ request.verify =>
      /\ Len(output) =< MaxValidated
      /\ \A i \in DOMAIN qualified :
           qualified[i].row \notin RowsOf(output) /\ Passes(qualified[i]) =>
             /\ Len(output) >= MinValidated
             /\ \A j \in DOMAIN qualified : qualified[j].row \in RowsOf(output) => j < i

\* What the run answers with holds, and nobody was left out without need.
OutputIsRight == OutputStands /\ ReserveUsed

\* Nothing goes out unvetted: a supplier whose pages clash is reported as withheld
\* and is in no draft and not in the serendipity view, a draft that is below the
\* grade floor or due for review is not in the result, and what the review store
\* holds is not released as well (_build_rfqs, withheld_candidates).
NothingUnvettedLeaves ==
    /\ \A row \in Rows :
         Clashing(row) => /\ step = "done" => row \in withheld
                          /\ step \in {"drafted", "done"} => row \notin surface \cup released \cup held
    /\ \A row \in released :
         /\ row \in DOMAIN verdicts => verdicts[row].grade >= GradeFloor
         /\ ~(request.store /\ request.review)
    /\ released \cap held = {}

\* Only a supplier that meets every confirmed requirement, has no disputed fact and
\* whose every claim is attested by the very page it cites is called ready for
\* review (candidate_readiness).
ReadyIsEarned ==
    \A i \in DOMAIN output : output[i].row \in ready =>
      /\ request.confirmed /\ request.verify /\ output[i].row \notin request.disputed
      /\ \A claim \in Claims(request.mode, output[i]) :
           Attests(claim.source, output[i].row, claim.value)

\* What leaves the run, as a draft, a view or a recommendation, was vetted for it.
ReleasesAreVetted == NothingUnvettedLeaves /\ ReadyIsEarned

=============================================================================
