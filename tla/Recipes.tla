------------------------------ MODULE Recipes ------------------------------
(***************************************************************************)
(* The retrieval recipe pilot, spider_qwen/application/retrieval_recipes.py:  *)
(* after its baseline a run executes a declared plan of searches and fetches in  *)
(* shadow, with what is left of the run's budget, and judges the pages.  A       *)
(* version whose pages fail the gate is quarantined in a store that every run   *)
(* of the owner shares; an operator may promote one that has proved itself.      *)
(*                                                                          *)
(* One version of one recipe.  A page is known by its URL; its kind says whether *)
(* it holds what the postconditions ask for and whether its host is expected.    *)
(***************************************************************************)
EXTENDS Integers, FiniteSets, Sequences

CONSTANTS
    RecipeRuns,
    PageUrls,
    PageKind,        \* what each page turns out to be: "fits", "lacks" or "drifts"
    Plan,            \* recipe.steps: "search" or the limit of a fetch
    RecipeCaps,      \* recipe.budget: [search, fetch]
    MinPages,        \* postconditions.min_fetched_pages
    Left,            \* what the baseline leaves of each run's caps: [search, fetch]
    Judges,
    MinSuccesses, MinJudges,   \* the promotion policy
    MaxJudgements,   \* bound: judgements that are kept
    Definitions,     \* the contents the version has had in the releases
    Unset

SearchSteps == {i \in DOMAIN Plan : Plan[i] = 0}
FetchSteps == DOMAIN Plan \ SearchSteps

\* RetrievalRecipe.validate_plan; a search is the step with limit 0.
ASSUME PlanAssumption ==
    /\ Plan \in Seq(Nat) /\ RecipeCaps \in [search : Nat, fetch : Nat]
    /\ SearchSteps # {} /\ FetchSteps # {}
    /\ Cardinality(SearchSteps) =< RecipeCaps.search
    /\ \A f \in FetchSteps : \E s \in SearchSteps : s < f
    /\ MinPages \in 1..RecipeCaps.fetch
    /\ PageKind \in [PageUrls -> {"fits", "lacks", "drifts"}] /\ IsFiniteSet(PageUrls)
    /\ Left \in [search : Nat, fetch : Nat]

VARIABLES
    recipe,      \* recipe_state: [definition, status], or Unset
    judged,      \* recipe_judgements: the verdict of a judge on a run
    reports,     \* recipe_execution_reports: [run, outcome]
    rpc,         \* where the shadow of each run is
    mine,        \* the definition the run's process was released with
    at,          \* the next step of the plan
    discovered, fetched,
    spent,       \* what the shadow of the run charged: [search, fetch]
    outcome,
    promoter,    \* an operator between reading and writing: "idle" or "decided"
    \* history: runs that left a page for want of budget, and that quarantined the
    \* version
    cut, blamers

rvars == <<recipe, judged, reports, rpc, mine, at, discovered, fetched, spent, outcome,
           promoter, cut, blamers>>

Least(S) == CHOOSE n \in S : \A m \in S : n =< m

RecipeInit ==
    /\ recipe = Unset /\ judged = [x \in {} |-> Unset] /\ reports = {}
    /\ rpc = [r \in RecipeRuns |-> "begin"] /\ mine \in [RecipeRuns -> Definitions]
    /\ at = [r \in RecipeRuns |-> 1]
    /\ discovered = [r \in RecipeRuns |-> {}] /\ fetched = [r \in RecipeRuns |-> {}]
    /\ spent = [r \in RecipeRuns |-> [search |-> 0, fetch |-> 0]]
    /\ outcome = [r \in RecipeRuns |-> "passed"]
    /\ promoter = "idle" /\ cut = {} /\ blamers = {}

-----------------------------------------------------------------------------
(* RecipeStateStore                                                         *)

\* ensure_recipe(): the version is stored as shadow, and a definition that
\* changed without a new version is quarantined.
Ensured(d) ==
    IF recipe = Unset THEN [definition |-> d, status |-> "shadow"]
    ELSE IF recipe.definition # d THEN [recipe EXCEPT !.status = "quarantined"]
    ELSE recipe

Quarantined(d) == [Ensured(d) EXCEPT !.status = "quarantined"]


\* record_judgement(): the last word of a judge on a run counts.  `positive`
\* stands for an independent success with all three verified qualities, "other"
\* for what is neither that nor an independent failure.
Judge(j, r, verdict) ==
    /\ rpc[r] = "end" /\ recipe # Unset
    /\ Cardinality(DOMAIN judged \cup {<<r, j>>}) =< MaxJudgements
    /\ judged' = [x \in DOMAIN judged \cup {<<r, j>>} |-> IF x = <<r, j>> THEN verdict ELSE judged[x]]
    /\ recipe' = Ensured(recipe.definition)
    /\ UNCHANGED <<reports, rpc, mine, at, discovered, fetched, spent, outcome, promoter,
                   cut, blamers>>

PassedRuns == {p.run : p \in {q \in reports : q.outcome = "passed"}}
Eligible == {x \in DOMAIN judged : judged[x] = "positive" /\ x[1] \in PassedRuns}

MayPromote ==
    /\ \A x \in DOMAIN judged : judged[x] # "failure"
    /\ Cardinality({x[1] : x \in Eligible}) >= MinSuccesses
    /\ Cardinality({x[2] : x \in Eligible}) >= MinJudges

\* promote() reads the state, the judgements and the reports ...
DecidePromotion ==
    /\ promoter = "idle" /\ recipe # Unset /\ recipe.status # "quarantined" /\ MayPromote
    /\ promoter' = "decided"
    /\ UNCHANGED <<recipe, judged, reports, rpc, mine, at, discovered, fetched, spent, outcome,
                   cut, blamers>>

\* ... and then sets the status, whatever it is by now.
WritePromotion ==
    /\ promoter = "decided" /\ promoter' = "idle"
    /\ recipe' = [recipe EXCEPT !.status = "promoted"]
    /\ UNCHANGED <<judged, reports, rpc, mine, at, discovered, fetched, spent, outcome,
                   cut, blamers>>

-----------------------------------------------------------------------------
(* RecipePilot._execute                                                     *)

\* A quarantined version is skipped.
BeginShadow(r) ==
    /\ rpc[r] = "begin"
    /\ LET state == Ensured(mine[r]) IN
        /\ recipe' = state
        /\ rpc' = [rpc EXCEPT ![r] = IF state.status = "quarantined" THEN "end" ELSE "step"]
        /\ reports' = IF state.status = "quarantined"
                      THEN reports \cup {[run |-> r, outcome |-> "skipped_quarantined"]}
                      ELSE reports
    /\ UNCHANGED <<judged, mine, at, discovered, fetched, spent, outcome, promoter, cut, blamers>>

\* What the run's budget and the recipe's own still allow of kind k.
Allowance(r, k) == Least({Left[k] - spent[r][k], RecipeCaps[k] - spent[r][k]})

Leave(r, why) ==
    rpc' = [rpc EXCEPT ![r] = "gate"] /\ outcome' = [outcome EXCEPT ![r] = why]

StayIn(r) == UNCHANGED <<rpc, outcome>>

SearchStep(r) ==
    /\ rpc[r] = "step" /\ at[r] \in SearchSteps
    /\ at' = [at EXCEPT ![r] = @ + 1]
    /\ IF Allowance(r, "search") =< 0
       THEN Leave(r, "budget_limited") /\ UNCHANGED <<discovered, spent>>
       ELSE /\ spent' = [spent EXCEPT ![r].search = @ + 1]
            /\ \/ \E urls \in SUBSET PageUrls :
                    discovered' = [discovered EXCEPT ![r] = @ \cup urls] /\ StayIn(r)
               \/ Leave(r, "error") /\ UNCHANGED discovered
    /\ UNCHANGED <<recipe, judged, reports, mine, fetched, promoter, cut, blamers>>

\* Mutant: a fetch that the budget cut short counts as complete.
FetchedShort(r, limit) == StayIn(r)

\* A fetch that could not use its whole limit ends the plan.
FetchedSome(r, limit) ==
    IF Allowance(r, "fetch") < limit THEN Leave(r, "budget_limited") ELSE StayIn(r)

\* The first pages found and not fetched yet, as far as step, run and recipe
\* allow; a fetch may fail, or return only some of them.
FetchStep(r) ==
    /\ rpc[r] = "step" /\ at[r] \in FetchSteps
    /\ at' = [at EXCEPT ![r] = @ + 1]
    /\ LET limit == Plan[at[r]]
           allowed == Least({limit, Allowance(r, "fetch")})
           waiting == discovered[r] \ fetched[r]
       IN /\ cut' = IF allowed < Least({limit, Cardinality(waiting)}) THEN cut \cup {r} ELSE cut
          /\ \/ allowed =< 0 /\ Leave(r, "budget_limited") /\ UNCHANGED <<fetched, spent>>
             \/ allowed > 0 /\ waiting = {} /\ Leave(r, "passed") /\ UNCHANGED <<fetched, spent>>
             \/ /\ allowed > 0 /\ waiting # {}
                /\ \E targets \in SUBSET waiting :
                     /\ Cardinality(targets) = Least({allowed, Cardinality(waiting)})
                     /\ spent' = [spent EXCEPT ![r].fetch = @ + Cardinality(targets)]
                     /\ \/ \E back \in SUBSET targets :
                             fetched' = [fetched EXCEPT ![r] = @ \cup back]
                               /\ FetchedSome(r, limit)
                        \/ Leave(r, "error") /\ UNCHANGED fetched
    /\ UNCHANGED <<recipe, judged, reports, mine, discovered, promoter, blamers>>

PlanDone(r) ==
    /\ rpc[r] = "step" /\ at[r] > Len(Plan) /\ Leave(r, "passed")
    /\ UNCHANGED <<recipe, judged, reports, mine, at, discovered, fetched, spent, promoter,
                   cut, blamers>>

Kinds(r) == {PageKind[u] : u \in fetched[r]}
PostconditionsHold(r) == Cardinality(fetched[r]) >= MinPages /\ "fits" \in Kinds(r)
Drifted(r) == "drifts" \in Kinds(r)

Verdict(r) ==
    IF outcome[r] # "passed" THEN outcome[r]
    ELSE IF Drifted(r) THEN "drift_detected"
    ELSE IF PostconditionsHold(r) THEN "passed" ELSE "postcondition_failed"

\* The gate: a version that drifted or lacks what it promised is quarantined ...
Gate(r) ==
    /\ rpc[r] = "gate" /\ rpc' = [rpc EXCEPT ![r] = "report"]
    /\ outcome' = [outcome EXCEPT ![r] = Verdict(r)]
    /\ IF Verdict(r) \in {"drift_detected", "postcondition_failed"}
       THEN recipe' = Quarantined(mine[r]) /\ blamers' = blamers \cup {r}
       ELSE UNCHANGED <<recipe, blamers>>
    /\ UNCHANGED <<judged, reports, mine, at, discovered, fetched, spent, promoter, cut>>

\* ... and the report is recorded.
Report(r) ==
    /\ rpc[r] = "report" /\ rpc' = [rpc EXCEPT ![r] = "end"]
    /\ reports' = reports \cup {[run |-> r, outcome |-> outcome[r]]}
    /\ UNCHANGED <<recipe, judged, mine, at, discovered, fetched, spent, outcome, promoter,
                   cut, blamers>>

RecipeNext ==
    \/ \E r \in RecipeRuns :
         \/ BeginShadow(r) \/ SearchStep(r) \/ FetchStep(r) \/ PlanDone(r) \/ Gate(r) \/ Report(r)
         \/ \E j \in Judges, v \in {"positive", "failure", "other"} : Judge(j, r, v)
    \/ DecidePromotion \/ WritePromotion

RecipeSpec == RecipeInit /\ [][RecipeNext]_rvars

-----------------------------------------------------------------------------
(* Properties                                                               *)

\* The shadow stays within what the baseline left and within its own budget, and
\* a recipe is never quarantined because a budget ran out
\* (tests/test_retrieval_recipes.py:224, retrieval_recipes.py:538).
ShadowIsFair ==
    /\ \A r \in RecipeRuns : \A k \in {"search", "fetch"} :
         spent[r][k] =< Left[k] /\ spent[r][k] =< RecipeCaps[k]
    /\ blamers \cap cut = {}

=============================================================================
