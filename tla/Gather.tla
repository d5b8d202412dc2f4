------------------------------- MODULE Gather -------------------------------
(***************************************************************************)
(* How one run of spider_qwen/agent/controller.py gathers evidence: a SEA    *)
(* gather, at most one fallback or corrective gather, at most one replan     *)
(* after verification.  A gather is a level of searches and then a level of   *)
(* fetches; the nodes of a level are coroutines of one event loop, so a step  *)
(* is what a coroutine does between two awaits.  Searches, fetches and        *)
(* extractions are charged to the run's BudgetTracker.                       *)
(*                                                                          *)
(* Nodes are numbered in the order the controller hands them to the compiler: *)
(* for a fetch, from the best to the worst pre-fetch score.  What a provider  *)
(* answers, which page yields a candidate and which candidates survive        *)
(* ranking and verification is left open.  The frontier's gather is not here. *)
(***************************************************************************)
EXTENDS Naturals, Sequences, FiniteSets

CONSTANTS
    MaxQueries,      \* bound: queries one gather proposes
    MaxUrls,         \* bound: URLs the results of one gather name
    MaxConcurrency,  \* the compiler's semaphore
    Capacity,        \* bucket sizes, by kind
    Limited,         \* whether the providers draw on a live quota
    Cache,           \* whether there is a page cache
    Fallback,        \* whether there is a fallback fetcher
    Budget           \* [search, fetch, extract, validated, min]: the limits

Kinds == {"search", "fetch"}

ASSUME GatherAssumption ==
    /\ MaxQueries \in Nat /\ MaxUrls \in Nat
    /\ MaxConcurrency \in Nat \ {0}
    /\ Capacity \in [Kinds -> Nat \ {0}]
    /\ Limited \in BOOLEAN /\ Cache \in BOOLEAN /\ Fallback \in BOOLEAN
    /\ Budget \in [search : Nat, fetch : Nat, extract : Nat, validated : Nat, min : Nat]

VARIABLES
    \* the controller: which gather, where in it, and whether a node has raised
    round, pc, raised,
    \* the level: what each node is doing, and the results in insertion order
    node, order,
    \* the rate limiter's buckets
    tokens,
    \* the tracker: what was consumed, runtime_exceeded(), stop_reason
    spent, late, stop,
    \* the candidates that qualify, and the run's stop reason
    validated, reason,
    \* history: provider calls, and the pages the current gather extracted
    called, extracted

level == <<node, order>>
tracker == <<spent, late, stop>>
outcome == <<validated, reason>>
history == <<called, extracted>>
vars == <<round, pc, raised, level, tokens, tracker, outcome, history>>

Least(m, n) == IF m < n THEN m ELSE n
Nodes == DOMAIN node
Ended == {"found", "page", "blank", "denied"}
InFlight == {n \in Nodes : node[n] \in {"calling", "retrying"}}

\* The tracker's guards.
CanSearch == spent.search < Budget.search /\ ~late
RemainingSearches == IF late THEN 0 ELSE Budget.search - spent.search
CanFetch == spent.fetch < Budget.fetch /\ ~late

\* The SEA gather leaves a search for the gather that may follow.
Reserve == IF round = 1 /\ Budget.search > 1 THEN 1 ELSE 0

\* A level of one node is called directly: only several take tokens.
Level(n) ==
    /\ node' = [i \in 1..n |-> IF Limited /\ n > 1 THEN "waiting" ELSE "queued"]
    /\ order' = <<>>
NoLevel == node' = <<>> /\ order' = <<>>

\* consume_search and consume_fetch, which charge before the call.
Charge(kind) ==
    /\ spent' = [spent EXCEPT ![kind] = @ + 1]
    /\ called' = [called EXCEPT ![kind] = @ + 1]

Becomes(n, s) ==
    /\ node' = [node EXCEPT ![n] = s]
    /\ order' = IF s \in Ended THEN Append(order, n) ELSE order

Init ==
    /\ round = 1 /\ pc = "queries" /\ raised = FALSE
    /\ node = <<>> /\ order = <<>>
    /\ tokens = Capacity
    /\ spent = [search |-> 0, fetch |-> 0, extract |-> 0] /\ late = FALSE /\ stop = "none"
    /\ validated = 0 /\ reason = "none"
    /\ called = [k \in Kinds |-> 0] /\ extracted = {}

-----------------------------------------------------------------------------
(* The controller between two levels                                        *)

\* Mutant: the SEA gather may spend every search.
QueriesUnreserved ==
    /\ pc = "queries"
    /\ \E n \in 0..Least(MaxQueries, RemainingSearches) :
         /\ Level(n)
         /\ pc' = IF n = 0 THEN "extract" ELSE "search"
    /\ extracted' = {}
    /\ UNCHANGED <<round, raised, tokens, tracker, outcome, called>>

\* _gather and _collect_search_results: no more queries than may be searched.
\* Without any there is nothing to fetch.
Queries ==
    /\ pc = "queries"
    /\ \E n \in 0..MaxQueries :
         /\ n + Reserve <= RemainingSearches \/ n = 0
         /\ Level(n)
         /\ pc' = IF n = 0 THEN "extract" ELSE "search"
    /\ extracted' = {}
    /\ UNCHANGED <<round, raised, tokens, tracker, outcome, called>>

\* Every search has ended: the URLs they found, best first, as many as may ever
\* be extracted, and none if nothing can be fetched.
Urls ==
    /\ pc = "search" /\ ~raised
    /\ \A n \in Nodes : node[n] \in Ended
    /\ \E u \in 0..Least(MaxUrls, Budget.extract) :
         /\ u > 0 => \E n \in Nodes : node[n] = "found"
         /\ IF u > 0 /\ CanFetch THEN Level(u) /\ pc' = "fetch" ELSE NoLevel /\ pc' = "extract"
    /\ UNCHANGED <<round, raised, tokens, tracker, outcome, history>>

\* Every fetch has ended.
Pages ==
    /\ pc = "fetch" /\ ~raised
    /\ \A n \in Nodes : node[n] \in Ended
    /\ pc' = "extract"
    /\ UNCHANGED <<round, raised, level, tokens, tracker, outcome, history>>

\* Pages are extracted in the order of the results dict until the cap; ranking
\* then says how many of the candidates so far qualify.
Extract ==
    /\ pc = "extract"
    /\ LET pages == {i \in DOMAIN order : node[order[i]] = "page"} IN
       \E taken \in SUBSET pages :
          /\ Cardinality(taken) = Least(Cardinality(pages), Budget.extract - spent.extract)
          /\ \A i \in taken, j \in pages \ taken : i < j
          /\ spent' = [spent EXCEPT !.extract = @ + Cardinality(taken)]
          /\ extracted' = {order[i] : i \in taken}
          /\ validated' \in 0..(spent.extract + Cardinality(taken))
    /\ pc' = IF round = 1 THEN "judge" ELSE "verify"
    /\ UNCHANGED <<round, raised, level, tokens, late, stop, reason, called>>

Again == spent.extract < Budget.extract /\ CanSearch

\* After the SEA gather: one more gather, if it is needed and can be afforded.
Judge ==
    /\ pc = "judge"
    /\ IF validated < Budget.min /\ Again
         THEN round' = 2 /\ pc' = "queries"
         ELSE pc' = "verify" /\ UNCHANGED round
    /\ UNCHANGED <<raised, level, tokens, tracker, outcome, history>>

\* The verification spine, if it is enabled, keeps some of the candidates; if it
\* says so and there are too few, the run gathers once more.
Verify ==
    /\ pc = "verify"
    /\ \E kept \in 0..Least(validated, Budget.validated), replan \in BOOLEAN :
         /\ validated' = kept
         /\ IF replan /\ round < 3 /\ kept < Budget.min /\ Again
              THEN round' = 3 /\ pc' = "queries"
              ELSE pc' = "stop" /\ UNCHANGED round
    /\ UNCHANGED <<raised, level, tokens, tracker, reason, history>>

\* _stop_reason.
Stop ==
    /\ pc = "stop"
    /\ pc' = "done"
    /\ reason' \in IF validated >= Budget.min THEN {"min_validated"}
                   ELSE IF stop # "none" THEN {stop}
                   ELSE {"no_quote_channel", IF late THEN "max_runtime" ELSE "insufficient"}
    /\ UNCHANGED <<round, raised, level, tokens, tracker, validated, history>>

\* gather() has raised, and with it the run; the nodes under way are abandoned.
Fail ==
    /\ pc \in Kinds /\ raised
    /\ pc' = "failed"
    /\ UNCHANGED <<round, raised, level, tokens, tracker, outcome, history>>

-----------------------------------------------------------------------------
(* The nodes of a level                                                     *)

\* The bucket's lock is taken in turn; its holder waits for a token.
Acquire(n) ==
    /\ pc \in Kinds /\ node[n] = "waiting"
    /\ \A m \in Nodes : node[m] = "waiting" => n <= m
    /\ tokens[pc] > 0
    /\ tokens' = [tokens EXCEPT ![pc] = @ - 1]
    /\ Becomes(n, "queued")
    /\ UNCHANGED <<round, pc, raised, tracker, outcome, called, extracted>>

\* The semaphore is taken in turn.
Turn(n) ==
    /\ node[n] = "queued"
    /\ \A m \in Nodes : node[m] = "queued" => n <= m
    /\ Cardinality(InFlight) < MaxConcurrency

\* Mutant: a node whose search was refused waits to be let in again.
SearchRetrying(n) ==
    /\ pc = "search" /\ Turn(n)
    /\ IF CanSearch THEN Charge("search") /\ Becomes(n, "calling")
                    ELSE UNCHANGED <<spent, called, level>>
    /\ UNCHANGED <<round, pc, raised, tokens, late, stop, outcome, extracted>>

\* A search: can_search, then consume_search, between which time may run out.
Search(n) ==
    /\ pc = "search" /\ Turn(n)
    /\ \/ CanSearch /\ Charge("search") /\ Becomes(n, "calling") /\ UNCHANGED <<late, stop>>
       \/ CanSearch /\ late' = TRUE /\ stop' = "max_runtime" /\ Becomes(n, "denied")
          /\ UNCHANGED <<spent, called>>
       \/ ~CanSearch /\ Becomes(n, "denied") /\ UNCHANGED <<spent, called, late, stop>>
    /\ UNCHANGED <<round, pc, raised, tokens, outcome, extracted>>

\* Mutant: the semaphore lets nodes in in any order.
FetchUnordered(n) ==
    /\ pc = "fetch" /\ node[n] = "queued" /\ Cardinality(InFlight) < MaxConcurrency
    /\ IF CanFetch THEN Charge("fetch") /\ Becomes(n, "calling") /\ UNCHANGED stop
       ELSE /\ stop' = IF late THEN "max_runtime" ELSE "max_fetch"
            /\ Becomes(n, "denied") /\ UNCHANGED <<spent, called>>
    /\ UNCHANGED <<round, pc, raised, tokens, late, outcome, extracted>>

\* Mutant: the last unit of the fetch budget is never spent.
FetchOneShort(n) ==
    /\ pc = "fetch" /\ Turn(n)
    /\ IF spent.fetch + 1 < Budget.fetch /\ ~late
         THEN Charge("fetch") /\ Becomes(n, "calling") /\ UNCHANGED stop
         ELSE /\ stop' = IF late THEN "max_runtime" ELSE "max_fetch"
              /\ Becomes(n, "denied") /\ UNCHANGED <<spent, called>>
    /\ UNCHANGED <<round, pc, raised, tokens, late, outcome, extracted>>

\* A fetch: a cache hit costs nothing; anything else is charged, or refused.
Fetch(n) ==
    /\ pc = "fetch" /\ Turn(n)
    /\ \/ /\ Cache /\ \E s \in {"page", "blank"} : Becomes(n, s)
          /\ UNCHANGED <<spent, called, stop>>
       \/ CanFetch /\ Charge("fetch") /\ Becomes(n, "calling") /\ UNCHANGED stop
       \/ /\ ~CanFetch /\ stop' = IF late THEN "max_runtime" ELSE "max_fetch"
          /\ Becomes(n, "denied") /\ UNCHANGED <<spent, called>>
    /\ UNCHANGED <<round, pc, raised, tokens, late, outcome, extracted>>

\* The provider answers: results are recorded; a page may be rejected or empty.
Answer(n) ==
    /\ pc \in Kinds /\ node[n] \in {"calling", "retrying"}
    /\ Becomes(n, IF pc = "search" THEN "found" ELSE "page") \/ Becomes(n, "blank")
    /\ UNCHANGED <<round, pc, raised, tokens, tracker, outcome, history>>

\* Mutant: the retry is not charged.
RetryFree(n) ==
    /\ pc = "fetch" /\ Fallback /\ node[n] = "calling" /\ CanFetch
    /\ called' = [called EXCEPT !.fetch = @ + 1] /\ Becomes(n, "retrying")
    /\ UNCHANGED <<round, pc, raised, tokens, tracker, outcome, extracted>>

\* A page that cannot be used is fetched once more by the fallback, if that can
\* be afforded; time may run out just before it is charged, and the page is lost.
Retry(n) ==
    /\ pc = "fetch" /\ Fallback /\ node[n] = "calling" /\ CanFetch
    /\ \/ Charge("fetch") /\ Becomes(n, "retrying") /\ UNCHANGED <<late, stop>>
       \/ late' = TRUE /\ stop' = "max_runtime" /\ Becomes(n, "blank")
          /\ UNCHANGED <<spent, called>>
    /\ UNCHANGED <<round, pc, raised, tokens, outcome, extracted>>

\* The provider raises, which only the fallback's caller survives.
Raise(n) ==
    /\ pc \in Kinds /\ node[n] = "calling"
    /\ raised' = TRUE /\ Becomes(n, "raised")
    /\ UNCHANGED <<round, pc, tokens, tracker, outcome, history>>

-----------------------------------------------------------------------------
(* Time                                                                     *)

Refill(kind) ==
    /\ Limited /\ pc \notin {"done", "failed"}
    /\ tokens[kind] < Capacity[kind]
    /\ tokens' = [tokens EXCEPT ![kind] = @ + 1]
    /\ UNCHANGED <<round, pc, raised, level, tracker, outcome, history>>

Expire ==
    /\ ~late /\ pc \notin {"done", "failed"}
    /\ late' = TRUE
    /\ UNCHANGED <<round, pc, raised, level, tokens, spent, stop, outcome, history>>

-----------------------------------------------------------------------------
Controller == Queries \/ Urls \/ Pages \/ Extract \/ Judge \/ Verify \/ Stop \/ Fail
NodeStep(n) == Acquire(n) \/ Search(n) \/ Fetch(n) \/ Answer(n) \/ Retry(n) \/ Raise(n)

Next == \/ Controller \/ Expire
        \/ \E n \in Nodes : NodeStep(n)
        \/ \E k \in Kinds : Refill(k)

Spec == Init /\ [][Next]_vars

\* The loop runs what is ready, providers answer or raise (their clients time
\* out), and buckets refill; the run's own deadline need never come.
LiveSpec ==
    /\ Spec
    /\ WF_vars(Controller)
    /\ \A n \in 1..(MaxQueries + MaxUrls) : WF_vars(n \in Nodes /\ NodeStep(n))
    /\ \A k \in Kinds : WF_vars(Refill(k))

-----------------------------------------------------------------------------
(* Properties                                                               *)

StopReasons == {"none", "max_runtime", "max_fetch"}

(* Every variable has its type. *)
TypeOK ==
    /\ round \in 1..3 /\ raised \in BOOLEAN
    /\ pc \in Kinds \cup {"queries", "extract", "judge", "verify", "stop", "done", "failed"}
    /\ node \in Seq(Ended \cup {"waiting", "queued", "calling", "retrying", "raised"})
    /\ order \in Seq(Nat \ {0})
    /\ tokens \in [Kinds -> Nat]
    /\ spent \in [search : Nat, fetch : Nat, extract : Nat]
    /\ late \in BOOLEAN /\ stop \in StopReasons
    /\ validated \in Nat
    /\ reason \in StopReasons \cup {"min_validated", "no_quote_channel", "insufficient"}
    /\ called \in [Kinds -> Nat] /\ extracted \subseteq Nat

(* The SEA gather never spends the last of several searches, so that a gather  *)
(* that has to follow it can search (reserve_search_calls, controller.py:435). *)
SearchLeftForFallback ==
    round = 1 /\ Budget.search > 1 => spent.search < Budget.search

(* However the nodes of a level interleave, and over all the gathers of a run,  *)
(* no limit is exceeded, no provider is called, by a retry either, without      *)
(* having been charged for it first, and a search is left for the fallback.    *)
BudgetHolds ==
    /\ spent.search <= Budget.search /\ spent.fetch <= Budget.fetch
    /\ spent.extract <= Budget.extract
    /\ \A k \in Kinds : called[k] <= spent[k]
    /\ SearchLeftForFallback

(* When the fetch budget does not reach for every URL of a level, it is the    *)
(* best-scored ones that are fetched, whatever finishes first.                 *)
BudgetGoesToBest ==
    pc = "fetch" => \A m, n \in Nodes :
        node[m] = "denied" /\ m < n =>
            \/ node[n] \in {"waiting", "queued", "denied"}
            \/ Cache /\ node[n] \in {"page", "blank"}

(* The limit that a run names as its stop reason was reached.                  *)
ReasonHolds ==
    pc = "done" =>
        /\ reason = "max_fetch" => spent.fetch = Budget.fetch
        /\ reason = "max_runtime" => late

(* A run ends: no node waits for a token or a slot that never comes, and the    *)
(* gathers do not go on for ever.                                             *)
RunEnds == <>(pc \in {"done", "failed"})

=============================================================================
