------------------------------ MODULE Frontier ------------------------------
(***************************************************************************)
(* The frontier's gather, spider_qwen/agent/frontier.py and                  *)
(* AutonomousController._gather_frontier: queries and URLs wait in one scored  *)
(* queue that is drained best first, round by round, while pages add the links *)
(* they show and suppliers without a quote channel add queries.  Part of the   *)
(* budget is held back as long as such entity queries may still come.          *)
(*                                                                          *)
(* Queries and URLs are known by their keys: a URL by its canonical form.      *)
(* What a search finds and a page shows is left open; a URL's score is given,  *)
(* a link's is one lower.  How searches and fetches of a round are charged     *)
(* and scheduled is module Gather.                                           *)
(***************************************************************************)
EXTENDS Integers, FiniteSets

CONSTANTS
    Templates,       \* queries a gather starts with
    EntityQueries,   \* queries that name a supplier
    Urls,
    UrlScore,        \* the score of a URL among search results
    MaxScore,        \* 1.0
    Floor,           \* SCORE_FLOOR
    SearchHold,      \* _ENTITY_SEARCH_RESERVE
    FetchHold,       \* _ENTITY_FETCH_RESERVE
    MaxRounds,       \* MAX_ROUNDS
    Caps,            \* the run's budget: [search, fetch, extract]
    KeptSearches     \* reserve_search_calls

ASSUME FrontierAssumption ==
    /\ UrlScore \in [Urls -> 0..MaxScore] /\ MaxScore \in Nat /\ Floor \in Nat
    /\ SearchHold \in Nat /\ FetchHold \in Nat /\ MaxRounds \in Nat /\ KeptSearches \in Nat
    /\ Caps \in [search : Nat, fetch : Nat, extract : Nat]
    /\ IsFiniteSet(Templates) /\ IsFiniteSet(EntityQueries) /\ IsFiniteSet(Urls)

VARIABLES
    leads,      \* Frontier._leads: the lead of each key that waits
    seen,       \* Frontier._seen
    fpc,        \* where the round is
    rounds,
    possible,   \* entity_possible
    queried,    \* whether this round popped a query
    pages,      \* pages of this round whose links are still to be read
    used,       \* searches, fetches and extractions charged
    expired,    \* runtime_exceeded()
    \* history: keys popped or reached by a redirect
    reached

fvars == <<leads, seen, fpc, rounds, possible, queried, pages, used, expired, reached>>

Smaller(a, b) == IF a < b THEN a ELSE b
AtLeastZero(n) == IF n < 0 THEN 0 ELSE n

Lead(kind, provenance, score, depth) ==
    [kind |-> kind, provenance |-> provenance, score |-> score, depth |-> depth]

Waiting(kind) == {k \in DOMAIN leads : leads[k].kind = kind}
From(kind, provenance) == {k \in Waiting(kind) : leads[k].provenance = provenance}

\* The `limit` best of the keys in K; ties are broken by when they were added.
Best(K, limit) ==
    {B \in SUBSET K :
        /\ Cardinality(B) = Smaller(Cardinality(K), AtLeastZero(limit))
        /\ \A b \in B, k \in K \ B : leads[b].score >= leads[k].score}

\* add() of several keys with their leads: not below the floor, not deeper than
\* one hop, nothing twice.
Admitted(new) ==
    {k \in DOMAIN new : new[k].depth =< 1 /\ new[k].score >= Floor
                        /\ k \notin seen /\ k \notin DOMAIN leads}
Added(old, new) ==
    [k \in DOMAIN old \cup Admitted(new) |-> IF k \in DOMAIN old THEN old[k] ELSE new[k]]

\* Mutant: what is popped may come back.
PoppedUnseen(K) == seen

\* pop() remembers the keys it took.
Popped(K) == seen \cup K

Without(K) == [k \in DOMAIN leads \ K |-> leads[k]]

FrontierInit ==
    /\ leads = [q \in Templates |-> Lead("query", "template", Smaller(2, MaxScore), 0)]
    /\ seen = {} /\ fpc = "search" /\ rounds = 0 /\ possible = FALSE /\ queried = FALSE /\ pages = {}
    /\ used = [search |-> 0, fetch |-> 0, extract |-> 0] /\ expired = FALSE
    /\ reached = {}

-----------------------------------------------------------------------------

Searches == AtLeastZero(Caps.search - used.search - KeptSearches)
Fetches == Smaller(Caps.extract - used.extract, Caps.fetch - used.fetch)

\* Entity follow-ups may still come: nothing was fetched, or some wait.
EntityPossible == rounds = 0 \/ From("query", "entity_query") # {}

\* Mutant: all that is left may be held back.
HeldAll(limit, hold) == hold

\* What is held back of a limit, which always leaves one.
Held(limit, hold) == Smaller(hold, AtLeastZero(limit - 1))

\* A round begins: the best queries are popped and searched, entity queries
\* first; the URLs they find wait with the others.  A search that is refused or
\* finds nothing adds none.
Search ==
    /\ fpc = "search" /\ rounds < MaxRounds /\ ~expired
    /\ rounds' = rounds + 1 /\ possible' = EntityPossible
    /\ \E entity \in Best(From("query", "entity_query"), Searches) :
         LET hold == IF EntityPossible /\ entity = {} THEN Held(Searches, SearchHold) ELSE 0
         IN \E other \in Best(Waiting("query") \ entity, Searches - Cardinality(entity) - hold),
               found, named \in SUBSET Urls :
              /\ entity = {} => named = {}
              /\ other = {} => found = {}
              /\ found \cap named = {}
              /\ leads' = Added(Without(entity \cup other),
                     [u \in found \cup named |->
                         Lead("url", IF u \in named THEN "entity_serp" ELSE "serp",
                              UrlScore[u], 0)])
              /\ queried' = (entity \cup other # {})
              /\ seen' = Popped(entity \cup other)
              /\ reached' = reached \cup entity \cup other
              /\ used' = [used EXCEPT !.search = @ + Cardinality(entity \cup other)]
    /\ fpc' = "rescore"
    /\ UNCHANGED <<pages, expired>>

\* _qwen_rescore_frontier: waiting URLs move by a clamped delta, if at all.
Rescore ==
    /\ fpc = "rescore" /\ fpc' = "fetch"
    /\ \E delta \in [Waiting("url") -> {-1, 0, 1}] :
         leads' = [k \in DOMAIN leads |->
             IF k \in Waiting("url")
             THEN [leads[k] EXCEPT !.score = AtLeastZero(Smaller(MaxScore, @ + delta[k]))]
             ELSE leads[k]]
    /\ UNCHANGED <<seen, rounds, possible, queried, pages, used, expired, reached>>

\* The best URLs are popped and fetched; one costs nothing if it is cached and
\* two fetches if it is retried.  A round that popped nothing is the
\* last one; one that popped no URL has nothing to read.
Fetch ==
    /\ fpc = "fetch"
    /\ \E entity \in Best(From("url", "entity_serp"), Fetches) :
         LET hold == IF possible /\ entity = {} THEN Held(Fetches, FetchHold) ELSE 0
         IN \E other \in Best(Waiting("url") \ entity, Fetches - Cardinality(entity) - hold) :
              LET urls == entity \cup other IN
              /\ leads' = Without(urls) /\ seen' = Popped(urls)
              /\ reached' = reached \cup urls
              /\ \E paid \in 0..Smaller(2 * Cardinality(urls), Caps.fetch - used.fetch),
                    read \in SUBSET urls :
                    /\ used' = [used EXCEPT !.fetch = @ + paid,
                                            !.extract = @ + Cardinality(read)]
                    /\ pages' = read
              /\ fpc' = IF urls # {} THEN "read" ELSE IF queried THEN "search" ELSE "stop"
    /\ UNCHANGED <<rounds, possible, queried, expired>>

\* A page was perhaps reached by a redirect, and shows links: contact pages of
\* its own site, or other sites if it is a directory.  They are leads of depth 1
\* whatever the depth of the page's own lead.
Read(p) ==
    /\ fpc = "read" /\ p \in pages /\ pages' = pages \ {p}
    /\ \E final \in Urls, links \in SUBSET Urls :
         LET rest == [k \in DOMAIN leads \ {final} |-> leads[k]]
             new == [u \in links \ ({final} \cup seen) |->
                        Lead("url", "link", UrlScore[u] - 1, 1)]
         IN /\ leads' = Added(rest, new)
            /\ seen' = seen \cup {final} /\ reached' = reached \cup {final}
    /\ UNCHANGED <<fpc, rounds, possible, queried, used, expired>>

\* _insert_entity_query_leads and _insert_vendor_mention_leads.
Entities ==
    /\ fpc = "read" /\ pages = {} /\ fpc' = "search"
    /\ \E named \in SUBSET EntityQueries :
         leads' = Added(leads, [q \in named |-> Lead("query", "entity_query", 2, 1)])
    /\ UNCHANGED <<seen, rounds, possible, queried, pages, used, expired, reached>>

\* The last round, or no time is left.
EndRounds ==
    /\ fpc = "search" /\ (rounds = MaxRounds \/ expired) /\ fpc' = "stop"
    /\ UNCHANGED <<leads, seen, rounds, possible, queried, pages, used, expired, reached>>

RunLate ==
    /\ ~expired /\ fpc # "stop" /\ expired' = TRUE
    /\ UNCHANGED <<leads, seen, fpc, rounds, possible, queried, pages, used, reached>>

FrontierNext ==
    \/ Search \/ Rescore \/ Fetch \/ Entities \/ EndRounds \/ RunLate
    \/ \E p \in Urls : Read(p)

FrontierSpec == FrontierInit /\ [][FrontierNext]_fvars

-----------------------------------------------------------------------------
(* Properties                                                               *)

\* A query is searched once and a page fetched once: what was popped, or was the
\* end of a redirect, never waits again, whoever names it (frontier.py:239).
NothingTwice == DOMAIN leads \cap reached = {}

\* The queue is only left with work that could still be paid for when time or
\* the rounds are over: what is held back for entity queries is used in the end
\* (controller.py:1034).
SpentOrDone ==
    fpc = "stop" /\ rounds < MaxRounds /\ ~expired =>
        /\ Waiting("query") # {} => Searches = 0
        /\ Waiting("url") # {} => Fetches = 0

=============================================================================
