------------------------------ MODULE PageFetch ------------------------------
(***************************************************************************)
(* One fetch() of several URLs, tools/fetch_service.py, in each of some runs    *)
(* that share the page cache of a state directory, tools/page_cache.py: cache    *)
(* hits, the provider, one second attempt by the fallback fetcher, the page       *)
(* judge before anything is recorded, and the web archive for dead links.          *)
(*                                                                          *)
(* Runs are threads: a cache file is read while another run writes it.  A step    *)
(* ends at an await or between the halves of a file's write.  Whether the text     *)
(* of a page says `enable javascript', or what the judge thinks of it, is left     *)
(* open; a flagged page counts as accepted, its lower confidence is not here.       *)
(***************************************************************************)
EXTENDS Naturals, Sequences, FiniteSets

CONSTANTS
    Fetchers,      \* runs, each with one fetch()
    Requested,     \* the URLs they ask for, best pre-fetch score first
    FetchLeft,     \* what the run's budget has left for URLs
    MaxFallback,   \* _MAX_FALLBACK_URLS
    Ttl,           \* ttl_seconds, in days
    LastDay        \* bound: days on which runs fetch

\* No URL is asked for twice in one fetch(): its callers pass one URL
\* (controller.py:1321, 1330) or URLs they discovered once (retrieval_recipes.py:533).
ASSUME PageFetchAssumption ==
    /\ Requested \in Seq({Requested[i] : i \in DOMAIN Requested})
    /\ \A i, j \in DOMAIN Requested : Requested[i] = Requested[j] => i = j
    /\ FetchLeft \in Nat /\ MaxFallback \in Nat /\ Ttl \in Nat /\ LastDay \in Nat

VARIABLES
    today,
    file,     \* page_cache/: what is in the file of a URL
    fetch     \* per run: where its fetch() is, with what

pvars == <<today, file, fetch>>

Asked == {Requested[i] : i \in DOMAIN Requested}
PutInOrder(S) ==
    LET kept[n \in 0..Len(Requested)] ==
            IF n = 0 THEN << >>
            ELSE IF Requested[n] \in S THEN Append(kept[n - 1], Requested[n]) ELSE kept[n - 1]
    IN  kept[Len(Requested)]
SetOf(s) == {s[i] : i \in DOMAIN s}
UpTo(n, s) == SubSeq(s, 1, IF n < Len(s) THEN n ELSE Len(s))

\* What a file holds: nothing, half a page, or the page a run got on a day.
Missing == [is |-> "missing"]
Torn == [is |-> "torn"]
Entry(r, class) == [is |-> "page", by |-> r, day |-> today, class |-> class]

\* classify_page, where `wall' stands for all but ok and js_shell; and classify_error,
\* where `dead' stands for all that is not a transport error.
PageClasses == {"ok", "shell", "wall"}
ErrorClasses == {"transport", "dead"}

Page(u, via, class, day) == [url |-> u, via |-> via, class |-> class, day |-> day]
Failure(u, class) == [url |-> u, class |-> class, recovered |-> FALSE]

Idle == [pc |-> "idle", hits |-> {}, pages |-> <<>>, errors |-> {}, rows |-> <<>>, left |-> FetchLeft,
         on |-> 0]

PageFetchInit ==
    /\ today = 0
    /\ file = [u \in Asked |-> Missing]
    /\ fetch = [r \in Fetchers |-> Idle]

Moves(r, f) == fetch' = [fetch EXCEPT ![r] = f]

-----------------------------------------------------------------------------
(* The cache and the provider                                               *)

\* Mutant: a page is served whatever its age.
ReadableOfAnyAge(u) == file[u].is = "page"

\* PageCache.get: a file that is missing, unreadable or stale is a miss.
Readable(u) == file[u].is = "page" /\ today - file[u].day <= Ttl

\* _cached_pages
CachedPages == {Page(u, "cache", file[u].class, file[u].day) : u \in {v \in Asked : Readable(v)}}

\* fetch(), up to its first await: the hits are free, the misses are cut to the
\* budget, and without any budget left fetch() raises.
Look(r) ==
    LET hits == CachedPages
        misses == PutInOrder(Asked \ {p.url : p \in hits})
        taken == UpTo(FetchLeft, misses)
    IN  /\ fetch[r].pc = "idle"
        /\ Moves(r, IF misses # <<>> /\ FetchLeft = 0 THEN [Idle EXCEPT !.pc = "raised"]
                    ELSE [Idle EXCEPT !.pc = "provider", !.on = today, !.hits = hits, !.left = @ - Len(taken),
                                      !.pages = [i \in DOMAIN taken |-> Page(taken[i], "live", "ok", today)]])
        /\ UNCHANGED <<today, file>>

\* Mutant: the hits come before the pages that were fetched.
HitsFirst(hits, fetched) ==
    LET by(S) == [i \in DOMAIN PutInOrder({p.url : p \in S}) |->
                    CHOOSE p \in S : p.url = PutInOrder({q.url : q \in S})[i]]
    IN  by(hits) \o by(fetched)

\* _in_request_order
InRequestOrder(hits, fetched) ==
    LET urls == PutInOrder({p.url : p \in hits \cup fetched})
    IN  [i \in DOMAIN urls |-> CHOOSE p \in hits \cup fetched : p.url = urls[i]]

\* The provider answers for each URL with a page or with an error.
Provided(r, outcome) ==
    LET f == fetch[r]
        urls == {p.url : p \in SetOf(f.pages)}
        live == {Page(u, "live", outcome[u], today) : u \in {v \in urls : outcome[v] \in PageClasses}}
    IN  /\ f.pc = "provider"
        /\ Moves(r, [f EXCEPT !.pc = "retry", !.hits = {}, !.pages = InRequestOrder(f.hits, live),
                              !.errors = {Failure(u, outcome[u]) :
                                            u \in {v \in urls : outcome[v] \in ErrorClasses}}])
        /\ UNCHANGED <<today, file>>

-----------------------------------------------------------------------------
(* The fallback                                                             *)

\* The URLs that get a second attempt: shells, then transport errors, as many as
\* one retry takes and the budget has left.
RetryUrls(f) ==
    LET shells == {p.url : p \in {q \in SetOf(f.pages) : q.via = "live" /\ q.class = "shell"}}
        dead == {e.url : e \in {x \in f.errors : x.class = "transport"}}
    IN  UpTo(f.left, UpTo(MaxFallback, PutInOrder(shells) \o PutInOrder(dead)))

\* What the fallback found replaces a shell and follows the other pages otherwise.
Retried(f, found) ==
    LET again(u) == Page(u, "fallback", "ok", today)
        inPlace == [i \in DOMAIN f.pages |-> IF f.pages[i].url \in found THEN again(f.pages[i].url)
                                             ELSE f.pages[i]]
        new == PutInOrder(found \ {p.url : p \in SetOf(f.pages)})
    IN  [f EXCEPT !.pages = inPlace \o [i \in DOMAIN new |-> again(new[i])],
                  !.errors = {[e EXCEPT !.recovered = @ \/ e.url \in found] : e \in @}]

\* _retry_with_fallback: only a page that is ok counts, and if the fallback raises
\* all stays as it was.
Retry(r) ==
    LET f == fetch[r]  urls == RetryUrls(f) IN
    /\ f.pc = "retry"
    /\ \E found \in SUBSET SetOf(urls) :
         Moves(r, [Retried(f, found) EXCEPT !.pc = "judge", !.left = @ - Len(urls)])
    /\ UNCHANGED <<today, file>>

-----------------------------------------------------------------------------
(* The judge, the cache and the ledger                                      *)

\* _verdict and _apply_llm: a model may tighten what the rubric says, not loosen it.
Severity(verdict) == IF verdict = "accept" THEN 0 ELSE 1
PageVerdict(base, llm) == IF Severity(llm) > Severity(base) THEN llm ELSE base

Recorded(f, p) == [f EXCEPT !.pages = Tail(@), !.rows = Append(@, p)]
Rejected(f, p) == [f EXCEPT !.pages = Tail(@), !.errors = @ \cup {Failure(p.url, "verdict")}]

Cacheable(p) == p.via # "cache" /\ p.class = "ok"

\* Mutant: a page is cached before it is judged.
JudgePageAfterPut(r, verdict) ==
    LET f == fetch[r]  p == Head(f.pages) IN
    /\ f.pc = "judge" /\ f.pages # <<>>
    /\ Moves(r, IF verdict # "accept" THEN Rejected(f, p) ELSE Recorded(f, p))
    /\ file' = IF Cacheable(p) THEN [file EXCEPT ![p.url] = Entry(r, p.class)] ELSE file
    /\ UNCHANGED today

\* One page: rejected, or recorded; a live one that is ok is cached before, and
\* opening its file empties it.
JudgePage(r, verdict) ==
    LET f == fetch[r]  p == Head(f.pages) IN
    /\ f.pc = "judge" /\ f.pages # <<>>
    /\ \/ verdict # "accept" /\ Moves(r, Rejected(f, p)) /\ UNCHANGED file
       \/ verdict = "accept" /\ ~Cacheable(p) /\ Moves(r, Recorded(f, p)) /\ UNCHANGED file
       \/ /\ verdict = "accept" /\ Cacheable(p)
          /\ Moves(r, [f EXCEPT !.pc = "put"])
          /\ file' = [file EXCEPT ![p.url] = Torn]
    /\ UNCHANGED today

\* The text is written.  If another run writes the same file its text may follow.
Put(r) ==
    LET f == fetch[r]  p == Head(f.pages)
        other == \E s \in Fetchers \ {r} : fetch[s].pc = "put" /\ Head(fetch[s].pages).url = p.url
    IN  /\ f.pc = "put"
        /\ \/ file' = [file EXCEPT ![p.url] = Entry(r, p.class)]
           \/ (other \/ file[p.url] # Torn) /\ file' = [file EXCEPT ![p.url] = Torn]
        /\ Moves(r, [Recorded(f, p) EXCEPT !.pc = "judge"])
        /\ UNCHANGED today

\* Mutant: what the judge rejected is looked for in the archive as well.
LostAlsoRejected(f) == {e \in f.errors : ~e.recovered}

\* _recover_dead_urls, but for the client itself: the errors that are worth a look.
Lost(f) == {e \in f.errors : ~e.recovered /\ e.class # "verdict"}

\* The copies the archive has are recorded as they are.
Archive(r) ==
    LET f == fetch[r] IN
    /\ f.pc = "judge" /\ f.pages = <<>>
    /\ \E found \in SUBSET {e.url : e \in Lost(f)} :
         LET urls == PutInOrder(found) IN
         Moves(r, [f EXCEPT !.pc = "done",
                            !.errors = {[e EXCEPT !.recovered = @ \/ e.url \in found] : e \in @},
                            !.rows = @ \o [i \in DOMAIN urls |-> Page(urls[i], "archive", "ok", today)]])
    /\ UNCHANGED <<today, file>>

\* The run's process dies with the file half written; elsewhere it leaves nothing.
Dies(r) ==
    /\ fetch[r].pc = "put"
    /\ Moves(r, [Idle EXCEPT !.pc = "dead"])
    /\ UNCHANGED <<today, file>>

Day ==
    /\ today < LastDay /\ today' = today + 1
    /\ UNCHANGED <<file, fetch>>

PageFetchNext ==
    \/ Day
    \/ \E r \in Fetchers :
         \/ Look(r) \/ Retry(r) \/ Put(r) \/ Archive(r) \/ Dies(r)
         \/ \E outcome \in [Asked -> PageClasses \cup ErrorClasses] : Provided(r, outcome)
         \/ \E base, llm \in {"accept", "reject"} : JudgePage(r, PageVerdict(base, llm))

PageFetchSpec == PageFetchInit /\ [][PageFetchNext]_pvars

-----------------------------------------------------------------------------
(* Properties                                                               *)

RowsOf(r) == SetOf(fetch[r].rows)
Earlier(u, v) == \E k, l \in DOMAIN Requested : k < l /\ Requested[k] = u /\ Requested[l] = v
Split == {"live", "cache"}

(* A page that the judge of a run rejected is not evidence of that run, whichever  *)
(* way it came or comes back: live, from the cache, from the fallback or from the  *)
(* archive (fetch_service.py:387-390); nor does the run leave it to others.        *)
RejectedStaysOut ==
    \A r \in Fetchers : \A e \in fetch[r].errors : e.class = "verdict" =>
        /\ e.url \notin {p.url : p \in RowsOf(r)}
        /\ file[e.url].is = "page" => file[e.url].by # r

(* Whoever writes it, and wherever a writer died, a page that is served from the   *)
(* cache is a whole one that was good and was fetched within the TTL.             *)
HitsAreGood ==
    \A r \in Fetchers : \A p \in RowsOf(r) \cup fetch[r].hits :
        p.via = "cache" => p.class = "ok" /\ fetch[r].on <= p.day + Ttl

(* "Callers pass URLs in pre-fetch-score order; [...] it must survive the split"   *)
(* (fetch_service.py:430): hits and fetched pages are kept in the order they were   *)
(* asked for, and each URL is evidence at most once.                             *)
OrderSurvives ==
    \A r \in Fetchers : \A i, j \in DOMAIN fetch[r].rows :
        LET p == fetch[r].rows[i]  q == fetch[r].rows[j] IN
        i < j => p.url # q.url /\ ({p.via, q.via} \subseteq Split => Earlier(p.url, q.url))

(* What a fetch() gives to the ledger.                                           *)
PagesAreVetted == RejectedStaysOut /\ HitsAreGood /\ OrderSurvives

=============================================================================
