# Verification of spider-qwen

TLA+ models of the parts of spider-qwen (`src/spider_qwen`) whose correctness depends on the order in which
things happen, the TLC runs that check them on small instances, and TLAPS proofs of the properties that matter
most for every instance.

`PROJECT.json` lists the components, the runs, the mutants each property is tested against, the source lines
behind each definition, the hazards, the findings and the theorems.

## 1. The system

spider-qwen is a procurement research agent. A caller submits a query; a *run* searches the web, fetches pages,
extracts supplier candidates, verifies their claims against the recorded evidence and drafts requests for
quotation, which it never sends. Around that pipeline is a small durable service.

| component | state it keeps | operations | interacts with |
|---|---|---|---|
| run service (`application/run_service.py`) | rows and events in SQLite, a process lock, a thread pool, futures and event loops in memory | start, cancel, close, workers, recovery | one controller per run; API threads |
| entity research runner (`application/entity_research.py`) | work items, reservations in SQLite, a process lock, threads | submit, retry_failed, run_pending, acquire, close, recovery | a handler per work item |
| requirement research (`application/requirement_research.py`) | a ledger and reservations per attempt | one handler call per attempt | the entity runner, approved pages, the ledger |
| evidence ledger (`evidence/ledger.py`) | rows with a hash chain in memory, a write-ahead log, a canonical file with a signed tree head | record, annotate, persist, load, proofs | every step of a run that observes something |
| transparency log (`evidence/transparency.py`, `evidence` commands of `api/cli.py`) | none beyond the ledger's rows | roots, inclusion and consistency proofs, citation proofs, verify, prove | a reader who has only a published head |
| controller (`agent/controller.py`) with budget, compiler, frontier | counters, queues of leads, candidates, all in memory | run, run_reasoning | search and fetch services, ledger, memory, review store |
| what it makes of its pages (`extraction/`, `requirements.py`, `ranking/`, `verification/`, `evidence/verifier.py`) | none | consolidate, assess, rank, verify, grade, repair | the controller, in that order, twice if a round is repeated |
| search and fetch services, page cache (`tools/`) | counters; one cache file per URL, shared by runs | search, fetch, fallback retry, get, put | providers over HTTP, the page judge, budget, ledger |
| web archive client (`serendipity/wayback.py`) | a throttle and a circuit breaker | recover | the archive over HTTP |
| semantic memory (`memory/semantic.py`, `recall.py`, `revalidation.py` and others) | facts in one locked JSON file | upsert, maintain, record_citation, recall, revalidation | controllers of concurrent runs, the `memory` commands |
| supplier identity registry (`identity_registry.py`) | aliases in one locked JSON file | approve_alias, resolve, equivalent | controllers, CLI |
| review store (`governance/review_events.py`) | review events in one JSON file, no lock | create, approve, reject, list | controllers, API, CLI |
| retrieval recipes (`application/retrieval_recipes.py`) | versions, judgements and reports in SQLite | run_shadow, judge, promote | the services above, with what a run's budget has left |
| reasoning trajectories (`reasoning/`) | bundles of one run | run_reasoning | the services above, with caps of their own |
| belief and dispute warnings (`evidence/belief.py`, `ranking/serendipity.py`) | none | fuse, warn | facts and ledger rows |
| providers, planner, RFQ text, graph, modes | none | pure functions over text | controller |
| API, CLI, MCP, observability, benchmarks, web | none that outlives a call | one service call each | run service, entity runner |

What is hard here, and what makes each part correct:

* **Run service.** API threads, workers and `close()` share futures and loops under `self._lock`, but signal them
  outside it; SQLite is read in one transaction and written in the next; the process may die anywhere and the next
  instance recovers. Correct means: admission limits hold under concurrent starts, one run per idempotency key,
  every admitted run ends exactly once, no cancellation is lost, no result is published that had to be withheld,
  and nothing executes without the process lock.
* **Entity and requirement research.** Attempts are fenced by a counter in the row; a requirement's attempt may die
  after it wrote its ledger and before its claim. Correct means: no quota is exceeded, no attempt is executed twice,
  a late answer or a thread left behind changes nothing, nothing is stranded, and a claim rests on the rows of one
  whole attempt.
* **Evidence.** The chain is sealed lazily, the head is kept or replaced on persist, and files are written in
  several steps. Correct means: what a published head covers never changes, what was acknowledged survives a
  crash, and a proof convinces exactly of what the head commits to.
* **A run.** Nodes of one level run concurrently and charge one budget; part of the budget is held back; two rounds
  may be repeated on what earlier ones found. Correct means: the best leads are bought first, nothing is bought
  twice, no budget is stranded, and what is released was verified against pages of this run.
* **Shared files.** Facts and aliases are changed under a file lock; reviews and cached pages are not. Correct means:
  no update is lost where there is a lock, no file is torn where there is none, and an old page, a rejected page
  or a disputed fact is not served.

## 2. Modules

| module | models |
|---|---|
| `RunService` | `run_service.py`: start, cancel, close(wait=True), workers, recovery |
| `EntityResearch` | `entity_research.py`, one dataset |
| `RequirementResearch` | `requirement_research.py`: the attempts of one work item |
| `EvidenceLedger` | `evidence/ledger.py`, one run id |
| `MerkleLog` | `evidence/transparency.py`: the tree, its proofs, citation proofs, redaction, the verifiers |
| `EvidenceCommands` | `evidence verify` and `evidence prove`: an extension of `MerkleLog` |
| `BeliefFusion` | `evidence/belief.py` and the dispute warnings of `ranking/serendipity.py` |
| `Gather` | the SEA, fallback and replan gathers of `controller.py`, `budget.py`, `compiler.py`, the charging of the services |
| `Frontier` | `frontier.py` and the controller's rounds over it |
| `Trajectories` | `reasoning/` and `run_reasoning` |
| `Recipes` | `retrieval_recipes.py`, one version of one recipe |
| `PageFetch` | `fetch_service.py`, `page_cache.py`, the page judge, in concurrent runs |
| `Wayback` | `serendipity/wayback.py` |
| `Candidates` | consolidation, requirements, ranking and verification, as operators over pages |
| `Procurement` | `run()` of `controller.py` from the first gather to the result: an extension of `Candidates` |
| `FactOperations` | what one transaction does to the facts of an owner, as operators |
| `FactStore` | what the semantic memory promises: whole operations, one after the other |
| `SemanticMemory` | `memory/semantic.py` and a run's use of it, shown to implement `FactStore` |
| `SupplierPartition` | what an alias registry promises: a partition that is only coarsened |
| `IdentityRegistry` | `identity_registry.py`, shown to implement `SupplierPartition` |
| `ReviewStore` | `review_events.py` |
| `RunServiceProofs`, `EntityResearchProofs`, `EvidenceProofs`, `GatherProofs`, `SearchPlansProofs`, `SemanticMemoryProofs`, `OwnerFilesProofs`, `ProcurementProofs` | the theorems |
| `MCRunService`, `MCEntityResearch`, `MCGather`, `MCSemanticMemory` | instances of one module each |
| `MCEvidence` | instances of `EvidenceLedger`, `EvidenceCommands`, `RequirementResearch`, `BeliefFusion` |
| `MCSuppliers` | instances of `Procurement`, `IdentityRegistry`, `ReviewStore` |
| `MCSearchPlans` | instances of `Frontier`, `Recipes`, `Trajectories`, `PageFetch`, `Wayback` |

The last three modules put several modules side by side in one run. Their variable `which` is chosen at the start and
never changes, so a behaviour is a behaviour of one of them, the others' variables standing still: the state
space is the sum of theirs, and a property of one is checked on the part that is its own.

Where two components interact, one of the modules has both sides: `RequirementResearch` the runner's treatment of
its one item and the files of its ledger, `SemanticMemory` the run's way from recall to promotion, `PageFetch` the
runs that share the cache and the archive, `Procurement` the review store as what it holds back, `Recipes` what the
baseline left of the budget. The run service drives a controller through a call and a callback (`WorkerEnds`,
`Trace`). Otherwise a module leaves what the other side may do open.

## 3. How the models correspond to the code

An action is one step nothing else can interleave with: a SQLite transaction, a critical section, what a coroutine
does between two awaits, or one read of shared state made outside a lock. Data that no property tells apart
(queries, texts, scores, time stamps) is absent or a member of a small set. `PROJECT.json` maps every definition
to its lines. A definition whose comment begins with "Mutant:" is no part of the model: it is the wrong version of
the definition after it, against which a property is tested.

### RunService

Rows and `run_events` are `status`, `req`, `day`, `cancelReq`, `log`; `runs.lock` is `lockHolder`; `_closed`,
`_lock`, the futures and the keys of `_futures` and `_loops` are `closed`, `mutex`, `future`, `known`, `loops`;
`wpc` is where `_worker` stands between two of its transactions.

* `start()`: the validation of `_closed` before the transaction, the transaction (key lookup, then the limits, then
  the row), the submission to the executor, and the branch that takes the row back if the executor refuses it.
* `cancel()`: its transaction, and the signal to the loop it sends after releasing `_lock`.
* `_worker`: claim, build, register the loop, look for a cancellation, run, and one action per outcome; then
  unregister and close the loop. The controller may end in every way at every time, and lose a trace event.
* `close(wait=True)`: mark rows, signal loops, cancel futures, join the pool, release the lock; it may raise where
  the code can. `close(wait=False)` has no caller in `src/` and is not modelled.
* A SQLite error is an action of its own wherever it comes after something else has changed: in the transactions of a
  worker, of a call that takes its run back, and of `cancel()` and `close()` after they have withdrawn a future. One
  that changes nothing but the answer of the call (in the admission, or in the marking of `cancel()`) is not.
* `Crash` and `Boot`: the process dies; the next instance takes the lock and interrupts the active rows.

Every `start()` call draws a run id before it is admitted, so a run and the call that creates it are one element of
`Runs`. Not followed: readers, and a reader that races the persisting of a result file. The branch of `_worker` for
a row that is already terminal when it is claimed is not an action: the invariant (`OutcomeInv`) shows that no
such row can be claimed.

### EntityResearch

One dataset. The item rows are `status`, `attempts`, `claim`; the counters of reservations `calls` and `cost`. A
runner is `life`, `running` (who holds `_run_lock`) and its threads. `contexts` are the `EntityWorkContext`s ever
given to handlers: an element stays usable after its attempt, as the Python object does. `Reserve` is the
reservation transaction with its fence, `Operate` the operation paid for by it, which comes later. `submit()` and
`retry_failed()` look at `_closed` before their transactions, so they may commit after `close()` has begun.

### RequirementResearch

`payload` is what the work item asks for, `item` its row, `handler` the attempt under way, `log` and `onDisk` the rows
in the write-ahead log and in the file of each ledger name. A name is that of an attempt. The handler
reserves a call, requests one page, records it, and goes on to the next; then it assesses what it recorded and
persists the ledger in its `finally` clause, whatever happened before. A page outside the approved origins, an
exhausted limit, a failed request and a failed write end it early, each as the code does. A write may fail at the end,
when the ledger is persisted, or in the middle, in the `record()` of a page (`FetchPageUnwritten`): the row is then in
memory, and in the log or not.

### EvidenceLedger

One run id. sha256 is injective: a chain hash is the sequence of row contents it binds, and a tree root the
sequence of its leaves. The write-ahead log keeps how its last line ends (`tail`), because a torn append and the
next append make one line. `persist()` is two actions, replacing the file and removing the log, and the process may
die between them. A ledger may be loaded and written to again, which the class supports and its tests do, and which no
run of the program does. A failed append leaves its row in memory, and none, half or the whole of it in the log (the
`fsync` comes after the line); a seal that fails on a malformed key leaves the new head with the old signature in
memory. `acked` are the rows whose `record()` returned while neither that nor a published file stood in the way of the log.

### MerkleLog and EvidenceCommands

Two logs grow side by side, `own` and one that differs from it in altered rows, so that every statement "this proof
verifies for this and not for that" has something to be wrong about. Roots, audit paths and verifiers are the code's
recursions, written as recursive functions so that they can be proved about: of the number of leaves, of the index, of
the position in the path. `_largest_power_of_two_below` is the number its loop stops at. `EvidenceCommands` asks what the two commands answer for every combination of a signed head of either log,
an anchor, an expected key and the switches; all of it is a function of the two logs, so the properties are
evaluated in every state the logs reach.

### BeliefFusion

Reliabilities are hundredths and the masses of n sources are kept in units of 100^-n, so that no rounding enters the
comparison. `Backers` is the list of all sources with the side each is of; `Masses(i)` is what they say of side i.
`Conjunctive` is the code's closed form, three products over that list. `BeliefsAreExact` has three parts:
`FusionIsJoint` compares the closed form with the joint sum over all choices of one element per source, which is what
its docstring says it stands for; `BeliefsCompete` says that what is believed of competing values never adds up to more
than certainty; `CertainConflictWarns` that a dispute in which every side has a near-certain source is always a
warning. The mutant combines the sources one at a time, the mistake that `fuse` warns of. Lists are joined and
multiplied by recursive functions, so that they can be proved about.

### Gather

`pc` is the controller's place in a gather, `node` the nodes of the level in flight, in the order the controller
built them, `order` the order in which they completed, `spent`, `late` and `stop` the `BudgetTracker`, `tokens` the
buckets. A node waits for its token, for the semaphore, is charged, calls, may retry through the fallback, and
ends. `round` is 1 for the SEA gather, 2 for the fallback or corrective one, 3 for the replan after verification.
A level of a single node takes no token, as in the code: this, and the fallback's retry, which takes none either,
are places where the rate limiter does not protect "the live API" as the comment at `controller.py:344` has it.
`called` and `extracted` are history: the provider calls and the pages of the present gather that were extracted.

### Frontier, Trajectories, Recipes

`Frontier`: `leads` and `seen` are the queue's, `fpc` is where the round is: pop queries, pop URLs, read the pages' links,
ask for suppliers without a channel. `possible` is whether entity queries may still come, which is what a part of the
budget is held back for. A URL is its canonical form, a score a rank; a link is one below the page it is on.

`Trajectories`: one strategy after the other, each with its first round and at most one repair; `bundle` keeps sums and
a count, so that averages are compared without rounding.

`Recipes`: the shadow of each run is a walk over the declared plan (`at`) with what the baseline left, and ends in a
report that may quarantine the version all runs share; promotion is a read and a write, between which others may
come.

### PageFetch and Wayback

`PageFetch`: `fetch` is where the `fetch()` of each run is, `file` a cache file, which is written in two steps while
others read it. A URL goes through hit, provider, fallback, judge, cache and archive in the code's order; a page
may be whole, a script's shell or a wall, a failure may be the transport's or final, and the judge may reject. `Wayback`: `now` is the monotonic clock, `recovery` where each coroutine is.
An answer changes the count of 429s in a row as its status says; a call that raises changes nothing and ends the
recovery (`Unanswered`). The properties of time are about the moment a request leaves, which is after the sleep the
throttle asked for.

### Candidates and Procurement

A page is what the extractors and patterns find in it: the row it is about, the channel, price and quantity it
shows, how it puts them in relation to the supplier ("together", "apart", "weakly", "other"), what it says of each
requirement, its tier. A price may be a status ("a quote is required") in place of a number (`OnRequest`), and a page
that gives none has the status NOT_FOUND: two different statuses for the same conditions conflict like two prices. The
currency, of which there is one, is present with a price and absent with a status. `Candidates` turns pages into consolidated candidates, assessments, an order and verdicts;
`Procurement` is the sequence in which the controller calls them, with one action for each of its phases: `step`
says which one is next. A run begins with a request whose switches are the caller's (`Requests`), including what
memory recalled for a row and which rows are disputed there.

### SemanticMemory

A transaction (`txn`) holds the lock, reads the file, changes what it read and replaces the file; a run (`pc`)
recalls, may use a recalled channel, cites it, drafts and promotes, in that order and with others in between; the
operator's commands revalidate and maintain. `FactOperations` is what a transaction does to the facts: the conflict
policy, alternatives, decay, citations, revalidation. Confidences are tenths; a day is what it takes a fact to be
stale.

### IdentityRegistry

`file` is the JSON file, as it is between two `os.replace`, `lock` the file lock, `call` the approval under way with
the aliases it read. `Read` takes the lock and reads (and normalises) the file; then the approval is refused
(`Refuse`), or written (`Write`), or its write fails or its process dies before (`Abandon`) or after (`Die`) the
file is replaced. A chain is followed as a relation, without recursion: `Follows(x, y, to)` says that y is in every
set that contains x and the successor of each of its aliases. Each caller has a registry object of its own, as
every run has. A registry object shared by threads would differ: `resolve()` follows `self._aliases` after it has
released the lock (`identity_registry.py:268`).

### ReviewStore

`reviews` is the file, `tmp` the temporary files by name, `at` and `copy` where an actor is and what it read. Nothing
locks it, so that two operations that overlap may lose one another's change; `overlapped` remembers whether that
could have happened, and the property about what is kept is for behaviours in which it could not.

## 4. Runs and their bounds

| run | instance | shows |
|---|---|---|
| `RunServiceAdmission` | 3 starts of 4 kinds of request (one key used by two owners and for two fingerprints, and a live request without a key), 1 worker, 1 queue slot, 1 live run at a time and per day, 2 days, 2 instances | limits, idempotency |
| `RunServiceShutdown` | 2 runs, a cancellation, a `close()`, 1 trace event, 1 SQLite error, 2 instances | withheld results, the event log, cancellation, shutdown, final outcomes |
| `RunServiceLiveness` | 2 runs, a cancellation, a `close()`, 1 instance | an admitted run ends; `close()` ends |
| `RunServiceCloseRaises` | 1 run, a `close()`, no cancellation, no fault | violation: see section 7 |
| `EntityResearch` | 2 runners of 2 threads, 2 items of 2 attempts, 2 provider calls, 1 fault | quotas, exclusivity, fencing, final claims, progress |
| `Evidence` | a ledger of 3 rows, 1 annotation each, 3 heads, 1 fault; logs of up to 8 leaves, and every alteration of them; a payload of 2 pages from 3 origins, 2 attempts, 3 calls, 2 failed writes; disputes of 3 sides and up to 3 masses of 6 kinds of source | what was recorded survives, heads and proofs are exact, claims rest on one attempt, beliefs are exact |
| `Gather` | 3 queries, 3 URLs, 2 at a time, 1 token a kind, 3 searches, 3 fetches, 3 extractions | budget, order of spending, stop reasons, the run ends |
| `SearchPlans` | 2 templates, 1 entity query, 3 URLs, 4 rounds, a budget of 3 of each kind; 2 shadow runs of a plan of 3 steps over 3 pages; 2 strategies of 2 suppliers, 2 refinements; 2 runs that fetch 2 URLs over 2 days; 2 recoveries in 5 seconds, 1 retry, a breaker at 3 | nothing twice, no stranded budget, fair shadows, no fictitious supplier, vetted pages, the archive spared |
| `WaybackReset` | 1 recovery | violation: see section 7 |
| `SemanticMemory` | 2 runs and the operator, 1 supplier, 2 values in 3 spellings, 2 confidences, 2 days, 1 command | the refinement of `FactStore`; promotions, self-support, recall, disputes |
| `SemanticDisputed` | the same | violation: see section 7 |
| `Suppliers` | 8 pages of 3 suppliers, 6 kinds of request, 3 extractions, 1 page per later round, 1 required supplier; 3 ids, 2 pieces of evidence, 2 callers; 2 creators and 2 reviewers | the answer of a run, the refinement of `SupplierPartition`, approvals and reviews |

Why these bounds:

* A run service property is about at most two runs that compete and the one `close()` and one cancellation that race
  them; a third start exceeds a limit of two or repeats a key twice; two instances are one restart. Two runners are
  what the process lock keeps apart, two threads what the claim keeps apart, and a second attempt what the fence
  keeps apart from the first; the quota of two is below what the handlers may ask for.
* Three rows are one committed, one annotated, one more; three heads one published, one that replaces it, one after a
  restart. Logs of up to eight leaves have every shape of tree up to three levels, perfect and lopsided, which is what
  an inclusion or consistency path depends on. Two attempts of two pages are one that ends half-way and one that
  could mix in its rows. Two sources of one side and one of another agree and disagree at once.
* Three URLs are one more than may be in flight, and three fetches fewer than their levels and retries may ask for. Four rounds of the frontier reach a link,
  a redirect, an entity query and an empty queue. Two shadow runs are one that quarantines what the other executes.
  Two fetches of the same URLs hit, miss, write and read one another's files; `Ttl` 0 makes the second day stale.
  Three 429s in a row need both recoveries and their retries, which is how the breaker opens in practice.
* Two runs of one owner dispute, support or overwrite one another's fact, and the third actor settles it; the second
  day is what turns a fact stale.
* The pages of `Suppliers` are chosen so that consolidation joins two that agree, two that conflict and two that do
  not belong together; that one supplier is qualified by a page of another round; that verification drops one and
  the reserve has one; that a price of one page is attested only by another; that two pages give no price, one of them
  with a reason. Every order of up to three of them at first, and every one that a later round may add, is taken. Three
  ids are what a chain needs, and a cycle through a chain.

`CHECK_DEADLOCK FALSE` stands where a bound ends the behaviour or the system stops: every start was made and
every instance used up, every runner closed, the ledger written, the run done, every command answered.

## 5. Fairness

* `RunService!Fairness`: a thread that can take its next step takes it (the interpreter schedules threads fairly),
  and a deadline that is due passes. Nobody has to call `start`, `cancel` or `close`, a controller need not
  return by itself (its timeout ends it), and no crash, restart or error has to happen.
* `EntityResearch!LiveSpec`: the pool's threads run, a handler returns or raises (provider calls have timeouts), and
  `close()` takes `_run_lock` when nobody holds it. That `run_pending` ends although `retry_failed` may queue more
  work is what the check adds: attempts run out.
* `Gather!LiveSpec`: the event loop runs what is ready, calls answer or raise (the clients set timeouts), buckets
  refill with time. The run's own deadline need never come.

The other modules state no liveness: their loops are bounded by counters their safety properties speak of
(`SpentOrDone`, `ArchiveSpared`), and each of their operations ends by itself.

## 6. Proofs

Proved for every value of the constants, from the named assumptions in the modules:

Every safety invariant and every action property that a run checks has a theorem, but for the two named at the end.

* `RunServiceProofs`: `Spec => []Inv`, and from it `TypeOK`, `AdmissionLimits`, `WithheldResult`, `ExecutingIsOwned`.
  `Inv` is needed because none of these is inductive: that a completion is right depends on where its worker is, on
  the future that worker runs for (`FutureInv`), on who holds the lock (`LockInv`) and on what `close()` has already
  taken away (`CloseInv`). The admission limits are counted with `FS_*` facts about cardinalities; they need that
  only a call that has not been admitted can add a row (`CallInv`). Assumed: `Runs` is finite, calls, cancellations
  and closes are different threads, limits are positive.
  Five more stand on `Inv` and an invariant of their own. `HistoryMatchesRow` and `WorkerOutcomeIsFinal`: every step
  does to each row one of four things, keep, admit, carry on or end it (`RowSteps`), and no call is about to
  submit or withdraw a run its worker has reported on (`FinalInv`). `IdempotentStart`: a row keeps the request of the
  call that wrote it, and no two rows share a key (`KeyInv`). `CancelNotLost`: a task that runs is registered, so who
  cancels finds its loop (`SignalInv`). `CleanShutdown`: what the pool has not taken is in `_futures` and in the copy
  `close()` made of them (`KnownInv`), and an active run is in the hands of somebody, also once the lock was given
  up (`AttendedInv`).
* `EntityResearchProofs`: `Spec => []Inv`, and from it `TypeOK`, `QuotaHolds`, `ExclusiveExecution`,
  `AttemptsAreSpent`, `NothingStranded`, `CompletedIsFinal`, `GrantsOnlyToExecutor`. The heart is that an executing
  thread holds the current attempt of its item (`ExecutionInv`), that contexts are numbered apart (`AttemptInv`), and
  that without faults the converse holds (`FaultlessInv`). The counters of reservations number the operations, which
  turns a sum over all operations into a bound on a number (`SpendingInv`).
* `EvidenceProofs`: `Spec => []LedgerInv` of the ledger, and from it `PublishedIsSound`, `RecordedSurvives` and
  `PublishedHeadStands`. `LedgerInv` says what memory (`MemoryInv`), the file (`FileInv`), the log (`LogInv`) and the
  last head (`HeadInv`) hold of one another, and where each acknowledged row is (`AckedInv`), between the two
  steps of `persist()` as well. Sealing a chain makes each row's hash its prefix; that sealing again, or a row more,
  keeps what a head covers is what the lemmas on prefixes say. `Spec => []ResearchInv` of a work item's attempts, and
  from it `ClaimsBacked`: the rows of an attempt are its log until it persists them, and one that returns a
  claim has every page. `MerkleSpec => []LogsInv` of the two logs, and from it `ProofsConvince`, for logs of any length:
  the induction over the tree is described below.
  That the proofs of the transparency log are exact is where the verifiers' bit arithmetic is justified. A tree of n
  leaves splits at one number, the largest power of two below n (`SplitUnique`, from `Ascended`: a power of two is what
  ascends to 1). Two trees of one size have the same root exactly if they have the same leaves, and a leaf's audit paths
  in two logs are the same exactly if all other leaves are, because a hash is the term it was computed from (`MthEqual`,
  `PathEqual`). A climb in the whole tree goes with the climb in the part it starts in, until that one is over, and then
  takes one hash more. The left part is full, so the last node of each of its levels is a right child and no level is
  skipped there, nor in the tree, whose last node is further right (`LeftStays`). In the right part the indices are those
  of the tree less a power of two, which halving, ascending and comparing them does not see (`RightStays`, from
  `AscendedShift`). `ClimbExact` and `ConsistencyClimb` then go by induction over the split, for a part at any place:
  the first for one leaf, where a climb that starts or goes otherwise reaches another root or none; the second for the
  two roots together, with the first root in place of the first hash where the first tree is full, which is the case
  `verify_consistency` makes of powers of two. What the two commands answer follows by cases over the settings.
* `GatherProofs`: `Spec => []Inv`, and from it `TypeOK`, `BudgetHolds`, `BudgetGoesToBest`, `ReasonHolds`. What is left
  of the search budget reaches for the nodes that may still be charged and for the one search that is held back
  (`SearchInv`, by cardinalities); nodes take tokens and slots in turn (`TurnInv`); once a fetch was refused none is
  charged any more (`DeniedInv`), which is why the fetches that were made are of the best URLs.
* `SearchPlansProofs`: `NothingTwice` and `SpentOrDone` from `FrontierInv`, `ShadowIsFair` from `RecipeInv`,
  `NoFictitiousSupplier` from `TrajectoryInv`, `PagesAreVetted` from `PageInv`, `ArchiveSpared` from `ArchiveInv`.
  `TrajectoryInv` bounds the reward of a merged bundle by its count times that of the best of its suppliers, through sums
  over sets. `PageInv` says of every fetch how what is recorded, waiting and failed lines up with the request, and of
  every cache file that it is a good page and evidence of the run that left it, or of a run that died. `ArchiveInv` dates
  the requests a recovery waits for and counts how often it has asked. Sums and the order of a batch are recursive
  functions: that they are what their equations say, and what they return, is by induction over sets of sets or of
  numbers, from the least element that a set of naturals has (`WellFoundedInduction`). Assumed: queries, pages,
  suppliers and dimensions are finitely many, and a fetch names no URL twice, as the callers in `src/` see to.
* `SemanticMemoryProofs`: `Spec => []Inv`, the refinement `Spec => Serializable`, `PromotionKept`, `NoSelfSupport`,
  `RecallIsSound`, `DisputeStands`; and of `BeliefFusion`, below. `LockInv` says that whoever has an operation under way holds the lock and has read
  what is in the file, so that a commit is `Applied(facts, op)`; the lemmas of the operations say what each keeps of a
  fact (`KeptFrom`, `Renewed`). That no side is surer than the one shown needs the side `Surest` chooses to exist,
  which is where confidences are tenths. That a recalled fact is fresh needs what may be under way between a run's
  `maintain()` and its recall: no operation that commits then is of an earlier day (`FreshInv`). Assumed: confidences
  are 0 to 10 tenths, the operator is no run, and a fact becomes stale after at least a day.
  Of belief fusion: `BeliefSpec => []BeliefsAreExact`. The state needs no more than its type; the work is arithmetic over
  lists of any length. What all choices of an element from each mass yield together is the product over the masses of
  what each offers (`WaysAre`, by induction over the masses). The choices that give no verdict, one of the two, or both
  are disjoint and are all there are (`GivingParts`), so three products decide the four sums, and the closed form is
  the joint combination (`CombinationIsJoint`). What the sources of a side leave to it alone, summed over the sides,
  and what is left open altogether fits in the mass there is (`Fits`, by induction over the sources), hence beliefs add
  up to at most certainty, with the conflict divided out or not (`BeliefsAddUp`). If every side has a near-certain
  source, each side is open to at most a tenth of the mass, so more than the threshold is conflict
  (`CertainIsExcessive`), and the side believed most, which exists (`TopSideIs`), carries the warning. Assumed: the
  clamp `_MAX_RELIABILITY` is at least 90 hundredths and the threshold at most 80, which the code's 0.99 and 0.8 meet,
  and weights are naturals.
* `OwnerFilesProofs`, of the two files that the owner's commands write. The registry: `Spec => []Inv`, the refinement
  `Spec => PartitionSpec`, `AnswersStand`, `ApprovalsStand`, `EvidenceKept`. `Inv` says that the file is flat, every
  alias naming a canonical id, and that the one who changes it holds the lock and has read what is there. On a flat
  file a chain has one link, and two right after an approval, so what `_resolve_from` and `_normalize` return follows
  by cases, without induction. The review store: `ReviewSpec => []ReviewInv`, and from it `ReviewsKept`. What is about
  to replace the file is whole (`WholeInv`); until two operations overlap there is one at a time and it has read what is
  there (`AloneInv`); the events in the file are then those of runs that are over, as they were answered (`KeptInv`).
  Assumed: a run that creates a review is no reviewer.
* `ProcurementProofs`: `ProcurementSpec => []RunInv`, and from it `OutputIsRight` and `ReleasesAreVetted`. Neither is
  inductive: that no two pages of a row in the output clash depends on every merge since the first round. `RunInv` says
  that there is one candidate of a row (`Single`); that each is fit, citing pages of its row that were fetched, with its
  endpoints from what it cites, and in conflict if its offers contradict each other (`Fit`); that it covers every page
  read of its row, whose offer, pricing status and domain it has unless it is in conflict (`Covers`); that a candidate
  which cites a page the run did not read already met its requirements on those it did (`Known`); where each output row
  and verdict comes from (`OutputInv`), and what was let out (`ReleaseInv`). The lemmas say of each operator of
  `Candidates` what it keeps: of `dedupe_candidates`, for any order and any number of merges, that the result is single
  and includes every candidate it was made from; of `rank`, that it is a permutation of those that rank; of a verdict,
  that a verified one has a page of the ledger for every claim, and one that says proceed the very page the claim cites;
  of the reserve, by the positions of what passed, that it stops at the minimum and not before. What is picked, merged
  and sorted are recursive functions, computed a position at a time. Assumed: memory is no page, and the
  numbers of the budget are positive and in order.

What is proved and also checked by a run, on the instance of section 4:

* run service: `AdmissionLimits`, `IdempotentStart`, `WithheldResult`, `HistoryMatchesRow`, `WorkerOutcomeIsFinal`,
  `CancelNotLost`, `CleanShutdown`;
* research: `QuotaHolds`, `ExclusiveExecution`, `CompletedIsFinal`, `GrantsOnlyToExecutor`, `ClaimsBacked`;
* evidence: `PublishedIsSound`, `RecordedSurvives`, `PublishedHeadStands`, `ProofsConvince`, `BeliefsAreExact`;
* a run's searches: `BudgetHolds`, `BudgetGoesToBest`, `ReasonHolds`, `NothingTwice`, `SpentOrDone`, `ShadowIsFair`,
  `NoFictitiousSupplier`, `PagesAreVetted`, `ArchiveSpared`;
* shared files: the refinements of `SupplierPartition` and `FactStore`, `ApprovalsStand`, `PromotionKept`,
  `NoSelfSupport`, `RecallIsSound`, `DisputeStands`, `ReviewsKept`;
* the answer of a run: `OutputIsRight`, `ReleasesAreVetted`.

`TypeOK`, the inductive invariants, `ExecutingIsOwned`, `AttemptsAreSpent`, `NothingStranded`, `AnswersStand` and
`EvidenceKept` are proved and no run repeats them.

Only model-checked is liveness (`RunEnds` and `CloseEnds` of the run service and of the entity runner, `RunEnds` of a
gather), which is out of the prover's reach.

## 7. What the code does and its documents do not say

Three runs end in a violation, each a place where the repository says otherwise:

* `RunServiceCloseRaises` (`CompletedServiceReopens`): `close()` signals loops outside the lock that keeps them
  registered, and raises if one is closed in between; the lock file stays held and a later `close()` does nothing. This
  needs no cancellation: a run is completed, and a caller that waits for it goes on, before its worker has taken its
  loop off the list. `tests/test_run_service.py:172-179` and `tests/test_requirements.py:99-109` do just that (wait,
  `close()`, open the directory again) and rely on the worker being faster.
* `SemanticDisputed` (`NoDisputedInDraft`): a run asks whether a recalled fact may be quoted of the copy it took when it
  started; another run may dispute the fact before the draft is written.
* `WaybackReset` (`OnlySuccessResets`): every answer but a 429 resets the count of 429s, a 503 or a 404 as well.

Met on the way and stated in the modules, without a run of their own:

* `close()` cancels futures from a copy made earlier, and takes one that `cancel()` has withdrawn in between for its
  own, so that a cancelled run gets two terminal events (`run_service.py:794`). `WorkerOutcomeIsFinal` says what holds.
* Rows recorded after a `persist()` or a `load()` are in the log only, and `load()` prefers the file
  (`RecordedSurvives` says for which rows it holds).
* Pages reach the extraction cap in the order their nodes completed, not in the order of their scores.
* `promote` reads a recipe's state and writes it in two transactions; a quarantine in between is overwritten
  (`retrieval_recipes.py:371`).
* Recoveries that passed the throttle's sleep together send together, and one that is in its backoff when the breaker
  opens still sends.
* `evidence prove` with an expected key fails when the ledger has no signed head, although none was required;
  `evidence verify` passes there (`ProveIsStrict` says how the two compare).

## 8. Not modelled

Left out of the modules there are:

* `NothingStranded`, `CleanShutdown`, `GrantsOnlyToExecutor` and `RecordedSurvives` are stated without faults
  (`faults = 0`, or in the last case `acked`): a SQLite error in a handler's last transaction does strand its item or
  row until the next start-up, and a torn append does cut the log.
* `EvidenceLedger`: a reader that finds no file, after which the file appears and the log goes, and then finds no log.
* `Gather`: dependencies between nodes, which no caller in `src/` makes; when a node raises, the nodes that go on are
  not followed. Which candidates qualify is left open there, and decided in `Procurement`, where which pages a round
  finds is left open.
* `EntityResearch`: a reservation of more than one provider call at once, which `EntityWorkContext` allows and no
  handler in `src/` makes.
* `Frontier`, `Trajectories`: the arithmetic of scores and the words of a query. The posterior over strategies decides
  nothing. Of the reward, `evidence_diversity` (a weight of 0.05) and the penalties (`process_reward.py:20,58-67`) are
  left out: they decide which of the bundles is the winner, which no property is about. What is shown of a merged
  bundle's reward is about the part that is modelled.
* `Procurement`, `Candidates`: what a sentence says is given (see section 3); the weights of the ranking are one rank;
  the calibration that fits a threshold is not there, the threshold is; costs and latencies are not. The critical claims
  are verified one by one; of the others, the name and the minimum order, what is found is given with a page (`minor`)
  and counts for the decision, as in `verifier.py:176`, and not for the grade, which the code may take lower. Readiness
  leaves out runs on offline fixtures and drafts with missing inputs (`readiness.py:26-33`), which the code calls less
  ready: more rows are ready in the model than in the code, and what is shown holds of all of them.
* `PageFetch`: the client that brings pages back is reduced to what it finds; `Wayback` is the client. No code in `src/`
  gives the client to the fetch service: its tests do.
* `SemanticMemory`: which of the readable facts a query finds; the vector backend is another reader. `Command` reads the
  evidence of the operator's command in the transaction that uses it; the CLI reads the fact just before
  (`revalidation.py:26-34`).
* `BeliefFusion`: floating point, for exact hundredths.
* `IdentityRegistry` has no registry without a state directory, and no file damaged from outside.

Components of the system that have no module, and why:

* Providers and model clients, extraction, modes and identity, RFQ text, serendipity's query rewriting, derived
  evidence views, benchmarks: HTTP and model calls, and patterns over text. Their state, where there is any, does not
  outlive a call, and what they return is left open in the modules that use it. What could be wrong in them is a
  pattern, which a test with a text shows better than a model.
* The supplier graph: a PageRank in floating point over one ledger, by one thread.
* Planner, policy and tool registry, governance tables, skills: configuration that nothing changes after start-up.
* The other memories and the audit file: append-only JSON lines that most callers in `src/` do not wire into a run.
* API, CLI, MCP, observability and the web interface: each request is one call of a service that has a module, or a
  rendering of what it returned. The two `evidence` commands, which decide something, are in `EvidenceCommands`.

## 9. Plan

Done: every component whose state is shared, persistent or bounded has a module and a run, and every invariant and
action property of the passing runs is proved. What is left, in this order:

1. An abstract append-only log that the published heads of `EvidenceLedger` implement.
2. `load()` of a ledger in the middle of a `persist()` by another process.
3. The frontier's rounds inside `Gather`, in place of the two modules side by side, when the state space allows it.
