--------------------------- MODULE EntityResearch ---------------------------
(***************************************************************************)
(* The checkpointed entity research runner of                               *)
(* spider_qwen/application/entity_research.py, for one dataset (owner,      *)
(* dataset_id, input_version).                                              *)
(*                                                                          *)
(* Work items live in SQLite.  A runner instance holds the process lock of  *)
(* its state directory, recovers the items a dead runner left running, and  *)
(* executes queued items on a pool of threads.  A handler spends provider   *)
(* calls only through the context of the attempt it was given; a thread the *)
(* handler left behind may still use that context after the attempt is over.*)
(* submit() and retry_failed() read _closed before their transaction, so a  *)
(* call that began in time may commit at any later time.                    *)
(***************************************************************************)
EXTENDS Naturals, FiniteSets

CONSTANTS
    Items,        \* work ids, ordered: the key of a work item is its identity
    Runners,      \* runner instances, each constructed at most once
    Workers,      \* threads of a runner's pool (max_concurrency)
    Nobody,       \* no holder of the process lock
    MaxAttempts,  \* max_attempts of every item
    MaxCalls,     \* limits.max_provider_calls
    MaxCost,      \* limits.max_cost_micros
    Costs,        \* what one acquire may ask for, in micro-units
    MaxFaults     \* bound: SQLite errors and handlers that die of a BaseException

ASSUME EntityResearchAssumption ==
    /\ Items \subseteq Nat /\ Costs \subseteq Nat
    /\ MaxAttempts \in Nat \ {0}
    /\ MaxCalls \in Nat /\ MaxCost \in Nat /\ MaxFaults \in Nat
    /\ IsFiniteSet(Workers)
    /\ Nobody \notin Runners

VARIABLES
    \* entity_research.sqlite3: the items, the attempt that made the claim (0:
    \* no claim), and the dataset's two reservation counters
    status, attempts, claim, calls, cost,
    \* entity_research.lock: the runner that holds it
    lock,
    \* per runner: its life, whether run_pending holds _run_lock, its threads
    life, running, worker,
    \* the contexts handlers were given, the reservations whose operation has
    \* not begun, and the numbers of those whose operation has
    contexts, granted, begun,
    faults

store == <<status, attempts, claim, calls, cost>>
spending == <<contexts, granted, begun>>
vars == <<store, lock, life, running, worker, spending, faults>>

Off == [pc |-> "off", item |-> 0, attempt |-> 0]
At(pc, i, a) == [pc |-> pc, item |-> i, attempt |-> a]
Context(k, i, a) == [runner |-> k, item |-> i, attempt |-> a]

Claimable == {i \in Items : status[i] = "queued" /\ attempts[i] < MaxAttempts}
Current(i, a) == status[i] = "running" /\ attempts[i] = a
Alive == {k \in Runners : life[k] \in {"open", "closing", "closed"}}
Fault == faults < MaxFaults /\ faults' = faults + 1
Becomes(k, w, x) == worker' = [worker EXCEPT ![k][w] = x]

Init ==
    /\ status = [i \in Items |-> "absent"]
    /\ attempts = [i \in Items |-> 0]
    /\ claim = [i \in Items |-> 0]
    /\ calls = 0 /\ cost = 0
    /\ lock = Nobody
    /\ life = [k \in Runners |-> "new"]
    /\ running = [k \in Runners |-> FALSE]
    /\ worker = [k \in Runners |-> [w \in Workers |-> Off]]
    /\ contexts = {} /\ granted = {} /\ begun = {}
    /\ faults = 0

-----------------------------------------------------------------------------
(* The runner's life                                                        *)

\* Mutant: recovery also returns what the interrupted attempts had reserved.
OpenRefunding(k) ==
    /\ life[k] = "new" /\ lock = Nobody
    /\ lock' = k /\ life' = [life EXCEPT ![k] = "open"]
    /\ status' = [i \in Items |->
                    IF status[i] # "running" THEN status[i]
                    ELSE IF attempts[i] < MaxAttempts THEN "queued" ELSE "failed"]
    /\ calls' = 0 /\ cost' = 0
    /\ UNCHANGED <<attempts, claim, running, worker, spending, faults>>

\* __init__: the lock, then the items a dead runner left running are queued
\* again, or failed if that was their last attempt.
Open(k) ==
    /\ life[k] = "new" /\ lock = Nobody
    /\ lock' = k /\ life' = [life EXCEPT ![k] = "open"]
    /\ status' = [i \in Items |->
                    IF status[i] # "running" THEN status[i]
                    ELSE IF attempts[i] < MaxAttempts THEN "queued" ELSE "failed"]
    /\ UNCHANGED <<attempts, claim, calls, cost, running, worker, spending, faults>>

CloseBegin(k) ==
    /\ life[k] = "open"
    /\ life' = [life EXCEPT ![k] = "closing"]
    /\ UNCHANGED <<store, lock, running, worker, spending, faults>>

\* Mutant: close() does not wait for run_pending.
CloseEndEarly(k) ==
    /\ life[k] = "closing"
    /\ lock' = Nobody /\ life' = [life EXCEPT ![k] = "closed"]
    /\ UNCHANGED <<store, running, worker, spending, faults>>

\* The rest of close() needs _run_lock.
CloseEnd(k) ==
    /\ life[k] = "closing" /\ ~running[k]
    /\ lock' = Nobody /\ life' = [life EXCEPT ![k] = "closed"]
    /\ UNCHANGED <<store, running, worker, spending, faults>>

\* The process of a runner dies: its lock, threads and contexts are gone.
Crash(k) ==
    /\ k \in Alive
    /\ lock' = IF lock = k THEN Nobody ELSE lock
    /\ life' = [life EXCEPT ![k] = "dead"]
    /\ running' = [running EXCEPT ![k] = FALSE]
    /\ worker' = [worker EXCEPT ![k] = [w \in Workers |-> Off]]
    /\ granted' = {g \in granted : g.runner # k}
    /\ UNCHANGED <<store, contexts, begun, faults>>

-----------------------------------------------------------------------------
(* The queue                                                                *)

\* submit(): an item that exists already is left as it is.
Submit(S) ==
    /\ Alive # {}
    /\ status' = [i \in Items |-> IF i \in S /\ status[i] = "absent" THEN "queued"
                                  ELSE status[i]]
    /\ status' # status
    /\ UNCHANGED <<attempts, claim, calls, cost, lock, life, running, worker, spending, faults>>

\* Mutant: retry_failed() queues whatever it was asked for.
RetryAny(S) ==
    /\ Alive # {}
    /\ status' = [i \in Items |->
                    IF i \in S /\ status[i] \in {"failed", "completed"} THEN "queued" ELSE status[i]]
    /\ status' # status
    /\ UNCHANGED <<attempts, claim, calls, cost, lock, life, running, worker, spending, faults>>

\* retry_failed(): failed items that have an attempt left, selected or all.
Retry(S) ==
    /\ Alive # {}
    /\ status' = [i \in Items |->
                    IF i \in S /\ status[i] = "failed" /\ attempts[i] < MaxAttempts
                    THEN "queued" ELSE status[i]]
    /\ status' # status
    /\ UNCHANGED <<attempts, claim, calls, cost, lock, life, running, worker, spending, faults>>

-----------------------------------------------------------------------------
(* run_pending() and its threads                                            *)

RunBegin(k) ==
    /\ life[k] = "open" /\ ~running[k]
    /\ \E W \in SUBSET Workers :
         /\ IF Cardinality(Claimable) < Cardinality(Workers)
            THEN Cardinality(W) = Cardinality(Claimable) ELSE W = Workers
         /\ W # {}
         /\ worker' = [worker EXCEPT ![k] =
                         [w \in Workers |-> IF w \in W THEN At("claim", 0, 0) ELSE Off]]
    /\ running' = [running EXCEPT ![k] = TRUE]
    /\ UNCHANGED <<store, lock, life, spending, faults>>

RunEnd(k) ==
    /\ running[k] /\ \A w \in Workers : worker[k][w] = Off
    /\ running' = [running EXCEPT ![k] = FALSE]
    /\ UNCHANGED <<store, lock, life, worker, spending, faults>>

\* Mutant: the attempt is counted when it ends, not when it begins.
ClaimUncounted(k, w) ==
    /\ worker[k][w].pc = "claim"
    /\ \E i \in Claimable :
       /\ \A j \in Claimable : i <= j
       /\ status' = [status EXCEPT ![i] = "running"]
       /\ contexts' = contexts \cup {Context(k, i, attempts[i])}
       /\ Becomes(k, w, At("handle", i, attempts[i]))
    /\ UNCHANGED <<attempts, claim, calls, cost, lock, life, running, granted, begun, faults>>

\* _claim_next: the first queued item, in one transaction.
Claim(k, w) ==
    /\ worker[k][w].pc = "claim"
    /\ \E i \in Claimable :
       /\ \A j \in Claimable : i <= j
       /\ status' = [status EXCEPT ![i] = "running"]
       /\ attempts' = [attempts EXCEPT ![i] = @ + 1]
       /\ contexts' = contexts \cup {Context(k, i, attempts[i] + 1)}
       /\ Becomes(k, w, At("handle", i, attempts[i] + 1))
    /\ UNCHANGED <<claim, calls, cost, lock, life, running, granted, begun, faults>>

ClaimNothing(k, w) ==
    /\ worker[k][w].pc = "claim" /\ Claimable = {}
    /\ Becomes(k, w, Off)
    /\ UNCHANGED <<store, lock, life, running, spending, faults>>

\* The handler returns a claim for the locked identity, or it raises: an error
\* of its own, a denied reservation, a claim about something else.
HandlerEnds(k, w) ==
    /\ worker[k][w].pc = "handle"
    /\ \E pc \in {"complete", "fail"} :
         Becomes(k, w, [worker[k][w] EXCEPT !.pc = pc])
    /\ UNCHANGED <<store, lock, life, running, spending, faults>>

\* _complete: only the current attempt of a running item may set its claim.
Complete(k, w) ==
    /\ worker[k][w].pc = "complete"
    /\ LET i == worker[k][w].item  a == worker[k][w].attempt IN
       \/ /\ Current(i, a)
          /\ status' = [status EXCEPT ![i] = "completed"]
          /\ claim' = [claim EXCEPT ![i] = a]
          /\ Becomes(k, w, At("claim", 0, 0))
       \/ /\ ~Current(i, a)
          /\ Becomes(k, w, At("fail", i, a))
          /\ UNCHANGED <<status, claim>>
    /\ UNCHANGED <<attempts, calls, cost, lock, life, running, spending, faults>>

\* _fail
Fail(k, w) ==
    /\ worker[k][w].pc = "fail"
    /\ LET i == worker[k][w].item IN
       status' = IF Current(i, worker[k][w].attempt)
                 THEN [status EXCEPT ![i] = "failed"] ELSE status
    /\ Becomes(k, w, At("claim", 0, 0))
    /\ UNCHANGED <<attempts, claim, calls, cost, lock, life, running, spending, faults>>

\* An error in _complete goes to _fail; one in _claim_next or _fail, and a
\* BaseException of the handler, end the thread and leave the item running.
WorkerError(k, w) ==
    /\ \/ worker[k][w].pc = "complete" /\ Becomes(k, w, [worker[k][w] EXCEPT !.pc = "fail"])
       \/ worker[k][w].pc \in {"claim", "handle", "fail"} /\ Becomes(k, w, Off)
    /\ Fault
    /\ UNCHANGED <<store, lock, life, running, spending>>

-----------------------------------------------------------------------------
(* EntityWorkContext.acquire                                                *)

\* Mutant: any context of a running item may reserve.
ReserveUnfenced(x, c) ==
    /\ x \in contexts /\ x.runner \in Alive
    /\ status[x.item] = "running"
    /\ calls + 1 <= MaxCalls /\ cost + c <= MaxCost
    /\ calls' = calls + 1 /\ cost' = cost + c
    /\ granted' = granted \cup {[runner |-> x.runner, number |-> calls + 1]}
    /\ UNCHANGED <<status, attempts, claim, lock, life, running, worker, contexts, begun, faults>>

\* _reserve: the upper bound of one provider call (provider_calls is 1, its
\* default), charged before it is made and never given back.
Reserve(x, c) ==
    /\ x \in contexts /\ x.runner \in Alive
    /\ Current(x.item, x.attempt)
    /\ calls + 1 <= MaxCalls /\ cost + c <= MaxCost
    /\ calls' = calls + 1 /\ cost' = cost + c
    /\ granted' = granted \cup {[runner |-> x.runner, number |-> calls + 1]}
    /\ UNCHANGED <<status, attempts, claim, lock, life, running, worker, contexts, begun, faults>>

Operate(g) ==
    /\ granted' = granted \ {g}
    /\ begun' = begun \cup {g.number}
    /\ UNCHANGED <<store, lock, life, running, worker, contexts, faults>>

-----------------------------------------------------------------------------
WorkerStep(k, w) ==
    Claim(k, w) \/ ClaimNothing(k, w) \/ HandlerEnds(k, w) \/ Complete(k, w) \/ Fail(k, w)

Next ==
    \/ \E k \in Runners :
         \/ Open(k) \/ CloseBegin(k) \/ CloseEnd(k) \/ Crash(k) \/ RunBegin(k) \/ RunEnd(k)
         \/ \E w \in Workers : WorkerStep(k, w) \/ WorkerError(k, w)
    \/ \E S \in SUBSET Items : Submit(S) \/ Retry(S)
    \/ \E x \in contexts, c \in Costs : Reserve(x, c)
    \/ \E g \in granted : Operate(g)

Spec == Init /\ [][Next]_vars

\* The pool's threads run and every handler returns or raises; close() gets
\* _run_lock once nobody holds it.
LiveSpec ==
    Spec /\ \A k \in Runners : /\ \A w \in Workers : WF_vars(WorkerStep(k, w))
                               /\ WF_vars(RunEnd(k)) /\ WF_vars(CloseEnd(k))

-----------------------------------------------------------------------------
(* Properties                                                               *)

WorkerStates == [pc : {"off", "claim", "handle", "complete", "fail"},
                 item : Items \cup {0}, attempt : Nat]

(* Every variable has its type. *)
TypeOK ==
    /\ status \in [Items -> {"absent", "queued", "running", "completed", "failed"}]
    /\ attempts \in [Items -> Nat] /\ claim \in [Items -> Nat]
    /\ calls \in Nat /\ cost \in Nat
    /\ lock \in Runners \cup {Nobody}
    /\ life \in [Runners -> {"new", "open", "closing", "closed", "dead"}]
    /\ running \in [Runners -> BOOLEAN]
    /\ worker \in [Runners -> [Workers -> WorkerStates]]
    /\ contexts \subseteq [runner : Runners, item : Items, attempt : Nat]
    /\ granted \subseteq [runner : Runners, number : Nat]
    /\ begun \subseteq Nat
    /\ faults \in Nat

Executing(k, w) == worker[k][w].pc \in {"handle", "complete", "fail"}

(* Whatever crashes, retries and leftover threads do, reservations stay within *)
(* the dataset's limits and every operation that began was paid for by one of  *)
(* its own, still on the books.                                               *)
QuotaHolds ==
    /\ calls <= MaxCalls /\ cost <= MaxCost
    /\ begun \cap {g.number : g \in granted} = {}
    /\ \A n \in begun \cup {g.number : g \in granted} : n \in 1..calls

(* An item is executed by one thread at a time, of the runner that holds the   *)
(* process lock: a second runner never recovers and repeats what the first is  *)
(* still executing (entity_research.py:844-846).                              *)
ExclusiveExecution ==
    /\ \A k \in Runners, w \in Workers : Executing(k, w) => lock = k
    /\ \A k, l \in Runners, w, v \in Workers :
         Executing(k, w) /\ Executing(l, v) /\ worker[k][w].item = worker[l][v].item
            => k = l /\ w = v

(* No attempt of an item is given out twice, and no more than max_attempts are, *)
(* counting the ones a crash cut short.                                       *)
AttemptsAreSpent ==
    /\ \A i \in Items : attempts[i] <= MaxAttempts
    /\ \A x, y \in contexts : x.item = y.item /\ x.attempt = y.attempt => x = y

(* "completed claims remain immutable" (entity_research.py:732).              *)
CompletedIsFinal ==
    [][\A i \in Items : status[i] = "completed" =>
           status'[i] = "completed" /\ claim'[i] = claim[i] /\ attempts'[i] = attempts[i]]_vars

(* A context is worthless once its attempt is over: a thread that outlived it   *)
(* cannot spend on, not even while a later attempt of the same item runs.      *)
GrantsOnlyToExecutor ==
    [][\A x \in contexts, c \in Costs : faults = 0 /\ Reserve(x, c) =>
         \E k \in Runners, w \in Workers :
            Executing(k, w) /\ worker[k][w].item = x.item /\ worker[k][w].attempt = x.attempt]_vars

(* When the runner that holds the lock is not running anything, no item is     *)
(* left in the running state, where neither run_pending nor retry_failed would *)
(* pick it up again.                                                          *)
NothingStranded ==
    faults = 0 => \A k \in Runners : lock = k /\ ~running[k] =>
                     \A i \in Items : status[i] # "running"

(* run_pending() returns although retry_failed() may add work while it runs,   *)
(* and so close() gets to release the lock.                                   *)
CloseEnds == \A k \in Runners : life[k] = "closing" ~> life[k] \in {"closed", "dead"}

-----------------------------------------------------------------------------
(* The inductive invariant                                                  *)

\* One runner holds the lock from __init__ to close(), and only it executes.
LockInv ==
    \A k \in Runners :
       /\ life[k] \in {"open", "closing"} <=> lock = k
       /\ running[k] => lock = k
       /\ \A w \in Workers : worker[k][w].pc # "off" => running[k]

\* A thread executes the current attempt of its item, through that attempt's
\* context, and no other thread of the runner does.
ExecutionInv ==
    \A k \in Runners, w \in Workers : Executing(k, w) =>
       LET i == worker[k][w].item  a == worker[k][w].attempt IN
       /\ i \in Items /\ Current(i, a)
       /\ \A v \in Workers : Executing(k, v) /\ worker[k][v].item = i => v = w

\* Attempts are numbered, and a context carries the number of its own.
AttemptInv ==
    /\ \A i \in Items : attempts[i] <= MaxAttempts
    /\ \A x \in contexts : x.attempt <= attempts[x.item]
    /\ \A x, y \in contexts : x.item = y.item /\ x.attempt = y.attempt => x = y

\* Without a fault, an item is running, and a context current, only while a
\* thread of the runner it belongs to executes it.
FaultlessInv ==
    faults = 0 =>
      /\ \A k \in Runners, i \in Items : lock = k /\ status[i] = "running" =>
            \E w \in Workers : Executing(k, w) /\ worker[k][w].item = i
      /\ \A x \in contexts : x.runner \in Alive /\ Current(x.item, x.attempt) =>
            lock = x.runner

\* A reservation pays for one operation.
SpendingInv ==
    /\ QuotaHolds
    /\ \A g, h \in granted : g.number = h.number => g = h

(* The dataset's bookkeeping and its runners agree: what the parts above say,  *)
(* together.  Every safety theorem of EntityResearchProofs follows from it.   *)
Inv == TypeOK /\ LockInv /\ ExecutionInv /\ AttemptInv /\ FaultlessInv /\ SpendingInv

=============================================================================
