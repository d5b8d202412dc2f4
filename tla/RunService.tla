----------------------------- MODULE RunService -----------------------------
(***************************************************************************)
(* The durable run scheduler of spider_qwen/application/run_service.py.     *)
(*                                                                          *)
(* API threads call start, cancel and close; a pool of worker threads       *)
(* executes admitted runs; SQLite holds the run rows and the event log; a   *)
(* file lock admits one service instance per state directory.  A step is    *)
(* one SQLite transaction, one critical section of self._lock, or one       *)
(* observation of shared state made outside both, so every interleaving of  *)
(* those is a behaviour.  The controller a worker drives is external: it    *)
(* may return, raise, time out, or be cancelled.                            *)
(*                                                                          *)
(* A thread is one call.  Every start() draws a fresh uuid4 before it knows *)
(* whether it will be admitted, so Runs is at once the set of start() calls *)
(* and the set of run ids they drew.                                        *)
(***************************************************************************)
EXTENDS Naturals, Sequences, FiniteSets

CONSTANTS
    Runs,            \* start() calls, and the run ids they drew
    Cancellers,      \* cancel() calls
    Closers,         \* close(wait=True) calls
    Requests,        \* [owner, key, print, live]: what start() is called with
    NoKey,           \* a request without an idempotency key
    None,            \* no run, no request, no holder of self._lock
    MaxConcurrency,  \* worker threads of the executor
    MaxQueued,       \* admitted runs beyond the workers
    MaxLive,         \* max_live_concurrency
    MaxLivePerDay,   \* max_live_runs_per_utc_day
    MaxDay,          \* bound: UTC days the clock may reach
    MaxTraces,       \* bound: trace events per run
    MaxFaults,       \* bound: SQLite errors
    MaxGen           \* bound: service instances over the life of the directory

Threads == Runs \cup Cancellers \cup Closers

ASSUME RunServiceAssumption ==
    /\ MaxConcurrency \in Nat \ {0} /\ MaxQueued \in Nat
    /\ MaxLive \in Nat \ {0} /\ MaxLivePerDay \in Nat \ {0}
    /\ MaxDay \in Nat \ {0} /\ MaxTraces \in Nat
    /\ MaxFaults \in Nat /\ MaxGen \in Nat \ {0}
    /\ IsFiniteSet(Runs)
    /\ Runs \cap (Cancellers \cup Closers) = {} /\ Cancellers \cap Closers = {}
    /\ None \notin Requests \cup Threads
    /\ \A q \in Requests : q.live \in BOOLEAN

ActiveStatuses == {"queued", "running", "cancelling"}
TerminalStatuses == {"completed", "failed", "cancelled", "timed_out", "interrupted"}
Statuses == {"absent"} \cup ActiveStatuses \cup TerminalStatuses
TerminalKinds ==
    {"completed", "failed", "cancellation_acknowledged", "timed_out", "interrupted"}
Kinds == TerminalKinds \cup {"queued", "started", "trace", "cancellation_requested"}

VARIABLES
    \* runs.sqlite3: the rows and the append-only run_events table
    status, req, day, cancelReq, log,
    \* runs.lock: the instance that holds it (0: nobody)
    lockHolder,
    \* the current instance: its number, _closed, who holds self._lock across
    \* steps, the executor's futures, the keys of _futures and of _loops
    gen, closed, mutex, future, known, loops,
    \* one worker per run: where _worker() is, runs whose task was cancelled,
    \* runs with a sticky trace failure
    wpc, taskCancelled, traceLost,
    \* the API threads
    th,
    \* the environment: the UTC day, the runs whose deadline_at has passed, and
    \* the SQLite errors met so far
    today, expired, faults

rows == <<status, req, day, cancelReq, log>>
service == <<gen, closed, mutex, future, known, loops>>
workers == <<wpc, taskCancelled, traceLost>>
environment == <<today, expired, faults>>
vars == <<rows, lockHolder, service, workers, th, environment>>

Active == {r \in Runs : status[r] \in ActiveStatuses}
LiveActive == {r \in Active : req[r].live}
LiveOn(d) == {r \in Runs : status[r] # "absent" /\ req[r].live /\ day[r] = d}
Busy == {r \in Runs : future[r] = "running"}
Serving == lockHolder # 0
Traces(r) == Cardinality({i \in 1..Len(log[r]) : log[r][i] = "trace"})

\* A call that has not begun, and one that ended with an answer or an exception.
Waiting == [pc |-> "idle", req |-> None, run |-> None, day |-> 0, gen |-> 0,
            sigs |-> {}, futs |-> {}]
Ended(q, r) == [Waiting EXCEPT !.pc = "done", !.req = q, !.run = r]
Becomes(t, call) == th' = [th EXCEPT ![t] = call]
Move(t, pc) == Becomes(t, [th[t] EXCEPT !.pc = pc])
Return(t, q, r) == Becomes(t, Ended(q, r))

\* _insert_event; and _finish followed by its event, in one transaction.
Note(r, kind) == log' = [log EXCEPT ![r] = Append(@, kind)]
Finish(r, s, kind) == status' = [status EXCEPT ![r] = s] /\ Note(r, kind)

\* A SQLite error: a transaction rolls back and its caller sees the exception.
\* Those of admission, of cancel()'s marking and of __init__ leave all as it was
\* and are not actions; the others come after something else has changed.
StoreError == faults < MaxFaults /\ faults' = faults + 1

Init ==
    /\ status = [r \in Runs |-> "absent"]
    /\ req = [r \in Runs |-> None]
    /\ day = [r \in Runs |-> 0]
    /\ cancelReq = [r \in Runs |-> FALSE]
    /\ log = [r \in Runs |-> <<>>]
    /\ lockHolder = 1 /\ gen = 1
    /\ closed = FALSE /\ mutex = None
    /\ future = [r \in Runs |-> "none"]
    /\ known = {} /\ loops = {}
    /\ wpc = [r \in Runs |-> "idle"]
    /\ taskCancelled = {} /\ traceLost = {}
    /\ th = [t \in Threads |-> Waiting]
    /\ today = 1 /\ expired = {} /\ faults = 0

-----------------------------------------------------------------------------
(* start()                                                                  *)

\* Validation, the unlocked read of _closed, and `now`, all taken before the
\* admission transaction begins.
StartCheck(r, q) ==
    /\ th[r].pc = "idle" /\ Serving /\ ~closed
    /\ Becomes(r, [Waiting EXCEPT !.pc = "admit", !.req = q, !.day = today, !.gen = gen])
    /\ UNCHANGED <<rows, lockHolder, service, workers, environment>>

SameKey(r, q) ==
    status[r] # "absent" /\ q.key # NoKey /\ req[r].owner = q.owner /\ req[r].key = q.key

\* Mutant: the limit itself still admits one more.
HasCapacityOffByOne(q, d) ==
    /\ Cardinality(Active) <= MaxConcurrency + MaxQueued
    /\ q.live => /\ Cardinality(LiveActive) < MaxLive
                 /\ Cardinality(LiveOn(d)) < MaxLivePerDay

\* Capacity, then for a live profile concurrency and the daily cap.
HasCapacity(q, d) ==
    /\ Cardinality(Active) < MaxConcurrency + MaxQueued
    /\ q.live => /\ Cardinality(LiveActive) < MaxLive
                 /\ Cardinality(LiveOn(d)) < MaxLivePerDay

\* Mutant: the fingerprint of the stored request is not compared.
AdmitExistingAny(r, x) ==
    /\ th[r].pc = "admit" /\ SameKey(x, th[r].req)
    /\ Return(r, th[r].req, x)
    /\ UNCHANGED <<rows, lockHolder, service, workers, environment>>

\* The idempotency key is taken: the same request gets that run's status,
\* another one an IdempotencyConflict.
AdmitExisting(r, x) ==
    /\ th[r].pc = "admit" /\ SameKey(x, th[r].req)
    /\ Return(r, th[r].req, IF req[x].print = th[r].req.print THEN x ELSE None)
    /\ UNCHANGED <<rows, lockHolder, service, workers, environment>>

AdmitRejected(r) ==
    /\ th[r].pc = "admit"
    /\ ~\E x \in Runs : SameKey(x, th[r].req)
    /\ ~HasCapacity(th[r].req, th[r].day)
    /\ Return(r, th[r].req, None)
    /\ UNCHANGED <<rows, lockHolder, service, workers, environment>>

AdmitNew(r) ==
    /\ th[r].pc = "admit"
    /\ ~\E x \in Runs : SameKey(x, th[r].req)
    /\ HasCapacity(th[r].req, th[r].day)
    /\ status' = [status EXCEPT ![r] = "queued"]
    /\ req' = [req EXCEPT ![r] = th[r].req]
    /\ day' = [day EXCEPT ![r] = th[r].day]
    /\ Note(r, "queued")
    /\ Move(r, "submit")
    /\ UNCHANGED <<cancelReq, lockHolder, service, workers, environment>>

\* The critical section after admission hands the run to the executor ...
StartSubmit(r) ==
    /\ th[r].pc = "submit" /\ th[r].gen = gen /\ ~closed /\ mutex = None
    /\ future' = [future EXCEPT ![r] = "pending"]
    /\ known' = known \cup {r}
    /\ Return(r, th[r].req, r)
    /\ UNCHANGED <<rows, lockHolder, gen, closed, mutex, loops, workers, environment>>

\* ... or takes it back when close() came first.  A call on an instance that a
\* later one has replaced sees its own _closed and its own lock.
StartTakeBack(r) ==
    /\ th[r].pc = "submit"
    /\ th[r].gen # gen \/ (closed /\ mutex = None)
    /\ Finish(r, "cancelled", "cancellation_acknowledged")
    /\ Return(r, th[r].req, None)
    /\ UNCHANGED <<req, day, cancelReq, lockHolder, service, workers, environment>>

\* The transaction that takes it back fails: start() raises and the run stays
\* active, with nobody to execute it.
StartTakeBackError(r) ==
    /\ th[r].pc = "submit" /\ StoreError
    /\ th[r].gen # gen \/ (closed /\ mutex = None)
    /\ Return(r, th[r].req, None)
    /\ UNCHANGED <<rows, lockHolder, service, workers, today, expired>>

-----------------------------------------------------------------------------
(* cancel()                                                                 *)

\* Mutant: the status read before the transaction is trusted inside it.
CancelMarkStale(t, r) ==
    /\ th[t].pc = "idle" /\ Serving
    /\ status[r] # "absent"
    /\ status' = [status EXCEPT ![r] = "cancelling"]
    /\ cancelReq' = [cancelReq EXCEPT ![r] = TRUE]
    /\ Note(r, "cancellation_requested")
    /\ Becomes(t, [Waiting EXCEPT !.pc = "signal", !.run = r, !.gen = gen])
    /\ UNCHANGED <<req, day, lockHolder, service, workers, environment>>

CancelMark(t, r) ==
    /\ th[t].pc = "idle" /\ Serving
    /\ status[r] \in ActiveStatuses
    /\ status' = [status EXCEPT ![r] = "cancelling"]
    /\ cancelReq' = [cancelReq EXCEPT ![r] = TRUE]
    /\ Note(r, "cancellation_requested")
    /\ Becomes(t, [Waiting EXCEPT !.pc = "signal", !.run = r, !.gen = gen])
    /\ UNCHANGED <<req, day, lockHolder, service, workers, environment>>

\* Under self._lock: interrupt the task whose loop is registered ...
CancelRunning(t) ==
    /\ th[t].pc = "signal" /\ th[t].gen = gen /\ mutex = None
    /\ th[t].run \in loops
    /\ taskCancelled' = taskCancelled \cup {th[t].run}
    /\ Return(t, None, th[t].run)
    /\ UNCHANGED <<rows, lockHolder, service, wpc, traceLost, environment>>

\* ... or withdraw the future the pool has not taken and finish the run here.
\* future.cancel() is also true of a future that is already cancelled, but such
\* a future has left _futures.
CancelQueued(t) ==
    /\ th[t].pc = "signal" /\ th[t].gen = gen /\ mutex = None
    /\ LET r == th[t].run IN
       /\ r \in known \ loops /\ future[r] = "pending"
       /\ future' = [future EXCEPT ![r] = "cancelled"]
       /\ known' = known \ {r}
       /\ Finish(r, "cancelled", "cancellation_acknowledged")
       /\ Return(t, None, r)
    /\ UNCHANGED <<req, day, cancelReq, lockHolder, gen, closed, mutex, loops,
                   workers, environment>>

\* ... and if that transaction fails, the future is withdrawn and has left
\* _futures, but the run stays cancelling ...
CancelQueuedError(t) ==
    /\ th[t].pc = "signal" /\ th[t].gen = gen /\ mutex = None /\ StoreError
    /\ LET r == th[t].run IN
       /\ r \in known \ loops /\ future[r] = "pending"
       /\ future' = [future EXCEPT ![r] = "cancelled"]
       /\ known' = known \ {r}
    /\ Return(t, None, None)
    /\ UNCHANGED <<rows, lockHolder, gen, closed, mutex, loops, workers, today, expired>>

\* ... or find neither: the worker is between the two, or the run is over.
CancelNothing(t) ==
    /\ th[t].pc = "signal"
    /\ LET r == th[t].run IN
       \/ th[t].gen # gen
       \/ mutex = None /\ r \notin loops /\ (r \in known => future[r] # "pending")
    /\ Return(t, None, th[t].run)
    /\ UNCHANGED <<rows, lockHolder, service, workers, environment>>

-----------------------------------------------------------------------------
(* close(wait=True)                                                         *)

CloseBegin(t) ==
    /\ th[t].pc = "idle" /\ Serving /\ mutex = None /\ ~closed
    /\ closed' = TRUE /\ mutex' = t
    /\ Move(t, "mark")
    /\ UNCHANGED <<rows, lockHolder, gen, future, known, loops, workers, environment>>

\* Mutant: self._lock is kept for the rest of close().
CloseMarkHolding(t) ==
    /\ th[t].pc = "mark"
    /\ status' = [r \in Runs |-> IF r \in Active THEN "cancelling" ELSE status[r]]
    /\ log' = [r \in Runs |-> IF r \in Active /\ ~cancelReq[r]
                              THEN Append(log[r], "cancellation_requested") ELSE log[r]]
    /\ cancelReq' = [r \in Runs |-> cancelReq[r] \/ r \in Active]
    /\ Becomes(t, [th[t] EXCEPT !.pc = "loops", !.sigs = loops, !.futs = known])
    /\ UNCHANGED <<req, day, lockHolder, gen, closed, mutex, future, known, loops,
                   workers, environment>>

\* Still inside self._lock: every active row is marked, then the loops and
\* futures are copied and the lock is given up.
CloseMark(t) ==
    /\ th[t].pc = "mark"
    /\ status' = [r \in Runs |-> IF r \in Active THEN "cancelling" ELSE status[r]]
    /\ log' = [r \in Runs |-> IF r \in Active /\ ~cancelReq[r]
                              THEN Append(log[r], "cancellation_requested") ELSE log[r]]
    /\ cancelReq' = [r \in Runs |-> cancelReq[r] \/ r \in Active]
    /\ Becomes(t, [th[t] EXCEPT !.pc = "loops", !.sigs = loops, !.futs = known])
    /\ mutex' = None
    /\ UNCHANGED <<req, day, lockHolder, gen, closed, future, known, loops,
                   workers, environment>>

\* The marking transaction fails: _closed stays set and close() is over.
CloseMarkError(t) ==
    /\ th[t].pc = "mark" /\ StoreError
    /\ mutex' = None
    /\ Move(t, "raised")
    /\ UNCHANGED <<rows, lockHolder, gen, closed, future, known, loops, workers,
                   today, expired>>

\* call_soon_threadsafe runs outside self._lock ...
CloseSignal(t, r) ==
    /\ th[t].pc = "loops" /\ r \in th[t].sigs /\ wpc[r] # "done"
    /\ taskCancelled' = taskCancelled \cup {r}
    /\ Becomes(t, [th[t] EXCEPT !.sigs = @ \ {r}])
    /\ UNCHANGED <<rows, lockHolder, service, wpc, traceLost, environment>>

\* ... where a loop its worker has closed meanwhile raises RuntimeError, and
\* nothing catches it: the rest of close() is skipped.
CloseSignalError(t, r) ==
    /\ th[t].pc = "loops" /\ r \in th[t].sigs /\ wpc[r] = "done"
    /\ Move(t, "raised")
    /\ UNCHANGED <<rows, lockHolder, service, workers, environment>>

\* Mutant: the rows of withdrawn futures are left for somebody else to finish.
CloseFutureSilent(t, r) ==
    /\ th[t].pc = "loops" /\ th[t].sigs = {} /\ r \in th[t].futs
    /\ future[r] \in {"pending", "cancelled"} /\ mutex = None
    /\ future' = [future EXCEPT ![r] = "cancelled"]
    /\ known' = known \ {r}
    /\ Becomes(t, [th[t] EXCEPT !.futs = @ \ {r}])
    /\ UNCHANGED <<rows, lockHolder, gen, closed, mutex, loops, workers, environment>>

\* future.cancel() succeeds on a pending future, and on one that cancel()
\* withdrew after the copy was taken.
CloseFuture(t, r) ==
    /\ th[t].pc = "loops" /\ th[t].sigs = {} /\ r \in th[t].futs
    /\ future[r] \in {"pending", "cancelled"} /\ mutex = None
    /\ future' = [future EXCEPT ![r] = "cancelled"]
    /\ known' = known \ {r}
    /\ Finish(r, "cancelled", "cancellation_acknowledged")
    /\ Becomes(t, [th[t] EXCEPT !.futs = @ \ {r}])
    /\ UNCHANGED <<req, day, cancelReq, lockHolder, gen, closed, mutex, loops,
                   workers, environment>>

\* If that transaction fails, the future is withdrawn, the run stays cancelling
\* and the rest of close() is skipped.
CloseFutureError(t, r) ==
    /\ th[t].pc = "loops" /\ th[t].sigs = {} /\ r \in th[t].futs
    /\ future[r] \in {"pending", "cancelled"} /\ mutex = None /\ StoreError
    /\ future' = [future EXCEPT ![r] = "cancelled"]
    /\ known' = known \ {r}
    /\ Move(t, "raised")
    /\ UNCHANGED <<rows, lockHolder, gen, closed, mutex, loops, workers, today, expired>>

\* executor.shutdown(cancel_futures=True): what is still queued is dropped, and
\* futures the pool has taken are waited for.
CloseShutdown(t) ==
    /\ th[t].pc = "loops" /\ th[t].sigs = {}
    /\ \A r \in th[t].futs : future[r] \notin {"pending", "cancelled"}
    /\ future' = [r \in Runs |-> IF future[r] = "pending" THEN "cancelled" ELSE future[r]]
    /\ known' = {r \in known : future[r] # "pending"}
    /\ Becomes(t, [th[t] EXCEPT !.pc = "join", !.futs = {}])
    /\ UNCHANGED <<rows, lockHolder, gen, closed, mutex, loops, workers, environment>>

CloseRelease(t) ==
    /\ th[t].pc = "join" /\ Busy = {}
    /\ lockHolder' = 0
    /\ Return(t, None, None)
    /\ UNCHANGED <<rows, service, workers, environment>>

-----------------------------------------------------------------------------
(* _worker()                                                                *)

Goto(r, pc) == wpc' = [wpc EXCEPT ![r] = pc]
Worker(r, from, to) == wpc[r] = from /\ Goto(r, to)

WorkerTake(r) ==
    /\ future[r] = "pending" /\ Cardinality(Busy) < MaxConcurrency
    /\ future' = [future EXCEPT ![r] = "running"]
    /\ Worker(r, "idle", "claim")
    /\ UNCHANGED <<rows, lockHolder, gen, closed, mutex, known, loops,
                   taskCancelled, traceLost, th, environment>>

\* The claiming transaction: run it, unless it was cancelled while it waited.
\* The row of a run the pool takes is always queued or cancelling: the branch
\* for a row that is neither cannot be reached (OutcomeInv).
WorkerClaim(r) ==
    /\ status[r] \in {"queued", "cancelling"} /\ ~cancelReq[r]
    /\ Worker(r, "claim", "build")
    /\ Finish(r, "running", "started")
    /\ UNCHANGED <<req, day, cancelReq, lockHolder, service, taskCancelled, traceLost,
                   th, environment>>

\* Mutant: a run cancelled in the queue is skipped without an outcome.
WorkerClaimSkipped(r) ==
    /\ status[r] \in {"queued", "cancelling"} /\ cancelReq[r]
    /\ Worker(r, "claim", "close")
    /\ UNCHANGED <<rows, lockHolder, service, taskCancelled, traceLost, th, environment>>

WorkerClaimCancelled(r) ==
    /\ status[r] \in {"queued", "cancelling"} /\ cancelReq[r]
    /\ Worker(r, "claim", "close")
    /\ Finish(r, "cancelled", "cancellation_acknowledged")
    /\ UNCHANGED <<req, day, cancelReq, lockHolder, service, taskCancelled, traceLost,
                   th, environment>>

\* The controller builder and the deadline computed from the row.
WorkerBuild(r) ==
    /\ \/ r \notin expired /\ Worker(r, "build", "register")
       \/ r \in expired /\ Worker(r, "build", "timeout")
       \/ Worker(r, "build", "fail")
    /\ UNCHANGED <<rows, lockHolder, service, taskCancelled, traceLost, th, environment>>

WorkerRegister(r) ==
    /\ mutex = None
    /\ loops' = loops \cup {r}
    /\ Worker(r, "register", "check")
    /\ UNCHANGED <<rows, lockHolder, gen, closed, mutex, future, known,
                   taskCancelled, traceLost, th, environment>>

\* Mutant: only _closed is read after the registration.
WorkerCheckClosed(r) ==
    /\ Worker(r, "check", "run")
    /\ taskCancelled' = IF closed THEN taskCancelled \cup {r} ELSE taskCancelled
    /\ UNCHANGED <<rows, lockHolder, service, traceLost, th, environment>>

\* A cancel that came before the registration found no loop to signal, so the
\* row and _closed are read again after it.
WorkerCheck(r) ==
    /\ Worker(r, "check", "run")
    /\ taskCancelled' = IF cancelReq[r] \/ closed THEN taskCancelled \cup {r}
                                                  ELSE taskCancelled
    /\ UNCHANGED <<rows, lockHolder, service, traceLost, th, environment>>

\* How run_until_complete(wait_for(task, remaining)) ends.
RunCancelled(r) ==
    /\ r \in taskCancelled
    /\ Worker(r, "run", "cancel")
    /\ UNCHANGED <<rows, lockHolder, service, taskCancelled, traceLost, th, environment>>

RunDeadline(r) ==
    /\ r \in expired
    /\ Worker(r, "run", "timeout")
    /\ UNCHANGED <<rows, lockHolder, service, taskCancelled, traceLost, th, environment>>

\* The controller raises; a TimeoutError of its own is taken for the deadline.
RunRaises(r) ==
    /\ Worker(r, "run", "fail") \/ Worker(r, "run", "timeout")
    /\ UNCHANGED <<rows, lockHolder, service, taskCancelled, traceLost, th, environment>>

\* It returns; a trace failure it swallowed is raised now.
RunReturns(r) ==
    /\ Worker(r, "run", IF r \in traceLost THEN "fail" ELSE "complete")
    /\ UNCHANGED <<rows, lockHolder, service, taskCancelled, traceLost, th, environment>>

\* record_trace, called from the controller: once a write has failed every
\* later call raises the same error without writing.
Trace(r) ==
    /\ wpc[r] = "run" /\ r \notin traceLost /\ Traces(r) < MaxTraces
    /\ status[r] \notin TerminalStatuses
    /\ Note(r, "trace")
    /\ UNCHANGED <<status, req, day, cancelReq, lockHolder, service, workers, th, environment>>

TraceError(r) ==
    /\ wpc[r] = "run" /\ r \notin traceLost /\ StoreError
    /\ traceLost' = traceLost \cup {r}
    /\ UNCHANGED <<rows, lockHolder, service, wpc, taskCancelled, th, today, expired>>

\* Mutant: _complete trusts that a cancelled run ends in CancelledError.
WorkerCompleteTrusting(r) ==
    /\ Worker(r, "complete", "unregister")
    /\ \/ r \in expired /\ Finish(r, "timed_out", "timed_out")
       \/ r \notin expired /\ Finish(r, "completed", "completed")
    /\ UNCHANGED <<req, day, cancelReq, lockHolder, service, taskCancelled, traceLost,
                   th, environment>>

\* _complete: cancellation, then the deadline, win over a finished result.
WorkerComplete(r) ==
    /\ Worker(r, "complete", "unregister")
    /\ \/ cancelReq[r] /\ Finish(r, "cancelled", "cancellation_acknowledged")
       \/ ~cancelReq[r] /\ r \in expired /\ Finish(r, "timed_out", "timed_out")
       \/ ~cancelReq[r] /\ r \notin expired /\ Finish(r, "completed", "completed")
    /\ UNCHANGED <<req, day, cancelReq, lockHolder, service, taskCancelled, traceLost,
                   th, environment>>

\* _cancelled, _timed_out and _failed write whatever the row holds.
WorkerStop(r) ==
    /\ \/ Worker(r, "cancel", "unregister")
          /\ Finish(r, "cancelled", "cancellation_acknowledged")
       \/ Worker(r, "timeout", "unregister") /\ Finish(r, "timed_out", "timed_out")
       \/ Worker(r, "fail", "unregister") /\ Finish(r, "failed", "failed")
    /\ UNCHANGED <<req, day, cancelReq, lockHolder, service, taskCancelled, traceLost,
                   th, environment>>

\* A transaction of the worker fails.  The claim and the read after it are
\* outside the try; the read after the registration and _complete are inside it,
\* so that error fails the run; an error in a handler leaves the row active with
\* no worker.
WorkerError(r) ==
    /\ \/ Worker(r, "claim", "close") \/ Worker(r, "build", "close")
       \/ Worker(r, "check", "fail") \/ Worker(r, "complete", "fail")
       \/ wpc[r] \in {"cancel", "timeout", "fail"} /\ Goto(r, "unregister")
    /\ StoreError
    /\ UNCHANGED <<rows, lockHolder, service, taskCancelled, traceLost, th, today, expired>>

\* The finally clause under self._lock, then loop.close() and the future's
\* done-callback (_discard_future), which takes self._lock again.
WorkerUnregister(r) ==
    /\ mutex = None
    /\ loops' = loops \ {r}
    /\ Worker(r, "unregister", "close")
    /\ UNCHANGED <<rows, lockHolder, gen, closed, mutex, future, known,
                   taskCancelled, traceLost, th, environment>>

WorkerClose(r) ==
    /\ mutex = None
    /\ future' = [future EXCEPT ![r] = "done"]
    /\ known' = known \ {r} /\ loops' = loops \ {r}
    /\ Worker(r, "close", "done")
    /\ UNCHANGED <<rows, lockHolder, gen, closed, mutex, taskCancelled, traceLost,
                   th, environment>>

-----------------------------------------------------------------------------
(* The process and the clock                                                *)

\* The process dies: the lock file is unlocked and memory is gone.
Crash ==
    /\ Serving
    /\ lockHolder' = 0
    /\ closed' = FALSE /\ mutex' = None
    /\ future' = [r \in Runs |-> "none"] /\ known' = {} /\ loops' = {}
    /\ wpc' = [r \in Runs |-> "idle"] /\ taskCancelled' = {} /\ traceLost' = {}
    /\ th' = [t \in Threads |-> IF th[t].pc = "idle" THEN Waiting ELSE Ended(None, None)]
    /\ UNCHANGED <<rows, gen, environment>>

\* Mutant: rows are interrupted without an event.
BootSilent ==
    /\ ~Serving /\ gen < MaxGen
    /\ gen' = gen + 1 /\ lockHolder' = gen + 1
    /\ closed' = FALSE /\ mutex' = None
    /\ future' = [r \in Runs |-> "none"] /\ known' = {} /\ loops' = {}
    /\ wpc' = [r \in Runs |-> "idle"] /\ taskCancelled' = {} /\ traceLost' = {}
    /\ status' = [r \in Runs |-> IF r \in Active THEN "interrupted" ELSE status[r]]
    /\ UNCHANGED <<req, day, cancelReq, log, th, environment>>

\* __init__: the lock, then the rows that the previous instance left active.
Boot ==
    /\ ~Serving /\ gen < MaxGen
    /\ gen' = gen + 1 /\ lockHolder' = gen + 1
    /\ closed' = FALSE /\ mutex' = None
    /\ future' = [r \in Runs |-> "none"] /\ known' = {} /\ loops' = {}
    /\ wpc' = [r \in Runs |-> "idle"] /\ taskCancelled' = {} /\ traceLost' = {}
    /\ status' = [r \in Runs |-> IF r \in Active THEN "interrupted" ELSE status[r]]
    /\ log' = [r \in Runs |-> IF r \in Active THEN Append(log[r], "interrupted") ELSE log[r]]
    /\ UNCHANGED <<req, day, cancelReq, th, environment>>

Expire(r) ==
    /\ status[r] \in ActiveStatuses /\ r \notin expired
    /\ expired' = expired \cup {r}
    /\ UNCHANGED <<rows, lockHolder, service, workers, th, today, faults>>

NextDay ==
    /\ today < MaxDay
    /\ today' = today + 1
    /\ UNCHANGED <<rows, lockHolder, service, workers, th, expired, faults>>

-----------------------------------------------------------------------------
Start(r) ==
    \/ \E q \in Requests : StartCheck(r, q)
    \/ \E x \in Runs : AdmitExisting(r, x)
    \/ AdmitRejected(r) \/ AdmitNew(r) \/ StartSubmit(r) \/ StartTakeBack(r)
    \/ StartTakeBackError(r)

Cancel(t) ==
    \/ \E r \in Runs : CancelMark(t, r)
    \/ CancelRunning(t) \/ CancelQueued(t) \/ CancelQueuedError(t) \/ CancelNothing(t)

CloseError(t) == CloseMarkError(t) \/ \E r \in Runs : CloseFutureError(t, r)

CloseStep(t) ==
    \/ CloseMark(t) \/ CloseShutdown(t) \/ CloseRelease(t)
    \/ \E r \in Runs : CloseSignal(t, r) \/ CloseSignalError(t, r) \/ CloseFuture(t, r)

\* What a worker does on its own account: everything but the controller's
\* choice to return, raise or trace, and SQLite's to fail.
WorkerStep(r) ==
    \/ WorkerTake(r) \/ WorkerClaim(r) \/ WorkerClaimCancelled(r)
    \/ WorkerBuild(r) \/ WorkerRegister(r) \/ WorkerCheck(r)
    \/ RunCancelled(r) \/ RunDeadline(r)
    \/ WorkerComplete(r) \/ WorkerStop(r) \/ WorkerUnregister(r) \/ WorkerClose(r)

ControllerStep(r) == RunRaises(r) \/ RunReturns(r) \/ Trace(r)

Next ==
    \/ \E r \in Runs : Start(r) \/ WorkerStep(r) \/ ControllerStep(r)
                       \/ TraceError(r) \/ WorkerError(r) \/ Expire(r)
    \/ \E t \in Cancellers : Cancel(t)
    \/ \E t \in Closers : CloseBegin(t) \/ CloseStep(t) \/ CloseError(t)
    \/ Crash \/ Boot \/ NextDay

Spec == Init /\ [][Next]_vars

\* Threads are scheduled and time passes; nobody has to call anything, the
\* controller need not return, and nothing has to crash or be restarted.
Fairness ==
    /\ \A r \in Runs : /\ WF_vars(WorkerStep(r)) /\ WF_vars(Expire(r))
                       /\ WF_vars(StartSubmit(r)) /\ WF_vars(StartTakeBack(r))
    /\ \A t \in Cancellers : WF_vars(CancelRunning(t) \/ CancelQueued(t) \/ CancelNothing(t))
    /\ \A t \in Closers : WF_vars(CloseStep(t))

LiveSpec == Spec /\ Fairness

-----------------------------------------------------------------------------
(* Properties                                                               *)

Executing == {"build", "register", "check", "run", "complete", "cancel", "timeout", "fail"}
WorkerPcs == Executing \cup {"idle", "claim", "unregister", "close", "done"}
Calls == [pc : {"idle", "admit", "submit", "signal", "mark", "loops", "join", "raised", "done"},
          req : Requests \cup {None}, run : Runs \cup {None}, day : Nat, gen : Nat,
          sigs : SUBSET Runs, futs : SUBSET Runs]

(* Every variable has its type. *)
TypeOK ==
    /\ status \in [Runs -> Statuses]
    /\ req \in [Runs -> Requests \cup {None}]
    /\ day \in [Runs -> Nat]
    /\ cancelReq \in [Runs -> BOOLEAN]
    /\ log \in [Runs -> Seq(Kinds)]
    /\ lockHolder \in Nat /\ gen \in Nat
    /\ closed \in BOOLEAN /\ mutex \in Closers \cup {None}
    /\ future \in [Runs -> {"none", "pending", "running", "cancelled", "done"}]
    /\ known \subseteq Runs /\ loops \subseteq Runs
    /\ wpc \in [Runs -> WorkerPcs]
    /\ taskCancelled \subseteq Runs /\ traceLost \subseteq Runs
    /\ th \in [Threads -> Calls]
    /\ today \in Nat /\ expired \subseteq Runs /\ faults \in Nat

(* However starts, cancellations, crashes and restarts interleave, the store  *)
(* never holds more active runs than workers and queue slots, more active live *)
(* runs than max_live_concurrency, or more live runs created on one UTC day    *)
(* than the daily cap.                                                        *)
AdmissionLimits ==
    /\ Cardinality(Active) <= MaxConcurrency + MaxQueued
    /\ Cardinality(LiveActive) <= MaxLive
    /\ \A d \in 1..MaxDay : Cardinality(LiveOn(d)) <= MaxLivePerDay

(* Retrying start() with an idempotency key can neither create a second run    *)
(* nor hand out a run of another owner or of another request.                 *)
IdempotentStart ==
    /\ \A r, x \in Runs : req[r] # None /\ SameKey(x, req[r]) => x = r
    /\ \A t \in Runs : th[t].pc = "done" /\ th[t].run # None =>
         /\ req[th[t].run].owner = th[t].req.owner
         /\ req[th[t].run].print = th[t].req.print

(* A run is completed, and so its result readable, only if no cancellation    *)
(* was requested, its deadline had not passed, and no trace event was lost,    *)
(* although all three can happen after the controller has returned.           *)
WithheldResult ==
    \A r \in Runs : status[r] = "completed" =>
        ~cancelReq[r] /\ r \notin expired /\ r \notin traceLost

(* The row and the event log tell one story: an active run has no outcome in   *)
(* its log, and the last event of a finished run is its outcome.              *)
OutcomeOf(r) == IF status[r] = "cancelled" THEN "cancellation_acknowledged" ELSE status[r]
HistoryMatchesRow ==
    \A r \in Runs :
        /\ status[r] \in ActiveStatuses =>
             \A i \in 1..Len(log[r]) : log[r][i] \notin TerminalKinds
        /\ status[r] \in TerminalStatuses =>
             log[r] # <<>> /\ log[r][Len(log[r])] = OutcomeOf(r)

(* Nothing overwrites what a worker reported, even while the service is being  *)
(* closed, reopened or restarted.                                             *)
WorkerOutcomeIsFinal ==
    [][\A r \in Runs : status[r] \in {"completed", "failed", "timed_out"} =>
           status'[r] = status[r] /\ log'[r] = log[r]]_vars

(* A worker that is executing owns an active row, and nobody holds or can take *)
(* the process lock of its directory but the instance it belongs to: the next  *)
(* instance never declares a run interrupted while it is still being executed. *)
ExecutingIsOwned ==
    \A r \in Runs :
        /\ wpc[r] \in Executing => status[r] \in {"running", "cancelling"}
        /\ wpc[r] \notin {"idle", "done"} => lockHolder = gen

(* A cancellation cannot fall between registering the loop and running it: a   *)
(* task that runs for a run to be cancelled was cancelled, or somebody is still *)
(* on the way to cancelling it (close() may have raised before it got there).  *)
CancelNotLost ==
    \A r \in Runs : wpc[r] = "run" /\ cancelReq[r] =>
        \/ r \in taskCancelled
        \/ \E t \in Cancellers : th[t].pc = "signal" /\ th[t].run = r
        \/ \E t \in Closers : \/ th[t].pc = "loops" /\ r \in th[t].sigs
                              \/ th[t].pc = "raised"

(* When close() gives the lock up, every run has its outcome, except a run     *)
(* that start() admitted and has yet to take back, or one a SQLite error left. *)
CleanShutdown ==
    closed /\ ~Serving /\ faults = 0 => \A r \in Active : th[r].pc = "submit"

(* An admitted run gets an outcome, by its deadline if not before, unless the  *)
(* process goes down first.                                                   *)
RunEnds ==
    \A r \in Runs : status[r] \in ActiveStatuses ~> (status[r] \in TerminalStatuses \/ ~Serving)

(* close() never waits for workers that wait for it: it gives up the lock or   *)
(* raises.                                                                    *)
CloseEnds == \A t \in Closers : th[t].pc = "mark" ~> th[t].pc \in {"raised", "done"}

(* A service whose runs have all completed can be closed, and the directory     *)
(* opened again: close() gets as far as releasing the process lock.  This is    *)
(* what test_restart_marks_abandoned_run_interrupted does                      *)
(* (tests/test_run_service.py:172-179) and, after wait(), the test at           *)
(* tests/test_requirements.py:99-109.                                          *)
CompletedServiceReopens ==
    (\A r \in Runs : status[r] = "completed") => \A t \in Closers : th[t].pc # "raised"

-----------------------------------------------------------------------------
(* The inductive invariant behind AdmissionLimits, WithheldResult and          *)
(* ExecutingIsOwned.                                                          *)

\* A run is absent until its call admits it, and the executor knows it only
\* after that call has submitted it.
CallInv ==
    \A r \in Runs :
        /\ th[r].pc \in {"idle", "admit"} => status[r] = "absent"
        /\ th[r].pc \in {"idle", "admit", "submit"} => future[r] = "none"
        /\ th[r].pc = "submit" \/ future[r] # "none" => status[r] # "absent"
        /\ th[r].pc = "submit" /\ th[r].gen = gen => status[r] \in {"queued", "cancelling"}

\* A worker is where its future says it is.
FutureInv ==
    \A r \in Runs :
        /\ future[r] = "running" <=> wpc[r] \notin {"idle", "done"}
        /\ future[r] \in {"none", "pending"} => wpc[r] = "idle"

\* The instance whose lock is held is the current one; without it nothing is
\* left to execute, and no thread can hand it more.
LockInv ==
    /\ lockHolder \in {0, gen} /\ gen # 0
    /\ \A t \in Threads : th[t].gen <= gen
    /\ ~Serving => /\ \A r \in Runs : future[r] \notin {"pending", "running"}
                   /\ closed \/ \A r \in Runs : th[r].pc # "submit" /\ th[r].pc # "admit"

Closing == {"mark", "loops", "join", "raised"}

\* One close() at a time, on an instance that holds its lock.
CloseInv ==
    /\ \A t \in Closers : th[t].pc \in Closing => closed /\ Serving
    /\ \A t, u \in Closers : th[t].pc \in Closing /\ th[u].pc \in Closing => t = u
    /\ \A t \in Closers : th[t].pc = "join" => \A r \in Runs : future[r] # "pending"

\* What the transactions of a worker find and guarantee.
OutcomeInv ==
    \A r \in Runs :
        /\ future[r] = "pending" \/ wpc[r] = "claim" => status[r] \in {"queued", "cancelling"}
        /\ wpc[r] \in Executing => status[r] \in {"running", "cancelling"}
        /\ wpc[r] = "complete" => r \notin traceLost
        /\ status[r] = "completed" => ~cancelReq[r] /\ r \notin expired /\ r \notin traceLost

Inv == TypeOK /\ CallInv /\ FutureInv /\ LockInv /\ CloseInv /\ OutcomeInv

=============================================================================
